---------------------------- MODULE BroadcastRow ----------------------------
(***************************************************************************)
(* The state every actor of the broadcast pipeline shares: one "Broadcast" *)
(* row, its "ContactOnBroadcast" recipient rows, and the slot of the       *)
(* BullMQ driver job.  The actors themselves are BroadcastPrepare,         *)
(* BroadcastDispatch and BroadcastPurge.                                   *)
(***************************************************************************)
EXTENDS Integers, FiniteSets

CONSTANTS
    Contacts,   \* the contacts a broadcast may be sent to
    MaxEpoch,   \* bound on resumeCount
    MaxFaults,  \* bound on crashed, failed or expired jobs
    CanBlock    \* whether the workspace owner may be blocked

ASSUME ContactsFinite == IsFiniteSet(Contacts)
ASSUME BoundsAreNaturals == MaxEpoch \in Nat /\ MaxFaults \in Nat
ASSUME CanBlockBoolean == CanBlock \in BOOLEAN

VARIABLES
    status,        \* Broadcast.status of a one-off broadcast
    epoch,         \* Broadcast.resumeCount, the dispatch epoch
    contactCount,  \* Broadcast.contactCount, NoCount while null
    handoff,       \* Broadcast.handoffCompletedAt is set
    deletion,      \* "none", "soft" (deletedAt set) or "hard" (row gone)
    recipient,     \* the ContactOnBroadcast row of each contact
    driverJob,     \* the epoch-free sendBroadcast job
    blocked,       \* isBlockedWorkspace
    faults         \* faults spent so far

rowVars == <<status, epoch, contactCount, handoff, deletion>>
sharedVars == <<rowVars, recipient, driverJob, blocked, faults>>

NoCount == -1

Statuses == {"draft", "scheduled", "sending", "cancelled", "sent", "failed"}
Deletions == {"none", "soft", "hard"}
Epochs == 0..MaxEpoch

\* "pending" is sent = false with no failedAt; "failed" is failedAt set.
RecipientStates == {"absent", "pending", "sent", "failed"}
JobSlots == {"none", "waiting", "active"}

Rows == {c \in Contacts : recipient[c] # "absent"}
Pending == {c \in Contacts : recipient[c] = "pending"}
NoRows == [c \in Contacts |-> "absent"]

\* queue.add with a deterministic jobId: a no-op while the id is taken.
Enqueued(slot) == IF slot = "none" THEN "waiting" ELSE slot

Fault == faults < MaxFaults /\ faults' = faults + 1

RowTypeOK ==
    /\ status \in Statuses
    /\ epoch \in Epochs
    /\ contactCount \in Nat \cup {NoCount}
    /\ handoff \in BOOLEAN
    /\ deletion \in Deletions
    /\ recipient \in [Contacts -> RecipientStates]
    /\ driverJob \in JobSlots
    /\ blocked \in BOOLEAN
    /\ faults \in 0..MaxFaults

-----------------------------------------------------------------------------
DeletableScopeAny == deletion = "none"

\* softDeleteBroadcasts: anything but a broadcast that is sending.
DeletableScope == status # "sending" /\ deletion = "none"

SoftDelete ==
    /\ DeletableScope
    /\ deletion' = "soft"
    /\ UNCHANGED <<status, epoch, contactCount, handoff, recipient, driverJob,
                   blocked, faults>>

\* cancelInFlightBroadcastsForWorkspace: no deletedAt filter, no epoch bump.
CampaignCleanup ==
    /\ status \in {"scheduled", "sending"} /\ deletion # "hard"
    /\ status' = "cancelled"
    /\ UNCHANGED <<epoch, contactCount, handoff, deletion, recipient, driverJob,
                   blocked, faults>>

\* The workspace owner is blocked or unblocked by an administrator.
ToggleBlocked ==
    /\ CanBlock
    /\ blocked' = ~blocked
    /\ UNCHANGED <<rowVars, recipient, driverJob, faults>>

RowNext == SoftDelete \/ CampaignCleanup \/ ToggleBlocked
=============================================================================

-------------------------- MODULE BroadcastPrepare --------------------------
(***************************************************************************)
(* From draft to sending: scheduling a draft, moving it back, the minute   *)
(* tick that enqueues the prepare job, the prepare job that writes one     *)
(* recipient row per contact of the audience and promotes the broadcast,   *)
(* and the background cleanup of rows an interrupted prepare left behind.  *)
(*                                                                         *)
(* Every await of the code is a step boundary: what a handler read before  *)
(* it may be stale when the handler goes on.                               *)
(***************************************************************************)
EXTENDS BroadcastRow

CONSTANTS
    Users,            \* requests that schedule the draft concurrently
    StaleUsers,       \* those sent from a page that still shows a draft
    PrepareAttempts   \* BullMQ attempts of the prepare job

ASSUME StaleUsersAssumption == StaleUsers \subseteq Users
ASSUME AttemptsAssumption == PrepareAttempts \in Nat \ {0}

VARIABLES
    audience,   \* the contacts the saved filter and pages select
    due,        \* schedulesAt has passed
    listed,     \* an enqueue tick has read the row and not yet added its job
    prep,       \* the prepare job and the locals of its handler
    purgeJobs,  \* the purgeDraftBroadcastRecipients job of each requester
    check       \* the progress of each user's activation request

prepareVars == <<audience, due, listed, prep, purgeJobs, check>>
vars == <<sharedVars, prepareVars>>

Requesters == {"draft", "stalePrepare"}
PreparePCs == {"none", "waiting", "count", "walk", "check", "stale", "promote",
               "lost", "kick"}
\* A cleanup is "ending" once it has deleted for the last time.
PurgeJobStates == {"none", "live", "ending"}
CheckPCs == {"idle", "read", "jobFree", "refused", "pinned", "unpinned"}

TypeOK ==
    /\ RowTypeOK
    /\ audience \subseteq Contacts
    /\ due \in BOOLEAN /\ listed \in BOOLEAN
    /\ prep \in [pc : PreparePCs, epoch : Epochs, left : SUBSET Contacts,
                 count : Nat, tries : 0..PrepareAttempts]
    /\ purgeJobs \in [Requesters -> PurgeJobStates]
    /\ check \in [Users -> [pc : CheckPCs, epoch : Epochs]]

NoPrepare == [pc |-> "none", epoch |-> 0, left |-> {}, count |-> 0, tries |-> 0]
NoCheck == [pc |-> "idle", epoch |-> 0]

NoCleanup == [r \in Requesters |-> "none"]

\* Asking while the requester's cleanup is queued or running is a no-op: its
\* jobId is taken until it has ended.
Asked(r) == [purgeJobs EXCEPT ![r] = IF @ = "none" THEN "live" ELSE @]

-----------------------------------------------------------------------------
(* Users: drafts and schedules *)

DraftScope == status = "draft" /\ deletion = "none"
ScheduledScope == status = "scheduled" /\ deletion = "none"

\* updateDraft with saveAsDraft.
EditDraft ==
    /\ DraftScope
    /\ audience' \in SUBSET Contacts
    /\ UNCHANGED <<sharedVars, due, listed, prep, purgeJobs, check>>

NextDraftEpoch == epoch + 1

MoveToDraft ==
    /\ ScheduledScope
    /\ epoch < MaxEpoch
    /\ status' = "draft"
    /\ contactCount' = NoCount
    /\ handoff' = FALSE
    /\ epoch' = NextDraftEpoch
    /\ UNCHANGED <<deletion, recipient, driverJob, blocked, faults, prepareVars>>

PrepareJobLive == prep.pc # "none"

At(u, pc) == check[u].pc = pc
Goto(u, pc) == check' = [check EXCEPT ![u].pc = pc]

\* draftActivationScope reads the draft and its epoch; a row that is not a
\* draft yields the scope without the epoch pin.
ActivationRead(u) ==
    /\ At(u, "idle")
    /\ \/ DraftScope /\ check' = [check EXCEPT ![u] = [pc |-> "read", epoch |-> epoch]]
       \/ ~DraftScope /\ u \in StaleUsers /\ Goto(u, "unpinned")
    /\ UNCHANGED <<sharedVars, audience, due, listed, prep, purgeJobs>>

ActivationBlockedByJobNever == FALSE
ActivationBlockedByJob == PrepareJobLive

ActivationJobCheck(u) ==
    /\ At(u, "read")
    /\ Goto(u, IF ActivationBlockedByJob THEN "refused" ELSE "jobFree")
    /\ UNCHANGED <<sharedVars, audience, due, listed, prep, purgeJobs>>

ActivationRowCheck(u) ==
    /\ At(u, "jobFree")
    /\ Goto(u, IF Rows # {} THEN "refused" ELSE "pinned")
    /\ UNCHANGED <<sharedVars, audience, due, listed, prep, purgeJobs>>

RefusedPurgeJobs == Asked("draft")

\* A refused activation queues the cleanup again and throws.
ActivationRefused(u) ==
    /\ At(u, "refused")
    /\ purgeJobs' = RefusedPurgeJobs
    /\ check' = [check EXCEPT ![u] = NoCheck]
    /\ UNCHANGED <<sharedVars, audience, due, listed, prep>>

\* The scope of the write: a draft, at the epoch the checks were made for.
ActivationScope(u) == DraftScope /\ (At(u, "pinned") => epoch = check[u].epoch)

\* scheduleDraft keeps the draft's audience, updateDraft replaces it; either
\* picks a schedulesAt that is now or later.  The workspace's plan may refuse.
ActivationWrite(u) ==
    /\ check[u].pc \in {"pinned", "unpinned"}
    /\ \/ /\ ActivationScope(u)
          /\ status' = "scheduled"
          /\ audience' \in SUBSET Contacts
          /\ due' \in BOOLEAN
       \/ UNCHANGED <<status, audience, due>>
    /\ check' = [check EXCEPT ![u] = NoCheck]
    /\ UNCHANGED <<epoch, contactCount, handoff, deletion, recipient, driverJob,
                   blocked, faults, listed, prep, purgeJobs>>

SchedulesAtPasses ==
    /\ ~due
    /\ due' = TRUE
    /\ UNCHANGED <<sharedVars, audience, listed, prep, purgeJobs, check>>

UserNext ==
    \/ EditDraft \/ MoveToDraft \/ SchedulesAtPasses
    \/ \E u \in Users : \/ ActivationRead(u) \/ ActivationJobCheck(u)
                        \/ ActivationRowCheck(u) \/ ActivationRefused(u)
                        \/ ActivationWrite(u)

-----------------------------------------------------------------------------
(* enqueueBroadcast: list the due rows, then add one prepare job for each *)

EnqueueList ==
    /\ ~listed /\ ScheduledScope /\ due
    /\ listed' = TRUE
    /\ UNCHANGED <<sharedVars, audience, due, prep, purgeJobs, check>>

EnqueueAdd ==
    /\ listed
    /\ listed' = FALSE
    /\ prep' = IF PrepareJobLive THEN prep ELSE [NoPrepare EXCEPT !.pc = "waiting"]
    /\ UNCHANGED <<sharedVars, audience, due, purgeJobs, check>>

-----------------------------------------------------------------------------
(* prepareBroadcast *)

\* Without removeOnFail the failed job would keep its id.
FailedAttemptTombstone == [NoPrepare EXCEPT !.pc = "failed"]

\* An attempt that throws waits for its backoff; the last one frees the id.
FailedAttempt ==
    IF prep.tries + 1 < PrepareAttempts
      THEN [NoPrepare EXCEPT !.pc = "waiting", !.tries = prep.tries + 1]
      ELSE NoPrepare

\* findScheduledForPrepare, then isBlockedWorkspace.
PrepareStart ==
    /\ prep.pc = "waiting"
    /\ prep' = IF ScheduledScope /\ ~blocked
                 THEN [prep EXCEPT !.pc = "count", !.epoch = epoch, !.left = audience]
                 ELSE NoPrepare
    /\ UNCHANGED <<sharedVars, audience, due, listed, purgeJobs, check>>

InitialCountZero == 0
InitialCount == Cardinality(Rows)

PrepareCount ==
    /\ prep.pc = "count"
    /\ prep' = [prep EXCEPT !.pc = "walk", !.count = InitialCount]
    /\ UNCHANGED <<sharedVars, audience, due, listed, purgeJobs, check>>

\* insertRecipients: onConflictDoNothing, counting the rows written.
PrepareChunk ==
    /\ prep.pc = "walk" /\ deletion # "hard"
    /\ \E chunk \in (SUBSET prep.left) \ {{}} :
         /\ recipient' = [c \in Contacts |->
               IF c \in chunk \ Rows THEN "pending" ELSE recipient[c]]
         /\ prep' = [prep EXCEPT !.pc = "check", !.left = @ \ chunk,
                                 !.count = @ + Cardinality(chunk \ Rows)]
    /\ UNCHANGED <<rowVars, driverJob, blocked, faults, audience, due, listed,
                   purgeJobs, check>>

\* The broadcast was erased under the walk: the foreign key rejects the chunk.
PrepareRejected ==
    /\ prep.pc = "walk" /\ deletion = "hard" /\ prep.left # {}
    /\ prep' = FailedAttempt
    /\ UNCHANGED <<sharedVars, audience, due, listed, purgeJobs, check>>

PrepareWalked ==
    /\ prep.pc = "walk" /\ prep.left = {}
    /\ prep' = [prep EXCEPT !.pc = "promote"]
    /\ UNCHANGED <<sharedVars, audience, due, listed, purgeJobs, check>>

StillPreparing == ScheduledScope /\ epoch = prep.epoch

PrepareCheck ==
    /\ prep.pc = "check"
    /\ prep' = [prep EXCEPT !.pc = IF StillPreparing THEN "walk" ELSE "stale"]
    /\ UNCHANGED <<sharedVars, audience, due, listed, purgeJobs, check>>

StalePurgeJobsShared == Asked("draft")
StalePurgeJobs == Asked("stalePrepare")

\* The walk stops, yet the handler still goes on to the promotion.
PrepareStale ==
    /\ prep.pc = "stale"
    /\ purgeJobs' = StalePurgeJobs
    /\ prep' = [prep EXCEPT !.pc = "promote"]
    /\ UNCHANGED <<sharedVars, audience, due, listed, check>>

PromotionScope == ScheduledScope /\ epoch = prep.epoch

PreparePromote ==
    /\ prep.pc = "promote"
    /\ \/ /\ PromotionScope
          /\ status' = IF prep.count > 0 THEN "sending" ELSE "sent"
          /\ contactCount' = prep.count
          /\ prep' = IF prep.count > 0 THEN [prep EXCEPT !.pc = "kick"] ELSE NoPrepare
       \/ /\ ~PromotionScope
          /\ prep' = IF prep.count > 0 THEN [prep EXCEPT !.pc = "lost"] ELSE NoPrepare
          /\ UNCHANGED <<status, contactCount>>
    /\ UNCHANGED <<epoch, handoff, deletion, recipient, driverJob, blocked, faults,
                   audience, due, listed, purgeJobs, check>>

PrepareLost ==
    /\ prep.pc = "lost"
    /\ purgeJobs' = StalePurgeJobs
    /\ prep' = NoPrepare
    /\ UNCHANGED <<sharedVars, audience, due, listed, check>>

PrepareKick ==
    /\ prep.pc = "kick"
    /\ driverJob' = Enqueued(driverJob)
    /\ prep' = NoPrepare
    /\ UNCHANGED <<rowVars, recipient, blocked, faults, audience, due, listed,
                   purgeJobs, check>>

\* The worker dies or a call throws, anywhere in the handler.
PrepareFails ==
    /\ prep.pc \notin {"none", "waiting"}
    /\ Fault
    /\ prep' = FailedAttempt
    /\ UNCHANGED <<rowVars, recipient, driverJob, blocked, audience, due, listed,
                   purgeJobs, check>>

PrepareStep ==
    \/ PrepareStart \/ PrepareCount \/ PrepareChunk \/ PrepareRejected
    \/ PrepareWalked \/ PrepareCheck \/ PrepareStale \/ PreparePromote
    \/ PrepareLost \/ PrepareKick

-----------------------------------------------------------------------------
(* purgeDraftBroadcastRecipients *)

\* The guard inside every chunk's DELETE (onlyWhileDraft).
DraftGuard == status = "draft"

PurgeDraftChunk ==
    /\ \E r \in Requesters : purgeJobs[r] = "live"
    /\ DraftGuard
    /\ \E c \in Rows : recipient' = [recipient EXCEPT ![c] = "absent"]
    /\ UNCHANGED <<rowVars, driverJob, blocked, faults, prepareVars>>

\* A short chunk is the last one.
PurgeDraftShort(r) ==
    /\ purgeJobs[r] = "live"
    /\ ~DraftGuard \/ Rows = {}
    /\ purgeJobs' = [purgeJobs EXCEPT ![r] = "ending"]
    /\ UNCHANGED <<sharedVars, audience, due, listed, prep, check>>

\* The job is over and its jobId free.
PurgeDraftEnds(r) ==
    /\ purgeJobs[r] = "ending"
    /\ purgeJobs' = [purgeJobs EXCEPT ![r] = "none"]
    /\ UNCHANGED <<sharedVars, audience, due, listed, prep, check>>

\* It dies, gives up after its passes, or finds the rows locked or itself blocked.
PurgeDraftFails(r) ==
    /\ purgeJobs[r] # "none"
    /\ Fault
    /\ purgeJobs' = [purgeJobs EXCEPT ![r] = "none"]
    /\ UNCHANGED <<rowVars, recipient, driverJob, blocked, audience, due, listed,
                   prep, check>>

PurgeDraftNext ==
    \/ PurgeDraftChunk
    \/ \E r \in Requesters :
         PurgeDraftShort(r) \/ PurgeDraftEnds(r) \/ PurgeDraftFails(r)

-----------------------------------------------------------------------------
PrepareLocalInit ==
    /\ audience \in SUBSET Contacts
    /\ due \in BOOLEAN
    /\ listed = FALSE
    /\ prep = NoPrepare
    /\ purgeJobs = NoCleanup
    /\ check = [u \in Users |-> NoCheck]

\* create inserts a draft or, sent at once, a scheduled broadcast.
RowInit ==
    /\ status \in {"draft", "scheduled"}
    /\ epoch = 0
    /\ contactCount = NoCount
    /\ handoff = FALSE
    /\ deletion = "none"
    /\ recipient = NoRows
    /\ driverJob = "none"
    /\ blocked = FALSE
    /\ faults = 0

Init == RowInit /\ PrepareLocalInit

PrepareLocalNext ==
    \/ UserNext \/ EnqueueList \/ EnqueueAdd \/ PrepareStep \/ PrepareFails
    \/ PurgeDraftNext

\* What the purge tick (BroadcastPurge) does to a soft-deleted broadcast: it
\* drains the recipient rows, then erases the row and those written meanwhile.
RowsDrained ==
    /\ deletion = "soft" /\ status # "sending"
    /\ \E c \in Rows : recipient' = [recipient EXCEPT ![c] = "absent"]
    /\ UNCHANGED <<rowVars, driverJob, blocked, faults, prepareVars>>

RowErased ==
    /\ deletion = "soft" /\ status # "sending"
    /\ deletion' = "hard"
    /\ recipient' = NoRows
    /\ UNCHANGED <<status, epoch, contactCount, handoff, driverJob, blocked, faults,
                   prepareVars>>

EnvironmentNext == (RowNext /\ UNCHANGED prepareVars) \/ RowsDrained \/ RowErased

Next == PrepareLocalNext \/ EnvironmentNext

Spec == Init /\ [][Next]_vars

\* The cron tick and the queue workers keep running; users need not act.
Fairness ==
    /\ WF_vars(EnqueueList) /\ WF_vars(EnqueueAdd)
    /\ WF_vars(PrepareStep)
    /\ WF_vars(PurgeDraftChunk)
    /\ \A r \in Requesters : WF_vars(PurgeDraftShort(r)) /\ WF_vars(PurgeDraftEnds(r))

FairSpec == Spec /\ Fairness

-----------------------------------------------------------------------------
(* Properties *)

\* A broadcast is prepared once contactCount is set.  It then holds one
\* recipient row for each contact of the audience it was last scheduled with,
\* none for a contact of an earlier schedule, and its count is their number:
\* through stale prepare runs, retries, late enqueues and draft cleanups.
Prepared == contactCount # NoCount

SendsToTheAudience ==
    Prepared /\ deletion = "none" =>
        Rows = audience /\ contactCount = Cardinality(Rows)

\* A draft is never scheduled on top of rows that are not of its audience, and
\* no stale prepare adds one later (draftActivationScope).
NoLeftoversScheduled == ScheduledScope => Rows \subseteq audience

\* A due broadcast does not stay scheduled: a failed prepare frees its jobId
\* for the next tick.  One of a blocked workspace waits.
DueIsPrepared == (ScheduledScope /\ due) ~> (~(ScheduledScope /\ due) \/ blocked)

\* "any recipients it already wrote are cleared in the background"
\* (docs/broadcasts.md): what a prepare wrote before moveToDraft is cleared in
\* the end, so the draft can be scheduled again.
LeftoversCleared == (DraftScope /\ Rows # {}) ~> (~DraftScope \/ Rows = {})

InFlight == prep.pc \notin {"none", "waiting"}

\* The rows a stale prepare wrote on a draft have a cleanup that is still to
\* delete, or the prepare is there to ask for one: its request never folds into
\* a cleanup that has looked for the last time (broadcastDraftPurgeJobId).  So
\* it is while nothing fails and the broadcast has been moved back only once.
StaleRowsHaveACleanup ==
    DraftScope /\ Rows # {} /\ faults = 0 /\ epoch <= 1 =>
        InFlight \/ \E r \in Requesters : purgeJobs[r] = "live"

-----------------------------------------------------------------------------
(* Why SendsToTheAudience holds when no request is stale *)

\* contactCount is only set on a row that left its schedule for good, and the
\* prepare that set it has nothing left to write.
CountInv ==
    Prepared => status \notin {"draft", "scheduled"} /\ prep.pc \in {"none", "waiting", "kick"}

\* A prepare in flight on a draft is stale; on a schedule it is its own.
EpochInv ==
    /\ InFlight => prep.epoch <= epoch
    /\ InFlight /\ status = "draft" => prep.epoch < epoch
    /\ InFlight /\ status = "scheduled" => prep.epoch = epoch

\* What an activation has checked still holds for as long as its pin does.
CheckInv ==
    \A u \in Users :
        /\ check[u].pc # "unpinned"
        /\ check[u].epoch <= epoch
        /\ check[u].epoch = epoch /\ status = "draft" =>
              /\ check[u].pc \in {"jobFree", "pinned"} => ~InFlight
              /\ check[u].pc = "pinned" => Rows = {}

\* The walk covers the audience: what is written and what is left make it up.
WalkInv ==
    ScheduledScope =>
        /\ Rows \subseteq audience
        /\ prep.pc = "count" => prep.left = audience
        /\ prep.pc \in {"walk", "check", "promote"} =>
              Rows \cup prep.left = audience /\ prep.count = Cardinality(Rows)
        /\ prep.pc = "promote" => prep.left = {}
        /\ prep.pc \notin {"stale", "lost", "kick"}

AudienceInv == CountInv /\ EpochInv /\ CheckInv /\ WalkInv /\ SendsToTheAudience
=============================================================================

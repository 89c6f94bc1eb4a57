--------------------------- MODULE BroadcastProof ---------------------------
(***************************************************************************)
(* What holds of the whole pipeline, for any contacts, users and bounds:   *)
(* it implements the lifecycle of BroadcastLifecycle, what is proved of    *)
(* the dispatch alone holds in it, and, when no request is stale, nobody   *)
(* outside the audience is ever sent to.                                   *)
(*                                                                         *)
(* The two components' proofs are taken over: their lemmas speak of the    *)
(* pipeline's variables through the instances below.  What is left to show *)
(* is that a step of one component disturbs no invariant of the other.     *)
(***************************************************************************)
EXTENDS Broadcast, FiniteSetTheorems, TLAPS

PrepareProof == INSTANCE BroadcastPrepareProof
DispatchProof == INSTANCE BroadcastDispatchProof

-----------------------------------------------------------------------------
(* The components as the pipeline and as their proofs name them: the same   *)
(* formulas, expanded.                                                      *)

LEMMA Assumptions ==
    /\ PrepareProof!IsFiniteSet(Contacts) /\ DispatchProof!IsFiniteSet(Contacts)
    /\ MaxEpoch \in Nat /\ MaxFaults \in Nat /\ CanBlock \in BOOLEAN
    /\ StaleUsers \subseteq Users /\ PrepareAttempts \in Nat \ {0}
    /\ BatchSize \in [DispatchProof!Epochs -> Nat \ {0}] /\ Undeliverable \subseteq Contacts
    /\ RedisFailsOpen \in BOOLEAN
BY ContactsFinite, BoundsAreNaturals, CanBlockBoolean, StaleUsersAssumption,
   AttemptsAssumption, BatchAssumption, UndeliverableAssumption, RedisAssumption
DEF IsFiniteSet, PrepareProof!IsFiniteSet, DispatchProof!IsFiniteSet, Epochs,
    DispatchProof!Epochs

LEMMA SameInits ==
    /\ Prepare!Init <=> PrepareProof!Init
    /\ Dispatch!DispatchLocalInit <=> DispatchProof!DispatchLocalInit
<1>1. Prepare!Init <=> PrepareProof!Init
  BY
  DEF Prepare!Init, Prepare!RowInit, Prepare!PrepareLocalInit, Prepare!NoCount,
      Prepare!NoRows, Prepare!NoPrepare, Prepare!NoCheck, Prepare!NoCleanup,
      Prepare!Requesters, PrepareProof!Requesters, PrepareProof!NoCleanup, PrepareProof!Init,
      PrepareProof!RowInit, PrepareProof!PrepareLocalInit, PrepareProof!NoCount,
      PrepareProof!NoRows, PrepareProof!NoPrepare, PrepareProof!NoCheck
<1>2. Dispatch!DispatchLocalInit <=> DispatchProof!DispatchLocalInit
  BY
  DEF Dispatch!DispatchLocalInit, Dispatch!IdleDriver, Dispatch!Epochs,
      Dispatch!IdleFinalizer, Dispatch!NothingToDo, DispatchProof!DispatchLocalInit,
      DispatchProof!IdleDriver, DispatchProof!Epochs, DispatchProof!IdleFinalizer,
      DispatchProof!NothingToDo
<1> QED
  BY <1>1, <1>2

LEMMA SamePrepareStep == Prepare!PrepareLocalNext <=> PrepareProof!PrepareLocalNext
  BY
  DEF Prepare!PrepareLocalNext, Prepare!UserNext, Prepare!EnqueueList, Prepare!EnqueueAdd,
      Prepare!PrepareStep, Prepare!PrepareFails, Prepare!PurgeDraftNext, Prepare!EditDraft,
      Prepare!MoveToDraft, Prepare!SchedulesAtPasses, Prepare!ActivationRead,
      Prepare!ActivationJobCheck, Prepare!ActivationRowCheck, Prepare!ActivationRefused,
      Prepare!ActivationWrite, Prepare!ScheduledScope, Prepare!sharedVars,
      Prepare!PrepareJobLive, Prepare!NoPrepare, Prepare!PrepareStart, Prepare!PrepareCount,
      Prepare!PrepareChunk, Prepare!PrepareRejected, Prepare!PrepareWalked,
      Prepare!PrepareCheck, Prepare!PrepareStale, Prepare!PreparePromote,
      Prepare!PrepareLost, Prepare!PrepareKick, Prepare!Fault, Prepare!FailedAttempt,
      Prepare!rowVars, Prepare!PurgeDraftChunk, Prepare!Requesters, Prepare!Asked,
      Prepare!PurgeDraftShort, Prepare!PurgeDraftEnds, Prepare!PurgeDraftFails,
      Prepare!DraftScope, Prepare!NoCount, Prepare!NextDraftEpoch,
      Prepare!prepareVars, Prepare!At, Prepare!Goto, Prepare!ActivationBlockedByJob,
      Prepare!Rows, Prepare!RefusedPurgeJobs, Prepare!NoCheck, Prepare!ActivationScope,
      Prepare!InitialCount, Prepare!StillPreparing, Prepare!StalePurgeJobs,
      Prepare!PromotionScope, Prepare!Enqueued, Prepare!DraftGuard, Prepare!Cardinality,
      PrepareProof!PrepareLocalNext, PrepareProof!UserNext, PrepareProof!EnqueueList,
      PrepareProof!EnqueueAdd, PrepareProof!PrepareStep, PrepareProof!PrepareFails,
      PrepareProof!PurgeDraftNext, PrepareProof!EditDraft, PrepareProof!MoveToDraft,
      PrepareProof!SchedulesAtPasses, PrepareProof!ActivationRead,
      PrepareProof!ActivationJobCheck, PrepareProof!ActivationRowCheck,
      PrepareProof!ActivationRefused, PrepareProof!ActivationWrite,
      PrepareProof!ScheduledScope, PrepareProof!sharedVars, PrepareProof!PrepareJobLive,
      PrepareProof!NoPrepare, PrepareProof!PrepareStart, PrepareProof!PrepareCount,
      PrepareProof!PrepareChunk, PrepareProof!PrepareRejected, PrepareProof!PrepareWalked,
      PrepareProof!PrepareCheck, PrepareProof!PrepareStale, PrepareProof!PreparePromote,
      PrepareProof!PrepareLost, PrepareProof!PrepareKick, PrepareProof!Fault,
      PrepareProof!FailedAttempt, PrepareProof!rowVars, PrepareProof!PurgeDraftChunk,
      PrepareProof!Requesters, PrepareProof!Asked, PrepareProof!PurgeDraftShort,
      PrepareProof!PurgeDraftEnds, PrepareProof!PurgeDraftFails,
      PrepareProof!DraftScope, PrepareProof!NoCount, PrepareProof!NextDraftEpoch,
      PrepareProof!prepareVars, PrepareProof!At, PrepareProof!Goto,
      PrepareProof!ActivationBlockedByJob, PrepareProof!Rows, PrepareProof!RefusedPurgeJobs,
      PrepareProof!NoCheck, PrepareProof!ActivationScope, PrepareProof!InitialCount,
      PrepareProof!StillPreparing, PrepareProof!StalePurgeJobs, PrepareProof!PromotionScope,
      PrepareProof!Enqueued, PrepareProof!DraftGuard, PrepareProof!Cardinality

LEMMA SameDispatchStep == Dispatch!DispatchLocalNext <=> DispatchProof!DispatchLocalNext
  BY
  DEF Dispatch!DispatchLocalNext, Dispatch!StopSending, Dispatch!ResumeSending,
      Dispatch!Reconcile, Dispatch!WindowExpires, Dispatch!DriverStep,
      Dispatch!DriverCrashes, Dispatch!HandOffFails, Dispatch!ReceiptDelivered,
      Dispatch!ReceiptFailed, Dispatch!Epochs, Dispatch!JobStep, Dispatch!JobErrs,
      Dispatch!GraceElapses, Dispatch!FinalizeStep, Dispatch!FinalizeFails,
      Dispatch!Sendable, Dispatch!dispatchVars, Dispatch!ResumableScope,
      Dispatch!StillRunning, Dispatch!Enqueued, Dispatch!rowVars, Dispatch!sharedVars,
      Dispatch!DriverStart, Dispatch!DriverClaim, Dispatch!DriverFetch,
      Dispatch!DriverBatchDone, Dispatch!DriverClose, Dispatch!RejectRecipient,
      Dispatch!AddSendJob, Dispatch!MarkSent, Dispatch!Fault, Dispatch!IdleDriver,
      Dispatch!JobStart, Dispatch!JobSends, Dispatch!JobEnds, Dispatch!LeastOf,
      Dispatch!JobResets, Dispatch!RecordFailure,
      Dispatch!JobMoves, Dispatch!FinalizeList, Dispatch!FinalizeCount,
      Dispatch!FinalizeWrite, Dispatch!IdleFinalizer, Dispatch!NoCount, Dispatch!Unfinished,
      Dispatch!DriverEnds, Dispatch!Pending, Dispatch!NothingToDo, Dispatch!BatchEndsHere,
      Dispatch!HandOff, Dispatch!AddedJob, Dispatch!GuardPasses, Dispatch!ResetRow,
      Dispatch!AwaitingFinalization, Dispatch!FinalizeDue, Dispatch!TerminalStatus,
      Dispatch!OutcomesComplete, Dispatch!FailedRows, Dispatch!CompletedRows,
      Dispatch!MissingCap, Dispatch!MissingPerHundred, Dispatch!Cardinality,
      DispatchProof!DispatchLocalNext, DispatchProof!StopSending,
      DispatchProof!ResumeSending, DispatchProof!Reconcile, DispatchProof!WindowExpires,
      DispatchProof!DriverStep, DispatchProof!DriverCrashes, DispatchProof!HandOffFails,
      DispatchProof!ReceiptDelivered, DispatchProof!ReceiptFailed, DispatchProof!Epochs,
      DispatchProof!JobStep, DispatchProof!JobErrs, DispatchProof!GraceElapses,
      DispatchProof!FinalizeStep, DispatchProof!FinalizeFails, DispatchProof!Sendable,
      DispatchProof!dispatchVars, DispatchProof!ResumableScope, DispatchProof!StillRunning,
      DispatchProof!Enqueued, DispatchProof!rowVars, DispatchProof!sharedVars,
      DispatchProof!DriverStart, DispatchProof!DriverClaim, DispatchProof!DriverFetch,
      DispatchProof!DriverBatchDone, DispatchProof!DriverClose,
      DispatchProof!RejectRecipient, DispatchProof!AddSendJob, DispatchProof!MarkSent,
      DispatchProof!Fault, DispatchProof!IdleDriver, DispatchProof!JobStart,
      DispatchProof!JobSends, DispatchProof!JobEnds, DispatchProof!LeastOf,
      DispatchProof!JobResets, DispatchProof!RecordFailure,
      DispatchProof!JobMoves, DispatchProof!FinalizeList, DispatchProof!FinalizeCount,
      DispatchProof!FinalizeWrite, DispatchProof!IdleFinalizer, DispatchProof!NoCount,
      DispatchProof!Unfinished, DispatchProof!DriverEnds, DispatchProof!Pending,
      DispatchProof!NothingToDo, DispatchProof!BatchEndsHere, DispatchProof!HandOff,
      DispatchProof!AddedJob, DispatchProof!GuardPasses, DispatchProof!ResetRow,
      DispatchProof!AwaitingFinalization, DispatchProof!FinalizeDue,
      DispatchProof!TerminalStatus, DispatchProof!OutcomesComplete,
      DispatchProof!FailedRows, DispatchProof!CompletedRows, DispatchProof!MissingCap,
      DispatchProof!MissingPerHundred, DispatchProof!Cardinality

LEMMA SameRowTypes ==
    /\ RowTypeOK <=> PrepareProof!RowTypeOK
    /\ RowTypeOK <=> DispatchProof!RowTypeOK
    /\ RowTypeOK <=> Purge!RowTypeOK
    /\ RowTypeOK' <=> PrepareProof!RowTypeOK'
    /\ RowTypeOK' <=> DispatchProof!RowTypeOK'
    /\ RowTypeOK' <=> Purge!RowTypeOK'
  BY
  DEF RowTypeOK, Statuses, Epochs, NoCount, Deletions, RecipientStates, JobSlots,
      PrepareProof!RowTypeOK, PrepareProof!Statuses, PrepareProof!Epochs,
      PrepareProof!NoCount, PrepareProof!Deletions, PrepareProof!RecipientStates,
      PrepareProof!JobSlots, DispatchProof!RowTypeOK, DispatchProof!Statuses,
      DispatchProof!Epochs, DispatchProof!NoCount, DispatchProof!Deletions,
      DispatchProof!RecipientStates, DispatchProof!JobSlots, Purge!RowTypeOK,
      Purge!Statuses, Purge!Epochs, Purge!NoCount, Purge!Deletions, Purge!RecipientStates,
      Purge!JobSlots

LEMMA SameTypes ==
    /\ Prepare!TypeOK <=> PrepareProof!TypeOK
    /\ Prepare!TypeOK' <=> PrepareProof!TypeOK'
    /\ Dispatch!TypeOK <=> DispatchProof!TypeOK
    /\ Dispatch!TypeOK' <=> DispatchProof!TypeOK'
<1>1. (Prepare!TypeOK <=> PrepareProof!TypeOK) /\ (Prepare!TypeOK' <=> PrepareProof!TypeOK')
  BY
  DEF Prepare!TypeOK, Prepare!RowTypeOK, Prepare!PreparePCs, Prepare!Epochs,
      Prepare!Requesters, Prepare!PurgeJobStates, Prepare!CheckPCs, Prepare!Statuses, Prepare!NoCount,
      Prepare!Deletions, Prepare!RecipientStates, Prepare!JobSlots, PrepareProof!TypeOK,
      PrepareProof!RowTypeOK, PrepareProof!PreparePCs, PrepareProof!Epochs,
      PrepareProof!Requesters, PrepareProof!PurgeJobStates, PrepareProof!CheckPCs, PrepareProof!Statuses,
      PrepareProof!NoCount, PrepareProof!Deletions, PrepareProof!RecipientStates,
      PrepareProof!JobSlots
<1>2. (Dispatch!TypeOK <=> DispatchProof!TypeOK) /\ (Dispatch!TypeOK' <=> DispatchProof!TypeOK')
  BY
  DEF Dispatch!TypeOK, Dispatch!RowTypeOK, Dispatch!DriverPCs, Dispatch!Epochs,
      Dispatch!HandOffs, Dispatch!OutcomeType, Dispatch!JobStates, Dispatch!Statuses, Dispatch!NoCount,
      Dispatch!Deletions, Dispatch!RecipientStates, Dispatch!JobSlots, DispatchProof!TypeOK,
      DispatchProof!RowTypeOK, DispatchProof!DriverPCs, DispatchProof!Epochs,
      DispatchProof!HandOffs, DispatchProof!OutcomeType, DispatchProof!JobStates, DispatchProof!Statuses,
      DispatchProof!NoCount, DispatchProof!Deletions, DispatchProof!RecipientStates,
      DispatchProof!JobSlots
<1> QED
  BY <1>1, <1>2

LEMMA SameRows ==
    /\ PrepareProof!Rows = Rows /\ PrepareProof!Rows' = Rows'
    /\ DispatchProof!Rows = Rows /\ DispatchProof!Rows' = Rows'
BY DEF Rows, PrepareProof!Rows, DispatchProof!Rows

LEMMA SameCardinality ==
    \A S : PrepareProof!Cardinality(S) = Cardinality(S) /\ DispatchProof!Cardinality(S) = Cardinality(S)
BY DEF Cardinality, PrepareProof!Cardinality, DispatchProof!Cardinality

\* A step of the pipeline is one of a component, or of the row's other writers,
\* whom both components allow for.
LEMMA Steps ==
    ASSUME Next
    PROVE  \/ /\ PrepareProof!PrepareLocalNext /\ PrepareProof!Next
              /\ UNCHANGED <<dispatchVars, purger>>
           \/ /\ DispatchProof!DispatchLocalNext /\ DispatchProof!Next
              /\ UNCHANGED <<prepareVars, purger>>
           \/ Purge!PurgeLocalNext /\ UNCHANGED <<prepareVars, dispatchVars>>
           \/ /\ RowNext /\ PrepareProof!Next /\ DispatchProof!Next
              /\ UNCHANGED <<prepareVars, dispatchVars, purger>>
<1>1. CASE PrepareNext
  BY <1>1, SamePrepareStep DEF PrepareNext, PrepareProof!Next
<1>2. CASE DispatchNext
  BY <1>2, SameDispatchStep DEF DispatchNext, DispatchProof!Next
<1>3. CASE PurgeNext
  BY <1>3 DEF PurgeNext
<1>4. CASE EnvironmentNext
  <2>1. RowNext => PrepareProof!RowNext /\ DispatchProof!RowNext
    BY DEF RowNext, SoftDelete, DeletableScope, CampaignCleanup, ToggleBlocked, rowVars,
           PrepareProof!RowNext, PrepareProof!SoftDelete, PrepareProof!DeletableScope,
           PrepareProof!CampaignCleanup, PrepareProof!ToggleBlocked, PrepareProof!rowVars,
           DispatchProof!RowNext, DispatchProof!SoftDelete, DispatchProof!DeletableScope,
           DispatchProof!CampaignCleanup, DispatchProof!ToggleBlocked, DispatchProof!rowVars
  <2> QED
    BY <1>4, <2>1
    DEF EnvironmentNext, prepareVars, dispatchVars, PrepareProof!Next,
        PrepareProof!EnvironmentNext, PrepareProof!prepareVars, DispatchProof!Next,
        DispatchProof!dispatchVars
<1> QED
  BY <1>1, <1>2, <1>3, <1>4 DEF Next

-----------------------------------------------------------------------------
(* Types *)

LEMMA TypeParts ==
    TypeOK => /\ RowTypeOK /\ PrepareProof!TypeOK /\ DispatchProof!TypeOK
              /\ purger \in {"idle", "drain", "probe", "erase"}
BY SameTypes, SameRowTypes DEF TypeOK, Purge!TypeOK

LEMMA TypeInit == Init => TypeOK
<1> SUFFICES ASSUME Init PROVE TypeOK
  OBVIOUS
<1>1. PrepareProof!TypeOK
  BY Assumptions, SameInits, PrepareProof!TypeOKInit DEF Init
<1>2. RowTypeOK
  BY <1>1, SameRowTypes DEF PrepareProof!TypeOK
<1>3. DispatchProof!TypeOK
  BY <1>2, Assumptions, SameInits, SameRowTypes, DispatchProof!LocalTypeInit DEF Init
<1> QED
  BY <1>1, <1>2, <1>3, SameTypes, SameRowTypes
  DEF TypeOK, Purge!TypeOK, Init, Purge!PurgeLocalInit

\* The purge tick: it erases what is deleted, and takes rows of it.
LEMMA PurgeMoves ==
    ASSUME RowTypeOK, Purge!PurgeLocalNext
    PROVE  /\ UNCHANGED <<status, epoch, contactCount, handoff, driverJob, blocked>>
           /\ \/ UNCHANGED deletion
              \/ deletion = "soft" /\ status # "sending" /\ deletion' = "hard"
           /\ recipient' \in [Contacts -> RecipientStates] /\ faults' \in 0..MaxFaults
           /\ \A c \in Contacts : recipient'[c] \in {recipient[c], "absent"}
           /\ purger = "idle" => deletion = "soft" /\ UNCHANGED recipient
           /\ purger' \in {"idle", "drain", "probe", "erase"}
<1> USE DEF Purge!sharedVars, Purge!rowVars, RowTypeOK, RecipientStates
<1>1. CASE Purge!PurgeList \/ Purge!PurgeDrained \/ Purge!PurgeProbe
  BY <1>1 DEF Purge!PurgeList, Purge!PurgeableScope, Purge!PurgeDrained, Purge!PurgeProbe
<1>2. CASE Purge!PurgeChunk
  BY <1>2 DEF Purge!PurgeChunk
<1>3. CASE Purge!PurgeStops
  BY <1>3, BoundsAreNaturals DEF Purge!PurgeStops, Purge!Fault
<1>4. CASE Purge!PurgeErase
  BY <1>4 DEF Purge!PurgeErase, Purge!PurgeableScope, Purge!NoRows
<1> QED
  BY <1>1, <1>2, <1>3, <1>4 DEF Purge!PurgeLocalNext

LEMMA TypeNext == TypeOK /\ [Next]_vars => TypeOK'
<1> SUFFICES ASSUME TypeOK, [Next]_vars PROVE TypeOK'
  OBVIOUS
<1>1. RowTypeOK' /\ purger' \in {"idle", "drain", "probe", "erase"}
  <2>1. CASE PrepareProof!Next /\ UNCHANGED purger
    <3>1. PrepareProof!TypeOK'
      BY <2>1, Assumptions, TypeParts, PrepareProof!TypeOKStep
    <3> QED
      BY <2>1, <3>1, SameRowTypes, TypeParts DEF PrepareProof!TypeOK
  <2>2. CASE DispatchProof!Next /\ UNCHANGED purger
    <3>1. DispatchProof!TypeOK'
      BY <2>2, Assumptions, TypeParts, DispatchProof!TypeNext
    <3> QED
      BY <2>2, <3>1, SameRowTypes, TypeParts DEF DispatchProof!TypeOK
  <2>3. CASE Purge!PurgeLocalNext
    <3>1. deletion' \in Deletions
      BY <2>3, PurgeMoves, TypeParts DEF RowTypeOK, Deletions
    <3> QED
      BY <2>3, <3>1, PurgeMoves, TypeParts DEF RowTypeOK
  <2>4. CASE UNCHANGED vars
    BY <2>4, TypeParts DEF vars, sharedVars, rowVars, RowTypeOK
  <2> QED
    BY <2>1, <2>2, <2>3, <2>4, Steps
<1>2. PrepareProof!TypeOK'
  <2>1. CASE PrepareProof!Next
    BY <2>1, Assumptions, TypeParts, PrepareProof!TypeOKStep
  <2>2. CASE UNCHANGED prepareVars
    BY <1>1, <2>2, SameRowTypes, TypeParts DEF PrepareProof!TypeOK, prepareVars
  <2> QED
    BY <2>1, <2>2, Steps DEF vars
<1>3. DispatchProof!TypeOK'
  <2>1. CASE DispatchProof!Next
    BY <2>1, Assumptions, TypeParts, DispatchProof!TypeNext
  <2>2. CASE UNCHANGED dispatchVars
    BY <1>1, <2>2, SameRowTypes, TypeParts DEF DispatchProof!TypeOK, dispatchVars
  <2> QED
    BY <2>1, <2>2, Steps DEF vars
<1> QED
  BY <1>1, <1>2, <1>3, SameTypes, SameRowTypes DEF TypeOK, Purge!TypeOK

\* Every variable of the pipeline keeps its type, whichever component acts.
THEOREM TypeCorrect == Spec => []TypeOK
BY TypeInit, TypeNext, PTL DEF Spec

-----------------------------------------------------------------------------
(* The inductive invariant *)

Prepared == contactCount # NoCount

\* Only a prepared broadcast is, or was, sending, and the purge works on deleted ones.
PhaseInv ==
    /\ status \in {"sending", "sent", "failed"} => Prepared
    /\ purger # "idle" => deletion # "none"

BeforeInv == ~Prepared => DispatchProof!NothingDispatched

PipelineInv ==
    TypeOK /\ PhaseInv /\ BeforeInv /\ PrepareProof!CountedInv /\ DispatchProof!Inv

\* The parts of the invariants the other component's steps rest on.
LEMMA InvParts ==
    ASSUME PipelineInv
    PROVE  /\ PrepareProof!TypeOK /\ DispatchProof!TypeOK /\ RowTypeOK
           /\ Prepared => status \notin {"draft", "scheduled"}
           /\ status = "sending" => deletion = "none"
           /\ status \in {"sending", "sent", "failed"} => Prepared
BY TypeParts
DEF PipelineInv, PhaseInv, Prepared, NoCount, PrepareProof!CountedInv, PrepareProof!CountInv,
    PrepareProof!Prepared, PrepareProof!NoCount, DispatchProof!Inv, DispatchProof!RowInv

\* A broadcast of which nothing has been dispatched: what FreshInv of the dispatch
\* takes for granted.
Fresh ==
    /\ DispatchProof!TypeOK /\ DispatchProof!NothingDispatched /\ DispatchProof!RowInv
    /\ status # "failed"
    /\ contactCount # DispatchProof!NoCount
          => DispatchProof!Cardinality(DispatchProof!Rows) <= contactCount

LEMMA FreshDispatch == Fresh => DispatchProof!Inv
BY Assumptions, DispatchProof!FreshInv DEF Fresh

LEMMA InitPipeline == Init => PipelineInv
<1> SUFFICES ASSUME Init PROVE PipelineInv
  OBVIOUS
<1>1. TypeOK
  BY TypeInit
<1>2. /\ status \in {"draft", "scheduled"} /\ contactCount = NoCount /\ ~handoff
      /\ \A c \in Contacts : recipient[c] = "absent"
      /\ purger = "idle"
  BY DEF Init, Prepare!Init, Prepare!RowInit, Prepare!NoRows, Prepare!NoCount, NoCount,
     Purge!PurgeLocalInit
<1>3. DispatchProof!NothingDispatched
  BY <1>2, SameInits DEF Init, DispatchProof!NothingDispatched, DispatchProof!DispatchLocalInit,
     DispatchProof!IdleFinalizer
<1>4. DispatchProof!Inv
  <2>1. Fresh
    BY <1>1, <1>2, <1>3, TypeParts
    DEF Fresh, DispatchProof!RowInv, DispatchProof!NoCount, NoCount
  <2> QED
    BY <2>1, FreshDispatch
<1>5. PrepareProof!CountedInv
  BY Assumptions, SameInits, PrepareProof!CountedInit DEF Init
<1> QED
  BY <1>1, <1>2, <1>3, <1>4, <1>5 DEF PipelineInv, PhaseInv, BeforeInv, Prepared

\* What the users, the prepare handler and the cleanup of drafts do to the row.
LEMMA PrepareRow ==
    ASSUME PipelineInv, PrepareProof!PrepareLocalNext
    PROVE  /\ UNCHANGED deletion
           /\ \/ UNCHANGED <<status, epoch, contactCount, handoff>>
              \/ /\ ~Prepared /\ deletion = "none"
                 /\ status = "draft" /\ status' = "scheduled"
                 /\ UNCHANGED <<epoch, contactCount, handoff>>
              \/ /\ ~Prepared /\ ~Prepared' /\ deletion = "none"
                 /\ status = "scheduled" /\ status' = "draft" /\ epoch' = epoch + 1 /\ ~handoff'
              \/ /\ ~Prepared /\ Prepared' /\ deletion = "none"
                 /\ status = "scheduled" /\ status' \in {"sending", "sent"}
                 /\ contactCount' = Cardinality(Rows)
                 /\ UNCHANGED <<epoch, handoff, recipient>>
           /\ Prepared => UNCHANGED <<recipient, audience>>
           /\ \A c \in Contacts : recipient'[c] \in {recipient[c], "pending", "absent"}
<1>1. PrepareProof!TypeOK /\ PrepareProof!CountedInv
  BY InvParts DEF PipelineInv
<1>2. PrepareProof!Cardinality(PrepareProof!Rows) = Cardinality(Rows)
  BY SameRows, SameCardinality
<1>3. Cardinality(Rows) \in Nat
  BY ContactsFinite, FS_Subset, FS_CardinalityType DEF Rows
<1> QED
  BY <1>1, <1>2, <1>3, Assumptions, InvParts, PrepareProof!PrepareMoves
  DEF Prepared, NoCount, PrepareProof!Prepared, PrepareProof!NoCount, PrepareProof!ScheduledScope,
      PrepareProof!DraftScope

\* What users and the dispatch do to it.
LEMMA DispatchRow ==
    ASSUME PipelineInv, DispatchProof!DispatchLocalNext
    PROVE  /\ UNCHANGED <<contactCount, deletion>> /\ Rows' = Rows
           /\ \/ UNCHANGED <<status, epoch>>
              \/ status = "sending" /\ status' = "cancelled" /\ UNCHANGED epoch
              \/ /\ Prepared /\ deletion = "none"
                 /\ status = "cancelled" /\ status' = "sending" /\ epoch' = epoch + 1
              \/ status = "sending" /\ status' \in {"sent", "failed"} /\ UNCHANGED epoch
BY Assumptions, InvParts, SameRows, DispatchProof!DispatchMoves
DEF DispatchProof!ResumableScope, DispatchProof!NoCount, Prepared, NoCount

LEMMA PhaseStep ==
    ASSUME PipelineInv, [Next]_vars
    PROVE  PhaseInv'
<1>1. CASE PrepareProof!PrepareLocalNext /\ UNCHANGED purger
  BY <1>1, PrepareRow, InvParts DEF PipelineInv, PhaseInv, Prepared
<1>2. CASE DispatchProof!DispatchLocalNext /\ UNCHANGED purger
  BY <1>2, DispatchRow, InvParts DEF PipelineInv, PhaseInv, Prepared
<1>3. CASE Purge!PurgeLocalNext
  BY <1>3, PurgeMoves, InvParts DEF PipelineInv, PhaseInv, Prepared
<1>4. CASE RowNext /\ UNCHANGED purger
  BY <1>4 DEF RowNext, SoftDelete, DeletableScope, CampaignCleanup, ToggleBlocked, rowVars,
     PipelineInv, PhaseInv, Prepared
<1>5. CASE UNCHANGED vars
  BY <1>5 DEF vars, sharedVars, rowVars, PipelineInv, PhaseInv, Prepared
<1> QED
  BY <1>1, <1>2, <1>3, <1>4, <1>5, Steps

\* Outside the dispatch its variables stay, and rows are pending or absent.
LEMMA NothingDispatchedStays ==
    ASSUME DispatchProof!NothingDispatched, UNCHANGED dispatchVars, ~handoff',
           \A c \in Contacts : recipient'[c] \in {recipient[c], "pending", "absent"}
    PROVE  DispatchProof!NothingDispatched'
BY DEF DispatchProof!NothingDispatched, DispatchProof!IdleDriver, DispatchProof!NothingToDo,
   dispatchVars

LEMMA BeforeStep ==
    ASSUME PipelineInv, [Next]_vars
    PROVE  BeforeInv'
<1> SUFFICES ASSUME ~Prepared' PROVE DispatchProof!NothingDispatched'
  BY DEF BeforeInv
<1>0. ASSUME ~Prepared PROVE DispatchProof!NothingDispatched /\ ~handoff
  BY <1>0 DEF PipelineInv, BeforeInv, DispatchProof!NothingDispatched
<1>1. CASE PrepareProof!PrepareLocalNext /\ UNCHANGED dispatchVars
  BY <1>0, <1>1, PrepareRow, NothingDispatchedStays DEF Prepared
<1>2. CASE DispatchProof!DispatchLocalNext
  <2>1. ~Prepared /\ status # "sending" /\ contactCount = DispatchProof!NoCount
    BY <1>2, DispatchRow, InvParts DEF Prepared, NoCount, DispatchProof!NoCount
  <2> QED
    BY <1>0, <1>2, <2>1, Assumptions, InvParts, DispatchProof!NothingDispatchedYet
<1>3. CASE Purge!PurgeLocalNext /\ UNCHANGED dispatchVars
  BY <1>0, <1>3, PurgeMoves, InvParts, NothingDispatchedStays DEF Prepared
<1>4. CASE RowNext /\ UNCHANGED dispatchVars
  <2>1. UNCHANGED <<contactCount, handoff, recipient>>
    BY <1>4 DEF RowNext, SoftDelete, CampaignCleanup, ToggleBlocked, rowVars
  <2> QED
    BY <1>0, <1>4, <2>1, NothingDispatchedStays DEF Prepared
<1>5. CASE UNCHANGED vars
  BY <1>0, <1>5, NothingDispatchedStays DEF Prepared, vars, sharedVars, rowVars
<1> QED
  BY <1>1, <1>2, <1>3, <1>4, <1>5, Steps

LEMMA CountedStep ==
    ASSUME PipelineInv, [Next]_vars, TypeOK'
    PROVE  PrepareProof!CountedInv'
<1>0. PrepareProof!TypeOK /\ PrepareProof!TypeOK' /\ PrepareProof!CountedInv
  BY SameTypes DEF TypeOK, PipelineInv
<1>1. CASE PrepareProof!Next
  BY <1>0, <1>1, Assumptions, PrepareProof!CountedStep
<1>2. CASE UNCHANGED vars
  BY <1>0, <1>2, Assumptions, PrepareProof!CountedStep
  DEF vars, prepareVars, sharedVars, rowVars, PrepareProof!vars, PrepareProof!prepareVars,
      PrepareProof!sharedVars, PrepareProof!rowVars
<1>3. CASE DispatchProof!DispatchLocalNext /\ UNCHANGED prepareVars
  <2>1. epoch <= epoch + 1 /\ epoch <= epoch
    BY InvParts, BoundsAreNaturals DEF RowTypeOK, Epochs
  <2>2. UNCHANGED PrepareProof!prepareVars
    BY <1>3 DEF prepareVars, PrepareProof!prepareVars
  <2> QED
    BY <1>0, <1>3, <2>1, <2>2, Assumptions, DispatchRow, SameRows, PrepareProof!OutsideStep
<1>4. CASE Purge!PurgeLocalNext /\ UNCHANGED prepareVars
  <2>1. UNCHANGED PrepareProof!prepareVars
    BY <1>4 DEF prepareVars, PrepareProof!prepareVars
  <2>2. Rows' \subseteq Rows /\ (deletion' = "none" => deletion = "none" /\ Rows' = Rows)
    BY <1>4, PurgeMoves, InvParts DEF PipelineInv, PhaseInv, Rows
  <2> QED
    BY <1>0, <1>4, <2>1, <2>2, Assumptions, InvParts, PurgeMoves, SameRows,
       PrepareProof!OutsideStep
<1> QED
  BY <1>1, <1>2, <1>3, <1>4, Steps

\* A step outside the dispatch, of a broadcast that has been promoted.
LEMMA DispatchUndisturbed ==
    ASSUME PipelineInv, TypeOK', UNCHANGED <<epoch, contactCount, handoff, dispatchVars>>,
           status' \in {"sending", "failed"} => status' = status,
           deletion' = deletion \/ status' # "sending",
           \A c \in Contacts : recipient'[c] \in {recipient[c], "absent"}
    PROVE  DispatchProof!Inv'
<1>1. DispatchProof!TypeOK' /\ DispatchProof!Inv
  BY SameTypes DEF TypeOK, PipelineInv
<1>2. UNCHANGED DispatchProof!dispatchVars
  BY DEF dispatchVars, DispatchProof!dispatchVars
<1>3. status' = "sending" => deletion' = "none"
  BY InvParts
<1> QED
  BY <1>1, <1>2, <1>3, Assumptions, DispatchProof!OutsideStep

LEMMA DispatchInvStep ==
    ASSUME PipelineInv, [Next]_vars, TypeOK', PhaseInv', BeforeInv'
    PROVE  DispatchProof!Inv'
<1>1. CASE DispatchProof!Next
  BY <1>1, Assumptions, DispatchProof!NextInv DEF PipelineInv
<1>2. CASE Purge!PurgeLocalNext /\ UNCHANGED dispatchVars
  BY <1>2, PurgeMoves, InvParts, DispatchUndisturbed
<1>3. CASE PrepareProof!PrepareLocalNext /\ UNCHANGED dispatchVars /\ Prepared
  BY <1>3, PrepareRow, DispatchUndisturbed
<1>4. CASE PrepareProof!PrepareLocalNext /\ UNCHANGED dispatchVars /\ ~Prepared
  <2>1. DispatchProof!NothingDispatched'
    <3>1. DispatchProof!NothingDispatched /\ ~handoff
      BY <1>4 DEF PipelineInv, BeforeInv, DispatchProof!NothingDispatched
    <3> QED
      BY <1>4, <3>1, PrepareRow, NothingDispatchedStays
  <2>2. status' # "failed" /\ (status' = "sending" => deletion' = "none")
    BY <1>4, PrepareRow, InvParts
  <2>3. contactCount' # NoCount => Cardinality(Rows') <= contactCount'
    <3> SUFFICES ASSUME contactCount' # NoCount PROVE Cardinality(Rows') <= contactCount'
      OBVIOUS
    <3>1. contactCount' = Cardinality(Rows) /\ UNCHANGED recipient
      BY <1>4, PrepareRow DEF Prepared
    <3>2. Rows' = Rows /\ Cardinality(Rows) \in Nat
      BY <3>1, ContactsFinite, FS_Subset, FS_CardinalityType DEF Rows
    <3> QED
      BY <3>1, <3>2
  <2>4. DispatchProof!TypeOK'
    BY SameTypes DEF TypeOK
  <2>5. DispatchProof!Cardinality(DispatchProof!Rows') = Cardinality(Rows')
    BY SameRows, SameCardinality
  <2>6. Fresh'
    BY <2>1, <2>2, <2>3, <2>4, <2>5 DEF Fresh, DispatchProof!RowInv, DispatchProof!NoCount, NoCount
  <2>7. Fresh' => DispatchProof!Inv'
    BY FreshDispatch, PTL
  <2> QED
    BY <2>6, <2>7
<1>5. CASE UNCHANGED vars
  BY <1>5, Assumptions, DispatchProof!NextInv
  DEF PipelineInv, vars, dispatchVars, sharedVars, rowVars, DispatchProof!vars,
      DispatchProof!dispatchVars, DispatchProof!sharedVars, DispatchProof!rowVars
<1> QED
  BY <1>1, <1>2, <1>3, <1>4, <1>5, Steps

LEMMA PipelineStep == PipelineInv /\ [Next]_vars => PipelineInv'
<1> SUFFICES ASSUME PipelineInv, [Next]_vars PROVE PipelineInv'
  OBVIOUS
<1>1. TypeOK'
  BY TypeNext DEF PipelineInv
<1> QED
  BY <1>1, PhaseStep, BeforeStep, CountedStep, DispatchInvStep DEF PipelineInv

\* The inductive strengthening: in the whole pipeline, whatever stale requests do,
\* nothing is dispatched before the promotion, a prepared broadcast that is not
\* deleted counts its rows, and the dispatch keeps its own invariant.
THEOREM PipelineInvCorrect == Spec => []PipelineInv
BY InitPipeline, PipelineStep, PTL DEF Spec

-----------------------------------------------------------------------------
(* The lifecycle *)

LEMMA LifecycleInit == Init => Lifecycle!Init
BY DEF Init, Prepare!Init, Prepare!RowInit, Prepare!NoCount, NoCount, Lifecycle!Init

\* Each step of the pipeline is one of the lifecycle, or none.
LEMMA LifecycleStep ==
    ASSUME PipelineInv, [Next]_vars
    PROVE  [Lifecycle!Next]_(Lifecycle!vars)
<1> USE InvParts
    DEF Prepared, Lifecycle!vars, Lifecycle!Next, Lifecycle!Moves, Lifecycle!Stays
<1>1. CASE PrepareProof!PrepareLocalNext
  BY <1>1, PrepareRow DEF Lifecycle!Schedule, Lifecycle!Unschedule, Lifecycle!Promote
<1>2. CASE DispatchProof!DispatchLocalNext
  BY <1>2, DispatchRow DEF Lifecycle!Cancel, Lifecycle!Resume, Lifecycle!Finish
<1>3. CASE Purge!PurgeLocalNext
  BY <1>3, PurgeMoves DEF Lifecycle!Delete
<1>4. CASE RowNext
  BY <1>4 DEF RowNext, SoftDelete, DeletableScope, CampaignCleanup, ToggleBlocked, rowVars,
     RowTypeOK, Deletions, Lifecycle!Cancel, Lifecycle!Delete
<1>5. CASE UNCHANGED vars
  BY <1>5 DEF vars, sharedVars, rowVars
<1> QED
  BY <1>1, <1>2, <1>3, <1>4, <1>5, Steps

\* The pipeline implements the lifecycle its readers rely on: whatever prepares,
\* drivers, finalizers, users and purges interleave, the row moves only as
\* BroadcastLifecycle says, and a broadcast that is sending keeps its audience.
THEOREM ImplementsLifecycleCorrect == Spec => ImplementsLifecycle
BY LifecycleInit, LifecycleStep, PipelineInvCorrect, PTL
DEF Spec, ImplementsLifecycle, Lifecycle!Spec

-----------------------------------------------------------------------------
(* The dispatch, in the pipeline *)

LEMMA DispatchHolds ==
    ASSUME PipelineInv
    PROVE  /\ Dispatch!OncePerEpoch /\ Dispatch!FailedMeansAllFailed
           /\ Dispatch!SettledNoRecipientLost /\ Dispatch!QuietHandoffLeavesNonePending
<1>1. DispatchProof!Inv
  BY DEF PipelineInv
<1>2. Dispatch!OncePerEpoch
  BY <1>1, Assumptions, DispatchProof!InvOncePerEpoch
  DEF Dispatch!OncePerEpoch, DispatchProof!OncePerEpoch
<1>3. Dispatch!FailedMeansAllFailed
  BY <1>1, Assumptions, DispatchProof!InvFailedMeansAllFailed
  DEF Dispatch!FailedMeansAllFailed, Dispatch!FailedRows, Dispatch!Rows,
      DispatchProof!FailedMeansAllFailed, DispatchProof!FailedRows, DispatchProof!Rows
<1>4. Dispatch!SettledNoRecipientLost
  BY <1>1, Assumptions, DispatchProof!InvSettledNoRecipientLost
  DEF Dispatch!SettledNoRecipientLost, Dispatch!NoRecipientLost, Dispatch!AccountedFor,
      Dispatch!Unfinished, Dispatch!Epochs, DispatchProof!SettledNoRecipientLost,
      DispatchProof!NoRecipientLost, DispatchProof!AccountedFor, DispatchProof!Unfinished,
      DispatchProof!Epochs
<1>5. Dispatch!QuietHandoffLeavesNonePending
  BY <1>1, Assumptions, DispatchProof!InvQuietHandoff
  DEF Dispatch!QuietHandoffLeavesNonePending, Dispatch!HandoffLeavesNonePending,
      Dispatch!Pending, DispatchProof!QuietHandoffLeavesNonePending,
      DispatchProof!HandoffLeavesNonePending, DispatchProof!Pending
<1> QED
  BY <1>2, <1>3, <1>4, <1>5

\* In the pipeline too, where a contact's row may be purged under a running driver:
\* at most one message for each dispatch epoch, and one more for each attempt that was
\* cut short after the channel took the message.
THEOREM OncePerEpochCorrect == Spec => []Dispatch!OncePerEpoch
BY DispatchHolds, PipelineInvCorrect, PTL

\* In the pipeline too, where rows of what was deleted are drained under the
\* finalizer: a failed broadcast has only failed recipients.
THEOREM FailedMeansAllFailedCorrect == Spec => []Dispatch!FailedMeansAllFailed
BY DispatchHolds, PipelineInvCorrect, PTL

\* In the pipeline too, whatever its preparation wrote: unless a resume finds the
\* driver in the middle of a batch, no recipient counted as sent is passed over.
THEOREM SettledNoRecipientLostCorrect == Spec => []Dispatch!SettledNoRecipientLost
BY DispatchHolds, PipelineInvCorrect, PTL

\* In the pipeline too, for nothing writes a recipient row after the promotion:
\* where every resume waited for the stopped run, a closed hand-off leaves nobody.
THEOREM QuietHandoffLeavesNonePendingCorrect ==
    Spec => []Dispatch!QuietHandoffLeavesNonePending
BY DispatchHolds, PipelineInvCorrect, PTL

-----------------------------------------------------------------------------
(* The audience *)

\* Whoever has a row of a prepared broadcast, or is reached by its dispatch, is of
\* the audience it was last scheduled with.
AudienceInv ==
    /\ PrepareProof!AudienceInv
    /\ Prepared => Rows \subseteq audience
    /\ DispatchProof!Reached \subseteq audience

\* Nothing dispatched, nobody reached.
LEMMA NobodyReached ==
    /\ DispatchProof!NothingDispatched => DispatchProof!Reached = {}
    /\ DispatchProof!NothingDispatched' => DispatchProof!Reached' = {}
BY DEF DispatchProof!NothingDispatched, DispatchProof!IdleDriver, DispatchProof!Reached

LEMMA ReachedStays == UNCHANGED dispatchVars => DispatchProof!Reached' = DispatchProof!Reached
BY DEF dispatchVars, DispatchProof!Reached

LEMMA AudienceInit == Init => AudienceInv
<1> SUFFICES ASSUME Init PROVE AudienceInv
  OBVIOUS
<1>1. PrepareProof!AudienceInv
  BY Assumptions, SameInits, PrepareProof!AudienceInit DEF Init
<1>2. ~Prepared
  BY DEF Init, Prepare!Init, Prepare!RowInit, Prepare!NoCount, NoCount, Prepared
<1>3. DispatchProof!Reached = {}
  BY <1>2, InitPipeline, NobodyReached DEF PipelineInv, BeforeInv
<1> QED
  BY <1>1, <1>2, <1>3 DEF AudienceInv

\* Before the promotion nobody is reached; after it the rows and the audience stay.
LEMMA AudiencePrepareStep ==
    ASSUME StaleUsers = {}, PipelineInv, AudienceInv,
           PrepareProof!PrepareLocalNext, UNCHANGED dispatchVars
    PROVE  AudienceInv'
<1>1. PrepareProof!AudienceInv'
  BY Assumptions, InvParts, PrepareProof!AudienceStep DEF AudienceInv, PrepareProof!Next
<1>2. DispatchProof!Reached' = DispatchProof!Reached
  BY ReachedStays
<1>3. CASE Prepared
  <2>1. UNCHANGED <<recipient, audience>>
    BY <1>3, PrepareRow
  <2>2. Rows' = Rows
    BY <2>1 DEF Rows
  <2> QED
    BY <1>1, <1>2, <1>3, <2>1, <2>2 DEF AudienceInv
<1>4. CASE ~Prepared
  <2>1. DispatchProof!Reached' = {}
    BY <1>2, <1>4, NobodyReached DEF PipelineInv, BeforeInv
  <2>2. Prepared' => Rows' \subseteq audience'
    <3> SUFFICES ASSUME Prepared' PROVE Rows' \subseteq audience'
      OBVIOUS
    <3>1. deletion' = "none"
      BY <1>4, PrepareRow DEF Prepared
    <3> QED
      BY <1>1, <3>1, SameRows DEF PrepareProof!AudienceInv, PrepareProof!SendsToTheAudience,
         PrepareProof!Prepared, PrepareProof!NoCount, Prepared, NoCount
  <2> QED
    BY <1>1, <2>1, <2>2 DEF AudienceInv
<1> QED
  BY <1>3, <1>4

\* A step that leaves the audience and reaches nobody new.
LEMMA AudienceKept ==
    ASSUME PipelineInv, AudienceInv, PrepareProof!AudienceInv',
           UNCHANGED <<audience, contactCount>>, Rows' \subseteq Rows,
           \/ DispatchProof!Reached' = {}
           \/ DispatchProof!Reached' \subseteq DispatchProof!Reached
           \/ Prepared /\ DispatchProof!Reached' \subseteq DispatchProof!Reached \cup Rows
    PROVE  AudienceInv'
BY DEF AudienceInv, Prepared

LEMMA AudienceStep ==
    ASSUME StaleUsers = {}, PipelineInv, AudienceInv, [Next]_vars, TypeOK'
    PROVE  AudienceInv'
<1>0. /\ PrepareProof!TypeOK /\ PrepareProof!TypeOK' /\ PrepareProof!CountedInv
      /\ PrepareProof!AudienceInv
  BY SameTypes DEF TypeOK, PipelineInv, AudienceInv
<1>1. CASE PrepareProof!PrepareLocalNext /\ UNCHANGED dispatchVars
  BY <1>1, AudiencePrepareStep
<1>2. CASE DispatchProof!DispatchLocalNext /\ UNCHANGED prepareVars
  <2>1. epoch <= epoch + 1 /\ epoch <= epoch
    BY InvParts, BoundsAreNaturals DEF RowTypeOK, Epochs
  <2>2. UNCHANGED PrepareProof!prepareVars
    BY <1>2 DEF prepareVars, PrepareProof!prepareVars
  <2>3. PrepareProof!AudienceInv'
    BY <1>0, <1>2, <2>1, <2>2, Assumptions, DispatchRow, SameRows, PrepareProof!OutsideStep
  <2>4. CASE Prepared
    <3>1. DispatchProof!Reached' \subseteq DispatchProof!Reached \cup Rows
      BY <1>2, Assumptions, InvParts, SameRows, DispatchProof!ReachedMoves
    <3> QED
      BY <1>2, <2>3, <2>4, <3>1, DispatchRow, AudienceKept DEF prepareVars
  <2>5. CASE ~Prepared
    <3>1. DispatchProof!Reached' = {}
      BY <1>2, <2>5, BeforeStep, DispatchRow, NobodyReached DEF BeforeInv, Prepared
    <3> QED
      BY <1>2, <2>3, <3>1, DispatchRow, AudienceKept DEF prepareVars
  <2> QED
    BY <2>4, <2>5
<1>3. CASE Purge!PurgeLocalNext /\ UNCHANGED <<prepareVars, dispatchVars>>
  <2>1. UNCHANGED PrepareProof!prepareVars
    BY <1>3 DEF prepareVars, PrepareProof!prepareVars
  <2>2. Rows' \subseteq Rows /\ (deletion' = "none" => deletion = "none" /\ Rows' = Rows)
    BY <1>3, PurgeMoves, InvParts DEF PipelineInv, PhaseInv, Rows
  <2>3. PrepareProof!AudienceInv'
    BY <1>0, <1>3, <2>1, <2>2, Assumptions, InvParts, PurgeMoves, SameRows,
       PrepareProof!OutsideStep
  <2> QED
    BY <1>3, <2>2, <2>3, InvParts, PurgeMoves, ReachedStays, AudienceKept DEF prepareVars
<1>4. CASE RowNext /\ PrepareProof!Next /\ UNCHANGED <<prepareVars, dispatchVars>>
  <2>1. PrepareProof!AudienceInv'
    BY <1>0, <1>4, Assumptions, PrepareProof!AudienceStep
  <2>2. UNCHANGED <<contactCount, recipient>>
    BY <1>4 DEF RowNext, SoftDelete, CampaignCleanup, ToggleBlocked, rowVars
  <2>3. Rows' = Rows
    BY <2>2 DEF Rows
  <2> QED
    BY <1>4, <2>1, <2>2, <2>3, ReachedStays, AudienceKept DEF prepareVars
<1>5. CASE UNCHANGED vars
  <2>1. PrepareProof!AudienceInv'
    BY <1>0, <1>5, Assumptions, PrepareProof!AudienceStep
    DEF vars, prepareVars, sharedVars, rowVars, PrepareProof!vars, PrepareProof!prepareVars,
        PrepareProof!sharedVars, PrepareProof!rowVars
  <2>2. Rows' = Rows /\ UNCHANGED <<audience, contactCount, dispatchVars>>
    BY <1>5 DEF Rows, vars, sharedVars, rowVars, prepareVars
  <2> QED
    BY <2>1, <2>2, ReachedStays, AudienceKept
<1> QED
  BY <1>1, <1>2, <1>3, <1>4, <1>5, Steps

LEMMA AudienceCorrect ==
    ASSUME StaleUsers = {}
    PROVE  Spec => [](PipelineInv /\ AudienceInv)
<1>1. Init => PipelineInv /\ AudienceInv
  BY InitPipeline, AudienceInit
<1>2. (PipelineInv /\ AudienceInv) /\ [Next]_vars => (PipelineInv /\ AudienceInv)'
  BY PipelineStep, AudienceStep DEF PipelineInv
<1> QED
  BY <1>1, <1>2, PTL DEF Spec

\* With no request sent from a stale page, the channel is never asked to send to a
\* contact outside the audience last scheduled: no row is written after the
\* promotion, and the dispatch reaches only contacts that had one.
THEOREM SendsOnlyToTheAudienceCorrect ==
    ASSUME StaleUsers = {}
    PROVE  Spec => []SendsOnlyToTheAudience
<1>1. PipelineInv /\ AudienceInv => SendsOnlyToTheAudience
  BY DEF AudienceInv, DispatchProof!Reached, SendsOnlyToTheAudience
<1> QED
  BY <1>1, AudienceCorrect, PTL

\* With no request sent from a stale page, a broadcast of the pipeline that is
\* prepared and not deleted keeps the rows of its audience, and counts them, while
\* drivers, finalizers and purges work on it.
THEOREM SendsToTheAudienceCorrect ==
    ASSUME StaleUsers = {}
    PROVE  Spec => []Prepare!SendsToTheAudience
<1>1. PipelineInv /\ AudienceInv => Prepare!SendsToTheAudience
  BY DEF AudienceInv, PrepareProof!AudienceInv, PrepareProof!SendsToTheAudience,
     PrepareProof!Prepared, PrepareProof!NoCount, PrepareProof!Rows, Prepare!SendsToTheAudience,
     Prepare!Prepared, Prepare!NoCount, Prepare!Rows, Cardinality, Prepare!Cardinality,
     PrepareProof!Cardinality
<1> QED
  BY <1>1, AudienceCorrect, PTL

-----------------------------------------------------------------------------
(* What is erased *)

\* An erased broadcast has no recipient rows.
ErasedLeavesNoRows == deletion = "hard" => \A c \in Contacts : recipient[c] = "absent"

LEMMA ErasedStep ==
    ASSUME PipelineInv, ErasedLeavesNoRows, [Next]_vars
    PROVE  ErasedLeavesNoRows'
<1>1. PrepareProof!TypeOK /\ RowTypeOK /\ Rows = {c \in Contacts : recipient[c] # "absent"}
  BY InvParts DEF Rows
<1>2. CASE PrepareProof!PrepareLocalNext
  <2>1. UNCHANGED deletion
    BY <1>2, PrepareRow
  <2>2. deletion = "hard" => \A c \in Contacts : recipient'[c] \in {recipient[c], "absent"}
    BY <1>1, <1>2, Assumptions, PrepareProof!NoRowAfterErasure
  <2> QED
    BY <2>1, <2>2 DEF ErasedLeavesNoRows
<1>3. CASE DispatchProof!DispatchLocalNext
  <2>1. UNCHANGED deletion /\ Rows' = Rows
    BY <1>3, DispatchRow
  <2> QED
    BY <2>1 DEF ErasedLeavesNoRows, Rows
<1>4. CASE Purge!PurgeErase
  BY <1>4 DEF Purge!PurgeErase, Purge!NoRows, ErasedLeavesNoRows
<1>5. CASE Purge!PurgeLocalNext /\ ~Purge!PurgeErase
  <2>1. UNCHANGED deletion
    BY <1>5 DEF Purge!PurgeLocalNext, Purge!PurgeList, Purge!PurgeChunk, Purge!PurgeDrained,
       Purge!PurgeStops, Purge!PurgeProbe, Purge!sharedVars, Purge!rowVars
  <2> QED
    BY <1>1, <1>5, <2>1, PurgeMoves DEF ErasedLeavesNoRows
<1>6. CASE RowNext
  BY <1>6 DEF RowNext, SoftDelete, DeletableScope, CampaignCleanup, ToggleBlocked, rowVars,
     ErasedLeavesNoRows
<1>7. CASE UNCHANGED vars
  BY <1>7 DEF vars, sharedVars, rowVars, ErasedLeavesNoRows
<1> QED
  BY <1>2, <1>3, <1>4, <1>5, <1>6, <1>7, Steps

\* Whatever prepare was still walking its audience, and whatever job recorded a late
\* result, an erased broadcast leaves no recipient row behind.
THEOREM ErasedLeavesNoRowsCorrect == Spec => []ErasedLeavesNoRows
<1>1. Init => ErasedLeavesNoRows
  BY DEF Init, Prepare!Init, Prepare!RowInit, ErasedLeavesNoRows
<1>2. PipelineInv /\ ErasedLeavesNoRows /\ [Next]_vars => ErasedLeavesNoRows'
  BY ErasedStep
<1> QED
  BY <1>1, <1>2, PipelineInvCorrect, PTL DEF Spec
=============================================================================

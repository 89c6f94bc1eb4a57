----------------------- MODULE BroadcastPrepareProof ------------------------
(***************************************************************************)
(* For any set of users and any finite set of contacts, any number of      *)
(* epochs, faults and attempts: preparation is type correct, and when no   *)
(* request is stale it promotes exactly the audience last scheduled.       *)
(***************************************************************************)
EXTENDS BroadcastPrepare, FiniteSetTheorems, TLAPS

\* A set of contacts has a number of members.
LEMMA ContactSetCardinality ==
    ASSUME NEW S \in SUBSET Contacts
    PROVE  IsFiniteSet(S) /\ Cardinality(S) \in Nat
BY ContactsFinite, FS_Subset, FS_CardinalityType

\* What a chunk writes adds up: the rows before it, and its new contacts.
LEMMA ChunkCardinality ==
    ASSUME NEW S \in SUBSET Contacts, NEW chunk \in SUBSET Contacts
    PROVE  Cardinality(S \cup chunk) = Cardinality(S) + Cardinality(chunk \ S)
<1>1. IsFiniteSet(S) /\ IsFiniteSet(chunk \ S)
  BY ContactSetCardinality
<1>2. S \cup chunk = S \cup (chunk \ S)
  OBVIOUS
<1>6. S \cap (chunk \ S) = {}
  OBVIOUS
<1>3. Cardinality(S \cup (chunk \ S))
        = Cardinality(S) + Cardinality(chunk \ S) - Cardinality(S \cap (chunk \ S))
  BY <1>1, FS_Union
<1>4. Cardinality(S \cap (chunk \ S)) = 0
  BY <1>6, FS_EmptySet, Zenon
<1>5. Cardinality(S) \in Nat /\ Cardinality(chunk \ S) \in Nat
  BY ContactSetCardinality
<1>7. Cardinality(S \cup chunk) = Cardinality(S \cup (chunk \ S))
  BY <1>2, Zenon
<1> QED
  BY <1>3, <1>4, <1>5, <1>7

PrepareJobs ==
    [pc : PreparePCs, epoch : Epochs, left : SUBSET Contacts, count : Nat,
     tries : 0..PrepareAttempts]

\* No job, and a job that waits for its next attempt.
LEMMA NoPrepareType ==
    /\ NoPrepare \in PrepareJobs
    /\ [NoPrepare EXCEPT !.pc = "waiting"] \in PrepareJobs
BY BoundsAreNaturals, AttemptsAssumption DEF NoPrepare, PrepareJobs, PreparePCs, Epochs

\* A failed attempt is a job that waits again, or none.
LEMMA FailedAttemptType ==
    ASSUME TypeOK
    PROVE  FailedAttempt.pc \in {"none", "waiting"} /\ FailedAttempt \in PrepareJobs
<1>1. CASE prep.tries + 1 < PrepareAttempts
  <2>1. prep.tries + 1 \in 0..PrepareAttempts
    BY <1>1, AttemptsAssumption DEF TypeOK
  <2>2. FailedAttempt = [NoPrepare EXCEPT !.pc = "waiting", !.tries = prep.tries + 1]
    BY <1>1, Zenon DEF FailedAttempt
  <2>3. FailedAttempt = [pc |-> "waiting", epoch |-> 0, left |-> {}, count |-> 0,
                         tries |-> prep.tries + 1]
    BY <2>2 DEF NoPrepare
  <2>4. "waiting" \in PreparePCs /\ 0 \in Epochs
    BY BoundsAreNaturals DEF PreparePCs, Epochs
  <2> QED
    BY <2>1, <2>3, <2>4 DEF PrepareJobs
<1>2. CASE ~(prep.tries + 1 < PrepareAttempts)
  BY <1>2, NoPrepareType DEF FailedAttempt, NoPrepare
<1> QED
  BY <1>1, <1>2

\* The cleanup of a requester is queued by asking, and moves on.
LEMMA AskedType ==
    ASSUME purgeJobs \in [Requesters -> PurgeJobStates], NEW r \in Requesters
    PROVE  /\ Asked(r) \in [Requesters -> PurgeJobStates]
           /\ \A s \in PurgeJobStates :
                [purgeJobs EXCEPT ![r] = s] \in [Requesters -> PurgeJobStates]
BY DEF Asked, PurgeJobStates

LEMMA TypeOKInit == Init => TypeOK
<1> SUFFICES ASSUME Init PROVE TypeOK
  OBVIOUS
<1> USE BoundsAreNaturals, AttemptsAssumption DEF Init, RowInit, PrepareLocalInit
<1>1. RowTypeOK
  <2>1. recipient \in [Contacts -> RecipientStates]
    BY DEF NoRows, RecipientStates
  <2>2. contactCount \in Nat \cup {NoCount}
    BY DEF NoCount
  <2>3. epoch \in Epochs /\ faults \in 0..MaxFaults
    BY DEF Epochs
  <2>4. status \in Statuses /\ deletion \in Deletions /\ driverJob \in JobSlots
    BY DEF Statuses, Deletions, JobSlots
  <2>5. handoff \in BOOLEAN /\ blocked \in BOOLEAN
    OBVIOUS
  <2> QED
    BY <2>1, <2>2, <2>3, <2>4, <2>5 DEF RowTypeOK
<1>2. prep \in PrepareJobs
  BY NoPrepareType
<1>3. check \in [Users -> [pc : CheckPCs, epoch : Epochs]]
  BY DEF NoCheck, CheckPCs, Epochs
<1> QED
  BY <1>1, <1>2, <1>3 DEF TypeOK, NoCleanup, PurgeJobStates, PrepareJobs

LEMMA TypeOKStep == TypeOK /\ [Next]_vars => TypeOK'
<1> SUFFICES ASSUME TypeOK, [Next]_vars PROVE TypeOK'
  OBVIOUS
<1> USE BoundsAreNaturals, AttemptsAssumption
    DEF TypeOK, RowTypeOK, Statuses, Deletions, Epochs, RecipientStates, JobSlots,
        PreparePCs, CheckPCs, sharedVars, rowVars, prepareVars
<1>1. CASE EditDraft
  BY <1>1 DEF EditDraft
<1>2. CASE MoveToDraft
  <2>1. epoch' \in 0..MaxEpoch
    BY <1>2 DEF MoveToDraft, NextDraftEpoch
  <2>2. contactCount' \in Nat \cup {NoCount}
    BY <1>2 DEF MoveToDraft
  <2> QED
    BY <1>2, <2>1, <2>2 DEF MoveToDraft
<1>3. CASE SchedulesAtPasses
  BY <1>3 DEF SchedulesAtPasses
<1>4. CASE \E u \in Users : ActivationRead(u)
  BY <1>4 DEF ActivationRead, At, Goto
<1>5. CASE \E u \in Users : ActivationJobCheck(u)
  BY <1>5 DEF ActivationJobCheck, At, Goto
<1>6. CASE \E u \in Users : ActivationRowCheck(u)
  BY <1>6 DEF ActivationRowCheck, At, Goto
<1>7. CASE \E u \in Users : ActivationRefused(u)
  <2>1. Asked("draft") \in [Requesters -> PurgeJobStates]
    BY AskedType DEF Requesters
  <2> QED
    BY <1>7, <2>1 DEF ActivationRefused, At, NoCheck, RefusedPurgeJobs
<1>8. CASE \E u \in Users : ActivationWrite(u)
  BY <1>8 DEF ActivationWrite, NoCheck
<1>9. CASE EnqueueList
  BY <1>9 DEF EnqueueList
<1>10. CASE EnqueueAdd
  BY <1>10, NoPrepareType DEF EnqueueAdd, PrepareJobs
<1>11. CASE PrepareStart
  <2>1. prep' \in PrepareJobs
    BY <1>11, NoPrepareType DEF PrepareStart, PrepareJobs
  <2> QED
    BY <1>11, <2>1 DEF PrepareStart, PrepareJobs
<1>12. CASE PrepareCount
  <2>1. Cardinality(Rows) \in Nat
    BY ContactSetCardinality DEF Rows
  <2> QED
    BY <1>12, <2>1 DEF PrepareCount, InitialCount
<1>13. CASE PrepareChunk
  <2>1. PICK chunk \in SUBSET prep.left :
           /\ recipient' = [c \in Contacts |->
                 IF c \in chunk \ Rows THEN "pending" ELSE recipient[c]]
           /\ prep' = [prep EXCEPT !.pc = "check", !.left = @ \ chunk,
                                   !.count = @ + Cardinality(chunk \ Rows)]
    BY <1>13 DEF PrepareChunk
  <2>2. Cardinality(chunk \ Rows) \in Nat
    BY ContactSetCardinality
  <2>3. recipient' \in [Contacts -> RecipientStates]
    BY <2>1
  <2>4. prep' \in PrepareJobs
    <3>1. prep \in PrepareJobs
      BY DEF PrepareJobs
    <3>2. prep.left \ chunk \in SUBSET Contacts
      BY <2>1, <3>1 DEF PrepareJobs
    <3>3. prep.count + Cardinality(chunk \ Rows) \in Nat
      BY <2>2, <3>1 DEF PrepareJobs
    <3>4. prep' = [prep EXCEPT !.pc = "check", !.left = prep.left \ chunk,
                               !.count = prep.count + Cardinality(chunk \ Rows)]
      BY <2>1
    <3> HIDE DEF TypeOK
    <3> QED
      BY <3>1, <3>2, <3>3, <3>4 DEF PrepareJobs
  <2> QED
    BY <1>13, <2>3, <2>4 DEF PrepareChunk, PrepareJobs
<1>14. CASE PrepareRejected
  BY <1>14, FailedAttemptType DEF PrepareRejected, PrepareJobs
<1>15. CASE PrepareWalked
  BY <1>15 DEF PrepareWalked
<1>16. CASE PrepareCheck
  BY <1>16 DEF PrepareCheck
<1>17. CASE PrepareStale
  <2>1. Asked("stalePrepare") \in [Requesters -> PurgeJobStates]
    BY AskedType DEF Requesters
  <2> QED
    BY <1>17, <2>1 DEF PrepareStale, StalePurgeJobs
<1>18. CASE PreparePromote
  BY <1>18 DEF PreparePromote, NoPrepare
<1>19. CASE PrepareLost
  <2>1. Asked("stalePrepare") \in [Requesters -> PurgeJobStates]
    BY AskedType DEF Requesters
  <2> QED
    BY <1>19, <2>1 DEF PrepareLost, StalePurgeJobs, NoPrepare
<1>20. CASE PrepareKick
  BY <1>20 DEF PrepareKick, Enqueued, NoPrepare
<1>21. CASE PrepareFails
  BY <1>21, FailedAttemptType DEF PrepareFails, Fault, PrepareJobs
<1>22. CASE PurgeDraftChunk
  BY <1>22 DEF PurgeDraftChunk, Rows
<1>23. CASE \E r \in Requesters : PurgeDraftShort(r) \/ PurgeDraftEnds(r)
  <2>1. purgeJobs' \in [Requesters -> PurgeJobStates]
    BY <1>23, AskedType DEF PurgeDraftShort, PurgeDraftEnds, PurgeJobStates
  <2> QED
    BY <1>23, <2>1 DEF PurgeDraftShort, PurgeDraftEnds
<1>24. CASE \E r \in Requesters : PurgeDraftFails(r)
  <2>1. purgeJobs' \in [Requesters -> PurgeJobStates]
    BY <1>24, AskedType DEF PurgeDraftFails, PurgeJobStates
  <2> QED
    BY <1>24, <2>1 DEF PurgeDraftFails, Fault
<1>25. CASE SoftDelete /\ UNCHANGED prepareVars
  BY <1>25 DEF SoftDelete
<1>26. CASE CampaignCleanup /\ UNCHANGED prepareVars
  BY <1>26 DEF CampaignCleanup
<1>27. CASE ToggleBlocked /\ UNCHANGED prepareVars
  BY <1>27 DEF ToggleBlocked
<1>28. CASE UNCHANGED vars
  BY <1>28 DEF vars
<1>29. CASE RowsDrained
  BY <1>29 DEF RowsDrained, Rows
<1>30. CASE RowErased
  BY <1>30 DEF RowErased, NoRows
<1> QED
  BY <1>1, <1>2, <1>3, <1>4, <1>5, <1>6, <1>7, <1>8, <1>9, <1>10, <1>11, <1>12,
     <1>13, <1>14, <1>15, <1>16, <1>17, <1>18, <1>19, <1>20, <1>21, <1>22, <1>23,
     <1>24, <1>25, <1>26, <1>27, <1>28, <1>29, <1>30
     DEF Next, PrepareLocalNext, UserNext, PrepareStep, PurgeDraftNext,
         EnvironmentNext, RowNext

\* Every variable of the preparation keeps its type, whoever acts.
THEOREM TypeCorrect == Spec => []TypeOK
BY TypeOKInit, TypeOKStep, PTL DEF Spec

-----------------------------------------------------------------------------
(* The audience.  One lemma per group of actions: what users, the prepare   *)
(* handler, the cleanup and the rest of the system do to AudienceInv.       *)

LEMMA AudienceInit == Init => AudienceInv
<1> SUFFICES ASSUME Init PROVE AudienceInv
  OBVIOUS
<1>1. ~Prepared /\ prep = NoPrepare /\ Rows = {}
  BY DEF Init, RowInit, PrepareLocalInit, Prepared, NoRows, Rows
<1>2. CountInv /\ EpochInv /\ SendsToTheAudience
  BY <1>1 DEF CountInv, EpochInv, SendsToTheAudience, InFlight, NoPrepare
<1>3. CheckInv
  BY <1>1, BoundsAreNaturals
     DEF Init, RowInit, PrepareLocalInit, CheckInv, NoCheck, InFlight, NoPrepare
<1>4. WalkInv
  BY <1>1 DEF WalkInv, NoPrepare
<1> QED
  BY <1>2, <1>3, <1>4 DEF AudienceInv

\* A state whose row record, rows, audience, prepare and checks are unchanged.
LEMMA AudienceUnchanged ==
    ASSUME AudienceInv, UNCHANGED <<status, epoch, contactCount, deletion, recipient,
                                    audience, prep, check>>
    PROVE  AudienceInv'
BY DEF AudienceInv, CountInv, EpochInv, CheckInv, WalkInv, SendsToTheAudience, Prepared,
       InFlight, ScheduledScope, Rows

\* Users: edits, moves to draft and activations.
LEMMA AudienceUserStep ==
    ASSUME TypeOK, AudienceInv, StaleUsers = {}, UserNext
    PROVE  AudienceInv'
<1> USE DEF TypeOK, RowTypeOK, AudienceInv, CountInv, EpochInv, CheckInv, WalkInv,
            SendsToTheAudience, Prepared, InFlight, ScheduledScope, Rows, Epochs,
            sharedVars, rowVars, prepareVars
<1> USE BoundsAreNaturals
<1>1. CASE EditDraft
  BY <1>1 DEF EditDraft, DraftScope
<1>2. CASE MoveToDraft
  BY <1>2 DEF MoveToDraft, NextDraftEpoch
<1>3. CASE SchedulesAtPasses
  BY <1>3 DEF SchedulesAtPasses
<1>4. ASSUME NEW u \in Users, ActivationRead(u) PROVE AudienceInv'
  BY <1>4 DEF ActivationRead, At, Goto, DraftScope
<1>5. ASSUME NEW u \in Users, ActivationJobCheck(u) PROVE AudienceInv'
  BY <1>5 DEF ActivationJobCheck, At, Goto, ActivationBlockedByJob, PrepareJobLive
<1>6. ASSUME NEW u \in Users, ActivationRowCheck(u) PROVE AudienceInv'
  BY <1>6 DEF ActivationRowCheck, At, Goto
<1>7. ASSUME NEW u \in Users, ActivationRefused(u) PROVE AudienceInv'
  BY <1>7 DEF ActivationRefused, At, NoCheck
<1>8. ASSUME NEW u \in Users, ActivationWrite(u) PROVE AudienceInv'
  BY <1>8 DEF ActivationWrite, ActivationScope, DraftScope, At, NoCheck
<1> QED
  BY <1>1, <1>2, <1>3, <1>4, <1>5, <1>6, <1>7, <1>8 DEF UserNext

\* The enqueue tick and the prepare handler.
LEMMA AudiencePrepareStep ==
    ASSUME TypeOK, AudienceInv,
           EnqueueList \/ EnqueueAdd \/ PrepareStep \/ PrepareFails
    PROVE  AudienceInv'
<1> USE DEF TypeOK, RowTypeOK, AudienceInv, CountInv, EpochInv, CheckInv, WalkInv,
            SendsToTheAudience, Prepared, InFlight, ScheduledScope, Rows, Epochs,
            sharedVars, rowVars, prepareVars
<1> USE BoundsAreNaturals
<1>1. CASE EnqueueList
  BY <1>1 DEF EnqueueList
<1>2. CASE EnqueueAdd
  BY <1>2 DEF EnqueueAdd, PrepareJobLive, NoPrepare
<1>3. CASE PrepareStart
  BY <1>3 DEF PrepareStart, NoPrepare
<1>4. CASE PrepareCount
  BY <1>4 DEF PrepareCount, InitialCount
<1>5. CASE PrepareChunk
  <2>1. PICK chunk \in SUBSET prep.left :
           /\ recipient' = [c \in Contacts |->
                 IF c \in chunk \ Rows THEN "pending" ELSE recipient[c]]
           /\ prep' = [prep EXCEPT !.pc = "check", !.left = @ \ chunk,
                                   !.count = @ + Cardinality(chunk \ Rows)]
    BY <1>5 DEF PrepareChunk
  <2>2. Rows' = Rows \cup chunk
    BY <2>1
  <2>3. prep'.pc = "check" /\ prep'.epoch = prep.epoch /\ prep'.left = prep.left \ chunk
    BY <2>1
  <2>4. ASSUME prep.count = Cardinality(Rows) PROVE prep'.count = Cardinality(Rows')
    <3>1. Rows \in SUBSET Contacts /\ chunk \in SUBSET Contacts
      BY <2>1
    <3>2. Cardinality(Rows \cup chunk) = Cardinality(Rows) + Cardinality(chunk \ Rows)
      BY <3>1, ChunkCardinality
    <3>3. prep'.count = prep.count + Cardinality(chunk \ Rows)
      BY <2>1
    <3>4. Cardinality(Rows') = Cardinality(Rows \cup chunk)
      BY <2>2, Zenon
    <3> HIDE DEF Rows
    <3> QED
      BY <2>4, <3>2, <3>3, <3>4
  <2>5. prep.pc = "walk" /\ UNCHANGED <<status, epoch, contactCount, deletion, audience, check>>
    BY <1>5 DEF PrepareChunk
  <2> HIDE DEF Rows
  <2>6. CountInv' /\ EpochInv' /\ CheckInv'
    BY <2>3, <2>5
  <2>7. WalkInv'
    BY <2>2, <2>3, <2>4, <2>5
  <2>8. SendsToTheAudience'
    BY <2>5
  <2> QED
    BY <2>6, <2>7, <2>8
<1>6. CASE PrepareRejected
  BY <1>6, FailedAttemptType DEF PrepareRejected
<1>7. CASE PrepareWalked
  BY <1>7 DEF PrepareWalked
<1>8. CASE PrepareCheck
  BY <1>8 DEF PrepareCheck, StillPreparing
<1>9. CASE PrepareStale
  BY <1>9 DEF PrepareStale
<1>10. CASE PreparePromote
  BY <1>10 DEF PreparePromote, PromotionScope, NoPrepare, NoCount
<1>11. CASE PrepareLost
  BY <1>11 DEF PrepareLost, NoPrepare
<1>12. CASE PrepareKick
  BY <1>12 DEF PrepareKick, NoPrepare
<1>13. CASE PrepareFails
  BY <1>13, FailedAttemptType DEF PrepareFails
<1> QED
  BY <1>1, <1>2, <1>3, <1>4, <1>5, <1>6, <1>7, <1>8, <1>9, <1>10, <1>11, <1>12,
     <1>13 DEF PrepareStep

\* The cleanup of drafts, and what happens to the row from outside.
LEMMA AudienceOtherStep ==
    ASSUME TypeOK, AudienceInv,
           PurgeDraftNext \/ EnvironmentNext \/ UNCHANGED vars
    PROVE  AudienceInv'
<1> USE DEF TypeOK, RowTypeOK, AudienceInv, CountInv, EpochInv, CheckInv, WalkInv,
            SendsToTheAudience, Prepared, InFlight, ScheduledScope, Rows, Epochs,
            vars, sharedVars, rowVars, prepareVars
<1>1. CASE PurgeDraftChunk
  BY <1>1 DEF PurgeDraftChunk, DraftGuard
<1>2. CASE \E r \in Requesters : PurgeDraftShort(r) \/ PurgeDraftEnds(r)
  BY <1>2, AudienceUnchanged DEF PurgeDraftShort, PurgeDraftEnds
<1>3. CASE \E r \in Requesters : PurgeDraftFails(r)
  BY <1>3, AudienceUnchanged DEF PurgeDraftFails
<1>4. CASE SoftDelete /\ UNCHANGED prepareVars
  BY <1>4 DEF SoftDelete
<1>5. CASE CampaignCleanup /\ UNCHANGED prepareVars
  BY <1>5 DEF CampaignCleanup
<1>6. CASE ToggleBlocked /\ UNCHANGED prepareVars
  BY <1>6, AudienceUnchanged DEF ToggleBlocked
<1>7. CASE UNCHANGED vars
  BY <1>7, AudienceUnchanged
<1>8. CASE RowsDrained
  BY <1>8 DEF RowsDrained
<1>9. CASE RowErased
  BY <1>9 DEF RowErased, NoRows
<1> QED
  BY <1>1, <1>2, <1>3, <1>4, <1>5, <1>6, <1>7, <1>8, <1>9
     DEF PurgeDraftNext, EnvironmentNext, RowNext

LEMMA AudienceStep ==
    ASSUME StaleUsers = {}
    PROVE  TypeOK /\ AudienceInv /\ [Next]_vars => AudienceInv'
BY AudienceUserStep, AudiencePrepareStep, AudienceOtherStep DEF Next, PrepareLocalNext

\* The inductive strengthening: it holds of every reachable state.
THEOREM AudienceCorrect ==
    ASSUME StaleUsers = {}
    PROVE  Spec => []AudienceInv
<1>1. Init => TypeOK /\ AudienceInv
  BY TypeOKInit, AudienceInit
<1>2. (TypeOK /\ AudienceInv) /\ [Next]_vars => (TypeOK /\ AudienceInv)'
  BY TypeOKStep, AudienceStep
<1> QED
  BY <1>1, <1>2, PTL DEF Spec

\* A prepared broadcast has exactly the rows of the audience last scheduled and
\* counts them, through stale runs, retries, late enqueues and cleanups.
THEOREM SendsToTheAudienceCorrect ==
    ASSUME StaleUsers = {}
    PROVE  Spec => []SendsToTheAudience
<1>1. AudienceInv => SendsToTheAudience
  BY DEF AudienceInv
<1> QED
  BY <1>1, AudienceCorrect, PTL

\* Nothing is scheduled on top of rows that are not of its audience.
THEOREM NoLeftoversScheduledCorrect ==
    ASSUME StaleUsers = {}
    PROVE  Spec => []NoLeftoversScheduled
<1>1. AudienceInv => NoLeftoversScheduled
  BY DEF AudienceInv, WalkInv, NoLeftoversScheduled
<1> QED
  BY <1>1, AudienceCorrect, PTL

-----------------------------------------------------------------------------
(* Whatever stale requests do: the prepare that promotes has counted the    *)
(* rows there are, for only the run that belongs to the schedule promotes,  *)
(* and nobody but it touches the rows of a schedule.                        *)

CountedInv ==
    /\ CountInv
    /\ InFlight => prep.epoch <= epoch
    /\ InFlight /\ status = "draft" => prep.epoch < epoch
    /\ ScheduledScope /\ InFlight /\ prep.epoch = epoch =>
          /\ prep.pc # "stale"
          /\ prep.pc \in {"walk", "check", "promote"} => prep.count = Cardinality(Rows)
    /\ Prepared /\ deletion = "none" => contactCount = Cardinality(Rows)

LEMMA CountedInit == Init => CountedInv
BY DEF Init, RowInit, PrepareLocalInit, CountedInv, CountInv, Prepared, InFlight, NoPrepare

\* Who writes what of the row.
LEMMA PrepareMoves ==
    ASSUME TypeOK, CountedInv, PrepareLocalNext
    PROVE  /\ UNCHANGED deletion
           /\ \/ UNCHANGED <<status, epoch, contactCount, handoff>>
              \/ /\ DraftScope /\ status' = "scheduled"
                 /\ UNCHANGED <<epoch, contactCount, handoff>>
              \/ /\ ScheduledScope /\ status' = "draft" /\ epoch' = epoch + 1
                 /\ contactCount' = NoCount /\ ~handoff'
              \/ /\ ScheduledScope /\ status' \in {"sending", "sent"}
                 /\ contactCount' = Cardinality(Rows)
                 /\ UNCHANGED <<epoch, handoff, recipient>>
           /\ Prepared => UNCHANGED <<recipient, audience>>
           /\ \A c \in Contacts : recipient'[c] \in {recipient[c], "pending", "absent"}
<1> USE DEF CountedInv, CountInv, Prepared, ScheduledScope, DraftScope, sharedVars, rowVars,
            prepareVars
<1>1. CASE UserNext
  BY <1>1
  DEF UserNext, EditDraft, MoveToDraft, NextDraftEpoch, SchedulesAtPasses, ActivationRead,
      ActivationJobCheck, ActivationRowCheck, ActivationRefused, ActivationWrite, ActivationScope
<1>2. CASE PrepareChunk
  <2>1. ~Prepared
    BY <1>2 DEF PrepareChunk
  <2>2. UNCHANGED <<status, epoch, contactCount, handoff, deletion>>
    BY <1>2 DEF PrepareChunk
  <2>3. \A c \in Contacts : recipient'[c] \in {recipient[c], "pending"}
    BY <1>2 DEF PrepareChunk
  <2> QED
    BY <2>1, <2>2, <2>3
<1>3. CASE PreparePromote
  <2>1. UNCHANGED <<deletion, recipient, audience, epoch, handoff>>
    BY <1>3 DEF PreparePromote
  <2>2. CASE PromotionScope
    <3>1. prep.count = Cardinality(Rows)
      BY <1>3, <2>2 DEF PreparePromote, PromotionScope, InFlight
    <3> QED
      BY <1>3, <2>1, <2>2, <3>1 DEF PreparePromote, PromotionScope
  <2>3. CASE ~PromotionScope
    BY <1>3, <2>1, <2>3 DEF PreparePromote
  <2> QED
    BY <2>2, <2>3
<1>4. CASE \/ EnqueueList \/ EnqueueAdd \/ PrepareFails \/ PrepareStart \/ PrepareCount
           \/ PrepareRejected \/ PrepareWalked \/ PrepareCheck \/ PrepareStale
           \/ PrepareLost \/ PrepareKick
  BY <1>4
  DEF EnqueueList, EnqueueAdd, PrepareFails, PrepareStart, PrepareCount, PrepareRejected,
      PrepareWalked, PrepareCheck, PrepareStale, PrepareLost, PrepareKick
<1>5. CASE PurgeDraftNext
  BY <1>5
  DEF PurgeDraftNext, PurgeDraftChunk, PurgeDraftShort, PurgeDraftEnds, PurgeDraftFails,
      DraftGuard, TypeOK, RowTypeOK
<1> QED
  BY <1>1, <1>2, <1>3, <1>4, <1>5 DEF PrepareLocalNext, PrepareStep

\* The foreign key rejects rows of an erased broadcast.
LEMMA NoRowAfterErasure ==
    ASSUME TypeOK, PrepareLocalNext, deletion = "hard"
    PROVE  \A c \in Contacts : recipient'[c] \in {recipient[c], "absent"}
<1> USE DEF sharedVars, rowVars, prepareVars
<1>1. CASE UserNext
  BY <1>1
  DEF UserNext, EditDraft, MoveToDraft, SchedulesAtPasses, ActivationRead, ActivationJobCheck,
      ActivationRowCheck, ActivationRefused, ActivationWrite
<1>2. CASE EnqueueList \/ EnqueueAdd \/ PrepareFails \/ PrepareStep
  BY <1>2
  DEF EnqueueList, EnqueueAdd, PrepareFails, PrepareStep, PrepareStart, PrepareCount, PrepareChunk,
      PrepareRejected, PrepareWalked, PrepareCheck, PrepareStale, PreparePromote, PrepareLost,
      PrepareKick
<1>3. CASE PurgeDraftNext
  BY <1>3
  DEF PurgeDraftNext, PurgeDraftChunk, PurgeDraftShort, PurgeDraftEnds, PurgeDraftFails,
      TypeOK, RowTypeOK
<1> QED
  BY <1>1, <1>2, <1>3 DEF PrepareLocalNext

\* The prepare handler itself.
LEMMA CountedPrepareStep ==
    ASSUME TypeOK, CountedInv, PrepareStep \/ PrepareFails \/ EnqueueList \/ EnqueueAdd
    PROVE  CountedInv'
<1> USE DEF TypeOK, RowTypeOK, CountedInv, CountInv, Prepared, InFlight, ScheduledScope, Epochs,
            sharedVars, rowVars
<1> USE BoundsAreNaturals
<1>1. CASE PrepareStart
  BY <1>1 DEF PrepareStart, NoPrepare, Rows
<1>2. CASE PrepareCount
  BY <1>2 DEF PrepareCount, InitialCount, Rows
<1>3. CASE PrepareChunk
  <2>1. PICK chunk \in SUBSET prep.left :
           /\ recipient' = [c \in Contacts |->
                 IF c \in chunk \ Rows THEN "pending" ELSE recipient[c]]
           /\ prep' = [prep EXCEPT !.pc = "check", !.left = @ \ chunk,
                                   !.count = @ + Cardinality(chunk \ Rows)]
    BY <1>3 DEF PrepareChunk
  <2>2. Rows' = Rows \cup chunk
    BY <2>1 DEF Rows
  <2>3. prep'.pc = "check" /\ prep'.epoch = prep.epoch
    BY <2>1
  <2>4. ASSUME prep.count = Cardinality(Rows) PROVE prep'.count = Cardinality(Rows')
    <3>1. Rows \in SUBSET Contacts /\ chunk \in SUBSET Contacts
      BY <2>1 DEF Rows
    <3>2. Cardinality(Rows \cup chunk) = Cardinality(Rows) + Cardinality(chunk \ Rows)
      BY <3>1, ChunkCardinality
    <3>3. prep'.count = prep.count + Cardinality(chunk \ Rows)
      BY <2>1
    <3>4. Cardinality(Rows') = Cardinality(Rows \cup chunk)
      BY <2>2, Zenon
    <3> QED
      BY <2>4, <3>2, <3>3, <3>4
  <2>5. prep.pc = "walk" /\ UNCHANGED <<status, epoch, contactCount, deletion>>
    BY <1>3 DEF PrepareChunk
  <2> QED
    BY <2>3, <2>4, <2>5
<1>4. CASE PrepareRejected \/ PrepareFails
  BY <1>4, FailedAttemptType DEF PrepareRejected, PrepareFails, Rows
<1>5. CASE PrepareWalked
  BY <1>5 DEF PrepareWalked, Rows
<1>9. CASE PrepareStale
  BY <1>9 DEF PrepareStale, Rows
<1>10. CASE PrepareLost \/ PrepareKick
  <2>1. prep'.pc = "none"
    BY <1>10 DEF PrepareLost, PrepareKick, NoPrepare
  <2>2. UNCHANGED <<status, epoch, contactCount, deletion, recipient>>
    BY <1>10 DEF PrepareLost, PrepareKick
  <2>3. Rows' = Rows
    BY <2>2 DEF Rows
  <2> QED
    BY <2>1, <2>2, <2>3
<1>6. CASE PrepareCheck
  BY <1>6 DEF PrepareCheck, StillPreparing, Rows
<1>7. CASE PreparePromote
  BY <1>7 DEF PreparePromote, PromotionScope, NoPrepare, NoCount, Rows
<1>8. CASE EnqueueList \/ EnqueueAdd
  BY <1>8 DEF EnqueueList, EnqueueAdd, PrepareJobLive, NoPrepare, Rows
<1> QED
  BY <1>1, <1>2, <1>3, <1>4, <1>5, <1>6, <1>7, <1>8, <1>9, <1>10 DEF PrepareStep

\* Users, the cleanup of drafts, and the row's other writers leave the count.
LEMMA CountedOtherStep ==
    ASSUME TypeOK, CountedInv, UserNext \/ PurgeDraftNext \/ EnvironmentNext \/ UNCHANGED vars
    PROVE  CountedInv'
<1> USE DEF TypeOK, RowTypeOK, CountedInv, CountInv, Prepared, InFlight, ScheduledScope, Epochs,
            DraftScope, vars, sharedVars, rowVars, prepareVars
<1> USE BoundsAreNaturals
<1>1. CASE MoveToDraft
  BY <1>1 DEF MoveToDraft, NextDraftEpoch
<1>2. CASE EditDraft \/ SchedulesAtPasses
  BY <1>2 DEF EditDraft, SchedulesAtPasses, Rows
<1>3. ASSUME NEW u \in Users, ActivationRead(u) \/ ActivationJobCheck(u) \/ ActivationRowCheck(u)
                              \/ ActivationRefused(u)
      PROVE  CountedInv'
  BY <1>3 DEF ActivationRead, ActivationJobCheck, ActivationRowCheck, ActivationRefused, Rows
<1>4. ASSUME NEW u \in Users, ActivationWrite(u) PROVE CountedInv'
  BY <1>4 DEF ActivationWrite, ActivationScope, Rows
<1>5. CASE PurgeDraftChunk
  BY <1>5 DEF PurgeDraftChunk, DraftGuard
<1>6. ASSUME NEW r \in Requesters,
             PurgeDraftShort(r) \/ PurgeDraftEnds(r) \/ PurgeDraftFails(r)
      PROVE  CountedInv'
  BY <1>6 DEF PurgeDraftShort, PurgeDraftEnds, PurgeDraftFails, Rows
<1>7. CASE RowNext /\ UNCHANGED prepareVars
  BY <1>7 DEF RowNext, SoftDelete, CampaignCleanup, ToggleBlocked, DeletableScope, Rows
<1>8. CASE RowsDrained \/ RowErased
  BY <1>8 DEF RowsDrained, RowErased
<1>9. CASE UNCHANGED vars
  BY <1>9 DEF Rows
<1> QED
  BY <1>1, <1>2, <1>3, <1>4, <1>5, <1>6, <1>7, <1>8, <1>9
  DEF UserNext, PurgeDraftNext, EnvironmentNext

LEMMA CountedStep == TypeOK /\ CountedInv /\ [Next]_vars => CountedInv'
BY CountedPrepareStep, CountedOtherStep DEF Next, PrepareLocalNext

\* A prepared broadcast counts the recipient rows it has, whichever requests were
\* stale: a run that no longer belongs to the schedule cannot promote it.
THEOREM CountedCorrect == Spec => []CountedInv
<1>1. Init => TypeOK /\ CountedInv
  BY TypeOKInit, CountedInit
<1>2. (TypeOK /\ CountedInv) /\ [Next]_vars => (TypeOK /\ CountedInv)'
  BY TypeOKStep, CountedStep
<1> QED
  BY <1>1, <1>2, PTL DEF Spec

-----------------------------------------------------------------------------
(* The rows a stale prepare leaves on a draft.  Until something fails, the   *)
(* rows of a schedule are those its running prepare has written and counted, *)
(* so once the broadcast is a draft the same run asks for their cleanup, and *)
(* it has written its last row by then.                                      *)

CleanupInv ==
    faults = 0 /\ deletion = "none" =>
        /\ status = "draft" /\ epoch = 0 =>
              Rows = {} /\ ~InFlight /\ purgeJobs["stalePrepare"] = "none"
        /\ status = "scheduled" /\ epoch = 0 =>
              /\ purgeJobs["stalePrepare"] = "none"
              /\ InFlight => prep.pc \in {"count", "walk", "check", "promote"}
              /\ Rows # {} => prep.pc \in {"walk", "check", "promote"} /\ prep.count > 0
        /\ status = "draft" /\ epoch = 1 =>
              /\ prep.pc \in {"count", "walk", "check", "stale"} =>
                    purgeJobs["stalePrepare"] = "none"
              /\ purgeJobs["stalePrepare"] = "ending" => Rows = {}
              /\ Rows # {} /\ purgeJobs["stalePrepare"] = "none" =>
                    /\ prep.pc \in {"walk", "check", "stale", "promote", "lost"}
                    /\ prep.count > 0

LEMMA CleanupInit == Init => CleanupInv
BY DEF Init, RowInit, PrepareLocalInit, CleanupInv, InFlight, NoPrepare, NoRows, Rows,
       NoCleanup, Requesters

\* A chunk counts what it writes, and a set with members has a number above zero.
LEMMA CountsSomething ==
    ASSUME NEW S \in SUBSET Contacts, S # {}
    PROVE  Cardinality(S) > 0 /\ Cardinality(S) \in Nat
BY ContactSetCardinality, FS_EmptySet

LEMMA CleanupPrepareStep ==
    ASSUME TypeOK, CountedInv, CleanupInv,
           PrepareStep \/ PrepareFails \/ EnqueueList \/ EnqueueAdd
    PROVE  CleanupInv'
<1> USE DEF TypeOK, RowTypeOK, CleanupInv, InFlight, ScheduledScope, Epochs, sharedVars, rowVars
<1> USE BoundsAreNaturals
<1>0. \A r \in Requesters : purgeJobs[r] \in {"none", "live", "ending"}
  BY DEF PurgeJobStates
<1>1. CASE PrepareStart
  BY <1>1 DEF PrepareStart, NoPrepare, Rows
<1>2. CASE PrepareCount
  <2>1. Rows # {} => Cardinality(Rows) > 0
    BY CountsSomething DEF Rows
  <2> QED
    BY <1>2, <2>1 DEF PrepareCount, InitialCount, Rows
<1>3. CASE PrepareChunk
  <2>1. PICK chunk \in (SUBSET prep.left) \ {{}} :
           /\ recipient' = [c \in Contacts |->
                 IF c \in chunk \ Rows THEN "pending" ELSE recipient[c]]
           /\ prep' = [prep EXCEPT !.pc = "check", !.left = @ \ chunk,
                                   !.count = @ + Cardinality(chunk \ Rows)]
    BY <1>3 DEF PrepareChunk
  <2>2. prep.pc = "walk" /\ UNCHANGED <<status, epoch, deletion, faults, purgeJobs>>
    BY <1>3 DEF PrepareChunk
  <2>3. chunk \ Rows \in SUBSET Contacts
    BY <2>1
  <2>4. prep'.count = prep.count + Cardinality(chunk \ Rows) /\ prep'.pc = "check"
    BY <2>1
  <2>5. Cardinality(chunk \ Rows) \in Nat /\ prep.count \in Nat
    BY <2>3, ContactSetCardinality
  <2>6. prep.count > 0 => prep'.count > 0
    BY <2>4, <2>5
  <2>7. CASE chunk \subseteq Rows
    <3>1. Rows # {}
      BY <2>1, <2>7
    <3> QED
      BY <2>2, <2>4, <2>6, <3>1
  <2>8. CASE ~(chunk \subseteq Rows)
    <3>1. Cardinality(chunk \ Rows) > 0
      BY <2>3, <2>8, CountsSomething
    <3>2. prep'.count > 0
      BY <2>4, <2>5, <3>1
    <3> QED
      BY <2>2, <2>4, <3>2
  <2> QED
    BY <2>7, <2>8
<1>4. CASE PrepareRejected
  BY <1>4 DEF PrepareRejected
<1>5. CASE PrepareWalked
  BY <1>5 DEF PrepareWalked, Rows
<1>6. CASE PrepareCheck
  BY <1>6 DEF PrepareCheck, StillPreparing, Rows, CountedInv
<1>7. CASE PrepareStale \/ PrepareLost
  <2>1. UNCHANGED <<sharedVars, Rows>>
    BY <1>7 DEF PrepareStale, PrepareLost, Rows
  <2>2. purgeJobs'["stalePrepare"]
          = IF purgeJobs["stalePrepare"] = "none" THEN "live" ELSE purgeJobs["stalePrepare"]
    BY <1>7 DEF PrepareStale, PrepareLost, StalePurgeJobs, Asked, Requesters
  <2>3. prep'.pc \in {"promote", "none"} /\ prep.pc \in {"stale", "lost"}
    BY <1>7 DEF PrepareStale, PrepareLost, NoPrepare
  <2> QED
    BY <2>1, <2>2, <2>3
<1>8. CASE PreparePromote
  BY <1>8 DEF PreparePromote, PromotionScope, NoPrepare, Rows, CountedInv
<1>9. CASE PrepareKick
  BY <1>9 DEF PrepareKick, NoPrepare, Rows, CountedInv, CountInv, Prepared
<1>10. CASE PrepareFails
  BY <1>10 DEF PrepareFails, Fault
<1>11. CASE EnqueueList \/ EnqueueAdd
  BY <1>11 DEF EnqueueList, EnqueueAdd, PrepareJobLive, NoPrepare, Rows
<1> QED
  BY <1>1, <1>2, <1>3, <1>4, <1>5, <1>6, <1>7, <1>8, <1>9, <1>10, <1>11 DEF PrepareStep

LEMMA CleanupOtherStep ==
    ASSUME TypeOK, CleanupInv, UserNext \/ PurgeDraftNext \/ EnvironmentNext \/ UNCHANGED vars
    PROVE  CleanupInv'
<1> USE DEF TypeOK, RowTypeOK, CleanupInv, InFlight, ScheduledScope, Epochs, DraftScope, vars,
            sharedVars, rowVars, prepareVars, PurgeJobStates, Requesters
<1> USE BoundsAreNaturals
<1>1. CASE MoveToDraft
  BY <1>1 DEF MoveToDraft, NextDraftEpoch, Rows
<1>2. CASE EditDraft \/ SchedulesAtPasses
  BY <1>2 DEF EditDraft, SchedulesAtPasses, Rows
<1>3. ASSUME NEW u \in Users, ActivationRead(u) \/ ActivationJobCheck(u) \/ ActivationRowCheck(u)
      PROVE  CleanupInv'
  BY <1>3 DEF ActivationRead, ActivationJobCheck, ActivationRowCheck, Rows
<1>4. ASSUME NEW u \in Users, ActivationRefused(u) PROVE CleanupInv'
  <2>1. purgeJobs'["stalePrepare"] = purgeJobs["stalePrepare"]
    BY <1>4 DEF ActivationRefused, RefusedPurgeJobs, Asked
  <2> QED
    BY <1>4, <2>1 DEF ActivationRefused, Rows
<1>5. ASSUME NEW u \in Users, ActivationWrite(u) PROVE CleanupInv'
  BY <1>5 DEF ActivationWrite, ActivationScope, Rows
<1>6. CASE PurgeDraftChunk
  <2>1. Rows' \subseteq Rows
    BY <1>6 DEF PurgeDraftChunk, Rows
  <2>2. UNCHANGED <<rowVars, faults, prep, purgeJobs>>
    BY <1>6 DEF PurgeDraftChunk
  <2> QED
    BY <2>1, <2>2
<1>7. ASSUME NEW r \in Requesters, PurgeDraftShort(r) PROVE CleanupInv'
  <2>1. \/ purgeJobs'["stalePrepare"] = purgeJobs["stalePrepare"]
        \/ /\ purgeJobs["stalePrepare"] = "live" /\ purgeJobs'["stalePrepare"] = "ending"
           /\ status = "draft" => Rows = {}
    BY <1>7 DEF PurgeDraftShort, DraftGuard
  <2> QED
    BY <1>7, <2>1 DEF PurgeDraftShort, Rows
<1>8. ASSUME NEW r \in Requesters, PurgeDraftEnds(r) PROVE CleanupInv'
  <2>1. \/ purgeJobs'["stalePrepare"] = purgeJobs["stalePrepare"]
        \/ purgeJobs["stalePrepare"] = "ending" /\ purgeJobs'["stalePrepare"] = "none"
    <3>1. purgeJobs[r] = "ending" /\ purgeJobs' = [purgeJobs EXCEPT ![r] = "none"]
      BY <1>8 DEF PurgeDraftEnds
    <3>2. purgeJobs \in [{"draft", "stalePrepare"} -> {"none", "live", "ending"}]
      OBVIOUS
    <3> QED
      BY <3>1, <3>2
  <2>2. UNCHANGED <<status, epoch, deletion, faults, prep>> /\ Rows' = Rows
    BY <1>8 DEF PurgeDraftEnds, Rows
  <2> QED
    BY <2>1, <2>2
<1>9. ASSUME NEW r \in Requesters, PurgeDraftFails(r) PROVE CleanupInv'
  BY <1>9 DEF PurgeDraftFails, Fault
<1>10. CASE RowNext /\ UNCHANGED prepareVars
  BY <1>10 DEF RowNext, SoftDelete, CampaignCleanup, ToggleBlocked, DeletableScope, Rows
<1>11. CASE RowsDrained \/ RowErased
  BY <1>11 DEF RowsDrained, RowErased
<1>12. CASE UNCHANGED vars
  BY <1>12 DEF Rows
<1> QED
  BY <1>1, <1>2, <1>3, <1>4, <1>5, <1>6, <1>7, <1>8, <1>9, <1>10, <1>11, <1>12
  DEF UserNext, PurgeDraftNext, EnvironmentNext

\* Until something fails, the rows a stale prepare wrote on a broadcast that was moved
\* back once have a cleanup still to delete, or that prepare still to ask for one,
\* whichever other cleanups the refused requests of users have asked for.
THEOREM StaleRowsHaveACleanupCorrect == Spec => []StaleRowsHaveACleanup
<1>1. Init => TypeOK /\ CountedInv /\ CleanupInv
  BY TypeOKInit, CountedInit, CleanupInit
<1>2. (TypeOK /\ CountedInv /\ CleanupInv) /\ [Next]_vars => (TypeOK /\ CountedInv /\ CleanupInv)'
  BY TypeOKStep, CountedStep, CleanupPrepareStep, CleanupOtherStep DEF Next, PrepareLocalNext
<1>3. TypeOK /\ CleanupInv => StaleRowsHaveACleanup
  <2> SUFFICES ASSUME TypeOK, CleanupInv, DraftScope, Rows # {}, faults = 0, epoch <= 1, ~InFlight
               PROVE  purgeJobs["stalePrepare"] = "live"
    BY DEF StaleRowsHaveACleanup, Requesters
  <2>1. epoch \in {0, 1} /\ purgeJobs["stalePrepare"] \in {"none", "live", "ending"}
    BY BoundsAreNaturals DEF TypeOK, RowTypeOK, Epochs, PurgeJobStates, Requesters
  <2> QED
    BY <2>1 DEF CleanupInv, DraftScope, InFlight
<1> QED
  BY <1>1, <1>2, <1>3, PTL DEF Spec

-----------------------------------------------------------------------------
(* What the rest of the pipeline may do to the row: move the status of what *)
(* has left its schedule, and take rows of what is deleted.                 *)

LEMMA OutsideStep ==
    ASSUME TypeOK, TypeOK', CountedInv, UNCHANGED <<contactCount, prepareVars>>,
           \/ UNCHANGED <<status, epoch>>
           \/ /\ {status, status'} \cap {"draft", "scheduled"} = {}
              /\ epoch <= epoch',
           Rows' \subseteq Rows,
           deletion' = "none" => deletion = "none" /\ Rows' = Rows
    PROVE  CountedInv' /\ (AudienceInv => AudienceInv')
<1>1. epoch \in Nat /\ epoch' \in Nat /\ epoch <= epoch' /\ prep.epoch \in Nat
  BY BoundsAreNaturals DEF TypeOK, RowTypeOK, Epochs
<1>2. UNCHANGED <<audience, prep, check, contactCount>>
  BY DEF prepareVars
<1>3. status' \in {"draft", "scheduled"} => UNCHANGED <<status, epoch>>
  OBVIOUS
<1>4. CountInv' /\ CountedInv'
  BY <1>1, <1>2, <1>3 DEF CountedInv, CountInv, Prepared, InFlight, ScheduledScope
<1>5. ASSUME AudienceInv PROVE AudienceInv'
  <2>1. EpochInv'
    BY <1>1, <1>2, <1>3, <1>5 DEF AudienceInv, EpochInv, InFlight
  <2>2. CheckInv'
    <3> SUFFICES ASSUME NEW u \in Users
                 PROVE  /\ check[u].pc # "unpinned"
                        /\ check[u].epoch <= epoch'
                        /\ check[u].epoch = epoch' /\ status' = "draft" =>
                              /\ check[u].pc \in {"jobFree", "pinned"} => ~InFlight
                              /\ check[u].pc = "pinned" => Rows' = {}
      BY <1>2 DEF CheckInv, InFlight
    <3>1. check[u].epoch \in Nat
      BY BoundsAreNaturals DEF TypeOK, Epochs
    <3> QED
      BY <1>1, <1>3, <1>5, <3>1 DEF AudienceInv, CheckInv
  <2>3. WalkInv'
    BY <1>2, <1>3, <1>5 DEF AudienceInv, WalkInv, ScheduledScope
  <2>4. SendsToTheAudience'
    BY <1>2, <1>5 DEF AudienceInv, SendsToTheAudience, Prepared
  <2> QED
    BY <1>4, <2>1, <2>2, <2>3, <2>4 DEF AudienceInv
<1> QED
  BY <1>4, <1>5
=============================================================================

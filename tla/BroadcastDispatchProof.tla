----------------------- MODULE BroadcastDispatchProof -----------------------
(***************************************************************************)
(* Type correctness and safety of BroadcastDispatch, for every finite set  *)
(* of contacts and all bounds: no contact gets two messages in an epoch    *)
(* but for an attempt cut short after the first, a broadcast is failed     *)
(* only if every recipient is, and, as far as resumes wait for the stopped *)
(* run, nobody is passed over.                                             *)
(***************************************************************************)
EXTENDS BroadcastDispatch, FiniteSetTheorems, TLAPS

DriverType == [pc : DriverPCs, epoch : Epochs, todo : [Contacts -> HandOffs],
               full : BOOLEAN, error : BOOLEAN]
FinalizerType == [pc : {"idle", "listed", "decided"}, grace : BOOLEAN,
                  verdict : {"sent", "failed"}]
JobType == [Contacts -> [Epochs -> JobStates]]

-----------------------------------------------------------------------------
(* Types *)

LEMMA DriverParts ==
    ASSUME driver \in DriverType
    PROVE  /\ driver.pc \in DriverPCs /\ driver.epoch \in Epochs
           /\ driver.todo \in [Contacts -> HandOffs]
           /\ driver.full \in BOOLEAN /\ driver.error \in BOOLEAN
BY DEF DriverType

LEMMA FetchTyped ==
    ASSUME driver \in DriverType, NEW pc \in DriverPCs, NEW todo \in [Contacts -> HandOffs],
           NEW full \in BOOLEAN
    PROVE  [driver EXCEPT !.pc = pc, !.todo = todo, !.full = full] \in DriverType
BY DEF DriverType

LEMMA HandTyped ==
    ASSUME driver \in DriverType, NEW c \in Contacts, NEW to \in HandOffs
    PROVE  /\ [driver EXCEPT !.todo[c] = to] \in DriverType
           /\ [driver EXCEPT !.todo[c] = to, !.error = TRUE] \in DriverType
BY DEF DriverType

LEMMA IdleTyped == IdleDriver \in DriverType /\ IdleFinalizer \in FinalizerType
<1>1. 0 \in Epochs
  BY BoundsAreNaturals DEF Epochs
<1>2. NothingToDo \in [Contacts -> HandOffs]
  BY DEF NothingToDo, HandOffs
<1> QED
  BY <1>1, <1>2 DEF IdleDriver, DriverType, DriverPCs, IdleFinalizer, FinalizerType

\* What the actions that move a job, a row or the count of faults do to them.
LEMMA JobTyped ==
    ASSUME job \in JobType, NEW c \in Contacts, NEW e \in Epochs, NEW to \in JobStates
    PROVE  [job EXCEPT ![c][e] = to] \in JobType
BY DEF JobType

LEMMA FaultTyped == faults \in 0..MaxFaults /\ Fault => faults' \in 0..MaxFaults
BY BoundsAreNaturals DEF Fault

LEMMA LocalTypeInit == RowTypeOK /\ DispatchLocalInit => TypeOK
<1> SUFFICES ASSUME RowTypeOK, DispatchLocalInit PROVE TypeOK
  OBVIOUS
<1>1. job \in JobType
  BY DEF DispatchLocalInit, JobType, JobStates
<1>2. /\ driver \in DriverType /\ finalizer \in FinalizerType
      /\ outcome \in [Contacts -> OutcomeType] /\ delivered \subseteq Contacts
      /\ resumedOver \subseteq {"driver", "jobs"}
  BY IdleTyped DEF DispatchLocalInit, OutcomeType
<1>3. window \in BOOLEAN /\ grace \in BOOLEAN
  BY DEF DispatchLocalInit
<1> QED
  BY <1>1, <1>2, <1>3 DEF TypeOK, DriverType, FinalizerType, JobType

LEMMA TypeInit == Init => TypeOK
<1> SUFFICES ASSUME Init PROVE RowTypeOK
  BY LocalTypeInit DEF Init
<1>1. PICK S \in (SUBSET Contacts) \ {{}} :
         /\ recipient = [c \in Contacts |-> IF c \in S THEN "pending" ELSE "absent"]
         /\ contactCount = Cardinality(S)
  BY DEF Init, Promoted
<1>2. Cardinality(S) \in Nat
  BY <1>1, ContactsFinite, FS_Subset, FS_CardinalityType
<1>3. epoch \in Epochs /\ faults \in 0..MaxFaults
  BY BoundsAreNaturals DEF Init, Promoted, Epochs
<1>4. recipient \in [Contacts -> RecipientStates]
  BY <1>1 DEF RecipientStates
<1>5. handoff \in BOOLEAN /\ blocked \in BOOLEAN
  BY DEF Init, Promoted
<1>6. status \in Statuses /\ deletion \in Deletions /\ driverJob \in JobSlots
  BY DEF Init, Promoted, Statuses, Deletions, JobSlots
<1> QED
  BY <1>1, <1>2, <1>3, <1>4, <1>5, <1>6 DEF RowTypeOK

\* Users and the parts of the row others share.
LEMMA RowTypes ==
    ASSUME TypeOK, StopSending \/ ResumeSending \/ (RowNext /\ UNCHANGED dispatchVars)
    PROVE  TypeOK'
<1>1. RowTypeOK'
  <2>1. CASE StopSending
    BY <2>1 DEF StopSending, TypeOK, RowTypeOK, Statuses
  <2>2. CASE ResumeSending
    <3>1. epoch' \in Epochs
      BY <2>2, BoundsAreNaturals DEF ResumeSending, TypeOK, RowTypeOK, Epochs
    <3>2. status' \in Statuses /\ handoff' \in BOOLEAN
      BY <2>2 DEF ResumeSending, Statuses
    <3> QED
      BY <2>2, <3>1, <3>2 DEF ResumeSending, TypeOK, RowTypeOK
  <2>3. CASE SoftDelete \/ CampaignCleanup
    BY <2>3 DEF SoftDelete, CampaignCleanup, TypeOK, RowTypeOK, Statuses, Deletions
  <2>4. CASE ToggleBlocked
    <3>1. blocked' \in BOOLEAN
      BY <2>4 DEF ToggleBlocked
    <3> QED
      BY <2>4, <3>1 DEF ToggleBlocked, TypeOK, RowTypeOK, rowVars
  <2> QED
    BY <2>1, <2>2, <2>3, <2>4 DEF RowNext
<1>2. UNCHANGED <<driver, window, job, outcome, delivered, finalizer>>
  BY DEF StopSending, ResumeSending, RowNext, dispatchVars
<1>3. grace' \in BOOLEAN /\ resumedOver' \subseteq {"driver", "jobs"}
  BY DEF TypeOK, StopSending, ResumeSending, StillRunning, RowNext, dispatchVars
<1> QED
  BY <1>1, <1>2, <1>3 DEF TypeOK

LEMMA DriverTypes ==
    ASSUME TypeOK, Reconcile \/ WindowExpires \/ DriverStep \/ DriverCrashes
                       \/ \E c \in Contacts : HandOffFails(c)
    PROVE  TypeOK'
<1>1. UNCHANGED <<status, epoch, contactCount, deletion, blocked, outcome, delivered,
                  grace, finalizer, resumedOver>>
  BY DEF Reconcile, WindowExpires, DriverStep, DriverCrashes, HandOffFails, DriverStart,
         DriverClaim, DriverFetch, DriverBatchDone, DriverClose, RejectRecipient,
         AddSendJob, MarkSent, rowVars, sharedVars, dispatchVars
<1>0. driver \in DriverType
  BY DEF TypeOK, DriverType
<1>2. driver' \in DriverType
  <2>1. CASE DriverStart
    BY <2>1, IdleTyped DEF DriverStart, TypeOK, RowTypeOK, DriverType, DriverPCs
  <2>2. CASE DriverFetch
    <3>1. PICK batch \in SUBSET Pending :
             driver' = [driver EXCEPT
               !.pc = IF batch = {} THEN "close" ELSE "hand",
               !.todo = [c \in Contacts |-> IF c \in batch THEN "add" ELSE "no"],
               !.full = Cardinality(batch) = BatchSize[driver.epoch]]
      BY <2>2 DEF DriverFetch
    <3>2. (IF batch = {} THEN "close" ELSE "hand") \in DriverPCs
      BY DEF DriverPCs
    <3>3. [c \in Contacts |-> IF c \in batch THEN "add" ELSE "no"] \in [Contacts -> HandOffs]
      BY DEF HandOffs
    <3>4. (Cardinality(batch) = BatchSize[driver.epoch]) \in BOOLEAN
      OBVIOUS
    <3> QED
      BY <1>0, <3>1, <3>2, <3>3, <3>4, FetchTyped
  <2>3. CASE DriverClaim \/ DriverBatchDone \/ DriverClose \/ DriverCrashes
    BY <2>3, IdleTyped DEF DriverClaim, DriverBatchDone, DriverClose, DriverCrashes,
       DriverEnds, TypeOK, DriverType, DriverPCs
  <2>4. CASE \E c \in Contacts :
                RejectRecipient(c) \/ AddSendJob(c) \/ MarkSent(c) \/ HandOffFails(c)
    BY <1>0, <2>4, HandTyped
       DEF RejectRecipient, AddSendJob, MarkSent, HandOffFails, HandOff, HandOffs
  <2>5. CASE Reconcile \/ WindowExpires
    BY <2>5 DEF Reconcile, WindowExpires, TypeOK, DriverType, dispatchVars
  <2> QED
    BY <2>1, <2>2, <2>3, <2>4, <2>5 DEF DriverStep
<1>3. job' \in JobType
  <2>1. ASSUME NEW c \in Contacts, AddSendJob(c) PROVE job' \in JobType
    <3>1. driver.epoch \in Epochs
      BY DriverParts DEF TypeOK, DriverType
    <3>2. AddedJob(c, driver.epoch) \in JobStates
      BY <3>1 DEF AddedJob, TypeOK, JobStates
    <3> QED
      BY <2>1, <3>1, <3>2, JobTyped DEF AddSendJob, TypeOK, JobType
  <2> QED
    BY <2>1 DEF Reconcile, WindowExpires, DriverStep, DriverCrashes, HandOffFails,
       DriverStart, DriverClaim, DriverFetch, DriverBatchDone, DriverClose,
       RejectRecipient, MarkSent, dispatchVars, TypeOK, JobType
<1>4. recipient' \in [Contacts -> RecipientStates]
  <2>1. ASSUME NEW c \in Contacts, RejectRecipient(c) \/ MarkSent(c)
        PROVE  recipient' \in [Contacts -> RecipientStates]
    BY <2>1 DEF RejectRecipient, MarkSent, TypeOK, RowTypeOK, RecipientStates
  <2> QED
    BY <2>1 DEF Reconcile, WindowExpires, DriverStep, DriverCrashes, HandOffFails,
       DriverStart, DriverClaim, DriverFetch, DriverBatchDone, DriverClose,
       AddSendJob, sharedVars, TypeOK, RowTypeOK
<1>5. driverJob' \in JobSlots
  BY DEF Reconcile, WindowExpires, DriverStep, DriverCrashes, HandOffFails, DriverEnds,
     DriverStart, DriverClaim, DriverFetch, DriverBatchDone, DriverClose, Enqueued,
     AddSendJob, RejectRecipient, MarkSent, sharedVars, TypeOK, RowTypeOK, JobSlots
<1>6. handoff' \in BOOLEAN /\ window' \in BOOLEAN
  BY DEF Reconcile, WindowExpires, DriverStep, DriverCrashes, HandOffFails,
     DriverStart, DriverClaim, DriverFetch, DriverBatchDone, DriverClose,
     AddSendJob, RejectRecipient, MarkSent, rowVars, sharedVars, dispatchVars, TypeOK, RowTypeOK
<1>7. faults' \in 0..MaxFaults
  BY FaultTyped DEF Reconcile, WindowExpires, DriverStep, DriverCrashes, HandOffFails,
     DriverStart, DriverClaim, DriverFetch, DriverBatchDone, DriverClose,
     AddSendJob, RejectRecipient, MarkSent, sharedVars, TypeOK, RowTypeOK
<1> QED
  BY <1>1, <1>2, <1>3, <1>4, <1>5, <1>6, <1>7 DEF TypeOK, RowTypeOK, DriverType, JobType

\* What an attempt that errs adds to the outcome.
LEMMA ErrTyped ==
    ASSUME outcome \in [Contacts -> OutcomeType], NEW c \in Contacts, NEW from
    PROVE  [outcome EXCEPT ![c].cut = IF from = "told" THEN @ + 1 ELSE @,
                           ![c].errored = @ \/ from # "refused"]
             \in [Contacts -> OutcomeType]
<1>1. outcome[c] \in OutcomeType
  OBVIOUS
<1>2. /\ (IF from = "told" THEN outcome[c].cut + 1 ELSE outcome[c].cut) \in Nat
      /\ outcome[c].sends \in Nat
  BY <1>1 DEF OutcomeType
<1>3. (outcome[c].errored \/ from # "refused") \in BOOLEAN
  OBVIOUS
<1>4. [outcome[c] EXCEPT !.cut = IF from = "told" THEN @ + 1 ELSE @,
                         !.errored = @ \/ from # "refused"] \in OutcomeType
  BY <1>1, <1>2, <1>3 DEF OutcomeType
<1> QED
  BY <1>1, <1>4

LEMMA SendTypes ==
    ASSUME TypeOK, NEW c \in Contacts,
           \/ ReceiptDelivered(c) \/ ReceiptFailed(c) \/ RecordFailure(c)
           \/ \E e \in Epochs : JobStep(c, e) \/ JobErrs(c, e)
    PROVE  TypeOK'
<1>1. UNCHANGED <<rowVars, driverJob, blocked, driver, window, grace, finalizer, resumedOver>>
  BY DEF ReceiptDelivered, ReceiptFailed, JobStep, JobErrs, JobStart, JobSends, JobEnds,
     JobResets, RecordFailure, rowVars, sharedVars, dispatchVars
<1>2. job' \in JobType
  <2>1. ASSUME NEW e \in Epochs, JobStep(c, e) \/ JobErrs(c, e) PROVE job' \in JobType
    <3>1. \E to \in JobStates : job' = [job EXCEPT ![c][e] = to]
      BY <2>1 DEF JobStep, JobErrs, JobStart, JobSends, JobEnds, JobResets, JobMoves, JobStates
    <3> QED
      BY <3>1, JobTyped DEF TypeOK, JobType
  <2> QED
    BY <2>1 DEF ReceiptDelivered, ReceiptFailed, RecordFailure, dispatchVars, TypeOK, JobType
<1>3. recipient' \in [Contacts -> RecipientStates]
  <2>1. recipient \in [Contacts -> RecipientStates]
    BY DEF TypeOK, RowTypeOK
  <2>2. ResetRow(recipient[c]) \in RecipientStates
    BY <2>1 DEF ResetRow, RecipientStates
  <2>3. UNCHANGED recipient \/ \E x \in RecipientStates : recipient' = [recipient EXCEPT ![c] = x]
    BY <2>1, <2>2
       DEF ReceiptDelivered, ReceiptFailed, JobStep, JobErrs, JobStart, JobSends, JobEnds,
           JobResets, RecordFailure, sharedVars, RecipientStates
  <2> QED
    BY <2>1, <2>3
<1>4. outcome' \in [Contacts -> OutcomeType] /\ delivered' \subseteq Contacts
  <2>1. delivered' = delivered \/ delivered' = delivered \cup {c}
    BY DEF ReceiptDelivered, ReceiptFailed, JobStep, JobErrs, JobStart, JobSends, JobEnds,
       JobResets, RecordFailure, dispatchVars
  <2>2. \/ UNCHANGED outcome
        \/ outcome' = [outcome EXCEPT ![c].sends = @ + 1]
        \/ \E e \in Epochs : JobErrs(c, e)
    BY DEF ReceiptDelivered, ReceiptFailed, JobStep, JobStart, JobSends, JobEnds,
       JobResets, RecordFailure, dispatchVars
  <2>3. outcome \in [Contacts -> OutcomeType] /\ delivered \subseteq Contacts
    BY DEF TypeOK
  <2>4. CASE outcome' = [outcome EXCEPT ![c].sends = @ + 1]
    <3>1. outcome[c] \in OutcomeType
      BY <2>3
    <3>2. [outcome[c] EXCEPT !.sends = @ + 1] \in OutcomeType
      BY <3>1 DEF OutcomeType
    <3> QED
      BY <2>1, <2>3, <2>4, <3>2
  <2>5. CASE \E e \in Epochs : JobErrs(c, e)
    <3>1. PICK from : outcome' = [outcome EXCEPT
                        ![c].cut = IF from = "told" THEN @ + 1 ELSE @,
                        ![c].errored = @ \/ from # "refused"]
      BY <2>5 DEF JobErrs
    <3>2. outcome' \in [Contacts -> OutcomeType]
      BY <2>3, <3>1, ErrTyped
    <3> QED
      BY <2>1, <2>3, <3>2
  <2> QED
    BY <2>1, <2>2, <2>3, <2>4, <2>5
<1>5. faults' \in 0..MaxFaults
  BY FaultTyped DEF ReceiptDelivered, ReceiptFailed, JobStep, JobErrs, JobStart, JobSends,
     JobEnds, JobResets, RecordFailure, sharedVars, TypeOK, RowTypeOK
<1> QED
  BY <1>1, <1>2, <1>3, <1>4, <1>5 DEF TypeOK, RowTypeOK, rowVars, JobType

LEMMA FinalizerTypes ==
    ASSUME TypeOK, GraceElapses \/ FinalizeStep \/ FinalizeFails
    PROVE  TypeOK'
<1>1. UNCHANGED <<epoch, contactCount, handoff, deletion, recipient, driverJob, blocked,
                  driver, window, job, outcome, delivered, resumedOver>>
  BY DEF GraceElapses, FinalizeStep, FinalizeFails, FinalizeList, FinalizeCount,
     FinalizeWrite, rowVars, sharedVars
<1>2. finalizer' \in FinalizerType
  BY IdleTyped DEF GraceElapses, FinalizeStep, FinalizeFails, FinalizeList, FinalizeCount,
     FinalizeWrite, TerminalStatus, TypeOK, FinalizerType
<1>3. status' \in Statuses /\ grace' \in BOOLEAN
  BY DEF GraceElapses, FinalizeStep, FinalizeFails, FinalizeList, FinalizeCount,
     FinalizeWrite, rowVars, sharedVars, TypeOK, RowTypeOK, Statuses
<1>4. faults' \in 0..MaxFaults
  BY FaultTyped DEF GraceElapses, FinalizeStep, FinalizeFails, FinalizeList, FinalizeCount,
     FinalizeWrite, sharedVars, TypeOK, RowTypeOK
<1> QED
  BY <1>1, <1>2, <1>3, <1>4 DEF TypeOK, RowTypeOK, FinalizerType

LEMMA TypeNext == TypeOK /\ [Next]_vars => TypeOK'
<1> SUFFICES ASSUME TypeOK, [Next]_vars PROVE TypeOK'
  OBVIOUS
<1>1. CASE Next
  BY <1>1, RowTypes, DriverTypes, SendTypes, FinalizerTypes DEF Next, DispatchLocalNext
<1>2. CASE UNCHANGED vars
  BY <1>2 DEF vars, sharedVars, rowVars, dispatchVars, TypeOK, RowTypeOK
<1> QED
  BY <1>1, <1>2

\* Every variable keeps its type, for any contacts, bounds and batch size.
THEOREM TypeCorrect == Spec => []TypeOK
BY TypeInit, TypeNext, PTL DEF Spec

-----------------------------------------------------------------------------
(* The inductive invariant *)

\* A broadcast that is sending is not deleted.
RowInv == status = "sending" => deletion = "none"

ToldJobs(c) == {e \in Epochs : job[c][e] \in {"told", "sent"}}

\* Jobs are of the epochs so far, and while the broadcast is sending none of
\* this epoch has been refused; each message is one job, or an attempt cut short.
JobInv ==
    \A c \in Contacts :
        /\ outcome[c].sends = Cardinality(ToldJobs(c)) + outcome[c].cut
        /\ \A e \in Epochs :
              /\ job[c][e] # "none" => e <= epoch
              /\ status = "sending" /\ e = epoch => job[c][e] \notin {"refused", "skipped"}

\* The driver works for the present epoch, unless a resume found it at work,
\* and has added the job of a recipient it is about to mark.
DriverInv ==
    /\ driver.epoch <= epoch
    /\ \A c \in Contacts :
          driver.pc = "hand" /\ driver.todo[c] = "mark" => job[c][driver.epoch] # "none"
    /\ status = "sending" /\ driver.pc # "idle" /\ "driver" \notin resumedOver
          => driver.epoch = epoch
    /\ driver.pc \in {"claim", "fetch", "close"} => ~driver.error
    /\ driver.pc = "close" => ~driver.full

LostInv ==
    "driver" \notin resumedOver =>
        \A c \in Contacts : recipient[c] = "sent" => AccountedFor(c)

\* As long as every resume waited, old jobs have ended, whoever is pending
\* is in the driver's batch if it is the last one, and nobody is once the
\* hand-off is closed.
QuietInv ==
    status = "sending" /\ resumedOver = {} =>
        /\ \A c \in Contacts, e \in Epochs :
              /\ job[c][e] # "refused"
              /\ e < epoch => job[c][e] \notin Unfinished
        /\ driver.pc \in {"hand", "close"} /\ ~driver.full /\ ~driver.error =>
              \A c \in Pending : driver.pc = "hand" /\ driver.todo[c] # "no"
        /\ handoff => Pending = {}

\* The count covers the rows, and a verdict stands: a row that failed stays so.
VerdictInv ==
    /\ contactCount # NoCount => Cardinality(Rows) <= contactCount
    /\ finalizer.pc = "decided" /\ finalizer.verdict = "failed" => FailedRows = Rows
    /\ FailedMeansAllFailed

Inv == TypeOK /\ RowInv /\ JobInv /\ DriverInv /\ LostInv /\ QuietInv /\ VerdictInv

\* Nothing has been dispatched: all is as at the promotion.
NothingDispatched ==
    /\ driver = IdleDriver /\ ~handoff /\ finalizer.pc = "idle"
    /\ \A c \in Contacts :
          /\ recipient[c] \in {"absent", "pending"}
          /\ outcome[c] = [sends |-> 0, cut |-> 0, errored |-> FALSE]
          /\ \A e \in Epochs : job[c][e] = "none"

LEMMA FreshInv ==
    ASSUME TypeOK, NothingDispatched, RowInv, status # "failed",
           contactCount # NoCount => Cardinality(Rows) <= contactCount
    PROVE  Inv
<1> USE DEF NothingDispatched
<1>1. driver.pc = "idle" /\ driver.epoch = 0
  BY DEF IdleDriver
<1>2. JobInv
  <2>1. \A c \in Contacts : ToldJobs(c) = {}
    BY DEF ToldJobs
  <2> QED
    BY <2>1, FS_EmptySet DEF JobInv
<1>3. DriverInv
  BY <1>1 DEF DriverInv, TypeOK, RowTypeOK, Epochs, IdleDriver
<1>4. LostInv /\ VerdictInv
  BY DEF LostInv, VerdictInv, FailedMeansAllFailed
<1>5. QuietInv
  BY <1>1 DEF QuietInv, Unfinished
<1> QED
  BY <1>2, <1>3, <1>4, <1>5 DEF Inv

LEMMA InitInv == Init => Inv
<1> SUFFICES ASSUME Init PROVE Inv
  OBVIOUS
<1>1. PICK S \in (SUBSET Contacts) \ {{}} :
         /\ recipient = [c \in Contacts |-> IF c \in S THEN "pending" ELSE "absent"]
         /\ contactCount = Cardinality(S)
  BY DEF Init, Promoted
<1>2. Cardinality(Rows) <= contactCount
  <2>1. Rows = S
    BY <1>1 DEF Rows
  <2>2. Cardinality(S) \in Nat
    BY <1>1, ContactsFinite, FS_Subset, FS_CardinalityType
  <2> QED
    BY <1>1, <2>1, <2>2
<1>3. NothingDispatched
  BY <1>1 DEF NothingDispatched, Init, Promoted, DispatchLocalInit, IdleFinalizer
<1>4. RowInv /\ status # "failed"
  BY DEF RowInv, Init, Promoted
<1> QED
  BY <1>2, <1>3, <1>4, TypeInit, FreshInv

-----------------------------------------------------------------------------
(* What a step can do *)

\* Who writes recipient rows.
LEMMA RecipientChange ==
    ASSUME Next
    PROVE  \/ UNCHANGED recipient
           \/ \E c \in Contacts :
                 RejectRecipient(c) \/ MarkSent(c) \/ ReceiptFailed(c) \/ RecordFailure(c)
           \/ \E c \in Contacts, e \in Epochs : JobResets(c, e)
BY DEF Next, DispatchLocalNext, RowNext, StopSending, ResumeSending, Reconcile,
     WindowExpires, DriverStep, DriverCrashes, HandOffFails, DriverStart, DriverClaim,
     DriverFetch, DriverBatchDone, DriverClose, AddSendJob, ReceiptDelivered, JobStep,
     JobErrs, JobStart, JobSends, JobEnds, GraceElapses, FinalizeStep, FinalizeFails,
     FinalizeList, FinalizeCount, FinalizeWrite, SoftDelete, CampaignCleanup, ToggleBlocked, sharedVars

\* Recipient rows neither come nor go, and a failure is final.
RowMoved(c) ==
    \/ recipient'[c] = recipient[c]
    \/ recipient[c] \notin {"absent", "failed"} /\ recipient'[c] \in {"pending", "sent", "failed"}

LEMMA RecipientMoves ==
    ASSUME TypeOK, Next
    PROVE  \A c \in Contacts : RowMoved(c)
<1>1. recipient \in [Contacts -> RecipientStates]
  BY DEF TypeOK, RowTypeOK
<1>2. ASSUME NEW c \in Contacts, RejectRecipient(c) \/ MarkSent(c)
      PROVE  \A x \in Contacts : RowMoved(x)
  BY <1>1, <1>2 DEF RejectRecipient, MarkSent, RecipientStates, RowMoved
<1>3. ASSUME NEW c \in Contacts, NEW e \in Epochs, JobResets(c, e)
      PROVE  \A x \in Contacts : RowMoved(x)
  BY <1>1, <1>3 DEF JobResets, ResetRow, RecipientStates, RowMoved
<1>4. ASSUME NEW c \in Contacts, ReceiptFailed(c) \/ RecordFailure(c)
      PROVE  \A x \in Contacts : RowMoved(x)
  BY <1>1, <1>4 DEF ReceiptFailed, RecordFailure, RecipientStates, RowMoved
<1> QED
  BY <1>2, <1>3, <1>4, RecipientChange DEF RowMoved

LEMMA RowsStay ==
    ASSUME TypeOK, Next
    PROVE  Rows' = Rows /\ FailedRows \subseteq FailedRows'
BY RecipientMoves DEF RowMoved, Rows, FailedRows

\* Only a resume starts a broadcast again, and it begins an epoch.
LEMMA StatusMoves ==
    ASSUME TypeOK, Next, ~ResumeSending
    PROVE  /\ UNCHANGED <<epoch, contactCount, resumedOver>>
           /\ status' = "sending" => status = "sending" /\ deletion' = deletion
<1>1. CASE StopSending
  BY <1>1 DEF StopSending, dispatchVars
<1>2. CASE RowNext /\ UNCHANGED dispatchVars
  BY <1>2 DEF RowNext, SoftDelete, CampaignCleanup, ToggleBlocked, DeletableScope, rowVars,
     dispatchVars
<1>3. CASE Reconcile \/ WindowExpires \/ DriverStep \/ DriverCrashes
              \/ \E c \in Contacts : HandOffFails(c)
  BY <1>3 DEF Reconcile, WindowExpires, DriverStep, DriverCrashes, HandOffFails, DriverStart,
     DriverClaim, DriverFetch, DriverBatchDone, DriverClose, RejectRecipient, AddSendJob,
     MarkSent, rowVars, sharedVars, dispatchVars
<1>4. CASE \/ \E c \in Contacts : ReceiptDelivered(c) \/ ReceiptFailed(c) \/ RecordFailure(c)
           \/ \E c \in Contacts, e \in Epochs : JobStep(c, e) \/ JobErrs(c, e)
  BY <1>4 DEF ReceiptDelivered, ReceiptFailed, JobStep, JobErrs, JobStart, JobSends,
     JobEnds, JobResets, RecordFailure, rowVars, sharedVars, dispatchVars
<1>5. CASE GraceElapses \/ FinalizeStep \/ FinalizeFails
  BY <1>5 DEF GraceElapses, FinalizeStep, FinalizeFails, FinalizeList, FinalizeCount,
     FinalizeWrite, rowVars, sharedVars, TypeOK, FinalizerType
<1> QED
  BY <1>1, <1>2, <1>3, <1>4, <1>5 DEF Next, DispatchLocalNext

\* A job that changes is added by the driver, or moves on.
JobChange(c, e) ==
    \/ AddSendJob(c) /\ e = driver.epoch
    \/ JobStart(c, e) \/ JobSends(c, e) \/ JobEnds(c, e) \/ JobErrs(c, e) \/ JobResets(c, e)

LEMMA JobMoved ==
    ASSUME TypeOK, Next
    PROVE  \/ UNCHANGED <<job, outcome>>
           \/ \E c \in Contacts, e \in Epochs : JobChange(c, e)
<1>1. driver.epoch \in Epochs
  BY DriverParts DEF TypeOK, DriverType
<1> QED
  BY <1>1
  DEF Next, DispatchLocalNext, RowNext, StopSending, ResumeSending, Reconcile, JobChange,
     WindowExpires, DriverStep, DriverCrashes, HandOffFails, DriverStart, DriverClaim,
     DriverFetch, DriverBatchDone, DriverClose, RejectRecipient, MarkSent, ReceiptDelivered,
     ReceiptFailed, RecordFailure, JobStep, GraceElapses, FinalizeStep, FinalizeFails, FinalizeList,
     FinalizeCount, FinalizeWrite, dispatchVars

\* What it moves between.
LEMMA JobBetween ==
    ASSUME TypeOK, NEW c \in Contacts, NEW e \in Epochs, JobChange(c, e)
    PROVE  /\ \A x \in Contacts, f \in Epochs :
                 x # c \/ f # e => job'[x][f] = job[x][f]
           /\ \/ AddSendJob(c) /\ e = driver.epoch /\ job'[c][e] = AddedJob(c, e)
              \/ /\ job[c][e] = "waiting" /\ JobStart(c, e)
                 /\ job'[c][e] \in {"dropped", IF Sendable THEN "cleared" ELSE "refused"}
              \/ job[c][e] = "cleared" /\ job'[c][e] = "told" /\ JobSends(c, e)
              \/ job[c][e] = "told" /\ job'[c][e] = "sent" /\ JobEnds(c, e)
              \/ /\ job[c][e] \in {"cleared", "told", "refused"} /\ JobErrs(c, e)
                 /\ job'[c][e] \in {"waiting", "failed"}
              \/ job[c][e] = "refused" /\ job'[c][e] = "skipped" /\ JobResets(c, e)
           /\ JobErrs(c, e) => job'[c][e] \in {"waiting", "failed"}
<1>1. job \in JobType
  BY DEF TypeOK, JobType
<1>2. \A to : job' = [job EXCEPT ![c][e] = to] =>
        /\ job'[c][e] = to
        /\ \A x \in Contacts, f \in Epochs : x # c \/ f # e => job'[x][f] = job[x][f]
  BY <1>1 DEF JobType
<1>3. JobErrs(c, e) =>
        /\ \A x \in Contacts, f \in Epochs : x # c \/ f # e => job'[x][f] = job[x][f]
        /\ job[c][e] \in {"cleared", "told", "refused"}
        /\ job'[c][e] \in {"waiting", "failed"}
  BY <1>2 DEF JobErrs, JobMoves
<1>4. CASE AddSendJob(c) /\ e = driver.epoch
  BY <1>2, <1>3, <1>4 DEF AddSendJob
<1>5. CASE JobStart(c, e)
  BY <1>2, <1>3, <1>5 DEF JobStart, JobMoves, GuardPasses
<1>6. CASE JobSends(c, e) \/ JobEnds(c, e) \/ JobResets(c, e)
  BY <1>2, <1>3, <1>6 DEF JobSends, JobEnds, JobResets, JobMoves
<1> QED
  BY <1>3, <1>4, <1>5, <1>6 DEF JobChange

\* What it does to the outcome: a message more, or an attempt cut short.
LEMMA OutcomeMoves ==
    ASSUME TypeOK, NEW c \in Contacts, NEW e \in Epochs, JobChange(c, e)
    PROVE  /\ \A x \in Contacts : x # c => outcome'[x] = outcome[x]
           /\ JobSends(c, e) => /\ outcome'[c].sends = outcome[c].sends + 1
                                /\ outcome'[c].cut = outcome[c].cut
           /\ ~JobSends(c, e) => outcome'[c].sends = outcome[c].sends
           /\ JobErrs(c, e) => outcome'[c].cut =
                 IF job[c][e] = "told" THEN outcome[c].cut + 1 ELSE outcome[c].cut
           /\ ~(JobErrs(c, e) \/ JobSends(c, e)) => outcome' = outcome
<1>1. outcome \in [Contacts -> OutcomeType] /\ outcome[c] \in OutcomeType
  BY DEF TypeOK
<1>2. JobSends(c, e) => outcome' = [outcome EXCEPT ![c].sends = @ + 1]
  BY DEF JobSends
<1>3. outcome' = [outcome EXCEPT ![c].sends = @ + 1] =>
        /\ \A x \in Contacts : x # c => outcome'[x] = outcome[x]
        /\ outcome'[c].sends = outcome[c].sends + 1 /\ outcome'[c].cut = outcome[c].cut
  BY <1>1 DEF OutcomeType
<1>4. ASSUME JobErrs(c, e)
      PROVE  /\ \A x \in Contacts : x # c => outcome'[x] = outcome[x]
             /\ outcome'[c].sends = outcome[c].sends
             /\ outcome'[c].cut =
                   IF job[c][e] = "told" THEN outcome[c].cut + 1 ELSE outcome[c].cut
  <2>1. PICK from \in {"cleared", "told", "refused"} :
           /\ job[c][e] = from
           /\ outcome' = [outcome EXCEPT ![c].cut = IF from = "told" THEN @ + 1 ELSE @,
                                         ![c].errored = @ \/ from # "refused"]
    BY <1>4 DEF JobErrs, JobMoves
  <2> QED
    BY <1>1, <2>1 DEF OutcomeType
<1>5. ~(JobErrs(c, e) \/ JobSends(c, e)) => outcome' = outcome
  BY DEF JobChange, AddSendJob, JobStart, JobEnds, JobResets
<1>6. ~(JobErrs(c, e) /\ JobSends(c, e))
  <2>1. JobSends(c, e) => job'[c][e] = "told" /\ job[c][e] = "cleared"
    BY DEF JobSends, JobMoves, TypeOK
  <2>2. JobErrs(c, e) => job'[c][e] \in {"waiting", "failed"}
    BY JobBetween
  <2> QED
    BY <2>1, <2>2
<1> QED
  BY <1>2, <1>3, <1>4, <1>5, <1>6

-----------------------------------------------------------------------------
(* Each part of the invariant *)

LEMMA RowStep ==
    ASSUME Inv, Next
    PROVE  RowInv'
<1>1. CASE ResumeSending
  BY <1>1 DEF ResumeSending, ResumableScope, RowInv
<1>2. CASE ~ResumeSending
  BY <1>2, StatusMoves DEF Inv, RowInv
<1> QED
  BY <1>1, <1>2

LEMMA FinalizerMoves ==
    ASSUME finalizer \in FinalizerType, FinalizeList \/ FinalizeCount \/ FinalizeWrite \/ FinalizeFails
    PROVE  finalizer'.pc = "decided" => FinalizeCount /\ finalizer'.verdict = TerminalStatus
<1>1. /\ IdleFinalizer.pc = "idle"
      /\ [finalizer EXCEPT !.pc = "listed", !.grace = grace].pc = "listed"
      /\ [finalizer EXCEPT !.pc = "decided", !.verdict = TerminalStatus].verdict = TerminalStatus
  BY DEF FinalizerType, IdleFinalizer
<1>2. CASE FinalizeList
  <2>1. finalizer'.pc = "listed"
    BY <1>1, <1>2 DEF FinalizeList
  <2> QED
    BY <2>1
<1>3. CASE FinalizeWrite \/ FinalizeFails
  <2>1. finalizer'.pc = "idle"
    BY <1>1, <1>3 DEF FinalizeWrite, FinalizeFails
  <2> QED
    BY <2>1
<1>4. CASE FinalizeCount
  <2>1. CASE FinalizeDue
    BY <1>1, <1>4, <2>1 DEF FinalizeCount
  <2>2. CASE ~FinalizeDue
    <3>1. finalizer'.pc = "idle"
      BY <1>1, <1>4, <2>2 DEF FinalizeCount
    <3> QED
      BY <3>1
  <2> QED
    BY <2>1, <2>2
<1> QED
  BY <1>2, <1>3, <1>4

LEMMA VerdictStep ==
    ASSUME Inv, Next
    PROVE  VerdictInv'
<1>1. Rows' = Rows /\ FailedRows \subseteq FailedRows' /\ FailedRows' \subseteq Rows'
  BY RowsStay DEF Inv, FailedRows, Rows
<1>2. TerminalStatus = "failed" => FailedRows = Rows
  <2>1. IsFiniteSet(Rows) /\ FailedRows \subseteq Rows
    BY ContactsFinite, FS_Subset DEF Rows, FailedRows
  <2>2. /\ IsFiniteSet(FailedRows)
        /\ Cardinality(FailedRows) \in Nat /\ Cardinality(Rows) \in Nat
        /\ Cardinality(FailedRows) >= Cardinality(Rows) => FailedRows = Rows
    BY <2>1, FS_Subset, FS_CardinalityType
  <2>3. contactCount \in Nat \cup {NoCount}
    BY DEF Inv, TypeOK, RowTypeOK
  <2> QED
    BY <2>2, <2>3 DEF TerminalStatus, Inv, VerdictInv, NoCount
<1>3. finalizer'.pc = "decided" /\ finalizer'.verdict = "failed" => FailedRows' = Rows'
  <2>1. CASE FinalizeList \/ FinalizeCount \/ FinalizeWrite \/ FinalizeFails
    BY <1>1, <1>2, <2>1, FinalizerMoves DEF Inv, TypeOK, FinalizerType
  <2>3. CASE UNCHANGED finalizer
    BY <1>1, <2>3 DEF Inv, VerdictInv
  <2> QED
    BY <2>1, <2>3
    DEF Next, DispatchLocalNext, RowNext, StopSending, ResumeSending, Reconcile,
       WindowExpires, DriverStep, DriverCrashes, HandOffFails, DriverStart, DriverClaim,
       DriverFetch, DriverBatchDone, DriverClose, RejectRecipient, AddSendJob, MarkSent,
       ReceiptDelivered, ReceiptFailed, JobStep, JobErrs, JobStart, JobSends, JobEnds, JobResets,
       RecordFailure, GraceElapses, FinalizeStep, dispatchVars
<1>4. status' = "failed" => FailedRows' = Rows'
  <2>1. CASE FinalizeWrite
    BY <1>1, <2>1 DEF FinalizeWrite, AwaitingFinalization, Inv, VerdictInv, FailedMeansAllFailed
  <2>2. CASE ~FinalizeWrite
    <3>1. status' = "failed" => status = "failed"
      BY <2>2
      DEF Next, DispatchLocalNext, RowNext, StopSending, ResumeSending, Reconcile,
         WindowExpires, DriverStep, DriverCrashes, HandOffFails, DriverStart, DriverClaim,
         DriverFetch, DriverBatchDone, DriverClose, RejectRecipient, AddSendJob, MarkSent,
         ReceiptDelivered, ReceiptFailed, JobStep, JobErrs, JobStart, JobSends, JobEnds, JobResets,
         RecordFailure, GraceElapses, FinalizeStep, FinalizeFails, FinalizeList, FinalizeCount,
         SoftDelete, CampaignCleanup, ToggleBlocked, dispatchVars, sharedVars, rowVars
    <3> QED
      BY <1>1, <3>1 DEF Inv, VerdictInv, FailedMeansAllFailed
  <2> QED
    BY <2>1, <2>2
<1>5. contactCount' = contactCount
  BY StatusMoves DEF Inv, ResumeSending
<1>6. contactCount' # NoCount => Cardinality(Rows') <= contactCount'
  BY <1>1, <1>5 DEF Inv, VerdictInv
<1> QED
  BY <1>3, <1>4, <1>6 DEF VerdictInv, FailedMeansAllFailed

LEMMA ToldJobsFinite == \A c : IsFiniteSet(ToldJobs(c))
<1>1. IsFiniteSet(Epochs)
  BY BoundsAreNaturals, FS_Interval DEF Epochs
<1>2. \A c : ToldJobs(c) \subseteq Epochs
  BY DEF ToldJobs
<1> QED
  BY <1>1, <1>2, FS_Subset

\* Each message is a job on its way or ended, or an attempt cut short, and no
\* other way adds to a contact's messages.
LEMMA SendsStep ==
    ASSUME Inv, Next, NEW x \in Contacts
    PROVE  outcome'[x].sends = Cardinality(ToldJobs(x))' + outcome'[x].cut
<1>1. outcome[x].sends = Cardinality(ToldJobs(x)) + outcome[x].cut /\ TypeOK
  BY DEF Inv, JobInv
<1>2. outcome[x].sends \in Nat /\ outcome[x].cut \in Nat /\ Cardinality(ToldJobs(x)) \in Nat
  BY <1>1, ToldJobsFinite, FS_CardinalityType DEF TypeOK, OutcomeType
<1>3. CASE UNCHANGED <<job, outcome>>
  BY <1>1, <1>3 DEF ToldJobs
<1>4. ASSUME NEW c \in Contacts, NEW e \in Epochs, JobChange(c, e)
      PROVE  outcome'[x].sends = Cardinality(ToldJobs(x))' + outcome'[x].cut
  <2>1. \A y \in Contacts, f \in Epochs : y # c \/ f # e => job'[y][f] = job[y][f]
    BY <1>1, <1>4, JobBetween
  <2>2. CASE x # c
    <3>1. ToldJobs(x)' = ToldJobs(x)
      BY <2>1, <2>2 DEF ToldJobs
    <3> QED
      BY <1>1, <1>4, <2>2, <3>1, OutcomeMoves
  <2>3. CASE x = c /\ JobSends(c, e)
    <3>1. job[c][e] = "cleared" /\ job'[c][e] = "told"
      BY <1>1, <2>3 DEF JobSends, JobMoves, TypeOK
    <3>2. ToldJobs(c)' = ToldJobs(c) \cup {e} /\ e \notin ToldJobs(c)
      BY <2>1, <3>1 DEF ToldJobs
    <3>3. Cardinality(ToldJobs(c) \cup {e}) = Cardinality(ToldJobs(c)) + 1
      BY <3>2, ToldJobsFinite, FS_AddElement
    <3> QED
      BY <1>1, <1>2, <1>4, <2>3, <3>2, <3>3, OutcomeMoves
  <2>4. CASE x = c /\ JobErrs(c, e) /\ job[c][e] = "told"
    <3>1. job'[c][e] \in {"waiting", "failed"}
      BY <1>1, <1>4, <2>4, JobBetween DEF AddedJob
    <3>2. ToldJobs(c)' = ToldJobs(c) \ {e} /\ e \in ToldJobs(c)
      BY <2>1, <2>4, <3>1 DEF ToldJobs
    <3>3. Cardinality(ToldJobs(c) \ {e}) = Cardinality(ToldJobs(c)) - 1
      BY <3>2, ToldJobsFinite, FS_RemoveElement
    <3>4. ~JobSends(c, e)
      BY <2>4 DEF JobSends, JobMoves
    <3> QED
      BY <1>1, <1>2, <1>4, <2>4, <3>2, <3>3, <3>4, OutcomeMoves
  <2>5. CASE x = c /\ ~JobSends(c, e) /\ ~(JobErrs(c, e) /\ job[c][e] = "told")
    <3>1. job'[c][e] \in {"told", "sent"} <=> job[c][e] \in {"told", "sent"}
      BY <1>1, <1>4, <2>5, JobBetween DEF AddedJob
    <3>2. ToldJobs(c)' = ToldJobs(c)
      BY <2>1, <3>1 DEF ToldJobs
    <3>3. outcome'[c].sends = outcome[c].sends /\ outcome'[c].cut = outcome[c].cut
      BY <1>1, <1>4, <2>5, OutcomeMoves
    <3> QED
      BY <1>1, <2>5, <3>2, <3>3
  <2> QED
    BY <2>2, <2>3, <2>4, <2>5
<1> QED
  BY <1>1, <1>3, <1>4, JobMoved

LEMMA JobStepInv ==
    ASSUME Inv, Next
    PROVE  JobInv'
<1> USE DEF JobInv
<1>1. TypeOK /\ RowInv /\ JobInv /\ DriverInv
  BY DEF Inv
<1>2. epoch \in Nat /\ driver.epoch \in Epochs /\ driver.epoch <= epoch
  BY <1>1, DriverParts, BoundsAreNaturals DEF TypeOK, RowTypeOK, Epochs, DriverInv, DriverType
<1>3. epoch' = epoch \/ (epoch' = epoch + 1 /\ ResumeSending)
  BY <1>1, StatusMoves DEF ResumeSending
<1>4. ASSUME NEW x \in Contacts, NEW f \in Epochs
      PROVE  /\ job'[x][f] # "none" => f <= epoch'
             /\ status' = "sending" /\ f = epoch' => job'[x][f] \notin {"refused", "skipped"}
  <2>1. f \in Nat
    BY BoundsAreNaturals DEF Epochs
  <2>2. CASE UNCHANGED <<job, outcome>>
    <3>1. CASE ResumeSending
      BY <1>1, <1>2, <2>1, <2>2, <3>1 DEF ResumeSending
    <3>2. CASE ~ResumeSending
      BY <1>1, <1>2, <2>1, <2>2, <3>2, StatusMoves
    <3> QED
      BY <3>1, <3>2
  <2>3. ASSUME NEW c \in Contacts, NEW e \in Epochs, JobChange(c, e)
        PROVE  /\ job'[x][f] # "none" => f <= epoch'
               /\ status' = "sending" /\ f = epoch' => job'[x][f] \notin {"refused", "skipped"}
    <3>1. UNCHANGED <<status, epoch>>
      BY <2>3 DEF JobChange, AddSendJob, JobStart, JobSends, JobEnds, JobErrs, JobResets,
         HandOff, rowVars, sharedVars
    <3>2. CASE x # c \/ f # e
      <4>1. job'[x][f] = job[x][f]
        BY <1>1, <2>3, <3>2, JobBetween
      <4> QED
        BY <1>1, <2>1, <3>1, <4>1
    <3>3. CASE x = c /\ f = e
      <4>1. CASE e = driver.epoch /\ job'[c][e] = AddedJob(c, e)
        BY <1>1, <1>2, <2>1, <3>1, <3>3, <4>1 DEF AddedJob
      <4>2. CASE /\ job[c][e] = "waiting"
                 /\ job'[c][e] \in {"dropped", IF Sendable THEN "cleared" ELSE "refused"}
        BY <1>1, <3>1, <3>3, <4>2 DEF RowInv, Sendable
      <4>3. CASE job'[c][e] \in {"told", "sent", "waiting", "failed"} /\ job[c][e] # "none"
        BY <1>1, <3>1, <3>3, <4>3
      <4>4. CASE job[c][e] = "refused" /\ job'[c][e] = "skipped"
        BY <1>1, <3>1, <3>3, <4>4
      <4> QED
        BY <1>1, <2>3, <4>1, <4>2, <4>3, <4>4, JobBetween
    <3> QED
      BY <3>2, <3>3
  <2> QED
    BY <1>1, <2>2, <2>3, JobMoved
<1> QED
  BY <1>4, SendsStep

-----------------------------------------------------------------------------
(* The driver *)

\* A recipient of the batch is handed on.
HandedOn(c, to) ==
    /\ driver.pc = "hand" /\ driver'.pc = "hand" /\ driver.todo[c] # "no"
    /\ driver'.epoch = driver.epoch /\ driver'.full = driver.full
    /\ \A x \in Contacts : driver'.todo[x] = IF x = c THEN to ELSE driver.todo[x]

LEMMA HandMoves ==
    ASSUME driver \in DriverType, NEW c \in Contacts, NEW to \in HandOffs
    PROVE  /\ HandOff(c, "add", to) \/ HandOff(c, "mark", to) =>
                 HandedOn(c, to) /\ driver'.error = driver.error
           /\ HandOffFails(c) => HandedOn(c, "no") /\ driver'.error
<1>1. ASSUME HandOff(c, "add", to) \/ HandOff(c, "mark", to)
      PROVE  HandedOn(c, to) /\ driver'.error = driver.error
  <2>1. driver.pc = "hand" /\ driver.todo[c] # "no" /\ driver' = [driver EXCEPT !.todo[c] = to]
    BY <1>1 DEF HandOff
  <2> QED
    BY <2>1 DEF HandedOn, DriverType
<1>2. ASSUME HandOffFails(c) PROVE HandedOn(c, "no") /\ driver'.error
  <2>1. /\ driver.pc = "hand" /\ driver.todo[c] # "no"
        /\ driver' = [driver EXCEPT !.todo[c] = "no", !.error = TRUE]
    BY <1>2 DEF HandOffFails
  <2> QED
    BY <2>1 DEF HandedOn, DriverType
<1> QED
  BY <1>1, <1>2

\* It fetches what is pending, as far as the batch goes.
Fetched ==
    /\ driver.pc = "fetch" /\ driver'.pc \in {"close", "hand"}
    /\ driver'.epoch = driver.epoch /\ driver'.error = driver.error
    /\ \A c \in Contacts : driver'.todo[c] \in {"no", "add"}
    /\ ~driver'.full => /\ \A c \in Pending : driver'.todo[c] = "add"
                        /\ driver'.pc = "close" => Pending = {}
    /\ driver'.pc = "close" => ~driver'.full

LEMMA FetchMoves ==
    ASSUME driver \in DriverType, DriverFetch
    PROVE  Fetched
<1>1. PICK batch \in SUBSET Pending :
         /\ Cardinality(batch) = LeastOf(Cardinality(Pending), BatchSize[driver.epoch])
         /\ driver' = [driver EXCEPT
               !.pc = IF batch = {} THEN "close" ELSE "hand",
               !.todo = [c \in Contacts |-> IF c \in batch THEN "add" ELSE "no"],
               !.full = Cardinality(batch) = BatchSize[driver.epoch]]
  BY DEF DriverFetch
<1>2. /\ driver.pc = "fetch"
      /\ driver'.pc = IF batch = {} THEN "close" ELSE "hand"
      /\ driver'.epoch = driver.epoch /\ driver'.error = driver.error
      /\ driver'.todo = [c \in Contacts |-> IF c \in batch THEN "add" ELSE "no"]
      /\ driver'.full <=> Cardinality(batch) = BatchSize[driver.epoch]
  BY <1>1 DEF DriverFetch, DriverType
<1>3. /\ IsFiniteSet(Pending) /\ IsFiniteSet(batch)
      /\ Cardinality(Pending) \in Nat /\ Cardinality(batch) \in Nat
      /\ Cardinality(batch) = Cardinality(Pending) => batch = Pending
  <2>1. IsFiniteSet(Pending)
    BY ContactsFinite, FS_Subset DEF Pending
  <2> QED
    BY <2>1, FS_Subset, FS_CardinalityType
<1>4. BatchSize[driver.epoch] \in Nat \ {0}
  BY BatchAssumption DEF DriverType
<1>5. batch = {} => Cardinality(batch) # BatchSize[driver.epoch]
  BY <1>4, FS_EmptySet
<1>6. Cardinality(batch) # BatchSize[driver.epoch] => batch = Pending
  BY <1>1, <1>3, <1>4 DEF LeastOf
<1> QED
  BY <1>2, <1>5, <1>6 DEF Fetched, Pending

\* The other ways it moves.
Started == driver'.pc = "claim" /\ driver'.epoch = epoch /\ ~driver'.error
Claimed == /\ driver.pc = "claim" /\ driver'.pc = "fetch"
           /\ driver'.epoch = driver.epoch /\ driver'.error = driver.error
Ended == driver'.pc = "idle" /\ driver'.epoch = 0
BatchDone == /\ driver.pc = "hand" /\ driver'.pc = "close" /\ ~driver.full /\ ~driver.error
             /\ \A c \in Contacts : driver.todo[c] = "no"
             /\ driver'.epoch = driver.epoch /\ ~driver'.full /\ ~driver'.error

LEMMA DriverMoves ==
    ASSUME driver \in DriverType
    PROVE  /\ DriverStart => Started \/ UNCHANGED driver
           /\ DriverClaim => Claimed \/ Ended
           /\ DriverBatchDone => BatchDone \/ Ended
           /\ DriverClose \/ DriverCrashes => Ended
<1>1. IdleDriver.pc = "idle" /\ IdleDriver.epoch = 0
  BY DEF IdleDriver
<1>2. ASSUME DriverStart PROVE Started \/ UNCHANGED driver
  BY <1>2 DEF DriverStart, IdleDriver, Started
<1>3. ASSUME DriverClaim PROVE Claimed \/ Ended
  BY <1>1, <1>3 DEF DriverClaim, DriverEnds, Claimed, Ended, DriverType
<1>4. ASSUME DriverBatchDone PROVE BatchDone \/ Ended
  BY <1>1, <1>4 DEF DriverBatchDone, BatchEndsHere, DriverEnds, NothingToDo, BatchDone, Ended,
     DriverType
<1>5. ASSUME DriverClose \/ DriverCrashes PROVE Ended
  BY <1>1, <1>5 DEF DriverClose, DriverCrashes, DriverEnds, Ended
<1> QED
  BY <1>2, <1>3, <1>4, <1>5

LEMMA DriverChange ==
    ASSUME TypeOK, Next
    PROVE  \/ UNCHANGED driver
           \/ DriverStart \/ DriverClaim \/ DriverFetch \/ DriverBatchDone \/ DriverClose
           \/ DriverCrashes
           \/ \E c \in Contacts :
                 RejectRecipient(c) \/ AddSendJob(c) \/ MarkSent(c) \/ HandOffFails(c)
BY DEF Next, DispatchLocalNext, RowNext, StopSending, ResumeSending, Reconcile, WindowExpires,
   DriverStep, ReceiptDelivered, ReceiptFailed, JobStep, JobErrs, JobStart, JobSends, JobEnds,
   JobResets, RecordFailure, GraceElapses, FinalizeStep, FinalizeFails, FinalizeList, FinalizeCount,
   FinalizeWrite, dispatchVars

\* Whoever the driver has added a job for has one, for jobs never go.
LEMMA JobsStay ==
    ASSUME TypeOK, Next, NEW c \in Contacts, NEW e \in Epochs, job[c][e] # "none"
    PROVE  job'[c][e] # "none"
<1>1. CASE UNCHANGED <<job, outcome>>
  BY <1>1
<1>2. ASSUME NEW x \in Contacts, NEW f \in Epochs, JobChange(x, f)
      PROVE  job'[c][e] # "none"
  BY <1>2, JobBetween DEF AddedJob
<1> QED
  BY <1>1, <1>2, JobMoved

LEMMA HandKinds ==
    ASSUME driver \in DriverType, NEW c \in Contacts
    PROVE  /\ RejectRecipient(c) \/ MarkSent(c) =>
                 HandedOn(c, "no") /\ driver'.error = driver.error
           /\ AddSendJob(c) => HandedOn(c, "mark") /\ driver'.error = driver.error
           /\ HandOffFails(c) => HandedOn(c, "no") /\ driver'.error
<1>1. "no" \in HandOffs /\ "mark" \in HandOffs
  BY DEF HandOffs
<1>2. ASSUME RejectRecipient(c) \/ MarkSent(c)
      PROVE  HandedOn(c, "no") /\ driver'.error = driver.error
  <2>1. HandOff(c, "add", "no") \/ HandOff(c, "mark", "no")
    BY <1>2 DEF RejectRecipient, MarkSent
  <2> QED
    BY <1>1, <2>1, HandMoves
<1>3. ASSUME AddSendJob(c) PROVE HandedOn(c, "mark") /\ driver'.error = driver.error
  <2>1. HandOff(c, "add", "mark")
    BY <1>3 DEF AddSendJob
  <2> QED
    BY <1>1, <2>1, HandMoves
<1> QED
  BY <1>1, <1>2, <1>3, HandMoves

LEMMA DriverStepInv ==
    ASSUME Inv, Next
    PROVE  DriverInv'
<1>1. TypeOK /\ DriverInv /\ driver \in DriverType /\ driver.epoch \in Epochs
  BY DriverParts DEF Inv, TypeOK, DriverType
<1>2. /\ epoch \in Nat /\ epoch' \in Nat /\ driver.epoch \in Nat /\ driver.epoch <= epoch
      /\ epoch <= epoch'
  <2>1. epoch \in Nat /\ driver.epoch \in Nat
    BY <1>1, BoundsAreNaturals DEF TypeOK, RowTypeOK, Epochs
  <2>2. epoch' = epoch \/ epoch' = epoch + 1
    BY <1>1, StatusMoves DEF ResumeSending
  <2> QED
    BY <1>1, <2>1, <2>2 DEF DriverInv
<1>3. CASE UNCHANGED driver
  <2>1. \A c \in Contacts :
          driver.pc = "hand" /\ driver.todo[c] = "mark" => job'[c][driver.epoch] # "none"
    BY <1>1, JobsStay DEF DriverInv
  <2>2. status' = "sending" /\ driver.pc # "idle" /\ "driver" \notin resumedOver'
           => driver.epoch = epoch'
    <3>1. CASE ResumeSending
      BY <3>1 DEF ResumeSending, StillRunning
    <3>2. CASE ~ResumeSending
      BY <1>1, <3>2, StatusMoves DEF DriverInv
    <3> QED
      BY <3>1, <3>2
  <2> QED
    BY <1>1, <1>2, <1>3, <2>1, <2>2 DEF DriverInv
<1>4. ASSUME ~ResumeSending PROVE UNCHANGED <<epoch, resumedOver>> /\ (status' = "sending" => status = "sending")
  BY <1>1, <1>4, StatusMoves
<1>5. ResumeSending => UNCHANGED driver
  BY DEF ResumeSending
<1>6. CASE Started \/ Claimed \/ Ended \/ Fetched \/ BatchDone
  <2>1. CASE UNCHANGED driver
    BY <1>3, <2>1
  <2>2. CASE driver' # driver
    BY <1>1, <1>2, <1>4, <1>5, <1>6, <2>2
    DEF Started, Claimed, Ended, Fetched, BatchDone, DriverInv
  <2> QED
    BY <2>1, <2>2
<1>7. ASSUME NEW c \in Contacts,
             RejectRecipient(c) \/ AddSendJob(c) \/ MarkSent(c) \/ HandOffFails(c)
      PROVE  DriverInv'
  <2>1. UNCHANGED <<status, epoch, resumedOver>>
    BY <1>7 DEF RejectRecipient, AddSendJob, MarkSent, HandOffFails, rowVars, sharedVars
  <2>2. HandedOn(c, "no") \/ (HandedOn(c, "mark") /\ AddSendJob(c))
    BY <1>1, <1>7, HandKinds
  <2>3. AddSendJob(c) => job'[c][driver.epoch] # "none"
    BY <1>1 DEF AddSendJob, AddedJob, TypeOK
  <2>4. \A x \in Contacts : job[x][driver.epoch] # "none" => job'[x][driver.epoch] # "none"
    BY <1>1, JobsStay
  <2> QED
    BY <1>1, <1>2, <2>1, <2>2, <2>3, <2>4 DEF HandedOn, DriverInv
<1> QED
  BY <1>1, <1>3, <1>6, <1>7, DriverChange, DriverMoves, FetchMoves

LEMMA LostStep ==
    ASSUME Inv, Next
    PROVE  LostInv'
<1>1. TypeOK /\ RowInv /\ JobInv /\ DriverInv /\ LostInv
  BY DEF Inv
<1>2. SUFFICES ASSUME "driver" \notin resumedOver', NEW x \in Contacts, recipient'[x] = "sent"
               PROVE  AccountedFor(x)'
  BY DEF LostInv
<1>3. "driver" \notin resumedOver
  BY <1>1, <1>2, StatusMoves DEF ResumeSending
<1>4. \A e \in Epochs : job[x][e] \in {"told", "sent"} => outcome[x].sends > 0
  <2> SUFFICES ASSUME NEW e \in Epochs, job[x][e] \in {"told", "sent"}
               PROVE  outcome[x].sends > 0
    OBVIOUS
  <2>1. e \in ToldJobs(x)
    BY DEF ToldJobs
  <2>2. Cardinality(ToldJobs(x)) \in Nat /\ Cardinality(ToldJobs(x)) # 0
    BY <2>1, ToldJobsFinite, FS_EmptySet, FS_CardinalityType
  <2> QED
    BY <1>1, <2>2 DEF JobInv, TypeOK, OutcomeType
<1>5. AccountedFor(x) /\ UNCHANGED <<job, outcome>> => AccountedFor(x)'
  BY DEF AccountedFor
<1>6. ASSUME NEW c \in Contacts, MarkSent(c), c = x, recipient[x] # "sent"
      PROVE  AccountedFor(x)'
  <2>1. /\ status = "sending" /\ recipient[x] = "pending" /\ UNCHANGED <<job, outcome>>
        /\ driver.pc = "hand" /\ driver.todo[x] = "mark"
    BY <1>1, <1>2, <1>6 DEF MarkSent, HandOff, TypeOK, RowTypeOK
  <2>2. driver.epoch = epoch /\ driver.epoch \in Epochs /\ job[x][epoch] # "none"
    BY <1>1, <1>3, <2>1, DriverParts DEF DriverInv, TypeOK, DriverType
  <2>3. job[x][epoch] \in JobStates \ {"none", "refused", "skipped"}
    BY <1>1, <2>1, <2>2 DEF JobInv, TypeOK
  <2>4. AccountedFor(x)
    BY <1>4, <2>2, <2>3 DEF AccountedFor, JobStates, Unfinished
  <2> QED
    BY <1>5, <2>1, <2>4
<1>7. ASSUME recipient[x] = "sent", NEW c \in Contacts, NEW e \in Epochs, JobChange(c, e)
      PROVE  AccountedFor(x)'
  <2>1. AccountedFor(x)
    BY <1>1, <1>3, <1>7 DEF LostInv
  <2>2. outcome[x].sends > 0 => outcome'[x].sends > 0
    <3>1. outcome[x].sends \in Nat
      BY <1>1 DEF TypeOK, OutcomeType
    <3>2. outcome'[x].sends \in {outcome[x].sends, outcome[x].sends + 1}
      BY <1>1, <1>7, OutcomeMoves
    <3> QED
      BY <3>1, <3>2
  <2>3. CASE outcome[x].sends > 0
    BY <2>2, <2>3 DEF AccountedFor
  <2>4. ASSUME NEW f \in Epochs, job[x][f] \in Unfinished \cup {"failed", "dropped"}
        PROVE  AccountedFor(x)'
    <3>1. CASE x # c \/ f # e
      BY <1>1, <1>7, <2>4, <3>1, JobBetween DEF AccountedFor
    <3>2. CASE x = c /\ f = e
      <4>1. CASE job'[c][e] \in Unfinished \cup {"failed", "dropped"}
        BY <3>2, <4>1 DEF AccountedFor
      <4>2. CASE JobSends(c, e)
        <5>1. outcome'[x].sends = outcome[x].sends + 1 /\ outcome[x].sends \in Nat
          BY <1>1, <1>7, <3>2, <4>2, OutcomeMoves DEF TypeOK, OutcomeType
        <5> QED
          BY <5>1 DEF AccountedFor
      <4>3. CASE JobResets(c, e)
        <5>1. recipient'[x] # "sent"
          BY <1>1, <3>2, <4>3 DEF JobResets, ResetRow, TypeOK, RowTypeOK
        <5> QED
          BY <1>2, <5>1
      <4>4. AddSendJob(c) /\ job'[c][e] = AddedJob(c, e) => job'[c][e] = job[c][e]
        BY <2>4, <3>2 DEF AddedJob, Unfinished
      <4> QED
        BY <1>1, <1>4, <1>7, <2>3, <2>4, <3>2, <4>1, <4>2, <4>3, <4>4, JobBetween DEF Unfinished
    <3> QED
      BY <3>1, <3>2
  <2> QED
    BY <2>1, <2>3, <2>4 DEF AccountedFor
<1>8. CASE recipient[x] = "sent"
  <2>1. CASE UNCHANGED <<job, outcome>>
    BY <1>1, <1>3, <1>5, <1>8, <2>1 DEF LostInv
  <2> QED
    BY <1>1, <1>7, <1>8, <2>1, JobMoved
<1>9. CASE recipient[x] # "sent"
  <2>1. \E c \in Contacts : MarkSent(c) /\ c = x
    <3>1. \/ UNCHANGED recipient
          \/ \E c \in Contacts :
                RejectRecipient(c) \/ MarkSent(c) \/ ReceiptFailed(c) \/ RecordFailure(c)
          \/ \E c \in Contacts, e \in Epochs : JobResets(c, e)
      BY RecipientChange
    <3> QED
      BY <1>1, <1>2, <1>9, <3>1
      DEF RejectRecipient, MarkSent, ReceiptFailed, JobResets, RecordFailure, ResetRow,
          TypeOK, RowTypeOK
  <2> QED
    BY <1>6, <1>9, <2>1
<1> QED
  BY <1>8, <1>9

LEMMA QuietStep ==
    ASSUME Inv, Next
    PROVE  QuietInv'
<1>1. TypeOK /\ RowInv /\ JobInv /\ DriverInv /\ QuietInv /\ driver \in DriverType
  BY DEF Inv, TypeOK, DriverType
<1>2. CASE ResumeSending
  <2>1. /\ UNCHANGED <<driver, job, recipient>> /\ ~handoff'
        /\ resumedOver' = {} => StillRunning = {}
    BY <1>2 DEF ResumeSending
  <2>2. StillRunning = {} =>
           /\ driver.pc = "idle"
           /\ \A c \in Contacts, e \in Epochs : job[c][e] \notin Unfinished
    BY DEF StillRunning
  <2> QED
    BY <2>1, <2>2 DEF QuietInv, Unfinished
<1>3. ASSUME ~ResumeSending, status' = "sending", resumedOver' = {}
      PROVE  /\ \A c \in Contacts, e \in Epochs :
                    /\ job'[c][e] # "refused"
                    /\ e < epoch' => job'[c][e] \notin Unfinished
             /\ driver'.pc \in {"hand", "close"} /\ ~driver'.full /\ ~driver'.error =>
                    \A c \in Pending' : driver'.pc = "hand" /\ driver'.todo[c] # "no"
             /\ handoff' => Pending' = {}
  <2>1. status = "sending" /\ resumedOver = {} /\ Sendable /\ epoch' = epoch
    BY <1>1, <1>3, StatusMoves DEF RowInv, Sendable
  <2>2. \A c \in Contacts, e \in Epochs :
           /\ job[c][e] # "refused"
           /\ e < epoch => job[c][e] \notin Unfinished
    BY <1>1, <2>1 DEF QuietInv
  <2>3. driver.pc \in {"hand", "close"} /\ ~driver.full /\ ~driver.error =>
           \A c \in Pending : driver.pc = "hand" /\ driver.todo[c] # "no"
    BY <1>1, <2>1 DEF QuietInv
  <2>4. handoff => Pending = {}
    BY <1>1, <2>1 DEF QuietInv
  \* The jobs: only the driver adds one, of this epoch, and the guard refuses none.
  <2>5. ASSUME NEW x \in Contacts, NEW f \in Epochs
        PROVE  job'[x][f] # "refused" /\ (f < epoch => job'[x][f] \notin Unfinished)
    <3>1. CASE UNCHANGED <<job, outcome>>
      BY <2>2, <3>1
    <3>2. ASSUME NEW c \in Contacts, NEW e \in Epochs, JobChange(c, e)
          PROVE  job'[x][f] # "refused" /\ (f < epoch => job'[x][f] \notin Unfinished)
      <4>1. CASE x # c \/ f # e
        BY <1>1, <2>2, <3>2, <4>1, JobBetween
      <4>2. CASE x = c /\ f = e
        <5>1. CASE AddSendJob(c) /\ e = driver.epoch /\ job'[c][e] = AddedJob(c, e)
          <6>1. driver.epoch = epoch
            BY <1>1, <2>1, <5>1 DEF AddSendJob, HandOff, DriverInv
          <6>2. ~(f < epoch)
            BY <1>1, <4>2, <5>1, <6>1, BoundsAreNaturals DEF TypeOK, RowTypeOK, Epochs
          <6> QED
            BY <2>2, <4>2, <5>1, <6>2 DEF AddedJob
        <5>2. CASE job[c][e] = "waiting" /\ job'[c][e] \in {"dropped", "cleared"}
          BY <2>2, <4>2, <5>2 DEF Unfinished
        <5>3. CASE job[c][e] \in {"cleared", "told"} /\ job'[c][e] # "refused"
          BY <2>2, <4>2, <5>3 DEF Unfinished
        <5> QED
          BY <1>1, <2>1, <2>2, <3>2, <5>1, <5>2, <5>3, JobBetween
      <4> QED
        BY <4>1, <4>2
    <3> QED
      BY <1>1, <3>1, <3>2, JobMoved
  \* Nobody becomes pending again, and who is rejected or marked no longer is.
  <2>6. recipient \in [Contacts -> RecipientStates]
    BY <1>1 DEF TypeOK, RowTypeOK
  <2>7. ASSUME NEW c \in Contacts, NEW e \in Epochs PROVE ~JobResets(c, e)
    BY <2>2 DEF JobResets, JobMoves
  <2>8. ASSUME NEW x \in Pending' PROVE x \in Pending
    <3>1. x \in Contacts /\ recipient'[x] = "pending"
      BY DEF Pending
    <3>2. recipient[x] = "pending"
      BY <2>6, <2>7, <3>1, RecipientChange
      DEF RejectRecipient, MarkSent, ReceiptFailed, RecordFailure
    <3> QED
      BY <3>1, <3>2 DEF Pending
  <2>9. ASSUME NEW c \in Contacts, RejectRecipient(c) \/ MarkSent(c)
        PROVE  c \notin Pending'
    BY <2>1, <2>6, <2>9 DEF RejectRecipient, MarkSent, Pending
  \* The driver's batch.
  <2>10. ASSUME driver'.pc \in {"hand", "close"}, ~driver'.full, ~driver'.error,
                NEW x \in Pending'
         PROVE  driver'.pc = "hand" /\ driver'.todo[x] # "no"
    <3>1. x \in Pending /\ x \in Contacts
      BY <2>8 DEF Pending
    <3>2. CASE UNCHANGED driver
      BY <2>3, <2>10, <3>1, <3>2
    <3>3. CASE Started \/ Claimed \/ Ended
      BY <2>10, <3>3 DEF Started, Claimed, Ended
    <3>4. CASE Fetched
      BY <2>10, <3>1, <3>4 DEF Fetched
    <3>5. CASE BatchDone
      BY <2>3, <3>1, <3>5 DEF BatchDone
    <3>6. ASSUME NEW c \in Contacts, HandedOn(c, "no"), x # c, ~HandOffFails(c),
                 driver'.error = driver.error
          PROVE  driver'.pc = "hand" /\ driver'.todo[x] # "no"
      BY <2>3, <2>10, <3>1, <3>6 DEF HandedOn
    <3>7. ASSUME NEW c \in Contacts, HandedOn(c, "mark"), driver'.error = driver.error
          PROVE  driver'.pc = "hand" /\ driver'.todo[x] # "no"
      BY <2>3, <2>10, <3>1, <3>7 DEF HandedOn
    <3>8. ASSUME NEW c \in Contacts,
                 RejectRecipient(c) \/ AddSendJob(c) \/ MarkSent(c) \/ HandOffFails(c)
          PROVE  driver'.pc = "hand" /\ driver'.todo[x] # "no"
      <4>1. ~HandOffFails(c)
        BY <1>1, <2>10, HandKinds
      <4>2. driver'.error = driver.error
        BY <1>1, <3>8, <4>1, HandKinds
      <4> QED
        BY <1>1, <2>9, <3>6, <3>7, <3>8, <4>1, <4>2, HandKinds
    <3> QED
      BY <1>1, <3>2, <3>3, <3>4, <3>5, <3>8, DriverChange, DriverMoves, FetchMoves
  \* The hand-off is closed by a driver whose last batch left nobody.
  <2>11. ASSUME handoff' PROVE Pending' = {}
    <3>1. CASE DriverClose
      <4>1. driver.pc = "close"
        BY <3>1 DEF DriverClose
      <4>2. Pending = {}
        BY <1>1, <2>3, <4>1 DEF DriverInv
      <4> QED
        BY <2>8, <4>2
    <3>2. CASE ~DriverClose
      <4>1. handoff
        BY <1>3, <2>11, <3>2
        DEF Next, DispatchLocalNext, RowNext, StopSending, Reconcile, WindowExpires, DriverStep,
            DriverCrashes, HandOffFails, DriverStart, DriverClaim, DriverFetch, DriverBatchDone,
            RejectRecipient, AddSendJob, MarkSent, ReceiptDelivered, ReceiptFailed, JobStep,
            JobErrs, JobStart, JobSends, JobEnds, JobResets, RecordFailure, GraceElapses, FinalizeStep,
            FinalizeFails, FinalizeList, FinalizeCount, FinalizeWrite, SoftDelete,
            CampaignCleanup, ToggleBlocked, rowVars, sharedVars
      <4> QED
        BY <2>4, <2>8, <4>1
    <3> QED
      BY <3>1, <3>2
  <2> QED
    BY <2>1, <2>5, <2>10, <2>11
<1> QED
  BY <1>2, <1>3 DEF QuietInv

LEMMA NextInv == Inv /\ [Next]_vars => Inv'
<1>1. CASE Inv /\ Next
  BY <1>1, TypeNext, RowStep, JobStepInv, DriverStepInv, LostStep, QuietStep, VerdictStep
  DEF Inv
<1>2. CASE Inv /\ UNCHANGED vars
  <2>1. /\ UNCHANGED <<status, epoch, contactCount, handoff, deletion, recipient>>
        /\ UNCHANGED dispatchVars
    BY <1>2 DEF vars, sharedVars, rowVars
  <2>2. UNCHANGED <<Rows, Pending, FailedRows>> /\ \A c \in Contacts : UNCHANGED ToldJobs(c)
    BY <2>1 DEF Rows, Pending, FailedRows, ToldJobs, dispatchVars
  <2>3. TypeOK' /\ RowInv' /\ JobInv'
    BY <1>2, <2>1, <2>2, TypeNext DEF Inv, RowInv, JobInv, dispatchVars
  <2>4. DriverInv' /\ LostInv'
    BY <1>2, <2>1 DEF Inv, DriverInv, LostInv, AccountedFor, dispatchVars
  <2>5. QuietInv' /\ VerdictInv'
    BY <1>2, <2>1, <2>2 DEF Inv, QuietInv, VerdictInv, FailedMeansAllFailed, dispatchVars
  <2> QED
    BY <2>3, <2>4, <2>5 DEF Inv
<1> QED
  BY <1>1, <1>2

-----------------------------------------------------------------------------
(* What the invariant says of the properties *)

LEMMA InvOncePerEpoch == Inv => OncePerEpoch
<1> SUFFICES ASSUME Inv, NEW c \in Contacts
             PROVE  outcome[c].sends <= epoch + 1 + outcome[c].cut
  BY DEF OncePerEpoch
<1>1. epoch \in Nat /\ outcome[c].sends = Cardinality(ToldJobs(c)) + outcome[c].cut
  BY BoundsAreNaturals DEF Inv, TypeOK, RowTypeOK, Epochs, JobInv
<1>2. ToldJobs(c) \subseteq 0..epoch
  BY <1>1, BoundsAreNaturals DEF ToldJobs, Inv, JobInv, Epochs
<1>3. IsFiniteSet(0..epoch) /\ Cardinality(0..epoch) = epoch + 1
  BY <1>1, FS_Interval
<1>4. Cardinality(ToldJobs(c)) <= Cardinality(0..epoch)
  BY <1>2, <1>3, FS_Subset
<1>5. outcome[c].cut \in Nat /\ Cardinality(ToldJobs(c)) \in Nat
  BY ToldJobsFinite, FS_CardinalityType DEF Inv, TypeOK, OutcomeType
<1> QED
  BY <1>1, <1>3, <1>4, <1>5

LEMMA InvFailedMeansAllFailed == Inv => FailedMeansAllFailed
BY DEF Inv, VerdictInv

LEMMA InvSettledNoRecipientLost == Inv => SettledNoRecipientLost
BY DEF Inv, LostInv, SettledNoRecipientLost, NoRecipientLost

LEMMA InvQuietHandoff == Inv => QuietHandoffLeavesNonePending
BY DEF Inv, QuietInv, QuietHandoffLeavesNonePending, HandoffLeavesNonePending

-----------------------------------------------------------------------------
(* The theorems *)

\* The invariant the safety theorems rest on, of every reachable state.
THEOREM InvCorrect == Spec => []Inv
BY InitInv, NextInv, PTL DEF Spec

\* A contact is sent at most one message per dispatch epoch, however often it is handed
\* off, stopped and resumed, and one more for each attempt that failed or died after
\* the channel took the message: every other message is a job of its own, and there is
\* one job for each epoch that has begun.
THEOREM OncePerEpochCorrect == Spec => []OncePerEpoch
BY InvOncePerEpoch, InvCorrect, PTL

\* A broadcast ends up failed only if each of its recipients failed: the finalizer
\* counts rows that neither come nor go, and a row that has failed stays so until the
\* verdict is written.
THEOREM FailedMeansAllFailedCorrect == Spec => []FailedMeansAllFailed
BY InvFailedMeansAllFailed, InvCorrect, PTL

\* Unless a resume finds the driver in the middle of a batch, a recipient counted as
\* sent is one the channel was asked to send to, or whose job will still run or ended
\* for a reason on record.
THEOREM SettledNoRecipientLostCorrect == Spec => []SettledNoRecipientLost
BY InvSettledNoRecipientLost, InvCorrect, PTL

\* As long as every resume waits for the stopped run to be over, a hand-off that is
\* closed leaves nobody pending.
THEOREM QuietHandoffLeavesNonePendingCorrect == Spec => []QuietHandoffLeavesNonePending
BY InvQuietHandoff, InvCorrect, PTL

-----------------------------------------------------------------------------
(* What the rest of the pipeline relies on *)

\* Dispatch never touches the count or a deletion, and moves the status of what
\* has been promoted only.
LEMMA DispatchMoves ==
    ASSUME TypeOK, DispatchLocalNext
    PROVE  /\ UNCHANGED <<contactCount, deletion>> /\ Rows' = Rows
           /\ \/ UNCHANGED <<status, epoch>>
              \/ status = "sending" /\ status' = "cancelled" /\ UNCHANGED epoch
              \/ /\ ResumableScope /\ status' = "sending" /\ epoch' = epoch + 1
              \/ status = "sending" /\ status' \in {"sent", "failed"} /\ UNCHANGED epoch
<1>1. Rows' = Rows
  BY RowsStay DEF Next
<1>2. CASE StopSending \/ ResumeSending
  BY <1>1, <1>2 DEF StopSending, ResumeSending, Sendable
<1>3. CASE Reconcile \/ WindowExpires \/ DriverStep \/ DriverCrashes
              \/ \E c \in Contacts : HandOffFails(c)
  BY <1>1, <1>3 DEF Reconcile, WindowExpires, DriverStep, DriverCrashes, HandOffFails,
     DriverStart, DriverClaim, DriverFetch, DriverBatchDone, DriverClose, RejectRecipient,
     AddSendJob, MarkSent, rowVars, sharedVars
<1>4. CASE \/ \E c \in Contacts : ReceiptDelivered(c) \/ ReceiptFailed(c) \/ RecordFailure(c)
           \/ \E c \in Contacts, e \in Epochs : JobStep(c, e) \/ JobErrs(c, e)
  BY <1>1, <1>4 DEF ReceiptDelivered, ReceiptFailed, JobStep, JobErrs, JobStart, JobSends,
     JobEnds, JobResets, RecordFailure, rowVars, sharedVars
<1>5. CASE GraceElapses \/ FinalizeStep \/ FinalizeFails
  BY <1>1, <1>5 DEF GraceElapses, FinalizeStep, FinalizeFails, FinalizeList, FinalizeCount,
     FinalizeWrite, AwaitingFinalization, rowVars, sharedVars, TypeOK, FinalizerType
<1> QED
  BY <1>2, <1>3, <1>4, <1>5 DEF DispatchLocalNext

\* Nothing is dispatched before the promotion.
LEMMA NothingDispatchedYet ==
    ASSUME TypeOK, DispatchLocalNext, NothingDispatched, status # "sending",
           contactCount = NoCount
    PROVE  NothingDispatched'
<1> USE DEF NothingDispatched
<1>0. driver.pc = "idle"
  BY DEF IdleDriver
<1>1. UNCHANGED <<job, outcome>>
  <2>1. ASSUME NEW c \in Contacts, NEW e \in Epochs PROVE ~JobChange(c, e)
    BY <1>0 DEF JobChange, AddSendJob, HandOff, JobStart, JobSends, JobEnds, JobErrs, JobResets,
       JobMoves
  <2> QED
    BY <2>1, JobMoved DEF Next
<1>2. UNCHANGED driver
  <2>1. ~DriverStart \/ UNCHANGED driver
    BY DEF DriverStart, Sendable
  <2>2. ~(DriverClaim \/ DriverFetch \/ DriverBatchDone \/ DriverClose \/ DriverCrashes)
    BY <1>0 DEF DriverClaim, DriverFetch, DriverBatchDone, DriverClose, DriverCrashes
  <2>3. ASSUME NEW c \in Contacts
        PROVE  ~(RejectRecipient(c) \/ AddSendJob(c) \/ MarkSent(c) \/ HandOffFails(c))
    BY <1>0 DEF RejectRecipient, AddSendJob, MarkSent, HandOffFails, HandOff
  <2> QED
    BY <2>1, <2>2, <2>3, DriverChange DEF Next
<1>3. UNCHANGED <<handoff, finalizer>>
  <2>1. CASE StopSending \/ ResumeSending
    BY <2>1 DEF StopSending, ResumeSending, Sendable, ResumableScope
  <2>2. CASE Reconcile \/ WindowExpires \/ DriverStep \/ DriverCrashes
                \/ \E c \in Contacts : HandOffFails(c)
    BY <1>0, <2>2 DEF Reconcile, WindowExpires, DriverStep, DriverCrashes, HandOffFails,
       DriverStart, DriverClaim, DriverFetch, DriverBatchDone, DriverClose, RejectRecipient,
       AddSendJob, MarkSent, rowVars, sharedVars, dispatchVars
  <2>3. CASE \/ \E c \in Contacts : ReceiptDelivered(c) \/ ReceiptFailed(c) \/ RecordFailure(c)
             \/ \E c \in Contacts, e \in Epochs : JobStep(c, e) \/ JobErrs(c, e)
    BY <2>3 DEF ReceiptDelivered, ReceiptFailed, JobStep, JobErrs, JobStart, JobSends,
       JobEnds, JobResets, RecordFailure, rowVars, sharedVars, dispatchVars
  <2>4. CASE GraceElapses \/ FinalizeStep \/ FinalizeFails
    BY <2>4 DEF GraceElapses, FinalizeStep, FinalizeFails, FinalizeList, FinalizeCount,
       FinalizeWrite, AwaitingFinalization, rowVars, sharedVars
  <2> QED
    BY <2>1, <2>2, <2>3, <2>4 DEF DispatchLocalNext
<1>4. UNCHANGED recipient
  <2>1. ASSUME NEW c \in Contacts
        PROVE  ~(RejectRecipient(c) \/ MarkSent(c) \/ ReceiptFailed(c) \/ RecordFailure(c))
    BY <1>0 DEF RejectRecipient, MarkSent, HandOff, ReceiptFailed, RecordFailure
  <2>2. ASSUME NEW c \in Contacts, NEW e \in Epochs PROVE ~JobResets(c, e)
    BY DEF JobResets, JobMoves
  <2> QED
    BY <2>1, <2>2, RecipientChange DEF Next
<1> QED
  BY <1>1, <1>2, <1>3, <1>4

\* Whom the dispatch has reached: handed to the driver, given a job, or sent to.
Reached ==
    {c \in Contacts : \/ driver.pc = "hand" /\ driver.todo[c] # "no"
                      \/ \E e \in Epochs : job[c][e] # "none"
                      \/ outcome[c].sends > 0}

\* It reaches nobody who has no row.
LEMMA ReachedMoves ==
    ASSUME TypeOK, DispatchLocalNext
    PROVE  Reached' \subseteq Reached \cup Rows
<1> SUFFICES ASSUME NEW x \in Reached', x \notin Reached PROVE x \in Rows
  OBVIOUS
<1>1. /\ x \in Contacts /\ outcome[x].sends = 0 /\ driver \in DriverType /\ driver.epoch \in Epochs
      /\ \A e \in Epochs : job[x][e] = "none"
      /\ driver.pc = "hand" => driver.todo[x] = "no"
  BY DriverParts DEF Reached, TypeOK, DriverType, OutcomeType
<1>2. UNCHANGED <<job, outcome>> \/ \A e \in Epochs : job'[x][e] = "none" /\ outcome'[x].sends = 0
  <2>1. ASSUME NEW c \in Contacts, NEW e \in Epochs, JobChange(c, e)
        PROVE  \A f \in Epochs : job'[x][f] = "none" /\ outcome'[x].sends = 0
    <3>1. c # x
      BY <1>1, <2>1 DEF JobChange, AddSendJob, HandOff, JobStart, JobSends, JobEnds, JobErrs,
         JobResets, JobMoves
    <3>2. \A f \in Epochs : job'[x][f] = "none"
      BY <1>1, <2>1, <3>1, JobBetween
    <3>3. outcome'[x].sends = 0
      BY <1>1, <2>1, <3>1, OutcomeMoves
    <3> QED
      BY <3>2, <3>3
  <2> QED
    BY <2>1, JobMoved DEF Next
<1>3. driver'.pc = "hand" /\ driver'.todo[x] # "no"
  BY <1>1, <1>2 DEF Reached
<1>4. CASE DriverFetch
  BY <1>1, <1>3, <1>4 DEF DriverFetch, DriverType, Pending, Rows
<1>5. CASE Started \/ Claimed \/ Ended \/ BatchDone \/ UNCHANGED driver
  BY <1>1, <1>3, <1>5 DEF Started, Claimed, Ended, BatchDone
<1>6. ASSUME NEW c \in Contacts, HandedOn(c, "no") \/ (HandedOn(c, "mark") /\ c # x)
      PROVE  FALSE
  BY <1>1, <1>3, <1>6 DEF HandedOn
<1>7. ASSUME NEW c \in Contacts,
             RejectRecipient(c) \/ AddSendJob(c) \/ MarkSent(c) \/ HandOffFails(c)
      PROVE  FALSE
  <2>1. AddSendJob(c) => c # x
    BY <1>1 DEF AddSendJob, HandOff
  <2> QED
    BY <1>1, <1>6, <1>7, <2>1, HandKinds
<1> QED
  BY <1>1, <1>4, <1>5, <1>7, DriverChange, DriverMoves DEF Next

\* What others do to the row of a promoted broadcast disturbs no dispatch: they
\* stop or delete it, or take recipient rows away.
LEMMA OutsideStep ==
    ASSUME Inv, TypeOK', UNCHANGED <<epoch, contactCount, handoff, dispatchVars>>,
           status' \in {"sending", "failed"} => status' = status,
           status' = "sending" => deletion' = "none",
           \A c \in Contacts : recipient'[c] \in {recipient[c], "absent"}
    PROVE  Inv'
<1>1. UNCHANGED <<driver, job, outcome, finalizer, resumedOver>>
  BY DEF dispatchVars
<1>2. RowInv'
  BY DEF RowInv
<1>3. JobInv'
  <2>1. \A c \in Contacts : UNCHANGED ToldJobs(c)
    BY <1>1 DEF ToldJobs
  <2> QED
    BY <1>1, <2>1 DEF Inv, JobInv
<1>4. DriverInv' /\ LostInv'
  BY <1>1 DEF Inv, DriverInv, LostInv, AccountedFor
<1>5. QuietInv'
  <2>1. Pending' \subseteq Pending
    BY DEF Pending
  <2> QED
    BY <1>1, <2>1 DEF Inv, QuietInv
<1>6. VerdictInv'
  <2>1. /\ Rows' \subseteq Rows /\ FailedRows' \subseteq Rows'
        /\ FailedRows = Rows => FailedRows' = Rows'
    BY DEF Rows, FailedRows
  <2>2. IsFiniteSet(Rows)
    BY ContactsFinite, FS_Subset DEF Rows
  <2>3. /\ Cardinality(Rows') <= Cardinality(Rows)
        /\ Cardinality(Rows) \in Nat /\ Cardinality(Rows') \in Nat
    BY <2>1, <2>2, FS_Subset, FS_CardinalityType
  <2>4. contactCount \in Nat \cup {NoCount}
    BY DEF Inv, TypeOK, RowTypeOK
  <2>5. contactCount' # NoCount => Cardinality(Rows') <= contactCount'
    BY <2>3, <2>4 DEF Inv, VerdictInv, NoCount
  <2> QED
    BY <1>1, <2>1, <2>5 DEF Inv, VerdictInv, FailedMeansAllFailed
<1> QED
  BY <1>2, <1>3, <1>4, <1>5, <1>6 DEF Inv
=============================================================================

------------------------- MODULE BroadcastDispatch --------------------------
(***************************************************************************)
(* From sending to sent or failed: the reconcile tick and the driver job   *)
(* that hand each recipient to a channel send job, the send jobs with      *)
(* their stop guard, delivery receipts, the finalizer, and the user's stop *)
(* and resume.                                                             *)
(*                                                                         *)
(* A send job is known by its contact and the epoch in its jobId.  A job   *)
(* that finished keeps its id (removeOnComplete.age), so adding it again   *)
(* in the same epoch is a no-op; ids are taken to outlive the run.         *)
(***************************************************************************)
EXTENDS BroadcastRow

CONSTANTS
    BatchSize,     \* sendRatePerMinute, recipients per window: a resume may change it
    Undeliverable, \* contacts recipientRules reject
    RedisFailsOpen \* whether claiming the dispatch window may fail open

ASSUME BatchAssumption == BatchSize \in [Epochs -> Nat \ {0}]
ASSUME UndeliverableAssumption == Undeliverable \subseteq Contacts
ASSUME RedisAssumption == RedisFailsOpen \in BOOLEAN

VARIABLES
    driver,     \* locals of the running processBroadcastContacts
    window,     \* the dispatch-window lease is held
    job,        \* the channel send job of each contact and epoch
    outcome,    \* what came of sending to each contact, see OutcomeType
    delivered,  \* contacts whose deliveredAt is set
    grace,      \* BROADCAST_OUTCOME_GRACE_MS has passed since the hand-off
    finalizer,  \* locals of the running finalizeBroadcasts
    resumedOver \* history: what of a stopped run was not over when it was resumed

dispatchVars == <<driver, window, job, outcome, delivered, grace, finalizer, resumedOver>>
vars == <<sharedVars, dispatchVars>>

DriverPCs == {"idle", "claim", "fetch", "hand", "close"}
HandOffs == {"no", "add", "mark"}

\* "cleared" passed the guard, "told" has asked the channel to send and is not
\* over; "refused" did not pass and has yet to reset its row, "skipped" has;
\* "dropped" ended at a check before the guard, see JobStart.
JobStates == {"none", "waiting", "cleared", "told", "refused", "sent", "failed",
              "skipped", "dropped"}
Unfinished == {"waiting", "cleared", "told", "refused"}

\* How often the channel was asked to send, how many attempts were cut short
\* after that, and whether a failure was reported (message:failed).
OutcomeType == [sends : Nat, cut : Nat, errored : BOOLEAN]

TypeOK ==
    /\ RowTypeOK
    /\ driver \in [pc : DriverPCs, epoch : Epochs, todo : [Contacts -> HandOffs],
                   full : BOOLEAN, error : BOOLEAN]
    /\ window \in BOOLEAN
    /\ job \in [Contacts -> [Epochs -> JobStates]]
    /\ outcome \in [Contacts -> OutcomeType]
    /\ delivered \subseteq Contacts
    /\ grace \in BOOLEAN
    /\ finalizer \in [pc : {"idle", "listed", "decided"}, grace : BOOLEAN,
                      verdict : {"sent", "failed"}]
    /\ resumedOver \subseteq {"driver", "jobs"}

NothingToDo == [c \in Contacts |-> "no"]
IdleDriver == [pc |-> "idle", epoch |-> 0, todo |-> NothingToDo, full |-> FALSE,
               error |-> FALSE]
IdleFinalizer == [pc |-> "idle", grace |-> FALSE, verdict |-> "sent"]

Sendable == status = "sending" /\ deletion = "none"

-----------------------------------------------------------------------------
(* Users: stop and resume *)

StopSending ==
    /\ Sendable
    /\ status' = "cancelled"
    /\ UNCHANGED <<epoch, contactCount, handoff, deletion, recipient, driverJob,
                   blocked, faults, dispatchVars>>

\* resumeSending may be called at any moment, even while the driver or the send
\* jobs of the stopped run are not over.
StillRunning ==
    {x \in {"driver", "jobs"} :
        \/ x = "driver" /\ driver.pc # "idle"
        \/ x = "jobs" /\ \E c \in Contacts, e \in Epochs : job[c][e] \in Unfinished}

ResumableScopeUnprepared == status = "cancelled" /\ deletion = "none"
ResumableScope == status = "cancelled" /\ deletion = "none" /\ contactCount # NoCount

ResumeSending ==
    /\ ResumableScope
    /\ epoch < MaxEpoch
    /\ status' = "sending"
    /\ handoff' = FALSE
    /\ grace' = FALSE
    /\ epoch' = epoch + 1
    /\ resumedOver' = resumedOver \cup StillRunning
    /\ UNCHANGED <<contactCount, deletion, recipient, driverJob, blocked, faults,
                   driver, window, job, outcome, delivered, finalizer>>

-----------------------------------------------------------------------------
(* reconcileBroadcasts and the dispatch window *)

\* Listing and adding are one step: a driver that starts late reads the row
\* again before it does anything.
Reconcile ==
    /\ Sendable /\ ~handoff
    /\ driverJob' = Enqueued(driverJob)
    /\ UNCHANGED <<rowVars, recipient, blocked, faults, dispatchVars>>

WindowExpires ==
    /\ window
    /\ window' = FALSE
    /\ UNCHANGED <<sharedVars, driver, job, outcome, delivered, grace, finalizer, resumedOver>>

-----------------------------------------------------------------------------
(* processBroadcastContacts *)

\* listSendableById, then isBlockedWorkspace.
DriverStart ==
    /\ driverJob = "waiting"
    /\ IF Sendable /\ ~blocked
         THEN /\ driverJob' = "active"
              /\ driver' = [IdleDriver EXCEPT !.pc = "claim", !.epoch = epoch]
         ELSE driverJob' = "none" /\ UNCHANGED driver
    /\ UNCHANGED <<rowVars, recipient, blocked, faults, window, job, outcome,
                   delivered, grace, finalizer, resumedOver>>

DriverEnds == driver' = IdleDriver /\ driverJob' = "none"

\* claimDispatchWindow: SET NX, and a Redis failure counts as claimed.
DriverClaim ==
    /\ driver.pc = "claim"
    /\ \/ /\ ~window \/ RedisFailsOpen
          /\ window' = TRUE
          /\ driver' = [driver EXCEPT !.pc = "fetch"]
          /\ UNCHANGED driverJob
       \/ window /\ DriverEnds /\ UNCHANGED window
    /\ UNCHANGED <<rowVars, recipient, blocked, faults, job, outcome, delivered, grace,
                   finalizer, resumedOver>>

LeastOf(m, n) == IF m < n THEN m ELSE n

\* listPendingRecipients with limit = batchSize.
DriverFetch ==
    /\ driver.pc = "fetch"
    /\ \E batch \in SUBSET Pending :
         /\ Cardinality(batch) = LeastOf(Cardinality(Pending), BatchSize[driver.epoch])
         /\ driver' = [driver EXCEPT
               !.pc = IF batch = {} THEN "close" ELSE "hand",
               !.todo = [c \in Contacts |-> IF c \in batch THEN "add" ELSE "no"],
               !.full = Cardinality(batch) = BatchSize[driver.epoch]]
    /\ UNCHANGED <<sharedVars, window, job, outcome, delivered, grace, finalizer, resumedOver>>

HandOff(c, from, to) ==
    /\ driver.pc = "hand" /\ driver.todo[c] = from
    /\ driver' = [driver EXCEPT !.todo[c] = to]

\* markContactFailed, whatever the status; a purged row is not there to update.
RejectRecipient(c) ==
    /\ c \in Undeliverable
    /\ HandOff(c, "add", "no")
    /\ recipient' = [recipient EXCEPT ![c] = IF @ = "absent" THEN @ ELSE "failed"]
    /\ UNCHANGED <<rowVars, driverJob, blocked, faults, window, job, outcome, delivered,
                   grace, finalizer, resumedOver>>

AddedJobForgotten(c, e) == "waiting"
AddedJob(c, e) == IF job[c][e] = "none" THEN "waiting" ELSE job[c][e]

AddSendJob(c) ==
    /\ c \notin Undeliverable
    /\ HandOff(c, "add", "mark")
    /\ job' = [job EXCEPT ![c][driver.epoch] = AddedJob(c, driver.epoch)]
    /\ UNCHANGED <<sharedVars, window, outcome, delivered, grace, finalizer, resumedOver>>

\* markContactSentIfSending: the broadcast is sending, in whichever epoch.
MarkSent(c) ==
    /\ HandOff(c, "mark", "no")
    /\ recipient' = [recipient EXCEPT
          ![c] = IF @ = "pending" /\ status = "sending" THEN "sent" ELSE @]
    /\ UNCHANGED <<rowVars, driverJob, blocked, faults, window, job, outcome, delivered,
                   grace, finalizer, resumedOver>>

\* Adding the job or marking the row throws; the others of the batch go on.
HandOffFails(c) ==
    /\ driver.pc = "hand" /\ driver.todo[c] # "no"
    /\ Fault
    /\ driver' = [driver EXCEPT !.todo[c] = "no", !.error = TRUE]
    /\ UNCHANGED <<rowVars, recipient, driverJob, blocked, window, job, outcome,
                   delivered, grace, finalizer, resumedOver>>

BatchEndsHereIgnoringErrors == driver.full
BatchEndsHereIgnoringFull == driver.error
BatchEndsHere == driver.error \/ driver.full

\* A failed batch throws and a full one leaves the rest to the next tick.
DriverBatchDone ==
    /\ driver.pc = "hand" /\ driver.todo = NothingToDo
    /\ IF BatchEndsHere
         THEN DriverEnds
         ELSE driver' = [driver EXCEPT !.pc = "close"] /\ UNCHANGED driverJob
    /\ UNCHANGED <<rowVars, recipient, blocked, faults, window, job, outcome, delivered,
                   grace, finalizer, resumedOver>>

\* markHandoffCompleted, in whichever epoch.
DriverClose ==
    /\ driver.pc = "close"
    /\ handoff' = (handoff \/ status = "sending")
    /\ DriverEnds
    /\ UNCHANGED <<status, epoch, contactCount, deletion, recipient, blocked, faults,
                   window, job, outcome, delivered, grace, finalizer, resumedOver>>

\* The worker dies: BullMQ runs the stalled job again, or gives it up.
DriverCrashes ==
    /\ driver.pc # "idle"
    /\ Fault
    /\ driver' = IdleDriver
    /\ driverJob' \in {"waiting", "none"}
    /\ UNCHANGED <<rowVars, recipient, blocked, window, job, outcome, delivered, grace,
                   finalizer, resumedOver>>

DriverStep ==
    \/ DriverStart \/ DriverClaim \/ DriverFetch \/ DriverBatchDone \/ DriverClose
    \/ \E c \in Contacts : RejectRecipient(c) \/ AddSendJob(c) \/ MarkSent(c)

-----------------------------------------------------------------------------
(* The channel send jobs and their outcomes *)

JobMoves(c, e, from, to) == job[c][e] = from /\ job' = [job EXCEPT ![c][e] = to]

\* The guard: sending, in whichever epoch.
\* An attempt that fails and is retried runs the guard anew, as a later one.
GuardPasses(c, e) == Sendable

\* The worker first drops the jobs of a blocked workspace, and of one that is
\* out of bot messages.
JobStart(c, e) ==
    /\ \/ CanBlock /\ JobMoves(c, e, "waiting", "dropped")
       \/ ~blocked /\ JobMoves(c, e, "waiting", IF GuardPasses(c, e) THEN "cleared" ELSE "refused")
    /\ UNCHANGED <<sharedVars, driver, window, outcome, delivered, grace, finalizer, resumedOver>>

\* A flow or template is sent through the channel.
JobSends(c, e) ==
    /\ JobMoves(c, e, "cleared", "told")
    /\ outcome' = [outcome EXCEPT ![c].sends = @ + 1]
    /\ UNCHANGED <<sharedVars, driver, window, delivered, grace, finalizer, resumedOver>>

\* What follows it in the job, the conversation marked read and the event that
\* it was sent, is done.
JobEnds(c, e) ==
    /\ JobMoves(c, e, "told", "sent")
    /\ UNCHANGED <<sharedVars, driver, window, outcome, delivered, grace, finalizer,
                   resumedOver>>

\* An attempt throws, or its worker dies: the job is tried again, from the guard
\* on, or was at its last attempt.
JobErrs(c, e) ==
    /\ Fault
    /\ \E from \in {"cleared", "told", "refused"}, to \in {"waiting", "failed"} :
         /\ JobMoves(c, e, from, to)
         /\ outcome' = [outcome EXCEPT
               ![c].cut = IF from = "told" THEN @ + 1 ELSE @,
               ![c].errored = @ \/ from # "refused"]
    /\ UNCHANGED <<rowVars, recipient, driverJob, blocked, driver, window,
                   delivered, grace, finalizer, resumedOver>>

ResetRowNever(r) == r
ResetRow(r) == IF r \in {"absent", "failed"} THEN r ELSE "pending"

\* resetContactForResume: any row that has not failed, whatever the status.
JobResets(c, e) ==
    /\ JobMoves(c, e, "refused", "skipped")
    /\ recipient' = [recipient EXCEPT ![c] = ResetRow(@)]
    /\ UNCHANGED <<rowVars, driverJob, blocked, faults, driver, window, outcome,
                   delivered, grace, finalizer, resumedOver>>

\* The provider reports a sent message delivered, or failed after all.
ReceiptDelivered(c) ==
    /\ outcome[c].sends > 0 /\ recipient[c] # "absent" /\ c \notin delivered
    /\ delivered' = delivered \cup {c}
    /\ UNCHANGED <<sharedVars, driver, window, job, outcome, grace, finalizer, resumedOver>>

ReceiptFailed(c) ==
    /\ outcome[c].sends > 0 /\ recipient[c] \notin {"absent", "failed"}
    /\ recipient' = [recipient EXCEPT ![c] = "failed"]
    /\ UNCHANGED <<rowVars, driverJob, blocked, faults, dispatchVars>>

\* updateFailedBulk sets failedAt from message:failed, which an attempt emits even
\* if another is to come, and which need not arrive.
RecordFailure(c) ==
    /\ outcome[c].errored /\ recipient[c] \notin {"absent", "failed"}
    /\ recipient' = [recipient EXCEPT ![c] = "failed"]
    /\ UNCHANGED <<rowVars, driverJob, blocked, faults, dispatchVars>>

JobStep(c, e) ==
    JobStart(c, e) \/ JobSends(c, e) \/ JobEnds(c, e) \/ JobResets(c, e)

-----------------------------------------------------------------------------
(* finalizeBroadcasts *)

MissingCap == 100          \* MAX_MISSING_CONTACTS_FOR_THRESHOLD
MissingPerHundred == 1     \* MISSING_RATE_THRESHOLD

GraceElapses ==
    /\ handoff /\ ~grace
    /\ grace' = TRUE
    /\ UNCHANGED <<sharedVars, driver, window, job, outcome, delivered, finalizer, resumedOver>>

AwaitingFinalization == status = "sending" /\ handoff

FinalizeList ==
    /\ finalizer.pc = "idle" /\ AwaitingFinalization
    /\ finalizer' = [finalizer EXCEPT !.pc = "listed", !.grace = grace]
    /\ UNCHANGED <<sharedVars, driver, window, job, outcome, delivered, grace, resumedOver>>

FailedRows == {c \in Contacts : recipient[c] = "failed"}
CompletedRows == FailedRows \cup {c \in delivered : recipient[c] # "absent"}

OutcomesComplete ==
    LET missing == contactCount - Cardinality(CompletedRows)
    IN  \/ missing <= 0
        \/ missing <= MissingCap /\ 100 * missing <= MissingPerHundred * contactCount

TerminalStatusPartial ==
    IF contactCount > 0 /\ Cardinality(FailedRows) > 0 THEN "partial" ELSE "sent"

TerminalStatusAny ==
    IF contactCount > 0 /\ Cardinality(FailedRows) > 0 THEN "failed" ELSE "sent"

\* resolveBroadcastTerminalStatus: failed when every recipient failed.
TerminalStatus ==
    IF contactCount > 0 /\ Cardinality(FailedRows) >= contactCount THEN "failed" ELSE "sent"

FinalizeDueOutcomesOnly == OutcomesComplete
FinalizeDue == OutcomesComplete \/ finalizer.grace

FinalizeCount ==
    /\ finalizer.pc = "listed"
    /\ finalizer' = IF FinalizeDue
                      THEN [finalizer EXCEPT !.pc = "decided", !.verdict = TerminalStatus]
                      ELSE IdleFinalizer
    /\ UNCHANGED <<sharedVars, driver, window, job, outcome, delivered, grace, resumedOver>>

\* completeSending
FinalizeWrite ==
    /\ finalizer.pc = "decided"
    /\ status' = IF AwaitingFinalization THEN finalizer.verdict ELSE status
    /\ finalizer' = IdleFinalizer
    /\ UNCHANGED <<epoch, contactCount, handoff, deletion, recipient, driverJob,
                   blocked, faults, driver, window, job, outcome, delivered, grace, resumedOver>>

\* A thrown error leaves the row untouched.
FinalizeFails ==
    /\ finalizer.pc # "idle"
    /\ Fault
    /\ finalizer' = IdleFinalizer
    /\ UNCHANGED <<rowVars, recipient, driverJob, blocked, driver, window, job, outcome,
                   delivered, grace, resumedOver>>

FinalizeStep == FinalizeList \/ FinalizeCount \/ FinalizeWrite

-----------------------------------------------------------------------------
DispatchLocalInit ==
    /\ driver = IdleDriver
    /\ window = FALSE
    /\ job = [c \in Contacts |-> [e \in Epochs |-> "none"]]
    /\ outcome = [c \in Contacts |-> [sends |-> 0, cut |-> 0, errored |-> FALSE]]
    /\ delivered = {}
    /\ grace = FALSE
    /\ finalizer = IdleFinalizer
    /\ resumedOver = {}

\* What preparation leaves: a promoted broadcast, its driver kicked or not.
Promoted ==
    /\ status = "sending"
    /\ epoch = 0
    /\ \E S \in (SUBSET Contacts) \ {{}} :
         /\ recipient = [c \in Contacts |-> IF c \in S THEN "pending" ELSE "absent"]
         /\ contactCount = Cardinality(S)
    /\ handoff = FALSE
    /\ deletion = "none"
    /\ driverJob \in {"none", "waiting"}
    /\ blocked = FALSE
    /\ faults = 0

Init == Promoted /\ DispatchLocalInit

DispatchLocalNext ==
    \/ StopSending \/ ResumeSending
    \/ Reconcile \/ WindowExpires
    \/ DriverStep \/ DriverCrashes
    \/ \E c \in Contacts :
         HandOffFails(c) \/ RecordFailure(c) \/ ReceiptDelivered(c) \/ ReceiptFailed(c)
    \/ \E c \in Contacts, e \in Epochs : JobStep(c, e) \/ JobErrs(c, e)
    \/ GraceElapses \/ FinalizeStep \/ FinalizeFails

Next == DispatchLocalNext \/ (RowNext /\ UNCHANGED dispatchVars)

Spec == Init /\ [][Next]_vars

\* The cron ticks, the queue workers and the clock keep running.
Fairness ==
    /\ WF_vars(Reconcile) /\ WF_vars(WindowExpires)
    /\ WF_vars(DriverStep)
    /\ \A c \in Contacts, e \in Epochs : WF_vars(JobStep(c, e))
    /\ WF_vars(GraceElapses) /\ WF_vars(FinalizeStep)

FairSpec == Spec /\ Fairness

-----------------------------------------------------------------------------
(* Properties *)

\* handoffCompletedAt is set once every recipient row has been handed to its
\* channel send job (markHandoffCompleted): nobody is left for a driver that
\* reconcile will no longer start.
HandoffLeavesNonePending == status = "sending" /\ handoff => Pending = {}

\* It holds as long as every resume waits for the stopped run to be over.
QuietHandoffLeavesNonePending == resumedOver = {} => HandoffLeavesNonePending

\* A row counted as sent stands for a message: one the channel was asked to
\* send, one whose job will still run, or one whose job failed or was dropped
\* with its workspace blocked or out of bot messages.  Its contact is never
\* passed over in silence.
AccountedFor(c) ==
    \/ outcome[c].sends > 0
    \/ \E e \in Epochs : job[c][e] \in Unfinished \cup {"failed", "dropped"}

NoRecipientLost ==
    status = "sending" => \A c \in Contacts : recipient[c] = "sent" => AccountedFor(c)

\* It holds as long as no resume finds the driver in the middle of a batch.
SettledNoRecipientLost == "driver" \notin resumedOver => NoRecipientLost

\* At most one message per dispatch epoch, however often it is handed off, stopped
\* and resumed, for the jobId absorbs a hand-off that is repeated; and one more for
\* each attempt that failed or died after the channel took the message.
OncePerEpoch == \A c \in Contacts : outcome[c].sends <= epoch + 1 + outcome[c].cut

\* A broadcast is failed only when every one of its recipients failed.
FailedMeansAllFailed == status = "failed" => FailedRows = Rows

\* Every recipient of a broadcast that is sending has its turn, unless the
\* broadcast is stopped: it is not finalized over the recipient's head.  A
\* resume before the stopped run is over may leave one out.
EveryRecipientHandedOff ==
    \A c \in Contacts :
        (status = "sending" /\ recipient[c] = "pending")
            ~> (status = "cancelled" \/ recipient[c] # "pending" \/ resumedOver # {})
=============================================================================

-------------------------- MODULE SequenceDispatch --------------------------
(***************************************************************************)
(* One contact in one sequence: the enrollment, the dispatch rows of its   *)
(* steps, the schedule the producer polls, the consumer that claims a row, *)
(* the job that sends the step and advances the enrollment, the hourly     *)
(* reconcile, and the edits of the steps while contacts wait for them.     *)
(*                                                                         *)
(* A dispatch is named by what its idempotency key is made of.  The times  *)
(* themselves are left out: a row may come due at any moment.              *)
(***************************************************************************)
EXTENDS Integers, FiniteSets, FiniteSetsExt

CONSTANTS
    NumSteps,         \* steps of the sequence
    MaxEnrollments,   \* bound on how often the contact is enrolled
    SendAttempts,     \* attempts of a send job
    MaxEdits,         \* bound on edits of the steps
    MaxFaults         \* bound on failures, of any kind

ASSUME BoundsAssumption ==
    /\ NumSteps \in Nat \ {0} /\ MaxEnrollments \in Nat /\ SendAttempts \in Nat \ {0}
    /\ MaxEdits \in Nat /\ MaxFaults \in Nat

Steps == 0..(NumSteps - 1)      \* a step is its order
NoStep == -1

\* A row's time is computed from the enrolment, under the delays as they were
\* after so many edits, or from the moment the step before it went out.
AfterSend == MaxEdits + 1
RunAts == 0..AfterSend
Dispatches == {d \in [enrollment : 1..MaxEnrollments, step : Steps, runAt : RunAts] :
                  d.runAt = AfterSend => d.step > 0}

VARIABLES
    steps,       \* state of each step
    delays,      \* version of the delays, and whether they add up to none
    enrollment,  \* the row of ContactsOnSequence
    dispatch,    \* status of each dispatch row
    schedule,    \* the Redis sorted set
    queue,       \* jobs of the sequence scheduler queue
    worker,      \* what is being done for a dispatch outside the queue
    attempts,    \* attempts made by its send job
    plan,        \* the next step advanceEnrollment has read
    editor,      \* the edit whose effect on contacts is being computed
    edits, faults,
    sent,        \* history: how often each dispatch went out
    detours      \* history: what kept an enrollment from its plain course

stepVars == <<steps, delays, editor, edits>>
schedulerVars == <<schedule, queue>>
sendVars == <<worker, attempts, plan, sent>>
vars == <<stepVars, enrollment, dispatch, schedulerVars, sendVars, faults, detours>>

\* "flowless" is active with its flow deleted, "new" a step not created yet.
StepStates == {"new", "ready", "flowless", "off", "gone"}

Statuses == {"absent", "pending", "running", "completed", "canceled", "failed"}
Open == {"pending", "running"}

\* "claimed" by the consumer, "queued" as a send job, "fetched" once the job has
\* read its row, "sending" the flow, "sent" once a message of it has gone out,
\* "settled" once the row is final, "planned" once advanceEnrollment has read the
\* enrollment, "advanced" once it has committed.
Phases == {"idle", "claimed", "queued", "fetched", "sending", "sent", "settled",
           "planned", "advanced"}

Detours == {"no first step", "no dispatch", "no delay", "cut short", "step deleted",
            "abandoned", "failed", "sent", "settled", "planned", "late"}

EditPhases == {"idle", "recalculate", "reactivate", "reopen", "dispatch"}

TypeOK ==
    /\ steps \in [Steps -> StepStates]
    /\ delays \in [version : 0..MaxEdits, none : BOOLEAN]
    /\ enrollment \in [id : 0..MaxEnrollments, status : {"none", "active", "completed"},
                       currentStep : 0..NumSteps, lastStep : Steps \cup {NoStep},
                       nextStep : Steps \cup {NoStep}]
    /\ dispatch \in [Dispatches -> Statuses]
    /\ schedule \subseteq Dispatches /\ queue \subseteq Dispatches
    /\ worker \in [Dispatches -> Phases]
    /\ attempts \in [Dispatches -> 0..SendAttempts]
    /\ plan \in [Dispatches -> Steps \cup {NoStep}]
    /\ editor \in [phase : EditPhases, step : Steps, kind : {"create", "update", "delete"},
                   of : 0..MaxEnrollments, next : Steps \cup {NoStep}]
    /\ edits \in 0..MaxEdits /\ faults \in 0..MaxFaults
    /\ sent \in [Dispatches -> Nat]
    /\ detours \subseteq (1..MaxEnrollments) \X Detours

-----------------------------------------------------------------------------
(* Steps and enrollments *)

Exists(s) == steps[s] \notin {"new", "gone"}

IsActive(s) == steps[s] \in {"ready", "flowless"}

\* First active step of order at least `from`, NoStep when there is none.
NextActiveStep(from) ==
    LET later == {s \in Steps : s >= from /\ IsActive(s)}
    IN  IF later = {} THEN NoStep ELSE Min(later)

Enrolled(e) == enrollment.id = e /\ enrollment.status # "none"

Fault == faults < MaxFaults /\ faults' = faults + 1

\* A write to Redis after the commit: it may fail, and the caller gives up.
Scheduled(d) ==
    \/ schedule' = schedule \cup {d} /\ UNCHANGED faults
    \/ Fault /\ UNCHANGED schedule

Detour(e, reasons) == detours' = detours \cup ({e} \X reasons)

\* The contact subscribes: step 0 is its first step, or none is.  A bulk
\* enrolment inserts the dispatch after the enrollment, and may die between.
EnrollContact ==
    LET id == enrollment.id + 1
        first == IF IsActive(0) THEN 0 ELSE NoStep
        d == [enrollment |-> id, step |-> 0, runAt |-> delays.version]
    IN  /\ enrollment.status = "none" /\ enrollment.id < MaxEnrollments
        /\ enrollment' = [id |-> id, status |-> "active", currentStep |-> 0,
                          lastStep |-> NoStep, nextStep |-> first]
        /\ \/ /\ first # NoStep
              /\ dispatch' = [dispatch EXCEPT ![d] = "pending"]
              /\ Scheduled(d)
              /\ UNCHANGED detours
           \/ /\ first # NoStep /\ Fault
              /\ Detour(id, {"no dispatch"})
              /\ UNCHANGED <<dispatch, schedule>>
           \/ /\ first = NoStep
              /\ Detour(id, {"no first step"})
              /\ UNCHANGED <<dispatch, schedule, faults>>
        /\ UNCHANGED <<stepVars, queue, sendVars>>

\* The rows an unsubscribe erases, pending ones first canceled in the same
\* transaction and the rest by the cascade from the enrollment.
ErasedRows == {d \in Dispatches : d.enrollment = enrollment.id}

Unsubscribe ==
    LET pending == {d \in ErasedRows : dispatch[d] = "pending"}
    IN  /\ enrollment.status # "none"
        /\ enrollment' = [enrollment EXCEPT !.status = "none"]
        /\ dispatch' = [d \in Dispatches |->
                            IF d \in ErasedRows THEN "absent" ELSE dispatch[d]]
        /\ \/ schedule' = schedule \ pending /\ UNCHANGED faults
           \/ pending # {} /\ Fault /\ UNCHANGED schedule
        /\ UNCHANGED <<stepVars, queue, sendVars, detours>>

-----------------------------------------------------------------------------
(* Producer, reconcile and orphan cleanup *)

\* processBucket takes a due dispatch out of the schedule and publishes it,
\* when its row is pending.
ProcessBucket(d) ==
    /\ d \in schedule /\ schedule' = schedule \ {d}
    /\ queue' = IF dispatch[d] = "pending" THEN queue \cup {d} ELSE queue
    /\ UNCHANGED <<stepVars, enrollment, dispatch, sendVars, faults, detours>>

\* Having taken it out the producer dies, or neither publishing it nor putting
\* it back works.
PublishFails(d) ==
    /\ d \in schedule /\ schedule' = schedule \ {d} /\ Fault
    /\ UNCHANGED <<stepVars, enrollment, dispatch, queue, sendVars, detours>>

Pending == {d \in Dispatches : dispatch[d] = "pending"}

\* Mutant: the reconcile refreshes what is scheduled and adds nothing.
ReconcileScheduled ==
    /\ schedule' = schedule \cup (Pending \cap schedule)
    /\ UNCHANGED <<stepVars, enrollment, dispatch, queue, sendVars, faults, detours>>

\* The hourly reconcile puts back every row that is pending.
Reconcile ==
    /\ schedule' = schedule \cup Pending
    /\ UNCHANGED <<stepVars, enrollment, dispatch, queue, sendVars, faults, detours>>

CleanupOrphans ==
    /\ schedule' = schedule \cap Pending
    /\ UNCHANGED <<stepVars, enrollment, dispatch, queue, sendVars, faults, detours>>

-----------------------------------------------------------------------------
(* Consumer *)

Locked(d) == [dispatch EXCEPT ![d] = "running"]

\* processDispatch: a row that is still pending is taken, others are dropped.
ProcessDispatch(d) ==
    /\ d \in queue /\ queue' = queue \ {d}
    /\ \/ /\ dispatch[d] = "pending" /\ dispatch' = Locked(d)
          /\ worker' = [worker EXCEPT ![d] = "claimed"]
          /\ UNCHANGED schedule
       \/ /\ dispatch[d] # "pending" /\ schedule' = schedule \ {d}
          /\ UNCHANGED <<dispatch, worker>>
    /\ UNCHANGED <<stepVars, enrollment, attempts, plan, sent, faults, detours>>

\* The workspace is blocked, another worker holds the lock, the query fails
\* (the row is then taken out of the schedule) or the worker dies.
DropDispatch(d) ==
    /\ d \in queue /\ Fault
    /\ queue' = queue \ {d}
    /\ schedule' \in {schedule, schedule \ {d}}
    /\ UNCHANGED <<stepVars, enrollment, dispatch, sendVars, detours>>

\* Mutant: the mark does not ask for a running row.
MarkedAnyRow(d, status) == [dispatch EXCEPT ![d] = status]

\* Only a row that is running is marked, whatever the mark.
Marked(d, status) ==
    IF dispatch[d] = "running" THEN [dispatch EXCEPT ![d] = status] ELSE dispatch

\* Mutant: an invalid step is canceled and nothing more.
CancelStepOnly(d) ==
    /\ dispatch' = Marked(d, "canceled")
    /\ worker' = [worker EXCEPT ![d] = "idle"]
    /\ schedule' = schedule \ {d}
    /\ UNCHANGED detours

\* What executing an invalid step does: the enrollment advances past it,
\* unless the step itself is gone.
CancelStep(d) ==
    /\ dispatch' = Marked(d, "canceled")
    /\ worker' = [worker EXCEPT ![d] = IF steps[d.step] = "gone" THEN "idle" ELSE "settled"]
    /\ schedule' = IF steps[d.step] = "gone" THEN schedule \ {d} ELSE schedule
    /\ IF steps[d.step] = "gone"
       THEN Detour(d.enrollment, {"step deleted"}) ELSE UNCHANGED detours

ExecuteStep(d) ==
    /\ worker[d] = "claimed"
    /\ \/ /\ steps[d.step] = "ready"
          /\ worker' = [worker EXCEPT ![d] = "queued"]
          /\ attempts' = [attempts EXCEPT ![d] = 1]
          /\ UNCHANGED <<dispatch, schedule, detours>>
       \/ steps[d.step] # "ready" /\ CancelStep(d) /\ UNCHANGED attempts
    /\ UNCHANGED <<stepVars, enrollment, queue, plan, sent, faults>>

\* Adding the send job fails: the row waits for the reconcile again.
EnqueueFails(d) ==
    /\ worker[d] = "claimed" /\ Fault
    /\ dispatch' = Marked(d, "pending")
    /\ worker' = [worker EXCEPT ![d] = "idle"]
    /\ UNCHANGED <<stepVars, enrollment, schedulerVars, attempts, plan, sent, detours>>

-----------------------------------------------------------------------------
(* Send job: runSendSequenceFlow, then advanceEnrollment *)

\* Mutant: the job goes, its attempts stay counted.
EndJobStillCounted(d) == /\ worker' = [worker EXCEPT ![d] = "idle"]
                         /\ attempts' = [attempts EXCEPT ![d] = @ + 1]

\* A job that finds no running row, or that is done, goes.
EndJob(d) == /\ worker' = [worker EXCEPT ![d] = "idle"]
             /\ attempts' = [attempts EXCEPT ![d] = 0]

\* Mutant: any row will do.
FetchAny(d) ==
    /\ worker[d] = "queued"
    /\ worker' = [worker EXCEPT ![d] = "fetched"]
    /\ UNCHANGED <<stepVars, enrollment, dispatch, schedulerVars, attempts, plan, sent,
                   faults, detours>>

FetchDispatch(d) ==
    /\ worker[d] = "queued"
    /\ IF dispatch[d] = "running"
         THEN worker' = [worker EXCEPT ![d] = "fetched"] /\ UNCHANGED attempts
         ELSE EndJob(d)
    /\ UNCHANGED <<stepVars, enrollment, dispatch, schedulerVars, plan, sent, faults,
                   detours>>

\* fetchStep and validateStep; the row is not looked at again.
StartSend(d) ==
    /\ worker[d] = "fetched"
    /\ \/ /\ steps[d.step] = "ready"
          /\ worker' = [worker EXCEPT ![d] = "sending"]
          /\ UNCHANGED <<dispatch, schedule, detours>>
       \/ steps[d.step] # "ready" /\ CancelStep(d)
    /\ UNCHANGED <<stepVars, enrollment, queue, attempts, plan, sent, faults>>

\* The first message of the flow goes out.  What follows, up to the mark, may
\* still throw: another message, the job that continues the flow, another inbox.
SendFlow(d) ==
    /\ worker[d] = "sending"
    /\ worker' = [worker EXCEPT ![d] = "sent"]
    /\ sent' = [sent EXCEPT ![d] = @ + 1]
    /\ Detour(d.enrollment, IF Enrolled(d.enrollment) THEN {} ELSE {"late"})
    /\ UNCHANGED <<stepVars, enrollment, dispatch, schedulerVars, attempts, plan, faults>>

\* Mutant: the row is left running until the enrollment has advanced.
LeaveRunning(d) ==
    /\ worker[d] = "sent"
    /\ worker' = [worker EXCEPT ![d] = "settled"]
    /\ UNCHANGED <<stepVars, enrollment, dispatch, schedulerVars, attempts, plan, sent,
                   faults, detours>>

MarkCompleted(d) ==
    /\ worker[d] = "sent"
    /\ dispatch' = Marked(d, "completed")
    /\ worker' = [worker EXCEPT ![d] = "settled"]
    /\ UNCHANGED <<stepVars, enrollment, schedulerVars, attempts, plan, sent, faults,
                   detours>>

\* The handler throws: the job waits for another attempt, or after the last
\* one marks the row failed.  Without a send job it is the consumer that
\* throws, and it hands the row back.
Throws(d, reasons) ==
    \/ /\ attempts[d] \in 1..(SendAttempts - 1)
       /\ worker' = [worker EXCEPT ![d] = "queued"]
       /\ attempts' = [attempts EXCEPT ![d] = @ + 1]
       /\ Detour(d.enrollment, reasons)
       /\ UNCHANGED <<dispatch, schedule>>
    \/ /\ attempts[d] = SendAttempts /\ EndJob(d)
       /\ dispatch' = Marked(d, "failed") /\ schedule' = schedule \ {d}
       /\ Detour(d.enrollment, reasons \cup {"failed"})
    \/ /\ attempts[d] = 0 /\ EndJob(d)
       /\ dispatch' = Marked(d, "pending")
       /\ Detour(d.enrollment, reasons)
       /\ UNCHANGED schedule

\* advanceEnrollment reads the enrollment and the step to come.
ReadEnrollment(d) ==
    /\ worker[d] = "settled"
    /\ \/ ~Enrolled(d.enrollment) /\ Throws(d, {}) /\ UNCHANGED plan
       \/ /\ Enrolled(d.enrollment)
          /\ enrollment.status # "active" \/ enrollment.lastStep = d.step
          /\ EndJob(d) /\ schedule' = schedule \ {d}
          /\ UNCHANGED <<dispatch, plan, detours>>
       \/ /\ Enrolled(d.enrollment)
          /\ enrollment.status = "active" /\ enrollment.lastStep # d.step
          /\ worker' = [worker EXCEPT ![d] = "planned"]
          /\ plan' = [plan EXCEPT ![d] = NextActiveStep(d.step + 1)]
          /\ UNCHANGED <<dispatch, schedule, attempts, detours>>
    /\ UNCHANGED <<stepVars, enrollment, queue, sent, faults>>

\* No active step is left.  The update asks only for the enrollment's id.
CompleteEnrollment(d) ==
    /\ worker[d] = "planned" /\ plan[d] = NoStep
    /\ enrollment' = IF ~Enrolled(d.enrollment) THEN enrollment
                     ELSE [enrollment EXCEPT !.status = "completed", !.currentStep = d.step + 1,
                                             !.lastStep = d.step, !.nextStep = NoStep]
    /\ EndJob(d) /\ schedule' = schedule \ {d}
    /\ UNCHANGED <<stepVars, dispatch, queue, plan, sent, faults, detours>>

\* The dispatch advanceEnrollment creates after d.
Successor(d) == [enrollment |-> d.enrollment, step |-> plan[d], runAt |-> AfterSend]

\* The keys of the row let it in: its enrollment and its step exist, and no
\* row was created for the same step at the same time.
Insertable(d) == Enrolled(d.enrollment) /\ Exists(d.step) /\ dispatch[d] = "absent"

AdvanceEnrollment(d) ==
    /\ worker[d] = "planned" /\ plan[d] # NoStep
    /\ \/ /\ Insertable(Successor(d))
          /\ enrollment' = [enrollment EXCEPT !.currentStep = plan[d],
                                              !.lastStep = d.step, !.nextStep = plan[d]]
          /\ dispatch' = [dispatch EXCEPT ![Successor(d)] = "pending"]
          /\ worker' = [worker EXCEPT ![d] = "advanced"]
          /\ UNCHANGED <<schedule, attempts, detours>>
       \/ ~Insertable(Successor(d)) /\ Throws(d, {"step deleted"}) /\ UNCHANGED enrollment
    /\ UNCHANGED <<stepVars, queue, plan, sent, faults>>

\* After the commit.
ScheduleNext(d) ==
    /\ worker[d] = "advanced"
    /\ schedule' = (schedule \cup {Successor(d)}) \ {d}
    /\ EndJob(d)
    /\ UNCHANGED <<stepVars, enrollment, dispatch, queue, plan, sent, faults, detours>>

\* What an interruption here costs: a repeated message, or the advance.
Cost(phase) == {phase} \cap {"sent", "settled", "planned"}

\* The flow, a query or a write to Redis fails.
SendFails(d) ==
    /\ worker[d] \in {"fetched", "sending", "sent", "settled", "planned", "advanced"}
    /\ Fault
    /\ Throws(d, Cost(worker[d]))
    /\ UNCHANGED <<stepVars, enrollment, queue, plan, sent>>

\* The process dies.  A send job that stalls is run again; what the consumer
\* was doing is not, for the row it claimed is no longer pending.
WorkerDies(d) ==
    /\ worker[d] \notin {"idle", "queued"} /\ Fault
    /\ worker' = [worker EXCEPT ![d] = IF attempts[d] = 0 THEN "idle" ELSE "queued"]
    /\ Detour(d.enrollment,
              IF worker[d] = "claimed" THEN {"abandoned"} ELSE Cost(worker[d]))
    /\ UNCHANGED <<stepVars, enrollment, dispatch, schedulerVars, attempts, plan, sent>>

-----------------------------------------------------------------------------
(* Edits of the steps *)

NoEdit == [phase |-> "idle", step |-> 0, kind |-> "update", of |-> 0, next |-> NoStep]

StartsEdit(s, kind) ==
    /\ editor.phase = "idle" /\ edits < MaxEdits /\ edits' = edits + 1
    /\ editor' = [NoEdit EXCEPT !.phase = "recalculate", !.step = s, !.kind = kind]
    /\ UNCHANGED <<enrollment, schedulerVars, sendVars, faults>>

CreateStep(s) ==
    /\ StartsEdit(s, "create")
    /\ steps[s] = "new" /\ steps' = [steps EXCEPT ![s] = "ready"]
    /\ \E none \in BOOLEAN : delays' = [version |-> edits + 1, none |-> none]
    /\ UNCHANGED <<dispatch, detours>>

\* A step is turned on or off, or its delay is changed, or saved as it was.
UpdateStep(s) ==
    /\ StartsEdit(s, "update")
    /\ \/ /\ Exists(s)
          /\ \E none \in BOOLEAN : delays' \in {delays, [version |-> edits + 1, none |-> none]}
          /\ UNCHANGED steps
       \/ /\ steps[s] \in {"ready", "off"}
          /\ steps' = [steps EXCEPT ![s] = IF @ = "off" THEN "ready" ELSE "off"]
          /\ UNCHANGED delays
    /\ UNCHANGED <<dispatch, detours>>

\* The rows of the step go with it.
DeleteStep(s) ==
    LET rows == {d \in Dispatches : d.step = s}
    IN  /\ StartsEdit(s, "delete")
        /\ Exists(s) /\ steps' = [steps EXCEPT ![s] = "gone"]
        /\ dispatch' = [d \in Dispatches |-> IF d \in rows THEN "absent" ELSE dispatch[d]]
        /\ Detour(enrollment.id,
                  IF \E d \in rows : dispatch[d] \in Open THEN {"step deleted"} ELSE {})
        /\ UNCHANGED delays

\* The flow of a step is deleted; nothing is recalculated.
DeleteFlow(s) ==
    /\ edits < MaxEdits /\ edits' = edits + 1
    /\ steps[s] = "ready" /\ steps' = [steps EXCEPT ![s] = "flowless"]
    /\ UNCHANGED <<delays, editor, enrollment, dispatch, schedulerVars, sendVars, faults, detours>>

\* Whether the edit touches an active enrollment.
Affected ==
    CASE editor.kind = "create" -> enrollment.currentStep <= editor.step
      [] editor.kind = "update" -> \/ enrollment.nextStep = editor.step
                                   \/ enrollment.currentStep < editor.step
      [] OTHER -> TRUE

\* The first step recalculateNextRunAtForStep looks at.
RecalculatedFrom == enrollment.currentStep + 1

\* An active enrollment is pointed at its next step, or completed for want of
\* one.  No dispatch is created, moved or canceled.
RecalculateNextRunAt ==
    LET next == NextActiveStep(RecalculatedFrom)
    IN  /\ editor.phase = "recalculate"
        /\ editor' = IF editor.kind = "delete" THEN NoEdit
                      ELSE [editor EXCEPT !.phase = "reactivate"]
        /\ IF enrollment.status = "active" /\ Affected
           THEN /\ enrollment' = [enrollment EXCEPT
                        !.status = IF next = NoStep THEN "completed" ELSE @, !.nextStep = next]
                /\ Detour(enrollment.id, IF next = NoStep THEN {"cut short"} ELSE {})
           ELSE UNCHANGED <<enrollment, detours>>
        /\ UNCHANGED <<steps, delays, edits, dispatch, schedulerVars, sendVars, faults>>

\* A completed enrollment whose next step exists again is to be resumed.
ReactivateCompleted ==
    LET next == NextActiveStep(enrollment.currentStep)
    IN  /\ editor.phase = "reactivate"
        /\ editor' = IF /\ enrollment.status = "completed"
                         /\ enrollment.currentStep <= editor.step /\ next # NoStep
                      THEN [editor EXCEPT !.phase = "reopen", !.of = enrollment.id,
                                          !.next = next]
                      ELSE NoEdit
        /\ UNCHANGED <<steps, delays, edits, enrollment, dispatch, schedulerVars, sendVars,
                       faults, detours>>

\* It becomes active, by its id alone.  Delays that add up to none give its next
\* step no time, and it gets no dispatch.
ReopenEnrollment ==
    /\ editor.phase = "reopen"
    /\ enrollment' = IF ~Enrolled(editor.of) THEN enrollment
                     ELSE [enrollment EXCEPT !.status = "active", !.nextStep = editor.next]
    /\ editor' = IF delays.none THEN NoEdit ELSE [editor EXCEPT !.phase = "dispatch"]
    /\ Detour(editor.of, IF delays.none THEN {"no delay"} ELSE {})
    /\ UNCHANGED <<steps, delays, edits, dispatch, schedulerVars, sendVars, faults>>

\* Only then, in statements of its own, is its dispatch created, counted from the
\* enrolment.
DispatchReopened ==
    LET d == [enrollment |-> editor.of, step |-> editor.next, runAt |-> delays.version]
    IN  /\ editor.phase = "dispatch"
        /\ editor' = NoEdit
        /\ \/ /\ Insertable(d)
              /\ dispatch' = [dispatch EXCEPT ![d] = "pending"]
              /\ Scheduled(d)
           \/ ~Insertable(d) /\ UNCHANGED <<dispatch, schedule, faults>>
        /\ UNCHANGED <<steps, delays, edits, enrollment, queue, sendVars, detours>>

\* A query of the edit fails or its process dies, and nobody goes on with it.
EditFails ==
    /\ editor.phase # "idle" /\ Fault
    /\ editor' = NoEdit
    /\ Detour(editor.of, IF editor.phase = "dispatch" THEN {"no dispatch"} ELSE {})
    /\ UNCHANGED <<steps, delays, edits, enrollment, dispatch, schedulerVars, sendVars>>

-----------------------------------------------------------------------------
(* Specification *)

\* The sequence has all its steps, or the last is still to be created.
Init ==
    /\ steps \in [Steps -> {"new", "ready", "off"}]
    /\ \A s \in Steps : steps[s] = "new" => s = NumSteps - 1
    /\ delays = [version |-> 0, none |-> FALSE]
    /\ enrollment = [id |-> 0, status |-> "none", currentStep |-> 0,
                     lastStep |-> NoStep, nextStep |-> NoStep]
    /\ dispatch = [d \in Dispatches |-> "absent"]
    /\ schedule = {} /\ queue = {}
    /\ worker = [d \in Dispatches |-> "idle"]
    /\ attempts = [d \in Dispatches |-> 0]
    /\ plan = [d \in Dispatches |-> NoStep]
    /\ editor = NoEdit
    /\ edits = 0 /\ faults = 0
    /\ sent = [d \in Dispatches |-> 0]
    /\ detours = {}

\* What the process that holds a claimed row or its send job does next.
WorkerStep(d) ==
    \/ ExecuteStep(d) \/ FetchDispatch(d) \/ StartSend(d) \/ SendFlow(d)
    \/ MarkCompleted(d) \/ ReadEnrollment(d) \/ CompleteEnrollment(d) \/ AdvanceEnrollment(d)
    \/ ScheduleNext(d)

SchedulerStep(d) == ProcessBucket(d) \/ ProcessDispatch(d)

Failure(d) ==
    \/ PublishFails(d) \/ DropDispatch(d) \/ EnqueueFails(d) \/ SendFails(d) \/ WorkerDies(d)

EditorStep ==
    RecalculateNextRunAt \/ ReactivateCompleted \/ ReopenEnrollment \/ DispatchReopened

Next ==
    \/ EnrollContact \/ Unsubscribe \/ EditorStep \/ EditFails
    \/ Reconcile \/ CleanupOrphans
    \/ \E d \in Dispatches : SchedulerStep(d) \/ WorkerStep(d) \/ Failure(d)
    \/ \E s \in Steps : CreateStep(s) \/ UpdateStep(s) \/ DeleteStep(s) \/ DeleteFlow(s)

Spec == Init /\ [][Next]_vars

\* The producer ticks every few seconds, the reconcile every hour, and the
\* queues serve every job; users and failures owe nothing.
Fairness ==
    /\ \A d \in Dispatches : /\ WF_vars(ProcessBucket(d)) /\ WF_vars(ProcessDispatch(d))
                             /\ WF_vars(WorkerStep(d))
    /\ WF_vars(Reconcile) /\ WF_vars(EditorStep)

FairSpec == Spec /\ Fairness

-----------------------------------------------------------------------------
(* Properties *)

HasDetour(e, reasons) == \E r \in reasons : <<e, r>> \in detours

\* What leaves an enrollment active with nothing under way, in this code.
Strands == {"no first step", "no dispatch", "no delay", "cut short", "step deleted",
            "abandoned", "failed", "settled", "planned"}

\* An enrollment that is active always has a dispatch to come, a worker about to
\* advance it or an edit about to create its dispatch, unless one of the strands
\* happened to it.
ActiveIsDriven ==
    enrollment.status = "active" /\ ~HasDetour(enrollment.id, Strands) =>
        \/ editor.phase = "dispatch" /\ editor.of = enrollment.id
        \/ \E d \in Dispatches :
              /\ d.enrollment = enrollment.id
              /\ \/ dispatch[d] \in Open
                 \/ worker[d] \in {"settled", "planned"} /\ enrollment.lastStep # d.step

\* A contact has at most one dispatch open, whatever was published twice,
\* reconciled late or advanced again, unless an edit cut the enrollment short.
OneOpenDispatch ==
    ~HasDetour(enrollment.id, {"cut short"}) =>
        \A d1, d2 \in Dispatches :
            dispatch[d1] \in Open /\ dispatch[d2] \in Open => d1 = d2

\* An enrollment that is completed has nothing more to send.
CompletedHasNothingOpen ==
    enrollment.status = "completed" =>
        \A d \in Dispatches : dispatch[d] \notin Open

\* The same, as long as no edit completed an enrollment that was under way.
UncutCompletedHasNothingOpen ==
    ~HasDetour(enrollment.id, {"cut short"}) => CompletedHasNothingOpen

\* Steps go out in their order, and one again only because an attempt at it
\* failed or died after a message of it had gone out and before the mark.
InOrderAndOnce ==
    [][\A d1, d2 \in Dispatches :
         /\ sent'[d1] > sent[d1] /\ sent[d2] > 0 /\ d1.enrollment = d2.enrollment
         /\ ~HasDetour(d1.enrollment, {"cut short"})
         => \/ d2.step < d1.step
            \/ d2 = d1 /\ HasDetour(d1.enrollment, {"sent"})]_vars

\* A contact that leaves the sequence gets the step whose row was read just before
\* at most, and gets it once, however often the job is tried again.
OneStepAfterLeaving ==
    [][\A d \in Dispatches :
         /\ sent'[d] > sent[d] /\ ~Enrolled(d.enrollment)
         /\ ~HasDetour(d.enrollment, {"cut short"})
         => ~HasDetour(d.enrollment, {"late"})]_vars

\* Rows that are pending are all taken up in the end, whatever the producer
\* or the consumer lost on the way.
PendingIsTakenUp == Pending # {} ~> Pending = {}

\* An active enrollment comes to its end, unless a strand happened to it.
UnstrandedCompletes ==
    \A e \in 1..MaxEnrollments :
        (enrollment.id = e /\ enrollment.status = "active") ~>
            (enrollment.id # e \/ enrollment.status # "active" \/ HasDetour(e, Strands))
=============================================================================

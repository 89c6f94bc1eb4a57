----------------------- MODULE SequenceDispatchProof ------------------------
(***************************************************************************)
(* For any number of steps, enrolments, attempts, edits and failures: the  *)
(* variables of a sequence keep their types and, as long as no edit cuts   *)
(* an enrollment short, it has one dispatch under way at most, none once   *)
(* it is completed, and gets one step at most after it was left.  While it *)
(* is active something drives it, unless one of the strands the code has   *)
(* befell it.                                                              *)
(***************************************************************************)
EXTENDS SequenceDispatch, WellFoundedInduction, TLAPS

-----------------------------------------------------------------------------
(* Inductive invariants *)

\* Rows belong to the contact's present enrollment.
RowsInv == \A d \in Dispatches : dispatch[d] # "absent" => Enrolled(d.enrollment)

IdInv == enrollment.status # "none" => enrollment.id # 0

\* advanceEnrollment moves forward.
PlanInv ==
    \A d \in Dispatches : /\ plan[d] # NoStep => plan[d] > d.step
                          /\ worker[d] = "advanced" => plan[d] # NoStep

Reopening == editor.phase \in {"reopen", "dispatch"}

\* An edit reopens an enrollment that is completed, at a step there is.
EditInv ==
    Reopening =>
        /\ editor.of \in 1..MaxEnrollments /\ editor.of <= enrollment.id
        /\ editor.next \in Steps /\ Exists(editor.next)
        /\ editor.phase = "reopen" /\ Enrolled(editor.of) => enrollment.status = "completed"

StateInv == TypeOK /\ RowsInv /\ IdInv /\ PlanInv /\ EditInv

\* Nobody works for an enrollment to come.
FutureIdle ==
    \A d \in Dispatches : d.enrollment > enrollment.id => worker[d] = "idle"

\* A worker holds a row that is no longer pending, and lets go of it once it
\* is final.
PhaseInv ==
    \A d \in Dispatches :
        /\ worker[d] # "idle" => dispatch[d] # "pending"
        /\ worker[d] \in {"settled", "planned", "advanced"} => dispatch[d] \notin Open

\* A worker whose row is gone has lost it to a contact that left or a step
\* that was deleted.
LostRows ==
    \A d \in Dispatches :
        worker[d] # "idle" /\ dispatch[d] = "absent" /\ Enrolled(d.enrollment)
            => steps[d.step] = "gone"

\* Something may still come of d.
Live(d) ==
    \/ dispatch[d] \in Open
    \/ worker[d] \in {"claimed", "fetched", "sending", "sent", "settled", "planned"}

\* It may still be sent, for the first time or once more.
Ahead(d) ==
    worker[d] \in {"fetched", "sending"} \/ (dispatch[d] \in Open /\ worker[d] # "sent")

Uncut(e) == ~HasDetour(e, {"cut short"})

OneLive ==
    \A d1, d2 \in Dispatches :
        /\ d1.enrollment = d2.enrollment /\ Uncut(d1.enrollment)
        /\ Live(d1) /\ Live(d2)
        => d1 = d2

\* The enrollment is active again and the edit has still to create its dispatch.
Awaiting == editor.phase = "dispatch" /\ editor.of = enrollment.id

Ended ==
    /\ enrollment.status = "completed" \/ (enrollment.status = "active" /\ Awaiting)
    /\ Uncut(enrollment.id)

NoneLive == Ended => \A d \in Dispatches : d.enrollment = enrollment.id => ~Live(d)

\* What was sent lies behind what is live.
SentBehind ==
    \A d1, d2 \in Dispatches :
        /\ d1.enrollment = d2.enrollment /\ Uncut(d1.enrollment)
        /\ Live(d1) /\ sent[d2] > 0
        => \/ d2.step < d1.step
           \/ d1 = d2 /\ (Ahead(d1) => HasDetour(d1.enrollment, {"sent"}))

\* And behind where the enrollment ended.
SentPast ==
    /\ \A d \in Dispatches : d.enrollment > enrollment.id => sent[d] = 0
    /\ Ended => \A d \in Dispatches :
                    d.enrollment = enrollment.id /\ sent[d] > 0 => d.step < enrollment.currentStep

WorkInv == FutureIdle /\ PhaseInv /\ LostRows

\* The step an enrollment is reopened at does not lie before where it ended.
ReopensPast ==
    Reopening /\ Enrolled(editor.of) /\ Uncut(editor.of) =>
        /\ enrollment.currentStep <= editor.next
        /\ editor.phase = "dispatch" => enrollment.status = "active"

LiveInv == OneLive /\ NoneLive /\ SentBehind /\ SentPast /\ ReopensPast

-----------------------------------------------------------------------------
(* Constants and steps *)

LEMMA ConstantFacts ==
    /\ Steps \subseteq Nat /\ 0 \in Steps /\ NoStep \notin Nat /\ NoStep = -1
    /\ MaxEnrollments \in Nat /\ SendAttempts \in Nat /\ SendAttempts >= 1
    /\ MaxEdits \in Nat /\ MaxFaults \in Nat /\ NumSteps \in Nat
    /\ \A s \in Steps : s + 1 \in 0..NumSteps /\ s \in 0..NumSteps
BY BoundsAssumption DEF Steps, NoStep

\* A set of natural numbers that is not empty has a first member.
LEMMA FirstMember ==
    ASSUME NEW S \in SUBSET Nat, S # {}
    PROVE  Min(S) \in S /\ \A y \in S : Min(S) <= y
<1>1. PICK x \in S : \A y \in S : ~(<<y, x>> \in OpToRel(<, Nat))
  BY NatLessThanWellFounded, WFMin
<1>2. ASSUME NEW y \in S PROVE x <= y
  <2>1. <<y, x>> \in Nat \X Nat /\ x \in Nat /\ y \in Nat
    BY <1>1
  <2>2. y < x => <<y, x>> \in {ss \in Nat \X Nat : ss[1] < ss[2]}
    BY <2>1
  <2>3. ~(y < x)
    BY <1>1, <2>2 DEF OpToRel
  <2> QED
    BY <2>1, <2>3
<1> QED
  BY <1>2 DEF Min

LEMMA NextActiveStepFacts ==
    ASSUME NEW from \in Nat
    PROVE  LET next == NextActiveStep(from)
           IN  /\ next \in Steps \cup {NoStep}
               /\ next # NoStep => next \in Steps /\ next >= from /\ IsActive(next)
<1> DEFINE later == {s \in Steps : s >= from /\ IsActive(s)}
<1>1. later \in SUBSET Nat
  BY ConstantFacts
<1>2. CASE later = {}
  BY <1>2 DEF NextActiveStep
<1>3. CASE later # {}
  <2>1. Min(later) \in later
    BY <1>1, <1>3, FirstMember
  <2>2. NextActiveStep(from) = Min(later)
    BY <1>3 DEF NextActiveStep
  <2> QED
    BY <2>1, <2>2
<1> QED
  BY <1>2, <1>3

LEMMA DispatchFacts ==
    ASSUME NEW d \in Dispatches
    PROVE  /\ d.enrollment \in 1..MaxEnrollments /\ d.step \in Steps /\ d.runAt \in RunAts
           /\ d = [enrollment |-> d.enrollment, step |-> d.step, runAt |-> d.runAt]
BY DEF Dispatches

LEMMA SuccessorFacts ==
    ASSUME StateInv, NEW d \in Dispatches, plan[d] # NoStep
    PROVE  /\ Successor(d) \in Dispatches /\ Successor(d) # d
           /\ Successor(d).enrollment = d.enrollment /\ Successor(d).step = plan[d]
<1>1. plan[d] \in Steps /\ plan[d] > d.step
  BY DEF StateInv, TypeOK, PlanInv
<1>2. plan[d] > 0 /\ d.step \in Steps /\ d.step # plan[d]
  BY <1>1, DispatchFacts, ConstantFacts
<1>3. AfterSend \in RunAts
  BY BoundsAssumption DEF AfterSend, RunAts
<1> QED
  BY <1>1, <1>2, <1>3, DispatchFacts DEF Successor, Dispatches

-----------------------------------------------------------------------------
(* TypeOK, in parts *)

StepTypes ==
    /\ steps \in [Steps -> StepStates]
    /\ delays \in [version : 0..MaxEdits, none : BOOLEAN]
    /\ editor \in [phase : EditPhases, step : Steps, kind : {"create", "update", "delete"},
                   of : 0..MaxEnrollments, next : Steps \cup {NoStep}]
    /\ edits \in 0..MaxEdits

EnrollmentType ==
    enrollment \in [id : 0..MaxEnrollments, status : {"none", "active", "completed"},
                    currentStep : 0..NumSteps, lastStep : Steps \cup {NoStep},
                    nextStep : Steps \cup {NoStep}]

RowTypes == dispatch \in [Dispatches -> Statuses]

ScheduleTypes == schedule \subseteq Dispatches /\ queue \subseteq Dispatches

SendTypes ==
    /\ worker \in [Dispatches -> Phases]
    /\ attempts \in [Dispatches -> 0..SendAttempts]
    /\ plan \in [Dispatches -> Steps \cup {NoStep}]
    /\ sent \in [Dispatches -> Nat]

CountTypes ==
    faults \in 0..MaxFaults /\ detours \subseteq (1..MaxEnrollments) \X Detours

LEMMA TypeParts ==
    TypeOK <=> /\ StepTypes /\ EnrollmentType /\ RowTypes
               /\ ScheduleTypes /\ SendTypes /\ CountTypes
BY DEF TypeOK, StepTypes, EnrollmentType, RowTypes, ScheduleTypes, SendTypes, CountTypes

LEMMA TypePartsNext ==
    TypeOK' <=> /\ StepTypes' /\ EnrollmentType' /\ RowTypes'
                /\ ScheduleTypes' /\ SendTypes' /\ CountTypes'
BY DEF TypeOK, StepTypes, EnrollmentType, RowTypes, ScheduleTypes, SendTypes, CountTypes

LEMMA StampedFacts ==
    ASSUME StateInv, NEW e \in 1..MaxEnrollments, NEW s \in Steps
    PROVE  [enrollment |-> e, step |-> s, runAt |-> delays.version] \in Dispatches
<1>1. delays.version \in 0..MaxEdits
  BY DEF StateInv, TypeOK
<1>2. delays.version \in RunAts /\ delays.version # AfterSend
  BY <1>1, ConstantFacts DEF RunAts, AfterSend
<1> QED
  BY <1>2 DEF Dispatches

LEMMA FaultType ==
    ASSUME StateInv, Fault
    PROVE  faults' \in 0..MaxFaults
BY ConstantFacts DEF StateInv, TypeOK, Fault

LEMMA DetourType ==
    ASSUME StateInv, NEW e \in 1..MaxEnrollments, NEW R \in SUBSET Detours, Detour(e, R)
    PROVE  detours' \subseteq (1..MaxEnrollments) \X Detours
BY DEF StateInv, TypeOK, Detour

LEMMA DetourTypeEmpty ==
    ASSUME StateInv, NEW e, Detour(e, {})
    PROVE  detours' \subseteq (1..MaxEnrollments) \X Detours
BY DEF StateInv, TypeOK, Detour

LEMMA ThrowsAttempts ==
    ASSUME StateInv, NEW d \in Dispatches, NEW R, Throws(d, R)
    PROVE  attempts' \in [Dispatches -> 0..SendAttempts]
BY ConstantFacts DEF StateInv, TypeOK, Throws, EndJob

LEMMA NextEnrollment ==
    ASSUME StateInv, EnrollContact
    PROVE  enrollment.id + 1 \in 1..MaxEnrollments
<1>1. enrollment.id \in 0..MaxEnrollments
  BY DEF StateInv, TypeOK
<1>2. enrollment.id < MaxEnrollments
  BY DEF EnrollContact
<1> QED
  BY <1>1, <1>2, ConstantFacts

\* Steps that leave the steps, the edit and the enrollment alone.
LEMMA EditKept ==
    ASSUME EditInv, UNCHANGED <<editor, steps, enrollment>>
    PROVE  EditInv'
BY DEF EditInv, Reopening, Exists, Enrolled

-----------------------------------------------------------------------------
(* Every action keeps StateInv *)

LEMMA EnrollContactState ==
    ASSUME StateInv, EnrollContact
    PROVE  StateInv'
<1>1. StepTypes' /\ SendTypes'
  BY TypeParts DEF StepTypes, SendTypes, EnrollContact, StateInv, stepVars, sendVars
<1>2. EnrollmentType'
  <2>1. enrollment.id + 1 \in 0..MaxEnrollments
    BY NextEnrollment, ConstantFacts
  <2>2. PICK f \in Steps \cup {NoStep} :
            enrollment' = [id |-> enrollment.id + 1, status |-> "active", currentStep |-> 0,
                           lastStep |-> NoStep, nextStep |-> f]
    BY ConstantFacts DEF EnrollContact
  <2> QED
    BY <2>1, <2>2, ConstantFacts DEF EnrollmentType
<1>3. RowTypes'
  BY TypeParts, ConstantFacts, DispatchFacts DEF RowTypes, StateInv, Statuses,
     EnrollContact, Scheduled, Fault, Detour
<1>4. ScheduleTypes'
  <2>1. enrollment.id + 1 \in 1..MaxEnrollments
    BY NextEnrollment
  <2>2. [enrollment |-> enrollment.id + 1, step |-> 0, runAt |-> delays.version] \in Dispatches
    BY <2>1, StampedFacts, ConstantFacts
  <2> QED
    BY <2>2, TypeParts DEF StateInv, ScheduleTypes, EnrollContact, Scheduled
<1>5. CountTypes'
  <2>1. enrollment.id + 1 \in 1..MaxEnrollments
    BY NextEnrollment
  <2>2. {"no dispatch"} \in SUBSET Detours /\ {"no first step"} \in SUBSET Detours
    BY DEF Detours
  <2>3. faults' = faults \/ Fault
    BY DEF EnrollContact, Scheduled
  <2>4. \/ detours' = detours
        \/ Detour(enrollment.id + 1, {"no dispatch"})
        \/ Detour(enrollment.id + 1, {"no first step"})
    BY DEF EnrollContact
  <2>5. detours' \subseteq (1..MaxEnrollments) \X Detours
    BY <2>1, <2>2, <2>4, DetourType DEF StateInv, TypeOK
  <2> QED
    BY <2>3, <2>5, FaultType DEF StateInv, TypeOK, CountTypes
<1>6. RowsInv'
  <2>1. \A d \in Dispatches : dispatch[d] = "absent"
    BY DEF StateInv, TypeOK, RowsInv, Enrolled, EnrollContact
  <2>2. enrollment'.id = enrollment.id + 1 /\ enrollment'.status = "active"
    BY DEF EnrollContact
  <2>3. \/ dispatch' = dispatch
        \/ dispatch' = [dispatch EXCEPT
              ![[enrollment |-> enrollment.id + 1, step |-> 0,
                 runAt |-> delays.version]] = "pending"]
    BY DEF EnrollContact
  <2>4. \A d \in Dispatches : dispatch'[d] # "absent" => d.enrollment = enrollment.id + 1
    BY <2>1, <2>3 DEF StateInv, TypeOK
  <2> QED
    BY <2>2, <2>4 DEF RowsInv, Enrolled
<1>7. IdInv'
  <2>1. enrollment'.id = enrollment.id + 1
    BY DEF EnrollContact
  <2> QED
    BY <2>1 DEF StateInv, TypeOK, IdInv
<1>8. PlanInv'
  BY ConstantFacts, DispatchFacts DEF StateInv, TypeOK, PlanInv, EnrollContact,
     Scheduled, Fault, Detour, stepVars, sendVars
<1>9. EditInv'
  <2>1. UNCHANGED <<editor, steps>> /\ enrollment'.id = enrollment.id + 1
    BY DEF EnrollContact, stepVars
  <2>2. enrollment.id \in Nat /\ editor.of \in Nat
    BY ConstantFacts DEF StateInv, TypeOK
  <2> QED
    BY <2>1, <2>2 DEF StateInv, EditInv, Reopening, Exists, Enrolled
<1> QED
  BY <1>1, <1>2, <1>3, <1>4, <1>5, <1>6, <1>7, <1>8, <1>9, TypePartsNext DEF StateInv

LEMMA UnsubscribeState ==
    ASSUME StateInv, Unsubscribe
    PROVE  StateInv'
<1>1. StepTypes' /\ SendTypes'
  BY TypeParts DEF StepTypes, SendTypes, Unsubscribe, StateInv, stepVars, sendVars
<1>2. EnrollmentType'
  BY TypeParts, ConstantFacts, DispatchFacts DEF EnrollmentType, StateInv, Unsubscribe,
     ErasedRows, Fault
<1>3. RowTypes'
  BY TypeParts, ConstantFacts, DispatchFacts DEF RowTypes, StateInv, Statuses,
     Unsubscribe, ErasedRows, Fault
<1>4. ScheduleTypes'
  BY TypeParts, ConstantFacts, DispatchFacts DEF ScheduleTypes, StateInv, Unsubscribe,
     ErasedRows, Fault
<1>5. CountTypes'
  BY FaultType DEF StateInv, TypeOK, CountTypes, Unsubscribe
<1>6. RowsInv'
  BY DispatchFacts DEF StateInv, TypeOK, RowsInv, Enrolled, Unsubscribe, ErasedRows,
     Fault, stepVars, sendVars
<1>7. IdInv'
  BY DEF StateInv, TypeOK, IdInv, Unsubscribe, ErasedRows, Fault, stepVars, sendVars
<1>8. PlanInv'
  BY ConstantFacts, DispatchFacts DEF StateInv, TypeOK, PlanInv, Unsubscribe,
     ErasedRows, Fault, stepVars, sendVars
<1>9. EditInv'
  <2>1. UNCHANGED <<editor, steps>>
    BY DEF Unsubscribe, stepVars
  <2>2. enrollment'.id = enrollment.id /\ enrollment'.status = "none"
    BY DEF StateInv, TypeOK, Unsubscribe
  <2> QED
    BY <2>1, <2>2 DEF StateInv, EditInv, Reopening, Exists, Enrolled
<1> QED
  BY <1>1, <1>2, <1>3, <1>4, <1>5, <1>6, <1>7, <1>8, <1>9, TypePartsNext DEF StateInv

LEMMA ReconcileState ==
    ASSUME StateInv, Reconcile
    PROVE  StateInv'
<1>1. StepTypes' /\ EnrollmentType' /\ RowTypes' /\ SendTypes' /\ CountTypes'
  BY TypeParts DEF StepTypes, EnrollmentType, RowTypes, SendTypes, CountTypes,
     Reconcile, StateInv, stepVars, sendVars
<1>2. ScheduleTypes'
  BY TypeParts, ConstantFacts, DispatchFacts DEF ScheduleTypes, StateInv, Reconcile,
     Pending
<1>3. RowsInv'
  BY DispatchFacts DEF StateInv, TypeOK, RowsInv, Enrolled, Reconcile, Pending,
     stepVars, sendVars
<1>4. IdInv'
  BY DEF StateInv, TypeOK, IdInv, Reconcile, Pending, stepVars, sendVars
<1>5. PlanInv'
  BY ConstantFacts, DispatchFacts DEF StateInv, TypeOK, PlanInv, Reconcile, Pending,
     stepVars, sendVars
<1>6. EditInv'
  BY EditKept DEF StateInv, Reconcile, stepVars
<1> QED
  BY <1>1, <1>2, <1>3, <1>4, <1>5, <1>6, TypePartsNext DEF StateInv

LEMMA CleanupOrphansState ==
    ASSUME StateInv, CleanupOrphans
    PROVE  StateInv'
<1>1. StepTypes' /\ EnrollmentType' /\ RowTypes' /\ SendTypes' /\ CountTypes'
  BY TypeParts DEF StepTypes, EnrollmentType, RowTypes, SendTypes, CountTypes,
     CleanupOrphans, StateInv, stepVars, sendVars
<1>2. ScheduleTypes'
  BY TypeParts, ConstantFacts, DispatchFacts DEF ScheduleTypes, StateInv,
     CleanupOrphans, Pending
<1>3. RowsInv'
  BY DispatchFacts DEF StateInv, TypeOK, RowsInv, Enrolled, CleanupOrphans, Pending,
     stepVars, sendVars
<1>4. IdInv'
  BY DEF StateInv, TypeOK, IdInv, CleanupOrphans, Pending, stepVars, sendVars
<1>5. PlanInv'
  BY ConstantFacts, DispatchFacts DEF StateInv, TypeOK, PlanInv, CleanupOrphans,
     Pending, stepVars, sendVars
<1>6. EditInv'
  BY EditKept DEF StateInv, CleanupOrphans, stepVars
<1> QED
  BY <1>1, <1>2, <1>3, <1>4, <1>5, <1>6, TypePartsNext DEF StateInv

LEMMA ProcessBucketState ==
    ASSUME StateInv, NEW d \in Dispatches, ProcessBucket(d)
    PROVE  StateInv'
<1>1. StepTypes' /\ EnrollmentType' /\ RowTypes' /\ SendTypes' /\ CountTypes'
  BY TypeParts DEF StepTypes, EnrollmentType, RowTypes, SendTypes, CountTypes,
     ProcessBucket, StateInv, stepVars, sendVars
<1>2. ScheduleTypes'
  BY TypeParts, ConstantFacts, DispatchFacts DEF ScheduleTypes, StateInv, ProcessBucket
<1>3. RowsInv'
  BY DispatchFacts DEF StateInv, TypeOK, RowsInv, Enrolled, ProcessBucket, stepVars,
     sendVars
<1>4. IdInv'
  BY DEF StateInv, TypeOK, IdInv, ProcessBucket, stepVars, sendVars
<1>5. PlanInv'
  BY ConstantFacts, DispatchFacts DEF StateInv, TypeOK, PlanInv, ProcessBucket,
     stepVars, sendVars
<1>6. EditInv'
  BY EditKept DEF StateInv, ProcessBucket, stepVars
<1> QED
  BY <1>1, <1>2, <1>3, <1>4, <1>5, <1>6, TypePartsNext DEF StateInv

LEMMA PublishFailsState ==
    ASSUME StateInv, NEW d \in Dispatches, PublishFails(d)
    PROVE  StateInv'
<1>1. StepTypes' /\ EnrollmentType' /\ RowTypes' /\ SendTypes'
  BY TypeParts DEF StepTypes, EnrollmentType, RowTypes, SendTypes, PublishFails,
     StateInv, stepVars, sendVars
<1>2. ScheduleTypes'
  BY TypeParts, ConstantFacts, DispatchFacts DEF ScheduleTypes, StateInv, PublishFails,
     Fault
<1>3. CountTypes'
  BY FaultType DEF StateInv, TypeOK, CountTypes, PublishFails
<1>4. RowsInv'
  BY DispatchFacts DEF StateInv, TypeOK, RowsInv, Enrolled, PublishFails, Fault,
     stepVars, sendVars
<1>5. IdInv'
  BY DEF StateInv, TypeOK, IdInv, PublishFails, Fault, stepVars, sendVars
<1>6. PlanInv'
  BY ConstantFacts, DispatchFacts DEF StateInv, TypeOK, PlanInv, PublishFails, Fault,
     stepVars, sendVars
<1>7. EditInv'
  BY EditKept DEF StateInv, PublishFails, stepVars
<1> QED
  BY <1>1, <1>2, <1>3, <1>4, <1>5, <1>6, <1>7, TypePartsNext DEF StateInv

LEMMA ProcessDispatchState ==
    ASSUME StateInv, NEW d \in Dispatches, ProcessDispatch(d)
    PROVE  StateInv'
<1>1. StepTypes' /\ EnrollmentType' /\ CountTypes'
  BY TypeParts DEF StepTypes, EnrollmentType, CountTypes, ProcessDispatch, StateInv,
     stepVars
<1>2. RowTypes'
  BY TypeParts, ConstantFacts, DispatchFacts DEF RowTypes, StateInv, Statuses,
     ProcessDispatch, Locked
<1>3. ScheduleTypes'
  BY TypeParts, ConstantFacts, DispatchFacts DEF ScheduleTypes, StateInv,
     ProcessDispatch, Locked
<1>4. SendTypes'
  BY TypeParts, ConstantFacts, DispatchFacts DEF SendTypes, StateInv, Phases,
     ProcessDispatch, Locked
<1>5. RowsInv'
  BY DispatchFacts DEF StateInv, TypeOK, RowsInv, Enrolled, ProcessDispatch, Locked,
     stepVars
<1>6. IdInv'
  BY DEF StateInv, TypeOK, IdInv, ProcessDispatch, Locked, stepVars
<1>7. PlanInv'
  BY ConstantFacts, DispatchFacts DEF StateInv, TypeOK, PlanInv, ProcessDispatch,
     Locked, stepVars
<1>8. EditInv'
  BY EditKept DEF StateInv, ProcessDispatch, stepVars
<1> QED
  BY <1>1, <1>2, <1>3, <1>4, <1>5, <1>6, <1>7, <1>8, TypePartsNext DEF StateInv

LEMMA DropDispatchState ==
    ASSUME StateInv, NEW d \in Dispatches, DropDispatch(d)
    PROVE  StateInv'
<1>1. StepTypes' /\ EnrollmentType' /\ RowTypes' /\ SendTypes'
  BY TypeParts DEF StepTypes, EnrollmentType, RowTypes, SendTypes, DropDispatch,
     StateInv, stepVars, sendVars
<1>2. ScheduleTypes'
  BY TypeParts, ConstantFacts, DispatchFacts DEF ScheduleTypes, StateInv, DropDispatch,
     Fault
<1>3. CountTypes'
  BY FaultType DEF StateInv, TypeOK, CountTypes, DropDispatch
<1>4. RowsInv'
  BY DispatchFacts DEF StateInv, TypeOK, RowsInv, Enrolled, DropDispatch, Fault,
     stepVars, sendVars
<1>5. IdInv'
  BY DEF StateInv, TypeOK, IdInv, DropDispatch, Fault, stepVars, sendVars
<1>6. PlanInv'
  BY ConstantFacts, DispatchFacts DEF StateInv, TypeOK, PlanInv, DropDispatch, Fault,
     stepVars, sendVars
<1>7. EditInv'
  BY EditKept DEF StateInv, DropDispatch, stepVars
<1> QED
  BY <1>1, <1>2, <1>3, <1>4, <1>5, <1>6, <1>7, TypePartsNext DEF StateInv

LEMMA ExecuteStepState ==
    ASSUME StateInv, NEW d \in Dispatches, ExecuteStep(d)
    PROVE  StateInv'
<1>1. StepTypes' /\ EnrollmentType'
  BY TypeParts DEF StepTypes, EnrollmentType, ExecuteStep, StateInv, stepVars
<1>2. RowTypes'
  BY TypeParts, ConstantFacts, DispatchFacts DEF RowTypes, StateInv, Statuses,
     ExecuteStep, CancelStep, Marked, Detour
<1>3. ScheduleTypes'
  BY TypeParts, ConstantFacts, DispatchFacts DEF ScheduleTypes, StateInv, ExecuteStep,
     CancelStep, Marked, Detour
<1>4. SendTypes'
  <2>1. worker' \in [Dispatches -> Phases]
    BY DEF StateInv, TypeOK, Phases, ExecuteStep, CancelStep
  <2>2. attempts' \in [Dispatches -> 0..SendAttempts]
    BY ConstantFacts DEF StateInv, TypeOK, ExecuteStep
  <2> QED
    BY <2>1, <2>2 DEF StateInv, TypeOK, SendTypes, ExecuteStep
<1>5. CountTypes'
  <2>1. {"step deleted"} \in SUBSET Detours
    BY DEF Detours
  <2>2. detours' = detours \/ Detour(d.enrollment, {"step deleted"})
    BY DEF ExecuteStep, CancelStep
  <2> QED
    BY <2>1, <2>2, DetourType, DispatchFacts DEF StateInv, TypeOK, CountTypes,
       ExecuteStep
<1>6. RowsInv'
  BY DispatchFacts DEF StateInv, TypeOK, RowsInv, Enrolled, ExecuteStep, CancelStep,
     Marked, Detour, stepVars
<1>7. IdInv'
  BY DEF StateInv, TypeOK, IdInv, ExecuteStep, CancelStep, Marked, Detour, stepVars
<1>8. PlanInv'
  BY ConstantFacts, DispatchFacts DEF StateInv, TypeOK, PlanInv, ExecuteStep,
     CancelStep, Marked, Detour, stepVars
<1>9. EditInv'
  BY EditKept DEF StateInv, ExecuteStep, stepVars
<1> QED
  BY <1>1, <1>2, <1>3, <1>4, <1>5, <1>6, <1>7, <1>8, <1>9, TypePartsNext DEF StateInv

LEMMA EnqueueFailsState ==
    ASSUME StateInv, NEW d \in Dispatches, EnqueueFails(d)
    PROVE  StateInv'
<1>1. StepTypes' /\ EnrollmentType' /\ ScheduleTypes'
  BY TypeParts DEF StepTypes, EnrollmentType, ScheduleTypes, EnqueueFails, StateInv,
     stepVars, schedulerVars
<1>2. RowTypes'
  BY TypeParts, ConstantFacts, DispatchFacts DEF RowTypes, StateInv, Statuses,
     EnqueueFails, Fault, Marked
<1>3. SendTypes'
  BY TypeParts, ConstantFacts, DispatchFacts DEF SendTypes, StateInv, Phases,
     EnqueueFails, Fault, Marked
<1>4. CountTypes'
  BY FaultType DEF StateInv, TypeOK, CountTypes, EnqueueFails
<1>5. RowsInv'
  BY DispatchFacts DEF StateInv, TypeOK, RowsInv, Enrolled, EnqueueFails, Fault,
     Marked, stepVars, schedulerVars
<1>6. IdInv'
  BY DEF StateInv, TypeOK, IdInv, EnqueueFails, Fault, Marked, stepVars, schedulerVars
<1>7. PlanInv'
  BY ConstantFacts, DispatchFacts DEF StateInv, TypeOK, PlanInv, EnqueueFails, Fault,
     Marked, stepVars, schedulerVars
<1>8. EditInv'
  BY EditKept DEF StateInv, EnqueueFails, stepVars
<1> QED
  BY <1>1, <1>2, <1>3, <1>4, <1>5, <1>6, <1>7, <1>8, TypePartsNext DEF StateInv

LEMMA FetchDispatchState ==
    ASSUME StateInv, NEW d \in Dispatches, FetchDispatch(d)
    PROVE  StateInv'
<1>1. StepTypes' /\ EnrollmentType' /\ RowTypes' /\ ScheduleTypes' /\ CountTypes'
  BY TypeParts DEF StepTypes, EnrollmentType, RowTypes, ScheduleTypes, CountTypes,
     FetchDispatch, StateInv, stepVars, schedulerVars
<1>2. SendTypes'
  <2>1. worker' \in [Dispatches -> Phases]
    BY DEF StateInv, TypeOK, Phases, FetchDispatch, EndJob
  <2>2. attempts' \in [Dispatches -> 0..SendAttempts]
    BY ConstantFacts DEF StateInv, TypeOK, FetchDispatch, EndJob
  <2> QED
    BY <2>1, <2>2 DEF StateInv, TypeOK, SendTypes, FetchDispatch
<1>3. RowsInv' /\ IdInv'
  BY DEF StateInv, RowsInv, IdInv, Enrolled, FetchDispatch
<1>4. PlanInv'
  BY DEF StateInv, TypeOK, PlanInv, FetchDispatch, EndJob
<1>5. EditInv'
  BY EditKept DEF StateInv, FetchDispatch, stepVars
<1> QED
  BY <1>1, <1>2, <1>3, <1>4, <1>5, TypePartsNext DEF StateInv

LEMMA StartSendState ==
    ASSUME StateInv, NEW d \in Dispatches, StartSend(d)
    PROVE  StateInv'
<1>1. StepTypes' /\ EnrollmentType'
  BY TypeParts DEF StepTypes, EnrollmentType, StartSend, StateInv, stepVars
<1>2. RowTypes'
  BY TypeParts, ConstantFacts, DispatchFacts DEF RowTypes, StateInv, Statuses,
     StartSend, CancelStep, Marked, Detour
<1>3. ScheduleTypes'
  BY TypeParts, ConstantFacts, DispatchFacts DEF ScheduleTypes, StateInv, StartSend,
     CancelStep, Marked, Detour
<1>4. SendTypes'
  <2>1. worker' \in [Dispatches -> Phases]
    BY DEF StateInv, TypeOK, Phases, StartSend, CancelStep
  <2>2. attempts' \in [Dispatches -> 0..SendAttempts]
    BY ConstantFacts DEF StateInv, TypeOK, StartSend
  <2> QED
    BY <2>1, <2>2 DEF StateInv, TypeOK, SendTypes, StartSend
<1>5. CountTypes'
  <2>1. {"step deleted"} \in SUBSET Detours
    BY DEF Detours
  <2>2. detours' = detours \/ Detour(d.enrollment, {"step deleted"})
    BY DEF StartSend, CancelStep
  <2> QED
    BY <2>1, <2>2, DetourType, DispatchFacts DEF StateInv, TypeOK, CountTypes, StartSend
<1>6. RowsInv'
  BY DispatchFacts DEF StateInv, TypeOK, RowsInv, Enrolled, StartSend,
     CancelStep, Marked, Detour, stepVars
<1>7. IdInv'
  BY DEF StateInv, TypeOK, IdInv, StartSend, CancelStep, Marked, Detour,
     stepVars
<1>8. PlanInv'
  BY ConstantFacts, DispatchFacts DEF StateInv, TypeOK, PlanInv, StartSend,
     CancelStep, Marked, Detour, stepVars
<1>9. EditInv'
  BY EditKept DEF StateInv, StartSend, stepVars
<1> QED
  BY <1>1, <1>2, <1>3, <1>4, <1>5, <1>6, <1>7, <1>8, <1>9, TypePartsNext DEF StateInv

LEMMA SendFlowState ==
    ASSUME StateInv, NEW d \in Dispatches, SendFlow(d)
    PROVE  StateInv'
<1>1. StepTypes' /\ EnrollmentType' /\ RowTypes' /\ ScheduleTypes'
  BY TypeParts DEF StepTypes, EnrollmentType, RowTypes, ScheduleTypes,
     SendFlow, StateInv, stepVars, schedulerVars
<1>2. SendTypes'
  BY TypeParts, ConstantFacts, DispatchFacts DEF SendTypes, StateInv, Phases, SendFlow
<1>3. RowsInv'
  BY DispatchFacts DEF StateInv, TypeOK, RowsInv, Enrolled, SendFlow, stepVars,
     schedulerVars
<1>4. IdInv'
  BY DEF StateInv, TypeOK, IdInv, SendFlow, stepVars, schedulerVars
<1>5. PlanInv'
  BY ConstantFacts, DispatchFacts DEF StateInv, TypeOK, PlanInv, SendFlow, stepVars,
     schedulerVars
<1>6. EditInv'
  BY EditKept DEF StateInv, SendFlow, stepVars
<1>7. CountTypes'
  <2>1. {"late"} \in SUBSET Detours /\ {} \in SUBSET Detours
    BY DEF Detours
  <2>2. \E R \in SUBSET Detours : Detour(d.enrollment, R)
    BY <2>1 DEF SendFlow
  <2> QED
    BY <2>2, DetourType, DispatchFacts DEF StateInv, TypeOK, CountTypes, SendFlow
<1> QED
  BY <1>1, <1>2, <1>3, <1>4, <1>5, <1>6, <1>7, TypePartsNext DEF StateInv

LEMMA MarkCompletedState ==
    ASSUME StateInv, NEW d \in Dispatches, MarkCompleted(d)
    PROVE  StateInv'
<1>1. StepTypes' /\ EnrollmentType' /\ ScheduleTypes' /\ CountTypes'
  BY TypeParts DEF StepTypes, EnrollmentType, ScheduleTypes, CountTypes, MarkCompleted,
     StateInv, stepVars, schedulerVars
<1>2. RowTypes'
  BY TypeParts, ConstantFacts, DispatchFacts DEF RowTypes, StateInv, Statuses,
     MarkCompleted, Marked
<1>3. SendTypes'
  BY TypeParts, ConstantFacts, DispatchFacts DEF SendTypes, StateInv, Phases,
     MarkCompleted, Marked
<1>4. RowsInv'
  BY DispatchFacts DEF StateInv, TypeOK, RowsInv, Enrolled, MarkCompleted, Marked,
     stepVars, schedulerVars
<1>5. IdInv'
  BY DEF StateInv, TypeOK, IdInv, MarkCompleted, Marked, stepVars, schedulerVars
<1>6. PlanInv'
  BY ConstantFacts, DispatchFacts DEF StateInv, TypeOK, PlanInv, MarkCompleted, Marked,
     stepVars, schedulerVars
<1>7. EditInv'
  BY EditKept DEF StateInv, MarkCompleted, stepVars
<1> QED
  BY <1>1, <1>2, <1>3, <1>4, <1>5, <1>6, <1>7, TypePartsNext DEF StateInv

LEMMA ReadEnrollmentState ==
    ASSUME StateInv, NEW d \in Dispatches, ReadEnrollment(d)
    PROVE  StateInv'
<1>1. StepTypes' /\ EnrollmentType'
  BY TypeParts DEF StepTypes, EnrollmentType, ReadEnrollment, StateInv, stepVars
<1>2. RowTypes'
  BY TypeParts, ConstantFacts, DispatchFacts DEF RowTypes, StateInv, Statuses,
     ReadEnrollment, Throws, EndJob, Marked, Detour
<1>3. ScheduleTypes'
  BY TypeParts, ConstantFacts, DispatchFacts DEF ScheduleTypes, StateInv,
     ReadEnrollment, Throws, EndJob, Marked, Detour
<1>4. SendTypes'
  <2>1. worker' \in [Dispatches -> Phases]
    BY DEF StateInv, TypeOK, Phases, ReadEnrollment, Throws, EndJob
  <2>2. attempts' \in [Dispatches -> 0..SendAttempts]
    BY ThrowsAttempts, ConstantFacts DEF StateInv, TypeOK, ReadEnrollment, EndJob
  <2>3. NextActiveStep(d.step + 1) \in Steps \cup {NoStep}
    BY NextActiveStepFacts, DispatchFacts, ConstantFacts
  <2>4. plan' \in [Dispatches -> Steps \cup {NoStep}]
    BY <2>3 DEF StateInv, TypeOK, ReadEnrollment
  <2> QED
    BY <2>1, <2>2, <2>4 DEF StateInv, TypeOK, SendTypes, ReadEnrollment
<1>5. CountTypes'
  <2>1. {} \in SUBSET Detours /\ {} \cup {"failed"} \in SUBSET Detours
    BY DEF Detours
  <2>2. detours' = detours \/ (\E R \in SUBSET Detours : Detour(d.enrollment, R))
    BY <2>1 DEF ReadEnrollment, Throws
  <2> QED
    BY <2>2, DetourType, DispatchFacts DEF StateInv, TypeOK, CountTypes, ReadEnrollment
<1>6. RowsInv'
  BY DispatchFacts DEF StateInv, TypeOK, RowsInv, Enrolled, ReadEnrollment, Throws,
     EndJob, Marked, Detour, stepVars
<1>7. IdInv'
  BY DEF StateInv, TypeOK, IdInv, ReadEnrollment, Throws, EndJob, Marked, Detour,
     stepVars
<1>8. PlanInv'
  <2>1. NextActiveStep(d.step + 1) # NoStep => NextActiveStep(d.step + 1) > d.step
    <3>1. d.step \in Nat /\ d.step + 1 \in Nat
      BY DispatchFacts, ConstantFacts
    <3>2. NextActiveStep(d.step + 1) # NoStep =>
              NextActiveStep(d.step + 1) \in Nat /\ NextActiveStep(d.step + 1) >= d.step + 1
      BY <3>1, NextActiveStepFacts, ConstantFacts
    <3> QED
      BY <3>1, <3>2
  <2>2. plan' = plan \/ plan' = [plan EXCEPT ![d] = NextActiveStep(d.step + 1)]
    BY DEF ReadEnrollment
  <2>3. \A x \in Dispatches : plan'[x] # NoStep => plan'[x] > x.step
    BY <2>1, <2>2 DEF StateInv, TypeOK, PlanInv
  <2>4. \A x \in Dispatches : worker'[x] = "advanced" => worker[x] = "advanced" /\ x # d
    BY DEF StateInv, TypeOK, ReadEnrollment, Throws, EndJob
  <2> QED
    BY <2>2, <2>3, <2>4 DEF StateInv, TypeOK, PlanInv
<1>9. EditInv'
  BY EditKept DEF StateInv, ReadEnrollment, stepVars
<1> QED
  BY <1>1, <1>2, <1>3, <1>4, <1>5, <1>6, <1>7, <1>8, <1>9, TypePartsNext DEF StateInv

LEMMA CompleteEnrollmentState ==
    ASSUME StateInv, NEW d \in Dispatches, CompleteEnrollment(d)
    PROVE  StateInv'
<1>1. StepTypes' /\ RowTypes' /\ CountTypes'
  BY TypeParts DEF StepTypes, RowTypes, CountTypes, CompleteEnrollment, StateInv,
     stepVars
<1>2. EnrollmentType'
  BY TypeParts, ConstantFacts, DispatchFacts DEF EnrollmentType, StateInv,
     CompleteEnrollment, EndJob
<1>3. ScheduleTypes'
  BY TypeParts, ConstantFacts, DispatchFacts DEF ScheduleTypes, StateInv,
     CompleteEnrollment, EndJob
<1>4. SendTypes'
  BY TypeParts, ConstantFacts, DispatchFacts DEF SendTypes, StateInv, Phases,
     CompleteEnrollment, EndJob
<1>5. RowsInv'
  BY DispatchFacts DEF StateInv, TypeOK, RowsInv, Enrolled, CompleteEnrollment, EndJob,
     stepVars
<1>6. IdInv'
  <2>1. d.enrollment # 0
    BY DispatchFacts
  <2>2. \/ enrollment' = enrollment
        \/ enrollment'.id = enrollment.id /\ enrollment.status # "none"
    BY DEF StateInv, TypeOK, Enrolled, CompleteEnrollment
  <2> QED
    BY <2>2 DEF StateInv, IdInv
<1>7. PlanInv'
  BY ConstantFacts, DispatchFacts DEF StateInv, TypeOK, PlanInv, CompleteEnrollment,
     EndJob, stepVars
<1>8. EditInv'
  <2>1. UNCHANGED <<editor, steps>>
    BY DEF CompleteEnrollment, stepVars
  <2>2. \/ enrollment' = enrollment
        \/ /\ enrollment'.id = enrollment.id /\ enrollment'.status = "completed"
           /\ enrollment.status # "none"
    BY DEF StateInv, TypeOK, Enrolled, CompleteEnrollment
  <2> QED
    BY <2>1, <2>2 DEF StateInv, EditInv, Reopening, Exists, Enrolled
<1> QED
  BY <1>1, <1>2, <1>3, <1>4, <1>5, <1>6, <1>7, <1>8, TypePartsNext DEF StateInv

LEMMA AdvanceEnrollmentState ==
    ASSUME StateInv, NEW d \in Dispatches, AdvanceEnrollment(d)
    PROVE  StateInv'
<1>1. StepTypes'
  BY TypeParts DEF StepTypes, AdvanceEnrollment, StateInv, stepVars
<1>2. EnrollmentType'
  <2>1. plan[d] # NoStep => plan[d] \in Steps /\ plan[d] \in 0..NumSteps /\ d.step \in Steps
    BY ConstantFacts, DispatchFacts DEF StateInv, TypeOK
  <2>2. \/ enrollment' = enrollment
        \/ enrollment' = [enrollment EXCEPT !.currentStep = plan[d],
                                            !.lastStep = d.step, !.nextStep = plan[d]]
    BY DEF AdvanceEnrollment
  <2>3. plan[d] # NoStep /\ EnrollmentType
    BY TypeParts DEF StateInv, AdvanceEnrollment
  <2> QED
    BY <2>1, <2>2, <2>3 DEF EnrollmentType
<1>3. RowTypes'
  BY TypeParts, ConstantFacts, DispatchFacts DEF RowTypes, StateInv, Statuses,
     AdvanceEnrollment, Insertable, Throws, EndJob, Marked, Detour
<1>4. ScheduleTypes'
  BY TypeParts, ConstantFacts, DispatchFacts DEF ScheduleTypes, StateInv,
     AdvanceEnrollment, Insertable, Throws, EndJob, Marked, Detour
<1>5. SendTypes'
  <2>1. worker' \in [Dispatches -> Phases]
    BY DEF StateInv, TypeOK, Phases, AdvanceEnrollment, Throws, EndJob
  <2>2. attempts' \in [Dispatches -> 0..SendAttempts]
    BY ThrowsAttempts DEF StateInv, TypeOK, AdvanceEnrollment
  <2> QED
    BY <2>1, <2>2 DEF StateInv, TypeOK, SendTypes, AdvanceEnrollment
<1>6. CountTypes'
  <2>1. {"step deleted"} \in SUBSET Detours /\ {"step deleted"} \cup {"failed"} \in SUBSET Detours
    BY DEF Detours
  <2>2. detours' = detours \/ (\E R \in SUBSET Detours : Detour(d.enrollment, R))
    BY <2>1 DEF AdvanceEnrollment, Throws
  <2> QED
    BY <2>2, DetourType, DispatchFacts DEF StateInv, TypeOK, CountTypes,
       AdvanceEnrollment
<1>7. RowsInv'
  <2>1. CASE Insertable(Successor(d))
    <3>1. dispatch' = [dispatch EXCEPT ![Successor(d)] = "pending"]
      BY <2>1 DEF AdvanceEnrollment
    <3>2. enrollment' = [enrollment EXCEPT !.currentStep = plan[d],
                                           !.lastStep = d.step, !.nextStep = plan[d]]
      BY <2>1 DEF AdvanceEnrollment
    <3>3. enrollment'.id = enrollment.id /\ enrollment'.status = enrollment.status
      BY <3>2 DEF StateInv, TypeOK
    <3> QED
      BY <2>1, <3>1, <3>3 DEF StateInv, TypeOK, RowsInv, Enrolled, Insertable
  <2>2. CASE ~Insertable(Successor(d))
    <3>1. Throws(d, {"step deleted"}) /\ enrollment' = enrollment
      BY <2>2 DEF AdvanceEnrollment
    <3>2. \A x \in Dispatches : dispatch'[x] # "absent" => dispatch[x] # "absent"
      BY <3>1 DEF StateInv, TypeOK, Throws, Marked
    <3> QED
      BY <3>1, <3>2 DEF StateInv, RowsInv, Enrolled
  <2> QED
    BY <2>1, <2>2
<1>8. IdInv'
  BY DEF StateInv, TypeOK, IdInv, AdvanceEnrollment, Insertable, Throws, EndJob,
     Marked, Detour, stepVars
<1>9. PlanInv'
  BY ConstantFacts, DispatchFacts DEF StateInv, TypeOK, PlanInv, AdvanceEnrollment,
     Insertable, Throws, EndJob, Marked, Detour, stepVars
<1>10. EditInv'
  <2>1. UNCHANGED <<editor, steps>>
    BY DEF AdvanceEnrollment, stepVars
  <2>2. enrollment'.id = enrollment.id /\ enrollment'.status = enrollment.status
    BY DEF StateInv, TypeOK, AdvanceEnrollment
  <2> QED
    BY <2>1, <2>2 DEF StateInv, EditInv, Reopening, Exists, Enrolled
<1> QED
  BY <1>1, <1>2, <1>3, <1>4, <1>5, <1>6, <1>7, <1>8, <1>9, <1>10, TypePartsNext DEF StateInv

LEMMA ScheduleNextState ==
    ASSUME StateInv, NEW d \in Dispatches, ScheduleNext(d)
    PROVE  StateInv'
<1>1. StepTypes' /\ EnrollmentType' /\ RowTypes' /\ CountTypes'
  BY TypeParts DEF StepTypes, EnrollmentType, RowTypes, CountTypes, ScheduleNext,
     StateInv, stepVars
<1>2. ScheduleTypes'
  <2>1. plan[d] # NoStep
    BY DEF StateInv, PlanInv, ScheduleNext
  <2> QED
    BY <2>1, SuccessorFacts, TypeParts DEF StateInv, ScheduleTypes, ScheduleNext
<1>3. SendTypes'
  BY TypeParts, ConstantFacts, DispatchFacts DEF SendTypes, StateInv, Phases,
     ScheduleNext, EndJob
<1>4. RowsInv'
  BY DispatchFacts DEF StateInv, TypeOK, RowsInv, Enrolled, ScheduleNext, EndJob,
     stepVars
<1>5. IdInv'
  BY DEF StateInv, TypeOK, IdInv, ScheduleNext, EndJob, stepVars
<1>6. PlanInv'
  BY ConstantFacts, DispatchFacts DEF StateInv, TypeOK, PlanInv, ScheduleNext, EndJob,
     stepVars
<1>7. EditInv'
  BY EditKept DEF StateInv, ScheduleNext, stepVars
<1> QED
  BY <1>1, <1>2, <1>3, <1>4, <1>5, <1>6, <1>7, TypePartsNext DEF StateInv

LEMMA SendFailsState ==
    ASSUME StateInv, NEW d \in Dispatches, SendFails(d)
    PROVE  StateInv'
<1>1. StepTypes' /\ EnrollmentType'
  BY TypeParts DEF StepTypes, EnrollmentType, SendFails, StateInv, stepVars
<1>2. RowTypes'
  BY TypeParts, ConstantFacts, DispatchFacts DEF RowTypes, StateInv, Statuses,
     SendFails, Fault, Throws, EndJob, Marked, Cost, Detour
<1>3. ScheduleTypes'
  BY TypeParts, ConstantFacts, DispatchFacts DEF ScheduleTypes, StateInv, SendFails,
     Fault, Throws, EndJob, Marked, Cost, Detour
<1>4. SendTypes'
  BY TypeParts, ConstantFacts, DispatchFacts DEF SendTypes, StateInv, Phases,
     SendFails, Fault, Throws, EndJob, Marked, Cost, Detour
<1>5. CountTypes'
  <2>1. Cost(worker[d]) \in SUBSET Detours /\ Cost(worker[d]) \cup {"failed"} \in SUBSET Detours
    BY DEF Cost, Detours
  <2>2. \E R \in SUBSET Detours : Detour(d.enrollment, R)
    BY <2>1 DEF SendFails, Throws
  <2>3. Fault
    BY DEF SendFails
  <2> QED
    BY <2>2, <2>3, FaultType, DetourType, DispatchFacts DEF CountTypes
<1>6. RowsInv'
  BY DispatchFacts DEF StateInv, TypeOK, RowsInv, Enrolled, SendFails, Fault, Throws,
     EndJob, Marked, Cost, Detour, stepVars
<1>7. IdInv'
  BY DEF StateInv, TypeOK, IdInv, SendFails, Fault, Throws, EndJob, Marked, Cost,
     Detour, stepVars
<1>8. PlanInv'
  BY ConstantFacts, DispatchFacts DEF StateInv, TypeOK, PlanInv, SendFails, Fault,
     Throws, EndJob, Marked, Cost, Detour, stepVars
<1>9. EditInv'
  BY EditKept DEF StateInv, SendFails, stepVars
<1> QED
  BY <1>1, <1>2, <1>3, <1>4, <1>5, <1>6, <1>7, <1>8, <1>9, TypePartsNext DEF StateInv

LEMMA WorkerDiesState ==
    ASSUME StateInv, NEW d \in Dispatches, WorkerDies(d)
    PROVE  StateInv'
<1>1. StepTypes' /\ EnrollmentType' /\ RowTypes' /\ ScheduleTypes'
  BY TypeParts DEF StepTypes, EnrollmentType, RowTypes, ScheduleTypes, WorkerDies,
     StateInv, stepVars, schedulerVars
<1>2. SendTypes'
  BY TypeParts, ConstantFacts, DispatchFacts DEF SendTypes, StateInv, Phases,
     WorkerDies, Fault, Cost, Detour
<1>3. CountTypes'
  <2>1. Cost(worker[d]) \in SUBSET Detours /\ {"abandoned"} \in SUBSET Detours
    BY DEF Cost, Detours
  <2>2. \E R \in SUBSET Detours : Detour(d.enrollment, R)
    BY <2>1 DEF WorkerDies
  <2>3. Fault
    BY DEF WorkerDies
  <2> QED
    BY <2>2, <2>3, FaultType, DetourType, DispatchFacts DEF CountTypes
<1>4. RowsInv'
  BY DispatchFacts DEF StateInv, TypeOK, RowsInv, Enrolled, WorkerDies, Fault, Cost,
     Detour, stepVars, schedulerVars
<1>5. IdInv'
  BY DEF StateInv, TypeOK, IdInv, WorkerDies, Fault, Cost, Detour, stepVars,
     schedulerVars
<1>6. PlanInv'
  BY ConstantFacts, DispatchFacts DEF StateInv, TypeOK, PlanInv, WorkerDies, Fault,
     Cost, Detour, stepVars, schedulerVars
<1>7. EditInv'
  BY EditKept DEF StateInv, WorkerDies, stepVars
<1> QED
  BY <1>1, <1>2, <1>3, <1>4, <1>5, <1>6, <1>7, TypePartsNext DEF StateInv

\* An edit that starts.
LEMMA StartsEditFacts ==
    ASSUME StateInv, NEW s \in Steps, NEW kind \in {"create", "update", "delete"},
           StartsEdit(s, kind)
    PROVE  /\ editor' \in [phase : EditPhases, step : Steps,
                           kind : {"create", "update", "delete"},
                           of : 0..MaxEnrollments, next : Steps \cup {NoStep}]
           /\ edits' \in 0..MaxEdits /\ edits + 1 \in 0..MaxEdits
<1>1. editor' = [phase |-> "recalculate", step |-> s, kind |-> kind, of |-> 0,
                 next |-> NoStep]
  BY DEF StartsEdit, NoEdit
<1>2. edits \in 0..MaxEdits /\ edits < MaxEdits /\ edits' = edits + 1
  BY DEF StateInv, TypeOK, StartsEdit
<1>3. 0 \in 0..MaxEnrollments
  BY ConstantFacts
<1>4. edits' \in 0..MaxEdits /\ edits + 1 \in 0..MaxEdits
  BY <1>2, ConstantFacts
<1> QED
  BY <1>1, <1>3, <1>4 DEF EditPhases

LEMMA NoEditType ==
    NoEdit \in [phase : EditPhases, step : Steps, kind : {"create", "update", "delete"},
                of : 0..MaxEnrollments, next : Steps \cup {NoStep}]
BY ConstantFacts DEF NoEdit, EditPhases

LEMMA CreateStepState ==
    ASSUME StateInv, NEW s \in Steps, CreateStep(s)
    PROVE  StateInv'
<1>1. EnrollmentType' /\ RowTypes' /\ ScheduleTypes' /\ SendTypes' /\ CountTypes'
  BY TypeParts DEF EnrollmentType, RowTypes, ScheduleTypes, SendTypes, CountTypes,
     CreateStep, StartsEdit, StateInv, schedulerVars, sendVars
<1>2. StepTypes'
  <2>1. editor' \in [phase : EditPhases, step : Steps, kind : {"create", "update", "delete"},
                     of : 0..MaxEnrollments, next : Steps \cup {NoStep}]
        /\ edits' \in 0..MaxEdits /\ edits + 1 \in 0..MaxEdits
    BY StartsEditFacts DEF CreateStep
  <2>2. steps' \in [Steps -> StepStates]
    BY DEF StateInv, TypeOK, StepStates, CreateStep
  <2>3. delays' \in [version : 0..MaxEdits, none : BOOLEAN]
    BY <2>1 DEF CreateStep
  <2> QED
    BY <2>1, <2>2, <2>3 DEF StepTypes
<1>3. RowsInv'
  BY DispatchFacts DEF StateInv, TypeOK, RowsInv, Enrolled, CreateStep, StartsEdit,
     schedulerVars, sendVars
<1>4. IdInv'
  BY DEF StateInv, TypeOK, IdInv, CreateStep, StartsEdit, schedulerVars, sendVars
<1>5. PlanInv'
  BY ConstantFacts, DispatchFacts DEF StateInv, TypeOK, PlanInv, CreateStep,
     StartsEdit, schedulerVars, sendVars
<1>6. EditInv'
  <2>1. editor'.phase = "recalculate"
    BY DEF CreateStep, StartsEdit, NoEdit
  <2> QED
    BY <2>1 DEF EditInv, Reopening
<1> QED
  BY <1>1, <1>2, <1>3, <1>4, <1>5, <1>6, TypePartsNext DEF StateInv

LEMMA UpdateStepState ==
    ASSUME StateInv, NEW s \in Steps, UpdateStep(s)
    PROVE  StateInv'
<1>1. EnrollmentType' /\ RowTypes' /\ ScheduleTypes' /\ SendTypes' /\ CountTypes'
  BY TypeParts DEF EnrollmentType, RowTypes, ScheduleTypes, SendTypes, CountTypes,
     UpdateStep, StartsEdit, StateInv, schedulerVars, sendVars
<1>2. StepTypes'
  <2>1. editor' \in [phase : EditPhases, step : Steps, kind : {"create", "update", "delete"},
                     of : 0..MaxEnrollments, next : Steps \cup {NoStep}]
        /\ edits' \in 0..MaxEdits /\ edits + 1 \in 0..MaxEdits
    BY StartsEditFacts DEF UpdateStep
  <2>2. steps' \in [Steps -> StepStates]
    BY DEF StateInv, TypeOK, StepStates, UpdateStep
  <2>3. delays' \in [version : 0..MaxEdits, none : BOOLEAN]
    BY <2>1 DEF StateInv, TypeOK, UpdateStep
  <2> QED
    BY <2>1, <2>2, <2>3 DEF StepTypes
<1>3. RowsInv'
  BY DispatchFacts DEF StateInv, TypeOK, RowsInv, Enrolled, UpdateStep, StartsEdit,
     Exists, schedulerVars, sendVars
<1>4. IdInv'
  BY DEF StateInv, TypeOK, IdInv, UpdateStep, StartsEdit, Exists, schedulerVars,
     sendVars
<1>5. PlanInv'
  BY ConstantFacts, DispatchFacts DEF StateInv, TypeOK, PlanInv, UpdateStep,
     StartsEdit, Exists, schedulerVars, sendVars
<1>6. EditInv'
  <2>1. editor'.phase = "recalculate"
    BY DEF UpdateStep, StartsEdit, NoEdit
  <2> QED
    BY <2>1 DEF EditInv, Reopening
<1> QED
  BY <1>1, <1>2, <1>3, <1>4, <1>5, <1>6, TypePartsNext DEF StateInv

LEMMA DeleteStepState ==
    ASSUME StateInv, NEW s \in Steps, DeleteStep(s)
    PROVE  StateInv'
<1>1. EnrollmentType' /\ ScheduleTypes' /\ SendTypes'
  BY TypeParts DEF EnrollmentType, ScheduleTypes, SendTypes, DeleteStep, StartsEdit,
     StateInv, schedulerVars, sendVars
<1>2. StepTypes'
  <2>1. editor' \in [phase : EditPhases, step : Steps, kind : {"create", "update", "delete"},
                     of : 0..MaxEnrollments, next : Steps \cup {NoStep}]
        /\ edits' \in 0..MaxEdits
    BY StartsEditFacts DEF DeleteStep
  <2>2. steps' \in [Steps -> StepStates] /\ delays' = delays
    BY DEF StateInv, TypeOK, StepStates, DeleteStep
  <2> QED
    BY <2>1, <2>2 DEF StateInv, TypeOK, StepTypes
<1>3. RowTypes'
  BY TypeParts, ConstantFacts, DispatchFacts DEF RowTypes, StateInv, Statuses,
     DeleteStep, StartsEdit, Open, Detour
<1>4. CountTypes'
  <2>1. {"step deleted"} \in SUBSET Detours
    BY DEF Detours
  <2>2. \/ Detour(enrollment.id, {})
        \/ /\ Detour(enrollment.id, {"step deleted"})
           /\ \E d \in Dispatches : dispatch[d] # "absent"
    BY DEF DeleteStep, Open
  <2>3. (\E d \in Dispatches : dispatch[d] # "absent") => enrollment.id \in 1..MaxEnrollments
    BY DispatchFacts DEF StateInv, RowsInv, Enrolled
  <2> QED
    BY <2>1, <2>2, <2>3, DetourType, DetourTypeEmpty
       DEF StateInv, TypeOK, CountTypes, DeleteStep, StartsEdit
<1>5. RowsInv'
  BY DispatchFacts DEF StateInv, TypeOK, RowsInv, Enrolled, DeleteStep, StartsEdit,
     Open, Detour, schedulerVars, sendVars
<1>6. IdInv'
  BY DEF StateInv, TypeOK, IdInv, DeleteStep, StartsEdit, Open, Detour, schedulerVars,
     sendVars
<1>7. PlanInv'
  BY ConstantFacts, DispatchFacts DEF StateInv, TypeOK, PlanInv, DeleteStep,
     StartsEdit, Open, Detour, schedulerVars, sendVars
<1>8. EditInv'
  <2>1. editor'.phase = "recalculate"
    BY DEF DeleteStep, StartsEdit, NoEdit
  <2> QED
    BY <2>1 DEF EditInv, Reopening
<1> QED
  BY <1>1, <1>2, <1>3, <1>4, <1>5, <1>6, <1>7, <1>8, TypePartsNext DEF StateInv

LEMMA DeleteFlowState ==
    ASSUME StateInv, NEW s \in Steps, DeleteFlow(s)
    PROVE  StateInv'
<1>1. EnrollmentType' /\ RowTypes' /\ ScheduleTypes' /\ SendTypes' /\ CountTypes'
  BY TypeParts DEF EnrollmentType, RowTypes, ScheduleTypes, SendTypes, CountTypes,
     DeleteFlow, StateInv, schedulerVars, sendVars
<1>2. StepTypes'
  BY TypeParts, ConstantFacts, DispatchFacts DEF StepTypes, StateInv, StepStates,
     DeleteFlow
<1>3. RowsInv'
  BY DispatchFacts DEF StateInv, TypeOK, RowsInv, Enrolled, DeleteFlow, schedulerVars,
     sendVars
<1>4. IdInv'
  BY DEF StateInv, TypeOK, IdInv, DeleteFlow, schedulerVars, sendVars
<1>5. PlanInv'
  BY ConstantFacts, DispatchFacts DEF StateInv, TypeOK, PlanInv, DeleteFlow,
     schedulerVars, sendVars
<1>6. EditInv'
  <2>1. UNCHANGED <<editor, enrollment>>
    BY DEF DeleteFlow
  <2>2. \A t \in Steps : Exists(t) => Exists(t)'
    BY DEF StateInv, TypeOK, Exists, DeleteFlow
  <2> QED
    BY <2>1, <2>2 DEF StateInv, EditInv, Reopening, Enrolled
<1> QED
  BY <1>1, <1>2, <1>3, <1>4, <1>5, <1>6, TypePartsNext DEF StateInv

LEMMA RecalculateNextRunAtState ==
    ASSUME StateInv, RecalculateNextRunAt
    PROVE  StateInv'
<1>1. RowTypes' /\ ScheduleTypes' /\ SendTypes'
  BY TypeParts DEF RowTypes, ScheduleTypes, SendTypes, RecalculateNextRunAt, StateInv,
     schedulerVars, sendVars
<1>2. StepTypes'
  <2>1. editor' = NoEdit \/ editor' = [editor EXCEPT !.phase = "reactivate"]
    BY DEF RecalculateNextRunAt
  <2>2. editor' \in [phase : EditPhases, step : Steps, kind : {"create", "update", "delete"},
                     of : 0..MaxEnrollments, next : Steps \cup {NoStep}]
    BY <2>1, NoEditType DEF StateInv, TypeOK, EditPhases
  <2> QED
    BY <2>2 DEF StateInv, TypeOK, StepTypes, RecalculateNextRunAt
<1>3. EnrollmentType'
  <2>1. RecalculatedFrom \in Nat
    BY ConstantFacts DEF StateInv, TypeOK, RecalculatedFrom
  <2>2. NextActiveStep(RecalculatedFrom) \in Steps \cup {NoStep}
    BY <2>1, NextActiveStepFacts
  <2>3. \/ enrollment' = enrollment
        \/ enrollment.status = "active" /\ \E st \in {"active", "completed"} :
             enrollment' = [enrollment EXCEPT !.status = st,
                                              !.nextStep = NextActiveStep(RecalculatedFrom)]
    BY DEF RecalculateNextRunAt
  <2>4. EnrollmentType
    BY TypeParts DEF StateInv
  <2> QED
    BY <2>2, <2>3, <2>4 DEF EnrollmentType
<1>4. CountTypes'
  <2>1. {"cut short"} \in SUBSET Detours
    BY DEF Detours
  <2>2. \/ detours' = detours \/ Detour(enrollment.id, {})
        \/ Detour(enrollment.id, {"cut short"}) /\ enrollment.status = "active"
    BY DEF RecalculateNextRunAt
  <2>3. enrollment.status = "active" => enrollment.id \in 1..MaxEnrollments
    BY ConstantFacts DEF StateInv, TypeOK, IdInv
  <2> QED
    BY <2>1, <2>2, <2>3, DetourType, DetourTypeEmpty
       DEF StateInv, TypeOK, CountTypes, RecalculateNextRunAt
<1>5. RowsInv'
  BY DispatchFacts DEF StateInv, TypeOK, RowsInv, Enrolled, RecalculateNextRunAt,
     NoEdit, Detour, RecalculatedFrom, schedulerVars, sendVars
<1>6. IdInv'
  BY DEF StateInv, TypeOK, IdInv, RecalculateNextRunAt, NoEdit, Detour,
     RecalculatedFrom, schedulerVars, sendVars
<1>7. PlanInv'
  BY ConstantFacts, DispatchFacts DEF StateInv, TypeOK, PlanInv, RecalculateNextRunAt,
     NoEdit, Detour, RecalculatedFrom, schedulerVars, sendVars
<1>8. EditInv'
  <2>1. editor'.phase \in {"reactivate", "idle"}
    BY DEF StateInv, TypeOK, RecalculateNextRunAt, NoEdit
  <2> QED
    BY <2>1 DEF EditInv, Reopening
<1> QED
  BY <1>1, <1>2, <1>3, <1>4, <1>5, <1>6, <1>7, <1>8, TypePartsNext DEF StateInv

LEMMA ReactivateCompletedState ==
    ASSUME StateInv, ReactivateCompleted
    PROVE  StateInv'
<1> DEFINE next == NextActiveStep(enrollment.currentStep)
<1>1. EnrollmentType' /\ RowTypes' /\ ScheduleTypes' /\ SendTypes' /\ CountTypes'
  BY TypeParts DEF EnrollmentType, RowTypes, ScheduleTypes, SendTypes, CountTypes,
     ReactivateCompleted, StateInv, schedulerVars, sendVars
<1>2. /\ next \in Steps \cup {NoStep}
      /\ next # NoStep => next \in Steps /\ Exists(next)
  <2>1. enrollment.currentStep \in Nat
    BY ConstantFacts DEF StateInv, TypeOK
  <2> QED
    BY <2>1, NextActiveStepFacts DEF IsActive, Exists
<1>3. \/ editor' = NoEdit
      \/ /\ enrollment.status = "completed" /\ next # NoStep
         /\ editor' = [editor EXCEPT !.phase = "reopen", !.of = enrollment.id, !.next = next]
  BY DEF ReactivateCompleted
<1>4. enrollment.status = "completed" => enrollment.id \in 1..MaxEnrollments
  BY ConstantFacts DEF StateInv, TypeOK, IdInv
<1>5. editor' \in [phase : EditPhases, step : Steps, kind : {"create", "update", "delete"},
                   of : 0..MaxEnrollments, next : Steps \cup {NoStep}]
  <2>1. editor \in [phase : EditPhases, step : Steps, kind : {"create", "update", "delete"},
                    of : 0..MaxEnrollments, next : Steps \cup {NoStep}]
    BY DEF StateInv, TypeOK
  <2>2. enrollment.id \in 0..MaxEnrollments /\ "reopen" \in EditPhases
    BY DEF StateInv, TypeOK, EditPhases
  <2>3. CASE editor' # NoEdit
    <3>1. /\ editor' = [editor EXCEPT !.phase = "reopen", !.of = enrollment.id, !.next = next]
          /\ next \in Steps
      BY <1>2, <1>3, <2>3
    <3> HIDE DEF next
    <3>2. editor' = [phase |-> "reopen", step |-> editor.step, kind |-> editor.kind,
                     of |-> enrollment.id, next |-> next]
      BY <2>1, <3>1
    <3> QED
      BY <2>1, <2>2, <3>1, <3>2
  <2> QED
    BY <2>3, NoEditType
<1>6. StepTypes'
  BY <1>5 DEF StateInv, TypeOK, StepTypes, ReactivateCompleted
<1>7. RowsInv' /\ IdInv' /\ PlanInv'
  BY DEF StateInv, RowsInv, IdInv, PlanInv, Enrolled, ReactivateCompleted, sendVars
<1>8. EditInv'
  <2>1. UNCHANGED <<steps, enrollment>>
    BY DEF ReactivateCompleted
  <2>2. CASE editor' = NoEdit
    BY <2>2 DEF NoEdit, EditInv, Reopening
  <2>3. CASE editor' # NoEdit
    <3>1. /\ enrollment.status = "completed" /\ editor'.of = enrollment.id
          /\ editor'.next = next /\ next # NoStep
      <4>1. /\ editor' = [editor EXCEPT !.phase = "reopen", !.of = enrollment.id,
                                        !.next = next]
            /\ enrollment.status = "completed" /\ next # NoStep
        BY <1>3, <2>3
      <4>2. editor \in [phase : EditPhases, step : Steps,
                        kind : {"create", "update", "delete"},
                        of : 0..MaxEnrollments, next : Steps \cup {NoStep}]
        BY DEF StateInv, TypeOK
      <4> HIDE DEF next
      <4> QED
        BY <4>1, <4>2
    <3>2. enrollment.id <= enrollment.id
      BY DEF StateInv, TypeOK
    <3>3. steps'[next] \notin {"new", "gone"}
      BY <1>2, <2>1, <3>1 DEF Exists
    <3> QED
      BY <1>2, <1>4, <2>1, <3>1, <3>2, <3>3 DEF EditInv, Exists
  <2> QED
    BY <2>2, <2>3
<1> QED
  BY <1>1, <1>6, <1>7, <1>8, TypePartsNext DEF StateInv

LEMMA ReopenEnrollmentState ==
    ASSUME StateInv, ReopenEnrollment
    PROVE  StateInv'
<1>1. RowTypes' /\ ScheduleTypes' /\ SendTypes'
  BY TypeParts DEF RowTypes, ScheduleTypes, SendTypes, ReopenEnrollment, StateInv,
     schedulerVars, sendVars
<1>2. /\ editor.of \in 1..MaxEnrollments /\ editor.of <= enrollment.id
      /\ editor.next \in Steps /\ Exists(editor.next)
  BY DEF StateInv, EditInv, Reopening, ReopenEnrollment
<1>3. editor' = NoEdit \/ editor' = [editor EXCEPT !.phase = "dispatch"]
  BY DEF ReopenEnrollment
<1>4. StepTypes'
  <2>1. editor' \in [phase : EditPhases, step : Steps, kind : {"create", "update", "delete"},
                     of : 0..MaxEnrollments, next : Steps \cup {NoStep}]
    BY <1>3, NoEditType DEF StateInv, TypeOK, EditPhases
  <2> QED
    BY <2>1 DEF StateInv, TypeOK, StepTypes, ReopenEnrollment
<1>5. EnrollmentType'
  <2>1. EnrollmentType
    BY TypeParts DEF StateInv
  <2>2. \/ enrollment' = enrollment
        \/ enrollment' = [enrollment EXCEPT !.status = "active", !.nextStep = editor.next]
    BY DEF ReopenEnrollment
  <2> QED
    BY <1>2, <2>1, <2>2 DEF EnrollmentType
<1>6. CountTypes'
  <2>1. {"no delay"} \in SUBSET Detours /\ {} \in SUBSET Detours
    BY DEF Detours
  <2>2. \E R \in SUBSET Detours : Detour(editor.of, R)
    BY <2>1 DEF ReopenEnrollment
  <2> QED
    BY <1>2, <2>2, DetourType DEF StateInv, TypeOK, CountTypes, ReopenEnrollment
<1>7. /\ enrollment'.id = enrollment.id
      /\ enrollment'.status = "none" <=> enrollment.status = "none"
  BY DEF StateInv, TypeOK, Enrolled, ReopenEnrollment
<1>8. RowsInv' /\ IdInv' /\ PlanInv'
  BY <1>7 DEF StateInv, RowsInv, IdInv, PlanInv, Enrolled, ReopenEnrollment, sendVars
<1>9. EditInv'
  <2>1. UNCHANGED steps
    BY DEF ReopenEnrollment
  <2>2. CASE editor' = NoEdit
    BY <2>2 DEF NoEdit, EditInv, Reopening
  <2>3. CASE editor' = [editor EXCEPT !.phase = "dispatch"]
    <3>1. editor'.phase = "dispatch" /\ editor'.of = editor.of /\ editor'.next = editor.next
      BY <2>3 DEF StateInv, TypeOK
    <3> QED
      BY <1>2, <1>7, <2>1, <3>1 DEF EditInv, Exists
  <2> QED
    BY <1>3, <2>2, <2>3
<1> QED
  BY <1>1, <1>4, <1>5, <1>6, <1>8, <1>9, TypePartsNext DEF StateInv

\* The row a reopened enrollment goes on with.
Resumption == [enrollment |-> editor.of, step |-> editor.next, runAt |-> delays.version]

LEMMA ResumptionFacts ==
    ASSUME StateInv, editor.phase = "dispatch"
    PROVE  /\ Resumption \in Dispatches
           /\ Resumption.enrollment = editor.of /\ Resumption.step = editor.next
           /\ editor.next \in Nat /\ Exists(editor.next)
BY StampedFacts, ConstantFacts DEF StateInv, EditInv, Reopening, Resumption

LEMMA DispatchReopenedState ==
    ASSUME StateInv, DispatchReopened
    PROVE  StateInv'
<1>1. EnrollmentType' /\ SendTypes'
  BY TypeParts DEF EnrollmentType, SendTypes, DispatchReopened, StateInv, sendVars
<1>2. Resumption \in Dispatches /\ Resumption.enrollment = editor.of
  BY ResumptionFacts DEF DispatchReopened
<1>3. StepTypes'
  BY TypeParts, NoEditType DEF StepTypes, StateInv, DispatchReopened
<1>4. \/ dispatch' = dispatch /\ UNCHANGED <<schedule, faults>>
      \/ /\ Enrolled(editor.of) /\ dispatch' = [dispatch EXCEPT ![Resumption] = "pending"]
         /\ Scheduled(Resumption)
  BY <1>2 DEF DispatchReopened, Resumption, Insertable
<1>5. RowTypes' /\ ScheduleTypes'
  BY <1>2, <1>4, TypeParts DEF RowTypes, ScheduleTypes, Statuses, StateInv, Scheduled,
     DispatchReopened
<1>6. CountTypes'
  BY <1>4, FaultType DEF StateInv, TypeOK, CountTypes, Scheduled, DispatchReopened
<1>7. RowsInv'
  <2>1. enrollment' = enrollment
    BY DEF DispatchReopened
  <2>2. \A x \in Dispatches : dispatch'[x] # "absent" => Enrolled(x.enrollment)
    BY <1>2, <1>4 DEF StateInv, TypeOK, RowsInv
  <2> QED
    BY <2>1, <2>2 DEF RowsInv, Enrolled
<1>8. IdInv' /\ PlanInv'
  BY DEF StateInv, IdInv, PlanInv, DispatchReopened, sendVars
<1>9. EditInv'
  BY DEF EditInv, Reopening, NoEdit, DispatchReopened
<1> QED
  BY <1>1, <1>3, <1>5, <1>6, <1>7, <1>8, <1>9, TypePartsNext DEF StateInv

LEMMA EditFailsState ==
    ASSUME StateInv, EditFails
    PROVE  StateInv'
<1>1. EnrollmentType' /\ RowTypes' /\ ScheduleTypes' /\ SendTypes'
  BY TypeParts DEF EnrollmentType, RowTypes, ScheduleTypes, SendTypes, EditFails, StateInv,
     schedulerVars, sendVars
<1>2. StepTypes'
  BY TypeParts, NoEditType DEF StepTypes, StateInv, EditFails
<1>3. CountTypes'
  <2>1. {"no dispatch"} \in SUBSET Detours
    BY DEF Detours
  <2>2. \/ Detour(editor.of, {})
        \/ Detour(editor.of, {"no dispatch"}) /\ editor.of \in 1..MaxEnrollments
    BY DEF StateInv, EditInv, Reopening, EditFails
  <2>3. Fault
    BY DEF EditFails
  <2> QED
    BY <2>1, <2>2, <2>3, FaultType, DetourType, DetourTypeEmpty DEF CountTypes
<1>4. RowsInv' /\ IdInv' /\ PlanInv'
  BY DEF StateInv, RowsInv, IdInv, PlanInv, Enrolled, EditFails, sendVars
<1>5. EditInv'
  BY DEF EditInv, Reopening, NoEdit, EditFails
<1> QED
  BY <1>1, <1>2, <1>3, <1>4, <1>5, TypePartsNext DEF StateInv

LEMMA InitState == Init => StateInv
<1> SUFFICES ASSUME Init PROVE StateInv
  OBVIOUS
<1>1. StepTypes
  BY ConstantFacts DEF Init, StepTypes, StepStates, EditPhases, NoEdit
<1>2. EnrollmentType /\ RowTypes /\ ScheduleTypes
  BY ConstantFacts DEF Init, EnrollmentType, RowTypes, ScheduleTypes, Statuses
<1>3. SendTypes /\ CountTypes
  BY ConstantFacts DEF Init, SendTypes, CountTypes, Phases
<1>4. RowsInv /\ IdInv /\ PlanInv /\ EditInv
  BY DEF Init, RowsInv, IdInv, PlanInv, EditInv, Reopening, NoEdit
<1> QED
  BY <1>1, <1>2, <1>3, <1>4, TypeParts DEF StateInv

LEMMA StutterState ==
    ASSUME StateInv, UNCHANGED vars
    PROVE  StateInv'
<1>1. StepTypes' /\ EnrollmentType' /\ RowTypes' /\ ScheduleTypes' /\ SendTypes' /\ CountTypes'
  BY TypeParts DEF StateInv, vars, stepVars, schedulerVars, sendVars, StepTypes,
     EnrollmentType, RowTypes, ScheduleTypes, SendTypes, CountTypes
<1>2. RowsInv' /\ IdInv' /\ PlanInv'
  BY DEF StateInv, vars, stepVars, schedulerVars, sendVars, RowsInv, IdInv, PlanInv,
     Enrolled
<1>3. EditInv'
  BY EditKept DEF StateInv, vars, stepVars
<1> QED
  BY <1>1, <1>2, <1>3, TypePartsNext DEF StateInv

\* The disjuncts of Next.
LEMMA Actions ==
    ASSUME Next
    PROVE  \/ EnrollContact \/ Unsubscribe \/ Reconcile \/ CleanupOrphans
           \/ RecalculateNextRunAt \/ ReactivateCompleted
           \/ ReopenEnrollment \/ DispatchReopened \/ EditFails
           \/ \E d \in Dispatches :
                \/ ProcessBucket(d) \/ ProcessDispatch(d) \/ ExecuteStep(d)
                \/ FetchDispatch(d) \/ StartSend(d) \/ SendFlow(d) \/ MarkCompleted(d)
                \/ ReadEnrollment(d)
                \/ CompleteEnrollment(d) \/ AdvanceEnrollment(d) \/ ScheduleNext(d)
                \/ PublishFails(d) \/ DropDispatch(d) \/ EnqueueFails(d) \/ SendFails(d)
                \/ WorkerDies(d)
           \/ \E s \in Steps : CreateStep(s) \/ UpdateStep(s) \/ DeleteStep(s) \/ DeleteFlow(s)
BY DEF Next, EditorStep, SchedulerStep, WorkerStep, Failure

LEMMA NextState ==
    ASSUME StateInv, Next
    PROVE  StateInv'
BY Actions, EnrollContactState, UnsubscribeState, ReconcileState, CleanupOrphansState,
   RecalculateNextRunAtState, ReactivateCompletedState, ReopenEnrollmentState,
   DispatchReopenedState, EditFailsState, ProcessBucketState, ProcessDispatchState,
   ExecuteStepState, FetchDispatchState, StartSendState, SendFlowState, MarkCompletedState,
   ReadEnrollmentState, CompleteEnrollmentState, AdvanceEnrollmentState, ScheduleNextState,
   PublishFailsState, DropDispatchState, EnqueueFailsState, SendFailsState, WorkerDiesState,
   CreateStepState, UpdateStepState, DeleteStepState, DeleteFlowState

LEMMA StateCorrect == Spec => []StateInv
<1>1. Init => StateInv
  BY InitState
<1>2. StateInv /\ [Next]_vars => StateInv'
  BY NextState, StutterState
<1> QED
  BY <1>1, <1>2, PTL DEF Spec

\* Every variable of a sequence keeps its type: in particular every dispatch
\* that is scheduled or created belongs to a step and an enrollment there is.
THEOREM TypeCorrect == Spec => []TypeOK
<1>1. StateInv => TypeOK
  BY DEF StateInv
<1> QED
  BY <1>1, StateCorrect, PTL

-----------------------------------------------------------------------------
(* One dispatch under way, and nothing sent behind it *)

\* Detours are only added.
Kept == detours \subseteq detours'

\* A dispatch may be sent again only if it could before, or the message is
\* known to have been interrupted.
NoneAhead ==
    \A x \in Dispatches : Ahead(x)' => Ahead(x) \/ HasDetour(x.enrollment, {"sent"})'

\* The enrollment stays as it is or is left, and no edit comes to reopen it.
Unended ==
    /\ enrollment'.id = enrollment.id
    /\ enrollment'.status # "none" =>
            /\ enrollment'.status = enrollment.status
            /\ enrollment'.currentStep = enrollment.currentStep
    /\ editor' = editor \/ ~Reopening'

\* A step that brings no dispatch to life, sends nothing and ends no
\* enrollment keeps LiveInv.
LEMMA CalmUnended ==
    ASSUME LiveInv, \A x \in Dispatches : Live(x)' => Live(x), NoneAhead, Kept,
           sent' = sent, enrollment'.id = enrollment.id,
           Ended' => Ended /\ enrollment'.currentStep = enrollment.currentStep,
           ReopensPast'
    PROVE  LiveInv'
<1>1. \A e : (Uncut(e)' => Uncut(e)) /\ (HasDetour(e, {"sent"}) => HasDetour(e, {"sent"})')
  BY DEF Kept, Uncut, HasDetour
<1>2. OneLive'
  BY <1>1 DEF LiveInv, OneLive
<1>3. NoneLive'
  BY DEF LiveInv, NoneLive
<1>4. SentBehind'
  <2> SUFFICES ASSUME NEW d1 \in Dispatches, NEW d2 \in Dispatches,
                      d1.enrollment = d2.enrollment, Uncut(d1.enrollment)', Live(d1)',
                      sent[d2] > 0
               PROVE  \/ d2.step < d1.step
                      \/ d1 = d2 /\ (Ahead(d1)' => HasDetour(d1.enrollment, {"sent"})')
    BY DEF SentBehind
  <2>1. \/ d2.step < d1.step
        \/ d1 = d2 /\ (Ahead(d1) => HasDetour(d1.enrollment, {"sent"}))
    BY <1>1 DEF LiveInv, SentBehind
  <2> QED
    BY <1>1, <2>1 DEF NoneAhead
<1>5. SentPast'
  BY DEF LiveInv, SentPast
<1> QED
  BY <1>2, <1>3, <1>4, <1>5 DEF LiveInv

LEMMA Calm ==
    ASSUME LiveInv, \A x \in Dispatches : Live(x)' => Live(x), NoneAhead, Kept,
           sent' = sent, Unended
    PROVE  LiveInv'
<1>1. \A e : Uncut(e)' => Uncut(e)
  BY DEF Kept, Uncut, HasDetour
<1>2. Ended' => Ended /\ enrollment'.currentStep = enrollment.currentStep
  BY <1>1 DEF Unended, Ended, Awaiting, Reopening
<1>3. ReopensPast'
  BY <1>1 DEF LiveInv, ReopensPast, Unended, Reopening, Enrolled
<1> QED
  BY <1>2, <1>3, CalmUnended DEF Unended

\* Steps of the scheduler alone.
LEMMA UntouchedLive ==
    ASSUME WorkInv, LiveInv,
           UNCHANGED <<steps, editor, enrollment, dispatch, worker, sent, detours>>
    PROVE  WorkInv' /\ LiveInv'
BY DEF WorkInv, FutureIdle, PhaseInv, LostRows, Enrolled, LiveInv, OneLive, NoneLive,
   Ended, Awaiting, SentBehind, SentPast, ReopensPast, Reopening, Live, Ahead, Uncut, HasDetour

\* What each other action does to WorkInv and LiveInv.

LEMMA EnrollContactLive ==
    ASSUME StateInv, WorkInv, LiveInv, EnrollContact
    PROVE  WorkInv' /\ LiveInv'
<1> DEFINE d == [enrollment |-> enrollment.id + 1, step |-> 0, runAt |-> delays.version]
<1>1. \A x \in Dispatches : dispatch[x] = "absent"
  BY DEF StateInv, TypeOK, RowsInv, Enrolled, EnrollContact
<1>2. /\ enrollment'.id = enrollment.id + 1 /\ enrollment'.status = "active"
      /\ UNCHANGED <<worker, steps>>
  BY DEF EnrollContact, stepVars, sendVars
<1>3. dispatch' = dispatch \/ dispatch' = [dispatch EXCEPT ![d] = "pending"]
  BY DEF EnrollContact
<1>4. \A x \in Dispatches : dispatch'[x] # "absent" => dispatch'[x] = "pending" /\ x = d
  BY <1>1, <1>3 DEF StateInv, TypeOK
<1>5. \A x \in Dispatches : x.enrollment > enrollment.id => worker[x] = "idle"
  BY DEF WorkInv, FutureIdle
<1>6. enrollment.id \in Nat /\ \A x \in Dispatches : x.enrollment \in Nat
  BY DispatchFacts, ConstantFacts DEF StateInv, TypeOK
<1>7. \A x \in Dispatches : x.enrollment >= enrollment.id + 1 => worker'[x] = "idle"
  BY <1>2, <1>5, <1>6
<1>8. FutureIdle'
  BY <1>2, <1>6, <1>7 DEF FutureIdle
<1>9. PhaseInv'
  BY <1>4, <1>6, <1>7 DEF PhaseInv, Open
<1>10. LostRows'
  BY <1>2, <1>6, <1>7 DEF LostRows, Enrolled
<1>11. Kept /\ sent' = sent /\ sent \in [Dispatches -> Nat]
  BY DEF StateInv, TypeOK, EnrollContact, Kept, Detour, sendVars
<1>12. \A x \in Dispatches : x.enrollment >= enrollment.id + 1 => sent[x] = 0
  BY <1>6 DEF LiveInv, SentPast
<1>13. \A x \in Dispatches : Live(x)' => x = d \/ (Live(x) /\ x.enrollment # enrollment.id + 1)
  BY <1>2, <1>4, <1>6, <1>7 DEF Live, Open
<1>14. \A x \in Dispatches : x # d => (Ahead(x)' => Ahead(x))
  BY <1>2, <1>4, <1>6, <1>7 DEF Ahead, Open
<1>15. \A e : (Uncut(e)' => Uncut(e)) /\ (HasDetour(e, {"sent"}) => HasDetour(e, {"sent"})')
  BY <1>11 DEF Kept, Uncut, HasDetour
<1>16. OneLive'
  <2> SUFFICES ASSUME NEW d1 \in Dispatches, NEW d2 \in Dispatches,
                      d1.enrollment = d2.enrollment, Uncut(d1.enrollment)', Live(d1)', Live(d2)'
               PROVE  d1 = d2
    BY DEF OneLive
  <2>1. d.enrollment = enrollment.id + 1
    OBVIOUS
  <2>2. CASE d1.enrollment = enrollment.id + 1
    BY <1>13, <2>2
  <2>3. CASE d1.enrollment # enrollment.id + 1
    BY <1>13, <1>15, <2>1, <2>3 DEF LiveInv, OneLive
  <2> QED
    BY <2>2, <2>3
<1>17. SentBehind'
  <2> SUFFICES ASSUME NEW d1 \in Dispatches, NEW d2 \in Dispatches,
                      d1.enrollment = d2.enrollment, Uncut(d1.enrollment)', Live(d1)',
                      sent[d2] > 0
               PROVE  \/ d2.step < d1.step
                      \/ d1 = d2 /\ (Ahead(d1)' => HasDetour(d1.enrollment, {"sent"})')
    BY <1>11 DEF SentBehind
  <2>1. d1.enrollment # enrollment.id + 1
    BY <1>6, <1>12
  <2>2. Live(d1) /\ d1 # d
    BY <1>13, <2>1
  <2> QED
    BY <1>14, <1>15, <2>2 DEF LiveInv, SentBehind
<1>18. Reopening => editor.of \in Nat /\ editor.of # enrollment.id + 1
  BY <1>6, ConstantFacts DEF StateInv, EditInv
<1>19. editor' = editor
  BY DEF EnrollContact, stepVars
<1>20. ~Ended'
  BY <1>2, <1>18, <1>19 DEF Ended, Awaiting, Reopening
<1>21. ReopensPast'
  BY <1>2, <1>18, <1>19 DEF ReopensPast, Reopening, Enrolled
<1>22. NoneLive' /\ SentPast'
  BY <1>2, <1>6, <1>11, <1>12, <1>20 DEF NoneLive, SentPast
<1> QED
  BY <1>8, <1>9, <1>10, <1>16, <1>17, <1>21, <1>22 DEF WorkInv, LiveInv

LEMMA UnsubscribeLive ==
    ASSUME StateInv, WorkInv, LiveInv, Unsubscribe
    PROVE  WorkInv' /\ LiveInv'
<1>1. FutureIdle'
  BY DEF StateInv, TypeOK, RowsInv, Enrolled, WorkInv, FutureIdle, Unsubscribe,
     ErasedRows, stepVars, sendVars
<1>2. PhaseInv'
  BY DEF StateInv, TypeOK, WorkInv, PhaseInv, Open, Unsubscribe, ErasedRows, stepVars,
     sendVars
<1>3. LostRows'
  BY DEF StateInv, TypeOK, WorkInv, PhaseInv, LostRows, Enrolled, Unsubscribe,
     ErasedRows, stepVars, sendVars
<1>4. \A x \in Dispatches : Live(x)' => Live(x)
  BY DEF StateInv, TypeOK, Live, Open, Unsubscribe, ErasedRows, stepVars, sendVars
<1>5. NoneAhead
  BY DEF StateInv, TypeOK, WorkInv, PhaseInv, NoneAhead, Ahead, Open, Unsubscribe,
     ErasedRows, stepVars, sendVars
<1>6. Kept /\ sent' = sent
  BY DEF Kept, Unsubscribe, ErasedRows, stepVars, sendVars
<1>7. Unended
  BY DEF StateInv, TypeOK, Unended, Unsubscribe, stepVars
<1> QED
  BY <1>1, <1>2, <1>3, <1>4, <1>5, <1>6, <1>7, Calm DEF WorkInv

LEMMA ProcessDispatchLive ==
    ASSUME StateInv, WorkInv, LiveInv, NEW d \in Dispatches, ProcessDispatch(d)
    PROVE  WorkInv' /\ LiveInv'
<1>1. FutureIdle'
  BY DEF StateInv, TypeOK, RowsInv, Enrolled, WorkInv, FutureIdle, ProcessDispatch,
     Locked, stepVars
<1>2. PhaseInv'
  BY DEF StateInv, TypeOK, WorkInv, PhaseInv, Open, ProcessDispatch, Locked, stepVars
<1>3. LostRows'
  BY DEF StateInv, TypeOK, WorkInv, PhaseInv, LostRows, Enrolled, ProcessDispatch,
     Locked, stepVars
<1>4. \A x \in Dispatches : Live(x)' => Live(x)
  BY DEF StateInv, TypeOK, Live, Open, ProcessDispatch, Locked, stepVars
<1>5. NoneAhead
  BY DEF StateInv, TypeOK, WorkInv, PhaseInv, NoneAhead, Ahead, Open, ProcessDispatch,
     Locked, stepVars
<1>6. Kept /\ sent' = sent
  BY DEF Kept, ProcessDispatch, Locked, stepVars
<1>7. Unended
  BY DEF Unended, ProcessDispatch, stepVars
<1> QED
  BY <1>1, <1>2, <1>3, <1>4, <1>5, <1>6, <1>7, Calm DEF WorkInv

LEMMA ExecuteStepLive ==
    ASSUME StateInv, WorkInv, LiveInv, NEW d \in Dispatches, ExecuteStep(d)
    PROVE  WorkInv' /\ LiveInv'
<1>1. FutureIdle'
  BY DEF StateInv, TypeOK, RowsInv, Enrolled, WorkInv, FutureIdle, ExecuteStep,
     CancelStep, Marked, Detour, stepVars
<1>2. PhaseInv'
  BY DEF StateInv, TypeOK, WorkInv, PhaseInv, Open, ExecuteStep, CancelStep, Marked,
     Detour, stepVars
<1>3. LostRows'
  BY DEF StateInv, TypeOK, WorkInv, PhaseInv, LostRows, Enrolled, ExecuteStep,
     CancelStep, Marked, Detour, stepVars
<1>4. \A x \in Dispatches : Live(x)' => Live(x)
  BY DEF StateInv, TypeOK, Live, Open, ExecuteStep, CancelStep, Marked, Detour, stepVars
<1>5. NoneAhead
  BY DEF StateInv, TypeOK, WorkInv, PhaseInv, NoneAhead, Ahead, Open, ExecuteStep,
     CancelStep, Marked, Detour, stepVars
<1>6. Kept /\ sent' = sent
  BY DEF Kept, ExecuteStep, CancelStep, Marked, Detour, stepVars
<1>7. Unended
  BY DEF Unended, ExecuteStep, stepVars
<1> QED
  BY <1>1, <1>2, <1>3, <1>4, <1>5, <1>6, <1>7, Calm DEF WorkInv

LEMMA EnqueueFailsLive ==
    ASSUME StateInv, WorkInv, LiveInv, NEW d \in Dispatches, EnqueueFails(d)
    PROVE  WorkInv' /\ LiveInv'
<1>1. FutureIdle'
  BY DEF StateInv, TypeOK, RowsInv, Enrolled, WorkInv, FutureIdle, EnqueueFails,
     Marked, stepVars, schedulerVars
<1>2. PhaseInv'
  BY DEF StateInv, TypeOK, WorkInv, PhaseInv, Open, EnqueueFails, Marked, stepVars,
     schedulerVars
<1>3. LostRows'
  BY DEF StateInv, TypeOK, WorkInv, PhaseInv, LostRows, Enrolled, EnqueueFails, Marked,
     stepVars, schedulerVars
<1>4. \A x \in Dispatches : Live(x)' => Live(x)
  BY DEF StateInv, TypeOK, Live, Open, EnqueueFails, Marked, stepVars, schedulerVars
<1>5. NoneAhead
  BY DEF StateInv, TypeOK, WorkInv, PhaseInv, NoneAhead, Ahead, Open, EnqueueFails,
     Marked, stepVars, schedulerVars
<1>6. Kept /\ sent' = sent
  BY DEF Kept, EnqueueFails, Marked, stepVars, schedulerVars
<1>7. Unended
  BY DEF Unended, EnqueueFails, stepVars
<1> QED
  BY <1>1, <1>2, <1>3, <1>4, <1>5, <1>6, <1>7, Calm DEF WorkInv

LEMMA FetchDispatchLive ==
    ASSUME StateInv, WorkInv, LiveInv, NEW d \in Dispatches, FetchDispatch(d)
    PROVE  WorkInv' /\ LiveInv'
<1>1. FutureIdle'
  BY DEF StateInv, TypeOK, RowsInv, Enrolled, WorkInv, FutureIdle, FetchDispatch, EndJob, stepVars
<1>2. PhaseInv'
  BY DEF StateInv, TypeOK, WorkInv, PhaseInv, Open, FetchDispatch, EndJob,
     stepVars
<1>3. LostRows'
  <2>1. \A x \in Dispatches : dispatch'[x] = "absent" => dispatch[x] = "absent"
    BY DEF StateInv, TypeOK, FetchDispatch
  <2>2. \A x \in Dispatches : worker'[x] # "idle" => worker[x] # "idle"
    BY DEF StateInv, TypeOK, FetchDispatch, EndJob
  <2>3. UNCHANGED <<steps, enrollment>>
    BY DEF FetchDispatch, stepVars
  <2> QED
    BY <2>1, <2>2, <2>3 DEF WorkInv, LostRows, Enrolled
<1>4. \A x \in Dispatches : Live(x)' => Live(x)
  BY DEF StateInv, TypeOK, Live, Open, FetchDispatch, EndJob,
     stepVars
<1>5. NoneAhead
  BY DEF StateInv, TypeOK, WorkInv, PhaseInv, NoneAhead, Ahead, Open, FetchDispatch,
     EndJob, stepVars
<1>6. Kept /\ sent' = sent
  BY DEF Kept, FetchDispatch, EndJob, stepVars
<1>7. Unended
  BY DEF Unended, FetchDispatch, stepVars
<1> QED
  BY <1>1, <1>2, <1>3, <1>4, <1>5, <1>6, <1>7, Calm DEF WorkInv

LEMMA StartSendLive ==
    ASSUME StateInv, WorkInv, LiveInv, NEW d \in Dispatches, StartSend(d)
    PROVE  WorkInv' /\ LiveInv'
<1>1. FutureIdle'
  BY DEF StateInv, TypeOK, RowsInv, Enrolled, WorkInv, FutureIdle, StartSend,
     CancelStep, Marked, Detour, stepVars
<1>2. PhaseInv'
  BY DEF StateInv, TypeOK, WorkInv, PhaseInv, Open, StartSend, CancelStep,
     Marked, Detour, stepVars
<1>3. LostRows'
  <2>1. \A x \in Dispatches : dispatch'[x] = "absent" => dispatch[x] = "absent"
    BY DEF StateInv, TypeOK, StartSend, CancelStep, Marked
  <2>2. \A x \in Dispatches : worker'[x] # "idle" => worker[x] # "idle"
    BY DEF StateInv, TypeOK, StartSend, CancelStep
  <2>3. UNCHANGED <<steps, enrollment>>
    BY DEF StartSend, CancelStep, stepVars
  <2> QED
    BY <2>1, <2>2, <2>3 DEF WorkInv, LostRows, Enrolled
<1>4. \A x \in Dispatches : Live(x)' => Live(x)
  BY DEF StateInv, TypeOK, Live, Open, StartSend, CancelStep, Marked, Detour,
     stepVars
<1>5. NoneAhead
  BY DEF StateInv, TypeOK, WorkInv, PhaseInv, NoneAhead, Ahead, Open, StartSend,
     CancelStep, Marked, Detour, stepVars
<1>6. Kept /\ sent' = sent
  BY DEF Kept, StartSend, CancelStep, Marked, Detour, stepVars
<1>7. Unended
  BY DEF Unended, StartSend, stepVars
<1> QED
  BY <1>1, <1>2, <1>3, <1>4, <1>5, <1>6, <1>7, Calm DEF WorkInv

LEMMA SendFlowLive ==
    ASSUME StateInv, WorkInv, LiveInv, NEW d \in Dispatches, SendFlow(d)
    PROVE  WorkInv' /\ LiveInv'
<1>1. FutureIdle'
  BY DEF StateInv, TypeOK, WorkInv, FutureIdle, SendFlow
<1>2. PhaseInv' /\ LostRows'
  BY DEF StateInv, TypeOK, WorkInv, PhaseInv, LostRows, Enrolled, SendFlow, stepVars
<1>3. enrollment' = enrollment /\ editor' = editor
  BY DEF SendFlow, stepVars
<1>4. /\ worker[d] = "sending" /\ ~Ahead(d)'
      /\ \A x \in Dispatches : (Live(x)' => Live(x)) /\ (x # d => (Ahead(x)' => Ahead(x)))
  BY DEF StateInv, TypeOK, SendFlow, Live, Ahead
<1>5. /\ Live(d) /\ d.enrollment \in Nat /\ enrollment.id \in Nat
      /\ ~(d.enrollment > enrollment.id)
  BY <1>4, DispatchFacts, ConstantFacts DEF StateInv, TypeOK, WorkInv, FutureIdle, Live
<1>6. \A x \in Dispatches : sent'[x] > 0 => sent[x] > 0 \/ x = d
  BY DEF StateInv, TypeOK, SendFlow
<1>7. \A x \in Dispatches : x # d => sent'[x] = sent[x]
  BY DEF StateInv, TypeOK, SendFlow
<1>8. \A e : (Uncut(e)' <=> Uncut(e)) /\ (HasDetour(e, {"sent"})' <=> HasDetour(e, {"sent"}))
  BY DEF SendFlow, Detour, Uncut, HasDetour
<1>9. OneLive'
  BY <1>4, <1>8 DEF LiveInv, OneLive
<1>10. NoneLive' /\ ReopensPast'
  BY <1>3, <1>4, <1>8 DEF LiveInv, NoneLive, Ended, Awaiting, ReopensPast, Reopening, Enrolled
<1>11. SentBehind'
  <2> SUFFICES ASSUME NEW d1 \in Dispatches, NEW d2 \in Dispatches,
                      d1.enrollment = d2.enrollment, Uncut(d1.enrollment)', Live(d1)',
                      sent'[d2] > 0
               PROVE  \/ d2.step < d1.step
                      \/ d1 = d2 /\ (Ahead(d1)' => HasDetour(d1.enrollment, {"sent"})')
    BY DEF SentBehind
  <2>1. Live(d1) /\ Uncut(d1.enrollment)
    BY <1>4, <1>8
  <2>2. CASE d2 = d
    BY <1>4, <1>5, <2>1, <2>2 DEF LiveInv, OneLive
  <2>3. CASE d2 # d
    BY <1>4, <1>6, <1>8, <2>1, <2>3 DEF LiveInv, SentBehind
  <2> QED
    BY <2>2, <2>3
<1>12. SentPast'
  <2>1. Ended' <=> Ended
    BY <1>3, <1>8 DEF Ended, Awaiting
  <2>2. Ended => d.enrollment # enrollment.id
    BY <1>5 DEF LiveInv, NoneLive
  <2> QED
    BY <1>3, <1>5, <1>7, <2>1, <2>2 DEF LiveInv, SentPast
<1> QED
  BY <1>1, <1>2, <1>9, <1>10, <1>11, <1>12 DEF WorkInv, LiveInv

LEMMA MarkCompletedLive ==
    ASSUME StateInv, WorkInv, LiveInv, NEW d \in Dispatches, MarkCompleted(d)
    PROVE  WorkInv' /\ LiveInv'
<1>1. FutureIdle'
  BY DEF StateInv, TypeOK, RowsInv, Enrolled, WorkInv, FutureIdle, MarkCompleted,
     Marked, stepVars, schedulerVars
<1>2. PhaseInv'
  BY DEF StateInv, TypeOK, WorkInv, PhaseInv, Open, MarkCompleted, Marked, stepVars,
     schedulerVars
<1>3. LostRows'
  BY DEF StateInv, TypeOK, WorkInv, PhaseInv, LostRows, Enrolled, MarkCompleted,
     Marked, stepVars, schedulerVars
<1>4. \A x \in Dispatches : Live(x)' => Live(x)
  BY DEF StateInv, TypeOK, Live, Open, MarkCompleted, Marked, stepVars, schedulerVars
<1>5. NoneAhead
  BY DEF StateInv, TypeOK, WorkInv, PhaseInv, NoneAhead, Ahead, Open, MarkCompleted,
     Marked, stepVars, schedulerVars
<1>6. Kept /\ sent' = sent
  BY DEF Kept, MarkCompleted, Marked, stepVars, schedulerVars
<1>7. Unended
  BY DEF Unended, MarkCompleted, stepVars
<1> QED
  BY <1>1, <1>2, <1>3, <1>4, <1>5, <1>6, <1>7, Calm DEF WorkInv

LEMMA ReadEnrollmentLive ==
    ASSUME StateInv, WorkInv, LiveInv, NEW d \in Dispatches, ReadEnrollment(d)
    PROVE  WorkInv' /\ LiveInv'
<1>1. FutureIdle'
  BY DEF StateInv, TypeOK, RowsInv, Enrolled, WorkInv, FutureIdle, ReadEnrollment,
     Throws, EndJob, Marked, Detour, stepVars
<1>2. PhaseInv'
  BY DEF StateInv, TypeOK, WorkInv, PhaseInv, Open, ReadEnrollment, Throws, EndJob,
     Marked, Detour, stepVars
<1>3. LostRows'
  BY DEF StateInv, TypeOK, WorkInv, PhaseInv, LostRows, Enrolled, ReadEnrollment,
     Throws, EndJob, Marked, Detour, stepVars
<1>4. \A x \in Dispatches : Live(x)' => Live(x)
  BY DEF StateInv, TypeOK, Live, Open, ReadEnrollment, Throws, EndJob, Marked, Detour,
     stepVars
<1>5. NoneAhead
  BY DEF StateInv, TypeOK, WorkInv, PhaseInv, NoneAhead, Ahead, Open, ReadEnrollment,
     Throws, EndJob, Marked, Detour, stepVars
<1>6. Kept /\ sent' = sent
  BY DEF Kept, ReadEnrollment, Throws, EndJob, Marked, Detour, stepVars
<1>7. Unended
  BY DEF Unended, ReadEnrollment, stepVars
<1> QED
  BY <1>1, <1>2, <1>3, <1>4, <1>5, <1>6, <1>7, Calm DEF WorkInv

LEMMA CompleteEnrollmentLive ==
    ASSUME StateInv, WorkInv, LiveInv, NEW d \in Dispatches, CompleteEnrollment(d)
    PROVE  WorkInv' /\ LiveInv'
<1>1. FutureIdle'
  BY DEF StateInv, TypeOK, RowsInv, Enrolled, WorkInv, FutureIdle, CompleteEnrollment,
     EndJob
<1>2. PhaseInv'
  BY DEF StateInv, TypeOK, WorkInv, PhaseInv, Open, CompleteEnrollment, EndJob
<1>3. LostRows'
  BY DEF StateInv, TypeOK, WorkInv, PhaseInv, LostRows, Enrolled, CompleteEnrollment,
     EndJob,
     stepVars
<1>4. \A x \in Dispatches : Live(x)' => Live(x)
  BY DEF StateInv, TypeOK, Live, Open, CompleteEnrollment, EndJob
<1>5. enrollment'.id = enrollment.id /\ UNCHANGED <<detours, sent, editor>>
  BY DEF StateInv, TypeOK, CompleteEnrollment, stepVars
<1>6. NoneAhead /\ Kept
  BY DEF StateInv, TypeOK, WorkInv, PhaseInv, NoneAhead, Ahead, Open, Kept,
     CompleteEnrollment, EndJob
<1>7. CASE ~Enrolled(d.enrollment)
  <2>1. enrollment' = enrollment
    BY <1>7 DEF CompleteEnrollment
  <2> QED
    BY <1>1, <1>2, <1>3, <1>4, <1>5, <1>6, <2>1, Calm DEF WorkInv, Unended
<1>8. CASE Enrolled(d.enrollment)
  <2>1. Live(d) /\ d.enrollment = enrollment.id
    BY <1>8 DEF Live, Enrolled, CompleteEnrollment
  <2>2. ~Live(d)'
    BY DEF StateInv, TypeOK, WorkInv, PhaseInv, Live, Open, CompleteEnrollment, EndJob
  <2>3. enrollment'.currentStep = d.step + 1
    BY <1>8 DEF StateInv, TypeOK, CompleteEnrollment
  <2>4. \A e : (Uncut(e)' <=> Uncut(e)) /\ (HasDetour(e, {"sent"})' <=> HasDetour(e, {"sent"}))
    BY <1>5 DEF Uncut, HasDetour
  <2>5. OneLive'
    BY <1>4, <2>4 DEF LiveInv, OneLive
  <2>6. NoneLive'
    BY <1>4, <1>5, <2>1, <2>2, <2>4 DEF LiveInv, OneLive, NoneLive, Ended
  <2>7. ReopensPast'
    <3>1. Reopening /\ Enrolled(editor.of) /\ Uncut(editor.of) => FALSE
      <4>1. Enrolled(editor.of) => editor.of = enrollment.id
        BY DEF Enrolled
      <4>2. Reopening /\ Enrolled(editor.of) /\ Uncut(editor.of) => Ended
        BY <4>1 DEF LiveInv, ReopensPast, StateInv, EditInv, Reopening, Ended, Awaiting
      <4> QED
        BY <2>1, <4>2 DEF LiveInv, NoneLive
    <3>2. Enrolled(editor.of)' => Enrolled(editor.of)
      BY <1>5, <1>8 DEF Enrolled
    <3> QED
      BY <1>5, <2>4, <3>1, <3>2 DEF ReopensPast, Reopening
  <2>8. SentBehind'
    <3> SUFFICES ASSUME NEW d1 \in Dispatches, NEW d2 \in Dispatches,
                        d1.enrollment = d2.enrollment, Uncut(d1.enrollment)', Live(d1)',
                        sent[d2] > 0
                 PROVE  \/ d2.step < d1.step
                        \/ d1 = d2 /\ (Ahead(d1)' => HasDetour(d1.enrollment, {"sent"})')
      BY <1>5 DEF SentBehind
    <3> QED
      BY <1>4, <1>6, <2>4 DEF LiveInv, SentBehind, NoneAhead
  <2>9. Uncut(enrollment.id) =>
          \A x \in Dispatches : x.enrollment = enrollment.id /\ sent[x] > 0 => x.step < d.step + 1
    <3> SUFFICES ASSUME Uncut(enrollment.id), NEW x \in Dispatches,
                        x.enrollment = enrollment.id, sent[x] > 0
                 PROVE  x.step < d.step + 1
      OBVIOUS
    <3>1. x.step < d.step \/ d = x
      BY <2>1 DEF LiveInv, SentBehind
    <3> QED
      BY <3>1, DispatchFacts, ConstantFacts
  <2>10. SentPast'
    BY <1>5, <2>3, <2>4, <2>9 DEF LiveInv, SentPast, Ended
  <2> QED
    BY <1>1, <1>2, <1>3, <2>5, <2>6, <2>8, <2>10, <2>7 DEF WorkInv, LiveInv
<1> QED
  BY <1>7, <1>8

LEMMA AdvanceEnrollmentLive ==
    ASSUME StateInv, WorkInv, LiveInv, NEW d \in Dispatches, AdvanceEnrollment(d)
    PROVE  WorkInv' /\ LiveInv'
<1>1. CASE ~Insertable(Successor(d))
  <2>1. Throws(d, {"step deleted"}) /\ UNCHANGED <<enrollment, steps, plan, editor>>
    BY <1>1 DEF AdvanceEnrollment, stepVars
  <2>2. FutureIdle'
    BY <2>1 DEF StateInv, TypeOK, WorkInv, FutureIdle, AdvanceEnrollment, Throws, EndJob
  <2>3. PhaseInv'
    BY <2>1 DEF StateInv, TypeOK, WorkInv, PhaseInv, Open, AdvanceEnrollment, Throws,
       EndJob, Marked
  <2>4. LostRows'
    <3>1. \A x \in Dispatches : dispatch'[x] = "absent" => dispatch[x] = "absent"
      BY <2>1 DEF StateInv, TypeOK, Throws, Marked
    <3>2. \A x \in Dispatches : worker'[x] # "idle" => worker[x] # "idle"
      BY <2>1 DEF StateInv, TypeOK, AdvanceEnrollment, Throws, EndJob
    <3> QED
      BY <2>1, <3>1, <3>2 DEF WorkInv, LostRows, Enrolled
  <2>5. \A x \in Dispatches : Live(x)' => Live(x)
    BY <2>1 DEF StateInv, TypeOK, Live, Open, AdvanceEnrollment, Throws, EndJob, Marked
  <2>6. NoneAhead
    BY <2>1 DEF StateInv, TypeOK, WorkInv, PhaseInv, NoneAhead, Ahead, Open,
       AdvanceEnrollment,
       Throws, EndJob, Marked
  <2>7. Kept /\ sent' = sent
    BY <2>1 DEF Kept, Throws, Detour, AdvanceEnrollment
  <2> QED
    BY <2>1, <2>2, <2>3, <2>4, <2>5, <2>6, <2>7, Calm DEF WorkInv, Unended
<1>2. CASE Insertable(Successor(d))
  <2> DEFINE next == Successor(d)
  <2>1. /\ next \in Dispatches /\ next # d
        /\ next.enrollment = d.enrollment /\ next.step = plan[d]
    BY SuccessorFacts DEF AdvanceEnrollment
  <2>2. /\ worker[d] = "planned" /\ Enrolled(d.enrollment)
        /\ dispatch[next] = "absent" /\ steps[next.step] # "gone"
    BY <1>2, <2>1 DEF AdvanceEnrollment, Insertable, Exists
  <2>3. /\ dispatch' = [dispatch EXCEPT ![next] = "pending"]
        /\ worker' = [worker EXCEPT ![d] = "advanced"]
        /\ UNCHANGED <<detours, steps, editor>>
    BY <1>2 DEF AdvanceEnrollment, stepVars
  <2>4. enrollment'.id = enrollment.id /\ enrollment'.status = enrollment.status
    BY <1>2 DEF StateInv, TypeOK, AdvanceEnrollment
  <2>5. worker[next] = "idle" /\ dispatch[d] \notin Open
    BY <2>1, <2>2 DEF WorkInv, LostRows, PhaseInv
  <2>6. FutureIdle'
    BY <2>2, <2>3, <2>4 DEF StateInv, TypeOK, WorkInv, FutureIdle
  <2>7. PhaseInv'
    BY <2>1, <2>2, <2>3, <2>5 DEF StateInv, TypeOK, WorkInv, PhaseInv, Open
  <2>8. LostRows'
    BY <2>1, <2>2, <2>3, <2>4, <2>5 DEF StateInv, TypeOK, WorkInv, LostRows, Enrolled
  <2>9. /\ Live(d) /\ sent' = sent
        /\ \A x \in Dispatches : Live(x)' => x = next \/ (Live(x) /\ x # d)
    BY <2>1, <2>2, <2>3, <2>5 DEF StateInv, TypeOK, Live, Open, AdvanceEnrollment
  <2>10. \A e : (Uncut(e)' <=> Uncut(e)) /\ (HasDetour(e, {"sent"})' <=> HasDetour(e, {"sent"}))
    BY <2>3 DEF Uncut, HasDetour
  <2>11. ~Ended'
    BY <2>2, <2>3, <2>4, <2>9, <2>10 DEF LiveInv, NoneLive, Ended, Awaiting, Enrolled
  <2>12. ReopensPast'
    <3>1. Reopening /\ Enrolled(editor.of) /\ Uncut(editor.of) => FALSE
      <4>1. Enrolled(editor.of) => editor.of = enrollment.id
        BY DEF Enrolled
      <4>2. Reopening /\ Enrolled(editor.of) /\ Uncut(editor.of) => Ended
        BY <4>1 DEF LiveInv, ReopensPast, StateInv, EditInv, Reopening, Ended, Awaiting
      <4> QED
        BY <2>2, <2>9, <4>2 DEF LiveInv, NoneLive, Enrolled
    <3>2. Enrolled(editor.of)' => Enrolled(editor.of)
      BY <2>3, <2>4 DEF Enrolled
    <3> QED
      BY <2>3, <2>10, <3>1, <3>2 DEF ReopensPast, Reopening
  <2>13. \A x \in Dispatches :
             x.enrollment = d.enrollment /\ Uncut(d.enrollment) /\ Live(x)' => x = next
    BY <2>9 DEF LiveInv, OneLive
  <2>14. OneLive'
    <3> SUFFICES ASSUME NEW d1 \in Dispatches, NEW d2 \in Dispatches,
                        d1.enrollment = d2.enrollment, Uncut(d1.enrollment)',
                        Live(d1)', Live(d2)'
                 PROVE  d1 = d2
      BY DEF OneLive
    <3>1. CASE d1.enrollment = d.enrollment
      BY <2>10, <2>13, <3>1
    <3>2. CASE d1.enrollment # d.enrollment
      BY <2>1, <2>9, <2>10, <3>2 DEF LiveInv, OneLive
    <3> QED
      BY <3>1, <3>2
  <2>15. SentBehind'
    <3> SUFFICES ASSUME NEW d1 \in Dispatches, NEW d2 \in Dispatches,
                        d1.enrollment = d2.enrollment, Uncut(d1.enrollment)', Live(d1)',
                        sent[d2] > 0
                 PROVE  \/ d2.step < d1.step
                        \/ d1 = d2 /\ (Ahead(d1)' => HasDetour(d1.enrollment, {"sent"})')
      BY <2>9 DEF SentBehind
    <3>1. CASE d1.enrollment = d.enrollment
      <4>1. d1 = next /\ (d2.step < d.step \/ d2 = d)
        BY <2>9, <2>10, <2>13, <3>1 DEF LiveInv, SentBehind
      <4>2. plan[d] \in Nat /\ d.step \in Nat /\ d2.step \in Nat /\ d.step < plan[d]
        BY DispatchFacts, ConstantFacts DEF StateInv, TypeOK, PlanInv, AdvanceEnrollment
      <4> QED
        BY <2>1, <4>1, <4>2
    <3>2. CASE d1.enrollment # d.enrollment
      <4>1. Live(d1) /\ d1 # next /\ d1 # d
        BY <2>1, <2>9, <3>2
      <4>2. Ahead(d1)' => Ahead(d1)
        BY <2>3, <4>1 DEF StateInv, TypeOK, Ahead
      <4> QED
        BY <2>10, <4>1, <4>2 DEF LiveInv, SentBehind
    <3> QED
      BY <3>1, <3>2
  <2>16. NoneLive' /\ SentPast'
    BY <2>4, <2>9, <2>11 DEF LiveInv, NoneLive, SentPast
  <2> QED
    BY <2>6, <2>7, <2>8, <2>14, <2>15, <2>16, <2>12 DEF WorkInv, LiveInv
<1> QED
  BY <1>1, <1>2

LEMMA ScheduleNextLive ==
    ASSUME StateInv, WorkInv, LiveInv, NEW d \in Dispatches, ScheduleNext(d)
    PROVE  WorkInv' /\ LiveInv'
<1>1. FutureIdle'
  BY DEF StateInv, TypeOK, RowsInv, Enrolled, WorkInv, FutureIdle, ScheduleNext,
     EndJob, stepVars
<1>2. PhaseInv'
  BY DEF StateInv, TypeOK, WorkInv, PhaseInv, Open, ScheduleNext, EndJob, stepVars
<1>3. LostRows'
  BY DEF StateInv, TypeOK, WorkInv, PhaseInv, LostRows, Enrolled, ScheduleNext, EndJob,
     stepVars
<1>4. \A x \in Dispatches : Live(x)' => Live(x)
  BY DEF StateInv, TypeOK, Live, Open, ScheduleNext, EndJob, stepVars
<1>5. NoneAhead
  BY DEF StateInv, TypeOK, WorkInv, PhaseInv, NoneAhead, Ahead, Open, ScheduleNext,
     EndJob, stepVars
<1>6. Kept /\ sent' = sent
  BY DEF Kept, ScheduleNext, EndJob, stepVars
<1>7. Unended
  BY DEF Unended, ScheduleNext, stepVars
<1> QED
  BY <1>1, <1>2, <1>3, <1>4, <1>5, <1>6, <1>7, Calm DEF WorkInv

LEMMA SendFailsLive ==
    ASSUME StateInv, WorkInv, LiveInv, NEW d \in Dispatches, SendFails(d)
    PROVE  WorkInv' /\ LiveInv'
<1>1. FutureIdle'
  BY DEF StateInv, TypeOK, RowsInv, Enrolled, WorkInv, FutureIdle, SendFails, Throws,
     EndJob, Marked, Cost, Detour, stepVars
<1>2. PhaseInv'
  BY DEF StateInv, TypeOK, WorkInv, PhaseInv, Open, SendFails, Throws, EndJob, Marked,
     Cost, Detour, stepVars
<1>3. LostRows'
  BY DEF StateInv, TypeOK, WorkInv, PhaseInv, LostRows, Enrolled, SendFails, Throws,
     EndJob, Marked, Cost, Detour, stepVars
<1>4. \A x \in Dispatches : Live(x)' => Live(x)
  BY DEF StateInv, TypeOK, Live, Open, SendFails, Throws, EndJob, Marked, Cost, Detour,
     stepVars
<1>5. NoneAhead
  <2>1. worker[d] = "sent" => HasDetour(d.enrollment, {"sent"})'
    <3>1. worker[d] = "sent" => "sent" \in Cost(worker[d])
      BY DEF Cost
    <3>2. \E R : Cost(worker[d]) \subseteq R /\ Detour(d.enrollment, R)
      BY DEF SendFails, Throws
    <3> QED
      BY <3>1, <3>2 DEF Detour, HasDetour
  <2>2. \A x \in Dispatches : x # d => (Ahead(x)' => Ahead(x))
    BY DEF StateInv, TypeOK, Ahead, SendFails, Throws, EndJob, Marked
  <2>3. Ahead(d)' => Ahead(d) \/ worker[d] = "sent"
    BY DEF StateInv, TypeOK, WorkInv, PhaseInv, Ahead, Open, SendFails, Throws, EndJob,
       Marked
  <2> QED
    BY <2>1, <2>2, <2>3 DEF NoneAhead
<1>6. Kept /\ sent' = sent
  BY DEF Kept, SendFails, Throws, EndJob, Marked, Cost, Detour, stepVars
<1>7. Unended
  BY DEF Unended, SendFails, stepVars
<1> QED
  BY <1>1, <1>2, <1>3, <1>4, <1>5, <1>6, <1>7, Calm DEF WorkInv

LEMMA WorkerDiesLive ==
    ASSUME StateInv, WorkInv, LiveInv, NEW d \in Dispatches, WorkerDies(d)
    PROVE  WorkInv' /\ LiveInv'
<1>1. FutureIdle'
  BY DEF StateInv, TypeOK, RowsInv, Enrolled, WorkInv, FutureIdle, WorkerDies, Cost,
     Detour, stepVars, schedulerVars
<1>2. PhaseInv'
  BY DEF StateInv, TypeOK, WorkInv, PhaseInv, Open, WorkerDies, Cost, Detour, stepVars,
     schedulerVars
<1>3. LostRows'
  BY DEF StateInv, TypeOK, WorkInv, PhaseInv, LostRows, Enrolled, WorkerDies, Cost,
     Detour, stepVars, schedulerVars
<1>4. \A x \in Dispatches : Live(x)' => Live(x)
  BY DEF StateInv, TypeOK, Live, Open, WorkerDies, Cost, Detour, stepVars, schedulerVars
<1>5. NoneAhead
  <2>1. worker[d] = "sent" => HasDetour(d.enrollment, {"sent"})'
    <3>1. worker[d] = "sent" => "sent" \in Cost(worker[d])
      BY DEF Cost
    <3>2. worker[d] = "sent" => Detour(d.enrollment, Cost(worker[d]))
      BY DEF WorkerDies
    <3> QED
      BY <3>1, <3>2 DEF Detour, HasDetour
  <2>2. \A x \in Dispatches : x # d => (Ahead(x)' => Ahead(x))
    BY DEF StateInv, TypeOK, Ahead, WorkerDies
  <2>3. Ahead(d)' => Ahead(d) \/ worker[d] = "sent"
    BY DEF StateInv, TypeOK, WorkInv, PhaseInv, Ahead, Open, WorkerDies
  <2> QED
    BY <2>1, <2>2, <2>3 DEF NoneAhead
<1>6. Kept /\ sent' = sent
  BY DEF Kept, WorkerDies, Cost, Detour, stepVars, schedulerVars
<1>7. Unended
  BY DEF Unended, WorkerDies, stepVars
<1> QED
  BY <1>1, <1>2, <1>3, <1>4, <1>5, <1>6, <1>7, Calm DEF WorkInv

LEMMA CreateStepLive ==
    ASSUME StateInv, WorkInv, LiveInv, NEW s \in Steps, CreateStep(s)
    PROVE  WorkInv' /\ LiveInv'
<1>1. FutureIdle'
  BY DEF StateInv, TypeOK, RowsInv, Enrolled, WorkInv, FutureIdle, CreateStep,
     StartsEdit, schedulerVars, sendVars
<1>2. PhaseInv'
  BY DEF StateInv, TypeOK, WorkInv, PhaseInv, Open, CreateStep, StartsEdit,
     schedulerVars, sendVars
<1>3. LostRows'
  BY DEF StateInv, TypeOK, WorkInv, PhaseInv, LostRows, Enrolled, CreateStep,
     StartsEdit, schedulerVars, sendVars
<1>4. \A x \in Dispatches : Live(x)' => Live(x)
  BY DEF StateInv, TypeOK, Live, Open, CreateStep, StartsEdit, schedulerVars, sendVars
<1>5. NoneAhead
  BY DEF StateInv, TypeOK, WorkInv, PhaseInv, NoneAhead, Ahead, Open, CreateStep,
     StartsEdit, schedulerVars, sendVars
<1>6. Kept /\ sent' = sent
  BY DEF Kept, CreateStep, StartsEdit, schedulerVars, sendVars
<1>7. Unended
  BY DEF Unended, Reopening, NoEdit, CreateStep, StartsEdit
<1> QED
  BY <1>1, <1>2, <1>3, <1>4, <1>5, <1>6, <1>7, Calm DEF WorkInv

LEMMA UpdateStepLive ==
    ASSUME StateInv, WorkInv, LiveInv, NEW s \in Steps, UpdateStep(s)
    PROVE  WorkInv' /\ LiveInv'
<1>1. FutureIdle'
  BY DEF StateInv, TypeOK, RowsInv, Enrolled, WorkInv, FutureIdle, UpdateStep,
     StartsEdit, Exists, schedulerVars, sendVars
<1>2. PhaseInv'
  BY DEF StateInv, TypeOK, WorkInv, PhaseInv, Open, UpdateStep, StartsEdit, Exists,
     schedulerVars, sendVars
<1>3. LostRows'
  <2>1. \A t \in Steps : steps[t] = "gone" => steps'[t] = "gone"
    BY DEF StateInv, TypeOK, Exists, UpdateStep
  <2>2. UNCHANGED <<dispatch, worker, enrollment>>
    BY DEF UpdateStep, StartsEdit, sendVars
  <2> QED
    BY <2>1, <2>2, DispatchFacts DEF WorkInv, LostRows, Enrolled
<1>4. \A x \in Dispatches : Live(x)' => Live(x)
  BY DEF StateInv, TypeOK, Live, Open, UpdateStep, StartsEdit, Exists, schedulerVars,
     sendVars
<1>5. NoneAhead
  BY DEF StateInv, TypeOK, WorkInv, PhaseInv, NoneAhead, Ahead, Open, UpdateStep,
     StartsEdit, Exists, schedulerVars, sendVars
<1>6. Kept /\ sent' = sent
  BY DEF Kept, UpdateStep, StartsEdit, Exists, schedulerVars, sendVars
<1>7. Unended
  BY DEF Unended, Reopening, NoEdit, UpdateStep, StartsEdit
<1> QED
  BY <1>1, <1>2, <1>3, <1>4, <1>5, <1>6, <1>7, Calm DEF WorkInv

LEMMA DeleteStepLive ==
    ASSUME StateInv, WorkInv, LiveInv, NEW s \in Steps, DeleteStep(s)
    PROVE  WorkInv' /\ LiveInv'
<1>1. FutureIdle'
  BY DEF StateInv, TypeOK, RowsInv, Enrolled, WorkInv, FutureIdle, DeleteStep,
     StartsEdit, Exists, Detour, schedulerVars, sendVars
<1>2. PhaseInv'
  BY DEF StateInv, TypeOK, WorkInv, PhaseInv, Open, DeleteStep, StartsEdit, Exists,
     Detour, schedulerVars, sendVars
<1>3. LostRows'
  <2>1. \A t \in Steps : steps[t] = "gone" \/ t = s => steps'[t] = "gone"
    BY DEF StateInv, TypeOK, DeleteStep
  <2>2. \A x \in Dispatches : dispatch'[x] = "absent" => dispatch[x] = "absent" \/ x.step = s
    BY DEF StateInv, TypeOK, DeleteStep
  <2>3. UNCHANGED <<worker, enrollment>>
    BY DEF DeleteStep, StartsEdit, sendVars
  <2> QED
    BY <2>1, <2>2, <2>3, DispatchFacts DEF WorkInv, LostRows, Enrolled
<1>4. \A x \in Dispatches : Live(x)' => Live(x)
  BY DEF StateInv, TypeOK, Live, Open, DeleteStep, StartsEdit, Exists, Detour,
     schedulerVars, sendVars
<1>5. NoneAhead
  BY DEF StateInv, TypeOK, WorkInv, PhaseInv, NoneAhead, Ahead, Open, DeleteStep,
     StartsEdit, Exists, Detour, schedulerVars, sendVars
<1>6. Kept /\ sent' = sent
  BY DEF Kept, DeleteStep, StartsEdit, Exists, Detour, schedulerVars, sendVars
<1>7. Unended
  BY DEF Unended, Reopening, NoEdit, DeleteStep, StartsEdit
<1> QED
  BY <1>1, <1>2, <1>3, <1>4, <1>5, <1>6, <1>7, Calm DEF WorkInv

LEMMA DeleteFlowLive ==
    ASSUME StateInv, WorkInv, LiveInv, NEW s \in Steps, DeleteFlow(s)
    PROVE  WorkInv' /\ LiveInv'
<1>1. FutureIdle'
  BY DEF StateInv, TypeOK, RowsInv, Enrolled, WorkInv, FutureIdle, DeleteFlow,
     schedulerVars, sendVars
<1>2. PhaseInv'
  BY DEF StateInv, TypeOK, WorkInv, PhaseInv, Open, DeleteFlow, schedulerVars, sendVars
<1>3. LostRows'
  BY DEF StateInv, TypeOK, WorkInv, PhaseInv, LostRows, Enrolled, DeleteFlow,
     schedulerVars, sendVars
<1>4. \A x \in Dispatches : Live(x)' => Live(x)
  BY DEF StateInv, TypeOK, Live, Open, DeleteFlow, schedulerVars, sendVars
<1>5. NoneAhead
  BY DEF StateInv, TypeOK, WorkInv, PhaseInv, NoneAhead, Ahead, Open, DeleteFlow,
     schedulerVars, sendVars
<1>6. Kept /\ sent' = sent
  BY DEF Kept, DeleteFlow, schedulerVars, sendVars
<1>7. Unended
  BY DEF Unended, DeleteFlow, stepVars
<1> QED
  BY <1>1, <1>2, <1>3, <1>4, <1>5, <1>6, <1>7, Calm DEF WorkInv

LEMMA RecalculateNextRunAtLive ==
    ASSUME StateInv, WorkInv, LiveInv, RecalculateNextRunAt
    PROVE  WorkInv' /\ LiveInv'
<1>1. enrollment'.id = enrollment.id /\ Kept /\ UNCHANGED <<worker, steps, dispatch, sent>>
  BY DEF StateInv, TypeOK, Kept, Detour, RecalculateNextRunAt, sendVars
<1>2. enrollment'.status = "none" <=> enrollment.status = "none"
  BY DEF StateInv, TypeOK, RecalculateNextRunAt
<1>3. FutureIdle' /\ PhaseInv' /\ LostRows'
  BY <1>1, <1>2 DEF WorkInv, FutureIdle, PhaseInv, LostRows, Enrolled
<1>4. NoneAhead /\ \A x \in Dispatches : Live(x)' => Live(x)
  BY <1>1 DEF Live, NoneAhead, Ahead
<1>5. enrollment'.currentStep = enrollment.currentStep
  BY DEF StateInv, TypeOK, RecalculateNextRunAt
<1>6. ~Reopening' /\ enrollment'.status \in {"none", "active", "completed"}
  BY DEF StateInv, TypeOK, Reopening, NoEdit, RecalculateNextRunAt
<1>7. enrollment'.status # enrollment.status => enrollment'.status = "completed"
  BY DEF StateInv, TypeOK, RecalculateNextRunAt
<1>8. CASE enrollment'.status = "completed" => enrollment.status = "completed"
  BY <1>1, <1>3, <1>4, <1>5, <1>8, <1>6, <1>7, Calm DEF WorkInv, Unended
<1>9. CASE enrollment'.status = "completed" /\ enrollment.status # "completed"
  <2>1. NextActiveStep(RecalculatedFrom) = NoStep /\ Detour(enrollment.id, {"cut short"})
    BY <1>9 DEF StateInv, TypeOK, RecalculateNextRunAt
  <2>2. ~Ended' /\ ReopensPast'
    BY <1>1, <1>6, <2>1 DEF Detour, Uncut, HasDetour, Ended, ReopensPast
  <2> QED
    BY <1>1, <1>3, <1>4, <2>2, CalmUnended DEF WorkInv
<1> QED
  BY <1>8, <1>9

LEMMA ReactivateCompletedLive ==
    ASSUME StateInv, WorkInv, LiveInv, ReactivateCompleted
    PROVE  WorkInv' /\ LiveInv'
<1> DEFINE next == NextActiveStep(enrollment.currentStep)
<1>1. UNCHANGED <<enrollment, steps, dispatch, worker, sent, detours>>
  BY DEF ReactivateCompleted, sendVars
<1>2. WorkInv'
  BY <1>1 DEF WorkInv, FutureIdle, PhaseInv, LostRows, Enrolled
<1>3. NoneAhead /\ Kept /\ \A x \in Dispatches : Live(x)' => Live(x)
  BY <1>1 DEF Live, NoneAhead, Ahead, Kept
<1>4. editor'.phase # "dispatch" /\ (Reopening' => editor'.next = next /\ next # NoStep)
  BY DEF StateInv, TypeOK, Reopening, NoEdit, ReactivateCompleted
<1>5. next # NoStep => enrollment.currentStep <= next
  BY NextActiveStepFacts, ConstantFacts DEF StateInv, TypeOK
<1>6. ReopensPast'
  BY <1>1, <1>4, <1>5 DEF ReopensPast
<1>7. Ended' => Ended
  BY <1>1, <1>4 DEF Ended, Awaiting, Uncut, HasDetour
<1> QED
  BY <1>1, <1>2, <1>3, <1>6, <1>7, CalmUnended

LEMMA ReopenEnrollmentLive ==
    ASSUME StateInv, WorkInv, LiveInv, ReopenEnrollment
    PROVE  WorkInv' /\ LiveInv'
<1>1. /\ UNCHANGED <<steps, dispatch, worker, sent>> /\ Kept
      /\ enrollment'.id = enrollment.id /\ enrollment'.currentStep = enrollment.currentStep
  BY DEF StateInv, TypeOK, ReopenEnrollment, Kept, Detour, sendVars
<1>2. IF Enrolled(editor.of)
      THEN enrollment.status = "completed" /\ enrollment'.status = "active"
      ELSE enrollment' = enrollment
  BY DEF StateInv, TypeOK, EditInv, Reopening, ReopenEnrollment
<1>3. \A e : Enrolled(e)' <=> Enrolled(e)
  BY <1>1, <1>2 DEF Enrolled
<1>4. WorkInv'
  BY <1>1, <1>3 DEF WorkInv, FutureIdle, PhaseInv, LostRows
<1>5. NoneAhead /\ \A x \in Dispatches : Live(x)' => Live(x)
  BY <1>1 DEF Live, NoneAhead, Ahead
<1>6. ~Reopening' \/ (/\ editor.phase = "reopen" /\ editor'.phase = "dispatch"
                      /\ editor'.of = editor.of /\ editor'.next = editor.next)
  BY DEF StateInv, TypeOK, Reopening, NoEdit, ReopenEnrollment
<1>7. \A e : Uncut(e)' => Uncut(e)
  BY <1>1 DEF Kept, Uncut, HasDetour
<1>8. Ended' => Ended
  BY <1>1, <1>2, <1>6, <1>7 DEF Ended, Awaiting, Reopening, Enrolled
<1>9. ReopensPast'
  BY <1>1, <1>2, <1>3, <1>6, <1>7 DEF LiveInv, ReopensPast, Reopening
<1> QED
  BY <1>1, <1>4, <1>5, <1>8, <1>9, CalmUnended

\* An edit that gives up, or creates nothing, changes nothing.
LEMMA EditEndsLive ==
    ASSUME StateInv, WorkInv, LiveInv, Kept, editor' = NoEdit,
           UNCHANGED <<steps, enrollment, dispatch, worker, sent>>
    PROVE  WorkInv' /\ LiveInv'
<1>1. WorkInv'
  BY DEF WorkInv, FutureIdle, PhaseInv, LostRows, Enrolled
<1>2. NoneAhead /\ \A x \in Dispatches : Live(x)' => Live(x)
  BY DEF Live, NoneAhead, Ahead
<1>3. Unended
  BY DEF Unended, Reopening, NoEdit
<1> QED
  BY <1>1, <1>2, <1>3, Calm

\* An enrollment that is reopened has nothing live, and stands past what was sent.
LEMMA ReopenedFacts ==
    ASSUME StateInv, LiveInv, editor.phase = "dispatch", Enrolled(editor.of),
           Uncut(editor.of)
    PROVE  /\ Ended /\ editor.of = enrollment.id /\ enrollment.status = "active"
           /\ enrollment.currentStep <= editor.next
           /\ \A x \in Dispatches :
                x.enrollment = enrollment.id => /\ ~Live(x)
                                                /\ sent[x] > 0 => x.step < enrollment.currentStep
<1>1. /\ editor.of = enrollment.id /\ enrollment.status = "active"
      /\ enrollment.currentStep <= editor.next
  BY DEF LiveInv, ReopensPast, Reopening, Enrolled
<1>2. Ended
  BY <1>1 DEF Ended, Awaiting
<1> QED
  BY <1>1, <1>2 DEF LiveInv, NoneLive, SentPast

LEMMA DispatchReopenedLive ==
    ASSUME StateInv, WorkInv, LiveInv, DispatchReopened
    PROVE  WorkInv' /\ LiveInv'
<1>1. UNCHANGED <<steps, enrollment, worker, sent, detours>> /\ editor' = NoEdit
  BY DEF DispatchReopened, sendVars
<1>2. CASE dispatch' = dispatch
  BY <1>1, <1>2, EditEndsLive DEF Kept
<1>3. CASE dispatch' # dispatch
  <2> DEFINE d == Resumption
  <2>1. /\ editor.phase = "dispatch" /\ d \in Dispatches /\ d.enrollment = editor.of
        /\ d.step = editor.next /\ editor.next \in Nat
    BY ResumptionFacts DEF DispatchReopened
  <2>2. Insertable(d) /\ dispatch' = [dispatch EXCEPT ![d] = "pending"]
    BY <1>3 DEF DispatchReopened, Resumption
  <2>3. dispatch[d] = "absent" /\ worker[d] = "idle" /\ Enrolled(editor.of)
    BY <2>1, <2>2 DEF Insertable, Exists, WorkInv, LostRows
  <2>4. FutureIdle'
    BY <1>1 DEF WorkInv, FutureIdle
  <2>5. PhaseInv'
    BY <1>1, <2>1, <2>2, <2>3 DEF StateInv, TypeOK, WorkInv, PhaseInv, Open
  <2>6. LostRows'
    BY <1>1, <2>1, <2>2, <2>3 DEF StateInv, TypeOK, WorkInv, LostRows, Enrolled
  <2>7. \A x \in Dispatches : x # d => (Live(x)' => Live(x)) /\ (Ahead(x)' => Ahead(x))
    BY <1>1, <2>1, <2>2 DEF StateInv, TypeOK, Live, Ahead
  <2>8. \A e : (Uncut(e)' <=> Uncut(e)) /\ (HasDetour(e, {"sent"})' <=> HasDetour(e, {"sent"}))
    BY <1>1 DEF Uncut, HasDetour
  <2>9. editor.of = enrollment.id
    BY <2>3 DEF Enrolled
  <2>10. Uncut(enrollment.id) =>
           /\ enrollment.status = "active" /\ enrollment.currentStep <= editor.next
           /\ \A x \in Dispatches :
                x.enrollment = enrollment.id => /\ ~Live(x)
                                                /\ sent[x] > 0 => x.step < enrollment.currentStep
    BY <2>1, <2>3, <2>9, ReopenedFacts
  <2>11. OneLive'
    <3> SUFFICES ASSUME NEW d1 \in Dispatches, NEW d2 \in Dispatches,
                        d1.enrollment = d2.enrollment, Uncut(d1.enrollment)',
                        Live(d1)', Live(d2)'
                 PROVE  d1 = d2
      BY DEF OneLive
    <3>1. CASE d1.enrollment = enrollment.id
      BY <2>7, <2>8, <2>10, <3>1
    <3>2. CASE d1.enrollment # enrollment.id
      BY <2>1, <2>7, <2>8, <2>9, <3>2 DEF LiveInv, OneLive
    <3> QED
      BY <3>1, <3>2
  <2>12. SentBehind'
    <3> SUFFICES ASSUME NEW d1 \in Dispatches, NEW d2 \in Dispatches,
                        d1.enrollment = d2.enrollment, Uncut(d1.enrollment)', Live(d1)',
                        sent[d2] > 0
                 PROVE  \/ d2.step < d1.step
                        \/ d1 = d2 /\ (Ahead(d1)' => HasDetour(d1.enrollment, {"sent"})')
      BY <1>1 DEF SentBehind
    <3>1. CASE d1.enrollment = enrollment.id
      <4>1. d1 = d /\ d2.step < enrollment.currentStep /\ enrollment.currentStep <= editor.next
        BY <2>7, <2>8, <2>10, <3>1
      <4>2. d2.step \in Nat /\ enrollment.currentStep \in Nat
        BY DispatchFacts, ConstantFacts DEF StateInv, TypeOK
      <4> QED
        BY <2>1, <4>1, <4>2
    <3>2. CASE d1.enrollment # enrollment.id
      BY <2>1, <2>7, <2>8, <2>9, <3>2 DEF LiveInv, SentBehind
    <3> QED
      BY <3>1, <3>2
  <2>13. ~Ended' /\ ReopensPast'
    BY <1>1, <2>8, <2>10 DEF Ended, Awaiting, ReopensPast, Reopening, NoEdit
  <2>14. NoneLive' /\ SentPast'
    BY <1>1, <2>13 DEF LiveInv, NoneLive, SentPast
  <2> QED
    BY <2>4, <2>5, <2>6, <2>11, <2>12, <2>13, <2>14 DEF WorkInv, LiveInv
<1> QED
  BY <1>2, <1>3

LEMMA EditFailsLive ==
    ASSUME StateInv, WorkInv, LiveInv, EditFails
    PROVE  WorkInv' /\ LiveInv'
BY EditEndsLive DEF EditFails, Kept, Detour, sendVars

LEMMA InitLive == Init => WorkInv /\ LiveInv
BY DEF Init, WorkInv, FutureIdle, PhaseInv, LostRows, LiveInv, OneLive, NoneLive,
   SentBehind, SentPast, Ended, ReopensPast, Reopening, NoEdit, Live, Open

LEMMA StutterLive ==
    ASSUME WorkInv, LiveInv, UNCHANGED vars
    PROVE  WorkInv' /\ LiveInv'
BY UntouchedLive DEF vars, stepVars, sendVars

LEMMA NextLive ==
    ASSUME StateInv, WorkInv, LiveInv, Next
    PROVE  WorkInv' /\ LiveInv'
<1>1. CASE \/ Reconcile \/ CleanupOrphans
           \/ \E d \in Dispatches : ProcessBucket(d) \/ PublishFails(d) \/ DropDispatch(d)
  BY <1>1, UntouchedLive
     DEF Reconcile, CleanupOrphans, ProcessBucket, PublishFails, DropDispatch, stepVars, sendVars
<1>2. CASE \/ EnrollContact \/ Unsubscribe \/ RecalculateNextRunAt \/ ReactivateCompleted
           \/ ReopenEnrollment \/ DispatchReopened \/ EditFails
  BY <1>2, EnrollContactLive, UnsubscribeLive, RecalculateNextRunAtLive,
     ReactivateCompletedLive, ReopenEnrollmentLive, DispatchReopenedLive, EditFailsLive
<1>3. CASE \E d \in Dispatches :
             \/ ProcessDispatch(d) \/ ExecuteStep(d) \/ FetchDispatch(d) \/ StartSend(d)
             \/ SendFlow(d)
             \/ MarkCompleted(d) \/ ReadEnrollment(d) \/ CompleteEnrollment(d)
             \/ AdvanceEnrollment(d) \/ ScheduleNext(d) \/ EnqueueFails(d) \/ SendFails(d)
             \/ WorkerDies(d)
  BY <1>3, ProcessDispatchLive, ExecuteStepLive, FetchDispatchLive, StartSendLive,
     SendFlowLive, MarkCompletedLive, ReadEnrollmentLive, CompleteEnrollmentLive,
     AdvanceEnrollmentLive, ScheduleNextLive, EnqueueFailsLive, SendFailsLive, WorkerDiesLive
<1>4. CASE \E s \in Steps : CreateStep(s) \/ UpdateStep(s) \/ DeleteStep(s) \/ DeleteFlow(s)
  BY <1>4, CreateStepLive, UpdateStepLive, DeleteStepLive, DeleteFlowLive
<1> QED
  BY <1>1, <1>2, <1>3, <1>4, Actions

LEMMA LiveCorrect == Spec => [](WorkInv /\ LiveInv)
<1>1. Init => WorkInv /\ LiveInv
  BY InitLive
<1>2. StateInv /\ WorkInv /\ LiveInv /\ [Next]_vars => WorkInv' /\ LiveInv'
  BY NextLive, StutterLive
<1> QED
  BY <1>1, <1>2, StateCorrect, PTL DEF Spec

\* A contact has one dispatch open at most, whatever was published twice,
\* reconciled late, retried or advanced again.
THEOREM OneOpenDispatchCorrect == Spec => []OneOpenDispatch
<1>1. StateInv /\ LiveInv => OneOpenDispatch
  <2> SUFFICES ASSUME StateInv, LiveInv, Uncut(enrollment.id),
                      NEW d1 \in Dispatches, NEW d2 \in Dispatches,
                      dispatch[d1] \in Open, dispatch[d2] \in Open
               PROVE  d1 = d2
    BY DEF OneOpenDispatch, Uncut
  <2>1. d1.enrollment = enrollment.id /\ d2.enrollment = enrollment.id
    BY DEF StateInv, RowsInv, Enrolled, Open
  <2> QED
    BY <2>1 DEF LiveInv, OneLive, Live
<1> QED
  BY <1>1, StateCorrect, LiveCorrect, PTL

\* An enrollment no edit has cut short is completed with nothing more to send.
THEOREM UncutCompletedHasNothingOpenCorrect == Spec => []UncutCompletedHasNothingOpen
<1>1. StateInv /\ LiveInv => UncutCompletedHasNothingOpen
  <2> SUFFICES ASSUME StateInv, LiveInv, Ended, NEW d \in Dispatches
               PROVE  dispatch[d] \notin Open
    BY DEF UncutCompletedHasNothingOpen, CompletedHasNothingOpen, Ended, Uncut
  <2>1. dispatch[d] \in Open => d.enrollment = enrollment.id
    BY DEF StateInv, RowsInv, Enrolled, Open
  <2> QED
    BY <2>1 DEF LiveInv, NoneLive, Live
<1> QED
  BY <1>1, StateCorrect, LiveCorrect, PTL

LEMMA OnlySendFlowSends ==
    ASSUME Next, sent' # sent
    PROVE  \E d \in Dispatches : SendFlow(d)
<1>1. \A d \in Dispatches :
        (\/ ProcessBucket(d) \/ ProcessDispatch(d) \/ ExecuteStep(d) \/ FetchDispatch(d)
         \/ StartSend(d) \/ MarkCompleted(d) \/ ReadEnrollment(d) \/ CompleteEnrollment(d)
         \/ AdvanceEnrollment(d) \/ ScheduleNext(d) \/ PublishFails(d) \/ DropDispatch(d)
         \/ EnqueueFails(d) \/ SendFails(d) \/ WorkerDies(d)) => sent' = sent
  BY DEF ProcessBucket, ProcessDispatch, ExecuteStep, FetchDispatch, StartSend,
     MarkCompleted, ReadEnrollment, CompleteEnrollment, AdvanceEnrollment, ScheduleNext,
     PublishFails, DropDispatch, EnqueueFails, SendFails, WorkerDies, sendVars
<1>2. \A s \in Steps :
        CreateStep(s) \/ UpdateStep(s) \/ DeleteStep(s) \/ DeleteFlow(s) => sent' = sent
  BY DEF CreateStep, UpdateStep, DeleteStep, DeleteFlow, StartsEdit, sendVars
<1>3. (\/ EnrollContact \/ Unsubscribe \/ Reconcile \/ CleanupOrphans
       \/ RecalculateNextRunAt \/ ReactivateCompleted \/ ReopenEnrollment
       \/ DispatchReopened \/ EditFails) => sent' = sent
  BY DEF EnrollContact, Unsubscribe, Reconcile, CleanupOrphans, RecalculateNextRunAt,
     ReactivateCompleted, ReopenEnrollment, DispatchReopened, EditFails, sendVars
<1> QED
  BY <1>1, <1>2, <1>3, Actions

\* Steps go out in their order, and one again only because an attempt at it
\* failed or died after a message of it had gone out and before the mark.
THEOREM InOrderAndOnceCorrect == Spec => InOrderAndOnce
<1>1. ASSUME StateInv, LiveInv, [Next]_vars
      PROVE  \A d1, d2 \in Dispatches :
                /\ sent'[d1] > sent[d1] /\ sent[d2] > 0 /\ d1.enrollment = d2.enrollment
                /\ ~HasDetour(d1.enrollment, {"cut short"})
                => \/ d2.step < d1.step
                   \/ d2 = d1 /\ HasDetour(d1.enrollment, {"sent"})
  <2> SUFFICES ASSUME NEW d1 \in Dispatches, NEW d2 \in Dispatches,
                      sent'[d1] > sent[d1], sent[d2] > 0, d1.enrollment = d2.enrollment,
                      Uncut(d1.enrollment)
               PROVE  d2.step < d1.step \/ (d2 = d1 /\ HasDetour(d1.enrollment, {"sent"}))
    BY DEF Uncut
  <2>1. sent' # sent /\ sent[d1] \in Nat
    BY <1>1 DEF StateInv, TypeOK
  <2>2. Next
    BY <1>1, <2>1 DEF vars, sendVars
  <2>3. PICK d \in Dispatches : SendFlow(d)
    BY <2>1, <2>2, OnlySendFlowSends
  <2>4. d1 = d
    BY <1>1, <2>1, <2>3 DEF StateInv, TypeOK, SendFlow
  <2>5. Live(d1) /\ Ahead(d1)
    BY <2>3, <2>4 DEF SendFlow, Live, Ahead
  <2> QED
    BY <1>1, <2>5 DEF LiveInv, SentBehind
<1> QED
  BY <1>1, StateCorrect, LiveCorrect, PTL DEF Spec, InOrderAndOnce

-----------------------------------------------------------------------------
(* What a contact that has left still gets *)

InSend(d) == worker[d] \in {"fetched", "sending"}

\* Once a message has gone out to a contact that had left, none is under way.
LateInv ==
    \A e \in 1..MaxEnrollments :
        <<e, "late">> \in detours =>
            /\ e <= enrollment.id /\ ~Enrolled(e)
            /\ Uncut(e) => \A d \in Dispatches : d.enrollment = e => ~InSend(d)

\* No message goes out late.
NoneLate == Kept /\ \A e : <<e, "late">> \in detours' => <<e, "late">> \in detours

LEMMA OtherDetours ==
    /\ \A e, R : "late" \notin R /\ Detour(e, R) => NoneLate
    /\ UNCHANGED detours => NoneLate
BY DEF NoneLate, Kept, Detour

\* Whoever has left stays out, and no send of theirs begins.
Settled ==
    /\ NoneLate
    /\ enrollment'.id >= enrollment.id
    /\ \A e \in 1..MaxEnrollments : e <= enrollment.id /\ Enrolled(e)' => Enrolled(e)
    /\ \A d \in Dispatches : InSend(d)' => InSend(d) \/ Enrolled(d.enrollment)

LEMMA SettledLate ==
    ASSUME StateInv, LateInv, Settled, enrollment'.id \in Nat
    PROVE  LateInv'
<1> SUFFICES ASSUME NEW e \in 1..MaxEnrollments, <<e, "late">> \in detours'
             PROVE  /\ e <= enrollment'.id /\ ~Enrolled(e)'
                    /\ Uncut(e)' => \A d \in Dispatches : d.enrollment = e => ~InSend(d)'
  BY DEF LateInv
<1>1. /\ e <= enrollment.id /\ ~Enrolled(e)
      /\ Uncut(e) => \A d \in Dispatches : d.enrollment = e => ~InSend(d)
  BY DEF LateInv, Settled, NoneLate
<1>2. Uncut(e)' => Uncut(e)
  BY DEF Settled, NoneLate, Kept, Uncut, HasDetour
<1>3. enrollment.id \in Nat /\ enrollment'.id >= enrollment.id /\ e \in Nat
  BY DEF StateInv, TypeOK, Settled
<1>4. e <= enrollment'.id
  BY <1>1, <1>3
<1> QED
  BY <1>1, <1>2, <1>4 DEF Settled

LEMMA SendFlowLate ==
    ASSUME StateInv, WorkInv, LiveInv, LateInv, NEW x \in Dispatches, SendFlow(x)
    PROVE  LateInv'
<1>1. enrollment' = enrollment /\ worker[x] = "sending"
  BY DEF SendFlow
<1>2. \A d \in Dispatches : InSend(d)' => InSend(d) /\ d # x
  BY DEF StateInv, TypeOK, InSend, SendFlow
<1>3. \A e : Uncut(e)' <=> Uncut(e)
  BY DEF SendFlow, Detour, Uncut, HasDetour
<1>4. \A e : <<e, "late">> \in detours' =>
               <<e, "late">> \in detours \/ (e = x.enrollment /\ ~Enrolled(e))
  BY DEF SendFlow, Detour
<1>5. x.enrollment <= enrollment.id
  BY <1>1, DispatchFacts, ConstantFacts DEF StateInv, TypeOK, WorkInv, FutureIdle
<1>6. Uncut(x.enrollment) =>
        \A d \in Dispatches : d.enrollment = x.enrollment /\ d # x => ~InSend(d)
  <2>1. Live(x) /\ \A d \in Dispatches : InSend(d) => Live(d)
    BY <1>1 DEF Live, InSend
  <2> QED
    BY <2>1 DEF LiveInv, OneLive
<1>7. \A e : Enrolled(e)' <=> Enrolled(e)
  BY <1>1 DEF Enrolled
<1> QED
  BY <1>1, <1>2, <1>3, <1>4, <1>5, <1>6, <1>7 DEF LateInv

\* The steps that touch a send job.
LEMMA JobSettled ==
    ASSUME StateInv, NEW x \in Dispatches,
           \/ ProcessDispatch(x) \/ ExecuteStep(x) \/ FetchDispatch(x) \/ StartSend(x)
           \/ MarkCompleted(x) \/ ReadEnrollment(x) \/ ScheduleNext(x)
           \/ EnqueueFails(x) \/ SendFails(x) \/ WorkerDies(x)
    PROVE  Settled
<1>1. enrollment' = enrollment
  BY DEF ProcessDispatch, ExecuteStep, FetchDispatch, StartSend, MarkCompleted, ReadEnrollment,
     ScheduleNext, EnqueueFails, SendFails, WorkerDies
<1>2. (\/ ProcessDispatch(x) \/ FetchDispatch(x) \/ MarkCompleted(x) \/ ScheduleNext(x)
       \/ EnqueueFails(x)) => UNCHANGED detours
  BY DEF ProcessDispatch, FetchDispatch, MarkCompleted, ScheduleNext, EnqueueFails
<1>3. NoneLate
  <2>1. ExecuteStep(x) \/ StartSend(x) =>
          UNCHANGED detours \/ Detour(x.enrollment, {"step deleted"})
    BY DEF ExecuteStep, StartSend, CancelStep
  <2>2. \A R : Throws(x, R) => \/ Detour(x.enrollment, R)
                              \/ Detour(x.enrollment, R \cup {"failed"})
    BY DEF Throws
  <2>3. ReadEnrollment(x) => UNCHANGED detours \/ Throws(x, {})
    BY DEF ReadEnrollment
  <2>4. SendFails(x) => Throws(x, Cost(worker[x]))
    BY DEF SendFails
  <2>5. WorkerDies(x) => \/ Detour(x.enrollment, {"abandoned"})
                         \/ Detour(x.enrollment, Cost(worker[x]))
    BY DEF WorkerDies
  <2>6. /\ "late" \notin Cost(worker[x]) /\ "late" \notin {}
        /\ "late" \notin {"abandoned"} /\ "late" \notin {"step deleted"}
    BY DEF Cost
  <2>7. ASSUME NEW R, "late" \notin R, Throws(x, R)
        PROVE  NoneLate
    <3>1. "late" \notin R \cup {"failed"}
      BY <2>7
    <3> QED
      BY <2>2, <2>7, <3>1, OtherDetours
  <2>8. CASE ReadEnrollment(x) \/ SendFails(x)
    <3>1. UNCHANGED detours \/ \E R : "late" \notin R /\ Throws(x, R)
      BY <2>3, <2>4, <2>6, <2>8
    <3> QED
      BY <2>7, <3>1, OtherDetours
  <2>9. CASE WorkerDies(x)
    BY <2>5, <2>6, <2>9, OtherDetours
  <2> QED
    BY <1>2, <2>1, <2>6, <2>8, <2>9, OtherDetours
<1>4. FetchDispatch(x) => \A d \in Dispatches : InSend(d)' => InSend(d) \/ Enrolled(d.enrollment)
  BY DEF StateInv, TypeOK, RowsInv, InSend, FetchDispatch, EndJob
<1>5. StartSend(x) \/ ExecuteStep(x) => \A d \in Dispatches : InSend(d)' => InSend(d)
  BY DEF StateInv, TypeOK, InSend, StartSend, ExecuteStep, CancelStep
<1>6. ProcessDispatch(x) \/ EnqueueFails(x) \/ MarkCompleted(x) \/ WorkerDies(x)
        => \A d \in Dispatches : InSend(d)' => InSend(d)
  BY DEF StateInv, TypeOK, InSend, ProcessDispatch, EnqueueFails, MarkCompleted, WorkerDies
<1>7. ReadEnrollment(x) \/ ScheduleNext(x) \/ SendFails(x)
        => \A d \in Dispatches : InSend(d)' => InSend(d)
  BY DEF StateInv, TypeOK, InSend, ReadEnrollment, ScheduleNext, SendFails, Throws, EndJob
<1>8. enrollment'.id >= enrollment.id
  BY <1>1 DEF StateInv, TypeOK
<1> QED
  BY <1>1, <1>3, <1>4, <1>5, <1>6, <1>7, <1>8 DEF Settled, Enrolled

LEMMA AdvanceSettled ==
    ASSUME StateInv, NEW x \in Dispatches, CompleteEnrollment(x) \/ AdvanceEnrollment(x)
    PROVE  Settled
<1>1. /\ enrollment'.id = enrollment.id
      /\ enrollment'.status = "none" <=> enrollment.status = "none"
  BY DEF StateInv, TypeOK, Enrolled, CompleteEnrollment, AdvanceEnrollment
<1>2. \/ UNCHANGED detours \/ Detour(x.enrollment, {"step deleted"})
      \/ Detour(x.enrollment, {"step deleted"} \cup {"failed"})
  BY DEF CompleteEnrollment, AdvanceEnrollment, Throws
<1>3. NoneLate
  BY <1>2, OtherDetours
<1>4. \A d \in Dispatches : InSend(d)' => InSend(d)
  BY DEF StateInv, TypeOK, InSend, CompleteEnrollment, AdvanceEnrollment, Throws, EndJob
<1>5. enrollment'.id >= enrollment.id
  BY <1>1 DEF StateInv, TypeOK
<1> QED
  BY <1>1, <1>3, <1>4, <1>5 DEF Settled, Enrolled

\* The steps that leave the send jobs alone.
LEMMA OthersSettled ==
    ASSUME StateInv,
           \/ Unsubscribe \/ Reconcile \/ CleanupOrphans
           \/ RecalculateNextRunAt \/ ReactivateCompleted
           \/ ReopenEnrollment \/ DispatchReopened \/ EditFails
           \/ \E d \in Dispatches : ProcessBucket(d) \/ PublishFails(d) \/ DropDispatch(d)
           \/ \E s \in Steps : CreateStep(s) \/ UpdateStep(s) \/ DeleteStep(s) \/ DeleteFlow(s)
    PROVE  Settled
<1>1. worker' = worker
  BY DEF Unsubscribe, Reconcile, CleanupOrphans, RecalculateNextRunAt, ReactivateCompleted,
     ReopenEnrollment, DispatchReopened, EditFails, ProcessBucket, PublishFails, DropDispatch,
     CreateStep, UpdateStep, DeleteStep, DeleteFlow, StartsEdit, sendVars
<1>2. \E R \in SUBSET (Detours \ {"late"}) :
        UNCHANGED detours \/ Detour(enrollment.id, R) \/ Detour(editor.of, R)
  <2>1. \/ UNCHANGED detours
        \/ Detour(enrollment.id, {}) \/ Detour(enrollment.id, {"step deleted"})
        \/ Detour(enrollment.id, {"cut short"})
        \/ Detour(editor.of, {}) \/ Detour(editor.of, {"no delay"})
        \/ Detour(editor.of, {"no dispatch"})
    BY DEF Unsubscribe, Reconcile, CleanupOrphans, RecalculateNextRunAt, ReactivateCompleted,
       ReopenEnrollment, DispatchReopened, EditFails, ProcessBucket, PublishFails,
       DropDispatch, CreateStep, UpdateStep, DeleteStep, DeleteFlow
  <2> QED
    BY <2>1 DEF Detours
<1>3. NoneLate
  BY <1>2, OtherDetours
<1>4. /\ enrollment'.id = enrollment.id
      /\ enrollment'.status # "none" => enrollment.status # "none"
  BY DEF StateInv, TypeOK, Enrolled, Unsubscribe, Reconcile, CleanupOrphans,
     RecalculateNextRunAt, ReactivateCompleted, ReopenEnrollment, DispatchReopened, EditFails,
     ProcessBucket, PublishFails, DropDispatch, CreateStep, UpdateStep, DeleteStep, DeleteFlow,
     StartsEdit
<1>5. enrollment'.id >= enrollment.id
  BY <1>4 DEF StateInv, TypeOK
<1> QED
  BY <1>1, <1>3, <1>4, <1>5 DEF Settled, Enrolled, InSend

LEMMA EnrollContactSettled ==
    ASSUME StateInv, EnrollContact
    PROVE  Settled
<1>1. enrollment'.id = enrollment.id + 1 /\ worker' = worker /\ enrollment.id \in Nat
  <2>1. enrollment.id \in Nat
    BY ConstantFacts DEF StateInv, TypeOK
  <2>2. enrollment'.id = enrollment.id + 1 /\ worker' = worker
    BY DEF EnrollContact, sendVars
  <2> QED
    BY <2>1, <2>2
<1>2. \/ UNCHANGED detours \/ Detour(enrollment.id + 1, {"no dispatch"})
      \/ Detour(enrollment.id + 1, {"no first step"})
  BY DEF EnrollContact
<1>3. NoneLate
  BY <1>2, OtherDetours
<1>4. \A e \in 1..MaxEnrollments : e <= enrollment.id => ~Enrolled(e)'
  BY <1>1, ConstantFacts DEF Enrolled
<1> QED
  BY <1>1, <1>3, <1>4 DEF Settled, InSend

LEMMA LateCorrect == Spec => []LateInv
<1>1. Init => LateInv
  BY DEF Init, LateInv
<1>2. ASSUME StateInv, StateInv', WorkInv, LiveInv, LateInv, [Next]_vars
      PROVE  LateInv'
  <2>1. enrollment'.id \in Nat
    BY <1>2 DEF StateInv, TypeOK
  <2>2. CASE UNCHANGED vars
    BY <1>2, <2>2 DEF vars, sendVars, LateInv, Enrolled, Uncut, HasDetour, InSend
  <2>3. CASE \E x \in Dispatches : SendFlow(x)
    BY <1>2, <2>3, SendFlowLate
  <2>4. CASE Next /\ ~\E x \in Dispatches : SendFlow(x)
    <3>1. Settled
      BY <1>2, <2>4, Actions, JobSettled, AdvanceSettled, OthersSettled, EnrollContactSettled
    <3> QED
      BY <1>2, <2>1, <3>1, SettledLate
  <2> QED
    BY <1>2, <2>2, <2>3, <2>4
<1> QED
  BY <1>1, <1>2, StateCorrect, LiveCorrect, PTL DEF Spec

\* A contact that leaves the sequence while its row is being sent gets that step,
\* and gets it once: no retry sends to it again, and nothing else does.
THEOREM OneStepAfterLeavingCorrect == Spec => OneStepAfterLeaving
<1>1. ASSUME StateInv, LateInv, [Next]_vars
      PROVE  \A d \in Dispatches :
                /\ sent'[d] > sent[d] /\ ~Enrolled(d.enrollment)
                /\ ~HasDetour(d.enrollment, {"cut short"})
                => ~HasDetour(d.enrollment, {"late"})
  <2> SUFFICES ASSUME NEW d \in Dispatches, sent'[d] > sent[d], Uncut(d.enrollment)
               PROVE  ~HasDetour(d.enrollment, {"late"})
    BY DEF Uncut
  <2>1. sent' # sent
    BY <1>1 DEF StateInv, TypeOK
  <2>2. Next
    BY <1>1, <2>1 DEF vars, sendVars
  <2>3. PICK x \in Dispatches : SendFlow(x)
    BY <2>1, <2>2, OnlySendFlowSends
  <2>4. InSend(d)
    BY <1>1, <2>3 DEF StateInv, TypeOK, SendFlow, InSend
  <2> QED
    BY <1>1, <2>4, DispatchFacts DEF LateInv, HasDetour
<1> QED
  BY <1>1, StateCorrect, LateCorrect, PTL DEF Spec, OneStepAfterLeaving

-----------------------------------------------------------------------------
(* Where an enrollment stands among its rows *)

\* No row was created for a step beyond the one under way.
RowsBehind ==
    \A d1, d2 \in Dispatches :
        /\ d1.enrollment = d2.enrollment /\ Uncut(d1.enrollment)
        /\ Live(d1) /\ dispatch[d2] # "absent"
        => d2.step <= d1.step

\* The step the enrollment counts as its last lies behind what is under way.
LastBehind ==
    \A d \in Dispatches :
        d.enrollment = enrollment.id /\ Uncut(d.enrollment) /\ Live(d)
            => enrollment.lastStep < d.step

\* An enrollment that ended stands past its last step and all of its rows, so
\* that the row it would be resumed with is free.
EndedPast ==
    Ended => /\ enrollment.lastStep < enrollment.currentStep
             /\ \A d \in Dispatches :
                    d.enrollment = enrollment.id /\ dispatch[d] # "absent"
                        => d.step < enrollment.currentStep

PastInv == RowsBehind /\ LastBehind /\ EndedPast

\* A step that brings nothing to life, creates no row and leaves the enrollment
\* where it stands.
Quiet ==
    /\ Kept
    /\ \A x \in Dispatches : /\ Live(x)' => Live(x)
                             /\ dispatch'[x] # "absent" => dispatch[x] # "absent"
    /\ enrollment'.id = enrollment.id /\ enrollment'.lastStep = enrollment.lastStep
    /\ Ended' => Ended /\ enrollment'.currentStep = enrollment.currentStep

LEMMA UncutBefore ==
    ASSUME Kept
    PROVE  \A e : Uncut(e)' => Uncut(e)
BY DEF Kept, Uncut, HasDetour

LEMMA QuietPast ==
    ASSUME PastInv, Quiet
    PROVE  PastInv'
<1>1. \A e : Uncut(e)' => Uncut(e)
  BY UncutBefore DEF Quiet
<1>2. RowsBehind'
  BY <1>1 DEF Quiet, PastInv, RowsBehind
<1>3. LastBehind'
  BY <1>1 DEF Quiet, PastInv, LastBehind
<1>4. EndedPast'
  BY DEF Quiet, PastInv, EndedPast
<1> QED
  BY <1>2, <1>3, <1>4 DEF PastInv

\* Steps that leave the enrollment alone.
LEMMA QuietRows ==
    ASSUME Kept, enrollment' = enrollment, Awaiting' => Awaiting,
           \A x \in Dispatches : /\ Live(x)' => Live(x)
                                 /\ dispatch'[x] # "absent" => dispatch[x] # "absent"
    PROVE  Quiet
<1>1. Ended' => Ended
  BY UncutBefore DEF Ended
<1> QED
  BY <1>1 DEF Quiet

LEMMA SchedulerQuiet ==
    ASSUME StateInv,
           \/ Reconcile \/ CleanupOrphans
           \/ \E d \in Dispatches : ProcessBucket(d) \/ PublishFails(d) \/ DropDispatch(d)
    PROVE  Quiet
<1>1. UNCHANGED <<enrollment, dispatch, worker, detours, editor>>
  BY DEF Reconcile, CleanupOrphans, ProcessBucket, PublishFails, DropDispatch, stepVars, sendVars
<1> QED
  BY <1>1, QuietRows DEF Kept, Live, Awaiting

LEMMA EditQuiet ==
    ASSUME StateInv, NEW s \in Steps,
           CreateStep(s) \/ UpdateStep(s) \/ DeleteStep(s) \/ DeleteFlow(s)
    PROVE  Quiet
<1>1. enrollment' = enrollment /\ worker' = worker /\ Kept
  BY DEF Kept, Detour, CreateStep, UpdateStep, DeleteStep, DeleteFlow, StartsEdit, sendVars
<1>2. \A x \in Dispatches : dispatch'[x] = dispatch[x] \/ dispatch'[x] = "absent"
  BY DEF CreateStep, UpdateStep, DeleteStep, DeleteFlow
<1>3. \A x \in Dispatches : Live(x)' => Live(x)
  BY <1>1, <1>2 DEF Live, Open
<1>4. editor' = editor \/ editor'.phase = "recalculate"
  BY DEF CreateStep, UpdateStep, DeleteStep, DeleteFlow, StartsEdit, NoEdit
<1> QED
  BY <1>1, <1>2, <1>3, <1>4, QuietRows DEF Awaiting

LEMMA ConsumerQuiet ==
    ASSUME StateInv, NEW d \in Dispatches,
           ProcessDispatch(d) \/ ExecuteStep(d) \/ EnqueueFails(d)
    PROVE  Quiet
<1>1. enrollment' = enrollment /\ Kept /\ (Awaiting' => Awaiting)
  BY DEF Kept, Detour, Awaiting, ProcessDispatch, ExecuteStep, CancelStep, EnqueueFails, stepVars
<1>2. \A x \in Dispatches : dispatch'[x] # "absent" => dispatch[x] # "absent"
  BY DEF StateInv, TypeOK, ProcessDispatch, Locked, ExecuteStep, CancelStep, EnqueueFails, Marked
<1>3. CASE ProcessDispatch(d)
  <2>1. \A x \in Dispatches : Live(x)' => Live(x)
    BY <1>3 DEF StateInv, TypeOK, Live, Open, ProcessDispatch, Locked
  <2> QED
    BY <1>1, <1>2, <2>1, QuietRows
<1>4. CASE ExecuteStep(d)
  <2>1. \A x \in Dispatches : Live(x)' => Live(x)
    BY <1>4 DEF StateInv, TypeOK, Live, Open, ExecuteStep, CancelStep, Marked
  <2> QED
    BY <1>1, <1>2, <2>1, QuietRows
<1>5. CASE EnqueueFails(d)
  <2>1. \A x \in Dispatches : Live(x)' => Live(x)
    BY <1>5 DEF StateInv, TypeOK, Live, Open, EnqueueFails, Marked
  <2> QED
    BY <1>1, <1>2, <2>1, QuietRows
<1> QED
  BY <1>3, <1>4, <1>5

LEMMA JobQuiet ==
    ASSUME StateInv, NEW d \in Dispatches,
           \/ FetchDispatch(d) \/ StartSend(d) \/ SendFlow(d) \/ MarkCompleted(d)
           \/ ReadEnrollment(d) \/ ScheduleNext(d) \/ SendFails(d) \/ WorkerDies(d)
    PROVE  Quiet
<1>1. enrollment' = enrollment /\ Kept /\ (Awaiting' => Awaiting)
  BY DEF Kept, Detour, Awaiting, FetchDispatch, StartSend, CancelStep, SendFlow, MarkCompleted,
     ReadEnrollment, ScheduleNext, SendFails, Throws, WorkerDies, stepVars
<1>2. \A x \in Dispatches : dispatch'[x] # "absent" => dispatch[x] # "absent"
  BY DEF StateInv, TypeOK, FetchDispatch, StartSend, CancelStep, SendFlow, MarkCompleted,
     ReadEnrollment, ScheduleNext, SendFails, Throws, WorkerDies, Marked
<1>3. StartSend(d) => \A x \in Dispatches : Live(x)' => Live(x)
  BY DEF StateInv, TypeOK, Live, Open, StartSend, CancelStep, Marked
<1>4. SendFlow(d) => \A x \in Dispatches : Live(x)' => Live(x)
  BY DEF StateInv, TypeOK, Live, Open, SendFlow
<1>5. MarkCompleted(d) => \A x \in Dispatches : Live(x)' => Live(x)
  BY DEF StateInv, TypeOK, Live, Open, MarkCompleted, Marked
<1>6. ReadEnrollment(d) => \A x \in Dispatches : Live(x)' => Live(x)
  BY DEF StateInv, TypeOK, Live, Open, ReadEnrollment, Throws, EndJob, Marked
<1>7. ScheduleNext(d) => \A x \in Dispatches : Live(x)' => Live(x)
  BY DEF StateInv, TypeOK, Live, Open, ScheduleNext, EndJob
<1>8. SendFails(d) => \A x \in Dispatches : Live(x)' => Live(x)
  BY DEF StateInv, TypeOK, Live, Open, SendFails, Throws, EndJob, Marked
<1>9. WorkerDies(d) => \A x \in Dispatches : Live(x)' => Live(x)
  BY DEF StateInv, TypeOK, Live, Open, WorkerDies
<1>10. FetchDispatch(d) => \A x \in Dispatches : Live(x)' => Live(x)
  BY DEF StateInv, TypeOK, Live, Open, FetchDispatch, EndJob
<1> QED
  BY <1>1, <1>2, <1>3, <1>4, <1>5, <1>6, <1>7, <1>8, <1>9, <1>10, QuietRows

LEMMA UnsubscribeQuiet ==
    ASSUME StateInv, Unsubscribe
    PROVE  Quiet
<1>1. Kept /\ worker' = worker
  BY DEF Kept, Unsubscribe, sendVars
<1>2. \A x \in Dispatches : dispatch'[x] = dispatch[x] \/ dispatch'[x] = "absent"
  BY DEF Unsubscribe
<1>3. \A x \in Dispatches : Live(x)' => Live(x)
  BY <1>1, <1>2 DEF Live, Open
<1>4. /\ enrollment'.id = enrollment.id /\ enrollment'.lastStep = enrollment.lastStep
      /\ enrollment'.status = "none"
  BY DEF StateInv, TypeOK, Unsubscribe
<1> QED
  BY <1>1, <1>2, <1>3, <1>4 DEF Quiet, Ended

LEMMA RecalculateNextRunAtQuiet ==
    ASSUME StateInv, RecalculateNextRunAt
    PROVE  Quiet
<1>1. Kept /\ dispatch' = dispatch /\ worker' = worker
  BY DEF Kept, Detour, RecalculateNextRunAt, sendVars
<1>2. \A x \in Dispatches : Live(x)' => Live(x)
  BY <1>1 DEF Live
<1>3. /\ enrollment'.id = enrollment.id /\ enrollment'.lastStep = enrollment.lastStep
      /\ enrollment'.currentStep = enrollment.currentStep
  BY DEF StateInv, TypeOK, RecalculateNextRunAt
<1>4. ~Awaiting'
  BY DEF StateInv, TypeOK, RecalculateNextRunAt, NoEdit, Awaiting
<1>5. CASE enrollment'.status = "completed" => enrollment.status = "completed"
  BY <1>1, <1>2, <1>3, <1>5, <1>4, UncutBefore DEF Quiet, Ended
<1>6. CASE enrollment'.status = "completed" /\ enrollment.status # "completed"
  <2>1. Detour(enrollment.id, {"cut short"})
    BY <1>6 DEF StateInv, TypeOK, RecalculateNextRunAt
  <2>2. ~Ended'
    BY <1>3, <2>1 DEF Detour, Uncut, HasDetour, Ended
  <2> QED
    BY <1>1, <1>2, <1>3, <2>2 DEF Quiet
<1> QED
  BY <1>5, <1>6

LEMMA EnrollContactPast ==
    ASSUME StateInv, WorkInv, LiveInv, PastInv, EnrollContact
    PROVE  PastInv'
<1> DEFINE d == [enrollment |-> enrollment.id + 1, step |-> 0, runAt |-> delays.version]
<1>1. \A x \in Dispatches : dispatch[x] = "absent"
  BY DEF StateInv, TypeOK, RowsInv, Enrolled, EnrollContact
<1>2. /\ enrollment'.id = enrollment.id + 1 /\ enrollment'.status = "active"
      /\ enrollment'.lastStep = NoStep /\ worker' = worker /\ Kept
  BY DEF EnrollContact, Kept, Detour, sendVars
<1>3. dispatch' = dispatch \/ dispatch' = [dispatch EXCEPT ![d] = "pending"]
  BY DEF EnrollContact
<1>4. \A x \in Dispatches : dispatch'[x] # "absent" => x = d
  BY <1>1, <1>3 DEF StateInv, TypeOK
<1>5. d.enrollment = enrollment.id + 1 /\ d.step = 0
  OBVIOUS
<1>6. enrollment.id \in Nat /\ \A x \in Dispatches : x.enrollment \in Nat
  BY DispatchFacts, ConstantFacts DEF StateInv, TypeOK
<1>7. \A x \in Dispatches : x.enrollment = enrollment.id + 1 => worker'[x] = "idle"
  BY <1>2, <1>6 DEF WorkInv, FutureIdle
<1>8. \A x \in Dispatches : x.enrollment = enrollment.id + 1 /\ Live(x)' => x = d
  BY <1>4, <1>7 DEF Live, Open
<1>9. RowsBehind'
  <2> SUFFICES ASSUME NEW d1 \in Dispatches, NEW d2 \in Dispatches,
                      d1.enrollment = d2.enrollment, Live(d1)', dispatch'[d2] # "absent"
               PROVE  d2.step <= d1.step
    BY DEF RowsBehind
  <2>1. d2 = d
    BY <1>4
  <2>2. d1 = d
    BY <1>5, <1>8, <2>1
  <2> QED
    BY <1>5, <2>1, <2>2
<1>10. LastBehind'
  BY <1>2, <1>5, <1>8 DEF LastBehind, NoStep
<1>11. EndedPast'
  <2>1. Reopening => editor.of \in Nat /\ editor.of # enrollment.id + 1
    BY <1>6, ConstantFacts DEF StateInv, EditInv
  <2>2. editor' = editor
    BY DEF EnrollContact, stepVars
  <2> QED
    BY <1>2, <2>1, <2>2 DEF EndedPast, Ended, Awaiting, Reopening
<1> QED
  BY <1>9, <1>10, <1>11 DEF PastInv

LEMMA CompleteEnrollmentPast ==
    ASSUME StateInv, WorkInv, LiveInv, PastInv, NEW d \in Dispatches, CompleteEnrollment(d)
    PROVE  PastInv'
<1>1. Kept /\ dispatch' = dispatch /\ detours' = detours /\ editor' = editor
  BY DEF Kept, CompleteEnrollment, stepVars
<1>2. \A x \in Dispatches : Live(x)' => Live(x)
  BY DEF StateInv, TypeOK, Live, Open, CompleteEnrollment, EndJob
<1>3. CASE ~Enrolled(d.enrollment)
  <2>1. enrollment' = enrollment
    BY <1>3 DEF CompleteEnrollment
  <2> QED
    BY <1>1, <1>2, <2>1, QuietRows, QuietPast DEF Awaiting
<1>4. CASE Enrolled(d.enrollment)
  <2>1. Live(d) /\ d.enrollment = enrollment.id
    BY <1>4 DEF Live, Enrolled, CompleteEnrollment
  <2>2. ~Live(d)'
    BY DEF StateInv, TypeOK, WorkInv, PhaseInv, Live, Open, CompleteEnrollment, EndJob
  <2>3. /\ enrollment'.currentStep = d.step + 1 /\ enrollment'.lastStep = d.step
        /\ enrollment'.id = enrollment.id
    BY <1>4 DEF StateInv, TypeOK, CompleteEnrollment
  <2>4. \A e : Uncut(e)' => Uncut(e)
    BY <1>1, UncutBefore
  <2>5. RowsBehind'
    BY <1>1, <1>2, <2>4 DEF PastInv, RowsBehind
  <2>6. LastBehind'
    BY <1>2, <2>1, <2>2, <2>3, <2>4 DEF LastBehind, LiveInv, OneLive
  <2>7. EndedPast'
    <3> SUFFICES ASSUME Ended'
                 PROVE  /\ d.step < d.step + 1
                        /\ \A x \in Dispatches :
                              x.enrollment = enrollment.id /\ dispatch[x] # "absent"
                                => x.step < d.step + 1
      BY <1>1, <2>3 DEF EndedPast
    <3>1. Uncut(enrollment.id)
      BY <2>3, <2>4 DEF Ended
    <3>2. \A x \in Dispatches :
              x.enrollment = enrollment.id /\ dispatch[x] # "absent" => x.step <= d.step
      BY <2>1, <3>1 DEF PastInv, RowsBehind
    <3>3. d.step \in Nat /\ \A x \in Dispatches : x.step \in Nat
      BY DispatchFacts, ConstantFacts
    <3> QED
      BY <3>2, <3>3
  <2> QED
    BY <2>5, <2>6, <2>7 DEF PastInv
<1> QED
  BY <1>3, <1>4

LEMMA AdvanceEnrollmentPast ==
    ASSUME StateInv, WorkInv, LiveInv, PastInv, NEW d \in Dispatches, AdvanceEnrollment(d)
    PROVE  PastInv'
<1>1. CASE ~Insertable(Successor(d))
  <2>1. Throws(d, {"step deleted"}) /\ enrollment' = enrollment /\ editor' = editor
    BY <1>1 DEF AdvanceEnrollment, stepVars
  <2>2. Kept /\ \A x \in Dispatches : dispatch'[x] # "absent" => dispatch[x] # "absent"
    BY <2>1 DEF StateInv, TypeOK, Kept, Throws, Detour, Marked
  <2>3. \A x \in Dispatches : Live(x)' => Live(x)
    BY <2>1 DEF StateInv, TypeOK, Live, Open, AdvanceEnrollment, Throws, EndJob, Marked
  <2> QED
    BY <2>1, <2>2, <2>3, QuietRows, QuietPast DEF Awaiting
<1>2. CASE Insertable(Successor(d))
  <2> DEFINE next == Successor(d)
  <2>1. /\ next \in Dispatches /\ next # d
        /\ next.enrollment = d.enrollment /\ next.step = plan[d]
    BY SuccessorFacts DEF AdvanceEnrollment
  <2>2. worker[d] = "planned" /\ Enrolled(d.enrollment) /\ dispatch[next] = "absent"
    BY <1>2, <2>1 DEF AdvanceEnrollment, Insertable
  <2>3. /\ dispatch' = [dispatch EXCEPT ![next] = "pending"]
        /\ worker' = [worker EXCEPT ![d] = "advanced"]
        /\ detours' = detours /\ editor' = editor
    BY <1>2 DEF AdvanceEnrollment, stepVars
  <2>4. /\ enrollment'.id = enrollment.id /\ enrollment'.status = enrollment.status
        /\ enrollment'.lastStep = d.step
    BY <1>2 DEF StateInv, TypeOK, AdvanceEnrollment
  <2>5. Live(d) /\ d.enrollment = enrollment.id /\ dispatch[d] \notin Open
    BY <2>2 DEF Live, Enrolled, WorkInv, PhaseInv
  <2>6. \A x \in Dispatches : Live(x)' => x = next \/ (Live(x) /\ x # d)
    BY <2>1, <2>2, <2>3, <2>5 DEF StateInv, TypeOK, Live, Open
  <2>7. \A e : Uncut(e)' => Uncut(e)
    BY <2>3 DEF Uncut, HasDetour
  <2>8. \A x \in Dispatches :
            x.enrollment = d.enrollment /\ Uncut(d.enrollment) /\ Live(x)' => x = next
    BY <2>5, <2>6 DEF LiveInv, OneLive
  <2>9. /\ plan[d] \in Nat /\ d.step \in Nat /\ d.step < plan[d]
        /\ \A x \in Dispatches : x.step \in Nat
    BY DispatchFacts, ConstantFacts DEF StateInv, TypeOK, PlanInv, AdvanceEnrollment
  <2>10. \A x \in Dispatches : dispatch'[x] # "absent" => x = next \/ dispatch[x] # "absent"
    BY <2>1, <2>3 DEF StateInv, TypeOK
  <2>11. RowsBehind'
    <3> SUFFICES ASSUME NEW d1 \in Dispatches, NEW d2 \in Dispatches,
                        d1.enrollment = d2.enrollment, Uncut(d1.enrollment)', Live(d1)',
                        dispatch'[d2] # "absent"
                 PROVE  d2.step <= d1.step
      BY DEF RowsBehind
    <3>1. CASE d1.enrollment = d.enrollment
      <4>1. d1 = next /\ Uncut(d.enrollment)
        BY <2>7, <2>8, <3>1
      <4>2. dispatch[d2] # "absent" => d2.step <= d.step
        BY <2>5, <3>1, <4>1 DEF PastInv, RowsBehind
      <4> QED
        BY <2>1, <2>9, <2>10, <4>1, <4>2
    <3>2. CASE d1.enrollment # d.enrollment
      BY <2>1, <2>6, <2>7, <2>10, <3>2 DEF PastInv, RowsBehind
    <3> QED
      BY <3>1, <3>2
  <2>12. LastBehind'
    BY <2>1, <2>4, <2>5, <2>7, <2>8, <2>9 DEF LastBehind
  <2>13. ~Ended'
    BY <2>3, <2>4, <2>5, <2>7 DEF LiveInv, NoneLive, Ended, Awaiting
  <2> QED
    BY <2>11, <2>12, <2>13 DEF PastInv, EndedPast
<1> QED
  BY <1>1, <1>2

\* The edit looks for an enrollment to reopen, reopens it, or gives up.
LEMMA EditorQuiet ==
    ASSUME StateInv, ReactivateCompleted \/ ReopenEnrollment \/ EditFails
    PROVE  Quiet
<1>1. UNCHANGED <<dispatch, worker>> /\ Kept
  BY DEF ReactivateCompleted, ReopenEnrollment, EditFails, Kept, Detour, sendVars
<1>2. /\ enrollment'.id = enrollment.id /\ enrollment'.lastStep = enrollment.lastStep
      /\ enrollment'.currentStep = enrollment.currentStep
  BY DEF StateInv, TypeOK, ReactivateCompleted, ReopenEnrollment, EditFails
<1>3. Awaiting' /\ enrollment'.status # "none" => enrollment.status = "completed"
  <2>1. ReactivateCompleted \/ EditFails => ~Awaiting'
    <3>1. editor \in [phase : EditPhases, step : Steps, kind : {"create", "update", "delete"},
                      of : 0..MaxEnrollments, next : Steps \cup {NoStep}]
      BY DEF StateInv, TypeOK
    <3>2. CASE editor' = NoEdit
      BY <3>2 DEF Awaiting, NoEdit
    <3>3. CASE editor' = [editor EXCEPT !.phase = "reopen", !.of = enrollment.id,
                                        !.next = NextActiveStep(enrollment.currentStep)]
      BY <3>1, <3>3 DEF Awaiting
    <3>4. (ReactivateCompleted \/ EditFails) =>
            \/ editor' = NoEdit
            \/ editor' = [editor EXCEPT !.phase = "reopen", !.of = enrollment.id,
                                        !.next = NextActiveStep(enrollment.currentStep)]
      BY ZenonT(20) DEF ReactivateCompleted, EditFails
    <3> QED
      BY <3>2, <3>3, <3>4
  <2>2. CASE ReopenEnrollment /\ Awaiting' /\ enrollment'.status # "none"
    <3>1. editor'.of = enrollment'.id /\ editor' # NoEdit
      BY <2>2 DEF Awaiting, NoEdit
    <3>2. editor' = [editor EXCEPT !.phase = "dispatch"]
      BY <2>2, <3>1 DEF ReopenEnrollment
    <3>3. editor.of = enrollment.id
      BY <1>2, <3>1, <3>2 DEF StateInv, TypeOK
    <3>4. enrollment.status # "none"
      BY <2>2 DEF StateInv, TypeOK, ReopenEnrollment, Enrolled
    <3> QED
      BY <2>2, <3>3, <3>4 DEF StateInv, EditInv, Reopening, Enrolled, ReopenEnrollment
  <2> QED
    BY <2>1, <2>2
<1>4. enrollment'.status = "completed" => enrollment.status = "completed"
  <2>1. \/ enrollment' = enrollment
        \/ enrollment' = [enrollment EXCEPT !.status = "active", !.nextStep = editor.next]
    BY DEF ReactivateCompleted, ReopenEnrollment, EditFails
  <2> QED
    BY <2>1 DEF StateInv, TypeOK
<1>5. Ended' => Ended
  BY <1>1, <1>2, <1>3, <1>4, UncutBefore DEF Ended
<1> QED
  BY <1>1, <1>2, <1>5 DEF Quiet, Live

LEMMA DispatchReopenedPast ==
    ASSUME StateInv, WorkInv, LiveInv, PastInv, DispatchReopened
    PROVE  PastInv'
<1>1. UNCHANGED <<enrollment, worker, detours>> /\ editor' = NoEdit
  BY DEF DispatchReopened, sendVars
<1>2. ~Awaiting' /\ Kept
  BY <1>1 DEF Awaiting, NoEdit, Kept
<1>3. CASE dispatch' = dispatch
  BY <1>1, <1>2, <1>3, QuietRows, QuietPast DEF Live
<1>4. CASE dispatch' # dispatch
  <2> DEFINE d == Resumption
  <2>1. /\ editor.phase = "dispatch" /\ d \in Dispatches /\ d.enrollment = editor.of
        /\ d.step = editor.next /\ editor.next \in Nat
    BY ResumptionFacts DEF DispatchReopened
  <2>2. Enrolled(editor.of) /\ dispatch' = [dispatch EXCEPT ![d] = "pending"]
    BY <1>4, <2>1 DEF DispatchReopened, Resumption, Insertable
  <2>3. editor.of = enrollment.id
    BY <2>2 DEF Enrolled
  <2>4. \A e : Uncut(e)' => Uncut(e)
    BY <1>2, UncutBefore
  <2>5. \A x \in Dispatches : x # d => dispatch'[x] = dispatch[x] /\ (Live(x)' => Live(x))
    BY <1>1, <2>1, <2>2 DEF StateInv, TypeOK, Live
  <2>6. Uncut(enrollment.id) =>
          /\ Ended /\ enrollment.status = "active" /\ enrollment.currentStep <= editor.next
          /\ \A x \in Dispatches : x.enrollment = enrollment.id => ~Live(x)
    BY <2>1, <2>2, <2>3, ReopenedFacts
  <2>7. Uncut(enrollment.id) =>
          /\ enrollment.lastStep < enrollment.currentStep
          /\ \A x \in Dispatches : x.enrollment = enrollment.id /\ dispatch[x] # "absent"
                => x.step < enrollment.currentStep
    BY <2>6 DEF PastInv, EndedPast
  <2>8. /\ enrollment.currentStep \in Int /\ enrollment.lastStep \in Int
        /\ \A x \in Dispatches : x.step \in Nat
    BY DispatchFacts, ConstantFacts DEF StateInv, TypeOK
  <2>9. RowsBehind'
    <3> SUFFICES ASSUME NEW d1 \in Dispatches, NEW d2 \in Dispatches,
                        d1.enrollment = d2.enrollment, Uncut(d1.enrollment)', Live(d1)',
                        dispatch'[d2] # "absent"
                 PROVE  d2.step <= d1.step
      BY DEF RowsBehind
    <3>1. CASE d1.enrollment = enrollment.id
      <4>1. d1 = d /\ Uncut(enrollment.id)
        BY <2>4, <2>5, <2>6, <3>1
      <4>2. d2 # d => dispatch[d2] # "absent"
        BY <2>5
      <4>3. d2 # d => d2.step < enrollment.currentStep
        BY <2>7, <3>1, <4>1, <4>2
      <4> QED
        BY <2>1, <2>6, <2>8, <4>1, <4>3
    <3>2. CASE d1.enrollment # enrollment.id
      BY <2>1, <2>3, <2>4, <2>5, <3>2 DEF PastInv, RowsBehind
    <3> QED
      BY <3>1, <3>2
  <2>10. LastBehind'
    <3> SUFFICES ASSUME NEW x \in Dispatches, x.enrollment = enrollment.id,
                        Uncut(x.enrollment)', Live(x)'
                 PROVE  enrollment.lastStep < x.step
      BY <1>1 DEF LastBehind
    <3>1. x = d /\ Uncut(enrollment.id)
      BY <2>4, <2>5, <2>6
    <3> QED
      BY <2>1, <2>6, <2>7, <2>8, <3>1
  <2>11. ~Ended'
    BY <1>1, <1>2, <2>4, <2>6 DEF Ended
  <2> QED
    BY <2>9, <2>10, <2>11 DEF PastInv, EndedPast
<1> QED
  BY <1>3, <1>4

LEMMA InitPast == Init => PastInv
BY DEF Init, PastInv, RowsBehind, LastBehind, EndedPast, Ended, Live, Open, NoEdit

LEMMA StutterPast ==
    ASSUME PastInv, UNCHANGED vars
    PROVE  PastInv'
<1>1. UNCHANGED <<enrollment, editor, dispatch, worker, detours>>
  BY DEF vars, stepVars, sendVars
<1>2. Quiet
  BY <1>1, QuietRows DEF Kept, Live, Awaiting
<1> QED
  BY <1>2, QuietPast

LEMMA NextPast ==
    ASSUME StateInv, WorkInv, LiveInv, PastInv, Next
    PROVE  PastInv'
<1>1. CASE \/ Reconcile \/ CleanupOrphans
           \/ \E d \in Dispatches : ProcessBucket(d) \/ PublishFails(d) \/ DropDispatch(d)
  BY <1>1, SchedulerQuiet, QuietPast
<1>2. CASE \/ EnrollContact \/ Unsubscribe \/ RecalculateNextRunAt \/ ReactivateCompleted
           \/ ReopenEnrollment \/ DispatchReopened \/ EditFails
  BY <1>2, EnrollContactPast, UnsubscribeQuiet, RecalculateNextRunAtQuiet, EditorQuiet,
     DispatchReopenedPast, QuietPast
<1>3. CASE \E d \in Dispatches : ProcessDispatch(d) \/ ExecuteStep(d) \/ EnqueueFails(d)
  BY <1>3, ConsumerQuiet, QuietPast
<1>4. CASE \E d \in Dispatches :
             \/ FetchDispatch(d) \/ StartSend(d) \/ SendFlow(d) \/ MarkCompleted(d)
             \/ ReadEnrollment(d) \/ ScheduleNext(d) \/ SendFails(d) \/ WorkerDies(d)
  BY <1>4, JobQuiet, QuietPast
<1>5. CASE \E d \in Dispatches : CompleteEnrollment(d) \/ AdvanceEnrollment(d)
  BY <1>5, CompleteEnrollmentPast, AdvanceEnrollmentPast
<1>6. CASE \E s \in Steps : CreateStep(s) \/ UpdateStep(s) \/ DeleteStep(s) \/ DeleteFlow(s)
  BY <1>6, EditQuiet, QuietPast
<1> QED
  BY <1>1, <1>2, <1>3, <1>4, <1>5, <1>6, Actions

LEMMA PastCorrect == Spec => []PastInv
<1>1. Init => PastInv
  BY InitPast
<1>2. StateInv /\ WorkInv /\ LiveInv /\ PastInv /\ [Next]_vars => PastInv'
  BY NextPast, StutterPast
<1> QED
  BY <1>1, <1>2, StateCorrect, LiveCorrect, PTL DEF Spec

-----------------------------------------------------------------------------
(* What drives an active enrollment *)

Unstranded(e) == ~HasDetour(e, Strands)

Underway == enrollment.status = "active" /\ Unstranded(enrollment.id)

\* A dispatch that is open, or a worker about to advance the enrollment.
Drives(d) ==
    /\ d.enrollment = enrollment.id
    /\ dispatch[d] \in Open \/ worker[d] \in {"settled", "planned"}

\* Or an edit about to create its dispatch.
DrivenInv == Underway => Awaiting \/ \E d \in Dispatches : Drives(d)

\* What drives the enrollment goes on driving it, or the step strands it.
StillDriven ==
    Underway' => /\ Underway
                 /\ Awaiting => Awaiting'
                 /\ \A x \in Dispatches : Drives(x) => Drives(x)'

LEMMA StillDrivenKeeps ==
    ASSUME DrivenInv, StillDriven
    PROVE  DrivenInv'
BY DEF DrivenInv, StillDriven

LEMMA UnderwayBefore ==
    ASSUME Kept, enrollment' = enrollment, Underway'
    PROVE  Underway
BY DEF Kept, Underway, Unstranded, HasDetour

LEMMA UnderwayUncut ==
    ASSUME Underway
    PROVE  Uncut(enrollment.id)
BY DEF Underway, Unstranded, Uncut, HasDetour, Strands

\* A strand met by the present enrollment shows.
LEMMA StrandShows ==
    ASSUME NEW R, Detour(enrollment.id, R), R \cap Strands # {},
           enrollment'.id = enrollment.id
    PROVE  ~Underway'
BY DEF Detour, Underway, Unstranded, HasDetour

\* Steps that touch d alone.
LEMMA OneTouched ==
    ASSUME NEW d \in Dispatches, Kept, enrollment' = enrollment, editor' = editor,
           \A x \in Dispatches : x # d => dispatch'[x] = dispatch[x] /\ worker'[x] = worker[x],
           Underway' /\ Underway /\ Drives(d) => Drives(d)'
    PROVE  StillDriven
<1>1. (Underway' => Underway) /\ (Awaiting => Awaiting')
  BY UnderwayBefore DEF Awaiting
<1>2. \A x \in Dispatches : x # d => (Drives(x) => Drives(x)')
  BY DEF Drives
<1> QED
  BY <1>1, <1>2 DEF StillDriven

LEMMA EnrollContactDriven ==
    ASSUME StateInv, EnrollContact
    PROVE  DrivenInv'
<1> DEFINE d == [enrollment |-> enrollment.id + 1, step |-> 0, runAt |-> delays.version]
<1>1. enrollment'.id = enrollment.id + 1
  BY DEF EnrollContact
<1>2. CASE \/ Detour(enrollment.id + 1, {"no dispatch"})
           \/ Detour(enrollment.id + 1, {"no first step"})
  BY <1>1, <1>2 DEF Detour, DrivenInv, Underway, Unstranded, HasDetour, Strands
<1>3. CASE dispatch' = [dispatch EXCEPT ![d] = "pending"]
  <2>1. d \in Dispatches
    BY NextEnrollment, StampedFacts, ConstantFacts
  <2>2. PICK x \in Dispatches : dispatch'[x] = "pending" /\ x.enrollment = enrollment.id + 1
    BY <1>3, <2>1 DEF StateInv, TypeOK
  <2>3. Drives(x)'
    BY <1>1, <2>2 DEF Drives, Open
  <2> QED
    BY <2>3 DEF DrivenInv
<1> QED
  BY <1>2, <1>3 DEF EnrollContact

LEMMA UnsubscribeDriven ==
    ASSUME StateInv, Unsubscribe
    PROVE  StillDriven
BY DEF StateInv, TypeOK, Unsubscribe, StillDriven, Underway

LEMMA SchedulerDriven ==
    ASSUME StateInv,
           \/ Reconcile \/ CleanupOrphans
           \/ \E d \in Dispatches : ProcessBucket(d) \/ PublishFails(d) \/ DropDispatch(d)
    PROVE  StillDriven
<1>1. UNCHANGED <<enrollment, editor, dispatch, worker, detours>>
  BY DEF Reconcile, CleanupOrphans, ProcessBucket, PublishFails, DropDispatch, stepVars,
     sendVars
<1> QED
  BY <1>1 DEF StillDriven, Underway, Unstranded, HasDetour, Awaiting, Drives

LEMMA ProcessDispatchDriven ==
    ASSUME StateInv, WorkInv, NEW d \in Dispatches, ProcessDispatch(d)
    PROVE  StillDriven
<1>1. Kept /\ enrollment' = enrollment /\ editor' = editor
  BY DEF Kept, ProcessDispatch, stepVars
<1>2. \A x \in Dispatches : x # d => dispatch'[x] = dispatch[x] /\ worker'[x] = worker[x]
  BY DEF StateInv, TypeOK, ProcessDispatch, Locked
<1>3. Drives(d) => Drives(d)'
  BY <1>1 DEF StateInv, TypeOK, Drives, Open, ProcessDispatch, Locked
<1> QED
  BY <1>1, <1>2, <1>3, OneTouched

\* An invalid step is canceled and advanced past, unless it is gone.
LEMMA CancelStepDriven ==
    ASSUME StateInv, WorkInv, NEW d \in Dispatches, CancelStep(d), enrollment' = enrollment,
           Underway', Drives(d)
    PROVE  Drives(d)'
<1>1. CASE steps[d.step] = "gone"
  <2>1. Detour(d.enrollment, {"step deleted"})
    BY <1>1 DEF CancelStep
  <2>2. ~Underway'
    BY <2>1, StrandShows DEF Strands, Drives
  <2> QED
    BY <2>2
<1>2. CASE steps[d.step] # "gone"
  <2>1. worker'[d] = "settled"
    BY <1>2 DEF StateInv, TypeOK, CancelStep
  <2> QED
    BY <2>1 DEF Drives
<1> QED
  BY <1>1, <1>2

LEMMA ExecuteStepDriven ==
    ASSUME StateInv, WorkInv, NEW d \in Dispatches, ExecuteStep(d)
    PROVE  StillDriven
<1>1. Kept /\ enrollment' = enrollment /\ editor' = editor
  BY DEF Kept, Detour, ExecuteStep, CancelStep, stepVars
<1>2. \A x \in Dispatches : x # d => dispatch'[x] = dispatch[x] /\ worker'[x] = worker[x]
  BY DEF StateInv, TypeOK, ExecuteStep, CancelStep, Marked
<1>3. CASE steps[d.step] # "ready"
  <2>1. CancelStep(d)
    BY <1>3 DEF ExecuteStep
  <2> QED
    BY <1>1, <1>2, <2>1, CancelStepDriven, OneTouched
<1>4. CASE steps[d.step] = "ready"
  <2>1. Drives(d) => Drives(d)'
    BY <1>1, <1>4 DEF Drives, ExecuteStep
  <2> QED
    BY <1>1, <1>2, <2>1, OneTouched
<1> QED
  BY <1>3, <1>4

LEMMA EnqueueFailsDriven ==
    ASSUME StateInv, WorkInv, NEW d \in Dispatches, EnqueueFails(d)
    PROVE  StillDriven
<1>1. Kept /\ enrollment' = enrollment /\ editor' = editor
  BY DEF Kept, EnqueueFails, stepVars
<1>2. \A x \in Dispatches : x # d => dispatch'[x] = dispatch[x] /\ worker'[x] = worker[x]
  BY DEF StateInv, TypeOK, EnqueueFails, Marked
<1>3. Drives(d) => Drives(d)'
  BY <1>1 DEF StateInv, TypeOK, Drives, Open, EnqueueFails, Marked
<1> QED
  BY <1>1, <1>2, <1>3, OneTouched

LEMMA FetchDispatchDriven ==
    ASSUME StateInv, WorkInv, NEW d \in Dispatches, FetchDispatch(d)
    PROVE  StillDriven
<1>1. Kept /\ enrollment' = enrollment /\ editor' = editor
  BY DEF Kept, FetchDispatch, stepVars
<1>2. \A x \in Dispatches : x # d => dispatch'[x] = dispatch[x] /\ worker'[x] = worker[x]
  BY DEF StateInv, TypeOK, FetchDispatch, EndJob
<1>3. Drives(d) => Drives(d)'
  BY <1>1 DEF Drives, FetchDispatch
<1> QED
  BY <1>1, <1>2, <1>3, OneTouched

LEMMA StartSendDriven ==
    ASSUME StateInv, WorkInv, NEW d \in Dispatches, StartSend(d)
    PROVE  StillDriven
<1>1. Kept /\ enrollment' = enrollment /\ editor' = editor
  BY DEF Kept, Detour, StartSend, CancelStep, stepVars
<1>2. \A x \in Dispatches : x # d => dispatch'[x] = dispatch[x] /\ worker'[x] = worker[x]
  BY DEF StateInv, TypeOK, StartSend, CancelStep, Marked
<1>3. CASE steps[d.step] = "ready"
  <2>1. Drives(d) => Drives(d)'
    BY <1>1, <1>3 DEF Drives, StartSend
  <2> QED
    BY <1>1, <1>2, <2>1, OneTouched
<1>4. CASE steps[d.step] # "ready"
  <2>1. CancelStep(d)
    BY <1>4 DEF StartSend
  <2> QED
    BY <1>1, <1>2, <2>1, CancelStepDriven, OneTouched
<1> QED
  BY <1>3, <1>4

LEMMA SendFlowDriven ==
    ASSUME StateInv, NEW d \in Dispatches, SendFlow(d) \/ MarkCompleted(d)
    PROVE  StillDriven
<1>1. Kept /\ enrollment' = enrollment /\ editor' = editor
  BY DEF Kept, Detour, SendFlow, MarkCompleted, stepVars
<1>2. \A x \in Dispatches : x # d => dispatch'[x] = dispatch[x] /\ worker'[x] = worker[x]
  BY DEF StateInv, TypeOK, SendFlow, MarkCompleted, Marked
<1>3. Drives(d) => Drives(d)'
  BY <1>1 DEF StateInv, TypeOK, Drives, SendFlow, MarkCompleted
<1> QED
  BY <1>1, <1>2, <1>3, OneTouched

\* A worker about to advance the enrollment it belongs to never finds that it
\* was advanced already.
LEMMA ReadEnrollmentDriven ==
    ASSUME StateInv, WorkInv, PastInv, NEW d \in Dispatches, ReadEnrollment(d)
    PROVE  StillDriven
<1>1. Kept /\ enrollment' = enrollment /\ editor' = editor
  BY DEF Kept, ReadEnrollment, Throws, Detour, stepVars
<1>2. \A x \in Dispatches : x # d => dispatch'[x] = dispatch[x] /\ worker'[x] = worker[x]
  BY DEF StateInv, TypeOK, ReadEnrollment, Throws, EndJob, Marked
<1>3. ASSUME Underway, Drives(d)
      PROVE  Drives(d)'
  <2>1. Enrolled(d.enrollment) /\ enrollment.status = "active" /\ worker[d] = "settled"
    BY <1>3 DEF Underway, Drives, Enrolled, ReadEnrollment
  <2>2. enrollment.lastStep < d.step
    BY <1>3, <2>1, UnderwayUncut DEF PastInv, LastBehind, Live, Drives
  <2>3. enrollment.lastStep # d.step
    BY <2>2, DispatchFacts, ConstantFacts
  <2>4. worker'[d] = "planned"
    BY <2>1, <2>3 DEF StateInv, TypeOK, ReadEnrollment
  <2> QED
    BY <1>1, <1>3, <2>4 DEF Drives
<1> QED
  BY <1>1, <1>2, <1>3, OneTouched

LEMMA CompleteEnrollmentDriven ==
    ASSUME StateInv, WorkInv, NEW d \in Dispatches, CompleteEnrollment(d)
    PROVE  StillDriven
<1>1. Kept /\ dispatch' = dispatch /\ editor' = editor
  BY DEF Kept, CompleteEnrollment, stepVars
<1>2. \A x \in Dispatches : x # d => dispatch'[x] = dispatch[x] /\ worker'[x] = worker[x]
  BY DEF StateInv, TypeOK, CompleteEnrollment, EndJob
<1>3. CASE Enrolled(d.enrollment)
  <2>1. enrollment'.status = "completed"
    BY <1>3 DEF StateInv, TypeOK, CompleteEnrollment
  <2> QED
    BY <2>1 DEF StillDriven, Underway
<1>4. CASE ~Enrolled(d.enrollment)
  <2>1. enrollment' = enrollment
    BY <1>4 DEF CompleteEnrollment
  <2>2. Underway => ~Drives(d)
    BY <1>4 DEF Underway, Drives, Enrolled
  <2> QED
    BY <1>1, <1>2, <2>1, <2>2, OneTouched
<1> QED
  BY <1>3, <1>4

LEMMA AdvanceEnrollmentDriven ==
    ASSUME StateInv, WorkInv, DrivenInv, NEW d \in Dispatches, AdvanceEnrollment(d)
    PROVE  DrivenInv'
<1>1. CASE ~Insertable(Successor(d))
  <2>1. Throws(d, {"step deleted"}) /\ enrollment' = enrollment /\ editor' = editor
    BY <1>1 DEF AdvanceEnrollment, stepVars
  <2>2. Kept
    BY <2>1 DEF Kept, Throws, Detour
  <2>3. \A x \in Dispatches : x # d => dispatch'[x] = dispatch[x] /\ worker'[x] = worker[x]
    BY <2>1 DEF StateInv, TypeOK, Throws, EndJob, Marked
  <2>4. PICK R : Detour(d.enrollment, R) /\ "step deleted" \in R
    BY <2>1 DEF Throws
  <2>5. Drives(d) => ~Underway'
    BY <2>1, <2>4, StrandShows DEF Drives, Strands
  <2> QED
    BY <2>1, <2>2, <2>3, <2>5, OneTouched, StillDrivenKeeps
<1>2. CASE Insertable(Successor(d))
  <2>1. Successor(d) \in Dispatches /\ Successor(d).enrollment = d.enrollment
    BY SuccessorFacts DEF AdvanceEnrollment
  <2>2. d.enrollment = enrollment.id /\ enrollment'.id = enrollment.id
    BY <1>2, <2>1 DEF StateInv, TypeOK, AdvanceEnrollment, Insertable, Enrolled
  <2>3. PICK x \in Dispatches : x.enrollment = d.enrollment /\ dispatch'[x] = "pending"
    BY <1>2, <2>1 DEF StateInv, TypeOK, AdvanceEnrollment
  <2>4. Drives(x)'
    BY <2>2, <2>3 DEF Drives, Open
  <2> QED
    BY <2>4 DEF DrivenInv
<1> QED
  BY <1>1, <1>2

LEMMA ScheduleNextDriven ==
    ASSUME StateInv, WorkInv, NEW d \in Dispatches, ScheduleNext(d)
    PROVE  StillDriven
<1>1. Kept /\ enrollment' = enrollment /\ editor' = editor
  BY DEF Kept, ScheduleNext, stepVars
<1>2. \A x \in Dispatches : x # d => dispatch'[x] = dispatch[x] /\ worker'[x] = worker[x]
  BY DEF StateInv, TypeOK, ScheduleNext, EndJob
<1>3. ~Drives(d)
  BY DEF Drives, ScheduleNext, WorkInv, PhaseInv
<1> QED
  BY <1>1, <1>2, <1>3, OneTouched

LEMMA SendFailsDriven ==
    ASSUME StateInv, WorkInv, NEW d \in Dispatches, SendFails(d)
    PROVE  StillDriven
<1>1. Kept /\ enrollment' = enrollment /\ editor' = editor
  BY DEF Kept, SendFails, Throws, Detour, stepVars
<1>2. \A x \in Dispatches : x # d => dispatch'[x] = dispatch[x] /\ worker'[x] = worker[x]
  BY DEF StateInv, TypeOK, SendFails, Throws, EndJob, Marked
<1>3. ASSUME Underway', Drives(d)
      PROVE  Drives(d)'
  <2>1. PICK R : Detour(d.enrollment, R) /\ Cost(worker[d]) \subseteq R
    BY DEF SendFails, Throws
  <2>2. worker[d] \notin {"settled", "planned"}
    <3>1. worker[d] \in {"settled", "planned"} => worker[d] \in R \cap Strands
      BY <2>1 DEF Cost, Strands
    <3> QED
      BY <1>1, <1>3, <2>1, <3>1, StrandShows DEF Drives
  <2>3. dispatch[d] = "running"
    BY <1>3, <2>2 DEF Drives, Open, SendFails, WorkInv, PhaseInv
  <2>4. CASE attempts[d] = SendAttempts /\ Detour(d.enrollment, Cost(worker[d]) \cup {"failed"})
    BY <1>1, <1>3, <2>4, StrandShows DEF Drives, Strands
  <2>5. CASE dispatch' = dispatch
    BY <1>1, <1>3, <2>3, <2>5 DEF Drives, Open
  <2>6. CASE dispatch' = Marked(d, "pending")
    <3>1. dispatch'[d] = "pending"
      BY <2>3, <2>6 DEF StateInv, TypeOK, Marked
    <3> QED
      BY <1>1, <1>3, <3>1 DEF Drives, Open
  <2> QED
    BY <2>4, <2>5, <2>6 DEF SendFails, Throws
<1> QED
  BY <1>1, <1>2, <1>3, OneTouched

LEMMA WorkerDiesDriven ==
    ASSUME StateInv, WorkInv, NEW d \in Dispatches, WorkerDies(d)
    PROVE  StillDriven
<1>1. Kept /\ enrollment' = enrollment /\ editor' = editor /\ dispatch' = dispatch
  BY DEF Kept, WorkerDies, Detour, stepVars
<1>2. \A x \in Dispatches : x # d => dispatch'[x] = dispatch[x] /\ worker'[x] = worker[x]
  BY DEF StateInv, TypeOK, WorkerDies
<1>3. ASSUME Underway', Drives(d)
      PROVE  Drives(d)'
  <2>1. worker[d] \notin {"settled", "planned"}
    <3>1. worker[d] \in {"settled", "planned"} =>
            Detour(d.enrollment, Cost(worker[d])) /\ worker[d] \in Cost(worker[d]) \cap Strands
      BY DEF WorkerDies, Cost, Strands
    <3> QED
      BY <1>1, <1>3, <3>1, StrandShows DEF Drives
  <2> QED
    BY <1>1, <1>3, <2>1 DEF Drives
<1> QED
  BY <1>1, <1>2, <1>3, OneTouched

LEMMA EditDriven ==
    ASSUME StateInv, NEW s \in Steps,
           CreateStep(s) \/ UpdateStep(s) \/ DeleteStep(s) \/ DeleteFlow(s)
    PROVE  StillDriven
<1>1. enrollment' = enrollment /\ worker' = worker /\ Kept
  BY DEF Kept, Detour, CreateStep, UpdateStep, DeleteStep, DeleteFlow, StartsEdit, sendVars
<1>2. (Underway' => Underway) /\ (Awaiting => Awaiting')
  BY <1>1, UnderwayBefore
     DEF Awaiting, CreateStep, UpdateStep, DeleteStep, DeleteFlow, StartsEdit
<1>3. CASE dispatch' = dispatch
  BY <1>1, <1>2, <1>3 DEF StillDriven, Drives
<1>4. CASE DeleteStep(s)
  <2> SUFFICES ASSUME Underway', NEW x \in Dispatches, Drives(x)
               PROVE  Drives(x)'
    BY <1>2 DEF StillDriven
  <2>1. CASE dispatch[x] \in Open /\ x.step = s
    <3>1. Detour(enrollment.id, {"step deleted"})
      BY <1>4, <2>1 DEF DeleteStep
    <3> QED
      BY <1>1, <3>1, StrandShows DEF Strands, Drives
  <2>2. CASE dispatch[x] \notin Open
    BY <1>1, <2>2 DEF Drives
  <2>3. CASE x.step # s
    <3>1. dispatch'[x] = dispatch[x]
      BY <1>4, <2>3 DEF DeleteStep
    <3> QED
      BY <1>1, <3>1 DEF Drives
  <2> QED
    BY <2>1, <2>2, <2>3
<1> QED
  BY <1>3, <1>4 DEF CreateStep, UpdateStep, DeleteFlow

LEMMA RecalculateNextRunAtDriven ==
    ASSUME StateInv, RecalculateNextRunAt
    PROVE  StillDriven
<1>1. Kept /\ dispatch' = dispatch /\ worker' = worker
  BY DEF Kept, Detour, RecalculateNextRunAt, sendVars
<1>2. /\ enrollment'.id = enrollment.id
      /\ enrollment'.status = "active" => enrollment.status = "active"
  BY DEF StateInv, TypeOK, RecalculateNextRunAt
<1>3. Underway' => Underway
  BY <1>1, <1>2 DEF Kept, Underway, Unstranded, HasDetour
<1>4. ~Awaiting
  BY DEF Awaiting, RecalculateNextRunAt
<1> QED
  BY <1>1, <1>2, <1>3, <1>4 DEF StillDriven, Drives

LEMMA ReactivateCompletedDriven ==
    ASSUME StateInv, ReactivateCompleted
    PROVE  StillDriven
<1>1. UNCHANGED <<enrollment, dispatch, worker, detours>> /\ ~Awaiting
  BY DEF ReactivateCompleted, Awaiting, sendVars
<1> QED
  BY <1>1 DEF StillDriven, Underway, Unstranded, HasDetour, Drives

\* What is reopened waits for its dispatch, unless its delays come to none.
LEMMA ReopenEnrollmentDriven ==
    ASSUME StateInv, DrivenInv, ReopenEnrollment
    PROVE  DrivenInv'
<1>1. Kept /\ UNCHANGED <<dispatch, worker>> /\ ~Awaiting /\ enrollment'.id = enrollment.id
  BY DEF StateInv, TypeOK, Kept, Detour, ReopenEnrollment, Awaiting, sendVars
<1>2. CASE Enrolled(editor.of) /\ delays.none
  <2>1. Detour(enrollment.id, {"no delay"})
    BY <1>2 DEF ReopenEnrollment, Enrolled
  <2> QED
    BY <1>1, <2>1, StrandShows DEF Strands, DrivenInv
<1>3. CASE Enrolled(editor.of) /\ ~delays.none
  <2>1. editor' = [editor EXCEPT !.phase = "dispatch"] /\ editor.of = enrollment.id
    BY <1>3 DEF ReopenEnrollment, Enrolled
  <2>2. Awaiting'
    BY <1>1, <2>1 DEF StateInv, TypeOK, Awaiting
  <2> QED
    BY <2>2 DEF DrivenInv
<1>4. CASE ~Enrolled(editor.of)
  <2>1. enrollment' = enrollment
    BY <1>4 DEF ReopenEnrollment
  <2>2. Underway' => Underway
    BY <1>1, <2>1, UnderwayBefore
  <2> QED
    BY <1>1, <2>1, <2>2 DEF DrivenInv, Drives
<1> QED
  BY <1>2, <1>3, <1>4

\* The row a reopened enrollment goes on with is free.
LEMMA DispatchReopenedDriven ==
    ASSUME StateInv, LiveInv, PastInv, DrivenInv, DispatchReopened
    PROVE  DrivenInv'
<1>1. UNCHANGED <<enrollment, worker, detours>>
  BY DEF DispatchReopened, sendVars
<1>2. Underway' => Underway
  BY <1>1 DEF Underway, Unstranded, HasDetour
<1>3. /\ editor.phase = "dispatch" /\ Resumption \in Dispatches
      /\ Resumption.enrollment = editor.of /\ Resumption.step = editor.next
      /\ editor.next \in Nat /\ Exists(editor.next)
  BY ResumptionFacts DEF DispatchReopened
<1>4. CASE Insertable(Resumption)
  <2>1. dispatch' = [dispatch EXCEPT ![Resumption] = "pending"]
    BY <1>4 DEF DispatchReopened, Resumption
  <2>2. dispatch'[Resumption] = "pending" /\ Resumption.enrollment = enrollment.id
    BY <1>3, <1>4, <2>1 DEF StateInv, TypeOK, Insertable, Enrolled
  <2>3. \E x \in Dispatches : Drives(x)'
    BY <1>1, <1>3, <2>2 DEF Drives, Open
  <2> QED
    BY <2>3 DEF DrivenInv
<1>5. CASE ~Insertable(Resumption)
  <2>1. dispatch' = dispatch
    BY <1>5 DEF DispatchReopened, Resumption
  <2>2. Underway => ~Awaiting
    <3> SUFFICES ASSUME Underway, Awaiting PROVE FALSE
      OBVIOUS
    <3>1. Enrolled(editor.of) /\ Uncut(editor.of)
      BY UnderwayUncut DEF Underway, Awaiting, Enrolled
    <3>2. dispatch[Resumption] # "absent"
      BY <1>3, <1>5, <3>1 DEF Insertable
    <3>3. Ended /\ editor.of = enrollment.id /\ enrollment.currentStep <= editor.next
      BY <1>3, <3>1, ReopenedFacts
    <3>4. editor.next < enrollment.currentStep
      BY <1>3, <3>2, <3>3 DEF PastInv, EndedPast
    <3> QED
      BY <1>3, <3>3, <3>4, ConstantFacts DEF StateInv, TypeOK
  <2> QED
    BY <1>1, <1>2, <2>1, <2>2 DEF DrivenInv, Drives
<1> QED
  BY <1>4, <1>5

LEMMA EditFailsDriven ==
    ASSUME StateInv, DrivenInv, EditFails
    PROVE  DrivenInv'
<1>1. Kept /\ UNCHANGED <<enrollment, dispatch, worker>>
  BY DEF EditFails, Kept, Detour, sendVars
<1>2. CASE Awaiting
  <2>1. Detour(enrollment.id, {"no dispatch"})
    BY <1>2 DEF Awaiting, EditFails
  <2> QED
    BY <1>1, <2>1, StrandShows DEF Strands, DrivenInv
<1>3. CASE ~Awaiting
  <2>1. Underway' => Underway
    BY <1>1, UnderwayBefore
  <2> QED
    BY <1>1, <1>3, <2>1 DEF DrivenInv, Drives
<1> QED
  BY <1>2, <1>3

LEMMA NextDriven ==
    ASSUME StateInv, WorkInv, LiveInv, PastInv, DrivenInv, Next
    PROVE  DrivenInv'
<1>1. CASE \/ Reconcile \/ CleanupOrphans
           \/ \E d \in Dispatches : ProcessBucket(d) \/ PublishFails(d) \/ DropDispatch(d)
  BY <1>1, SchedulerDriven, StillDrivenKeeps
<1>2. CASE EnrollContact \/ Unsubscribe \/ RecalculateNextRunAt \/ ReactivateCompleted
  BY <1>2, EnrollContactDriven, UnsubscribeDriven, RecalculateNextRunAtDriven,
     ReactivateCompletedDriven, StillDrivenKeeps
<1>3. CASE ReopenEnrollment \/ DispatchReopened \/ EditFails
  BY <1>3, ReopenEnrollmentDriven, DispatchReopenedDriven, EditFailsDriven
<1>4. CASE \E d \in Dispatches : ProcessDispatch(d) \/ ExecuteStep(d) \/ EnqueueFails(d)
  BY <1>4, ProcessDispatchDriven, ExecuteStepDriven, EnqueueFailsDriven, StillDrivenKeeps
<1>5. CASE \E d \in Dispatches :
             \/ FetchDispatch(d) \/ StartSend(d) \/ SendFlow(d) \/ MarkCompleted(d)
             \/ ReadEnrollment(d) \/ ScheduleNext(d) \/ SendFails(d) \/ WorkerDies(d)
  BY <1>5, FetchDispatchDriven, StartSendDriven, SendFlowDriven, ReadEnrollmentDriven,
     ScheduleNextDriven, SendFailsDriven, WorkerDiesDriven, StillDrivenKeeps
<1>6. CASE \E d \in Dispatches : CompleteEnrollment(d) \/ AdvanceEnrollment(d)
  BY <1>6, CompleteEnrollmentDriven, AdvanceEnrollmentDriven, StillDrivenKeeps
<1>7. CASE \E s \in Steps : CreateStep(s) \/ UpdateStep(s) \/ DeleteStep(s) \/ DeleteFlow(s)
  BY <1>7, EditDriven, StillDrivenKeeps
<1> QED
  BY <1>1, <1>2, <1>4, <1>5, <1>6, <1>7, <1>3, Actions

LEMMA StutterDriven ==
    ASSUME DrivenInv, UNCHANGED vars
    PROVE  DrivenInv'
BY DEF vars, stepVars, sendVars, DrivenInv, Underway, Unstranded, HasDetour, Awaiting, Drives

LEMMA DrivenCorrect == Spec => []DrivenInv
<1>1. Init => DrivenInv
  BY DEF Init, DrivenInv, Underway
<1>2. StateInv /\ WorkInv /\ LiveInv /\ PastInv /\ DrivenInv /\ [Next]_vars => DrivenInv'
  BY NextDriven, StutterDriven
<1> QED
  BY <1>1, <1>2, StateCorrect, LiveCorrect, PastCorrect, PTL DEF Spec

\* An enrollment that is active always has a dispatch to come, a worker that will
\* find it has still to be advanced, or an edit about to create its dispatch: it
\* stops only where the code strands it, with no first step, a dispatch that was
\* never created, an edit, a deleted step or a worker that failed or died after
\* its row was settled.
THEOREM ActiveIsDrivenCorrect == Spec => []ActiveIsDriven
<1>1. PastInv /\ DrivenInv => ActiveIsDriven
  <2> SUFFICES ASSUME PastInv, DrivenInv, Underway, ~Awaiting
               PROVE  \E d \in Dispatches :
                        /\ d.enrollment = enrollment.id
                        /\ \/ dispatch[d] \in Open
                           \/ worker[d] \in {"settled", "planned"} /\ enrollment.lastStep # d.step
    BY DEF ActiveIsDriven, Underway, Unstranded, Awaiting
  <2>1. PICK d \in Dispatches : Drives(d)
    BY DEF DrivenInv
  <2>2. worker[d] \in {"settled", "planned"} => enrollment.lastStep < d.step
    BY <2>1, UnderwayUncut DEF Drives, PastInv, LastBehind, Live
  <2>3. worker[d] \in {"settled", "planned"} => enrollment.lastStep # d.step
    BY <2>2, DispatchFacts, ConstantFacts
  <2> QED
    BY <2>1, <2>3 DEF Drives
<1> QED
  BY <1>1, PastCorrect, DrivenCorrect, PTL
=============================================================================

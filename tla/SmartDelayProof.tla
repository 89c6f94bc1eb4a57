-------------------------- MODULE SmartDelayProof ---------------------------
(***************************************************************************)
(* For any scenario: an arming resumes its flow once, and once more only   *)
(* for each time it failed half way, and not before its time; a row that   *)
(* is completed has had its flow resumed or its claim lost, unless the row *)
(* was over when it was marked scheduled.                                  *)
(***************************************************************************)
EXTENDS SmartDelay, TLAPS

-----------------------------------------------------------------------------
(* Inductive invariant *)

\* Armings and rows refer to each other, and what is yet to come is untouched.
KnownInv ==
    /\ \A g \in Armings : g > armed =>
          owner[g] = g /\ row[g].status = "none" /\ armer[g] = "off" /\ ran[g] = 0 /\ broke[g] = 0
    /\ \A r \in Armings : row[r].status # "none" => row[r].at <= armed /\ owner[row[r].at] = r
    /\ \A g \in Armings : g <= armed => row[owner[g]].status # "none"

\* A job is at an arming of its own row, whose time has come when it was read.
WorkerInv(g) ==
    /\ worker[g].pc # "off" =>
          /\ job[g] = "running" /\ g <= armed
          /\ worker[g].at \in 1 .. armed /\ owner[worker[g].at] = owner[g]
    /\ worker[g].pc = "claim" => Due(worker[g].at)
    /\ worker[g].pc = "run" => Due(worker[g].at) \/ worker[g].at \in overtaken

\* The flow a job is at has failed as often as it was begun before.
Begun(g) ==
    /\ worker[g].pc = "run" => ran[worker[g].at] = broke[worker[g].at]
    /\ worker[g].pc = "rest" => ran[worker[g].at] = broke[worker[g].at] + 1

\* A job that resumes a flow has its row for itself, completed, at an arming
\* whose flow is not under way twice.
ClaimInv(g) ==
    worker[g].pc \in {"run", "rest"} /\ owner[g] \notin revived =>
        /\ row[owner[g]] = [status |-> "completed", at |-> worker[g].at]
        /\ Begun(g)
        /\ \A h \in Armings :
              worker[h].pc \in {"run", "rest"} /\ owner[h] = owner[g] => h = g

\* An arming whose flow has not failed each time it was begun is the last of
\* its row, which stays completed.
RanInv(g) ==
    owner[g] \notin revived =>
        /\ ran[g] = broke[g] \/ ran[g] = broke[g] + 1
        /\ ran[g] # broke[g] => row[owner[g]] = [status |-> "completed", at |-> g]

Inv ==
    /\ TypeOK /\ KnownInv /\ CompletedHasRun
    /\ \A g \in Armings : WorkerInv(g) /\ ClaimInv(g) /\ RanInv(g)

-----------------------------------------------------------------------------
(* Types *)

RowType ==
    [status : {"none", "pending", "scheduled", "completed", "canceled"}, at : Armings]
WorkerType == [pc : {"off", "claim", "cancel", "run", "rest"}, at : 0 .. MaxArms]
ScanType == [pc : {"idle", "sweep", "enqueue", "unclaim"}, batch : SUBSET Armings]

LEMMA ScenarioTyped ==
    ASSUME TypeOK
    PROVE  /\ scenario.arms \in 0 .. MaxArms /\ scenario.faults \in Nat
           /\ scenario.interruptions \in Nat
BY ScenariosAreBounded DEF TypeOK

LEMMA FaultTyped ==
    ASSUME TypeOK, UNCHANGED scenario, Fault
    PROVE  faults' \in 0 .. scenario'.faults
BY ScenarioTyped DEF TypeOK, Fault

LEMMA JobsTyped ==
    ASSUME TypeOK, NEW S \in SUBSET Armings, AddJobs(S) \/ job' = Removed(S)
    PROVE  /\ job' \in [Armings -> {"none", "waiting", "running", "ended"}]
           /\ \A g \in Armings : job[g] = "running" => job'[g] = "running"
<1>1. CASE AddJobs(S)
  <2>1. PICK free \in SUBSET (S \cap Ended) :
           job' = [g \in Armings |-> IF g \in {h \in S : job[h] = "none"} \cup free
                                     THEN "waiting" ELSE job[g]]
    BY <1>1 DEF AddJobs
  <2> QED
    BY <2>1 DEF TypeOK, Ended
<1>2. CASE job' = Removed(S)
  BY <1>2 DEF TypeOK, Removed
<1> QED
  BY <1>1, <1>2

LEMMA TriesTyped ==
    ASSUME TypeOK, NEW S \in SUBSET Armings, AddJobs(S)
    PROVE  tries' \in [Armings -> 0 .. Attempts - 1]
BY ScenariosAreBounded DEF TypeOK, AddJobs

LEMMA OffTyped == Off \in WorkerType /\ Resting \in ScanType
BY ScenariosAreBounded DEF Off, Resting, WorkerType, ScanType

LEMMA ArmedIsKnown == ASSUME TypeOK, NEW g \in 1 .. armed PROVE g \in Armings
BY ScenariosAreBounded DEF TypeOK, Armings

\* What a reset makes of the rows.
LEMMA ResetRows ==
    ASSUME TypeOK, NEW S
    PROVE  /\ Reset(S) \in [Armings -> RowType]
           /\ \A r \in Armings :
                 \/ Reset(S)[r] = row[r]
                 \/ /\ row[r].status = "scheduled"
                    /\ Reset(S)[r].at = row[r].at /\ Reset(S)[r].status = "pending"
<1>1. row \in [Armings -> RowType]
  BY DEF TypeOK, RowType
<1> QED
  BY <1>1 DEF Reset, RowType

LEMMA TypeInit == Init => TypeOK
<1> SUFFICES ASSUME Init PROVE TypeOK
  OBVIOUS
<1>1. worker \in [Armings -> WorkerType] /\ scan \in ScanType
  BY OffTyped DEF Init
<1>2. /\ scenario \in Scenarios /\ armed \in 0 .. MaxArms /\ tries \in [Armings -> 0 .. Attempts - 1]
      /\ replied \in 0 .. MaxArms /\ ran \in [Armings -> Nat] /\ broke \in [Armings -> Nat]
  BY ScenariosAreBounded DEF Init
<1>3. faults \in 0 .. scenario.faults /\ interruptions \in 0 .. scenario.interruptions
  BY ScenariosAreBounded DEF Init
<1> QED
  BY <1>1, <1>2, <1>3 DEF Init, TypeOK, WorkerType, ScanType

-----------------------------------------------------------------------------
(* Steps that complete no row and resume no flow *)

\* Rows move between statuses that are not over, or are canceled.
Moved(r) ==
    \/ row'[r] = row[r]
    \/ /\ Active(r) /\ row'[r].at = row[r].at
       /\ row'[r].status \in {"pending", "scheduled", "canceled"}

LEMMA KnownKept ==
    ASSUME Inv, TypeOK', UNCHANGED <<armed, owner>>,
           \A r \in Armings :
              row'[r].at = row[r].at /\ (row'[r].status = "none" <=> row[r].status = "none"),
           \A g \in Armings :
              /\ armer'[g] # "off" => armer[g] # "off"
              /\ g > armed => ran'[g] = ran[g] /\ broke'[g] = broke[g]
    PROVE  KnownInv'
<1>1. ASSUME NEW g \in Armings, g > armed
      PROVE  owner[g] = g /\ row'[g].status = "none" /\ armer'[g] = "off"
             /\ ran'[g] = 0 /\ broke'[g] = 0
  <2>1. owner[g] = g /\ row[g].status = "none" /\ armer[g] = "off" /\ ran[g] = 0 /\ broke[g] = 0
    BY <1>1 DEF Inv, KnownInv
  <2> QED
    BY <1>1, <2>1
<1>2. ASSUME NEW r \in Armings, row'[r].status # "none"
      PROVE  row'[r].at <= armed /\ owner[row'[r].at] = r
  <2>1. row[r].status # "none" => row[r].at <= armed /\ owner[row[r].at] = r
    BY DEF Inv, KnownInv
  <2> QED
    BY <1>2, <2>1
<1>3. ASSUME NEW g \in Armings, g <= armed PROVE row'[owner[g]].status # "none"
  <2>1. row[owner[g]].status # "none" /\ owner[g] \in Armings
    BY <1>3 DEF Inv, TypeOK, KnownInv
  <2> QED
    BY <2>1
<1> QED
  BY <1>1, <1>2, <1>3 DEF KnownInv

LEMMA QuietStep ==
    ASSUME Inv, TypeOK', UNCHANGED <<armed, owner, worker, ran, broke, revived, overtaken, lost>>,
           \A r \in Armings : Moved(r),
           \A g \in Armings : armer'[g] # "off" => armer[g] # "off",
           \A g \in Armings : job[g] = "running" => job'[g] = "running",
           \A g \in Armings : age[g] # "ahead" => age'[g] # "ahead"
    PROVE  Inv'
<1>1. /\ owner \in [Armings -> Armings] /\ armed \in 0 .. MaxArms /\ Armings \subseteq Nat
      /\ row \in [Armings -> RowType] /\ row' \in [Armings -> RowType]
      /\ worker \in [Armings -> WorkerType]
  BY DEF Inv, TypeOK, RowType, WorkerType, Armings
<1>2. \A r \in Armings :
         /\ row'[r].status = "none" <=> row[r].status = "none"
         /\ row'[r].at = row[r].at
         /\ row[r].status = "completed" \/ row'[r].status = "completed" => row'[r] = row[r]
  BY DEF Moved, Active
<1>3. KnownInv'
  BY <1>2, KnownKept
<1>4. CompletedHasRun'
  BY <1>2 DEF Inv, CompletedHasRun
<1>5. ASSUME NEW g \in Armings PROVE WorkerInv(g)'
  <2>1. worker[g].pc # "off" =>
           /\ job'[g] = "running" /\ g <= armed
           /\ worker[g].at \in 1 .. armed /\ owner[worker[g].at] = owner[g]
           /\ worker[g].at \in Armings
    <3>1. worker[g].pc # "off" =>
             /\ job'[g] = "running" /\ g <= armed
             /\ worker[g].at \in 1 .. armed /\ owner[worker[g].at] = owner[g]
      BY DEF Inv, WorkerInv
    <3> QED
      BY <3>1, ArmedIsKnown DEF Inv
  <2>2. worker[g].pc = "claim" => age'[worker[g].at] # "ahead"
    BY <2>1 DEF Inv, WorkerInv, Due
  <2>3. worker[g].pc = "run" => age'[worker[g].at] # "ahead" \/ worker[g].at \in overtaken
    BY <2>1 DEF Inv, WorkerInv, Due
  <2> QED
    BY <2>1, <2>2, <2>3 DEF WorkerInv, Due
<1>6. ASSUME NEW g \in Armings PROVE ClaimInv(g)' /\ RanInv(g)'
  <2>1. owner[g] \in Armings
    BY <1>1
  <2>2. row[owner[g]].status = "completed" => row'[owner[g]] = row[owner[g]]
    BY <1>2, <2>1
  <2>3. ClaimInv(g)'
    BY <2>2 DEF Inv, ClaimInv, Begun
  <2>4. RanInv(g)'
    BY <2>2 DEF Inv, RanInv
  <2> QED
    BY <2>3, <2>4
<1> QED
  BY <1>3, <1>4, <1>5, <1>6 DEF Inv

LEMMA ArmerSteps ==
    ASSUME Inv, NEW g \in Armings,
           AddJob(g) \/ ResetAfterFailure(g) \/ ArmerDies(g)
    PROVE  Inv'
<1>1. armer' \in [Armings -> {"off", "mark", "add", "reset"}]
  <2>1. armer \in [Armings -> {"off", "mark", "add", "reset"}]
    BY DEF Inv, TypeOK
  <2>2. \/ armer' = [armer EXCEPT ![g] = "off"]
        \/ armer' = [armer EXCEPT ![g] = "reset"]
    BY DEF AddJob, ResetAfterFailure, ArmerDies
  <2> QED
    BY <2>1, <2>2
<1>2. /\ job' \in [Armings -> {"none", "waiting", "running", "ended"}]
      /\ tries' \in [Armings -> 0 .. Attempts - 1]
      /\ \A h \in Armings : job[h] = "running" => job'[h] = "running"
  <2>1. CASE AddJobs({g})
    BY <2>1, JobsTyped, TriesTyped DEF Inv
  <2>2. CASE UNCHANGED <<job, tries>>
    BY <2>2 DEF Inv, TypeOK
  <2> QED
    BY <2>1, <2>2 DEF AddJob, ResetAfterFailure, ArmerDies
<1>3. /\ row' \in [Armings -> RowType]
      /\ \A r \in Armings : Moved(r)
  <2>1. CASE row' = Reset({g})
    BY <2>1, ResetRows DEF Inv, Moved, Active
  <2>2. CASE UNCHANGED row
    BY <2>2 DEF Inv, TypeOK, Moved, RowType
  <2> QED
    BY <2>1, <2>2 DEF AddJob, ResetAfterFailure, ArmerDies
<1>4. faults' \in 0 .. scenario'.faults
  <2>1. CASE Fault
    BY <2>1, FaultTyped DEF Inv, AddJob, ResetAfterFailure, ArmerDies
  <2>2. CASE UNCHANGED faults
    BY <2>2 DEF Inv, TypeOK, AddJob, ResetAfterFailure, ArmerDies
  <2> QED
    BY <2>1, <2>2 DEF AddJob, ResetAfterFailure, ArmerDies
<1>5. UNCHANGED <<scenario, armed, age, owner, worker, scan, replied, ran, broke,
                  revived, overtaken, lost, interruptions>>
  BY DEF AddJob, ResetAfterFailure, ArmerDies
<1>6. TypeOK'
  BY <1>1, <1>2, <1>3, <1>4, <1>5 DEF Inv, TypeOK, RowType
<1>7. \A h \in Armings : armer'[h] # "off" => armer[h] # "off"
  BY DEF Inv, TypeOK, AddJob, ResetAfterFailure, ArmerDies
<1> QED
  BY <1>2, <1>3, <1>5, <1>6, <1>7, QuietStep

LEMMA ScanSteps ==
    ASSUME Inv, Scanning
    PROVE  Inv'
<1>1. scan' \in ScanType
  <2>1. CASE RemoveStuckJobs
    BY <2>1 DEF Inv, TypeOK, RemoveStuckJobs, ScanType
  <2>2. CASE ClaimDueRows
    BY <2>2 DEF Inv, TypeOK, ClaimDueRows, ScanType
  <2>3. CASE scan' = [scan EXCEPT !.pc = "unclaim"]
    BY <2>3 DEF Inv, TypeOK, ScanType
  <2>4. CASE scan' = Resting
    BY <2>4, OffTyped
  <2> QED
    BY <2>1, <2>2, <2>3, <2>4 DEF Scanning, SweepStuck, EnqueueClaimed, Unclaim, ScanDies
<1>2. /\ job' \in [Armings -> {"none", "waiting", "running", "ended"}]
      /\ tries' \in [Armings -> 0 .. Attempts - 1]
      /\ \A h \in Armings : job[h] = "running" => job'[h] = "running"
  <2>1. CASE EnqueueClaimed
    <3>1. scan.batch \in SUBSET Armings
      BY DEF Inv, TypeOK
    <3>2. CASE AddJobs(scan.batch)
      BY <3>1, <3>2, JobsTyped, TriesTyped DEF Inv
    <3>3. CASE UNCHANGED <<job, tries>>
      BY <3>3 DEF Inv, TypeOK
    <3> QED
      BY <2>1, <3>2, <3>3 DEF EnqueueClaimed
  <2>2. CASE RemoveStuckJobs
    BY <2>2, JobsTyped DEF Inv, TypeOK, RemoveStuckJobs
  <2>3. CASE UNCHANGED <<job, tries>>
    BY <2>3 DEF Inv, TypeOK
  <2> QED
    BY <2>1, <2>2, <2>3 DEF Scanning, SweepStuck, ClaimDueRows, Unclaim, ScanDies
<1>3. /\ row' \in [Armings -> RowType]
      /\ \A r \in Armings : Moved(r)
  <2>1. CASE row' = Reset(scan.batch)
    BY <2>1, ResetRows DEF Inv, Moved, Active
  <2>2. CASE UNCHANGED row
    BY <2>2 DEF Inv, TypeOK, Moved, RowType
  <2>3. CASE SweepStuck
    <3>1. row \in [Armings -> RowType]
      BY DEF Inv, TypeOK, RowType
    <3>2. row' = [r \in Armings |-> IF Stuck(row[r].at) THEN Reset(scan.batch)[r] ELSE row[r]]
      BY <2>3 DEF SweepStuck
    <3> QED
      BY <3>1, <3>2, ResetRows DEF Inv, Moved, Active
  <2>4. CASE ClaimDueRows
    <3>1. row \in [Armings -> RowType]
      BY DEF Inv, TypeOK, RowType
    <3>2. PICK due \in SUBSET {r \in Armings : row[r].status = "pending"} :
             row' = [r \in Armings |-> IF r \in due THEN [row[r] EXCEPT !.status = "scheduled"]
                                       ELSE row[r]]
      BY <2>4 DEF ClaimDueRows
    <3>3. row' \in [Armings -> RowType]
      BY <3>1, <3>2 DEF RowType
    <3>4. \A r \in Armings : Moved(r)
      BY <3>1, <3>2 DEF Moved, Active, RowType
    <3> QED
      BY <3>3, <3>4
  <2> QED
    BY <2>1, <2>2, <2>3, <2>4
    DEF Scanning, RemoveStuckJobs, EnqueueClaimed, Unclaim, ScanDies
<1>4. faults' \in 0 .. scenario'.faults
  <2>1. UNCHANGED scenario
    BY DEF Scanning, RemoveStuckJobs, SweepStuck, ClaimDueRows, EnqueueClaimed, Unclaim, ScanDies
  <2>2. CASE Fault
    BY <2>1, <2>2, FaultTyped DEF Inv
  <2>3. CASE UNCHANGED faults
    BY <2>1, <2>3 DEF Inv, TypeOK
  <2> QED
    BY <2>2, <2>3
    DEF Scanning, RemoveStuckJobs, SweepStuck, ClaimDueRows, EnqueueClaimed, Unclaim, ScanDies
<1>5. UNCHANGED <<scenario, armed, age, owner, armer, worker, replied, ran, broke,
                  revived, overtaken, lost, interruptions>>
  BY DEF Scanning, RemoveStuckJobs, SweepStuck, ClaimDueRows, EnqueueClaimed, Unclaim, ScanDies
<1>6. TypeOK'
  BY <1>1, <1>2, <1>3, <1>4, <1>5 DEF Inv, TypeOK, RowType, ScanType
<1> QED
  BY <1>2, <1>3, <1>5, <1>6, QuietStep

LEMMA OtherSteps ==
    ASSUME Inv, Others
    PROVE  Inv'
<1>1. CASE ContactWrites
  <2>1. TypeOK'
    BY <1>1, ScenarioTyped DEF Inv, TypeOK, ContactWrites, Interruption
  <2> QED
    BY <1>1, <2>1, QuietStep DEF ContactWrites, Moved
<1>2. CASE CancelActive
  <2>1. /\ row' \in [Armings -> RowType]
        /\ \A r \in Armings : Moved(r)
    <3>1. row \in [Armings -> RowType]
      BY DEF Inv, TypeOK, RowType
    <3>2. row' = [r \in Armings |-> IF Active(r) THEN [row[r] EXCEPT !.status = "canceled"]
                                    ELSE row[r]]
      BY <1>2 DEF CancelActive, Canceled
    <3>3. \A r \in Armings : row'[r] \in RowType /\ Moved(r)
      <4> TAKE r \in Armings
      <4>1. row[r] \in RowType
        BY <3>1
      <4>2. CASE Active(r)
        BY <3>2, <4>1, <4>2 DEF RowType, Moved
      <4>3. CASE ~Active(r)
        BY <3>2, <4>1, <4>3 DEF Moved
      <4> QED
        BY <4>2, <4>3
    <3> QED
      BY <3>2, <3>3
  <2>2. /\ job' \in [Armings -> {"none", "waiting", "running", "ended"}]
        /\ \A h \in Armings : job[h] = "running" => job'[h] = "running"
    <3>1. {row[r].at : r \in ActiveRows} \in SUBSET Armings
      BY DEF Inv, TypeOK, ActiveRows
    <3>2. CASE job' = Removed({row[r].at : r \in ActiveRows})
      BY <3>1, <3>2, JobsTyped DEF Inv
    <3>3. CASE UNCHANGED job
      BY <3>3 DEF Inv, TypeOK
    <3> QED
      BY <1>2, <3>2, <3>3 DEF CancelActive
  <2>3. TypeOK'
    BY <1>2, <2>1, <2>2, ScenarioTyped DEF Inv, TypeOK, CancelActive, Interruption, RowType
  <2> QED
    BY <1>2, <2>1, <2>2, <2>3, QuietStep DEF CancelActive
<1>3. ASSUME NEW g \in Armings, Age(g) PROVE Inv'
  <2>1. age' \in [Armings -> {"ahead", "due", "stuck"}]
    BY <1>3 DEF Inv, TypeOK, Age, Later
  <2>2. \A h \in Armings : age[h] # "ahead" => age'[h] # "ahead"
    BY <1>3 DEF Inv, TypeOK, Age, Later
  <2>3. TypeOK'
    BY <1>3, <2>1 DEF Inv, TypeOK, Age
  <2> QED
    BY <1>3, <2>2, <2>3, QuietStep DEF Age, Moved
<1> QED
  BY <1>1, <1>2, <1>3 DEF Others

-----------------------------------------------------------------------------
(* Arming and marking *)

LEMMA ArmStep == ASSUME Inv, Arm PROVE Inv'
<1> DEFINE g == armed + 1
<1>1. PICK r \in RowOf(g), next \in {"mark", "off"} :
         /\ row' = [row EXCEPT ![r] = [status |-> "pending", at |-> g]]
         /\ owner' = [owner EXCEPT ![g] = r]
         /\ armer' = [armer EXCEPT ![g] = next]
  BY DEF Arm
<1>2. /\ g \in Armings /\ armed' = g /\ armed \in Nat /\ armed' \in 0 .. MaxArms
      /\ UNCHANGED <<scenario, age, job, tries, worker, scan, replied, ran, broke,
                     revived, overtaken, lost, faults, interruptions>>
  <2>1. armed < scenario.arms /\ armed \in 0 .. MaxArms
    BY DEF Inv, TypeOK, Arm
  <2>2. g \in 1 .. MaxArms
    BY <2>1, ScenarioTyped, ScenariosAreBounded DEF Inv
  <2> QED
    BY <2>1, <2>2 DEF Arm, Armings
<1>3. /\ r \in Armings
      /\ Active(r) \/ (r = g /\ row[r].status = "none")
  BY <1>2 DEF RowOf, ActiveRows, Inv, KnownInv
<1>4. /\ row \in [Armings -> RowType] /\ owner \in [Armings -> Armings]
      /\ armer \in [Armings -> {"off", "mark", "add", "reset"}]
      /\ worker \in [Armings -> WorkerType]
  BY DEF Inv, TypeOK, RowType, WorkerType
<1>5. TypeOK'
  <2>1. row' \in [Armings -> RowType] /\ owner' \in [Armings -> Armings]
    BY <1>1, <1>2, <1>3, <1>4 DEF RowType
  <2>2. armer' \in [Armings -> {"off", "mark", "add", "reset"}]
    BY <1>1, <1>4
  <2> QED
    BY <1>2, <2>1, <2>2 DEF Inv, TypeOK, RowType
<1>6. /\ \A h \in Armings : h # g => owner'[h] = owner[h]
      /\ owner'[g] = r /\ owner[g] = g /\ ran[g] = 0 /\ broke[g] = 0
      /\ \A q \in Armings : q # r => row'[q] = row[q]
      /\ row'[r] = [status |-> "pending", at |-> g]
  BY <1>1, <1>2, <1>3, <1>4 DEF Inv, KnownInv
<1>7. KnownInv'
  <2>1. ASSUME NEW h \in Armings, h > g
        PROVE  owner'[h] = h /\ row'[h].status = "none" /\ armer'[h] = "off"
               /\ ran'[h] = 0 /\ broke'[h] = 0
    <3>1. h > armed /\ h # g
      BY <1>2, <2>1 DEF Armings
    <3>2. owner[h] = h /\ row[h].status = "none" /\ armer[h] = "off" /\ ran[h] = 0 /\ broke[h] = 0
      BY <3>1 DEF Inv, KnownInv
    <3>3. h # r
      BY <1>3, <3>1, <3>2 DEF Active
    <3> QED
      BY <1>1, <1>2, <1>4, <1>6, <3>1, <3>2, <3>3
  <2>2. ASSUME NEW q \in Armings, row'[q].status # "none"
        PROVE  row'[q].at <= g /\ owner'[row'[q].at] = q
    <3>1. CASE q = r
      BY <1>2, <1>6, <3>1
    <3>2. CASE q # r
      <4>1. row[q].at <= armed /\ owner[row[q].at] = q /\ row'[q] = row[q]
        BY <1>6, <2>2, <3>2 DEF Inv, KnownInv
      <4>2. row[q].at \in Armings
        BY <1>4 DEF RowType
      <4> QED
        BY <1>2, <1>6, <4>1, <4>2 DEF Armings
    <3> QED
      BY <3>1, <3>2
  <2>3. ASSUME NEW h \in Armings, h <= g PROVE row'[owner'[h]].status # "none"
    <3>1. CASE h = g
      BY <1>6, <3>1
    <3>2. CASE h # g
      <4>1. h <= armed
        BY <1>2, <2>3, <3>2 DEF Armings
      <4>2. row[owner[h]].status # "none" /\ owner[h] \in Armings
        BY <1>4, <4>1 DEF Inv, KnownInv
      <4> QED
        BY <1>6, <3>2, <4>2
    <3> QED
      BY <3>1, <3>2
  <2> QED
    BY <1>2, <2>1, <2>2, <2>3 DEF KnownInv
<1>8. CompletedHasRun'
  BY <1>2, <1>6 DEF Inv, CompletedHasRun
<1>9. \A h \in Armings : worker[h].pc # "off" => h # g /\ worker[h].at # g /\ worker[h].at \in Armings
  BY <1>2, ArmedIsKnown DEF Inv, WorkerInv
<1>10. ASSUME NEW h \in Armings PROVE WorkerInv(h)'
  <2>1. worker[h].pc # "off" =>
           /\ job[h] = "running" /\ h <= armed
           /\ worker[h].at \in 1 .. armed /\ owner[worker[h].at] = owner[h]
    BY DEF Inv, WorkerInv
  <2>2. worker[h].pc # "off" => h <= g /\ worker[h].at \in 1 .. g
    BY <1>2, <2>1 DEF Armings
  <2>3. worker[h].pc # "off" => owner'[worker[h].at] = owner'[h]
    BY <1>6, <1>9, <2>1
  <2>4. /\ worker[h].pc = "claim" => age[worker[h].at] # "ahead"
        /\ worker[h].pc = "run" => age[worker[h].at] # "ahead" \/ worker[h].at \in overtaken
    BY DEF Inv, WorkerInv, Due
  <2> QED
    BY <1>2, <2>1, <2>2, <2>3, <2>4 DEF WorkerInv, Due
<1>11. \A q \in Armings : row[q].status = "completed" => q # r
  BY <1>3 DEF Active
<1>12. ASSUME NEW h \in Armings PROVE ClaimInv(h)'
  <2> SUFFICES ASSUME worker[h].pc \in {"run", "rest"}, owner'[h] \notin revived
      PROVE  /\ row'[owner'[h]] = [status |-> "completed", at |-> worker[h].at]
             /\ Begun(h)
             /\ \A f \in Armings : worker[f].pc \in {"run", "rest"} /\ owner'[f] = owner'[h] => f = h
    BY <1>2 DEF ClaimInv, Begun
  <2>1. owner'[h] = owner[h] /\ owner[h] \in Armings
    BY <1>4, <1>6, <1>9
  <2>2. /\ row[owner[h]] = [status |-> "completed", at |-> worker[h].at]
        /\ Begun(h)
        /\ \A f \in Armings : worker[f].pc \in {"run", "rest"} /\ owner[f] = owner[h] => f = h
    BY <2>1 DEF Inv, ClaimInv, Begun
  <2>3. \A f \in Armings : worker[f].pc \in {"run", "rest"} => owner'[f] = owner[f]
    BY <1>6, <1>9
  <2> QED
    BY <1>6, <1>11, <2>1, <2>2, <2>3
<1>13. ASSUME NEW h \in Armings PROVE RanInv(h)'
  <2>1. CASE h = g
    BY <1>2, <1>6, <2>1 DEF RanInv
  <2>2. CASE h # g
    <3>1. owner'[h] = owner[h] /\ owner[h] \in Armings
      BY <1>4, <1>6, <2>2
    <3> QED
      BY <1>2, <1>6, <1>11, <3>1 DEF Inv, RanInv
  <2> QED
    BY <2>1, <2>2
<1> QED
  BY <1>5, <1>7, <1>8, <1>10, <1>12, <1>13 DEF Inv

LEMMA MarkStep == ASSUME Inv, NEW g \in Armings, MarkScheduled(g) PROVE Inv'
<1> DEFINE r == owner[g]
<1>1. /\ armer[g] = "mark"
      /\ UNCHANGED <<scenario, armed, age, owner, job, tries, worker, scan, replied,
                     ran, broke, overtaken, lost, interruptions>>
  BY DEF MarkScheduled
<1>2. /\ row \in [Armings -> RowType] /\ owner \in [Armings -> Armings]
      /\ armer \in [Armings -> {"off", "mark", "add", "reset"}]
  BY DEF Inv, TypeOK, RowType
<1>3. CASE row' = row /\ revived' = revived
  <2>1. armer' = [armer EXCEPT ![g] = "add"] \/ armer' = [armer EXCEPT ![g] = "reset"]
    BY DEF MarkScheduled
  <2>2. /\ armer' \in [Armings -> {"off", "mark", "add", "reset"}]
        /\ \A h \in Armings : armer'[h] # "off" => armer[h] # "off"
    BY <1>1, <1>2, <2>1
  <2>3. faults' \in 0 .. scenario'.faults
    BY <1>1, FaultTyped DEF Inv, TypeOK, MarkScheduled
  <2>4. TypeOK'
    BY <1>1, <1>3, <2>2, <2>3 DEF Inv, TypeOK
  <2> QED
    BY <1>1, <1>3, <2>2, <2>4, QuietStep DEF Moved
<1>4. CASE /\ row' = [row EXCEPT ![r].status = "scheduled"]
           /\ revived' = IF Active(r) THEN revived ELSE revived \cup {r}
           /\ armer' = [armer EXCEPT ![g] = "add"]
           /\ UNCHANGED faults
  <2>1. /\ armer' \in [Armings -> {"off", "mark", "add", "reset"}]
        /\ \A h \in Armings : armer'[h] # "off" => armer[h] # "off"
    BY <1>1, <1>2, <1>4
  <2>2. /\ row' \in [Armings -> RowType] /\ r \in Armings
        /\ row'[r].status = "scheduled" /\ row'[r].at = row[r].at
        /\ \A q \in Armings : q # r => row'[q] = row[q]
    BY <1>2, <1>4 DEF RowType
  <2>3. TypeOK'
    <3>1. revived' \subseteq Armings
      BY <1>4, <2>2 DEF Inv, TypeOK
    <3> QED
      BY <1>1, <1>4, <2>1, <2>2, <3>1 DEF Inv, TypeOK, RowType
  <2>4. CASE Active(r)
    BY <1>1, <1>4, <2>1, <2>2, <2>3, <2>4, QuietStep DEF Moved
  <2>5. CASE ~Active(r)
    <3>1. revived' = revived \cup {r}
      BY <1>4, <2>5
    <3>2. row[r].status # "none"
      <4>1. g <= armed
        BY <1>1, <1>2 DEF Inv, TypeOK, KnownInv, Armings
      <4> QED
        BY <4>1 DEF Inv, KnownInv
    <3>3. KnownInv'
      BY <1>1, <2>1, <2>2, <2>3, <3>2, KnownKept
    <3>4. CompletedHasRun'
      BY <1>1, <2>2, <3>1 DEF Inv, CompletedHasRun
    <3>5. \A h \in Armings : WorkerInv(h)'
      BY <1>1 DEF Inv, WorkerInv, Due
    <3>6. ASSUME NEW h \in Armings PROVE ClaimInv(h)' /\ RanInv(h)'
      <4>1. owner[h] \in Armings
        BY <1>2
      <4>2. owner[h] \notin revived' => owner[h] \notin revived /\ row'[owner[h]] = row[owner[h]]
        BY <2>2, <3>1, <4>1
      <4>3. ClaimInv(h)'
        BY <1>1, <4>2 DEF Inv, ClaimInv, Begun
      <4>4. RanInv(h)'
        BY <1>1, <4>2 DEF Inv, RanInv
      <4> QED
        BY <4>3, <4>4
    <3> QED
      BY <2>3, <3>3, <3>4, <3>5, <3>6 DEF Inv
  <2> QED
    BY <2>4, <2>5
<1> QED
  BY <1>1, <1>3, <1>4 DEF MarkScheduled

-----------------------------------------------------------------------------
(* Resuming *)

\* What a row says of its arming.
LEMMA RowsArming ==
    ASSUME Inv, NEW g \in Armings, row[owner[g]].status # "none"
    PROVE  /\ owner[g] \in Armings /\ g <= armed
           /\ row[owner[g]].at \in 1 .. armed /\ row[owner[g]].at \in Armings
           /\ owner[row[owner[g]].at] = owner[g]
<1>1. /\ owner[g] \in Armings /\ row[owner[g]].at \in Armings
      /\ armed \in 0 .. MaxArms
  BY DEF Inv, TypeOK
<1>2. row[owner[g]].at <= armed /\ owner[row[owner[g]].at] = owner[g]
  BY <1>1 DEF Inv, KnownInv
<1>3. g <= armed
  BY <1>1 DEF Inv, KnownInv, Armings
<1> QED
  BY <1>1, <1>2, <1>3 DEF Armings

\* A job that was not about to resume a flow and is not at one.
LEMMA JobStep ==
    ASSUME Inv, TypeOK', NEW g \in Armings, WorkerInv(g)',
           UNCHANGED <<armed, age, owner, armer, ran, broke, revived, overtaken, lost>>,
           \A r \in Armings : Moved(r),
           \A h \in Armings \ {g} : worker'[h] = worker[h] /\ job'[h] = job[h],
           worker[g].pc # "run", worker'[g].pc \notin {"run", "rest"}
    PROVE  Inv'
<1>1. owner \in [Armings -> Armings]
  BY DEF Inv, TypeOK
<1>2. \A r \in Armings :
         /\ row'[r].status = "none" <=> row[r].status = "none"
         /\ row'[r].at = row[r].at
         /\ row[r].status = "completed" \/ row'[r].status = "completed" => row'[r] = row[r]
  BY DEF Moved, Active
<1>3. KnownInv'
  BY <1>2, KnownKept
<1>4. CompletedHasRun'
  BY <1>2 DEF Inv, CompletedHasRun
<1>5. ASSUME NEW h \in Armings \ {g} PROVE WorkerInv(h)'
  BY DEF Inv, WorkerInv, Due
<1>6. ASSUME NEW h \in Armings PROVE ClaimInv(h)' /\ RanInv(h)'
  <2>1. row[owner[h]].status = "completed" => row'[owner[h]] = row[owner[h]]
    BY <1>1, <1>2
  <2>2. \A f \in Armings :
           worker'[f].pc \in {"run", "rest"} =>
              worker[f].pc \in {"run", "rest"} /\ worker'[f] = worker[f]
    OBVIOUS
  <2>3. ClaimInv(h)'
    BY <2>1, <2>2 DEF Inv, ClaimInv, Begun
  <2>4. RanInv(h)'
    BY <2>1 DEF Inv, RanInv
  <2> QED
    BY <2>3, <2>4
<1> QED
  BY <1>3, <1>4, <1>5, <1>6 DEF Inv

\* A job that has ended is at no arming.
LEMMA EndsTyped ==
    ASSUME Inv, NEW g \in Armings, Ends(g)
    PROVE  /\ job' \in [Armings -> {"none", "waiting", "running", "ended"}]
           /\ worker' \in [Armings -> WorkerType] /\ worker'[g] = Off
           /\ \A h \in Armings \ {g} : worker'[h] = worker[h] /\ job'[h] = job[h]
           /\ WorkerInv(g)'
<1>1. /\ job' \in [Armings -> {"none", "waiting", "running", "ended"}]
      /\ worker' \in [Armings -> WorkerType] /\ worker'[g] = Off
      /\ \A h \in Armings \ {g} : worker'[h] = worker[h] /\ job'[h] = job[h]
  BY OffTyped DEF Inv, TypeOK, Ends, WorkerType
<1> QED
  BY <1>1 DEF WorkerInv, Off

LEMMA ReadStep == ASSUME Inv, NEW g \in Armings, ReadRow(g) PROVE Inv'
<1> DEFINE r == owner[g]
<1>1. /\ job[g] = "waiting"
      /\ UNCHANGED <<scenario, armed, age, owner, row, armer, tries, scan, replied, ran, broke,
                     revived, overtaken, lost, faults, interruptions>>
  BY DEF ReadRow
<1>2. worker[g].pc = "off"
  BY <1>1 DEF Inv, WorkerInv
<1>3. CASE Ends(g)
  <2>1. TypeOK'
    BY <1>1, <1>3, EndsTyped DEF Inv, TypeOK, WorkerType
  <2> QED
    BY <1>1, <1>2, <1>3, <2>1, EndsTyped, JobStep DEF Moved, Off
<1>4. CASE Wakes(r)
  <2>1. PICK v \in Verdicts(row[r].at) :
           worker' = [worker EXCEPT ![g] = [pc |-> v, at |-> row[r].at]]
    BY <1>4 DEF ReadRow
  <2>2. v \in {"claim", "cancel"} /\ job' = [job EXCEPT ![g] = "running"]
    BY <1>4, <2>1 DEF Verdicts, ReadRow
  <2>3. /\ row[r].status # "none" /\ age[row[r].at] # "ahead"
        /\ g <= armed /\ row[r].at \in 1 .. armed /\ row[r].at \in Armings
        /\ owner[row[r].at] = owner[g]
    BY <1>4, RowsArming DEF Wakes, Due
  <2>4. TypeOK'
    <3>1. [pc |-> v, at |-> row[r].at] \in WorkerType
      BY <2>2, <2>3, ScenariosAreBounded DEF WorkerType, Armings
    <3>2. worker' \in [Armings -> WorkerType]
      BY <2>1, <3>1 DEF Inv, TypeOK, WorkerType
    <3>3. job' \in [Armings -> {"none", "waiting", "running", "ended"}]
      BY <2>2 DEF Inv, TypeOK
    <3> QED
      BY <1>1, <3>2, <3>3 DEF Inv, TypeOK, WorkerType
  <2>5. /\ worker'[g] = [pc |-> v, at |-> row[r].at] /\ job'[g] = "running"
        /\ \A h \in Armings \ {g} : worker'[h] = worker[h] /\ job'[h] = job[h]
    BY <2>1, <2>2 DEF Inv, TypeOK
  <2>6. WorkerInv(g)'
    BY <1>1, <2>2, <2>3, <2>5 DEF WorkerInv, Due
  <2> QED
    BY <1>1, <1>2, <2>2, <2>4, <2>5, <2>6, JobStep DEF Moved
<1> QED
  BY <1>3, <1>4 DEF ReadRow

LEMMA CancelStep == ASSUME Inv, NEW g \in Armings, CancelEngaged(g) PROVE Inv'
<1>1. /\ worker[g].pc = "cancel" /\ Ends(g)
      /\ UNCHANGED <<scenario, armed, age, owner, armer, tries, scan, replied, ran, broke,
                     revived, overtaken, lost, faults, interruptions>>
  BY DEF CancelEngaged
<1>2. row' \in [Armings -> RowType] /\ \A r \in Armings : Moved(r)
  <2>1. row \in [Armings -> RowType] /\ owner[g] \in Armings
    BY DEF Inv, TypeOK, RowType
  <2> QED
    BY <2>1 DEF CancelEngaged, Claimable, Moved, Active, RowType
<1>3. TypeOK'
  BY <1>1, <1>2, EndsTyped DEF Inv, TypeOK, WorkerType, RowType
<1> QED
  BY <1>1, <1>2, <1>3, EndsTyped, JobStep DEF Off

LEMMA ClaimStep == ASSUME Inv, NEW g \in Armings, ClaimForRun(g) PROVE Inv'
<1> DEFINE r == owner[g]
           a == row[r].at
<1>1. /\ worker[g].pc = "claim"
      /\ UNCHANGED <<scenario, armed, age, owner, armer, tries, scan, replied, ran, broke,
                     revived, lost, faults, interruptions>>
  BY DEF ClaimForRun
<1>2. CASE ~Claimable(r)
  <2>1. Ends(g) /\ UNCHANGED <<row, overtaken>>
    BY <1>2 DEF ClaimForRun
  <2>2. TypeOK'
    BY <1>1, <2>1, EndsTyped DEF Inv, TypeOK, WorkerType
  <2> QED
    BY <1>1, <2>1, <2>2, EndsTyped, JobStep DEF Moved, Off
<1>3. CASE Claimable(r)
  <2>1. /\ row' = [row EXCEPT ![r].status = "completed"]
        /\ worker' = [worker EXCEPT ![g] = [pc |-> "run", at |-> a]]
        /\ overtaken' = IF worker[g].at = a THEN overtaken ELSE overtaken \cup {a}
        /\ UNCHANGED job
    BY <1>3 DEF ClaimForRun
  <2>2. row[r].status = "scheduled"
    BY <1>3 DEF Claimable
  <2>3. /\ r \in Armings /\ g <= armed /\ a \in 1 .. armed /\ a \in Armings /\ owner[a] = r
    BY <2>2, RowsArming
  <2>4. row \in [Armings -> RowType] /\ worker \in [Armings -> WorkerType]
    BY DEF Inv, TypeOK, RowType, WorkerType
  <2>5. /\ row' \in [Armings -> RowType]
        /\ row'[r] = [status |-> "completed", at |-> a]
        /\ \A q \in Armings \ {r} : row'[q] = row[q]
    BY <2>1, <2>3, <2>4 DEF RowType
  <2>6. /\ worker'[g] = [pc |-> "run", at |-> a]
        /\ \A h \in Armings \ {g} : worker'[h] = worker[h]
    BY <2>1, <2>4
  <2>7. TypeOK'
    <3>1. [pc |-> "run", at |-> a] \in WorkerType
      BY <2>3, ScenariosAreBounded DEF WorkerType, Armings
    <3>2. worker' \in [Armings -> WorkerType]
      BY <2>1, <2>4, <3>1
    <3>3. overtaken' \subseteq Armings
      BY <2>1, <2>3 DEF Inv, TypeOK
    <3> QED
      BY <1>1, <2>1, <2>5, <3>2, <3>3 DEF Inv, TypeOK, RowType, WorkerType
  <2>8. KnownInv'
    BY <1>1, <2>2, <2>5, <2>7, KnownKept
  <2>9. CompletedHasRun'
    <3> SUFFICES ASSUME NEW q \in Armings, row'[q].status = "completed", q \notin revived
        PROVE  \/ ran[row'[q].at] > broke[row'[q].at] \/ row'[q].at \in lost
               \/ \E h \in Armings : worker'[h] = [pc |-> "run", at |-> row'[q].at]
      BY <1>1 DEF CompletedHasRun
    <3>1. CASE q = r
      BY <2>5, <2>6, <3>1
    <3>2. CASE q # r
      <4>1. \/ ran[row[q].at] > broke[row[q].at] \/ row[q].at \in lost
            \/ \E h \in Armings : worker[h] = [pc |-> "run", at |-> row[q].at]
        BY <2>5, <3>2 DEF Inv, CompletedHasRun
      <4> QED
        BY <1>1, <2>5, <2>6, <3>2, <4>1
    <3> QED
      BY <3>1, <3>2
  <2>10. ASSUME NEW h \in Armings PROVE WorkerInv(h)'
    <3>1. CASE h = g
      <4>1. job[g] = "running" /\ age[worker[g].at] # "ahead"
        BY <1>1 DEF Inv, WorkerInv, Due
      <4>2. age[a] # "ahead" \/ a \in overtaken'
        BY <2>1, <4>1
      <4> QED
        BY <1>1, <2>1, <2>3, <2>6, <3>1, <4>1, <4>2 DEF WorkerInv, Due
    <3>2. CASE h # g
      <4>1. overtaken \subseteq overtaken' /\ worker'[h] = worker[h]
        BY <2>1, <2>6, <3>2
      <4> QED
        BY <1>1, <2>1, <4>1 DEF Inv, WorkerInv, Due
    <3> QED
      BY <3>1, <3>2
  <2>11. ASSUME NEW h \in Armings, worker[h].pc \in {"run", "rest"}, owner[h] \notin revived
         PROVE  /\ owner[h] # r
                /\ row[owner[h]] = [status |-> "completed", at |-> worker[h].at]
                /\ Begun(h)
                /\ \A f \in Armings : worker[f].pc \in {"run", "rest"} /\ owner[f] = owner[h] => f = h
    BY <2>2, <2>11 DEF Inv, ClaimInv, Begun
  <2>12. r \notin revived => ran[a] = broke[a]
    <3>1. RanInv(a)
      BY <2>3 DEF Inv
    <3> QED
      BY <2>2, <2>3, <3>1 DEF RanInv
  <2>13. ASSUME NEW h \in Armings PROVE ClaimInv(h)'
    <3>1. CASE h = g
      <4>1. \A f \in Armings : r \notin revived /\ worker'[f].pc \in {"run", "rest"} /\ owner[f] = r => f = g
        BY <2>6, <2>11
      <4> QED
        BY <1>1, <2>5, <2>6, <2>12, <3>1, <4>1 DEF ClaimInv, Begun
    <3>2. CASE h # g
      <4> SUFFICES ASSUME worker[h].pc \in {"run", "rest"}, owner[h] \notin revived
          PROVE  /\ row'[owner[h]] = [status |-> "completed", at |-> worker[h].at]
                 /\ Begun(h)
                 /\ \A f \in Armings : worker'[f].pc \in {"run", "rest"} /\ owner[f] = owner[h] => f = h
        BY <1>1, <2>6, <3>2 DEF ClaimInv, Begun
      <4>1. owner[h] \in Armings \ {r}
        BY <2>11 DEF Inv, TypeOK
      <4> QED
        BY <2>5, <2>6, <2>11, <4>1
    <3> QED
      BY <3>1, <3>2
  <2>14. ASSUME NEW h \in Armings PROVE RanInv(h)'
    <3>1. owner[h] \in Armings
      BY DEF Inv, TypeOK
    <3>2. RanInv(h)
      BY DEF Inv
    <3>3. row[owner[h]].status = "completed" => row'[owner[h]] = row[owner[h]]
      BY <2>2, <2>5, <3>1
    <3> QED
      BY <1>1, <3>2, <3>3 DEF RanInv
  <2> QED
    BY <2>7, <2>8, <2>9, <2>10, <2>13, <2>14 DEF Inv
<1> QED
  BY <1>2, <1>3

\* What is known of a job at resuming a flow.
LEMMA RunsArming ==
    ASSUME Inv, NEW g \in Armings, worker[g].pc \in {"run", "rest"}
    PROVE  /\ worker[g].at \in 1 .. armed /\ worker[g].at \in Armings
           /\ owner[g] \in Armings /\ owner[worker[g].at] = owner[g]
           /\ owner[g] \notin revived =>
                 /\ row[owner[g]] = [status |-> "completed", at |-> worker[g].at]
                 /\ Begun(g)
                 /\ \A h \in Armings :
                       worker[h].pc \in {"run", "rest"} /\ owner[h] = owner[g] => h = g
<1>1. worker[g].at \in 1 .. armed /\ owner[worker[g].at] = owner[g]
  BY DEF Inv, WorkerInv
<1>2. worker[g].at \in Armings /\ owner[g] \in Armings
  BY <1>1, ArmedIsKnown DEF Inv, TypeOK
<1> QED
  BY <1>1, <1>2 DEF Inv, ClaimInv, Begun

LEMMA ResumeStep == ASSUME Inv, NEW g \in Armings, ResumeFlow(g) PROVE Inv'
<1> DEFINE a == worker[g].at
<1>1. /\ worker[g].pc = "run"
      /\ ran' = [ran EXCEPT ![a] = @ + 1]
      /\ worker' = [worker EXCEPT ![g].pc = "rest"]
      /\ UNCHANGED <<scenario, armed, age, owner, row, armer, job, tries, scan, replied,
                     broke, revived, overtaken, lost, faults, interruptions>>
  BY DEF ResumeFlow
<1>2. /\ a \in 1 .. armed /\ a \in Armings /\ owner[a] = owner[g] /\ armed \in Nat
      /\ ran \in [Armings -> Nat] /\ broke \in [Armings -> Nat]
      /\ worker \in [Armings -> WorkerType]
  <2>1. /\ armed \in Nat /\ ran \in [Armings -> Nat] /\ broke \in [Armings -> Nat]
        /\ worker \in [Armings -> WorkerType]
    BY DEF Inv, TypeOK, WorkerType
  <2> QED
    BY <1>1, <2>1, RunsArming
<1>3. /\ ran' \in [Armings -> Nat] /\ ran'[a] = ran[a] + 1
      /\ \A h \in Armings \ {a} : ran'[h] = ran[h]
  BY <1>1, <1>2
<1>4. /\ worker' \in [Armings -> WorkerType] /\ worker'[g] = [pc |-> "rest", at |-> a]
      /\ \A h \in Armings \ {g} : worker'[h] = worker[h]
  BY <1>1, <1>2 DEF WorkerType
<1>5. TypeOK'
  BY <1>1, <1>3, <1>4 DEF Inv, TypeOK, WorkerType
<1>6. KnownInv'
  <2>1. \A h \in Armings : h > armed => ran'[h] = ran[h]
    BY <1>2, <1>3 DEF Armings
  <2> QED
    BY <1>1, <1>5, <2>1, KnownKept
<1>7. owner[g] \notin revived =>
         /\ row[owner[g]] = [status |-> "completed", at |-> a] /\ ran[a] = broke[a]
         /\ \A h \in Armings :
               worker[h].pc \in {"run", "rest"} /\ owner[h] = owner[g] => h = g
  BY <1>1, RunsArming DEF Begun
<1>8. CompletedHasRun'
  <2> SUFFICES ASSUME NEW q \in Armings, row[q].status = "completed", q \notin revived
      PROVE  \/ ran'[row[q].at] > broke[row[q].at] \/ row[q].at \in lost
             \/ \E h \in Armings : worker'[h] = [pc |-> "run", at |-> row[q].at]
    BY <1>1 DEF CompletedHasRun
  <2>1. \/ ran[row[q].at] > broke[row[q].at] \/ row[q].at \in lost
        \/ \E h \in Armings : worker[h] = [pc |-> "run", at |-> row[q].at]
    BY DEF Inv, CompletedHasRun
  <2>2. row[q].at \in Armings /\ owner[row[q].at] = q
    BY DEF Inv, TypeOK, KnownInv
  <2>3. CASE row[q].at = a
    BY <1>2, <1>3, <1>7, <2>2, <2>3
  <2>4. CASE row[q].at # a
    BY <1>3, <1>4, <2>1, <2>2, <2>4
  <2> QED
    BY <2>3, <2>4
<1>9. ASSUME NEW h \in Armings PROVE WorkerInv(h)'
  <2>1. CASE h = g
    <3>1. /\ job[g] = "running" /\ g <= armed
          /\ a \in 1 .. armed /\ owner[a] = owner[g]
      BY <1>1 DEF Inv, WorkerInv
    <3> QED
      BY <1>1, <1>4, <2>1, <3>1 DEF WorkerInv
  <2>2. CASE h # g
    BY <1>1, <1>4, <2>2 DEF Inv, WorkerInv, Due
  <2> QED
    BY <2>1, <2>2
<1>10. \A f \in Armings :
          worker'[f].pc \in {"run", "rest"} => worker[f].pc \in {"run", "rest"}
  BY <1>1, <1>4
<1>11. ASSUME NEW h \in Armings PROVE ClaimInv(h)'
  <2> SUFFICES ASSUME worker'[h].pc \in {"run", "rest"}, owner[h] \notin revived
      PROVE  /\ row[owner[h]] = [status |-> "completed", at |-> worker'[h].at]
             /\ Begun(h)'
             /\ \A f \in Armings :
                   worker'[f].pc \in {"run", "rest"} /\ owner[f] = owner[h] => f = h
    BY <1>1 DEF ClaimInv
  <2>1. CASE h = g
    <3>1. Begun(g)'
      BY <1>1, <1>3, <1>4, <1>7, <2>1 DEF Begun
    <3> QED
      BY <1>4, <1>7, <1>10, <2>1, <3>1
  <2>2. CASE h # g
    <3>1. /\ worker'[h] = worker[h]
          /\ row[owner[h]] = [status |-> "completed", at |-> worker[h].at]
          /\ Begun(h) /\ worker[h].at \in Armings /\ owner[worker[h].at] = owner[h]
          /\ \A f \in Armings :
                worker[f].pc \in {"run", "rest"} /\ owner[f] = owner[h] => f = h
      BY <1>4, <2>2, RunsArming
    <3>2. worker[h].at # a
      BY <1>1, <1>2, <2>2, <3>1
    <3>3. Begun(h)'
      BY <1>1, <1>3, <3>1, <3>2 DEF Begun
    <3> QED
      BY <1>10, <3>1, <3>3
  <2> QED
    BY <2>1, <2>2
<1>12. ASSUME NEW h \in Armings PROVE RanInv(h)'
  <2>1. CASE h = a
    BY <1>1, <1>2, <1>3, <1>7, <2>1 DEF RanInv
  <2>2. CASE h # a
    BY <1>1, <1>3, <2>2 DEF Inv, RanInv
  <2> QED
    BY <2>1, <2>2
<1> QED
  BY <1>5, <1>6, <1>8, <1>9, <1>11, <1>12 DEF Inv

LEMMA FlowEndsStep == ASSUME Inv, NEW g \in Armings, FlowEnds(g) PROVE Inv'
<1>1. /\ worker[g].pc = "rest" /\ Ends(g)
      /\ UNCHANGED <<scenario, armed, age, owner, row, armer, tries, scan, replied,
                     ran, broke, revived, overtaken, lost, faults, interruptions>>
  BY DEF FlowEnds
<1>2. TypeOK'
  BY <1>1, EndsTyped DEF Inv, TypeOK, WorkerType
<1> QED
  BY <1>1, <1>2, EndsTyped, JobStep DEF Moved, Off

\* A job that drops what it was resuming, perhaps half way.
LEMMA LoseStep ==
    ASSUME Inv, TypeOK', NEW g \in Armings, worker[g].pc \in {"run", "rest"},
           UNCHANGED <<armed, age, owner, row, armer, ran, revived, overtaken>>,
           \/ UNCHANGED broke
           \/ worker[g].pc = "rest" /\ broke' = [broke EXCEPT ![worker[g].at] = @ + 1],
           lost' = lost \cup {worker[g].at}, worker'[g] = Off,
           \A h \in Armings \ {g} : worker'[h] = worker[h] /\ job'[h] = job[h]
    PROVE  Inv'
<1> DEFINE a == worker[g].at
<1>1. /\ a \in 1 .. armed /\ a \in Armings /\ owner[a] = owner[g] /\ armed \in Nat
      /\ ran \in [Armings -> Nat] /\ broke \in [Armings -> Nat]
      /\ owner[g] \notin revived =>
            /\ row[owner[g]] = [status |-> "completed", at |-> a] /\ Begun(g)
            /\ \A h \in Armings :
                  worker[h].pc \in {"run", "rest"} /\ owner[h] = owner[g] => h = g
  <2>1. armed \in Nat /\ ran \in [Armings -> Nat] /\ broke \in [Armings -> Nat]
    BY DEF Inv, TypeOK
  <2> QED
    BY <2>1, RunsArming
<1>2. /\ \A h \in Armings \ {a} : broke'[h] = broke[h]
      /\ broke'[a] = broke[a] \/ (worker[g].pc = "rest" /\ broke'[a] = broke[a] + 1)
  BY <1>1
<1>3. KnownInv'
  <2>1. \A h \in Armings : h > armed => broke'[h] = broke[h]
    BY <1>1, <1>2 DEF Armings
  <2> QED
    BY <2>1, KnownKept
<1>4. CompletedHasRun'
  <2> SUFFICES ASSUME NEW q \in Armings, row[q].status = "completed", q \notin revived
      PROVE  \/ ran[row[q].at] > broke'[row[q].at] \/ row[q].at \in lost'
             \/ \E h \in Armings : worker'[h] = [pc |-> "run", at |-> row[q].at]
    BY DEF CompletedHasRun
  <2>1. \/ ran[row[q].at] > broke[row[q].at] \/ row[q].at \in lost
        \/ \E h \in Armings : worker[h] = [pc |-> "run", at |-> row[q].at]
    BY DEF Inv, CompletedHasRun
  <2>2. row[q].at \in Armings
    BY DEF Inv, TypeOK
  <2> QED
    BY <1>2, <2>1, <2>2
<1>5. ASSUME NEW h \in Armings PROVE WorkerInv(h)'
  <2>1. CASE h = g
    BY <2>1 DEF WorkerInv, Off
  <2>2. CASE h # g
    BY <2>2 DEF Inv, WorkerInv, Due
  <2> QED
    BY <2>1, <2>2
<1>6. \A f \in Armings : worker'[f].pc \in {"run", "rest"} => f # g /\ worker'[f] = worker[f]
  BY DEF Off
<1>7. ASSUME NEW h \in Armings PROVE ClaimInv(h)'
  <2> SUFFICES ASSUME worker'[h].pc \in {"run", "rest"}, owner[h] \notin revived
      PROVE  /\ row[owner[h]] = [status |-> "completed", at |-> worker'[h].at]
             /\ Begun(h)'
             /\ \A f \in Armings :
                   worker'[f].pc \in {"run", "rest"} /\ owner[f] = owner[h] => f = h
    BY DEF ClaimInv
  <2>1. /\ h # g /\ worker'[h] = worker[h]
        /\ row[owner[h]] = [status |-> "completed", at |-> worker[h].at]
        /\ Begun(h) /\ worker[h].at \in Armings /\ owner[worker[h].at] = owner[h]
        /\ \A f \in Armings :
              worker[f].pc \in {"run", "rest"} /\ owner[f] = owner[h] => f = h
    BY <1>6, RunsArming
  <2>2. worker[h].at # a
    BY <1>1, <2>1
  <2>3. Begun(h)'
    BY <1>2, <2>1, <2>2 DEF Begun
  <2> QED
    BY <1>6, <2>1, <2>3
<1>8. ASSUME NEW h \in Armings PROVE RanInv(h)'
  <2>1. CASE h = a
    <3>1. RanInv(a)
      BY <1>1 DEF Inv
    <3> QED
      BY <1>1, <1>2, <2>1, <3>1 DEF RanInv, Begun
  <2>2. CASE h # a
    BY <1>2, <2>2 DEF Inv, RanInv
  <2> QED
    BY <2>1, <2>2
<1> QED
  BY <1>3, <1>4, <1>5, <1>7, <1>8 DEF Inv

LEMMA DieStep == ASSUME Inv, NEW g \in Armings, WorkerDies(g) PROVE Inv'
<1>1. /\ worker' = [worker EXCEPT ![g] = Off] /\ job' = [job EXCEPT ![g] = "waiting"]
      /\ lost' = IF Unfinished(g) THEN lost \cup {worker[g].at} ELSE lost
      /\ Fault
      /\ UNCHANGED <<scenario, armed, age, owner, row, armer, tries, scan, replied, ran,
                     broke, revived, overtaken, interruptions>>
  BY DEF WorkerDies
<1>2. /\ worker' \in [Armings -> WorkerType] /\ worker'[g] = Off
      /\ job' \in [Armings -> {"none", "waiting", "running", "ended"}]
      /\ \A h \in Armings \ {g} : worker'[h] = worker[h] /\ job'[h] = job[h]
  BY <1>1, OffTyped DEF Inv, TypeOK, WorkerType
<1>3. Unfinished(g) => worker[g].pc \in {"run", "rest"}
  BY DEF Unfinished
<1>4. TypeOK'
  <2>1. lost' \subseteq Armings
    <3>1. lost \subseteq Armings
      BY DEF Inv, TypeOK
    <3>2. Unfinished(g) => worker[g].at \in Armings
      BY <1>3, RunsArming
    <3> QED
      BY <1>1, <3>1, <3>2
  <2> QED
    BY <1>1, <1>2, <2>1, FaultTyped DEF Inv, TypeOK, WorkerType
<1>5. CASE Unfinished(g)
  BY <1>1, <1>2, <1>3, <1>4, <1>5, LoseStep
<1>6. CASE ~Unfinished(g)
  <2>1. WorkerInv(g)'
    BY <1>2 DEF WorkerInv, Off
  <2>2. worker[g].pc # "run" /\ worker'[g].pc \notin {"run", "rest"}
    BY <1>2, <1>6 DEF Unfinished, Off
  <2> QED
    BY <1>1, <1>2, <1>4, <1>6, <2>1, <2>2, JobStep DEF Moved
<1> QED
  BY <1>5, <1>6

\* What a job has done of a flow that failed half way.
Breaks(g) ==
    IF worker[g].pc = "rest" /\ Unfinished(g)
    THEN [broke EXCEPT ![worker[g].at] = @ + 1] ELSE broke

LEMMA FailStep == ASSUME Inv, NEW g \in Armings, ResumeFails(g) PROVE Inv'
<1> DEFINE r == owner[g]
           a == worker[g].at
<1>1. /\ Fault /\ broke' = Breaks(g)
      /\ tries' = [tries EXCEPT ![g] = IF TriesLeft(g) THEN @ + 1 ELSE @]
      /\ job' = [job EXCEPT ![g] = IF TriesLeft(g) THEN "waiting" ELSE "ended"]
      /\ worker' = [worker EXCEPT ![g] = Off]
      /\ UNCHANGED <<scenario, armed, age, owner, armer, scan, replied, ran,
                     revived, overtaken, interruptions>>
  BY DEF ResumeFails, Breaks
<1>2. /\ worker' \in [Armings -> WorkerType] /\ worker'[g] = Off
      /\ job' \in [Armings -> {"none", "waiting", "running", "ended"}]
      /\ \A h \in Armings \ {g} : worker'[h] = worker[h] /\ job'[h] = job[h]
  BY <1>1, OffTyped DEF Inv, TypeOK, WorkerType
<1>3. tries' \in [Armings -> 0 .. Attempts - 1]
  BY <1>1, ScenariosAreBounded DEF Inv, TypeOK, TriesLeft
<1>4. Unfinished(g) =>
      /\ worker[g].pc \in {"run", "rest"}
      /\ a \in 1 .. armed /\ a \in Armings /\ r \in Armings /\ owner[a] = r
      /\ r \notin revived =>
            /\ row[r] = [status |-> "completed", at |-> a] /\ Begun(g)
            /\ \A h \in Armings : worker[h].pc \in {"run", "rest"} /\ owner[h] = r => h = g
  BY RunsArming DEF Unfinished
<1>5. /\ row \in [Armings -> RowType] /\ armed \in Nat
      /\ ran \in [Armings -> Nat] /\ broke \in [Armings -> Nat]
  BY DEF Inv, TypeOK, RowType
<1>6. /\ broke' \in [Armings -> Nat]
      /\ \A h \in Armings : ~Unfinished(g) \/ h # a => broke'[h] = broke[h]
      /\ Unfinished(g) => broke'[a] = IF worker[g].pc = "rest" THEN broke[a] + 1 ELSE broke[a]
  BY <1>1, <1>4, <1>5 DEF Breaks
<1>7. CASE ~Unfinished(g) /\ UNCHANGED <<row, lost>>
  <2>1. TypeOK'
    BY <1>1, <1>2, <1>3, <1>6, <1>7, FaultTyped DEF Inv, TypeOK, WorkerType
  <2>2. WorkerInv(g)'
    BY <1>2 DEF WorkerInv, Off
  <2>3. worker[g].pc # "run" /\ worker'[g].pc \notin {"run", "rest"} /\ UNCHANGED broke
    BY <1>1, <1>2, <1>7 DEF Unfinished, Off, Breaks
  <2> QED
    BY <1>1, <1>2, <1>7, <2>1, <2>2, <2>3, JobStep DEF Moved
<1>8. CASE Unfinished(g) /\ lost' = lost \cup {a} /\ UNCHANGED row
  <2>1. TypeOK'
    BY <1>1, <1>2, <1>3, <1>4, <1>6, <1>8, FaultTyped DEF Inv, TypeOK, WorkerType
  <2>2. \/ UNCHANGED broke
        \/ worker[g].pc = "rest" /\ broke' = [broke EXCEPT ![a] = @ + 1]
    BY <1>1 DEF Breaks
  <2> QED
    BY <1>1, <1>2, <1>4, <1>8, <2>1, <2>2, LoseStep
<1>9. CASE Unfinished(g) /\ row' = Requeued(r) /\ UNCHANGED lost
  <2>1. /\ row' \in [Armings -> RowType]
        /\ \A q \in Armings \ {r} : row'[q] = row[q]
        /\ row'[r].at = row[r].at /\ row'[r].status # "completed"
        /\ row'[r].status = "none" <=> row[r].status = "none"
    BY <1>4, <1>5, <1>9 DEF Requeued, RowType
  <2>2. TypeOK'
    BY <1>1, <1>2, <1>3, <1>6, <1>9, <2>1, FaultTyped DEF Inv, TypeOK, WorkerType, RowType
  <2>3. KnownInv'
    <3>1. \A q \in Armings :
             row'[q].at = row[q].at /\ (row'[q].status = "none" <=> row[q].status = "none")
      BY <2>1
    <3>2. \A h \in Armings : h > armed => broke'[h] = broke[h]
      BY <1>4, <1>5, <1>6, <1>9 DEF Armings
    <3> QED
      BY <1>1, <2>2, <3>1, <3>2, KnownKept
  <2>4. CompletedHasRun'
    <3> SUFFICES ASSUME NEW q \in Armings, row'[q].status = "completed", q \notin revived
        PROVE  \/ ran[row'[q].at] > broke'[row'[q].at] \/ row'[q].at \in lost
               \/ \E h \in Armings : worker'[h] = [pc |-> "run", at |-> row'[q].at]
      BY <1>1, <1>9 DEF CompletedHasRun
    <3>1. q # r /\ row'[q] = row[q]
      BY <2>1
    <3>2. \/ ran[row[q].at] > broke[row[q].at] \/ row[q].at \in lost
          \/ \E h \in Armings : worker[h] = [pc |-> "run", at |-> row[q].at]
      BY <3>1 DEF Inv, CompletedHasRun
    <3>3. owner[row[q].at] = q /\ row[q].at \in Armings
      BY <3>1 DEF Inv, KnownInv, TypeOK
    <3>4. a # row[q].at
      BY <1>4, <1>9, <3>1, <3>3
    <3> QED
      BY <1>2, <1>6, <3>1, <3>2, <3>3, <3>4
  <2>5. ASSUME NEW h \in Armings PROVE WorkerInv(h)'
    <3>1. CASE h = g
      BY <1>2, <3>1 DEF WorkerInv, Off
    <3>2. CASE h # g
      BY <1>1, <1>2, <3>2 DEF Inv, WorkerInv, Due
    <3> QED
      BY <3>1, <3>2
  <2>6. ASSUME NEW h \in Armings PROVE ClaimInv(h)'
    <3> SUFFICES ASSUME worker'[h].pc \in {"run", "rest"}, owner[h] \notin revived
        PROVE  /\ row'[owner[h]] = [status |-> "completed", at |-> worker'[h].at]
               /\ Begun(h)'
               /\ \A f \in Armings :
                     worker'[f].pc \in {"run", "rest"} /\ owner[f] = owner[h] => f = h
      BY <1>1 DEF ClaimInv
    <3>1. \A f \in Armings :
             worker'[f].pc \in {"run", "rest"} => f # g /\ worker'[f] = worker[f]
      BY <1>2 DEF Off
    <3>2. /\ owner[h] \in Armings
          /\ row[owner[h]] = [status |-> "completed", at |-> worker[h].at]
          /\ Begun(h) /\ worker[h].at \in Armings /\ owner[worker[h].at] = owner[h]
          /\ \A f \in Armings :
                worker[f].pc \in {"run", "rest"} /\ owner[f] = owner[h] => f = h
      BY <3>1, RunsArming
    <3>3. owner[h] # r
      BY <1>4, <1>9, <3>1, <3>2
    <3>4. worker[h].at # a
      BY <1>4, <1>9, <3>2, <3>3
    <3>5. Begun(h)'
      BY <1>1, <1>6, <3>1, <3>2, <3>4 DEF Begun
    <3> QED
      BY <2>1, <3>1, <3>2, <3>3, <3>5
  <2>7. ASSUME NEW h \in Armings PROVE RanInv(h)'
    <3>1. owner[h] \in Armings
      BY DEF Inv, TypeOK
    <3>2. RanInv(h)
      BY DEF Inv
    <3>3. CASE h = a
      BY <1>1, <1>4, <1>5, <1>6, <1>9, <3>2, <3>3 DEF RanInv, Begun
    <3>4. CASE h # a /\ owner[h] = r
      BY <1>1, <1>4, <1>5, <1>6, <1>9, <3>2, <3>4 DEF RanInv
    <3>5. CASE h # a /\ owner[h] # r
      BY <1>1, <1>6, <2>1, <3>1, <3>2, <3>5 DEF RanInv
    <3> QED
      BY <3>3, <3>4, <3>5
  <2> QED
    BY <2>2, <2>3, <2>4, <2>5, <2>6, <2>7 DEF Inv
<1> QED
  BY <1>7, <1>8, <1>9 DEF ResumeFails

-----------------------------------------------------------------------------
(* Theorems *)

LEMMA InitInv == Init => Inv
<1> SUFFICES ASSUME Init PROVE Inv
  OBVIOUS
<1>1. TypeOK
  BY TypeInit
<1>2. KnownInv
  BY DEF Init, KnownInv, Armings
<1>3. CompletedHasRun
  BY DEF Init, CompletedHasRun
<1>4. \A g \in Armings : WorkerInv(g) /\ ClaimInv(g) /\ RanInv(g)
  BY DEF Init, WorkerInv, ClaimInv, RanInv, Off, Armings
<1> QED
  BY <1>1, <1>2, <1>3, <1>4 DEF Inv

LEMMA NextInv == Inv /\ [Next]_vars => Inv'
<1> SUFFICES ASSUME Inv, [Next]_vars PROVE Inv'
  OBVIOUS
<1>1. CASE Arming
  BY <1>1, ArmStep, MarkStep, ArmerSteps DEF Arming
<1>2. CASE Scanning
  BY <1>2, ScanSteps
<1>3. CASE Resuming
  BY <1>3, ReadStep, CancelStep, ClaimStep, ResumeStep, FlowEndsStep, FailStep, DieStep DEF Resuming
<1>4. CASE Others
  BY <1>4, OtherSteps
<1>5. CASE UNCHANGED vars
  <2>1. TypeOK'
    BY <1>5 DEF Inv, TypeOK, vars
  <2> QED
    BY <1>5, <2>1, QuietStep DEF vars, Moved
<1> QED
  BY <1>1, <1>2, <1>3, <1>4, <1>5 DEF Next

\* The invariant holds of every behaviour of the scan, the armers and the jobs.
THEOREM InvCorrect == Spec => []Inv
BY InitInv, NextInv, PTL DEF Spec

\* Every variable keeps its type.
THEOREM TypeCorrect == Spec => []TypeOK
BY InvCorrect, PTL DEF Inv

\* No arming resumes its flow more than once, and once more for each time the
\* flow failed half way, unless its row was over when it was marked scheduled.
THEOREM RunsOnceCorrect == Spec => []RunsOnce
<1>1. Inv => RunsOnce
  <2> SUFFICES ASSUME Inv, NEW g \in Armings, owner[g] \notin revived
      PROVE  ran[g] <= 1 + broke[g]
    BY DEF RunsOnce
  <2>1. /\ ran[g] \in Nat /\ broke[g] \in Nat
        /\ ran[g] = broke[g] \/ ran[g] = broke[g] + 1
    BY DEF Inv, TypeOK, RanInv
  <2> QED
    BY <2>1
<1> QED
  BY <1>1, InvCorrect, PTL

\* A completed row has had its flow resumed and not fail, its job is about to,
\* or the claim was lost.
THEOREM CompletedHasRunCorrect == Spec => []CompletedHasRun
BY InvCorrect, PTL DEF Inv

\* No flow is resumed before its time, unless the step was armed again between
\* a job's read and its claim.
THEOREM RunsOnTimeCorrect == Spec => RunsOnTime
<1>1. Inv /\ [Next]_vars =>
         [\A g \in Armings : ran'[g] # ran[g] => Due(g) \/ g \in overtaken]_vars
  <2> SUFFICES ASSUME Inv, Next, NEW g \in Armings, ran'[g] # ran[g]
      PROVE  Due(g) \/ g \in overtaken
    OBVIOUS
  <2>1. PICK h \in Armings : ResumeFlow(h)
    BY DEF Next, Arming, Arm, MarkScheduled, AddJob, ResetAfterFailure, ArmerDies,
           Scanning, RemoveStuckJobs, SweepStuck, ClaimDueRows, EnqueueClaimed, Unclaim, ScanDies,
           Resuming, ReadRow, CancelEngaged, ClaimForRun, FlowEnds, ResumeFails,
           WorkerDies, Ends,
           Others, ContactWrites, CancelActive, Age
  <2>2. worker[h].pc = "run" /\ g = worker[h].at
    BY <2>1 DEF ResumeFlow, Inv, TypeOK
  <2> QED
    BY <2>2 DEF Inv, WorkerInv
<1> QED
  BY <1>1, InvCorrect, PTL DEF Spec, RunsOnTime
=============================================================================

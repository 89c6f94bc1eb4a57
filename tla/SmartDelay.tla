----------------------------- MODULE SmartDelay -----------------------------
(***************************************************************************)
(* A wait step, a follow-up or a quick-reply follow-up of one contact: the *)
(* flow stops, a row of ContactOnSmartDelay remembers where, and a job     *)
(* resumes it when its time has come.  Each arming of the step is          *)
(* numbered; the number stands for its triggerAt, its createdAt and, since *)
(* a job id is made of row and triggerAt, for its job.  A follow-up that   *)
(* is armed again while its row is active moves that row to the new        *)
(* arming; otherwise an arming makes a row, known by the number of its     *)
(* first arming.                                                           *)
(*                                                                         *)
(* Rows are moved by the worker that arms, by the scan of every five       *)
(* minutes, by resume jobs and by cancels, none of which locks a row for   *)
(* longer than one statement: a statement or a queue call is a step.       *)
(***************************************************************************)
EXTENDS Naturals

CONSTANTS
    Scenarios,  \* what to look at: a type of step, and how often it is armed and something fails
    MaxArms,    \* most armings of any scenario
    Attempts    \* tries of a resume job

Types == {"waitNode", "followUp", "quickReplyFollowUp"}

ASSUME ScenariosAreBounded ==
    /\ MaxArms \in Nat /\ Attempts \in Nat \ {0}
    /\ Scenarios \subseteq [type : Types, arms : 0 .. MaxArms, faults : Nat, interruptions : Nat]

VARIABLES
    scenario,    \* the type of the step and the bounds, which never change
    armed,       \* armings so far
    age,         \* age[g]: how far the triggerAt of arming g is
    owner,       \* owner[g]: the row that arming g is of
    row,         \* row[r]: status, and the arming it waits for
    armer,       \* armer[g]: where scheduleSmartDelayResume stands
    job,         \* job[g]: the job of arming g in its queue
    tries,       \* tries[g]: attempts of that job that failed
    worker,      \* worker[g]: where its handler stands, and the arming it is at
    scan,        \* the scan: where it stands, and the armings of its batch
    replied,     \* the number of armings when the contact last wrote
    ran,         \* ran[g]: how often the flow of arming g was begun
    broke,       \* history: how often it failed after a part of it was done
    revived,     \* history: rows that were over when they were marked scheduled
    overtaken,   \* history: armings claimed by a job that read an earlier one
    lost,        \* history: armings claimed and not resumed, or not to the end
    faults,      \* calls that failed and workers that died
    interruptions \* messages of the contact and cancels by others

vars == <<scenario, armed, age, owner, row, armer, job, tries, worker, scan,
          replied, ran, broke, revived, overtaken, lost, faults, interruptions>>

type == scenario.type
Armings == 1 .. MaxArms

Active(r) == row[r].status \in {"pending", "scheduled"}
ActiveRows == {r \in Armings : Active(r)}

\* The unique indexes: a follow-up has one active row, waits have any number.
OneActive(r) == type = "waitNode" \/ ActiveRows \subseteq {r}

\* Its time has come, and has come longer ago than the sweep's grace.
Due(g) == age[g] # "ahead"
Stuck(g) == age[g] = "stuck"

Fault == faults < scenario.faults /\ faults' = faults + 1
Interruption == interruptions < scenario.interruptions /\ interruptions' = interruptions + 1

\* queue.add and addBulk: an id that is taken is left alone.  Of the jobs that
\* ended only the latest are kept, so the ids of some, free, are free again.
Ended == {g \in Armings : job[g] = "ended"}
AddJobs(S) ==
    \E free \in SUBSET (S \cap Ended) :
        LET new == {g \in S : job[g] = "none"} \cup free IN
            /\ job' = [g \in Armings |-> IF g \in new THEN "waiting" ELSE job[g]]
            /\ tries' = [g \in Armings |-> IF g \in new THEN 0 ELSE tries[g]]

\* Mutant: the jobs are left where they are.
RemovedNone(S) == job

\* queue.remove leaves a job alone while it is processed.
Removed(S) == [g \in Armings |-> IF g \in S /\ job[g] # "running" THEN "none" ELSE job[g]]

\* resetToPending, in the rows of a set of armings.
Reset(S) ==
    [r \in Armings |-> IF row[r].status = "scheduled" /\ \E g \in S : owner[g] = r
                       THEN [row[r] EXCEPT !.status = "pending"] ELSE row[r]]

-----------------------------------------------------------------------------
(* scheduleSmartDelayResume.                                               *)

\* The row an arming is for: the active one of a follow-up, or a new one.
RowOf(g) == IF type # "waitNode" /\ ActiveRows # {} THEN ActiveRows ELSE {g}

\* A wait that ends within the enqueue window goes to the queue at once, a
\* longer one is left to the scan.
Arm ==
    /\ armed < scenario.arms
    /\ armed' = armed + 1
    /\ LET g == armed + 1 IN
         \E r \in RowOf(g), next \in {"mark", "off"} :
            /\ row' = [row EXCEPT ![r] = [status |-> "pending", at |-> g]]
            /\ owner' = [owner EXCEPT ![g] = r]
            /\ armer' = [armer EXCEPT ![g] = next]
    /\ UNCHANGED <<scenario, age, job, tries, worker, scan, replied, ran, broke,
                   revived, overtaken, lost, faults, interruptions>>

\* markScheduled: whatever the row has become meanwhile, unless the index
\* keeps a row that is over from coming back beside an active one.
MarkScheduled(g) ==
    LET r == owner[g] IN
    /\ armer[g] = "mark"
    /\ \/ /\ OneActive(r)
          /\ row' = [row EXCEPT ![r].status = "scheduled"]
          /\ revived' = IF Active(r) THEN revived ELSE revived \cup {r}
          /\ armer' = [armer EXCEPT ![g] = "add"]
          /\ UNCHANGED faults
       \/ /\ armer' = [armer EXCEPT ![g] = "reset"]
          /\ IF OneActive(r) THEN Fault ELSE UNCHANGED faults
          /\ UNCHANGED <<row, revived>>
    /\ UNCHANGED <<scenario, armed, age, owner, job, tries, worker, scan, replied,
                   ran, broke, overtaken, lost, interruptions>>

\* The job is added; a call that fails may have added it.
AddJob(g) ==
    /\ armer[g] = "add"
    /\ \/ AddJobs({g}) /\ armer' = [armer EXCEPT ![g] = "off"] /\ UNCHANGED faults
       \/ /\ Fault
          /\ AddJobs({g}) \/ UNCHANGED <<job, tries>>
          /\ armer' = [armer EXCEPT ![g] = "reset"]
    /\ UNCHANGED <<scenario, armed, age, owner, row, worker, scan, replied,
                   ran, broke, revived, overtaken, lost, interruptions>>

\* After a failure the row goes back to the scan, if this works.
ResetAfterFailure(g) ==
    /\ armer[g] = "reset"
    /\ armer' = [armer EXCEPT ![g] = "off"]
    /\ \/ row' = Reset({g}) /\ UNCHANGED faults
       \/ Fault /\ UNCHANGED row
    /\ UNCHANGED <<scenario, armed, age, owner, job, tries, worker, scan, replied,
                   ran, broke, revived, overtaken, lost, interruptions>>

ArmerDies(g) ==
    /\ armer[g] \in {"mark", "add", "reset"}
    /\ Fault
    /\ armer' = [armer EXCEPT ![g] = "off"]
    /\ UNCHANGED <<scenario, armed, age, owner, row, job, tries, worker, scan, replied,
                   ran, broke, revived, overtaken, lost, interruptions>>

-----------------------------------------------------------------------------
(* scanSmartDelay.                                                         *)

Resting == [pc |-> "idle", batch |-> {}]

\* The sweep lists rows scheduled long ago and frees the ids of their jobs, as
\* far as it can, before it lets the scan have them again.
RemoveStuckJobs ==
    /\ scan.pc = "idle"
    /\ LET stuck == {row[r].at : r \in {q \in Armings : row[q].status = "scheduled" /\ Stuck(row[q].at)}} IN
         /\ stuck # {}
         /\ scan' = [pc |-> "sweep", batch |-> stuck]
         /\ \/ job' = Removed(stuck) /\ UNCHANGED faults
            \/ Fault /\ UNCHANGED job
    /\ UNCHANGED <<scenario, armed, age, owner, row, armer, tries, worker, replied,
                   ran, broke, revived, overtaken, lost, interruptions>>

\* Rows armed again in between are left alone (triggerAtBefore).
SweepStuck ==
    /\ scan.pc = "sweep"
    /\ scan' = Resting
    /\ row' = [r \in Armings |-> IF Stuck(row[r].at) THEN Reset(scan.batch)[r] ELSE row[r]]
    /\ UNCHANGED <<scenario, armed, age, owner, armer, job, tries, worker, replied,
                   ran, broke, revived, overtaken, lost, faults, interruptions>>

\* Of the pending rows those that come due within the window, which is open.
ClaimDueRows ==
    /\ scan.pc = "idle"
    /\ \E due \in SUBSET {r \in Armings : row[r].status = "pending"} :
         /\ due # {}
         /\ row' = [r \in Armings |-> IF r \in due THEN [row[r] EXCEPT !.status = "scheduled"]
                                      ELSE row[r]]
         /\ scan' = [pc |-> "enqueue", batch |-> {row[r].at : r \in due}]
    /\ UNCHANGED <<scenario, armed, age, owner, armer, job, tries, worker, replied,
                   ran, broke, revived, overtaken, lost, faults, interruptions>>

EnqueueClaimed ==
    /\ scan.pc = "enqueue"
    /\ \/ AddJobs(scan.batch) /\ scan' = Resting /\ UNCHANGED faults
       \/ /\ Fault
          /\ AddJobs(scan.batch) \/ UNCHANGED <<job, tries>>
          /\ scan' = [scan EXCEPT !.pc = "unclaim"]
    /\ UNCHANGED <<scenario, armed, age, owner, row, armer, worker, replied,
                   ran, broke, revived, overtaken, lost, interruptions>>

Unclaim ==
    /\ scan.pc = "unclaim"
    /\ scan' = Resting
    /\ \/ row' = Reset(scan.batch) /\ UNCHANGED faults
       \/ Fault /\ UNCHANGED row
    /\ UNCHANGED <<scenario, armed, age, owner, armer, job, tries, worker, replied,
                   ran, broke, revived, overtaken, lost, interruptions>>

ScanDies ==
    /\ scan.pc # "idle"
    /\ Fault
    /\ scan' = Resting
    /\ UNCHANGED <<scenario, armed, age, owner, row, armer, job, tries, worker, replied,
                   ran, broke, revived, overtaken, lost, interruptions>>

-----------------------------------------------------------------------------
(* runWaitResume, runFollowUpResume, runQuickReplyFollowUpResume.          *)

Off == [pc |-> "off", at |-> 0]

\* Mutant: a row armed again for later is not told from one whose time has come.
WakesAnyTime(r) == row[r].status = "scheduled"

\* The row waits for this, and its time has come.
Wakes(r) == row[r].status = "scheduled" /\ Due(row[r].at)

Ends(g) == job' = [job EXCEPT ![g] = "ended"] /\ worker' = [worker EXCEPT ![g] = Off]

\* What the checks may answer of the arming that was read: the contact has
\* written since (hasIncomingMessageSince), and for a quick reply perhaps that
\* the bot is paused (ensureActive).
Verdicts(at) ==
    CASE type = "waitNode" -> {"claim"}
      [] type # "waitNode" /\ replied >= at -> {"cancel"}
      [] type = "followUp" /\ replied < at -> {"claim"}
      [] OTHER -> {"claim", "cancel"}

ReadRow(g) ==
    LET r == owner[g] IN
    /\ job[g] = "waiting" /\ Due(g)
    /\ IF Wakes(r)
       THEN /\ job' = [job EXCEPT ![g] = "running"]
            /\ \E v \in Verdicts(row[r].at) :
                  worker' = [worker EXCEPT ![g] = [pc |-> v, at |-> row[r].at]]
       ELSE Ends(g)
    /\ UNCHANGED <<scenario, armed, age, owner, row, armer, tries, scan, replied,
                   ran, broke, revived, overtaken, lost, faults, interruptions>>

\* Mutant: whoever asks gets the row.
ClaimableUnlessCanceled(r) == row[r].status # "canceled"

\* claimForRun.
Claimable(r) == row[r].status = "scheduled"

CancelEngaged(g) ==
    LET r == owner[g] IN
    /\ worker[g].pc = "cancel"
    /\ row' = IF Claimable(r) THEN [row EXCEPT ![r].status = "canceled"] ELSE row
    /\ Ends(g)
    /\ UNCHANGED <<scenario, armed, age, owner, armer, tries, scan, replied,
                   ran, broke, revived, overtaken, lost, faults, interruptions>>

ClaimForRun(g) ==
    LET r == owner[g] IN
    /\ worker[g].pc = "claim"
    /\ \/ /\ Claimable(r)
          /\ row' = [row EXCEPT ![r].status = "completed"]
          /\ worker' = [worker EXCEPT ![g] = [pc |-> "run", at |-> row[r].at]]
          /\ overtaken' = IF worker[g].at = row[r].at THEN overtaken
                          ELSE overtaken \cup {row[r].at}
          /\ UNCHANGED job
       \/ ~Claimable(r) /\ Ends(g) /\ UNCHANGED <<row, overtaken>>
    /\ UNCHANGED <<scenario, armed, age, owner, armer, tries, scan, replied,
                   ran, broke, revived, lost, faults, interruptions>>

\* The flow begins: a wait and a quick reply run it here, up to its first
\* message or other effect; a follow-up puts it into the queue.
ResumeFlow(g) ==
    /\ worker[g].pc = "run"
    /\ ran' = [ran EXCEPT ![worker[g].at] = @ + 1]
    /\ worker' = [worker EXCEPT ![g].pc = "rest"]
    /\ UNCHANGED <<scenario, armed, age, owner, row, armer, job, tries, scan, replied,
                   broke, revived, overtaken, lost, faults, interruptions>>

\* The rest of the flow: what it still sends, writes and puts into the queue.
FlowEnds(g) ==
    /\ worker[g].pc = "rest"
    /\ Ends(g)
    /\ UNCHANGED <<scenario, armed, age, owner, row, armer, tries, scan, replied,
                   ran, broke, revived, overtaken, lost, faults, interruptions>>

\* Mutant: one try too many.
TriesLeftAfterLast(g) == tries[g] <= Attempts
TriesLeft(g) == tries[g] + 1 < Attempts

\* Mutant: the claim is kept.
RequeuedNever(r) == row

\* requeueClaimedRun, of the row a job has claimed.
Requeued(r) ==
    IF row[r].status = "completed" THEN [row EXCEPT ![r].status = "scheduled"] ELSE row

\* The claim is made and the flow is not yet through, or not yet queued.
Unfinished(g) ==
    worker[g].pc = "run" \/ (worker[g].pc = "rest" /\ type # "followUp")

\* A check, the flow or the queue throws, the flow perhaps after it has sent a
\* message.  A wait and a quick reply hand their claim back, if that works, and
\* the whole flow is resumed again; a follow-up keeps it.  The job is tried
\* again, or ends and keeps its id.
ResumeFails(g) ==
    LET r == owner[g] IN
    /\ worker[g].pc # "off"
    /\ Fault
    /\ \/ ~Unfinished(g) /\ UNCHANGED <<row, lost>>
       \/ /\ Unfinished(g) /\ type # "followUp" /\ OneActive(r)
          /\ row' = Requeued(r)
          /\ UNCHANGED lost
       \/ /\ Unfinished(g)
          /\ lost' = lost \cup {worker[g].at}
          /\ UNCHANGED row
    /\ broke' = IF worker[g].pc = "rest" /\ Unfinished(g)
                THEN [broke EXCEPT ![worker[g].at] = @ + 1] ELSE broke
    /\ tries' = [tries EXCEPT ![g] = IF TriesLeft(g) THEN @ + 1 ELSE @]
    /\ job' = [job EXCEPT ![g] = IF TriesLeft(g) THEN "waiting" ELSE "ended"]
    /\ worker' = [worker EXCEPT ![g] = Off]
    /\ UNCHANGED <<scenario, armed, age, owner, armer, scan, replied, ran,
                   revived, overtaken, interruptions>>

\* A job whose worker dies is run again; a claim it had made is not undone.
WorkerDies(g) ==
    /\ worker[g].pc # "off"
    /\ Fault
    /\ job' = [job EXCEPT ![g] = "waiting"]
    /\ worker' = [worker EXCEPT ![g] = Off]
    /\ lost' = IF Unfinished(g) THEN lost \cup {worker[g].at} ELSE lost
    /\ UNCHANGED <<scenario, armed, age, owner, row, armer, tries, scan, replied,
                   ran, broke, revived, overtaken, interruptions>>

-----------------------------------------------------------------------------
(* Everybody else.                                                         *)

ContactWrites ==
    /\ Interruption
    /\ type # "waitNode" /\ replied # armed
    /\ replied' = armed
    /\ UNCHANGED <<scenario, armed, age, owner, row, armer, job, tries, worker, scan,
                   ran, broke, revived, overtaken, lost, faults>>

Canceled ==
    [r \in Armings |-> IF Active(r) THEN [row[r] EXCEPT !.status = "canceled"] ELSE row[r]]

\* cancelSmartDelaysForWorkspace, which also drops the jobs as far as it can;
\* for quick replies also a newer node, another flow, a published version, a
\* hand-off.
CancelActive ==
    /\ Interruption
    /\ ActiveRows # {}
    /\ row' = Canceled
    /\ \/ UNCHANGED job
       \/ job' = Removed({row[r].at : r \in ActiveRows})
    /\ UNCHANGED <<scenario, armed, age, owner, armer, tries, worker, scan, replied,
                   ran, broke, revived, overtaken, lost, faults>>

\* Time passes.  A step armed again waits as long again, so that its time does
\* not come before that of the earlier arming.
Later(a) == IF a = "ahead" THEN "due" ELSE "stuck"
Age(g) ==
    /\ g <= armed /\ age[g] # "stuck" /\ \A e \in 1 .. g - 1 : age[e] # age[g]
    /\ age' = [age EXCEPT ![g] = Later(@)]
    /\ UNCHANGED <<scenario, armed, owner, row, armer, job, tries, worker, scan, replied,
                   ran, broke, revived, overtaken, lost, faults, interruptions>>

-----------------------------------------------------------------------------
Init ==
    /\ scenario \in Scenarios
    /\ armed = 0
    /\ age = [g \in Armings |-> "ahead"]
    /\ owner = [g \in Armings |-> g]
    /\ row = [r \in Armings |-> [status |-> "none", at |-> r]]
    /\ armer = [g \in Armings |-> "off"]
    /\ job = [g \in Armings |-> "none"]
    /\ tries = [g \in Armings |-> 0]
    /\ worker = [g \in Armings |-> Off]
    /\ scan = Resting
    /\ replied = 0
    /\ ran = [g \in Armings |-> 0] /\ broke = [g \in Armings |-> 0]
    /\ revived = {} /\ overtaken = {} /\ lost = {}
    /\ faults = 0 /\ interruptions = 0

Arming == Arm \/ \E g \in Armings :
    MarkScheduled(g) \/ AddJob(g) \/ ResetAfterFailure(g) \/ ArmerDies(g)
Scanning ==
    RemoveStuckJobs \/ SweepStuck \/ ClaimDueRows \/ EnqueueClaimed \/ Unclaim \/ ScanDies
Resuming == \E g \in Armings :
    \/ ReadRow(g) \/ CancelEngaged(g) \/ ClaimForRun(g)
    \/ ResumeFlow(g) \/ FlowEnds(g) \/ ResumeFails(g) \/ WorkerDies(g)
Others == ContactWrites \/ CancelActive \/ \E g \in Armings : Age(g)

Next == Arming \/ Scanning \/ Resuming \/ Others

Spec == Init /\ [][Next]_vars

ArmerGoesOn(g) == MarkScheduled(g) \/ AddJob(g) \/ ResetAfterFailure(g)
ScanGoesOn == RemoveStuckJobs \/ SweepStuck \/ ClaimDueRows \/ EnqueueClaimed \/ Unclaim
JobGoesOn(g) ==
    ReadRow(g) \/ CancelEngaged(g) \/ ClaimForRun(g) \/ ResumeFlow(g) \/ FlowEnds(g)

\* The scan runs every five minutes, jobs that are due are worked on, a
\* function that has begun goes on unless its worker dies, and time passes.
\* Five minutes are long enough for a job, so that a sweep does not for ever
\* take the job or the row away just before it is read or claimed.
FairSpec ==
    /\ Spec
    /\ WF_vars(ScanGoesOn)
    /\ WF_vars(\E g \in Armings : Age(g))
    /\ \A g \in Armings :
          /\ WF_vars(ArmerGoesOn(g)) /\ WF_vars(JobGoesOn(g))
          /\ SF_vars(Wakes(owner[g]) /\ ReadRow(g))
          /\ SF_vars(Claimable(owner[g]) /\ (CancelEngaged(g) \/ ClaimForRun(g)))

-----------------------------------------------------------------------------
TypeOK ==
    /\ scenario \in Scenarios
    /\ armed \in 0 .. MaxArms
    /\ age \in [Armings -> {"ahead", "due", "stuck"}]
    /\ owner \in [Armings -> Armings]
    /\ row \in [Armings -> [status : {"none", "pending", "scheduled", "completed", "canceled"},
                            at : Armings]]
    /\ armer \in [Armings -> {"off", "mark", "add", "reset"}]
    /\ job \in [Armings -> {"none", "waiting", "running", "ended"}]
    /\ tries \in [Armings -> 0 .. Attempts - 1]
    /\ worker \in [Armings -> [pc : {"off", "claim", "cancel", "run", "rest"}, at : 0 .. MaxArms]]
    /\ scan \in [pc : {"idle", "sweep", "enqueue", "unclaim"}, batch : SUBSET Armings]
    /\ replied \in 0 .. MaxArms
    /\ ran \in [Armings -> Nat] /\ broke \in [Armings -> Nat]
    /\ revived \subseteq Armings /\ overtaken \subseteq Armings /\ lost \subseteq Armings
    /\ faults \in 0 .. scenario.faults /\ interruptions \in 0 .. scenario.interruptions

\* An arming resumes its flow once, and once more only for each time the flow
\* failed half way and the row was handed back, whoever scheduled it, swept it,
\* retried it or armed it again, unless it was marked scheduled when it was over.
RunsOnce == \A g \in Armings : owner[g] \notin revived => ran[g] <= 1 + broke[g]

\* A row that is completed has had its flow resumed and not fail, or its job is
\* about to, or the claim was lost: by a worker that died over it, by a
\* follow-up whose flow could not be queued, by a claim that could not be
\* handed back.
CompletedHasRun ==
    \A r \in Armings :
        row[r].status = "completed" /\ r \notin revived =>
            \/ ran[row[r].at] > broke[row[r].at] \/ row[r].at \in lost
            \/ \E g \in Armings : worker[g] = [pc |-> "run", at |-> row[r].at]

\* A flow is not resumed before its time, unless the step is armed again
\* between the two statements of a job that has read the earlier arming.
RunsOnTime ==
    [][\A g \in Armings : ran'[g] # ran[g] => Due(g) \/ g \in overtaken]_vars

\* A row whose time has come is over in the end, or armed again.
DueSettles ==
    \A g \in Armings :
        (Active(owner[g]) /\ row[owner[g]].at = g /\ Due(g))
            ~> (~Active(owner[g]) \/ row[owner[g]].at # g)
=============================================================================

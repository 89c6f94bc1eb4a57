------------------------- MODULE BroadcastRecurrence -------------------------
(***************************************************************************)
(* A repeating broadcast: its template, the series row with the armed      *)
(* slot, the ledger of slots, and the runs the worker creates.             *)
(*                                                                         *)
(* Every operation is one transaction that locks the series row first, so  *)
(* it is one step here.  What it does not see under the lock is the time:  *)
(* selectDbNow is SELECT now(), the moment the transaction began, which    *)
(* waiting for the lock may put up to MaxLag before the moment it runs.    *)
(*                                                                         *)
(* Times are 1..Horizon, and a slot is the time it is due.  Dates and      *)
(* slots are the same thing: a rule has at most one slot a day.            *)
(***************************************************************************)
EXTENDS Naturals, FiniteSets, FiniteSetsExt

CONSTANTS
    Horizon,    \* bound on the clock
    Rules,      \* the schedules a user may choose
    MaxLag,     \* how long a transaction may wait for the lock
    MaxFaults   \* bound on the materialize jobs that are given up and on the
                \* transactions that wait past a tick of the clock

Slots == 1..(Horizon + 1)
Never == 0      \* a timestamp column that is NULL

RuleType == [slots : SUBSET Slots, excluded : SUBSET Slots, limit : Nat \ {0}]

ASSUME HorizonAssumption == Horizon \in Nat \ {0}
ASSUME RulesAssumption == Rules \subseteq RuleType
ASSUME BoundsAssumption == MaxLag \in Nat /\ MaxFaults \in Nat

VARIABLES
    clock,
    status, deleted,      \* of the template
    rule,
    nextRunAt,            \* the armed slot
    accountedThroughAt,   \* how far the ledger is complete
    occurrenceCount,
    paused,               \* pausedAt is set
    ledger,               \* the outcome of each slot
    runs,                 \* the child broadcast of each slot
    jobs,                 \* slots with a materialize job
    faults,
    owed,                 \* history: the slots that came due while armed
    rewound               \* history: the cursor was set back, as below

templateVars == <<status, deleted>>
seriesVars == <<rule, nextRunAt, accountedThroughAt, occurrenceCount, paused>>
historyVars == <<owed, rewound>>
vars == <<clock, templateVars, seriesVars, ledger, runs, jobs, faults, historyVars>>

Statuses == {"draft", "recurring", "cancelled", "sent"}
Outcomes == {"none", "created", "skipped", "missed"}

\* "started" is sending and after, "withdrawn" deleted or cancelled before.
RunStates == {"none", "scheduled", "started", "withdrawn"}

TypeOK ==
    /\ clock \in 1..Horizon
    /\ status \in Statuses /\ deleted \in BOOLEAN
    /\ rule \in RuleType
    /\ nextRunAt \in Slots \cup {Never}
    /\ accountedThroughAt \in Slots \cup {Never}
    /\ occurrenceCount \in Nat
    /\ paused \in BOOLEAN
    /\ ledger \in [Slots -> Outcomes]
    /\ runs \in [Slots -> RunStates]
    /\ jobs \subseteq Slots
    /\ faults \in 0..MaxFaults
    /\ owed \subseteq Slots /\ rewound \in BOOLEAN

-----------------------------------------------------------------------------
(* The rule *)

IsExhaustedByCount(r, count) == count >= r.limit

ComputeNextOccurrence(r, after, count) ==
    LET later == {s \in r.slots : s > after}
    IN  IF IsExhaustedByCount(r, count) \/ later = {} THEN Never ELSE Min(later)

ComputeLatestOccurrence(r, atOrBefore, count) ==
    LET past == {s \in r.slots : s <= atOrBefore}
    IN  IF IsExhaustedByCount(r, count) \/ past = {} THEN Never ELSE Max(past)

ListOccurrencesBetween(r, after, through, count) ==
    IF IsExhaustedByCount(r, count) THEN {}
    ELSE {s \in r.slots : after < s /\ s <= through}

-----------------------------------------------------------------------------
(* The ledger *)

\* When the running transaction began.
DbNow == {t \in 1..clock : clock <= t + MaxLag /\ (t < clock => faults < MaxFaults)}

CountWait(now) == faults' = IF now < clock THEN faults + 1 ELSE faults

\* A slot that has a row keeps it.
InsertLedgerRows(slots, outcome, rows) ==
    [s \in Slots |-> IF s \in slots /\ rows[s] = "none" THEN outcome ELSE rows[s]]

\* A series that was never armed has nothing to account for.
AccountSlots(r, through, outcome) ==
    InsertLedgerRows(
        IF accountedThroughAt = Never THEN {}
        ELSE ListOccurrencesBetween(r, accountedThroughAt, through, occurrenceCount),
        outcome, ledger)

\* A transaction that waited writes a cursor before the one that stands by now,
\* and what lies between is accounted again.
Rewound(now) == rewound \/ now < accountedThroughAt

\* A series off since now owes nothing that came due while the transaction
\* that took it off waited for the lock.
OwedAt(now) == {s \in owed : s <= now}

\* arm: what elapsed while the series was off is skipped, whatever the rule
\* was then.
ArmFromLast(r, now) == accountedThroughAt
ArmFrom(r, now) == now
Arm(r, now) ==
    /\ ComputeNextOccurrence(r, ArmFrom(r, now), occurrenceCount) # Never
    /\ nextRunAt' = ComputeNextOccurrence(r, ArmFrom(r, now), occurrenceCount)
    /\ ledger' = AccountSlots(r, now, "skipped")
    /\ accountedThroughAt' = now
    /\ paused' = FALSE
    /\ owed' = owed /\ rewound' = Rewound(now)
    /\ CountWait(now)

\* disarmSeries accounts what was due and not taken, unless the series is
\* being deleted; on a series that is already off only an edit that ends
\* a pause does.
AccountedByDisarmNever(reason) == FALSE
AccountedByDisarm(reason) ==
    IF nextRunAt # Never THEN reason # "deleted" ELSE paused /\ reason = "draft"

Disarm(reason, now) ==
    /\ nextRunAt' = Never
    /\ paused' = CASE reason = "paused"  -> TRUE
                   [] reason = "draft"   -> FALSE
                   [] reason = "deleted" -> paused
    /\ owed' = OwedAt(now)
    /\ CountWait(now)
    /\ IF AccountedByDisarm(reason)
         THEN /\ ledger' = AccountSlots(rule, now, "skipped")
              /\ accountedThroughAt' = now
              /\ rewound' = Rewound(now)
         ELSE UNCHANGED <<ledger, accountedThroughAt, rewound>>

-----------------------------------------------------------------------------
(* Users *)

\* updateRecurringDraft, saved as a draft.
EditDraft ==
    /\ status = "draft" /\ ~deleted
    /\ rule' \in Rules
    /\ UNCHANGED <<clock, templateVars, nextRunAt, accountedThroughAt, occurrenceCount,
                   paused, ledger, runs, jobs, faults, historyVars>>

\* scheduleRecurringDraft, with the rule the draft has or another one.
ScheduleDraft ==
    /\ status = "draft" /\ ~deleted
    /\ \E r \in Rules \cup {rule}, now \in DbNow : rule' = r /\ Arm(r, now)
    /\ status' = "recurring"
    /\ UNCHANGED <<clock, deleted, occurrenceCount, runs, jobs>>

ResumeTemplate ==
    /\ status = "cancelled" /\ ~deleted
    /\ \E now \in DbNow : Arm(rule, now)
    /\ status' = "recurring"
    /\ UNCHANGED <<clock, deleted, rule, occurrenceCount, runs, jobs>>

PauseTemplate ==
    /\ status = "recurring" /\ ~deleted
    /\ \E now \in DbNow : Disarm("paused", now)
    /\ status' = "cancelled"
    /\ UNCHANGED <<clock, deleted, rule, occurrenceCount, runs, jobs>>

MoveToDraft ==
    /\ status \in {"recurring", "cancelled"} /\ ~deleted
    /\ \E now \in DbNow : Disarm("draft", now)
    /\ status' = "draft"
    /\ UNCHANGED <<clock, deleted, rule, occurrenceCount, runs, jobs>>

WithdrawRuns(which) == [s \in Slots |-> IF runs[s] \in which THEN "withdrawn" ELSE runs[s]]

RetiredRuns == {"scheduled"}

\* softDeleteBroadcasts and retireDeletedSeries: the runs not sending go too.
SoftDelete ==
    /\ ~deleted
    /\ deleted' = TRUE
    /\ \E now \in DbNow : Disarm("deleted", now)
    /\ runs' = WithdrawRuns(RetiredRuns)
    /\ UNCHANGED <<clock, status, rule, occurrenceCount, jobs>>

\* cancelInFlightBroadcastsForWorkspace: only armed series are disarmed.
CampaignCleanup ==
    /\ IF nextRunAt # Never
         THEN \E now \in DbNow : Disarm("paused", now)
         ELSE UNCHANGED <<nextRunAt, paused, ledger, accountedThroughAt, faults, historyVars>>
    /\ status' = IF status = "recurring" THEN "cancelled" ELSE status
    /\ runs' = WithdrawRuns({"scheduled"})
    /\ UNCHANGED <<clock, deleted, rule, occurrenceCount, jobs>>

\* assertDateCanChange: a slot that is due or settled no longer changes.
DateCanChange(s, now) == s > now /\ s > accountedThroughAt

Skippable == ~deleted /\ status \in {"recurring", "cancelled"}
SlotOnDate(s) == s \in rule.slots /\ ~IsExhaustedByCount(rule, occurrenceCount)
UnsettledExclusions == {s \in rule.excluded : s >= accountedThroughAt}

\* setOccurrenceExcluded
ExcludeDate(s) ==
    /\ Skippable /\ s \notin rule.excluded
    /\ SlotOnDate(s)
    /\ \E now \in DbNow : DateCanChange(s, now) /\ CountWait(now)
    /\ rule' = [rule EXCEPT !.excluded = UnsettledExclusions \cup {s}]
    /\ UNCHANGED <<clock, templateVars, nextRunAt, accountedThroughAt, occurrenceCount,
                   paused, ledger, runs, jobs, historyVars>>

RestoreDate(s) ==
    /\ Skippable /\ s \in rule.excluded
    /\ \E now \in DbNow : (SlotOnDate(s) => DateCanChange(s, now)) /\ CountWait(now)
    /\ rule' = [rule EXCEPT !.excluded = UnsettledExclusions \ {s}]
    /\ UNCHANGED <<clock, templateVars, nextRunAt, accountedThroughAt, occurrenceCount,
                   paused, ledger, runs, jobs, historyVars>>

-----------------------------------------------------------------------------
(* The worker *)

\* listDue compares with the current time.
ListDueLate == nextRunAt # Never /\ nextRunAt < clock
ListDue == nextRunAt # Never /\ nextRunAt <= clock

\* enqueueRecurringBroadcasts
EnqueueDue ==
    /\ ListDue
    /\ jobs' = jobs \cup {nextRunAt}
    /\ UNCHANGED <<clock, templateVars, seriesVars, ledger, runs, faults, historyVars>>

NextCount(outcome) == occurrenceCount + 1
CountAfter(outcome) == IF outcome = "created" THEN occurrenceCount + 1 ELSE occurrenceCount

SettledStatusKept(next) == status
SettledStatus(next) == IF next = Never THEN "sent" ELSE status

\* settleSlot; an instant has one run, which a second settlement would reuse.
SettleSlot(s, outcome, rows) ==
    LET count == CountAfter(outcome)
        next == ComputeNextOccurrence(rule, s, count)
    IN  /\ ledger' = InsertLedgerRows({s}, outcome, rows)
        /\ runs' = IF outcome = "created" /\ runs[s] = "none"
                     THEN [runs EXCEPT ![s] = "scheduled"] ELSE runs
        /\ nextRunAt' = next
        /\ accountedThroughAt' = s
        /\ occurrenceCount' = count
        /\ status' = SettledStatus(next)
        /\ UNCHANGED <<rule, paused>>

IsLiveTemplate == status = "recurring" /\ ~deleted

EffectiveSlotArmed(s, now) == s
\* resolveEffectiveSlot: after an outage only the latest slot is sent.
EffectiveSlot(s, now) ==
    LET latest == ComputeLatestOccurrence(rule, now, occurrenceCount)
    IN  IF latest > s THEN latest ELSE s

\* decideSlot: an excluded date is skipped; a template with nothing to deliver
\* or no capacity in the plan may be.
Decisions(s) == IF s \in rule.excluded THEN {"skipped"} ELSE {"created", "skipped"}

IsDueSlotAnyTime(s) == nextRunAt # Never
IsDueSlot(s) == nextRunAt = s

NothingMaterialized == UNCHANGED <<templateVars, seriesVars, ledger, runs, historyVars>>

\* materializeOccurrence.  The job may be delivered again, before or after.
MaterializeOccurrence(s) ==
    /\ s \in jobs
    /\ jobs' \in {jobs, jobs \ {s}}
    /\ \E now \in {t \in DbNow : t >= s} :
         IF ~IsDueSlot(s) THEN NothingMaterialized /\ CountWait(now)
         ELSE IF ~IsLiveTemplate
           THEN Disarm("draft", now) /\ UNCHANGED <<templateVars, rule, occurrenceCount, runs>>
           ELSE LET at == EffectiveSlot(s, now)
                IN  /\ \E outcome \in Decisions(at) :
                         SettleSlot(at, outcome, AccountSlots(rule, at - 1, "missed"))
                    /\ owed' = IF nextRunAt' = Never THEN OwedAt(now) ELSE owed
                    /\ CountWait(now)
                    /\ UNCHANGED <<deleted, rewound>>
    /\ UNCHANGED clock

\* skipOccurrence: the owner is blocked; no catching up.
SkipOccurrence(s) ==
    /\ s \in jobs
    /\ jobs' \in {jobs, jobs \ {s}}
    /\ IF IsDueSlot(s)
         THEN SettleSlot(s, "skipped", ledger) /\ UNCHANGED <<deleted, historyVars>>
         ELSE NothingMaterialized
    /\ UNCHANGED <<clock, faults>>

\* Every attempt failed, each with its transaction rolled back.
JobGivenUp(s) ==
    /\ s \in jobs /\ faults < MaxFaults
    /\ faults' = faults + 1
    /\ jobs' = jobs \ {s}
    /\ UNCHANGED <<clock, templateVars, seriesVars, ledger, runs, historyVars>>

\* The run is prepared and promoted as any scheduled broadcast.
RunStarts(s) ==
    /\ runs[s] = "scheduled"
    /\ runs' = [runs EXCEPT ![s] = "started"]
    /\ UNCHANGED <<clock, templateVars, seriesVars, ledger, jobs, faults, historyVars>>

Tick ==
    /\ clock < Horizon
    /\ clock' = clock + 1
    /\ owed' = IF nextRunAt # Never THEN owed \cup (rule.slots \cap {clock'}) ELSE owed
    /\ UNCHANGED <<templateVars, seriesVars, ledger, runs, jobs, faults, rewound>>

-----------------------------------------------------------------------------
Init ==
    /\ clock = 1
    /\ status = "draft" /\ deleted = FALSE
    /\ rule \in Rules
    /\ nextRunAt = Never /\ accountedThroughAt = Never
    /\ occurrenceCount = 0
    /\ paused = FALSE
    /\ ledger = [s \in Slots |-> "none"]
    /\ runs = [s \in Slots |-> "none"]
    /\ jobs = {}
    /\ faults = 0
    /\ owed = {} /\ rewound = FALSE

UserStep ==
    \/ EditDraft \/ ScheduleDraft \/ ResumeTemplate \/ PauseTemplate \/ MoveToDraft
    \/ SoftDelete \/ CampaignCleanup
    \/ \E s \in Slots : ExcludeDate(s) \/ RestoreDate(s)

WorkerStep(s) == MaterializeOccurrence(s) \/ SkipOccurrence(s)

Next ==
    \/ UserStep
    \/ EnqueueDue
    \/ \E s \in Slots : WorkerStep(s) \/ JobGivenUp(s) \/ RunStarts(s)
    \/ Tick

Spec == Init /\ [][Next]_vars

\* The cron and the worker keep running.
Fairness == WF_vars(EnqueueDue) /\ \A s \in Slots : WF_vars(WorkerStep(s))

FairSpec == Spec /\ Fairness

-----------------------------------------------------------------------------
(* Properties *)

Armed == nextRunAt # Never
Created == {s \in Slots : ledger[s] = "created"}
Sent == {s \in Slots : runs[s] # "none"}

\* The cursor has never been set back.  The ledger rests on this: each time is
\* accounted once.  A transaction that waits for the lock while one that began
\* after it writes the cursor breaks it, and with it what is said of the ledger
\* below.
InOrder == ~rewound

\* materializeOccurrence writes the ledger row and the run together: a slot has
\* a run exactly if its row says so.  None is sent that elapsed during a pause
\* or an edit and was accounted as skipped, and none that was superseded.
RunsMatchLedger == InOrder => Sent = Created

\* The series row and the template row, two tables written under two locks,
\* agree: a series is armed as long as its template repeats and no longer.
ArmedWhileRecurring == Armed <=> status = "recurring" /\ ~deleted

\* Nothing that came due while the series was armed is forgotten, however long
\* the worker was down and whatever the user did before it came back: it is in
\* the ledger, or the series still stands at or before it.
DueSlotsAccounted ==
    InOrder => deleted \/ \A s \in owed : ledger[s] # "none" \/ (Armed /\ nextRunAt <= s)

\* afterOccurrences limits the runs over the life of a series, across edits
\* and catch-ups; skipped slots do not use it up.
WithinTheLimit ==
    /\ InOrder => occurrenceCount = Cardinality(Created)
    /\ Armed => occurrenceCount < rule.limit

\* Locking the series row first, a delete never races a run being created.
DeletedStartsNothing == deleted => \A s \in Slots : runs[s] # "scheduled"

\* After an outage only the latest slot is sent: no run starts for a slot that a
\* later one has overtaken, unless that one came due while the transaction
\* waited for the lock.
OnlyTheLatestIsSent ==
    [][\A s \in Slots : runs[s] = "none" /\ runs'[s] # "none"
          => \A t \in rule.slots : t <= s \/ t + MaxLag > clock]_vars

\* Skipping a run is rejected once the worker has taken its slot.
SentRunsNotSkippable ==
    [][InOrder /\ status # "draft" => rule'.excluded \cap Created \subseteq rule.excluded]_vars

\* A due slot does not stay due: the worker settles it or a user disarms it.
DueSlotSettles ==
    \A s \in Slots : (nextRunAt = s /\ s <= clock) ~> nextRunAt # s

\* What makes those hold after every step: the ledger ends at the cursor, the
\* armed slot is the first one after it, jobs are for slots that have come,
\* and a slot still owed lies between the cursor and now.
CursorInv ==
    /\ accountedThroughAt <= clock
    /\ \A s \in Slots : ledger[s] # "none" => s <= accountedThroughAt
    /\ Armed =>
         /\ accountedThroughAt # Never
         /\ nextRunAt = ComputeNextOccurrence(rule, accountedThroughAt, occurrenceCount)
    /\ \A s \in jobs \cup owed : s <= clock

OwedInv ==
    deleted \/ \A s \in owed :
        ledger[s] # "none" \/ (Armed /\ s \in rule.slots /\ accountedThroughAt < s)

SeriesInv ==
    /\ CursorInv /\ OwedInv /\ ArmedWhileRecurring
    /\ Sent = Created /\ occurrenceCount = Cardinality(Created)

Ledger == INSTANCE RecurrenceLedger WITH sent <- Sent

\* As long as the cursor is never set back: append-only, in order, and of the
\* slots settled together only the last one sent.
ImplementsLedger == Ledger!Init /\ [][InOrder => Ledger!Settle]_<<ledger, Sent>>
=============================================================================

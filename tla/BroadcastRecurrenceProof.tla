---------------------- MODULE BroadcastRecurrenceProof -----------------------
(***************************************************************************)
(* For any schedules, any horizon, any number of lost jobs and however     *)
(* long transactions wait: the series row and the template row of a        *)
(* repeating broadcast never disagree, and as long as no wait has set the  *)
(* cursor back neither do the ledger and the runs, which then implement    *)
(* RecurrenceLedger.                                                       *)
(***************************************************************************)
EXTENDS BroadcastRecurrence, FiniteSetTheorems, WellFoundedInduction, TLAPS

-----------------------------------------------------------------------------
(* The rule's operators *)

\* A set of natural numbers that is not empty has a first member.
LEMMA FirstExists ==
    ASSUME NEW S \in SUBSET Nat, S # {}
    PROVE  Min(S) \in S /\ \A y \in S : Min(S) <= y
<1>1. \E x \in S : \A y \in S : ~(<<y, x>> \in OpToRel(<, Nat))
  BY NatLessThanWellFounded, WFMin
<1>2. \E x \in S : \A y \in S : x <= y
  <2>1. PICK x \in S : \A y \in S : ~(<<y, x>> \in OpToRel(<, Nat))
    BY <1>1
  <2>2. ASSUME NEW y \in S PROVE x <= y
    <3>1. <<y, x>> \in Nat \X Nat /\ x \in Nat /\ y \in Nat
      OBVIOUS
    <3>2. y < x => <<y, x>> \in {ss \in Nat \X Nat : ss[1] < ss[2]}
      BY <3>1
    <3>3. ~(y < x)
      BY <2>1, <3>2 DEF OpToRel
    <3> QED
      BY <3>1, <3>3
  <2> QED
    BY <2>2
<1> QED
  BY <1>2 DEF Min

\* And a last one, if it is bounded.
LEMMA LastExists ==
    ASSUME NEW S \in SUBSET Nat, S # {}, NEW n \in Nat, \A s \in S : s <= n
    PROVE  Max(S) \in S /\ \A y \in S : Max(S) >= y
<1> DEFINE T == {d \in Nat : \E s \in S : d = n - s}
<1>1. T # {} /\ T \in SUBSET Nat
  <2>1. PICK s \in S : TRUE
    OBVIOUS
  <2>2. n - s \in Nat
    BY <2>1
  <2> QED
    BY <2>1, <2>2
<1>2. Min(T) \in T /\ \A d \in T : Min(T) <= d
  BY <1>1, FirstExists
<1>3. PICK s \in S : Min(T) = n - s
  BY <1>2
<1>4. \A y \in S : s >= y
  <2> SUFFICES ASSUME NEW y \in S PROVE s >= y
    OBVIOUS
  <2>1. n - y \in T
    OBVIOUS
  <2>2. n - s <= n - y
    BY <1>2, <1>3, <2>1
  <2> QED
    BY <2>2
<1> QED
  BY <1>4 DEF Max

\* computeNextOccurrence: none once the count is used up or nothing is left,
\* else the first slot after the given time.
LEMMA NextIsFirst ==
    ASSUME NEW r \in RuleType, NEW after \in Nat, NEW count \in Nat
    PROVE  LET n == ComputeNextOccurrence(r, after, count)
           IN  \/ n = Never /\ (count >= r.limit \/ \A s \in r.slots : s <= after)
               \/ /\ n \in r.slots /\ n > after /\ count < r.limit
                  /\ \A s \in r.slots : s > after => n <= s
<1> DEFINE later == {s \in r.slots : s > after}
<1>1. r.slots \in SUBSET Nat /\ r.limit \in Nat
  BY DEF RuleType, Slots
<1>2. later \in SUBSET Nat
  BY <1>1
<1>3. CASE count >= r.limit \/ later = {}
  <2>1. ComputeNextOccurrence(r, after, count) = Never
    BY <1>3 DEF ComputeNextOccurrence, IsExhaustedByCount
  <2>2. later = {} => \A s \in r.slots : s <= after
    BY <1>1
  <2> QED
    BY <1>3, <2>1, <2>2
<1>4. CASE ~(count >= r.limit) /\ later # {}
  <2>1. Min(later) \in later /\ \A y \in later : Min(later) <= y
    BY <1>2, <1>4, FirstExists
  <2>2. ComputeNextOccurrence(r, after, count) = Min(later)
    BY <1>4 DEF ComputeNextOccurrence, IsExhaustedByCount
  <2>3. count < r.limit
    BY <1>1, <1>4
  <2> QED
    BY <2>1, <2>2, <2>3
<1> QED
  BY <1>3, <1>4

\* computeLatestOccurrence: the last slot at or before the given time.
LEMMA LatestIsLast ==
    ASSUME NEW r \in RuleType, NEW through \in Nat, NEW count \in Nat
    PROVE  LET n == ComputeLatestOccurrence(r, through, count)
           IN  \/ n = Never /\ (count >= r.limit \/ \A s \in r.slots : s > through)
               \/ /\ n \in r.slots /\ n <= through
                  /\ \A s \in r.slots : s <= through => s <= n
<1> DEFINE past == {s \in r.slots : s <= through}
<1>1. r.slots \in SUBSET Nat /\ r.limit \in Nat
  BY DEF RuleType, Slots
<1>2. past \in SUBSET Nat /\ \A s \in past : s <= through
  BY <1>1
<1>3. CASE count >= r.limit \/ past = {}
  <2>1. ComputeLatestOccurrence(r, through, count) = Never
    BY <1>3 DEF ComputeLatestOccurrence, IsExhaustedByCount
  <2>2. past = {} => \A s \in r.slots : s > through
    BY <1>1
  <2> QED
    BY <1>3, <2>1, <2>2
<1>4. CASE ~(count >= r.limit) /\ past # {}
  <2>1. Max(past) \in past /\ \A y \in past : Max(past) >= y
    BY <1>2, <1>4, LastExists
  <2>2. ComputeLatestOccurrence(r, through, count) = Max(past)
    BY <1>4 DEF ComputeLatestOccurrence, IsExhaustedByCount
  <2> QED
    BY <1>1, <2>1, <2>2
<1> QED
  BY <1>3, <1>4

\* Every slot and every time is a natural number; Never is none of them.
LEMMA Times ==
    /\ Slots \in SUBSET Nat /\ IsFiniteSet(Slots)
    /\ Never = 0 /\ Never \notin Slots
    /\ Horizon \in Nat /\ 1..Horizon \in SUBSET Slots
BY HorizonAssumption, FS_Interval DEF Slots, Never

\* The next slot is one of the slots, or none.
LEMMA NextType ==
    ASSUME NEW r \in RuleType, NEW after \in Nat, NEW count \in Nat
    PROVE  ComputeNextOccurrence(r, after, count) \in Slots \cup {Never}
BY NextIsFirst DEF RuleType

\* What accountSlots records: the rule's slots after the cursor that have no row.
LEMMA AccountedRows ==
    ASSUME TypeOK, NEW r \in RuleType, NEW through \in Nat, NEW outcome \in Outcomes
    PROVE  /\ AccountSlots(r, through, outcome) \in [Slots -> Outcomes]
           /\ \A s \in Slots : AccountSlots(r, through, outcome)[s] =
                 IF /\ accountedThroughAt # Never /\ occurrenceCount < r.limit
                    /\ s \in r.slots /\ accountedThroughAt < s /\ s <= through
                    /\ ledger[s] = "none"
                 THEN outcome ELSE ledger[s]
<1> DEFINE S == IF accountedThroughAt = Never THEN {}
                ELSE ListOccurrencesBetween(r, accountedThroughAt, through, occurrenceCount)
<1>1. \A s \in Slots : s \in S <=>
         /\ accountedThroughAt # Never /\ occurrenceCount < r.limit
         /\ s \in r.slots /\ accountedThroughAt < s /\ s <= through
  BY DEF ListOccurrencesBetween, IsExhaustedByCount, TypeOK, RuleType
<1>2. AccountSlots(r, through, outcome) =
         [s \in Slots |-> IF s \in S /\ ledger[s] = "none" THEN outcome ELSE ledger[s]]
  BY DEF AccountSlots, InsertLedgerRows
<1> HIDE DEF S
<1>3. AccountSlots(r, through, outcome) \in [Slots -> Outcomes]
  BY <1>2 DEF TypeOK
<1> QED
  BY <1>1, <1>2, <1>3

-----------------------------------------------------------------------------
(* Types *)

LEMMA TypeOKInit == Init => TypeOK
<1> SUFFICES ASSUME Init PROVE TypeOK
  OBVIOUS
<1>1. clock \in 1..Horizon /\ faults \in 0..MaxFaults
  BY HorizonAssumption, BoundsAssumption DEF Init
<1>2. status \in Statuses /\ deleted \in BOOLEAN /\ paused \in BOOLEAN
  BY DEF Init, Statuses
<1>3. rule \in RuleType
  BY RulesAssumption DEF Init
<1>4. ledger \in [Slots -> Outcomes] /\ runs \in [Slots -> RunStates]
  BY DEF Init, Outcomes, RunStates
<1>5. nextRunAt \in Slots \cup {Never} /\ accountedThroughAt \in Slots \cup {Never}
  BY DEF Init
<1>6. occurrenceCount \in Nat /\ jobs \subseteq Slots /\ owed \subseteq Slots
  BY DEF Init
<1>7. rewound \in BOOLEAN
  BY DEF Init
<1> QED
  BY <1>1, <1>2, <1>3, <1>4, <1>5, <1>6, <1>7 DEF TypeOK

\* A transaction's time is a time.
LEMMA NowType ==
    ASSUME TypeOK, NEW now \in DbNow
    PROVE  now \in Slots /\ now \in Nat
BY Times DEF DbNow, TypeOK, Slots

\* Waiting past a tick is counted.
LEMMA WaitType ==
    ASSUME TypeOK, NEW now \in DbNow, CountWait(now)
    PROVE  faults' \in 0..MaxFaults
BY BoundsAssumption DEF DbNow, CountWait, TypeOK

LEMMA ArmType ==
    ASSUME TypeOK, NEW r \in RuleType, NEW now \in DbNow, Arm(r, now)
    PROVE  /\ nextRunAt' \in Slots \cup {Never} /\ accountedThroughAt' \in Slots
           /\ paused' \in BOOLEAN /\ ledger' \in [Slots -> Outcomes]
           /\ faults' \in 0..MaxFaults /\ owed' \subseteq Slots /\ rewound' \in BOOLEAN
<1>1. now \in Slots /\ now \in Nat /\ occurrenceCount \in Nat
  BY NowType DEF TypeOK
<1>2. nextRunAt' \in Slots \cup {Never}
  BY <1>1, NextType DEF Arm, ArmFrom
<1>3. ledger' \in [Slots -> Outcomes]
  BY <1>1, AccountedRows DEF Arm, Outcomes
<1>4. faults' \in 0..MaxFaults
  BY WaitType DEF Arm
<1>5. owed' \subseteq Slots /\ rewound' \in BOOLEAN
  BY DEF Arm, Rewound, TypeOK
<1> QED
  BY <1>1, <1>2, <1>3, <1>4, <1>5 DEF Arm

LEMMA DisarmType ==
    ASSUME TypeOK, NEW now \in DbNow, NEW reason \in {"paused", "draft", "deleted"},
           Disarm(reason, now)
    PROVE  /\ nextRunAt' \in Slots \cup {Never}
           /\ accountedThroughAt' \in Slots \cup {Never}
           /\ paused' \in BOOLEAN /\ ledger' \in [Slots -> Outcomes]
           /\ faults' \in 0..MaxFaults /\ owed' \subseteq Slots /\ rewound' \in BOOLEAN
<1>1. now \in Slots /\ now \in Nat /\ rule \in RuleType
  BY NowType DEF TypeOK
<1>2. AccountSlots(rule, now, "skipped") \in [Slots -> Outcomes]
  BY <1>1, AccountedRows DEF Outcomes
<1>3. ledger' \in [Slots -> Outcomes] /\ accountedThroughAt' \in Slots \cup {Never}
  BY <1>1, <1>2 DEF Disarm, TypeOK
<1>4. paused' \in BOOLEAN
  BY DEF Disarm, TypeOK
<1>5. faults' \in 0..MaxFaults
  BY WaitType DEF Disarm
<1>6. owed' \subseteq Slots /\ rewound' \in BOOLEAN
  BY DEF Disarm, OwedAt, Rewound, TypeOK
<1> QED
  BY <1>3, <1>4, <1>5, <1>6 DEF Disarm

LEMMA SettleType ==
    ASSUME TypeOK, NEW s \in Slots, NEW outcome \in Outcomes,
           NEW rows \in [Slots -> Outcomes], SettleSlot(s, outcome, rows)
    PROVE  /\ ledger' \in [Slots -> Outcomes] /\ runs' \in [Slots -> RunStates]
           /\ nextRunAt' \in Slots \cup {Never} /\ accountedThroughAt' \in Slots
           /\ occurrenceCount' \in Nat /\ status' \in Statuses
           /\ rule' = rule /\ paused' = paused
<1>1. CountAfter(outcome) \in Nat
  BY DEF CountAfter, TypeOK
<1>2. nextRunAt' \in Slots \cup {Never}
  BY <1>1, NextType, Times DEF SettleSlot, TypeOK
<1>3. status' \in Statuses
  BY DEF SettleSlot, SettledStatus, TypeOK, Statuses
<1>4. ledger' \in [Slots -> Outcomes]
  BY DEF SettleSlot, InsertLedgerRows
<1>5. runs' \in [Slots -> RunStates]
  BY DEF SettleSlot, TypeOK, RunStates
<1> QED
  BY <1>1, <1>2, <1>3, <1>4, <1>5 DEF SettleSlot

LEMMA EffectiveType ==
    ASSUME TypeOK, NEW s \in Slots, NEW now \in DbNow
    PROVE  EffectiveSlot(s, now) \in Slots
BY LatestIsLast, NowType, Times DEF EffectiveSlot, TypeOK, RuleType

LEMMA TypeOKStep == TypeOK /\ [Next]_vars => TypeOK'
<1> SUFFICES ASSUME TypeOK, [Next]_vars PROVE TypeOK'
  OBVIOUS
<1> USE DEF templateVars, seriesVars, historyVars
<1>1. CASE EditDraft
  BY <1>1, RulesAssumption DEF EditDraft, TypeOK
<1>2. CASE ScheduleDraft
  <2>1. PICK r \in Rules \cup {rule}, now \in DbNow : rule' = r /\ Arm(r, now)
    BY <1>2 DEF ScheduleDraft
  <2>2. r \in RuleType
    BY <2>1, RulesAssumption DEF TypeOK
  <2> QED
    BY <1>2, <2>1, <2>2, ArmType DEF ScheduleDraft, TypeOK, Statuses
<1>3. CASE ResumeTemplate
  <2>1. PICK now \in DbNow : Arm(rule, now)
    BY <1>3 DEF ResumeTemplate
  <2> QED
    BY <1>3, <2>1, ArmType DEF ResumeTemplate, TypeOK, Statuses
<1>4. CASE PauseTemplate
  BY <1>4, DisarmType DEF PauseTemplate, TypeOK, Statuses
<1>5. CASE MoveToDraft
  BY <1>5, DisarmType DEF MoveToDraft, TypeOK, Statuses
<1>6. CASE SoftDelete
  BY <1>6, DisarmType DEF SoftDelete, TypeOK, WithdrawRuns, RunStates
<1>7. CASE CampaignCleanup
  <2>1. /\ nextRunAt' \in Slots \cup {Never} /\ accountedThroughAt' \in Slots \cup {Never}
        /\ paused' \in BOOLEAN /\ ledger' \in [Slots -> Outcomes]
        /\ faults' \in 0..MaxFaults /\ owed' \subseteq Slots /\ rewound' \in BOOLEAN
    BY <1>7, DisarmType DEF CampaignCleanup, TypeOK
  <2> QED
    BY <1>7, <2>1 DEF CampaignCleanup, TypeOK, WithdrawRuns, RunStates, Statuses
<1>8. CASE \E s \in Slots : ExcludeDate(s) \/ RestoreDate(s)
  <2>1. faults' \in 0..MaxFaults
    BY <1>8, WaitType DEF ExcludeDate, RestoreDate
  <2> QED
    BY <1>8, <2>1 DEF ExcludeDate, RestoreDate, UnsettledExclusions, TypeOK, RuleType
<1>9. CASE EnqueueDue
  BY <1>9 DEF EnqueueDue, ListDue, TypeOK
<1>10. ASSUME NEW s \in Slots, MaterializeOccurrence(s) PROVE TypeOK'
  <2>1. PICK now \in {t \in DbNow : t >= s} :
           IF ~IsDueSlot(s) THEN NothingMaterialized /\ CountWait(now)
           ELSE IF ~IsLiveTemplate
             THEN Disarm("draft", now) /\ UNCHANGED <<templateVars, rule, occurrenceCount, runs>>
             ELSE /\ \E outcome \in Decisions(EffectiveSlot(s, now)) :
                        SettleSlot(EffectiveSlot(s, now), outcome,
                           AccountSlots(rule, EffectiveSlot(s, now) - 1, "missed"))
                  /\ owed' = IF nextRunAt' = Never THEN OwedAt(now) ELSE owed
                  /\ CountWait(now)
                  /\ UNCHANGED <<deleted, rewound>>
    BY <1>10 DEF MaterializeOccurrence
  <2>2. jobs' \subseteq Slots /\ UNCHANGED clock
    BY <1>10 DEF MaterializeOccurrence, TypeOK
  <2>3. CASE ~IsDueSlot(s)
    BY <2>1, <2>2, <2>3, WaitType DEF NothingMaterialized, TypeOK
  <2>4. CASE IsDueSlot(s) /\ ~IsLiveTemplate
    BY <2>1, <2>2, <2>4, DisarmType DEF TypeOK
  <2>5. CASE IsDueSlot(s) /\ IsLiveTemplate
    <3>1. EffectiveSlot(s, now) \in Slots /\ EffectiveSlot(s, now) - 1 \in Nat
      BY EffectiveType DEF Slots
    <3>2. AccountSlots(rule, EffectiveSlot(s, now) - 1, "missed") \in [Slots -> Outcomes]
      BY <3>1, AccountedRows DEF Outcomes, TypeOK
    <3>3. PICK outcome \in Outcomes :
             SettleSlot(EffectiveSlot(s, now), outcome,
                        AccountSlots(rule, EffectiveSlot(s, now) - 1, "missed"))
      BY <2>1, <2>5 DEF Decisions, Outcomes
    <3>4. /\ faults' \in 0..MaxFaults /\ owed' \subseteq Slots /\ rewound' \in BOOLEAN
          /\ deleted' \in BOOLEAN
      BY <2>1, <2>5, WaitType DEF OwedAt, TypeOK
    <3> QED
      BY <2>2, <3>1, <3>2, <3>3, <3>4, SettleType DEF TypeOK
  <2> QED
    BY <2>3, <2>4, <2>5
<1>11. ASSUME NEW s \in Slots, SkipOccurrence(s) PROVE TypeOK'
  <2>1. jobs' \subseteq Slots /\ UNCHANGED <<clock, faults>>
    BY <1>11 DEF SkipOccurrence, TypeOK
  <2>2. CASE IsDueSlot(s)
    <3>1. ledger \in [Slots -> Outcomes] /\ "skipped" \in Outcomes
      BY DEF TypeOK, Outcomes
    <3>2. SettleSlot(s, "skipped", ledger) /\ UNCHANGED <<deleted, owed, rewound>>
      BY <1>11, <2>2 DEF SkipOccurrence
    <3> QED
      BY <2>1, <3>1, <3>2, SettleType DEF TypeOK
  <2>3. CASE ~IsDueSlot(s)
    BY <1>11, <2>1, <2>3 DEF SkipOccurrence, NothingMaterialized, TypeOK
  <2> QED
    BY <2>2, <2>3
<1>12. CASE \E s \in Slots : JobGivenUp(s)
  BY <1>12, BoundsAssumption DEF JobGivenUp, TypeOK
<1>13. CASE \E s \in Slots : RunStarts(s)
  BY <1>13 DEF RunStarts, TypeOK, RunStates
<1>14. CASE Tick
  <2>1. clock' \in 1..Horizon
    BY <1>14, HorizonAssumption DEF Tick, TypeOK
  <2>2. rule.slots \subseteq Slots
    BY DEF TypeOK, RuleType
  <2>3. owed' \subseteq Slots
    BY <1>14, <2>2 DEF Tick, TypeOK
  <2> QED
    BY <1>14, <2>1, <2>3 DEF Tick, TypeOK
<1>15. CASE UNCHANGED vars
  BY <1>15 DEF vars, TypeOK
<1> QED
  BY <1>1, <1>2, <1>3, <1>4, <1>5, <1>6, <1>7, <1>8, <1>9, <1>10, <1>11, <1>12, <1>13,
     <1>14, <1>15 DEF Next, UserStep, WorkerStep

\* Every column keeps its type, however long transactions wait.
THEOREM TypeCorrect == Spec => []TypeOK
BY TypeOKInit, TypeOKStep, PTL DEF Spec

-----------------------------------------------------------------------------
(* The series, its ledger and its runs *)

\* The rest of the state agreeing with the ledger is a matter of these.
LedgerStep ==
    /\ (Sent = Created)' /\ (occurrenceCount = Cardinality(Created))'
    /\ Ledger!Settle

\* The ledger, the runs and the count left alone.
LEMMA SameRows ==
    ASSUME TypeOK, TypeOK', SeriesInv, ledger' = ledger, Sent' = Sent,
           occurrenceCount' = occurrenceCount
    PROVE  LedgerStep
<1>1. Created' = Created
  BY DEF Created
<1>2. Ledger!Settle
  BY DEF Ledger!Settle, Ledger!Outcomes, Outcomes, TypeOK
<1> QED
  BY <1>1, <1>2 DEF LedgerStep, SeriesInv

\* Slots accounted as skipped up to some time: rows only where there were none,
\* all after the cursor, and no run.
LEMMA SkippedRows ==
    ASSUME TypeOK, TypeOK', SeriesInv, NEW r \in RuleType, NEW now \in Nat,
           ledger' = AccountSlots(r, now, "skipped"), Sent' = Sent,
           occurrenceCount' = occurrenceCount
    PROVE  /\ LedgerStep
           /\ \A s \in Slots : ledger[s] # "none" => ledger'[s] # "none"
           /\ accountedThroughAt <= now => \A s \in Slots : ledger'[s] # "none" => s <= now
<1>1. \A s \in Slots : ledger'[s] =
         IF /\ accountedThroughAt # Never /\ occurrenceCount < r.limit
            /\ s \in r.slots /\ accountedThroughAt < s /\ s <= now
            /\ ledger[s] = "none"
         THEN "skipped" ELSE ledger[s]
  BY AccountedRows DEF Outcomes
<1>2. \A s \in Slots : ledger[s] # "none" => s <= accountedThroughAt
  BY DEF SeriesInv, CursorInv
<1>3. /\ \A s \in Slots : ledger[s] # "none" => ledger'[s] # "none"
      /\ accountedThroughAt <= now => \A s \in Slots : ledger'[s] # "none" => s <= now
  <2>1. Slots \in SUBSET Nat /\ accountedThroughAt \in Nat
    BY Times DEF TypeOK
  <2> QED
    BY <1>1, <1>2, <2>1
<1>4. Created' = Created
  BY <1>1 DEF Created
<1>5. Ledger!Settle
  <2>1. ledger' \in [Slots -> Ledger!Outcomes]
    BY DEF TypeOK, Outcomes, Ledger!Outcomes
  <2>2. \A s \in Slots : ledger'[s] # ledger[s] =>
           ledger'[s] = "skipped" /\ accountedThroughAt < s
    BY <1>1
  <2>3. \A s \in Slots : ledger'[s] # ledger[s] => \A t \in Ledger!Settled : t < s
    BY <1>2, <2>2, Times DEF Ledger!Settled, TypeOK
  <2> QED
    BY <2>1, <2>2, <2>3 DEF Ledger!Settle
<1> QED
  BY <1>3, <1>4, <1>5 DEF LedgerStep, SeriesInv

\* A time written to the cursor without setting it back.
LEMMA CursorAdvances ==
    ASSUME TypeOK, NEW now \in DbNow, rewound' = Rewound(now), InOrder'
    PROVE  accountedThroughAt <= now /\ now <= clock
<1>1. now \in Nat /\ accountedThroughAt \in Nat /\ clock \in Nat
  BY NowType, Times DEF TypeOK
<1>2. ~(now < accountedThroughAt)
  BY Zenon DEF InOrder, Rewound
<1>3. now <= clock
  BY <1>1 DEF DbNow
<1> QED
  BY <1>1, <1>2, <1>3

\* Arming a series that is off.
LEMMA ArmStep ==
    ASSUME TypeOK, TypeOK', SeriesInv,
           NEW r \in RuleType, NEW now \in DbNow, Arm(r, now), rule' = r, ~Armed, ~deleted,
           status' = "recurring",
           UNCHANGED <<clock, deleted, occurrenceCount, runs, jobs>>
    PROVE  (InOrder' => SeriesInv') /\ LedgerStep
<1>1. now \in Nat /\ now \in Slots /\ clock \in Nat
  BY NowType, Times DEF TypeOK
<1>2. Sent' = Sent
  BY DEF Sent
<1>3. /\ LedgerStep
      /\ \A s \in Slots : ledger[s] # "none" => ledger'[s] # "none"
      /\ accountedThroughAt <= now => \A s \in Slots : ledger'[s] # "none" => s <= now
  BY <1>1, <1>2, SkippedRows DEF Arm
<1>4. ASSUME InOrder' PROVE CursorInv'
  <2>1. accountedThroughAt' = now /\ now # Never /\ owed' = owed
    BY <1>1, Times DEF Arm
  <2>2. nextRunAt' = ComputeNextOccurrence(rule', accountedThroughAt', occurrenceCount')
    BY <1>1, <2>1 DEF Arm, ArmFrom
  <2>3. accountedThroughAt <= now /\ now <= clock
    BY <1>4, CursorAdvances DEF Arm
  <2> QED
    BY <1>1, <1>3, <2>1, <2>2, <2>3 DEF CursorInv, SeriesInv
<1>5. OwedInv'
  <2>1. \A s \in owed : ledger[s] # "none"
    BY DEF SeriesInv, OwedInv
  <2>2. owed' = owed
    BY DEF Arm
  <2> QED
    BY <1>3, <2>1, <2>2 DEF OwedInv, TypeOK
<1>6. ArmedWhileRecurring'
  BY DEF Arm, ArmedWhileRecurring, Armed
<1> QED
  BY <1>3, <1>4, <1>5, <1>6 DEF SeriesInv, LedgerStep

\* Disarming, with the template taken out of "recurring" or deleted.
LEMMA DisarmStep ==
    ASSUME TypeOK, TypeOK', SeriesInv,
           NEW now \in DbNow, NEW reason \in {"paused", "draft", "deleted"}, Disarm(reason, now),
           reason = "deleted" => deleted',
           deleted => deleted', status' # "recurring" \/ deleted', Sent' = Sent,
           UNCHANGED <<clock, rule, occurrenceCount>>, jobs' \subseteq jobs
    PROVE  (InOrder' => SeriesInv') /\ LedgerStep
<1>1. now \in Nat /\ clock \in Nat /\ rule \in RuleType
  BY NowType, Times DEF TypeOK
<1>2. nextRunAt' = Never /\ owed' = {s \in owed : s <= now}
  BY DEF Disarm, OwedAt
<1>3. ArmedWhileRecurring'
  BY <1>2 DEF ArmedWhileRecurring, Armed
<1>4. CASE ~AccountedByDisarm(reason)
  <2>1. ledger' = ledger /\ accountedThroughAt' = accountedThroughAt
    BY <1>4 DEF Disarm
  <2>2. LedgerStep
    BY <2>1, SameRows
  <2>3. CursorInv'
    BY <1>2, <2>1 DEF SeriesInv, CursorInv, Armed
  <2>4. OwedInv'
    <3>1. CASE nextRunAt # Never
      BY <1>4, <3>1 DEF AccountedByDisarm, OwedInv
    <3>2. CASE nextRunAt = Never
      BY <1>2, <2>1, <3>2 DEF OwedInv, SeriesInv, Armed
    <3> QED
      BY <3>1, <3>2
  <2> QED
    BY <1>3, <2>2, <2>3, <2>4 DEF SeriesInv, LedgerStep
<1>5. CASE AccountedByDisarm(reason)
  <2>1. /\ ledger' = AccountSlots(rule, now, "skipped") /\ accountedThroughAt' = now
        /\ rewound' = Rewound(now)
    BY <1>5 DEF Disarm
  <2>2. /\ LedgerStep
        /\ \A s \in Slots : ledger[s] # "none" => ledger'[s] # "none"
        /\ accountedThroughAt <= now => \A s \in Slots : ledger'[s] # "none" => s <= now
    BY <1>1, <2>1, SkippedRows
  <2>3. ASSUME InOrder' PROVE CursorInv'
    <3>1. accountedThroughAt <= now /\ now <= clock
      BY <2>1, <2>3, CursorAdvances
    <3> QED
      BY <1>1, <1>2, <2>1, <2>2, <3>1 DEF SeriesInv, CursorInv, Armed
  <2>4. OwedInv'
    <3> SUFFICES ASSUME ~deleted, NEW s \in owed, s <= now PROVE ledger'[s] # "none"
      BY <1>2 DEF OwedInv
    <3>1. s \in Slots
      BY DEF TypeOK
    <3>2. CASE ledger[s] # "none"
      BY <2>2, <3>1, <3>2
    <3>3. CASE ledger[s] = "none"
      <4>1. Armed /\ s \in rule.slots /\ accountedThroughAt < s
        BY <3>3 DEF SeriesInv, OwedInv
      <4>2. nextRunAt = ComputeNextOccurrence(rule, accountedThroughAt, occurrenceCount)
            /\ nextRunAt # Never /\ accountedThroughAt # Never /\ accountedThroughAt \in Nat
        BY <4>1, Times DEF SeriesInv, CursorInv, Armed, TypeOK
      <4>3. occurrenceCount < rule.limit
        BY <1>1, <4>2, NextIsFirst, Times DEF TypeOK, RuleType
      <4>4. ledger'[s] = "skipped"
        BY <1>1, <2>1, <3>1, <3>3, <4>1, <4>2, <4>3, AccountedRows DEF Outcomes
      <4> QED
        BY <4>4
    <3> QED
      BY <3>2, <3>3
  <2> QED
    BY <1>3, <2>2, <2>3, <2>4 DEF SeriesInv, LedgerStep
<1> QED
  BY <1>4, <1>5

\* Settling the armed slot, or with what an outage left due the last of it that
\* had come when the transaction began.
LEMMA SettleStep ==
    ASSUME TypeOK, TypeOK', SeriesInv, NEW s \in Slots, nextRunAt = s,
           NEW now \in Nat, NEW at \in rule.slots, s <= at, at <= now, now <= clock,
           NEW outcome \in {"created", "skipped"}, NEW rows,
           \/ rows = ledger /\ at = s /\ outcome = "skipped" /\ owed' = owed
           \/ /\ rows = AccountSlots(rule, at - 1, "missed")
              /\ \A t \in rule.slots : t <= now => t <= at
              /\ owed' = IF nextRunAt' = Never THEN OwedAt(now) ELSE owed,
           SettleSlot(at, outcome, rows),
           UNCHANGED <<clock, deleted>>, jobs' \subseteq jobs
    PROVE  SeriesInv' /\ LedgerStep
<1>1. /\ rule \in RuleType /\ at \in Slots /\ at \in Nat /\ at - 1 \in Nat /\ at # Never
      /\ clock \in Nat /\ accountedThroughAt \in Nat /\ occurrenceCount \in Nat
      /\ Slots \in SUBSET Nat /\ rule.slots \in SUBSET Slots /\ rule.limit \in Nat
  <2>1. rule \in RuleType /\ rule.slots \in SUBSET Slots /\ rule.limit \in Nat
    BY DEF TypeOK, RuleType
  <2>2. at \in Slots
    BY <2>1
  <2> QED
    BY <2>1, <2>2, Times DEF TypeOK, Slots
<1>2. /\ Armed /\ status = "recurring" /\ ~deleted
      /\ accountedThroughAt # Never
      /\ nextRunAt = ComputeNextOccurrence(rule, accountedThroughAt, occurrenceCount)
  BY Times DEF SeriesInv, ArmedWhileRecurring, CursorInv, Armed
<1>3. /\ s \in rule.slots /\ s > accountedThroughAt /\ occurrenceCount < rule.limit
      /\ \A t \in rule.slots : t > accountedThroughAt => s <= t
  BY <1>1, <1>2, NextIsFirst, Times DEF Armed
<1>4. \A t \in Slots : ledger[t] # "none" => t <= accountedThroughAt
  BY DEF SeriesInv, CursorInv
<1>5. /\ rows \in [Slots -> Outcomes]
      /\ \A t \in Slots : \/ rows[t] = ledger[t]
                          \/ ledger[t] = "none" /\ rows[t] = "missed"
                             /\ accountedThroughAt < t /\ t < at
      /\ \A t \in rule.slots : accountedThroughAt < t /\ t < at => rows[t] # "none"
  <2>1. CASE rows = ledger /\ at = s
    <3>1. \A t \in rule.slots : ~(accountedThroughAt < t /\ t < at)
      BY <1>1, <1>3, <2>1
    <3> QED
      BY <2>1, <3>1 DEF TypeOK
  <2>2. CASE rows = AccountSlots(rule, at - 1, "missed")
    <3>1. /\ rows \in [Slots -> Outcomes]
          /\ \A t \in Slots : rows[t] =
               IF /\ accountedThroughAt # Never /\ occurrenceCount < rule.limit
                  /\ t \in rule.slots /\ accountedThroughAt < t /\ t <= at - 1
                  /\ ledger[t] = "none"
               THEN "missed" ELSE ledger[t]
      BY <1>1, <2>2, AccountedRows DEF Outcomes
    <3>2. \A t \in Slots : t <= at - 1 <=> t < at
      BY <1>1
    <3>3. \A t \in Slots : rows[t] =
               IF t \in rule.slots /\ accountedThroughAt < t /\ t < at /\ ledger[t] = "none"
               THEN "missed" ELSE ledger[t]
      BY <1>2, <1>3, <3>1, <3>2
    <3>4. \A t \in rule.slots : accountedThroughAt < t /\ t < at => rows[t] # "none"
      BY <1>1, <3>3
    <3> QED
      BY <3>1, <3>3, <3>4
  <2> QED
    BY <2>1, <2>2
<1>6. rows[at] = "none" /\ ledger[at] = "none" /\ runs[at] = "none"
  <2>1. ledger[at] = "none"
    BY <1>1, <1>3, <1>4
  <2>2. rows[at] = "none"
    BY <1>1, <1>5, <2>1
  <2>3. at \notin Created
    BY <2>1 DEF Created
  <2> QED
    BY <1>1, <2>1, <2>2, <2>3 DEF SeriesInv, Sent
<1>7. \A t \in Slots : ledger'[t] = IF t = at THEN outcome ELSE rows[t]
  BY <1>6 DEF SettleSlot, InsertLedgerRows
<1>8. Created' = (IF outcome = "created" THEN Created \cup {at} ELSE Created)
      /\ Sent' = (IF outcome = "created" THEN Sent \cup {at} ELSE Sent)
  <2>1. Created' = IF outcome = "created" THEN Created \cup {at} ELSE Created
    BY <1>1, <1>5, <1>6, <1>7 DEF Created
  <2>2. Sent' = IF outcome = "created" THEN Sent \cup {at} ELSE Sent
    BY <1>1, <1>6 DEF Sent, SettleSlot, TypeOK
  <2> QED
    BY <2>1, <2>2
<1>9. occurrenceCount' = Cardinality(Created')
  <2>1. IsFiniteSet(Created) /\ at \notin Created
    <3>1. Created \subseteq Slots /\ at \notin Created
      BY <1>6 DEF Created
    <3> QED
      BY <3>1, Times, FS_Subset
  <2>2. occurrenceCount' = IF outcome = "created" THEN occurrenceCount + 1 ELSE occurrenceCount
    BY DEF SettleSlot, CountAfter
  <2> QED
    BY <1>8, <2>1, <2>2, FS_AddElement DEF SeriesInv
<1>10. LedgerStep
  <2>1. (Sent = Created)'
    BY <1>8 DEF SeriesInv
  <2>2. Ledger!Settle
    <3>1. ledger' \in [Slots -> Ledger!Outcomes]
      BY DEF TypeOK, Outcomes, Ledger!Outcomes
    <3>2. \A t \in Slots : ledger'[t] # ledger[t] =>
             /\ ledger'[t] # "none" /\ accountedThroughAt < t /\ t <= at
             /\ ledger'[t] = "created" => t = at
      <4> SUFFICES ASSUME NEW t \in Slots, ledger'[t] # ledger[t]
                   PROVE  /\ ledger'[t] # "none" /\ accountedThroughAt < t /\ t <= at
                          /\ ledger'[t] = "created" => t = at
        OBVIOUS
      <4>1. CASE t = at
        <5>1. ledger'[t] = outcome /\ accountedThroughAt < at /\ at <= at
          BY <1>1, <1>3, <1>7, <4>1
        <5> QED
          BY <4>1, <5>1
      <4>2. CASE t # at
        <5>1. ledger'[t] = "missed" /\ accountedThroughAt < t /\ t < at
          BY <1>5, <1>7, <4>2
        <5> QED
          BY <1>1, <5>1
      <4> QED
        BY <4>1, <4>2
    <3>3. \A t \in Slots : ledger'[t] # ledger[t] => \A u \in Ledger!Settled : u < t
      BY <1>1, <1>4, <3>2 DEF Ledger!Settled
    <3>4. Sent' = Sent \cup {t \in Slots : ledger'[t] # ledger[t] /\ ledger'[t] = "created"}
      BY <1>1, <1>6, <1>7, <1>8, <3>2
    <3> QED
      BY <3>1, <3>2, <3>3, <3>4 DEF Ledger!Settle
  <2> QED
    BY <1>9, <2>1, <2>2 DEF LedgerStep
<1>11. CursorInv'
  <2>1. accountedThroughAt' = at /\ rule' = rule
        /\ nextRunAt' = ComputeNextOccurrence(rule', accountedThroughAt', occurrenceCount')
    BY DEF SettleSlot
  <2>2. ASSUME NEW t \in Slots, ledger'[t] # "none" PROVE t <= at
    <3>1. t \in Nat /\ s \in Nat /\ accountedThroughAt < s
      BY <1>1, <1>3
    <3>2. CASE t = at
      BY <1>1, <3>2
    <3>3. CASE t # at
      <4>1. rows[t] # "none"
        BY <1>7, <2>2, <3>3
      <4>2. CASE rows[t] = ledger[t]
        <5>1. t <= accountedThroughAt
          BY <1>4, <4>1, <4>2
        <5> QED
          BY <1>1, <3>1, <5>1
      <4>3. CASE t < at
        BY <1>1, <3>1, <4>3
      <4> QED
        BY <1>5, <4>2, <4>3
    <3> QED
      BY <3>2, <3>3
  <2>3. \A t \in (jobs \cup owed)' : t <= clock
    BY DEF SeriesInv, CursorInv, OwedAt
  <2>4. at <= clock
    BY <1>1
  <2> QED
    BY <1>1, <2>1, <2>2, <2>3, <2>4 DEF CursorInv
<1>12. OwedInv'
  <2> SUFFICES ASSUME NEW t \in owed', ledger'[t] = "none"
               PROVE  Armed' /\ t \in rule'.slots /\ accountedThroughAt' < t
    BY DEF OwedInv
  <2>1. t \in owed /\ t \in Slots /\ t \in Nat
    BY <1>1 DEF TypeOK, OwedAt
  <2>2. ledger[t] = "none" /\ t # at
    BY <1>5, <1>7, <2>1
  <2>3. t \in rule.slots /\ accountedThroughAt < t
    BY <1>2, <2>1, <2>2 DEF SeriesInv, OwedInv
  <2>4. at < t
    <3>1. rows[t] = "none"
      BY <1>1, <1>7, <2>1, <2>2
    <3>2. ~(t < at)
      BY <1>5, <2>3, <3>1
    <3> QED
      BY <1>1, <2>1, <2>2, <3>2
  <2>5. nextRunAt' # Never
    <3>1. CASE rows = ledger /\ at = s /\ outcome = "skipped"
      <4>1. occurrenceCount' = occurrenceCount
            /\ nextRunAt' = ComputeNextOccurrence(rule, at, occurrenceCount)
        BY <3>1 DEF SettleSlot, CountAfter
      <4>2. ~(t <= at) /\ ~(occurrenceCount >= rule.limit)
        BY <1>1, <1>3, <2>1, <2>4
      <4>3. \/ occurrenceCount >= rule.limit \/ \A u \in rule.slots : u <= at
            \/ nextRunAt' \in rule.slots
        BY <1>1, <4>1, NextIsFirst
      <4>4. nextRunAt' \in rule.slots
        BY <2>3, <4>2, <4>3
      <4> QED
        BY <1>1, <4>4, Times
    <3>2. CASE /\ \A u \in rule.slots : u <= now => u <= at
               /\ owed' = IF nextRunAt' = Never THEN OwedAt(now) ELSE owed
      <4>1. ~(t <= now)
        BY <1>1, <2>1, <2>3, <2>4, <3>2
      <4> QED
        BY <3>2, <4>1 DEF OwedAt
    <3> QED
      BY <3>1, <3>2
  <2> QED
    BY <2>3, <2>4, <2>5 DEF SettleSlot, Armed
<1>13. ArmedWhileRecurring'
  BY <1>2 DEF SettleSlot, SettledStatus, ArmedWhileRecurring, Armed
<1> QED
  BY <1>10, <1>11, <1>12, <1>13 DEF SeriesInv, LedgerStep

\* A step that leaves the ledger, the runs and the armed slot alone.
LEMMA QuietStep ==
    ASSUME TypeOK, TypeOK', SeriesInv, Sent' = Sent,
           (rule'.slots = rule.slots /\ rule'.limit = rule.limit) \/ ~Armed,
           UNCHANGED <<clock, status, deleted, nextRunAt, accountedThroughAt,
                       occurrenceCount, ledger, owed>>,
           \A s \in jobs' : s <= clock
    PROVE  SeriesInv' /\ LedgerStep
<1>1. LedgerStep
  BY SameRows
<1>2. ArmedWhileRecurring'
  BY DEF SeriesInv, ArmedWhileRecurring, Armed
<1>3. CASE Armed
  <2>1. ComputeNextOccurrence(rule', accountedThroughAt, occurrenceCount)
           = ComputeNextOccurrence(rule, accountedThroughAt, occurrenceCount)
    BY <1>3 DEF ComputeNextOccurrence, IsExhaustedByCount
  <2> QED
    BY <1>1, <1>2, <1>3, <2>1
       DEF SeriesInv, CursorInv, OwedInv, Armed, LedgerStep
<1>4. CASE ~Armed
  BY <1>1, <1>2, <1>4 DEF SeriesInv, CursorInv, OwedInv, Armed, LedgerStep
<1> QED
  BY <1>3, <1>4

\* Runs taken back are not runs that were never created.
LEMMA WithdrawnStay ==
    ASSUME TypeOK, NEW which, "none" \notin which, runs' = WithdrawRuns(which)
    PROVE  Sent' = Sent
BY DEF WithdrawRuns, Sent, TypeOK

LEMMA SeriesInit == Init => SeriesInv /\ Ledger!Init
<1> SUFFICES ASSUME Init PROVE SeriesInv /\ Ledger!Init
  OBVIOUS
<1>1. Created = {} /\ Sent = {}
  BY DEF Init, Created, Sent
<1>2. CursorInv /\ OwedInv
  BY DEF Init, CursorInv, OwedInv, Armed, Never
<1>3. ArmedWhileRecurring
  BY DEF Init, ArmedWhileRecurring, Armed
<1>4. occurrenceCount = Cardinality(Created)
  BY <1>1, FS_EmptySet DEF Init
<1> QED
  BY <1>1, <1>2, <1>3, <1>4 DEF SeriesInv, Ledger!Init, Init

\* What holds while the cursor goes forward holds after every step that does
\* not set it back, and the step is one of the ledger in either case.
LEMMA SeriesStep ==
    ASSUME TypeOK, TypeOK', SeriesInv, [Next]_vars
    PROVE  (InOrder' => SeriesInv') /\ Ledger!Settle
<1> USE DEF templateVars, seriesVars, historyVars
<1>1. CASE EditDraft
  <2>1. ~Armed
    BY <1>1 DEF EditDraft, SeriesInv, ArmedWhileRecurring
  <2> QED
    BY <1>1, <2>1, QuietStep DEF EditDraft, Sent, SeriesInv, CursorInv, LedgerStep
<1>2. CASE ScheduleDraft
  <2>1. PICK r \in Rules \cup {rule}, now \in DbNow : rule' = r /\ Arm(r, now)
    BY <1>2 DEF ScheduleDraft
  <2>2. r \in RuleType /\ ~Armed /\ ~deleted
    BY <1>2, <2>1, RulesAssumption
       DEF TypeOK, ScheduleDraft, SeriesInv, ArmedWhileRecurring
  <2> QED
    BY <1>2, <2>1, <2>2, ArmStep DEF ScheduleDraft, LedgerStep
<1>3. CASE ResumeTemplate
  <2>1. PICK now \in DbNow : Arm(rule, now)
    BY <1>3 DEF ResumeTemplate
  <2>2. rule \in RuleType /\ ~Armed /\ ~deleted
    BY <1>3 DEF TypeOK, ResumeTemplate, SeriesInv, ArmedWhileRecurring
  <2> QED
    BY <1>3, <2>1, <2>2, ArmStep DEF ResumeTemplate, LedgerStep
<1>4. CASE PauseTemplate
  <2>1. Sent' = Sent
    BY <1>4 DEF PauseTemplate, Sent
  <2> QED
    BY <1>4, <2>1, DisarmStep DEF PauseTemplate, LedgerStep
<1>5. CASE MoveToDraft
  <2>1. Sent' = Sent
    BY <1>5 DEF MoveToDraft, Sent
  <2> QED
    BY <1>5, <2>1, DisarmStep DEF MoveToDraft, LedgerStep
<1>6. CASE SoftDelete
  <2>1. Sent' = Sent
    BY <1>6, WithdrawnStay DEF SoftDelete, RetiredRuns
  <2> QED
    BY <1>6, <2>1, DisarmStep DEF SoftDelete, LedgerStep
<1>7. CASE CampaignCleanup
  <2>1. Sent' = Sent
    BY <1>7, WithdrawnStay DEF CampaignCleanup
  <2>2. status' # "recurring"
    BY <1>7 DEF CampaignCleanup
  <2>3. CASE nextRunAt # Never
    BY <1>7, <2>1, <2>2, <2>3, DisarmStep DEF CampaignCleanup, LedgerStep
  <2>4. CASE nextRunAt = Never
    <3>1. UNCHANGED <<clock, deleted, rule, nextRunAt, accountedThroughAt, occurrenceCount,
                      ledger, jobs, owed>>
      BY <1>7, <2>4 DEF CampaignCleanup
    <3>2. LedgerStep
      BY <2>1, <3>1, SameRows
    <3>3. CursorInv' /\ OwedInv' /\ ArmedWhileRecurring'
      BY <2>2, <2>4, <3>1
         DEF SeriesInv, CursorInv, OwedInv, ArmedWhileRecurring, Armed
    <3> QED
      BY <3>2, <3>3 DEF SeriesInv, LedgerStep
  <2> QED
    BY <2>3, <2>4
<1>8. CASE \E s \in Slots : ExcludeDate(s) \/ RestoreDate(s)
  <2>1. rule'.slots = rule.slots /\ rule'.limit = rule.limit
    BY <1>8 DEF ExcludeDate, RestoreDate, TypeOK, RuleType
  <2>2. /\ Sent' = Sent
        /\ UNCHANGED <<clock, status, deleted, nextRunAt, accountedThroughAt,
                       occurrenceCount, ledger, owed, jobs>>
    BY <1>8 DEF ExcludeDate, RestoreDate, Sent
  <2> QED
    BY <2>1, <2>2, QuietStep DEF SeriesInv, CursorInv, LedgerStep
<1>9. CASE EnqueueDue
  <2>1. \A s \in jobs' : s <= clock
    BY <1>9 DEF EnqueueDue, ListDue, SeriesInv, CursorInv
  <2> QED
    BY <1>9, <2>1, QuietStep DEF EnqueueDue, Sent, LedgerStep
<1>10. ASSUME NEW s \in Slots, MaterializeOccurrence(s)
       PROVE  (InOrder' => SeriesInv') /\ Ledger!Settle
  <2>1. PICK now \in {t \in DbNow : t >= s} :
           IF ~IsDueSlot(s) THEN NothingMaterialized /\ CountWait(now)
           ELSE IF ~IsLiveTemplate
             THEN Disarm("draft", now) /\ UNCHANGED <<templateVars, rule, occurrenceCount, runs>>
             ELSE /\ \E outcome \in Decisions(EffectiveSlot(s, now)) :
                        SettleSlot(EffectiveSlot(s, now), outcome,
                           AccountSlots(rule, EffectiveSlot(s, now) - 1, "missed"))
                  /\ owed' = IF nextRunAt' = Never THEN OwedAt(now) ELSE owed
                  /\ CountWait(now)
                  /\ UNCHANGED <<deleted, rewound>>
    BY <1>10 DEF MaterializeOccurrence
  <2>2. jobs' \subseteq jobs /\ UNCHANGED clock
    BY <1>10 DEF MaterializeOccurrence
  <2>3. CASE ~IsDueSlot(s)
    BY <2>1, <2>2, <2>3, QuietStep
       DEF NothingMaterialized, Sent, LedgerStep, SeriesInv, CursorInv
  <2>4. CASE IsDueSlot(s)
    <3>1. nextRunAt = s /\ IsLiveTemplate
      BY <2>4, Times DEF IsDueSlot, IsLiveTemplate, SeriesInv, ArmedWhileRecurring, Armed
    <3>2. PICK outcome \in Decisions(EffectiveSlot(s, now)) :
            SettleSlot(EffectiveSlot(s, now), outcome,
                       AccountSlots(rule, EffectiveSlot(s, now) - 1, "missed"))
      BY <2>1, <2>4, <3>1
    <3>3. /\ outcome \in {"created", "skipped"} /\ deleted' = deleted
          /\ owed' = IF nextRunAt' = Never THEN OwedAt(now) ELSE owed
      BY <2>1, <2>4, <3>1 DEF Decisions
    <3>4. now \in Nat /\ now <= clock /\ clock \in Nat /\ s <= now /\ rule \in RuleType
          /\ rule.slots \in SUBSET Nat /\ s \in Nat
      <4>1. now \in DbNow /\ now >= s /\ s \in Nat /\ rule \in RuleType /\ clock \in Nat
            /\ rule.slots \in SUBSET Nat
        BY Times DEF TypeOK, RuleType
      <4>2. now \in Nat
        BY <4>1, NowType
      <4> QED
        BY <4>1, <4>2 DEF DbNow
    <3>5. s \in rule.slots /\ occurrenceCount < rule.limit /\ rule.limit \in Nat
          /\ occurrenceCount \in Nat
      <4>1. nextRunAt = ComputeNextOccurrence(rule, accountedThroughAt, occurrenceCount)
            /\ nextRunAt # Never /\ accountedThroughAt \in Nat
        BY <3>1, Times DEF SeriesInv, CursorInv, Armed, TypeOK
      <4> QED
        BY <3>1, <3>4, <4>1, NextIsFirst DEF TypeOK, RuleType
    <3>6. LET at == EffectiveSlot(s, now)
          IN  /\ at \in rule.slots /\ s <= at /\ at <= now
              /\ \A t \in rule.slots : t <= now => t <= at
      <4> DEFINE latest == ComputeLatestOccurrence(rule, now, occurrenceCount)
      <4>1. /\ latest \in rule.slots /\ latest <= now
            /\ \A t \in rule.slots : t <= now => t <= latest
        BY <3>4, <3>5, LatestIsLast
      <4>2. EffectiveSlot(s, now) = IF latest > s THEN latest ELSE s
        BY DEF EffectiveSlot
      <4> HIDE DEF latest
      <4> QED
        BY <3>4, <3>5, <4>1, <4>2
    <3>7. SeriesInv' /\ LedgerStep
      BY <2>2, <3>1, <3>2, <3>3, <3>4, <3>6, SettleStep
    <3> QED
      BY <3>7 DEF LedgerStep
  <2> QED
    BY <2>3, <2>4
<1>11. ASSUME NEW s \in Slots, SkipOccurrence(s)
       PROVE  SeriesInv' /\ Ledger!Settle
  <2>1. jobs' \subseteq jobs /\ UNCHANGED clock /\ s \in jobs /\ s <= clock /\ clock \in Nat
    BY <1>11, Times DEF SkipOccurrence, SeriesInv, CursorInv, TypeOK
  <2>2. CASE ~IsDueSlot(s)
    BY <1>11, <2>1, <2>2, QuietStep
       DEF SkipOccurrence, NothingMaterialized, Sent, LedgerStep, SeriesInv, CursorInv
  <2>3. CASE IsDueSlot(s)
    <3>1. nextRunAt = s
      BY <2>3 DEF IsDueSlot
    <3>2. SettleSlot(s, "skipped", ledger) /\ UNCHANGED <<deleted, owed>>
      BY <1>11, <2>3 DEF SkipOccurrence
    <3>3. s \in rule.slots /\ s \in Nat
      <4>1. nextRunAt = ComputeNextOccurrence(rule, accountedThroughAt, occurrenceCount)
            /\ nextRunAt # Never /\ accountedThroughAt \in Nat
        BY <3>1, Times DEF SeriesInv, CursorInv, Armed, TypeOK
      <4> QED
        BY <3>1, <4>1, NextIsFirst, Times DEF TypeOK, RuleType
    <3>4. s <= s /\ clock <= clock
      BY <2>1, <3>3
    <3>5. SeriesInv' /\ LedgerStep
      BY <2>1, <3>1, <3>2, <3>3, <3>4, SettleStep
    <3> QED
      BY <3>5 DEF LedgerStep
  <2> QED
    BY <2>2, <2>3
<1>12. CASE \E s \in Slots : JobGivenUp(s)
  <2>1. \A s \in jobs' : s <= clock
    BY <1>12 DEF JobGivenUp, SeriesInv, CursorInv
  <2> QED
    BY <1>12, <2>1, QuietStep DEF JobGivenUp, Sent, LedgerStep
<1>13. CASE \E s \in Slots : RunStarts(s)
  <2>1. Sent' = Sent
    BY <1>13 DEF RunStarts, Sent, TypeOK
  <2> QED
    BY <1>13, <2>1, QuietStep DEF RunStarts, LedgerStep, SeriesInv, CursorInv
<1>14. CASE Tick
  <2>1. LedgerStep
    BY <1>14, SameRows DEF Tick, Sent
  <2>2. clock' = clock + 1 /\ clock \in Nat /\ accountedThroughAt \in Nat
    BY <1>14, Times DEF Tick, TypeOK
  <2>3. CursorInv'
    <3>1. \A s \in (jobs \cup owed)' : s <= clock'
      <4>1. \A s \in jobs \cup owed : s <= clock /\ s \in Nat
        BY Times DEF SeriesInv, CursorInv, TypeOK
      <4> QED
        BY <1>14, <2>2, <4>1 DEF Tick
    <3> QED
      BY <1>14, <2>2, <3>1 DEF Tick, SeriesInv, CursorInv, Armed
  <2>4. OwedInv'
    <3>1. accountedThroughAt < clock'
      BY <2>2 DEF SeriesInv, CursorInv
    <3> QED
      BY <1>14, <3>1 DEF Tick, SeriesInv, OwedInv, Armed
  <2>5. ArmedWhileRecurring'
    BY <1>14 DEF Tick, SeriesInv, ArmedWhileRecurring, Armed
  <2> QED
    BY <2>1, <2>3, <2>4, <2>5 DEF SeriesInv, LedgerStep
<1>15. CASE UNCHANGED vars
  BY <1>15, QuietStep DEF vars, Sent, LedgerStep, SeriesInv, CursorInv
<1> QED
  BY <1>1, <1>2, <1>3, <1>4, <1>5, <1>6, <1>7, <1>8, <1>9, <1>10, <1>11, <1>12, <1>13,
     <1>14, <1>15 DEF Next, UserStep, WorkerStep

\* A cursor that was set back is not forgotten.
LEMMA RewoundStays == [Next]_vars /\ InOrder' => InOrder
<1> USE DEF templateVars, seriesVars, historyVars
<1> SUFFICES ASSUME [Next]_vars PROVE rewound => rewound'
  BY DEF InOrder
<1>1. CASE \/ EditDraft \/ EnqueueDue \/ Tick \/ UNCHANGED vars
           \/ \E s \in Slots : ExcludeDate(s) \/ RestoreDate(s) \/ JobGivenUp(s) \/ RunStarts(s)
  BY <1>1 DEF EditDraft, EnqueueDue, Tick, vars, ExcludeDate, RestoreDate, JobGivenUp, RunStarts
<1>2. CASE ScheduleDraft \/ ResumeTemplate
  BY <1>2 DEF ScheduleDraft, ResumeTemplate, Arm, Rewound
<1>3. CASE PauseTemplate \/ MoveToDraft \/ SoftDelete \/ CampaignCleanup
  BY <1>3 DEF PauseTemplate, MoveToDraft, SoftDelete, CampaignCleanup, Disarm, Rewound
<1>4. CASE \E s \in Slots : WorkerStep(s)
  BY <1>4 DEF WorkerStep, MaterializeOccurrence, SkipOccurrence, NothingMaterialized, Disarm,
     Rewound
<1> QED
  BY <1>1, <1>2, <1>3, <1>4 DEF Next, UserStep

-----------------------------------------------------------------------------
(* The theorems *)

\* As long as the cursor has not been set back, the ledger ends at the cursor,
\* the armed slot is the first after it, the runs are the slots created and the
\* template row agrees with the series row.
THEOREM SeriesCorrect == Spec => [](InOrder => SeriesInv)
<1>1. Init => (InOrder => SeriesInv)
  BY SeriesInit
<1>2. TypeOK /\ TypeOK' /\ (InOrder => SeriesInv) /\ [Next]_vars => (InOrder => SeriesInv)'
  BY SeriesStep, RewoundStays
<1> QED
  BY TypeCorrect, <1>1, <1>2, PTL DEF Spec

\* A slot has a run exactly if its ledger row says created.
THEOREM RunsMatchLedgerCorrect == Spec => []RunsMatchLedger
<1>1. (InOrder => SeriesInv) => RunsMatchLedger
  BY DEF SeriesInv, RunsMatchLedger
<1> QED
  BY SeriesCorrect, <1>1, PTL

\* What the armed slot is: the first of the rule after the cursor, with a run
\* left to make.
LEMMA ArmedSlot ==
    ASSUME TypeOK, SeriesInv, Armed
    PROVE  /\ occurrenceCount < rule.limit
           /\ \A t \in rule.slots : t > accountedThroughAt => nextRunAt <= t
<1>1. nextRunAt = ComputeNextOccurrence(rule, accountedThroughAt, occurrenceCount)
      /\ nextRunAt # Never /\ accountedThroughAt \in Nat
  BY Times DEF SeriesInv, CursorInv, Armed, TypeOK
<1> QED
  BY <1>1, NextIsFirst, Times DEF TypeOK, RuleType

\* Nothing that came due while the series was armed is forgotten.
THEOREM DueSlotsAccountedCorrect == Spec => []DueSlotsAccounted
<1>1. TypeOK /\ (InOrder => SeriesInv) => DueSlotsAccounted
  <2> SUFFICES ASSUME TypeOK, SeriesInv, ~deleted, NEW s \in owed, ledger[s] = "none"
               PROVE  Armed /\ nextRunAt <= s
    BY DEF DueSlotsAccounted
  <2>1. Armed /\ s \in rule.slots /\ accountedThroughAt < s
    BY DEF SeriesInv, OwedInv
  <2>2. s \in Nat /\ accountedThroughAt \in Nat
    BY Times DEF TypeOK
  <2> QED
    BY <2>1, <2>2, ArmedSlot
<1> QED
  BY SeriesCorrect, TypeCorrect, <1>1, PTL

\* The series implements the append-only ledger of which every batch sends at
\* most its last slot, until its cursor is set back.
THEOREM ImplementsLedgerCorrect == Spec => ImplementsLedger
<1>1. Init => Ledger!Init
  BY SeriesInit
<1>2. TypeOK /\ TypeOK' /\ (InOrder => SeriesInv) /\ [Next]_vars
        => [InOrder => Ledger!Settle]_<<ledger, Sent>>
  BY SeriesStep
<1> QED
  BY SeriesCorrect, TypeCorrect, <1>1, <1>2, PTL DEF Spec, ImplementsLedger

\* What the worker has taken is not excluded afterwards, because an exclusion
\* names a slot after the cursor.
THEOREM SentRunsNotSkippableCorrect == Spec => SentRunsNotSkippable
<1> USE DEF templateVars, seriesVars, historyVars
<1>1. ASSUME TypeOK, SeriesInv, [Next]_vars, status # "draft"
      PROVE  rule'.excluded \cap Created \subseteq rule.excluded
  <2>1. CASE rule' = rule
    BY <2>1
  <2>2. CASE \E s \in Slots : ExcludeDate(s)
    <3>1. PICK s \in Slots : ExcludeDate(s)
      BY <2>2
    <3>2. rule'.excluded = UnsettledExclusions \cup {s}
      BY <1>1, <3>1 DEF ExcludeDate, TypeOK, RuleType
    <3>3. s > accountedThroughAt
      BY <3>1 DEF ExcludeDate, DateCanChange
    <3>4. s \notin Created
      <4>1. s \in Created => s <= accountedThroughAt
        BY <1>1 DEF Created, SeriesInv, CursorInv
      <4>2. s \in Nat /\ accountedThroughAt \in Nat
        BY <1>1, Times DEF TypeOK
      <4> QED
        BY <3>3, <4>1, <4>2
    <3> QED
      BY <3>2, <3>4 DEF UnsettledExclusions
  <2>3. CASE \E s \in Slots : RestoreDate(s)
    BY <1>1, <2>3 DEF RestoreDate, UnsettledExclusions, TypeOK, RuleType
  <2>4. CASE EditDraft \/ ScheduleDraft
    BY <1>1, <2>4 DEF EditDraft, ScheduleDraft
  <2>5. CASE \E s \in Slots : MaterializeOccurrence(s) \/ SkipOccurrence(s)
    BY <2>1, <2>5 DEF MaterializeOccurrence, SkipOccurrence, SettleSlot, NothingMaterialized
  <2>6. CASE ResumeTemplate \/ PauseTemplate \/ MoveToDraft \/ SoftDelete \/ CampaignCleanup
    BY <2>1, <2>6 DEF ResumeTemplate, PauseTemplate, MoveToDraft, SoftDelete, CampaignCleanup
  <2>7. CASE \/ EnqueueDue \/ Tick \/ UNCHANGED vars
             \/ \E s \in Slots : JobGivenUp(s) \/ RunStarts(s)
    BY <2>1, <2>7 DEF EnqueueDue, Tick, vars, JobGivenUp, RunStarts
  <2> QED
    BY <1>1, <2>2, <2>3, <2>4, <2>5, <2>6, <2>7 DEF Next, UserStep, WorkerStep
<1>2. TypeOK /\ (InOrder => SeriesInv) /\ [Next]_vars
         => [InOrder /\ status # "draft" => rule'.excluded \cap Created \subseteq rule.excluded]_vars
  BY <1>1
<1> QED
  BY SeriesCorrect, TypeCorrect, <1>2, PTL DEF Spec, SentRunsNotSkippable

-----------------------------------------------------------------------------
(* What holds whatever was set back: it rests on the rows that are locked,    *)
(* and not on the time.                                                       *)

ArmedInv ==
    ArmedWhileRecurring /\ (Armed => ~IsExhaustedByCount(rule, occurrenceCount))

\* The slot a series is armed with, or none if its runs are used up.
LEMMA NextNotExhausted ==
    ASSUME NEW r \in RuleType, NEW after \in Nat, NEW count \in Nat,
           ComputeNextOccurrence(r, after, count) # Never
    PROVE  ~IsExhaustedByCount(r, count)
BY DEF ComputeNextOccurrence

LEMMA ArmArms ==
    ASSUME TypeOK, NEW r \in RuleType, NEW now \in DbNow, Arm(r, now), rule' = r,
           status' = "recurring", ~deleted', UNCHANGED occurrenceCount
    PROVE  ArmedInv'
<1>1. now \in Nat /\ occurrenceCount \in Nat
  BY NowType DEF TypeOK
<1>2. nextRunAt' = ComputeNextOccurrence(r, now, occurrenceCount) /\ nextRunAt' # Never
  BY DEF Arm, ArmFrom
<1> QED
  BY <1>1, <1>2, NextNotExhausted DEF ArmedInv, ArmedWhileRecurring, Armed

LEMMA SettleArms ==
    ASSUME TypeOK, ArmedInv, Armed, NEW s \in Slots, NEW outcome, NEW rows,
           SettleSlot(s, outcome, rows), UNCHANGED deleted
    PROVE  ArmedInv'
<1>1. s \in Nat /\ CountAfter(outcome) \in Nat /\ rule \in RuleType
  BY Times DEF TypeOK, CountAfter
<1>2. /\ nextRunAt' = ComputeNextOccurrence(rule, s, CountAfter(outcome))
      /\ occurrenceCount' = CountAfter(outcome) /\ rule' = rule
      /\ status' = IF nextRunAt' = Never THEN "sent" ELSE status
  BY DEF SettleSlot, SettledStatus
<1>3. status = "recurring" /\ ~deleted
  BY DEF ArmedInv, ArmedWhileRecurring
<1> QED
  BY <1>1, <1>2, <1>3, NextNotExhausted DEF ArmedInv, ArmedWhileRecurring, Armed

LEMMA ArmedStep ==
    ASSUME TypeOK, ArmedInv, DeletedStartsNothing, [Next]_vars
    PROVE  ArmedInv' /\ DeletedStartsNothing'
<1> USE DEF templateVars, seriesVars, historyVars
<1>1. CASE EditDraft \/ EnqueueDue \/ Tick \/ UNCHANGED vars
           \/ \E s \in Slots : JobGivenUp(s) \/ ExcludeDate(s) \/ RestoreDate(s)
  <2>1. UNCHANGED <<status, deleted, nextRunAt, occurrenceCount, runs>>
        /\ (Armed => rule'.limit = rule.limit)
    BY <1>1 DEF EditDraft, EnqueueDue, Tick, vars, JobGivenUp, ExcludeDate, RestoreDate, TypeOK,
       RuleType, ArmedInv, ArmedWhileRecurring
  <2> QED
    BY <2>1 DEF ArmedInv, ArmedWhileRecurring, Armed, IsExhaustedByCount, DeletedStartsNothing
<1>2. CASE ScheduleDraft \/ ResumeTemplate
  <2>1. PICK r \in Rules \cup {rule}, now \in DbNow : rule' = r /\ Arm(r, now)
    BY <1>2 DEF ScheduleDraft, ResumeTemplate
  <2>2. r \in RuleType
    BY <2>1, RulesAssumption DEF TypeOK
  <2>3. status' = "recurring" /\ ~deleted' /\ UNCHANGED <<occurrenceCount, runs>>
    BY <1>2 DEF ScheduleDraft, ResumeTemplate
  <2> QED
    BY <2>1, <2>2, <2>3, ArmArms DEF DeletedStartsNothing
<1>3. CASE PauseTemplate \/ MoveToDraft
  <2>1. nextRunAt' = Never /\ status' # "recurring" /\ UNCHANGED <<deleted, runs>>
    BY <1>3 DEF PauseTemplate, MoveToDraft, Disarm
  <2> QED
    BY <2>1 DEF ArmedInv, ArmedWhileRecurring, Armed, DeletedStartsNothing
<1>4. CASE SoftDelete
  <2>1. nextRunAt' = Never /\ deleted'
    BY <1>4 DEF SoftDelete, Disarm
  <2>2. \A s \in Slots : runs'[s] # "scheduled"
    BY <1>4 DEF SoftDelete, WithdrawRuns, RetiredRuns
  <2> QED
    BY <2>1, <2>2 DEF ArmedInv, ArmedWhileRecurring, Armed, DeletedStartsNothing
<1>5. CASE CampaignCleanup
  BY <1>5 DEF CampaignCleanup, Disarm, WithdrawRuns, ArmedInv, ArmedWhileRecurring, Armed,
     DeletedStartsNothing, TypeOK
<1>6. ASSUME NEW s \in Slots, WorkerStep(s)
      PROVE  ArmedInv' /\ DeletedStartsNothing'
  <2>1. CASE ~IsDueSlot(s)
    <3>1. NothingMaterialized
      BY <1>6, <2>1 DEF WorkerStep, MaterializeOccurrence, SkipOccurrence
    <3> QED
      BY <3>1 DEF NothingMaterialized, ArmedInv, ArmedWhileRecurring, Armed, DeletedStartsNothing
  <2>2. CASE IsDueSlot(s)
    <3>1. Armed /\ IsLiveTemplate
      BY <2>2, Times DEF IsDueSlot, Armed, ArmedInv, ArmedWhileRecurring, IsLiveTemplate
    <3>2. /\ UNCHANGED deleted
          /\ \E at \in Slots, outcome \in {"created", "skipped"} :
                \E rows : SettleSlot(at, outcome, rows)
      <4>1. CASE SkipOccurrence(s)
        BY <2>2, <4>1 DEF SkipOccurrence
      <4>2. CASE MaterializeOccurrence(s)
        <5>1. PICK now \in DbNow :
                 /\ \E outcome \in Decisions(EffectiveSlot(s, now)) :
                      SettleSlot(EffectiveSlot(s, now), outcome,
                                 AccountSlots(rule, EffectiveSlot(s, now) - 1, "missed"))
                 /\ UNCHANGED deleted
          BY <2>2, <3>1, <4>2 DEF MaterializeOccurrence
        <5> QED
          BY <5>1, EffectiveType DEF Decisions
      <4> QED
        BY <1>6, <4>1, <4>2 DEF WorkerStep
    <3>3. ~deleted'
      BY <3>1, <3>2 DEF IsLiveTemplate
    <3> QED
      BY <3>1, <3>2, <3>3, SettleArms DEF DeletedStartsNothing
  <2> QED
    BY <2>1, <2>2
<1>7. CASE \E s \in Slots : RunStarts(s)
  BY <1>7 DEF RunStarts, ArmedInv, ArmedWhileRecurring, Armed, DeletedStartsNothing, TypeOK
<1> QED
  BY <1>1, <1>2, <1>3, <1>4, <1>5, <1>6, <1>7 DEF Next, UserStep

\* The two rows agree, and an armed series has a run left to make.
THEOREM ArmedCorrect == Spec => [](ArmedInv /\ DeletedStartsNothing)
<1>1. Init => ArmedInv /\ DeletedStartsNothing
  BY DEF Init, ArmedInv, ArmedWhileRecurring, Armed, DeletedStartsNothing
<1>2. TypeOK /\ (ArmedInv /\ DeletedStartsNothing) /\ [Next]_vars
        => (ArmedInv /\ DeletedStartsNothing)'
  BY ArmedStep
<1> QED
  BY <1>1, <1>2, TypeCorrect, PTL DEF Spec

\* A series is armed exactly while its template repeats, however long a
\* transaction waited: each writes both rows.
THEOREM ArmedWhileRecurringCorrect == Spec => []ArmedWhileRecurring
<1>1. ArmedInv => ArmedWhileRecurring
  BY DEF ArmedInv
<1> QED
  BY ArmedCorrect, <1>1, PTL

\* No run of a deleted series is left to start, however long the delete or the
\* job waited for the lock.
THEOREM DeletedStartsNothingCorrect == Spec => []DeletedStartsNothing
BY ArmedCorrect, PTL

\* A run starts only for the last slot there was when its transaction began.
LEMMA RunIsTheLatest ==
    ASSUME TypeOK, ArmedInv, [Next]_vars, NEW x \in Slots, runs[x] = "none", runs'[x] # "none"
    PROVE  \E now \in DbNow : \A t \in rule.slots : t <= x \/ t > now
<1> USE DEF templateVars, seriesVars, historyVars
<1>1. PICK s \in Slots : MaterializeOccurrence(s) \/ SkipOccurrence(s)
  <2>1. ~(SoftDelete \/ CampaignCleanup)
    BY DEF SoftDelete, CampaignCleanup, WithdrawRuns, RetiredRuns
  <2>2. ~(\E s \in Slots : RunStarts(s))
    BY DEF RunStarts, TypeOK
  <2>3. ~(\/ EditDraft \/ ScheduleDraft \/ ResumeTemplate \/ PauseTemplate \/ MoveToDraft
          \/ EnqueueDue \/ Tick \/ UNCHANGED vars
          \/ \E s \in Slots : ExcludeDate(s) \/ RestoreDate(s) \/ JobGivenUp(s))
    BY DEF EditDraft, ScheduleDraft, ResumeTemplate, PauseTemplate, MoveToDraft, EnqueueDue, Tick,
       vars, ExcludeDate, RestoreDate, JobGivenUp
  <2> QED
    BY <2>1, <2>2, <2>3 DEF Next, UserStep, WorkerStep
<1>2. IsDueSlot(s) /\ IsLiveTemplate
  BY <1>1, Times DEF MaterializeOccurrence, SkipOccurrence, NothingMaterialized, IsDueSlot, Armed,
     ArmedInv, ArmedWhileRecurring, IsLiveTemplate
<1>3. ~SkipOccurrence(s)
  BY <1>2 DEF SkipOccurrence, SettleSlot
<1>4. PICK now \in DbNow : \E outcome, rows : SettleSlot(EffectiveSlot(s, now), outcome, rows)
  BY <1>1, <1>2, <1>3 DEF MaterializeOccurrence
<1>5. x = EffectiveSlot(s, now)
  BY <1>4, EffectiveType DEF SettleSlot, TypeOK
<1>6. ASSUME NEW t \in rule.slots, t <= now PROVE t <= x
  <2> DEFINE latest == ComputeLatestOccurrence(rule, now, occurrenceCount)
  <2>1. now \in Nat /\ t \in Nat /\ s \in Nat /\ rule \in RuleType /\ occurrenceCount \in Nat
    BY NowType, Times DEF TypeOK, RuleType
  <2>2. Armed
    BY <1>2, Times DEF IsDueSlot, Armed
  <2>3. ~(occurrenceCount >= rule.limit)
    BY <2>2 DEF ArmedInv, IsExhaustedByCount
  <2>4. latest \in rule.slots /\ t <= latest
    BY <1>6, <2>1, <2>3, LatestIsLast
  <2>5. latest \in Nat
    BY <2>1, <2>4, Times DEF RuleType
  <2>6. x = IF latest > s THEN latest ELSE s
    BY <1>5 DEF EffectiveSlot
  <2> HIDE DEF latest
  <2> QED
    BY <2>1, <2>4, <2>5, <2>6
<1>7. \A t \in rule.slots : t <= x \/ t > now
  <2> SUFFICES ASSUME NEW t \in rule.slots, ~(t > now) PROVE t <= x
    OBVIOUS
  <2>1. t \in Nat /\ now \in Nat
    BY NowType, Times DEF TypeOK, RuleType
  <2> QED
    BY <1>6, <2>1
<1> QED
  BY <1>7

\* No run starts for a slot that a later one has overtaken, but for what came due
\* while its transaction waited for the lock.
THEOREM OnlyTheLatestIsSentCorrect == Spec => OnlyTheLatestIsSent
<1>1. ASSUME TypeOK, ArmedInv, [Next]_vars, NEW s \in Slots, runs[s] = "none", runs'[s] # "none",
             NEW t \in rule.slots
      PROVE  t <= s \/ t + MaxLag > clock
  <2>1. PICK now \in DbNow : t <= s \/ t > now
    BY <1>1, RunIsTheLatest
  <2>2. now \in Nat /\ t \in Nat /\ clock \in Nat /\ MaxLag \in Nat /\ clock <= now + MaxLag
    BY <1>1, NowType, Times, BoundsAssumption DEF TypeOK, RuleType, DbNow
  <2> QED
    BY <2>1, <2>2
<1>2. TypeOK /\ ArmedInv /\ [Next]_vars
         => [\A s \in Slots : runs[s] = "none" /\ runs'[s] # "none"
                => \A t \in rule.slots : t <= s \/ t + MaxLag > clock]_vars
  BY <1>1
<1> QED
  BY ArmedCorrect, TypeCorrect, <1>2, PTL DEF Spec, OnlyTheLatestIsSent

\* A series never creates more runs than its limit: it is armed only with a run
\* left to make, and until its cursor is set back the count is that of the
\* slots created.
THEOREM WithinTheLimitCorrect == Spec => []WithinTheLimit
<1>1. TypeOK /\ (InOrder => SeriesInv) /\ ArmedInv => WithinTheLimit
  <2> SUFFICES ASSUME TypeOK, InOrder => SeriesInv, ArmedInv PROVE WithinTheLimit
    OBVIOUS
  <2>1. InOrder => occurrenceCount = Cardinality(Created)
    BY DEF SeriesInv
  <2>2. Armed => occurrenceCount < rule.limit
    BY DEF ArmedInv, IsExhaustedByCount, TypeOK, RuleType
  <2> QED
    BY <2>1, <2>2 DEF WithinTheLimit
<1> QED
  BY SeriesCorrect, ArmedCorrect, TypeCorrect, <1>1, PTL
=============================================================================

-------------------------- MODULE RecurrenceLedger --------------------------
(***************************************************************************)
(* What the ledger of a repeating broadcast promises: every slot is        *)
(* settled at most once and in order, for good, and there is a run for     *)
(* exactly the slots settled as created.                                   *)
(***************************************************************************)
EXTENDS Naturals

CONSTANT Slots

VARIABLES
    ledger,  \* how each slot was settled
    sent     \* the slots a run was created for

Outcomes == {"none", "created", "skipped", "missed"}
Settled == {s \in Slots : ledger[s] # "none"}

Init ==
    /\ ledger = [s \in Slots |-> "none"]
    /\ sent = {}

\* Slots after every settled one are settled, and of them only the last may
\* be sent: what an outage held up is not made up for.
Settle ==
    /\ ledger' \in [Slots -> Outcomes]
    /\ LET news == {s \in Slots : ledger'[s] # ledger[s]}
           created == {s \in news : ledger'[s] = "created"}
       IN  /\ \A s \in news : ledger'[s] # "none" /\ \A t \in Settled : t < s
           /\ \A s \in created, t \in news : t <= s
           /\ sent' = sent \cup created

Spec == Init /\ [][Settle]_<<ledger, sent>>
=============================================================================

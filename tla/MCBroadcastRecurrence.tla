----------------------- MODULE MCBroadcastRecurrence ------------------------
(* A small instance of BroadcastRecurrence. *)
EXTENDS BroadcastRecurrence

\* Every other time for ever, every time but one, and twice at most.
EndlessRule == [slots |-> {1, 3}, excluded |-> {}, limit |-> 9]
ExcludingRule == [slots |-> {2, 3, 4}, excluded |-> {3}, limit |-> 9]
TwiceRule == [slots |-> {2, 3, 4}, excluded |-> {}, limit |-> 2]

ThreeRules == {EndlessRule, ExcludingRule, TwiceRule}
=============================================================================

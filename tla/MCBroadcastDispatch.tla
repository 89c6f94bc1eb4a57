------------------------ MODULE MCBroadcastDispatch -------------------------
(* A small instance of BroadcastDispatch. *)
EXTENDS BroadcastDispatch

CONSTANTS c1, c2

TwoContacts == {c1, c2}
OneOfThem == {c2}

\* One recipient per window, then two once it is resumed.
OneThenTwo == [e \in Epochs |-> IF e = 0 THEN 1 ELSE 2]
=============================================================================

------------------------- MODULE MCBroadcastPrepare -------------------------
(* A small instance of BroadcastPrepare. *)
EXTENDS BroadcastPrepare, TLC

CONSTANTS c1, c2, u1, u2

TwoContacts == {c1, c2}
OneUser == {u1}
TwoUsers == {u1, u2}
NoUsers == {}

Symmetric == Permutations(TwoContacts)

=============================================================================

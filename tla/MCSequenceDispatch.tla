------------------------- MODULE MCSequenceDispatch -------------------------
(* A small instance of SequenceDispatch. *)
EXTENDS SequenceDispatch
=============================================================================

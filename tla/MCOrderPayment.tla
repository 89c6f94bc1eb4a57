--------------------------- MODULE MCOrderPayment ---------------------------
(* A small instance of OrderPayment. *)
EXTENDS OrderPayment
=============================================================================

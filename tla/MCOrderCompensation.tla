------------------------- MODULE MCOrderCompensation -------------------------
(* Some orders of an account that are billed and cancelled over a few days. *)
EXTENDS OrderCompensation

=============================================================================

----------------------------- MODULE MCRegisters -----------------------------
(* Two units; the bounds are in the configuration. *)
EXTENDS Counters
=============================================================================

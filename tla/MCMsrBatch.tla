----------------------------- MODULE MCMsrBatch -----------------------------
(* Model checking of MsrBatch.  No definition tells one register from       *)
(* another and every property checked is a safety property, so registers    *)
(* are symmetric; the value 0 is what calloc leaves, so values are not.     *)
EXTENDS MsrBatch, TLC

RegisterSymmetry == Permutations(Register)
=============================================================================

------------------------------ MODULE MCCsrImc ------------------------------
(* Model checking of CsrImc.  The properties claim nothing after a call     *)
(* outside the terms, so its outcome is checked and not followed further.   *)
EXTENDS CsrImc

WithinTerms == ~outside
=============================================================================

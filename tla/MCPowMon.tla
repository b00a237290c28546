------------------------------ MODULE MCPowMon ------------------------------
(* Model checking of PowMon: every monitor; caps above, at and below the    *)
(* floor of the dynamic wrapper.                                            *)
EXTENDS PowMon
=============================================================================

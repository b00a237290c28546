---------------------------- MODULE MCMsrDevice ----------------------------
(* Model checking of MsrDevice: two logical processors, four descriptors   *)
(* (what a pass on each kernel module takes: a further one runs out).      *)
EXTENDS MsrDevice
=============================================================================

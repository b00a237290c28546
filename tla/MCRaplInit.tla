----------------------------- MODULE MCRaplInit -----------------------------
(* Model checking of RaplInit: every model of the table and one without    *)
(* RAPL, two sockets, every choice of locked registers, some refused reads.*)
EXTENDS RaplInit, TLC

AllPlatforms == Models \cup {NoModel}
SomeGarbage == {{}, FlagBits, {DRAM_ENERGY_STATUS, TURBO_ACTIVATION_RATIO}}
\* None, or all reads of the second socket.
SomeRefusals == {{}, LockReads \X {1}}
=============================================================================

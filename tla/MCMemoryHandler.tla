-------------------------- MODULE MCMemoryHandler --------------------------
(* Model checking of MemoryHandler: addresses and pointers are model       *)
(* values, interchangeable with each other.                                *)
EXTENDS MemoryHandler, TLC

Symmetry == Permutations(Addr) \cup Permutations(Pointer)
=============================================================================

---------------------------- MODULE MCHighlander ----------------------------
(* Model checking of Highlander.  Processes are interchangeable in the runs *)
(* of safety properties.                                                    *)
EXTENDS Highlander, TLC

ProcSymmetry == Permutations(Proc)
=============================================================================

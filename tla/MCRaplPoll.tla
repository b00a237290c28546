----------------------------- MODULE MCRaplPoll -----------------------------
(* Model checking of RaplPoll.  Registers of two units wrap twice within   *)
(* MaxEnergy; sockets are interchangeable.                                 *)
EXTENDS RaplPoll, TLC

SocketSymmetry == Permutations(Socket)
=============================================================================

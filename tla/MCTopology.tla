----------------------------- MODULE MCTopology -----------------------------
(* Model checking of BatchClients, and with it of Topology.                *)
EXTENDS BatchClients, TLC
=============================================================================

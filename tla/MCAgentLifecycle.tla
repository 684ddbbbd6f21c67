-------------------------- MODULE MCAgentLifecycle --------------------------
(* Instances of AgentLifecycle for TLC.                                     *)
EXTENDS AgentLifecycle, TLC

AllOps == CreateOps \cup NamedOps \cup ListOps

WriteOps == WriterOps

Symmetry == Permutations(Requests) \cup Permutations(Containers) \cup Permutations(Graphs)
=============================================================================

-------------------------- MODULE MCLifecycleQueries --------------------------
(* An instance of LifecycleQueries for TLC.                                 *)
EXTENDS LifecycleQueries, TLC

(* A rebuild takes every step of a plain Create; a Delete moves a deployment *)
(* from the daemon to the disk alone, a purge ends it.                       *)
MCOps == {"forceCreate"} \cup DeleteOps \cup QueryOps

Symmetry == Permutations(Requests) \cup Permutations(Containers) \cup Permutations(Keys)
=============================================================================

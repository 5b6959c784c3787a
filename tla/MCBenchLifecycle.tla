-------------------------- MODULE MCBenchLifecycle --------------------------
(* Model values and bounds for the runs of BenchLifecycle. *)
EXTENDS BenchLifecycle, TLC

MCValues == [port : Ports, hosts : SUBSET Hosts]

Symmetry == Permutations(Procs) \cup Permutations(Names) \cup Permutations(Hosts)
=============================================================================

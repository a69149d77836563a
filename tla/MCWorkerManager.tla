-------------------------- MODULE MCWorkerManager --------------------------
(***************************************************************************)
(* WorkerManager for TLC: all keys in one DashMap shard, request tasks     *)
(* interchangeable.                                                        *)
(***************************************************************************)
EXTENDS WorkerManager, TLC

OneShard == [k \in Keys |-> 1]
RequestSymmetry == Permutations(Requests)

\* A crash of a worker or a shutdown of the proxy, not both in one behaviour.
CrashOrShutdown == crashes + shutdowns <= 1
=============================================================================

---------------------------- MODULE MCWorkerPool ----------------------------
(***************************************************************************)
(* Instances of WorkerPool for TLC.  The hosts other than the one the      *)
(* session starts on are interchangeable.                                  *)
(***************************************************************************)
EXTENDS WorkerPool, TLC

OtherHosts == Permutations(Hosts \ {Home})
=============================================================================

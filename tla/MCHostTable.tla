---------------------------- MODULE MCHostTable ------------------------------
(***************************************************************************)
(* Instances of HostTable for TLC.  Workers are interchangeable, and so    *)
(* are the hosts other than the one the session starts on.                 *)
(***************************************************************************)
EXTENDS HostTable, TLC

Alike == Permutations(Threads) \cup Permutations(Hosts \ {Home})
=============================================================================

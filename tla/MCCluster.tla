------------------------------ MODULE MCCluster ------------------------------
(***************************************************************************)
(* Instances of Cluster for TLC: every client is on a machine of its own.  *)
(* A master that is started again may have a hook script, and no login for *)
(* one of the clients.                                                     *)
(***************************************************************************)
EXTENDS Cluster, TLC

CONSTANTS s1, s2, c1, c2

MCAddr    == [c \in Client |-> c]
MCDials   == [n \in Slave \cup Client |-> IF n \in {s1, c1} THEN 2 ELSE 1]
MCOnce    == [n \in Slave \cup Client |-> 1]
All       == Slave \cup Client
MCConfigs == {[known |-> All, hook |-> FALSE], [known |-> All \ {c2}, hook |-> TRUE]}
Symmetry  == Permutations(Slave) \cup Permutations(Client)
=============================================================================

----------------------------- MODULE MCMultiPeek -----------------------------
(* One worker has two peeks on its page, the other one on each of two pages. *)
EXTENDS MultiPeek, TLC

CONSTANTS w1, w2

MCWorker   == {w1, w2}
MCMaxPeeks == w1 :> 2 @@ w2 :> 1
MCMaxSorts == w1 :> 1 @@ w2 :> 2
=============================================================================

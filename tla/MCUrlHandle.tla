---------------------------- MODULE MCUrlHandle ------------------------------
(***************************************************************************)
(* Instances of UrlHandle for TLC: the crawlers that are tried, and the    *)
(* URLs of one host, which are interchangeable.                            *)
(***************************************************************************)
EXTENDS UrlHandle, TLC

Options(d, p, e, s) == [depth_limit |-> d, peek_limit |-> p, external |-> e, spread |-> s]

MCCrawlers ==
    {Options(0, 0, FALSE, TRUE), Options(1, 0, FALSE, FALSE), Options(2, 0, TRUE, FALSE),
     Options(2, 0, FALSE, TRUE), Options(3, 0, TRUE, FALSE), Options(2, 1, FALSE, FALSE)}

Alike == Permutations(Paths)
=============================================================================

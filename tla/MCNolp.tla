-------------------------------- MODULE MCNolp -------------------------------
(***************************************************************************)
(* Instances of Nolp for TLC: an empty payload, one of two bytes that      *)
(* begins with a newline, and one of seven, longer than a line and than    *)
(* the buffer.                                                             *)
(***************************************************************************)
EXTENDS Nolp

CONSTANTS two, seven, x, c, d, e   \* the bytes besides newline, space and zero

MCSize     == [b \in Bytes |-> IF b = two THEN 2 ELSE IF b = seven THEN 7 ELSE 0]
MCPayloads == {<<>>, <<NL, x>>, <<x, x, x, NL, x, x, x>>}
=============================================================================

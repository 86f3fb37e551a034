------------------------------- MODULE Channel -------------------------------
(***************************************************************************)
(* What the line protocol promises to the daemons: the messages of the     *)
(* peer reach the callbacks whole, in order, each once, until one side     *)
(* closes the connection.                                                  *)
(***************************************************************************)
EXTENDS Naturals, Sequences

VARIABLES sent, delivered, open
vars == <<sent, delivered, open>>

Init == sent = <<>> /\ delivered = <<>> /\ open = TRUE

Send ==
    /\ Len(sent') > Len(sent) /\ SubSeq(sent', 1, Len(sent)) = sent
    /\ UNCHANGED <<delivered, open>>

Deliver ==
    /\ open /\ Len(delivered) < Len(sent)
    /\ delivered' = Append(delivered, sent[Len(delivered) + 1])
    /\ open' \in BOOLEAN
    /\ UNCHANGED sent

Close == open' = FALSE /\ UNCHANGED <<sent, delivered>>

Next == Send \/ Deliver \/ Close

Spec == Init /\ [][Next]_vars
=============================================================================

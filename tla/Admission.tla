------------------------------ MODULE Admission ------------------------------
(***************************************************************************)
(* What a cluster promises of its tokens: a slave makes a token once, and  *)
(* a token lets one connection in, once, while it is pending.              *)
(***************************************************************************)
EXTENDS Naturals

CONSTANTS Slave, NoToken

VARIABLES
    made,      \* how many tokens each slave has made
    pending,   \* tokens that wait for their client
    inside     \* connection -> the token that let it in

Init ==
    /\ made = [s \in Slave |-> 0]
    /\ pending = {}
    /\ \A c \in DOMAIN inside : inside[c] = NoToken

Make(s) ==
    /\ made' = [made EXCEPT ![s] = @ + 1]
    /\ \E t \in pending' : /\ pending' = pending \cup {t}
                           /\ t.at = s /\ t.no = made'[s]
    /\ UNCHANGED inside

Admit(c, t) ==
    /\ t \in pending /\ inside[c] = NoToken
    /\ pending' = pending \ {t}
    /\ inside' = [inside EXCEPT ![c] = t]
    /\ UNCHANGED made

(* Connections end; a slave that ends takes its pending tokens with it.      *)
Leave ==
    /\ pending' \subseteq pending
    /\ \A c \in DOMAIN inside : inside'[c] \in {inside[c], NoToken}
    /\ UNCHANGED made

Next ==
    \/ \E s \in Slave : Make(s)
    \/ \E c \in DOMAIN inside : \E t \in pending : Admit(c, t)
    \/ Leave

Spec == Init /\ [][Next]_<<made, pending, inside>>
=============================================================================

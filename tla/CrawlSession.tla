---------------------------- MODULE CrawlSession ----------------------------
(***************************************************************************)
(* What a pool of workers promises to the program that starts a session:   *)
(* workers work or are parked, only a worker at work can put a parked one  *)
(* back to work, and the session is wound up when nobody works any more or *)
(* when the program asked for it, and then it is over.                     *)
(***************************************************************************)
CONSTANT Workers
VARIABLES working, phase, asked
vars == <<working, phase, asked>>

Init == working = Workers /\ phase = "running" /\ asked = FALSE

Park(w) ==
    /\ phase = "running" /\ w \in working
    /\ working' = working \ {w}
    /\ UNCHANGED <<phase, asked>>

Unpark(v, w) ==
    /\ phase = "running" /\ v \in working
    /\ working' = working \cup {w}
    /\ UNCHANGED <<phase, asked>>

Ask == asked' = TRUE /\ UNCHANGED <<working, phase>>

WindUp ==
    /\ phase = "running" /\ (working = {} \/ asked)
    /\ phase' = "stopping" /\ working' = {}
    /\ UNCHANGED asked

Finish == phase = "stopping" /\ phase' = "over" /\ UNCHANGED <<working, asked>>

Next ==
    \/ \E w \in Workers : Park(w)
    \/ \E v, w \in Workers : Unpark(v, w)
    \/ Ask \/ WindUp \/ Finish

Spec == Init /\ [][Next]_vars
=============================================================================

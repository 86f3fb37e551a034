-------------------------------- MODULE Nolp ---------------------------------
(***************************************************************************)
(* The receiver of the Methanol line protocol, nolp_recv() in              *)
(* libmethaconfig/nolp.c, with the socket it reads and the peer.           *)
(*                                                                         *)
(* A command is a word and an argument on a line.  The callback of some    *)
(* commands asks for a number of raw bytes (nolp_expect), which follow the *)
(* line; a connection may begin with a raw line (nolp_expect_line).  TCP   *)
(* hands over the bytes in chunks of any size.  The buffer is modelled     *)
(* with what earlier messages left in it, because the code reads it.       *)
(***************************************************************************)
EXTENDS Integers, Sequences

CONSTANTS
    Bytes, NL, SP, NUL,   \* the bytes, among them newline, space and zero
    Junk,                 \* what fresh memory holds
    Plain,                \* commands whose callback only acts
    Sized,                \* commands whose callback calls nolp_expect()
    Other,                \* commands the receiver does not know
    Args, Payloads,       \* what the peer sends with either
    Size,                 \* atoi() of an argument
    BUFSZ,                \* NOLP_DEFAULT_BUFSZ
    Patience,             \* after a payload of so many bytes the peer waits for an answer
    MaxSent               \* bound: messages the peer sends

ASSUME ByteAssumption == {NL, SP, NUL, Junk} \subseteq Bytes /\ NL \notin {SP, Junk}
ASSUME SizeAssumption == Size \in [Bytes -> Nat] /\ BUFSZ \in Nat \ {0} /\ Patience \in Nat
ASSUME CommandAssumption ==
    /\ Plain \cup Sized \cup Other \subseteq Bytes \ {NL, SP, NUL}
    /\ Other \cap (Plain \cup Sized) = {} /\ Plain \cap Sized = {}
    /\ Args \subseteq Bytes \ {NL, SP}
    /\ Payloads \subseteq Seq(Bytes)

VARIABLES
    sent,       \* the messages of the peer so far
    wire,       \* bytes on their way
    mem,        \* nolp_t.buf; its length is nolp_t.cap
    sz,         \* nolp_t.sz: how many bytes of mem are in use
    state,      \* nolp_t.state
    expect,     \* nolp_t.expect
    last,       \* local of nolp_recv(): where the search for a newline starts
    pc,         \* recv: waits for data; run: in the loop; or the end
    delivered   \* what the callbacks were given

vars == <<sent, wire, mem, sz, state, expect, last, pc, delivered>>

MessageSet    == [kind : {"line", "cmd", "data"}, bytes : Seq(Bytes)]
Message(k, s) == [kind |-> k, bytes |-> s]
Fresh(n)      == [i \in 1..n |-> Junk]
Drop(s, n)    == SubSeq(s, n + 1, Len(s))

-----------------------------------------------------------------------------
(* A client that has logged in to its slave waits for a line first.          *)
Init ==
    /\ sent = <<>> /\ wire = <<>>
    /\ mem = Fresh(BUFSZ) /\ sz = 0
    /\ state \in {"CMD", "LINE"}
    /\ expect = 0 /\ last = 0
    /\ pc = "recv"
    /\ delivered = <<>>

(* The peer sends a line, a command, or a command and the bytes it tells of. *)
(* The slave, for one, sends a long CONFIG and waits until it is asked for a *)
(* URL.                                                                      *)
Awaited(m) == m.kind = "data" /\ Len(m.bytes) >= Patience

Send(messages, bytes) ==
    /\ Len(sent) < MaxSent
    /\ \A i \in 1..Len(sent) : Awaited(sent[i]) => i <= Len(delivered)
    /\ sent' = sent \o messages
    /\ wire' = wire \o bytes
    /\ UNCHANGED <<mem, sz, state, expect, last, pc, delivered>>

SendLine ==
    /\ sent = <<>> /\ state = "LINE"
    /\ \E a \in Args : Send(<<Message("line", <<a>>)>>, <<a, NL>>)

SendPlain ==
    /\ sent # <<>> \/ state = "CMD"
    /\ \E c \in Plain \cup Other, a \in Args :
         Send(<<Message("cmd", <<c, SP, a>>)>>, <<c, SP, a, NL>>)

SendSized ==
    /\ sent # <<>> \/ state = "CMD"
    /\ \E c \in Sized, a \in Args, p \in Payloads :
         /\ Size[a] = Len(p)
         /\ Send(<<Message("cmd", <<c, SP, a>>), Message("data", p)>>,
                 <<c, SP, a, NL>> \o p)

-----------------------------------------------------------------------------
(* nolp_recv(): in state CMD a full buffer grows before the read.            *)
Grown == IF state = "CMD" /\ sz >= Len(mem) THEN mem \o Fresh(BUFSZ) ELSE mem

Room(m) == Len(m) - sz

Receive ==
    /\ pc = "recv" /\ wire # <<>>
    /\ \E k \in 1..Len(wire) :
         /\ k <= Room(Grown)
         /\ mem' = [i \in 1..Len(Grown) |->
                      IF i \in (sz + 1)..(sz + k) THEN wire[i - sz] ELSE Grown[i]]
         /\ sz' = sz + k
         /\ wire' = Drop(wire, k)
    /\ last' = sz
    /\ pc' = "run"
    /\ UNCHANGED <<sent, state, expect, delivered>>

(* The peer closes; recv() with no room returns 0 just as then.              *)
Close ==
    /\ pc = "recv"
    /\ pc' \in {"closed"} \cup (IF Room(Grown) = 0 THEN {"refused"} ELSE {})
    /\ UNCHANGED <<sent, wire, mem, sz, state, expect, last, delivered>>

-----------------------------------------------------------------------------
(* Mutant of Shift: the bytes stay where they are.                           *)
ShiftForgotten(m, n) == m

(* memmove() of what follows the first n bytes.                              *)
Shift(m, n) ==
    [i \in 1..Len(m) |-> IF i \in 1..(sz - n) THEN m[i + n] ELSE m[i]]

Deliver(kind, n) == delivered' = Append(delivered, Message(kind, SubSeq(mem, 1, n)))

(* Mutant of Wanted: the buffer is not made larger.                          *)
WantedAsIs == mem

Wanted == IF Len(mem) < expect THEN mem \o Fresh(expect - Len(mem)) ELSE mem

(* State EXPECT: not all of it is there yet ...                              *)
ExpectMore ==
    /\ pc = "run" /\ state = "EXPECT" /\ sz < expect
    /\ mem' = Wanted
    /\ pc' = "recv"
    /\ UNCHANGED <<sent, wire, sz, state, expect, last, delivered>>

(* ... or it is, and what follows is looked at next, unless the callback     *)
(* fails: then nothing of the object is used again.                          *)
ExpectDone ==
    /\ pc = "run" /\ state = "EXPECT" /\ sz >= expect
    /\ Deliver("data", expect)
    /\ sz' = sz - expect
    /\ IF sz = expect
       THEN mem' = SubSeq(mem \o Fresh(BUFSZ), 1, BUFSZ) /\ pc' \in {"recv", "closed"}
       ELSE mem' = Shift(mem, expect) /\ pc' \in {"run", "closed"}
    /\ state' = "CMD"
    /\ UNCHANGED <<sent, wire, expect, last>>

(* memchr(buf+last, '\n', sz-last); with last > sz the length wraps around   *)
(* and the search goes on in old memory, and beyond the buffer.              *)
Newlines == {i \in (last + 1)..(IF last > sz THEN Len(mem) ELSE sz) : mem[i] = NL}
First(S) == CHOOSE i \in S : \A j \in S : i <= j

NoNewline ==
    /\ pc = "run" /\ state # "EXPECT" /\ Newlines = {}
    /\ pc' = IF last > sz THEN "crashed" ELSE "recv"
    /\ UNCHANGED <<sent, wire, mem, sz, state, expect, last, delivered>>

(* The rest after a line that ends at p is moved to the front.               *)
Line(m, p) ==
    /\ mem' = IF p < sz THEN Shift(m, p) ELSE m
    /\ sz' = IF p < sz THEN sz - p ELSE 0
    /\ last' = 0

(* State LINE: the callback gets the line, and may not fail.                 *)
RawLine ==
    /\ pc = "run" /\ state = "LINE" /\ Newlines # {}
    /\ Deliver("line", First(Newlines) - 1)
    /\ Line(mem, First(Newlines))
    /\ state' = "CMD"
    /\ UNCHANGED <<sent, wire, expect, pc>>

(* State CMD: the first word, which the code ends with a zero, names the     *)
(* callback.                                                                 *)
WordEnd(p) == LET spaces == {i \in 1..(p - 1) : mem[i] = SP}
              IN IF spaces = {} THEN p ELSE First(spaces)

(* Mutant of Again: what is left after a command is not looked at.           *)
AgainLater(left) == FALSE

Again(left) == left > 0

Command ==
    /\ pc = "run" /\ state = "CMD" /\ Newlines # {}
    /\ LET p == First(Newlines)
           s == WordEnd(p)
           n == IF s < p THEN Size[mem[s + 1]] ELSE 0
       IN /\ s = 2 /\ mem[1] \in Plain \cup Sized
          /\ Deliver("cmd", p - 1)
          /\ Line([mem EXCEPT ![s] = NUL], p)
          /\ IF mem[1] \in Sized
             THEN /\ state' = "EXPECT" /\ expect' = n
                  /\ pc' \in {IF Again(sz') THEN "run" ELSE "recv", "closed"}
             ELSE pc' \in {"run", "closed"} /\ UNCHANGED <<state, expect>>
    /\ UNCHANGED <<sent, wire>>

UnknownCommand ==
    /\ pc = "run" /\ state = "CMD" /\ Newlines # {}
    /\ ~(WordEnd(First(Newlines)) = 2 /\ mem[1] \in Plain \cup Sized)
    /\ pc' = "refused"
    /\ UNCHANGED <<sent, wire, mem, sz, state, expect, last, delivered>>

-----------------------------------------------------------------------------
Run == ExpectMore \/ ExpectDone \/ NoNewline \/ RawLine \/ Command \/ UnknownCommand
Over == pc \in {"closed", "refused", "crashed"} /\ UNCHANGED vars

Next ==
    \/ SendLine \/ SendPlain \/ SendSized
    \/ Receive \/ Close
    \/ Run \/ Over

(* libev calls nolp_recv() as long as there are bytes to read.               *)
Spec == Init /\ [][Next]_vars /\ WF_vars(Receive \/ Run)

-----------------------------------------------------------------------------
(* Every variable keeps its type, and the bytes in use lie in the buffer.    *)
TypeOK ==
    /\ wire \in Seq(Bytes) /\ mem \in Seq(Bytes)
    /\ sz \in 0..Len(mem) /\ last \in Nat /\ expect \in Nat
    /\ state \in {"CMD", "LINE", "EXPECT"}
    /\ pc \in {"recv", "run", "closed", "refused", "crashed"}
    /\ sent \in Seq(MessageSet) /\ delivered \in Seq(MessageSet)

(* Whenever data may come in, there is room for it: recv() with no room      *)
(* returns 0, which the callers take for a connection that was closed.       *)
RoomToRead == pc = "recv" /\ state # "LINE" => Room(Grown) > 0

(* However TCP cuts the bytes, the callbacks get the messages of the peer.   *)
Messages == INSTANCE Channel WITH open <- pc # "closed"
ImplementsChannel == Messages!Spec

(* ... and they get all of them, unless one side closes or the peer sends a  *)
(* command the receiver does not know.  Only an empty payload, such as that  *)
(* of a TARGET without attributes, may have to wait for the next message.    *)
Strange(m) == m.kind = "cmd" /\ m.bytes[1] \in Other
AllDelivered ==
    []<>(\/ pc = "closed" \/ delivered = sent
         \/ sent = Append(delivered, Message("data", <<>>))
         \/ pc = "refused" /\ Strange(sent[Len(delivered) + 1]))
=============================================================================

------------------------------ MODULE NolpProofs ------------------------------
(***************************************************************************)
(* Proofs about Nolp for every set of commands, payloads and buffer sizes, *)
(* and whether or not the peer waits: the bytes in use stay within the     *)
(* buffer, and there is always room for the next read.  If the peer waits  *)
(* after payloads that are not short, the receiver implements Channel.     *)
(***************************************************************************)
EXTENDS Nolp, SequenceTheorems, WellFoundedInduction, TLAPS

(* While payload is awaited the buffer is large enough for all of it, unless *)
(* nothing of it has come in yet.                                            *)
ExpectInv ==
    pc = "recv" /\ state = "EXPECT" => sz = 0 \/ sz < Len(mem)

IInv == TypeOK /\ Len(mem) >= 1 /\ ExpectInv

(* Functions on 1..n are sequences.                                          *)
LEMMA FunctionIsSeq ==
  ASSUME NEW S, NEW n \in Nat, NEW f \in [1..n -> S]
  PROVE  f \in Seq(S) /\ Len(f) = n
OBVIOUS

LEMMA FreshIs ==
  ASSUME NEW n \in Nat
  PROVE  Fresh(n) \in Seq(Bytes) /\ Len(Fresh(n)) = n
<1>1. Fresh(n) \in [1..n -> Bytes]
  BY ByteAssumption DEF Fresh
<1>2. QED
  BY <1>1, FunctionIsSeq

(* Larger buffers keep what they hold.                                       *)
LEMMA Enlarge ==
  ASSUME NEW m \in Seq(Bytes), NEW n \in Nat
  PROVE  m \o Fresh(n) \in Seq(Bytes) /\ Len(m \o Fresh(n)) = Len(m) + n
<1>1. Fresh(n) \in Seq(Bytes) /\ Len(Fresh(n)) = n
  BY FreshIs
<1> HIDE DEF Fresh
<1>2. QED
  BY <1>1, ConcatProperties

LEMMA GrownIs ==
  ASSUME TypeOK, Len(mem) >= 1
  PROVE  /\ Grown \in Seq(Bytes) /\ Len(Grown) \in Nat /\ Len(Grown) >= Len(mem)
         /\ state = "CMD" => Len(Grown) > sz
<1>1. mem \in Seq(Bytes) /\ Len(mem) \in Nat /\ sz \in 0..Len(mem) /\ BUFSZ \in Nat /\ BUFSZ > 0
  BY SizeAssumption DEF TypeOK
<1>2. mem \o Fresh(BUFSZ) \in Seq(Bytes) /\ Len(mem \o Fresh(BUFSZ)) = Len(mem) + BUFSZ
  BY <1>1, Enlarge
<1>3. CASE state = "CMD" /\ sz >= Len(mem)
  <2>1. Grown = mem \o Fresh(BUFSZ)
    BY <1>3 DEF Grown
  <2>2. QED
    BY <1>1, <1>2, <2>1
<1>4. CASE ~(state = "CMD" /\ sz >= Len(mem))
  <2>1. Grown = mem
    BY <1>4 DEF Grown
  <2>2. QED
    BY <1>1, <1>4, <2>1
<1>5. QED
  BY <1>3, <1>4

LEMMA WantedIs ==
  ASSUME TypeOK
  PROVE  /\ Wanted \in Seq(Bytes) /\ Len(Wanted) >= Len(mem) /\ Len(Wanted) >= expect
<1>1. mem \in Seq(Bytes) /\ Len(mem) \in Nat /\ expect \in Nat
  BY DEF TypeOK
<1>2. CASE Len(mem) < expect
  <2>1. expect - Len(mem) \in Nat
    BY <1>1, <1>2
  <2>2. /\ mem \o Fresh(expect - Len(mem)) \in Seq(Bytes)
        /\ Len(mem \o Fresh(expect - Len(mem))) = Len(mem) + (expect - Len(mem))
    BY <1>1, <2>1, Enlarge
  <2>3. Wanted = mem \o Fresh(expect - Len(mem))
    BY <1>2 DEF Wanted
  <2>4. QED
    BY <1>1, <2>2, <2>3
<1>3. CASE ~(Len(mem) < expect)
  <2>1. Wanted = mem
    BY <1>3 DEF Wanted
  <2>2. QED
    BY <1>1, <1>3, <2>1
<1>4. QED
  BY <1>2, <1>3

(* Moving bytes to the front changes no length.                              *)
LEMMA ShiftIs ==
  ASSUME NEW m \in Seq(Bytes), NEW n \in Nat, sz \in 0..Len(m)
  PROVE  Shift(m, n) \in Seq(Bytes) /\ Len(Shift(m, n)) = Len(m)
<1>1. \A i \in 1..Len(m) : i \in 1..(sz - n) => i + n \in 1..Len(m)
  OBVIOUS
<1>2. \A i \in 1..Len(m) : m[i] \in Bytes
  OBVIOUS
<1>3. \A i \in 1..Len(m) : (IF i \in 1..(sz - n) THEN m[i + n] ELSE m[i]) \in Bytes
  BY <1>1, <1>2
<1>4. Shift(m, n) \in [1..Len(m) -> Bytes]
  BY <1>3 DEF Shift
<1>5. QED
  BY <1>4, FunctionIsSeq

(* Nor does overwriting a byte.                                              *)
LEMMA SetIs ==
  ASSUME NEW m \in Seq(Bytes), NEW i, NEW b \in Bytes
  PROVE  [m EXCEPT ![i] = b] \in Seq(Bytes) /\ Len([m EXCEPT ![i] = b]) = Len(m)
<1>1. CASE i \in 1..Len(m)
  BY <1>1, ExceptSeq
<1>2. CASE i \notin 1..Len(m)
  <2>1. m \in [1..Len(m) -> Bytes] /\ Len(m) \in Nat
    OBVIOUS
  <2>2. DOMAIN [m EXCEPT ![i] = b] = 1..Len(m)
    BY <2>1
  <2>3. \A j \in 1..Len(m) : [m EXCEPT ![i] = b][j] = m[j]
    BY <1>2, <2>1
  <2>4. [m EXCEPT ![i] = b] = m
    BY <2>1, <2>2, <2>3
  <2>5. QED
    BY <2>4
<1>3. QED
  BY <1>1, <1>2

(* What a callback is given is made of bytes.                                *)
LEMMA DeliverIs ==
  ASSUME TypeOK, NEW k \in {"line", "cmd", "data"}, NEW n \in 0..Len(mem), Deliver(k, n)
  PROVE  delivered' \in Seq(MessageSet)
<1>1. SubSeq(mem, 1, n) \in Seq(Bytes)
  BY SubSeqProperties DEF TypeOK
<1>2. Message(k, SubSeq(mem, 1, n)) \in MessageSet
  BY <1>1 DEF Message, MessageSet
<1>3. delivered \in Seq(MessageSet)
  BY DEF TypeOK
<1> HIDE DEF Message, MessageSet
<1>4. QED
  BY <1>2, <1>3 DEF Deliver

(* The first newline found lies in the buffer.                               *)
LEMMA FirstIs ==
  ASSUME NEW S \in SUBSET Nat, S # {}
  PROVE  First(S) \in S /\ \A i \in S : First(S) <= i
<1> DEFINE R == OpToRel(<, Nat)
<1>1. \A j, i \in Nat : j < i => <<j, i>> \in R
  BY DEF OpToRel
<1>2. \E i \in S : \A j \in S : ~(<<j, i>> \in R)
  <2> HIDE DEF R
  <2>1. QED
    BY NatLessThanWellFounded, WFMin DEF R
<1>3. \E i \in S : \A j \in S : i <= j
  <2>1. PICK i \in S : \A j \in S : ~(<<j, i>> \in R)
    BY <1>2
  <2>2. \A j \in S : ~(j < i)
    BY <1>1, <2>1
  <2>3. QED
    BY <2>2
<1>4. QED
  BY <1>3 DEF First

-----------------------------------------------------------------------------
LEMMA InitInv == Init => IInv
<1> SUFFICES ASSUME Init PROVE IInv
  OBVIOUS
<1>1. mem \in Seq(Bytes) /\ Len(mem) = BUFSZ /\ BUFSZ \in Nat /\ BUFSZ >= 1
  BY FreshIs, SizeAssumption DEF Init
<1>2. sent = <<>> /\ delivered = <<>> /\ wire = <<>>
  BY DEF Init
<1>3. sent \in Seq(MessageSet) /\ delivered \in Seq(MessageSet) /\ wire \in Seq(Bytes)
  BY <1>2
<1>4. QED
  BY <1>1, <1>3 DEF Init, IInv, TypeOK, ExpectInv

LEMMA StepSend ==
  ASSUME IInv, SendLine \/ SendPlain \/ SendSized
  PROVE  IInv'
<1>1. /\ sent \in Seq(MessageSet) /\ wire \in Seq(Bytes)
      /\ NL \in Bytes /\ SP \in Bytes /\ Args \subseteq Bytes
      /\ Plain \cup Sized \cup Other \subseteq Bytes
  BY ByteAssumption, CommandAssumption DEF IInv, TypeOK
<1>2. PICK ms \in Seq(MessageSet), bs \in Seq(Bytes) : Send(ms, bs)
  <2>1. CASE SendLine
    <3>1. PICK a \in Args : Send(<<Message("line", <<a>>)>>, <<a, NL>>)
      BY <2>1 DEF SendLine
    <3>2. <<a>> \in Seq(Bytes) /\ <<a, NL>> \in Seq(Bytes)
      BY <1>1
    <3>3. Message("line", <<a>>) \in MessageSet
      BY <3>2 DEF Message, MessageSet
    <3> HIDE DEF MessageSet, Message
    <3>4. <<Message("line", <<a>>)>> \in Seq(MessageSet)
      BY <3>3
    <3>5. QED
      BY <3>1, <3>2, <3>4
  <2>2. CASE SendPlain
    <3>1. PICK c \in Plain \cup Other, a \in Args :
            Send(<<Message("cmd", <<c, SP, a>>)>>, <<c, SP, a, NL>>)
      BY <2>2 DEF SendPlain
    <3>2. <<c, SP, a>> \in Seq(Bytes) /\ <<c, SP, a, NL>> \in Seq(Bytes)
      BY <1>1
    <3>3. Message("cmd", <<c, SP, a>>) \in MessageSet
      BY <3>2 DEF Message, MessageSet
    <3> HIDE DEF MessageSet, Message
    <3>4. <<Message("cmd", <<c, SP, a>>)>> \in Seq(MessageSet)
      BY <3>3
    <3>5. QED
      BY <3>1, <3>2, <3>4
  <2>3. CASE SendSized
    <3>1. PICK c \in Sized, a \in Args, p \in Payloads :
            Send(<<Message("cmd", <<c, SP, a>>), Message("data", p)>>, <<c, SP, a, NL>> \o p)
      BY <2>3 DEF SendSized
    <3>2. <<c, SP, a>> \in Seq(Bytes) /\ <<c, SP, a, NL>> \in Seq(Bytes) /\ p \in Seq(Bytes)
      BY <1>1, CommandAssumption
    <3>3. Message("cmd", <<c, SP, a>>) \in MessageSet /\ Message("data", p) \in MessageSet
      BY <3>2 DEF Message, MessageSet
    <3> HIDE DEF MessageSet, Message
    <3>4. <<Message("cmd", <<c, SP, a>>), Message("data", p)>> \in Seq(MessageSet)
      BY <3>3
    <3>5. (<<c, SP, a, NL>> \o p) \in Seq(Bytes)
      BY <3>2, ConcatProperties
    <3>6. QED
      BY <3>1, <3>4, <3>5
  <2>4. QED
    BY <2>1, <2>2, <2>3
<1>3. sent' = sent \o ms /\ wire' = wire \o bs
  BY <1>2 DEF Send
<1>4. sent' \in Seq(MessageSet) /\ wire' \in Seq(Bytes)
  BY <1>1, <1>2, <1>3, ConcatProperties
<1>5. UNCHANGED <<mem, sz, state, expect, last, pc, delivered>>
  BY <1>2 DEF Send
<1>6. QED
  BY <1>4, <1>5 DEF IInv, TypeOK, ExpectInv

LEMMA StepReceive ==
  ASSUME IInv, Receive
  PROVE  IInv'
<1>1. /\ mem \in Seq(Bytes) /\ wire \in Seq(Bytes) /\ sz \in Nat /\ sz <= Len(mem)
      /\ Len(mem) \in Nat /\ Len(mem) >= 1
  BY DEF IInv, TypeOK
<1>2. Grown \in Seq(Bytes) /\ Len(Grown) \in Nat /\ Len(Grown) >= Len(mem)
  BY GrownIs DEF IInv
<1> DEFINE g == Grown
<1>3. PICK k \in 1..Len(wire) :
        /\ k <= Len(g) - sz
        /\ mem' = [i \in 1..Len(g) |-> IF i \in (sz + 1)..(sz + k) THEN wire[i - sz] ELSE g[i]]
        /\ sz' = sz + k /\ wire' = Drop(wire, k)
  BY DEF Receive, Room
<1> HIDE DEF g
<1>4. \A i \in 1..Len(g) : (IF i \in (sz + 1)..(sz + k) THEN wire[i - sz] ELSE g[i]) \in Bytes
  <2> TAKE i \in 1..Len(g)
  <2>1. CASE i \in (sz + 1)..(sz + k)
    <3>1. i - sz \in 1..Len(wire)
      BY <1>1, <1>3, <2>1
    <3>2. QED
      BY <1>1, <2>1, <3>1
  <2>2. CASE i \notin (sz + 1)..(sz + k)
    BY <1>2, <2>2 DEF g
  <2>3. QED
    BY <2>1, <2>2
<1>5. mem' \in [1..Len(g) -> Bytes] /\ Len(g) \in Nat
  BY <1>2, <1>3, <1>4 DEF g
<1>6. mem' \in Seq(Bytes) /\ Len(mem') = Len(g)
  BY <1>5, FunctionIsSeq
<1>7. sz' \in 0..Len(mem') /\ Len(mem') >= 1
  BY <1>1, <1>2, <1>3, <1>6 DEF g
<1>8. wire' \in Seq(Bytes)
  BY <1>1, <1>3, SubSeqProperties DEF Drop
<1>9. last' = sz /\ pc' = "run" /\ UNCHANGED <<sent, state, expect, delivered>>
  BY DEF Receive
<1>10. QED
  BY <1>1, <1>6, <1>7, <1>8, <1>9 DEF IInv, TypeOK, ExpectInv

LEMMA StepExpect ==
  ASSUME IInv, ExpectMore \/ ExpectDone
  PROVE  IInv'
<1>1. /\ mem \in Seq(Bytes) /\ sz \in Nat /\ sz <= Len(mem) /\ expect \in Nat
      /\ Len(mem) \in Nat /\ Len(mem) >= 1 /\ BUFSZ \in Nat /\ BUFSZ >= 1
  BY SizeAssumption DEF IInv, TypeOK
<1>2. CASE ExpectMore
  <2>1. Wanted \in Seq(Bytes) /\ Len(Wanted) >= Len(mem) /\ Len(Wanted) >= expect
    BY WantedIs DEF IInv
  <2>2. mem' = Wanted /\ sz < expect /\ UNCHANGED <<sent, wire, sz, state, expect, last, delivered>>
        /\ pc' = "recv"
    BY <1>2 DEF ExpectMore
  <2>3. mem' \in Seq(Bytes) /\ Len(mem') \in Nat /\ Len(mem') >= 1 /\ sz \in 0..Len(mem') /\ sz < Len(mem')
    <3> DEFINE u == Wanted
    <3>1. u \in Seq(Bytes) /\ Len(u) >= Len(mem) /\ Len(u) >= expect /\ mem' = u
      BY <2>1, <2>2
    <3> HIDE DEF u
    <3>2. Len(u) \in Nat
      BY <3>1
    <3>3. QED
      BY <1>1, <2>2, <3>1, <3>2
  <2>4. QED
    BY <2>2, <2>3 DEF IInv, TypeOK, ExpectInv
<1>3. CASE ExpectDone
  <2>1. sz >= expect /\ sz' = sz - expect /\ state' = "CMD" /\ Deliver("data", expect)
        /\ UNCHANGED <<sent, wire, expect, last>>
    BY <1>3 DEF ExpectDone
  <2>2. delivered' \in Seq(MessageSet)
    <3>1. expect \in 0..Len(mem)
      BY <1>1, <2>1
    <3>2. QED
      BY <2>1, <3>1, DeliverIs DEF IInv
  <2>3. mem' \in Seq(Bytes) /\ Len(mem') >= 1 /\ sz' \in 0..Len(mem')
    <3>1. CASE sz = expect
      <4>1. mem' = SubSeq(mem \o Fresh(BUFSZ), 1, BUFSZ)
        BY <1>3, <3>1 DEF ExpectDone
      <4>2. mem \o Fresh(BUFSZ) \in Seq(Bytes) /\ Len(mem \o Fresh(BUFSZ)) = Len(mem) + BUFSZ
        BY <1>1, Enlarge
      <4> DEFINE u == mem \o Fresh(BUFSZ)
      <4>3. u \in Seq(Bytes) /\ Len(u) >= BUFSZ /\ mem' = SubSeq(u, 1, BUFSZ)
        BY <1>1, <4>1, <4>2
      <4> HIDE DEF u
      <4>4. SubSeq(u, 1, BUFSZ) \in Seq(Bytes) /\ Len(SubSeq(u, 1, BUFSZ)) = BUFSZ
        BY <1>1, <4>3
      <4>5. QED
        BY <1>1, <2>1, <3>1, <4>3, <4>4
    <3>2. CASE sz # expect
      <4>1. mem' = Shift(mem, expect)
        BY <1>3, <3>2 DEF ExpectDone
      <4>2. mem' \in Seq(Bytes) /\ Len(mem') = Len(mem)
        BY <1>1, <4>1, ShiftIs
      <4>3. QED
        BY <1>1, <2>1, <4>2
    <3>3. QED
      BY <3>1, <3>2
  <2>4. pc' \in {"recv", "run", "closed"}
    BY <1>3 DEF ExpectDone
  <2>5. QED
    BY <2>1, <2>2, <2>3, <2>4 DEF IInv, TypeOK, ExpectInv
<1>4. QED
  BY <1>2, <1>3

(* Where a newline is found, and what taking its line away leaves.           *)
LEMMA NewlineIn ==
  ASSUME IInv, Newlines # {}
  PROVE  First(Newlines) \in 1..Len(mem)
<1>1. sz \in Nat /\ sz <= Len(mem) /\ last \in Nat /\ Len(mem) \in Nat
  BY DEF IInv, TypeOK
<1>2. Newlines \subseteq 1..Len(mem)
  BY <1>1 DEF Newlines
<1>3. First(Newlines) \in Newlines
  BY <1>2, FirstIs
<1>4. QED
  BY <1>2, <1>3

LEMMA LineIs ==
  ASSUME NEW m \in Seq(Bytes), NEW p \in 1..Len(m), sz \in 0..Len(m), Line(m, p)
  PROVE  /\ mem' \in Seq(Bytes) /\ Len(mem') = Len(m)
         /\ sz' \in 0..Len(m) /\ sz' < Len(m) /\ last' = 0
<1>1. CASE p < sz
  <2>1. mem' = Shift(m, p) /\ sz' = sz - p /\ last' = 0
    BY <1>1 DEF Line
  <2>2. Shift(m, p) \in Seq(Bytes) /\ Len(Shift(m, p)) = Len(m)
    BY ShiftIs
  <2>3. Len(m) \in Nat
    OBVIOUS
  <2>4. QED
    BY <1>1, <2>1, <2>2, <2>3
<1>2. CASE ~(p < sz)
  <2>1. mem' = m /\ sz' = 0 /\ last' = 0
    BY <1>2 DEF Line
  <2>2. QED
    BY <2>1
<1>3. QED
  BY <1>1, <1>2

LEMMA StepRawLine ==
  ASSUME IInv, RawLine
  PROVE  IInv'
<1> DEFINE p == First(Newlines)
<1>1. /\ pc' = "run" /\ state' = "CMD" /\ Deliver("line", p - 1) /\ Line(mem, p)
      /\ UNCHANGED <<sent, wire, expect>>
  BY DEF RawLine
<1>2. p \in 1..Len(mem)
  BY NewlineIn DEF RawLine
<1> HIDE DEF p
<1>3. mem \in Seq(Bytes) /\ Len(mem) \in Nat /\ Len(mem) >= 1 /\ sz \in 0..Len(mem)
  BY DEF IInv, TypeOK
<1>4. delivered' \in Seq(MessageSet)
  <2>1. p - 1 \in 0..Len(mem)
    BY <1>2, <1>3
  <2>2. QED
    BY <1>1, <2>1, DeliverIs DEF IInv
<1>5. mem' \in Seq(Bytes) /\ Len(mem') = Len(mem) /\ sz' \in 0..Len(mem) /\ last' = 0
  BY <1>1, <1>2, <1>3, LineIs
<1>6. QED
  BY <1>1, <1>3, <1>4, <1>5 DEF IInv, TypeOK, ExpectInv

LEMMA StepCommand ==
  ASSUME IInv, Command
  PROVE  IInv'
<1> DEFINE p == First(Newlines)
           s == WordEnd(p)
           n == IF s < p THEN Size[mem[s + 1]] ELSE 0
           m == [mem EXCEPT ![s] = NUL]
<1>1. /\ s = 2 /\ Deliver("cmd", p - 1) /\ Line(m, p) /\ state = "CMD"
      /\ \/ state' = "EXPECT" /\ expect' = n /\ pc' \in {"run", "recv", "closed"}
         \/ pc' \in {"run", "closed"} /\ UNCHANGED <<state, expect>>
      /\ pc' = "recv" => ~Again(sz')
      /\ UNCHANGED <<sent, wire>>
  BY DEF Command
<1>2. p \in 1..Len(mem)
  BY NewlineIn DEF Command
<1>3. mem \in Seq(Bytes) /\ Len(mem) \in Nat /\ Len(mem) >= 1 /\ sz \in 0..Len(mem) /\ expect \in Nat
      /\ sent \in Seq(MessageSet) /\ wire \in Seq(Bytes)
  BY DEF IInv, TypeOK
<1>4. n \in Nat
  <2> HIDE DEF p, s
  <2>1. CASE s < p
    <3>1. s + 1 \in 1..Len(mem)
      BY <1>1, <1>2, <1>3, <2>1
    <3>2. mem[s + 1] \in Bytes
      BY <1>3, <3>1
    <3>3. QED
      BY <2>1, <3>2, SizeAssumption
  <2>2. CASE ~(s < p)
    BY <2>2
  <2>3. QED
    BY <2>1, <2>2
<1>5. m \in Seq(Bytes) /\ Len(m) = Len(mem)
  <2>1. NUL \in Bytes /\ mem \in Seq(Bytes)
    BY <1>3, ByteAssumption
  <2> HIDE DEF s
  <2>2. QED
    BY <2>1, SetIs DEF m
<1> HIDE DEF p, s, n, m
<1>6. delivered' \in Seq(MessageSet)
  <2>1. p - 1 \in 0..Len(mem)
    BY <1>2, <1>3
  <2>2. QED
    BY <1>1, <2>1, DeliverIs DEF IInv
<1>7. mem' \in Seq(Bytes) /\ Len(mem') = Len(mem) /\ sz' \in 0..Len(mem) /\ sz' < Len(mem) /\ last' = 0
  BY <1>1, <1>2, <1>3, <1>5, LineIs
<1>8. expect' \in Nat /\ state' \in {"CMD", "LINE", "EXPECT"} /\ pc' \in {"run", "recv", "closed"}
  BY <1>1, <1>3, <1>4
<1>9. TypeOK'
  BY <1>1, <1>3, <1>6, <1>7, <1>8 DEF TypeOK
<1>10. Len(mem') >= 1 /\ (sz' = 0 \/ sz' < Len(mem'))
  BY <1>3, <1>7
<1>11. QED
  BY <1>9, <1>10 DEF IInv, ExpectInv

LEMMA NextInv == IInv /\ [Next]_vars => IInv'
<1> SUFFICES ASSUME IInv, [Next]_vars PROVE IInv'
  OBVIOUS
<1>1. CASE SendLine \/ SendPlain \/ SendSized
  BY <1>1, StepSend
<1>2. CASE Receive
  BY <1>2, StepReceive
<1>3. CASE Close
  BY <1>3 DEF Close, IInv, TypeOK, ExpectInv
<1>4. CASE ExpectMore \/ ExpectDone
  BY <1>4, StepExpect
<1>5. CASE NoNewline
  BY <1>5 DEF NoNewline, IInv, TypeOK, ExpectInv
<1>6. CASE RawLine
  BY <1>6, StepRawLine
<1>7. CASE Command
  BY <1>7, StepCommand
<1>8. CASE UnknownCommand
  BY <1>8 DEF UnknownCommand, IInv, TypeOK, ExpectInv
<1>9. CASE UNCHANGED vars
  BY <1>9 DEF vars, IInv, TypeOK, ExpectInv
<1>10. QED
  BY <1>1, <1>2, <1>3, <1>4, <1>5, <1>6, <1>7, <1>8, <1>9 DEF Next, Run, Over

LEMMA InvAlways == Spec => []IInv
BY InitInv, NextInv, PTL DEF Spec

-----------------------------------------------------------------------------
(* The bytes in use never exceed the buffer, and what callbacks get lies in  *)
(* it, even when the search for a newline starts beyond them.                *)
THEOREM BufferHolds == Spec => []TypeOK
<1>1. IInv => TypeOK
  BY DEF IInv
<1>2. QED
  BY <1>1, InvAlways, PTL

(* Except for a line that is longer than the buffer, recv() is never called  *)
(* without room, which would pass for the end of the connection.             *)
THEOREM AlwaysRoom == Spec => []RoomToRead
<1>1. IInv => RoomToRead
  <2> SUFFICES ASSUME IInv, pc = "recv", state # "LINE" PROVE Room(Grown) > 0
    BY DEF RoomToRead
  <2>1. /\ sz \in Nat /\ Len(mem) \in Nat /\ Len(mem) >= 1 /\ state \in {"CMD", "EXPECT"}
    BY DEF IInv, TypeOK
  <2>2. Grown \in Seq(Bytes) /\ Len(Grown) \in Nat /\ Len(Grown) >= Len(mem)
        /\ (state = "CMD" => Len(Grown) > sz)
    BY GrownIs DEF IInv
  <2>3. state = "EXPECT" => sz = 0 \/ sz < Len(mem)
    BY DEF IInv, ExpectInv
  <2> DEFINE l == Len(Grown)
  <2>4. l \in Nat /\ l >= Len(mem) /\ (state = "CMD" => l > sz) /\ Room(Grown) = l - sz
    BY <2>2 DEF Room
  <2> HIDE DEF l
  <2>5. QED
    BY <2>1, <2>3, <2>4
<1>2. QED
  BY <1>1, InvAlways, PTL
-----------------------------------------------------------------------------
(* Nolp implements Channel.  What has still to be delivered lies in order in *)
(* what is in the buffer and under way: e holds the encoded messages, the    *)
(* first d of them are gone, and the i-th ends at at[i] of the n bytes b.    *)
Enc(m)  == IF m.kind = "data" THEN m.bytes ELSE Append(m.bytes, NL)
Code(s) == [i \in 1..Len(s) |-> Enc(s[i])]

Flow(m, z, w) == [i \in 1..(z + Len(w)) |-> IF i <= z THEN m[i] ELSE w[i - z]]

Laid(at, b, n, e, d) ==
    /\ at \in [d..Len(e) -> Nat] /\ at[d] = 0 /\ at[Len(e)] = n
    /\ \A i, j \in d..Len(e) : i <= j => at[i] <= at[j]
    /\ \A i \in (d + 1)..Len(e) :
         /\ at[i] = at[i-1] + Len(e[i])
         /\ \A k \in 1..Len(e[i]) : b[at[i-1] + k] = e[i][k]

(* The peer keeps to the protocol: a line comes first, and what is sized is  *)
(* followed by as much data.                                                 *)
Word(s, i) ==
    \/ s[i].kind = "line" /\ i = 1 /\ \E a \in Args : s[i].bytes = <<a>>
    \/ /\ s[i].kind = "cmd"
       /\ \E c \in Plain \cup Sized \cup Other, a \in Args :
            /\ s[i].bytes = <<c, SP, a>>
            /\ c \in Sized => i < Len(s) /\ s[i+1].kind = "data" /\ Len(s[i+1].bytes) = Size[a]
    \/ /\ s[i].kind = "data" /\ s[i].bytes \in Payloads
       /\ i > 1 /\ s[i-1].kind = "cmd" /\ s[i-1].bytes[1] \in Sized

Following == Len(delivered) + 1
Waits     == Len(delivered) < Len(sent)
Early(y)  == Waits => y = 0 \/ y < Len(Enc(sent[Following]))
KindOf(x) == IF x = "CMD" THEN "cmd" ELSE IF x = "LINE" THEN "line" ELSE "data"

WordsInv ==
    /\ \A i \in 1..Len(sent) : Word(sent, i)
    /\ \A i \in 1..Len(sent) : i > Len(delivered) /\ Awaited(sent[i]) => i = Len(sent)

(* The receiver expects what comes next.                                     *)
PlaceInv ==
    /\ Len(delivered) <= Len(sent)
    /\ state = "LINE" => delivered = <<>>
    /\ Waits => sent[Following].kind = KindOf(state)
    /\ state = "EXPECT" => Waits /\ Len(sent[Following].bytes) = expect

(* What was looked at already, and is not looked at again, is no whole       *)
(* message.                                                                  *)
SearchInv ==
    /\ pc = "recv" => Early(sz)
    /\ pc = "run" => Early(last) /\ (state # "EXPECT" => last <= sz)

LayoutInv == \E at : Laid(at, Flow(mem, sz, wire), sz + Len(wire), Code(sent), Len(delivered))

ChannelInv == WordsInv /\ (pc \in {"recv", "run"} => PlaceInv /\ SearchInv /\ LayoutInv)

LEMMA EncIs ==
  ASSUME NEW m \in MessageSet
  PROVE  /\ Enc(m) \in Seq(Bytes)
         /\ Len(Enc(m)) = IF m.kind = "data" THEN Len(m.bytes) ELSE Len(m.bytes) + 1
         /\ \A k \in 1..Len(m.bytes) : Enc(m)[k] = m.bytes[k]
         /\ m.kind # "data" => Enc(m)[Len(m.bytes) + 1] = NL
<1>1. PICK b \in Seq(Bytes) : b = m.bytes
  BY DEF MessageSet
<1>2. NL \in Bytes
  BY ByteAssumption
<1>3. /\ Append(b, NL) \in Seq(Bytes) /\ Len(Append(b, NL)) = Len(b) + 1
      /\ Append(b, NL)[Len(b) + 1] = NL /\ \A k \in 1..Len(b) : Append(b, NL)[k] = b[k]
  BY <1>2, AppendProperties
<1>4. Enc(m) = IF m.kind = "data" THEN b ELSE Append(b, NL)
  BY <1>1 DEF Enc
<1>5. CASE m.kind = "data"
  BY <1>1, <1>4, <1>5
<1>6. CASE m.kind # "data"
  BY <1>1, <1>3, <1>4, <1>6
<1>7. QED
  BY <1>5, <1>6

LEMMA CodeIs ==
  ASSUME NEW s \in Seq(MessageSet)
  PROVE  /\ Code(s) \in Seq(Seq(Bytes)) /\ Len(Code(s)) = Len(s) /\ Len(s) \in Nat
         /\ \A i \in 1..Len(s) : Code(s)[i] = Enc(s[i])
<1>1. \A i \in 1..Len(s) : Enc(s[i]) \in Seq(Bytes)
  <2> TAKE i \in 1..Len(s)
  <2>1. PICK m \in MessageSet : m = s[i]
    OBVIOUS
  <2>2. QED
    BY <2>1, EncIs
<1> HIDE DEF MessageSet, Enc
<1>2. Code(s) \in [1..Len(s) -> Seq(Bytes)] /\ Len(s) \in Nat
  BY <1>1 DEF Code
<1>3. \A i \in 1..Len(s) : Code(s)[i] = Enc(s[i])
  BY DEF Code
<1>4. QED
  BY <1>2, <1>3, FunctionIsSeq

LEMMA CodeMore ==
  ASSUME NEW s \in Seq(MessageSet), NEW m \in MessageSet
  PROVE  /\ Append(s, m) \in Seq(MessageSet)
         /\ Code(Append(s, m)) = Append(Code(s), Enc(m))
<1>1. PICK t \in Seq(MessageSet) : t = Append(s, m)
  <2> HIDE DEF MessageSet
  <2>1. QED
    BY AppendProperties
<1>2. Len(t) = Len(s) + 1 /\ t[Len(s) + 1] = m /\ \A i \in 1..Len(s) : t[i] = s[i]
  BY <1>1, AppendProperties
<1>3. PICK e \in Seq(Seq(Bytes)) : /\ e = Code(s) /\ Len(e) = Len(s) /\ Len(s) \in Nat
                                   /\ \A i \in 1..Len(s) : e[i] = Enc(s[i])
  BY CodeIs
<1>4. PICK f \in Seq(Seq(Bytes)) : /\ f = Code(t) /\ Len(f) = Len(t)
                                   /\ \A i \in 1..Len(t) : f[i] = Enc(t[i])
  BY CodeIs
<1>5. PICK x \in Seq(Bytes) : x = Enc(m)
  BY EncIs
<1> DEFINE S == Seq(Bytes)
<1>6. PICK g \in Seq(S) : /\ g = Append(e, x) /\ Len(g) = Len(e) + 1 /\ g[Len(e) + 1] = x
                          /\ \A i \in 1..Len(e) : g[i] = e[i]
  <2>1. e \in Seq(S) /\ x \in S
    OBVIOUS
  <2> HIDE DEF S
  <2>2. /\ Append(e, x) \in Seq(S) /\ Len(Append(e, x)) = Len(e) + 1
        /\ Append(e, x)[Len(e) + 1] = x /\ \A i \in 1..Len(e) : Append(e, x)[i] = e[i]
    BY <2>1, AppendProperties
  <2>3. QED
    BY <2>2
<1> HIDE DEF MessageSet, Enc, Code
<1>7. \A i \in 1..Len(f) : f[i] = g[i]
  BY <1>2, <1>3, <1>4, <1>5, <1>6
<1>8. Len(f) = Len(g)
  BY <1>2, <1>3, <1>4, <1>6
<1>9. f = g
  BY <1>7, <1>8, SeqEqual
<1>10. QED
  BY <1>1, <1>3, <1>4, <1>5, <1>6, <1>9

(* The first message lies in front, and if it is the last there is no more.  *)
LEMMA LaidFirst ==
  ASSUME NEW b, NEW n \in Nat, NEW e \in Seq(Seq(Bytes)), NEW d \in 0..Len(e), NEW at,
         Laid(at, b, n, e, d)
  PROVE  /\ d = Len(e) => n = 0
         /\ d < Len(e) => /\ Len(e[d+1]) \in Nat /\ Len(e[d+1]) <= n
                          /\ \A k \in 1..Len(e[d+1]) : b[k] = e[d+1][k]
                          /\ d + 1 = Len(e) => n = Len(e[d+1])
<1>1. Len(e) \in Nat /\ d \in Nat
  OBVIOUS
<1>2. d = Len(e) => n = 0
  BY DEF Laid
<1>3. ASSUME d < Len(e)
      PROVE  /\ Len(e[d+1]) \in Nat /\ Len(e[d+1]) <= n
             /\ \A k \in 1..Len(e[d+1]) : b[k] = e[d+1][k]
             /\ d + 1 = Len(e) => n = Len(e[d+1])
  <2>1. d + 1 \in (d+1)..Len(e) /\ d + 1 \in 1..Len(e) /\ d + 1 \in d..Len(e) /\ Len(e) \in d..Len(e)
    BY <1>1, <1>3
  <2>2. PICK x \in Seq(Bytes) : x = e[d+1]
    BY <2>1
  <2>3. Len(x) \in Nat
    OBVIOUS
  <2>4. at[d+1] = at[(d+1)-1] + Len(x) /\ \A k \in 1..Len(x) : b[at[(d+1)-1] + k] = x[k]
    BY <2>1, <2>2 DEF Laid
  <2>5. (d + 1) - 1 = d /\ at[d] = 0
    BY <1>1 DEF Laid
  <2>6. at[d+1] = Len(x) /\ \A k \in 1..Len(x) : b[k] = x[k]
    BY <2>3, <2>4, <2>5
  <2>7. at[d+1] <= n
    BY <1>1, <1>3, <2>1 DEF Laid
  <2>8. d + 1 = Len(e) => n = Len(x)
    BY <2>6 DEF Laid
  <2>9. QED
    BY <2>2, <2>3, <2>6, <2>7, <2>8
<1>4. QED
  BY <1>2, <1>3

(* Only the bytes count.                                                     *)
LEMMA LaidSame ==
  ASSUME NEW b, NEW c, NEW n \in Nat, NEW e \in Seq(Seq(Bytes)), NEW d \in 0..Len(e), NEW at,
         Laid(at, b, n, e, d), \A i \in 1..n : c[i] = b[i]
  PROVE  Laid(at, c, n, e, d)
<1>1. Len(e) \in Nat /\ d \in Nat
  OBVIOUS
<1>2. ASSUME NEW i \in (d+1)..Len(e), NEW k \in 1..Len(e[i])
      PROVE  c[at[i-1] + k] = e[i][k]
  <2>1. /\ i - 1 \in d..Len(e) /\ i \in d..Len(e) /\ Len(e) \in d..Len(e) /\ i \in 1..Len(e)
        /\ i <= Len(e)
    BY <1>1
  <2>2. PICK l \in Nat : l = Len(e[i])
    BY <2>1
  <2>3. PICK y, z \in Nat : y = at[i-1] /\ z = at[i]
    BY <2>1 DEF Laid
  <2>4. z = y + l
    BY <2>2, <2>3 DEF Laid
  <2>5. z <= n
    BY <2>1, <2>3 DEF Laid
  <2>6. y + k \in 1..n
    <3>1. k \in 1..l
      BY <2>2
    <3>2. QED
      BY <2>4, <2>5, <3>1
  <2>7. b[y + k] = e[i][k]
    BY <2>3 DEF Laid
  <2>8. QED
    BY <2>3, <2>6, <2>7
<1>3. QED
  BY <1>2 DEF Laid

LEMMA LessSame ==
  ASSUME NEW x \in Nat, NEW y \in Nat, NEW z \in Nat
  PROVE  y <= z => y - x <= z - x
OBVIOUS

(* The first one is taken.                                                   *)
LEMMA LaidTake ==
  ASSUME NEW b, NEW c, NEW n \in Nat, NEW e \in Seq(Seq(Bytes)), NEW d \in 0..Len(e), d < Len(e), NEW at,
         Laid(at, b, n, e, d), NEW l \in Nat, l = Len(e[d+1]), \A i \in 1..(n - l) : c[i] = b[i + l]
  PROVE  \E bt : Laid(bt, c, n - l, e, d + 1)
<1>1. Len(e) \in Nat /\ d \in Nat
  OBVIOUS
<1>2. l <= n
  BY LaidFirst
<1>3. at[d+1] = l
  <2>1. d + 1 \in (d+1)..Len(e) /\ (d + 1) - 1 = d
    BY <1>1
  <2>2. at[d] = 0 /\ at[d+1] = at[(d+1)-1] + Len(e[d+1])
    BY <2>1 DEF Laid
  <2>3. QED
    BY <2>1, <2>2
<1>4. \A i \in (d+1)..Len(e) : at[i] \in Nat /\ at[i] >= l /\ at[i] <= n
  <2> TAKE i \in (d+1)..Len(e)
  <2>1. i \in d..Len(e) /\ d + 1 \in d..Len(e) /\ d + 1 <= i /\ i <= Len(e) /\ Len(e) \in d..Len(e)
    BY <1>1
  <2>2. at[i] \in Nat /\ at[d+1] <= at[i] /\ at[i] <= at[Len(e)] /\ at[Len(e)] = n
    BY <2>1 DEF Laid
  <2>3. QED
    BY <1>3, <2>2
<1> DEFINE bt == [i \in (d+1)..Len(e) |-> at[i] - l]
<1>5. \A i \in (d+1)..Len(e) : bt[i] = at[i] - l /\ bt[i] \in Nat
  BY <1>4
<1>6. bt \in [(d+1)..Len(e) -> Nat]
  BY <1>5
<1> HIDE DEF bt
<1>7. d + 1 \in (d+1)..Len(e) /\ Len(e) \in (d+1)..Len(e)
  BY <1>1
<1>8. bt[d+1] = 0 /\ bt[Len(e)] = n - l
  <2>1. bt[d+1] = l - l /\ bt[Len(e)] = at[Len(e)] - l
    BY <1>3, <1>5, <1>7
  <2>2. at[Len(e)] = n
    BY DEF Laid
  <2>3. QED
    BY <2>1, <2>2
<1>9. \A i, j \in (d+1)..Len(e) : i <= j => bt[i] <= bt[j]
  <2> TAKE i, j \in (d+1)..Len(e)
  <2>1. i \in d..Len(e) /\ j \in d..Len(e)
    BY <1>1
  <2>2. i <= j => at[i] <= at[j]
    BY <2>1 DEF Laid
  <2>3. PICK y, z \in Nat : y = at[i] /\ z = at[j] /\ y >= l /\ z >= l
    BY <1>4
  <2>4. bt[i] = y - l /\ bt[j] = z - l
    BY <1>5, <2>3
  <2>5. i <= j => y <= z
    BY <2>2, <2>3
  <2>6. y <= z => y - l <= z - l
    BY LessSame
  <2>7. QED
    BY <2>4, <2>5, <2>6
<1>10. ASSUME NEW i \in ((d+1)+1)..Len(e)
       PROVE  /\ bt[i] = bt[i-1] + Len(e[i])
              /\ \A k \in 1..Len(e[i]) : c[bt[i-1] + k] = e[i][k]
  <2>1. /\ i \in (d+1)..Len(e) /\ i - 1 \in (d+1)..Len(e) /\ i \in 1..Len(e)
    BY <1>1
  <2>2. PICK m \in Nat : m = Len(e[i])
    BY <2>1
  <2>3. PICK y, z \in Nat : y = at[i-1] /\ z = at[i] /\ y >= l /\ z <= n
    BY <1>4, <2>1
  <2>4. z = y + m
    BY <2>1, <2>2, <2>3 DEF Laid
  <2>5. bt[i] = z - l /\ bt[i-1] = y - l
    BY <1>5, <2>1, <2>3
  <2>6. ASSUME NEW k \in 1..m PROVE c[bt[i-1] + k] = e[i][k]
    <3>1. (y - l) + k \in 1..(n - l) /\ ((y - l) + k) + l = y + k
      <4>1. z <= n /\ y >= l
        BY <2>3
      <4>2. QED
        BY <2>4, <4>1
    <3>2. c[(y - l) + k] = b[y + k]
      BY <3>1
    <3>3. b[y + k] = e[i][k]
      BY <2>1, <2>2, <2>3 DEF Laid
    <3>4. QED
      BY <2>5, <3>2, <3>3
  <2>7. bt[i] = bt[i-1] + m
    <3>1. z - l = (y - l) + m
      BY <2>4
    <3>2. QED
      BY <2>5, <3>1
  <2>8. QED
    BY <2>2, <2>6, <2>7
<1>11. Laid(bt, c, n - l, e, d + 1)
  BY <1>6, <1>8, <1>9, <1>10 DEF Laid
<1>12. QED
  BY <1>11

(* One more comes in behind.                                                 *)
LEMMA LaidMore ==
  ASSUME NEW b, NEW c, NEW n \in Nat, NEW e \in Seq(Seq(Bytes)), NEW d \in 0..Len(e), NEW at,
         Laid(at, b, n, e, d), NEW x \in Seq(Bytes), \A i \in 1..n : c[i] = b[i],
         \A k \in 1..Len(x) : c[n + k] = x[k]
  PROVE  \E bt : Laid(bt, c, n + Len(x), Append(e, x), d)
<1>1. Len(e) \in Nat /\ d \in Nat /\ Len(x) \in Nat
  OBVIOUS
<1> DEFINE S == Seq(Bytes)
<1>2. PICK f \in Seq(S) : /\ f = Append(e, x) /\ Len(f) = Len(e) + 1 /\ f[Len(e) + 1] = x
                          /\ \A i \in 1..Len(e) : f[i] = e[i]
  <2>1. e \in Seq(S) /\ x \in S
    OBVIOUS
  <2> HIDE DEF S
  <2>2. /\ Append(e, x) \in Seq(S) /\ Len(Append(e, x)) = Len(e) + 1
        /\ Append(e, x)[Len(e) + 1] = x /\ \A i \in 1..Len(e) : Append(e, x)[i] = e[i]
    BY <2>1, AppendProperties
  <2>3. QED
    BY <2>2
<1>3. Laid(at, c, n, e, d)
  BY LaidSame
<1> DEFINE bt == [i \in d..Len(f) |-> IF i <= Len(e) THEN at[i] ELSE n + Len(x)]
<1>4. \A i \in d..Len(e) : i \in d..Len(f) /\ bt[i] = at[i] /\ at[i] \in Nat /\ at[i] <= n
  <2> TAKE i \in d..Len(e)
  <2>1. i \in d..Len(f) /\ i <= Len(e) /\ Len(e) \in d..Len(e)
    BY <1>1, <1>2
  <2>2. QED
    BY <2>1 DEF Laid
<1>5. Len(f) \in d..Len(f) /\ bt[Len(f)] = n + Len(x)
  BY <1>1, <1>2
<1>6. \A i \in d..Len(f) : i \in d..Len(e) \/ i = Len(f)
  BY <1>1, <1>2
<1>7. bt \in [d..Len(f) -> Nat]
  <2>1. \A i \in d..Len(f) : bt[i] \in Nat
    <3> TAKE i \in d..Len(f)
    <3>1. CASE i = Len(f)
      BY <1>1, <1>5, <3>1
    <3>2. CASE i \in d..Len(e)
      BY <1>4, <3>2
    <3>3. QED
      BY <1>6, <3>1, <3>2
  <2>2. bt = [i \in d..Len(f) |-> bt[i]]
    OBVIOUS
  <2> HIDE DEF bt
  <2>3. QED
    BY <2>1, <2>2
<1> HIDE DEF bt
<1>8. bt[d] = 0
  <2>1. d \in d..Len(e)
    BY <1>1
  <2>2. QED
    BY <1>4, <2>1 DEF Laid
<1>9. \A i, j \in d..Len(f) : i <= j => bt[i] <= bt[j]
  <2> TAKE i, j \in d..Len(f)
  <2>1. CASE j = Len(f)
    <3>1. bt[j] = n + Len(x)
      BY <1>5, <2>1
    <3>2. CASE i = Len(f)
      BY <1>1, <2>1, <3>1, <3>2
    <3>3. CASE i \in d..Len(e)
      <4>1. bt[i] \in Nat /\ bt[i] <= n
        BY <1>4, <3>3
      <4>2. QED
        BY <1>1, <3>1, <4>1
    <3>4. QED
      BY <1>6, <3>2, <3>3
  <2>2. CASE j # Len(f) /\ i \in d..Len(e)
    BY <1>4, <1>6, <2>2 DEF Laid
  <2>3. CASE j # Len(f) /\ i = Len(f)
    <3>1. ~(i <= j)
      BY <1>1, <1>2, <1>6, <2>3
    <3>2. QED
      BY <3>1
  <2>4. QED
    BY <1>6, <2>1, <2>2, <2>3
<1>10. ASSUME NEW i \in (d+1)..Len(f)
       PROVE  /\ bt[i] = bt[i-1] + Len(f[i])
              /\ \A k \in 1..Len(f[i]) : c[bt[i-1] + k] = f[i][k]
  <2>1. CASE i = Len(f)
    <3>1. i - 1 = Len(e) /\ Len(e) \in d..Len(e) /\ f[i] = x
      BY <1>1, <1>2, <2>1
    <3>2. bt[i-1] = n /\ bt[i] = n + Len(x)
      BY <1>4, <1>5, <2>1, <3>1 DEF Laid
    <3>3. QED
      BY <3>1, <3>2
  <2>2. CASE i # Len(f)
    <3>1. /\ i \in (d+1)..Len(e) /\ i \in d..Len(e) /\ i - 1 \in d..Len(e) /\ i \in 1..Len(e)
      BY <1>1, <1>2, <2>2
    <3>2. f[i] = e[i] /\ bt[i] = at[i] /\ bt[i-1] = at[i-1]
      BY <1>2, <1>4, <3>1
    <3>3. at[i] = at[i-1] + Len(e[i]) /\ \A k \in 1..Len(e[i]) : c[at[i-1] + k] = e[i][k]
      BY <1>3, <3>1 DEF Laid
    <3>4. QED
      BY <3>2, <3>3
  <2>3. QED
    BY <2>1, <2>2
<1>11. Laid(bt, c, n + Len(x), f, d)
  BY <1>5, <1>7, <1>8, <1>9, <1>10 DEF Laid
<1>12. QED
  BY <1>2, <1>11
-----------------------------------------------------------------------------
(* What the peer sends comes in behind.                                      *)
LEMMA Feed ==
  ASSUME NEW m \in Seq(Bytes), NEW z \in 0..Len(m), NEW w \in Seq(Bytes), NEW x \in Seq(Bytes),
         NEW e \in Seq(Seq(Bytes)), NEW d \in 0..Len(e), NEW at, Laid(at, Flow(m, z, w), z + Len(w), e, d)
  PROVE  /\ w \o x \in Seq(Bytes)
         /\ \E bt : Laid(bt, Flow(m, z, w \o x), z + Len(w \o x), Append(e, x), d)
<1>1. PICK v \in Seq(Bytes) : /\ v = w \o x /\ Len(v) = Len(w) + Len(x)
                             /\ \A i \in 1..Len(w) : v[i] = w[i]
                             /\ \A k \in 1..Len(x) : v[Len(w) + k] = x[k]
  <2>1. w \o x \in Seq(Bytes) /\ Len(w \o x) = Len(w) + Len(x)
    BY ConcatProperties
  <2>2. \A i \in 1..Len(w) : (w \o x)[i] = w[i]
    OBVIOUS
  <2>3. \A k \in 1..Len(x) : (w \o x)[Len(w) + k] = x[k]
    OBVIOUS
  <2>4. QED
    BY <2>1, <2>2, <2>3
<1>2. z \in Nat /\ Len(w) \in Nat /\ Len(x) \in Nat /\ z + Len(w) \in Nat /\ Len(v) \in Nat
  OBVIOUS
<1>3. \A i \in 1..(z + Len(w)) : Flow(m, z, v)[i] = Flow(m, z, w)[i]
  <2> TAKE i \in 1..(z + Len(w))
  <2>1. i \in 1..(z + Len(v)) /\ (i > z => i - z \in 1..Len(w))
    BY <1>1, <1>2
  <2>2. Flow(m, z, v)[i] = (IF i <= z THEN m[i] ELSE v[i - z])
    BY <2>1 DEF Flow
  <2>3. Flow(m, z, w)[i] = (IF i <= z THEN m[i] ELSE w[i - z])
    BY DEF Flow
  <2>4. QED
    BY <1>1, <1>2, <2>1, <2>2, <2>3
<1>4. \A k \in 1..Len(x) : Flow(m, z, v)[(z + Len(w)) + k] = x[k]
  <2> TAKE k \in 1..Len(x)
  <2>1. /\ (z + Len(w)) + k \in 1..(z + Len(v)) /\ ~((z + Len(w)) + k <= z)
        /\ ((z + Len(w)) + k) - z = Len(w) + k
    BY <1>1, <1>2
  <2>2. Flow(m, z, v)[(z + Len(w)) + k] = v[Len(w) + k]
    BY <2>1 DEF Flow
  <2>3. QED
    BY <1>1, <2>2
<1>5. \E bt : Laid(bt, Flow(m, z, v), (z + Len(w)) + Len(x), Append(e, x), d)
  BY <1>2, <1>3, <1>4, LaidMore
<1>6. (z + Len(w)) + Len(x) = z + Len(v)
  BY <1>1, <1>2
<1>7. QED
  BY <1>1, <1>5, <1>6

LEMMA Facts ==
  ASSUME IInv
  PROVE  /\ mem \in Seq(Bytes) /\ wire \in Seq(Bytes) /\ sent \in Seq(MessageSet) /\ delivered \in Seq(MessageSet)
         /\ sz \in Nat /\ sz <= Len(mem) /\ Len(mem) \in Nat /\ Len(wire) \in Nat
         /\ sz + Len(wire) \in Nat /\ Len(sent) \in Nat /\ Len(delivered) \in Nat
         /\ last \in Nat /\ expect \in Nat
         /\ state \in {"CMD", "LINE", "EXPECT"} /\ pc \in {"recv", "run", "closed", "refused", "crashed"}
BY DEF IInv, TypeOK

LEMMA EmptyLaid ==
  ASSUME NEW b
  PROVE  \E at : Laid(at, b, 0, <<>>, 0)
<1> DEFINE at == [i \in 0..0 |-> 0]
<1>1. at \in [0..0 -> Nat] /\ at[0] = 0
  OBVIOUS
<1> HIDE DEF at
<1>2. Laid(at, b, 0, <<>>, 0)
  BY <1>1 DEF Laid
<1>3. QED
  BY <1>2

LEMMA InitChannel == Init => ChannelInv
<1> SUFFICES ASSUME Init PROVE ChannelInv
  OBVIOUS
<1>1. /\ sent = <<>> /\ delivered = <<>> /\ wire = <<>> /\ sz = 0 /\ pc = "recv"
      /\ state \in {"CMD", "LINE"}
  BY DEF Init
<1>2. Len(sent) = 0 /\ Len(delivered) = 0 /\ sz + Len(wire) = 0
  BY <1>1
<1>3. WordsInv /\ PlaceInv /\ SearchInv
  BY <1>1, <1>2 DEF WordsInv, PlaceInv, SearchInv, Waits, Early
<1>4. Code(sent) = <<>>
  BY <1>1, <1>2 DEF Code
<1>5. LayoutInv
  BY <1>2, <1>4, EmptyLaid DEF LayoutInv
<1>6. QED
  BY <1>3, <1>5 DEF ChannelInv

(* What a message is stays so when others come after it.                     *)
LEMMA WordKept ==
  ASSUME NEW s \in Seq(MessageSet), NEW t \in Seq(MessageSet), Len(s) <= Len(t),
         \A j \in 1..Len(s) : t[j] = s[j], NEW i \in 1..Len(s), Word(s, i)
  PROVE  Word(t, i)
<1>1. Len(s) \in Nat /\ Len(t) \in Nat /\ t[i] = s[i]
  OBVIOUS
<1>2. i < Len(s) => i < Len(t) /\ t[i+1] = s[i+1]
  BY <1>1
<1>3. i > 1 => t[i-1] = s[i-1]
  BY <1>1
<1> HIDE DEF MessageSet
<1>4. QED
  BY <1>1, <1>2, <1>3 DEF Word

ChannelStep == Messages!Next \/ UNCHANGED <<sent, delivered, pc # "closed">>

LEMMA SendRight ==
  ASSUME IInv, ChannelInv, NEW ms \in Seq(MessageSet), NEW bs, Send(ms, bs), Len(ms) >= 1,
         ms[1].kind = (IF sent = <<>> /\ state = "LINE" THEN "line" ELSE "cmd"),
         \A i \in 1..Len(ms) : Word(sent', Len(sent) + i) /\ (Awaited(ms[i]) => i = Len(ms)),
         LayoutInv /\ PlaceInv => LayoutInv'
  PROVE  ChannelInv' /\ ChannelStep
<1> USE DEF Waits, Following
<1>1. /\ sent \in Seq(MessageSet) /\ Len(sent) \in Nat /\ Len(delivered) \in Nat /\ Len(ms) \in Nat
      /\ delivered \in Seq(MessageSet) /\ state \in {"CMD", "LINE", "EXPECT"}
      /\ sz \in Nat /\ Len(wire) \in Nat
  BY Facts
<1>2. PICK t \in Seq(MessageSet) : /\ t = sent' /\ Len(t) = Len(sent) + Len(ms)
                                   /\ \A i \in 1..Len(sent) : t[i] = sent[i]
                                   /\ \A i \in 1..Len(ms) : t[Len(sent) + i] = ms[i]
                                   /\ SubSeq(t, 1, Len(sent)) = sent
  <2> HIDE DEF MessageSet
  <2>1. sent' = sent \o ms
    BY DEF Send
  <2>2. sent \o ms \in Seq(MessageSet) /\ Len(sent \o ms) = Len(sent) + Len(ms)
    BY <1>1, ConcatProperties
  <2>3. \A i \in 1..Len(sent) : (sent \o ms)[i] = sent[i]
    BY <1>1
  <2>4. \A i \in 1..Len(ms) : (sent \o ms)[Len(sent) + i] = ms[i]
    BY <1>1
  <2>5. SubSeq(sent \o ms, 1, Len(sent)) = sent
    <3>1. PICK v \in Seq(MessageSet) : v = sent \o ms
      BY <2>2
    <3>2. /\ SubSeq(v, 1, Len(sent)) \in Seq(MessageSet) /\ Len(SubSeq(v, 1, Len(sent))) = Len(sent)
          /\ \A i \in 1..Len(sent) : SubSeq(v, 1, Len(sent))[i] = v[i]
      BY <1>1, <2>2, <3>1
    <3>3. \A i \in 1..Len(sent) : SubSeq(v, 1, Len(sent))[i] = sent[i]
      BY <2>3, <3>1, <3>2
    <3>4. SubSeq(v, 1, Len(sent)) = sent
      BY <1>1, <3>2, <3>3, SeqEqual
    <3>5. QED
      BY <3>1, <3>4
  <2>6. QED
    BY <2>1, <2>2, <2>3, <2>4, <2>5
<1>3. UNCHANGED <<mem, sz, state, expect, last, pc, delivered>>
  BY DEF Send
<1>4. \A i \in 1..Len(t) : i \in 1..Len(sent) \/ (i - Len(sent) \in 1..Len(ms) /\ i = Len(sent) + (i - Len(sent)))
  BY <1>1, <1>2
<1>5. WordsInv'
  <2>1. ASSUME NEW i \in 1..Len(t) PROVE Word(t, i)
    <3>1. CASE i \in 1..Len(sent)
      <4>1. Word(sent, i)
        BY <3>1 DEF ChannelInv, WordsInv
      <4>2. Len(sent) <= Len(t)
        BY <1>1, <1>2
      <4> HIDE DEF MessageSet, Word
      <4>3. QED
        BY <1>1, <1>2, <3>1, <4>1, <4>2, WordKept
    <3>2. CASE i \notin 1..Len(sent)
      <4>1. PICK j \in 1..Len(ms) : i = Len(sent) + j
        BY <1>4, <3>2
      <4> HIDE DEF Word
      <4>2. QED
        BY <1>2, <4>1
    <3>3. QED
      BY <3>1, <3>2
  <2>2. ASSUME NEW i \in 1..Len(t), i > Len(delivered), Awaited(t[i]) PROVE i = Len(t)
    <3>1. CASE i \in 1..Len(sent)
      <4>1. Awaited(sent[i])
        BY <1>2, <2>2, <3>1
      <4>2. i <= Len(delivered)
        BY <3>1, <4>1 DEF Send
      <4>3. QED
        BY <1>1, <2>2, <4>2
    <3>2. CASE i \notin 1..Len(sent)
      <4>1. PICK j \in 1..Len(ms) : i = Len(sent) + j
        BY <1>4, <3>2
      <4>2. j = Len(ms)
        BY <1>2, <2>2, <4>1
      <4>3. QED
        BY <1>2, <4>1, <4>2
    <3>3. QED
      BY <3>1, <3>2
  <2>3. QED
    BY <1>2, <1>3, <2>1, <2>2 DEF WordsInv
<1>6. ASSUME pc \in {"recv", "run"} PROVE (PlaceInv /\ SearchInv /\ LayoutInv)'
  <2>1. PlaceInv /\ SearchInv /\ LayoutInv
    BY <1>6 DEF ChannelInv
  <2>2. CASE Waits
    <3>1. Following \in 1..Len(sent)
      BY <1>1, <2>2
    <3>2. Waits' /\ Following' = Following /\ sent'[Following'] = sent[Following]
      BY <1>1, <1>2, <1>3, <2>2, <3>1
    <3>3. PlaceInv'
      BY <1>1, <1>2, <1>3, <2>1, <2>2, <3>2 DEF PlaceInv
    <3>4. SearchInv'
      BY <1>3, <2>1, <2>2, <3>2 DEF SearchInv, Early
    <3>5. QED
      BY <2>1, <3>3, <3>4
  <2>3. CASE ~Waits
    <3>1. Len(delivered) = Len(sent) /\ state # "EXPECT"
      BY <1>1, <2>1, <2>3 DEF PlaceInv
    <3>2. Waits' /\ Following' = Len(sent) + 1 /\ t[Len(sent) + 1] = ms[1]
      BY <1>1, <1>2, <1>3, <3>1
    <3>3. ms[1].kind = KindOf(state)
      <4>1. CASE state = "LINE"
        <5>1. Len(sent) = 0
          BY <2>1, <3>1, <4>1 DEF PlaceInv
        <5>2. sent = <<>>
          BY <1>1, <5>1, EmptySeq
        <5>3. QED
          BY <4>1, <5>2 DEF KindOf
      <4>2. CASE state = "CMD"
        BY <4>2 DEF KindOf
      <4>3. QED
        BY <1>1, <3>1, <4>1, <4>2
    <3>4. PlaceInv'
      BY <1>1, <1>2, <1>3, <2>1, <3>1, <3>2, <3>3 DEF PlaceInv
    <3>5. sz = 0
      <4>1. PICK at : Laid(at, Flow(mem, sz, wire), sz + Len(wire), Code(sent), Len(delivered))
        BY <2>1 DEF LayoutInv
      <4>2. PICK e \in Seq(Seq(Bytes)) : e = Code(sent) /\ Len(e) = Len(sent)
        BY <1>1, CodeIs
      <4>3. sz + Len(wire) = 0
        BY <1>1, <3>1, <4>1, <4>2 DEF Laid
      <4>4. QED
        BY <1>1, <4>3
    <3>6. pc = "run" => last = 0
      BY <1>1, <2>1, <3>1, <3>5, Facts DEF SearchInv
    <3>7. SearchInv'
      BY <1>3, <3>5, <3>6 DEF SearchInv, Early
    <3>8. QED
      BY <2>1, <3>4, <3>7
  <2>4. QED
    BY <2>2, <2>3
<1>7. ChannelInv'
  BY <1>3, <1>5, <1>6 DEF ChannelInv
<1>8. Messages!Send
  <2>1. Len(t) > Len(sent)
    BY <1>1, <1>2
  <2>2. QED
    BY <1>2, <1>3, <2>1 DEF Messages!Send
<1>9. QED
  BY <1>7, <1>8 DEF ChannelStep, Messages!Next
(* One message, and one with data behind it.                                 *)
LEMMA LayoutOne ==
  ASSUME IInv, LayoutInv, PlaceInv, NEW m \in MessageSet,
         sent' = Append(sent, m), wire' = wire \o Enc(m), UNCHANGED <<mem, sz, delivered>>
  PROVE  LayoutInv'
<1>1. /\ mem \in Seq(Bytes) /\ wire \in Seq(Bytes) /\ sent \in Seq(MessageSet) /\ sz \in 0..Len(mem)
      /\ Len(delivered) \in Nat /\ Len(delivered) <= Len(sent) /\ Len(sent) \in Nat
  BY Facts DEF PlaceInv
<1>2. PICK e \in Seq(Seq(Bytes)) : e = Code(sent) /\ Len(e) = Len(sent)
  BY <1>1, CodeIs
<1>3. PICK x \in Seq(Bytes) : x = Enc(m)
  BY EncIs
<1>4. Code(Append(sent, m)) = Append(e, x)
  BY <1>1, <1>2, <1>3, CodeMore
<1>5. PICK d \in 0..Len(e) : d = Len(delivered)
  BY <1>1, <1>2
<1>6. PICK at : Laid(at, Flow(mem, sz, wire), sz + Len(wire), e, d)
  BY <1>2, <1>5 DEF LayoutInv
<1>7. \E bt : Laid(bt, Flow(mem, sz, wire \o x), sz + Len(wire \o x), Append(e, x), d)
  BY <1>1, <1>6, Feed
<1>8. QED
  BY <1>3, <1>4, <1>5, <1>7 DEF LayoutInv

LEMMA LayoutTwo ==
  ASSUME IInv, LayoutInv, PlaceInv, NEW m \in MessageSet, NEW k \in MessageSet,
         sent' = Append(Append(sent, m), k), wire' = (wire \o Enc(m)) \o Enc(k),
         UNCHANGED <<mem, sz, delivered>>
  PROVE  LayoutInv'
<1>1. /\ mem \in Seq(Bytes) /\ wire \in Seq(Bytes) /\ sent \in Seq(MessageSet) /\ sz \in 0..Len(mem)
      /\ Len(delivered) \in Nat /\ Len(delivered) <= Len(sent) /\ Len(sent) \in Nat
  BY Facts DEF PlaceInv
<1>2. PICK e \in Seq(Seq(Bytes)) : e = Code(sent) /\ Len(e) = Len(sent)
  BY <1>1, CodeIs
<1>3. PICK x \in Seq(Bytes) : x = Enc(m)
  BY EncIs
<1>4. PICK y \in Seq(Bytes) : y = Enc(k)
  BY EncIs
<1>5. PICK s \in Seq(MessageSet) : s = Append(sent, m)
  BY <1>1, CodeMore
<1>6. PICK f \in Seq(Seq(Bytes)) : f = Append(e, x) /\ Len(f) = Len(e) + 1
  <2>1. PICK g \in Seq(Seq(Bytes)) : g = Code(s) /\ Len(g) = Len(s)
    BY CodeIs
  <2>2. Len(s) = Len(sent) + 1
    BY <1>1, <1>5
  <2>3. g = Append(e, x)
    BY <1>1, <1>2, <1>3, <1>5, <2>1, CodeMore
  <2>4. QED
    BY <1>2, <2>1, <2>2, <2>3
<1>7. Code(Append(s, k)) = Append(f, y)
  BY <1>1, <1>2, <1>3, <1>4, <1>5, <1>6, CodeMore
<1>8. PICK d \in 0..Len(e) : d = Len(delivered) /\ d \in 0..Len(f)
  <2>1. Len(delivered) \in 0..Len(e) /\ Len(delivered) \in 0..Len(f)
    BY <1>1, <1>2, <1>6
  <2>2. QED
    BY <2>1
<1>9. PICK at : Laid(at, Flow(mem, sz, wire), sz + Len(wire), e, d)
  BY <1>2, <1>8 DEF LayoutInv
<1>10. PICK v \in Seq(Bytes) : v = wire \o x /\ \E bt : Laid(bt, Flow(mem, sz, v), sz + Len(v), f, d)
  BY <1>1, <1>6, <1>9, Feed
<1>11. \E bt : Laid(bt, Flow(mem, sz, v \o y), sz + Len(v \o y), Append(f, y), d)
  BY <1>1, <1>8, <1>10, Feed
<1>12. QED
  BY <1>3, <1>4, <1>5, <1>7, <1>8, <1>10, <1>11 DEF LayoutInv

(* Equal records of messages.                                                *)
LEMMA MessageIs ==
  ASSUME NEW m \in MessageSet, NEW b
  PROVE  m.bytes = b => m = Message(m.kind, b)
BY DEF MessageSet, Message

LEMMA One ==
  ASSUME NEW S, NEW x \in S
  PROVE  <<x>> \in Seq(S) /\ Len(<<x>>) = 1 /\ <<x>>[1] = x
OBVIOUS

LEMMA Two ==
  ASSUME NEW S, NEW x \in S, NEW y \in S
  PROVE  <<x, y>> \in Seq(S) /\ Len(<<x, y>>) = 2 /\ <<x, y>>[1] = x /\ <<x, y>>[2] = y
OBVIOUS

LEMMA Three ==
  ASSUME NEW S, NEW x \in S, NEW y \in S, NEW z \in S, NEW t \in S
  PROVE  /\ <<x, y, z>> \in Seq(S) /\ Len(<<x, y, z>>) = 3
         /\ <<x, y, z>>[1] = x /\ <<x, y, z>>[2] = y /\ <<x, y, z>>[3] = z
         /\ Append(<<x, y, z>>, t) = <<x, y, z, t>> /\ <<x, y, z, t>> \in Seq(S)
<1>1. /\ <<x, y, z>> \in Seq(S) /\ Len(<<x, y, z>>) = 3
      /\ <<x, y, z>>[1] = x /\ <<x, y, z>>[2] = y /\ <<x, y, z>>[3] = z
  OBVIOUS
<1>2. /\ <<x, y, z, t>> \in Seq(S) /\ Len(<<x, y, z, t>>) = 4
      /\ <<x, y, z, t>>[1] = x /\ <<x, y, z, t>>[2] = y /\ <<x, y, z, t>>[3] = z /\ <<x, y, z, t>>[4] = t
  OBVIOUS
<1>3. PICK q \in Seq(S) : q = <<x, y, z>> /\ Len(q) = 3 /\ q[1] = x /\ q[2] = y /\ q[3] = z
  BY <1>1
<1>4. PICK r \in Seq(S) : r = <<x, y, z, t>> /\ Len(r) = 4 /\ r[1] = x /\ r[2] = y /\ r[3] = z /\ r[4] = t
  BY <1>2
<1>5. PICK a \in Seq(S) : a = Append(q, t) /\ Len(a) = 4 /\ a[4] = t /\ \A i \in 1..3 : a[i] = q[i]
  <2>1. Append(q, t) \in Seq(S) /\ Len(Append(q, t)) = 4 /\ Append(q, t)[4] = t
        /\ \A i \in 1..3 : Append(q, t)[i] = q[i]
    BY <1>3, AppendProperties
  <2>2. QED
    BY <2>1
<1>6. \A i \in 1..Len(a) : a[i] = r[i]
  BY <1>3, <1>4, <1>5
<1>7. a = r
  BY <1>4, <1>5, <1>6, SeqEqual
<1>8. QED
  BY <1>1, <1>2, <1>3, <1>4, <1>5, <1>7

LEMMA Joined ==
  ASSUME NEW u \in Seq(Bytes), NEW v \in Seq(Bytes), NEW w \in Seq(Bytes)
  PROVE  u \o (v \o w) = (u \o v) \o w
BY ConcatAssociative

LEMMA NewMessage ==
  ASSUME NEW k \in {"line", "cmd", "data"}, NEW b \in Seq(Bytes)
  PROVE  /\ Message(k, b) \in MessageSet /\ Message(k, b).kind = k /\ Message(k, b).bytes = b
         /\ Enc(Message(k, b)) = IF k = "data" THEN b ELSE Append(b, NL)
BY DEF MessageSet, Message, Enc

LEMMA SendsChannel ==
  ASSUME IInv, ChannelInv, SendLine \/ SendPlain \/ SendSized
  PROVE  ChannelInv' /\ ChannelStep
<1>1. /\ NL \in Bytes /\ SP \in Bytes /\ Args \subseteq Bytes
      /\ Plain \cup Sized \cup Other \subseteq Bytes /\ Other \cap Sized = {} /\ Plain \cap Sized = {}
      /\ sent \in Seq(MessageSet) /\ Len(sent) \in Nat /\ wire \in Seq(Bytes)
  BY Facts, ByteAssumption, CommandAssumption
<1>2. CASE SendLine
  <2>1. PICK a \in Args : Send(<<Message("line", <<a>>)>>, <<a, NL>>)
    BY <1>2 DEF SendLine
  <2>2. PICK b \in Seq(Bytes) : b = <<a>> /\ Len(b) = 1
    BY <1>1, One
  <2>3. PICK m \in MessageSet : /\ m = Message("line", b) /\ m.kind = "line" /\ m.bytes = b
                              /\ Enc(m) = Append(b, NL)
    <3> HIDE DEF MessageSet
    <3>1. QED
      BY NewMessage
  <2>4. Enc(m) = <<a, NL>>
    BY <1>1, <2>2, <2>3, Three
  <2>5. PICK ms \in Seq(MessageSet) : ms = <<m>> /\ Len(ms) = 1 /\ ms[1] = m
    <3> HIDE DEF MessageSet
    <3>1. QED
      BY One
  <2>6. Send(ms, <<a, NL>>) /\ sent = <<>> /\ state = "LINE"
    BY <1>2, <2>1, <2>2, <2>3, <2>5 DEF SendLine
  <2>7. sent' = ms
    BY <1>1, <2>5, <2>6 DEF Send
  <2>8. Word(sent', Len(sent) + 1) /\ ~Awaited(m)
    BY <2>2, <2>3, <2>5, <2>6, <2>7 DEF Word, Awaited
  <2>9. LayoutInv /\ PlaceInv => LayoutInv'
    <3>1. sent' = Append(sent, m) /\ wire' = wire \o Enc(m) /\ UNCHANGED <<mem, sz, delivered, pc>>
      BY <1>1, <2>4, <2>5, <2>6, <2>7 DEF Send
    <3>3. CASE PlaceInv
      BY <3>1, <3>3, LayoutOne
    <3>4. QED
      BY <3>3
  <2>10. QED
    <3> HIDE DEF MessageSet, Word
    <3>1. \A i \in 1..Len(ms) : Word(sent', Len(sent) + i) /\ (Awaited(ms[i]) => i = Len(ms))
      BY <2>5, <2>8
    <3> DEFINE bs == <<a, NL>>
    <3>b. Send(ms, bs)
      BY <2>6
    <3> HIDE DEF bs
    <3>l. Len(ms) >= 1
      BY <2>5
    <3>2. ms[1].kind = (IF sent = <<>> /\ state = "LINE" THEN "line" ELSE "cmd")
      BY <2>3, <2>5, <2>6
    <3>3. QED
      BY <2>9, <3>b, <3>l, <3>1, <3>2, SendRight
<1>3. CASE SendPlain
  <2>1. PICK c \in Plain \cup Other, a \in Args :
            Send(<<Message("cmd", <<c, SP, a>>)>>, <<c, SP, a, NL>>)
    BY <1>3 DEF SendPlain
  <2>t. /\ <<c, SP, a>> \in Seq(Bytes) /\ Len(<<c, SP, a>>) = 3
        /\ Append(<<c, SP, a>>, NL) = <<c, SP, a, NL>>
    <3>1. c \in Bytes /\ a \in Bytes
      BY <1>1
    <3>2. QED
      BY <1>1, <3>1, Three
  <2>2. PICK b \in Seq(Bytes) : b = <<c, SP, a>> /\ Len(b) = 3
    BY <2>t
  <2>3. PICK m \in MessageSet : /\ m = Message("cmd", b) /\ m.kind = "cmd" /\ m.bytes = b
                              /\ Enc(m) = Append(b, NL)
    <3> HIDE DEF MessageSet
    <3>1. QED
      BY NewMessage
  <2>4. Enc(m) = <<c, SP, a, NL>>
    BY <2>t, <2>2, <2>3
  <2>5. PICK ms \in Seq(MessageSet) : ms = <<m>> /\ Len(ms) = 1 /\ ms[1] = m
    <3> HIDE DEF MessageSet
    <3>1. QED
      BY One
  <2>6. Send(ms, <<c, SP, a, NL>>) /\ (sent # <<>> \/ state = "CMD")
    BY <1>3, <2>1, <2>2, <2>3, <2>5 DEF SendPlain
  <2>7. sent' = Append(sent, m) /\ sent'[Len(sent) + 1] = m
    BY <1>1, <2>5, <2>6 DEF Send
  <2>8. Word(sent', Len(sent) + 1) /\ ~Awaited(m)
    <3>1. c \in Plain \cup Sized \cup Other /\ c \notin Sized
      BY <1>1
    <3>2. QED
      BY <2>2, <2>3, <2>7, <3>1 DEF Word, Awaited
  <2>9. LayoutInv /\ PlaceInv => LayoutInv'
    <3>1. wire' = wire \o Enc(m) /\ UNCHANGED <<mem, sz, delivered, pc>>
      BY <2>4, <2>6 DEF Send
    <3>3. CASE PlaceInv
      BY <2>7, <3>1, <3>3, LayoutOne
    <3>4. QED
      BY <3>3
  <2>10. QED
    <3> HIDE DEF MessageSet, Word
    <3>1. \A i \in 1..Len(ms) : Word(sent', Len(sent) + i) /\ (Awaited(ms[i]) => i = Len(ms))
      BY <2>5, <2>8
    <3> DEFINE bs == <<c, SP, a, NL>>
    <3>b. Send(ms, bs)
      BY <2>6
    <3> HIDE DEF bs
    <3>l. Len(ms) >= 1
      BY <2>5
    <3>2. ms[1].kind = (IF sent = <<>> /\ state = "LINE" THEN "line" ELSE "cmd")
      BY <2>3, <2>5, <2>6
    <3>3. QED
      BY <2>9, <3>b, <3>l, <3>1, <3>2, SendRight
<1>4. CASE SendSized
  <2>1. PICK c \in Sized, a \in Args, p \in Payloads :
            /\ Size[a] = Len(p)
            /\ Send(<<Message("cmd", <<c, SP, a>>), Message("data", p)>>, <<c, SP, a, NL>> \o p)
    BY <1>4 DEF SendSized
  <2>t. /\ <<c, SP, a>> \in Seq(Bytes) /\ Len(<<c, SP, a>>) = 3
        /\ Append(<<c, SP, a>>, NL) = <<c, SP, a, NL>>
    <3>1. c \in Bytes /\ a \in Bytes
      BY <1>1
    <3>2. QED
      BY <1>1, <3>1, Three
  <2>2. PICK b \in Seq(Bytes) : b = <<c, SP, a>> /\ Len(b) = 3
    BY <2>t
  <2>3. PICK m \in MessageSet : /\ m = Message("cmd", b) /\ m.kind = "cmd" /\ m.bytes = b
                              /\ Enc(m) = Append(b, NL)
    <3> HIDE DEF MessageSet
    <3>1. QED
      BY NewMessage
  <2>p. p \in Seq(Bytes)
    BY CommandAssumption
  <2>k. PICK k \in MessageSet : /\ k = Message("data", p) /\ k.kind = "data" /\ k.bytes = p
                              /\ Enc(k) = p
    <3> HIDE DEF MessageSet
    <3>1. QED
      BY <2>p, NewMessage
  <2>4. Enc(m) = <<c, SP, a, NL>> /\ Enc(k) = p
    BY <2>t, <2>2, <2>3, <2>k
  <2>5. PICK ms \in Seq(MessageSet) : ms = <<m, k>> /\ Len(ms) = 2 /\ ms[1] = m /\ ms[2] = k
    <3> HIDE DEF MessageSet
    <3>1. <<m, k>> \in Seq(MessageSet) /\ Len(<<m, k>>) = 2 /\ <<m, k>>[1] = m /\ <<m, k>>[2] = k
      BY Two
    <3>2. QED
      BY <3>1
  <2>6. Send(ms, <<c, SP, a, NL>> \o p) /\ (sent # <<>> \/ state = "CMD")
    BY <1>4, <2>1, <2>2, <2>3, <2>k, <2>5 DEF SendSized
  <2>7. /\ sent' = Append(Append(sent, m), k) /\ Len(sent') = Len(sent) + 2
        /\ sent'[Len(sent) + 1] = m /\ sent'[Len(sent) + 2] = k
    <3> HIDE DEF MessageSet
    <3>1. sent' = sent \o <<m, k>>
      BY <2>5, <2>6 DEF Send
    <3>2. QED
      BY <1>1, <3>1
  <2>8. Word(sent', Len(sent) + 1) /\ ~Awaited(m)
    <3>1. c \in Plain \cup Sized \cup Other
      BY <1>1
    <3>2. Len(sent) + 1 < Len(sent') /\ (Len(sent) + 1) + 1 = Len(sent) + 2
      BY <1>1, <2>7
    <3>3. sent'[(Len(sent) + 1) + 1] = k
      BY <2>7, <3>2
    <3>4. Len(p) = Size[a]
      BY <2>1
    <3> HIDE DEF MessageSet
    <3>5. QED
      BY <2>2, <2>3, <2>k, <2>7, <3>1, <3>2, <3>3, <3>4 DEF Word, Awaited
  <2>9. Word(sent', Len(sent) + 2)
    <3>1. Len(sent) + 2 > 1 /\ (Len(sent) + 2) - 1 = Len(sent) + 1
      BY <1>1
    <3>2. b[1] = c
      BY <2>2
    <3>3. sent'[(Len(sent) + 2) - 1] = m
      BY <2>7, <3>1
    <3> HIDE DEF MessageSet
    <3>4. QED
      BY <2>3, <2>k, <2>7, <3>1, <3>2, <3>3 DEF Word
  <2>10. LayoutInv /\ PlaceInv => LayoutInv'
    <3>1. wire' = (wire \o Enc(m)) \o Enc(k) /\ UNCHANGED <<mem, sz, delivered, pc>>
      <4>1. wire' = wire \o (<<c, SP, a, NL>> \o p) /\ UNCHANGED <<mem, sz, delivered, pc>>
        BY <2>6 DEF Send
      <4>2. PICK x \in Seq(Bytes) : x = <<c, SP, a, NL>>
        BY <1>1, Three
      <4>3. wire \o (x \o p) = (wire \o x) \o p
        <5>1. wire \in Seq(Bytes) /\ x \in Seq(Bytes) /\ p \in Seq(Bytes)
          BY <1>1, <2>p
        <5>2. QED
          BY <5>1, Joined
      <4>4. QED
        BY <2>4, <4>1, <4>2, <4>3
    <3>3. CASE PlaceInv
      BY <2>7, <3>1, <3>3, LayoutTwo
    <3>4. QED
      BY <3>3
  <2>11. QED
    <3> HIDE DEF MessageSet, Word
    <3>1. \A i \in 1..Len(ms) : i = 1 \/ i = 2
      BY <2>5
    <3> DEFINE bs == <<c, SP, a, NL>> \o p
    <3>b. Send(ms, bs)
      BY <2>6
    <3> HIDE DEF bs
    <3>l. Len(ms) >= 1
      BY <2>5
    <3>2. ms[1].kind = (IF sent = <<>> /\ state = "LINE" THEN "line" ELSE "cmd")
      BY <2>3, <2>5, <2>6
    <3>3. \A i \in 1..Len(ms) : Word(sent', Len(sent) + i) /\ (Awaited(ms[i]) => i = Len(ms))
      BY <2>5, <2>8, <2>9, <3>1
    <3>4. QED
      BY <2>10, <3>b, <3>l, <3>2, <3>3, SendRight
<1>5. QED
  BY <1>2, <1>3, <1>4
-----------------------------------------------------------------------------
(* What lies in front of the receiver.                                       *)
LEMMA InFront ==
  ASSUME IInv, WordsInv, PlaceInv, LayoutInv
  PROVE  /\ ~Waits => sz = 0 /\ Len(wire) = 0
         /\ Waits => /\ Following \in 1..Len(sent) /\ Following = Len(delivered) + 1
                     /\ Word(sent, Following)
                     /\ \E m \in MessageSet, e \in Seq(Bytes) :
                          /\ m = sent[Following] /\ e = Enc(m) /\ Len(e) <= sz + Len(wire)
                          /\ \A k \in 1..Len(e) : k <= sz => mem[k] = e[k]
                          /\ Following = Len(sent) => sz + Len(wire) = Len(e)
<1>1. /\ sent \in Seq(MessageSet) /\ sz \in Nat /\ Len(wire) \in Nat /\ Len(sent) \in Nat
      /\ Len(delivered) \in Nat /\ Len(delivered) <= Len(sent)
  BY Facts DEF PlaceInv
<1>2. PICK c \in Seq(Seq(Bytes)) : c = Code(sent) /\ Len(c) = Len(sent) /\ \A i \in 1..Len(sent) : c[i] = Enc(sent[i])
  BY <1>1, CodeIs
<1>3. PICK d \in 0..Len(c) : d = Len(delivered)
  BY <1>1, <1>2
<1>4. PICK n \in Nat : n = sz + Len(wire)
  BY <1>1
<1>5. PICK at : Laid(at, Flow(mem, sz, wire), n, c, d)
  BY <1>2, <1>3, <1>4 DEF LayoutInv
<1>6. /\ d = Len(c) => n = 0
      /\ d < Len(c) => /\ Len(c[d+1]) \in Nat /\ Len(c[d+1]) <= n
                       /\ \A k \in 1..Len(c[d+1]) : Flow(mem, sz, wire)[k] = c[d+1][k]
                       /\ d + 1 = Len(c) => n = Len(c[d+1])
  BY <1>5, LaidFirst
<1>7. CASE ~Waits
  BY <1>1, <1>2, <1>3, <1>4, <1>6, <1>7 DEF Waits
<1>8. CASE Waits
  <2>1. Following \in 1..Len(sent) /\ Following = d + 1 /\ d < Len(c) /\ Following = Len(delivered) + 1
    BY <1>1, <1>2, <1>3, <1>8 DEF Waits, Following
  <2>2. PICK m \in MessageSet : m = sent[Following]
    BY <1>1, <2>1
  <2>3. PICK e \in Seq(Bytes) : e = Enc(m) /\ Len(e) \in Nat
    BY EncIs
  <2>4. c[d+1] = e
    BY <1>2, <2>1, <2>2, <2>3
  <2>5. \A k \in 1..Len(e) : k <= sz => mem[k] = e[k]
    <3> TAKE k \in 1..Len(e)
    <3>1. Flow(mem, sz, wire)[k] = e[k] /\ Len(e) <= n
      BY <1>6, <2>1, <2>4
    <3>2. k \in 1..(sz + Len(wire))
      BY <1>1, <1>4, <2>3, <3>1
    <3>3. k <= sz => Flow(mem, sz, wire)[k] = mem[k]
      BY <3>2 DEF Flow
    <3>4. QED
      BY <3>1, <3>3
  <2>6. Len(e) <= sz + Len(wire) /\ (Following = Len(sent) => sz + Len(wire) = Len(e))
    BY <1>2, <1>4, <1>6, <2>1, <2>4
  <2>7. Word(sent, Following)
    BY <2>1 DEF WordsInv
  <2> HIDE DEF MessageSet, Word
  <2>8. QED
    BY <1>8, <2>1, <2>2, <2>3, <2>5, <2>6, <2>7
<1>9. QED
  BY <1>7, <1>8

(* Bytes that move from the wire into the buffer, or a larger buffer.        *)
LEMMA LayoutKept ==
  ASSUME IInv, LayoutInv, PlaceInv, UNCHANGED <<sent, delivered>>,
         sz' + Len(wire') = sz + Len(wire),
         \A i \in 1..(sz + Len(wire)) : Flow(mem', sz', wire')[i] = Flow(mem, sz, wire)[i]
  PROVE  LayoutInv'
<1>1. /\ sent \in Seq(MessageSet) /\ sz \in Nat /\ Len(wire) \in Nat /\ Len(sent) \in Nat
      /\ Len(delivered) \in Nat /\ Len(delivered) <= Len(sent)
  BY Facts DEF PlaceInv
<1>2. PICK c \in Seq(Seq(Bytes)) : c = Code(sent) /\ Len(c) = Len(sent)
  BY <1>1, CodeIs
<1>3. PICK d \in 0..Len(c) : d = Len(delivered)
  BY <1>1, <1>2
<1>4. PICK n \in Nat : n = sz + Len(wire)
  BY <1>1
<1>5. PICK at : Laid(at, Flow(mem, sz, wire), n, c, d)
  BY <1>2, <1>3, <1>4 DEF LayoutInv
<1>6. Laid(at, Flow(mem', sz', wire'), n, c, d)
  BY <1>4, <1>5, LaidSame
<1>7. QED
  BY <1>2, <1>3, <1>4, <1>6 DEF LayoutInv

(* The first message is delivered, and what is left moved to the front.      *)
LEMMA LayoutTaken ==
  ASSUME IInv, LayoutInv, PlaceInv, Waits, UNCHANGED <<sent, wire>>,
         NEW l \in Nat, l = Len(Enc(sent[Following])), l <= sz, sz' = sz - l,
         Len(delivered') = Len(delivered) + 1,
         \A i \in 1..(sz - l) : mem'[i] = mem[i + l]
  PROVE  LayoutInv'
<1>1. /\ sent \in Seq(MessageSet) /\ sz \in Nat /\ Len(wire) \in Nat /\ Len(sent) \in Nat
      /\ Len(delivered) \in Nat /\ Len(delivered) < Len(sent)
  BY Facts DEF Waits
<1>2. PICK c \in Seq(Seq(Bytes)) : c = Code(sent) /\ Len(c) = Len(sent) /\ \A i \in 1..Len(sent) : c[i] = Enc(sent[i])
  BY <1>1, CodeIs
<1>3. PICK d \in 0..Len(c) : d = Len(delivered) /\ d < Len(c)
  <2>1. Len(delivered) \in 0..Len(c) /\ Len(delivered) < Len(c)
    BY <1>1, <1>2
  <2>2. QED
    BY <2>1
<1>4. PICK n \in Nat : n = sz + Len(wire)
  BY <1>1
<1>5. PICK at : Laid(at, Flow(mem, sz, wire), n, c, d)
  BY <1>2, <1>3, <1>4 DEF LayoutInv
<1>6. l = Len(c[d+1])
  <2>1. d + 1 \in 1..Len(sent) /\ Following = d + 1
    BY <1>2, <1>3 DEF Following
  <2>2. QED
    BY <1>2, <2>1
<1>7. \A i \in 1..(n - l) : Flow(mem', sz', wire')[i] = Flow(mem, sz, wire)[i + l]
  <2> TAKE i \in 1..(n - l)
  <2>1. i \in 1..(sz' + Len(wire')) /\ i + l \in 1..(sz + Len(wire)) /\ i \in Nat
    BY <1>1, <1>4
  <2>2. Flow(mem', sz', wire')[i] = (IF i <= sz' THEN mem'[i] ELSE wire'[i - sz'])
    BY <2>1 DEF Flow
  <2>3. Flow(mem, sz, wire)[i + l] = (IF i + l <= sz THEN mem[i + l] ELSE wire[(i + l) - sz])
    BY <2>1 DEF Flow
  <2>4. CASE i <= sz - l
    <3>1. i <= sz' /\ i + l <= sz /\ i \in 1..(sz - l)
      BY <1>1, <2>1, <2>4
    <3>2. QED
      BY <2>2, <2>3, <3>1
  <2>5. CASE ~(i <= sz - l)
    <3>1. ~(i <= sz') /\ ~(i + l <= sz) /\ i - sz' = (i + l) - sz
      BY <1>1, <2>1, <2>5
    <3>2. QED
      BY <2>2, <2>3, <3>1
  <2>6. QED
    BY <2>4, <2>5
<1>8. \E bt : Laid(bt, Flow(mem', sz', wire'), n - l, c, d + 1)
  BY <1>3, <1>5, <1>6, <1>7, LaidTake
<1>9. sz' + Len(wire') = n - l
  BY <1>1, <1>4
<1>10. QED
  BY <1>2, <1>3, <1>8, <1>9 DEF LayoutInv

LEMMA ReceiveChannel ==
  ASSUME IInv, ChannelInv, Receive
  PROVE  ChannelInv' /\ ChannelStep
<1>1. /\ mem \in Seq(Bytes) /\ wire \in Seq(Bytes) /\ sz \in Nat /\ sz <= Len(mem)
      /\ Len(mem) \in Nat /\ Len(wire) \in Nat
  BY Facts
<1>2. /\ pc = "recv" /\ last' = sz /\ pc' = "run" /\ UNCHANGED <<sent, state, expect, delivered>>
      /\ WordsInv /\ PlaceInv /\ SearchInv /\ LayoutInv
  BY DEF Receive, ChannelInv
<1>3. /\ Grown \in Seq(Bytes) /\ Len(Grown) >= Len(mem)
  BY GrownIs DEF IInv
<1>4. \A i \in 1..sz : Grown[i] = mem[i]
  <2>1. CASE Grown = mem
    BY <2>1
  <2>2. CASE Grown = mem \o Fresh(BUFSZ)
    <3>1. PICK f \in Seq(Bytes) : f = Fresh(BUFSZ)
      BY FreshIs, SizeAssumption
    <3>2. \A i \in 1..Len(mem) : (mem \o f)[i] = mem[i]
      BY <1>1
    <3>3. \A i \in 1..sz : i \in 1..Len(mem)
      BY <1>1
    <3>4. QED
      BY <2>2, <3>1, <3>2, <3>3
  <2>3. QED
    BY <2>1, <2>2 DEF Grown
<1>5. PICK g \in Seq(Bytes) : g = Grown /\ Len(g) \in Nat /\ Len(g) >= Len(mem) /\ \A i \in 1..sz : g[i] = mem[i]
  BY <1>3, <1>4
<1>6. PICK k \in 1..Len(wire) :
        /\ k <= Len(g) - sz
        /\ mem' = [i \in 1..Len(g) |-> IF i \in (sz + 1)..(sz + k) THEN wire[i - sz] ELSE g[i]]
        /\ sz' = sz + k /\ wire' = Drop(wire, k)
  BY <1>5 DEF Receive, Room
<1>7. PICK v \in Seq(Bytes) : v = wire' /\ Len(v) = Len(wire) - k /\ \A i \in 1..(Len(wire) - k) : v[i] = wire[i + k]
  <2>1. PICK w \in Seq(Bytes) : w = SubSeq(wire, k + 1, Len(wire)) /\ Len(w) = Len(wire) - k
                               /\ \A i \in 1..(Len(wire) - k) : w[i] = wire[(k + 1) + i - 1]
    <3>1. k + 1 \in 1..(Len(wire) + 1) /\ (Len(wire) - (k + 1)) + 1 = Len(wire) - k
      BY <1>1
    <3>2. SubSeq(wire, k + 1, Len(wire)) \in Seq(Bytes)
      BY <1>1, <3>1
    <3>3. Len(SubSeq(wire, k + 1, Len(wire))) = Len(wire) - k
      <4>1. k + 1 \in Int /\ Len(wire) \in Int /\ \A i \in (k + 1)..Len(wire) : wire[i] \in Bytes
        BY <1>1
      <4>2. Len(SubSeq(wire, k + 1, Len(wire))) = IF k + 1 <= Len(wire) THEN Len(wire) - (k + 1) + 1 ELSE 0
        BY <4>1, SubSeqProperties
      <4>3. (IF k + 1 <= Len(wire) THEN Len(wire) - (k + 1) + 1 ELSE 0) = Len(wire) - k
        BY <1>1
      <4>4. QED
        BY <4>2, <4>3
    <3>4. \A i \in 1..(Len(wire) - k) : SubSeq(wire, k + 1, Len(wire))[i] = wire[(k + 1) + i - 1]
      BY <1>1, <3>1
    <3>5. QED
      BY <3>2, <3>3, <3>4
  <2>2. \A i \in 1..(Len(wire) - k) : (k + 1) + i - 1 = i + k
    BY <1>1
  <2>3. QED
    BY <1>6, <2>1, <2>2 DEF Drop
<1>8. \A i \in 1..(sz + Len(wire)) : Flow(mem', sz', wire')[i] = Flow(mem, sz, wire)[i]
  <2> TAKE i \in 1..(sz + Len(wire))
  <2>1. i \in Nat /\ i \in 1..(sz' + Len(v)) /\ k \in Nat
    BY <1>1, <1>6, <1>7
  <2>2. Flow(mem, sz, wire)[i] = (IF i <= sz THEN mem[i] ELSE wire[i - sz])
    BY DEF Flow
  <2>3. Flow(mem', sz', v)[i] = (IF i <= sz' THEN mem'[i] ELSE v[i - sz'])
    BY <2>1 DEF Flow
  <2>4. CASE i <= sz
    <3>1. i <= sz' /\ i \in 1..Len(g) /\ i \notin (sz + 1)..(sz + k) /\ i \in 1..sz
      BY <1>1, <1>5, <1>6, <2>1, <2>4
    <3>2. mem'[i] = g[i] /\ g[i] = mem[i]
      BY <1>5, <1>6, <3>1
    <3>3. QED
      BY <1>7, <2>2, <2>3, <2>4, <3>1, <3>2
  <2>5. CASE i > sz /\ i <= sz + k
    <3>1. i <= sz' /\ i \in 1..Len(g) /\ i \in (sz + 1)..(sz + k) /\ ~(i <= sz)
      BY <1>1, <1>5, <1>6, <2>1, <2>5
    <3>2. mem'[i] = wire[i - sz]
      BY <1>6, <3>1
    <3>3. QED
      BY <1>7, <2>2, <2>3, <3>1, <3>2
  <2>6. CASE i > sz + k
    <3>1. ~(i <= sz') /\ ~(i <= sz) /\ i - sz' \in 1..(Len(wire) - k) /\ (i - sz') + k = i - sz
      BY <1>1, <1>6, <2>1, <2>6
    <3>2. v[i - sz'] = wire[i - sz]
      BY <1>7, <3>1
    <3>3. QED
      BY <1>7, <2>2, <2>3, <3>1, <3>2
  <2>7. QED
    BY <1>1, <2>1, <2>4, <2>5, <2>6
<1>9. sz' + Len(wire') = sz + Len(wire)
  BY <1>1, <1>6, <1>7
<1>10. LayoutInv'
  BY <1>2, <1>8, <1>9, LayoutKept
<1>11. WordsInv' /\ PlaceInv'
  BY <1>2 DEF WordsInv, PlaceInv, Waits, Following
<1>12. SearchInv'
  <2>1. Early(sz) /\ last' <= sz'
    BY <1>1, <1>2, <1>6 DEF SearchInv
  <2>2. QED
    BY <1>2, <2>1 DEF SearchInv, Early, Waits, Following
<1>13. QED
  BY <1>2, <1>10, <1>11, <1>12 DEF ChannelInv, ChannelStep
-----------------------------------------------------------------------------
(* The message in front is delivered: Channel does the same.                 *)
LEMMA DeliverRight ==
  ASSUME IInv, Waits, NEW n \in 0..Len(mem), NEW m \in MessageSet, m = sent[Following],
         NEW k, Deliver(k, n), m.kind = k, Len(m.bytes) = n,
         \A i \in 1..n : mem[i] = m.bytes[i], pc # "closed", UNCHANGED sent
  PROVE  /\ delivered' = Append(delivered, m) /\ Len(delivered') = Len(delivered) + 1
         /\ Following' = Following + 1
         /\ ChannelStep
<1>1. /\ mem \in Seq(Bytes) /\ Len(mem) \in Nat /\ delivered \in Seq(MessageSet)
      /\ Len(delivered) \in Nat /\ Len(delivered) < Len(sent)
  BY Facts DEF Waits
<1>2. PICK b \in Seq(Bytes) : b = m.bytes /\ Len(b) = n
  BY DEF MessageSet
<1>3. PICK q \in Seq(Bytes) : q = SubSeq(mem, 1, n) /\ Len(q) = n /\ \A i \in 1..n : q[i] = mem[i]
  <2>1. SubSeq(mem, 1, n) \in Seq(Bytes) /\ Len(SubSeq(mem, 1, n)) = n
    BY <1>1
  <2>2. \A i \in 1..n : SubSeq(mem, 1, n)[i] = mem[i]
    BY <1>1
  <2>3. QED
    BY <2>1, <2>2
<1>4. q = b
  <2>1. \A i \in 1..Len(q) : q[i] = b[i]
    BY <1>2, <1>3
  <2>2. QED
    BY <1>2, <1>3, <2>1, SeqEqual
<1>5. m = Message(k, q)
  BY <1>2, <1>4, MessageIs
<1>6. delivered' = Append(delivered, m)
  BY <1>3, <1>5 DEF Deliver
<1> HIDE DEF MessageSet
<1>7. Len(delivered') = Len(delivered) + 1 /\ Following' = Following + 1
  BY <1>1, <1>6 DEF Following
<1>8. Messages!Deliver
  BY <1>1, <1>6 DEF Messages!Deliver, Following
<1>9. QED
  BY <1>6, <1>7, <1>8 DEF ChannelStep, Messages!Next

LEMMA WordsDelivered ==
  ASSUME IInv, WordsInv, UNCHANGED sent, Len(delivered') = Len(delivered) + 1
  PROVE  WordsInv'
BY Facts DEF WordsInv

(* After a line or data comes a command.                                     *)
LEMMA CommandNext ==
  ASSUME IInv, WordsInv, NEW i \in 1..Len(sent), i < Len(sent), sent[i].kind # "cmd"
  PROVE  sent[i+1].kind = "cmd"
<1>1. i + 1 \in 1..Len(sent) /\ i + 1 # 1 /\ (i + 1) - 1 = i
  BY Facts
<1>2. Word(sent, i + 1)
  BY <1>1 DEF WordsInv
<1>3. QED
  BY <1>1, <1>2 DEF Word

LEMMA ShiftMoves ==
  ASSUME NEW m \in Seq(Bytes), NEW n \in Nat, sz \in 0..Len(m)
  PROVE  \A i \in 1..(sz - n) : Shift(m, n)[i] = m[i + n]
<1> TAKE i \in 1..(sz - n)
<1>1. i \in 1..Len(m)
  OBVIOUS
<1>2. QED
  BY <1>1 DEF Shift

LEMMA ExpectMoreChannel ==
  ASSUME IInv, ChannelInv, ExpectMore
  PROVE  ChannelInv' /\ ChannelStep
<1>1. /\ mem \in Seq(Bytes) /\ wire \in Seq(Bytes) /\ sz \in Nat /\ sz <= Len(mem) /\ expect \in Nat
      /\ Len(mem) \in Nat /\ Len(wire) \in Nat /\ sent \in Seq(MessageSet) /\ Len(sent) \in Nat
  BY Facts
<1>2. /\ pc = "run" /\ state = "EXPECT" /\ sz < expect /\ mem' = Wanted /\ pc' = "recv"
      /\ UNCHANGED <<sent, wire, sz, state, expect, last, delivered>>
      /\ WordsInv /\ PlaceInv /\ SearchInv /\ LayoutInv
  BY DEF ExpectMore, ChannelInv
<1>3. \A i \in 1..sz : mem'[i] = mem[i]
  <2>1. CASE Wanted = mem
    BY <1>2, <2>1
  <2>2. CASE Len(mem) < expect /\ Wanted = mem \o Fresh(expect - Len(mem))
    <3>1. PICK f \in Seq(Bytes) : f = Fresh(expect - Len(mem))
      BY <1>1, <2>2, FreshIs
    <3>2. \A i \in 1..Len(mem) : (mem \o f)[i] = mem[i]
      BY <1>1
    <3>3. \A i \in 1..sz : i \in 1..Len(mem)
      BY <1>1
    <3>4. QED
      BY <1>2, <2>2, <3>1, <3>2, <3>3
  <2>3. QED
    BY <2>1, <2>2 DEF Wanted
<1>4. \A i \in 1..(sz + Len(wire)) : Flow(mem', sz', wire')[i] = Flow(mem, sz, wire)[i]
  <2> TAKE i \in 1..(sz + Len(wire))
  <2>1. Flow(mem', sz, wire)[i] = (IF i <= sz THEN mem'[i] ELSE wire[i - sz])
    BY DEF Flow
  <2>2. Flow(mem, sz, wire)[i] = (IF i <= sz THEN mem[i] ELSE wire[i - sz])
    BY DEF Flow
  <2>3. i <= sz => mem'[i] = mem[i]
    BY <1>1, <1>3
  <2>4. QED
    BY <1>2, <2>1, <2>2, <2>3
<1>5. LayoutInv'
  BY <1>2, <1>4, LayoutKept
<1>6. WordsInv' /\ PlaceInv'
  BY <1>2 DEF WordsInv, PlaceInv, Waits, Following
<1>7. SearchInv'
  <2>1. Waits /\ sent[Following].kind = "data" /\ Len(sent[Following].bytes) = expect
    BY <1>2 DEF PlaceInv, KindOf
  <2>2. Enc(sent[Following]) = sent[Following].bytes
    BY <2>1 DEF Enc
  <2>3. Early(sz)
    BY <1>2, <2>1, <2>2 DEF Early
  <2>4. QED
    BY <1>2, <2>3 DEF SearchInv, Early, Waits, Following
<1>8. QED
  BY <1>2, <1>5, <1>6, <1>7 DEF ChannelInv, ChannelStep

(* The search for the next newline starts after `last` bytes of the payload. *)
(* A payload is short, or the peer waits for an answer before it says more:  *)
(* otherwise the start may lie beyond what has come in (nolp.c:123).         *)
ShortOrAwaited == \A p \in Payloads : Len(p) <= 2 \/ Len(p) >= Patience

LEMMA ExpectDoneChannel ==
  ASSUME ShortOrAwaited, IInv, IInv', ChannelInv, ExpectDone
  PROVE  ChannelInv' /\ ChannelStep
<1>1. /\ mem \in Seq(Bytes) /\ wire \in Seq(Bytes) /\ sz \in Nat /\ sz <= Len(mem) /\ expect \in Nat
      /\ Len(mem) \in Nat /\ Len(wire) \in Nat /\ sent \in Seq(MessageSet) /\ Len(sent) \in Nat
      /\ last \in Nat /\ Len(delivered) \in Nat
  BY Facts
<1>2. /\ pc = "run" /\ state = "EXPECT" /\ sz >= expect /\ Deliver("data", expect) /\ sz' = sz - expect
      /\ state' = "CMD" /\ UNCHANGED <<sent, wire, expect, last>>
      /\ WordsInv /\ PlaceInv /\ SearchInv /\ LayoutInv
      /\ sz = expect => pc' \in {"recv", "closed"}
      /\ sz # expect => mem' = Shift(mem, expect) /\ pc' \in {"run", "closed"}
  BY DEF ExpectDone, ChannelInv
<1>3. Waits /\ sent[Following].kind = "data" /\ Len(sent[Following].bytes) = expect
  BY <1>2 DEF PlaceInv, KindOf
<1>4. Following \in 1..Len(sent) /\ Word(sent, Following) /\ Following = Len(delivered) + 1
  BY <1>2, <1>3, InFront
<1>5. PICK m \in MessageSet, e \in Seq(Bytes) :
        /\ m = sent[Following] /\ e = Enc(m) /\ Len(e) <= sz + Len(wire)
        /\ \A k \in 1..Len(e) : k <= sz => mem[k] = e[k]
        /\ Following = Len(sent) => sz + Len(wire) = Len(e)
  BY <1>2, <1>3, InFront
<1>6. m.kind = "data" /\ e = m.bytes /\ Len(e) = expect
  BY <1>3, <1>5 DEF Enc
<1>7. expect \in 0..Len(mem) /\ pc # "closed" /\ \A i \in 1..expect : mem[i] = m.bytes[i]
  BY <1>1, <1>2, <1>5, <1>6
<1>8. Len(delivered') = Len(delivered) + 1 /\ Following' = Following + 1 /\ ChannelStep
  BY <1>2, <1>3, <1>5, <1>6, <1>7, DeliverRight
<1>9. WordsInv'
  BY <1>2, <1>8, WordsDelivered
<1>10. \A i \in 1..(sz - expect) : mem'[i] = mem[i + expect]
  <2>1. CASE sz = expect
    <3>1. \A i \in 1..(sz - expect) : FALSE
      BY <1>1, <2>1
    <3>2. QED
      BY <3>1
  <2>2. CASE sz # expect
    BY <1>1, <1>2, <2>2, ShiftMoves
  <2>3. QED
    BY <2>1, <2>2
<1>11. LayoutInv'
  <2>1. expect = Len(Enc(sent[Following]))
    BY <1>5, <1>6
  <2>2. QED
    BY <1>1, <1>2, <1>3, <1>8, <1>10, <2>1, LayoutTaken
<1>12. PlaceInv'
  <2>1. Len(delivered') <= Len(sent')
    BY <1>1, <1>2, <1>3, <1>8 DEF Waits
  <2>2. Waits' => sent'[Following'].kind = KindOf(state')
    <3>1. SUFFICES ASSUME Waits' PROVE sent[Following + 1].kind = "cmd"
      BY <1>2, <1>8 DEF KindOf
    <3>2. Following < Len(sent)
      BY <1>1, <1>2, <1>4, <1>8, <3>1 DEF Waits
    <3>3. QED
      BY <1>2, <1>3, <1>4, <3>2, CommandNext
  <2>3. QED
    BY <1>2, <2>1, <2>2 DEF PlaceInv
<1>13. SearchInv'
  <2>1. CASE sz = expect
    <3>1. sz' = 0
      BY <1>1, <1>2, <2>1
    <3>2. QED
      BY <1>2, <2>1, <3>1 DEF SearchInv, Early
  <2>2. CASE sz # expect
    <3>1. Following # Len(sent)
      BY <1>1, <1>2, <1>5, <1>6, <2>2
    <3>2. ~Awaited(m)
      BY <1>1, <1>2, <1>4, <1>5, <3>1 DEF WordsInv
    <3>3. m.bytes \in Payloads
      BY <1>3, <1>4, <1>5 DEF Word
    <3>4. expect <= 2
      <4>1. Len(m.bytes) = expect /\ Patience \in Nat
        BY <1>6, SizeAssumption
      <4>2. ~(expect >= Patience)
        BY <1>6, <3>2, <4>1 DEF Awaited
      <4>3. QED
        BY <3>3, <4>1, <4>2 DEF ShortOrAwaited
    <3>5. last = 0 \/ last < expect
      BY <1>2, <1>3, <1>5, <1>6 DEF SearchInv, Early
    <3>6. last' <= sz' /\ last' <= 1
      BY <1>1, <1>2, <2>2, <3>4, <3>5
    <3>7. Early(last)'
      <4>1. SUFFICES ASSUME Waits' PROVE last < Len(Enc(sent[Following + 1]))
        BY <1>2, <1>8 DEF Early
      <4>2. Following + 1 \in 1..Len(sent) /\ sent[Following + 1].kind = "cmd"
        BY <1>1, <1>2, <1>4, <1>8, <1>12, <4>1 DEF Waits, PlaceInv, KindOf
      <4>3. Word(sent, Following + 1)
        BY <1>2, <4>2 DEF WordsInv
      <4>4. PICK k \in MessageSet : k = sent[Following + 1]
        BY <1>1, <4>2
      <4>5. PICK c \in Plain \cup Sized \cup Other, a \in Args : k.bytes = <<c, SP, a>>
        BY <4>2, <4>3, <4>4 DEF Word
      <4>6. Len(k.bytes) = 3
        BY <4>5
      <4>7. Len(Enc(k)) = 4
        <5>1. k.kind # "data"
          BY <4>2, <4>4
        <5>2. Len(Enc(k)) = Len(k.bytes) + 1
          BY <5>1, EncIs
        <5>3. QED
          BY <4>6, <5>2
      <4>8. QED
        BY <1>1, <1>2, <3>6, <4>4, <4>7
    <3>8. QED
      BY <1>2, <2>2, <3>6, <3>7 DEF SearchInv
  <2>3. QED
    BY <2>1, <2>2
<1>14. QED
  BY <1>8, <1>9, <1>11, <1>12, <1>13 DEF ChannelInv
(* Lines and commands contain no newline.                                    *)
LEMMA TextIs ==
  ASSUME NEW s \in Seq(MessageSet), NEW i \in 1..Len(s), Word(s, i), NEW m \in MessageSet, m = s[i],
         m.kind # "data"
  PROVE  /\ Len(m.bytes) \in Nat /\ Len(m.bytes) >= 1
         /\ \A k \in 1..Len(m.bytes) : m.bytes[k] # NL
<1>1. NL # SP /\ NL \notin Args /\ NL \notin Plain \cup Sized \cup Other
  BY ByteAssumption, CommandAssumption
<1>2. CASE m.kind = "line"
  <2>1. PICK a \in Args : m.bytes = <<a>>
    BY <1>2 DEF Word
  <2>2. QED
    BY <1>1, <2>1
<1>3. CASE m.kind = "cmd"
  <2>1. PICK c \in Plain \cup Sized \cup Other, a \in Args : m.bytes = <<c, SP, a>>
    BY <1>3 DEF Word
  <2>2. PICK b : b = <<c, SP, a>>
    OBVIOUS
  <2>3. Len(b) = 3 /\ b[1] = c /\ b[2] = SP /\ b[3] = a
    BY <2>2
  <2>4. \A k \in 1..3 : b[k] # NL
    BY <1>1, <2>3
  <2>5. QED
    BY <2>1, <2>2, <2>3, <2>4
<1>4. QED
  BY <1>2, <1>3 DEF MessageSet

(* When a newline is found, the first one ends the message in front.         *)
LEMMA LineFound ==
  ASSUME IInv, ChannelInv, pc = "run", state # "EXPECT", Newlines # {}
  PROVE  /\ Waits /\ Following \in 1..Len(sent) /\ Word(sent, Following)
         /\ last <= sz /\ First(Newlines) <= sz
         /\ \E m \in MessageSet :
              /\ m = sent[Following] /\ m.kind = KindOf(state) /\ m.kind # "data"
              /\ First(Newlines) = Len(m.bytes) + 1 /\ First(Newlines) = Len(Enc(sent[Following]))
              /\ \A i \in 1..Len(m.bytes) : mem[i] = m.bytes[i]
<1>1. /\ sz \in Nat /\ sz <= Len(mem) /\ last \in Nat /\ Len(mem) \in Nat
      /\ sent \in Seq(MessageSet) /\ state \in {"CMD", "LINE"}
  BY Facts
<1>2. WordsInv /\ PlaceInv /\ LayoutInv /\ Early(last) /\ last <= sz
  BY DEF ChannelInv, SearchInv
<1>3. Newlines = {i \in (last + 1)..sz : mem[i] = NL}
  BY <1>1, <1>2 DEF Newlines
<1>4. PICK p \in Nat : /\ p = First(Newlines) /\ p \in (last + 1)..sz /\ mem[p] = NL
                       /\ \A i \in (last + 1)..sz : mem[i] = NL => p <= i
  <2>1. Newlines \in SUBSET Nat
    BY <1>1, <1>3
  <2>2. First(Newlines) \in Newlines /\ \A i \in Newlines : First(Newlines) <= i
    BY <2>1, FirstIs
  <2>3. PICK p : p = First(Newlines) /\ p \in Newlines /\ \A i \in Newlines : p <= i
    BY <2>2
  <2>4. p \in (last + 1)..sz /\ mem[p] = NL /\ p \in Nat
    BY <1>1, <1>3, <2>3
  <2>5. \A i \in (last + 1)..sz : mem[i] = NL => p <= i
    BY <1>3, <2>3
  <2>6. QED
    BY <2>3, <2>4, <2>5
<1>5. Waits
  BY <1>1, <1>2, <1>4, InFront
<1>6. Following \in 1..Len(sent) /\ Word(sent, Following)
  BY <1>2, <1>5, InFront
<1>7. PICK m \in MessageSet, e \in Seq(Bytes) :
        /\ m = sent[Following] /\ e = Enc(m)
        /\ \A k \in 1..Len(e) : k <= sz => mem[k] = e[k]
  BY <1>2, <1>5, InFront
<1>8. m.kind = KindOf(state) /\ m.kind # "data"
  BY <1>1, <1>2, <1>5, <1>7 DEF PlaceInv, KindOf
<1>9. PICK l \in Nat : /\ l = Len(m.bytes) /\ l >= 1 /\ \A k \in 1..l : m.bytes[k] # NL
  <2>1. /\ Len(m.bytes) \in Nat /\ Len(m.bytes) >= 1
        /\ \A k \in 1..Len(m.bytes) : m.bytes[k] # NL
    <3> HIDE DEF MessageSet, Word
    <3>1. QED
      BY <1>1, <1>6, <1>7, <1>8, TextIs
  <2>2. QED
    BY <2>1
<1>10. Len(e) = l + 1 /\ e[l+1] = NL /\ \A k \in 1..l : e[k] = m.bytes[k]
  BY <1>7, <1>8, <1>9, EncIs
<1>11. p >= l + 1
  <2>1. SUFFICES ASSUME p \in 1..l PROVE FALSE
    BY <1>1, <1>4, <1>9
  <2>2. p \in 1..Len(e) /\ p <= sz
    BY <1>4, <1>10, <2>1
  <2>3. mem[p] = e[p]
    BY <1>7, <2>2
  <2>4. QED
    BY <1>4, <1>9, <1>10, <2>1, <2>3
<1>12. p = l + 1
  <2>1. l + 1 \in 1..Len(e) /\ l + 1 <= sz
    BY <1>1, <1>4, <1>9, <1>10, <1>11
  <2>2. mem[l+1] = NL
    BY <1>7, <1>10, <2>1
  <2>3. last < l + 1
    BY <1>1, <1>2, <1>5, <1>7, <1>9, <1>10 DEF Early
  <2>4. l + 1 \in (last + 1)..sz
    BY <1>1, <1>9, <2>1, <2>3
  <2>5. QED
    BY <1>4, <1>9, <1>11, <2>2, <2>4
<1>13. \A i \in 1..l : mem[i] = m.bytes[i]
  <2> TAKE i \in 1..l
  <2>1. i \in 1..Len(e) /\ i <= sz
    BY <1>1, <1>4, <1>9, <1>10, <1>12
  <2>2. QED
    BY <1>7, <1>10, <2>1
<1>14. p <= sz /\ p = Len(Enc(sent[Following]))
  BY <1>4, <1>7, <1>10, <1>12
<1> HIDE DEF MessageSet, Word
<1>15. QED
  BY <1>2, <1>4, <1>5, <1>6, <1>7, <1>8, <1>9, <1>12, <1>13, <1>14

LEMMA NoNewlineChannel ==
  ASSUME IInv, ChannelInv, NoNewline
  PROVE  ChannelInv' /\ ChannelStep
<1>1. /\ sz \in Nat /\ last \in Nat /\ sent \in Seq(MessageSet) /\ state \in {"CMD", "LINE"}
  BY Facts DEF NoNewline
<1>2. /\ pc = "run" /\ state # "EXPECT" /\ Newlines = {}
      /\ UNCHANGED <<sent, wire, mem, sz, state, expect, last, delivered>>
      /\ pc' = IF last > sz THEN "crashed" ELSE "recv"
      /\ WordsInv /\ PlaceInv /\ LayoutInv /\ Early(last) /\ last <= sz
  BY DEF NoNewline, ChannelInv, SearchInv
<1>3. pc' = "recv"
  BY <1>1, <1>2
<1>4. Newlines = {i \in (last + 1)..sz : mem[i] = NL}
  BY <1>1, <1>2 DEF Newlines
<1>5. Early(sz)
  <2>1. SUFFICES ASSUME Waits PROVE sz < Len(Enc(sent[Following]))
    BY DEF Early
  <2>2. Following \in 1..Len(sent) /\ Word(sent, Following)
    BY <1>2, <2>1, InFront
  <2>3. PICK m \in MessageSet, e \in Seq(Bytes) :
          /\ m = sent[Following] /\ e = Enc(m)
          /\ \A k \in 1..Len(e) : k <= sz => mem[k] = e[k]
    BY <1>2, <2>1, InFront
  <2>4. m.kind # "data"
    BY <1>1, <1>2, <2>1, <2>3 DEF PlaceInv, KindOf
  <2>5. PICK l \in Nat : l = Len(m.bytes) /\ l >= 1
    <3>1. Len(m.bytes) \in Nat /\ Len(m.bytes) >= 1
      <4> HIDE DEF MessageSet, Word
      <4>1. QED
        BY <1>1, <2>2, <2>3, <2>4, TextIs
    <3>2. QED
      BY <3>1
  <2>6. Len(e) = l + 1 /\ e[l+1] = NL
    BY <2>3, <2>4, <2>5, EncIs
  <2>7. last < l + 1
    BY <1>1, <1>2, <2>1, <2>3, <2>5, <2>6 DEF Early
  <2>8. ~(l + 1 <= sz)
    <3>1. SUFFICES ASSUME l + 1 <= sz PROVE FALSE
      OBVIOUS
    <3>2. l + 1 \in 1..Len(e) /\ l + 1 \in (last + 1)..sz
      BY <1>1, <2>5, <2>6, <2>7, <3>1
    <3>3. mem[l+1] = NL
      BY <2>3, <2>6, <3>1, <3>2
    <3>4. QED
      BY <1>2, <1>4, <3>2, <3>3
  <2>9. QED
    BY <1>1, <2>3, <2>5, <2>6, <2>8
<1>6. WordsInv' /\ PlaceInv' /\ LayoutInv' /\ SearchInv'
  <2>1. WordsInv' /\ PlaceInv'
    BY <1>2 DEF WordsInv, PlaceInv, Waits, Following
  <2>2. LayoutInv'
    BY <1>2 DEF LayoutInv
  <2>3. SearchInv'
    BY <1>2, <1>3, <1>5 DEF SearchInv, Early, Waits, Following
  <2>4. QED
    BY <2>1, <2>2, <2>3
<1>7. QED
  BY <1>2, <1>3, <1>6 DEF ChannelInv, ChannelStep

(* The line is delivered and the rest moved to the front; what is expected   *)
(* then depends on the line.                                                 *)
LEMMA LineChannel ==
  ASSUME IInv, IInv', ChannelInv, pc = "run", state # "EXPECT", Newlines # {},
         NEW k, k = KindOf(state), Deliver(k, First(Newlines) - 1), UNCHANGED <<sent, wire>>,
         NEW m \in Seq(Bytes), Len(m) = Len(mem), Line(m, First(Newlines)),
         \A i \in 1..Len(mem) : i > First(Newlines) => m[i] = mem[i],
         pc' \in {"run", "recv", "closed"}, pc' = "recv" => sz' = 0,
         state' \in {"CMD", "EXPECT"},
         state' = "CMD" => (Following < Len(sent) => sent[Following + 1].kind = "cmd"),
         state' = "EXPECT" => /\ Following < Len(sent) /\ sent[Following + 1].kind = "data"
                              /\ Len(sent[Following + 1].bytes) = expect'
  PROVE  ChannelInv' /\ ChannelStep
<1>1. /\ sz \in Nat /\ sz <= Len(mem) /\ Len(mem) \in Nat /\ Len(sent) \in Nat /\ Len(delivered) \in Nat
  BY Facts
<1>2. /\ Waits /\ Following \in 1..Len(sent) /\ Following = Len(delivered) + 1
      /\ WordsInv /\ PlaceInv /\ LayoutInv
  BY LineFound DEF ChannelInv, Following
<1>3. PICK p \in Nat : p = First(Newlines) /\ p <= sz /\ p >= 1
  <2>1. First(Newlines) \in 1..Len(mem) /\ First(Newlines) <= sz
    BY NewlineIn, LineFound
  <2>2. QED
    BY <1>1, <2>1
<1>4. PICK msg \in MessageSet :
        /\ msg = sent[Following] /\ msg.kind = k /\ p = Len(msg.bytes) + 1
        /\ p = Len(Enc(sent[Following])) /\ \A i \in 1..Len(msg.bytes) : mem[i] = msg.bytes[i]
  BY <1>3, LineFound
<1>5. PICK n \in 0..Len(mem) : n = p - 1 /\ Len(msg.bytes) = n
  <2>1. p - 1 \in 0..Len(mem)
    BY <1>1, <1>3
  <2>2. Len(msg.bytes) = p - 1
    <3>1. Len(msg.bytes) \in Nat
      BY DEF MessageSet
    <3>2. QED
      BY <1>3, <1>4, <3>1
  <2>3. QED
    BY <2>1, <2>2
<1>6. Len(delivered') = Len(delivered) + 1 /\ Following' = Following + 1 /\ ChannelStep
  <2>1. Deliver(k, n)
    BY <1>3, <1>5
  <2> HIDE DEF MessageSet
  <2>2. QED
    BY <1>2, <1>4, <1>5, <2>1, DeliverRight
<1>7. WordsInv'
  BY <1>2, <1>6, WordsDelivered
<1>8. sz' = sz - p /\ last' = 0
  BY <1>1, <1>3 DEF Line
<1>9. \A i \in 1..(sz - p) : mem'[i] = mem[i + p]
  <2>1. CASE p < sz
    <3>1. mem' = Shift(m, p) /\ sz \in 0..Len(m)
      BY <1>1, <1>3, <2>1 DEF Line
    <3>2. \A i \in 1..(sz - p) : Shift(m, p)[i] = m[i + p]
      BY <3>1, ShiftMoves
    <3>3. \A i \in 1..(sz - p) : i + p \in 1..Len(mem) /\ i + p > p
      BY <1>1, <1>3
    <3>4. QED
      BY <1>3, <3>1, <3>2, <3>3
  <2>2. CASE ~(p < sz)
    <3>1. \A i \in 1..(sz - p) : FALSE
      BY <1>1, <1>3, <2>2
    <3>2. QED
      BY <3>1
  <2>3. QED
    BY <2>1, <2>2
<1>10. LayoutInv'
  BY <1>1, <1>2, <1>3, <1>4, <1>6, <1>8, <1>9, LayoutTaken
<1>11. PlaceInv'
  <2>1. Len(delivered') <= Len(sent') /\ (Waits' <=> Following < Len(sent)) /\ sent' = sent
    BY <1>1, <1>2, <1>6 DEF Waits
  <2>2. CASE state' = "CMD"
    BY <1>6, <2>1, <2>2 DEF PlaceInv, KindOf
  <2>3. CASE state' = "EXPECT"
    BY <1>6, <2>1, <2>3 DEF PlaceInv, KindOf
  <2>4. QED
    BY <2>2, <2>3
<1>12. SearchInv'
  BY <1>1, <1>3, <1>8 DEF SearchInv, Early
<1>13. QED
  BY <1>6, <1>7, <1>10, <1>11, <1>12 DEF ChannelInv
LEMMA RawLineChannel ==
  ASSUME IInv, IInv', ChannelInv, RawLine
  PROVE  ChannelInv' /\ ChannelStep
<1>1. /\ pc = "run" /\ state = "LINE" /\ Newlines # {} /\ Deliver("line", First(Newlines) - 1)
      /\ Line(mem, First(Newlines)) /\ state' = "CMD" /\ UNCHANGED <<sent, wire, expect, pc>>
      /\ WordsInv /\ PlaceInv
  BY DEF RawLine, ChannelInv
<1>2. Waits /\ Following \in 1..Len(sent) /\ sent[Following].kind = "line"
  BY <1>1, LineFound DEF KindOf
<1>3. Following < Len(sent) => sent[Following + 1].kind = "cmd"
  BY <1>1, <1>2, CommandNext
<1>4. mem \in Seq(Bytes) /\ \A i \in 1..Len(mem) : i > First(Newlines) => mem[i] = mem[i]
  BY Facts
<1>5. "line" = KindOf(state) /\ state # "EXPECT"
  BY <1>1 DEF KindOf
<1>6. QED
  BY <1>1, <1>3, <1>4, <1>5, LineChannel

LEMMA CommandChannel ==
  ASSUME IInv, IInv', ChannelInv, Command
  PROVE  ChannelInv' /\ ChannelStep
<1> DEFINE p == First(Newlines)
<1>1. /\ pc = "run" /\ state = "CMD" /\ state # "EXPECT" /\ Newlines # {} /\ WordsInv /\ PlaceInv
      /\ "cmd" = KindOf(state)
  BY DEF Command, ChannelInv, KindOf
<1>2. /\ WordEnd(p) = 2 /\ Deliver("cmd", p - 1) /\ Line([mem EXCEPT ![2] = NUL], p)
      /\ IF mem[1] \in Sized
         THEN /\ state' = "EXPECT" /\ expect' = IF 2 < p THEN Size[mem[2 + 1]] ELSE 0
              /\ pc' \in {IF Again(sz') THEN "run" ELSE "recv", "closed"}
         ELSE pc' \in {"run", "closed"} /\ UNCHANGED <<state, expect>>
      /\ UNCHANGED <<sent, wire>>
  BY DEF Command
<1>3. /\ mem \in Seq(Bytes) /\ Len(mem) \in Nat /\ sent \in Seq(MessageSet) /\ sz' \in Nat /\ Len(sent) \in Nat
  BY Facts DEF IInv, TypeOK
<1>4. Waits /\ Following \in 1..Len(sent) /\ Word(sent, Following)
  BY <1>1, LineFound
<1>5. PICK msg \in MessageSet :
        /\ msg = sent[Following] /\ msg.kind = "cmd"
        /\ p = Len(msg.bytes) + 1 /\ \A i \in 1..Len(msg.bytes) : mem[i] = msg.bytes[i]
  BY <1>1, LineFound
<1>6. PICK c \in Plain \cup Sized \cup Other, a \in Args :
        /\ msg.bytes = <<c, SP, a>>
        /\ c \in Sized => /\ Following < Len(sent) /\ sent[Following+1].kind = "data"
                          /\ Len(sent[Following+1].bytes) = Size[a]
  BY <1>4, <1>5 DEF Word
<1>7. PICK b : b = <<c, SP, a>> /\ Len(b) = 3 /\ b[1] = c /\ b[3] = a
  <2>1. Len(<<c, SP, a>>) = 3 /\ <<c, SP, a>>[1] = c /\ <<c, SP, a>>[3] = a
    OBVIOUS
  <2>2. QED
    BY <2>1
<1>8. p = 4 /\ mem[1] = c /\ mem[3] = a
  <2>1. \A i \in 1..3 : mem[i] = b[i]
    BY <1>5, <1>6, <1>7
  <2>2. QED
    BY <1>5, <1>6, <1>7, <2>1
<1>9. PICK m \in Seq(Bytes) : m = [mem EXCEPT ![2] = NUL] /\ Len(m) = Len(mem)
                             /\ \A i \in 1..Len(mem) : i > p => m[i] = mem[i]
  <2>1. NUL \in Bytes
    BY ByteAssumption
  <2>2. [mem EXCEPT ![2] = NUL] \in Seq(Bytes) /\ Len([mem EXCEPT ![2] = NUL]) = Len(mem)
    BY <1>3, <2>1, SetIs
  <2>3. \A i \in 1..Len(mem) : i > 4 => [mem EXCEPT ![2] = NUL][i] = mem[i]
    BY <1>3
  <2>4. QED
    BY <1>8, <2>2, <2>3
<1>10. CASE c \in Sized
  <2>1. /\ state' = "EXPECT" /\ expect' = Size[a]
        /\ pc' \in {IF Again(sz') THEN "run" ELSE "recv", "closed"}
    BY <1>2, <1>8, <1>10
  <2>2. pc' \in {"run", "recv", "closed"} /\ (pc' = "recv" => sz' = 0)
    BY <1>3, <2>1 DEF Again
  <2>3. /\ Following < Len(sent) /\ sent[Following+1].kind = "data"
        /\ Len(sent[Following+1].bytes) = expect'
    BY <1>6, <1>10, <2>1
  <2> HIDE DEF p
  <2>4. QED
    BY <1>1, <1>2, <1>9, <2>1, <2>2, <2>3, LineChannel DEF p
<1>11. CASE c \notin Sized
  <2>1. state' = "CMD" /\ pc' \in {"run", "closed"}
    BY <1>1, <1>2, <1>8, <1>11
  <2>2. Following < Len(sent) => sent[Following + 1].kind = "cmd"
    <3>1. SUFFICES ASSUME Following < Len(sent) PROVE sent[Following + 1].kind = "cmd"
      OBVIOUS
    <3>2. Following \in Nat /\ Following + 1 \in 1..Len(sent) /\ Following + 1 # 1 /\ (Following + 1) - 1 = Following
      BY <1>3, <1>4, <3>1
    <3>3. Word(sent, Following + 1)
      BY <1>1, <3>2 DEF WordsInv
    <3>4. sent[Following].bytes[1] \notin Sized
      BY <1>5, <1>6, <1>7, <1>11
    <3>5. QED
      BY <3>2, <3>3, <3>4 DEF Word
  <2>3. QED
    BY <1>1, <1>2, <1>9, <2>1, <2>2, LineChannel
<1>12. QED
  BY <1>10, <1>11

LEMMA EndChannel ==
  ASSUME ChannelInv, Close \/ UnknownCommand \/ Over \/ UNCHANGED vars
  PROVE  ChannelInv' /\ ChannelStep
<1>1. CASE Close
  BY <1>1 DEF Close, ChannelInv, ChannelStep, WordsInv, Messages!Next, Messages!Close
<1>2. CASE UnknownCommand
  BY <1>2 DEF UnknownCommand, ChannelInv, ChannelStep, WordsInv
<1>3. CASE UNCHANGED vars
  BY <1>3 DEF vars, ChannelInv, ChannelStep, WordsInv, PlaceInv, SearchInv, LayoutInv, Early, Waits, Following
<1>4. QED
  BY <1>1, <1>2, <1>3 DEF Over

LEMMA ChannelNext ==
  ASSUME ShortOrAwaited, IInv, ChannelInv, [Next]_vars
  PROVE  ChannelInv' /\ ChannelStep
<1>0. IInv'
  BY NextInv
<1>1. CASE SendLine \/ SendPlain \/ SendSized
  BY <1>1, SendsChannel
<1>2. CASE Receive
  BY <1>2, ReceiveChannel
<1>3. CASE ExpectMore
  BY <1>3, ExpectMoreChannel
<1>4. CASE ExpectDone
  BY <1>0, <1>4, ExpectDoneChannel
<1>5. CASE NoNewline
  BY <1>5, NoNewlineChannel
<1>6. CASE RawLine
  BY <1>0, <1>6, RawLineChannel
<1>7. CASE Command
  BY <1>0, <1>7, CommandChannel
<1>8. CASE Close \/ UnknownCommand \/ Over \/ UNCHANGED vars
  BY <1>8, EndChannel
<1>9. QED
  BY <1>1, <1>2, <1>3, <1>4, <1>5, <1>6, <1>7, <1>8 DEF Next, Run

(* Whatever the commands and payloads, the size of the buffer and the way    *)
(* the bytes are cut, the callbacks get the messages of the peer whole, in   *)
(* order and each once, if payloads are short or the peer waits after them.  *)
THEOREM NolpImplementsChannel ==
  ASSUME ShortOrAwaited
  PROVE  Spec => ImplementsChannel
<1>1. Init => Messages!Init
  BY DEF Init, Messages!Init
<1>2. IInv /\ ChannelInv /\ [Next]_vars => ChannelInv'
  BY ChannelNext
<1>3. IInv /\ ChannelInv /\ [Next]_vars => [Messages!Next]_(<<sent, delivered, pc # "closed">>)
  <2>1. IInv /\ ChannelInv /\ [Next]_vars => ChannelStep
    BY ChannelNext
  <2>2. QED
    BY <2>1 DEF ChannelStep
<1>4. QED
  BY <1>1, <1>2, <1>3, InitInv, NextInv, InitChannel, PTL
     DEF Spec, ImplementsChannel, Messages!Spec, Messages!vars
=============================================================================

--------------------------- MODULE ClientLib_proofs ---------------------------
(***************************************************************************)
(* The client library keeps its promises to the application whatever it    *)
(* publishes, however large the window is, and however often connections   *)
(* break.                                                                  *)
(*                                                                         *)
(* The argument follows an identifier.  StateOf says where its message is  *)
(* in the queue, Has and Before what is on its way for it; the connection  *)
(* is a queue from the packets that wait over those in transit to the      *)
(* broker to those in transit from it, in which a PUBLISH and its PUBREC   *)
(* come before the PUBREL and its PUBCOMP.                                 *)
(***************************************************************************)
EXTENDS ClientLib, Lists_proofs, SequenceTheorems

------------------------------------------------------------------------------
\* An identifier.

N == Len(MsgOrder)
Name(k) == MsgOrder[k]

\* its message in the queue
In(c, k) == \E i \in DOMAIN c.out : c.out[i].mid = k
StateOf(c, k) ==
  IF In(c, k) THEN c.out[CHOOSE i \in DOMAIN c.out : c.out[i].mid = k].state ELSE "gone"

\* its packets in a queue
Has(q, t, k) == \E i \in DOMAIN q : q[i].t = t /\ q[i].mid = k
Before(q, t, u, k) ==
  \E i, j \in DOMAIN q :
    /\ i < j /\ q[i].t = t /\ q[i].mid = k
    /\ q[j].t = u /\ q[j].mid = k

\* Its message is on its way to the broker, or an answer is on its way back.
Transit(c, n, k) ==
  \/ \E t \in {"PUBLISH", "PUBREL"} : Has(c.packets, t, k) \/ Has(n.up, t, k)
  \/ \E t \in {"PUBACK", "PUBREC", "PUBCOMP"} : Has(n.down, t, k)

Sending(a, k) == \E i \in DOMAIN a.sends : a.sends[i].mid = k

\* The messages for which an answer may come: those that are part way through their delivery,
\* and those that are sent although a reconnection put them off.
Committed(c, a, n) ==
  {k \in 1..N : /\ In(c, k)
                /\ \/ StateOf(c, k) # "invalid"
                   \/ Sending(a, k)
                   \/ c.sock /\ Transit(c, n, k)}

Waiting(c) == {k \in 1..N : StateOf(c, k) = "invalid"}

------------------------------------------------------------------------------
\* Types.

UpTypes == {"CONNECT", "DISCONNECT", "PINGREQ", "PUBLISH", "PUBREL", "PUBREC", "PUBCOMP"}
DownTypes == {"CONNACK", "PINGRESP", "PUBACK", "PUBREC", "PUBCOMP", "PUBLISH", "PUBREL"}
Payload == Msg \cup Inbound \cup {"none", "garbage1", "garbage2"}

UpPacket == [t : UpTypes, mid : Nat, m : Payload]
DownPacket == [t : DownTypes, mid : Nat, m : Payload]
InEntry == [mid : Nat, m : Inbound, due : BOOLEAN]
Send == [mid : 1..N, m : Msg]

Mosq == [state : {"new", "connected", "disconnecting"}, sock : BOOLEAN, ping_t : BOOLEAN,
         packets : Seq(UpPacket), out : Seq(Entry), in : Seq(InEntry),
         inflight : Int, last_mid : 0..N]

App == [pc : {"idle", "send", "disconnect"}, todo : Seq(Msg), sends : Seq(Send),
        handed : SUBSET Msg, calls : Int, told : [Msg -> Nat], passed : [Inbound -> Nat]]

Net == [up : Seq(UpPacket), down : Seq(DownPacket), link : {"open", "reset", "silent"}]

Broker == [met : BOOLEAN, stored : SUBSET (1..N), got : [Msg -> 0..2],
           phase : [Inbound -> {"idle", "sent", "released", "done"}]]

Seen == [faults : Nat, redone : SUBSET Msg, stale : SUBSET Inbound, overfull : BOOLEAN,
         late : BOOLEAN]

Types(c, a, n, b, s) == c \in Mosq /\ a \in App /\ n \in Net /\ b \in Broker /\ s \in Seen

------------------------------------------------------------------------------
\* The inductive invariant.

\* The queue: an identifier names the message it was given to, once.
Entries(c) ==
  /\ \A i, j \in DOMAIN c.out : c.out[i].mid = c.out[j].mid => i = j
  /\ \A i \in DOMAIN c.out :
       LET e == c.out[i]
       IN  /\ e.mid <= c.last_mid /\ e.m = Name(e.mid)
           /\ \/ Qos[e.m] = 1 /\ e.state \in {"wait_for_puback", "invalid"}
              \/ Qos[e.m] = 2 /\ e.state \in {"wait_for_pubrec", "wait_for_pubcomp", "invalid"}
  /\ \A j \in DOMAIN c.in : c.in[j].mid = InMid[c.in[j].m]

\* The application's thread: what it has still to publish, and what it is about to send.
Calls(c, a) ==
  /\ Len(a.todo) = N - c.last_mid
  /\ \A i \in 1..Len(a.todo) : a.todo[i] = Name(c.last_mid + i)
  /\ a.handed \subseteq {Name(k) : k \in 1..c.last_mid}
  /\ IF a.pc = "send"
     THEN \E k \in 1..c.last_mid : Qos[Name(k)] > 0 /\ a.sends = <<[mid |-> k, m |-> Name(k)]>>
     ELSE a.sends = <<>>

\* What a packet to the broker, and one from it, says.
UpOK(p, c, b) ==
  /\ p.t = "PUBLISH" =>
       /\ p.mid \in 1..c.last_mid
       /\ \/ p.m = Name(p.mid)
          \/ /\ Qos[Name(p.mid)] > 0 /\ p.m = Garbage(Qos[Name(p.mid)])
             /\ ~In(c, p.mid)
  /\ p.t = "PUBREL" =>
       /\ p.mid \in 1..c.last_mid /\ Qos[Name(p.mid)] = 2
       /\ In(c, p.mid) => b.got[Name(p.mid)] > 0
  /\ p.t = "PUBREC" => \A i \in Inbound : InMid[i] = p.mid => b.phase[i] # "idle"
  /\ p.t # "PUBLISH" => p.m = "none"

DownOK(p, c, b) ==
  /\ p.t \in {"PUBACK", "PUBREC", "PUBCOMP"} =>
       /\ p.mid \in 1..c.last_mid /\ Qos[Name(p.mid)] = IF p.t = "PUBACK" THEN 1 ELSE 2
       /\ In(c, p.mid) => b.got[Name(p.mid)] > 0
  /\ p.t = "PUBLISH" => p.m \in Inbound /\ p.mid = InMid[p.m] /\ b.phase[p.m] # "idle"
  /\ p.t = "PUBREL" => \A i \in Inbound : InMid[i] = p.mid => b.phase[i] \in {"released", "done"}
  /\ p.t # "PUBLISH" => p.m = "none"

AllUp(q, c, b) == \A i \in DOMAIN q : UpOK(q[i], c, b)
AllDown(q, c, b) == \A i \in DOMAIN q : DownOK(q[i], c, b)

\* What was reported is what has left the queue, and the broker has it.
Account(c, a, b) ==
  /\ \A k \in 1..N : Qos[Name(k)] > 0 =>
       /\ a.told[Name(k)] = IF k <= c.last_mid /\ ~In(c, k) THEN 1 ELSE 0
       /\ k <= c.last_mid /\ ~In(c, k) => b.got[Name(k)] > 0
  /\ \A k \in 1..N : StateOf(c, k) = "wait_for_pubcomp" => b.got[Name(k)] > 0
  /\ \A k \in b.stored : k <= c.last_mid /\ Qos[Name(k)] = 2 /\ b.got[Name(k)] > 0
  /\ \A k \in 1..N : k > c.last_mid => b.got[Name(k)] = 0

\* The counter covers every message for which an answer may come.
Window(c, a, n) ==
  /\ Cardinality(Committed(c, a, n)) <= c.inflight
  /\ max_inflight_messages > 0 => Cardinality(Committed(c, a, n)) <= max_inflight_messages
  /\ c.inflight + Cardinality(Waiting(c)) + Len(a.todo) <= N + N

\* What the broker publishes with identifier InMid[i].
Stored(c, i) == \E j \in DOMAIN c.in : c.in[j].m = i
Inwards(i, c, a, n, b, s) ==
  /\ b.phase[i] = "idle" => ~Stored(c, i)
  /\ b.phase[i] \in {"idle", "sent"} \/ Has(n.down, "PUBLISH", InMid[i]) => a.passed[i] = 0
  /\ ~Before(n.down, "PUBREL", "PUBLISH", InMid[i])
  /\ i \notin s.stale =>
       /\ a.passed[i] <= 1 /\ (Stored(c, i) => a.passed[i] = 0)
       /\ \A j, k \in DOMAIN c.in : c.in[j].m = i /\ c.in[k].m = i => j = k

\* What is published with QoS 2 and identifier k is sent, acknowledged, released and completed.
Outwards(k, c, n, b, s) ==
  /\ ~In(c, k) => ~Has(c.packets, "PUBLISH", k) /\ ~Has(n.up, "PUBLISH", k) /\ ~Has(n.down, "PUBREC", k)
  /\ ~Before(c.packets, "PUBREL", "PUBLISH", k)
  /\ ~Before(n.up, "PUBREL", "PUBLISH", k)
  /\ ~Before(n.down, "PUBCOMP", "PUBREC", k)
  /\ Has(n.up, "PUBREL", k) => ~Has(c.packets, "PUBLISH", k)
  /\ Has(n.down, "PUBCOMP", k) => ~Has(c.packets, "PUBLISH", k) /\ ~Has(n.up, "PUBLISH", k)
  /\ StateOf(c, k) \in {"wait_for_pubrec", "invalid"} /\ (c.sock \/ Name(k) \notin s.redone) =>
       /\ ~Has(c.packets, "PUBREL", k) /\ ~Has(n.up, "PUBREL", k)
       /\ ~Has(n.down, "PUBCOMP", k)
  /\ Name(k) \notin s.redone =>
       /\ b.got[Name(k)] <= 1
       /\ b.got[Name(k)] = 1 /\ k \notin b.stored =>
            /\ ~Has(c.packets, "PUBLISH", k) /\ ~Has(n.up, "PUBLISH", k)
            /\ StateOf(c, k) \in {"wait_for_pubcomp", "gone"}

Order(c, n, b, s) ==
  s.late \/ \A k \in 1..c.last_mid : Qos[Name(k)] = 2 => Outwards(k, c, n, b, s)

\* Everything but the place of the loop.
Good(c, a, n, b, s) ==
  /\ Types(c, a, n, b, s)
  /\ Entries(c) /\ Calls(c, a) /\ Account(c, a, b)
  /\ AllUp(c.packets, c, b) /\ AllUp(n.up, c, b) /\ AllDown(n.down, c, b)
  /\ Window(c, a, n)
  /\ b.met \/ n.down = <<>>
  /\ \A i \in Inbound : Inwards(i, c, a, n, b, s)
  /\ Order(c, n, b, s)

Place(l, c, s) ==
  /\ l \in {"loop", "connack", "reconnecting", "connecting", "greeting", "ended", "gave up"}
  /\ l \in {"reconnecting", "connecting"} => ~c.sock
  /\ l = "connecting" => c.packets = <<>>
  /\ l = "gave up" => s.late

Inv == Good(mosq, app, net, broker, seen) /\ Place(loop, mosq, seen)

------------------------------------------------------------------------------
\* What is in a queue of packets.

LEMMA HasAfter ==
  ASSUME NEW P, NEW q \in Seq(P), NEW r \in Seq(P), NEW t, NEW k
  PROVE  Has(q \o r, t, k) <=> Has(q, t, k) \/ Has(r, t, k)
<1>1. \A i \in DOMAIN q : (q \o r)[i] = q[i] /\ i \in DOMAIN (q \o r)
  OBVIOUS
<1>2. \A i \in DOMAIN r : (q \o r)[i + Len(q)] = r[i] /\ i + Len(q) \in DOMAIN (q \o r)
  OBVIOUS
<1>3. \A i \in DOMAIN (q \o r) : i \in DOMAIN q \/ i - Len(q) \in DOMAIN r
  OBVIOUS
<1>4. \A i \in DOMAIN (q \o r) : i \notin DOMAIN q => (q \o r)[i] = r[i - Len(q)]
  OBVIOUS
<1>5. Has(q, t, k) => Has(q \o r, t, k)
  BY <1>1 DEF Has
<1>6. Has(r, t, k) => Has(q \o r, t, k)
  BY <1>2 DEF Has
<1>7. ASSUME Has(q \o r, t, k)
      PROVE  Has(q, t, k) \/ Has(r, t, k)
  <2>1. PICK i \in DOMAIN (q \o r) : (q \o r)[i].t = t /\ (q \o r)[i].mid = k
    BY <1>7 DEF Has
  <2>2. CASE i \in DOMAIN q
    BY <1>1, <2>1, <2>2 DEF Has
  <2>3. CASE i \notin DOMAIN q
    BY <1>3, <1>4, <2>1, <2>3 DEF Has
  <2> QED
    BY <2>2, <2>3
<1> QED
  BY <1>5, <1>6, <1>7

LEMMA BeforeAfter ==
  ASSUME NEW P, NEW q \in Seq(P), NEW r \in Seq(P), NEW t, NEW u, NEW k
  PROVE  Before(q \o r, t, u, k) <=> \/ Before(q, t, u, k) \/ Before(r, t, u, k)
                                     \/ Has(q, t, k) /\ Has(r, u, k)
<1>1. \A i \in DOMAIN q : (q \o r)[i] = q[i] /\ i \in DOMAIN (q \o r) /\ i \in 1..Len(q)
  OBVIOUS
<1>2. \A i \in DOMAIN r : (q \o r)[i + Len(q)] = r[i] /\ i + Len(q) \in DOMAIN (q \o r) /\ i \in 1..Len(r)
  OBVIOUS
<1>3. \A i \in DOMAIN (q \o r) : i \in DOMAIN q \/ i - Len(q) \in DOMAIN r
  OBVIOUS
<1>4. \A i \in DOMAIN (q \o r) : i \in Int /\ (i \notin DOMAIN q => (q \o r)[i] = r[i - Len(q)] /\ i > Len(q))
  OBVIOUS
<1>5. Len(q) \in Nat
  OBVIOUS
<1>6. ASSUME Before(q \o r, t, u, k)
      PROVE  \/ Before(q, t, u, k) \/ Before(r, t, u, k)
             \/ Has(q, t, k) /\ Has(r, u, k)
  <2>1. PICK i, j \in DOMAIN (q \o r) :
               /\ i < j /\ (q \o r)[i].t = t /\ (q \o r)[i].mid = k
               /\ (q \o r)[j].t = u /\ (q \o r)[j].mid = k
    BY <1>6 DEF Before
  <2>2. CASE i \in DOMAIN q /\ j \in DOMAIN q
    BY <1>1, <2>1, <2>2 DEF Before
  <2>3. CASE i \in DOMAIN q /\ j \notin DOMAIN q
    BY <1>1, <1>3, <1>4, <2>1, <2>3 DEF Has
  <2>4. CASE i \notin DOMAIN q
    <3>1. j \notin DOMAIN q
      BY <1>1, <1>4, <1>5, <2>1, <2>4
    <3>2. i - Len(q) \in DOMAIN r /\ j - Len(q) \in DOMAIN r /\ i - Len(q) < j - Len(q)
      BY <1>3, <1>4, <1>5, <2>1, <2>4, <3>1
    <3> QED
      BY <1>4, <2>1, <2>4, <3>1, <3>2 DEF Before
  <2> QED
    BY <2>2, <2>3, <2>4
<1>7. ASSUME Before(r, t, u, k)
      PROVE  Before(q \o r, t, u, k)
  <2>1. PICK i, j \in DOMAIN r :
               i < j /\ r[i].t = t /\ r[i].mid = k /\ r[j].t = u /\ r[j].mid = k
    BY <1>7 DEF Before
  <2>2. i + Len(q) < j + Len(q)
    BY <1>2, <1>5, <2>1
  <2> QED
    BY <1>2, <2>1, <2>2 DEF Before
<1>8. ASSUME Has(q, t, k) /\ Has(r, u, k)
      PROVE  Before(q \o r, t, u, k)
  <2>1. PICK i \in DOMAIN q, j \in DOMAIN r :
               q[i].t = t /\ q[i].mid = k /\ r[j].t = u /\ r[j].mid = k
    BY <1>8 DEF Has
  <2>2. i < j + Len(q)
    BY <1>1, <1>2, <1>5, <2>1
  <2> QED
    BY <1>1, <1>2, <2>1, <2>2 DEF Before
<1>9. Before(q, t, u, k) => Before(q \o r, t, u, k)
  BY <1>1 DEF Before
<1> QED
  BY <1>6, <1>7, <1>8, <1>9

\* a queue without its head
LEMMA HasHead ==
  ASSUME NEW P, NEW q \in Seq(P), q # <<>>, NEW t, NEW k
  PROVE  /\ Has(q, t, k) <=> (Head(q).t = t /\ Head(q).mid = k) \/ Has(Tail(q), t, k)
         /\ \A u : Before(Tail(q), t, u, k) => Before(q, t, u, k)
         /\ \A u : Head(q).t = t /\ Head(q).mid = k /\ Has(Tail(q), u, k) => Before(q, t, u, k)
<1>1. \A i \in DOMAIN Tail(q) : Tail(q)[i] = q[i + 1] /\ i + 1 \in DOMAIN q /\ i \in Nat \ {0}
  OBVIOUS
<1>2. \A i \in DOMAIN q : i \in Int /\ (i = 1 \/ (i - 1 \in DOMAIN Tail(q) /\ q[i] = Tail(q)[i - 1]))
  OBVIOUS
<1>3. Head(q) = q[1] /\ 1 \in DOMAIN q
  OBVIOUS
<1>4. Has(q, t, k) <=> (Head(q).t = t /\ Head(q).mid = k) \/ Has(Tail(q), t, k)
  BY <1>1, <1>2, <1>3 DEF Has
<1>5. ASSUME NEW u, Before(Tail(q), t, u, k)
      PROVE  Before(q, t, u, k)
  <2>1. PICK i, j \in DOMAIN Tail(q) :
               /\ i < j /\ Tail(q)[i].t = t /\ Tail(q)[i].mid = k
               /\ Tail(q)[j].t = u /\ Tail(q)[j].mid = k
    BY <1>5 DEF Before
  <2>2. i + 1 < j + 1
    BY <1>1, <2>1
  <2> QED
    BY <1>1, <2>1, <2>2 DEF Before
<1>6. ASSUME NEW u, Head(q).t = t, Head(q).mid = k, Has(Tail(q), u, k)
      PROVE  Before(q, t, u, k)
  <2>1. PICK j \in DOMAIN Tail(q) : Tail(q)[j].t = u /\ Tail(q)[j].mid = k
    BY <1>6 DEF Has
  <2>2. 1 < j + 1
    BY <1>1
  <2> QED
    BY <1>1, <1>3, <1>6, <2>1, <2>2 DEF Before
<1> QED
  BY <1>4, <1>5, <1>6

LEMMA HasOne ==
  ASSUME NEW p, NEW t, NEW k
  PROVE  /\ Has(<<p>>, t, k) <=> p.t = t /\ p.mid = k
         /\ \A u : ~Before(<<p>>, t, u, k)
         /\ ~Has(<<>>, t, k) /\ \A u : ~Before(<<>>, t, u, k)
<1>1. DOMAIN <<p>> = {1} /\ <<p>>[1] = p
  OBVIOUS
<1>2. DOMAIN <<>> = {}
  OBVIOUS
<1> QED
  BY <1>1, <1>2 DEF Has, Before

LEMMA AppendIs ==
  ASSUME NEW P, NEW q \in Seq(P), NEW p \in P
  PROVE  Append(q, p) = q \o <<p>> /\ <<p>> \in Seq(P)
OBVIOUS

------------------------------------------------------------------------------
\* What is in the queue of messages.

Distinct(c) == \A i, j \in DOMAIN c.out : c.out[i].mid = c.out[j].mid => i = j
Status == {"wait_for_puback", "wait_for_pubrec", "wait_for_pubcomp", "invalid"}

LEMMA StateAt ==
  ASSUME NEW c, Distinct(c)
  PROVE  /\ \A i \in DOMAIN c.out : In(c, c.out[i].mid) /\ StateOf(c, c.out[i].mid) = c.out[i].state
         /\ \A k : In(c, k) => \E i \in DOMAIN c.out : c.out[i].mid = k /\ StateOf(c, k) = c.out[i].state
         /\ \A k : ~In(c, k) => StateOf(c, k) = "gone"
<1>1. \A k : In(c, k) => \E i \in DOMAIN c.out : c.out[i].mid = k /\ StateOf(c, k) = c.out[i].state
  BY DEF In, StateOf
<1>2. ASSUME NEW i \in DOMAIN c.out
      PROVE  In(c, c.out[i].mid) /\ StateOf(c, c.out[i].mid) = c.out[i].state
  <2>1. In(c, c.out[i].mid)
    BY DEF In
  <2>2. PICK j \in DOMAIN c.out : c.out[j].mid = c.out[i].mid /\ StateOf(c, c.out[i].mid) = c.out[j].state
    BY <1>1, <2>1
  <2>3. i = j
    BY <2>2 DEF Distinct
  <2> QED
    BY <2>1, <2>2, <2>3
<1> QED
  BY <1>1, <1>2 DEF StateOf

\* two clients whose queues have the same messages, in the same states
Alike(c, d) ==
  /\ DOMAIN d.out = DOMAIN c.out
  /\ \A i \in DOMAIN c.out : d.out[i].mid = c.out[i].mid /\ d.out[i].state = c.out[i].state

LEMMA AlikeStates ==
  ASSUME NEW c, NEW d, Distinct(c), Alike(c, d)
  PROVE  Distinct(d) /\ \A k : (In(d, k) <=> In(c, k)) /\ StateOf(d, k) = StateOf(c, k)
<1>1. Distinct(d)
  BY DEF Distinct, Alike
<1>2. ASSUME NEW k
      PROVE  (In(d, k) <=> In(c, k)) /\ StateOf(d, k) = StateOf(c, k)
  <2>1. In(d, k) <=> In(c, k)
    BY DEF In, Alike
  <2>2. CASE In(c, k)
    <3>1. PICK i \in DOMAIN c.out : c.out[i].mid = k /\ StateOf(c, k) = c.out[i].state
      BY <2>2, StateAt
    <3> QED
      BY <1>1, <2>1, <3>1, StateAt DEF Alike
  <2> QED
    BY <1>1, <2>1, <2>2, StateAt
<1> QED
  BY <1>1, <1>2

\* the message at i gets another state
LEMMA StateSet ==
  ASSUME NEW c, NEW d, Distinct(c), NEW i \in DOMAIN c.out, NEW state,
         DOMAIN d.out = DOMAIN c.out, d.out[i].state = state,
         \A j \in DOMAIN c.out : d.out[j].mid = c.out[j].mid,
         \A j \in DOMAIN c.out : j # i => d.out[j].state = c.out[j].state
  PROVE  /\ Distinct(d)
         /\ \A k : /\ In(d, k) <=> In(c, k)
                   /\ StateOf(d, k) = IF k = c.out[i].mid THEN state ELSE StateOf(c, k)
<1>1. Distinct(d)
  BY DEF Distinct
<1>2. ASSUME NEW k
      PROVE  /\ In(d, k) <=> In(c, k)
             /\ StateOf(d, k) = IF k = c.out[i].mid THEN state ELSE StateOf(c, k)
  <2>1. In(d, k) <=> In(c, k)
    BY DEF In
  <2>2. CASE k = c.out[i].mid
    BY <1>1, <2>1, <2>2, StateAt
  <2>3. CASE In(c, k) /\ k # c.out[i].mid
    <3>1. PICK j \in DOMAIN c.out : c.out[j].mid = k /\ StateOf(c, k) = c.out[j].state
      BY <2>3, StateAt
    <3>2. d.out[j].mid = k /\ d.out[j].state = c.out[j].state /\ j \in DOMAIN d.out
      BY <2>3, <3>1
    <3>3. StateOf(d, d.out[j].mid) = d.out[j].state
      BY <1>1, <3>2, StateAt
    <3> QED
      BY <2>1, <2>3, <3>1, <3>2, <3>3
  <2> QED
    BY <1>1, <2>1, <2>2, <2>3, StateAt
<1> QED
  BY <1>1, <1>2

LEMMA RemoveAtIs ==
  ASSUME NEW A, NEW q \in Seq(A), NEW i \in DOMAIN q
  PROVE  /\ RemoveAt(q, i) \in Seq(A)
         /\ DOMAIN RemoveAt(q, i) = 1..(Len(q) - 1)
         /\ \A j \in 1..(Len(q) - 1) : RemoveAt(q, i)[j] = IF j < i THEN q[j] ELSE q[j + 1]
<1> DEFINE a == SubSeq(q, 1, i - 1)
           b == SubSeq(q, i + 1, Len(q))
<1>1. i \in 1..Len(q) /\ Len(q) \in Nat
  OBVIOUS
<1>2. a \in Seq(A) /\ Len(a) = i - 1 /\ \A j \in 1..i - 1 : a[j] = q[j]
  BY <1>1, SubSeqProperties
<1>3. b \in Seq(A) /\ Len(b) = Len(q) - i /\ \A j \in 1..Len(q) - i : b[j] = q[j + i]
  BY <1>1, SubSeqProperties
<1>4. RemoveAt(q, i) = a \o b
  BY DEF RemoveAt
<1> HIDE DEF a, b
<1>5. a \o b \in Seq(A) /\ Len(a \o b) = Len(q) - 1
  BY <1>1, <1>2, <1>3
<1>6. ASSUME NEW j \in 1..(Len(q) - 1)
      PROVE  (a \o b)[j] = IF j < i THEN q[j] ELSE q[j + 1]
  <2>1. CASE j < i
    BY <1>1, <1>2, <1>3, <2>1
  <2>2. CASE j >= i
    <3>1. j - (i - 1) \in 1..Len(q) - i /\ b[j - (i - 1)] = q[j + 1]
      <4> DEFINE x == j - (i - 1)
      <4>1. x \in 1..Len(q) - i /\ x + i = j + 1
        BY <1>1, <2>2
      <4> HIDE DEF x
      <4>2. b[x] = q[j + 1]
        BY <1>3, <4>1
      <4> QED
        BY <4>1, <4>2 DEF x
    <3>2. (a \o b)[j] = b[j - (i - 1)]
      BY <1>1, <1>2, <1>3, <2>2
    <3>3. ~(j < i)
      BY <1>1, <2>2
    <3> QED
      BY ONLY <3>1, <3>2, <3>3
  <2>3. j < i \/ j >= i
    BY <1>1
  <2> QED
    BY <2>1, <2>2, <2>3
<1> QED
  BY <1>4, <1>5, <1>6

\* the message at i goes
Loses(c, d, i) ==
  /\ Distinct(d)
  /\ \A k : /\ In(d, k) <=> In(c, k) /\ k # c.out[i].mid
            /\ StateOf(d, k) = IF k = c.out[i].mid THEN "gone" ELSE StateOf(c, k)
  /\ \A j \in DOMAIN d.out : \E k \in DOMAIN c.out : d.out[j] = c.out[k]

LEMMA Removed ==
  ASSUME NEW A, NEW c, NEW d, c.out \in Seq(A), Distinct(c), NEW i \in DOMAIN c.out,
         d.out = RemoveAt(c.out, i)
  PROVE  Loses(c, d, i)
<1> DEFINE At(j) == IF j < i THEN j ELSE j + 1
           L == Len(c.out)
<1>1. i \in 1..L /\ L \in Nat /\ DOMAIN c.out = 1..L
  OBVIOUS
<1>2. DOMAIN d.out = 1..(L - 1) /\ \A j \in DOMAIN d.out : d.out[j] = c.out[At(j)]
  <2>1. \A j \in 1..(L - 1) : RemoveAt(c.out, i)[j] = c.out[At(j)]
    BY <1>1, RemoveAtIs
  <2> QED
    BY <2>1, RemoveAtIs
<1>3. \A j \in 1..(L - 1) : At(j) \in 1..L /\ At(j) # i
  BY <1>1
<1>4. \A j \in 1..L : j # i => \E k \in 1..(L - 1) : At(k) = j
  <2>1. ASSUME NEW j \in 1..L, j # i
        PROVE  \E k \in 1..(L - 1) : At(k) = j
    <3>1. CASE j < i
      BY <1>1, <3>1
    <3>2. CASE j > i
      <4>1. j - 1 \in 1..(L - 1) /\ At(j - 1) = j
        BY <1>1, <3>2
      <4> QED
        BY <4>1
    <3> QED
      BY <1>1, <2>1, <3>1, <3>2
  <2> QED
    BY <2>1
<1>5. \A j, k \in 1..(L - 1) : At(j) = At(k) => j = k
  BY <1>1
<1> HIDE DEF At
<1>6. Distinct(d)
  BY <1>1, <1>2, <1>3, <1>5 DEF Distinct
<1>7. ASSUME NEW k
      PROVE  /\ In(d, k) <=> In(c, k) /\ k # c.out[i].mid
             /\ StateOf(d, k) = IF k = c.out[i].mid THEN "gone" ELSE StateOf(c, k)
  <2>1. ASSUME In(d, k)
        PROVE  In(c, k) /\ k # c.out[i].mid
    BY <1>1, <1>2, <1>3, <2>1 DEF In, Distinct
  <2>2. ASSUME In(c, k), k # c.out[i].mid
        PROVE  In(d, k) /\ StateOf(d, k) = StateOf(c, k)
    <3>1. PICK j \in DOMAIN c.out : c.out[j].mid = k /\ StateOf(c, k) = c.out[j].state
      BY <2>2, StateAt
    <3>2. PICK m \in 1..(L - 1) : At(m) = j
      BY <1>1, <1>4, <2>2, <3>1
    <3>3. m \in DOMAIN d.out /\ d.out[m] = c.out[j]
      BY <1>2, <3>2
    <3>4. In(d, k) /\ StateOf(d, k) = d.out[m].state
      BY <1>6, <3>1, <3>3, StateAt
    <3> QED
      BY <3>1, <3>3, <3>4
  <2> QED
    BY <1>6, <2>1, <2>2, StateAt
<1>8. \A j \in DOMAIN d.out : \E k \in DOMAIN c.out : d.out[j] = c.out[k]
  BY <1>1, <1>2, <1>3
<1> QED
  BY <1>6, <1>7, <1>8 DEF Loses

\* a message comes
Gains(c, d, e) ==
  /\ Distinct(d)
  /\ \A k : /\ In(d, k) <=> In(c, k) \/ k = e.mid
            /\ StateOf(d, k) = IF k = e.mid THEN e.state ELSE StateOf(c, k)
  /\ \A j \in DOMAIN d.out : d.out[j] = e \/ (j \in DOMAIN c.out /\ d.out[j] = c.out[j])

LEMMA Appended ==
  ASSUME NEW A, NEW c, NEW d, c.out \in Seq(A), Distinct(c), NEW e \in A,
         ~In(c, e.mid), d.out = Append(c.out, e)
  PROVE  Gains(c, d, e)
<1> DEFINE n == Len(c.out) + 1
<1>1. /\ n \in DOMAIN d.out /\ d.out[n] = e /\ n \notin DOMAIN c.out
      /\ \A j \in DOMAIN d.out : j = n \/ j \in DOMAIN c.out
      /\ \A j \in DOMAIN c.out : j \in DOMAIN d.out /\ d.out[j] = c.out[j]
  OBVIOUS
<1> HIDE DEF n
<1>2. \A j \in DOMAIN c.out : c.out[j].mid # e.mid
  BY DEF In
<1>3. Distinct(d)
  BY <1>1, <1>2 DEF Distinct
<1>4. ASSUME NEW k
      PROVE  /\ In(d, k) <=> In(c, k) \/ k = e.mid
             /\ StateOf(d, k) = IF k = e.mid THEN e.state ELSE StateOf(c, k)
  <2>1. In(d, k) <=> In(c, k) \/ k = e.mid
    BY <1>1 DEF In
  <2>2. CASE k = e.mid
    BY <1>1, <1>3, <2>2, StateAt
  <2>3. CASE In(c, k) /\ k # e.mid
    <3>1. PICK j \in DOMAIN c.out : c.out[j].mid = k /\ StateOf(c, k) = c.out[j].state
      BY <2>3, StateAt
    <3>2. j \in DOMAIN d.out /\ d.out[j].mid = k /\ d.out[j].state = c.out[j].state
      BY <1>1, <3>1
    <3>3. StateOf(d, k) = d.out[j].state
      BY <1>3, <3>2, StateAt
    <3> QED
      BY <2>1, <2>3, <3>1, <3>2, <3>3
  <2>4. CASE ~In(c, k) /\ k # e.mid
    BY <1>3, <2>1, <2>4, StateAt
  <2> QED
    BY <2>2, <2>3, <2>4
<1> QED
  BY <1>1, <1>3, <1>4 DEF Gains

LEMMA PositionIs ==
  ASSUME NEW A, NEW q \in Seq(A), NEW k
  PROVE  /\ Position(q, k) = 0 => \A i \in DOMAIN q : q[i].mid # k
         /\ Position(q, k) # 0 => Position(q, k) \in DOMAIN q /\ q[Position(q, k)].mid = k
<1> DEFINE I == {i \in 1..Len(q) : q[i].mid = k}
<1>1. Position(q, k) = IF I # {} THEN Min(I) ELSE 0
  BY DEF Position, SelectInSeq
<1>2. I # {} => Min(I) \in I
  <2>1. ASSUME I # {}
        PROVE  \E n \in I : \A m \in I : n <= m
    <3>1. I \in SUBSET Nat
      OBVIOUS
    <3> HIDE DEF I
    <3> QED
      BY <2>1, <3>1, Least
  <2> QED
    BY <2>1 DEF Min
<1>3. DOMAIN q = 1..Len(q) /\ 0 \notin 1..Len(q)
  OBVIOUS
<1> QED
  BY <1>1, <1>2, <1>3

------------------------------------------------------------------------------
\* Identifiers, messages and sets of identifiers.

LEMMA Assumed ==
  /\ MsgOrder \in Seq(Msg) /\ Range(MsgOrder) = Msg /\ IsInjective(MsgOrder)
  /\ Len(MsgOrder) < 65536 /\ Qos \in [Msg -> 0..2]
  /\ IsFiniteSet(Inbound) /\ InMid \in [Inbound -> Nat] /\ IsInjective(InMid)
  /\ max_inflight_messages \in Nat /\ MaxFaults \in Nat
  /\ \A m \in Msg \cup Inbound : m \notin {"none", "garbage1", "garbage2"}
<1>1. \A m \in Msg \cup Inbound : m \notin {"none", "garbage1", "garbage2"}
  BY ClientLibAssumption
<1> QED
  BY <1>1, ClientLibAssumption

LEMMA Names ==
  /\ N \in Nat /\ N <= 65535
  /\ \A k \in 1..N : Name(k) \in Msg /\ Qos[Name(k)] \in 0..2
  /\ \A j, k \in 1..N : Name(j) = Name(k) => j = k
  /\ \A m \in Msg : \E k \in 1..N : m = Name(k)
  /\ \A m \in Msg \cup Inbound : m \notin {"none", "garbage1", "garbage2"}
<1>1. N \in Nat /\ N <= 65535 /\ DOMAIN MsgOrder = 1..N
  BY Assumed DEF N
<1>2. \A k \in 1..N : Name(k) \in Msg /\ Qos[Name(k)] \in 0..2
  BY <1>1, Assumed DEF Name
<1>3. \A j, k \in 1..N : Name(j) = Name(k) => j = k
  BY <1>1, Assumed DEF Name, IsInjective
<1>4. \A m \in Msg : \E k \in 1..N : m = Name(k)
  BY <1>1, Assumed DEF Name, Range
<1> QED
  BY <1>1, <1>2, <1>3, <1>4, Assumed

LEMMA QueueFacts ==
  ASSUME NEW c \in Mosq, Entries(c)
  PROVE  /\ Distinct(c)
         /\ \A k : In(c, k) => k \in 1..c.last_mid /\ k \in 1..N
         /\ \A k : StateOf(c, k) = "gone" <=> ~In(c, k)
         /\ \A k : StateOf(c, k) \in Status \cup {"gone"}
         /\ \A k : In(c, k) =>
              \/ Qos[Name(k)] = 1 /\ StateOf(c, k) \in {"wait_for_puback", "invalid"}
              \/ Qos[Name(k)] = 2 /\ StateOf(c, k) \in {"wait_for_pubrec", "wait_for_pubcomp", "invalid"}
<1>1. Distinct(c)
  BY DEF Distinct, Entries
<1>2. ASSUME NEW k, In(c, k)
      PROVE  /\ k \in 1..c.last_mid /\ k \in 1..N /\ StateOf(c, k) \in Status
             /\ \/ Qos[Name(k)] = 1 /\ StateOf(c, k) \in {"wait_for_puback", "invalid"}
                \/ Qos[Name(k)] = 2 /\ StateOf(c, k) \in {"wait_for_pubrec", "wait_for_pubcomp", "invalid"}
  <2>1. PICK i \in DOMAIN c.out : c.out[i].mid = k /\ StateOf(c, k) = c.out[i].state
    BY <1>1, <1>2, StateAt
  <2>2. c.out[i] \in Entry
    BY <2>1 DEF Mosq
  <2>3. c.out[i].mid \in 1..N /\ c.out[i].state \in Status
    BY <2>2 DEF Entry, Status, N
  <2>4. c.last_mid \in 0..N
    BY DEF Mosq
  <2> QED
    BY <2>1, <2>3, <2>4, Names DEF Entries
<1>3. \A k : ~In(c, k) => StateOf(c, k) = "gone"
  BY <1>1, StateAt
<1>4. "gone" \notin Status
  BY DEF Status
<1> QED
  BY <1>1, <1>2, <1>3, <1>4

LEMMA EntryAt ==
  ASSUME NEW c \in Mosq, Entries(c), NEW i \in DOMAIN c.out
  PROVE  LET e == c.out[i]
         IN  /\ e \in Entry /\ e.mid \in 1..N /\ e.mid <= c.last_mid /\ e.mid \in 1..c.last_mid
             /\ e.m = Name(e.mid) /\ e.state \in Status
             /\ In(c, e.mid) /\ StateOf(c, e.mid) = e.state
<1> DEFINE e == c.out[i]
<1>1. e \in Entry
  BY DEF Mosq
<1>2. e.mid \in 1..N /\ e.state \in Status
  BY <1>1 DEF Entry, N, Status
<1>3. e.mid <= c.last_mid /\ e.m = Name(e.mid)
  BY DEF Entries
<1>4. e.mid \in 1..c.last_mid
  BY <1>2, <1>3 DEF Mosq
<1>5. In(c, e.mid) /\ StateOf(c, e.mid) = e.state
  BY QueueFacts, StateAt
<1> QED
  BY <1>1, <1>2, <1>3, <1>4, <1>5

LEMMA Sets ==
  ASSUME NEW c, NEW a, NEW n
  PROVE  /\ Committed(c, a, n) \in SUBSET (1..N) /\ Waiting(c) \in SUBSET (1..N)
         /\ IsFiniteSet(Committed(c, a, n)) /\ IsFiniteSet(Waiting(c))
         /\ Cardinality(Committed(c, a, n)) \in Nat /\ Cardinality(Waiting(c)) \in Nat
<1>1. Committed(c, a, n) \in SUBSET (1..N) /\ Waiting(c) \in SUBSET (1..N)
  BY DEF Committed, Waiting
<1>2. IsFiniteSet(1..N)
  BY Names, FS_Interval
<1>3. IsFiniteSet(Committed(c, a, n)) /\ IsFiniteSet(Waiting(c))
  BY <1>1, <1>2, FS_Subset
<1> QED
  BY <1>1, <1>3, FS_CardinalityType

LEMMA Smaller ==
  ASSUME NEW S, NEW T \in SUBSET S, IsFiniteSet(S)
  PROVE  Cardinality(T) <= Cardinality(S) /\ Cardinality(T) \in Nat /\ Cardinality(S) \in Nat
BY FS_Subset, FS_CardinalityType

LEMMA OneMore ==
  ASSUME NEW S, IsFiniteSet(S), NEW x, NEW T \in SUBSET (S \cup {x})
  PROVE  Cardinality(T) <= Cardinality(S) + 1
<1>1. IsFiniteSet(S \cup {x}) /\ Cardinality(S \cup {x}) \in {Cardinality(S), Cardinality(S) + 1}
  BY FS_AddElement
<1>2. Cardinality(T) <= Cardinality(S \cup {x})
  BY <1>1, FS_Subset
<1>3. Cardinality(S) \in Nat /\ Cardinality(T) \in Nat
  BY <1>1, FS_Subset, FS_CardinalityType
<1> QED
  BY <1>1, <1>2, <1>3

LEMMA OneLess ==
  ASSUME NEW S, IsFiniteSet(S), NEW x \in S, NEW T \in SUBSET (S \ {x})
  PROVE  Cardinality(T) <= Cardinality(S) - 1
<1>1. IsFiniteSet(S \ {x}) /\ Cardinality(S \ {x}) = Cardinality(S) - 1
  BY FS_RemoveElement
<1> QED
  BY <1>1, FS_Subset

------------------------------------------------------------------------------
\* What each part of the invariant rests on.

\* What the broker knows is not unlearnt.
Later(b, b2) ==
  /\ \A m \in Msg : b.got[m] > 0 => b2.got[m] > 0
  /\ \A i \in Inbound : b.phase[i] # "idle" => b2.phase[i] # "idle"
  /\ \A i \in Inbound : b.phase[i] \in {"released", "done"} => b2.phase[i] \in {"released", "done"}

LEMMA UpKept ==
  ASSUME NEW q, NEW c, NEW d, NEW b, NEW b2, AllUp(q, c, b), Later(b, b2),
         c.last_mid \in 0..N, d.last_mid \in 0..N, c.last_mid <= d.last_mid,
         \A k \in 1..c.last_mid : In(d, k) => In(c, k)
  PROVE  AllUp(q, d, b2)
<1>1. \A k \in 1..c.last_mid : k \in 1..d.last_mid /\ Name(k) \in Msg
  BY Names
<1> QED
  BY <1>1 DEF AllUp, UpOK, Later

LEMMA DownKept ==
  ASSUME NEW q, NEW c, NEW d, NEW b, NEW b2, AllDown(q, c, b), Later(b, b2),
         c.last_mid \in 0..N, d.last_mid \in 0..N, c.last_mid <= d.last_mid,
         \A k \in 1..c.last_mid : In(d, k) => In(c, k)
  PROVE  AllDown(q, d, b2)
<1>1. \A k \in 1..c.last_mid : k \in 1..d.last_mid /\ Name(k) \in Msg
  BY Names
<1> QED
  BY <1>1 DEF AllDown, DownOK, Later

LEMMA UpAfter ==
  ASSUME NEW P, NEW q \in Seq(P), NEW r \in Seq(P), NEW c, NEW b, AllUp(q, c, b), AllUp(r, c, b)
  PROVE  AllUp(q \o r, c, b)
<1>1. \A i \in DOMAIN (q \o r) : \/ i \in DOMAIN q /\ (q \o r)[i] = q[i]
                                 \/ i - Len(q) \in DOMAIN r /\ (q \o r)[i] = r[i - Len(q)]
  OBVIOUS
<1> QED
  BY <1>1 DEF AllUp

LEMMA DownAfter ==
  ASSUME NEW P, NEW q \in Seq(P), NEW r \in Seq(P), NEW c, NEW b, AllDown(q, c, b), AllDown(r, c, b)
  PROVE  AllDown(q \o r, c, b)
<1>1. \A i \in DOMAIN (q \o r) : \/ i \in DOMAIN q /\ (q \o r)[i] = q[i]
                                 \/ i - Len(q) \in DOMAIN r /\ (q \o r)[i] = r[i - Len(q)]
  OBVIOUS
<1> QED
  BY <1>1 DEF AllDown

LEMMA WindowKept ==
  ASSUME NEW c, NEW a, NEW n, NEW d, NEW a2, NEW n2, Window(c, a, n),
         d.inflight = c.inflight, c.inflight \in Int, Len(a2.todo) = Len(a.todo), Len(a.todo) \in Nat,
         Committed(d, a2, n2) \in SUBSET Committed(c, a, n), Waiting(d) \in SUBSET Waiting(c)
  PROVE  Window(d, a2, n2)
<1>1. Cardinality(Committed(d, a2, n2)) <= Cardinality(Committed(c, a, n))
  BY Sets, Smaller
<1>2. Cardinality(Waiting(d)) <= Cardinality(Waiting(c))
  BY Sets, Smaller
<1>3. /\ Cardinality(Committed(d, a2, n2)) \in Nat /\ Cardinality(Committed(c, a, n)) \in Nat
      /\ Cardinality(Waiting(d)) \in Nat /\ Cardinality(Waiting(c)) \in Nat
  BY Sets
<1> DEFINE x == Cardinality(Committed(c, a, n))
           y == Cardinality(Committed(d, a2, n2))
           w == Cardinality(Waiting(c))
           v == Cardinality(Waiting(d))
<1>4. /\ x <= c.inflight /\ (max_inflight_messages > 0 => x <= max_inflight_messages)
      /\ c.inflight + w + Len(a.todo) <= N + N
  BY DEF Window
<1>5. N + N \in Nat /\ max_inflight_messages \in Nat
  BY Names, Assumed
<1>6. y <= d.inflight /\ (max_inflight_messages > 0 => y <= max_inflight_messages)
  <2> HIDE DEF x, y, w, v
  <2> QED
    BY <1>1, <1>3, <1>4, <1>5 DEF x, y
<1>7. d.inflight + v + Len(a2.todo) <= N + N
  <2> HIDE DEF x, y
  <2> QED
    BY <1>2, <1>3, <1>4, <1>5
<1> QED
  BY <1>6, <1>7 DEF Window

LEMMA AccountKept ==
  ASSUME NEW c, NEW d, NEW a, NEW a2, NEW b, Account(c, a, b), d.last_mid = c.last_mid,
         \A k : (In(d, k) <=> In(c, k)) /\ StateOf(d, k) = StateOf(c, k),
         \A m \in Msg : Qos[m] > 0 => a2.told[m] = a.told[m]
  PROVE  Account(d, a2, b)
BY Names DEF Account

------------------------------------------------------------------------------
\* A step that moves nothing on: packets are lost, or a packet goes that changes nothing.

Fewer(q, r) ==
  \A t, k : /\ Has(q, t, k) => Has(r, t, k)
            /\ \A u : Before(q, t, u, k) => Before(r, t, u, k)

LEMMA FewerFacts ==
  ASSUME NEW P, NEW q \in Seq(P)
  PROVE  /\ Fewer(q, q) /\ Fewer(<<>>, q)
         /\ q # <<>> => Fewer(Tail(q), q)
<1>1. Fewer(<<>>, q)
  BY HasOne DEF Fewer
<1>2. q # <<>> => Fewer(Tail(q), q)
  BY HasHead DEF Fewer
<1> QED
  BY <1>1, <1>2 DEF Fewer

LEMMA AllFewer ==
  ASSUME NEW P, NEW q \in Seq(P), NEW c, NEW b
  PROVE  /\ AllUp(<<>>, c, b) /\ AllDown(<<>>, c, b)
         /\ q # <<>> /\ AllUp(q, c, b) => AllUp(Tail(q), c, b) /\ UpOK(Head(q), c, b)
         /\ q # <<>> /\ AllDown(q, c, b) => AllDown(Tail(q), c, b) /\ DownOK(Head(q), c, b)
<1>1. DOMAIN <<>> = {}
  OBVIOUS
<1>2. q # <<>> => \A i \in DOMAIN Tail(q) : Tail(q)[i] = q[i + 1] /\ i + 1 \in DOMAIN q
  OBVIOUS
<1>3. q # <<>> => Head(q) = q[1] /\ 1 \in DOMAIN q
  OBVIOUS
<1> QED
  BY <1>1, <1>2, <1>3 DEF AllUp, AllDown

\* the client, whose queues hold what they held
SameClient(c, d) ==
  /\ Alike(c, d) /\ DOMAIN d.in = DOMAIN c.in
  /\ \A j \in DOMAIN c.in : d.in[j].m = c.in[j].m /\ d.in[j].mid = c.in[j].mid
  /\ \A i \in DOMAIN c.out : d.out[i].m = c.out[i].m
  /\ d.last_mid = c.last_mid /\ d.inflight = c.inflight

\* its application's thread
SameApp(a, a2) ==
  /\ a2.todo = a.todo /\ a2.handed = a.handed
  /\ (a2.sends = <<>> /\ a2.pc # "send") \/ (a2.sends = a.sends /\ (a2.pc = "send" <=> a.pc = "send"))
  /\ \A m \in Msg : Qos[m] > 0 => a2.told[m] = a.told[m]
  /\ a2.passed = a.passed

SameSeen(s, s2) == s2.redone = s.redone /\ s2.stale = s.stale /\ (s.late => s2.late)
SameBroker(b, b2) == b2.got = b.got /\ b2.stored = b.stored /\ b2.phase = b.phase

LessSent(c, n, d, n2) ==
  /\ Fewer(d.packets, c.packets) /\ Fewer(n2.up, n.up) /\ Fewer(n2.down, n.down)
  /\ \/ d.sock => c.sock
     \/ d.packets = <<>> /\ n2.up = <<>> /\ n2.down = <<>>

LEMMA SameEntries ==
  ASSUME NEW c, NEW d, Entries(c), SameClient(c, d)
  PROVE  Entries(d)
BY DEF Entries, SameClient, Alike

LEMMA SameCalls ==
  ASSUME NEW c, NEW d, NEW a, NEW a2, Calls(c, a), SameClient(c, d), SameApp(a, a2)
  PROVE  Calls(d, a2)
BY DEF Calls, SameClient, SameApp

LEMMA SameSending ==
  ASSUME NEW a, NEW a2, SameApp(a, a2), NEW k, Sending(a2, k)
  PROVE  Sending(a, k)
<1>1. DOMAIN <<>> = {}
  OBVIOUS
<1> QED
  BY <1>1 DEF Sending, SameApp

LEMMA LessCommitted ==
  ASSUME NEW c, NEW d, NEW a, NEW a2, NEW n, NEW n2, Distinct(c),
         SameClient(c, d), SameApp(a, a2), LessSent(c, n, d, n2)
  PROVE  Committed(d, a2, n2) \in SUBSET Committed(c, a, n)
<1>1. \A k : (In(d, k) <=> In(c, k)) /\ StateOf(d, k) = StateOf(c, k)
  BY AlikeStates DEF SameClient
<1>2. ASSUME NEW k, d.sock, Transit(d, n2, k)
      PROVE  c.sock /\ Transit(c, n, k)
  <2>1. Transit(c, n, k)
    BY <1>2 DEF Transit, LessSent, Fewer
  <2>2. c.sock
    BY <1>2, HasOne DEF Transit, LessSent
  <2> QED
    BY <2>1, <2>2
<1> QED
  BY <1>1, <1>2, SameSending DEF Committed

LEMMA LessInwards ==
  ASSUME NEW c, NEW d, NEW a, NEW a2, NEW n, NEW n2, NEW b, NEW b2, NEW s, NEW s2, NEW i \in Inbound,
         Inwards(i, c, a, n, b, s), SameClient(c, d), a2.passed = a.passed, b2.phase = b.phase,
         s2.stale = s.stale, Fewer(n2.down, n.down)
  PROVE  Inwards(i, d, a2, n2, b2, s2)
<1>1. Stored(d, i) <=> Stored(c, i)
  BY DEF Stored, SameClient
<1>2. (\A j, k \in DOMAIN c.in : c.in[j].m = i /\ c.in[k].m = i => j = k) =>
        \A j, k \in DOMAIN d.in : d.in[j].m = i /\ d.in[k].m = i => j = k
  BY DEF SameClient
<1>3. /\ Has(n2.down, "PUBLISH", InMid[i]) => Has(n.down, "PUBLISH", InMid[i])
      /\ Before(n2.down, "PUBREL", "PUBLISH", InMid[i]) => Before(n.down, "PUBREL", "PUBLISH", InMid[i])
  BY DEF Fewer
<1> QED
  BY <1>1, <1>2, <1>3 DEF Inwards

LEMMA LessOrder ==
  ASSUME NEW c, NEW d, NEW n, NEW n2, NEW b, NEW b2, NEW s, NEW s2, Distinct(c),
         Order(c, n, b, s), SameClient(c, d), LessSent(c, n, d, n2), SameBroker(b, b2), SameSeen(s, s2)
  PROVE  Order(d, n2, b2, s2)
<1>1. \A k : (In(d, k) <=> In(c, k)) /\ StateOf(d, k) = StateOf(c, k)
  BY AlikeStates DEF SameClient
<1>2. ASSUME NEW k, Outwards(k, c, n, b, s)
      PROVE  Outwards(k, d, n2, b2, s2)
  <2>1. /\ Has(d.packets, "PUBLISH", k) => Has(c.packets, "PUBLISH", k)
        /\ Has(d.packets, "PUBREL", k) => Has(c.packets, "PUBREL", k)
        /\ Has(n2.up, "PUBLISH", k) => Has(n.up, "PUBLISH", k)
        /\ Has(n2.up, "PUBREL", k) => Has(n.up, "PUBREL", k)
        /\ Has(n2.down, "PUBREC", k) => Has(n.down, "PUBREC", k)
        /\ Has(n2.down, "PUBCOMP", k) => Has(n.down, "PUBCOMP", k)
        /\ Before(d.packets, "PUBREL", "PUBLISH", k) => Before(c.packets, "PUBREL", "PUBLISH", k)
        /\ Before(n2.up, "PUBREL", "PUBLISH", k) => Before(n.up, "PUBREL", "PUBLISH", k)
        /\ Before(n2.down, "PUBCOMP", "PUBREC", k) => Before(n.down, "PUBCOMP", "PUBREC", k)
    BY DEF LessSent, Fewer
  <2>2. \/ d.sock => c.sock
        \/ ~Has(d.packets, "PUBREL", k) /\ ~Has(n2.up, "PUBREL", k) /\ ~Has(n2.down, "PUBCOMP", k)
    BY HasOne DEF LessSent
  <2> QED
    BY <1>1, <1>2, <2>1, <2>2 DEF Outwards, SameBroker, SameSeen
<1> QED
  BY <1>2 DEF Order, SameSeen, SameClient

LEMMA Less ==
  ASSUME NEW c, NEW d, NEW a, NEW a2, NEW n, NEW n2, NEW b, NEW b2, NEW s, NEW s2,
         Good(c, a, n, b, s), Types(d, a2, n2, b2, s2),
         SameClient(c, d), SameApp(a, a2), LessSent(c, n, d, n2), SameBroker(b, b2), SameSeen(s, s2),
         AllUp(d.packets, c, b), AllUp(n2.up, c, b), AllDown(n2.down, c, b),
         b2.met \/ n2.down = <<>>
  PROVE  Good(d, a2, n2, b2, s2)
<1>1. c \in Mosq /\ a \in App /\ n \in Net /\ b \in Broker /\ s \in Seen
  BY DEF Good, Types
<1>2. Distinct(c)
  BY <1>1, QueueFacts DEF Good
<1>3. \A k : (In(d, k) <=> In(c, k)) /\ StateOf(d, k) = StateOf(c, k)
  BY <1>2, AlikeStates DEF SameClient
<1>4. c.last_mid \in 0..N /\ d.last_mid = c.last_mid /\ d.inflight = c.inflight /\ c.inflight \in Int
  BY <1>1 DEF Mosq, SameClient
<1>5. Entries(d) /\ Calls(d, a2)
  BY SameEntries, SameCalls DEF Good
<1>6. Account(d, a2, b)
  BY <1>3, <1>4, AccountKept DEF Good, SameApp
<1>7. Account(d, a2, b2)
  BY <1>6 DEF Account, SameBroker
<1>8. Later(b, b2)
  BY DEF Later, SameBroker
<1>9. AllUp(d.packets, d, b2) /\ AllUp(n2.up, d, b2) /\ AllDown(n2.down, d, b2)
  BY <1>3, <1>4, <1>8, UpKept, DownKept
<1>10. Window(d, a2, n2)
  <2>1. Committed(d, a2, n2) \in SUBSET Committed(c, a, n)
    BY <1>2, LessCommitted
  <2>2. Waiting(d) \in SUBSET Waiting(c)
    BY <1>3 DEF Waiting
  <2>3. a2.todo = a.todo /\ Len(a.todo) \in Nat
    BY <1>1 DEF SameApp, App
  <2> QED
    BY <1>4, <2>1, <2>2, <2>3, WindowKept DEF Good
<1>11. \A i \in Inbound : Inwards(i, d, a2, n2, b2, s2)
  BY LessInwards DEF Good, SameApp, SameBroker, SameSeen, LessSent
<1>12. Order(d, n2, b2, s2)
  BY <1>2, LessOrder DEF Good
<1> QED
  BY <1>5, <1>7, <1>9, <1>10, <1>11, <1>12 DEF Good

------------------------------------------------------------------------------
\* Packets are queued for the broker.

\* what may be queued
Sendable(q, c, a, n, b, s) ==
  /\ q \in Seq(UpPacket) /\ AllUp(q, c, b)
  /\ \A k : Has(q, "PUBLISH", k) \/ Has(q, "PUBREL", k) =>
       c.sock /\ (In(c, k) => k \in Committed(c, a, n))
  /\ s.late \/ \A k \in 1..c.last_mid : Qos[Name(k)] = 2 =>
       /\ Has(q, "PUBLISH", k) => StateOf(c, k) \in {"wait_for_pubrec", "invalid"}
       /\ Has(q, "PUBREL", k) => StateOf(c, k) = "wait_for_pubcomp"

Queued(c, d, q) == SameClient(c, d) /\ d.sock = c.sock /\ d.packets = c.packets \o q

LEMMA QueuedOutwards ==
  ASSUME NEW c \in Mosq, NEW d, NEW a, NEW n, NEW b, NEW s, NEW q, NEW k,
         Distinct(c), Sendable(q, c, a, n, b, s), Queued(c, d, q), Outwards(k, c, n, b, s),
         Has(q, "PUBLISH", k) => StateOf(c, k) \in {"wait_for_pubrec", "invalid"},
         Has(q, "PUBREL", k) => StateOf(c, k) = "wait_for_pubcomp"
  PROVE  Outwards(k, d, n, b, s)
<1>1. (In(d, k) <=> In(c, k)) /\ StateOf(d, k) = StateOf(c, k)
  BY AlikeStates DEF Queued, SameClient
<1>2. StateOf(c, k) \in {"wait_for_pubrec", "invalid"} => In(c, k)
  BY StateAt
<1>3. c.packets \in Seq(UpPacket) /\ q \in Seq(UpPacket)
  BY DEF Mosq, Sendable
<1>4. /\ Has(d.packets, "PUBLISH", k) <=> Has(c.packets, "PUBLISH", k) \/ Has(q, "PUBLISH", k)
      /\ Has(d.packets, "PUBREL", k) <=> Has(c.packets, "PUBREL", k) \/ Has(q, "PUBREL", k)
  BY <1>3, HasAfter DEF Queued
<1>5. Before(d.packets, "PUBREL", "PUBLISH", k) <=>
        \/ Before(c.packets, "PUBREL", "PUBLISH", k) \/ Before(q, "PUBREL", "PUBLISH", k)
        \/ Has(c.packets, "PUBREL", k) /\ Has(q, "PUBLISH", k)
  BY <1>3, BeforeAfter DEF Queued
<1>6. Before(q, "PUBREL", "PUBLISH", k) => Has(q, "PUBREL", k) /\ Has(q, "PUBLISH", k)
  BY DEF Before, Has
<1>7. Has(q, "PUBLISH", k) \/ Has(q, "PUBREL", k) => c.sock
  BY DEF Sendable
<1>8. d.sock = c.sock
  BY DEF Queued
<1> DEFINE st == StateOf(c, k)
<1> HIDE DEF st
<1>9. CASE Has(q, "PUBLISH", k)
  <2>1. /\ In(c, k) /\ StateOf(c, k) \in {"wait_for_pubrec", "invalid"} /\ ~Has(q, "PUBREL", k)
        /\ ~Has(c.packets, "PUBREL", k) /\ ~Has(n.up, "PUBREL", k) /\ ~Has(n.down, "PUBCOMP", k)
    BY <1>2, <1>7, <1>9 DEF Outwards
  <2>2. Name(k) \notin s.redone => ~(b.got[Name(k)] = 1 /\ k \notin b.stored)
    BY <2>1 DEF Outwards
  <2>3. ~Before(d.packets, "PUBREL", "PUBLISH", k) /\ ~Has(d.packets, "PUBREL", k)
    BY <1>4, <1>5, <1>6, <2>1 DEF Outwards
  <2> QED
    BY <1>1, <1>8, <2>1, <2>2, <2>3 DEF Outwards
<1>10. CASE ~Has(q, "PUBLISH", k) /\ Has(q, "PUBREL", k)
  <2>1. /\ Has(d.packets, "PUBLISH", k) <=> Has(c.packets, "PUBLISH", k)
        /\ StateOf(d, k) = "wait_for_pubcomp"
        /\ ~Before(d.packets, "PUBREL", "PUBLISH", k)
    BY <1>1, <1>4, <1>5, <1>6, <1>10 DEF Outwards
  <2> QED
    BY <1>1, <1>8, <2>1 DEF Outwards
<1>11. CASE ~Has(q, "PUBLISH", k) /\ ~Has(q, "PUBREL", k)
  <2>1. /\ Has(d.packets, "PUBLISH", k) <=> Has(c.packets, "PUBLISH", k)
        /\ Has(d.packets, "PUBREL", k) <=> Has(c.packets, "PUBREL", k)
        /\ ~Before(d.packets, "PUBREL", "PUBLISH", k)
    BY <1>4, <1>5, <1>6, <1>11 DEF Outwards
  <2> QED
    BY <1>1, <1>8, <2>1 DEF Outwards
<1> QED
  BY <1>9, <1>10, <1>11

LEMMA QueueKeeps ==
  ASSUME NEW c, NEW d, NEW a, NEW n, NEW b, NEW s, NEW q,
         Good(c, a, n, b, s), d \in Mosq, Sendable(q, c, a, n, b, s), Queued(c, d, q)
  PROVE  Good(d, a, n, b, s)
<1>1. c \in Mosq /\ a \in App /\ n \in Net /\ b \in Broker /\ s \in Seen
  BY DEF Good, Types
<1>2. Distinct(c) /\ Entries(c)
  BY <1>1, QueueFacts DEF Good
<1>3. \A k : (In(d, k) <=> In(c, k)) /\ StateOf(d, k) = StateOf(c, k)
  BY <1>2, AlikeStates DEF Queued, SameClient
<1>4. c.last_mid \in 0..N /\ d.last_mid = c.last_mid /\ d.inflight = c.inflight /\ c.inflight \in Int
  BY <1>1 DEF Mosq, Queued, SameClient
<1>5. Entries(d)
  BY <1>2, SameEntries DEF Queued
<1>6. Calls(d, a)
  BY <1>4 DEF Good, Calls
<1>7. Account(d, a, b)
  BY <1>3, <1>4, AccountKept DEF Good
<1>8. Later(b, b)
  BY DEF Later
<1>9. AllUp(d.packets, c, b)
  <2>1. c.packets \in Seq(UpPacket) /\ q \in Seq(UpPacket) /\ AllUp(q, c, b) /\ AllUp(c.packets, c, b)
    BY <1>1 DEF Mosq, Sendable, Good
  <2> QED
    BY <2>1, UpAfter DEF Queued
<1>10. AllUp(d.packets, d, b) /\ AllUp(n.up, d, b) /\ AllDown(n.down, d, b)
  BY <1>3, <1>4, <1>8, <1>9, UpKept, DownKept DEF Good
<1>11. Window(d, a, n)
  <2>1. ASSUME NEW k, k \in Committed(d, a, n)
        PROVE  k \in Committed(c, a, n)
    <3>1. CASE Has(q, "PUBLISH", k) \/ Has(q, "PUBREL", k)
      BY <1>3, <2>1, <3>1 DEF Sendable, Committed
    <3>2. CASE ~(Has(q, "PUBLISH", k) \/ Has(q, "PUBREL", k))
      <4>1. c.packets \in Seq(UpPacket) /\ q \in Seq(UpPacket)
        BY <1>1 DEF Mosq, Sendable
      <4>2. \A t \in {"PUBLISH", "PUBREL"} : Has(d.packets, t, k) => Has(c.packets, t, k)
        BY <3>2, <4>1, HasAfter DEF Queued
      <4>3. Transit(d, n, k) => Transit(c, n, k)
        BY <4>2 DEF Transit
      <4> QED
        BY <1>3, <2>1, <4>3 DEF Committed, Queued
    <3> QED
      BY <3>1, <3>2
  <2>2. Waiting(d) \in SUBSET Waiting(c)
    BY <1>3 DEF Waiting
  <2>3. Len(a.todo) \in Nat
    BY <1>1 DEF App
  <2> QED
    BY <1>4, <2>1, <2>2, <2>3, WindowKept DEF Good
<1>12. \A i \in Inbound : Inwards(i, d, a, n, b, s)
  <2>1. n.down \in Seq(DownPacket)
    BY <1>1 DEF Net
  <2>2. Fewer(n.down, n.down)
    BY <2>1, FewerFacts
  <2> QED
    BY <2>2, LessInwards DEF Good, Queued
<1>13. Order(d, n, b, s)
  <2>1. CASE s.late
    BY <2>1 DEF Order
  <2>2. CASE ~s.late
    <3>1. ASSUME NEW k \in 1..c.last_mid, Qos[Name(k)] = 2
          PROVE  Outwards(k, d, n, b, s)
      <4>1. Outwards(k, c, n, b, s)
        BY <2>2, <3>1 DEF Good, Order
      <4>2. /\ Has(q, "PUBLISH", k) => StateOf(c, k) \in {"wait_for_pubrec", "invalid"}
            /\ Has(q, "PUBREL", k) => StateOf(c, k) = "wait_for_pubcomp"
        BY <2>2, <3>1 DEF Sendable
      <4> QED
        BY <1>1, <1>2, <4>1, <4>2, QueuedOutwards
    <3> QED
      BY <1>4, <3>1 DEF Order
  <2> QED
    BY <2>1, <2>2
<1> QED
  BY <1>1, <1>5, <1>6, <1>7, <1>10, <1>11, <1>12, <1>13 DEF Good, Types

\* one packet
LEMMA PacketKeeps ==
  ASSUME NEW c, NEW a, NEW n, NEW b, NEW s, NEW p \in UpPacket,
         Good(c, a, n, b, s), UpOK(p, c, b),
         p.t \in {"PUBLISH", "PUBREL"} => c.sock /\ (In(c, p.mid) => p.mid \in Committed(c, a, n)),
         ~s.late /\ p.t \in {"PUBLISH", "PUBREL"} /\ Qos[Name(p.mid)] = 2 =>
           /\ p.t = "PUBLISH" => StateOf(c, p.mid) \in {"wait_for_pubrec", "invalid"}
           /\ p.t = "PUBREL" => StateOf(c, p.mid) = "wait_for_pubcomp"
  PROVE  Good(PacketQueue(c, p), a, n, b, s)
<1> DEFINE d == PacketQueue(c, p)
<1>1. c \in Mosq /\ c.packets \in Seq(UpPacket)
  BY DEF Good, Types, Mosq
<1>2. d \in Mosq /\ Queued(c, d, <<p>>)
  <2>1. d = [c EXCEPT !.packets = Append(c.packets, p)]
    BY DEF PacketQueue
  <2>2. Append(c.packets, p) = c.packets \o <<p>> /\ Append(c.packets, p) \in Seq(UpPacket)
    BY <1>1
  <2>3. d \in Mosq
    BY <1>1, <2>1, <2>2 DEF Mosq
  <2>4. /\ d.packets = Append(c.packets, p) /\ d.sock = c.sock /\ d.out = c.out /\ d.in = c.in
        /\ d.last_mid = c.last_mid /\ d.inflight = c.inflight
    BY <1>1, <2>1 DEF Mosq
  <2> QED
    BY <2>2, <2>3, <2>4 DEF Queued, SameClient, Alike
<1>3. Sendable(<<p>>, c, a, n, b, s)
  <2>1. <<p>> \in Seq(UpPacket)
    OBVIOUS
  <2>2. AllUp(<<p>>, c, b)
    <3>1. DOMAIN <<p>> = {1} /\ <<p>>[1] = p
      OBVIOUS
    <3> QED
      BY <3>1 DEF AllUp
  <2>3. \A t, k : Has(<<p>>, t, k) <=> p.t = t /\ p.mid = k
    BY HasOne
  <2> QED
    BY <2>1, <2>2, <2>3 DEF Sendable
<1> QED
  BY <1>2, <1>3, QueueKeeps

------------------------------------------------------------------------------
\* A message gets another state.

Restated(c, d, i, state) ==
  /\ i \in DOMAIN c.out /\ DOMAIN d.out = DOMAIN c.out
  /\ d.out[i].mid = c.out[i].mid /\ d.out[i].m = c.out[i].m /\ d.out[i].state = state
  /\ \A j \in DOMAIN c.out : j # i => d.out[j] = c.out[j]
  /\ d.packets = c.packets /\ d.in = c.in /\ d.last_mid = c.last_mid /\ d.sock = c.sock

\* because there is room for it
Admitted(c, d, i, state) ==
  /\ c.out[i].state = "invalid" /\ state = FirstState(Qos[c.out[i].m])
  /\ Room(c) /\ d.inflight = c.inflight + 1

\* because the broker has it
Received(c, d, i, state, a, n, b) ==
  /\ state = "wait_for_pubcomp" /\ Qos[c.out[i].m] = 2 /\ b.got[c.out[i].m] > 0
  /\ d.inflight = c.inflight /\ c.out[i].mid \in Committed(c, a, n)

LEMMA RestatedWindow ==
  ASSUME NEW c \in Mosq, NEW d, NEW a \in App, NEW n, NEW b, NEW i, NEW state,
         Entries(c), Window(c, a, n), Restated(c, d, i, state),
         Admitted(c, d, i, state) \/ Received(c, d, i, state, a, n, b)
  PROVE  Window(d, a, n)
<1> DEFINE k == c.out[i].mid
           x == Cardinality(Committed(c, a, n))
           y == Cardinality(Committed(d, a, n))
           w == Cardinality(Waiting(c))
           v == Cardinality(Waiting(d))
<1>1. Distinct(c) /\ In(c, k) /\ k \in 1..N /\ StateOf(c, k) = c.out[i].state
  BY QueueFacts, StateAt DEF Restated
<1>2. \A j : (In(d, j) <=> In(c, j)) /\ StateOf(d, j) = IF j = k THEN state ELSE StateOf(c, j)
  <2>1. Distinct(c)
    BY <1>1
  <2> QED
    BY <2>1, StateSet DEF Restated
<1>3. \A j : Transit(d, n, j) <=> Transit(c, n, j)
  BY DEF Transit, Restated
<1>4. d.sock = c.sock /\ c.inflight \in Int /\ Len(a.todo) \in Nat
  BY DEF Restated, Mosq, App
<1>5. state # "invalid"
  BY DEF Admitted, Received, FirstState
<1>6. Committed(d, a, n) \in SUBSET (Committed(c, a, n) \cup {k})
  BY <1>2, <1>3, <1>4 DEF Committed
<1>7. Waiting(d) \in SUBSET Waiting(c) /\ k \notin Waiting(d)
  BY <1>1, <1>2, <1>5 DEF Waiting
<1>8. x \in Nat /\ y \in Nat /\ w \in Nat /\ v \in Nat
  BY Sets
<1>9. /\ x <= c.inflight /\ (max_inflight_messages > 0 => x <= max_inflight_messages)
      /\ c.inflight + w + Len(a.todo) <= N + N
  BY DEF Window
<1>10. N + N \in Nat /\ max_inflight_messages \in Nat
  BY Names, Assumed
<1>11. CASE Admitted(c, d, i, state)
  <2>1. y <= x + 1
    BY <1>6, Sets, OneMore
  <2>2. v <= w - 1
    <3>1. k \in Waiting(c)
      BY <1>1, <1>11 DEF Waiting, Admitted
    <3>2. Waiting(d) \in SUBSET (Waiting(c) \ {k})
      BY <1>7
    <3> QED
      BY <3>1, <3>2, Sets, OneLess
  <2>3. d.inflight = c.inflight + 1 /\ (max_inflight_messages = 0 \/ c.inflight < max_inflight_messages)
    BY <1>11 DEF Admitted, Room
  <2>4. y <= d.inflight /\ (max_inflight_messages > 0 => y <= max_inflight_messages)
    <3> HIDE DEF x, y, w, v
    <3> QED
      BY <1>4, <1>8, <1>9, <1>10, <2>1, <2>3
  <2>5. d.inflight + v + Len(a.todo) <= N + N
    <3> HIDE DEF x, y, w, v
    <3> QED
      BY <1>4, <1>8, <1>9, <1>10, <2>2, <2>3
  <2> QED
    BY <2>4, <2>5 DEF Window
<1>12. CASE Received(c, d, i, state, a, n, b)
  <2>1. Committed(d, a, n) \in SUBSET Committed(c, a, n)
    BY <1>6, <1>12 DEF Received
  <2> QED
    BY <1>4, <1>7, <1>12, <2>1, WindowKept DEF Received
<1> QED
  BY <1>11, <1>12

LEMMA RestatedOutwards ==
  ASSUME NEW c, NEW d, NEW n, NEW b, NEW s, NEW i, NEW state, NEW k,
         Distinct(c), Restated(c, d, i, state), Outwards(k, c, n, b, s),
         \/ state = "wait_for_pubcomp"
         \/ c.out[i].state = "invalid" /\ state = "wait_for_pubrec"
         \/ k # c.out[i].mid
  PROVE  Outwards(k, d, n, b, s)
<1>1. /\ In(d, k) <=> In(c, k)
      /\ StateOf(d, k) = IF k = c.out[i].mid THEN state ELSE StateOf(c, k)
  <2>1. /\ i \in DOMAIN c.out /\ DOMAIN d.out = DOMAIN c.out /\ d.out[i].state = state
        /\ \A j \in DOMAIN c.out : d.out[j].mid = c.out[j].mid
        /\ \A j \in DOMAIN c.out : j # i => d.out[j].state = c.out[j].state
    BY DEF Restated
  <2> QED
    BY <2>1, StateSet
<1>2. d.packets = c.packets /\ d.sock = c.sock
  BY DEF Restated
<1>3. StateOf(c, c.out[i].mid) = c.out[i].state
  BY StateAt DEF Restated
<1>4. CASE k # c.out[i].mid
  BY <1>1, <1>2, <1>4 DEF Outwards
<1>5. CASE k = c.out[i].mid /\ state = "wait_for_pubcomp"
  BY <1>1, <1>2, <1>5 DEF Outwards
<1>6. CASE k = c.out[i].mid /\ c.out[i].state = "invalid" /\ state = "wait_for_pubrec"
  <2>1. StateOf(c, k) = "invalid" /\ StateOf(d, k) = "wait_for_pubrec"
    BY <1>1, <1>3, <1>6
  <2> QED
    BY <1>1, <1>2, <2>1 DEF Outwards
<1> QED
  BY <1>4, <1>5, <1>6

LEMMA RestateKeeps ==
  ASSUME NEW c, NEW d, NEW a, NEW n, NEW b, NEW s, NEW i, NEW state,
         Good(c, a, n, b, s), d \in Mosq, Restated(c, d, i, state),
         Admitted(c, d, i, state) \/ Received(c, d, i, state, a, n, b)
  PROVE  Good(d, a, n, b, s)
<1> DEFINE k == c.out[i].mid
<1>1. c \in Mosq /\ a \in App /\ n \in Net /\ b \in Broker /\ s \in Seen
  BY DEF Good, Types
<1>2. /\ Distinct(c) /\ Entries(c) /\ In(c, k) /\ k \in 1..N /\ StateOf(c, k) = c.out[i].state
      /\ i \in DOMAIN c.out /\ c.out[i].m = Name(k)
  BY <1>1, QueueFacts, StateAt DEF Good, Restated, Entries
<1>3. \A j : (In(d, j) <=> In(c, j)) /\ StateOf(d, j) = IF j = k THEN state ELSE StateOf(c, j)
  BY <1>2, StateSet DEF Restated
<1>4. c.last_mid \in 0..N /\ d.last_mid = c.last_mid
  BY <1>1 DEF Mosq, Restated
<1>5. \/ Qos[Name(k)] = 1 /\ state = "wait_for_puback"
      \/ Qos[Name(k)] = 2 /\ state \in {"wait_for_pubrec", "wait_for_pubcomp"}
  BY <1>1, <1>2, QueueFacts DEF Admitted, Received, FirstState
<1>6. Entries(d)
  <2>1. \A j, m \in DOMAIN d.out : d.out[j].mid = d.out[m].mid => j = m
    BY <1>2, StateSet DEF Restated, Distinct
  <2>2. ASSUME NEW j \in DOMAIN d.out
        PROVE  /\ d.out[j].mid <= d.last_mid /\ d.out[j].m = Name(d.out[j].mid)
               /\ \/ Qos[d.out[j].m] = 1 /\ d.out[j].state \in {"wait_for_puback", "invalid"}
                  \/ Qos[d.out[j].m] = 2 /\ d.out[j].state \in {"wait_for_pubrec", "wait_for_pubcomp", "invalid"}
    <3>1. CASE j = i
      BY <1>2, <1>4, <1>5, <3>1 DEF Restated, Entries
    <3>2. CASE j # i
      BY <1>2, <1>4, <3>2 DEF Restated, Entries
    <3> QED
      BY <3>1, <3>2
  <2>3. \A j \in DOMAIN d.in : d.in[j].mid = InMid[d.in[j].m]
    BY <1>2 DEF Entries, Restated
  <2> QED
    BY <2>1, <2>2, <2>3 DEF Entries
<1>7. Calls(d, a)
  BY <1>4 DEF Good, Calls
<1>8. Account(d, a, b)
  <2>1. state = "wait_for_pubcomp" => b.got[Name(k)] > 0
    BY <1>2 DEF Admitted, Received, FirstState
  <2> QED
    BY <1>3, <1>4, <2>1 DEF Good, Account
<1>9. Later(b, b)
  BY DEF Later
<1>10. AllUp(d.packets, d, b) /\ AllUp(n.up, d, b) /\ AllDown(n.down, d, b)
  <2>1. d.packets = c.packets
    BY DEF Restated
  <2> QED
    BY <1>3, <1>4, <1>9, <2>1, UpKept, DownKept DEF Good
<1>11. Window(d, a, n)
  BY <1>1, <1>2, RestatedWindow DEF Good
<1>12. \A j \in Inbound : Inwards(j, d, a, n, b, s)
  <2>1. d.in = c.in
    BY DEF Restated
  <2> QED
    BY <2>1 DEF Good, Inwards, Stored
<1>13. Order(d, n, b, s)
  <2>1. ASSUME NEW j \in 1..c.last_mid, Qos[Name(j)] = 2, Outwards(j, c, n, b, s)
        PROVE  Outwards(j, d, n, b, s)
    <3>1. \/ state = "wait_for_pubcomp"
          \/ c.out[i].state = "invalid" /\ state = "wait_for_pubrec"
          \/ j # k
      BY <1>5, <2>1 DEF Admitted, Received
    <3> QED
      BY <1>2, <2>1, <3>1, RestatedOutwards
  <2> QED
    BY <1>4, <2>1 DEF Good, Order
<1> QED
  BY <1>1, <1>6, <1>7, <1>8, <1>10, <1>11, <1>12, <1>13 DEF Good, Types

------------------------------------------------------------------------------
\* Messages are sent, as far as there is room.

LEMMA SendPublishKeeps ==
  ASSUME NEW c, NEW a, NEW n, NEW b, NEW s, NEW e, Good(c, a, n, b, s),
         e.mid \in 1..c.last_mid,
         \/ e.m = Name(e.mid)
         \/ Qos[Name(e.mid)] > 0 /\ e.m = Garbage(Qos[Name(e.mid)]) /\ ~In(c, e.mid),
         In(c, e.mid) => e.mid \in Committed(c, a, n),
         ~s.late /\ Qos[Name(e.mid)] = 2 => StateOf(c, e.mid) \in {"wait_for_pubrec", "invalid"}
  PROVE  Good(SendPublish(c, e), a, n, b, s)
<1> DEFINE p == Packet("PUBLISH", e.mid, e.m)
<1>1. p.t = "PUBLISH" /\ p.mid = e.mid /\ p.m = e.m
  BY DEF Packet
<1>2. e.mid \in 1..N /\ e.mid \in Nat
  <2>1. c.last_mid \in 0..N
    BY DEF Good, Types, Mosq
  <2> QED
    BY <2>1, Names
<1>3. e.m \in Payload
  BY <1>2, Names DEF Payload, Garbage
<1>4. p \in UpPacket
  BY <1>2, <1>3 DEF Packet, UpPacket, UpTypes
<1>5. UpOK(p, c, b)
  BY <1>1 DEF UpOK
<1> HIDE DEF p
<1>6. c.sock => Good(PacketQueue(c, p), a, n, b, s)
  BY <1>1, <1>4, <1>5, PacketKeeps
<1> QED
  BY <1>6 DEF SendPublish, p

WithOut(c, o, f) == [c EXCEPT !.out = o, !.inflight = f]

LEMMA OutSet ==
  ASSUME NEW c \in Mosq, NEW o \in Seq(Entry), NEW f \in Int, NEW d, d = WithOut(c, o, f)
  PROVE  /\ d \in Mosq /\ d.out = o /\ d.inflight = f /\ d.packets = c.packets
         /\ d.in = c.in /\ d.last_mid = c.last_mid /\ d.sock = c.sock
BY DEF Mosq, WithOut

LEMMA SendNextKeeps ==
  ASSUME NEW c, NEW a, NEW n, NEW b, NEW s, NEW i \in DOMAIN c.out, Good(c, a, n, b, s)
  PROVE  Good(SendNext(c, i), a, n, b, s) /\ DOMAIN SendNext(c, i).out = DOMAIN c.out
<1> DEFINE e == c.out[i]
           st == FirstState(Qos[e.m])
           r == [e EXCEPT !.state = st]
           o == [c.out EXCEPT ![i] = r]
           d == WithOut(c, o, c.inflight + 1)
<1>1. CASE Room(c) /\ e.state = "invalid"
  <2>1. c \in Mosq /\ Entries(c) /\ c.out \in Seq(Entry) /\ e \in Entry /\ c.inflight \in Int
    BY DEF Good, Types, Mosq
  <2>2. e.mid \in 1..N /\ e.mid <= c.last_mid /\ e.m = Name(e.mid) /\ Qos[e.m] \in {1, 2} /\ e.state \in Status
    BY <2>1 DEF Entries, Entry, N, Status
  <2>3. r \in Entry /\ r.mid = e.mid /\ r.m = e.m /\ r.state = st
    BY <2>1 DEF Entry, FirstState
  <2>4. o \in Seq(Entry) /\ DOMAIN o = DOMAIN c.out /\ o[i] = r /\ \A j \in DOMAIN c.out : j # i => o[j] = c.out[j]
    <3> HIDE DEF r
    <3> QED
      BY <2>1, <2>3
  <2>5. /\ d \in Mosq /\ d.out = o /\ d.inflight = c.inflight + 1 /\ d.packets = c.packets
        /\ d.in = c.in /\ d.last_mid = c.last_mid /\ d.sock = c.sock
    <3>1. c.inflight + 1 \in Int /\ o \in Seq(Entry)
      BY <2>1, <2>4
    <3> DEFINE f == c.inflight + 1
    <3>2. f \in Int /\ f = c.inflight + 1 /\ d = WithOut(c, o, f)
      BY <3>1
    <3> HIDE DEF o, d, f
    <3>3. /\ d \in Mosq /\ d.out = o /\ d.inflight = f /\ d.packets = c.packets
          /\ d.in = c.in /\ d.last_mid = c.last_mid /\ d.sock = c.sock
      <4>1. c \in Mosq
        BY <2>1
      <4>2. o \in Seq(Entry)
        BY <3>1
      <4>3. f \in Int
        BY <3>2
      <4>4. d = WithOut(c, o, f)
        BY <3>2
      <4>5. d \in Mosq
        BY ONLY <4>1, <4>2, <4>3, <4>4, OutSet
      <4>6. d.out = o
        BY ONLY <4>1, <4>2, <4>3, <4>4, OutSet
      <4>7. /\ d.inflight = f /\ d.packets = c.packets
            /\ d.in = c.in /\ d.last_mid = c.last_mid /\ d.sock = c.sock
        BY ONLY <4>1, <4>2, <4>3, <4>4, OutSet
      <4> QED
        BY <4>5, <4>6, <4>7
    <3> QED
      BY <3>2, <3>3
  <2>6. SendNext(c, i) = SendPublish(d, e)
    <3>1. SetState(c, i, st) = [c EXCEPT !.out = o]
      BY DEF SetState
    <3>2. [SetState(c, i, st) EXCEPT !.inflight = @ + 1] = d
      BY <2>1, <3>1 DEF Mosq, WithOut
    <3> QED
      BY <1>1, <3>2 DEF SendNext
  <2> HIDE DEF r, o, d
  <2>7. Restated(c, d, i, st) /\ Admitted(c, d, i, st)
    BY <1>1, <2>3, <2>4, <2>5 DEF Restated, Admitted
  <2>8. Good(d, a, n, b, s)
    BY <2>5, <2>7, RestateKeeps
  <2>9. In(d, e.mid) /\ StateOf(d, e.mid) = st
    <3>1. Distinct(d)
      BY <2>5, <2>8, QueueFacts DEF Good
    <3> QED
      BY <2>3, <2>4, <2>5, <3>1, StateAt
  <2>10. e.mid \in Committed(d, a, n)
    BY <2>2, <2>9 DEF Committed, FirstState
  <2>11. Qos[Name(e.mid)] = 2 => st = "wait_for_pubrec"
    BY <2>2 DEF FirstState
  <2>12. e.mid \in 1..d.last_mid
    BY <2>1, <2>2, <2>5 DEF Mosq
  <2>13. Good(SendPublish(d, e), a, n, b, s)
    BY <2>2, <2>8, <2>9, <2>10, <2>11, <2>12, SendPublishKeeps
  <2>14. SendPublish(d, e).out = d.out
    BY <2>5 DEF SendPublish, PacketQueue, Mosq
  <2> QED
    BY <2>4, <2>5, <2>6, <2>13, <2>14
<1>2. CASE ~(Room(c) /\ e.state = "invalid")
  BY <1>2 DEF SendNext
<1> QED
  BY <1>1, <1>2

\* The loop keeps what its step keeps (J[i] is what holds after the i-th message).
LEMMA EachSend ==
  ASSUME NEW s \in Seq(Nat), NEW d, NEW J, d \in J[0], NEW D,
         \A i \in 0..Len(s) : J[i] \subseteq D,
         \A i \in 1..Len(s) : \A x \in J[i - 1] : SendNext(x, s[i]) \in J[i]
  PROVE  Each(SendNext, d, s) \in J[Len(s)]
<1> DEFINE n == Len(s)
           F == [p \in (1..n) \X D |-> SendNext(p[2], s[p[1]])]
           P(h) == h = [i \in 0..n |-> IF i = 0 THEN d ELSE SendNext(h[i - 1], s[i])]
           f == CHOOSE h : P(h)
<1>1. Each(SendNext, d, s) = f[n]
  BY DEF Each
<1>2. n \in Nat /\ n \in 0..n /\ \A i \in 1..n : i \in 0..n /\ i - 1 \in 0..n /\ i # 0
  OBVIOUS
<1>3. \A i \in 1..n : \A x \in J[i - 1] : F[<<i, x>>] = SendNext(x, s[i])
  <2>1. ASSUME NEW i \in 1..n, NEW x \in J[i - 1]
        PROVE  F[<<i, x>>] = SendNext(x, s[i])
    <3>1. x \in D
      BY <1>2
    <3> HIDE DEF n
    <3>2. <<i, x>> \in (1..n) \X D
      BY <3>1
    <3> QED
      BY <3>2
  <2> QED
    BY <2>1
<1>4. \A i \in 1..n : \A x \in J[i - 1] : F[<<i, x>>] \in J[i]
  BY <1>3
<1> HIDE DEF F
<1>5. PICK g : Loop(g, n, d, F) /\ \A i \in 0..n : g[i] \in J[i]
  <2> HIDE DEF P, f, n
  <2>1. n \in Nat /\ d \in J[0]
    BY <1>2
  <2> QED
    BY ONLY <1>4, <2>1, LoopExists
<1>6. P(g)
  <2>1. \A i \in 0..n : i # 0 => i \in 1..n
    BY <1>2
  <2> QED
    BY <1>2, <1>3, <1>5, <2>1 DEF Loop
<1>7. P(f)
  BY <1>6
<1> HIDE DEF f
<1>8. f[0] = d /\ \A i \in 1..n : f[i] = SendNext(f[i - 1], s[i])
  BY <1>2, <1>7
<1> HIDE DEF P
<1>9. \A i \in 0..n : f[i] \in J[i]
  BY <1>2, <1>8, LoopKeeps
<1> QED
  BY <1>1, <1>2, <1>9

LEMMA PromoteKeeps ==
  ASSUME NEW c, NEW a, NEW n, NEW b, NEW s, Good(c, a, n, b, s)
  PROVE  Good(Promote(c), a, n, b, s)
<1> DEFINE L == Len(c.out)
           q == [i \in DOMAIN c.out |-> i]
           G == {x \in Mosq : Good(x, a, n, b, s) /\ DOMAIN x.out = DOMAIN c.out}
           J == [i \in 0..L |-> G]
<1>1. c \in Mosq /\ c.out \in Seq(Entry)
  BY DEF Good, Types, Mosq
<1>2. q \in Seq(Nat) /\ Len(q) = L /\ L \in Nat /\ DOMAIN c.out = 1..L /\ \A i \in 1..L : q[i] = i
  BY <1>1
<1>3. \A i \in 1..L : i - 1 \in 0..L /\ i \in 0..L
  BY <1>2
<1>4. 0 \in 0..L /\ L \in 0..L
  BY <1>2
<1> HIDE DEF q, L
<1>5. c \in J[0]
  BY <1>1, <1>4
<1>6. \A i \in 0..L : J[i] \subseteq Mosq
  OBVIOUS
<1>7. \A i \in 1..L : \A x \in J[i - 1] : SendNext(x, q[i]) \in J[i]
  <2>1. ASSUME NEW i \in 1..L, NEW x \in G
        PROVE  SendNext(x, i) \in G
    <3>1. Good(SendNext(x, i), a, n, b, s) /\ DOMAIN SendNext(x, i).out = DOMAIN c.out
      BY <1>2, <2>1, SendNextKeeps
    <3> QED
      BY <3>1 DEF Good, Types
  <2> QED
    BY <1>2, <1>3, <2>1
<1> HIDE DEF J
<1>8. Each(SendNext, c, q) \in J[L]
  BY <1>2, <1>5, <1>6, <1>7, EachSend
<1> QED
  BY <1>4, <1>8 DEF Promote, q, J

------------------------------------------------------------------------------
\* Packets from the broker.

\* A packet of type t and identifier k is the next one that the client reads.
Reads(n, t, k) == n.down # <<>> /\ Head(n.down).t = t /\ Head(n.down).mid = k

LEMMA ReadHas ==
  ASSUME NEW n \in Net, NEW t, NEW k, Reads(n, t, k)
  PROVE  Has(n.down, t, k)
<1>1. n.down \in Seq(DownPacket)
  BY DEF Net
<1> QED
  BY <1>1, HasHead DEF Reads

LEMMA ReadOK ==
  ASSUME NEW c, NEW a, NEW n, NEW b, NEW s, Good(c, a, n, b, s), n.down # <<>>
  PROVE  DownOK(Head(n.down), c, b) /\ Head(n.down) \in DownPacket /\ n.down \in Seq(DownPacket)
<1>1. n.down \in Seq(DownPacket)
  BY DEF Good, Types, Net
<1>2. AllDown(n.down, c, b)
  BY DEF Good
<1> QED
  BY <1>1, <1>2, AllFewer

\* PUBREC of a message that is in the queue
LEMMA PubrecKeeps ==
  ASSUME NEW c, NEW a, NEW n, NEW b, NEW s, NEW k, Good(c, a, n, b, s), c.sock,
         Reads(n, "PUBREC", k), Position(c.out, k) # 0
  PROVE  LET h == HandlePubrec(c, k)
         IN  Good(h.c, a, n, b, s) /\ h.rc = "success" /\ h.told = Quiet /\ h.passed = Quiet
<1> DEFINE i == Position(c.out, k)
           e == [c.out[i] EXCEPT !.state = "wait_for_pubcomp", !.due = FALSE]
           o == [c.out EXCEPT ![i] = e]
           d == [c EXCEPT !.out = o]
           p == Packet("PUBREL", k, "none")
<1>1. c \in Mosq /\ Entries(c) /\ c.out \in Seq(Entry) /\ c.inflight \in Int /\ n \in Net
  BY DEF Good, Types, Mosq
<1>2. i \in DOMAIN c.out /\ c.out[i].mid = k
  BY <1>1, PositionIs
<1>3. c.out[i] \in Entry /\ c.out[i].m = Name(k) /\ k <= c.last_mid /\ k \in 1..N
  BY <1>1, <1>2, EntryAt
<1>4. Distinct(c) /\ In(c, k)
  BY <1>1, <1>2, QueueFacts DEF In
<1>5. Qos[Name(k)] = 2 /\ b.got[Name(k)] > 0
  BY <1>4, ReadOK DEF Reads, DownOK
<1>6. k \in Committed(c, a, n)
  BY <1>1, <1>3, <1>4, ReadHas DEF Committed, Transit
<1>7. e \in Entry /\ e.mid = k /\ e.m = c.out[i].m /\ e.state = "wait_for_pubcomp"
  BY <1>2, <1>3 DEF Entry
<1> HIDE DEF i, e
<1>8. o \in Seq(Entry) /\ DOMAIN o = DOMAIN c.out /\ o[i] = e /\ \A j \in DOMAIN c.out : j # i => o[j] = c.out[j]
  BY <1>1, <1>2, <1>7
<1>9. d = WithOut(c, o, c.inflight)
  <2> HIDE DEF o
  <2> QED
    BY <1>1 DEF Mosq, WithOut
<1> HIDE DEF o, d
<1>10. c \in Mosq
  BY <1>1
<1>11. o \in Seq(Entry)
  BY <1>8
<1>12. c.inflight \in Int
  BY <1>1
<1>13. /\ d \in Mosq /\ d.out = o /\ d.inflight = c.inflight /\ d.packets = c.packets
       /\ d.in = c.in /\ d.last_mid = c.last_mid /\ d.sock = c.sock
  BY ONLY <1>9, <1>10, <1>11, <1>12, OutSet
<1>14. Restated(c, d, i, "wait_for_pubcomp") /\ Received(c, d, i, "wait_for_pubcomp", a, n, b)
  BY <1>2, <1>3, <1>5, <1>6, <1>7, <1>8, <1>13 DEF Restated, Received
<1>15. Good(d, a, n, b, s)
  BY <1>13, <1>14, RestateKeeps
<1>16. In(d, k) /\ StateOf(d, k) = "wait_for_pubcomp"
  <2>1. Distinct(d)
    BY <1>13, <1>15, QueueFacts DEF Good
  <2> QED
    BY <1>2, <1>7, <1>8, <1>13, <2>1, StateAt
<1>17. p \in UpPacket /\ p.t = "PUBREL" /\ p.mid = k /\ p.m = "none"
  BY <1>3, Names DEF Packet, UpPacket, UpTypes, Payload
<1>18. UpOK(p, d, b)
  <2>1. k \in 1..d.last_mid
    BY <1>3, <1>10, <1>13, Names DEF Mosq
  <2> HIDE DEF p
  <2> QED
    BY <1>5, <1>17, <2>1 DEF UpOK
<1>19. k \in Committed(d, a, n)
  BY <1>3, <1>16 DEF Committed
<1>20. Good(PacketQueue(d, p), a, n, b, s)
  <2> HIDE DEF p
  <2> QED
    BY <1>13, <1>15, <1>16, <1>17, <1>18, <1>19, PacketKeeps
<1>21. HandlePubrec(c, k) = Handled(PacketQueue(d, p), Quiet, Quiet)
  BY DEF HandlePubrec, i, e, o, d
<1> QED
  BY <1>20, <1>21 DEF Handled

\* a message is reported, and leaves the queue
Reported(a, m) == [a EXCEPT !.told = [x \in Msg |-> a.told[x] + IF x = m THEN 1 ELSE 0]]

LEMMA ReportedIs ==
  ASSUME NEW a \in App, NEW m
  PROVE  LET a2 == Reported(a, m)
         IN  /\ a2 \in App /\ a2.todo = a.todo /\ a2.sends = a.sends /\ a2.pc = a.pc
             /\ a2.handed = a.handed /\ a2.passed = a.passed
             /\ \A x \in Msg : a2.told[x] = a.told[x] + IF x = m THEN 1 ELSE 0
<1> DEFINE t == [x \in Msg |-> a.told[x] + IF x = m THEN 1 ELSE 0]
           a2 == [a EXCEPT !.told = t]
<1>1. t \in [Msg -> Nat]
  BY DEF App
<1>2. \A x \in Msg : t[x] = a.told[x] + IF x = m THEN 1 ELSE 0
  OBVIOUS
<1>3. a2 = Reported(a, m)
  BY DEF Reported
<1> HIDE DEF t
<1>4. a2 \in App
  BY <1>1 DEF App
<1>5. /\ a2.told = t /\ a2.todo = a.todo /\ a2.sends = a.sends /\ a2.pc = a.pc
      /\ a2.handed = a.handed /\ a2.passed = a.passed
  BY DEF App
<1> QED
  BY <1>2, <1>3, <1>4, <1>5

LEMMA RemovedKeeps ==
  ASSUME NEW c, NEW d, NEW a, NEW n, NEW b, NEW s, NEW i \in DOMAIN c.out, NEW t,
         Good(c, a, n, b, s), c.sock, t \in {"PUBACK", "PUBCOMP"}, Reads(n, t, c.out[i].mid),
         d = WithOut(c, RemoveAt(c.out, i), c.inflight - 1)
  PROVE  Good(d, Reported(a, c.out[i].m), n, b, s)
<1> DEFINE k == c.out[i].mid
           o == RemoveAt(c.out, i)
           f == c.inflight - 1
           a2 == Reported(a, c.out[i].m)
<1>1. /\ c \in Mosq /\ Entries(c) /\ c.out \in Seq(Entry) /\ c.inflight \in Int /\ c.last_mid \in 0..N
      /\ n \in Net /\ a \in App /\ b \in Broker /\ s \in Seen
  BY DEF Good, Types, Mosq
<1>2. k \in 1..c.last_mid /\ k \in 1..N /\ c.out[i].m = Name(k) /\ In(c, k) /\ Distinct(c)
  BY <1>1, EntryAt, QueueFacts
<1>3. o \in Seq(Entry)
  BY <1>1, RemoveAtIs
<1>4. d = WithOut(c, o, f) /\ f \in Int
  BY <1>1
<1>5. c \in Mosq
  BY <1>1
<1>6. f \in Int
  BY <1>4
<1>7. d = WithOut(c, o, f)
  BY <1>4
<1> HIDE DEF f, o
<1>8. /\ d \in Mosq /\ d.out = o /\ d.inflight = f /\ d.packets = c.packets
      /\ d.in = c.in /\ d.last_mid = c.last_mid /\ d.sock = c.sock
  BY ONLY <1>3, <1>5, <1>6, <1>7, OutSet
<1>9. /\ Distinct(d)
      /\ \A j : /\ In(d, j) <=> In(c, j) /\ j # k
                /\ StateOf(d, j) = IF j = k THEN "gone" ELSE StateOf(c, j)
      /\ \A j \in DOMAIN d.out : \E m \in DOMAIN c.out : d.out[j] = c.out[m]
  <2>1. c.out \in Seq(Entry)
    BY <1>1
  <2>2. Distinct(c) /\ i \in DOMAIN c.out
    BY <1>2
  <2>3. d.out = RemoveAt(c.out, i)
    BY <1>8 DEF o
  <2>4. Loses(c, d, i)
    BY <2>1, <2>2, <2>3, Removed
  <2> QED
    BY <2>4 DEF Loses
<1>10. /\ a2 \in App /\ a2.todo = a.todo /\ a2.sends = a.sends /\ a2.pc = a.pc
       /\ a2.handed = a.handed /\ a2.passed = a.passed
       /\ \A x \in Msg : a2.told[x] = a.told[x] + IF x = Name(k) THEN 1 ELSE 0
  BY <1>1, <1>2, ReportedIs
<1> HIDE DEF a2
<1>11. Has(n.down, t, k) /\ DownOK(Head(n.down), c, b) /\ Head(n.down).t = t /\ Head(n.down).mid = k
  BY <1>1, ReadHas, ReadOK DEF Reads
<1>12. Qos[Name(k)] = (IF t = "PUBACK" THEN 1 ELSE 2) /\ b.got[Name(k)] > 0
  BY <1>2, <1>11 DEF DownOK
<1>13. Entries(d)
  BY <1>1, <1>8, <1>9 DEF Entries, Distinct
<1>14. Calls(d, a2)
  BY <1>8, <1>10 DEF Good, Calls
<1>15. Account(d, a2, b)
  <2>1. Account(c, a, b)
    BY DEF Good
  <2>2. ASSUME NEW j \in 1..N, Qos[Name(j)] > 0
        PROVE  /\ a2.told[Name(j)] = IF j <= d.last_mid /\ ~In(d, j) THEN 1 ELSE 0
               /\ j <= d.last_mid /\ ~In(d, j) => b.got[Name(j)] > 0
    <3>1. Name(j) \in Msg /\ (Name(j) = Name(k) => j = k)
      BY <1>2, Names
    <3>2. /\ a.told[Name(j)] = IF j <= c.last_mid /\ ~In(c, j) THEN 1 ELSE 0
          /\ j <= c.last_mid /\ ~In(c, j) => b.got[Name(j)] > 0
      BY <2>1, <2>2 DEF Account
    <3>3. CASE j = k
      BY <1>2, <1>8, <1>9, <1>10, <1>12, <3>1, <3>2, <3>3
    <3>4. CASE j # k
      BY <1>8, <1>9, <1>10, <3>1, <3>2, <3>4
    <3> QED
      BY <3>3, <3>4
  <2> QED
    BY <1>8, <1>9, <2>1, <2>2 DEF Account
<1>16. Later(b, b)
  BY DEF Later
<1>17. AllUp(d.packets, d, b) /\ AllUp(n.up, d, b) /\ AllDown(n.down, d, b)
  BY <1>1, <1>8, <1>9, <1>16, UpKept, DownKept DEF Good
<1>18. Window(d, a2, n)
  <2> DEFINE x == Cardinality(Committed(c, a, n))
             y == Cardinality(Committed(d, a2, n))
             w == Cardinality(Waiting(c))
             v == Cardinality(Waiting(d))
  <2>1. k \in Committed(c, a, n)
    BY <1>2, <1>11 DEF Committed, Transit
  <2>2. \A j : (Transit(d, n, j) <=> Transit(c, n, j)) /\ (Sending(a2, j) <=> Sending(a, j))
    BY <1>8, <1>10 DEF Transit, Sending
  <2>3. Committed(d, a2, n) \in SUBSET (Committed(c, a, n) \ {k})
    BY <1>8, <1>9, <2>2 DEF Committed
  <2>4. y <= x - 1
    BY <2>1, <2>3, Sets, OneLess
  <2>5. Waiting(d) \in SUBSET Waiting(c)
    BY <1>9 DEF Waiting
  <2>6. v <= w
    BY <2>5, Sets, Smaller
  <2>7. x \in Nat /\ y \in Nat /\ w \in Nat /\ v \in Nat
    BY Sets
  <2>8. /\ x <= c.inflight /\ (max_inflight_messages > 0 => x <= max_inflight_messages)
        /\ c.inflight + w + Len(a.todo) <= N + N
    BY DEF Good, Window
  <2>9. N + N \in Nat /\ max_inflight_messages \in Nat /\ Len(a.todo) \in Nat
    BY <1>1, Names, Assumed DEF App
  <2>10. d.inflight = c.inflight - 1 /\ Len(a2.todo) = Len(a.todo) /\ c.inflight \in Int
    BY <1>1, <1>8, <1>10 DEF f
  <2> DEFINE max == max_inflight_messages
             l == Len(a.todo)
             z == N + N
             g == c.inflight
             h == d.inflight
  <2>11. /\ x <= g /\ (max > 0 => x <= max) /\ g + w + l <= z
         /\ z \in Nat /\ max \in Nat /\ l \in Nat /\ h = g - 1 /\ g \in Int
    BY <2>8, <2>9, <2>10
  <2>12. y <= h /\ (max > 0 => y <= max)
    <3> HIDE DEF x, y, w, v, max, l, z, g, h
    <3> QED
      BY <2>4, <2>7, <2>11
  <2>13. h + v + l <= z
    <3> HIDE DEF x, y, w, v, max, l, z, g, h
    <3> QED
      BY <2>6, <2>7, <2>11
  <2>14. d.inflight + v + Len(a2.todo) <= N + N
    BY <2>10, <2>13
  <2> QED
    BY <2>12, <2>14 DEF Window
<1>19. \A j \in Inbound : Inwards(j, d, a2, n, b, s)
  BY <1>8, <1>10 DEF Good, Inwards, Stored
<1>20. Order(d, n, b, s)
  <2>1. ASSUME NEW j \in 1..c.last_mid, Qos[Name(j)] = 2, Outwards(j, c, n, b, s)
        PROVE  Outwards(j, d, n, b, s)
    <3>1. CASE j # k
      BY <1>8, <1>9, <2>1, <3>1 DEF Outwards
    <3>2. CASE j = k
      <4>1. t = "PUBCOMP"
        BY <1>12, <2>1, <3>2
      <4>2. ~Has(n.down, "PUBREC", j)
        <5>1. n.down \in Seq(DownPacket) /\ n.down # <<>>
          BY <1>1 DEF Net, Reads
        <5>2. Has(n.down, "PUBREC", j) => Has(Tail(n.down), "PUBREC", j)
          BY <1>11, <4>1, <5>1, HasHead
        <5>3. Has(Tail(n.down), "PUBREC", j) => Before(n.down, "PUBCOMP", "PUBREC", j)
          BY <1>11, <3>2, <4>1, <5>1, HasHead
        <5> QED
          BY <2>1, <5>2, <5>3 DEF Outwards
      <4>3. ~Has(c.packets, "PUBLISH", j) /\ ~Has(n.up, "PUBLISH", j)
        BY <1>11, <2>1, <3>2, <4>1 DEF Outwards
      <4>4. StateOf(d, j) = "gone" /\ ~In(d, j)
        BY <1>9, <3>2
      <4> QED
        BY <1>8, <2>1, <4>2, <4>3, <4>4 DEF Outwards
    <3> QED
      BY <3>1, <3>2
  <2> QED
    BY <1>8, <2>1 DEF Good, Order
<1> QED
  BY <1>1, <1>8, <1>10, <1>13, <1>14, <1>15, <1>17, <1>18, <1>19, <1>20 DEF Good, Types, a2

\* PUBACK or PUBCOMP of a message that is in the queue
LEMMA PubackcompKeeps ==
  ASSUME NEW c, NEW a, NEW n, NEW b, NEW s, NEW k, NEW t, Good(c, a, n, b, s), c.sock,
         t \in {"PUBACK", "PUBCOMP"}, Reads(n, t, k), Position(c.out, k) # 0
  PROVE  LET h == HandlePubackcomp(c, k)
         IN  /\ Good(h.c, Reported(a, h.told), n, b, s)
             /\ h.rc = "success" /\ h.passed = Quiet
<1> DEFINE i == Position(c.out, k)
           d == WithOut(c, RemoveAt(c.out, i), c.inflight - 1)
<1>1. c \in Mosq /\ c.out \in Seq(Entry)
  BY DEF Good, Types, Mosq
<1>2. i \in DOMAIN c.out /\ c.out[i].mid = k
  BY <1>1, PositionIs
<1>3. HandlePubackcomp(c, k) = Handled(Promote(d), c.out[i].m, Quiet)
  BY <1>1 DEF HandlePubackcomp, MessageRemove, WithOut, Mosq
<1> HIDE DEF i
<1>4. Good(d, Reported(a, c.out[i].m), n, b, s)
  BY <1>2, RemovedKeeps
<1> HIDE DEF d
<1>5. Good(Promote(d), Reported(a, c.out[i].m), n, b, s)
  BY <1>4, PromoteKeeps
<1> QED
  BY <1>3, <1>5 DEF Handled

------------------------------------------------------------------------------
\* What the broker publishes.

PassedOn(a, i) == [a EXCEPT !.passed = [x \in Inbound |-> a.passed[x] + IF x = i THEN 1 ELSE 0]]

LEMMA PassedOnIs ==
  ASSUME NEW a \in App, NEW i
  PROVE  LET a2 == PassedOn(a, i)
         IN  /\ a2 \in App /\ a2.todo = a.todo /\ a2.sends = a.sends /\ a2.pc = a.pc
             /\ a2.handed = a.handed /\ a2.told = a.told
             /\ \A x \in Inbound : a2.passed[x] = a.passed[x] + IF x = i THEN 1 ELSE 0
<1> DEFINE t == [x \in Inbound |-> a.passed[x] + IF x = i THEN 1 ELSE 0]
           a2 == [a EXCEPT !.passed = t]
<1>1. t \in [Inbound -> Nat]
  BY DEF App
<1>2. \A x \in Inbound : t[x] = a.passed[x] + IF x = i THEN 1 ELSE 0
  OBVIOUS
<1>3. a2 = PassedOn(a, i)
  BY DEF PassedOn
<1> HIDE DEF t
<1>4. a2 \in App
  BY <1>1 DEF App
<1>5. /\ a2.passed = t /\ a2.todo = a.todo /\ a2.sends = a.sends /\ a2.pc = a.pc
      /\ a2.handed = a.handed /\ a2.told = a.told
  BY DEF App
<1> QED
  BY <1>2, <1>3, <1>4, <1>5

\* the client after its queue of inbound messages has changed
WithIn(c, q) == [c EXCEPT !.in = q]

LEMMA InSet ==
  ASSUME NEW c \in Mosq, NEW q \in Seq(InEntry), NEW d, d = WithIn(c, q)
  PROVE  /\ d \in Mosq /\ d.out = c.out /\ d.inflight = c.inflight /\ d.packets = c.packets
         /\ d.in = q /\ d.last_mid = c.last_mid /\ d.sock = c.sock
BY DEF Mosq, WithIn

LEMMA InKeeps ==
  ASSUME NEW c, NEW d, NEW a, NEW a2, NEW n, NEW b, NEW s, NEW s2, NEW q \in Seq(InEntry),
         Good(c, a, n, b, s), d = WithIn(c, q), a2 \in App, s2 \in Seen,
         \A j \in DOMAIN q : q[j].mid = InMid[q[j].m],
         a2.todo = a.todo, a2.sends = a.sends, a2.pc = a.pc, a2.handed = a.handed, a2.told = a.told,
         s2.late = s.late, s2.redone = s.redone,
         \A i \in Inbound : Inwards(i, d, a2, n, b, s2)
  PROVE  Good(d, a2, n, b, s2)
<1>1. c \in Mosq /\ n \in Net /\ a \in App /\ b \in Broker /\ c.last_mid \in 0..N /\ c.inflight \in Int
  BY DEF Good, Types, Mosq
<1>2. /\ d \in Mosq /\ d.out = c.out /\ d.inflight = c.inflight /\ d.packets = c.packets
      /\ d.in = q /\ d.last_mid = c.last_mid /\ d.sock = c.sock
  BY <1>1, InSet
<1>3. \A k : (In(d, k) <=> In(c, k)) /\ StateOf(d, k) = StateOf(c, k)
  BY <1>2 DEF In, StateOf
<1>4. Entries(d)
  BY <1>2 DEF Good, Entries
<1>5. Calls(d, a2)
  BY <1>2 DEF Good, Calls
<1>6. Account(d, a2, b)
  BY <1>2, <1>3 DEF Good, Account
<1>7. Later(b, b)
  BY DEF Later
<1>8. AllUp(d.packets, d, b) /\ AllUp(n.up, d, b) /\ AllDown(n.down, d, b)
  BY <1>1, <1>2, <1>3, <1>7, UpKept, DownKept DEF Good
<1>9. Window(d, a2, n)
  <2>1. \A k : (Transit(d, n, k) <=> Transit(c, n, k)) /\ (Sending(a2, k) <=> Sending(a, k))
    BY <1>2 DEF Transit, Sending
  <2>2. Committed(d, a2, n) \in SUBSET Committed(c, a, n)
    BY <1>2, <1>3, <2>1 DEF Committed
  <2>3. Waiting(d) \in SUBSET Waiting(c)
    BY <1>3 DEF Waiting
  <2>4. Len(a.todo) \in Nat
    BY <1>1 DEF App
  <2> QED
    BY <1>1, <1>2, <2>2, <2>3, <2>4, WindowKept DEF Good
<1>10. Order(d, n, b, s2)
  BY <1>2, <1>3 DEF Good, Order, Outwards
<1> QED
  BY <1>1, <1>2, <1>4, <1>5, <1>6, <1>8, <1>9, <1>10 DEF Good, Types

Overwritten(c, p) == {i \in {p.m} \cap Inbound : Position(c.in, p.mid) # 0}
Marked(s, S) == [s EXCEPT !.stale = s.stale \cup S]

LEMMA MarkedIs ==
  ASSUME NEW s \in Seen, NEW S \in SUBSET Inbound
  PROVE  LET s2 == Marked(s, S)
         IN  /\ s2 \in Seen /\ s2.stale = s.stale \cup S /\ s2.late = s.late /\ s2.redone = s.redone
BY DEF Marked, Seen

\* PUBLISH: the message is queued
LEMMA PublishKeeps ==
  ASSUME NEW c, NEW a, NEW n, NEW b, NEW s, NEW p, Good(c, a, n, b, s),
         n.down # <<>>, p = Head(n.down), p.t = "PUBLISH"
  PROVE  LET h == HandlePublish(c, p.mid, p.m)
         IN  /\ Good(h.c, a, n, b, Marked(s, Overwritten(c, p)))
             /\ h.rc = "success" /\ h.told = Quiet /\ h.passed = Quiet
<1> DEFINE i == p.m
           e == [mid |-> p.mid, m |-> p.m, due |-> FALSE]
           q == Append(c.in, e)
           d == WithIn(c, q)
           s2 == Marked(s, Overwritten(c, p))
           r == Packet("PUBREC", p.mid, "none")
<1>1. c \in Mosq /\ a \in App /\ n \in Net /\ s \in Seen /\ c.in \in Seq(InEntry) /\ Entries(c)
  BY DEF Good, Types, Mosq
<1>2. DownOK(p, c, b) /\ p \in DownPacket
  BY ReadOK
<1>3. i \in Inbound /\ p.mid = InMid[i] /\ b.phase[i] # "idle" /\ p.mid \in Nat
  BY <1>2 DEF DownOK, DownPacket
<1>4. e \in InEntry /\ e.m = i /\ e.mid = p.mid
  BY <1>3 DEF InEntry
<1>5. Has(n.down, "PUBLISH", InMid[i])
  BY <1>1, <1>3, ReadHas DEF Reads
<1> HIDE DEF e
<1>6. /\ q \in Seq(InEntry) /\ DOMAIN q = 1..Len(c.in) + 1 /\ q[Len(c.in) + 1] = e
      /\ \A j \in DOMAIN q : (j \in DOMAIN c.in /\ q[j] = c.in[j]) \/ j = Len(c.in) + 1
      /\ \A j \in DOMAIN c.in : j \in DOMAIN q /\ q[j] = c.in[j]
  BY <1>1, <1>4
<1>7. s2 \in Seen /\ s2.stale = s.stale \cup Overwritten(c, p) /\ s2.late = s.late /\ s2.redone = s.redone
  <2>1. Overwritten(c, p) \in SUBSET Inbound
    BY DEF Overwritten
  <2> QED
    BY <1>1, <2>1, MarkedIs
<1> HIDE DEF q, s2
<1>8. c \in Mosq
  BY <1>1
<1>9. q \in Seq(InEntry)
  BY <1>6
<1>10. /\ d \in Mosq /\ d.out = c.out /\ d.inflight = c.inflight /\ d.packets = c.packets
       /\ d.in = q /\ d.last_mid = c.last_mid /\ d.sock = c.sock
  BY ONLY <1>8, <1>9, InSet
<1>11. d = WithIn(c, q)
  OBVIOUS
<1> HIDE DEF d
<1>12. \A x \in Inbound : Inwards(x, d, a, n, b, s2)
  <2>1. ASSUME NEW x \in Inbound
        PROVE  Inwards(x, d, a, n, b, s2)
    <3>1. Inwards(x, c, a, n, b, s)
      BY DEF Good
    <3>2. CASE x # i
      <4>1. Stored(d, x) <=> Stored(c, x)
        BY <1>4, <1>6, <1>10, <3>2 DEF Stored
      <4>2. \A j \in DOMAIN d.in : d.in[j].m = x => j \in DOMAIN c.in /\ d.in[j] = c.in[j]
        BY <1>4, <1>6, <1>10, <3>2
      <4>3. x \in s2.stale <=> x \in s.stale
        BY <1>7, <3>2 DEF Overwritten
      <4> QED
        BY <3>1, <4>1, <4>2, <4>3 DEF Inwards
    <3>3. CASE x = i
      <4>1. a.passed[x] = 0
        BY <1>5, <3>1, <3>3 DEF Inwards
      <4>2. ASSUME x \notin s2.stale
            PROVE  ~Stored(c, x)
        <5>1. Position(c.in, p.mid) = 0
          BY <1>3, <1>7, <3>3, <4>2 DEF Overwritten
        <5>2. \A j \in DOMAIN c.in : c.in[j].mid # p.mid
          BY <1>1, <5>1, PositionIs
        <5> QED
          BY <1>1, <1>3, <3>3, <5>2 DEF Stored, Entries
      <4>3. x \notin s2.stale => \A j, k \in DOMAIN d.in : d.in[j].m = x /\ d.in[k].m = x => j = k
        BY <1>6, <1>10, <4>2 DEF Stored
      <4> QED
        BY <1>3, <3>1, <3>3, <4>1, <4>3 DEF Inwards
    <3> QED
      BY <3>2, <3>3
  <2> QED
    BY <2>1
<1>13. \A j \in DOMAIN q : q[j].mid = InMid[q[j].m]
  BY <1>1, <1>3, <1>4, <1>6 DEF Entries
<1>14. Good(d, a, n, b, s2)
  BY <1>1, <1>7, <1>9, <1>11, <1>12, <1>13, InKeeps
<1>15. r \in UpPacket /\ r.t = "PUBREC" /\ r.mid = p.mid /\ r.m = "none"
  BY <1>3 DEF Packet, UpPacket, UpTypes, Payload
<1>16. UpOK(r, d, b)
  <2>1. \A x \in Inbound : InMid[x] = p.mid => x = i
    BY <1>3, Assumed DEF IsInjective
  <2> HIDE DEF r
  <2> QED
    BY <1>3, <1>15, <2>1 DEF UpOK
<1>17. Good(PacketQueue(d, r), a, n, b, s2)
  <2> HIDE DEF r
  <2> QED
    BY <1>14, <1>15, <1>16, PacketKeeps
<1>18. HandlePublish(c, p.mid, p.m) = Handled(PacketQueue(d, r), Quiet, Quiet)
  <2>1. [PacketQueue(c, r) EXCEPT !.in = Append(@, e)] = PacketQueue(d, r)
    <3> HIDE DEF r
    <3> QED
      BY <1>8, <1>11 DEF PacketQueue, WithIn, Mosq, q
  <2> QED
    BY <2>1 DEF HandlePublish, e
<1> QED
  BY <1>17, <1>18 DEF Handled, s2

\* a sequence without its element at i: where its elements were
Skips(i, j) == IF j < i THEN j ELSE j + 1

LEMMA RemoveAtSkips ==
  ASSUME NEW A, NEW q \in Seq(A), NEW i \in DOMAIN q, NEW r, r = RemoveAt(q, i)
  PROVE  /\ r \in Seq(A)
         /\ \A j \in DOMAIN r : Skips(i, j) \in DOMAIN q /\ Skips(i, j) # i /\ r[j] = q[Skips(i, j)]
         /\ \A j, k \in DOMAIN r : Skips(i, j) = Skips(i, k) => j = k
<1>1. /\ r \in Seq(A) /\ DOMAIN r = 1..(Len(q) - 1)
      /\ \A j \in 1..(Len(q) - 1) : r[j] = IF j < i THEN q[j] ELSE q[j + 1]
  BY RemoveAtIs
<1>2. i \in 1..Len(q) /\ DOMAIN q = 1..Len(q) /\ Len(q) \in Nat
  OBVIOUS
<1>3. \A j \in 1..(Len(q) - 1) : Skips(i, j) \in 1..Len(q) /\ Skips(i, j) # i
  BY <1>2 DEF Skips
<1>4. \A j \in 1..(Len(q) - 1) : r[j] = q[Skips(i, j)]
  BY <1>1 DEF Skips
<1>5. \A j, k \in 1..(Len(q) - 1) : Skips(i, j) = Skips(i, k) => j = k
  BY <1>2 DEF Skips
<1> QED
  BY <1>1, <1>2, <1>3, <1>4, <1>5

\* PUBREL: the message is passed to the application, and leaves the queue
LEMMA TakenKeeps ==
  ASSUME NEW c, NEW a, NEW n, NEW b, NEW s, NEW k \in DOMAIN c.in, Good(c, a, n, b, s),
         Reads(n, "PUBREL", c.in[k].mid)
  PROVE  Good(WithIn(c, RemoveAt(c.in, k)), PassedOn(a, c.in[k].m), n, b, s)
<1> DEFINE i == c.in[k].m
           q == RemoveAt(c.in, k)
           d == WithIn(c, q)
           a2 == PassedOn(a, i)
<1>1. c \in Mosq /\ a \in App /\ n \in Net /\ s \in Seen /\ c.in \in Seq(InEntry) /\ Entries(c)
  BY DEF Good, Types, Mosq
<1>2. i \in Inbound /\ c.in[k].mid = InMid[i]
  <2>1. c.in[k] \in InEntry
    BY <1>1
  <2> QED
    BY <1>1, <2>1 DEF InEntry, Entries
<1>3. /\ q \in Seq(InEntry)
      /\ \A j \in DOMAIN q : Skips(k, j) \in DOMAIN c.in /\ Skips(k, j) # k /\ q[j] = c.in[Skips(k, j)]
      /\ \A j, m \in DOMAIN q : Skips(k, j) = Skips(k, m) => j = m
  BY <1>1, RemoveAtSkips
<1>4. /\ a2 \in App /\ a2.todo = a.todo /\ a2.sends = a.sends /\ a2.pc = a.pc
      /\ a2.handed = a.handed /\ a2.told = a.told
      /\ \A x \in Inbound : a2.passed[x] = a.passed[x] + IF x = i THEN 1 ELSE 0
  BY <1>1, PassedOnIs
<1> HIDE DEF q, a2
<1>5. c \in Mosq
  BY <1>1
<1>6. q \in Seq(InEntry)
  BY <1>3
<1>7. /\ d \in Mosq /\ d.out = c.out /\ d.inflight = c.inflight /\ d.packets = c.packets
      /\ d.in = q /\ d.last_mid = c.last_mid /\ d.sock = c.sock
  BY ONLY <1>5, <1>6, InSet
<1>8. d = WithIn(c, q)
  OBVIOUS
<1> HIDE DEF d
<1>9. /\ ~Has(n.down, "PUBLISH", InMid[i]) /\ b.phase[i] \notin {"idle", "sent"}
  <2>1. n.down \in Seq(DownPacket) /\ n.down # <<>> /\ Head(n.down).t = "PUBREL" /\ Head(n.down).mid = InMid[i]
    BY <1>1, <1>2 DEF Net, Reads
  <2>2. DownOK(Head(n.down), c, b)
    BY <2>1, ReadOK
  <2>3. ~Before(n.down, "PUBREL", "PUBLISH", InMid[i])
    BY <1>2 DEF Good, Inwards
  <2>4. ~Has(Tail(n.down), "PUBLISH", InMid[i])
    BY <2>1, <2>3, HasHead
  <2>5. ~Has(n.down, "PUBLISH", InMid[i])
    BY <2>1, <2>4, HasHead
  <2> QED
    BY <1>2, <2>1, <2>2, <2>5 DEF DownOK
<1>10. \A x \in Inbound : Inwards(x, d, a2, n, b, s)
  <2>1. ASSUME NEW x \in Inbound
        PROVE  Inwards(x, d, a2, n, b, s)
    <3>1. Inwards(x, c, a, n, b, s)
      BY DEF Good
    <3>2. Stored(d, x) => Stored(c, x)
      BY <1>3, <1>7 DEF Stored
    <3>3. x \notin s.stale => \A j, m \in DOMAIN d.in : d.in[j].m = x /\ d.in[m].m = x => j = m
      BY <1>3, <1>7, <3>1 DEF Inwards
    <3>4. a.passed[x] \in Nat
      BY <1>1 DEF App
    <3>5. CASE x # i
      <4>1. a2.passed[x] = a.passed[x]
        BY <1>4, <3>4, <3>5
      <4> QED
        BY <3>1, <3>2, <3>3, <4>1 DEF Inwards
    <3>6. CASE x = i
      <4>1. Stored(c, x)
        BY <3>6 DEF Stored
      <4>2. x \notin s.stale => a2.passed[x] = 1
        BY <1>4, <3>1, <3>6, <4>1 DEF Inwards
      <4>3. x \notin s.stale => ~Stored(d, x)
        BY <1>3, <1>7, <3>1, <3>6 DEF Stored, Inwards
      <4> QED
        BY <1>9, <3>1, <3>3, <3>6, <4>2, <4>3 DEF Inwards
    <3> QED
      BY <3>5, <3>6
  <2> QED
    BY <2>1
<1>11. \A j \in DOMAIN q : q[j].mid = InMid[q[j].m]
  BY <1>1, <1>3 DEF Entries
<1>12. Good(d, a2, n, b, s)
  BY <1>1, <1>4, <1>6, <1>8, <1>10, <1>11, InKeeps
<1> QED
  BY <1>12 DEF a2, d, q

LEMMA PubrelInv ==
  ASSUME NEW c, NEW a, NEW n, NEW b, NEW s, NEW k, Good(c, a, n, b, s), Reads(n, "PUBREL", k)
  PROVE  LET h == HandlePubrel(c, k)
         IN  /\ Good(h.c, PassedOn(a, h.passed), n, b, s)
             /\ h.rc = "success" /\ h.told = Quiet
<1> DEFINE i == Position(c.in, k)
           r == Packet("PUBCOMP", k, "none")
<1>1. c \in Mosq /\ a \in App /\ c.in \in Seq(InEntry)
  BY DEF Good, Types, Mosq
<1>2. r \in UpPacket /\ r.t = "PUBCOMP" /\ r.m = "none"
  <2>1. k \in Nat
    BY ReadOK DEF Reads, DownPacket
  <2> QED
    BY <2>1 DEF Packet, UpPacket, UpTypes, Payload
<1>3. \A d : UpOK(r, d, b)
  <2> HIDE DEF r
  <2> QED
    BY <1>2 DEF UpOK
<1>4. \A d, x : Good(d, x, n, b, s) => Good(PacketQueue(d, r), x, n, b, s)
  <2> HIDE DEF r
  <2> QED
    BY <1>2, <1>3, PacketKeeps
<1> HIDE DEF r
<1>5. CASE i = 0
  <2>1. HandlePubrel(c, k) = Handled(PacketQueue(c, r), Quiet, Quiet)
    BY <1>5 DEF HandlePubrel, r
  <2>2. PassedOn(a, Quiet) = a
    <3> DEFINE t == [x \in Inbound |-> a.passed[x] + IF x = Quiet THEN 1 ELSE 0]
    <3>1. a.passed \in [Inbound -> Nat]
      BY <1>1 DEF App
    <3>2. \A x \in Inbound : x # Quiet
      BY Names DEF Quiet
    <3>3. t = a.passed
      BY <3>1, <3>2
    <3>4. PassedOn(a, Quiet) = [a EXCEPT !.passed = t]
      BY DEF PassedOn
    <3> HIDE DEF t
    <3> QED
      BY <1>1, <3>3, <3>4 DEF App
  <2> QED
    BY <1>4, <2>1, <2>2 DEF Handled
<1>6. CASE i # 0
  <2> DEFINE q == RemoveAt(c.in, i)
             d == WithIn(c, q)
  <2>1. i \in DOMAIN c.in /\ c.in[i].mid = k
    BY <1>1, <1>6, PositionIs
  <2>2. Good(d, PassedOn(a, c.in[i].m), n, b, s)
    BY <2>1, TakenKeeps
  <2>3. Good(PacketQueue(d, r), PassedOn(a, c.in[i].m), n, b, s)
    BY <1>4, <2>2
  <2>4. [PacketQueue(c, r) EXCEPT !.in = RemoveAt(@, i)] = PacketQueue(d, r)
    BY <1>1 DEF PacketQueue, WithIn, Mosq
  <2>5. HandlePubrel(c, k) = Handled(PacketQueue(d, r), Quiet, c.in[i].m)
    BY <1>6, <2>4 DEF HandlePubrel, r
  <2> QED
    BY <2>3, <2>5 DEF Handled
<1> QED
  BY <1>5, <1>6

------------------------------------------------------------------------------
\* One packet is read.

LEMMA NothingTold ==
  ASSUME NEW a \in App
  PROVE  Reported(a, Quiet) = a /\ PassedOn(a, Quiet) = a
<1> DEFINE t == [x \in Msg |-> a.told[x] + IF x = Quiet THEN 1 ELSE 0]
           u == [x \in Inbound |-> a.passed[x] + IF x = Quiet THEN 1 ELSE 0]
<1>1. a.told \in [Msg -> Nat] /\ a.passed \in [Inbound -> Nat]
  BY DEF App
<1>2. \A x \in Msg \cup Inbound : x # Quiet
  BY Names DEF Quiet
<1>3. t = a.told /\ u = a.passed
  BY <1>1, <1>2
<1>4. Reported(a, Quiet) = [a EXCEPT !.told = t] /\ PassedOn(a, Quiet) = [a EXCEPT !.passed = u]
  BY DEF Reported, PassedOn
<1> HIDE DEF t, u
<1> QED
  BY <1>3, <1>4 DEF App

\* after a packet that is handled without an error
Done(c, a, n, b, s, p, h) ==
  /\ h.rc # "not_found"
  /\ Good(h.c, PassedOn(Reported(a, h.told), h.passed), n, b, Marked(s, Overwritten(c, p)))

LEMMA HandleInv ==
  ASSUME NEW c, NEW a, NEW n, NEW b, NEW s, NEW p, Good(c, a, n, b, s), c.sock,
         n.down # <<>>, p = Head(n.down)
  PROVE  LET h == PacketHandle(c, p)
         IN  \/ Done(c, a, n, b, s, p, h)
             \/ /\ h.rc = "not_found" /\ h.c = c /\ h.told = Quiet /\ h.passed = Quiet
                /\ s.late /\ Marked(s, Overwritten(c, p)) = s
<1> DEFINE h == PacketHandle(c, p)
<1>1. c \in Mosq /\ a \in App /\ n \in Net /\ b \in Broker /\ s \in Seen /\ Entries(c)
  BY DEF Good, Types
<1>2. DownOK(p, c, b) /\ p \in DownPacket /\ Reads(n, p.t, p.mid) /\ p.t \in DownTypes
  BY ReadOK DEF Reads, DownPacket
<1>3. p.t # "PUBLISH" => Marked(s, Overwritten(c, p)) = s
  <2>1. ASSUME p.t # "PUBLISH"
        PROVE  Overwritten(c, p) = {}
    <3>1. p.m = "none" /\ p.m \notin Inbound
      BY <1>2, <2>1, Names DEF DownOK
    <3> QED
      BY <3>1 DEF Overwritten
  <2>2. [s EXCEPT !.stale = s.stale \cup {}] = s
    BY <1>1 DEF Seen
  <2> QED
    BY <2>1, <2>2 DEF Marked
<1>4. Reported(a, Quiet) = a /\ PassedOn(a, Quiet) = a
  BY <1>1, NothingTold
<1>5. CASE p.t = "CONNACK"
  <2> DEFINE x == IF c.state = "disconnecting" THEN "success" ELSE "accepted"
  <2>1. h = [Handled(c, Quiet, Quiet) EXCEPT !.rc = x]
    BY <1>5 DEF PacketHandle, HandleConnack
  <2>2. x # "not_found"
    OBVIOUS
  <2> HIDE DEF x, h
  <2>3. h.rc = x /\ h.c = c /\ h.told = Quiet /\ h.passed = Quiet
    BY <2>1 DEF Handled
  <2> QED
    BY <1>3, <1>4, <1>5, <2>2, <2>3 DEF Done, h
<1>6. CASE p.t = "PINGRESP"
  <2> DEFINE d == [c EXCEPT !.ping_t = FALSE]
  <2>1. h = Handled(d, Quiet, Quiet)
    BY <1>6 DEF PacketHandle
  <2>3. /\ d \in Mosq /\ d.out = c.out /\ d.in = c.in /\ d.packets = c.packets /\ d.sock = c.sock
        /\ d.last_mid = c.last_mid /\ d.inflight = c.inflight
    BY <1>1 DEF Mosq
  <2> HIDE DEF d
  <2>4. Queued(c, d, <<>>) /\ Sendable(<<>>, c, a, n, b, s)
    <3>1. c.packets \in Seq(UpPacket) /\ <<>> \in Seq(UpPacket) /\ c.packets \o <<>> = c.packets
      BY <1>1 DEF Mosq
    <3>2. AllUp(<<>>, c, b) /\ \A t, k : ~Has(<<>>, t, k)
      BY <3>1, AllFewer, HasOne
    <3> QED
      BY <2>3, <3>1, <3>2 DEF Queued, SameClient, Alike, Sendable
  <2>5. Good(d, a, n, b, s)
    BY <2>3, <2>4, QueueKeeps
  <2> QED
    BY <1>3, <1>4, <1>6, <2>1, <2>5 DEF Done, Handled
<1>7. CASE p.t \in {"PUBACK", "PUBCOMP"}
  <2>1. h = HandlePubackcomp(c, p.mid)
    BY <1>7 DEF PacketHandle
  <2>2. CASE Position(c.out, p.mid) = 0
    <3>1. h = Handled(c, Quiet, Quiet)
      BY <2>1, <2>2 DEF HandlePubackcomp
    <3> QED
      BY <1>3, <1>4, <1>7, <3>1 DEF Done, Handled
  <2>3. CASE Position(c.out, p.mid) # 0
    <3>1. Good(h.c, Reported(a, h.told), n, b, s) /\ h.rc = "success" /\ h.passed = Quiet
      BY <1>2, <1>7, <2>1, <2>3, PubackcompKeeps
    <3>2. PassedOn(Reported(a, h.told), Quiet) = Reported(a, h.told)
      <4>1. Reported(a, h.told) \in App
        BY <3>1 DEF Good, Types
      <4> QED
        BY <4>1, NothingTold
    <3> QED
      BY <1>3, <1>7, <3>1, <3>2 DEF Done
  <2> QED
    BY <2>2, <2>3
<1>8. CASE p.t = "PUBREC"
  <2>1. h = HandlePubrec(c, p.mid)
    BY <1>8 DEF PacketHandle
  <2>2. CASE Position(c.out, p.mid) = 0
    <3>1. h = [Handled(c, Quiet, Quiet) EXCEPT !.rc = "not_found"]
      BY <2>1, <2>2 DEF HandlePubrec
    <3>2. ~In(c, p.mid)
      BY <1>1, <2>2, PositionIs DEF In, Mosq
    <3>3. s.late
      <4>1. SUFFICES ASSUME ~s.late PROVE FALSE
        BY <1>1 DEF Seen
      <4>2. p.mid \in 1..c.last_mid /\ Qos[Name(p.mid)] = 2
        BY <1>2, <1>8 DEF DownOK
      <4>3. Outwards(p.mid, c, n, b, s)
        BY <4>1, <4>2 DEF Good, Order
      <4>4. Has(n.down, "PUBREC", p.mid)
        BY <1>1, <1>2, <1>8, ReadHas
      <4> QED
        BY <3>2, <4>3, <4>4 DEF Outwards
    <3> QED
      BY <1>3, <1>8, <3>1, <3>3 DEF Handled
  <2>3. CASE Position(c.out, p.mid) # 0
    <3>1. Good(h.c, a, n, b, s) /\ h.rc = "success" /\ h.told = Quiet /\ h.passed = Quiet
      BY <1>2, <1>8, <2>1, <2>3, PubrecKeeps
    <3> QED
      BY <1>3, <1>4, <1>8, <3>1 DEF Done
  <2> QED
    BY <2>2, <2>3
<1>9. CASE p.t = "PUBLISH"
  <2>1. h = HandlePublish(c, p.mid, p.m)
    BY <1>9 DEF PacketHandle
  <2>2. /\ Good(h.c, a, n, b, Marked(s, Overwritten(c, p)))
        /\ h.rc = "success" /\ h.told = Quiet /\ h.passed = Quiet
    BY <1>9, <2>1, PublishKeeps
  <2> QED
    BY <1>4, <2>2 DEF Done
<1>10. CASE p.t = "PUBREL"
  <2>1. h = HandlePubrel(c, p.mid)
    BY <1>10 DEF PacketHandle
  <2>2. Good(h.c, PassedOn(a, h.passed), n, b, s) /\ h.rc = "success" /\ h.told = Quiet
    BY <1>2, <1>10, <2>1, PubrelInv
  <2> QED
    BY <1>3, <1>4, <1>10, <2>2 DEF Done
<1> QED
  BY <1>2, <1>5, <1>6, <1>7, <1>8, <1>9, <1>10 DEF DownTypes

\* the connection is closed, or stays
Closing(c, x) == [c EXCEPT !.sock = x]

LEMMA ClosingIs ==
  ASSUME NEW c \in Mosq, NEW x \in BOOLEAN
  PROVE  LET d == Closing(c, x)
         IN  /\ d \in Mosq /\ d.out = c.out /\ d.in = c.in /\ d.packets = c.packets /\ d.sock = x
             /\ d.last_mid = c.last_mid /\ d.inflight = c.inflight /\ d.state = c.state
             /\ SameClient(c, d)
<1>1. PICK d : d = Closing(c, x)
  OBVIOUS
<1>2. /\ d \in Mosq /\ d.out = c.out /\ d.in = c.in /\ d.packets = c.packets /\ d.sock = x
      /\ d.last_mid = c.last_mid /\ d.inflight = c.inflight /\ d.state = c.state
  BY <1>1 DEF Closing, Mosq
<1>3. SameClient(c, d)
  BY <1>2 DEF SameClient, Alike
<1> QED
  BY <1>1, <1>2, <1>3

\* what a step does that is not about messages
LEMMA ReadMore ==
  ASSUME NEW c, NEW a, NEW n, NEW b, NEW s, NEW x \in BOOLEAN, Good(c, a, n, b, s),
         x => c.sock, n.down # <<>>
  PROVE  Good(Closing(c, x), a, [n EXCEPT !.down = Tail(n.down)], b, s)
<1> DEFINE d == Closing(c, x)
           n2 == [n EXCEPT !.down = Tail(n.down)]
<1>1. c \in Mosq /\ a \in App /\ n \in Net /\ b \in Broker /\ s \in Seen
  BY DEF Good, Types
<1>2. n.down \in Seq(DownPacket) /\ Tail(n.down) \in Seq(DownPacket)
  <2>1. n.down \in Seq(DownPacket)
    BY <1>1 DEF Net
  <2> QED
    BY <2>1
<1>3. n2 \in Net /\ n2.up = n.up /\ n2.down = Tail(n.down)
  BY <1>1, <1>2 DEF Net
<1>4. d \in Mosq /\ d.packets = c.packets /\ d.sock = x /\ SameClient(c, d)
  BY <1>1, ClosingIs
<1> HIDE DEF d, n2
<1>5. SameApp(a, a) /\ SameBroker(b, b) /\ SameSeen(s, s)
  BY <1>1 DEF SameApp, SameBroker, SameSeen, Good, Calls
<1>6. LessSent(c, n, d, n2)
  <2>1. c.packets \in Seq(UpPacket) /\ n.up \in Seq(UpPacket)
    BY <1>1 DEF Mosq, Net
  <2> QED
    BY <1>2, <1>3, <1>4, <2>1, FewerFacts DEF LessSent
<1>7. AllUp(d.packets, c, b) /\ AllUp(n2.up, c, b) /\ AllDown(n2.down, c, b)
  BY <1>2, <1>3, <1>4, AllFewer DEF Good
<1>8. b.met
  BY DEF Good
<1>9. Good(d, a, n2, b, s)
  BY <1>1, <1>3, <1>4, <1>5, <1>6, <1>7, <1>8, Less DEF Types
<1> QED
  BY <1>9 DEF d, n2

LEMMA ReadStep ==
  ASSUME Inv, Read
  PROVE  Inv'
<1> DEFINE p == Head(net.down)
           h == PacketHandle(mosq, p)
           a2 == PassedOn(Reported(app, h.told), h.passed)
           s2 == Marked(seen, Overwritten(mosq, p))
           n2 == [net EXCEPT !.down = Tail(net.down)]
<1>1. /\ Good(mosq, app, net, broker, seen) /\ mosq.sock /\ loop = "loop" /\ net.down # <<>>
      /\ mosq \in Mosq /\ app \in App /\ seen \in Seen /\ net \in Net
  BY DEF Inv, Read, Running, Good, Types
<1>2. \/ Done(mosq, app, net, broker, seen, p, h)
      \/ /\ h.rc = "not_found" /\ h.c = mosq /\ h.told = Quiet /\ h.passed = Quiet
         /\ seen.late /\ s2 = seen
  BY <1>1, HandleInv
<1>3. app' = a2
  <2> DEFINE t == [m \in Msg |-> app.told[m] + IF m = h.told THEN 1 ELSE 0]
             u == [i \in Inbound |-> app.passed[i] + IF i = h.passed THEN 1 ELSE 0]
  <2>1. app' = [app EXCEPT !.told = t, !.passed = u]
    BY DEF Read
  <2>2. a2 = [[app EXCEPT !.told = t] EXCEPT !.passed = u]
    <3>1. Reported(app, h.told) = [app EXCEPT !.told = t]
      BY DEF Reported
    <3>2. [app EXCEPT !.told = t].passed = app.passed
      <4> HIDE DEF t
      <4> QED
        BY <1>1 DEF App
    <3> HIDE DEF t
    <3> QED
      BY <3>1, <3>2 DEF PassedOn
  <2> HIDE DEF t, u, h, a2
  <2> QED
    BY <1>1, <2>1, <2>2 DEF App
<1>4. seen' = s2
  BY DEF Read, Marked, Overwritten
<1>5. net' = n2 /\ broker' = broker
  BY DEF Read
<1>6. mosq' = IF h.rc = "not_found" THEN Closing(h.c, FALSE) ELSE h.c
  BY DEF Read, Closing
<1>7. loop' = CASE h.rc = "accepted" -> "connack"
                [] h.rc = "not_found" /\ mosq.state # "disconnecting" -> "gave up"
                [] OTHER -> loop
  BY DEF Read
<1> HIDE DEF p, h, s2, a2
<1>8. Good(mosq', a2, n2, broker, s2) /\ (loop' \in {"loop", "connack"} \/ (loop' = "gave up" /\ s2.late))
  <2>1. CASE Done(mosq, app, net, broker, seen, p, h)
    <3>1. h.rc # "not_found" /\ Good(h.c, a2, net, broker, s2)
      BY <2>1 DEF Done, a2, s2
    <3>2. h.c \in Mosq /\ h.c.sock \in BOOLEAN /\ Closing(h.c, h.c.sock) = h.c
      BY <3>1 DEF Good, Types, Mosq, Closing
    <3>3. Good(h.c, a2, n2, broker, s2)
      BY <1>1, <3>1, <3>2, ReadMore
    <3> QED
      BY <1>1, <1>6, <1>7, <3>1, <3>3
  <2>2. CASE /\ h.rc = "not_found" /\ h.c = mosq /\ h.told = Quiet /\ h.passed = Quiet
             /\ seen.late /\ s2 = seen
    <3>1. a2 = app
      BY <1>1, <2>2, NothingTold DEF a2
    <3>2. Good(Closing(mosq, FALSE), app, n2, broker, seen)
      BY <1>1, ReadMore
    <3> QED
      BY <1>1, <1>6, <1>7, <2>2, <3>1, <3>2
  <2> QED
    BY <1>2, <2>1, <2>2
<1>9. Place(loop', mosq', s2)
  BY <1>8 DEF Place
<1> QED
  BY <1>3, <1>4, <1>5, <1>8, <1>9 DEF Inv

------------------------------------------------------------------------------
\* Steps that move no message.

LEMMA Selves ==
  ASSUME NEW c, NEW a, NEW n, NEW b, NEW s, Good(c, a, n, b, s)
  PROVE  SameClient(c, c) /\ SameApp(a, a) /\ SameBroker(b, b) /\ SameSeen(s, s)
BY DEF SameClient, Alike, SameApp, SameBroker, SameSeen, Good, Calls

LEMMA StillGood ==
  ASSUME NEW c, NEW d \in Mosq, NEW a, NEW a2 \in App, NEW n, NEW b, NEW s, NEW s2 \in Seen,
         Good(c, a, n, b, s), SameClient(c, d), d.packets = c.packets, d.sock => c.sock,
         SameApp(a, a2), SameSeen(s, s2)
  PROVE  Good(d, a2, n, b, s2)
<1>1. c \in Mosq /\ a \in App /\ n \in Net /\ b \in Broker /\ s \in Seen
  BY DEF Good, Types
<1>2. c.packets \in Seq(UpPacket) /\ n.up \in Seq(UpPacket) /\ n.down \in Seq(DownPacket)
  BY <1>1 DEF Mosq, Net
<1>3. LessSent(c, n, d, n)
  BY <1>2, FewerFacts DEF LessSent
<1>4. AllUp(d.packets, c, b) /\ AllUp(n.up, c, b) /\ AllDown(n.down, c, b) /\ (b.met \/ n.down = <<>>)
  BY DEF Good
<1>5. SameBroker(b, b)
  BY DEF SameBroker
<1> QED
  BY <1>1, <1>3, <1>4, <1>5, Less DEF Types

LEMMA ConnLostStep ==
  ASSUME Inv, ConnLost
  PROVE  Inv'
<1>1. Good(mosq, app, net, broker, seen) /\ mosq \in Mosq /\ app \in App /\ seen \in Seen
  BY DEF Inv, Good, Types
<1>2. mosq' = Closing(mosq, FALSE) /\ loop = "loop" /\ UNCHANGED <<loop, app, net, broker, seen>>
  BY DEF ConnLost, Closing, Running
<1>3. mosq' \in Mosq /\ mosq'.packets = mosq.packets /\ ~mosq'.sock /\ SameClient(mosq, mosq')
  BY <1>1, <1>2, ClosingIs
<1>4. Good(mosq', app, net, broker, seen)
  BY <1>1, <1>3, Selves, StillGood
<1> QED
  BY <1>2, <1>4 DEF Inv, Place

LEMMA ExpiredIs ==
  ASSUME NEW silence \in BOOLEAN, seen \in Seen, Expired(silence)
  PROVE  seen' \in Seen /\ SameSeen(seen, seen')
<1>1. CASE seen' = seen
  BY <1>1 DEF SameSeen
<1>2. CASE seen' = [seen EXCEPT !.faults = @ + 1]
  BY <1>2 DEF SameSeen, Seen
<1> QED
  BY <1>1, <1>2 DEF Expired

\* a packet without an identifier
LEMMA PlainKeeps ==
  ASSUME NEW c, NEW a, NEW n, NEW b, NEW s, NEW t \in {"CONNECT", "DISCONNECT", "PINGREQ"},
         Good(c, a, n, b, s)
  PROVE  Good(PacketQueue(c, Plain(t)), a, n, b, s)
<1> DEFINE p == Plain(t)
<1>1. p \in UpPacket /\ p.t = t /\ p.m = "none"
  BY DEF Plain, Packet, UpPacket, UpTypes, Payload
<1> HIDE DEF p
<1>2. UpOK(p, c, b)
  BY <1>1 DEF UpOK
<1>3. Good(PacketQueue(c, p), a, n, b, s)
  BY <1>1, <1>2, PacketKeeps
<1> QED
  BY <1>3 DEF p

LEMMA CheckKeepaliveStep ==
  ASSUME Inv, CheckKeepalive
  PROVE  Inv'
<1>1. Good(mosq, app, net, broker, seen) /\ mosq \in Mosq /\ app \in App /\ seen \in Seen
  BY DEF Inv, Good, Types
<1>2. loop = "loop" /\ UNCHANGED <<loop, app, net, broker>>
  BY DEF CheckKeepalive, Running
<1>3. seen' \in Seen /\ SameSeen(seen, seen')
  <2>1. Expired(Unanswered) /\ Unanswered \in BOOLEAN
    BY DEF CheckKeepalive, Unanswered
  <2> QED
    BY <1>1, <2>1, ExpiredIs
<1>4. CASE mosq' = Closing(mosq, FALSE)
  <2>1. mosq' \in Mosq /\ mosq'.packets = mosq.packets /\ ~mosq'.sock /\ SameClient(mosq, mosq')
    BY <1>1, <1>4, ClosingIs
  <2>2. Good(mosq', app, net, broker, seen')
    BY <1>1, <1>3, <2>1, Selves, StillGood
  <2> QED
    BY <1>2, <2>2 DEF Inv, Place
<1>5. CASE mosq' = [PacketQueue(mosq, Plain("PINGREQ")) EXCEPT !.ping_t = TRUE]
  <2> DEFINE d == PacketQueue(mosq, Plain("PINGREQ"))
  <2>1. Good(d, app, net, broker, seen) /\ mosq' = [d EXCEPT !.ping_t = TRUE]
    BY <1>1, <1>5, PlainKeeps
  <2> HIDE DEF d
  <2>2. /\ mosq' \in Mosq /\ mosq'.packets = d.packets /\ mosq'.sock = d.sock /\ mosq'.out = d.out
        /\ mosq'.in = d.in /\ mosq'.last_mid = d.last_mid /\ mosq'.inflight = d.inflight
    BY <2>1 DEF Good, Types, Mosq
  <2>3. SameClient(d, mosq')
    BY <2>2 DEF SameClient, Alike
  <2>4. Good(mosq', app, net, broker, seen')
    BY <1>1, <1>3, <2>1, <2>2, <2>3, Selves, StillGood
  <2> QED
    BY <1>2, <2>4 DEF Inv, Place
<1> QED
  BY <1>4, <1>5 DEF CheckKeepalive, Closing

LEMMA ConnackAssignStep ==
  ASSUME Inv, ConnackAssign
  PROVE  Inv'
<1>1. Good(mosq, app, net, broker, seen) /\ mosq \in Mosq /\ app \in App /\ seen \in Seen
  BY DEF Inv, Good, Types
<1>2. mosq' = [mosq EXCEPT !.state = "connected"] /\ loop' = "loop" /\ UNCHANGED <<app, net, broker, seen>>
  BY DEF ConnackAssign
<1>3. /\ mosq' \in Mosq /\ mosq'.packets = mosq.packets /\ mosq'.sock = mosq.sock /\ mosq'.out = mosq.out
      /\ mosq'.in = mosq.in /\ mosq'.last_mid = mosq.last_mid /\ mosq'.inflight = mosq.inflight
  BY <1>1, <1>2 DEF Mosq
<1>4. SameClient(mosq, mosq')
  BY <1>3 DEF SameClient, Alike
<1>5. Good(mosq', app, net, broker, seen)
  BY <1>1, <1>3, <1>4, Selves, StillGood
<1> QED
  BY <1>2, <1>5 DEF Inv, Place

LEMMA ClosedStep ==
  ASSUME Inv, Closed
  PROVE  Inv'
BY DEF Inv, Closed, Place

LEMMA SocketConnectStep ==
  ASSUME Inv, SocketConnect
  PROVE  Inv'
<1>1. /\ Good(mosq, app, net, broker, seen) /\ mosq \in Mosq /\ app \in App /\ seen \in Seen
      /\ broker \in Broker
  BY DEF Inv, Good, Types
<1>2. loop = "connecting" /\ mosq.packets = <<>> /\ ~mosq.sock /\ app' = app
  BY DEF SocketConnect, Inv, Place
<1>3. CASE /\ mosq' = [mosq EXCEPT !.sock = TRUE] /\ net' = NewNet
           /\ broker' = [broker EXCEPT !.met = FALSE] /\ loop' = "greeting" /\ seen' = seen
  <2>1. mosq' = Closing(mosq, TRUE)
    BY <1>3 DEF Closing
  <2>2. mosq' \in Mosq /\ mosq'.packets = <<>> /\ mosq'.sock /\ SameClient(mosq, mosq')
    BY <1>1, <1>2, <2>1, ClosingIs
  <2>3. net' \in Net /\ net'.up = <<>> /\ net'.down = <<>>
    BY <1>3 DEF NewNet, Net
  <2>4. broker' \in Broker /\ SameBroker(broker, broker')
    BY <1>1, <1>3 DEF Broker, SameBroker
  <2>5. LessSent(mosq, net, mosq', net')
    <3>1. mosq.packets \in Seq(UpPacket) /\ net.up \in Seq(UpPacket) /\ net.down \in Seq(DownPacket)
      BY <1>1 DEF Mosq, Net, Good, Types
    <3>2. Fewer(<<>>, mosq.packets) /\ Fewer(<<>>, net.up) /\ Fewer(<<>>, net.down)
      BY <3>1, FewerFacts
    <3> QED
      BY <2>2, <2>3, <3>2 DEF LessSent
  <2>6. AllUp(<<>>, mosq, broker) /\ AllDown(<<>>, mosq, broker)
    <3>1. <<>> \in Seq(UpPacket) /\ <<>> \in Seq(DownPacket)
      OBVIOUS
    <3> QED
      BY <3>1, AllFewer
  <2>7. Good(mosq', app, net', broker', seen)
    BY <1>1, <2>2, <2>3, <2>4, <2>5, <2>6, Selves, Less DEF Types
  <2> QED
    BY <1>2, <1>3, <2>7 DEF Inv, Place
<1>4. CASE /\ seen' = [seen EXCEPT !.faults = @ + 1] /\ loop' = "loop"
           /\ UNCHANGED <<mosq, net, broker>>
  <2>1. seen' \in Seen /\ SameSeen(seen, seen')
    BY <1>1, <1>4 DEF Seen, SameSeen
  <2>2. Good(mosq, app, net, broker, seen')
    BY <1>1, <2>1, Selves, StillGood
  <2> QED
    BY <1>2, <1>4, <2>2 DEF Inv, Place
<1> QED
  BY <1>3, <1>4 DEF SocketConnect

LEMMA SendConnectStep ==
  ASSUME Inv, SendConnect
  PROVE  Inv'
<1>1. Good(mosq', app, net, broker, seen)
  BY PlainKeeps DEF Inv, SendConnect
<1> QED
  BY <1>1 DEF Inv, SendConnect, Place

LEMMA DisconnectStep ==
  ASSUME Inv, Disconnect
  PROVE  Inv'
<1>1. Good(mosq, app, net, broker, seen) /\ mosq \in Mosq /\ app \in App /\ seen \in Seen
  BY DEF Inv, Good, Types
<1>2. /\ mosq' = [mosq EXCEPT !.state = "disconnecting"] /\ app.pc = "idle"
      /\ app' = [app EXCEPT !.pc = "disconnect", !.calls = app.calls - 1]
      /\ UNCHANGED <<loop, net, broker, seen>>
  BY DEF Disconnect
<1>3. /\ mosq' \in Mosq /\ mosq'.packets = mosq.packets /\ mosq'.sock = mosq.sock /\ mosq'.out = mosq.out
      /\ mosq'.in = mosq.in /\ mosq'.last_mid = mosq.last_mid /\ mosq'.inflight = mosq.inflight
  BY <1>1, <1>2 DEF Mosq
<1>4. SameClient(mosq, mosq')
  BY <1>3 DEF SameClient, Alike
<1>5. app' \in App /\ SameApp(app, app')
  <2>1. app.calls - 1 \in Int
    BY <1>1 DEF App
  <2> QED
    BY <1>1, <1>2, <2>1 DEF App, SameApp
<1>6. Good(mosq', app', net, broker, seen)
  BY <1>1, <1>3, <1>4, <1>5, Selves, StillGood
<1> QED
  BY <1>2, <1>3, <1>6 DEF Inv, Place

LEMMA DisconnectSendStep ==
  ASSUME Inv, DisconnectSend
  PROVE  Inv'
<1>1. Good(mosq, app, net, broker, seen) /\ mosq \in Mosq /\ app \in App /\ seen \in Seen
  BY DEF Inv, Good, Types
<1>2. app.pc = "disconnect" /\ app' = [app EXCEPT !.pc = "idle"] /\ UNCHANGED <<loop, net, broker, seen>>
  BY DEF DisconnectSend
<1>3. app' \in App /\ SameApp(app, app')
  BY <1>1, <1>2 DEF App, SameApp
<1>4. Good(mosq, app', net, broker, seen)
  BY <1>1, <1>3, Selves, StillGood
<1>5. Good(mosq', app', net, broker, seen)
  BY <1>4, PlainKeeps DEF DisconnectSend
<1>6. Place(loop, mosq', seen)
  BY DEF Inv, Place, DisconnectSend, PacketQueue
<1> QED
  BY <1>2, <1>5, <1>6 DEF Inv

LEMMA BreakStep ==
  ASSUME Inv, NEW how \in {"reset", "silent"}, Break(how)
  PROVE  Inv'
<1>1. /\ Good(mosq, app, net, broker, seen) /\ mosq \in Mosq /\ app \in App /\ seen \in Seen
      /\ broker \in Broker
  BY DEF Inv, Good, Types
<1>2. /\ net' = [up |-> <<>>, down |-> <<>>, link |-> how] /\ seen' = [seen EXCEPT !.faults = seen.faults + 1]
      /\ UNCHANGED <<mosq, loop, app, broker>>
  BY DEF Break
<1>3. seen' \in Seen /\ SameSeen(seen, seen') /\ seen'.late = seen.late
  BY <1>1, <1>2 DEF Seen, SameSeen
<1>4. net' \in Net /\ net'.up = <<>> /\ net'.down = <<>>
  BY <1>2 DEF Net
<1>5. LessSent(mosq, net, mosq, net')
  <2>1. mosq.packets \in Seq(UpPacket) /\ net.up \in Seq(UpPacket) /\ net.down \in Seq(DownPacket)
    BY <1>1 DEF Mosq, Net, Good, Types
  <2>2. Fewer(mosq.packets, mosq.packets) /\ Fewer(<<>>, net.up) /\ Fewer(<<>>, net.down)
    BY <2>1, FewerFacts
  <2> QED
    BY <1>4, <2>2 DEF LessSent
<1>6. AllUp(<<>>, mosq, broker) /\ AllDown(<<>>, mosq, broker) /\ AllUp(mosq.packets, mosq, broker)
  <2>1. <<>> \in Seq(UpPacket) /\ <<>> \in Seq(DownPacket)
    OBVIOUS
  <2> QED
    BY <1>1, <2>1, AllFewer DEF Good
<1>7. Good(mosq, app, net', broker, seen')
  BY <1>1, <1>3, <1>4, <1>5, <1>6, Selves, Less DEF Types
<1> QED
  BY <1>2, <1>3, <1>7 DEF Inv, Place

------------------------------------------------------------------------------
\* One packet is written.

\* r is q with p behind it
Longer(q, p, r) ==
  /\ \A t, k : Has(r, t, k) <=> Has(q, t, k) \/ (p.t = t /\ p.mid = k)
  /\ \A t, u, k : Before(r, t, u, k) <=>
                    Before(q, t, u, k) \/ (Has(q, t, k) /\ p.t = u /\ p.mid = k)

LEMMA OneAfter ==
  ASSUME NEW P, NEW q \in Seq(P), NEW p \in P, NEW r, r = q \o <<p>>
  PROVE  r \in Seq(P) /\ Longer(q, p, r)
<1>1. PICK o : o = <<p>>
  OBVIOUS
<1>2. o \in Seq(P) /\ r = q \o o
  BY <1>1
<1>3. \A t, k : Has(o, t, k) <=> p.t = t /\ p.mid = k
  BY <1>1, HasOne
<1>4. \A t, u, k : ~Before(o, t, u, k)
  BY <1>1, HasOne
<1>5. \A t, k : Has(r, t, k) <=> Has(q, t, k) \/ Has(o, t, k)
  BY <1>2, HasAfter
<1>6. \A t, u, k : Before(r, t, u, k) <=>
                     Before(q, t, u, k) \/ Before(o, t, u, k) \/ (Has(q, t, k) /\ Has(o, u, k))
  BY <1>2, BeforeAfter
<1>7. r \in Seq(P)
  BY <1>2
<1> QED
  BY <1>3, <1>4, <1>5, <1>6, <1>7 DEF Longer

LEMMA MoveOutwards ==
  ASSUME NEW c, NEW d, NEW n, NEW n2, NEW b, NEW s, NEW k,
         c.packets \in Seq(UpPacket), c.packets # <<>>, n.up \in Seq(UpPacket),
         d.packets = Tail(c.packets), n2.up = n.up \o <<Head(c.packets)>>, n2.down = n.down,
         d.out = c.out, d.sock = c.sock, Outwards(k, c, n, b, s)
  PROVE  Outwards(k, d, n2, b, s)
<1> DEFINE p == Head(c.packets)
<1>1. In(d, k) = In(c, k) /\ StateOf(d, k) = StateOf(c, k)
  BY DEF In, StateOf
<1>2. p \in UpPacket /\ <<p>> \in Seq(UpPacket)
  <2>1. p \in UpPacket
    OBVIOUS
  <2> QED
    BY <2>1
<1> HIDE DEF p
<1>3. n2.up = n.up \o <<p>>
  BY DEF p
<1>4. \A t : Has(c.packets, t, k) <=> (p.t = t /\ p.mid = k) \/ Has(d.packets, t, k)
  BY HasHead DEF p
<1>3a. Longer(n.up, p, n2.up)
  BY <1>2, <1>3, OneAfter
<1>5. \A t : Has(n2.up, t, k) <=> Has(n.up, t, k) \/ (p.t = t /\ p.mid = k)
  BY <1>3a DEF Longer
<1>6. Before(d.packets, "PUBREL", "PUBLISH", k) => Before(c.packets, "PUBREL", "PUBLISH", k)
  BY HasHead
<1>7. p.t = "PUBREL" /\ p.mid = k => ~Has(d.packets, "PUBLISH", k)
  <2>1. p.t = "PUBREL" /\ p.mid = k /\ Has(d.packets, "PUBLISH", k)
          => Before(c.packets, "PUBREL", "PUBLISH", k)
    BY HasHead DEF p
  <2> QED
    BY <2>1 DEF Outwards
<1>8. Before(n2.up, "PUBREL", "PUBLISH", k) =>
        \/ Before(n.up, "PUBREL", "PUBLISH", k)
        \/ Has(n.up, "PUBREL", k) /\ p.t = "PUBLISH" /\ p.mid = k
  BY <1>3a DEF Longer
<1>9. ~Before(n2.up, "PUBREL", "PUBLISH", k)
  BY <1>4, <1>8 DEF Outwards
<1>10. Has(n2.up, "PUBREL", k) => ~Has(d.packets, "PUBLISH", k)
  BY <1>4, <1>5, <1>7 DEF Outwards
<1>11. /\ Has(n2.up, "PUBLISH", k) => Has(n.up, "PUBLISH", k) \/ Has(c.packets, "PUBLISH", k)
       /\ Has(n2.up, "PUBREL", k) => Has(n.up, "PUBREL", k) \/ Has(c.packets, "PUBREL", k)
       /\ Has(d.packets, "PUBLISH", k) => Has(c.packets, "PUBLISH", k)
       /\ Has(d.packets, "PUBREL", k) => Has(c.packets, "PUBREL", k)
  BY <1>4, <1>5
<1>12. /\ ~In(c, k) => ~Has(d.packets, "PUBLISH", k) /\ ~Has(n2.up, "PUBLISH", k) /\ ~Has(n2.down, "PUBREC", k)
       /\ Has(n2.down, "PUBCOMP", k) => ~Has(d.packets, "PUBLISH", k) /\ ~Has(n2.up, "PUBLISH", k)
  BY <1>11 DEF Outwards
<1> QED
  BY <1>1, <1>6, <1>9, <1>10, <1>11, <1>12 DEF Outwards

\* the head of packets goes to the broker
LEMMA MoveKeeps ==
  ASSUME NEW c, NEW d \in Mosq, NEW a, NEW n, NEW n2 \in Net, NEW b, NEW s, Good(c, a, n, b, s),
         c.packets # <<>>, d.packets = Tail(c.packets), n2.up = n.up \o <<Head(c.packets)>>,
         n2.down = n.down, SameClient(c, d), d.out = c.out, d.sock = c.sock
  PROVE  Good(d, a, n2, b, s)
<1>1. c \in Mosq /\ a \in App /\ n \in Net /\ b \in Broker /\ s \in Seen
  BY DEF Good, Types
<1>2. /\ c.packets \in Seq(UpPacket) /\ n.up \in Seq(UpPacket) /\ n.down \in Seq(DownPacket)
      /\ c.last_mid \in 0..N /\ d.last_mid = c.last_mid /\ d.inflight = c.inflight /\ c.inflight \in Int
  BY <1>1 DEF Mosq, Net, SameClient
<1>3. \A k : In(d, k) = In(c, k) /\ StateOf(d, k) = StateOf(c, k)
  BY DEF In, StateOf
<1>4. SameApp(a, a)
  BY Selves
<1>5. Entries(d) /\ Calls(d, a)
  BY <1>4, SameEntries, SameCalls DEF Good
<1>6. Account(d, a, b)
  BY <1>2, <1>3, AccountKept DEF Good
<1>7. AllUp(d.packets, d, b) /\ AllUp(n2.up, d, b) /\ AllDown(n2.down, d, b)
  <2>1. AllUp(d.packets, c, b) /\ UpOK(Head(c.packets), c, b) /\ Head(c.packets) \in UpPacket
    BY <1>2, AllFewer DEF Good
  <2>2. <<Head(c.packets)>> \in Seq(UpPacket) /\ AllUp(<<Head(c.packets)>>, c, b)
    <3> DEFINE p == Head(c.packets)
    <3>1. p \in UpPacket /\ UpOK(p, c, b)
      BY <2>1
    <3> HIDE DEF p
    <3>2. DOMAIN <<p>> = {1} /\ <<p>>[1] = p /\ <<p>> \in Seq(UpPacket)
      BY <3>1
    <3>3. AllUp(<<p>>, c, b)
      BY <3>1, <3>2 DEF AllUp
    <3> QED
      BY <3>2, <3>3 DEF p
  <2>3. AllUp(n2.up, c, b)
    BY <1>2, <2>2, UpAfter DEF Good
  <2>4. Later(b, b)
    BY DEF Later
  <2> QED
    BY <1>2, <1>3, <2>1, <2>3, <2>4, UpKept, DownKept DEF Good
<1>8. Window(d, a, n2)
  <2>1. \A k : Transit(d, n2, k) => Transit(c, n, k)
    <3> DEFINE p == Head(c.packets)
    <3>1. p \in UpPacket /\ <<p>> \in Seq(UpPacket)
      <4>1. p \in UpPacket
        BY <1>2
      <4> QED
        BY <4>1
    <3>2. \A t, k : Has(c.packets, t, k) <=> (p.t = t /\ p.mid = k) \/ Has(d.packets, t, k)
      BY <1>2, HasHead
    <3> HIDE DEF p
    <3>3. n2.up = n.up \o <<p>>
      BY DEF p
    <3>4. Longer(n.up, p, n2.up)
      BY <1>2, <3>1, <3>3, OneAfter
    <3> QED
      BY <3>2, <3>4 DEF Transit, Longer
  <2>2. Committed(d, a, n2) \in SUBSET Committed(c, a, n)
    BY <1>3, <2>1 DEF Committed
  <2>3. Waiting(d) \in SUBSET Waiting(c)
    BY <1>3 DEF Waiting
  <2>4. Len(a.todo) \in Nat
    BY <1>1 DEF App
  <2> QED
    BY <1>2, <2>2, <2>3, <2>4, WindowKept DEF Good
<1>9. \A i \in Inbound : Inwards(i, d, a, n2, b, s)
  <2>1. Fewer(n2.down, n.down)
    BY <1>2, FewerFacts
  <2> QED
    BY <2>1, LessInwards DEF Good
<1>10. Order(d, n2, b, s)
  <2>1. \A k \in 1..c.last_mid : Outwards(k, c, n, b, s) => Outwards(k, d, n2, b, s)
    BY <1>2, MoveOutwards
  <2> QED
    BY <1>2, <2>1 DEF Good, Order
<1> QED
  BY <1>1, <1>5, <1>6, <1>7, <1>8, <1>9, <1>10 DEF Good, Types

\* ... or nowhere
LEMMA DropKeeps ==
  ASSUME NEW c, NEW d \in Mosq, NEW a, NEW n, NEW b, NEW s, Good(c, a, n, b, s),
         c.packets # <<>>, d.packets = Tail(c.packets), SameClient(c, d), d.sock = c.sock
  PROVE  Good(d, a, n, b, s)
<1>1. c \in Mosq /\ a \in App /\ n \in Net /\ b \in Broker /\ s \in Seen
  BY DEF Good, Types
<1>2. c.packets \in Seq(UpPacket) /\ n.up \in Seq(UpPacket) /\ n.down \in Seq(DownPacket)
  BY <1>1 DEF Mosq, Net
<1>3. LessSent(c, n, d, n)
  BY <1>2, FewerFacts DEF LessSent
<1>4. AllUp(d.packets, c, b) /\ AllUp(n.up, c, b) /\ AllDown(n.down, c, b) /\ (b.met \/ n.down = <<>>)
  BY <1>2, AllFewer DEF Good
<1> QED
  BY <1>1, <1>3, <1>4, Selves, Less DEF Types

LEMMA WriteStep ==
  ASSUME Inv, Write
  PROVE  Inv'
<1> DEFINE p == Head(mosq.packets)
           x == p.t # "DISCONNECT"
           qos0 == p.m \in Msg /\ Qos[p.m] = 0
           told == [m \in Msg |-> app.told[m] + IF qos0 /\ m = p.m THEN 1 ELSE 0]
           c == Closing(mosq, x)
<1>1. /\ Good(mosq, app, net, broker, seen) /\ mosq \in Mosq /\ app \in App /\ seen \in Seen
      /\ net \in Net /\ mosq.sock /\ loop = "loop" /\ mosq.packets # <<>>
  BY DEF Inv, Good, Types, Write, Running
<1>2. /\ mosq' = [mosq EXCEPT !.packets = Tail(mosq.packets), !.sock = x]
      /\ app' = [app EXCEPT !.told = told]
      /\ net' = IF net.link = "open" THEN [net EXCEPT !.up = Append(net.up, p)] ELSE net
      /\ UNCHANGED <<loop, broker, seen>>
  BY DEF Write
<1>3. app' \in App /\ SameApp(app, app')
  <2>1. told \in [Msg -> Nat] /\ \A m \in Msg : Qos[m] > 0 => told[m] = app.told[m]
    <3>1. app.told \in [Msg -> Nat] /\ Qos \in [Msg -> 0..2]
      BY <1>1, Assumed DEF App
    <3> HIDE DEF p
    <3> QED
      BY <3>1
  <2> HIDE DEF told
  <2> QED
    BY <1>1, <1>2, <2>1 DEF App, SameApp
<1>4. x \in BOOLEAN
  OBVIOUS
<1>5. Tail(mosq.packets) \in Seq(UpPacket) /\ mosq.packets \in Seq(UpPacket) /\ p \in UpPacket
  <2>1. mosq.packets \in Seq(UpPacket)
    BY <1>1 DEF Mosq
  <2> QED
    BY <1>1, <2>1
<1> HIDE DEF x, told
<1>6. /\ c \in Mosq /\ c.packets = mosq.packets /\ c.sock = x /\ SameClient(mosq, c)
      /\ c.out = mosq.out /\ c.in = mosq.in /\ c.last_mid = mosq.last_mid /\ c.inflight = mosq.inflight
  BY <1>1, <1>4, ClosingIs
<1>7. Good(c, app', net, broker, seen)
  BY <1>1, <1>3, <1>6, Selves, StillGood
<1> HIDE DEF c, p
<1>8. /\ mosq' \in Mosq /\ mosq'.packets = Tail(mosq.packets) /\ mosq'.sock = x /\ mosq'.out = mosq.out
      /\ mosq'.in = mosq.in /\ mosq'.last_mid = mosq.last_mid /\ mosq'.inflight = mosq.inflight
  BY <1>1, <1>2, <1>4, <1>5 DEF Mosq
<1>9. SameClient(c, mosq')
  BY <1>6, <1>8 DEF SameClient, Alike
<1>10. Good(mosq', app', net', broker, seen)
  <2>1. CASE net.link = "open"
    <3>1. net' \in Net /\ net'.up = net.up \o <<p>> /\ net'.down = net.down
      <4>1. net.up \in Seq(UpPacket) /\ net' = [net EXCEPT !.up = Append(net.up, p)]
        BY <1>1, <1>2, <2>1 DEF Net
      <4>2. Append(net.up, p) = net.up \o <<p>> /\ Append(net.up, p) \in Seq(UpPacket)
        BY <1>5, <4>1
      <4> QED
        BY <1>1, <4>1, <4>2 DEF Net
    <3>2. c.packets # <<>> /\ p = Head(c.packets)
      BY <1>1, <1>6 DEF p
    <3> QED
      BY <1>6, <1>7, <1>8, <1>9, <3>1, <3>2, MoveKeeps
  <2>2. CASE net.link # "open"
    BY <1>1, <1>2, <1>6, <1>7, <1>8, <1>9, <2>2, DropKeeps
  <2> QED
    BY <2>1, <2>2
<1> QED
  BY <1>1, <1>2, <1>10 DEF Inv, Place

------------------------------------------------------------------------------
\* The broker answers.

\* what the broker may send: acknowledgements of what it reads
Answers(r, c, n, b) ==
  /\ r \in Seq(DownPacket) /\ AllDown(r, c, b)
  /\ \A k : \A t \in {"PUBACK", "PUBREC", "PUBCOMP"} : Has(r, t, k) => Transit(c, n, k)

LEMMA BrokerKeeps ==
  ASSUME NEW c, NEW a, NEW n, NEW n2 \in Net, NEW b, NEW b2 \in Broker, NEW s, NEW r,
         Good(c, a, n, b, s), Answers(r, c, n, b2), Later(b, b2), b2.met,
         Fewer(n2.up, n.up), AllUp(n2.up, c, b), n2.down = n.down \o r, Account(c, a, b2),
         \A i \in Inbound : Inwards(i, c, a, n2, b2, s),
         Order(c, n2, b2, s)
  PROVE  Good(c, a, n2, b2, s)
<1>1. c \in Mosq /\ a \in App /\ n \in Net /\ b \in Broker /\ s \in Seen
  BY DEF Good, Types
<1>2. c.last_mid \in 0..N /\ c.inflight \in Int /\ Len(a.todo) \in Nat /\ n.down \in Seq(DownPacket)
  BY <1>1 DEF Mosq, App, Net
<1>3. AllUp(c.packets, c, b2) /\ AllUp(n2.up, c, b2) /\ AllDown(n.down, c, b2)
  BY <1>2, UpKept, DownKept DEF Good
<1>4. AllDown(n2.down, c, b2)
  BY <1>2, <1>3, DownAfter DEF Answers
<1>5. Window(c, a, n2)
  <2>1. ASSUME NEW k, Transit(c, n2, k) PROVE Transit(c, n, k)
    <3>1. \A t : Has(n2.down, t, k) <=> Has(n.down, t, k) \/ Has(r, t, k)
      BY <1>2, HasAfter DEF Answers
    <3>2. \A t : Has(n2.up, t, k) => Has(n.up, t, k)
      BY DEF Fewer
    <3> QED
      BY <2>1, <3>1, <3>2 DEF Transit, Answers
  <2>2. Committed(c, a, n2) \in SUBSET Committed(c, a, n)
    BY <2>1 DEF Committed
  <2> QED
    BY <1>2, <2>2, WindowKept DEF Good
<1> QED
  BY <1>1, <1>3, <1>4, <1>5 DEF Good, Types

\* what is not about a message leaves its part of the invariant alone
LEMMA OutwardsAside ==
  ASSUME NEW c, NEW n, NEW n2, NEW b, NEW b2, NEW s, NEW k, NEW r,
         n.down \in Seq(DownPacket), r \in Seq(DownPacket),
         Outwards(k, c, n, b, s), Fewer(n2.up, n.up), n2.down = n.down \o r,
         ~Has(r, "PUBREC", k), ~Has(r, "PUBCOMP", k),
         b2.got[Name(k)] = b.got[Name(k)], k \in b2.stored <=> k \in b.stored
  PROVE  Outwards(k, c, n2, b2, s)
<1>1. \A t : Has(n2.down, t, k) <=> Has(n.down, t, k) \/ Has(r, t, k)
  BY HasAfter
<1>2. Before(n2.down, "PUBCOMP", "PUBREC", k) <=>
        \/ Before(n.down, "PUBCOMP", "PUBREC", k) \/ Before(r, "PUBCOMP", "PUBREC", k)
        \/ Has(n.down, "PUBCOMP", k) /\ Has(r, "PUBREC", k)
  BY BeforeAfter
<1>3. ~Before(r, "PUBCOMP", "PUBREC", k)
  BY DEF Before, Has
<1>4. ~Before(n2.down, "PUBCOMP", "PUBREC", k)
  BY <1>2, <1>3 DEF Outwards
<1>5. (Has(n2.up, "PUBLISH", k) => Has(n.up, "PUBLISH", k)) /\ (Has(n2.up, "PUBREL", k) => Has(n.up, "PUBREL", k))
  BY DEF Fewer
<1>6. Before(n2.up, "PUBREL", "PUBLISH", k) => Before(n.up, "PUBREL", "PUBLISH", k)
  BY DEF Fewer
<1>7. (Has(n2.down, "PUBREC", k) <=> Has(n.down, "PUBREC", k)) /\ (Has(n2.down, "PUBCOMP", k) <=> Has(n.down, "PUBCOMP", k))
  BY <1>1
<1> QED
  BY <1>4, <1>5, <1>6, <1>7 DEF Outwards

LEMMA InwardsAside ==
  ASSUME NEW c, NEW a, NEW n, NEW n2, NEW b, NEW b2, NEW s, NEW i \in Inbound, NEW r,
         n.down \in Seq(DownPacket), r \in Seq(DownPacket),
         Inwards(i, c, a, n, b, s), n2.down = n.down \o r,
         ~Has(r, "PUBLISH", InMid[i]), b2.phase[i] = b.phase[i]
  PROVE  Inwards(i, c, a, n2, b2, s)
<1> DEFINE k == InMid[i]
<1>1. \A t : Has(n2.down, t, k) <=> Has(n.down, t, k) \/ Has(r, t, k)
  BY HasAfter
<1>2. Before(n2.down, "PUBREL", "PUBLISH", k) <=>
        \/ Before(n.down, "PUBREL", "PUBLISH", k) \/ Before(r, "PUBREL", "PUBLISH", k)
        \/ Has(n.down, "PUBREL", k) /\ Has(r, "PUBLISH", k)
  BY BeforeAfter
<1>3. ~Before(r, "PUBREL", "PUBLISH", k)
  BY DEF Before, Has
<1>4. ~Before(n2.down, "PUBREL", "PUBLISH", k)
  BY <1>2, <1>3 DEF Inwards
<1>5. Has(n2.down, "PUBLISH", k) <=> Has(n.down, "PUBLISH", k)
  BY <1>1
<1> HIDE DEF k
<1> QED
  BY <1>4, <1>5 DEF Inwards, k

\* the connection after the broker has read p, and answered r
Heard(n, r) == [n EXCEPT !.up = Tail(n.up), !.down = n.down \o r]

LEMMA HeardIs ==
  ASSUME NEW n \in Net, n.up # <<>>, NEW r \in Seq(DownPacket)
  PROVE  LET n2 == Heard(n, r)
         IN  n2 \in Net /\ n2.up = Tail(n.up) /\ n2.down = n.down \o r
<1>1. n.up \in Seq(UpPacket) /\ n.down \in Seq(DownPacket)
  BY DEF Net
<1>2. Tail(n.up) \in Seq(UpPacket) /\ n.down \o r \in Seq(DownPacket)
  BY <1>1
<1> QED
  BY <1>2 DEF Heard, Net

LEMMA HeadUp ==
  ASSUME NEW c, NEW a, NEW n, NEW b, NEW s, NEW p, Good(c, a, n, b, s), n.up # <<>>, p = Head(n.up)
  PROVE  /\ UpOK(p, c, b) /\ p \in UpPacket /\ p.t \in UpTypes /\ p.mid \in Nat
         /\ Fewer(Tail(n.up), n.up) /\ AllUp(Tail(n.up), c, b)
         /\ Has(n.up, p.t, p.mid)
         /\ \A u : Has(Tail(n.up), u, p.mid) => Before(n.up, p.t, u, p.mid)
<1>1. n.up \in Seq(UpPacket)
  BY DEF Good, Types, Net
<1>2. p \in UpPacket
  BY <1>1
<1>3. UpOK(p, c, b) /\ AllUp(Tail(n.up), c, b)
  BY <1>1, AllFewer DEF Good
<1>4. Fewer(Tail(n.up), n.up)
  BY <1>1, FewerFacts
<1>5. Has(n.up, p.t, p.mid) /\ \A u : Has(Tail(n.up), u, p.mid) => Before(n.up, p.t, u, p.mid)
  BY <1>1, HasHead
<1>6. p.t \in UpTypes /\ p.mid \in Nat
  BY <1>2 DEF UpPacket
<1> QED
  BY <1>2, <1>3, <1>4, <1>5, <1>6

LEMMA OrderAside ==
  ASSUME NEW c, NEW a, NEW n, NEW n2, NEW b, NEW b2, NEW s, NEW r,
         Good(c, a, n, b, s), r \in Seq(DownPacket), Fewer(n2.up, n.up), n2.down = n.down \o r,
         \A k \in 1..c.last_mid : Qos[Name(k)] = 2 =>
            \/ Outwards(k, c, n, b, s) => Outwards(k, c, n2, b2, s)
            \/ /\ ~Has(r, "PUBREC", k) /\ ~Has(r, "PUBCOMP", k)
               /\ b2.got[Name(k)] = b.got[Name(k)] /\ (k \in b2.stored <=> k \in b.stored)
  PROVE  Order(c, n2, b2, s)
<1>1. n.down \in Seq(DownPacket)
  BY DEF Good, Types, Net
<1>2. ASSUME NEW k \in 1..c.last_mid, Qos[Name(k)] = 2, Outwards(k, c, n, b, s)
      PROVE  Outwards(k, c, n2, b2, s)
  BY <1>1, <1>2, OutwardsAside
<1> QED
  BY <1>2 DEF Good, Order

\* one answer
Reply(t, k) == <<Packet(t, k, "none")>>

Single(r, t, k) ==
  /\ r \in Seq(DownPacket)
  /\ \A u, j : Has(r, u, j) <=> t = u /\ k = j
  /\ \A c, b : DownOK(Packet(t, k, "none"), c, b) => AllDown(r, c, b)

LEMMA SingleIs ==
  ASSUME NEW t \in DownTypes, NEW k \in Nat
  PROVE  Single(Reply(t, k), t, k)
<1>r. PICK r : r = Reply(t, k)
  OBVIOUS
<1>1. PICK p : p = Packet(t, k, "none")
  OBVIOUS
<1>2. p.t = t /\ p.mid = k /\ p.m = "none"
  BY <1>1 DEF Packet
<1>3. p \in DownPacket
  BY <1>1 DEF Packet, DownPacket, Payload
<1>4. r = <<p>> /\ r \in Seq(DownPacket)
  BY <1>1, <1>3, <1>r DEF Reply
<1>5. \A u, j : Has(r, u, j) <=> t = u /\ k = j
  BY <1>2, <1>4, HasOne
<1>6. DOMAIN r = {1} /\ r[1] = p
  BY <1>4
<1>7. ASSUME NEW c, NEW b, DownOK(p, c, b) PROVE AllDown(r, c, b)
  BY <1>6, <1>7 DEF AllDown
<1> QED
  BY <1>1, <1>4, <1>5, <1>7, <1>r DEF Single

\* PINGREQ
LEMMA PingreqHeard ==
  ASSUME NEW c, NEW a, NEW n, NEW b, NEW s, NEW p, Good(c, a, n, b, s), n.up # <<>>, p = Head(n.up),
         b.met, p.t = "PINGREQ"
  PROVE  Good(c, a, Heard(n, Answer(p, b)), Learn(p, b), s)
<1> DEFINE r == Answer(p, b)
           n2 == Heard(n, r)
<1>1. n \in Net /\ b \in Broker
  BY DEF Good, Types
<1>2. r = Reply("PINGRESP", 0) /\ Learn(p, b) = b
  BY DEF Answer, Learn, Plain, Reply
<1>3. /\ r \in Seq(DownPacket) /\ \A u, k : Has(r, u, k) <=> u = "PINGRESP" /\ k = 0
      /\ AllDown(r, c, b)
  <2>1. DownOK(Packet("PINGRESP", 0, "none"), c, b)
    BY DEF DownOK, Packet
  <2>2. "PINGRESP" \in DownTypes /\ 0 \in Nat
    BY DEF DownTypes
  <2> HIDE DEF r
  <2>3. Single(r, "PINGRESP", 0)
    BY <1>2, <2>2, SingleIs
  <2> QED
    BY <2>1, <2>3 DEF Single
<1> HIDE DEF r
<1>4. n2 \in Net /\ n2.up = Tail(n.up) /\ n2.down = n.down \o r
  BY <1>1, <1>3, HeardIs
<1> HIDE DEF n2
<1>5. Fewer(n2.up, n.up) /\ AllUp(n2.up, c, b)
  BY <1>4, HeadUp
<1>6. Answers(r, c, n, b)
  BY <1>3 DEF Answers
<1>7. Later(b, b)
  BY DEF Later
<1>8. Account(c, a, b)
  BY DEF Good
<1>9. \A i \in Inbound : Inwards(i, c, a, n2, b, s)
  <2>1. n.down \in Seq(DownPacket)
    BY <1>1 DEF Net
  <2> QED
    BY <1>3, <1>4, <2>1, InwardsAside DEF Good
<1>10. Order(c, n2, b, s)
  <2>1. r \in Seq(DownPacket) /\ \A k : ~Has(r, "PUBREC", k) /\ ~Has(r, "PUBCOMP", k)
    BY <1>3
  <2> QED
    BY <1>4, <1>5, <2>1, OrderAside
<1>11. Good(c, a, n2, b, s)
  <2>1. Fewer(n2.up, n.up) /\ AllUp(n2.up, c, b) /\ n2.down = n.down \o r
    BY <1>4, <1>5
  <2> QED
    BY <1>1, <1>4, <1>6, <1>7, <1>8, <1>9, <1>10, <2>1, BrokerKeeps
<1> QED
  BY <1>2, <1>11 DEF n2, r

\* PUBREL of a message of the client
LEMMA PubrelHeard ==
  ASSUME NEW c, NEW a, NEW n, NEW b, NEW s, NEW p, Good(c, a, n, b, s), n.up # <<>>, p = Head(n.up),
         b.met, p.t = "PUBREL"
  PROVE  Good(c, a, Heard(n, Answer(p, b)), Learn(p, b), s)
<1> DEFINE r == Answer(p, b)
           n2 == Heard(n, r)
           k == p.mid
           b2 == [b EXCEPT !.stored = b.stored \ {k}]
<1>1. n \in Net /\ b \in Broker /\ c \in Mosq /\ Entries(c) /\ s \in Seen
  BY DEF Good, Types
<1>2. r = Reply("PUBCOMP", k) /\ Learn(p, b) = b2
  BY DEF Answer, Learn, Reply
<1>3. b2 \in Broker /\ b2.got = b.got /\ b2.phase = b.phase /\ b2.stored = b.stored \ {k} /\ b2.met = b.met
  BY <1>1 DEF Broker
<1>4. /\ k \in 1..c.last_mid /\ Qos[Name(k)] = 2 /\ (In(c, k) => b.got[Name(k)] > 0)
      /\ k \in Nat /\ Has(n.up, "PUBREL", k)
      /\ Has(Tail(n.up), "PUBLISH", k) => Before(n.up, "PUBREL", "PUBLISH", k)
  BY HeadUp DEF UpOK
<1> HIDE DEF k, b2
<1>5. /\ r \in Seq(DownPacket) /\ \A u, j : Has(r, u, j) <=> "PUBCOMP" = u /\ k = j
      /\ AllDown(r, c, b2)
  <2>1. DownOK(Packet("PUBCOMP", k, "none"), c, b2)
    BY <1>3, <1>4 DEF DownOK, Packet
  <2>2. "PUBCOMP" \in DownTypes
    BY DEF DownTypes
  <2> HIDE DEF r
  <2>3. Single(r, "PUBCOMP", k)
    BY <1>2, <1>4, <2>2, SingleIs
  <2> QED
    BY <2>1, <2>3 DEF Single
<1> HIDE DEF r
<1>6. n2 \in Net /\ n2.up = Tail(n.up) /\ n2.down = n.down \o r
  BY <1>1, <1>5, HeardIs
<1> HIDE DEF n2
<1>7. Fewer(n2.up, n.up) /\ AllUp(n2.up, c, b)
  BY <1>6, HeadUp
<1>8. Answers(r, c, n, b2)
  BY <1>4, <1>5 DEF Answers, Transit
<1>9. Later(b, b2)
  BY <1>3 DEF Later
<1>10. Account(c, a, b2)
  BY <1>3 DEF Good, Account
<1>11. n.down \in Seq(DownPacket)
  BY <1>1 DEF Net
<1>12. \A i \in Inbound : Inwards(i, c, a, n2, b2, s)
  BY <1>3, <1>5, <1>6, <1>11, InwardsAside DEF Good
<1>13. ASSUME Outwards(k, c, n, b, s)
       PROVE  Outwards(k, c, n2, b2, s)
  <2>1. \A t : Has(n2.down, t, k) <=> Has(n.down, t, k) \/ t = "PUBCOMP"
    BY <1>5, <1>6, <1>11, HasAfter
  <2>2. Before(n2.down, "PUBCOMP", "PUBREC", k) => Before(n.down, "PUBCOMP", "PUBREC", k)
    <3>1. Before(n2.down, "PUBCOMP", "PUBREC", k) <=>
            \/ Before(n.down, "PUBCOMP", "PUBREC", k) \/ Before(r, "PUBCOMP", "PUBREC", k)
            \/ Has(n.down, "PUBCOMP", k) /\ Has(r, "PUBREC", k)
      BY <1>5, <1>6, <1>11, BeforeAfter
    <3>2. Before(r, "PUBCOMP", "PUBREC", k) => Has(r, "PUBREC", k)
      BY DEF Before, Has
    <3> QED
      BY <1>5, <3>1, <3>2
  <2>3. \A t : Has(n2.up, t, k) => Has(n.up, t, k)
    BY <1>7 DEF Fewer
  <2>4. Before(n2.up, "PUBREL", "PUBLISH", k) => Before(n.up, "PUBREL", "PUBLISH", k)
    BY <1>7 DEF Fewer
  <2>5. ~Has(c.packets, "PUBLISH", k) /\ ~Has(n2.up, "PUBLISH", k)
    BY <1>4, <1>6, <1>13 DEF Outwards
  <2>6. ~(StateOf(c, k) \in {"wait_for_pubrec", "invalid"} /\ (c.sock \/ Name(k) \notin s.redone))
    BY <1>4, <1>13 DEF Outwards
  <2>7. Name(k) \notin s.redone => StateOf(c, k) \in {"wait_for_pubcomp", "gone"}
    <3>1. StateOf(c, k) \in {"wait_for_pubrec", "wait_for_pubcomp", "invalid", "gone"}
      BY <1>1, <1>4, QueueFacts
    <3> QED
      BY <2>6, <3>1
  <2>8. Has(n2.down, "PUBREC", k) => Has(n.down, "PUBREC", k)
    BY <2>1
  <2> QED
    BY <1>3, <1>13, <2>2, <2>3, <2>4, <2>5, <2>6, <2>7, <2>8 DEF Outwards
<1>14. Order(c, n2, b2, s)
  <2>1. \A j \in 1..c.last_mid : j # k => /\ ~Has(r, "PUBREC", j) /\ ~Has(r, "PUBCOMP", j)
                                         /\ j \in b2.stored <=> j \in b.stored
    BY <1>3, <1>5
  <2> QED
    BY <1>3, <1>5, <1>6, <1>7, <1>13, <2>1, OrderAside
<1> QED
  BY <1>2, <1>3, <1>6, <1>7, <1>8, <1>9, <1>10, <1>12, <1>14, BrokerKeeps DEF n2, r

\* PUBREC and PUBCOMP of what the broker publishes
Advanced(b, b2, k) ==
  /\ b2 \in Broker /\ b2.got = b.got /\ b2.stored = b.stored /\ b2.met = b.met
  /\ \A i \in Inbound :
       \/ b2.phase[i] = b.phase[i]
       \/ InMid[i] = k /\ (b2.phase[i] = "done" \/ (b.phase[i] = "sent" /\ b2.phase[i] = "released"))

LEMMA AdvancedKeeps ==
  ASSUME NEW c, NEW a, NEW n, NEW b, NEW b2, NEW s, NEW r, NEW k, Good(c, a, n, b, s), n.up # <<>>, b.met,
         Advanced(b, b2, k), r \in Seq(DownPacket), AllDown(r, c, b2),
         \A u, j : Has(r, u, j) => u = "PUBREL"
  PROVE  Good(c, a, Heard(n, r), b2, s)
<1> DEFINE n2 == Heard(n, r)
<1>1. n \in Net /\ b \in Broker /\ n.down \in Seq(DownPacket)
  BY DEF Good, Types, Net
<1>2. n2 \in Net /\ n2.up = Tail(n.up) /\ n2.down = n.down \o r
  BY <1>1, HeardIs
<1> HIDE DEF n2
<1>3. Fewer(n2.up, n.up) /\ AllUp(n2.up, c, b)
  BY <1>2, HeadUp
<1>4. Answers(r, c, n, b2)
  BY DEF Answers
<1>5. Later(b, b2)
  BY DEF Later, Advanced
<1>6. Account(c, a, b2)
  BY DEF Good, Account, Advanced
<1>7. Order(c, n2, b2, s)
  BY <1>2, <1>3, OrderAside DEF Advanced
<1>8. ASSUME NEW i \in Inbound
      PROVE  Inwards(i, c, a, n2, b2, s)
  <2>1. Inwards(i, c, a, n, b, s)
    BY DEF Good
  <2>2. Inwards(i, c, a, n2, b, s)
    BY <1>1, <1>2, <2>1, InwardsAside
  <2>3. b2.phase[i] = "idle" => b.phase[i] = "idle"
    BY DEF Advanced
  <2>4. b2.phase[i] \in {"idle", "sent"} => b.phase[i] \in {"idle", "sent"}
    BY DEF Advanced
  <2> QED
    BY <2>2, <2>3, <2>4 DEF Inwards
<1>9. Good(c, a, n2, b2, s)
  BY <1>2, <1>3, <1>4, <1>5, <1>6, <1>7, <1>8, BrokerKeeps DEF Advanced
<1> QED
  BY <1>9 DEF n2

LEMMA PubrecHeard ==
  ASSUME NEW c, NEW a, NEW n, NEW b, NEW s, NEW p, Good(c, a, n, b, s), n.up # <<>>, p = Head(n.up),
         b.met, p.t = "PUBREC"
  PROVE  Good(c, a, Heard(n, Answer(p, b)), Learn(p, b), s)
<1> DEFINE r == Answer(p, b)
           k == p.mid
           f == [i \in Inbound |-> IF InMid[i] = k /\ b.phase[i] = "sent" THEN "released" ELSE b.phase[i]]
           b2 == [b EXCEPT !.phase = f]
<1>1. b \in Broker /\ b.phase \in [Inbound -> {"idle", "sent", "released", "done"}]
  BY DEF Good, Types, Broker
<1>2. r = Reply("PUBREL", k) /\ Learn(p, b) = b2
  BY DEF Answer, Learn, Reply
<1>3. k \in Nat /\ \A i \in Inbound : InMid[i] = k => b.phase[i] # "idle"
  BY HeadUp DEF UpOK
<1>4. f \in [Inbound -> {"idle", "sent", "released", "done"}]
  BY <1>1
<1>5. /\ \A i \in Inbound : \/ f[i] = b.phase[i]
                            \/ InMid[i] = k /\ b.phase[i] = "sent" /\ f[i] = "released"
      /\ \A i \in Inbound : InMid[i] = k => f[i] \in {"released", "done"}
  BY <1>1, <1>3
<1> HIDE DEF f, k
<1>6. b2 \in Broker /\ b2.got = b.got /\ b2.stored = b.stored /\ b2.met = b.met /\ b2.phase = f
  BY <1>1, <1>4 DEF Broker
<1> HIDE DEF b2
<1>7. Advanced(b, b2, k)
  BY <1>5, <1>6 DEF Advanced
<1>8. Single(r, "PUBREL", k)
  BY <1>2, <1>3, SingleIs DEF DownTypes
<1>9. AllDown(r, c, b2)
  <2>1. DownOK(Packet("PUBREL", k, "none"), c, b2)
    BY <1>5, <1>6 DEF DownOK, Packet
  <2> QED
    BY <1>8, <2>1 DEF Single
<1> HIDE DEF r
<1>10. r \in Seq(DownPacket) /\ \A u, j : Has(r, u, j) => u = "PUBREL"
  BY <1>8 DEF Single
<1>11. Good(c, a, Heard(n, r), b2, s)
  BY <1>7, <1>9, <1>10, AdvancedKeeps
<1> QED
  BY <1>2, <1>11 DEF r

LEMMA PubcompHeard ==
  ASSUME NEW c, NEW a, NEW n, NEW b, NEW s, NEW p, Good(c, a, n, b, s), n.up # <<>>, p = Head(n.up),
         b.met, p.t = "PUBCOMP"
  PROVE  Good(c, a, Heard(n, Answer(p, b)), Learn(p, b), s)
<1> DEFINE k == p.mid
           f == [i \in Inbound |-> IF InMid[i] = k THEN "done" ELSE b.phase[i]]
           b2 == [b EXCEPT !.phase = f]
<1>1. b \in Broker /\ b.phase \in [Inbound -> {"idle", "sent", "released", "done"}]
  BY DEF Good, Types, Broker
<1>2. Answer(p, b) = <<>> /\ Learn(p, b) = b2
  BY DEF Answer, Learn
<1>3. f \in [Inbound -> {"idle", "sent", "released", "done"}]
  BY <1>1
<1>4. \A i \in Inbound : f[i] = b.phase[i] \/ (InMid[i] = k /\ f[i] = "done")
  BY <1>1
<1> HIDE DEF f, k
<1>5. b2 \in Broker /\ b2.got = b.got /\ b2.stored = b.stored /\ b2.met = b.met /\ b2.phase = f
  BY <1>1, <1>3 DEF Broker
<1> HIDE DEF b2
<1>6. Advanced(b, b2, k)
  BY <1>4, <1>5 DEF Advanced
<1>7. <<>> \in Seq(DownPacket) /\ AllDown(<<>>, c, b2) /\ \A u, j : ~Has(<<>>, u, j)
  <2>1. <<>> \in Seq(DownPacket)
    OBVIOUS
  <2> QED
    BY <2>1, AllFewer, HasOne
<1>8. Good(c, a, Heard(n, <<>>), b2, s)
  BY <1>6, <1>7, AdvancedKeeps
<1> QED
  BY <1>2, <1>8

\* CONNECT: what is unfinished is sent again
Unfinished(p, b, i) ==
  \/ b.phase[i] = "sent" /\ p = Packet("PUBLISH", InMid[i], i)
  \/ b.phase[i] = "released" /\ p = Packet("PUBREL", InMid[i], "none")

LEMMA SetToSeqIs ==
  ASSUME NEW S, IsFiniteSet(S)
  PROVE  SetToSeq(S) \in Seq(S) /\ \A j \in DOMAIN SetToSeq(S) : SetToSeq(S)[j] \in S
<1>1. \E f \in [1..Cardinality(S) -> S] : IsInjective(f)
  BY FS_CardinalityType DEF ExistsBijection, Bijection, Injection
<1>2. SetToSeq(S) \in [1..Cardinality(S) -> S]
  BY <1>1 DEF SetToSeq
<1>3. Cardinality(S) \in Nat
  BY FS_CardinalityType
<1> QED
  BY <1>2, <1>3

LEMMA PendingIs ==
  ASSUME NEW b \in Broker
  PROVE  /\ Pending(b) \in Seq(DownPacket)
         /\ \A j \in DOMAIN Pending(b) : \E i \in Inbound : Unfinished(Pending(b)[j], b, i)
<1> DEFINE W == {i \in Inbound : b.phase[i] \in {"sent", "released"}}
           P(i) == Packet(IF b.phase[i] = "sent" THEN "PUBLISH" ELSE "PUBREL", InMid[i],
                          IF b.phase[i] = "sent" THEN i ELSE "none")
           S == {P(i) : i \in W}
           f == [i \in W |-> P(i)]
<1>1. Pending(b) = SetToSeq(S)
  BY DEF Pending
<1>2. IsFiniteSet(W)
  BY Assumed, FS_Subset
<1>3. f \in Surjection(W, S)
  <2>1. f \in [W -> S] /\ \A p \in S : \E i \in W : f[i] = p
    <3> HIDE DEF P
    <3> QED
      OBVIOUS
  <2> HIDE DEF f, S, W
  <2> QED
    BY <2>1 DEF Surjection
<1>4. IsFiniteSet(S)
  BY <1>2, <1>3, FS_Surjection
<1>5. \A p \in S : p \in DownPacket /\ \E i \in Inbound : Unfinished(p, b, i)
  <2>1. ASSUME NEW i \in W
        PROVE  P(i) \in DownPacket /\ Unfinished(P(i), b, i)
    <3>1. i \in Inbound /\ InMid[i] \in Nat
      BY Assumed
    <3>2. CASE b.phase[i] = "sent"
      BY <3>1, <3>2 DEF Packet, DownPacket, DownTypes, Payload, Unfinished
    <3>3. CASE b.phase[i] = "released"
      BY <3>1, <3>3 DEF Packet, DownPacket, DownTypes, Payload, Unfinished
    <3> QED
      BY <3>2, <3>3
  <2> HIDE DEF P
  <2> QED
    BY <2>1
<1> HIDE DEF S
<1>6. SetToSeq(S) \in Seq(S) /\ \A j \in DOMAIN SetToSeq(S) : SetToSeq(S)[j] \in S
  BY <1>4, SetToSeqIs
<1> QED
  BY <1>1, <1>5, <1>6

LEMMA ConnectHeard ==
  ASSUME NEW c, NEW a, NEW n, NEW b, NEW s, NEW p, Good(c, a, n, b, s), n.up # <<>>, p = Head(n.up),
         n.down = <<>>, p.t = "CONNECT"
  PROVE  Good(c, a, Heard(n, Answer(p, b)), Learn(p, b), s)
<1> DEFINE q == Pending(b)
           o == Reply("CONNACK", 0)
           r == o \o q
           n2 == Heard(n, r)
           b2 == [b EXCEPT !.met = TRUE]
<1>1. n \in Net /\ b \in Broker /\ c \in Mosq
  BY DEF Good, Types
<1>2. Answer(p, b) = r /\ Learn(p, b) = b2
  BY DEF Answer, Learn, Plain, Reply
<1>3. b2 \in Broker /\ b2.got = b.got /\ b2.stored = b.stored /\ b2.phase = b.phase /\ b2.met
  BY <1>1 DEF Broker
<1>4. /\ q \in Seq(DownPacket)
      /\ \A j \in DOMAIN q : \E i \in Inbound : Unfinished(q[j], b, i)
  BY <1>1, PendingIs
<1>5. Single(o, "CONNACK", 0)
  BY SingleIs DEF DownTypes
<1> HIDE DEF q, o, b2
<1>6. o \in Seq(DownPacket) /\ AllDown(o, c, b2) /\ \A u, k : Has(o, u, k) => u = "CONNACK"
  <2>1. DownOK(Packet("CONNACK", 0, "none"), c, b2)
    BY DEF DownOK, Packet
  <2> QED
    BY <1>5, <2>1 DEF Single
<1>7. AllDown(q, c, b2)
  <2>1. ASSUME NEW j \in DOMAIN q
        PROVE  DownOK(q[j], c, b2)
    <3>1. PICK i \in Inbound : Unfinished(q[j], b, i)
      BY <1>4
    <3>2. \A x \in Inbound : InMid[x] = InMid[i] => x = i
      BY Assumed DEF IsInjective
    <3>3. CASE b.phase[i] = "sent" /\ q[j] = Packet("PUBLISH", InMid[i], i)
      BY <1>3, <3>3 DEF DownOK, Packet
    <3>4. CASE b.phase[i] = "released" /\ q[j] = Packet("PUBREL", InMid[i], "none")
      BY <1>3, <3>2, <3>4 DEF DownOK, Packet
    <3> QED
      BY <3>1, <3>3, <3>4 DEF Unfinished
  <2> QED
    BY <2>1 DEF AllDown
<1>8. \A u, k : Has(q, u, k) =>
        \E i \in Inbound : InMid[i] = k /\ (\/ u = "PUBLISH" /\ b.phase[i] = "sent"
                                            \/ u = "PUBREL" /\ b.phase[i] = "released")
  BY <1>4 DEF Has, Unfinished, Packet
<1>9. /\ r \in Seq(DownPacket) /\ AllDown(r, c, b2)
      /\ \A u, k : Has(r, u, k) <=> Has(o, u, k) \/ Has(q, u, k)
  <2>1. r \in Seq(DownPacket)
    BY <1>4, <1>6
  <2> QED
    BY <1>4, <1>6, <1>7, <2>1, DownAfter, HasAfter
<1> HIDE DEF r
<1>10. n2 \in Net /\ n2.up = Tail(n.up) /\ n2.down = n.down \o r
  BY <1>1, <1>9, HeardIs
<1> HIDE DEF n2
<1>11. n2.down = r
  BY <1>9, <1>10
<1>12. Fewer(n2.up, n.up) /\ AllUp(n2.up, c, b)
  BY <1>10, HeadUp
<1>13. \A u, k : Has(r, u, k) => u \in {"CONNACK", "PUBLISH", "PUBREL"}
  BY <1>6, <1>8, <1>9
<1>14. Answers(r, c, n, b2)
  BY <1>9, <1>13 DEF Answers
<1>15. Later(b, b2)
  BY <1>3 DEF Later
<1>16. Account(c, a, b2)
  BY <1>3 DEF Good, Account
<1>17. Order(c, n2, b2, s)
  <2>1. \A k : ~Has(r, "PUBREC", k) /\ ~Has(r, "PUBCOMP", k)
    BY <1>13
  <2>2. \A k : b2.got[Name(k)] = b.got[Name(k)] /\ (k \in b2.stored <=> k \in b.stored)
    BY <1>3
  <2>3. r \in Seq(DownPacket)
    BY <1>9
  <2> QED
    BY <1>10, <1>12, <2>1, <2>2, <2>3, OrderAside
<1>18. ASSUME NEW i \in Inbound
       PROVE  Inwards(i, c, a, n2, b2, s)
  <2>1. Inwards(i, c, a, n, b, s)
    BY DEF Good
  <2>2. \A x \in Inbound : InMid[x] = InMid[i] => x = i
    BY Assumed DEF IsInjective
  <2>3. Has(r, "PUBLISH", InMid[i]) => b.phase[i] = "sent"
    BY <1>6, <1>8, <1>9, <2>2
  <2>4. Has(r, "PUBREL", InMid[i]) => b.phase[i] = "released"
    BY <1>6, <1>8, <1>9, <2>2
  <2>5. ~Before(n2.down, "PUBREL", "PUBLISH", InMid[i])
    <3>1. Before(r, "PUBREL", "PUBLISH", InMid[i]) => Has(r, "PUBREL", InMid[i]) /\ Has(r, "PUBLISH", InMid[i])
      BY DEF Before, Has
    <3> QED
      BY <1>11, <2>3, <2>4, <3>1
  <2> QED
    BY <1>3, <1>11, <2>1, <2>3, <2>5 DEF Inwards
<1>19. Good(c, a, n2, b2, s)
  BY <1>3, <1>10, <1>12, <1>14, <1>15, <1>16, <1>17, <1>18, BrokerKeeps
<1> QED
  BY <1>2, <1>19 DEF n2

\* PUBLISH: the broker has the message, once unless it was told to forget the identifier
Published(b, b2, k, m) ==
  /\ b2 \in Broker /\ b2.phase = b.phase /\ b2.met = b.met
  /\ \A x \in Msg : x # m => b2.got[x] = b.got[x]
  /\ IF m \in Msg /\ (Qos[m] # 2 \/ k \notin b.stored)
     THEN /\ b2.got[m] = IF b.got[m] = 2 THEN 2 ELSE b.got[m] + 1
          /\ b2.stored = IF Qos[m] = 2 THEN b.stored \cup {k} ELSE b.stored
     ELSE b2.got = b.got /\ b2.stored = b.stored

LEMMA LearnPublish ==
  ASSUME NEW b \in Broker, NEW p, p.t = "PUBLISH", p.mid \in 1..N
  PROVE  Published(b, Learn(p, b), p.mid, p.m)
<1> DEFINE m == p.m
           k == p.mid
           b2 == Learn(p, b)
<1>1. /\ b.got \in [Msg -> 0..2] /\ b.stored \in SUBSET (1..N)
  BY DEF Broker
<1>2. CASE m \in Msg /\ (Qos[m] # 2 \/ k \notin b.stored)
  <2> DEFINE v == IF b.got[m] = 2 THEN 2 ELSE b.got[m] + 1
             g == [b.got EXCEPT ![m] = v]
             S == IF Qos[m] = 2 THEN b.stored \cup {k} ELSE b.stored
  <2>1. b2 = [b EXCEPT !.got = g, !.stored = S]
    BY <1>2 DEF Learn, Broker
  <2>2. g \in [Msg -> 0..2] /\ g[m] = v /\ \A x \in Msg : x # m => g[x] = b.got[x]
    BY <1>1, <1>2
  <2>3. S \in SUBSET (1..N)
    BY <1>1
  <2> HIDE DEF g, S, b2
  <2>4. /\ b2 \in Broker /\ b2.got = g /\ b2.stored = S /\ b2.phase = b.phase /\ b2.met = b.met
    BY <2>1, <2>2, <2>3 DEF Broker
  <2> QED
    BY <1>2, <2>2, <2>4 DEF Published, b2, S
<1>3. CASE ~(m \in Msg /\ (Qos[m] # 2 \/ k \notin b.stored))
  <2>1. b2 = b
    BY <1>3 DEF Learn
  <2> QED
    BY <1>3, <2>1 DEF Published
<1> QED
  BY <1>2, <1>3

\* the answer to it
LEMMA AnswerPublish ==
  ASSUME NEW b, NEW p, NEW k \in 1..N, p.t = "PUBLISH", p.mid = k,
         p.m = Name(k) \/ (Qos[Name(k)] > 0 /\ p.m = Garbage(Qos[Name(k)]))
  PROVE  Answer(p, b) = IF Qos[Name(k)] = 0 THEN <<>>
                        ELSE Reply(IF Qos[Name(k)] = 1 THEN "PUBACK" ELSE "PUBREC", k)
<1>1. Name(k) \in Msg /\ Qos[Name(k)] \in 0..2 /\ Name(k) \notin {"garbage1", "garbage2"}
  BY Names
<1>2. QosOf(p.m) = Qos[Name(k)]
  BY <1>1 DEF QosOf, Garbage
<1> QED
  BY <1>1, <1>2 DEF Answer, Reply

LEMMA PublishedOutwards ==
  ASSUME NEW c, NEW n, NEW n2, NEW b \in Broker, NEW b2, NEW s, NEW k \in 1..N, NEW r,
         n.down \in Seq(DownPacket), r = Reply("PUBREC", k), Qos[Name(k)] = 2,
         Has(n.up, "PUBLISH", k), Published(b, b2, k, Name(k)),
         Outwards(k, c, n, b, s), Fewer(n2.up, n.up), n2.down = n.down \o r
  PROVE  Outwards(k, c, n2, b2, s)
<1>1. k \in Nat /\ "PUBREC" \in DownTypes
  BY Names DEF DownTypes
<1>2. Single(r, "PUBREC", k)
  BY <1>1, SingleIs
<1>3. r \in Seq(DownPacket) /\ \A u : Has(r, u, k) <=> u = "PUBREC"
  BY <1>2 DEF Single
<1>4. \A t : Has(n2.down, t, k) <=> Has(n.down, t, k) \/ t = "PUBREC"
  BY <1>3, HasAfter
<1>5. In(c, k) /\ ~Has(n.down, "PUBCOMP", k)
  BY DEF Outwards
<1>6. ~Before(n2.down, "PUBCOMP", "PUBREC", k)
  <2>1. Before(n2.down, "PUBCOMP", "PUBREC", k) <=>
          \/ Before(n.down, "PUBCOMP", "PUBREC", k) \/ Before(r, "PUBCOMP", "PUBREC", k)
          \/ Has(n.down, "PUBCOMP", k) /\ Has(r, "PUBREC", k)
    BY <1>3, BeforeAfter
  <2>2. Before(r, "PUBCOMP", "PUBREC", k) => Has(r, "PUBCOMP", k)
    BY DEF Before, Has
  <2> QED
    BY <1>3, <1>5, <2>1, <2>2 DEF Outwards
<1>7. Name(k) \in Msg /\ b.got[Name(k)] \in 0..2
  BY Names DEF Broker
<1>8. Name(k) \notin s.redone => b2.got[Name(k)] <= 1 /\ k \in b2.stored
  <2>1. ASSUME Name(k) \notin s.redone
        PROVE  b.got[Name(k)] <= 1 /\ (b.got[Name(k)] = 0 \/ k \in b.stored)
    BY <1>7, <2>1 DEF Outwards
  <2> QED
    BY <1>7, <2>1 DEF Published
<1>9. /\ \A t : Has(n2.up, t, k) => Has(n.up, t, k)
      /\ Before(n2.up, "PUBREL", "PUBLISH", k) => Before(n.up, "PUBREL", "PUBLISH", k)
  BY DEF Fewer
<1>10. ~Has(n2.down, "PUBCOMP", k)
  BY <1>4, <1>5
<1> QED
  BY <1>5, <1>6, <1>8, <1>9, <1>10 DEF Outwards

LEMMA PublishHeard ==
  ASSUME NEW c, NEW a, NEW n, NEW b, NEW s, NEW p, Good(c, a, n, b, s), n.up # <<>>, p = Head(n.up),
         b.met, p.t = "PUBLISH"
  PROVE  Good(c, a, Heard(n, Answer(p, b)), Learn(p, b), s)
<1> DEFINE r == Answer(p, b)
           n2 == Heard(n, r)
           k == p.mid
           m == p.m
           b2 == Learn(p, b)
<1>1. n \in Net /\ b \in Broker /\ c \in Mosq /\ c.last_mid \in 0..N /\ n.down \in Seq(DownPacket)
  BY DEF Good, Types, Net, Mosq
<1>2. /\ k \in 1..c.last_mid
      /\ \/ m = Name(k)
         \/ Qos[Name(k)] > 0 /\ m = Garbage(Qos[Name(k)]) /\ ~In(c, k)
  BY HeadUp DEF UpOK
<1>3. k \in 1..N /\ k \in Nat /\ Has(n.up, "PUBLISH", k)
  BY <1>1, <1>2, Names, HeadUp
<1>4. Published(b, b2, k, m)
  BY <1>1, <1>3, LearnPublish
<1>5. r = IF Qos[Name(k)] = 0 THEN <<>>
          ELSE Reply(IF Qos[Name(k)] = 1 THEN "PUBACK" ELSE "PUBREC", k)
  BY <1>2, <1>3, AnswerPublish
<1>6. Name(k) \in Msg /\ Qos[Name(k)] \in 0..2 /\ (m = Name(k) \/ m \notin Msg)
  BY <1>2, <1>3, Names DEF Garbage
<1> HIDE DEF k, m, b2, r
<1>7. /\ b.got \in [Msg -> 0..2] /\ b2 \in Broker /\ b2.phase = b.phase /\ b2.met
      /\ b2.got \in [Msg -> 0..2]
  BY <1>1, <1>4 DEF Published, Broker
<1>8. \A x \in Msg : b.got[x] > 0 => b2.got[x] > 0
  <2>1. ASSUME NEW x \in Msg, b.got[x] > 0
        PROVE  b2.got[x] > 0
    <3>1. b.got[x] \in 0..2 /\ b2.got[x] \in 0..2
      BY <1>7
    <3> QED
      BY <1>4, <2>1, <3>1 DEF Published
  <2> QED
    BY <2>1
<1>9. m = Name(k) /\ Qos[Name(k)] > 0 => b2.got[Name(k)] > 0
  <2>1. CASE Qos[m] = 2 /\ k \in b.stored
    BY <1>3, <1>8, <1>6, <2>1 DEF Good, Account
  <2>2. CASE ~(Qos[m] = 2 /\ k \in b.stored) /\ m = Name(k)
    <3>1. b.got[m] \in 0..2
      BY <1>6, <1>7, <2>2
    <3> QED
      BY <1>4, <1>6, <2>2, <3>1 DEF Published
  <2> QED
    BY <2>1, <2>2
<1>10. \A x \in Msg : x # Name(k) => b2.got[x] = b.got[x]
  BY <1>4, <1>6 DEF Published
<1>11. \A j : j # k => (j \in b2.stored <=> j \in b.stored)
  BY <1>4 DEF Published
<1>12. k \in b2.stored => k \in b.stored \/ (m = Name(k) /\ Qos[Name(k)] = 2)
  BY <1>4, <1>6 DEF Published
<1>13. Later(b, b2)
  BY <1>7, <1>8 DEF Later
<1>14. /\ r \in Seq(DownPacket) /\ AllDown(r, c, b2)
       /\ \A u, j : Has(r, u, j) => u \in {"PUBACK", "PUBREC"} /\ j = k
  <2>1. CASE Qos[Name(k)] = 0
    <3>1. r = <<>> /\ r \in Seq(DownPacket)
      BY <1>5, <2>1
    <3> QED
      BY <3>1, AllFewer, HasOne
  <2>2. CASE Qos[Name(k)] # 0
    <3>1. PICK t : t = IF Qos[Name(k)] = 1 THEN "PUBACK" ELSE "PUBREC"
      OBVIOUS
    <3>2. t \in DownTypes /\ t \in {"PUBACK", "PUBREC"} /\ r = Reply(t, k)
      BY <1>5, <2>2, <3>1 DEF DownTypes
    <3>3. Single(r, t, k)
      BY <1>3, <3>2, SingleIs
    <3>4. DownOK(Packet(t, k, "none"), c, b2)
      <4>1. In(c, k) => b2.got[Name(k)] > 0
        BY <1>2, <1>6, <1>9, <2>2 DEF k, m
      <4>2. k \in 1..c.last_mid /\ Qos[Name(k)] = IF t = "PUBACK" THEN 1 ELSE 2
        BY <1>2, <1>6, <2>2, <3>1 DEF k
      <4> QED
        BY <3>2, <4>1, <4>2 DEF DownOK, Packet
    <3> QED
      BY <3>2, <3>3, <3>4 DEF Single
  <2> QED
    BY <2>1, <2>2
<1>15. n2 \in Net /\ n2.up = Tail(n.up) /\ n2.down = n.down \o r
  BY <1>1, <1>14, HeardIs
<1> HIDE DEF n2
<1>16. Fewer(n2.up, n.up) /\ AllUp(n2.up, c, b)
  BY <1>15, HeadUp
<1>17. Answers(r, c, n, b2)
  BY <1>3, <1>14 DEF Answers, Transit
<1>18. Account(c, a, b2)
  <2>1. \A j \in 1..N : Qos[Name(j)] > 0 =>
          /\ a.told[Name(j)] = IF j <= c.last_mid /\ ~In(c, j) THEN 1 ELSE 0
          /\ j <= c.last_mid /\ ~In(c, j) => b2.got[Name(j)] > 0
    BY <1>8, Names DEF Good, Account
  <2>2. \A j \in 1..N : StateOf(c, j) = "wait_for_pubcomp" => b2.got[Name(j)] > 0
    BY <1>8, Names DEF Good, Account
  <2>3. \A j \in b2.stored : j <= c.last_mid /\ Qos[Name(j)] = 2 /\ b2.got[Name(j)] > 0
    <3>1. ASSUME NEW j \in b.stored
          PROVE  j <= c.last_mid /\ Qos[Name(j)] = 2 /\ b2.got[Name(j)] > 0
      <4>1. j \in 1..N
        BY <1>1 DEF Broker
      <4> QED
        BY <1>8, <4>1, Names DEF Good, Account
    <3>2. k <= c.last_mid
      BY <1>1, <1>2 DEF k
    <3> QED
      BY <1>9, <1>11, <1>12, <3>1, <3>2
  <2>4. \A j \in 1..N : j > c.last_mid => b2.got[Name(j)] = 0
    <3>1. ASSUME NEW j \in 1..N, j > c.last_mid
          PROVE  Name(j) \in Msg /\ Name(j) # Name(k)
      <4>1. j # k
        BY <1>1, <1>2, <3>1, Names DEF k
      <4> QED
        BY <1>3, <4>1, Names
    <3> QED
      BY <1>10, <3>1 DEF Good, Account
  <2> QED
    BY <2>1, <2>2, <2>3, <2>4 DEF Account
<1>19. \A i \in Inbound : Inwards(i, c, a, n2, b2, s)
  <2>1. \A j : ~Has(r, "PUBLISH", j)
    BY <1>14
  <2>2. \A i \in Inbound : b2.phase[i] = b.phase[i]
    BY <1>7
  <2>3. r \in Seq(DownPacket)
    BY <1>14
  <2> QED
    BY <1>1, <1>15, <2>1, <2>2, <2>3, InwardsAside DEF Good
<1>20. Order(c, n2, b2, s)
  <2>1. ASSUME NEW j \in 1..c.last_mid, Qos[Name(j)] = 2, Outwards(j, c, n, b, s)
        PROVE  Outwards(j, c, n2, b2, s)
    <3>1. j \in 1..N /\ Name(j) \in Msg
      BY <1>1, Names
    <3>2. CASE j # k
      <4>1. Name(j) # Name(k)
        BY <1>3, <3>1, <3>2, Names
      <4>2. /\ ~Has(r, "PUBREC", j) /\ ~Has(r, "PUBCOMP", j) /\ b2.got[Name(j)] = b.got[Name(j)]
            /\ j \in b2.stored <=> j \in b.stored
        BY <1>10, <1>11, <1>14, <3>1, <3>2, <4>1
      <4>3. r \in Seq(DownPacket)
        BY <1>14
      <4> QED
        BY <1>1, <1>15, <1>16, <2>1, <4>2, <4>3, OutwardsAside
    <3>3. CASE j = k
      <4>1. In(c, k)
        BY <1>3, <2>1, <3>3 DEF Outwards
      <4>2. m = Name(k)
        BY <1>2, <4>1 DEF k, m
      <4>3. r = Reply("PUBREC", k)
        BY <1>5, <2>1, <3>3
      <4> QED
        BY <1>1, <1>3, <1>4, <1>15, <1>16, <2>1, <3>3, <4>2, <4>3, PublishedOutwards
    <3> QED
      BY <3>2, <3>3
  <2> QED
    BY <2>1 DEF Good, Order
<1>21. Good(c, a, n2, b2, s)
  BY <1>7, <1>13, <1>15, <1>16, <1>17, <1>18, <1>19, <1>20, BrokerKeeps
<1> QED
  BY <1>21 DEF n2, r, b2

LEMMA BrokerReadStep ==
  ASSUME Inv, BrokerRead
  PROVE  Inv'
<1> DEFINE p == Head(net.up)
           wrong == broker.met = (p.t = "CONNECT") \/ p.t = "DISCONNECT"
<1>1. /\ Good(mosq, app, net, broker, seen) /\ mosq \in Mosq /\ app \in App /\ seen \in Seen
      /\ broker \in Broker /\ net \in Net /\ net.up # <<>> /\ UNCHANGED <<mosq, loop, app, seen>>
  BY DEF Inv, Good, Types, BrokerRead
<1>2. mosq.packets \in Seq(UpPacket) /\ net.up \in Seq(UpPacket) /\ net.down \in Seq(DownPacket)
  BY <1>1 DEF Mosq, Net
<1>3. CASE wrong
  <2>1. net' = [up |-> <<>>, down |-> net.down, link |-> "reset"] /\ broker' = broker
    BY <1>3 DEF BrokerRead
  <2>2. net' \in Net /\ net'.up = <<>> /\ net'.down = net.down
    BY <1>2, <2>1 DEF Net
  <2>3. LessSent(mosq, net, mosq, net')
    <3>1. Fewer(mosq.packets, mosq.packets) /\ Fewer(<<>>, net.up) /\ Fewer(net.down, net.down)
      BY <1>2, FewerFacts
    <3> QED
      BY <2>2, <3>1 DEF LessSent
  <2>4. AllUp(<<>>, mosq, broker)
    BY <1>2, AllFewer
  <2>5. /\ AllUp(mosq.packets, mosq, broker) /\ AllDown(net.down, mosq, broker)
        /\ (broker.met \/ net.down = <<>>)
    BY <1>1 DEF Good
  <2>6. Good(mosq, app, net', broker, seen)
    BY <1>1, <2>2, <2>3, <2>4, <2>5, Selves, Less DEF Types
  <2> QED
    BY <1>1, <2>1, <2>6 DEF Inv
<1>4. CASE ~wrong
  <2>1. net' = Heard(net, Answer(p, broker)) /\ broker' = Learn(p, broker)
    BY <1>4 DEF BrokerRead, Heard
  <2>2. /\ p.t \in UpTypes \ {"DISCONNECT"}
        /\ broker.met \/ (p.t = "CONNECT" /\ net.down = <<>>)
        /\ p.t # "CONNECT" => broker.met
        /\ p.t = "CONNECT" => net.down = <<>>
    <3>1. p.t \in UpTypes /\ broker.met \in BOOLEAN /\ (broker.met \/ net.down = <<>>)
      BY <1>1, HeadUp DEF Good, Broker
    <3> HIDE DEF p
    <3> QED
      BY <1>4, <3>1
  <2> HIDE DEF p
  <2>3. p = Head(net.up)
    BY DEF p
  <2>4. Good(mosq, app, Heard(net, Answer(p, broker)), Learn(p, broker), seen)
    <3>1. CASE p.t = "CONNECT"
      BY <1>1, <2>2, <2>3, <3>1, ConnectHeard
    <3>2. CASE p.t = "PINGREQ"
      BY <1>1, <2>2, <2>3, <3>2, PingreqHeard
    <3>3. CASE p.t = "PUBLISH"
      BY <1>1, <2>2, <2>3, <3>3, PublishHeard
    <3>4. CASE p.t = "PUBREL"
      BY <1>1, <2>2, <2>3, <3>4, PubrelHeard
    <3>5. CASE p.t = "PUBREC"
      BY <1>1, <2>2, <2>3, <3>5, PubrecHeard
    <3>6. CASE p.t = "PUBCOMP"
      BY <1>1, <2>2, <2>3, <3>6, PubcompHeard
    <3> QED
      BY <2>2, <3>1, <3>2, <3>3, <3>4, <3>5, <3>6 DEF UpTypes
  <2> QED
    BY <1>1, <2>1, <2>4 DEF Inv
<1> QED
  BY <1>3, <1>4

LEMMA BrokerSendStep ==
  ASSUME Inv, NEW i \in Inbound, BrokerSend(i)
  PROVE  Inv'
<1> DEFINE p == Packet("PUBLISH", InMid[i], i)
           r == <<p>>
           f == [broker.phase EXCEPT ![i] = "sent"]
<1>1. /\ Good(mosq, app, net, broker, seen) /\ mosq \in Mosq /\ app \in App /\ seen \in Seen
      /\ broker \in Broker /\ net \in Net
      /\ broker.phase \in [Inbound -> {"idle", "sent", "released", "done"}]
      /\ net.up \in Seq(UpPacket) /\ net.down \in Seq(DownPacket)
  BY DEF Inv, Good, Types, Broker, Net
<1>2. /\ broker.met /\ broker.phase[i] = "idle" /\ net.down = <<>>
      /\ broker' = [broker EXCEPT !.phase = f] /\ net' = [net EXCEPT !.down = Append(net.down, p)]
      /\ UNCHANGED <<mosq, loop, app, seen>>
  BY DEF BrokerSend, Calm
<1>3. p \in DownPacket /\ p.t = "PUBLISH" /\ p.mid = InMid[i] /\ p.m = i
  BY Assumed DEF Packet, DownPacket, DownTypes, Payload
<1>4. f \in [Inbound -> {"idle", "sent", "released", "done"}] /\ f[i] = "sent"
      /\ \A x \in Inbound : x # i => f[x] = broker.phase[x]
  BY <1>1
<1> HIDE DEF p, f
<1>5. r \in Seq(DownPacket) /\ DOMAIN r = {1} /\ r[1] = p
  BY <1>3
<1>6. \A u, k : Has(r, u, k) <=> u = "PUBLISH" /\ k = InMid[i]
  BY <1>3, HasOne
<1>7. net' \in Net /\ net'.up = net.up /\ net'.down = net.down \o r
  <2>1. Append(net.down, p) = net.down \o r /\ net.down \o r \in Seq(DownPacket)
    BY <1>1, <1>3, <1>5
  <2> HIDE DEF r
  <2> QED
    BY <1>1, <1>2, <2>1 DEF Net
<1>8. /\ broker' \in Broker /\ broker'.got = broker.got /\ broker'.stored = broker.stored
      /\ broker'.met /\ broker'.phase = f
  BY <1>1, <1>2, <1>4 DEF Broker
<1>9. AllDown(r, mosq, broker')
  BY <1>3, <1>4, <1>5, <1>8 DEF AllDown, DownOK
<1> HIDE DEF r
<1>10. Answers(r, mosq, net, broker')
  BY <1>5, <1>6, <1>9 DEF Answers
<1>11. Later(broker, broker')
  BY <1>2, <1>4, <1>8 DEF Later
<1>12. Fewer(net'.up, net.up) /\ AllUp(net'.up, mosq, broker)
  BY <1>1, <1>7, FewerFacts DEF Good
<1>13. Account(mosq, app, broker')
  BY <1>1, <1>8 DEF Good, Account
<1>14. ASSUME NEW x \in Inbound
       PROVE  Inwards(x, mosq, app, net', broker', seen)
  <2>1. Inwards(x, mosq, app, net, broker, seen)
    BY <1>1 DEF Good
  <2>2. CASE x # i
    <3>1. InMid[x] # InMid[i]
      BY <2>2, Assumed DEF IsInjective
    <3>2. ~Has(r, "PUBLISH", InMid[x]) /\ broker'.phase[x] = broker.phase[x]
      BY <1>4, <1>6, <1>8, <2>2, <3>1
    <3> QED
      BY <1>1, <1>5, <1>7, <2>1, <3>2, InwardsAside
  <2>3. CASE x = i
    <3>1. ~Before(net'.down, "PUBREL", "PUBLISH", InMid[i])
      <4>1. net'.down = r
        BY <1>2, <1>5, <1>7
      <4>2. Before(r, "PUBREL", "PUBLISH", InMid[i]) => Has(r, "PUBREL", InMid[i])
        BY DEF Before, Has
      <4> QED
        BY <1>6, <4>1, <4>2
    <3>2. app.passed[i] = 0 /\ ~Stored(mosq, i)
      BY <1>2, <2>1, <2>3 DEF Inwards
    <3> QED
      BY <1>4, <1>8, <2>1, <2>3, <3>1, <3>2 DEF Inwards
  <2> QED
    BY <2>2, <2>3
<1>15. Order(mosq, net', broker', seen)
  <2>1. \A k : ~Has(r, "PUBREC", k) /\ ~Has(r, "PUBCOMP", k)
    BY <1>6
  <2> QED
    BY <1>1, <1>5, <1>7, <1>8, <1>12, <2>1, OrderAside
<1>16. Good(mosq, app, net', broker', seen)
  BY <1>1, <1>7, <1>8, <1>10, <1>11, <1>12, <1>13, <1>14, <1>15, BrokerKeeps
<1> QED
  BY <1>2, <1>16 DEF Inv

------------------------------------------------------------------------------
\* The application publishes.

LEMMA PublishSendStep ==
  ASSUME Inv, PublishSend
  PROVE  Inv'
<1> DEFINE e == Head(app.sends)
           freed == Position(mosq.out, e.mid) = 0
           late == freed \/ mosq.out[Position(mosq.out, e.mid)].state = "wait_for_pubcomp"
<1>1. /\ Good(mosq, app, net, broker, seen) /\ mosq \in Mosq /\ app \in App /\ seen \in Seen
      /\ app.pc = "send" /\ UNCHANGED <<loop, net, broker>> /\ Entries(mosq)
  BY DEF Inv, Good, Types, PublishSend
<1>2. PICK k \in 1..mosq.last_mid : Qos[Name(k)] > 0 /\ app.sends = <<[mid |-> k, m |-> Name(k)]>>
  BY <1>1 DEF Good, Calls
<1>3. e = [mid |-> k, m |-> Name(k)] /\ Sending(app, k)
  <2>1. PICK o : o = [mid |-> k, m |-> Name(k)]
    OBVIOUS
  <2>2. app.sends = <<o>> /\ Head(<<o>>) = o /\ DOMAIN <<o>> = {1} /\ <<o>>[1] = o /\ o.mid = k
    BY <1>2, <2>1
  <2> QED
    BY <2>1, <2>2 DEF Sending
<1>4. seen' = [seen EXCEPT !.late = seen.late \/ late]
  BY DEF PublishSend
<1>5. PICK m \in {e.m} \cup (IF freed THEN {Garbage(Qos[e.m])} ELSE {}) :
        mosq' = SendPublish(mosq, [e EXCEPT !.m = m])
  BY DEF PublishSend
<1>6. app' = [app EXCEPT !.pc = "idle", !.sends = <<>>]
  BY DEF PublishSend
<1> HIDE DEF e
<1>7. late \in BOOLEAN /\ seen' \in Seen /\ SameSeen(seen, seen') /\ (seen'.late <=> seen.late \/ late)
  <2>1. late \in BOOLEAN
    OBVIOUS
  <2> HIDE DEF late
  <2> QED
    BY <1>1, <1>4, <2>1 DEF Seen, SameSeen
<1>8. Good(mosq, app, net, broker, seen')
  BY <1>1, <1>7, Selves, StillGood
<1>9. freed <=> ~In(mosq, k)
  <2>1. mosq.out \in Seq(Entry) /\ e.mid = k
    BY <1>1, <1>3 DEF Mosq
  <2> QED
    BY <2>1, PositionIs DEF In
<1>10. ~late => StateOf(mosq, k) # "wait_for_pubcomp" /\ In(mosq, k)
  <2>1. mosq.out \in Seq(Entry) /\ e.mid = k
    BY <1>1, <1>3 DEF Mosq
  <2>2. SUFFICES ASSUME ~late
                 PROVE  StateOf(mosq, k) # "wait_for_pubcomp" /\ In(mosq, k)
    OBVIOUS
  <2> DEFINE i == Position(mosq.out, k)
  <2>3. i \in DOMAIN mosq.out /\ mosq.out[i].mid = k
    BY <2>1, <2>2, PositionIs
  <2>4. In(mosq, k) /\ StateOf(mosq, k) = mosq.out[i].state
    BY <1>1, <2>3, EntryAt
  <2> QED
    BY <2>1, <2>2, <2>4
<1> DEFINE f == [e EXCEPT !.m = m]
<1>11. f.mid = k /\ f.m = m
  BY <1>3
<1>12. m = Name(k) \/ (Qos[Name(k)] > 0 /\ m = Garbage(Qos[Name(k)]) /\ ~In(mosq, k))
  <2>1. e.m = Name(k)
    BY <1>3
  <2> QED
    BY <1>2, <1>5, <1>9, <2>1
<1>13. In(mosq, k) => k \in Committed(mosq, app, net)
  BY <1>1, <1>3, QueueFacts DEF Committed
<1>14. ~seen'.late /\ Qos[Name(k)] = 2 => StateOf(mosq, k) \in {"wait_for_pubrec", "invalid"}
  BY <1>1, <1>7, <1>10, QueueFacts
<1> HIDE DEF f, late, freed
<1>15. Good(mosq', app, net, broker, seen')
  <2>1. Good(SendPublish(mosq, f), app, net, broker, seen')
    BY <1>2, <1>8, <1>11, <1>12, <1>13, <1>14, SendPublishKeeps
  <2> QED
    BY <1>5, <2>1 DEF f
<1>16. app' \in App /\ SameApp(app, app')
  <2>1. <<>> \in Seq(Send)
    OBVIOUS
  <2> QED
    BY <1>1, <1>6, <2>1 DEF App, SameApp
<1>17. Good(mosq', app', net, broker, seen')
  BY <1>15, <1>16, <1>7, Selves, StillGood DEF Good, Types
<1>18. Place(loop, mosq', seen')
  <2>1. mosq'.sock = mosq.sock /\ (~mosq.sock => mosq'.packets = mosq.packets)
    BY <1>1, <1>5 DEF SendPublish, PacketQueue, Mosq
  <2> QED
    BY <1>7, <2>1 DEF Inv, Place
<1> QED
  BY <1>1, <1>17, <1>18 DEF Inv

\* the identifier that comes next has left no trace
LEMMA Fresh ==
  ASSUME NEW c, NEW a, NEW n, NEW b, NEW s, NEW k, Good(c, a, n, b, s), k = c.last_mid + 1
  PROVE  /\ ~In(c, k) /\ StateOf(c, k) = "gone" /\ ~Transit(c, n, k) /\ ~Sending(a, k)
         /\ \A t \in {"PUBLISH", "PUBREL"} : ~Has(c.packets, t, k) /\ ~Has(n.up, t, k)
         /\ \A t \in {"PUBACK", "PUBREC", "PUBCOMP"} : ~Has(n.down, t, k)
<1>1. c \in Mosq /\ a \in App /\ Entries(c) /\ c.last_mid \in Nat
  BY Names DEF Good, Types, Mosq
<1>2. k \notin 1..c.last_mid
  BY <1>1
<1>3. ~In(c, k) /\ StateOf(c, k) = "gone"
  BY <1>1, <1>2, QueueFacts
<1>4. \A t \in {"PUBLISH", "PUBREL"} : ~Has(c.packets, t, k) /\ ~Has(n.up, t, k)
  BY <1>2 DEF Good, AllUp, UpOK, Has
<1>5. \A t \in {"PUBACK", "PUBREC", "PUBCOMP"} : ~Has(n.down, t, k)
  BY <1>2 DEF Good, AllDown, DownOK, Has
<1>6. ~Sending(a, k)
  <2>1. CASE a.pc = "send"
    <3>1. PICK j \in 1..c.last_mid : a.sends = <<[mid |-> j, m |-> Name(j)]>>
      BY <2>1 DEF Good, Calls
    <3>2. PICK o : o = [mid |-> j, m |-> Name(j)]
      OBVIOUS
    <3>3. a.sends = <<o>> /\ DOMAIN <<o>> = {1} /\ <<o>>[1] = o /\ o.mid = j
      BY <3>1, <3>2
    <3> QED
      BY <1>2, <3>3 DEF Sending
  <2>2. CASE a.pc # "send"
    <3>1. a.sends = <<>> /\ DOMAIN <<>> = {}
      BY <2>2 DEF Good, Calls
    <3> QED
      BY <3>1 DEF Sending
  <2> QED
    BY <2>1, <2>2
<1> QED
  BY <1>3, <1>4, <1>5, <1>6 DEF Transit

\* ... and belongs to the message at the head
LEMMA NextName ==
  ASSUME NEW c, NEW a, NEW n, NEW b, NEW s, NEW k, Good(c, a, n, b, s), k = c.last_mid + 1, a.todo # <<>>
  PROVE  /\ k \in 1..N /\ k \in 0..N /\ Head(a.todo) = Name(k) /\ Name(k) \in Msg
         /\ Tail(a.todo) \in Seq(Msg) /\ Len(Tail(a.todo)) = N - k /\ Len(a.todo) = N - c.last_mid
         /\ \A i \in 1..Len(Tail(a.todo)) : Tail(a.todo)[i] = Name(k + i)
         /\ 1..k = (1..c.last_mid) \cup {k} /\ c.last_mid \in Nat /\ k \notin 1..c.last_mid
<1>1. a.todo \in Seq(Msg) /\ c.last_mid \in 0..N /\ N \in Nat
  BY Names DEF Good, Types, Mosq, App
<1>2. /\ Len(a.todo) = N - c.last_mid
      /\ \A i \in 1..Len(a.todo) : a.todo[i] = Name(c.last_mid + i)
  BY DEF Good, Calls
<1> DEFINE q == a.todo
           last == c.last_mid
<1> HIDE DEF q, last
<1>3. /\ q \in Seq(Msg) /\ q # <<>> /\ last \in 0..N /\ Len(q) = N - last /\ k = last + 1
      /\ \A i \in 1..Len(q) : q[i] = Name(last + i)
  BY <1>1, <1>2 DEF q, last
<1>4. /\ Len(q) >= 1 /\ Len(q) \in Nat /\ Tail(q) \in Seq(Msg) /\ Len(Tail(q)) = Len(q) - 1
      /\ Head(q) = q[1] /\ \A i \in 1..Len(Tail(q)) : Tail(q)[i] = q[i + 1]
  BY <1>3
<1>5. k \in 1..N /\ Head(q) = Name(k)
  BY <1>1, <1>3, <1>4
<1>6. \A i \in 1..Len(Tail(q)) : Tail(q)[i] = Name(k + i)
  <2>1. ASSUME NEW i \in 1..Len(Tail(q))
        PROVE  Tail(q)[i] = Name(k + i)
    <3>1. i + 1 \in 1..Len(q) /\ last + (i + 1) = k + i
      BY <1>1, <1>3, <1>4
    <3> QED
      BY <1>3, <1>4, <3>1
  <2> QED
    BY <2>1
<1>7. 1..k = (1..last) \cup {k} /\ last \in Nat /\ k \notin 1..last /\ Len(Tail(q)) = N - k
  BY <1>1, <1>3, <1>4
<1>8. k \in 0..N /\ Name(k) \in Msg
  BY <1>1, <1>5, Names
<1> QED
  BY ONLY <1>2, <1>4, <1>5, <1>6, <1>7, <1>8 DEF q, last

\* the order of what is on its way for the others is the same
LEMMA NextOrder ==
  ASSUME NEW c, NEW d, NEW a, NEW n, NEW b, NEW s, NEW k, Good(c, a, n, b, s), k = c.last_mid + 1,
         a.todo # <<>>, d.last_mid = k, d.packets = c.packets, d.sock = c.sock,
         \A j : j # k => (In(d, j) <=> In(c, j)) /\ StateOf(d, j) = StateOf(c, j)
  PROVE  Order(d, n, b, s)
<1>1. b \in Broker /\ c.last_mid \in Nat
  BY Names DEF Good, Types, Mosq
<1>2. k \in 1..N /\ 1..k = (1..c.last_mid) \cup {k} /\ k \notin 1..c.last_mid
  BY NextName
<1>3. Outwards(k, d, n, b, s)
  <2>1. /\ \A t \in {"PUBLISH", "PUBREL"} : ~Has(d.packets, t, k) /\ ~Has(n.up, t, k)
        /\ \A t \in {"PUBACK", "PUBREC", "PUBCOMP"} : ~Has(n.down, t, k)
    BY Fresh
  <2>2. /\ ~Before(d.packets, "PUBREL", "PUBLISH", k) /\ ~Before(n.up, "PUBREL", "PUBLISH", k)
        /\ ~Before(n.down, "PUBCOMP", "PUBREC", k)
    BY <2>1 DEF Before, Has
  <2>3. b.got[Name(k)] = 0
    BY <1>1, <1>2 DEF Good, Account
  <2> QED
    BY <2>1, <2>2, <2>3 DEF Outwards
<1>4. ASSUME NEW j \in 1..c.last_mid, Outwards(j, c, n, b, s)
      PROVE  Outwards(j, d, n, b, s)
  <2>1. j # k
    BY <1>2
  <2> QED
    BY <1>4, <2>1 DEF Outwards
<1> QED
  BY <1>2, <1>3, <1>4 DEF Good, Order

\* QoS 0: nothing is queued
LEMMA ZeroKeeps ==
  ASSUME NEW c, NEW d \in Mosq, NEW a, NEW a2 \in App, NEW n, NEW b, NEW s, NEW k,
         Good(c, a, n, b, s), k = c.last_mid + 1, a.todo # <<>>, Qos[Name(k)] = 0,
         d.out = c.out, d.in = c.in, d.packets = c.packets, d.sock = c.sock, d.inflight = c.inflight,
         d.last_mid = k, a2.todo = Tail(a.todo), a2.handed \in SUBSET (a.handed \cup {Name(k)}),
         a.pc = "idle", a2.pc = "idle", a2.sends = a.sends, a2.told = a.told, a2.passed = a.passed
  PROVE  Good(d, a2, n, b, s)
<1>1. c \in Mosq /\ a \in App /\ n \in Net /\ b \in Broker /\ s \in Seen
  BY DEF Good, Types
<1>2. \A j : (In(d, j) <=> In(c, j)) /\ StateOf(d, j) = StateOf(c, j)
  BY DEF In, StateOf
<1>3. /\ k \in 1..N /\ 1..k = (1..c.last_mid) \cup {k} /\ k \notin 1..c.last_mid /\ c.last_mid \in 0..N
      /\ c.last_mid \in Nat /\ k \in Nat
  BY <1>1, Names, NextName DEF Mosq
<1>4. Entries(d)
  <2>1. \A i \in DOMAIN c.out : c.out[i].mid <= d.last_mid
    <3>1. \A i \in DOMAIN c.out : c.out[i].mid \in 1..c.last_mid
      BY <1>1, EntryAt DEF Good
    <3> QED
      BY <1>3, <3>1
  <2> QED
    BY <2>1 DEF Good, Entries
<1>5. Calls(d, a2)
  <2>1. /\ Len(a2.todo) = N - d.last_mid
        /\ \A i \in 1..Len(a2.todo) : a2.todo[i] = Name(d.last_mid + i)
    BY NextName
  <2>2. a2.handed \subseteq {Name(j) : j \in 1..d.last_mid}
    BY <1>3 DEF Good, Calls
  <2> QED
    BY <2>1, <2>2 DEF Good, Calls
<1>6. Account(d, a2, b)
  <2>1. ASSUME NEW j \in 1..N, Qos[Name(j)] > 0
        PROVE  j <= d.last_mid <=> j <= c.last_mid
    <3>1. j # k
      BY <2>1
    <3> QED
      BY <1>3, <3>1
  <2>2. \A j \in 1..N : Qos[Name(j)] > 0 =>
          /\ a2.told[Name(j)] = IF j <= d.last_mid /\ ~In(d, j) THEN 1 ELSE 0
          /\ j <= d.last_mid /\ ~In(d, j) => b.got[Name(j)] > 0
    BY <1>2, <2>1 DEF Good, Account
  <2>3. \A j \in b.stored : j <= d.last_mid /\ Qos[Name(j)] = 2 /\ b.got[Name(j)] > 0
    <3>1. \A j \in b.stored : j \in 1..N
      BY <1>1 DEF Broker
    <3> QED
      BY <1>3, <3>1 DEF Good, Account
  <2>4. \A j \in 1..N : j > d.last_mid => b.got[Name(j)] = 0
    <3>1. \A j \in 1..N : j > d.last_mid => j > c.last_mid
      BY <1>3
    <3> QED
      BY <3>1 DEF Good, Account
  <2> QED
    BY <1>2, <2>2, <2>3, <2>4 DEF Good, Account
<1>7. AllUp(d.packets, d, b) /\ AllUp(n.up, d, b) /\ AllDown(n.down, d, b)
  <2>1. Later(b, b)
    BY DEF Later
  <2>2. k \in 0..N /\ c.last_mid <= k
    BY <1>3
  <2> QED
    BY <1>2, <1>3, <2>1, <2>2, UpKept, DownKept DEF Good
<1>8. Window(d, a2, n)
  <2>1. \A j : (Transit(d, n, j) <=> Transit(c, n, j)) /\ (Sending(a2, j) <=> Sending(a, j))
    BY DEF Transit, Sending
  <2>2. Committed(d, a2, n) = Committed(c, a, n) /\ Waiting(d) = Waiting(c)
    BY <1>2, <2>1 DEF Committed, Waiting
  <2> DEFINE w == Cardinality(Waiting(c))
             f == c.inflight
             l == Len(a.todo)
             l2 == Len(a2.todo)
             last == c.last_mid
             z == N
  <2>3. f \in Int
    BY <1>1 DEF Mosq
  <2>4. w \in Nat
    BY Sets
  <2>5. z \in Nat
    BY Names
  <2>6. l2 = z - k /\ l = z - last
    BY NextName
  <2>7. f + w + l <= z + z /\ k = last + 1 /\ last \in Nat
    BY <1>3 DEF Good, Window
  <2>8. f + w + l2 <= z + z
    <3> HIDE DEF w, f, l, l2, last, z
    <3> QED
      BY <2>3, <2>4, <2>5, <2>6, <2>7
  <2>9. d.inflight + Cardinality(Waiting(d)) + Len(a2.todo) <= N + N
    BY <2>2, <2>8
  <2> QED
    BY <2>2, <2>9 DEF Good, Window
<1>9. \A i \in Inbound : Inwards(i, d, a2, n, b, s)
  BY DEF Good, Inwards, Stored
<1>10. Order(d, n, b, s)
  BY <1>2, NextOrder
<1> QED
  BY <1>1, <1>4, <1>5, <1>6, <1>7, <1>8, <1>9, <1>10 DEF Good, Types

\* QoS 1 and 2: a message joins the queue, to be sent by the application if there is room
Joins(c, d, a, a2, k, e) ==
  /\ e \in Entry /\ e.mid = k /\ e.m = Name(k)
  /\ d.out = Append(c.out, e) /\ d.in = c.in /\ d.packets = c.packets /\ d.sock = c.sock /\ d.last_mid = k
  /\ a2.todo = Tail(a.todo) /\ a2.handed = a.handed \cup {Name(k)}
  /\ a2.told = a.told /\ a2.passed = a.passed
  /\ \/ /\ Room(c) /\ e.state = FirstState(Qos[Name(k)]) /\ d.inflight = c.inflight + 1
        /\ a2.pc = "send" /\ a2.sends = <<[mid |-> k, m |-> Name(k)]>>
     \/ /\ ~Room(c) /\ e.state = "invalid" /\ d.inflight = c.inflight
        /\ a2.pc = "idle" /\ a2.sends = <<>>

LEMMA JoinsWindow ==
  ASSUME NEW c, NEW d, NEW a, NEW a2, NEW n, NEW b, NEW s, NEW k, NEW e, Good(c, a, n, b, s),
         k = c.last_mid + 1, a.todo # <<>>, a.pc = "idle", Joins(c, d, a, a2, k, e)
  PROVE  Window(d, a2, n)
<1> DEFINE x == Cardinality(Committed(c, a, n))
           y == Cardinality(Committed(d, a2, n))
           w == Cardinality(Waiting(c))
           v == Cardinality(Waiting(d))
           f == c.inflight
           g == d.inflight
           l == Len(a.todo)
           l2 == Len(a2.todo)
           last == c.last_mid
           z == N
           max == max_inflight_messages
<1>1. c \in Mosq /\ a \in App /\ c.out \in Seq(Entry) /\ c.inflight \in Int /\ Distinct(c) /\ e \in Entry
  BY QueueFacts DEF Good, Types, Mosq, Joins
<1>2. ~In(c, k) /\ ~Transit(c, n, k)
  BY Fresh
<1>3. Gains(c, d, e)
  BY <1>1, <1>2, Appended DEF Joins
<1>4. \A j : /\ In(d, j) <=> In(c, j) \/ j = k
             /\ StateOf(d, j) = IF j = k THEN e.state ELSE StateOf(c, j)
  BY <1>3 DEF Gains, Joins
<1>5. \A j : Transit(d, n, j) <=> Transit(c, n, j)
  BY DEF Transit, Joins
<1>6. \A j : Sending(a2, j) => Room(c) /\ j = k
  <2>1. CASE Room(c)
    <3>1. PICK o : o = [mid |-> k, m |-> Name(k)]
      OBVIOUS
    <3>2. a2.sends = <<o>> /\ DOMAIN <<o>> = {1} /\ <<o>>[1] = o /\ o.mid = k
      BY <2>1, <3>1 DEF Joins
    <3> QED
      BY <2>1, <3>2 DEF Sending
  <2>2. CASE ~Room(c)
    <3>1. a2.sends = <<>> /\ DOMAIN <<>> = {}
      BY <2>2 DEF Joins
    <3> QED
      BY <3>1 DEF Sending
  <2> QED
    BY <2>1, <2>2
<1>7. Committed(d, a2, n) \in SUBSET (Committed(c, a, n) \cup {k})
  BY <1>4, <1>5, <1>6 DEF Committed, Joins
<1>8. x <= f /\ (max > 0 => x <= max) /\ f + w + l <= z + z /\ k = last + 1
  BY DEF Good, Window
<1>9. x \in Nat /\ y \in Nat /\ w \in Nat /\ v \in Nat
  BY Sets
<1>10. z \in Nat /\ max \in Nat /\ last \in Nat
  BY Names, Assumed, NextName
<1>11. f \in Int
  BY <1>1
<1>12. l2 = z - k /\ l = z - last
  BY NextName DEF Joins
<1>13. CASE Room(c)
  <2>1. y <= x + 1
    BY <1>7, Sets, OneMore
  <2>2. v <= w
    <3>1. Waiting(d) \in SUBSET Waiting(c)
      BY <1>4, <1>13 DEF Waiting, Joins, FirstState
    <3> QED
      BY <3>1, Sets, Smaller
  <2>3. g = f + 1 /\ (max = 0 \/ f < max)
    BY <1>13 DEF Joins, Room
  <2>4. y <= g /\ (max > 0 => y <= max) /\ g + v + l2 <= z + z
    <3> HIDE DEF x, y, w, v, f, g, l, l2, last, z, max
    <3> QED
      BY <1>8, <1>9, <1>10, <1>11, <1>12, <2>1, <2>2, <2>3
  <2> QED
    BY <2>4 DEF Window
<1>14. CASE ~Room(c)
  <2>1. y <= x
    <3>1. k \notin Committed(d, a2, n)
      BY <1>2, <1>4, <1>5, <1>6, <1>14 DEF Committed, Joins
    <3>2. Committed(d, a2, n) \in SUBSET Committed(c, a, n)
      BY <1>7, <3>1
    <3> QED
      BY <3>2, Sets, Smaller
  <2>2. v <= w + 1
    <3>1. Waiting(d) \in SUBSET (Waiting(c) \cup {k})
      BY <1>4 DEF Waiting
    <3> QED
      BY <3>1, Sets, OneMore
  <2>3. g = f
    BY <1>14 DEF Joins
  <2>4. y <= g /\ (max > 0 => y <= max) /\ g + v + l2 <= z + z
    <3> HIDE DEF x, y, w, v, f, g, l, l2, last, z, max
    <3> QED
      BY <1>8, <1>9, <1>10, <1>11, <1>12, <2>1, <2>2, <2>3
  <2> QED
    BY <2>4 DEF Window
<1> QED
  BY <1>13, <1>14

LEMMA JoinsKeeps ==
  ASSUME NEW c, NEW d \in Mosq, NEW a, NEW a2 \in App, NEW n, NEW b, NEW s, NEW k, NEW e,
         Good(c, a, n, b, s), k = c.last_mid + 1, a.todo # <<>>, a.pc = "idle", Qos[Name(k)] > 0,
         Joins(c, d, a, a2, k, e)
  PROVE  Good(d, a2, n, b, s)
<1>1. c \in Mosq /\ a \in App /\ n \in Net /\ b \in Broker /\ s \in Seen
  BY DEF Good, Types
<1>2. ~In(c, k) /\ Distinct(c) /\ c.out \in Seq(Entry) /\ e \in Entry /\ e.mid = k
  BY <1>1, Fresh, QueueFacts DEF Good, Mosq, Joins
<1>3. Gains(c, d, e)
  BY <1>2, Appended DEF Joins
<1>4. \A j : /\ In(d, j) <=> In(c, j) \/ j = k
             /\ StateOf(d, j) = IF j = k THEN e.state ELSE StateOf(c, j)
  BY <1>2, <1>3 DEF Gains
<1>5. /\ k \in 1..N /\ 1..k = (1..c.last_mid) \cup {k} /\ k \notin 1..c.last_mid /\ c.last_mid \in 0..N
      /\ c.last_mid \in Nat /\ k \in Nat /\ c.last_mid <= k /\ d.last_mid = k /\ k \in 0..N
  BY <1>1, Names, NextName DEF Mosq, Joins
<1>6. Qos[Name(k)] = 1 \/ Qos[Name(k)] = 2
  BY <1>5, Names
<1>7. /\ e.m = Name(k) /\ e.state # "wait_for_pubcomp"
      /\ \/ Qos[Name(k)] = 1 /\ e.state \in {"wait_for_puback", "invalid"}
         \/ Qos[Name(k)] = 2 /\ e.state \in {"wait_for_pubrec", "invalid"}
  BY <1>6 DEF Joins, FirstState
<1>8. Entries(d)
  <2>1. ASSUME NEW i \in DOMAIN d.out
        PROVE  LET x == d.out[i]
               IN  /\ x.mid <= d.last_mid /\ x.m = Name(x.mid)
                   /\ \/ Qos[x.m] = 1 /\ x.state \in {"wait_for_puback", "invalid"}
                      \/ Qos[x.m] = 2 /\ x.state \in {"wait_for_pubrec", "wait_for_pubcomp", "invalid"}
    <3>1. CASE d.out[i] = e
      BY <1>2, <1>5, <1>7, <3>1
    <3>2. CASE i \in DOMAIN c.out /\ d.out[i] = c.out[i]
      <4>1. c.out[i].mid \in 1..c.last_mid
        BY <1>1, <3>2, EntryAt DEF Good
      <4>2. c.out[i].mid <= d.last_mid
        BY <1>5, <4>1
      <4> QED
        BY <3>2, <4>2 DEF Good, Entries
    <3> QED
      BY <1>3, <3>1, <3>2 DEF Gains
  <2>2. d.in = c.in
    BY DEF Joins
  <2> QED
    BY <1>3, <2>1, <2>2 DEF Good, Entries, Gains, Distinct
<1>9. Calls(d, a2)
  <2>1. /\ Len(a2.todo) = N - d.last_mid
        /\ \A i \in 1..Len(a2.todo) : a2.todo[i] = Name(d.last_mid + i)
    BY <1>5, NextName DEF Joins
  <2>2. a2.handed \subseteq {Name(j) : j \in 1..d.last_mid}
    BY <1>5 DEF Good, Calls, Joins
  <2>3. \/ a2.pc = "send" /\ a2.sends = <<[mid |-> k, m |-> Name(k)]>>
        \/ a2.pc = "idle" /\ a2.sends = <<>>
    BY DEF Joins
  <2>4. k \in 1..d.last_mid
    BY <1>5
  <2> QED
    BY <2>1, <2>2, <2>3, <2>4 DEF Calls
<1>10. Account(d, a2, b)
  <2>1. ASSUME NEW j \in 1..N, j # k
        PROVE  j <= d.last_mid <=> j <= c.last_mid
    BY <1>5, <2>1
  <2>2. ~(k <= c.last_mid) /\ a2.told = a.told
    BY <1>5 DEF Joins
  <2>3. \A j \in 1..N : Qos[Name(j)] > 0 =>
          /\ a2.told[Name(j)] = IF j <= d.last_mid /\ ~In(d, j) THEN 1 ELSE 0
          /\ j <= d.last_mid /\ ~In(d, j) => b.got[Name(j)] > 0
    BY <1>4, <2>1, <2>2 DEF Good, Account
  <2>4. \A j \in b.stored : j <= d.last_mid /\ Qos[Name(j)] = 2 /\ b.got[Name(j)] > 0
    <3>1. \A j \in b.stored : j \in 1..N
      BY <1>1 DEF Broker
    <3>2. \A j \in 1..N : j <= c.last_mid => j <= d.last_mid
      BY <1>5
    <3> QED
      BY <3>1, <3>2 DEF Good, Account
  <2>5. \A j \in 1..N : j > d.last_mid => b.got[Name(j)] = 0
    <3>1. \A j \in 1..N : j > d.last_mid => j > c.last_mid
      BY <1>5
    <3> QED
      BY <3>1 DEF Good, Account
  <2>6. \A j \in 1..N : StateOf(d, j) = "wait_for_pubcomp" => b.got[Name(j)] > 0
    BY <1>4, <1>7 DEF Good, Account
  <2> QED
    BY <2>3, <2>4, <2>5, <2>6 DEF Account
<1>11. AllUp(d.packets, d, b) /\ AllUp(n.up, d, b) /\ AllDown(n.down, d, b)
  <2>1. Later(b, b)
    BY DEF Later
  <2>2. \A j \in 1..c.last_mid : In(d, j) => In(c, j)
    BY <1>4, <1>5
  <2>3. AllUp(d.packets, c, b) /\ AllUp(n.up, c, b) /\ AllDown(n.down, c, b)
    BY DEF Good, Joins
  <2> QED
    BY <1>5, <2>1, <2>2, <2>3, UpKept, DownKept
<1>12. Window(d, a2, n)
  BY JoinsWindow
<1>13. \A i \in Inbound : Inwards(i, d, a2, n, b, s)
  BY DEF Good, Inwards, Stored, Joins
<1>14. Order(d, n, b, s)
  <2>1. \A j : j # k => (In(d, j) <=> In(c, j)) /\ StateOf(d, j) = StateOf(c, j)
    BY <1>4
  <2>2. d.last_mid = k /\ d.packets = c.packets /\ d.sock = c.sock
    BY DEF Joins
  <2> QED
    BY <2>1, <2>2, NextOrder
<1>15. b.met \/ n.down = <<>>
  BY DEF Good
<1>16. Types(d, a2, n, b, s)
  BY <1>1 DEF Types
<1> QED
  BY <1>8, <1>9, <1>10, <1>11, <1>12, <1>13, <1>14, <1>15, <1>16 DEF Good

\* the client with another identifier given
Numbered(c, k) == [c EXCEPT !.last_mid = k]

LEMMA NumberedIs ==
  ASSUME NEW c \in Mosq, NEW k \in 0..N
  PROVE  LET d == Numbered(c, k)
         IN  /\ d \in Mosq /\ d.out = c.out /\ d.in = c.in /\ d.packets = c.packets
             /\ d.inflight = c.inflight /\ d.sock = c.sock /\ d.last_mid = k /\ (Room(d) <=> Room(c))
BY DEF Mosq, Numbered, Room

\* mosquitto_publish of the message that is next
LEMMA MessageQueueIs ==
  ASSUME NEW c \in Mosq, NEW k \in 1..N, Qos[Name(k)] > 0
  PROVE  LET d == MessageQueue(c, k, Name(k))
             e == [mid |-> k, m |-> Name(k), due |-> FALSE,
                   state |-> IF Room(c) THEN FirstState(Qos[Name(k)]) ELSE "invalid"]
         IN  /\ d \in Mosq /\ e \in Entry /\ d.out = Append(c.out, e) /\ d.in = c.in
             /\ d.packets = c.packets /\ d.sock = c.sock /\ d.last_mid = c.last_mid
             /\ d.inflight = c.inflight + IF Room(c) THEN 1 ELSE 0
<1> DEFINE e == [mid |-> k, m |-> Name(k), due |-> FALSE,
                 state |-> IF Room(c) THEN FirstState(Qos[Name(k)]) ELSE "invalid"]
           o == Append(c.out, e)
           f == c.inflight + IF Room(c) THEN 1 ELSE 0
<1>1. e \in Entry
  <2>1. Name(k) \in Msg
    BY Names
  <2> QED
    BY <2>1 DEF Entry, FirstState, N
<1>2. MessageQueue(c, k, Name(k)) = WithOut(c, o, f)
  BY DEF MessageQueue, WithOut
<1>3. c.out \in Seq(Entry) /\ c.inflight \in Int
  BY DEF Mosq
<1> HIDE DEF e
<1>4. o \in Seq(Entry) /\ f \in Int
  BY <1>1, <1>3
<1> HIDE DEF o, f
<1>5. LET d == MessageQueue(c, k, Name(k))
      IN  /\ d \in Mosq /\ d.out = o /\ d.in = c.in /\ d.packets = c.packets /\ d.sock = c.sock
          /\ d.last_mid = c.last_mid /\ d.inflight = f
  BY <1>2, <1>4, OutSet
<1> QED
  BY <1>1, <1>5 DEF e, o, f

LEMMA PublishStep ==
  ASSUME Inv, Publish
  PROVE  Inv'
<1> DEFINE k == mosq.last_mid + 1
           m == Head(app.todo)
           c == Numbered(mosq, k)
<1>1. /\ Good(mosq, app, net, broker, seen) /\ mosq \in Mosq /\ app \in App
      /\ app.pc = "idle" /\ app.todo # <<>> /\ UNCHANGED <<loop, net, broker, seen>>
  BY DEF Inv, Good, Types, Publish
<1>2. /\ k \in 1..N /\ k \in 0..N /\ m = Name(k) /\ m \in Msg /\ Tail(app.todo) \in Seq(Msg)
      /\ mosq.last_mid \in Nat /\ k \in 1..k
  BY <1>1, NextName
<1>3. /\ c \in Mosq /\ c.out = mosq.out /\ c.in = mosq.in /\ c.packets = mosq.packets
      /\ c.inflight = mosq.inflight /\ c.sock = mosq.sock /\ c.last_mid = k /\ (Room(c) <=> Room(mosq))
  BY <1>1, <1>2, NumberedIs
<1>4. CASE Qos[m] = 0
  <2> DEFINE e == [mid |-> k, m |-> m]
             h == IF c.sock THEN app.handed \cup {m} ELSE app.handed
  <2>1. mosq' = SendPublish(c, e)
    BY <1>4 DEF Publish, Numbered
  <2>2. app' = [app EXCEPT !.todo = Tail(app.todo), !.handed = h]
    BY <1>4 DEF Publish, Numbered
  <2>3. h \in SUBSET Msg /\ h \in SUBSET (app.handed \cup {Name(k)})
    BY <1>1, <1>2 DEF App
  <2> HIDE DEF h
  <2>4. /\ app' \in App /\ app'.todo = Tail(app.todo) /\ app'.handed = h /\ app'.pc = app.pc
        /\ app'.sends = app.sends /\ app'.told = app.told /\ app'.passed = app.passed
    BY <1>1, <1>2, <2>2, <2>3 DEF App
  <2>5. Good(c, app', net, broker, seen)
    <3>1. Qos[Name(k)] = 0
      BY <1>2, <1>4
    <3> HIDE DEF c
    <3> QED
      BY <1>1, <1>3, <2>3, <2>4, <3>1, ZeroKeeps
  <2>6. /\ e.mid = k /\ e.m = Name(k) /\ Qos[Name(k)] = 0
    BY <1>2, <1>4
  <2>7. ~In(c, k)
    <3>1. ~In(mosq, k)
      BY <1>1, Fresh
    <3> QED
      BY <1>3, <3>1 DEF In
  <2> HIDE DEF c, e, k
  <2>8. Good(SendPublish(c, e), app', net, broker, seen)
    BY <1>2, <1>3, <2>5, <2>6, <2>7, SendPublishKeeps
  <2>9. mosq'.sock = mosq.sock /\ (~mosq.sock => mosq'.packets = mosq.packets)
    BY <1>3, <2>1 DEF SendPublish, PacketQueue, Mosq
  <2> QED
    BY <1>1, <2>1, <2>8, <2>9 DEF Inv, Place
<1>5. CASE Qos[m] # 0
  <2> DEFINE sends == IF Room(c) THEN <<[mid |-> k, m |-> m]>> ELSE <<>>
             pc == IF Room(c) THEN "send" ELSE "idle"
             e == [mid |-> k, m |-> Name(k), due |-> FALSE,
                   state |-> IF Room(c) THEN FirstState(Qos[Name(k)]) ELSE "invalid"]
  <2>1. mosq' = MessageQueue(c, k, m)
    BY <1>5 DEF Publish, Numbered
  <2>2. app' = [app EXCEPT !.todo = Tail(app.todo), !.handed = app.handed \cup {m}, !.pc = pc, !.sends = sends]
    BY <1>5 DEF Publish, Numbered
  <2>3. sends \in Seq(Send) /\ pc \in {"idle", "send", "disconnect"} /\ app.handed \cup {m} \in SUBSET Msg
    <3>1. PICK o : o = [mid |-> k, m |-> m]
      OBVIOUS
    <3>2. o \in Send
      BY <1>2, <3>1 DEF Send
    <3>3. <<o>> \in Seq(Send) /\ <<>> \in Seq(Send)
      BY <3>2
    <3>4. app.handed \in SUBSET Msg
      BY <1>1 DEF App
    <3>5. sends \in Seq(Send)
      BY <3>1, <3>3
    <3> QED
      BY <1>2, <3>4, <3>5
  <2>4. /\ sends = IF Room(mosq) THEN <<[mid |-> k, m |-> Name(k)]>> ELSE <<>>
        /\ pc = IF Room(mosq) THEN "send" ELSE "idle"
    BY <1>2, <1>3
  <2> HIDE DEF sends, pc
  <2>5. /\ app' \in App /\ app'.todo = Tail(app.todo) /\ app'.handed = app.handed \cup {m} /\ app'.pc = pc
        /\ app'.sends = sends /\ app'.told = app.told /\ app'.passed = app.passed
    BY <1>1, <1>2, <2>2, <2>3 DEF App
  <2>6. Qos[Name(k)] > 0
    BY <1>2, <1>5, Names
  <2>7. /\ mosq' \in Mosq /\ e \in Entry /\ mosq'.out = Append(c.out, e) /\ mosq'.in = c.in
        /\ mosq'.packets = c.packets /\ mosq'.sock = c.sock /\ mosq'.last_mid = c.last_mid
        /\ mosq'.inflight = c.inflight + IF Room(c) THEN 1 ELSE 0
    <3>1. mosq' = MessageQueue(c, k, Name(k))
      BY <1>2, <2>1
    <3> HIDE DEF c, k
    <3>2. LET d == MessageQueue(c, k, Name(k))
              o == [mid |-> k, m |-> Name(k), due |-> FALSE,
                    state |-> IF Room(c) THEN FirstState(Qos[Name(k)]) ELSE "invalid"]
          IN  /\ d \in Mosq /\ o \in Entry /\ d.out = Append(c.out, o) /\ d.in = c.in
              /\ d.packets = c.packets /\ d.sock = c.sock /\ d.last_mid = c.last_mid
              /\ d.inflight = c.inflight + IF Room(c) THEN 1 ELSE 0
      BY <1>2, <1>3, <2>6, MessageQueueIs
    <3> QED
      BY <3>1, <3>2
  <2>8. e.mid = k /\ e.m = Name(k) /\ e.state = IF Room(mosq) THEN FirstState(Qos[Name(k)]) ELSE "invalid"
    BY <1>3
  <2>9. mosq.inflight \in Int
    BY <1>1 DEF Mosq
  <2> HIDE DEF c, e
  <2>10. Joins(mosq, mosq', app, app', k, e)
    <3>1. /\ e \in Entry /\ e.mid = k /\ e.m = Name(k)
          /\ mosq'.out = Append(mosq.out, e) /\ mosq'.in = mosq.in /\ mosq'.packets = mosq.packets
          /\ mosq'.sock = mosq.sock /\ mosq'.last_mid = k
      BY <1>3, <2>7, <2>8
    <3>2. app'.handed = app.handed \cup {Name(k)}
      BY <1>2, <2>5
    <3>3. CASE Room(mosq)
      BY <1>3, <2>4, <2>5, <2>7, <2>8, <2>9, <3>1, <3>2, <3>3 DEF Joins
    <3>4. CASE ~Room(mosq)
      BY <1>3, <2>4, <2>5, <2>7, <2>8, <2>9, <3>1, <3>2, <3>4 DEF Joins
    <3> QED
      BY <3>3, <3>4
  <2>11. Good(mosq', app', net, broker, seen)
    <3>1. k = mosq.last_mid + 1
      OBVIOUS
    <3> HIDE DEF k
    <3> QED
      BY <1>1, <2>5, <2>6, <2>7, <2>10, <3>1, JoinsKeeps
  <2> QED
    BY <1>1, <1>3, <2>7, <2>11 DEF Inv, Place
<1> QED
  BY <1>4, <1>5

\* a message that is in the queue is asked for again
LEMMA AgainIs ==
  ASSUME NEW c, NEW a, NEW n, NEW b, NEW s, NEW i \in DOMAIN c.out, Good(c, a, n, b, s),
         c.out[i].state # "invalid"
  PROVE  LET e == c.out[i]
             p == Again(e)
         IN  /\ p \in UpPacket /\ UpOK(p, c, b) /\ p.mid = e.mid /\ e.mid \in Committed(c, a, n)
             /\ p.t = "PUBREL" => StateOf(c, p.mid) = "wait_for_pubcomp"
             /\ p.t = "PUBLISH" => StateOf(c, p.mid) \in {"wait_for_puback", "wait_for_pubrec"}
             /\ p.t \in {"PUBLISH", "PUBREL"}
<1> DEFINE e == c.out[i]
           p == Again(e)
<1>1. c \in Mosq /\ Entries(c)
  BY DEF Good, Types
<1>2. /\ e \in Entry /\ e.mid \in 1..N /\ e.mid \in 1..c.last_mid /\ e.m = Name(e.mid) /\ e.state \in Status
      /\ In(c, e.mid) /\ StateOf(c, e.mid) = e.state /\ e.m \in Msg
  BY <1>1, EntryAt DEF Entry
<1>3. e.mid \in Nat
  BY <1>1, <1>2 DEF Mosq
<1>4. e.mid \in Committed(c, a, n)
  BY <1>2 DEF Committed
<1>5. CASE e.state = "wait_for_pubcomp"
  <2>1. p = Packet("PUBREL", e.mid, "none")
    BY <1>5 DEF Again
  <2>2. p.t = "PUBREL" /\ p.mid = e.mid /\ p.m = "none" /\ p \in UpPacket
    BY <1>3, <2>1 DEF Packet, UpPacket, UpTypes, Payload
  <2>3. Qos[Name(e.mid)] = 2
    BY <1>1, <1>2, <1>5, QueueFacts
  <2>4. b.got[Name(e.mid)] > 0
    BY <1>2, <1>5 DEF Good, Account
  <2> QED
    BY <1>2, <1>4, <1>5, <2>2, <2>3, <2>4 DEF UpOK
<1>6. CASE e.state # "wait_for_pubcomp"
  <2>1. p = Packet("PUBLISH", e.mid, e.m)
    BY <1>6 DEF Again
  <2>2. p.t = "PUBLISH" /\ p.mid = e.mid /\ p.m = e.m /\ p \in UpPacket
    BY <1>2, <1>3, <2>1 DEF Packet, UpPacket, UpTypes, Payload
  <2> QED
    BY <1>2, <1>4, <1>6, <2>2 DEF UpOK, Status
<1> QED
  BY <1>5, <1>6

\* what a retry changes
LEMMA ResendIs ==
  ASSUME NEW c \in Mosq, NEW due \in BOOLEAN
  PROVE  LET d == Resend(c, due)
             outs == Those(c.out, {i \in DOMAIN c.out : c.out[i].state # "invalid" /\ (due \/ c.out[i].due)})
             ins == Those(c.in, {i \in DOMAIN c.in : due \/ c.in[i].due})
             q == [i \in DOMAIN outs |-> Again(outs[i])]
             r == [i \in DOMAIN ins |-> Packet("PUBREC", ins[i].mid, "none")]
         IN  /\ q \in Seq(UpPacket) /\ r \in Seq(UpPacket) => d \in Mosq
             /\ d.packets = c.packets \o q \o r
             /\ SameClient(c, d) /\ d.sock = c.sock
<1> DEFINE d == Resend(c, due)
           outs == Those(c.out, {i \in DOMAIN c.out : c.out[i].state # "invalid" /\ (due \/ c.out[i].due)})
           ins == Those(c.in, {i \in DOMAIN c.in : due \/ c.in[i].due})
           q == [i \in DOMAIN outs |-> Again(outs[i])]
           r == [i \in DOMAIN ins |-> Packet("PUBREC", ins[i].mid, "none")]
           Finished(e) == [e EXCEPT !.due = e.due /\ e.state = "invalid"]
           o == [i \in DOMAIN c.out |-> Finished(c.out[i])]
           j == [i \in DOMAIN c.in |-> [c.in[i] EXCEPT !.due = FALSE]]
<1>1. d = [c EXCEPT !.packets = c.packets \o q \o r, !.out = o, !.in = j]
  BY DEF Resend
<1>2. c.out \in Seq(Entry) /\ c.in \in Seq(InEntry) /\ c.packets \in Seq(UpPacket)
  BY DEF Mosq
<1>3. \A e \in Entry : /\ Finished(e) \in Entry /\ Finished(e).mid = e.mid /\ Finished(e).m = e.m
                       /\ Finished(e).state = e.state
  BY DEF Entry
<1>4. \A i \in DOMAIN c.out : c.out[i] \in Entry
  BY <1>2
<1>5. o \in Seq(Entry)
  <2> HIDE DEF Finished
  <2>1. DOMAIN c.out = 1..Len(c.out) /\ Len(c.out) \in Nat
    BY <1>2
  <2> QED
    BY <1>3, <1>4, <2>1
<1>6. j \in Seq(InEntry)
  <2>1. DOMAIN c.in = 1..Len(c.in) /\ Len(c.in) \in Nat /\ \A i \in DOMAIN c.in : c.in[i] \in InEntry
    BY <1>2
  <2>2. \A i \in DOMAIN c.in : [c.in[i] EXCEPT !.due = FALSE] \in InEntry
    BY <2>1 DEF InEntry
  <2> QED
    BY <2>1, <2>2
<1>7. /\ DOMAIN o = DOMAIN c.out
      /\ \A i \in DOMAIN c.out : o[i].mid = c.out[i].mid /\ o[i].m = c.out[i].m /\ o[i].state = c.out[i].state
  <2> HIDE DEF Finished
  <2> QED
    BY <1>3, <1>4
<1>8. /\ DOMAIN j = DOMAIN c.in
      /\ \A i \in DOMAIN c.in : j[i].mid = c.in[i].mid /\ j[i].m = c.in[i].m
  <2>1. \A i \in DOMAIN c.in : c.in[i] \in InEntry
    BY <1>2
  <2> QED
    BY <2>1 DEF InEntry
<1> HIDE DEF d, q, r, o, j
<1>9. /\ d.packets = c.packets \o q \o r /\ d.out = o /\ d.in = j /\ d.sock = c.sock
      /\ d.last_mid = c.last_mid /\ d.inflight = c.inflight
  BY <1>1 DEF Mosq
<1>10. SameClient(c, d)
  BY <1>7, <1>8, <1>9 DEF SameClient, Alike
<1>11. ASSUME q \in Seq(UpPacket), r \in Seq(UpPacket)
       PROVE  d \in Mosq
  <2>1. c.packets \o q \in Seq(UpPacket)
    BY <1>2, <1>11
  <2>2. c.packets \o q \o r \in Seq(UpPacket)
    BY <1>11, <2>1
  <2> QED
    BY <1>1, <1>5, <1>6, <2>2 DEF Mosq
<1> QED
  BY <1>9, <1>10, <1>11 DEF d, q, r, outs, ins

\* the publications and releases of a retry
LEMMA OutsSendable ==
  ASSUME NEW c, NEW a, NEW n, NEW b, NEW s, NEW S \in SUBSET DOMAIN c.out, Good(c, a, n, b, s), c.sock,
         \A i \in S : c.out[i].state # "invalid"
  PROVE  LET outs == Those(c.out, S)
             q == [i \in DOMAIN outs |-> Again(outs[i])]
         IN  Sendable(q, c, a, n, b, s)
<1> DEFINE outs == Those(c.out, S)
           q == [i \in DOMAIN outs |-> Again(outs[i])]
<1>1. c.out \in Seq(Entry)
  BY DEF Good, Types, Mosq
<1>2. /\ outs \in Seq(Entry)
      /\ \A x : (\E i \in DOMAIN outs : outs[i] = x) <=> \E i \in S : c.out[i] = x
  <2>1. PICK o : o = c.out
    OBVIOUS
  <2>2. o \in Seq(Entry) /\ S \in SUBSET DOMAIN o
    BY <1>1, <2>1
  <2>3. /\ Those(o, S) \in Seq(Entry)
        /\ \A x : (\E i \in DOMAIN Those(o, S) : Those(o, S)[i] = x) <=> \E i \in S : o[i] = x
    BY <2>2, ThoseFacts
  <2> QED
    BY <2>1, <2>3
<1>3. DOMAIN outs = 1..Len(outs) /\ Len(outs) \in Nat
  BY <1>2
<1> HIDE DEF outs
<1>4. ASSUME NEW i \in DOMAIN q
      PROVE  /\ q[i] \in UpPacket /\ UpOK(q[i], c, b) /\ q[i].mid \in Committed(c, a, n)
             /\ q[i].t = "PUBREL" => StateOf(c, q[i].mid) = "wait_for_pubcomp"
             /\ q[i].t = "PUBLISH" => StateOf(c, q[i].mid) \in {"wait_for_puback", "wait_for_pubrec"}
  <2>1. PICK x \in S : c.out[x] = outs[i]
    BY <1>2
  <2>2. q[i] = Again(c.out[x]) /\ x \in DOMAIN c.out /\ c.out[x].state # "invalid"
    BY <2>1
  <2> QED
    BY <2>2, AgainIs
<1>5. DOMAIN q = 1..Len(outs)
  BY <1>3
<1>6. q \in Seq(UpPacket)
  BY <1>3, <1>4, <1>5
<1> HIDE DEF q
<1>7. AllUp(q, c, b)
  BY <1>4 DEF AllUp
<1>8. \A k : Has(q, "PUBLISH", k) \/ Has(q, "PUBREL", k) => c.sock /\ k \in Committed(c, a, n)
  BY <1>4 DEF Has
<1>9. ASSUME NEW k \in 1..c.last_mid, Qos[Name(k)] = 2
      PROVE  /\ Has(q, "PUBLISH", k) => StateOf(c, k) \in {"wait_for_pubrec", "invalid"}
             /\ Has(q, "PUBREL", k) => StateOf(c, k) = "wait_for_pubcomp"
  <2>1. c \in Mosq /\ Entries(c)
    BY DEF Good, Types
  <2>2. StateOf(c, k) # "wait_for_puback"
    BY <1>9, <2>1, QueueFacts
  <2> QED
    BY <1>4, <2>2 DEF Has
<1> QED
  BY <1>6, <1>7, <1>8, <1>9 DEF Sendable, q, outs

\* ... and the PUBRECs
LEMMA InsSendable ==
  ASSUME NEW c, NEW a, NEW n, NEW b, NEW s, NEW S \in SUBSET DOMAIN c.in, Good(c, a, n, b, s)
  PROVE  LET ins == Those(c.in, S)
             r == [i \in DOMAIN ins |-> Packet("PUBREC", ins[i].mid, "none")]
         IN  Sendable(r, c, a, n, b, s)
<1> DEFINE ins == Those(c.in, S)
           r == [i \in DOMAIN ins |-> Packet("PUBREC", ins[i].mid, "none")]
<1>1. c.in \in Seq(InEntry)
  BY DEF Good, Types, Mosq
<1>2. /\ ins \in Seq(InEntry)
      /\ \A x : (\E i \in DOMAIN ins : ins[i] = x) <=> \E i \in S : c.in[i] = x
  BY <1>1, ThoseFacts
<1>3. DOMAIN ins = 1..Len(ins) /\ Len(ins) \in Nat
  BY <1>2
<1> HIDE DEF ins
<1>4. ASSUME NEW i \in DOMAIN r
      PROVE  r[i] \in UpPacket /\ UpOK(r[i], c, b) /\ r[i].t = "PUBREC"
  <2>1. PICK x \in S : c.in[x] = ins[i]
    BY <1>2
  <2>2. x \in DOMAIN c.in /\ c.in[x] \in InEntry /\ c.in[x].mid = InMid[c.in[x].m]
    BY <1>1, <2>1 DEF Good, Entries
  <2>3. c.in[x].m \in Inbound /\ ins[i].mid \in Nat /\ ins[i].mid = InMid[c.in[x].m]
    BY <2>1, <2>2 DEF InEntry
  <2>4. r[i] = Packet("PUBREC", ins[i].mid, "none")
    OBVIOUS
  <2>5. r[i].t = "PUBREC" /\ r[i].mid = ins[i].mid /\ r[i].m = "none" /\ r[i] \in UpPacket
    BY <2>3, <2>4 DEF Packet, UpPacket, UpTypes, Payload
  <2>6. ASSUME NEW y \in Inbound, InMid[y] = ins[i].mid
        PROVE  b.phase[y] # "idle"
    <3>1. y = c.in[x].m
      BY <2>3, <2>6, Assumed DEF IsInjective
    <3>2. Stored(c, y)
      BY <2>2, <3>1 DEF Stored
    <3> QED
      BY <3>2 DEF Good, Inwards
  <2> QED
    BY <2>5, <2>6 DEF UpOK
<1>5. DOMAIN r = 1..Len(ins)
  BY <1>3
<1>6. r \in Seq(UpPacket)
  BY <1>3, <1>4, <1>5
<1> HIDE DEF r
<1>7. AllUp(r, c, b)
  BY <1>4 DEF AllUp
<1>8. \A k : ~Has(r, "PUBLISH", k) /\ ~Has(r, "PUBREL", k)
  BY <1>4 DEF Has
<1> QED
  BY <1>6, <1>7, <1>8 DEF Sendable, r, ins

\* _mosquitto_message_retry_check
LEMMA ResendKeeps ==
  ASSUME NEW c, NEW a, NEW n, NEW b, NEW s, NEW due \in BOOLEAN, Good(c, a, n, b, s), c.sock
  PROVE  Good(Resend(c, due), a, n, b, s) /\ Resend(c, due).sock = c.sock
<1> DEFINE d == Resend(c, due)
           S == {i \in DOMAIN c.out : c.out[i].state # "invalid" /\ (due \/ c.out[i].due)}
           T == {i \in DOMAIN c.in : due \/ c.in[i].due}
           outs == Those(c.out, S)
           ins == Those(c.in, T)
           q == [i \in DOMAIN outs |-> Again(outs[i])]
           r == [i \in DOMAIN ins |-> Packet("PUBREC", ins[i].mid, "none")]
<1>1. c \in Mosq /\ c.packets \in Seq(UpPacket)
  BY DEF Good, Types, Mosq
<1>2. /\ q \in Seq(UpPacket) /\ r \in Seq(UpPacket) => d \in Mosq
      /\ d.packets = c.packets \o q \o r /\ SameClient(c, d) /\ d.sock = c.sock
  BY <1>1, ResendIs
<1>3. Sendable(q, c, a, n, b, s)
  <2>1. S \in SUBSET DOMAIN c.out /\ \A i \in S : c.out[i].state # "invalid"
    OBVIOUS
  <2> HIDE DEF S
  <2> QED
    BY <2>1, OutsSendable
<1>4. Sendable(r, c, a, n, b, s)
  <2>1. T \in SUBSET DOMAIN c.in
    OBVIOUS
  <2> HIDE DEF T
  <2> QED
    BY <2>1, InsSendable
<1> HIDE DEF q, r, d
<1>5. q \in Seq(UpPacket) /\ r \in Seq(UpPacket)
  BY <1>3, <1>4 DEF Sendable
<1>6. Sendable(q \o r, c, a, n, b, s)
  <2>1. q \o r \in Seq(UpPacket)
    BY <1>5
  <2>2. AllUp(q \o r, c, b)
    BY <1>3, <1>4, <1>5, UpAfter DEF Sendable
  <2>3. \A t, k : Has(q \o r, t, k) <=> Has(q, t, k) \/ Has(r, t, k)
    BY <1>5, HasAfter
  <2> QED
    BY <1>3, <1>4, <2>1, <2>2, <2>3 DEF Sendable
<1>7. c.packets \o q \o r = c.packets \o (q \o r)
  <2>1. PICK p, P : p = c.packets /\ P = UpPacket
    OBVIOUS
  <2>2. p \in Seq(P) /\ q \in Seq(P) /\ r \in Seq(P)
    BY <1>1, <1>5, <2>1
  <2>3. (p \o q) \o r = p \o (q \o r)
    BY ONLY <2>2, ConcatAssociative
  <2> QED
    BY <2>1, <2>3
<1>8. Queued(c, d, q \o r)
  BY <1>2, <1>7 DEF Queued
<1> QED
  BY <1>2, <1>5, <1>6, <1>8, QueueKeeps DEF d

LEMMA RetryCheckStep ==
  ASSUME Inv, RetryCheck
  PROVE  Inv'
<1>1. /\ Good(mosq, app, net, broker, seen) /\ mosq.sock /\ seen \in Seen /\ app \in App
      /\ UNCHANGED <<loop, app, net, broker>> /\ Calm \in BOOLEAN
  BY DEF Inv, Good, Types, RetryCheck, Running, Calm
<1>2. PICK due \in BOOLEAN : mosq' = Resend(mosq, due) /\ seen' \in Seen /\ SameSeen(seen, seen')
  <2>1. CASE mosq' = Resend(mosq, FALSE) /\ seen' = seen
    BY <1>1, <2>1 DEF SameSeen
  <2>2. CASE mosq' = Resend(mosq, TRUE) /\ Expired(Calm)
    <3>1. seen' \in Seen /\ SameSeen(seen, seen')
      BY <1>1, <2>2, ExpiredIs
    <3> QED
      BY <2>2, <3>1
  <2> QED
    BY <2>1, <2>2 DEF RetryCheck
<1>3. Good(mosq', app, net, broker, seen) /\ mosq'.sock
  BY <1>1, <1>2, ResendKeeps
<1>4. Good(mosq', app, net, broker, seen')
  <2>1. mosq' \in Mosq
    BY <1>3 DEF Good, Types
  <2> QED
    BY <1>1, <1>2, <1>3, <2>1, Selves, StillGood
<1> QED
  BY <1>1, <1>2, <1>3, <1>4 DEF Inv, Place, SameSeen

LEMMA AtMost ==
  ASSUME NEW T, NEW p \in Nat, NEW g, \A k \in T : \E i \in 1..p : g[i] = k
  PROVE  IsFiniteSet(T) /\ Cardinality(T) <= p
<1> DEFINE f == [k \in T |-> CHOOSE i \in 1..p : g[i] = k]
<1>1. \A k \in T : f[k] \in 1..p /\ g[f[k]] = k
  OBVIOUS
<1>2. f \in [T -> 1..p]
  BY <1>1
<1> HIDE DEF f
<1>3. f \in Injection(T, 1..p)
  BY <1>1, <1>2 DEF Injection, IsInjective
<1>4. IsFiniteSet(1..p) /\ Cardinality(1..p) = p
  BY FS_Interval
<1> QED
  BY <1>3, <1>4, FS_Injection

\* the queue holds no more messages than were published
LEMMA QueueBound ==
  ASSUME NEW c \in Mosq, Entries(c)
  PROVE  Len(c.out) \in Nat /\ Len(c.out) <= c.last_mid /\ DOMAIN c.out = 1..Len(c.out)
<1> DEFINE z == Len(c.out)
           f == [i \in 1..z |-> c.out[i].mid]
<1>1. z \in Nat /\ DOMAIN c.out = 1..z /\ c.last_mid \in Nat
  BY Names DEF Mosq
<1>2. Distinct(c) /\ \A i \in 1..z : c.out[i].mid \in 1..c.last_mid
  BY <1>1, QueueFacts, EntryAt
<1> HIDE DEF z
<1>3. f \in Injection(1..z, 1..c.last_mid)
  BY <1>1, <1>2 DEF Injection, IsInjective, Distinct
<1>4. /\ IsFiniteSet(1..c.last_mid) /\ Cardinality(1..c.last_mid) = c.last_mid
      /\ Cardinality(1..z) = z
  <2>1. \A p \in Nat : IsFiniteSet(1..p) /\ Cardinality(1..p) = p
    BY FS_Interval
  <2> QED
    BY <1>1, <2>1
<1> HIDE DEF f
<1>5. Cardinality(1..z) <= Cardinality(1..c.last_mid)
  BY <1>3, <1>4, FS_Injection
<1> QED
  BY <1>1, <1>4, <1>5 DEF z

\* what _mosquitto_reconnect makes of the client
Reset(c, d) ==
  /\ d \in Mosq /\ ~d.sock /\ d.packets = <<>> /\ d.inflight = Len(c.out) /\ d.last_mid = c.last_mid
  /\ DOMAIN d.out = DOMAIN c.out /\ DOMAIN d.in = DOMAIN c.in
  /\ \A j \in DOMAIN c.in : d.in[j].m = c.in[j].m /\ d.in[j].mid = c.in[j].mid
  /\ \A i \in DOMAIN c.out :
       /\ d.out[i].mid = c.out[i].mid /\ d.out[i].m = c.out[i].m
       /\ d.out[i].state = IF ~(max_inflight_messages = 0 \/ i < max_inflight_messages) THEN "invalid"
                           ELSE IF Qos[c.out[i].m] = 1 THEN "wait_for_puback"
                           ELSE c.out[i].state

LEMMA ReconnectIs ==
  ASSUME NEW c \in Mosq, ~c.sock
  PROVE  Reset(c, Reconnect(c))
<1> DEFINE max == max_inflight_messages
           St(e, i) == IF ~(max = 0 \/ i < max) THEN "invalid"
                       ELSE IF Qos[e.m] = 1 THEN "wait_for_puback" ELSE e.state
           Re(e, i) == [e EXCEPT !.due = TRUE, !.state = St(e, i)]
           o == [i \in DOMAIN c.out |-> Re(c.out[i], i)]
           j == [i \in DOMAIN c.in |-> [c.in[i] EXCEPT !.due = TRUE]]
           d == Reconnect(c)
<1>1. d = [c EXCEPT !.packets = <<>>, !.in = j, !.out = o, !.inflight = Len(c.out), !.state = "new",
                    !.ping_t = FALSE]
  BY DEF Reconnect, ReconnectReset, Mosq
<1>2. c.out \in Seq(Entry) /\ c.in \in Seq(InEntry)
  BY DEF Mosq
<1>3. \A e \in Entry, i \in Nat : St(e, i) \in Status
  BY DEF Entry, Status
<1>4. \A e \in Entry, i \in Nat : /\ Re(e, i) \in Entry /\ Re(e, i).mid = e.mid /\ Re(e, i).m = e.m
                                  /\ Re(e, i).state = St(e, i)
  <2> HIDE DEF St
  <2> QED
    BY <1>3 DEF Entry, Status
<1>5. /\ DOMAIN c.out = 1..Len(c.out) /\ Len(c.out) \in Nat /\ DOMAIN c.in = 1..Len(c.in) /\ Len(c.in) \in Nat
      /\ (\A i \in DOMAIN c.out : c.out[i] \in Entry /\ i \in Nat) /\ \A i \in DOMAIN c.in : c.in[i] \in InEntry
  BY <1>2
<1>6. o \in Seq(Entry) /\ DOMAIN o = DOMAIN c.out
  <2> HIDE DEF Re
  <2> QED
    BY <1>4, <1>5
<1>7. \A i \in DOMAIN c.out : /\ o[i].mid = c.out[i].mid /\ o[i].m = c.out[i].m
                              /\ o[i].state = St(c.out[i], i)
  <2> HIDE DEF Re, St
  <2> QED
    BY <1>4, <1>5
<1>8. /\ j \in Seq(InEntry) /\ DOMAIN j = DOMAIN c.in
      /\ \A i \in DOMAIN c.in : j[i].m = c.in[i].m /\ j[i].mid = c.in[i].mid
  <2>1. \A x \in InEntry : LET y == [x EXCEPT !.due = TRUE] IN y \in InEntry /\ y.m = x.m /\ y.mid = x.mid
    BY DEF InEntry
  <2> QED
    BY <1>5, <2>1
<1> HIDE DEF o, j
<1>9. d \in Mosq
  <2>1. <<>> \in Seq(UpPacket) /\ Len(c.out) \in Int
    BY <1>5
  <2> QED
    BY <1>1, <1>6, <1>8, <2>1 DEF Mosq
<1>10. /\ d.sock = c.sock /\ d.packets = <<>> /\ d.inflight = Len(c.out) /\ d.last_mid = c.last_mid
       /\ d.out = o /\ d.in = j
  BY <1>1 DEF Mosq
<1> HIDE DEF d
<1> QED
  BY <1>6, <1>7, <1>8, <1>9, <1>10 DEF Reset, d

LEMMA ResetStates ==
  ASSUME NEW c \in Mosq, NEW d, Entries(c), Reset(c, d)
  PROVE  /\ Distinct(d) /\ \A k : In(d, k) <=> In(c, k)
         /\ \A i \in DOMAIN c.out : StateOf(d, c.out[i].mid) = d.out[i].state
         /\ \A k : StateOf(d, k) = "wait_for_pubcomp" => StateOf(c, k) = "wait_for_pubcomp"
         /\ \A k : StateOf(d, k) = "wait_for_pubrec" => StateOf(c, k) = "wait_for_pubrec"
<1>1. Distinct(c)
  BY QueueFacts
<1>2. Distinct(d) /\ \A k : In(d, k) <=> In(c, k)
  BY <1>1 DEF Distinct, In, Reset
<1>3. \A i \in DOMAIN c.out : StateOf(d, c.out[i].mid) = d.out[i].state
  BY <1>2, StateAt DEF Reset
<1>4. ASSUME NEW k, NEW t \in {"wait_for_pubcomp", "wait_for_pubrec"}, StateOf(d, k) = t
      PROVE  StateOf(c, k) = t
  <2>1. In(d, k)
    BY <1>2, <1>4, StateAt
  <2>2. PICK i \in DOMAIN c.out : c.out[i].mid = k
    BY <1>2, <2>1 DEF In
  <2>3. d.out[i].state = t /\ StateOf(c, k) = c.out[i].state
    BY <1>1, <1>3, <1>4, <2>2, StateAt
  <2>4. c.out[i].state = t
    BY <2>3 DEF Reset
  <2> QED
    BY <2>3, <2>4
<1> QED
  BY <1>2, <1>3, <1>4

LEMMA ResetWindow ==
  ASSUME NEW c, NEW d, NEW a, NEW n, NEW b, NEW s, Good(c, a, n, b, s), Reset(c, d)
  PROVE  Window(d, a, n)
<1> DEFINE C == Committed(d, a, n)
           W == Waiting(d)
           z == Len(c.out)
           max == max_inflight_messages
<1>1. c \in Mosq /\ Entries(c) /\ ~d.sock /\ DOMAIN d.out = DOMAIN c.out
  BY DEF Good, Types, Reset
<1>2. z \in Nat /\ z <= c.last_mid /\ DOMAIN c.out = 1..z /\ c.last_mid \in Nat /\ c.last_mid <= N
  BY <1>1, QueueBound, Names DEF Mosq
<1>3. Distinct(d) /\ \A i \in DOMAIN c.out : StateOf(d, c.out[i].mid) = d.out[i].state
  BY <1>1, ResetStates
<1>4. \A k : In(d, k) => \E i \in 1..z : d.out[i].mid = k
  BY <1>1, <1>2 DEF In
<1> DEFINE g == [i \in 1..z |-> d.out[i].mid]
<1>5. \A k : In(d, k) => \E i \in 1..z : g[i] = k
  BY <1>4
<1>6. Cardinality(C) <= z /\ Cardinality(W) <= z
  <2>1. \A k \in C : In(d, k)
    BY DEF Committed
  <2>2. \A k \in W : In(d, k)
    BY <1>3, StateAt DEF Waiting
  <2> HIDE DEF g, C, W, z
  <2> QED
    BY <1>2, <1>5, <2>1, <2>2, AtMost
<1>7. ASSUME max > 0
      PROVE  Cardinality(C) <= max
  <2>1. max \in Nat /\ max - 1 \in Nat
    BY <1>7, Assumed
  <2> DEFINE P == {k \in C : \E i \in 1..(max - 1) : i <= z /\ d.out[i].mid = k}
             h == [i \in 1..(max - 1) |-> d.out[i].mid]
  <2>2. \A k \in P : \E i \in 1..(max - 1) : h[i] = k
    OBVIOUS
  <2>3. IsFiniteSet(P) /\ Cardinality(P) <= max - 1
    <3> HIDE DEF P, h, max
    <3> QED
      BY <2>1, <2>2, AtMost
  <2>4. \E x : \A k : Sending(a, k) => k = x
    <3>1. a.sends = <<>> \/ \E x \in 1..c.last_mid : a.sends = <<[mid |-> x, m |-> Name(x)]>>
      BY DEF Good, Calls
    <3>2. CASE a.sends = <<>>
      <4>1. DOMAIN <<>> = {}
        OBVIOUS
      <4> QED
        BY <3>2, <4>1 DEF Sending
    <3>3. ASSUME NEW x, a.sends = <<[mid |-> x, m |-> Name(x)]>>
          PROVE  \A k : Sending(a, k) => k = x
      <4>1. PICK o : o = [mid |-> x, m |-> Name(x)]
        OBVIOUS
      <4>2. a.sends = <<o>> /\ DOMAIN <<o>> = {1} /\ <<o>>[1] = o /\ o.mid = x
        BY <3>3, <4>1
      <4> QED
        BY <4>2 DEF Sending
    <3>4. CASE \E x \in 1..c.last_mid : a.sends = <<[mid |-> x, m |-> Name(x)]>>
      <4>1. PICK x \in 1..c.last_mid : a.sends = <<[mid |-> x, m |-> Name(x)]>>
        BY <3>4
      <4>2. \A k : Sending(a, k) => k = x
        BY <3>3, <4>1
      <4> QED
        BY <4>2
    <3> QED
      BY <3>1, <3>2, <3>4
  <2>5. PICK x : \A k : Sending(a, k) => k = x
    BY <2>4
  <2>6. ASSUME NEW k \in C, k # x
        PROVE  k \in P
    <3>1. In(d, k) /\ StateOf(d, k) # "invalid"
      BY <1>1, <2>5, <2>6 DEF Committed
    <3>2. PICK i \in 1..z : d.out[i].mid = k
      BY <1>4, <3>1
    <3>3. i \in DOMAIN c.out /\ c.out[i].mid = k /\ i \in Nat
      BY <1>2, <3>2 DEF Reset
    <3>4. d.out[i].state # "invalid"
      BY <1>3, <3>1, <3>3
    <3>5. i < max
      BY <1>7, <2>1, <3>3, <3>4 DEF Reset
    <3>6. i \in 1..(max - 1) /\ i <= z
      BY <1>2, <2>1, <3>2, <3>5
    <3> QED
      BY <2>6, <3>2, <3>6
  <2>7. C \in SUBSET (P \cup {x})
    BY <2>6
  <2>8. Cardinality(C) <= Cardinality(P) + 1
    <3> HIDE DEF C, P
    <3> QED
      BY <2>3, <2>7, OneMore
  <2>9. Cardinality(C) \in Nat /\ Cardinality(P) \in Nat
    BY <2>3, Sets, FS_CardinalityType
  <2> HIDE DEF C, P, max
  <2> QED
    BY <2>1, <2>3, <2>8, <2>9
<1>8. d.inflight = z /\ d.last_mid = c.last_mid
  BY DEF Reset
<1>9. d.inflight + Cardinality(W) + Len(a.todo) <= N + N
  <2> DEFINE w == Cardinality(W)
             l == Len(a.todo)
             last == c.last_mid
             y == N
             f == d.inflight
  <2>1. w \in Nat /\ y \in Nat
    BY Sets, Names
  <2>2. l = y - last
    BY DEF Good, Calls
  <2>3. f = z /\ w <= z /\ z \in Nat /\ z <= last /\ last \in Nat /\ last <= y
    BY <1>2, <1>6, <1>8
  <2>4. f + w + l <= y + y
    <3> HIDE DEF w, l, last, y, f, z
    <3> QED
      BY <2>1, <2>2, <2>3
  <2> QED
    BY <2>4
<1> QED
  BY <1>6, <1>7, <1>8, <1>9 DEF Window

\* what a reconnection makes of a message whose release was under way, and who is told
Restarts(c, d, s, s2) ==
  /\ s2 \in Seen /\ s2.late = s.late /\ s2.stale = s.stale /\ s.redone \subseteq s2.redone
  /\ \A i \in DOMAIN c.out :
       c.out[i].state = "wait_for_pubcomp" /\ d.out[i].state = "invalid" => c.out[i].m \in s2.redone

LEMMA ResetOutwards ==
  ASSUME NEW c \in Mosq, NEW d, NEW n, NEW b, NEW s, NEW s2, NEW k \in 1..c.last_mid, Entries(c),
         Reset(c, d), Restarts(c, d, s, s2), Qos[Name(k)] = 2, Outwards(k, c, n, b, s)
  PROVE  Outwards(k, d, n, b, s2)
<1>1. /\ \A j : In(d, j) <=> In(c, j)
      /\ \A j : StateOf(d, j) = "wait_for_pubcomp" => StateOf(c, j) = "wait_for_pubcomp"
      /\ \A j : StateOf(d, j) = "wait_for_pubrec" => StateOf(c, j) = "wait_for_pubrec"
  BY ResetStates
<1>2. \A t : ~Has(d.packets, t, k) /\ \A u : ~Before(d.packets, t, u, k)
  <2>1. d.packets = <<>> /\ DOMAIN <<>> = {}
    BY DEF Reset
  <2> QED
    BY <2>1 DEF Has, Before
<1>3. Name(k) \notin s2.redone => Name(k) \notin s.redone
  BY DEF Restarts
<1>4. Distinct(c) /\ Distinct(d)
  BY QueueFacts, ResetStates
<1>5. ASSUME In(c, k)
      PROVE  \E i \in DOMAIN c.out : /\ c.out[i].mid = k /\ StateOf(c, k) = c.out[i].state
                                     /\ StateOf(d, k) = d.out[i].state /\ c.out[i].m = Name(k)
                                     /\ StateOf(d, k) \in {"invalid", StateOf(c, k)}
  <2>1. PICK i \in DOMAIN c.out : c.out[i].mid = k /\ StateOf(c, k) = c.out[i].state
    BY <1>4, <1>5, StateAt
  <2>2. StateOf(d, k) = d.out[i].state /\ c.out[i].m = Name(k)
    BY <2>1, ResetStates, EntryAt
  <2>3. Qos[c.out[i].m] # 1
    BY <2>2
  <2>4. d.out[i].state \in {"invalid", c.out[i].state}
    BY <2>3 DEF Reset
  <2> QED
    BY <2>1, <2>2, <2>4
<1>6. ASSUME StateOf(d, k) = "invalid", Name(k) \notin s2.redone
      PROVE  StateOf(c, k) \in {"wait_for_pubrec", "invalid"}
  <2>1. In(d, k)
    BY <1>4, <1>6, StateAt
  <2>2. PICK i \in DOMAIN c.out : /\ c.out[i].mid = k /\ StateOf(c, k) = c.out[i].state
                                  /\ StateOf(d, k) = d.out[i].state /\ c.out[i].m = Name(k)
    BY <1>1, <1>5, <2>1
  <2>3. StateOf(c, k) # "wait_for_pubcomp"
    BY <1>6, <2>2 DEF Restarts
  <2>4. StateOf(c, k) \in {"wait_for_pubrec", "wait_for_pubcomp", "invalid"}
    BY <1>1, <2>1, QueueFacts
  <2> QED
    BY <2>3, <2>4
<1>7. StateOf(c, k) = "gone" => StateOf(d, k) = "gone"
  BY <1>1, <1>4, QueueFacts, StateAt
<1>8. StateOf(c, k) = "wait_for_pubcomp" /\ Name(k) \notin s2.redone => StateOf(d, k) = "wait_for_pubcomp"
  <2>1. StateOf(c, k) = "wait_for_pubcomp" => In(c, k)
    BY <1>4, StateAt
  <2> QED
    BY <1>5, <1>6, <2>1
<1>9. ~d.sock
  BY DEF Reset
<1> QED
  BY <1>1, <1>2, <1>3, <1>6, <1>7, <1>8, <1>9 DEF Outwards

LEMMA ResetKeeps ==
  ASSUME NEW c, NEW d, NEW a, NEW n, NEW b, NEW s, NEW s2,
         Good(c, a, n, b, s), Reset(c, d), Restarts(c, d, s, s2)
  PROVE  Good(d, a, n, b, s2)
<1>1. /\ c \in Mosq /\ a \in App /\ n \in Net /\ b \in Broker /\ d \in Mosq /\ s2 \in Seen
      /\ Entries(c) /\ d.last_mid = c.last_mid /\ d.packets = <<>> /\ c.last_mid \in 0..N
  BY DEF Good, Types, Reset, Restarts, Mosq
<1>2. /\ Distinct(d) /\ \A k : In(d, k) <=> In(c, k)
      /\ \A k : StateOf(d, k) = "wait_for_pubcomp" => StateOf(c, k) = "wait_for_pubcomp"
  BY <1>1, ResetStates
<1>3. Entries(d)
  <2>1. ASSUME NEW i \in DOMAIN d.out
        PROVE  LET x == d.out[i]
               IN  /\ x.mid <= d.last_mid /\ x.m = Name(x.mid)
                   /\ \/ Qos[x.m] = 1 /\ x.state \in {"wait_for_puback", "invalid"}
                      \/ Qos[x.m] = 2 /\ x.state \in {"wait_for_pubrec", "wait_for_pubcomp", "invalid"}
    <3>1. /\ i \in DOMAIN c.out /\ d.out[i].mid = c.out[i].mid /\ d.out[i].m = c.out[i].m
          /\ d.out[i].state \in {"invalid", c.out[i].state}
               \/ (Qos[c.out[i].m] = 1 /\ d.out[i].state = "wait_for_puback")
      BY DEF Reset
    <3> QED
      BY <1>1, <3>1 DEF Entries
  <2>2. \A i \in DOMAIN d.in : d.in[i].mid = InMid[d.in[i].m]
    BY <1>1 DEF Entries, Reset
  <2> QED
    BY <1>2, <2>1, <2>2 DEF Entries, Distinct
<1>4. Calls(d, a)
  BY <1>1 DEF Good, Calls
<1>5. Account(d, a, b)
  BY <1>1, <1>2 DEF Good, Account
<1>6. AllUp(d.packets, d, b) /\ AllUp(n.up, d, b) /\ AllDown(n.down, d, b)
  <2>1. Later(b, b)
    BY DEF Later
  <2>2. AllUp(d.packets, c, b)
    <3>1. DOMAIN <<>> = {}
      OBVIOUS
    <3> QED
      BY <1>1, <3>1 DEF AllUp
  <2>3. AllUp(n.up, c, b) /\ AllDown(n.down, c, b)
    BY DEF Good
  <2>4. c.last_mid <= d.last_mid /\ d.last_mid \in 0..N
    BY <1>1, Names
  <2> QED
    BY <1>1, <1>2, <2>1, <2>2, <2>3, <2>4, UpKept, DownKept
<1>7. Window(d, a, n)
  BY ResetWindow
<1>8. ASSUME NEW i \in Inbound
      PROVE  Inwards(i, d, a, n, b, s2)
  <2>1. Stored(d, i) <=> Stored(c, i)
    BY DEF Stored, Reset
  <2>2. (\A j, k \in DOMAIN c.in : c.in[j].m = i /\ c.in[k].m = i => j = k) =>
          \A j, k \in DOMAIN d.in : d.in[j].m = i /\ d.in[k].m = i => j = k
    BY DEF Reset
  <2>3. Inwards(i, c, a, n, b, s) /\ s2.stale = s.stale
    BY DEF Good, Restarts
  <2> QED
    BY <2>1, <2>2, <2>3 DEF Inwards
<1>9. Order(d, n, b, s2)
  <2>1. s2.late = s.late
    BY DEF Restarts
  <2> QED
    BY <1>1, <2>1, ResetOutwards DEF Good, Order
<1>10. b.met \/ n.down = <<>>
  BY DEF Good
<1>11. Types(d, a, n, b, s2)
  BY <1>1 DEF Types
<1> QED
  BY <1>3, <1>4, <1>5, <1>6, <1>7, <1>8, <1>9, <1>10, <1>11 DEF Good

LEMMA ReconnectStartStep ==
  ASSUME Inv, ReconnectStart
  PROVE  Inv'
<1> DEFINE c == mosq
           d == mosq'
           Lost(e) == e.state = "wait_for_pubcomp" /\ d.out[Position(c.out, e.mid)].state = "invalid"
           L == {e.m : e \in {x \in Range(c.out) : Lost(x)}}
           over == seen.overfull \/ (max_inflight_messages > 0 /\ Len(c.out) > 2 * max_inflight_messages - 2)
<1>1. /\ Good(mosq, app, net, broker, seen) /\ mosq \in Mosq /\ seen \in Seen /\ ~mosq.sock
      /\ mosq' = Reconnect(mosq) /\ loop' = "connecting" /\ UNCHANGED <<app, net, broker>>
      /\ seen' = [seen EXCEPT !.redone = seen.redone \cup L, !.overfull = over]
  BY DEF Inv, Good, Types, Place, ReconnectStart
<1>2. Reset(c, d)
  BY <1>1, ReconnectIs
<1>3. c.out \in Seq(Entry) /\ Entries(c) /\ Distinct(c)
  BY <1>1, QueueFacts DEF Mosq, Good
<1>4. L \in SUBSET Msg
  <2>1. \A e \in Range(c.out) : e \in Entry
    BY <1>3 DEF Range
  <2> QED
    BY <2>1 DEF Entry
<1>5. over \in BOOLEAN
  BY <1>1 DEF Seen
<1>6. ASSUME NEW i \in DOMAIN c.out, c.out[i].state = "wait_for_pubcomp", d.out[i].state = "invalid"
      PROVE  c.out[i].m \in L
  <2>1. Position(c.out, c.out[i].mid) = i
    BY <1>3, PositionIs DEF Distinct
  <2>2. c.out[i] \in Range(c.out)
    BY DEF Range
  <2>3. Lost(c.out[i])
    BY <1>6, <2>1
  <2> QED
    BY <2>2, <2>3
<1> HIDE DEF L, over, c, d
<1>7. Restarts(c, d, seen, seen')
  <2>1. seen' \in Seen /\ seen'.late = seen.late /\ seen'.stale = seen.stale /\ seen'.redone = seen.redone \cup L
    BY <1>1, <1>4, <1>5 DEF Seen
  <2> QED
    BY <1>6, <2>1 DEF Restarts
<1>8. Good(mosq', app, net, broker, seen')
  BY <1>1, <1>2, <1>7, ResetKeeps DEF c, d
<1>9. ~mosq'.sock /\ mosq'.packets = <<>>
  BY <1>2 DEF Reset, d
<1> QED
  BY <1>1, <1>8, <1>9 DEF Inv, Place

------------------------------------------------------------------------------
(* The induction.                                                            *)

LEMMA InitInv ==
  ASSUME Init
  PROVE  Inv
<1>1. /\ mosq = NewMosq /\ loop = "loop" /\ net = NewNet
      /\ app = [pc |-> "idle", todo |-> MsgOrder, sends |-> <<>>, handed |-> {},
                calls |-> 1, told |-> [m \in Msg |-> 0], passed |-> [i \in Inbound |-> 0]]
      /\ broker = [met |-> FALSE, stored |-> {}, got |-> [m \in Msg |-> 0],
                   phase |-> [i \in Inbound |-> "idle"]]
      /\ seen = [faults |-> 0, redone |-> {}, stale |-> {}, overfull |-> FALSE, late |-> FALSE]
  BY DEF Init
<1>2. MsgOrder \in Seq(Msg) /\ N \in Nat /\ Len(MsgOrder) = N
  BY Assumed, Names DEF N
<1>3. PICK p : p = Plain("CONNECT")
  OBVIOUS
<1>4. p \in UpPacket /\ p.t = "CONNECT" /\ p.m = "none" /\ p.mid = 0
  BY <1>3 DEF Plain, Packet, UpPacket, UpTypes, Payload
<1>5. /\ mosq.out = <<>> /\ mosq.in = <<>> /\ mosq.packets = <<p>> /\ mosq.last_mid = 0
      /\ mosq.inflight = 0 /\ net.up = <<>> /\ net.down = <<>> /\ mosq.sock
  BY <1>1, <1>3 DEF NewMosq, NewNet
<1>6. /\ app.todo = MsgOrder /\ app.sends = <<>> /\ app.pc = "idle" /\ app.handed = {}
      /\ (\A m \in Msg : app.told[m] = 0) /\ \A i \in Inbound : app.passed[i] = 0
  BY <1>1
<1>7. /\ broker.stored = {} /\ (\A m \in Msg : broker.got[m] = 0)
      /\ \A i \in Inbound : broker.phase[i] = "idle"
  BY <1>1
<1>8. DOMAIN <<>> = {} /\ DOMAIN <<p>> = {1} /\ <<p>>[1] = p
  OBVIOUS
<1>9. Types(mosq, app, net, broker, seen)
  <2>1. mosq \in Mosq
    <3>1. <<p>> \in Seq(UpPacket) /\ <<>> \in Seq(Entry) /\ <<>> \in Seq(InEntry) /\ 0 \in 0..N
      BY <1>2, <1>4
    <3>2. NewMosq = [state |-> "new", sock |-> TRUE, ping_t |-> FALSE, packets |-> <<p>>,
                     out |-> <<>>, in |-> <<>>, inflight |-> 0, last_mid |-> 0]
      BY <1>3 DEF NewMosq
    <3> QED
      BY <1>1, <3>1, <3>2 DEF Mosq
  <2>2. app \in App
    <3>1. <<>> \in Seq(Send)
      OBVIOUS
    <3> QED
      BY <1>1, <1>2, <3>1 DEF App
  <2>3. net \in Net
    <3>1. <<>> \in Seq(UpPacket) /\ <<>> \in Seq(DownPacket)
      OBVIOUS
    <3> QED
      BY <1>1, <3>1 DEF Net, NewNet
  <2>4. broker \in Broker
    BY <1>1 DEF Broker
  <2>5. seen \in Seen
    BY <1>1 DEF Seen
  <2> QED
    BY <2>1, <2>2, <2>3, <2>4, <2>5 DEF Types
<1>10. \A k : ~In(mosq, k) /\ StateOf(mosq, k) = "gone"
  BY <1>5, <1>8 DEF In, StateOf
<1>11. /\ \A t, k : ~Has(net.up, t, k) /\ ~Has(net.down, t, k)
       /\ \A t, u, k : /\ ~Before(net.up, t, u, k) /\ ~Before(net.down, t, u, k)
                       /\ ~Before(mosq.packets, t, u, k)
       /\ \A k : ~Has(mosq.packets, "PUBLISH", k) /\ ~Has(mosq.packets, "PUBREL", k)
  <2>1. \A t, k : ~Has(<<>>, t, k) /\ \A u : ~Before(<<>>, t, u, k)
    BY <1>8 DEF Has, Before
  <2>2. \A t, u, k : ~Before(<<p>>, t, u, k)
    BY HasOne
  <2>3. \A k : ~Has(<<p>>, "PUBLISH", k) /\ ~Has(<<p>>, "PUBREL", k)
    BY <1>4, <1>8 DEF Has
  <2> QED
    BY <1>5, <2>1, <2>2, <2>3
<1>12. Entries(mosq)
  BY <1>5, <1>8 DEF Entries
<1>13. Calls(mosq, app)
  BY <1>2, <1>5, <1>6 DEF Calls, Name
<1>14. Account(mosq, app, broker)
  <2>1. \A k \in 1..N : Name(k) \in Msg /\ ~(k <= 0)
    BY <1>2, Names
  <2> QED
    BY <1>5, <1>6, <1>7, <1>10, <2>1 DEF Account
<1>15. AllUp(mosq.packets, mosq, broker) /\ AllUp(net.up, mosq, broker) /\ AllDown(net.down, mosq, broker)
  BY <1>4, <1>5, <1>8 DEF AllUp, AllDown, UpOK
<1>16. Window(mosq, app, net)
  <2>1. Committed(mosq, app, net) = {} /\ Waiting(mosq) = {}
    BY <1>10 DEF Committed, Waiting
  <2>2. Cardinality({}) = 0 /\ max_inflight_messages \in Nat
    BY FS_EmptySet, Assumed
  <2>3. Len(app.todo) = N
    BY <1>2, <1>6
  <2> QED
    BY <1>2, <1>5, <2>1, <2>2, <2>3 DEF Window
<1>17. \A i \in Inbound : Inwards(i, mosq, app, net, broker, seen)
  BY <1>5, <1>6, <1>7, <1>8, <1>11 DEF Inwards, Stored
<1>18. Order(mosq, net, broker, seen)
  <2>1. 1..0 = {}
    OBVIOUS
  <2> QED
    BY <1>5, <2>1 DEF Order
<1> QED
  BY <1>1, <1>5, <1>9, <1>12, <1>13, <1>14, <1>15, <1>16, <1>17, <1>18 DEF Inv, Good, Place

LEMMA NextKeeps ==
  ASSUME Inv, [Next]_vars
  PROVE  Inv'
<1>1. CASE UNCHANGED vars
  BY <1>1 DEF Inv, vars
<1>2. CASE Application
  BY <1>2, PublishStep, PublishSendStep, DisconnectStep, DisconnectSendStep DEF Application
<1>3. CASE Thread
  BY <1>3, ReadStep, ConnackAssignStep, WriteStep, ConnLostStep, CheckKeepaliveStep, RetryCheckStep, ClosedStep,
     ReconnectStartStep, SocketConnectStep, SendConnectStep DEF Thread
<1>4. CASE Environment
  BY <1>4, BreakStep, BrokerReadStep, BrokerSendStep DEF Environment
<1> QED
  BY <1>1, <1>2, <1>3, <1>4 DEF Next

\* Inv holds in every behaviour of the library: the bookkeeping of struct mosquitto, what
\* is queued and in transit, and the session at the broker agree (lib/messages_mosq.c).
THEOREM Invariance == Spec => []Inv
<1>1. Init => Inv
  BY InitInv
<1>2. Inv /\ [Next]_vars => Inv'
  BY NextKeeps
<1> QED
  BY <1>1, <1>2, PTL DEF Spec

------------------------------------------------------------------------------
(* The theorems.                                                             *)

\* The fields have their types, the counter is never negative and at most twice the number of
\* messages, an identifier is queued once, and QoS 1 messages never wait for PUBCOMP.
THEOREM Typed == Spec => []TypeOK
<1>1. Inv => TypeOK
  <2> SUFFICES ASSUME Inv
               PROVE  TypeOK
    OBVIOUS
  <2>1. /\ mosq \in Mosq /\ app \in App /\ Entries(mosq) /\ Distinct(mosq)
        /\ loop \in {"loop", "connack", "reconnecting", "connecting", "greeting", "ended", "gave up"}
    BY QueueFacts DEF Inv, Good, Types, Place
  <2>2. mosq.out \in Seq(Entry) /\ mosq.inflight \in Int
    BY <2>1 DEF Mosq
  <2>3. Range(mosq.out) \subseteq Entry
    BY <2>2 DEF Range
  <2>4. mosq.inflight \in 0..N + N
    <3> DEFINE x == Cardinality(Committed(mosq, app, net))
               w == Cardinality(Waiting(mosq))
               l == Len(app.todo)
               f == mosq.inflight
               z == N
    <3>1. x \in Nat /\ w \in Nat /\ z \in Nat
      BY Sets, Names
    <3>2. l \in Nat
      <4>1. app.todo \in Seq(Msg)
        BY <2>1 DEF App
      <4> QED
        BY <4>1
    <3>3. x <= f /\ f + w + l <= z + z
      BY DEF Inv, Good, Window
    <3>4. f \in 0..z + z
      <4> HIDE DEF x, w, l, f, z
      <4>1. f \in Int
        BY <2>2 DEF f
      <4> QED
        BY <3>1, <3>2, <3>3, <4>1
    <3> QED
      BY <3>4
  <2>5. \A e \in Range(mosq.out) : Qos[e.m] = 1 => e.state # "wait_for_pubcomp"
    <3>1. ASSUME NEW i \in DOMAIN mosq.out, Qos[mosq.out[i].m] = 1
          PROVE  mosq.out[i].state # "wait_for_pubcomp"
      <4>1. \/ Qos[mosq.out[i].m] = 2
            \/ mosq.out[i].state \in {"wait_for_puback", "invalid"}
        BY <2>1 DEF Entries
      <4> QED
        BY <3>1, <4>1
    <3> QED
      BY <3>1 DEF Range
  <2>6. /\ mosq.state \in {"new", "connected", "disconnecting"} /\ mosq.sock \in BOOLEAN
        /\ mosq.ping_t \in BOOLEAN /\ app.pc \in {"idle", "send", "disconnect"}
    BY <2>1 DEF Mosq, App
  <2>7. mosq.inflight \in 0..Len(MsgOrder) + Len(MsgOrder)
    BY <2>4 DEF N
  <2> QED
    BY <2>1, <2>3, <2>5, <2>6, <2>7 DEF TypeOK, Distinct
<1> QED
  BY <1>1, Invariance, PTL

\* A message that mosquitto_publish accepted is in the queue until on_publish reports it, once, and
\* it is not reported before the broker has it: no interleaving of the two threads and no lost
\* connection makes the library forget a message (lib/messages_mosq.c, lib/mosquitto.c).
THEOREM Remembered == Spec => []NeverForgotten
<1>1. Inv => NeverForgotten
  <2> SUFFICES ASSUME Inv, NEW m \in app.handed, Qos[m] > 0
               PROVE  /\ app.told[m] = IF m \in {e.m : e \in Range(mosq.out)} THEN 0 ELSE 1
                      /\ app.told[m] = 1 => broker.got[m] > 0
    BY DEF NeverForgotten
  <2>1. mosq \in Mosq /\ app \in App /\ Entries(mosq) /\ Calls(mosq, app) /\ Account(mosq, app, broker)
    BY DEF Inv, Good, Types
  <2>2. PICK k \in 1..mosq.last_mid : m = Name(k)
    BY <2>1 DEF Calls
  <2>3. k \in 1..N /\ k <= mosq.last_mid
    BY <2>1, Names DEF Mosq
  <2>4. /\ app.told[m] = IF ~In(mosq, k) THEN 1 ELSE 0
        /\ ~In(mosq, k) => broker.got[m] > 0
    BY <2>1, <2>2, <2>3 DEF Account
  <2>5. m \in {e.m : e \in Range(mosq.out)} <=> In(mosq, k)
    <3>1. \A i \in DOMAIN mosq.out : mosq.out[i].mid \in 1..N /\ mosq.out[i].m = Name(mosq.out[i].mid)
      BY <2>1, EntryAt
    <3>2. \A i \in DOMAIN mosq.out : mosq.out[i].m = m <=> mosq.out[i].mid = k
      BY <2>2, <2>3, <3>1, Names
    <3> QED
      BY <3>2 DEF In, Range
  <2> QED
    BY <2>4, <2>5
<1> QED
  BY <1>1, Invariance, PTL

\* The counter inflight_messages covers what is part way through its delivery, and no more than
\* max_inflight_messages are, through publications, reconnections and acknowledgements
\* (lib/messages_mosq.c).
THEOREM WindowKeeps == Spec => []WindowHolds
<1>1. Inv => WindowHolds
  <2> SUFFICES ASSUME Inv
               PROVE  WindowHolds
    OBVIOUS
  <2>1. mosq \in Mosq /\ Entries(mosq) /\ Window(mosq, app, net) /\ mosq.inflight \in Int
    BY DEF Inv, Good, Types, Mosq
  <2> DEFINE C == Committed(mosq, app, net)
             f == [e \in InFlight |-> e.mid]
  <2>2. ASSUME NEW e \in InFlight
        PROVE  e.mid \in C /\ \E i \in DOMAIN mosq.out : mosq.out[i] = e
    <3>1. PICK i \in DOMAIN mosq.out : mosq.out[i] = e /\ e.state # "invalid"
      BY DEF InFlight, Range
    <3>2. In(mosq, e.mid) /\ StateOf(mosq, e.mid) # "invalid" /\ e.mid \in 1..N
      BY <2>1, <3>1, EntryAt
    <3> QED
      BY <3>1, <3>2 DEF Committed
  <2>3. \A e, o \in InFlight : e.mid = o.mid => e = o
    BY <2>1, <2>2 DEF Entries
  <2>4. f \in Injection(InFlight, C)
    <3> HIDE DEF C
    <3> QED
      BY <2>2, <2>3 DEF Injection, IsInjective
  <2>5. IsFiniteSet(C) /\ Cardinality(C) \in Nat
    BY Sets
  <2>6. Cardinality(InFlight) <= Cardinality(C) /\ Cardinality(InFlight) \in Nat
    <3> HIDE DEF C, f
    <3> QED
      BY <2>4, <2>5, FS_Injection, FS_CardinalityType
  <2>7. /\ Cardinality(C) <= mosq.inflight
        /\ max_inflight_messages > 0 => Cardinality(C) <= max_inflight_messages
        /\ max_inflight_messages \in Nat
    BY <2>1, Assumed DEF Window
  <2> HIDE DEF C, f
  <2> QED
    BY <2>1, <2>5, <2>6, <2>7 DEF WindowHolds
<1> QED
  BY <1>1, Invariance, PTL

\* A QoS 2 message reaches the broker twice only if a reconnection made one that waited for PUBCOMP
\* a message that must still be published, or the application's thread was overtaken by the loop
\* (lib/messages_mosq.c:314, lib/mosquitto.c:567).
THEOREM TwiceIfRedone == Spec => []TwiceOnlyIfRedone
<1>1. Inv => TwiceOnlyIfRedone
  <2> SUFFICES ASSUME Inv, NEW m \in Msg, Qos[m] = 2, broker.got[m] > 1, ~seen.late
               PROVE  m \in seen.redone
    BY DEF TwiceOnlyIfRedone
  <2>1. mosq \in Mosq /\ broker \in Broker /\ Account(mosq, app, broker) /\ Order(mosq, net, broker, seen)
    BY DEF Inv, Good, Types
  <2>2. PICK k \in 1..N : m = Name(k)
    BY Names
  <2>3. broker.got[m] \in 0..2
    BY <2>1 DEF Broker
  <2>4. ~(k > mosq.last_mid)
    BY <2>1, <2>2, <2>3 DEF Account
  <2>5. k \in 1..mosq.last_mid
    BY <2>1, <2>4, Names DEF Mosq
  <2>6. Outwards(k, mosq, net, broker, seen)
    BY <2>1, <2>2, <2>5 DEF Order
  <2> QED
    BY <2>2, <2>3, <2>6 DEF Outwards
<1> QED
  BY <1>1, Invariance, PTL

\* A QoS 2 message is passed to on_message twice only if the broker published it again while it was
\* still queued (lib/read_handle.c:147, lib/messages_mosq.c).
THEOREM Passed == Spec => []PassedOnce
<1>1. Inv => PassedOnce
  <2> SUFFICES ASSUME Inv, NEW i \in Inbound, app.passed[i] > 1, i \notin seen.stale
               PROVE  FALSE
    BY DEF PassedOnce
  <2>1. app \in App /\ Inwards(i, mosq, app, net, broker, seen)
    BY DEF Inv, Good, Types
  <2>2. app.passed[i] \in Nat /\ app.passed[i] <= 1
    BY <2>1 DEF App, Inwards
  <2> QED
    BY <2>2
<1> QED
  BY <1>1, Invariance, PTL

\* mosquitto_loop_forever gives up on a PUBREC only after the application's thread sent a message
\* that the loop had already sent (lib/mosquitto.c:1015).
THEOREM GivesUp == Spec => []GivesUpOnlyIfLate
<1>1. Inv => GivesUpOnlyIfLate
  BY DEF Inv, Place, GivesUpOnlyIfLate
<1> QED
  BY <1>1, Invariance, PTL

==============================================================================

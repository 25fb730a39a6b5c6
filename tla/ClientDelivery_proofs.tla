------------------------ MODULE ClientDelivery_proofs ------------------------
(***************************************************************************)
(* The QoS 2 handshake with which the client publishes, for every number   *)
(* of messages, every range of identifiers, all limits, any number of      *)
(* packets in transit and of lost connections: a message is routed at most *)
(* once, and it has been when the client has its PUBCOMP.  With it every   *)
(* step of ClientDelivery is a step of ExactlyOnce, or none.               *)
(*                                                                         *)
(* The argument follows one identifier at a time.  It is free, or the      *)
(* client waits for the PUBREC of the message it publishes under it, or    *)
(* for the PUBCOMP, and then the broker has routed the message or still    *)
(* holds it.  Each stage says which packets under the identifier may be in *)
(* transit and in which order, packets left over from earlier uses of the  *)
(* identifier and from repetitions included.                               *)
(*                                                                         *)
(* And what the broker sends to the client arrives, and QoS 2 arrives      *)
(* once: a message whose identifier is its own stays in the list until the *)
(* application has it, and is given to it once unless a reconnection has   *)
(* moved it back from PUBREL to PUBLISH.                                   *)
(*                                                                         *)
(* That argument, the second part of the module, follows one message whose *)
(* identifier no other one has and under which the client was not sent its *)
(* own message.  Every packet under the identifier is then about this      *)
(* message: what would remove it is not in transit before the application  *)
(* has it, and as soon as the broker can think that the client holds it,   *)
(* the client does.                                                        *)
(***************************************************************************)
EXTENDS ClientDelivery, ClientMsgs_proofs

\* The packets of one type under one identifier.
Has(q, type, mid) == \E i \in DOMAIN q : q[i].type = type /\ q[i].mid = mid

\* There is no `second' after a `first' under that identifier.
NoneAfter(q, first, second, mid) ==
  \A i, j \in DOMAIN q : /\ i < j
                         /\ q[i].type = first /\ q[i].mid = mid
                         /\ q[j].mid = mid
                         => q[j].type # second

\* What is left of a channel: everything, all but the packet that is taken, nothing.
Less(q, k) == k = q \/ (q # <<>> /\ k = Tail(q)) \/ k = <<>>

------------------------------------------------------------------------------
\* The stages of an identifier.  tb and tc are the packets in transit to the broker
\* and to the client; `st' says that the broker stores a message under it.

\* Nobody publishes under it: whatever is left over from earlier is a PUBREL or a
\* PUBCOMP that nobody waits for.
Free(tb, tc, st, mid) ==
  ~st /\ ~Has(tb, "PUBLISH", mid) /\ ~Has(tc, "PUBREC", mid)

\* The client waits for PUBREC: a PUBREL in transit is an old one, it comes before
\* the PUBLISH, and the PUBREC that is in transit means that the message is stored.
Waits(tb, tc, st, mid) ==
  /\ NoneAfter(tb, "PUBLISH", "PUBREL", mid)
  /\ Has(tb, "PUBREL", mid) => ~st
  /\ Has(tc, "PUBREC", mid) => st
  /\ NoneAfter(tc, "PUBREC", "PUBCOMP", mid)

\* The client waits for PUBCOMP and the broker stores the message.
Holds(tb, tc, st, mid) ==
  /\ st
  /\ NoneAfter(tb, "PUBREL", "PUBLISH", mid)
  /\ ~Has(tc, "PUBCOMP", mid)

\* The client waits for PUBCOMP and the broker has routed the message.
Routed(tb, tc, st, mid) ==
  /\ ~st
  /\ ~Has(tb, "PUBLISH", mid)
  /\ NoneAfter(tc, "PUBCOMP", "PUBREC", mid)

------------------------------------------------------------------------------
\* Channels.

\* A packet of what is left was there before, in the same order.
LEMMA LessFacts ==
  ASSUME NEW q \in Seq(Wire), NEW k, Less(q, k)
  PROVE  /\ k \in Seq(Wire)
         /\ \A type, mid : Has(k, type, mid) => Has(q, type, mid)
         /\ \A first, second, mid :
              NoneAfter(q, first, second, mid) => NoneAfter(k, first, second, mid)
<1>1. CASE k = q
  BY <1>1
<1>2. CASE q # <<>> /\ k = Tail(q)
  <2>1. k \in Seq(Wire) /\ Len(k) = Len(q) - 1
    BY <1>2
  <2>2. \A i \in DOMAIN k : i + 1 \in DOMAIN q /\ k[i] = q[i + 1]
    BY <1>2
  <2>3. \A type, mid : Has(k, type, mid) => Has(q, type, mid)
    BY <2>2 DEF Has
  <2>4. \A i, j \in DOMAIN k : i < j => i + 1 < j + 1
    BY <2>1
  <2>5. \A first, second, mid :
          NoneAfter(q, first, second, mid) => NoneAfter(k, first, second, mid)
    BY <2>2, <2>4 DEF NoneAfter
  <2> QED
    BY <2>1, <2>3, <2>5
<1>3. CASE k = <<>>
  BY <1>3 DEF Has, NoneAfter
<1> QED
  BY <1>1, <1>2, <1>3 DEF Less

\* Taking a `first' leaves no `second'.
LEMMA HeadFacts ==
  ASSUME NEW q \in Seq(Wire), q # <<>>
  PROVE  /\ Has(q, Head(q).type, Head(q).mid)
         /\ \A second : NoneAfter(q, Head(q).type, second, Head(q).mid)
                          => ~Has(Tail(q), second, Head(q).mid)
<1>1. 1 \in DOMAIN q /\ Head(q) = q[1]
  OBVIOUS
<1>2. \A i \in DOMAIN Tail(q) : i + 1 \in DOMAIN q /\ Tail(q)[i] = q[i + 1] /\ 1 < i + 1
  OBVIOUS
<1>3. Has(q, Head(q).type, Head(q).mid)
  BY <1>1 DEF Has
<1>4. ASSUME NEW second, NoneAfter(q, Head(q).type, second, Head(q).mid),
             Has(Tail(q), second, Head(q).mid)
      PROVE  FALSE
  <2>1. PICK i \in DOMAIN Tail(q) : /\ Tail(q)[i].type = second
                                    /\ Tail(q)[i].mid = Head(q).mid
    BY <1>4 DEF Has
  <2> QED
    BY <1>1, <1>2, <1>4, <2>1 DEF NoneAfter
<1> QED
  BY <1>3, <1>4

\* Packets that are appended come after those that are there.
LEMMA ConcatFacts ==
  ASSUME NEW q \in Seq(Wire), NEW r \in Seq(Wire)
  PROVE  /\ q \o r \in Seq(Wire)
         /\ \A type, mid : Has(q \o r, type, mid) <=> Has(q, type, mid) \/ Has(r, type, mid)
         /\ \A first, second, mid :
              /\ NoneAfter(q, first, second, mid)
              /\ NoneAfter(r, first, second, mid)
              /\ ~Has(q, first, mid) \/ ~Has(r, second, mid)
              => NoneAfter(q \o r, first, second, mid)
<1> DEFINE k == q \o r
<1>1. k \in Seq(Wire) /\ Len(k) = Len(q) + Len(r)
  OBVIOUS
<1>2. \A i \in DOMAIN q : i \in DOMAIN k /\ k[i] = q[i]
  OBVIOUS
<1>3. \A i \in DOMAIN r : i + Len(q) \in DOMAIN k /\ k[i + Len(q)] = r[i]
  OBVIOUS
<1>4. \A i \in DOMAIN k : \/ i \in DOMAIN q /\ k[i] = q[i]
                          \/ i - Len(q) \in DOMAIN r /\ k[i] = r[i - Len(q)] /\ i > Len(q)
  OBVIOUS
<1> HIDE DEF k
<1>5. \A type, mid : Has(k, type, mid) <=> Has(q, type, mid) \/ Has(r, type, mid)
  BY <1>2, <1>3, <1>4 DEF Has
<1>6. ASSUME NEW first, NEW second, NEW mid,
             NoneAfter(q, first, second, mid), NoneAfter(r, first, second, mid),
             ~Has(q, first, mid) \/ ~Has(r, second, mid)
      PROVE  NoneAfter(k, first, second, mid)
  <2>1. SUFFICES ASSUME NEW i \in DOMAIN k, NEW j \in DOMAIN k, i < j,
                        k[i].type = first, k[i].mid = mid, k[j].mid = mid,
                        k[j].type = second
                 PROVE  FALSE
    BY DEF NoneAfter
  <2>2. i \in Int /\ j \in Int /\ Len(q) \in Int
    BY <1>1
  <2>3. CASE j \in DOMAIN q /\ k[j] = q[j]
    <3>1. i \in DOMAIN q
      BY <2>1, <2>2, <2>3, <1>1
    <3>2. k[i] = q[i]
      BY <3>1, <1>2
    <3> QED
      BY <1>6, <2>1, <2>3, <3>1, <3>2 DEF NoneAfter
  <2>4. CASE j - Len(q) \in DOMAIN r /\ k[j] = r[j - Len(q)]
    <3>1. Has(r, second, mid)
      BY <2>1, <2>4 DEF Has
    <3>2. ~Has(q, first, mid)
      BY <1>6, <3>1
    <3>3. i - Len(q) \in DOMAIN r /\ k[i] = r[i - Len(q)]
      BY <1>4, <2>1, <3>2 DEF Has
    <3>4. i - Len(q) < j - Len(q)
      BY <2>1, <2>2
    <3> QED
      BY <1>6, <2>1, <2>4, <3>3, <3>4 DEF NoneAfter
  <2> QED
    BY <1>4, <2>3, <2>4
<1> QED
  BY <1>1, <1>5, <1>6 DEF k

\* A single packet.
LEMMA OneFacts ==
  ASSUME NEW x \in Wire
  PROVE  /\ <<x>> \in Seq(Wire)
         /\ \A type, mid : Has(<<x>>, type, mid) <=> x.type = type /\ x.mid = mid
         /\ \A first, second, mid : NoneAfter(<<x>>, first, second, mid)
         /\ \A q \in Seq(Wire) : Append(q, x) = q \o <<x>>
  BY DEF Has, NoneAfter

\* Where one of two kinds of packet is missing, none comes after the other.
LEMMA NoneOf ==
  ASSUME NEW q, NEW first, NEW second, NEW mid, ~Has(q, first, mid) \/ ~Has(q, second, mid)
  PROVE  NoneAfter(q, first, second, mid)
  BY DEF Has, NoneAfter

------------------------------------------------------------------------------
\* What the broker does to the stages of an identifier.

\* It takes a packet, or loses the connection, and sends PUBRECs only for messages
\* it stores.
LEMMA Quiet ==
  ASSUME NEW tb \in Seq(Wire), NEW tc \in Seq(Wire), NEW st, NEW mid,
         NEW tb2, Less(tb, tb2), NEW rest, Less(tc, rest),
         NEW s \in Seq(Wire), NEW tc2, tc2 = rest \o s,
         ~Has(s, "PUBCOMP", mid), Has(s, "PUBREC", mid) => st
  PROVE  /\ Free(tb, tc, st, mid) => Free(tb2, tc2, st, mid)
         /\ Waits(tb, tc, st, mid) => Waits(tb2, tc2, st, mid)
         /\ Holds(tb, tc, st, mid) => Holds(tb2, tc2, st, mid)
         /\ Routed(tb, tc, st, mid) => Routed(tb2, tc2, st, mid)
<1>1. rest \in Seq(Wire)
  BY LessFacts
<1>2. /\ Has(tb2, "PUBLISH", mid) => Has(tb, "PUBLISH", mid)
      /\ Has(tb2, "PUBREL", mid) => Has(tb, "PUBREL", mid)
      /\ Has(tc2, "PUBREC", mid) => Has(tc, "PUBREC", mid) \/ st
      /\ Has(tc2, "PUBCOMP", mid) => Has(tc, "PUBCOMP", mid)
  <2>1. /\ Has(tc2, "PUBREC", mid) => Has(rest, "PUBREC", mid) \/ Has(s, "PUBREC", mid)
        /\ Has(tc2, "PUBCOMP", mid) => Has(rest, "PUBCOMP", mid) \/ Has(s, "PUBCOMP", mid)
    BY <1>1, ConcatFacts
  <2> QED
    BY <2>1, LessFacts
<1>3. \A first, second :
        NoneAfter(tb, first, second, mid) => NoneAfter(tb2, first, second, mid)
  BY LessFacts
<1>4. NoneAfter(tc, "PUBREC", "PUBCOMP", mid) => NoneAfter(tc2, "PUBREC", "PUBCOMP", mid)
  <2>1. NoneAfter(s, "PUBREC", "PUBCOMP", mid)
    BY NoneOf
  <2> QED
    BY <1>1, <2>1, LessFacts, ConcatFacts
<1>5. ~st /\ NoneAfter(tc, "PUBCOMP", "PUBREC", mid)
        => NoneAfter(tc2, "PUBCOMP", "PUBREC", mid)
  <2>1. NoneAfter(s, "PUBCOMP", "PUBREC", mid)
    BY NoneOf
  <2> QED
    BY <1>1, <2>1, LessFacts, ConcatFacts
<1> QED
  BY <1>2, <1>3, <1>4, <1>5 DEF Free, Waits, Holds, Routed

\* It stores a message: only the client that waits for PUBREC has sent it.
LEMMA Stores ==
  ASSUME NEW tb \in Seq(Wire), NEW tc \in Seq(Wire), NEW mid,
         tb # <<>>, Head(tb).type = "PUBLISH", Head(tb).mid = mid,
         NEW s \in Seq(Wire), NEW tc2, tc2 = tc \o s, ~Has(s, "PUBCOMP", mid)
  PROVE  /\ ~Free(tb, tc, FALSE, mid)
         /\ Waits(tb, tc, FALSE, mid) => Waits(Tail(tb), tc2, TRUE, mid)
         /\ ~Holds(tb, tc, FALSE, mid)
         /\ ~Routed(tb, tc, FALSE, mid)
<1>1. Has(tb, "PUBLISH", mid)
  BY HeadFacts
<1>2. ASSUME Waits(tb, tc, FALSE, mid)
      PROVE  Waits(Tail(tb), tc2, TRUE, mid)
  <2>1. ~Has(Tail(tb), "PUBREL", mid)
    BY <1>2, HeadFacts DEF Waits
  <2>2. NoneAfter(Tail(tb), "PUBLISH", "PUBREL", mid)
    BY <2>1, NoneOf
  <2>3. ~Has(tc, "PUBREC", mid)
    BY <1>2 DEF Waits
  <2>4. NoneAfter(s, "PUBREC", "PUBCOMP", mid) /\ NoneAfter(tc, "PUBREC", "PUBCOMP", mid)
    BY <2>3, NoneOf
  <2>5. NoneAfter(tc2, "PUBREC", "PUBCOMP", mid)
    BY <2>3, <2>4, ConcatFacts
  <2> QED
    BY <2>1, <2>2, <2>5 DEF Waits
<1> QED
  BY <1>1, <1>2 DEF Free, Holds, Routed

\* It answers a PUBREL, and routes the message if it stores one.
LEMMA Releases ==
  ASSUME NEW tb \in Seq(Wire), NEW tc \in Seq(Wire), NEW st, NEW mid,
         tb # <<>>, Head(tb).type = "PUBREL", Head(tb).mid = mid,
         NEW s \in Seq(Wire), NEW tc2, tc2 = tc \o s,
         NoneAfter(s, "PUBCOMP", "PUBREC", mid), Has(s, "PUBREC", mid) => st
  PROVE  /\ Free(tb, tc, st, mid) => Free(Tail(tb), tc2, FALSE, mid)
         /\ Waits(tb, tc, st, mid) => ~st /\ Waits(Tail(tb), tc2, FALSE, mid)
         /\ Holds(tb, tc, st, mid) => Routed(Tail(tb), tc2, FALSE, mid)
         /\ Routed(tb, tc, st, mid) => Routed(Tail(tb), tc2, FALSE, mid)
<1>0. Less(tb, Tail(tb))
  BY DEF Less
<1>1. Has(tb, "PUBREL", mid)
  BY HeadFacts
<1>2. /\ Has(Tail(tb), "PUBLISH", mid) => Has(tb, "PUBLISH", mid)
      /\ \A first, second :
           NoneAfter(tb, first, second, mid) => NoneAfter(Tail(tb), first, second, mid)
  BY <1>0, LessFacts
<1>3. Has(tc2, "PUBREC", mid) => Has(tc, "PUBREC", mid) \/ st
  BY ConcatFacts
<1>4. ASSUME Waits(tb, tc, st, mid)
      PROVE  ~st /\ Waits(Tail(tb), tc2, FALSE, mid)
  <2>1. ~st /\ ~Has(tc2, "PUBREC", mid)
    BY <1>1, <1>3, <1>4 DEF Waits
  <2>2. NoneAfter(tc2, "PUBREC", "PUBCOMP", mid)
    BY <2>1, NoneOf
  <2> QED
    BY <1>2, <1>4, <2>1, <2>2 DEF Waits
<1>5. ASSUME Holds(tb, tc, st, mid)
      PROVE  Routed(Tail(tb), tc2, FALSE, mid)
  <2>1. ~Has(Tail(tb), "PUBLISH", mid)
    BY <1>5, HeadFacts DEF Holds
  <2>2. ~Has(tc, "PUBCOMP", mid)
    BY <1>5 DEF Holds
  <2>3. NoneAfter(tc, "PUBCOMP", "PUBREC", mid)
    BY <2>2, NoneOf
  <2>4. NoneAfter(tc2, "PUBCOMP", "PUBREC", mid)
    BY <2>2, <2>3, ConcatFacts
  <2> QED
    BY <2>1, <2>4 DEF Routed
<1>6. ASSUME Routed(tb, tc, st, mid)
      PROVE  Routed(Tail(tb), tc2, FALSE, mid)
  <2>1. ~Has(s, "PUBREC", mid) /\ NoneAfter(tc, "PUBCOMP", "PUBREC", mid)
    BY <1>6 DEF Routed
  <2>2. NoneAfter(tc2, "PUBCOMP", "PUBREC", mid)
    BY <2>1, ConcatFacts
  <2> QED
    BY <1>2, <1>6, <2>2 DEF Routed
<1> QED
  BY <1>2, <1>3, <1>4, <1>5, <1>6 DEF Free

------------------------------------------------------------------------------
\* What the client does to the stages of an identifier.

\* It takes a packet and sends packets of other kinds, or those of the stage again.
LEMMA Repeated ==
  ASSUME NEW tb \in Seq(Wire), NEW tc \in Seq(Wire), NEW st, NEW mid,
         NEW tc2, Less(tc, tc2), NEW s \in Seq(Wire), NEW tb2, tb2 = tb \o s
  PROVE  /\ ~Has(s, "PUBLISH", mid) /\ Free(tb, tc, st, mid) => Free(tb2, tc2, st, mid)
         /\ ~Has(s, "PUBREL", mid) /\ Waits(tb, tc, st, mid) => Waits(tb2, tc2, st, mid)
         /\ ~Has(s, "PUBLISH", mid) /\ Holds(tb, tc, st, mid) => Holds(tb2, tc2, st, mid)
         /\ ~Has(s, "PUBLISH", mid) /\ Routed(tb, tc, st, mid) => Routed(tb2, tc2, st, mid)
<1>1. /\ Has(tc2, "PUBREC", mid) => Has(tc, "PUBREC", mid)
      /\ Has(tc2, "PUBCOMP", mid) => Has(tc, "PUBCOMP", mid)
      /\ \A first, second :
           NoneAfter(tc, first, second, mid) => NoneAfter(tc2, first, second, mid)
  BY LessFacts
<1>2. /\ Has(tb2, "PUBLISH", mid) => Has(tb, "PUBLISH", mid) \/ Has(s, "PUBLISH", mid)
      /\ Has(tb2, "PUBREL", mid) => Has(tb, "PUBREL", mid) \/ Has(s, "PUBREL", mid)
  BY ConcatFacts
<1>3. ASSUME ~Has(s, "PUBREL", mid), NoneAfter(tb, "PUBLISH", "PUBREL", mid)
      PROVE  NoneAfter(tb2, "PUBLISH", "PUBREL", mid)
  <2>1. NoneAfter(s, "PUBLISH", "PUBREL", mid)
    BY <1>3, NoneOf
  <2> QED
    BY <1>3, <2>1, ConcatFacts
<1>4. ASSUME ~Has(s, "PUBLISH", mid), NoneAfter(tb, "PUBREL", "PUBLISH", mid)
      PROVE  NoneAfter(tb2, "PUBREL", "PUBLISH", mid)
  <2>1. NoneAfter(s, "PUBREL", "PUBLISH", mid)
    BY <1>4, NoneOf
  <2> QED
    BY <1>4, <2>1, ConcatFacts
<1> QED
  BY <1>1, <1>2, <1>3, <1>4 DEF Free, Waits, Holds, Routed

\* It publishes under an identifier that is free.
LEMMA Publishes ==
  ASSUME NEW tb \in Seq(Wire), NEW tc \in Seq(Wire), NEW st, NEW mid,
         NEW x \in Wire, x.type = "PUBLISH", Free(tb, tc, st, mid)
  PROVE  Waits(tb \o <<x>>, tc, st, mid)
<1>1. <<x>> \in Seq(Wire) /\ ~Has(<<x>>, "PUBREL", mid)
  BY OneFacts
<1>2. /\ NoneAfter(tb, "PUBLISH", "PUBREL", mid) /\ NoneAfter(<<x>>, "PUBLISH", "PUBREL", mid)
      /\ NoneAfter(tc, "PUBREC", "PUBCOMP", mid)
  BY <1>1, NoneOf DEF Free
<1>3. NoneAfter(tb \o <<x>>, "PUBLISH", "PUBREL", mid)
  BY <1>1, <1>2, ConcatFacts
<1> QED
  BY <1>2, <1>3 DEF Free, Waits

\* It takes the PUBREC it waits for and sends PUBREL.
LEMMA TakesPubrec ==
  ASSUME NEW tb \in Seq(Wire), NEW tc \in Seq(Wire), NEW st \in BOOLEAN, NEW mid,
         tc # <<>>, Head(tc).type = "PUBREC", Head(tc).mid = mid,
         NEW x \in Wire, x.type = "PUBREL"
  PROVE  /\ ~Free(tb, tc, st, mid)
         /\ Waits(tb, tc, st, mid) => Holds(tb \o <<x>>, Tail(tc), st, mid)
<1>1. Has(tc, "PUBREC", mid)
  BY HeadFacts
<1>2. ASSUME Waits(tb, tc, st, mid)
      PROVE  Holds(tb \o <<x>>, Tail(tc), st, mid)
  <2>1. st /\ ~Has(tb, "PUBREL", mid)
    BY <1>1, <1>2 DEF Waits
  <2>2. ~Has(Tail(tc), "PUBCOMP", mid)
    BY <1>2, HeadFacts DEF Waits
  <2>3. <<x>> \in Seq(Wire) /\ ~Has(<<x>>, "PUBLISH", mid)
    BY OneFacts
  <2>4. NoneAfter(tb, "PUBREL", "PUBLISH", mid) /\ NoneAfter(<<x>>, "PUBREL", "PUBLISH", mid)
    BY <2>1, <2>3, NoneOf
  <2>5. NoneAfter(tb \o <<x>>, "PUBREL", "PUBLISH", mid)
    BY <2>1, <2>3, <2>4, ConcatFacts
  <2> QED
    BY <2>1, <2>2, <2>5 DEF Holds
<1> QED
  BY <1>1, <1>2 DEF Free

\* It takes the PUBCOMP it waits for.
LEMMA TakesPubcomp ==
  ASSUME NEW tb \in Seq(Wire), NEW tc \in Seq(Wire), NEW st, NEW mid,
         tc # <<>>, Head(tc).type = "PUBCOMP", Head(tc).mid = mid
  PROVE  /\ ~Holds(tb, tc, st, mid)
         /\ Routed(tb, tc, st, mid) => Free(tb, Tail(tc), st, mid)
<1>1. Has(tc, "PUBCOMP", mid)
  BY HeadFacts
<1>2. NoneAfter(tc, "PUBCOMP", "PUBREC", mid) => ~Has(Tail(tc), "PUBREC", mid)
  BY HeadFacts
<1> QED
  BY <1>1, <1>2 DEF Holds, Routed, Free

------------------------------------------------------------------------------
\* The inductive invariant.

Busy(state) == state \in {"wait_for_pubrec", "wait_for_pubcomp"}

Stored(l, mid) == Match(l, mid, In) # {}

\* A PUBLISH in transit, or a stored message, is what the client publishes under that
\* identifier at the moment.
Owned(pb, pm, x) == x.msg \in Pubs /\ Busy(pb[x.msg]) /\ pm[x.msg] = x.mid

\* The stage of the identifier of a message the client publishes, which is in state
\* `state' and has been routed n times.
Stage(tb, tc, st, mid, state, n) ==
  \/ state = "wait_for_pubrec" /\ n = 0 /\ Waits(tb, tc, st, mid)
  \/ state = "wait_for_pubcomp" /\ n = 0 /\ Holds(tb, tc, st, mid)
  \/ state = "wait_for_pubcomp" /\ n = 1 /\ Routed(tb, tc, st, mid)

Settled(state, n) == (state = "idle" => n = 0) /\ (state = "done" => n = 1)

Apart(pb, pm) ==
  \A p, q \in Pubs : Busy(pb[p]) /\ Busy(pb[q]) /\ pm[p] = pm[q] => p = q

Unused(pb, pm, mid) == \A p \in Pubs : Busy(pb[p]) => pm[p] # mid

Handshake(tb, tc, l, pb, pm, n) ==
  /\ Apart(pb, pm)
  /\ \A i \in DOMAIN tb : tb[i].type = "PUBLISH" => Owned(pb, pm, tb[i])
  /\ \A a \in DOMAIN l : l[a].dir = In => Owned(pb, pm, l[a])
  /\ \A p \in Pubs : Settled(pb[p], n[p])
  /\ \A p \in Pubs : Busy(pb[p]) => Stage(tb, tc, Stored(l, pm[p]), pm[p], pb[p], n[p])
  /\ \A mid \in 0..MidMax : Unused(pb, pm, mid) => Free(tb, tc, Stored(l, mid), mid)

\* The packets that the client can be sent, with the messages in the list: none is
\* of QoS 0, and none is a PUBACK.
ForClient(q) ==
  \A i \in DOMAIN q : /\ q[i].type # "PUBACK"
                      /\ q[i].type = "PUBLISH" => q[i].qos \in {1, 2}

Asserted(l) == \A a \in DOMAIN l : l[a].qos \in {1, 2}

DTypes ==
  /\ toBroker \in Seq(Wire) /\ toClient \in Seq(Wire)
  /\ ForClient(toClient) /\ Asserted(msgs)
  /\ pub \in [Pubs -> {"idle", "wait_for_pubrec", "wait_for_pubcomp", "done"}]
  /\ pubMid \in [Pubs -> 0..MidMax]
  /\ passed \in [Pubs -> 0..2]
  /\ \A p \in Pubs : Busy(pub[p]) => pubMid[p] \in Mids

\* The broker has nothing for the client before its first connection.
Before1st == clean => ~sock /\ DOMAIN msgs = {}

DInv == /\ Inv /\ DTypes /\ Before1st
        /\ Handshake(toBroker, toClient, msgs, pub, pubMid, passed)

------------------------------------------------------------------------------
\* Steps of the broker that leave the client's messages alone.

\* The lists hold the same messages of the client.
SameInbound(l, k) ==
  /\ \A a \in DOMAIN k : k[a].dir = In =>
       a \in DOMAIN l /\ l[a].dir = In /\ l[a].mid = k[a].mid /\ l[a].msg = k[a].msg
  /\ \A a \in DOMAIN l : l[a].dir = In =>
       a \in DOMAIN k /\ k[a].dir = In /\ k[a].mid = l[a].mid

LEMMA SameStored ==
  ASSUME NEW l, NEW k, SameInbound(l, k), NEW mid
  PROVE  Stored(k, mid) = Stored(l, mid)
<1>1. Stored(k, mid) => Stored(l, mid)
  BY DEF SameInbound, Stored, Match
<1>2. Stored(l, mid) => Stored(k, mid)
  BY DEF SameInbound, Stored, Match
<1>3. Stored(k, mid) \in BOOLEAN /\ Stored(l, mid) \in BOOLEAN
  BY DEF Stored
<1> QED
  BY <1>1, <1>2, <1>3

\* Taking out no message of the client leaves them alone.
LEMMA KeepsSame ==
  ASSUME NEW l, NEW k, NEW gone, Keeps(l, k, gone), \A a \in gone : l[a].dir # In
  PROVE  SameInbound(l, k)
  BY DEF Keeps, SameInbound

\* The packets of such a step: no PUBCOMP, and PUBREC only for a stored message.
Plain(s, l) ==
  /\ s \in Seq(Wire) /\ ForClient(s)
  /\ \A mid : ~Has(s, "PUBCOMP", mid) /\ (Has(s, "PUBREC", mid) => Stored(l, mid))

LEMMA PlainEmpty ==
  ASSUME NEW l
  PROVE  Plain(<<>>, l)
  BY DEF Plain, Has, ForClient

LEMMA PlainOne ==
  ASSUME NEW l, NEW mid \in 0..MidMax,
         NEW type \in {"CONNACK", "PUBREC", "PUBREL"},
         type = "PUBREC" => Stored(l, mid)
  PROVE  Plain(<<Packet(type, mid)>>, l)
<1>1. /\ Packet(type, mid) \in Wire
      /\ Packet(type, mid).type = type /\ Packet(type, mid).mid = mid
  BY PacketType
<1>2. ForClient(<<Packet(type, mid)>>)
  BY <1>1 DEF ForClient
<1> QED
  BY <1>1, <1>2, OneFacts DEF Plain

\* Both stay so.
LEMMA ForClientKept ==
  ASSUME NEW q \in Seq(Wire), ForClient(q), NEW k, Less(q, k),
         NEW s \in Seq(Wire), ForClient(s)
  PROVE  ForClient(k) /\ ForClient(k \o s)
<1>1. k \in Seq(Wire)
  BY LessFacts
<1>2. ForClient(k)
  <2>1. CASE k = q
    BY <2>1
  <2>2. CASE q # <<>> /\ k = Tail(q)
    <3>1. \A i \in DOMAIN k : i + 1 \in DOMAIN q /\ k[i] = q[i + 1]
      BY <2>2
    <3> QED
      BY <3>1 DEF ForClient
  <2>3. CASE k = <<>>
    BY <2>3 DEF ForClient
  <2> QED
    BY <2>1, <2>2, <2>3 DEF Less
<1>3. \A i \in DOMAIN (k \o s) : \/ i \in DOMAIN k /\ (k \o s)[i] = k[i]
                                 \/ /\ i - Len(k) \in DOMAIN s
                                    /\ (k \o s)[i] = s[i - Len(k)]
  BY <1>1
<1> QED
  BY <1>2, <1>3 DEF ForClient

LEMMA AssertedKept ==
  ASSUME NEW l, NEW k, NEW gone, Keeps(l, k, gone), Asserted(l)
  PROVE  Asserted(k)
  BY DEF Keeps, Asserted

LEMMA AssertedInserted ==
  ASSUME NEW l, Asserted(l), NEW at, NEW dir, NEW mid, NEW qos \in {1, 2}, NEW m
  PROVE  Asserted(Inserted(l, at, dir, mid, qos, m))
  BY DEF Asserted, Inserted, Append1

\* The handshake goes on as it was.
LEMMA QuietHandshake ==
  ASSUME NEW tb \in Seq(Wire), NEW tc \in Seq(Wire), NEW l, NEW pb, NEW pm, NEW n,
         Handshake(tb, tc, l, pb, pm, n),
         NEW tb2, Less(tb, tb2), NEW rest, Less(tc, rest), NEW s, Plain(s, l),
         NEW tc2, tc2 = rest \o s, NEW k, SameInbound(l, k)
  PROVE  Handshake(tb2, tc2, k, pb, pm, n)
<1>1. \A mid : /\ Free(tb, tc, Stored(l, mid), mid) => Free(tb2, tc2, Stored(k, mid), mid)
               /\ Waits(tb, tc, Stored(l, mid), mid) => Waits(tb2, tc2, Stored(k, mid), mid)
               /\ Holds(tb, tc, Stored(l, mid), mid) => Holds(tb2, tc2, Stored(k, mid), mid)
               /\ Routed(tb, tc, Stored(l, mid), mid) => Routed(tb2, tc2, Stored(k, mid), mid)
  <2> SUFFICES ASSUME NEW mid
               PROVE  /\ Free(tb, tc, Stored(l, mid), mid) => Free(tb2, tc2, Stored(k, mid), mid)
                      /\ Waits(tb, tc, Stored(l, mid), mid) => Waits(tb2, tc2, Stored(k, mid), mid)
                      /\ Holds(tb, tc, Stored(l, mid), mid) => Holds(tb2, tc2, Stored(k, mid), mid)
                      /\ Routed(tb, tc, Stored(l, mid), mid) => Routed(tb2, tc2, Stored(k, mid), mid)
    OBVIOUS
  <2>1. Stored(k, mid) = Stored(l, mid)
    BY SameStored
  <2>2. s \in Seq(Wire) /\ ~Has(s, "PUBCOMP", mid)
    BY DEF Plain
  <2>3. Has(s, "PUBREC", mid) => Stored(l, mid)
    BY DEF Plain
  <2> QED
    BY <2>1, <2>2, <2>3, Quiet
<1>2. \A mid, state, i : Stage(tb, tc, Stored(l, mid), mid, state, i)
                           => Stage(tb2, tc2, Stored(k, mid), mid, state, i)
  BY <1>1 DEF Stage
<1>3. \A i \in DOMAIN tb2 : tb2[i].type = "PUBLISH" => Owned(pb, pm, tb2[i])
  <2>1. CASE tb2 = tb
    BY <2>1 DEF Handshake
  <2>2. CASE tb # <<>> /\ tb2 = Tail(tb)
    <3>1. \A i \in DOMAIN tb2 : i + 1 \in DOMAIN tb /\ tb2[i] = tb[i + 1]
      BY <2>2
    <3> QED
      BY <3>1 DEF Handshake
  <2>3. CASE tb2 = <<>>
    BY <2>3
  <2> QED
    BY <2>1, <2>2, <2>3 DEF Less
<1>4. \A a \in DOMAIN k : k[a].dir = In => Owned(pb, pm, k[a])
  BY DEF Handshake, SameInbound, Owned
<1>5. /\ Apart(pb, pm)
      /\ \A p \in Pubs : Settled(pb[p], n[p])
      /\ \A p \in Pubs : Busy(pb[p]) => Stage(tb, tc, Stored(l, pm[p]), pm[p], pb[p], n[p])
      /\ \A mid \in 0..MidMax : Unused(pb, pm, mid) => Free(tb, tc, Stored(l, mid), mid)
  BY DEF Handshake
<1> QED
  BY <1>1, <1>2, <1>3, <1>4, <1>5 DEF Handshake
------------------------------------------------------------------------------
\* The invariant after a step, from its parts.
LEMMA DKept ==
  ASSUME Inv', clean' => ~sock' /\ DOMAIN msgs' = {},
         toBroker' \in Seq(Wire), toClient' \in Seq(Wire),
         ForClient(toClient'), Asserted(msgs'),
         pub' \in [Pubs -> {"idle", "wait_for_pubrec", "wait_for_pubcomp", "done"}],
         pubMid' \in [Pubs -> 0..MidMax], passed' \in [Pubs -> 0..2],
         \A p \in Pubs : Busy(pub'[p]) => pubMid'[p] \in Mids,
         Handshake(toBroker', toClient', msgs', pub', pubMid', passed')
  PROVE  DInv'
<1>1. DTypes' /\ Before1st'
  BY DEF DTypes, Before1st, Busy, Wire, Mids, QoS, ForClient, Asserted
<1>2. Handshake(toBroker, toClient, msgs, pub, pubMid, passed)'
  BY DEF Handshake, Apart, Owned, Settled, Stage, Unused, Busy, Stored, Match,
         Free, Waits, Holds, Routed, Has, NoneAfter
<1> QED
  BY <1>1, <1>2 DEF DInv

\* What is known of a state.
LEMMA DFacts ==
  ASSUME DInv
  PROVE  /\ Inv /\ msgs \in Lists /\ Fits(msgs) /\ Unique(msgs) /\ Received(msgs)
         /\ clean => ~sock /\ DOMAIN msgs = {}
         /\ toBroker \in Seq(Wire) /\ toClient \in Seq(Wire)
         /\ ForClient(toClient) /\ Asserted(msgs)
         /\ pub \in [Pubs -> {"idle", "wait_for_pubrec", "wait_for_pubcomp", "done"}]
         /\ pubMid \in [Pubs -> 0..MidMax] /\ passed \in [Pubs -> 0..2]
         /\ \A p \in Pubs : Busy(pub[p]) => pubMid[p] \in Mids
         /\ Handshake(toBroker, toClient, msgs, pub, pubMid, passed)
  BY InvFacts DEF DInv, DTypes, Before1st, Good

\* A step that routes nothing counts nothing.
LEMMA NothingRouted ==
  ASSUME DInv, Observe, routed' = <<>>
  PROVE  passed' = passed
<1>1. \A p \in Pubs : Cardinality({i \in DOMAIN routed' : routed'[i] = p}) = 0
  BY FS_EmptySet
<1>2. \A n \in 0..2 : Capped(n + 0) = n
  BY DEF Capped
<1>3. passed \in [Pubs -> 0..2]
  BY DFacts
<1>4. passed' = [p \in Pubs |-> Capped(passed[p] +
                   Cardinality({i \in DOMAIN routed' : routed'[i] = p}))]
  BY DEF Observe
<1>5. \A p \in Pubs : passed'[p] = passed[p]
  BY <1>1, <1>2, <1>3, <1>4
<1> QED
  BY <1>3, <1>4, <1>5

\* A step of the broker, or of the network, that stores nothing and routes nothing.
LEMMA CalmStep ==
  ASSUME DInv, Inv', clean' => ~sock' /\ DOMAIN msgs' = {},
         SameInbound(msgs, msgs'), Asserted(msgs'), routed' = <<>>, Observe,
         Less(toBroker, toBroker'), NEW rest, Less(toClient, rest),
         NEW s, Plain(s, msgs), toClient' = rest \o s,
         UNCHANGED <<pub, pubMid>>
  PROVE  DInv' /\ passed' = passed
<1>1. passed' = passed
  BY NothingRouted
<1>2. toBroker' \in Seq(Wire) /\ rest \in Seq(Wire)
  BY DFacts, LessFacts
<1>3. toClient' \in Seq(Wire) /\ ForClient(toClient')
  BY <1>2, DFacts, ConcatFacts, ForClientKept DEF Plain
<1>4. Handshake(toBroker', toClient', msgs', pub', pubMid', passed')
  <2>1. Handshake(toBroker', toClient', msgs', pub, pubMid, passed)
    BY DFacts, QuietHandshake
  <2> QED
    BY <1>1, <2>1
<1> QED
  BY <1>1, <1>2, <1>3, <1>4, DFacts, DKept

\* The same when the step ends with Deliver.
LEMMA CalmDelivery ==
  ASSUME DInv, Inv', clean' => ~sock' /\ DOMAIN msgs' = {},
         SameInbound(msgs, msgs'), Asserted(msgs'), routed' = <<>>, Observe,
         NEW rest, Less(toBroker, rest), Deliver(rest), sock' => Plain(sent', msgs)
  PROVE  DInv' /\ passed' = passed /\ pub' = pub
<1>1. pub' = pub /\ pubMid' = pubMid
  BY DEF Deliver
<1>2. CASE sock'
  <2>1. toBroker' = rest /\ toClient' = toClient \o sent'
    BY <1>2 DEF Deliver
  <2>2. Less(toClient, toClient)
    BY DEF Less
  <2> QED
    BY <1>1, <1>2, <2>1, <2>2, CalmStep
<1>3. CASE ~sock'
  <2>1. toBroker' = <<>> /\ toClient' = <<>> /\ <<>> = <<>> \o <<>>
    BY <1>3 DEF Deliver
  <2>2. Less(toClient, <<>>) /\ Less(toBroker, toBroker') /\ Plain(<<>>, msgs)
    BY <2>1, PlainEmpty DEF Less
  <2> QED
    BY <1>1, <2>1, <2>2, CalmStep
<1> QED
  BY <1>2, <1>3
------------------------------------------------------------------------------
\* The handlers that leave the client's messages alone.
Calm ==
  /\ Inv' /\ (clean' => ~sock' /\ DOMAIN msgs' = {})
  /\ SameInbound(msgs, msgs') /\ Asserted(msgs')
  /\ routed' = <<>> /\ (sock' => Plain(sent', msgs))

\* A client that keeps its session and loses the connection keeps its messages.
LEMMA CalmHangup ==
  ASSUME DInv, sock, NEW k, NEW n, NEW n12, Hangup(k, n, n12), NEW gone,
         Keeps(msgs, k, gone), \A a \in gone : msgs[a].dir # In
  PROVE  ~sock' /\ ~clean' /\ SameInbound(msgs, msgs') /\ Asserted(msgs')
<1>1. ~clean
  BY DFacts
<1>2. msgs' = k /\ sock' = FALSE /\ clean' = clean
  BY <1>1 DEF Hangup
<1>3. SameInbound(msgs, msgs') /\ Asserted(msgs')
  BY <1>2, DFacts, KeepsSame, AssertedKept
<1> QED
  BY <1>1, <1>2, <1>3

LEMMA SameItself ==
  ASSUME NEW l
  PROVE  SameInbound(l, l)
  BY DEF SameInbound

LEMMA PubAckCompCalm ==
  ASSUME DInv, NEW mid, PubAckComp(mid)
  PROVE  Calm
<1> DEFINE match == Match(msgs, mid, Out)
           gone  == Unlinked(msgs, match, match, limits.inflight)
<1>1. /\ Inv' /\ msgs \in Lists /\ Fits(msgs)
  BY DFacts, PubAckCompInv
<1>2. /\ msgs' = AfterWalk(msgs, match, match, limits.inflight)
      /\ sent' = <<>> /\ routed' = <<>> /\ sock' = sock /\ clean' = clean /\ sock
  BY DEF PubAckComp, Reading, Outputs, session
<1>3. Keeps(msgs, msgs', gone)
  BY <1>1, <1>2, WalkKeeps
<1>4. \A a \in gone : msgs[a].dir # In
  BY DEF Unlinked, Match, In, Out
<1>5. SameInbound(msgs, msgs') /\ Asserted(msgs')
  BY <1>3, <1>4, DFacts, KeepsSame, AssertedKept
<1> QED
  BY <1>1, <1>2, <1>5, PlainEmpty, DFacts DEF Calm

LEMMA PubRecCalm ==
  ASSUME DInv, NEW mid \in 0..MidMax, PubRec(mid)
  PROVE  Calm
<1>1. /\ Inv' /\ msgs \in Lists /\ Fits(msgs) /\ ~clean /\ sock
  BY DFacts, PubRecInv DEF PubRec, Reading
<1>2. CASE Match(msgs, mid, Out) # {}
  <2>1. /\ msgs' = SetState(msgs, FirstMatch(msgs, mid, Out), "wait_for_pubcomp")
        /\ sent' = <<Packet("PUBREL", mid)>> /\ routed' = <<>>
        /\ clean' = clean
    BY <1>2 DEF PubRec, Outputs, session
  <2>2. Keeps(msgs, msgs', {})
    BY <1>1, <2>1, SetStateKeeps DEF MsgState, Receiving
  <2>3. SameInbound(msgs, msgs') /\ Asserted(msgs')
    BY <2>2, DFacts, KeepsSame, AssertedKept
  <2> QED
    BY <1>1, <2>1, <2>3, PlainOne DEF Calm
<1>3. CASE Match(msgs, mid, Out) = {}
  <2>1. Hangup(msgs, msg_count, msg_count12) /\ routed' = <<>>
    BY <1>3 DEF PubRec, Outputs
  <2>2. msgs' = msgs /\ sock' = FALSE /\ clean' = clean
    BY <1>1, <2>1 DEF Hangup
  <2> QED
    BY <1>1, <2>1, <2>2, DFacts, SameItself DEF Calm
<1> QED
  BY <1>2, <1>3

\* A message for the client goes to the end of the list.
LEMMA RouteCalm ==
  ASSUME DInv, NEW qos \in {1, 2}, NEW m \in Msgs, Route(qos, m)
  PROVE  Calm
<1> DEFINE mid == IF qos > 0 THEN NextMid(last_mid) ELSE 0
<1>1. Inv' /\ msgs \in Lists
  <2>1. qos \in QoS
    BY DEF QoS
  <2> QED
    BY <2>1, DFacts, RouteInv
<1>2. /\ sent' = <<>> /\ routed' = <<>> /\ sock' = sock /\ clean' = clean
      /\ ~clean
      /\ \E at \in Stamps : Insert(at, Out, mid, qos, m)
  BY DFacts DEF Route, Outputs, session
<1>3. SameInbound(msgs, msgs') /\ Asserted(msgs')
  <2>1. PICK at \in Stamps : Insert(at, Out, mid, qos, m)
    BY <1>2
  <2>2. msgs' = Inserted(msgs, at, Out, mid, qos, m) /\ IsNext(msgs, at)
    BY <2>1 DEF Insert
  <2>3. CASE msgs' = msgs
    BY <2>3, DFacts, SameItself
  <2>4. CASE msgs' # msgs
    <3> DEFINE state == Admit(Out, qos, msg_count12)
               e == [mid |-> mid, dir |-> Out, qos |-> qos, state |-> state, msg |-> m]
    <3>1. msgs' = Append1(msgs, at, e)
      BY <2>2, <2>4 DEF Inserted
    <3>2. at \notin DOMAIN msgs
      BY <1>1, <2>2, EntryType DEF IsNext
    <3>3. e.dir = Out
      OBVIOUS
    <3> HIDE DEF e
    <3>4. /\ DOMAIN msgs' = DOMAIN msgs \cup {at}
          /\ msgs'[at] = e /\ \A a \in DOMAIN msgs : msgs'[a] = msgs[a]
      BY <3>1, <3>2 DEF Append1
    <3>5. Asserted(msgs')
      BY <2>2, DFacts, AssertedInserted
    <3> QED
      BY <3>2, <3>3, <3>4, <3>5 DEF SameInbound, In, Out
  <2> QED
    BY <2>3, <2>4
<1> QED
  BY <1>1, <1>2, <1>3, PlainEmpty DEF Calm

\* The write pass unlinks QoS 0 messages only, and announces with PUBREC what it
\* keeps.
LEMMA WritePassCalm ==
  ASSUME DInv, WritePass
  PROVE  Calm
<1>1. /\ Inv' /\ msgs \in Lists /\ Fits(msgs) /\ Received(msgs)
      /\ clean => ~sock /\ DOMAIN msgs = {}
  BY DFacts, WritePassInv
<1>2. /\ sock' = sock /\ clean' = clean /\ routed' = <<>>
      /\ \/ /\ sock
            /\ msgs' = AfterWrite(msgs, PastEnd, limits.inflight)
            /\ sent' = WritePackets(msgs, PastEnd, limits.inflight)
         \/ ~sock /\ msgs' = msgs /\ sent' = <<>>
  BY DEF WritePass, Outputs, session, list
<1>3. CASE ~sock
  BY <1>1, <1>2, <1>3, DFacts, SameItself DEF Calm
<1>4. CASE sock
  <2> DEFINE gone == Written(msgs, PastEnd, limits.inflight)
             s    == WritePackets(msgs, PastEnd, limits.inflight)
  <2>1. Keeps(msgs, msgs', gone)
    BY <1>1, <1>2, <1>4, WriteKeeps
  <2>2. \A a \in gone : msgs[a].dir # In
    BY <1>1, WrittenQos0 DEF Received
  <2>3. SameInbound(msgs, msgs') /\ Asserted(msgs')
    BY <2>1, <2>2, DFacts, KeepsSame, AssertedKept
  <2>4. /\ s \in Seq(Wire)
        /\ \A i \in DOMAIN s :
             LET p == s[i]
             IN  /\ p.type \in {"PUBLISH", "PUBREC", "PUBREL"}
                 /\ p.type = "PUBREC" =>
                      \E a \in DOMAIN msgs \ gone : msgs[a].dir = In /\ msgs[a].mid = p.mid
                 /\ p.type = "PUBLISH" => \E a \in DOMAIN msgs : msgs[a].qos = p.qos
    BY <1>1, WritePacketFacts
  <2> HIDE DEF s, gone
  <2>5. Plain(s, msgs)
    <3>1. ForClient(s)
      BY <2>4, DFacts DEF ForClient, Asserted
    <3> QED
      BY <2>4, <3>1 DEF Plain, Has, Stored, Match
  <2>6. sent' = s
    BY <1>2, <1>4 DEF s
  <2> QED
    BY <1>1, <1>2, <1>4, <2>3, <2>5, <2>6 DEF Calm
<1> QED
  BY <1>3, <1>4

LEMMA WriteFailsCalm ==
  ASSUME DInv, NEW stop \in Stamps, WriteFails(stop)
  PROVE  Calm /\ ~sock'
<1> DEFINE gone == Written(msgs, stop, limits.inflight)
           k    == AfterWrite(msgs, stop, limits.inflight)
<1>1. /\ Inv' /\ msgs \in Lists /\ Fits(msgs) /\ Received(msgs)
  BY DFacts, WriteFailsInv
<1>2. /\ Hangup(k, msg_count - Cardinality(gone), msg_count12 - Cardinality(gone \cap Acked(msgs)))
      /\ routed' = <<>> /\ sock
  BY DEF WriteFails, Outputs, Reading
<1>3. Keeps(msgs, k, gone)
  BY <1>1, WriteKeeps
<1>4. \A a \in gone : msgs[a].dir # In
  BY <1>1, WrittenQos0 DEF Received
<1> HIDE DEF gone, k
<1>5. ~sock' /\ ~clean' /\ SameInbound(msgs, msgs') /\ Asserted(msgs')
  BY <1>2, <1>3, <1>4, CalmHangup
<1> QED
  BY <1>1, <1>2, <1>5 DEF Calm

LEMMA DisconnectCalm ==
  ASSUME DInv, Disconnect
  PROVE  Calm /\ ~sock'
<1>1. Inv' /\ ~clean
  BY DFacts, DisconnectInv DEF Disconnect, Reading
<1>2. Hangup(msgs, msg_count, msg_count12) /\ routed' = <<>>
  BY DEF Disconnect, Outputs
<1>3. msgs' = msgs /\ sock' = FALSE /\ clean' = clean
  BY <1>1, <1>2 DEF Hangup
<1> QED
  BY <1>1, <1>2, <1>3, DFacts, SameItself DEF Calm

LEMMA TimeoutCheckCalm ==
  ASSUME DInv, NEW S, TimeoutCheck(S)
  PROVE  Calm
<1>1. /\ Inv' /\ msgs \in Lists /\ Fits(msgs)
      /\ clean => ~sock /\ DOMAIN msgs = {}
  BY DFacts, TimeoutCheckInv
<1>2. /\ msgs' = Retry(msgs, S) /\ sent' = <<>> /\ routed' = <<>>
      /\ sock' = sock /\ clean' = clean
  BY DEF TimeoutCheck, Outputs, session
<1>3. Keeps(msgs, msgs', {})
  BY <1>1, <1>2, RetryKeeps
<1>4. SameInbound(msgs, msgs') /\ Asserted(msgs')
  BY <1>3, DFacts, KeepsSame, AssertedKept
<1>5. DOMAIN msgs' = DOMAIN msgs
  BY <1>3 DEF Keeps
<1> QED
  BY <1>1, <1>2, <1>4, <1>5, PlainEmpty DEF Calm

\* The new context takes over all messages; the first one has none to take.
LEMMA ConnectCalm ==
  ASSUME DInv, Connect(FALSE)
  PROVE  Calm /\ sock' /\ sent' = <<Packet("CONNACK", 0)>>
<1>1. /\ Inv' /\ msgs \in Lists /\ Fits(msgs)
      /\ clean => DOMAIN msgs = {}
      /\ limits.inflight \in Nat
  BY DFacts, ConnectInv, InvFacts, LimitTypes DEF Rest
<1> DEFINE kept == IF clean THEN NoEntries ELSE msgs
<1>2. /\ msgs' = Reset(kept, limits.inflight) /\ sent' = <<Packet("CONNACK", 0)>>
      /\ routed' = <<>> /\ sock' = TRUE /\ clean' = FALSE
  BY DEF Connect, Outputs
<1>3. kept \in Lists /\ Fits(kept)
  BY <1>1, EmptyList
<1>4. SameInbound(msgs, kept) /\ Asserted(kept)
  BY <1>1, DFacts, EmptyList DEF SameInbound, Asserted
<1> HIDE DEF kept
<1>5. Keeps(kept, msgs', {})
  BY <1>1, <1>2, <1>3, ResetKeeps
<1>6. SameInbound(kept, msgs') /\ Asserted(msgs')
  BY <1>4, <1>5, KeepsSame, AssertedKept
<1>7. SameInbound(msgs, msgs')
  BY <1>4, <1>6 DEF SameInbound
<1>8. Plain(sent', msgs)
  BY <1>2, MidTypes, PlainOne
<1> QED
  BY <1>1, <1>2, <1>6, <1>7, <1>8 DEF Calm
------------------------------------------------------------------------------
\* Steps in which one identifier moves on and the others stay where they are.

Carries(tb, tc, st, tb2, tc2, st2, mid) ==
  /\ Free(tb, tc, st, mid) => Free(tb2, tc2, st2, mid)
  /\ Waits(tb, tc, st, mid) => Waits(tb2, tc2, st2, mid)
  /\ Holds(tb, tc, st, mid) => Holds(tb2, tc2, st2, mid)
  /\ Routed(tb, tc, st, mid) => Routed(tb2, tc2, st2, mid)

LEMMA CarriesStage ==
  ASSUME NEW tb, NEW tc, NEW st, NEW tb2, NEW tc2, NEW st2, NEW mid,
         Carries(tb, tc, st, tb2, tc2, st2, mid)
  PROVE  /\ Free(tb, tc, st, mid) => Free(tb2, tc2, st2, mid)
         /\ \A state, i : Stage(tb, tc, st, mid, state, i) => Stage(tb2, tc2, st2, mid, state, i)
  BY DEF Carries, Stage

\* The identifier that moves, `mid', is where it should be afterwards, and what
\* the client publishes has not changed otherwise.
Moved(tb, tc, l, pb, pm, n, tb2, tc2, k, pb2, pm2, n2, mid) ==
  /\ Apart(pb2, pm2)
  /\ \A i \in DOMAIN tb2 : tb2[i].type = "PUBLISH" => Owned(pb2, pm2, tb2[i])
  /\ \A a \in DOMAIN k : k[a].dir = In => Owned(pb2, pm2, k[a])
  /\ \A p \in Pubs : Settled(pb2[p], n2[p])
  /\ \A other : other # mid =>
       /\ Carries(tb, tc, Stored(l, other), tb2, tc2, Stored(k, other), other)
       /\ Unused(pb2, pm2, other) => Unused(pb, pm, other)
  /\ \A p \in Pubs : Busy(pb2[p]) =>
       IF pm2[p] = mid THEN Stage(tb2, tc2, Stored(k, mid), mid, pb2[p], n2[p])
                       ELSE pb[p] = pb2[p] /\ pm[p] = pm2[p] /\ n[p] = n2[p]
  /\ mid \in 0..MidMax /\ Unused(pb2, pm2, mid) => Free(tb2, tc2, Stored(k, mid), mid)

LEMMA Moves ==
  ASSUME NEW tb, NEW tc, NEW l, NEW pb, NEW pm, NEW n, Handshake(tb, tc, l, pb, pm, n),
         NEW tb2, NEW tc2, NEW k, NEW pb2, NEW pm2, NEW n2, NEW mid,
         Moved(tb, tc, l, pb, pm, n, tb2, tc2, k, pb2, pm2, n2, mid)
  PROVE  Handshake(tb2, tc2, k, pb2, pm2, n2)
<1>1. ASSUME NEW p \in Pubs, Busy(pb2[p])
      PROVE  Stage(tb2, tc2, Stored(k, pm2[p]), pm2[p], pb2[p], n2[p])
  <2>1. CASE pm2[p] = mid
    BY <1>1, <2>1 DEF Moved
  <2>2. CASE pm2[p] # mid
    <3>1. pb[p] = pb2[p] /\ pm[p] = pm2[p] /\ n[p] = n2[p]
      BY <1>1, <2>2 DEF Moved
    <3>2. Stage(tb, tc, Stored(l, pm[p]), pm[p], pb[p], n[p])
      BY <1>1, <3>1 DEF Handshake
    <3>3. Carries(tb, tc, Stored(l, pm[p]), tb2, tc2, Stored(k, pm[p]), pm[p])
      BY <2>2, <3>1 DEF Moved
    <3> QED
      BY <3>1, <3>2, <3>3, CarriesStage
  <2> QED
    BY <2>1, <2>2
<1>2. ASSUME NEW other \in 0..MidMax, Unused(pb2, pm2, other)
      PROVE  Free(tb2, tc2, Stored(k, other), other)
  <2>1. CASE other = mid
    BY <1>2, <2>1 DEF Moved
  <2>2. CASE other # mid
    <3>1. Free(tb, tc, Stored(l, other), other)
      BY <1>2, <2>2 DEF Handshake, Moved
    <3>2. Carries(tb, tc, Stored(l, other), tb2, tc2, Stored(k, other), other)
      BY <2>2 DEF Moved
    <3> QED
      BY <3>1, <3>2, CarriesStage
  <2> QED
    BY <2>1, <2>2
<1> QED
  BY <1>1, <1>2 DEF Handshake, Moved

\* What is left of a channel to the broker is what the client publishes.
LEMMA OwnedLess ==
  ASSUME NEW q \in Seq(Wire), NEW k, Less(q, k), NEW pb, NEW pm,
         \A i \in DOMAIN q : q[i].type = "PUBLISH" => Owned(pb, pm, q[i])
  PROVE  \A i \in DOMAIN k : k[i].type = "PUBLISH" => Owned(pb, pm, k[i])
<1>1. CASE k = q
  BY <1>1
<1>2. CASE q # <<>> /\ k = Tail(q)
  <2>1. \A i \in DOMAIN k : i + 1 \in DOMAIN q /\ k[i] = q[i + 1]
    BY <1>2
  <2> QED
    BY <2>1
<1>3. CASE k = <<>>
  BY <1>3
<1> QED
  BY <1>1, <1>2, <1>3 DEF Less

\* The broker stores the message of the PUBLISH it takes.
LEMMA StoresHandshake ==
  ASSUME NEW tb \in Seq(Wire), NEW tc \in Seq(Wire), NEW l, NEW pb, NEW pm, NEW n,
         Handshake(tb, tc, l, pb, pm, n), tb # <<>>, NEW mid,
         Head(tb).type = "PUBLISH", Head(tb).mid = mid, ~Stored(l, mid),
         NEW at, at \notin DOMAIN l, NEW e,
         e.dir = In, e.mid = mid, e.msg = Head(tb).msg,
         NEW k, k = Append1(l, at, e), NEW s \in Seq(Wire),
         \A type, other : Has(s, type, other) => type = "PUBREC" /\ other = mid,
         NEW tc2, tc2 = tc \o s
  PROVE  Handshake(Tail(tb), tc2, k, pb, pm, n)
<1> DEFINE p == Head(tb).msg
           tb2 == Tail(tb)
<1>1. Owned(pb, pm, Head(tb))
  BY DEF Handshake
<1>2. p \in Pubs /\ Busy(pb[p]) /\ pm[p] = mid
  BY <1>1 DEF Owned
<1>3. /\ DOMAIN k = DOMAIN l \cup {at}
      /\ k[at] = e /\ \A a \in DOMAIN l : k[a] = l[a]
  BY DEF Append1
<1>4. Stored(k, mid)
  BY <1>3 DEF Stored, Match
<1>5. \A other : other # mid => Stored(k, other) = Stored(l, other)
  BY <1>3 DEF Stored, Match
<1>6. \A a \in DOMAIN k : k[a].dir = In => Owned(pb, pm, k[a])
  BY <1>1, <1>3 DEF Handshake, Owned
<1>7. Less(tb, tb2) /\ Less(tc, tc)
  BY DEF Less
<1>8. \A other : other # mid => Carries(tb, tc, Stored(l, other), tb2, tc2, Stored(k, other), other)
  <2> SUFFICES ASSUME NEW other, other # mid
               PROVE  Carries(tb, tc, Stored(l, other), tb2, tc2, Stored(k, other), other)
    OBVIOUS
  <2>1. ~Has(s, "PUBCOMP", other) /\ ~Has(s, "PUBREC", other)
    OBVIOUS
  <2>2. Stored(k, other) = Stored(l, other)
    BY <1>5
  <2> QED
    BY <1>7, <2>1, <2>2, Quiet DEF Carries
<1>9. \A i \in DOMAIN tb2 : tb2[i].type = "PUBLISH" => Owned(pb, pm, tb2[i])
  BY <1>7, OwnedLess DEF Handshake
<1>10. ASSUME NEW q \in Pubs, Busy(pb[q]), pm[q] = mid
       PROVE  Stage(tb2, tc2, Stored(k, mid), mid, pb[q], n[q])
  <2>1. Stage(tb, tc, FALSE, mid, pb[q], n[q])
    <3>1. Stored(l, mid) = FALSE
      BY DEF Stored
    <3> QED
      BY <1>10, <3>1 DEF Handshake
  <2>2. pb[q] = "wait_for_pubrec" /\ n[q] = 0 /\ Waits(tb2, tc2, TRUE, mid)
    <3>1. ~Has(s, "PUBCOMP", mid)
      OBVIOUS
    <3>2. /\ Waits(tb, tc, FALSE, mid) => Waits(tb2, tc2, TRUE, mid)
          /\ ~Holds(tb, tc, FALSE, mid) /\ ~Routed(tb, tc, FALSE, mid)
      BY <3>1, Stores
    <3> QED
      BY <2>1, <3>2 DEF Stage
  <2>3. Stored(k, mid) = TRUE
    BY <1>4 DEF Stored
  <2> QED
    BY <2>2, <2>3 DEF Stage
<1>11. ~Unused(pb, pm, mid)
  BY <1>2 DEF Unused
<1>12. Apart(pb, pm) /\ \A q \in Pubs : Settled(pb[q], n[q])
  BY DEF Handshake
<1> QED
  <2>1. Moved(tb, tc, l, pb, pm, n, tb2, tc2, k, pb, pm, n, mid)
    BY <1>6, <1>8, <1>9, <1>10, <1>11, <1>12 DEF Moved
  <2> QED
    BY <2>1, Moves

\* What is stored under an identifier.
StoredUnder(l, mid) == {l[a].msg : a \in Match(l, mid, In)}

\* What the broker still stores when PUBREL arrives has not been routed.
LEMMA StoredUnrouted ==
  ASSUME NEW tb \in Seq(Wire), NEW tc, NEW l, NEW pb, NEW pm, NEW n,
         Handshake(tb, tc, l, pb, pm, n), tb # <<>>, NEW mid,
         Head(tb).type = "PUBREL", Head(tb).mid = mid
  PROVE  \A p \in StoredUnder(l, mid) :
           /\ p \in Pubs /\ pb[p] = "wait_for_pubcomp" /\ pm[p] = mid /\ n[p] = 0
           /\ Holds(tb, tc, Stored(l, mid), mid)
<1> SUFFICES ASSUME NEW p \in StoredUnder(l, mid)
             PROVE  /\ p \in Pubs /\ pb[p] = "wait_for_pubcomp" /\ pm[p] = mid /\ n[p] = 0
                    /\ Holds(tb, tc, Stored(l, mid), mid)
  OBVIOUS
<1>1. p \in Pubs /\ Busy(pb[p]) /\ pm[p] = mid /\ Stored(l, mid)
  BY DEF Handshake, Owned, Match, Stored, StoredUnder
<1>2. Stage(tb, tc, Stored(l, mid), mid, pb[p], n[p])
  BY <1>1 DEF Handshake
<1>3. Has(tb, "PUBREL", mid)
  BY HeadFacts
<1> QED
  BY <1>1, <1>2, <1>3 DEF Stage, Waits, Routed

\* The broker routes what it has stored under the identifier of the PUBREL it takes,
\* if anything, and answers with PUBCOMP.
LEMMA ReleasesHandshake ==
  ASSUME NEW tb \in Seq(Wire), NEW tc \in Seq(Wire), NEW l, NEW pb, NEW pm, NEW n,
         Handshake(tb, tc, l, pb, pm, n), tb # <<>>, NEW mid,
         Head(tb).type = "PUBREL", Head(tb).mid = mid,
         NEW k, Keeps(l, k, Match(l, mid, In)), NEW s \in Seq(Wire),
         \A other : Has(s, "PUBCOMP", other) => other = mid,
         \A other : Has(s, "PUBREC", other) => Stored(l, other),
         NoneAfter(s, "PUBCOMP", "PUBREC", mid),
         NEW tc2, tc2 = tc \o s, NEW n2,
         \A p \in Pubs : n2[p] = IF p \in StoredUnder(l, mid) THEN 1 ELSE n[p]
  PROVE  Handshake(Tail(tb), tc2, k, pb, pm, n2)
<1> DEFINE tb2 == Tail(tb)
<1>1. ~Stored(k, mid)
  BY DEF Stored, Match, Keeps
<1>2. \A other : other # mid => Stored(k, other) = Stored(l, other)
  <2> SUFFICES ASSUME NEW other, other # mid
               PROVE  Stored(k, other) = Stored(l, other)
    OBVIOUS
  <2>1. Stored(k, other) => Stored(l, other)
    BY DEF Stored, Match, Keeps
  <2>2. ASSUME Stored(l, other)
        PROVE  Stored(k, other)
    <3>1. PICK a \in DOMAIN l : l[a].mid = other /\ l[a].dir = In
      BY <2>2 DEF Stored, Match
    <3>2. a \notin Match(l, mid, In)
      BY <3>1 DEF Match
    <3>3. a \in DOMAIN k /\ k[a].mid = other /\ k[a].dir = In
      BY <3>1, <3>2 DEF Keeps
    <3> QED
      BY <3>3 DEF Stored, Match
  <2>3. Stored(k, other) \in BOOLEAN /\ Stored(l, other) \in BOOLEAN
    BY DEF Stored
  <2> QED
    BY <2>1, <2>2, <2>3
<1>3. \A a \in DOMAIN k : k[a].dir = In => Owned(pb, pm, k[a])
  BY DEF Handshake, Owned, Keeps
<1>4. Less(tb, tb2) /\ Less(tc, tc)
  BY DEF Less
<1>5. \A other : other # mid => Carries(tb, tc, Stored(l, other), tb2, tc2, Stored(k, other), other)
  BY <1>2, <1>4, Quiet DEF Carries
<1>6. \A i \in DOMAIN tb2 : tb2[i].type = "PUBLISH" => Owned(pb, pm, tb2[i])
  BY <1>4, OwnedLess DEF Handshake
<1>7. \A p \in StoredUnder(l, mid) :
        /\ p \in Pubs /\ Busy(pb[p]) /\ pm[p] = mid /\ n[p] = 0
        /\ Holds(tb, tc, Stored(l, mid), mid)
  BY StoredUnrouted DEF Busy
<1>8. ASSUME NEW q \in Pubs, Busy(pb[q]), pm[q] = mid
      PROVE  Stage(tb2, tc2, Stored(k, mid), mid, pb[q], n2[q])
  <2>1. Stage(tb, tc, Stored(l, mid), mid, pb[q], n[q])
    BY <1>8 DEF Handshake
  <2>2. /\ Waits(tb, tc, Stored(l, mid), mid)
             => ~Stored(l, mid) /\ Waits(tb2, tc2, FALSE, mid)
        /\ Holds(tb, tc, Stored(l, mid), mid) => Routed(tb2, tc2, FALSE, mid)
        /\ Routed(tb, tc, Stored(l, mid), mid) => Routed(tb2, tc2, FALSE, mid)
    BY Releases
  <2>3. Stored(k, mid) = FALSE
    BY <1>1 DEF Stored
  <2>4. CASE Stored(l, mid)
    <3>1. Holds(tb, tc, Stored(l, mid), mid) /\ pb[q] = "wait_for_pubcomp" /\ n[q] = 0
      BY <2>1, <2>2, <2>4 DEF Stage, Routed
    <3>2. PICK a \in DOMAIN l : a \in Match(l, mid, In)
      BY <2>4 DEF Stored, Match
    <3>3. l[a].msg \in StoredUnder(l, mid)
      BY <3>2 DEF StoredUnder
    <3>4. l[a].msg = q
      <4>1. \A p, r \in Pubs : Busy(pb[p]) /\ Busy(pb[r]) /\ pm[p] = pm[r] => p = r
        BY DEF Handshake, Apart
      <4>2. l[a].msg \in Pubs /\ Busy(pb[l[a].msg]) /\ pm[l[a].msg] = mid
        BY <1>7, <3>3
      <4> QED
        BY <1>8, <4>1, <4>2
    <3>5. n2[q] = 1
      BY <3>3, <3>4
    <3> QED
      BY <2>2, <2>3, <3>1, <3>5 DEF Stage
  <2>5. CASE ~Stored(l, mid)
    <3>1. n2[q] = n[q]
      BY <1>7, <2>5 DEF Holds
    <3>2. ~Holds(tb, tc, Stored(l, mid), mid)
      BY <2>5 DEF Holds
    <3> QED
      BY <2>1, <2>2, <2>3, <2>5, <3>1, <3>2 DEF Stage
  <2> QED
    BY <2>4, <2>5
<1>9. \A p \in Pubs : ~(Busy(pb[p]) /\ pm[p] = mid) => n2[p] = n[p]
  BY <1>7
<1>10. \A p \in Pubs : Settled(pb[p], n2[p])
  <2>1. \A p \in Pubs : Settled(pb[p], n[p])
    BY DEF Handshake
  <2> QED
    BY <1>9, <2>1 DEF Settled, Busy
<1>11. ASSUME mid \in 0..MidMax, Unused(pb, pm, mid)
       PROVE  Free(tb2, tc2, Stored(k, mid), mid)
  <2>1. Free(tb, tc, Stored(l, mid), mid)
    BY <1>11 DEF Handshake
  <2>2. Stored(k, mid) = FALSE
    BY <1>1 DEF Stored
  <2>3. Free(tb2, tc2, FALSE, mid)
    BY <2>1, Releases
  <2> QED
    BY <2>2, <2>3
<1>12. Apart(pb, pm)
  BY DEF Handshake
<1>13. \A p \in Pubs : Busy(pb[p]) /\ pm[p] # mid => n[p] = n2[p]
  BY <1>9
<1>14. Handshake(tb2, tc2, k, pb, pm, n2)
  <2>1. Moved(tb, tc, l, pb, pm, n, tb2, tc2, k, pb, pm, n2, mid)
    BY <1>3, <1>5, <1>6, <1>8, <1>10, <1>11, <1>12, <1>13 DEF Moved
  <2> QED
    BY <2>1, Moves
<1> QED
  BY <1>14
------------------------------------------------------------------------------
\* The two handlers that store and route what the client publishes.

\* A PUBLISH in transit is one the handlers are made for.
LEMMA PublishType ==
  ASSUME DInv, toBroker # <<>>, Head(toBroker).type = "PUBLISH"
  PROVE  /\ Head(toBroker).msg \in Pubs /\ Head(toBroker).msg \in Msgs
         /\ Head(toBroker).mid \in Mids
<1>1. 1 \in DOMAIN toBroker /\ Head(toBroker) = toBroker[1]
  BY DFacts
<1>2. Owned(pub, pubMid, Head(toBroker))
  BY <1>1, DFacts DEF Handshake
<1> QED
  BY <1>2, DFacts, DeliveryAssumption DEF Owned

LEMMA BrokerStores ==
  ASSUME DInv, toBroker # <<>>, Head(toBroker).type = "PUBLISH",
         PublishQos2(Head(toBroker).mid, Head(toBroker).msg),
         Deliver(Tail(toBroker)), Observe
  PROVE  DInv' /\ passed' = passed /\ pub' = pub
<1> DEFINE mid == Head(toBroker).mid
           m   == Head(toBroker).msg
<1>1. mid \in Mids /\ m \in Msgs /\ Inv' /\ mid \in 0..MidMax
  BY PublishType, DFacts, PublishQos2Inv, MidTypes
<1>2. /\ sock' = sock /\ clean' = clean /\ sock /\ ~clean /\ routed' = <<>>
      /\ Less(toBroker, Tail(toBroker))
  BY DFacts DEF PublishQos2, Reading, session, Outputs, Less
<1>3. \/ /\ Stored(msgs, mid) /\ msgs' = msgs
         /\ sent' = <<Packet("PUBREC", mid)>>
      \/ /\ ~Stored(msgs, mid) /\ \E at \in Stamps : Insert(at, In, mid, 2, m)
         /\ sent' = IF Admit(In, 2, msg_count12) = "wait_for_pubrel"
                    THEN <<Packet("PUBREC", mid)>> ELSE <<>>
  BY DEF PublishQos2, Outputs, list, Stored
<1>4. CASE Stored(msgs, mid) /\ msgs' = msgs /\ sent' = <<Packet("PUBREC", mid)>>
  <2>1. Plain(sent', msgs)
    BY <1>1, <1>4, PlainOne
  <2>2. SameInbound(msgs, msgs')
    BY <1>4, SameItself
  <2> QED
    BY <1>1, <1>2, <1>4, <2>1, <2>2, DFacts, CalmDelivery
<1>5. CASE /\ ~Stored(msgs, mid)
           /\ \E at \in Stamps : Insert(at, In, mid, 2, m)
           /\ sent' = IF Admit(In, 2, msg_count12) = "wait_for_pubrel"
                      THEN <<Packet("PUBREC", mid)>> ELSE <<>>
  <2>1. PICK at \in Stamps : Insert(at, In, mid, 2, m)
    BY <1>5
  <2> DEFINE state == Admit(In, 2, msg_count12)
             e == [mid |-> mid, dir |-> In, qos |-> 2, state |-> state, msg |-> m]
  <2>2. /\ msgs' = IF state = "dropped" THEN msgs ELSE Append1(msgs, at, e)
        /\ IsNext(msgs, at)
    BY <2>1 DEF Insert, Inserted
  <2>3. CASE state = "dropped"
    <3>1. msgs' = msgs /\ sent' = <<>>
      BY <1>5, <2>2, <2>3
    <3> QED
      BY <1>1, <1>2, <3>1, DFacts, SameItself, PlainEmpty, CalmDelivery
  <2>4. CASE state # "dropped"
    <3>1. at \notin DOMAIN msgs
      BY <2>2, DFacts, EntryType DEF IsNext
    <3>2. /\ Packet("PUBREC", mid) \in Wire
          /\ Packet("PUBREC", mid).type = "PUBREC" /\ Packet("PUBREC", mid).mid = mid
      BY <1>1, PacketType
    <3>3. sent' = <<Packet("PUBREC", mid)>> \/ sent' = <<>>
      BY <1>5
    <3>4. /\ sent' \in Seq(Wire) /\ ForClient(sent')
          /\ \A type, other : Has(sent', type, other) => type = "PUBREC" /\ other = mid
      <4>1. CASE sent' = <<>>
        BY <4>1 DEF Has, ForClient
      <4>2. CASE sent' = <<Packet("PUBREC", mid)>>
        <5>1. ForClient(sent')
          BY <3>2, <4>2 DEF ForClient
        <5> QED
          BY <3>2, <4>2, <5>1, OneFacts
      <4> QED
        BY <3>3, <4>1, <4>2
    <3>5. e.dir = In /\ e.mid = mid /\ e.msg = m
      OBVIOUS
    <3>6. /\ toBroker' = Tail(toBroker) /\ toClient' = toClient \o sent'
          /\ pub' = pub /\ pubMid' = pubMid
      BY <1>2 DEF Deliver
    <3>7. msgs' = Append1(msgs, at, e)
      BY <2>2, <2>4
    <3>8. passed' = passed
      BY <1>2, NothingRouted
    <3> HIDE DEF e
    <3>9. Handshake(Tail(toBroker), toClient', msgs', pub, pubMid, passed)
      <4>1. /\ toBroker \in Seq(Wire) /\ toClient \in Seq(Wire) /\ toBroker # <<>>
            /\ Handshake(toBroker, toClient, msgs, pub, pubMid, passed)
            /\ Head(toBroker).type = "PUBLISH" /\ Head(toBroker).mid = mid
            /\ ~Stored(msgs, mid) /\ e.msg = Head(toBroker).msg
        BY DFacts, <1>5, <3>5
      <4> HIDE DEF mid, m
      <4> QED
        BY ONLY <3>1, <3>4, <3>5, <3>6, <3>7, <4>1, StoresHandshake
    <3>10. toBroker' \in Seq(Wire) /\ toClient' \in Seq(Wire) /\ ForClient(toClient')
      <4>1. Less(toClient, toClient)
        BY DEF Less
      <4> QED
        BY <1>2, <3>4, <3>6, <4>1, DFacts, LessFacts, ConcatFacts, ForClientKept
    <3>11. Asserted(msgs')
      BY <2>1, DFacts, AssertedInserted DEF Insert
    <3> QED
      BY <1>1, <1>2, <3>6, <3>8, <3>9, <3>10, <3>11, DFacts, DKept
  <2> QED
    BY <2>3, <2>4
<1> QED
  BY <1>3, <1>4, <1>5

\* A message is stored once: the walk of PUBREL meets nothing before it that would
\* end it early.
LEMMA OneReleased ==
  ASSUME NEW l \in Lists, Fits(l), Unique(l), NEW mid, NEW max,
         NEW k, k = AfterWalk(l, Match(l, mid, In), {}, max)
  PROVE  /\ Keeps(l, k, Match(l, mid, In))
         /\ \A a, b \in Match(l, mid, In) : a = b
<1> DEFINE match == Match(l, mid, In)
<1>1. \A a, b \in match : a = b
  BY DEF Match, Unique
<1>2. ASSUME NEW a \in match
      PROVE  a \in Visited(l, match, {}, max)
  <2>1. a \in DOMAIN l
    BY DEF Match
  <2>2. \A b \in Before(l, a) : b \in DOMAIN l /\ b < a
    BY DEF Before
  <2>3. \A b \in Before(l, a) : a \notin UpTo(l, b)
    BY <2>1, <2>2, EntryType DEF UpTo
  <2>4. \A b \in Before(l, a) : match \cap UpTo(l, b) = {}
    BY <1>1, <2>3
  <2> QED
    BY <2>1, <2>4 DEF Visited
<1>3. Unlinked(l, match, {}, max) = match
  BY <1>2 DEF Unlinked
<1>4. Keeps(l, k, Unlinked(l, match, {}, max))
  <2> HIDE DEF match
  <2> QED
    BY WalkKeeps DEF match
<1> QED
  BY <1>1, <1>3, <1>4

\* How often a step routes a message, if it routes what is in S and S has one
\* element at most.
LEMMA OneRouted ==
  ASSUME NEW S \in SUBSET Int, \A a, b \in S : a = b, NEW f, NEW p,
         NEW r, r = [i \in DOMAIN InOrder(S) |-> f[InOrder(S)[i]]]
  PROVE  Cardinality({i \in DOMAIN r : r[i] = p}) = IF p \in {f[a] : a \in S} THEN 1 ELSE 0
<1>1. CASE S = {}
  <2>1. IsFiniteSet(S) /\ Cardinality(S) = 0
    BY <1>1, FS_EmptySet
  <2>2. DOMAIN InOrder(S) = {}
    BY <2>1, InOrderFacts
  <2>3. {i \in DOMAIN r : r[i] = p} = {}
    BY <2>2
  <2> QED
    BY <1>1, <2>3, FS_EmptySet
<1>2. CASE S # {}
  <2>1. PICK a \in S : TRUE
    BY <1>2
  <2>2. S = {a}
    BY <2>1
  <2>3. IsFiniteSet(S) /\ Cardinality(S) = 1
    BY <2>2, FS_Singleton
  <2>4. /\ DOMAIN InOrder(S) = 1..1
        /\ \A i \in DOMAIN InOrder(S) : InOrder(S)[i] \in S
    BY <2>3, InOrderFacts
  <2>5. DOMAIN r = {1} /\ r[1] = f[a]
    BY <2>2, <2>4
  <2>6. CASE f[a] = p
    <3>1. {i \in DOMAIN r : r[i] = p} = {1}
      BY <2>5, <2>6
    <3> QED
      BY <2>6, <3>1, FS_Singleton
  <2>7. CASE f[a] # p
    <3>1. {i \in DOMAIN r : r[i] = p} = {}
      BY <2>5, <2>7
    <3>2. p \notin {f[b] : b \in S}
      BY <2>2, <2>7
    <3> QED
      BY <3>1, <3>2, FS_EmptySet
  <2> QED
    BY <2>6, <2>7
<1> QED
  BY <1>1, <1>2
\* PUBREL: what is stored under its identifier is routed.
LEMMA PubRelRoutes ==
  ASSUME DInv, NEW mid, PubRel(mid, NoSub)
  PROVE  /\ sock' = sock /\ clean' = clean /\ sock /\ ~clean
         /\ Keeps(msgs, msgs', Match(msgs, mid, In))
         /\ Released(msgs, mid)
         /\ \A p \in Pubs : Cardinality({i \in DOMAIN routed' : routed'[i] = p})
                              = IF p \in StoredUnder(msgs, mid) THEN 1 ELSE 0
<1> DEFINE match == Match(msgs, mid, In)
           live  == {a \in match : msgs[a].msg # NoMsg}
           f     == [a \in match |-> msgs[a].msg]
<1>1. /\ sock' = sock /\ clean' = clean /\ sock /\ ~clean
      /\ Released(msgs, mid)
      /\ routed' = [i \in DOMAIN InOrder(live) |-> msgs[InOrder(live)[i]].msg]
  BY DFacts DEF PubRel, Reading, session
<1>2. msgs' = AfterWalk(msgs, match, {}, limits.inflight)
  BY <1>1 DEF Released
<1>3. Keeps(msgs, msgs', match) /\ \A a, b \in match : a = b
  BY <1>2, DFacts, OneReleased
<1>4. match \in SUBSET Int
  BY DFacts, EntryType DEF Match
<1>5. \A a \in match : msgs[a].msg \in Pubs
  BY DFacts DEF Handshake, Owned, Match
<1>6. live = match
  BY <1>5, MsgAssumption, DeliveryAssumption
<1> HIDE DEF match
<1>7. \A i \in DOMAIN InOrder(match) : InOrder(match)[i] \in match
  <2>1. IsFiniteSet(match)
    BY DFacts, ListFinite, FS_Subset DEF match, Match
  <2> QED
    BY <1>4, <2>1, InOrderFacts
<1>8. routed' = [i \in DOMAIN InOrder(match) |-> f[InOrder(match)[i]]]
  BY <1>1, <1>6, <1>7
<1>9. {f[a] : a \in match} = StoredUnder(msgs, mid)
  BY DEF StoredUnder, match
<1>10. ASSUME NEW p \in Pubs
       PROVE  Cardinality({i \in DOMAIN routed' : routed'[i] = p})
                = IF p \in StoredUnder(msgs, mid) THEN 1 ELSE 0
  <2> HIDE DEF f
  <2>1. Cardinality({i \in DOMAIN routed' : routed'[i] = p})
          = IF p \in {f[a] : a \in match} THEN 1 ELSE 0
    BY <1>3, <1>4, <1>8, OneRouted, SMTT(40)
  <2> QED
    BY <1>9, <2>1
<1>11. Keeps(msgs, msgs', Match(msgs, mid, In))
  BY <1>3 DEF match
<1>12. sock' = sock /\ clean' = clean /\ sock /\ ~clean /\ Released(msgs, mid)
  BY <1>1
<1> QED
  BY <1>10, <1>11, <1>12

\* Its packets: PUBCOMP at the end, before it PUBRECs for what is stored.
LEMMA ReleasedPackets ==
  ASSUME NEW l \in Lists, NEW mid \in 0..MidMax, Released(l, mid)
  PROVE  /\ sent' \in Seq(Wire) /\ ForClient(sent')
         /\ \A other : Has(sent', "PUBCOMP", other) => other = mid
         /\ \A other : Has(sent', "PUBREC", other) => Stored(l, other)
         /\ NoneAfter(sent', "PUBCOMP", "PUBREC", mid)
<1> DEFINE last == Len(sent')
<1>1. /\ sent' \in Seq(Wire) /\ last > 0
      /\ sent'[last] = Packet("PUBCOMP", mid)
      /\ \A i \in 1..last - 1 : /\ sent'[i].type = "PUBREC"
                                /\ \E a \in DOMAIN l : l[a].dir = In /\ l[a].mid = sent'[i].mid
  BY ReleasedFacts
<1>2. Packet("PUBCOMP", mid).type = "PUBCOMP" /\ Packet("PUBCOMP", mid).mid = mid
  BY PacketType
<1>3. DOMAIN sent' = 1..last /\ last \in Nat
  BY <1>1
<1> HIDE DEF last
<1>4. \A i \in DOMAIN sent' : i = last \/ i \in 1..last - 1
  BY <1>3
<1>5. \A other : Has(sent', "PUBCOMP", other) => other = mid
  BY <1>1, <1>2, <1>4 DEF Has
<1>6. \A other : Has(sent', "PUBREC", other) => Stored(l, other)
  BY <1>1, <1>2, <1>4 DEF Has, Stored, Match
<1>7. NoneAfter(sent', "PUBCOMP", "PUBREC", mid)
  <2> SUFFICES ASSUME NEW i \in DOMAIN sent', NEW j \in DOMAIN sent', i < j,
                      sent'[i].type = "PUBCOMP"
               PROVE  FALSE
    BY DEF NoneAfter
  <2>1. i = last
    BY <1>1, <1>4
  <2> QED
    BY <1>3, <2>1
<1>8. ForClient(sent')
  BY <1>1, <1>2, <1>4 DEF ForClient
<1> QED
  BY <1>1, <1>5, <1>6, <1>7, <1>8

LEMMA BrokerReleases ==
  ASSUME DInv, toBroker # <<>>, Head(toBroker).type = "PUBREL",
         PubRel(Head(toBroker).mid, NoSub), Deliver(Tail(toBroker)), Observe
  PROVE  /\ DInv' /\ pub' = pub
         /\ \E S \in SUBSET Pubs :
              /\ \A p, q \in S : p = q
              /\ \A p \in S : Busy(pub[p]) /\ passed[p] = 0
              /\ passed' = [p \in Pubs |-> IF p \in S THEN 1 ELSE passed[p]]
<1> DEFINE mid == Head(toBroker).mid
           S   == StoredUnder(msgs, mid)
           n2  == [p \in Pubs |-> IF p \in S THEN 1 ELSE passed[p]]
<1>1. mid \in 0..MidMax
  <2>1. Head(toBroker) \in Wire
    BY DFacts
  <2> QED
    BY <2>1 DEF Wire
<1>2. Inv'
  BY DFacts, PubRelInv
<1>3. /\ sock' = sock /\ clean' = clean /\ sock /\ ~clean
      /\ Keeps(msgs, msgs', Match(msgs, mid, In)) /\ Released(msgs, mid)
      /\ \A p \in Pubs : Cardinality({i \in DOMAIN routed' : routed'[i] = p})
                           = IF p \in S THEN 1 ELSE 0
  BY PubRelRoutes
<1>4. /\ sent' \in Seq(Wire) /\ ForClient(sent')
      /\ \A other : Has(sent', "PUBCOMP", other) => other = mid
      /\ \A other : Has(sent', "PUBREC", other) => Stored(msgs, other)
      /\ NoneAfter(sent', "PUBCOMP", "PUBREC", mid)
  BY <1>1, <1>3, DFacts, ReleasedPackets
<1>5. /\ toBroker' = Tail(toBroker) /\ toClient' = toClient \o sent'
      /\ pub' = pub /\ pubMid' = pubMid
  BY <1>3 DEF Deliver
<1>6. /\ toBroker \in Seq(Wire) /\ toClient \in Seq(Wire) /\ toBroker # <<>>
      /\ Handshake(toBroker, toClient, msgs, pub, pubMid, passed)
      /\ Head(toBroker).type = "PUBREL" /\ Head(toBroker).mid = mid
      /\ Keeps(msgs, msgs', Match(msgs, mid, In))
  BY DFacts, <1>3
<1>7. /\ Handshake(Tail(toBroker), toClient', msgs', pub, pubMid, n2)
      /\ \A p \in S : p \in Pubs /\ Busy(pub[p]) /\ passed[p] = 0
  <2>1. \A p \in Pubs : n2[p] = IF p \in StoredUnder(msgs, mid) THEN 1 ELSE passed[p]
    OBVIOUS
  <2>2. toClient' = toClient \o sent'
    BY <1>5
  <2> HIDE DEF mid, n2
  <2>3. Handshake(Tail(toBroker), toClient', msgs', pub, pubMid, n2)
    BY ONLY <1>4, <1>6, <2>1, <2>2, ReleasesHandshake, ZenonT(40)
  <2>4. \A p \in StoredUnder(msgs, mid) : p \in Pubs /\ Busy(pub[p]) /\ passed[p] = 0
    BY <1>6, StoredUnrouted DEF Busy
  <2> QED
    BY <2>3, <2>4
<1>8. passed \in [Pubs -> 0..2] /\ n2 \in [Pubs -> 0..2]
  BY DFacts
<1>9. passed' = n2
  <2>1. passed' = [p \in Pubs |-> Capped(passed[p] +
                     Cardinality({i \in DOMAIN routed' : routed'[i] = p}))]
    BY DEF Observe
  <2>2. ASSUME NEW p \in Pubs
        PROVE  passed'[p] = n2[p]
    <3>1. CASE p \in S
      <4>1. passed[p] = 0 /\ n2[p] = 1
        BY <1>7, <3>1
      <4>2. passed'[p] = Capped(0 + 1)
        BY <1>3, <2>1, <3>1, <4>1
      <4> QED
        BY <4>1, <4>2 DEF Capped
    <3>2. CASE p \notin S
      <4>1. n2[p] = passed[p] /\ passed[p] \in 0..2
        BY <1>8, <3>2
      <4>2. passed'[p] = Capped(passed[p] + 0)
        BY <1>3, <2>1, <3>2
      <4> QED
        BY <4>1, <4>2 DEF Capped
    <3> QED
      BY <3>1, <3>2
  <2> QED
    BY <2>1, <2>2
<1>10. toBroker' \in Seq(Wire) /\ toClient' \in Seq(Wire) /\ ForClient(toClient')
  <2>1. Less(toBroker, Tail(toBroker)) /\ Less(toClient, toClient)
    BY <1>6 DEF Less
  <2> QED
    BY <1>4, <1>5, <2>1, DFacts, LessFacts, ConcatFacts, ForClientKept
<1>11. DInv'
  <2>1. Handshake(toBroker', toClient', msgs', pub', pubMid', passed')
    BY <1>5, <1>7, <1>9
  <2>2. passed' \in [Pubs -> 0..2]
    BY <1>8, <1>9
  <2>3. /\ pub' \in [Pubs -> {"idle", "wait_for_pubrec", "wait_for_pubcomp", "done"}]
        /\ pubMid' \in [Pubs -> 0..MidMax]
        /\ \A p \in Pubs : Busy(pub'[p]) => pubMid'[p] \in Mids
    BY <1>5, DFacts
  <2>4. Asserted(msgs')
    BY <1>3, DFacts, AssertedKept
  <2> QED
    BY <1>2, <1>3, <1>10, <2>1, <2>2, <2>3, <2>4, DKept
<1>12. \A p, q \in S : p = q
  BY DFacts DEF Match, Unique, StoredUnder
<1> QED
  BY <1>5, <1>7, <1>9, <1>11, <1>12
------------------------------------------------------------------------------
\* Steps of the client.

\* What the client sends again: PUBLISH while it waits for PUBREC, PUBREL under no
\* identifier for which it does.
Honest(s, pb, pm) ==
  /\ s \in Seq(Wire)
  /\ \A i \in DOMAIN s :
       /\ s[i].type = "PUBLISH" => /\ s[i].msg \in Pubs /\ pm[s[i].msg] = s[i].mid
                                   /\ pb[s[i].msg] = "wait_for_pubrec"
       /\ s[i].type = "PUBREL" =>
            \A p \in Pubs : pb[p] = "wait_for_pubrec" => pm[p] # s[i].mid

\* It takes a packet that changes nothing for what it publishes, and sends honest ones.
LEMMA HonestHandshake ==
  ASSUME NEW tb \in Seq(Wire), NEW tc \in Seq(Wire), NEW l, NEW pb, NEW pm, NEW n,
         Handshake(tb, tc, l, pb, pm, n), NEW s, Honest(s, pb, pm),
         NEW tb2, tb2 = tb \o s, NEW tc2, Less(tc, tc2)
  PROVE  Handshake(tb2, tc2, l, pb, pm, n)
<1>1. s \in Seq(Wire)
  BY DEF Honest
<1>2. ASSUME NEW mid, Unused(pb, pm, mid)
      PROVE  ~Has(s, "PUBLISH", mid)
  BY <1>2 DEF Honest, Has, Unused, Busy
<1>3. ASSUME NEW p \in Pubs, pb[p] = "wait_for_pubrec"
      PROVE  ~Has(s, "PUBREL", pm[p])
  BY <1>3 DEF Honest, Has
<1>4. ASSUME NEW p \in Pubs, pb[p] = "wait_for_pubcomp"
      PROVE  ~Has(s, "PUBLISH", pm[p])
  <2>1. \A q \in Pubs : Busy(pb[p]) /\ Busy(pb[q]) /\ pm[p] = pm[q] => p = q
    BY DEF Handshake, Apart
  <2> QED
    BY <1>4, <2>1 DEF Honest, Has, Busy
<1>5. \A i \in DOMAIN tb2 : tb2[i].type = "PUBLISH" => Owned(pb, pm, tb2[i])
  <2>1. \A i \in DOMAIN tb2 : \/ i \in DOMAIN tb /\ tb2[i] = tb[i]
                              \/ i - Len(tb) \in DOMAIN s /\ tb2[i] = s[i - Len(tb)]
    BY <1>1
  <2>2. \A i \in DOMAIN tb : tb[i].type = "PUBLISH" => Owned(pb, pm, tb[i])
    BY DEF Handshake
  <2>3. \A i \in DOMAIN s : s[i].type = "PUBLISH" => Owned(pb, pm, s[i])
    BY DEF Honest, Owned, Busy
  <2> QED
    BY <2>1, <2>2, <2>3
<1>6. ASSUME NEW p \in Pubs, Busy(pb[p])
      PROVE  Stage(tb2, tc2, Stored(l, pm[p]), pm[p], pb[p], n[p])
  <2>1. Stage(tb, tc, Stored(l, pm[p]), pm[p], pb[p], n[p])
    BY <1>6 DEF Handshake
  <2>2. CASE pb[p] = "wait_for_pubrec"
    <3>1. Waits(tb, tc, Stored(l, pm[p]), pm[p]) /\ n[p] = 0
      BY <2>1, <2>2 DEF Stage
    <3>2. Waits(tb2, tc2, Stored(l, pm[p]), pm[p])
      BY <1>1, <1>3, <2>2, <3>1, Repeated
    <3> QED
      BY <2>2, <3>1, <3>2 DEF Stage
  <2>3. CASE pb[p] = "wait_for_pubcomp"
    <3>1. ~Has(s, "PUBLISH", pm[p])
      BY <1>4, <2>3
    <3>2. /\ Holds(tb, tc, Stored(l, pm[p]), pm[p]) => Holds(tb2, tc2, Stored(l, pm[p]), pm[p])
          /\ Routed(tb, tc, Stored(l, pm[p]), pm[p]) => Routed(tb2, tc2, Stored(l, pm[p]), pm[p])
      BY <1>1, <3>1, Repeated
    <3> QED
      BY <2>1, <2>3, <3>2 DEF Stage
  <2> QED
    BY <1>6, <2>2, <2>3 DEF Busy
<1>7. ASSUME NEW mid \in 0..MidMax, Unused(pb, pm, mid)
      PROVE  Free(tb2, tc2, Stored(l, mid), mid)
  <2>1. Free(tb, tc, Stored(l, mid), mid)
    BY <1>7 DEF Handshake
  <2> QED
    BY <1>1, <1>2, <1>7, <2>1, Repeated
<1>8. /\ Apart(pb, pm) /\ \A p \in Pubs : Settled(pb[p], n[p])
      /\ \A a \in DOMAIN l : l[a].dir = In => Owned(pb, pm, l[a])
  BY DEF Handshake
<1> QED
  BY <1>5, <1>6, <1>7, <1>8 DEF Handshake

\* It publishes a message under an identifier that it does not use.
Starts(pb, pm, p, mid, pb2, pm2) ==
  /\ p \in Pubs /\ pb[p] = "idle" /\ Unused(pb, pm, mid)
  /\ pb2[p] = "wait_for_pubrec" /\ pm2[p] = mid
  /\ \A q \in Pubs \ {p} : pb2[q] = pb[q] /\ pm2[q] = pm[q]

LEMMA PublishesHandshake ==
  ASSUME NEW tb \in Seq(Wire), NEW tc \in Seq(Wire), NEW l, NEW pb, NEW pm, NEW n,
         Handshake(tb, tc, l, pb, pm, n), NEW p, NEW mid \in 0..MidMax, NEW pb2, NEW pm2,
         Starts(pb, pm, p, mid, pb2, pm2),
         NEW x \in Wire, x.type = "PUBLISH", x.mid = mid, x.msg = p,
         NEW tb2, tb2 = tb \o <<x>>
  PROVE  Handshake(tb2, tc, l, pb2, pm2, n)
<1>0. /\ p \in Pubs /\ pb[p] = "idle" /\ Unused(pb, pm, mid)
      /\ pb2[p] = "wait_for_pubrec" /\ pm2[p] = mid
      /\ \A q \in Pubs \ {p} : pb2[q] = pb[q] /\ pm2[q] = pm[q]
  BY DEF Starts
<1>1. \A q \in Pubs : Busy(pb[q]) => q # p /\ pb2[q] = pb[q] /\ pm2[q] = pm[q] /\ pm[q] # mid
  BY <1>0 DEF Busy, Unused
<1>2. \A q \in Pubs : Busy(pb2[q]) => q = p \/ Busy(pb[q])
  BY <1>0 DEF Busy
<1>3. Busy(pb2[p])
  BY <1>0 DEF Busy
<1>4. Apart(pb2, pm2)
  <2> SUFFICES ASSUME NEW q \in Pubs, NEW r \in Pubs,
                      Busy(pb2[q]), Busy(pb2[r]), pm2[q] = pm2[r]
               PROVE  q = r
    BY DEF Apart
  <2>1. Busy(pb[q]) /\ Busy(pb[r]) /\ pm[q] = pm[r] => q = r
    BY DEF Handshake, Apart
  <2> QED
    BY <1>0, <1>1, <1>2, <2>1
<1>5. \A y : Owned(pb, pm, y) => Owned(pb2, pm2, y)
  BY <1>1 DEF Owned
<1>6. Owned(pb2, pm2, x)
  BY <1>0, <1>3 DEF Owned
<1>7. \A i \in DOMAIN tb2 : tb2[i].type = "PUBLISH" => Owned(pb2, pm2, tb2[i])
  <2>1. \A i \in DOMAIN tb2 : (i \in DOMAIN tb /\ tb2[i] = tb[i]) \/ tb2[i] = x
    OBVIOUS
  <2>2. \A i \in DOMAIN tb : tb[i].type = "PUBLISH" => Owned(pb, pm, tb[i])
    BY DEF Handshake
  <2> QED
    BY <1>5, <1>6, <2>1, <2>2
<1>8. \A a \in DOMAIN l : l[a].dir = In => Owned(pb2, pm2, l[a])
  BY <1>5 DEF Handshake
<1>9. \A q \in Pubs : Settled(pb2[q], n[q])
  <2>1. \A q \in Pubs : Settled(pb[q], n[q])
    BY DEF Handshake
  <2> QED
    BY <1>0, <2>1 DEF Settled
<1>10. <<x>> \in Seq(Wire) /\ \A type, other : other # mid => ~Has(<<x>>, type, other)
  BY OneFacts
<1>11. ASSUME NEW other, other # mid
       PROVE  Carries(tb, tc, Stored(l, other), tb2, tc, Stored(l, other), other)
  <2>1. Less(tc, tc)
    BY DEF Less
  <2>2. ~Has(<<x>>, "PUBLISH", other) /\ ~Has(<<x>>, "PUBREL", other)
    BY <1>10, <1>11
  <2> QED
    BY <1>10, <2>1, <2>2, Repeated DEF Carries
<1>12. \A q \in Pubs : Busy(pb2[q]) /\ pm2[q] # mid => pb[q] = pb2[q] /\ pm[q] = pm2[q]
  BY <1>0
<1>13. ASSUME NEW q \in Pubs, Busy(pb2[q]), pm2[q] = mid
       PROVE  Stage(tb2, tc, Stored(l, mid), mid, pb2[q], n[q])
  <2>1. q = p
    BY <1>1, <1>2, <1>13
  <2>2. n[p] = 0
    BY <1>0 DEF Handshake, Settled
  <2>3. Free(tb, tc, Stored(l, mid), mid)
    BY <1>0 DEF Handshake
  <2>4. Waits(tb2, tc, Stored(l, mid), mid)
    BY <2>3, Publishes
  <2> QED
    BY <1>0, <2>1, <2>2, <2>4 DEF Stage
<1>14. \A other : other # mid /\ Unused(pb2, pm2, other) => Unused(pb, pm, other)
  BY <1>1 DEF Unused
<1>15. ~Unused(pb2, pm2, mid)
  BY <1>0, <1>3 DEF Unused
<1> QED
  <2>1. Moved(tb, tc, l, pb, pm, n, tb2, tc, l, pb2, pm2, n, mid)
    BY <1>4, <1>7, <1>8, <1>9, <1>11, <1>12, <1>13, <1>14, <1>15 DEF Moved
  <2> QED
    BY <2>1, Moves
\* It takes a PUBREC: the message it publishes under that identifier is stored, and
\* it releases it.
LEMMA PubrecHandshake ==
  ASSUME NEW tb \in Seq(Wire), NEW tc \in Seq(Wire), NEW l, NEW pb, NEW pm, NEW n,
         Handshake(tb, tc, l, pb, pm, n), tc # <<>>, NEW mid,
         Head(tc).type = "PUBREC", Head(tc).mid = mid,
         NEW x \in Wire, x.type = "PUBREL", x.mid = mid,
         NEW pb2, \A q \in Pubs : pb2[q] = IF Busy(pb[q]) /\ pm[q] = mid
                                           THEN "wait_for_pubcomp" ELSE pb[q],
         NEW tb2, tb2 = tb \o <<x>>
  PROVE  Handshake(tb2, Tail(tc), l, pb2, pm, n)
<1> DEFINE tc2 == Tail(tc)
<1>1. Less(tc, tc2)
  BY DEF Less
<1>2. <<x>> \in Seq(Wire) /\ \A type, other : Has(<<x>>, type, other) => type = "PUBREL" /\ other = mid
  BY OneFacts
<1>3. \A q \in Pubs : Busy(pb2[q]) <=> Busy(pb[q])
  BY DEF Busy
<1>4. Apart(pb2, pm)
  <2>1. Apart(pb, pm)
    BY DEF Handshake
  <2> QED
    BY <1>3, <2>1 DEF Apart
<1>5. \A y : Owned(pb, pm, y) => Owned(pb2, pm, y)
  BY <1>3 DEF Owned
<1>6. \A i \in DOMAIN tb2 : tb2[i].type = "PUBLISH" => Owned(pb2, pm, tb2[i])
  <2>1. \A i \in DOMAIN tb2 : (i \in DOMAIN tb /\ tb2[i] = tb[i]) \/ tb2[i] = x
    OBVIOUS
  <2>2. \A i \in DOMAIN tb : tb[i].type = "PUBLISH" => Owned(pb, pm, tb[i])
    BY DEF Handshake
  <2> QED
    BY <1>5, <2>1, <2>2
<1>7. \A a \in DOMAIN l : l[a].dir = In => Owned(pb2, pm, l[a])
  BY <1>5 DEF Handshake
<1>8. \A q \in Pubs : Settled(pb2[q], n[q])
  <2>1. \A q \in Pubs : Settled(pb[q], n[q])
    BY DEF Handshake
  <2> QED
    BY <2>1 DEF Settled
<1>9. ASSUME NEW other, other # mid
      PROVE  Carries(tb, tc, Stored(l, other), tb2, tc2, Stored(l, other), other)
  <2>1. ~Has(<<x>>, "PUBLISH", other) /\ ~Has(<<x>>, "PUBREL", other)
    BY <1>2, <1>9
  <2> QED
    BY <1>1, <1>2, <2>1, Repeated DEF Carries
<1>10. \A other : Unused(pb2, pm, other) <=> Unused(pb, pm, other)
  BY <1>3 DEF Unused
<1>11. ASSUME NEW q \in Pubs, Busy(pb2[q]), pm[q] = mid
       PROVE  Stage(tb2, tc2, Stored(l, mid), mid, pb2[q], n[q])
  <2>1. Stage(tb, tc, Stored(l, mid), mid, pb[q], n[q]) /\ Busy(pb[q])
    BY <1>3, <1>11 DEF Handshake
  <2>2. pb2[q] = "wait_for_pubcomp"
    BY <1>11, <2>1
  <2>3. Waits(tb, tc, Stored(l, mid), mid) => Holds(tb2, tc2, Stored(l, mid), mid)
    <3>1. Stored(l, mid) \in BOOLEAN
      BY DEF Stored
    <3> QED
      BY <3>1, TakesPubrec
  <2>4. /\ Holds(tb, tc, Stored(l, mid), mid) => Holds(tb2, tc2, Stored(l, mid), mid)
        /\ Routed(tb, tc, Stored(l, mid), mid) => Routed(tb2, tc2, Stored(l, mid), mid)
    <3>1. ~Has(<<x>>, "PUBLISH", mid)
      BY <1>2
    <3> QED
      BY <1>1, <1>2, <3>1, Repeated
  <2> QED
    BY <2>1, <2>2, <2>3, <2>4 DEF Stage
<1>12. \A q \in Pubs : Busy(pb2[q]) /\ pm[q] # mid => pb[q] = pb2[q]
  OBVIOUS
<1>13. ASSUME mid \in 0..MidMax, Unused(pb2, pm, mid)
       PROVE  FALSE
  <2>1. Free(tb, tc, Stored(l, mid), mid)
    BY <1>10, <1>13 DEF Handshake
  <2> QED
    BY <2>1, HeadFacts DEF Free
<1>14. Moved(tb, tc, l, pb, pm, n, tb2, tc2, l, pb2, pm, n, mid)
  BY <1>4, <1>6, <1>7, <1>8, <1>9, <1>10, <1>11, <1>12, <1>13 DEF Moved
<1> QED
  BY <1>14, Moves

\* It takes a PUBCOMP: the message it has released under that identifier has been
\* routed, and the identifier is free again.
LEMMA PubcompHandshake ==
  ASSUME NEW tb \in Seq(Wire), NEW tc \in Seq(Wire), NEW l, NEW pb, NEW pm, NEW n,
         Handshake(tb, tc, l, pb, pm, n), tc # <<>>, NEW mid,
         Head(tc).type = "PUBCOMP", Head(tc).mid = mid,
         NEW pb2, \A q \in Pubs : pb2[q] = IF pb[q] = "wait_for_pubcomp" /\ pm[q] = mid
                                           THEN "done" ELSE pb[q]
  PROVE  /\ Handshake(tb, Tail(tc), l, pb2, pm, n)
         /\ \A q \in Pubs : pb[q] = "wait_for_pubcomp" /\ pm[q] = mid => n[q] = 1
<1> DEFINE tc2 == Tail(tc)
           mine(q) == pb[q] = "wait_for_pubcomp" /\ pm[q] = mid
<1>1. Less(tc, tc2)
  BY DEF Less
<1>2. ASSUME NEW q \in Pubs, mine(q)
      PROVE  /\ n[q] = 1 /\ Routed(tb, tc, Stored(l, mid), mid)
             /\ Free(tb, tc2, Stored(l, mid), mid)
  <2>1. Stage(tb, tc, Stored(l, mid), mid, pb[q], n[q])
    BY <1>2 DEF Handshake, Busy
  <2>2. ~Holds(tb, tc, Stored(l, mid), mid)
    BY TakesPubcomp
  <2>3. n[q] = 1 /\ Routed(tb, tc, Stored(l, mid), mid)
    BY <1>2, <2>1, <2>2 DEF Stage
  <2> QED
    BY <2>3, TakesPubcomp
<1>3. \A q \in Pubs : Busy(pb2[q]) => Busy(pb[q]) /\ pb2[q] = pb[q] /\ ~mine(q)
  BY DEF Busy
<1>4. \A q \in Pubs : Busy(pb[q]) => mine(q) \/ Busy(pb2[q])
  BY DEF Busy
<1>5. Apart(pb2, pm)
  <2>1. Apart(pb, pm)
    BY DEF Handshake
  <2> QED
    BY <1>3, <2>1 DEF Apart
<1>6. ASSUME NEW y, Owned(pb, pm, y), y.mid = mid => ~Routed(tb, tc, Stored(l, mid), mid)
      PROVE  Owned(pb2, pm, y)
  <2>1. y.msg \in Pubs /\ Busy(pb[y.msg]) /\ pm[y.msg] = y.mid
    BY <1>6 DEF Owned
  <2>2. ~mine(y.msg)
    BY <1>2, <1>6, <2>1
  <2> QED
    BY <1>4, <2>1, <2>2 DEF Owned
<1>7. ASSUME NEW i \in DOMAIN tb, tb[i].type = "PUBLISH"
      PROVE  Owned(pb2, pm, tb[i])
  <2>1. Owned(pb, pm, tb[i])
    BY <1>7 DEF Handshake
  <2>2. tb[i].mid = mid => ~Routed(tb, tc, Stored(l, mid), mid)
    BY <1>7 DEF Routed, Has
  <2> QED
    BY <1>6, <2>1, <2>2
<1>8. ASSUME NEW a \in DOMAIN l, l[a].dir = In
      PROVE  Owned(pb2, pm, l[a])
  <2>1. Owned(pb, pm, l[a])
    BY <1>8 DEF Handshake
  <2>2. l[a].mid = mid => ~Routed(tb, tc, Stored(l, mid), mid)
    BY <1>8 DEF Routed, Stored, Match
  <2> QED
    BY <1>6, <2>1, <2>2
<1>9. ASSUME NEW q \in Pubs
      PROVE  Settled(pb2[q], n[q])
  <2>1. Settled(pb[q], n[q])
    BY DEF Handshake
  <2> QED
    BY <1>2, <2>1 DEF Settled
<1>10. ASSUME NEW other
       PROVE  Carries(tb, tc, Stored(l, other), tb, tc2, Stored(l, other), other)
  <2>1. <<>> \in Seq(Wire) /\ tb = tb \o <<>>
    OBVIOUS
  <2>2. ~Has(<<>>, "PUBLISH", other) /\ ~Has(<<>>, "PUBREL", other)
    BY DEF Has
  <2> QED
    BY <1>1, <2>1, <2>2, Repeated DEF Carries
<1>11. ASSUME NEW other, other # mid, Unused(pb2, pm, other)
       PROVE  Unused(pb, pm, other)
  BY <1>4, <1>11 DEF Unused
<1>12. ASSUME NEW q \in Pubs, Busy(pb2[q]), pm[q] = mid
       PROVE  Stage(tb, tc2, Stored(l, mid), mid, pb2[q], n[q])
  <2>1. Stage(tb, tc, Stored(l, mid), mid, pb[q], n[q]) /\ pb2[q] = pb[q]
    BY <1>3, <1>12 DEF Handshake
  <2> QED
    BY <1>10, <2>1, CarriesStage
<1>13. ASSUME mid \in 0..MidMax, Unused(pb2, pm, mid)
       PROVE  Free(tb, tc2, Stored(l, mid), mid)
  <2>1. CASE Unused(pb, pm, mid)
    <3>1. Free(tb, tc, Stored(l, mid), mid)
      BY <1>13, <2>1 DEF Handshake
    <3> QED
      BY <1>10, <3>1, CarriesStage
  <2>2. CASE ~Unused(pb, pm, mid)
    <3>1. PICK q \in Pubs : Busy(pb[q]) /\ pm[q] = mid
      BY <2>2 DEF Unused
    <3>2. mine(q)
      BY <1>4, <1>13, <3>1 DEF Unused
    <3> QED
      BY <1>2, <3>2
  <2> QED
    BY <2>1, <2>2
<1>14. Moved(tb, tc, l, pb, pm, n, tb, tc2, l, pb2, pm, n, mid)
  <2> HIDE DEF mine, tc2
  <2> QED
    BY <1>3, <1>5, <1>7, <1>8, <1>9, <1>10, <1>11, <1>12, <1>13 DEF Moved
<1>15. Handshake(tb, tc2, l, pb2, pm, n)
  BY <1>14, Moves
<1> QED
  BY <1>2, <1>15
------------------------------------------------------------------------------
\* The actions of the client.

\* They leave the broker as it is.
LEMMA ClientStep ==
  ASSUME DInv, UNCHANGED vars, passed' = passed,
         toBroker' \in Seq(Wire), Less(toClient, toClient'),
         pub' \in [Pubs -> {"idle", "wait_for_pubrec", "wait_for_pubcomp", "done"}],
         pubMid' \in [Pubs -> 0..MidMax],
         \A p \in Pubs : Busy(pub'[p]) => pubMid'[p] \in Mids,
         Handshake(toBroker', toClient', msgs, pub', pubMid', passed)
  PROVE  DInv'
<1>1. Inv'
  BY DFacts, InvNext
<1>2. msgs' = msgs /\ sock' = sock /\ clean' = clean
  BY DEF vars
<1>3. clean' => ~sock' /\ DOMAIN msgs' = {}
  BY <1>2, DFacts
<1>4. toClient' \in Seq(Wire) /\ ForClient(toClient')
  <2>1. <<>> \in Seq(Wire) /\ ForClient(<<>>)
    BY DEF ForClient
  <2> QED
    BY <2>1, DFacts, LessFacts, ForClientKept
<1>5. Handshake(toBroker', toClient', msgs', pub', pubMid', passed')
  BY <1>2
<1>6. passed' \in [Pubs -> 0..2] /\ Asserted(msgs')
  BY <1>2, DFacts
<1> QED
  BY <1>1, <1>3, <1>4, <1>5, <1>6, DKept

\* The client takes a packet, or none, and sends honest ones.
LEMMA HonestStep ==
  ASSUME DInv, UNCHANGED <<vars, pub, pubMid, passed>>, Less(toClient, toClient'),
         NEW s, Honest(s, pub, pubMid), toBroker' = toBroker \o s
  PROVE  DInv'
<1>1. Handshake(toBroker', toClient', msgs, pub, pubMid, passed)
  BY DFacts, HonestHandshake
<1>2. toBroker' \in Seq(Wire)
  BY DFacts, ConcatFacts DEF Honest
<1>3. pub' = pub /\ pubMid' = pubMid /\ passed' = passed /\ UNCHANGED vars
  OBVIOUS
<1> QED
  BY <1>1, <1>2, <1>3, DFacts, ClientStep

\* A single packet of another kind is honest.
LEMMA HonestOne ==
  ASSUME NEW x \in Wire, x.type \notin {"PUBLISH", "PUBREL"}, NEW pb, NEW pm
  PROVE  Honest(<<x>>, pb, pm)
  BY DEF Honest

LEMMA HonestNone ==
  ASSUME NEW pb, NEW pm
  PROVE  Honest(<<>>, pb, pm)
  BY DEF Honest

\* What is unanswered is honest.
LEMMA UnansweredHonest ==
  ASSUME DInv, NEW p \in Pubs, Sending(p)
  PROVE  /\ Unanswered(p) \in Wire
         /\ Unanswered(p).type = "PUBLISH" =>
              /\ Unanswered(p).msg \in Pubs
              /\ pubMid[Unanswered(p).msg] = Unanswered(p).mid
              /\ pub[Unanswered(p).msg] = "wait_for_pubrec"
         /\ Unanswered(p).type = "PUBREL" =>
              \A q \in Pubs : pub[q] = "wait_for_pubrec" => pubMid[q] # Unanswered(p).mid
<1>1. pubMid[p] \in 0..MidMax /\ p \in Msgs
  BY DFacts, DeliveryAssumption
<1>2. CASE pub[p] = "wait_for_pubrec"
  <2>1. Unanswered(p) = [type |-> "PUBLISH", mid |-> pubMid[p], qos |-> 2, msg |-> p]
    BY <1>2 DEF Unanswered
  <2>2. Unanswered(p) \in Wire
    BY <1>1, <2>1 DEF Wire, QoS
  <2> QED
    BY <1>2, <2>1, <2>2
<1>3. CASE pub[p] = "wait_for_pubcomp"
  <2>1. Unanswered(p) = Packet("PUBREL", pubMid[p])
    BY <1>3 DEF Unanswered
  <2>2. /\ Unanswered(p) \in Wire
        /\ Unanswered(p).type = "PUBREL" /\ Unanswered(p).mid = pubMid[p]
    BY <1>1, <2>1, PacketType
  <2>3. \A q \in Pubs : Busy(pub[p]) /\ Busy(pub[q]) /\ pubMid[p] = pubMid[q] => p = q
    BY DFacts DEF Handshake, Apart
  <2>4. \A q \in Pubs : pub[q] = "wait_for_pubrec" => pubMid[q] # pubMid[p]
    BY <1>3, <2>3 DEF Busy
  <2> QED
    BY <2>2, <2>4
<1> QED
  BY <1>2, <1>3 DEF Sending

LEMMA RepeatsHonest ==
  ASSUME DInv
  PROVE  Honest(Repeats, pub, pubMid)
<1> DEFINE S     == {pubMid[p] : p \in {q \in Pubs : Sending(q)}}
           order == InOrder(S)
           of(m) == CHOOSE p \in Pubs : Sending(p) /\ pubMid[p] = m
<1>1. S \in SUBSET (0..MidMax)
  BY DFacts
<1>2. S \in SUBSET Int /\ IsFiniteSet(S)
  <2>1. IsFiniteSet(0..MidMax) /\ 0..MidMax \subseteq Int
    BY MidAssumption, FS_Interval
  <2> QED
    BY <1>1, <2>1, FS_Subset
<1>3. \A m \in S : of(m) \in Pubs /\ Sending(of(m))
  OBVIOUS
<1>4. Repeats = [i \in DOMAIN order |-> Unanswered(of(order[i]))]
  BY DEF Repeats
<1> HIDE DEF S, of
<1>5. /\ DOMAIN order = 1..Cardinality(S) /\ Cardinality(S) \in Nat
      /\ \A i \in DOMAIN order : order[i] \in S
  BY <1>2, InOrderFacts, FS_CardinalityType
<1> HIDE DEF order
<1>6. ASSUME NEW i \in DOMAIN order
      PROVE  \E p \in Pubs : Sending(p) /\ Repeats[i] = Unanswered(p)
  BY <1>3, <1>4, <1>5
<1>7. DOMAIN Repeats = 1..Cardinality(S)
  BY <1>4, <1>5
<1>8. Repeats \in [1..Cardinality(S) -> Wire]
  <2>1. \A i \in DOMAIN order : Repeats[i] \in Wire
    BY <1>6, UnansweredHonest
  <2> QED
    BY <1>4, <1>5, <2>1
<1>9. Repeats \in Seq(Wire)
  BY <1>5, <1>8
<1>10. ASSUME NEW i \in DOMAIN Repeats
       PROVE  /\ Repeats[i].type = "PUBLISH" =>
                   /\ Repeats[i].msg \in Pubs
                   /\ pubMid[Repeats[i].msg] = Repeats[i].mid
                   /\ pub[Repeats[i].msg] = "wait_for_pubrec"
              /\ Repeats[i].type = "PUBREL" =>
                   \A p \in Pubs : pub[p] = "wait_for_pubrec" => pubMid[p] # Repeats[i].mid
  <2>1. PICK p \in Pubs : Sending(p) /\ Repeats[i] = Unanswered(p)
    BY <1>5, <1>6, <1>7
  <2> QED
    BY <2>1, UnansweredHonest
<1> QED
  BY <1>9, <1>10 DEF Honest

LEMMA ClientPublishesInv ==
  ASSUME DInv, NEW p \in Pubs, ClientPublishes(p)
  PROVE  /\ DInv' /\ passed' = passed
         /\ pub[p] = "idle" /\ pub' = [pub EXCEPT ![p] = "wait_for_pubrec"]
<1>1. PICK mid \in Mids :
        /\ \A q \in Pubs : Sending(q) => pubMid[q] # mid
        /\ pubMid' = [pubMid EXCEPT ![p] = mid]
        /\ toBroker' = Append(toBroker, [type |-> "PUBLISH", mid |-> mid,
                                         qos |-> 2, msg |-> p])
  BY DEF ClientPublishes
<1>2. /\ pub[p] = "idle" /\ pub' = [pub EXCEPT ![p] = "wait_for_pubrec"]
      /\ UNCHANGED vars /\ toClient' = toClient /\ passed' = passed
  BY DEF ClientPublishes, history
<1> DEFINE x == [type |-> "PUBLISH", mid |-> mid, qos |-> 2, msg |-> p]
<1>3. mid \in 0..MidMax /\ Unused(pub, pubMid, mid)
  BY <1>1, MidTypes DEF Unused, Sending, Busy
<1>4. x \in Wire /\ x.type = "PUBLISH" /\ x.mid = mid /\ x.msg = p
  BY <1>3, DeliveryAssumption DEF Wire, QoS
<1> HIDE DEF x
<1>5. toBroker' = toBroker \o <<x>> /\ toBroker' \in Seq(Wire)
  <2>1. toBroker' = Append(toBroker, x)
    BY <1>1 DEF x
  <2>2. /\ <<x>> \in Seq(Wire) /\ \A q \in Seq(Wire) : Append(q, x) = q \o <<x>>
    BY <1>4, OneFacts
  <2> QED
    BY <2>1, <2>2, DFacts, ConcatFacts
<1>6. /\ pub \in [Pubs -> {"idle", "wait_for_pubrec", "wait_for_pubcomp", "done"}]
      /\ pubMid \in [Pubs -> 0..MidMax]
  BY DFacts
<1>7. /\ pub'[p] = "wait_for_pubrec" /\ \A q \in Pubs \ {p} : pub'[q] = pub[q]
      /\ pub' \in [Pubs -> {"idle", "wait_for_pubrec", "wait_for_pubcomp", "done"}]
  BY <1>2, <1>6
<1>8. /\ pubMid'[p] = mid /\ \A q \in Pubs \ {p} : pubMid'[q] = pubMid[q]
      /\ pubMid' \in [Pubs -> 0..MidMax]
  BY <1>1, <1>3, <1>6
<1>9. \A q \in Pubs : Busy(pub'[q]) => pubMid'[q] \in Mids
  BY <1>7, <1>8, DFacts
<1>10. Handshake(toBroker', toClient', msgs, pub', pubMid', passed)
  <2>1. /\ toBroker \in Seq(Wire) /\ toClient \in Seq(Wire)
        /\ Handshake(toBroker, toClient, msgs, pub, pubMid, passed)
        /\ toBroker' = toBroker \o <<x>>
    BY <1>5, DFacts
  <2>2. Handshake(toBroker', toClient, msgs, pub', pubMid', passed)
    <3>1. Starts(pub, pubMid, p, mid, pub', pubMid')
      BY <1>2, <1>3, <1>7, <1>8 DEF Starts
    <3> QED
      BY <1>3, <1>4, <2>1, <3>1, PublishesHandshake
  <2> QED
    BY <1>2, <2>2
<1>11. Less(toClient, toClient')
  BY <1>2 DEF Less
<1> QED
  BY <1>2, <1>5, <1>7, <1>8, <1>9, <1>10, <1>11, ClientStep

LEMMA ClientRepeatsInv ==
  ASSUME DInv, NEW p \in Pubs, ClientRepeats(p)
  PROVE  DInv' /\ passed' = passed /\ pub' = pub
<1>1. /\ UNCHANGED <<vars, pub, pubMid, passed>> /\ toClient' = toClient
      /\ Sending(p) /\ toBroker' = Append(toBroker, Unanswered(p))
  BY DEF ClientRepeats, client, history
<1>2. Honest(<<Unanswered(p)>>, pub, pubMid)
  BY <1>1, UnansweredHonest DEF Honest
<1>3. toBroker' = toBroker \o <<Unanswered(p)>>
  BY <1>1, DFacts, UnansweredHonest, OneFacts
<1>4. Less(toClient, toClient')
  BY <1>1 DEF Less
<1> QED
  BY <1>1, <1>2, <1>3, <1>4, HonestStep
\* What a step of the client does to what it has offered and has confirmed: nothing is
\* offered, and a message that is confirmed has been routed.
Confirms ==
  /\ \A p \in Pubs : pub'[p] = "idle" <=> pub[p] = "idle"
  /\ \E S \in SUBSET Pubs :
       /\ \A p, q \in S : p = q
       /\ \A p \in S : pub[p] # "done" /\ passed[p] = 1
       /\ \A p \in Pubs : pub'[p] = "done" <=> pub[p] = "done" \/ p \in S

LEMMA ConfirmsNone ==
  ASSUME pub' = pub
  PROVE  Confirms
<1>1. {} \in SUBSET Pubs /\ \A p \in Pubs : pub'[p] = "done" <=> pub[p] = "done" \/ p \in {}
  OBVIOUS
<1> QED
  BY <1>1 DEF Confirms

\* What every step of ClientTakes has in common.
Takes ==
  /\ DInv /\ toClient # <<>> /\ toClient' = Tail(toClient)
  /\ UNCHANGED <<vars, pubMid, passed>>
  /\ ClientTakes(Head(toClient))

LEMMA TakesFacts ==
  ASSUME Takes
  PROVE  /\ Head(toClient) \in Wire /\ Head(toClient).mid \in 0..MidMax
         /\ Head(toClient).type # "PUBACK"
         /\ Head(toClient).type = "PUBLISH" => Head(toClient).qos \in {1, 2}
         /\ Less(toClient, toClient') /\ UNCHANGED vars
         /\ pubMid' = pubMid /\ passed' = passed
         /\ toBroker \in Seq(Wire) /\ toClient \in Seq(Wire)
<1>1. toClient \in Seq(Wire) /\ toClient # <<>> /\ ForClient(toClient)
  BY DFacts DEF Takes
<1>2. 1 \in DOMAIN toClient /\ Head(toClient) = toClient[1] /\ Head(toClient) \in Wire
  BY <1>1
<1>3. /\ Head(toClient).type # "PUBACK"
      /\ Head(toClient).type = "PUBLISH" => Head(toClient).qos \in {1, 2}
  BY <1>1, <1>2 DEF ForClient
<1>4. Head(toClient).mid \in 0..MidMax
  BY <1>2 DEF Wire
<1>5. Less(toClient, toClient')
  BY DEF Takes, Less
<1>6. UNCHANGED vars /\ pubMid' = pubMid /\ passed' = passed
  BY DEF Takes
<1> QED
  BY <1>1, <1>2, <1>3, <1>4, <1>5, <1>6, DFacts DEF Takes

LEMMA TakesPublish ==
  ASSUME NEW x, ClientTakes(x), x.type = "PUBLISH"
  PROVE  /\ x.qos = 1 => pub' = pub /\ toBroker' = Append(toBroker, Packet("PUBACK", x.mid))
         /\ x.qos = 2 => pub' = pub /\ toBroker' = Append(toBroker, Packet("PUBREC", x.mid))
<1>1. x.qos = 1 => pub' = pub /\ toBroker' = Append(toBroker, Packet("PUBACK", x.mid))
  BY DEF ClientTakes
<1>2. x.qos = 2 => pub' = pub /\ toBroker' = Append(toBroker, Packet("PUBREC", x.mid))
  BY DEF ClientTakes
<1> QED
  BY <1>1, <1>2

\* CONNACK, PUBLISH and PUBREL change nothing for what it publishes.
LEMMA TakesOthers ==
  ASSUME Takes, Head(toClient).type \in {"CONNACK", "PUBLISH", "PUBREL"}
  PROVE  DInv' /\ Confirms
<1> DEFINE x == Head(toClient)
<1>1. /\ x.mid \in 0..MidMax /\ (x.type = "PUBLISH" => x.qos \in {1, 2})
      /\ UNCHANGED vars /\ pubMid' = pubMid /\ passed' = passed
      /\ Less(toClient, toClient') /\ toBroker \in Seq(Wire) /\ DInv
  BY TakesFacts DEF Takes
<1>2. CASE x.type = "CONNACK"
  <2>1. pub' = pub /\ toBroker' = toBroker \o Repeats
    BY <1>2 DEF Takes, ClientTakes
  <2>2. Honest(Repeats, pub, pubMid)
    BY <1>1, RepeatsHonest
  <2> QED
    BY <1>1, <2>1, <2>2, HonestStep, ConfirmsNone
<1>3. ASSUME NEW type \in {"PUBACK", "PUBREC", "PUBCOMP"}, pub' = pub,
             toBroker' = Append(toBroker, Packet(type, x.mid))
      PROVE  DInv' /\ Confirms
  <2>1. /\ Packet(type, x.mid) \in Wire
        /\ Packet(type, x.mid).type \notin {"PUBLISH", "PUBREL"}
    BY <1>1, PacketType
  <2>2. Honest(<<Packet(type, x.mid)>>, pub, pubMid)
    BY <2>1, HonestOne
  <2>3. toBroker' = toBroker \o <<Packet(type, x.mid)>>
    BY <1>1, <1>3, <2>1, OneFacts
  <2> QED
    BY <1>1, <1>3, <2>2, <2>3, HonestStep, ConfirmsNone
<1>4. CASE x.type = "PUBLISH" /\ x.qos = 1
  <2>1. pub' = pub /\ toBroker' = Append(toBroker, Packet("PUBACK", x.mid))
    BY <1>4, TakesPublish DEF Takes
  <2> QED
    BY <1>3, <2>1
<1>5. CASE x.type = "PUBLISH" /\ x.qos = 2
  <2>1. pub' = pub /\ toBroker' = Append(toBroker, Packet("PUBREC", x.mid))
    BY <1>5, TakesPublish DEF Takes
  <2> QED
    BY <1>3, <2>1
<1>6. CASE x.type = "PUBREL"
  <2>1. pub' = pub /\ toBroker' = Append(toBroker, Packet("PUBCOMP", x.mid))
    BY <1>6 DEF Takes, ClientTakes
  <2> QED
    BY <1>3, <2>1
<1> QED
  BY <1>1, <1>2, <1>4, <1>5, <1>6

\* PUBREC: it goes on to release the message, if it publishes one under the identifier.
LEMMA TakesThePubrec ==
  ASSUME Takes, Head(toClient).type = "PUBREC"
  PROVE  DInv' /\ Confirms
<1> DEFINE mid  == Head(toClient).mid
           x    == Packet("PUBREL", mid)
           mine == {q \in Pubs : Sending(q) /\ pubMid[q] = mid}
<1>1. /\ mid \in 0..MidMax /\ UNCHANGED vars /\ pubMid' = pubMid /\ passed' = passed
      /\ Less(toClient, toClient') /\ DInv /\ toClient' = Tail(toClient) /\ toClient # <<>>
  BY TakesFacts DEF Takes
<1>2. /\ pub' = [q \in Pubs |-> IF q \in mine THEN "wait_for_pubcomp" ELSE pub[q]]
      /\ toBroker' = Append(toBroker, x)
  BY DEF Takes, ClientTakes
<1>3. x \in Wire /\ x.type = "PUBREL" /\ x.mid = mid
  BY <1>1, PacketType
<1> HIDE DEF x
<1>4. toBroker' = toBroker \o <<x>> /\ toBroker' \in Seq(Wire)
  <2>1. <<x>> \in Seq(Wire) /\ \A q \in Seq(Wire) : Append(q, x) = q \o <<x>>
    BY <1>3, OneFacts
  <2> QED
    BY <1>1, <1>2, <2>1, DFacts, ConcatFacts
<1>5. pub \in [Pubs -> {"idle", "wait_for_pubrec", "wait_for_pubcomp", "done"}]
  BY <1>1, DFacts
<1>6. \A q \in Pubs : pub'[q] = IF Busy(pub[q]) /\ pubMid[q] = mid
                                THEN "wait_for_pubcomp" ELSE pub[q]
  BY <1>2 DEF Busy, Sending
<1>7. pub' \in [Pubs -> {"idle", "wait_for_pubrec", "wait_for_pubcomp", "done"}]
  BY <1>2, <1>5
<1>8. \A q \in Pubs : Busy(pub'[q]) => Busy(pub[q])
  BY <1>6
<1> HIDE DEF mid, mine
<1>9. Handshake(toBroker', toClient', msgs, pub', pubMid', passed)
  <2>1. /\ toBroker \in Seq(Wire) /\ toClient \in Seq(Wire)
        /\ Handshake(toBroker, toClient, msgs, pub, pubMid, passed)
    BY <1>1, DFacts
  <2>2. Head(toClient).type = "PUBREC" /\ Head(toClient).mid = mid
    BY DEF mid
  <2>3. Handshake(toBroker', Tail(toClient), msgs, pub', pubMid, passed)
    BY <1>1, <1>3, <1>4, <1>6, <2>1, <2>2, PubrecHandshake
  <2> QED
    BY <1>1, <2>3
<1>10. \A q \in Pubs : Busy(pub'[q]) => pubMid'[q] \in Mids
  BY <1>1, <1>8, DFacts
<1>11. DInv'
  BY <1>1, <1>4, <1>7, <1>9, <1>10, DFacts, ClientStep
<1>12. Confirms
  <2>1. \A p \in Pubs : /\ pub'[p] = "idle" <=> pub[p] = "idle"
                        /\ pub'[p] = "done" <=> pub[p] = "done" \/ p \in {}
    BY <1>6 DEF Busy
  <2>2. {} \in SUBSET Pubs
    OBVIOUS
  <2> QED
    BY <2>1, <2>2 DEF Confirms
<1> QED
  BY <1>11, <1>12

\* PUBCOMP: the message it has released under the identifier is confirmed.
LEMMA TakesThePubcomp ==
  ASSUME Takes, Head(toClient).type = "PUBCOMP"
  PROVE  DInv' /\ Confirms
<1> DEFINE mid  == Head(toClient).mid
           mine == {q \in Pubs : pub[q] = "wait_for_pubcomp" /\ pubMid[q] = mid}
<1>1. /\ mid \in 0..MidMax /\ UNCHANGED vars /\ pubMid' = pubMid /\ passed' = passed
      /\ Less(toClient, toClient') /\ DInv /\ toClient' = Tail(toClient) /\ toClient # <<>>
  BY TakesFacts DEF Takes
<1>2. /\ pub' = [q \in Pubs |-> IF q \in mine THEN "done" ELSE pub[q]]
      /\ toBroker' = toBroker
  BY DEF Takes, ClientTakes
<1>3. pub \in [Pubs -> {"idle", "wait_for_pubrec", "wait_for_pubcomp", "done"}]
  BY <1>1, DFacts
<1>4. \A q \in Pubs : pub'[q] = IF pub[q] = "wait_for_pubcomp" /\ pubMid[q] = mid
                                THEN "done" ELSE pub[q]
  BY <1>2
<1>5. pub' \in [Pubs -> {"idle", "wait_for_pubrec", "wait_for_pubcomp", "done"}]
  BY <1>2, <1>3
<1>6. \A q \in Pubs : Busy(pub'[q]) => Busy(pub[q])
  BY <1>4 DEF Busy
<1> HIDE DEF mid
<1>7. /\ Handshake(toBroker, toClient', msgs, pub', pubMid, passed)
      /\ \A q \in Pubs : pub[q] = "wait_for_pubcomp" /\ pubMid[q] = mid => passed[q] = 1
  <2>1. /\ toBroker \in Seq(Wire) /\ toClient \in Seq(Wire)
        /\ Handshake(toBroker, toClient, msgs, pub, pubMid, passed)
    BY <1>1, DFacts
  <2>2. Head(toClient).type = "PUBCOMP" /\ Head(toClient).mid = mid
    BY DEF mid
  <2>3. /\ Handshake(toBroker, Tail(toClient), msgs, pub', pubMid, passed)
        /\ \A q \in Pubs : pub[q] = "wait_for_pubcomp" /\ pubMid[q] = mid => passed[q] = 1
    BY <1>1, <1>4, <2>1, <2>2, PubcompHandshake
  <2> QED
    BY <1>1, <2>3
<1>8. \A q \in Pubs : Busy(pub'[q]) => pubMid'[q] \in Mids
  BY <1>1, <1>6, DFacts
<1>9. DInv'
  BY <1>1, <1>2, <1>5, <1>7, <1>8, DFacts, ClientStep
<1>10. Confirms
  <2>1. \A p, q \in mine : p = q
    BY <1>1, DFacts DEF Handshake, Apart, Busy
  <2>2. \A p \in mine : pub[p] # "done" /\ passed[p] = 1
    BY <1>7
  <2>3. \A p \in Pubs : /\ pub'[p] = "idle" <=> pub[p] = "idle"
                        /\ pub'[p] = "done" <=> pub[p] = "done" \/ p \in mine
    BY <1>4
  <2>4. mine \in SUBSET Pubs
    OBVIOUS
  <2> HIDE DEF mine
  <2> QED
    BY <2>1, <2>2, <2>3, <2>4 DEF Confirms
<1> QED
  BY <1>9, <1>10

LEMMA ClientReceivesInv ==
  ASSUME DInv, ClientReceives
  PROVE  DInv' /\ passed' = passed /\ Confirms
<1>1. Takes /\ passed' = passed
  BY DEF ClientReceives, Takes
<1>2. Head(toClient).type \in {"CONNACK", "PUBACK", "PUBREC", "PUBREL", "PUBCOMP", "PUBLISH"}
  BY <1>1, TakesFacts DEF Wire
<1> QED
  BY <1>1, <1>2, TakesFacts, TakesOthers, TakesThePubrec, TakesThePubcomp
\* Losing the connection without noticing what is in transit changes nothing.
LEMMA ClientLosesBrokerInv ==
  ASSUME DInv, ClientLosesBroker
  PROVE  DInv' /\ passed' = passed /\ pub' = pub
<1>1. /\ UNCHANGED <<vars, pub, pubMid, passed>>
      /\ toClient' = toClient /\ toBroker' = toBroker
  BY DEF ClientLosesBroker, network, history
<1>2. Less(toClient, toClient')
  BY <1>1 DEF Less
<1>3. toBroker' = toBroker \o <<>>
  BY <1>1, DFacts
<1> QED
  BY <1>1, <1>2, <1>3, HonestNone, HonestStep

\* A new connection starts with empty channels and the broker's CONNACK.
LEMMA ClientConnectsInv ==
  ASSUME DInv, ClientConnects
  PROVE  DInv' /\ passed' = passed /\ pub' = pub
<1>1. /\ Connect(FALSE) /\ Observe
      /\ toBroker' = <<>> /\ toClient' = sent' /\ pub' = pub /\ pubMid' = pubMid
  BY DEF ClientConnects, client
<1>2. Calm /\ sock'
  BY <1>1, ConnectCalm
<1>3. /\ Inv' /\ (clean' => ~sock' /\ DOMAIN msgs' = {})
      /\ SameInbound(msgs, msgs') /\ Asserted(msgs')
      /\ routed' = <<>> /\ Plain(sent', msgs)
  BY <1>2 DEF Calm
<1>4. Less(toBroker, toBroker') /\ Less(toClient, <<>>)
  BY <1>1 DEF Less
<1>5. toClient' = <<>> \o sent'
  BY <1>1, <1>3 DEF Plain
<1> QED
  BY <1>1, <1>3, <1>4, <1>5, CalmStep

------------------------------------------------------------------------------
\* The actions of the broker.

\* A handler that leaves the client's messages alone, and what it sends.
LEMMA CalmDelivered ==
  ASSUME DInv, Calm, Observe, NEW rest, Less(toBroker, rest), Deliver(rest)
  PROVE  DInv' /\ passed' = passed /\ pub' = pub
  BY CalmDelivery DEF Calm

LEMMA BrokerRoutesInv ==
  ASSUME DInv, NEW qos \in {1, 2}, NEW s \in Subs, BrokerRoutes(qos, s)
  PROVE  DInv' /\ passed' = passed /\ pub' = pub
<1>1. Route(qos, s) /\ Deliver(toBroker) /\ Observe
  BY DEF BrokerRoutes
<1>2. s \in Msgs
  BY DeliveryAssumption
<1>3. Calm
  BY <1>1, <1>2, RouteCalm
<1>4. Less(toBroker, toBroker)
  BY DEF Less
<1> QED
  BY <1>1, <1>3, <1>4, CalmDelivered

LEMMA BrokerWritesInv ==
  ASSUME DInv, BrokerWrites
  PROVE  DInv' /\ passed' = passed /\ pub' = pub
<1>1. WritePass /\ Deliver(toBroker) /\ Observe
  BY DEF BrokerWrites
<1>2. Less(toBroker, toBroker)
  BY DEF Less
<1> QED
  BY <1>1, <1>2, WritePassCalm, CalmDelivered

LEMMA BrokerRetriesInv ==
  ASSUME DInv, NEW S, BrokerRetries(S)
  PROVE  DInv' /\ passed' = passed /\ pub' = pub
<1>1. TimeoutCheck(S) /\ Deliver(toBroker) /\ Observe
  BY DEF BrokerRetries
<1>2. Less(toBroker, toBroker)
  BY DEF Less
<1> QED
  BY <1>1, <1>2, TimeoutCheckCalm, CalmDelivered

LEMMA BrokerLosesClientInv ==
  ASSUME DInv, BrokerLosesClient
  PROVE  DInv' /\ passed' = passed /\ pub' = pub
<1>1. /\ Disconnect \/ \E stop \in Stamps : WriteFails(stop)
      /\ Deliver(<<>>) /\ Observe
  BY DEF BrokerLosesClient
<1>2. Calm
  BY <1>1, DisconnectCalm, WriteFailsCalm
<1>3. Less(toBroker, <<>>)
  BY DEF Less
<1> QED
  BY <1>1, <1>2, <1>3, CalmDelivered

\* What a step of the broker does to what it has routed: at most one message more, one
\* that the client has published and that was not routed before.
Passes ==
  /\ pub' = pub
  /\ \E S \in SUBSET Pubs :
       /\ \A p, q \in S : p = q
       /\ \A p \in S : Busy(pub[p]) /\ passed[p] = 0
       /\ passed' = [p \in Pubs |-> IF p \in S THEN 1 ELSE passed[p]]

LEMMA PassesNone ==
  ASSUME DInv, pub' = pub, passed' = passed
  PROVE  Passes
<1>1. {} \in SUBSET Pubs /\ passed' = [p \in Pubs |-> IF p \in {} THEN 1 ELSE passed[p]]
  BY DFacts
<1> QED
  BY <1>1 DEF Passes

LEMMA BrokerReceivesInv ==
  ASSUME DInv, BrokerReceives
  PROVE  DInv' /\ Passes
<1> DEFINE x == Head(toBroker)
<1>1. /\ toBroker # <<>> /\ Handle(x) /\ Deliver(Tail(toBroker)) /\ Observe
  BY DEF BrokerReceives
<1>2. x \in Wire /\ Less(toBroker, Tail(toBroker))
  BY <1>1, DFacts DEF Less
<1>3. x.mid \in 0..MidMax
  BY <1>2 DEF Wire
<1>4. CASE x.type = "PUBLISH" /\ PublishQos2(x.mid, x.msg)
  BY <1>1, <1>4, BrokerStores, PassesNone
<1>5. CASE PubAckComp(x.mid)
  BY <1>1, <1>2, <1>5, PubAckCompCalm, CalmDelivered, PassesNone
<1>6. CASE PubRec(x.mid)
  BY <1>1, <1>2, <1>3, <1>6, PubRecCalm, CalmDelivered, PassesNone
<1>7. CASE x.type = "PUBREL" /\ PubRel(x.mid, NoSub)
  BY <1>1, <1>7, BrokerReleases DEF Passes
<1> QED
  BY <1>1, <1>4, <1>5, <1>6, <1>7 DEF Handle

------------------------------------------------------------------------------
\* The invariant.
LEMMA DInvInit == DInit => DInv
<1> SUFFICES ASSUME DInit PROVE DInv
  OBVIOUS
<1>1. /\ Init /\ toBroker = <<>> /\ toClient = <<>>
      /\ pub = [p \in Pubs |-> "idle"] /\ pubMid = [p \in Pubs |-> 0]
      /\ passed = [p \in Pubs |-> 0]
  BY DEF DInit
<1>2. Inv /\ msgs = NoEntries /\ ~sock
  BY <1>1, InvInit DEF Init
<1>3. DOMAIN msgs = {}
  BY <1>2, EmptyList
<1>4. DTypes /\ Before1st
  BY <1>1, <1>2, <1>3, MidTypes DEF DTypes, Before1st, ForClient, Asserted, Busy
<1>5. \A mid : ~Stored(msgs, mid)
  BY <1>3 DEF Stored, Match
<1>6. \A mid : Free(toBroker, toClient, Stored(msgs, mid), mid)
  BY <1>1, <1>5 DEF Free, Has
<1>7. \A p \in Pubs : ~Busy(pub[p]) /\ Settled(pub[p], passed[p])
  BY <1>1 DEF Busy, Settled
<1>8. Handshake(toBroker, toClient, msgs, pub, pubMid, passed)
  BY <1>1, <1>3, <1>6, <1>7 DEF Handshake, Apart
<1> QED
  BY <1>2, <1>4, <1>8 DEF DInv

LEMMA DInvStutters ==
  ASSUME DInv, UNCHANGED dvars
  PROVE  DInv' /\ passed' = passed /\ pub' = pub
<1>1. /\ UNCHANGED <<vars, pub, pubMid, passed>>
      /\ toClient' = toClient /\ toBroker' = toBroker
  BY DEF dvars, client, network, history
<1>2. Less(toClient, toClient')
  BY <1>1 DEF Less
<1>3. toBroker' = toBroker \o <<>>
  BY <1>1, DFacts
<1> QED
  BY <1>1, <1>2, <1>3, HonestNone, HonestStep
\* What a step does to what the client publishes.
Publishing(p) ==
  pub[p] = "idle" /\ pub' = [pub EXCEPT ![p] = "wait_for_pubrec"] /\ passed' = passed

HandshakeStep ==
  \/ Passes
  \/ Confirms /\ passed' = passed
  \/ \E p \in Pubs : Publishing(p)

LEMMA DInvNext == DInv /\ [DNext]_dvars => DInv' /\ HandshakeStep
<1> SUFFICES ASSUME DInv, [DNext]_dvars
             PROVE  DInv' /\ HandshakeStep
  OBVIOUS
<1>1. CASE BrokerReceives
  BY <1>1, BrokerReceivesInv DEF HandshakeStep
<1>2. CASE \E qos \in {1, 2}, s \in Subs : BrokerRoutes(qos, s)
  BY <1>2, BrokerRoutesInv, PassesNone DEF HandshakeStep
<1>3. CASE BrokerWrites
  BY <1>3, BrokerWritesInv, PassesNone DEF HandshakeStep
<1>4. CASE \E S \in SUBSET Waiting(msgs) : BrokerRetries(S)
  BY <1>4, BrokerRetriesInv, PassesNone DEF HandshakeStep
<1>5. CASE BrokerLosesClient
  BY <1>5, BrokerLosesClientInv, PassesNone DEF HandshakeStep
<1>6. CASE ClientLosesBroker
  BY <1>6, ClientLosesBrokerInv, PassesNone DEF HandshakeStep
<1>7. CASE ClientConnects
  BY <1>7, ClientConnectsInv, PassesNone DEF HandshakeStep
<1>8. CASE \E p \in Pubs : ClientPublishes(p) \/ ClientRepeats(p)
  <2>1. PICK p \in Pubs : ClientPublishes(p) \/ ClientRepeats(p)
    BY <1>8
  <2>2. CASE ClientPublishes(p)
    BY <2>2, ClientPublishesInv DEF HandshakeStep, Publishing
  <2>3. CASE ClientRepeats(p)
    BY <2>3, ClientRepeatsInv, PassesNone DEF HandshakeStep
  <2> QED
    BY <2>1, <2>2, <2>3
<1>9. CASE ClientReceives
  BY <1>9, ClientReceivesInv DEF HandshakeStep
<1>10. CASE UNCHANGED dvars
  BY <1>10, DInvStutters, PassesNone DEF HandshakeStep
<1> QED
  BY <1>1, <1>2, <1>3, <1>4, <1>5, <1>6, <1>7, <1>8, <1>9, <1>10 DEF DNext

LEMMA DInvAlways == DSpec => []DInv
  BY DInvInit, DInvNext, PTL DEF DSpec

------------------------------------------------------------------------------
\* The theorems.

\* QoS 2 towards the broker, for any number of messages, identifiers, packets in
\* transit and lost connections: no message of the client is routed twice, and one
\* whose PUBCOMP the client has taken has been routed (read_handle.c:219-250,
\* database.c:743-808).
THEOREM RoutedOnce == DSpec => []PassedOnce
<1>1. ASSUME DInv, NEW p \in Pubs
      PROVE  passed[p] <= 1 /\ (pub[p] = "done" => passed[p] = 1)
  <2>1. /\ Settled(pub[p], passed[p])
        /\ Busy(pub[p]) => Stage(toBroker, toClient, Stored(msgs, pubMid[p]), pubMid[p],
                                 pub[p], passed[p])
    BY <1>1, DFacts DEF Handshake
  <2>2. pub[p] \in {"idle", "wait_for_pubrec", "wait_for_pubcomp", "done"}
    BY <1>1, DFacts
  <2>3. CASE Busy(pub[p])
    <3>1. passed[p] \in {0, 1}
      BY <2>1, <2>3 DEF Stage
    <3> QED
      BY <2>3, <3>1 DEF Busy
  <2>4. CASE ~Busy(pub[p])
    BY <2>1, <2>2, <2>4 DEF Busy, Settled
  <2> QED
    BY <2>3, <2>4
<1>2. DInv => PassedOnce
  BY <1>1 DEF PassedOnce
<1> QED
  BY <1>2, DInvAlways, PTL

\* The variables of ExactlyOnce.
LEMMA OnceStutters ==
  ASSUME passed' = passed,
         \A p \in Pubs : pub'[p] = "idle" <=> pub[p] = "idle",
         \A p \in Pubs : pub'[p] = "done" <=> pub[p] = "done"
  PROVE  UNCHANGED Once!vars
<1>1. {p \in Pubs : pub'[p] # "idle"} = {p \in Pubs : pub[p] # "idle"}
  OBVIOUS
<1>2. {p \in Pubs : pub'[p] = "done"} = {p \in Pubs : pub[p] = "done"}
  OBVIOUS
<1> QED
  BY <1>1, <1>2 DEF Once!vars

\* Publishing a message is Offer.
LEMMA PublishingOffers ==
  ASSUME DInv, NEW p \in Pubs, Publishing(p)
  PROVE  Once!Offer(p)
<1>1. /\ pub[p] = "idle" /\ pub' = [pub EXCEPT ![p] = "wait_for_pubrec"]
      /\ passed' = passed /\ DOMAIN pub = Pubs
  BY DFacts DEF Publishing
<1>2. {q \in Pubs : pub'[q] # "idle"} = {q \in Pubs : pub[q] # "idle"} \cup {p}
  BY <1>1
<1>3. {q \in Pubs : pub'[q] = "done"} = {q \in Pubs : pub[q] = "done"}
  BY <1>1
<1> QED
  BY <1>1, <1>2, <1>3 DEF Once!Offer

\* Routing what the client has published is Pass.
LEMMA PassesOnce ==
  ASSUME DInv, Passes
  PROVE  UNCHANGED Once!vars \/ \E p \in Pubs : Once!Pass(p)
<1>1. pub' = pub /\ passed \in [Pubs -> 0..2]
  BY DFacts DEF Passes
<1>2. PICK S \in SUBSET Pubs :
        /\ \A p, q \in S : p = q
        /\ \A p \in S : Busy(pub[p]) /\ passed[p] = 0
        /\ passed' = [p \in Pubs |-> IF p \in S THEN 1 ELSE passed[p]]
  BY DEF Passes
<1>3. CASE S = {}
  <2>1. passed' = passed
    BY <1>1, <1>2, <1>3
  <2> QED
    BY <1>1, <2>1, OnceStutters
<1>4. CASE S # {}
  <2>1. PICK p \in S : TRUE
    BY <1>4
  <2>2. passed' = [passed EXCEPT ![p] = 1]
    BY <1>1, <1>2, <2>1
  <2>3. pub[p] # "idle" /\ passed[p] = 0 /\ p \in Pubs
    BY <1>2, <2>1 DEF Busy
  <2>4. Once!Pass(p)
    BY <1>1, <2>2, <2>3 DEF Once!Pass
  <2> QED
    BY <2>3, <2>4
<1> QED
  BY <1>3, <1>4

\* Taking the PUBCOMP is Confirm.
LEMMA ConfirmsOnce ==
  ASSUME DInv, Confirms, passed' = passed
  PROVE  UNCHANGED Once!vars \/ \E p \in Pubs : Once!Confirm(p)
<1>1. PICK S \in SUBSET Pubs :
        /\ \A p, q \in S : p = q
        /\ \A p \in S : pub[p] # "done" /\ passed[p] = 1
        /\ \A p \in Pubs : pub'[p] = "done" <=> pub[p] = "done" \/ p \in S
  BY DEF Confirms
<1>2. \A p \in Pubs : pub'[p] = "idle" <=> pub[p] = "idle"
  BY DEF Confirms
<1>3. CASE S = {}
  BY <1>1, <1>2, <1>3, OnceStutters
<1>4. CASE S # {}
  <2>1. PICK p \in S : TRUE
    BY <1>4
  <2>2. {q \in Pubs : pub'[q] = "done"} = {q \in Pubs : pub[q] = "done"} \cup {p}
    BY <1>1, <2>1
  <2>3. {q \in Pubs : pub'[q] # "idle"} = {q \in Pubs : pub[q] # "idle"}
    BY <1>2
  <2>4. passed[p] = 1 /\ pub[p] # "done" /\ p \in Pubs
    BY <1>1, <2>1
  <2>5. Once!Confirm(p)
    BY <2>2, <2>3, <2>4 DEF Once!Confirm
  <2> QED
    BY <2>4, <2>5
<1> QED
  BY <1>3, <1>4

\* The handshake with which the client publishes implements ExactlyOnce, fairness
\* apart: what the broker routes was offered and is routed once, what the client takes
\* as confirmed has been routed, and every step of the broker, of the network and of
\* the client is one of its steps or leaves it alone.
THEOREM PublishingRefines == DSpec => Once!Init /\ [][Once!Next]_(Once!vars)
<1>1. DInit => Once!Init
  BY DEF DInit, Once!Init
<1>2. DInv /\ [DNext]_dvars => [Once!Next]_(Once!vars)
  <2> SUFFICES ASSUME DInv, [DNext]_dvars
               PROVE  Once!Next \/ UNCHANGED Once!vars
    OBVIOUS
  <2>1. HandshakeStep
    BY DInvNext
  <2>2. CASE Passes
    BY <2>2, PassesOnce DEF Once!Next
  <2>3. CASE Confirms /\ passed' = passed
    BY <2>3, ConfirmsOnce DEF Once!Next
  <2>4. CASE \E p \in Pubs : Publishing(p)
    BY <2>4, PublishingOffers DEF Once!Next
  <2> QED
    BY <2>1, <2>2, <2>3, <2>4 DEF HandshakeStep
<1> QED
  BY <1>1, <1>2, DInvAlways, PTL DEF DSpec

------------------------------------------------------------------------------
(* From the broker to the client.                                          *)

\* The states of a message for which PUBREL is due or has been sent.
Releasing == {"wait_for_pubcomp", "resend_pubrel"}

\* The entries of s.
Of(l, s) == {a \in DOMAIN l : l[a].dir = Out /\ l[a].msg = s}

Packets(q) == {q[i] : i \in DOMAIN q}

Carrying(x, s) == x.type = "PUBLISH" /\ x.msg = s

\* s is not published again after its PUBREL.
NoneBehind(q, mid, s) ==
  \A i, j \in DOMAIN q : i < j /\ q[i].type = "PUBREL" /\ q[i].mid = mid
                           => ~Carrying(q[j], s)

\* A message was queued under the identifier, and no other one than s was.
Used(mi, mid) == \E t \in Subs : mi[t] = mid
Alone(mi, s)  == \A t \in Subs : mi[t] = mi[s] => t = s

------------------------------------------------------------------------------
\* What is in the list, in transit and with the client is what was queued.

Listed(l, gv, mi) ==
  \A a \in DOMAIN l : l[a].dir = Out => /\ l[a].msg \in Subs
                                        /\ gv[l[a].msg] = l[a].qos
                                        /\ mi[l[a].msg] = l[a].mid
                                        /\ l[a].mid \in Mids

Single(l) ==
  \A a, b \in DOMAIN l :
    l[a].dir = Out /\ l[b].dir = Out /\ l[a].msg = l[b].msg => a = b

\* Only what is for the client is released to it.
Outbound(l) == \A a \in DOMAIN l : l[a].state \in Releasing => l[a].dir = Out

Genuine(x, gv, mi, ret) ==
  /\ x.type = "PUBLISH" =>
       /\ x.mid \in Mids
       /\ \/ x.msg \in Subs /\ gv[x.msg] = x.qos /\ mi[x.msg] = x.mid
          \/ x.msg \in Pubs /\ x.mid \in ret
  /\ x.type = "PUBREL" => x.mid \in Mids /\ Used(mi, x.mid)

Answer(x, mi, ret) ==
  x.type \in {"PUBACK", "PUBREC", "PUBCOMP"} =>
    x.mid \in Mids /\ (Used(mi, x.mid) \/ x.mid \in ret)

Holding(hd, gv, mi, ret) ==
  \A mid \in Mids :
    \/ hd[mid] = NoMsg
    \/ hd[mid] \in Subs /\ gv[hd[mid]] = 2 /\ mi[hd[mid]] = mid
    \/ hd[mid] \in Pubs /\ mid \in ret

Queueing(gv, gt, mi) ==
  \A s \in Subs : IF gv[s] = NoSub THEN gt[s] = 0 /\ mi[s] = 0 ELSE mi[s] \in Mids

\* A message that the application does not have yet, and whose identifier is its own:
\* it is in the list, what would remove it is not in transit, and the client holds
\* it as soon as the broker can think so.
OnTheWay(tb, tc, l, hd, s, mid) ==
  /\ Of(l, s) # {}
  /\ ~Has(tb, "PUBACK", mid) /\ ~Has(tb, "PUBCOMP", mid)
  /\ \/ Has(tb, "PUBREC", mid)
     \/ Has(tc, "PUBREL", mid)
     \/ \E a \in Of(l, s) : l[a].state \in Releasing
     => hd[mid] = s

\* A QoS 2 message which no reset has moved back, and which the application has been
\* given n times: when it has it, or PUBREL is on its way, the broker does not publish
\* the message again.
OnlyOnce(tc, l, hd, s, mid, n) ==
  /\ n <= 1
  /\ n = 1 => hd[mid] # s /\ \A x \in Packets(tc) : ~Carrying(x, s)
  /\ n = 1 \/ Has(tc, "PUBREL", mid) => \A a \in Of(l, s) : l[a].state \in Releasing
  /\ NoneBehind(tc, mid, s)

Receipt(tb, tc, l, gv, gt, mi, hd, ret, red) ==
  /\ Listed(l, gv, mi) /\ Single(l) /\ Outbound(l)
  /\ \A x \in Packets(tc) : Genuine(x, gv, mi, ret)
  /\ \A x \in Packets(tb) : Answer(x, mi, ret)
  /\ Holding(hd, gv, mi, ret)
  /\ Queueing(gv, gt, mi)
  /\ \A s \in Subs : gv[s] > 0 /\ Alone(mi, s) /\ mi[s] \notin ret /\ gt[s] = 0
                       => OnTheWay(tb, tc, l, hd, s, mi[s])
  /\ \A s \in Subs : gv[s] = 2 /\ Alone(mi, s) /\ s \notin red
                       => OnlyOnce(tc, l, hd, s, mi[s], gt[s])

RTypes ==
  /\ given \in [Subs -> {NoSub, 0, 1, 2}] /\ got \in [Subs -> 0..2]
  /\ mids \in [Subs -> 0..MidMax] /\ held \in [Mids -> Msgs \cup {NoMsg}]

RInv == RTypes /\ Receipt(toBroker, toClient, msgs, given, got, mids, held, returned, redone)
------------------------------------------------------------------------------
\* Channels.

\* What is left of a channel holds fewer packets, in the same order.
LEMMA LessPackets ==
  ASSUME NEW q \in Seq(Wire), NEW k, Less(q, k)
  PROVE  /\ k \in Seq(Wire)
         /\ Packets(k) \subseteq Packets(q)
         /\ \A type, mid : Has(k, type, mid) => Has(q, type, mid)
         /\ \A mid, s : NoneBehind(q, mid, s) => NoneBehind(k, mid, s)
<1>1. k \in Seq(Wire) /\ \A type, mid : Has(k, type, mid) => Has(q, type, mid)
  BY LessFacts
<1>2. CASE k = q
  BY <1>1, <1>2
<1>3. CASE q # <<>> /\ k = Tail(q)
  <2>1. k \in Seq(Wire) /\ Len(k) = Len(q) - 1
    BY <1>3
  <2>2. \A i \in DOMAIN k : i + 1 \in DOMAIN q /\ k[i] = q[i + 1]
    BY <1>3
  <2>3. Packets(k) \subseteq Packets(q)
    BY <2>2 DEF Packets
  <2>4. \A i, j \in DOMAIN k : i < j => i + 1 < j + 1
    BY <2>1
  <2>5. \A mid, s : NoneBehind(q, mid, s) => NoneBehind(k, mid, s)
    BY <2>2, <2>4 DEF NoneBehind
  <2> QED
    BY <1>1, <2>3, <2>5
<1>4. CASE k = <<>>
  <2>1. Packets(k) = {} /\ \A mid, s : NoneBehind(k, mid, s)
    BY <1>4 DEF Packets, NoneBehind
  <2> QED
    BY <1>1, <2>1
<1> QED
  BY <1>2, <1>3, <1>4 DEF Less

\* The packet that is taken, and what comes after it.
LEMMA HeadPackets ==
  ASSUME NEW q \in Seq(Wire), q # <<>>
  PROVE  /\ Head(q) \in Packets(q) /\ Head(q) \in Wire
         /\ Has(q, Head(q).type, Head(q).mid)
         /\ \A s : Head(q).type = "PUBREL" /\ NoneBehind(q, Head(q).mid, s)
                     => \A x \in Packets(Tail(q)) : ~Carrying(x, s)
<1>1. 1 \in DOMAIN q /\ Head(q) = q[1]
  OBVIOUS
<1>2. \A i \in DOMAIN Tail(q) : i + 1 \in DOMAIN q /\ Tail(q)[i] = q[i + 1] /\ 1 < i + 1
  OBVIOUS
<1>3. \A s : Head(q).type = "PUBREL" /\ NoneBehind(q, Head(q).mid, s)
               => \A x \in Packets(Tail(q)) : ~Carrying(x, s)
  BY <1>1, <1>2 DEF Packets, NoneBehind
<1> QED
  BY <1>1, <1>3, HeadFacts DEF Packets

\* Packets that are appended come after those that are there.
LEMMA ConcatPackets ==
  ASSUME NEW q \in Seq(Wire), NEW r \in Seq(Wire)
  PROVE  /\ q \o r \in Seq(Wire)
         /\ Packets(q \o r) = Packets(q) \cup Packets(r)
         /\ \A type, mid : Has(q \o r, type, mid) <=> Has(q, type, mid) \/ Has(r, type, mid)
         /\ \A mid, s : /\ NoneBehind(q, mid, s) /\ NoneBehind(r, mid, s)
                        /\ \/ ~Has(q, "PUBREL", mid)
                           \/ \A x \in Packets(r) : ~Carrying(x, s)
                        => NoneBehind(q \o r, mid, s)
<1> DEFINE k == q \o r
<1>1. k \in Seq(Wire) /\ Len(k) = Len(q) + Len(r)
  OBVIOUS
<1>2. \A i \in DOMAIN q : i \in DOMAIN k /\ k[i] = q[i]
  OBVIOUS
<1>3. \A i \in DOMAIN r : i + Len(q) \in DOMAIN k /\ k[i + Len(q)] = r[i]
  OBVIOUS
<1>4. \A i \in DOMAIN k : \/ i \in DOMAIN q /\ k[i] = q[i]
                          \/ i - Len(q) \in DOMAIN r /\ k[i] = r[i - Len(q)] /\ i > Len(q)
  OBVIOUS
<1>5. \A type, mid : Has(k, type, mid) <=> Has(q, type, mid) \/ Has(r, type, mid)
  BY ConcatFacts
<1> HIDE DEF k
<1>6. Packets(k) = Packets(q) \cup Packets(r)
  BY <1>2, <1>3, <1>4 DEF Packets
<1>7. ASSUME NEW mid, NEW s, NoneBehind(q, mid, s), NoneBehind(r, mid, s),
             \/ ~Has(q, "PUBREL", mid)
             \/ \A x \in Packets(r) : ~Carrying(x, s)
      PROVE  NoneBehind(k, mid, s)
  <2>1. SUFFICES ASSUME NEW i \in DOMAIN k, NEW j \in DOMAIN k, i < j,
                        k[i].type = "PUBREL", k[i].mid = mid, Carrying(k[j], s)
                 PROVE  FALSE
    BY DEF NoneBehind
  <2>2. i \in Int /\ j \in Int /\ Len(q) \in Int
    BY <1>1
  <2>3. CASE j \in DOMAIN q /\ k[j] = q[j]
    <3>1. i \in DOMAIN q
      BY <2>1, <2>2, <2>3, <1>1
    <3>2. k[i] = q[i]
      BY <3>1, <1>2
    <3> QED
      BY <1>7, <2>1, <2>3, <3>1, <3>2 DEF NoneBehind
  <2>4. CASE j - Len(q) \in DOMAIN r /\ k[j] = r[j - Len(q)]
    <3>1. ~Has(q, "PUBREL", mid)
      BY <1>7, <2>1, <2>4 DEF Packets
    <3>2. i - Len(q) \in DOMAIN r /\ k[i] = r[i - Len(q)]
      BY <1>4, <2>1, <3>1 DEF Has
    <3>3. i - Len(q) < j - Len(q)
      BY <2>1, <2>2
    <3> QED
      BY <1>7, <2>1, <2>4, <3>2, <3>3 DEF NoneBehind
  <2> QED
    BY <1>4, <2>3, <2>4
<1> QED
  BY <1>1, <1>5, <1>6, <1>7 DEF k

\* A single packet.
LEMMA OnePacket ==
  ASSUME NEW x \in Wire
  PROVE  /\ <<x>> \in Seq(Wire) /\ Packets(<<x>>) = {x}
         /\ \A type, mid : Has(<<x>>, type, mid) <=> x.type = type /\ x.mid = mid
         /\ \A mid, s : NoneBehind(<<x>>, mid, s)
         /\ \A q \in Seq(Wire) : Append(q, x) = q \o <<x>>
  BY OneFacts DEF Packets, NoneBehind

\* A channel has a packet of a kind exactly if one of its packets is of that kind.
LEMMA HasPacket ==
  ASSUME NEW q, NEW type, NEW mid
  PROVE  Has(q, type, mid) <=> \E x \in Packets(q) : x.type = type /\ x.mid = mid
  BY DEF Has, Packets
------------------------------------------------------------------------------
\* What a step of the broker does to the messages for the client.

Sole(l, mid) == \A a, b \in Match(l, mid, Out) : a = b

\* It publishes what is in the list, and a message for the client only if it has not
\* been released.
Published(x, l, k) ==
  \E a \in DOMAIN l :
    /\ l[a].mid = x.mid /\ l[a].qos = x.qos /\ l[a].msg = x.msg
    /\ l[a].dir = Out => /\ l[a].state \notin Releasing
                         /\ a \in DOMAIN k /\ k[a].dir = Out /\ k[a].state \notin Releasing

\* It sends PUBREL for what is in the list; the message is released then, unless
\* another one has the same identifier.
Freed(x, l, k) ==
  /\ Match(k, x.mid, Out) # {}
  /\ Sole(l, x.mid) => \A a \in Match(k, x.mid, Out) : k[a].state \in Releasing

\* The list l becomes k and the packets p are sent, tb being what the client has sent.
Serves(tb, l, k, p) ==
  /\ Outbound(k)
  /\ \A a \in DOMAIN k : k[a].dir = Out =>
       /\ a \in DOMAIN l /\ l[a].dir = Out
       /\ l[a].mid = k[a].mid /\ l[a].qos = k[a].qos /\ l[a].msg = k[a].msg
       /\ k[a].state \in Releasing =>
            l[a].state \in Releasing \/ Has(tb, "PUBREC", k[a].mid)
       /\ l[a].state \in Releasing /\ l[a].qos = 2 /\ k[a].state \notin Releasing
            => l[a].state = "resend_pubrel" /\ k[a].state = "publish_qos2"
  /\ \A a \in DOMAIN l : l[a].dir = Out =>
       \/ a \in DOMAIN k /\ k[a].dir = Out
       \/ Has(tb, "PUBACK", l[a].mid)
       \/ Has(tb, "PUBCOMP", l[a].mid)
  /\ p \in Seq(Wire)
  /\ \A x \in Packets(p) : /\ x.type = "PUBLISH" => Published(x, l, k)
                           /\ x.type = "PUBREL"  => Freed(x, l, k)

\* The list goes on holding what was queued, once.
LEMMA ServesListed ==
  ASSUME NEW tb, NEW l, NEW k, NEW p, Serves(tb, l, k, p),
         NEW gv, NEW mi, Listed(l, gv, mi), Single(l)
  PROVE  Listed(k, gv, mi) /\ Single(k) /\ Outbound(k)
<1>1. \A a \in DOMAIN k : k[a].dir = Out =>
        a \in DOMAIN l /\ l[a].dir = Out
        /\ l[a].mid = k[a].mid /\ l[a].qos = k[a].qos /\ l[a].msg = k[a].msg
  BY DEF Serves
<1>2. Listed(k, gv, mi)
  BY <1>1 DEF Listed
<1>3. Single(k)
  BY <1>1 DEF Single
<1> QED
  BY <1>2, <1>3 DEF Serves

\* All entries with the identifier of s are entries of s, and there is one at most.
LEMMA AloneSole ==
  ASSUME NEW l, NEW gv, NEW mi, Listed(l, gv, mi), Single(l), NEW s \in Subs, Alone(mi, s)
  PROVE  Sole(l, mi[s]) /\ Match(l, mi[s], Out) = Of(l, s)
<1>1. \A a \in DOMAIN l : l[a].dir = Out /\ l[a].mid = mi[s] => l[a].msg = s
  BY DEF Listed, Alone
<1>2. \A a \in DOMAIN l : l[a].dir = Out /\ l[a].msg = s => l[a].mid = mi[s]
  BY DEF Listed
<1>3. Match(l, mi[s], Out) = Of(l, s)
  BY <1>1, <1>2 DEF Match, Of
<1> QED
  BY <1>3 DEF Single, Sole, Of

\* A step of the broker with the channels on both sides of it.
Serving(tb, tc, l, tb2, tc2, k, rest, p) ==
  /\ tb \in Seq(Wire) /\ tc \in Seq(Wire)
  /\ Less(tb, tb2) /\ Less(tc, rest) /\ tc2 = rest \o p
  /\ Serves(tb, l, k, p)

LEMMA ServingPackets ==
  ASSUME NEW tb, NEW tc, NEW l, NEW tb2, NEW tc2, NEW k, NEW rest, NEW p,
         Serving(tb, tc, l, tb2, tc2, k, rest, p)
  PROVE  /\ Packets(tb2) \subseteq Packets(tb)
         /\ Packets(tc2) \subseteq Packets(tc) \cup Packets(p)
         /\ \A type, mid : Has(tb2, type, mid) => Has(tb, type, mid)
         /\ \A type, mid : Has(tc2, type, mid) => Has(tc, type, mid) \/ Has(p, type, mid)
<1>1. tb \in Seq(Wire) /\ tc \in Seq(Wire) /\ p \in Seq(Wire)
      /\ Less(tb, tb2) /\ Less(tc, rest) /\ tc2 = rest \o p
  BY DEF Serving, Serves
<1>2. rest \in Seq(Wire) /\ Packets(rest) \subseteq Packets(tc)
      /\ \A type, mid : Has(rest, type, mid) => Has(tc, type, mid)
  BY <1>1, LessPackets
<1>3. Packets(tb2) \subseteq Packets(tb) /\ \A type, mid : Has(tb2, type, mid) => Has(tb, type, mid)
  BY <1>1, LessPackets
<1>4. /\ Packets(tc2) = Packets(rest) \cup Packets(p)
      /\ \A type, mid : Has(tc2, type, mid) <=> Has(rest, type, mid) \/ Has(p, type, mid)
  BY <1>1, <1>2, ConcatPackets
<1> QED
  BY <1>2, <1>3, <1>4

\* A PUBREL of a message whose identifier is its own releases it.
LEMMA ServesFrees ==
  ASSUME NEW tb, NEW l, NEW k, NEW p, Serves(tb, l, k, p),
         NEW gv, NEW mi, Listed(l, gv, mi), Single(l),
         NEW s \in Subs, Alone(mi, s), Has(p, "PUBREL", mi[s])
  PROVE  Of(k, s) # {} /\ \A a \in Of(k, s) : k[a].state \in Releasing
<1>1. PICK x \in Packets(p) : x.type = "PUBREL" /\ x.mid = mi[s]
  BY HasPacket
<1>2. Freed(x, l, k)
  BY <1>1 DEF Serves
<1>3. Sole(l, mi[s])
  BY AloneSole
<1>4. Match(k, mi[s], Out) = Of(k, s)
  BY ServesListed, AloneSole
<1> QED
  BY <1>1, <1>2, <1>3, <1>4 DEF Freed

LEMMA ServesOnTheWay ==
  ASSUME NEW tb, NEW tc, NEW l, NEW tb2, NEW tc2, NEW k, NEW rest, NEW p,
         Serving(tb, tc, l, tb2, tc2, k, rest, p),
         NEW gv, NEW mi, Listed(l, gv, mi), Single(l),
         NEW s \in Subs, Alone(mi, s), NEW hd, OnTheWay(tb, tc, l, hd, s, mi[s])
  PROVE  OnTheWay(tb2, tc2, k, hd, s, mi[s])
<1> DEFINE mid == mi[s]
<1>1. Serves(tb, l, k, p)
  BY DEF Serving
<1>2. /\ Of(l, s) # {}
      /\ ~Has(tb, "PUBACK", mid) /\ ~Has(tb, "PUBCOMP", mid)
      /\ \/ Has(tb, "PUBREC", mid)
         \/ Has(tc, "PUBREL", mid)
         \/ \E a \in Of(l, s) : l[a].state \in Releasing
         => hd[mid] = s
  BY DEF OnTheWay
<1>3. \A a \in Of(l, s) : l[a].mid = mid
  BY DEF Of, Listed
<1>4. \A a \in Of(k, s) : k[a].mid = mid /\ a \in Of(l, s)
                          /\ (k[a].state \in Releasing =>
                                l[a].state \in Releasing \/ Has(tb, "PUBREC", mid))
  BY <1>1, <1>3 DEF Serves, Of
<1>5. Of(k, s) # {}
  <2>1. PICK a \in Of(l, s) : TRUE
    BY <1>2
  <2>2. a \in DOMAIN k /\ k[a].dir = Out
    BY <1>1, <1>2, <1>3, <2>1 DEF Serves, Of
  <2>3. k[a].msg = s
    BY <1>1, <2>1, <2>2 DEF Serves, Of
  <2> QED
    BY <2>2, <2>3 DEF Of
<1>6. /\ Has(tb2, "PUBREC", mid) => Has(tb, "PUBREC", mid)
      /\ Has(tb2, "PUBACK", mid) => Has(tb, "PUBACK", mid)
      /\ Has(tb2, "PUBCOMP", mid) => Has(tb, "PUBCOMP", mid)
      /\ Has(tc2, "PUBREL", mid) => Has(tc, "PUBREL", mid) \/ Has(p, "PUBREL", mid)
  BY ServingPackets
<1>7. (\E a \in Of(k, s) : k[a].state \in Releasing) => hd[mid] = s
  BY <1>2, <1>4
<1>8. Has(p, "PUBREL", mid) => hd[mid] = s
  <2>1. Has(p, "PUBREL", mid) => Of(k, s) # {} /\ \A a \in Of(k, s) : k[a].state \in Releasing
    BY <1>1, ServesFrees
  <2> QED
    BY <1>7, <2>1
<1>9. \/ Has(tb2, "PUBREC", mid)
      \/ Has(tc2, "PUBREL", mid)
      \/ \E a \in Of(k, s) : k[a].state \in Releasing
      => hd[mid] = s
  BY <1>2, <1>6, <1>7, <1>8
<1> QED
  BY <1>2, <1>5, <1>6, <1>9 DEF OnTheWay

LEMMA ServesOnlyOnce ==
  ASSUME NEW tb, NEW tc, NEW l, NEW tb2, NEW tc2, NEW k, NEW rest, NEW p,
         Serving(tb, tc, l, tb2, tc2, k, rest, p),
         NEW gv, NEW mi, Listed(l, gv, mi), Single(l),
         \A a \in DOMAIN l : l[a].dir # Out => l[a].msg \notin Subs,
         NEW s \in Subs, gv[s] = 2, Alone(mi, s),
         \A a \in DOMAIN k \cap DOMAIN l :
           l[a].state = "resend_pubrel" /\ k[a].state = "publish_qos2" => l[a].msg # s,
         NEW hd, NEW n, OnlyOnce(tc, l, hd, s, mi[s], n)
  PROVE  OnlyOnce(tc2, k, hd, s, mi[s], n)
<1> DEFINE mid == mi[s]
<1>1. Serves(tb, l, k, p) /\ p \in Seq(Wire)
  BY DEF Serving, Serves
<1>2. rest \in Seq(Wire) /\ Packets(rest) \subseteq Packets(tc) /\ tc2 = rest \o p
      /\ (Has(rest, "PUBREL", mid) => Has(tc, "PUBREL", mid))
      /\ NoneBehind(rest, mid, s)
  <2>1. NoneBehind(tc, mid, s)
    BY DEF OnlyOnce
  <2> QED
    BY <2>1, LessPackets DEF Serving
<1>3. /\ n <= 1
      /\ n = 1 => hd[mid] # s /\ \A x \in Packets(tc) : ~Carrying(x, s)
      /\ n = 1 \/ Has(tc, "PUBREL", mid) => \A a \in Of(l, s) : l[a].state \in Releasing
  BY DEF OnlyOnce
\* A message that is released stays so, and is not published.
<1>4. ASSUME \A a \in Of(l, s) : l[a].state \in Releasing
      PROVE  \A a \in Of(k, s) : k[a].state \in Releasing
  <2>1. \A a \in Of(k, s) : a \in DOMAIN k /\ k[a].dir = Out
    BY DEF Of
  <2>2. \A a \in Of(k, s) : a \in Of(l, s) /\ l[a].qos = 2 /\ l[a].msg = s
    BY <1>1, <2>1 DEF Serves, Of, Listed
  <2> QED
    BY <1>1, <1>4, <2>1, <2>2 DEF Serves, Of
<1>5. ASSUME NEW x \in Packets(p), Carrying(x, s)
      PROVE  \E a \in Of(l, s) : a \in Of(k, s) /\ l[a].state \notin Releasing
                                                /\ k[a].state \notin Releasing
  <2>1. PICK a \in DOMAIN l :
          /\ l[a].mid = x.mid /\ l[a].qos = x.qos /\ l[a].msg = x.msg
          /\ l[a].dir = Out => /\ l[a].state \notin Releasing
                               /\ a \in DOMAIN k /\ k[a].dir = Out
                               /\ k[a].state \notin Releasing
    BY <1>1, <1>5 DEF Serves, Published, Carrying
  <2>2. l[a].msg = s
    BY <1>5, <2>1 DEF Carrying
  <2>3. l[a].dir = Out
    BY <2>2
  <2>4. k[a].msg = s /\ a \in DOMAIN k /\ k[a].dir = Out
    BY <1>1, <2>1, <2>2, <2>3 DEF Serves
  <2> QED
    BY <2>1, <2>2, <2>3, <2>4 DEF Of
<1>6. Has(p, "PUBREL", mid) => \A a \in Of(k, s) : k[a].state \in Releasing
  BY <1>1, ServesFrees
<1>7. /\ n = 1 \/ Has(tc2, "PUBREL", mid) => \A a \in Of(k, s) : k[a].state \in Releasing
      /\ n = 1 \/ Has(tc, "PUBREL", mid) \/ Has(p, "PUBREL", mid)
           => \A x \in Packets(p) : ~Carrying(x, s)
  BY <1>3, <1>4, <1>5, <1>6, ServingPackets
<1>8. n = 1 => \A x \in Packets(tc2) : ~Carrying(x, s)
  BY <1>3, <1>7, ServingPackets
<1>9. NoneBehind(p, mid, s)
  BY <1>7, HasPacket DEF NoneBehind, Has, Packets
<1>10. NoneBehind(tc2, mid, s)
  BY <1>1, <1>2, <1>7, <1>9, ConcatPackets
<1> QED
  BY <1>3, <1>7, <1>8, <1>10 DEF OnlyOnce
\* Nothing that comes from the client is for the client.
Inbound(l) == \A a \in DOMAIN l : l[a].dir # Out => l[a].msg \in Pubs /\ l[a].mid \in Mids

\* What a step of the broker adds to `returned' and to `redone'.
Recording(l, k, p, ret, ret2, red, red2) ==
  /\ ret \subseteq ret2 /\ red \subseteq red2
  /\ \A x \in Packets(p) : x.type = "PUBLISH" /\ x.msg \in Pubs => x.mid \in ret2
  /\ \A a \in DOMAIN k \cap DOMAIN l :
       l[a].state = "resend_pubrel" /\ k[a].state = "publish_qos2" => l[a].msg \in red2

\* What the broker sends is genuine.
LEMMA ServesGenuine ==
  ASSUME NEW tb, NEW l, NEW k, NEW p, Serves(tb, l, k, p), Inbound(l),
         NEW ret, NEW ret2, NEW red, NEW red2, Recording(l, k, p, ret, ret2, red, red2),
         NEW gv, NEW mi, Listed(l, gv, mi), Single(l), NEW x \in Packets(p)
  PROVE  Genuine(x, gv, mi, ret2)
<1>1. CASE x.type = "PUBLISH"
  <2>1. PICK a \in DOMAIN l :
          /\ l[a].mid = x.mid /\ l[a].qos = x.qos /\ l[a].msg = x.msg
    BY <1>1 DEF Serves, Published
  <2>2. CASE l[a].dir = Out
    BY <1>1, <2>1, <2>2 DEF Listed, Genuine
  <2>3. CASE l[a].dir # Out
    BY <1>1, <2>1, <2>3 DEF Inbound, Recording, Genuine
  <2> QED
    BY <2>2, <2>3
<1>2. CASE x.type = "PUBREL"
  <2>1. Match(k, x.mid, Out) # {}
    BY <1>2 DEF Serves, Freed
  <2>2. PICK a \in DOMAIN k : k[a].mid = x.mid /\ k[a].dir = Out
    BY <2>1 DEF Match
  <2>3. Listed(k, gv, mi)
    BY ServesListed
  <2>4. k[a].msg \in Subs /\ mi[k[a].msg] = x.mid /\ x.mid \in Mids
    BY <2>2, <2>3 DEF Listed
  <2> QED
    BY <1>2, <2>4 DEF Genuine, Used
<1> QED
  BY <1>1, <1>2 DEF Genuine

LEMMA ServesReceipt ==
  ASSUME NEW tb, NEW tc, NEW l, NEW tb2, NEW tc2, NEW k, NEW rest, NEW p,
         Serving(tb, tc, l, tb2, tc2, k, rest, p), Inbound(l),
         NEW ret, NEW ret2, NEW red, NEW red2, Recording(l, k, p, ret, ret2, red, red2),
         NEW gv, NEW gt, NEW mi, NEW hd, Receipt(tb, tc, l, gv, gt, mi, hd, ret, red)
  PROVE  Receipt(tb2, tc2, k, gv, gt, mi, hd, ret2, red2)
<1>1. Serves(tb, l, k, p) /\ Listed(l, gv, mi) /\ Single(l)
  BY DEF Serving, Receipt
<1>2. Listed(k, gv, mi) /\ Single(k) /\ Outbound(k)
  BY <1>1, ServesListed
<1>3. ret \subseteq ret2 /\ red \subseteq red2
  BY DEF Recording
<1>4. ASSUME NEW x \in Packets(tc2)
      PROVE  Genuine(x, gv, mi, ret2)
  <2>1. CASE x \in Packets(p)
    BY <1>1, <2>1, ServesGenuine
  <2>2. CASE x \in Packets(tc)
    <3>1. Genuine(x, gv, mi, ret)
      BY <2>2 DEF Receipt
    <3> QED
      BY <1>3, <3>1 DEF Genuine
  <2> QED
    BY <2>1, <2>2, ServingPackets
<1>5. ASSUME NEW x \in Packets(tb2)
      PROVE  Answer(x, mi, ret2)
  <2>1. Answer(x, mi, ret)
    BY ServingPackets DEF Receipt
  <2> QED
    BY <1>3, <2>1 DEF Answer
<1>6. Holding(hd, gv, mi, ret2) /\ Queueing(gv, gt, mi)
  BY <1>3 DEF Receipt, Holding
<1>7. ASSUME NEW s \in Subs, gv[s] > 0, Alone(mi, s), mi[s] \notin ret2, gt[s] = 0
      PROVE  OnTheWay(tb2, tc2, k, hd, s, mi[s])
  <2>1. OnTheWay(tb, tc, l, hd, s, mi[s])
    BY <1>3, <1>7 DEF Receipt
  <2> QED
    BY <1>1, <1>7, <2>1, ServesOnTheWay
<1>8. ASSUME NEW s \in Subs, gv[s] = 2, Alone(mi, s), s \notin red2
      PROVE  OnlyOnce(tc2, k, hd, s, mi[s], gt[s])
  <2>1. OnlyOnce(tc, l, hd, s, mi[s], gt[s])
    BY <1>3, <1>8 DEF Receipt
  <2>2. \A a \in DOMAIN k \cap DOMAIN l :
          l[a].state = "resend_pubrel" /\ k[a].state = "publish_qos2" => l[a].msg # s
    BY <1>8 DEF Recording
  <2>3. \A a \in DOMAIN l : l[a].dir # Out => l[a].msg \notin Subs
    BY DeliveryAssumption DEF Inbound
  <2> QED
    BY <1>1, <1>8, <2>1, <2>2, <2>3, ServesOnlyOnce
<1> QED
  BY <1>2, <1>4, <1>5, <1>6, <1>7, <1>8 DEF Receipt
------------------------------------------------------------------------------
\* A message is queued for the client.

\* s is given the identifier m, and the QoS q, or 0 if there was no room for it.
Assigned(gv, mi, s, q, m, gv2, mi2) ==
  /\ s \in Subs /\ gv[s] = NoSub /\ mi[s] = 0 /\ m \in Mids /\ q \in QoS
  /\ gv2[s] = q /\ mi2[s] = m
  /\ \A t \in Subs \ {s} : gv2[t] = gv[t] /\ mi2[t] = mi[t]

\* Whatever there was is genuine still.
LEMMA AssignedGenuine ==
  ASSUME NEW gv, NEW mi, NEW s, NEW q, NEW m, NEW gv2, NEW mi2,
         Assigned(gv, mi, s, q, m, gv2, mi2), NEW ret, NEW x \in Wire
  PROVE  /\ Genuine(x, gv, mi, ret) => Genuine(x, gv2, mi2, ret)
         /\ Answer(x, mi, ret) => Answer(x, mi2, ret)
<1>1. ASSUME NEW mid \in Mids, Used(mi, mid)
      PROVE  Used(mi2, mid)
  <2>1. PICK t \in Subs : mi[t] = mid
    BY <1>1 DEF Used
  <2>2. t # s
    BY <2>1, MidAssumption DEF Assigned, Mids
  <2>3. mi2[t] = mid
    BY <2>1, <2>2 DEF Assigned
  <2> QED
    BY <2>3 DEF Used
<1>2. ASSUME Genuine(x, gv, mi, ret)
      PROVE  Genuine(x, gv2, mi2, ret)
  <2>1. CASE x.type = "PUBLISH"
    <3>1. x.mid \in Mids
      BY <1>2, <2>1 DEF Genuine
    <3>2. CASE x.msg \in Subs /\ gv[x.msg] = x.qos /\ mi[x.msg] = x.mid
      <4>1. x.msg # s
        BY <3>1, <3>2, MidAssumption DEF Assigned, Mids
      <4>2. gv2[x.msg] = x.qos /\ mi2[x.msg] = x.mid
        BY <3>2, <4>1 DEF Assigned
      <4> QED
        BY <2>1, <3>1, <3>2, <4>2 DEF Genuine
    <3>3. CASE x.msg \in Pubs /\ x.mid \in ret
      BY <2>1, <3>1, <3>3 DEF Genuine
    <3> QED
      BY <1>2, <2>1, <3>2, <3>3 DEF Genuine
  <2>2. CASE x.type = "PUBREL"
    BY <1>1, <1>2, <2>2 DEF Genuine
  <2> QED
    BY <2>1, <2>2 DEF Genuine
<1>3. Answer(x, mi, ret) => Answer(x, mi2, ret)
  BY <1>1 DEF Answer
<1> QED
  BY <1>2, <1>3

\* A message whose identifier is its own then had its own before.
LEMMA AssignedAlone ==
  ASSUME NEW gv, NEW mi, NEW s, NEW q, NEW m, NEW gv2, NEW mi2,
         Assigned(gv, mi, s, q, m, gv2, mi2)
  PROVE  /\ \A t \in Subs \ {s} : mi[t] \in Mids /\ Alone(mi2, t) => Alone(mi, t)
         /\ Alone(mi2, s) => ~Used(mi, m)
<1>1. 0 \notin Mids /\ m # 0
  BY MidAssumption DEF Mids, Assigned
<1>2. ASSUME NEW t \in Subs \ {s}, mi[t] \in Mids, Alone(mi2, t)
      PROVE  Alone(mi, t)
  BY <1>1, <1>2 DEF Alone, Assigned
<1>3. ASSUME Alone(mi2, s)
      PROVE  ~Used(mi, m)
  <2>1. SUFFICES ASSUME NEW t \in Subs, mi[t] = m
                 PROVE  FALSE
    BY DEF Used
  <2>2. t # s
    BY <1>1, <2>1 DEF Assigned
  <2> QED
    BY <1>3, <2>1, <2>2 DEF Alone, Assigned
<1> QED
  BY <1>2, <1>3

\* The entry e is appended to l.
Appended(l, at, e, k) ==
  /\ at \notin DOMAIN l /\ DOMAIN k = DOMAIN l \cup {at}
  /\ k[at] = e /\ \A a \in DOMAIN l : k[a] = l[a]

\* The other messages are where they were.
LEMMA AppendedOthers ==
  ASSUME NEW l, NEW at, NEW e, NEW k, Appended(l, at, e, k), NEW t, e.msg # t,
         NEW tb, NEW tc, NEW hd, NEW mid, NEW n
  PROVE  /\ OnTheWay(tb, tc, l, hd, t, mid) => OnTheWay(tb, tc, k, hd, t, mid)
         /\ OnlyOnce(tc, l, hd, t, mid, n) => OnlyOnce(tc, k, hd, t, mid, n)
<1>1. Of(k, t) = Of(l, t) /\ \A a \in Of(l, t) : k[a] = l[a]
  BY DEF Appended, Of
<1> QED
  BY <1>1 DEF OnTheWay, OnlyOnce

LEMMA QueuesReceipt ==
  ASSUME NEW tb \in Seq(Wire), NEW tc \in Seq(Wire), NEW l, Asserted(l),
         NEW gv, NEW gt, NEW mi, NEW hd, NEW ret, NEW red,
         Receipt(tb, tc, l, gv, gt, mi, hd, ret, red),
         NEW s, NEW q, NEW m, NEW gv2, NEW mi2, Assigned(gv, mi, s, q, m, gv2, mi2),
         NEW k, NEW at, NEW e,
         \/ k = l /\ q = 0
         \/ /\ Appended(l, at, e, k) /\ e.dir = Out /\ e.msg = s /\ e.qos = q /\ e.mid = m
            /\ e.state \notin Releasing
  PROVE  Receipt(tb, tc, k, gv2, gt, mi2, hd, ret, red)
<1>1. s \in Subs /\ gv[s] = NoSub /\ mi[s] = 0 /\ m \in Mids /\ gv2[s] = q /\ mi2[s] = m
      /\ \A t \in Subs \ {s} : gv2[t] = gv[t] /\ mi2[t] = mi[t]
  BY DEF Assigned
<1>2. \A a \in DOMAIN l : l[a].dir = Out => /\ l[a].msg \in Subs \ {s}
                                            /\ gv2[l[a].msg] = l[a].qos
                                            /\ mi2[l[a].msg] = l[a].mid
                                            /\ l[a].mid \in Mids
  <2>1. \A a \in DOMAIN l : l[a].dir = Out => l[a].msg \in Subs /\ gv[l[a].msg] = l[a].qos
                                               /\ mi[l[a].msg] = l[a].mid /\ l[a].mid \in Mids
    BY DEF Receipt, Listed
  <2>2. \A a \in DOMAIN l : l[a].qos # NoSub
    BY DEF Asserted, NoSub
  <2> QED
    BY <1>1, <2>1, <2>2
<1>3. Listed(k, gv2, mi2) /\ Single(k) /\ Outbound(k)
  <2>1. Single(l) /\ Outbound(l)
    BY DEF Receipt
  <2>2. CASE k = l
    BY <1>2, <2>1, <2>2 DEF Listed
  <2>3. CASE /\ Appended(l, at, e, k) /\ e.dir = Out /\ e.msg = s /\ e.qos = q /\ e.mid = m
             /\ e.state \notin Releasing
    <3>1. \A a \in DOMAIN k : (a = at /\ k[a] = e) \/ (a \in DOMAIN l /\ k[a] = l[a])
      BY <2>3 DEF Appended
    <3>2. Listed(k, gv2, mi2)
      BY <1>1, <1>2, <2>3, <3>1 DEF Listed
    <3>3. Single(k)
      BY <1>2, <2>1, <2>3, <3>1 DEF Single
    <3>4. Outbound(k)
      BY <2>1, <2>3, <3>1 DEF Outbound
    <3> QED
      BY <3>2, <3>3, <3>4
  <2> QED
    BY <2>2, <2>3
<1>4. /\ \A x \in Packets(tc) : x \in Wire /\ Genuine(x, gv, mi, ret)
      /\ \A x \in Packets(tb) : x \in Wire /\ Answer(x, mi, ret)
  BY DEF Receipt, Packets
<1>5. /\ \A x \in Packets(tc) : Genuine(x, gv2, mi2, ret)
      /\ \A x \in Packets(tb) : Answer(x, mi2, ret)
  BY <1>4, AssignedGenuine
<1>6. Holding(hd, gv2, mi2, ret)
  <2>1. Holding(hd, gv, mi, ret) /\ gv[s] # 2
    BY <1>1 DEF Receipt, NoSub
  <2> QED
    BY <1>1, <2>1 DEF Holding
<1>7. Queueing(gv, gt, mi) /\ Queueing(gv2, gt, mi2)
  <2>1. Queueing(gv, gt, mi)
    BY DEF Receipt
  <2>2. gv2[s] # NoSub
    BY DEF Assigned, QoS, NoSub
  <2> QED
    BY <1>1, <2>1, <2>2 DEF Queueing
<1>8. ASSUME NEW t \in Subs \ {s}, gv2[t] > 0
      PROVE  /\ Alone(mi2, t) => Alone(mi, t)
             /\ e.msg # t \/ k = l
  <2>1. gv[t] # NoSub
    BY <1>1, <1>8 DEF NoSub
  <2>2. mi[t] \in Mids
    BY <1>7, <2>1 DEF Queueing
  <2> QED
    BY <2>2, AssignedAlone
\* Nothing in transit is about a message that has just been given an identifier of
\* its own.
<1>9. ASSUME Alone(mi2, s), gv2[s] > 0
      PROVE  /\ Of(k, s) # {} /\ \A a \in Of(k, s) : k[a].state \notin Releasing
             /\ ~Has(tc, "PUBREL", m) /\ gt[s] = 0
             /\ m \notin ret => /\ ~Has(tb, "PUBACK", m)
                                /\ ~Has(tb, "PUBREC", m)
                                /\ ~Has(tb, "PUBCOMP", m)
  <2>1. ~Used(mi, m)
    BY <1>9, AssignedAlone
  <2>2. /\ Appended(l, at, e, k) /\ e.dir = Out /\ e.msg = s /\ e.state \notin Releasing
    BY <1>1, <1>9
  <2>3. Of(k, s) = {at} /\ k[at] = e
    BY <1>2, <2>2 DEF Of, Appended
  <2>4. ~Has(tc, "PUBREL", m)
    BY <1>4, <2>1, HasPacket DEF Genuine
  <2>5. m \notin ret => \A x \in Packets(tb) : x.type \in {"PUBACK", "PUBREC", "PUBCOMP"} => x.mid # m
    BY <1>4, <2>1 DEF Answer
  <2>6. gt[s] = 0
    BY <1>1, <1>7 DEF Queueing
  <2> QED
    BY <2>2, <2>3, <2>4, <2>5, <2>6, HasPacket
<1>10. ASSUME NEW t \in Subs, gv2[t] > 0, Alone(mi2, t), mi2[t] \notin ret, gt[t] = 0
       PROVE  OnTheWay(tb, tc, k, hd, t, mi2[t])
  <2>1. CASE t = s
    BY <1>1, <1>9, <1>10, <2>1 DEF OnTheWay
  <2>2. CASE t # s
    <3>1. OnTheWay(tb, tc, l, hd, t, mi[t]) /\ mi2[t] = mi[t]
      BY <1>1, <1>8, <1>10, <2>2 DEF Receipt
    <3> QED
      BY <1>8, <1>10, <2>2, <3>1, AppendedOthers
  <2> QED
    BY <2>1, <2>2
<1>11. ASSUME NEW t \in Subs, gv2[t] = 2, Alone(mi2, t), t \notin red
       PROVE  OnlyOnce(tc, k, hd, t, mi2[t], gt[t])
  <2>1. CASE t = s
    <3>1. NoneBehind(tc, m, s)
      BY <1>1, <1>9, <1>11, <2>1 DEF NoneBehind, Has
    <3> QED
      BY <1>1, <1>9, <1>11, <2>1, <3>1 DEF OnlyOnce
  <2>2. CASE t # s
    <3>1. OnlyOnce(tc, l, hd, t, mi[t], gt[t]) /\ mi2[t] = mi[t]
      BY <1>1, <1>8, <1>11, <2>2 DEF Receipt
    <3> QED
      BY <1>8, <1>11, <2>2, <3>1, AppendedOthers
  <2> QED
    BY <2>1, <2>2
<1> QED
  BY <1>3, <1>5, <1>6, <1>7, <1>10, <1>11 DEF Receipt
------------------------------------------------------------------------------
\* What the client does.

\* It takes packets and sends answers to what is genuine; what it holds and has is
\* given by hd2 and gt2.
LEMMA AnswersReceipt ==
  ASSUME NEW tb \in Seq(Wire), NEW tc \in Seq(Wire), NEW l,
         NEW gv, NEW gt, NEW mi, NEW hd, NEW ret, NEW red,
         Receipt(tb, tc, l, gv, gt, mi, hd, ret, red),
         NEW tc2, Less(tc, tc2), NEW r \in Seq(Wire), NEW tb2, tb2 = tb \o r,
         \A x \in Packets(r) : Answer(x, mi, ret),
         NEW hd2, Holding(hd2, gv, mi, ret), NEW gt2, Queueing(gv, gt2, mi),
         \A s \in Subs : gv[s] > 0 /\ Alone(mi, s) /\ mi[s] \notin ret /\ gt2[s] = 0
                           => OnTheWay(tb2, tc2, l, hd2, s, mi[s]),
         \A s \in Subs : gv[s] = 2 /\ Alone(mi, s) /\ s \notin red
                           => OnlyOnce(tc2, l, hd2, s, mi[s], gt2[s])
  PROVE  Receipt(tb2, tc2, l, gv, gt2, mi, hd2, ret, red)
<1>1. Packets(tc2) \subseteq Packets(tc)
  BY LessPackets
<1>2. Packets(tb2) = Packets(tb) \cup Packets(r)
  BY ConcatPackets
<1>3. \A x \in Packets(tc2) : Genuine(x, gv, mi, ret)
  BY <1>1 DEF Receipt
<1>4. \A x \in Packets(tb2) : Answer(x, mi, ret)
  BY <1>2 DEF Receipt
<1>5. Listed(l, gv, mi) /\ Single(l) /\ Outbound(l)
  BY DEF Receipt
<1> QED
  BY <1>3, <1>4, <1>5 DEF Receipt

\* The message stays on its way while nothing is added that is about it.
LEMMA StaysOnTheWay ==
  ASSUME NEW tb \in Seq(Wire), NEW tc \in Seq(Wire), NEW l, NEW hd, NEW s, NEW mid,
         OnTheWay(tb, tc, l, hd, s, mid),
         NEW tc2, Less(tc, tc2), NEW r \in Seq(Wire), NEW tb2, tb2 = tb \o r,
         ~Has(r, "PUBACK", mid), ~Has(r, "PUBCOMP", mid),
         NEW hd2, Has(r, "PUBREC", mid) => hd2[mid] = s, hd[mid] = s => hd2[mid] = s
  PROVE  OnTheWay(tb2, tc2, l, hd2, s, mid)
<1>1. \A type : Has(tb2, type, mid) <=> Has(tb, type, mid) \/ Has(r, type, mid)
  BY ConcatPackets
<1>2. Has(tc2, "PUBREL", mid) => Has(tc, "PUBREL", mid)
  BY LessPackets
<1> QED
  BY <1>1, <1>2 DEF OnTheWay

LEMMA StaysOnce ==
  ASSUME NEW tc \in Seq(Wire), NEW l, NEW hd, NEW s, NEW mid, NEW n,
         OnlyOnce(tc, l, hd, s, mid, n), NEW tc2, Less(tc, tc2),
         NEW hd2, n = 1 /\ hd[mid] # s => hd2[mid] # s
  PROVE  OnlyOnce(tc2, l, hd2, s, mid, n)
<1>1. /\ Packets(tc2) \subseteq Packets(tc)
      /\ Has(tc2, "PUBREL", mid) => Has(tc, "PUBREL", mid)
      /\ NoneBehind(tc, mid, s) => NoneBehind(tc2, mid, s)
  BY LessPackets
<1> QED
  BY <1>1 DEF OnlyOnce

\* It publishes, repeats what it publishes, or takes what concerns only that.
LEMMA QuietReceipt ==
  ASSUME NEW tb \in Seq(Wire), NEW tc \in Seq(Wire), NEW l,
         NEW gv, NEW gt, NEW mi, NEW hd, NEW ret, NEW red,
         Receipt(tb, tc, l, gv, gt, mi, hd, ret, red),
         NEW tc2, Less(tc, tc2), NEW r \in Seq(Wire), NEW tb2, tb2 = tb \o r,
         \A x \in Packets(r) : x.type \in {"PUBLISH", "PUBREL"}
  PROVE  Receipt(tb2, tc2, l, gv, gt, mi, hd, ret, red)
<1>1. \A x \in Packets(r) : Answer(x, mi, ret)
  BY DEF Answer
<1>2. \A mid : ~Has(r, "PUBACK", mid) /\ ~Has(r, "PUBCOMP", mid) /\ ~Has(r, "PUBREC", mid)
  BY HasPacket
<1>3. ASSUME NEW s \in Subs, gv[s] > 0, Alone(mi, s), mi[s] \notin ret, gt[s] = 0
      PROVE  OnTheWay(tb2, tc2, l, hd, s, mi[s])
  <2>1. OnTheWay(tb, tc, l, hd, s, mi[s])
    BY <1>3 DEF Receipt
  <2> QED
    BY <1>2, <2>1, StaysOnTheWay
<1>4. ASSUME NEW s \in Subs, gv[s] = 2, Alone(mi, s), s \notin red
      PROVE  OnlyOnce(tc2, l, hd, s, mi[s], gt[s])
  <2>1. OnlyOnce(tc, l, hd, s, mi[s], gt[s])
    BY <1>4 DEF Receipt
  <2> QED
    BY <2>1, StaysOnce
<1>5. Holding(hd, gv, mi, ret) /\ Queueing(gv, gt, mi)
  BY DEF Receipt
<1> QED
  BY <1>1, <1>3, <1>4, <1>5, AnswersReceipt

\* A packet for the client under the identifier of a message that has it alone.
LEMMA AlonePublish ==
  ASSUME NEW gv, NEW mi, NEW ret, NEW x, Genuine(x, gv, mi, ret), x.type = "PUBLISH",
         NEW s \in Subs, Alone(mi, s), mi[s] \notin ret, x.mid = mi[s]
  PROVE  x.msg = s /\ gv[s] = x.qos
  BY DEF Genuine, Alone

\* What it is sent is answered under an identifier that was used or returned.
LEMMA AnswerGenuine ==
  ASSUME NEW gv, NEW mi, NEW ret, NEW x, Genuine(x, gv, mi, ret),
         x.type \in {"PUBLISH", "PUBREL"},
         NEW type \in {"PUBACK", "PUBREC", "PUBCOMP"}
  PROVE  /\ x.mid \in Mids
         /\ Packet(type, x.mid) \in Wire /\ Answer(Packet(type, x.mid), mi, ret)
         /\ Packet(type, x.mid).type = type /\ Packet(type, x.mid).mid = x.mid
<1>1. x.mid \in Mids /\ (Used(mi, x.mid) \/ x.mid \in ret)
  BY DEF Genuine, Used
<1>2. x.mid \in 0..MidMax
  BY <1>1, MidTypes
<1>3. /\ Packet(type, x.mid) \in Wire
      /\ Packet(type, x.mid).type = type /\ Packet(type, x.mid).mid = x.mid
  BY <1>2, PacketType
<1> QED
  BY <1>1, <1>3 DEF Answer

\* The client holds m under mid unless it holds a message there, and holds none there.
HeldNow(hd, hd2, mid, m) ==
  \A n \in Mids : hd2[n] = IF n = mid /\ hd[n] = NoMsg THEN m ELSE hd[n]
Dropped(hd, hd2, mid) == \A n \in Mids : hd2[n] = IF n = mid THEN NoMsg ELSE hd[n]

\* The application has m once more.
OnceMore(gt, gt2, m) == \A s \in Subs : gt2[s] = IF s = m THEN Capped(gt[s] + 1) ELSE gt[s]

\* It takes a PUBLISH of QoS 1.
LEMMA Qos1Receipt ==
  ASSUME NEW tb \in Seq(Wire), NEW tc \in Seq(Wire), NEW l,
         NEW gv, NEW gt \in [Subs -> 0..2], NEW mi, NEW hd, NEW ret, NEW red,
         Receipt(tb, tc, l, gv, gt, mi, hd, ret, red),
         NEW x, tc # <<>>, x = Head(tc), x.type = "PUBLISH", x.qos = 1,
         NEW tb2, tb2 = tb \o <<Packet("PUBACK", x.mid)>>, NEW gt2,
         \A s \in Subs : gt2[s] = IF s = x.msg THEN Capped(gt[s] + 1) ELSE gt[s]
  PROVE  Receipt(tb2, Tail(tc), l, gv, gt2, mi, hd, ret, red)
<1> DEFINE y == Packet("PUBACK", x.mid)
<1>1. Genuine(x, gv, mi, ret)
  BY HeadPackets DEF Receipt
<1>2. y \in Wire /\ Answer(y, mi, ret) /\ y.type = "PUBACK" /\ y.mid = x.mid
  BY <1>1, AnswerGenuine
<1> HIDE DEF y
<1>3. /\ <<y>> \in Seq(Wire) /\ Packets(<<y>>) = {y}
      /\ \A type, mid : Has(<<y>>, type, mid) <=> y.type = type /\ y.mid = mid
  BY <1>2, OnePacket
<1>4. Less(tc, Tail(tc)) /\ tb2 = tb \o <<y>>
  BY DEF Less, y
<1>5. \A s \in Subs : Capped(gt[s] + 1) # 0
  <2>1. \A n \in 0..2 : Capped(n + 1) # 0
    BY DEF Capped
  <2> QED
    BY <2>1
<1>6. Holding(hd, gv, mi, ret) /\ Queueing(gv, gt2, mi)
  <2>1. Queueing(gv, gt, mi) /\ Holding(hd, gv, mi, ret)
    BY DEF Receipt
  <2>2. ASSUME NEW s \in Subs, gv[s] = NoSub
        PROVE  gt2[s] = gt[s]
    <3>1. mi[s] = 0
      BY <2>1, <2>2 DEF Queueing
    <3>2. CASE s = x.msg
      <4>1. x.mid \in Mids /\ x.msg \notin Pubs
        BY <1>1, <3>2, DeliveryAssumption DEF Genuine
      <4>2. mi[s] = x.mid
        BY <1>1, <3>2, <4>1 DEF Genuine
      <4> QED
        BY <3>1, <4>1, <4>2, MidAssumption DEF Mids
    <3>3. CASE s # x.msg
      BY <3>3
    <3> QED
      BY <3>2, <3>3
  <2> QED
    BY <2>1, <2>2 DEF Queueing
<1>7. ASSUME NEW s \in Subs, gv[s] > 0, Alone(mi, s), mi[s] \notin ret, gt2[s] = 0
      PROVE  OnTheWay(tb2, Tail(tc), l, hd, s, mi[s])
  <2>1. x.msg # s /\ gt[s] = 0
    BY <1>5, <1>7
  <2>2. x.mid # mi[s]
    BY <1>1, <1>7, <2>1, AlonePublish
  <2>3. OnTheWay(tb, tc, l, hd, s, mi[s])
    BY <1>7, <2>1 DEF Receipt
  <2>4. ~Has(<<y>>, "PUBACK", mi[s]) /\ ~Has(<<y>>, "PUBCOMP", mi[s])
        /\ ~Has(<<y>>, "PUBREC", mi[s])
    BY <1>2, <1>3, <2>2
  <2> DEFINE r == <<y>>
             tc2 == Tail(tc)
             mid == mi[s]
  <2>5. /\ tb \in Seq(Wire) /\ tc \in Seq(Wire) /\ OnTheWay(tb, tc, l, hd, s, mid)
        /\ r \in Seq(Wire) /\ tb2 = tb \o r /\ Less(tc, tc2)
        /\ ~Has(r, "PUBACK", mid) /\ ~Has(r, "PUBCOMP", mid) /\ ~Has(r, "PUBREC", mid)
    BY <1>3, <1>4, <2>3, <2>4
  <2> HIDE DEF r, tc2, mid
  <2>6. OnTheWay(tb2, tc2, l, hd, s, mid)
    BY ONLY <2>5, StaysOnTheWay
  <2> QED
    BY <2>6 DEF tc2, mid
<1>8. ASSUME NEW s \in Subs, gv[s] = 2, Alone(mi, s), s \notin red
      PROVE  OnlyOnce(Tail(tc), l, hd, s, mi[s], gt2[s])
  <2>1. x.msg # s
    BY <1>1, <1>8, DeliveryAssumption DEF Genuine
  <2>2. OnlyOnce(tc, l, hd, s, mi[s], gt[s]) /\ gt2[s] = gt[s]
    BY <1>8, <2>1 DEF Receipt
  <2> QED
    BY <1>4, <2>2, StaysOnce
<1>9. \A z \in Packets(<<y>>) : Answer(z, mi, ret)
  BY <1>2, <1>3
<1> QED
  BY <1>3, <1>4, <1>6, <1>7, <1>8, <1>9, AnswersReceipt
\* It takes a PUBLISH of QoS 2, and holds the message unless it holds one under the
\* identifier already.
LEMMA Qos2Receipt ==
  ASSUME NEW tb \in Seq(Wire), NEW tc \in Seq(Wire), NEW l,
         NEW gv, NEW gt, NEW mi, NEW hd, NEW ret, NEW red,
         Receipt(tb, tc, l, gv, gt, mi, hd, ret, red),
         NEW x, tc # <<>>, x = Head(tc), x.type = "PUBLISH", x.qos = 2,
         NEW tb2, tb2 = tb \o <<Packet("PUBREC", x.mid)>>,
         NEW hd2, HeldNow(hd, hd2, x.mid, x.msg)
  PROVE  Receipt(tb2, Tail(tc), l, gv, gt, mi, hd2, ret, red)
<1> DEFINE y == Packet("PUBREC", x.mid)
           r == <<y>>
           tc2 == Tail(tc)
<1>1. Genuine(x, gv, mi, ret) /\ x \in Packets(tc)
  BY HeadPackets DEF Receipt
<1>2. y \in Wire /\ Answer(y, mi, ret) /\ y.type = "PUBREC" /\ y.mid = x.mid /\ x.mid \in Mids
  BY <1>1, AnswerGenuine
<1> HIDE DEF y
<1>3. /\ r \in Seq(Wire) /\ Packets(r) = {y}
      /\ \A type, mid : Has(r, type, mid) <=> y.type = type /\ y.mid = mid
  BY <1>2, OnePacket
<1>4. Less(tc, tc2) /\ tb2 = tb \o r
  BY DEF Less, y
<1> HIDE DEF r, tc2
<1>5. Queueing(gv, gt, mi) /\ Holding(hd, gv, mi, ret)
  BY DEF Receipt
<1>6. Holding(hd2, gv, mi, ret)
  BY <1>1, <1>5 DEF Holding, Genuine, HeldNow
<1>7. \A s \in Subs : gv[s] > 0 => mi[s] \in Mids /\ s # NoMsg
  BY <1>5, DeliveryAssumption, MsgAssumption DEF Queueing, NoSub
<1>8. ASSUME NEW s \in Subs, gv[s] > 0, Alone(mi, s), mi[s] \notin ret, gt[s] = 0
      PROVE  OnTheWay(tb2, tc2, l, hd2, s, mi[s])
  <2> DEFINE mid == mi[s]
  <2>1. OnTheWay(tb, tc, l, hd, s, mid)
    BY <1>8 DEF Receipt
  <2>2. hd[mid] = s => hd2[mid] = s
    BY <1>7, <1>8 DEF HeldNow
  <2>3. Has(r, "PUBREC", mid) => hd2[mid] = s
    <3>1. SUFFICES ASSUME x.mid = mid
                   PROVE  hd2[mid] = s
      BY <1>2, <1>3
    <3>2. x.msg = s /\ mid \in Mids
      BY <1>1, <1>8, <3>1, <1>7, AlonePublish
    <3>3. hd[mid] = NoMsg \/ hd[mid] = s
      BY <1>5, <1>8, <3>2 DEF Holding, Alone
    <3> QED
      BY <3>1, <3>2, <3>3 DEF HeldNow
  <2>4. ~Has(r, "PUBACK", mid) /\ ~Has(r, "PUBCOMP", mid)
    BY <1>2, <1>3
  <2> HIDE DEF mid
  <2>5. OnTheWay(tb2, tc2, l, hd2, s, mid)
    BY ONLY <1>3, <1>4, <2>1, <2>2, <2>3, <2>4, tb \in Seq(Wire), tc \in Seq(Wire), StaysOnTheWay
  <2> QED
    BY <2>5 DEF mid
<1>9. ASSUME NEW s \in Subs, gv[s] = 2, Alone(mi, s), s \notin red
      PROVE  OnlyOnce(tc2, l, hd2, s, mi[s], gt[s])
  <2>1. OnlyOnce(tc, l, hd, s, mi[s], gt[s])
    BY <1>9 DEF Receipt
  <2>2. gt[s] = 1 => x.msg # s
    BY <1>1, <2>1 DEF OnlyOnce, Carrying
  <2>3. gt[s] = 1 /\ hd[mi[s]] # s => hd2[mi[s]] # s
    BY <1>7, <1>9, <2>2 DEF HeldNow
  <2> QED
    BY <1>4, <2>1, <2>3, StaysOnce
<1>10. \A z \in Packets(r) : Answer(z, mi, ret)
  BY <1>2, <1>3
<1>11. Receipt(tb2, tc2, l, gv, gt, mi, hd2, ret, red)
  BY <1>3, <1>4, <1>5, <1>6, <1>8, <1>9, <1>10, AnswersReceipt
<1> QED
  BY <1>11 DEF tc2

\* It takes a PUBREL, gives the application what it holds and holds it no longer.
LEMMA PubrelReceipt ==
  ASSUME NEW tb \in Seq(Wire), NEW tc \in Seq(Wire), NEW l,
         NEW gv, NEW gt \in [Subs -> 0..2], NEW mi, NEW hd, NEW ret, NEW red,
         Receipt(tb, tc, l, gv, gt, mi, hd, ret, red),
         NEW x, tc # <<>>, x = Head(tc), x.type = "PUBREL",
         NEW tb2, tb2 = tb \o <<Packet("PUBCOMP", x.mid)>>,
         NEW hd2, Dropped(hd, hd2, x.mid), NEW gt2, OnceMore(gt, gt2, hd[x.mid])
  PROVE  Receipt(tb2, Tail(tc), l, gv, gt2, mi, hd2, ret, red)
<1> DEFINE y == Packet("PUBCOMP", x.mid)
           r == <<y>>
           tc2 == Tail(tc)
<1>1. /\ Genuine(x, gv, mi, ret) /\ x \in Packets(tc) /\ Has(tc, "PUBREL", x.mid)
      /\ \A s : NoneBehind(tc, x.mid, s) => \A z \in Packets(tc2) : ~Carrying(z, s)
  BY HeadPackets DEF Receipt
<1>2. y \in Wire /\ Answer(y, mi, ret) /\ y.type = "PUBCOMP" /\ y.mid = x.mid /\ x.mid \in Mids
  BY <1>1, AnswerGenuine
<1> HIDE DEF y
<1>3. /\ r \in Seq(Wire) /\ Packets(r) = {y}
      /\ \A type, mid : Has(r, type, mid) <=> y.type = type /\ y.mid = mid
  BY <1>2, OnePacket
<1>4. Less(tc, tc2) /\ tb2 = tb \o r
  BY DEF Less, y
<1> HIDE DEF r, tc2
<1>5. Queueing(gv, gt, mi) /\ Holding(hd, gv, mi, ret)
  BY DEF Receipt
<1>6. Holding(hd2, gv, mi, ret)
  BY <1>5 DEF Holding, Dropped
<1>7. \A s \in Subs : s # NoMsg /\ s \notin Pubs /\ (gv[s] > 0 => mi[s] \in Mids)
  BY <1>5, DeliveryAssumption, MsgAssumption DEF Queueing, NoSub
<1>8. \A s \in Subs : hd[x.mid] = s => gv[s] = 2 /\ mi[s] = x.mid
  BY <1>2, <1>5, <1>7 DEF Holding
<1>9. Queueing(gv, gt2, mi)
  BY <1>5, <1>8 DEF Queueing, NoSub, OnceMore
<1>10. \A n \in 0..2 : Capped(n + 1) # 0 /\ (n = 0 => Capped(n + 1) = 1)
  BY DEF Capped
<1>11. ASSUME NEW s \in Subs, gv[s] > 0, Alone(mi, s), mi[s] \notin ret, gt2[s] = 0
       PROVE  OnTheWay(tb2, tc2, l, hd2, s, mi[s])
  <2> DEFINE mid == mi[s]
  <2>1. s # hd[x.mid] /\ gt[s] = 0
    BY <1>10, <1>11 DEF OnceMore
  <2>2. OnTheWay(tb, tc, l, hd, s, mid)
    BY <1>11, <2>1 DEF Receipt
  <2>3. x.mid # mid
    BY <1>1, <2>1, <2>2 DEF OnTheWay
  <2>4. ~Has(r, "PUBACK", mid) /\ ~Has(r, "PUBCOMP", mid) /\ ~Has(r, "PUBREC", mid)
    BY <1>2, <1>3, <2>3
  <2>5. hd[mid] = s => hd2[mid] = s
    BY <1>7, <1>11, <2>3 DEF Dropped
  <2> HIDE DEF mid
  <2>6. OnTheWay(tb2, tc2, l, hd2, s, mid)
    BY ONLY <1>3, <1>4, <2>2, <2>4, <2>5, tb \in Seq(Wire), tc \in Seq(Wire), StaysOnTheWay
  <2> QED
    BY <2>6 DEF mid
<1>12. ASSUME NEW s \in Subs, gv[s] = 2, Alone(mi, s), s \notin red
       PROVE  OnlyOnce(tc2, l, hd2, s, mi[s], gt2[s])
  <2>1. OnlyOnce(tc, l, hd, s, mi[s], gt[s]) /\ mi[s] \in Mids
    BY <1>7, <1>12 DEF Receipt
  <2>2. CASE hd[x.mid] # s
    <3>1. gt2[s] = gt[s]
      BY <2>2 DEF OnceMore
    <3>2. gt[s] = 1 /\ hd[mi[s]] # s => hd2[mi[s]] # s
      BY <1>7, <2>1 DEF Dropped
    <3> QED
      BY <1>4, <2>1, <3>1, <3>2, StaysOnce
  <2>3. CASE hd[x.mid] = s
    <3>1. mi[s] = x.mid
      BY <1>8, <2>3
    <3>2. gt[s] # 1 /\ gt[s] <= 1 /\ NoneBehind(tc, x.mid, s)
          /\ \A a \in Of(l, s) : l[a].state \in Releasing
      BY <1>1, <2>1, <2>3, <3>1 DEF OnlyOnce
    <3>3. gt[s] = 0 /\ gt2[s] = 1
      BY <1>10, <2>3, <3>2 DEF OnceMore
    <3>4. hd2[mi[s]] # s
      BY <1>2, <1>7, <3>1 DEF Dropped
    <3>5. \A z \in Packets(tc2) : ~Carrying(z, s)
      BY <1>1, <3>2
    <3>6. NoneBehind(tc2, mi[s], s)
      BY <1>4, <2>1, LessPackets DEF OnlyOnce
    <3> QED
      BY <3>2, <3>3, <3>4, <3>5, <3>6 DEF OnlyOnce
  <2> QED
    BY <2>2, <2>3
<1>13. \A z \in Packets(r) : Answer(z, mi, ret)
  BY <1>2, <1>3
<1>14. Receipt(tb2, tc2, l, gv, gt2, mi, hd2, ret, red)
  BY <1>3, <1>4, <1>6, <1>9, <1>11, <1>12, <1>13, AnswersReceipt
<1> QED
  BY <1>14 DEF tc2
------------------------------------------------------------------------------
\* What the operators of MsgList release.

\* The states of the entries that k has of l: PUBREC alone releases a message, and only
\* a reset takes the release back.
Shifts(tb, l, k) ==
  \A a \in DOMAIN k :
    /\ k[a].state \in Releasing =>
         \/ l[a].state \in Releasing
         \/ k[a].dir = Out /\ Has(tb, "PUBREC", k[a].mid)
    /\ l[a].state \in Releasing /\ l[a].qos = 2 /\ k[a].state \notin Releasing
         => l[a].state = "resend_pubrel" /\ k[a].state = "publish_qos2"

\* The walks and passes put no message into a state of being released.
LEMMA ReleaseTypes ==
  ASSUME NEW e \in Entry
  PROVE  /\ PublishState(e.qos) \notin Releasing
         /\ RunState(e) \notin Releasing
         /\ WalkState(e) \notin Releasing
         /\ SentState(e.state) \in Releasing <=> e.state \in Releasing
         /\ RetryState(e.state) \in Releasing <=> e.state \in Releasing
         /\ "queued" \notin Releasing
  BY SMT DEF Entry, PublishState, RunState, WalkState, MsgState, Releasing, In, Out,
             SentState, RetryState

LEMMA WithState ==
  ASSUME NEW l \in Lists, NEW a \in DOMAIN l, NEW v
  PROVE  [l[a] EXCEPT !.state = v].state = v /\ l[a] \in Entry
  BY EntryType DEF Entry

LEMMA WalkShifts ==
  ASSUME NEW l \in Lists, NEW match, NEW uncounted, NEW max,
         NEW k, k = AfterWalk(l, match, uncounted, max), NEW tb
  PROVE  Shifts(tb, l, k)
<1> DEFINE gone == Unlinked(l, match, uncounted, max)
           run  == LeadingRun(l, gone, max)
           prom == WalkPromoted(l, match, uncounted, max)
<1>1. \A a \in run \cup prom : l[a].state = "queued"
  BY DEF LeadingRun, WalkPromoted, Queued
<1>2. k = [a \in DOMAIN l \ gone |->
             [l[a] EXCEPT !.state = IF a \in run  THEN RunState(l[a])
                               ELSE IF a \in prom THEN WalkState(l[a])
                               ELSE l[a].state]]
  BY DEF AfterWalk
<1> HIDE DEF run, prom, gone
<1>3. ASSUME NEW a \in DOMAIN k
      PROVE  k[a].state \in Releasing <=> l[a].state \in Releasing
  <2> DEFINE v == IF a \in run  THEN RunState(l[a])
                  ELSE IF a \in prom THEN WalkState(l[a])
                  ELSE l[a].state
  <2>1. a \in DOMAIN l
    BY <1>2
  <2>2. k[a] = [l[a] EXCEPT !.state = v]
    BY <1>2
  <2>3. v \in Releasing <=> l[a].state \in Releasing
    BY <1>1, <2>1, WithState, ReleaseTypes
  <2> HIDE DEF v
  <2>4. k[a].state = v
    BY <2>1, <2>2, WithState
  <2> QED
    BY <2>3, <2>4
<1> QED
  BY <1>3 DEF Shifts

LEMMA SetStateShifts ==
  ASSUME NEW l \in Lists, NEW mid, NEW tb, Has(tb, "PUBREC", mid),
         NEW k, k = SetState(l, FirstMatch(l, mid, Out), "wait_for_pubcomp")
  PROVE  Shifts(tb, l, k)
<1> DEFINE S == FirstMatch(l, mid, Out)
<1>1. \A a \in S : l[a].dir = Out /\ l[a].mid = mid /\ a \in DOMAIN l
  BY DEF FirstMatch, Match
<1>2. k = [a \in DOMAIN l |-> IF a \in S THEN [l[a] EXCEPT !.state = "wait_for_pubcomp"] ELSE l[a]]
  BY DEF SetState
<1> HIDE DEF S
<1>3. ASSUME NEW a \in DOMAIN k
      PROVE  /\ a \in S => k[a].state \in Releasing /\ k[a].dir = Out /\ k[a].mid = mid
             /\ a \notin S => k[a] = l[a]
  <2>1. a \in DOMAIN l /\ l[a] \in Entry
    BY <1>2, EntryType
  <2> QED
    BY <1>1, <1>2, <2>1 DEF Releasing, Entry
<1> QED
  BY <1>3 DEF Shifts

LEMMA RetryShifts ==
  ASSUME NEW l \in Lists, NEW S, NEW k, k = Retry(l, S), NEW tb
  PROVE  Shifts(tb, l, k)
<1>1. ASSUME NEW a \in DOMAIN k
      PROVE  k[a].state \in Releasing <=> l[a].state \in Releasing
  <2>1. a \in DOMAIN l /\ k[a] = IF a \in S THEN [l[a] EXCEPT !.state = RetryState(l[a].state)]
                                            ELSE l[a]
    BY DEF Retry
  <2>2. a \in S => k[a].state = RetryState(l[a].state)
    BY <2>1, WithState
  <2> QED
    BY <2>1, <2>2, WithState, ReleaseTypes
<1> QED
  BY <1>1 DEF Shifts

\* The reset of a released message: PUBREL is repeated, or the message is published
\* again (database.c:648-652).
LEMMA ResetTypes ==
  ASSUME NEW e \in Entry
  PROVE  /\ ResetState(e) \in Releasing => e.state \in Releasing
         /\ e.state \in Releasing /\ e.dir = Out /\ e.qos = 2 /\ ResetState(e) \notin Releasing
              => e.state = "resend_pubrel" /\ ResetState(e) = "publish_qos2"
  BY SMT DEF Entry, ResetState, PublishState, Releasing, MsgState, QoS, In, Out

LEMMA ResetShifts ==
  ASSUME NEW l \in Lists, Outbound(l), NEW max, NEW k, k = Reset(l, max), NEW tb
  PROVE  Shifts(tb, l, k)
<1>1. ASSUME NEW a \in DOMAIN k
      PROVE  /\ k[a].state \in Releasing => l[a].state \in Releasing
             /\ l[a].state \in Releasing /\ l[a].qos = 2 /\ k[a].state \notin Releasing
                  => l[a].state = "resend_pubrel" /\ k[a].state = "publish_qos2"
  <2>1. a \in DOMAIN l
        /\ k[a] = [l[a] EXCEPT !.state = IF Queued(l, a) /\ InWindow(l, max, a)
                                         THEN PublishState(l[a].qos)
                                         ELSE ResetState(l[a])]
    BY DEF Reset
  <2>2. k[a].state = IF Queued(l, a) /\ InWindow(l, max, a)
                     THEN PublishState(l[a].qos)
                     ELSE ResetState(l[a])
    BY <2>1, WithState
  <2>3. l[a] \in Entry /\ (l[a].state \in Releasing => l[a].dir = Out)
    BY <2>1, EntryType DEF Outbound
  <2>4. CASE Queued(l, a) /\ InWindow(l, max, a)
    BY <2>2, <2>3, <2>4, ReleaseTypes DEF Queued
  <2>5. CASE ~(Queued(l, a) /\ InWindow(l, max, a))
    <3>1. k[a].state = ResetState(l[a])
      BY <2>2, <2>5
    <3> QED
      BY <2>3, <3>1, ResetTypes
  <2> QED
    BY <2>4, <2>5
<1> QED
  BY <1>1 DEF Shifts
------------------------------------------------------------------------------
\* The steps of the broker.

\* What is sent is about the list that the step leaves.
Sound(p, l, k) ==
  p \in Seq(Wire) /\ \A x \in Packets(p) : /\ x.type = "PUBLISH" => Published(x, l, k)
                                           /\ x.type = "PUBREL"  => Freed(x, l, k)

\* A packet which is neither PUBLISH nor PUBREL is about nothing that is for the client.
LEMMA SilentSound ==
  ASSUME NEW p \in Seq(Wire), \A x \in Packets(p) : x.type \notin {"PUBLISH", "PUBREL"},
         NEW l, NEW k
  PROVE  Sound(p, l, k)
  BY DEF Sound

LEMMA NoneSound ==
  ASSUME NEW l, NEW k
  PROVE  Sound(<<>>, l, k)
<1>1. <<>> \in Seq(Wire) /\ Packets(<<>>) = {}
  BY DEF Packets
<1> QED
  BY <1>1, SilentSound

\* A walk or a pass over the list.
LEMMA KeepsServes ==
  ASSUME NEW tb, NEW l, Outbound(l), NEW k, NEW gone, Keeps(l, k, gone), Shifts(tb, l, k),
         \A a \in gone : a \in DOMAIN l /\ l[a].dir = Out =>
           Has(tb, "PUBACK", l[a].mid) \/ Has(tb, "PUBCOMP", l[a].mid),
         NEW p, Sound(p, l, k)
  PROVE  Serves(tb, l, k, p)
<1>1. \A a \in DOMAIN k : a \in DOMAIN l /\ k[a].mid = l[a].mid /\ k[a].dir = l[a].dir
                          /\ k[a].qos = l[a].qos /\ k[a].msg = l[a].msg
  BY DEF Keeps
<1>2. Outbound(k)
  BY <1>1 DEF Outbound, Shifts
<1>3. \A a \in DOMAIN l : l[a].dir = Out =>
        \/ a \in DOMAIN k /\ k[a].dir = Out
        \/ Has(tb, "PUBACK", l[a].mid)
        \/ Has(tb, "PUBCOMP", l[a].mid)
  BY <1>1 DEF Keeps
<1>4. \A a \in DOMAIN k : k[a].dir = Out =>
       /\ a \in DOMAIN l /\ l[a].dir = Out
       /\ l[a].mid = k[a].mid /\ l[a].qos = k[a].qos /\ l[a].msg = k[a].msg
       /\ k[a].state \in Releasing =>
            l[a].state \in Releasing \/ Has(tb, "PUBREC", k[a].mid)
       /\ l[a].state \in Releasing /\ l[a].qos = 2 /\ k[a].state \notin Releasing
            => l[a].state = "resend_pubrel" /\ k[a].state = "publish_qos2"
  BY <1>1 DEF Shifts
<1> QED
  BY <1>2, <1>3, <1>4 DEF Serves, Sound

LEMMA SameShifts ==
  ASSUME NEW l, NEW tb
  PROVE  Shifts(tb, l, l)
  BY DEF Shifts

LEMMA SameServes ==
  ASSUME NEW tb, NEW l, Outbound(l), NEW p, Sound(p, l, l)
  PROVE  Serves(tb, l, l, p)
  BY DEF Serves, Sound

\* The list that a step leaves, and the packets that reach the client.
Acts == Serves(toBroker, msgs, msgs', IF sock' THEN sent' ELSE <<>>)

LEMMA HangupActs ==
  ASSUME NEW k, NEW n, NEW n12, Hangup(k, n, n12), ~clean, Serves(toBroker, msgs, k, <<>>)
  PROVE  Acts /\ ~sock'
  BY DEF Hangup, Acts

\* A message from the client is appended, and answered or queued.
LEMMA AppendServes ==
  ASSUME NEW tb, NEW l, Outbound(l), NEW at, at \notin DOMAIN l,
         NEW e, e.dir = In, e.state \notin Releasing, NEW k, k = Append1(l, at, e),
         NEW p \in Seq(Wire), \A x \in Packets(p) : x.type \notin {"PUBLISH", "PUBREL"}
  PROVE  Serves(tb, l, k, p)
<1>1. In # Out
  BY DEF In, Out
<1>2. DOMAIN k = DOMAIN l \cup {at} /\ k[at] = e /\ \A a \in DOMAIN l : k[a] = l[a]
  BY DEF Append1
<1>3. Outbound(k)
  BY <1>2 DEF Outbound
<1>4. \A a \in DOMAIN k : k[a].dir = Out => a \in DOMAIN l /\ k[a] = l[a]
  BY <1>1, <1>2
<1> QED
  BY <1>2, <1>3, <1>4 DEF Serves
------------------------------------------------------------------------------
LEMMA AdmitUnreleased ==
  ASSUME NEW dir, NEW qos \in QoS, NEW n12
  PROVE  Admit(dir, qos, n12) \notin Releasing
  BY DEF Admit, PublishState, Releasing

\* Only PUBRECs and PUBCOMPs, and CONNACK, are sent.
LEMMA OneSilent ==
  ASSUME NEW type \in {"CONNACK", "PUBREC", "PUBCOMP"}, NEW mid \in 0..MidMax
  PROVE  /\ <<Packet(type, mid)>> \in Seq(Wire)
         /\ \A x \in Packets(<<Packet(type, mid)>>) : x.type \notin {"PUBLISH", "PUBREL"}
<1>1. Packet(type, mid) \in Wire /\ Packet(type, mid).type = type
  BY PacketType
<1> QED
  BY <1>1, OnePacket

LEMMA PublishQos2Acts ==
  ASSUME DInv, Outbound(msgs), NEW mid \in Mids, NEW m, PublishQos2(mid, m)
  PROVE  Acts
<1>1. msgs \in Lists /\ sock' = sock /\ sock /\ mid \in 0..MidMax
  BY DFacts, MidTypes DEF PublishQos2, Reading, session
<1>2. sent' = <<Packet("PUBREC", mid)>> \/ sent' = <<>>
  BY DEF PublishQos2, Outputs
<1>3. sent' \in Seq(Wire) /\ \A x \in Packets(sent') : x.type \notin {"PUBLISH", "PUBREL"}
  <2>1. <<>> \in Seq(Wire) /\ Packets(<<>>) = {}
    BY DEF Packets
  <2> QED
    BY <1>1, <1>2, <2>1, OneSilent
<1>4. CASE msgs' = msgs
  BY <1>1, <1>3, <1>4, SilentSound, SameServes DEF Acts
<1>5. CASE \E at \in Stamps : Insert(at, In, mid, 2, m)
  <2>1. PICK at \in Stamps : IsNext(msgs, at) /\ msgs' = Inserted(msgs, at, In, mid, 2, m)
    BY <1>5 DEF Insert
  <2> DEFINE e == [mid |-> mid, dir |-> In, qos |-> 2,
                   state |-> Admit(In, 2, msg_count12), msg |-> m]
  <2>2. CASE msgs' # msgs
    <3>1. msgs' = Append1(msgs, at, e)
      BY <2>1, <2>2 DEF Inserted
    <3>2. at \notin DOMAIN msgs
      BY <1>1, <2>1, EntryType DEF IsNext, Stamps
    <3>3. e.dir = In /\ e.state \notin Releasing
      BY AdmitUnreleased DEF QoS
    <3> HIDE DEF e
    <3>4. Serves(toBroker, msgs, msgs', sent')
      BY <1>3, <3>1, <3>2, <3>3, AppendServes
    <3> QED
      BY <1>1, <3>4 DEF Acts
  <2> QED
    BY <1>4, <2>2
<1> QED
  BY <1>4, <1>5 DEF PublishQos2, list

LEMMA PubAckCompActs ==
  ASSUME DInv, Outbound(msgs), toBroker # <<>>, Head(toBroker).type \in {"PUBACK", "PUBCOMP"},
         PubAckComp(Head(toBroker).mid)
  PROVE  Acts
<1> DEFINE mid   == Head(toBroker).mid
           match == Match(msgs, mid, Out)
           gone  == Unlinked(msgs, match, match, limits.inflight)
<1>1. msgs \in Lists /\ Fits(msgs) /\ toBroker \in Seq(Wire)
  BY DFacts
<1>2. Has(toBroker, "PUBACK", mid) \/ Has(toBroker, "PUBCOMP", mid)
  BY <1>1, HeadPackets
<1>3. msgs' = AfterWalk(msgs, match, match, limits.inflight) /\ sent' = <<>>
  BY DEF PubAckComp, Outputs
<1>4. \A a \in gone : msgs[a].mid = mid
  BY DEF Unlinked, Match
<1> HIDE DEF mid, match, gone
<1>5. Keeps(msgs, msgs', gone) /\ Shifts(toBroker, msgs, msgs')
  BY <1>1, <1>3, WalkKeeps, WalkShifts DEF gone
<1>6. Serves(toBroker, msgs, msgs', <<>>)
  BY <1>2, <1>4, <1>5, NoneSound, KeepsServes
<1> QED
  BY <1>3, <1>6 DEF Acts

LEMMA PubRecActs ==
  ASSUME DInv, Outbound(msgs), toBroker # <<>>, Head(toBroker).type = "PUBREC",
         PubRec(Head(toBroker).mid)
  PROVE  Acts
<1> DEFINE mid == Head(toBroker).mid
           S   == FirstMatch(msgs, mid, Out)
<1>1. msgs \in Lists /\ Fits(msgs) /\ toBroker \in Seq(Wire) /\ sock /\ ~clean
  BY DFacts DEF PubRec, Reading
<1>2. Has(toBroker, "PUBREC", mid) /\ mid \in 0..MidMax
  BY <1>1, HeadPackets DEF Wire
<1>3. CASE Match(msgs, mid, Out) # {}
  <2>1. msgs' = SetState(msgs, S, "wait_for_pubcomp") /\ sent' = <<Packet("PUBREL", mid)>>
        /\ sock' = sock
    BY <1>3 DEF PubRec, Outputs, session
  <2>2. Keeps(msgs, msgs', {}) /\ Shifts(toBroker, msgs, msgs')
    BY <1>1, <1>2, <2>1, SetStateKeeps, SetStateShifts DEF MsgState, Receiving
  <2>3. Match(msgs', mid, Out) = Match(msgs, mid, Out)
    BY <2>2 DEF Keeps, Match
  <2>4. ASSUME Sole(msgs, mid), NEW a \in Match(msgs', mid, Out)
        PROVE  msgs'[a].state \in Releasing
    <3>1. a \in S /\ a \in DOMAIN msgs /\ msgs[a] \in Entry
      BY <1>1, <2>3, <2>4, EntryType DEF Sole, FirstMatch, Before, Match, Stamps
    <3>2. msgs'[a] = [msgs[a] EXCEPT !.state = "wait_for_pubcomp"]
      BY <2>1, <3>1 DEF SetState
    <3> QED
      BY <1>1, <3>1, <3>2, WithState DEF Releasing
  <2>5. /\ Packet("PUBREL", mid) \in Wire /\ Packet("PUBREL", mid).type = "PUBREL"
        /\ Packet("PUBREL", mid).mid = mid
    BY <1>2, PacketType
  <2> HIDE DEF mid, S
  <2>6. Freed(Packet("PUBREL", mid), msgs, msgs')
    BY <1>3, <2>3, <2>4, <2>5 DEF Freed
  <2>7. Sound(sent', msgs, msgs')
    BY <2>1, <2>5, <2>6, OnePacket DEF Sound
  <2>8. Serves(toBroker, msgs, msgs', sent')
    BY <2>2, <2>7, KeepsServes
  <2> QED
    BY <1>1, <2>1, <2>8 DEF Acts
<1>4. CASE Match(msgs, mid, Out) = {}
  <2>1. Hangup(msgs, msg_count, msg_count12)
    BY <1>4 DEF PubRec
  <2> QED
    BY <1>1, <2>1, NoneSound, SameServes, HangupActs
<1> QED
  BY <1>3, <1>4

LEMMA PubRelActs ==
  ASSUME DInv, Outbound(msgs), NEW mid \in 0..MidMax, PubRel(mid, NoSub)
  PROVE  Acts
<1>1. msgs \in Lists
  BY DFacts
<1>2. /\ sock /\ sock' = sock /\ Released(msgs, mid)
      /\ Keeps(msgs, msgs', Match(msgs, mid, In))
  BY PubRelRoutes
<1>3. \A a \in Match(msgs, mid, In) : msgs[a].dir # Out
  BY DEF Match, In, Out
<1>4. Shifts(toBroker, msgs, msgs')
  BY <1>1, <1>2, WalkShifts DEF Released
<1>5. sent' \in Seq(Wire) /\ \A x \in Packets(sent') : x.type \notin {"PUBLISH", "PUBREL"}
  <2>1. /\ sent' \in Seq(Wire) /\ Len(sent') > 0
        /\ sent'[Len(sent')] = Packet("PUBCOMP", mid)
        /\ \A i \in 1..Len(sent') - 1 : sent'[i].type = "PUBREC"
    BY <1>1, <1>2, ReleasedFacts
  <2>2. \A i \in DOMAIN sent' : i \in 1..Len(sent') - 1 \/ i = Len(sent')
    BY <2>1
  <2>3. Packet("PUBCOMP", mid).type = "PUBCOMP"
    BY PacketType
  <2> QED
    BY <2>1, <2>2, <2>3 DEF Packets
<1>6. Serves(toBroker, msgs, msgs', sent')
  BY <1>2, <1>3, <1>4, <1>5, SilentSound, KeepsServes
<1> QED
  BY <1>2, <1>6 DEF Acts
------------------------------------------------------------------------------
\* The pass finds a message released exactly if it was.
LEMMA FoundReleased ==
  ASSUME NEW l \in Lists, NEW stop, NEW max, NEW a \in DOMAIN l
  PROVE  /\ FoundState(l, stop, max, a) \in Releasing <=> l[a].state \in Releasing
         /\ FoundState(l, stop, max, a) = "resend_pubrel" => l[a].state = "resend_pubrel"
         /\ FoundState(l, stop, max, a) \in MsgState
<1>1. l[a] \in Entry /\ l[a].state \in MsgState
  BY EntryType
<1>2. a \in WriteRun(l, stop, max) => l[a].state = "queued"
  BY DEF WriteRun, LeadingRun, Queued
<1>3. a \in InboundPromoted(l, stop, max) => l[a].state = "queued"
  BY DEF InboundPromoted, Queued
<1>4. RunState(l[a]) \notin Releasing /\ RunState(l[a]) \in MsgState
  BY <1>1, ReleaseTypes, StateTypes
<1>5. "send_pubrec" \notin Releasing /\ "send_pubrec" \in MsgState
      /\ "queued" \notin Releasing /\ "resend_pubrel" \in Releasing
  BY DEF Releasing, MsgState
<1> QED
  BY <1>1, <1>2, <1>3, <1>4, <1>5 DEF FoundState

LEMMA SentReleased ==
  ASSUME NEW state \in MsgState
  PROVE  /\ SentState(state) \in Releasing <=> state \in Releasing
         /\ Sends(state) /\ state # "resend_pubrel" => state \notin Releasing
         /\ RetryState(state) \in Releasing <=> state \in Releasing
  BY DEF MsgState, Releasing, SentState, Sends, RetryState

\* What a pass makes of an entry, when there is no QoS 0.
LEMMA WriteStates ==
  ASSUME NEW l \in Lists, Fits(l), Asserted(l), NEW stop, NEW max,
         NEW k, k = AfterWrite(l, stop, max)
  PROVE  /\ DOMAIN k = DOMAIN l /\ Keeps(l, k, {})
         /\ \A a \in DOMAIN l : k[a].state \in Releasing <=> l[a].state \in Releasing
<1>1. Written(l, stop, max) = {}
  BY WrittenQos0 DEF Asserted
<1>2. Keeps(l, k, {}) /\ DOMAIN k = DOMAIN l
  <2>1. Keeps(l, k, Written(l, stop, max))
    BY WriteKeeps
  <2> QED
    BY <1>1, <2>1 DEF Keeps
<1>3. ASSUME NEW a \in DOMAIN l
      PROVE  k[a].state \in Releasing <=> l[a].state \in Releasing
  <2> DEFINE found == FoundState(l, stop, max, a)
             v     == IF a < stop THEN SentState(found) ELSE found
  <2>1. k[a] = [l[a] EXCEPT !.state = v]
    BY <1>1 DEF AfterWrite
  <2>2. v \in Releasing <=> l[a].state \in Releasing
    BY FoundReleased, SentReleased
  <2> HIDE DEF v
  <2> QED
    BY <2>1, <2>2, WithState
<1> QED
  BY <1>2, <1>3

LEMMA WriteShifts ==
  ASSUME NEW l \in Lists, Fits(l), Asserted(l), NEW stop, NEW max,
         NEW k, k = AfterWrite(l, stop, max), NEW tb
  PROVE  Shifts(tb, l, k)
  BY WriteStates DEF Shifts

\* Every packet of the pass is the one of an entry.
LEMMA WritePacketOf ==
  ASSUME NEW l \in Lists, NEW stop, NEW max, NEW x \in Packets(WritePackets(l, stop, max))
  PROVE  \E a \in DOMAIN l : /\ Sends(FoundState(l, stop, max, a))
                             /\ x = PacketFor(l[a], FoundState(l, stop, max, a))
<1> DEFINE found(a) == FoundState(l, stop, max, a)
           S        == {a \in DOMAIN l : a < stop /\ Sends(found(a))}
           order    == InOrder(S)
<1>1. S \in SUBSET Int /\ IsFiniteSet(S)
  <2>1. S \subseteq DOMAIN l
    OBVIOUS
  <2> QED
    BY <2>1, EntryType, ListFinite, FS_Subset
<1>2. \A i \in DOMAIN order : order[i] \in S
  BY <1>1, InOrderFacts
<1>3. WritePackets(l, stop, max) = [i \in DOMAIN order |-> PacketFor(l[order[i]], found(order[i]))]
  BY DEF WritePackets
<1> HIDE DEF order
<1>4. PICK i \in DOMAIN order : x = PacketFor(l[order[i]], found(order[i]))
  BY <1>3 DEF Packets
<1> QED
  BY <1>2, <1>4

LEMMA PacketForFacts ==
  ASSUME NEW e \in Entry, NEW state
  PROVE  /\ PacketFor(e, state).type = "PUBREL" =>
              state = "resend_pubrel" /\ PacketFor(e, state).mid = e.mid
         /\ PacketFor(e, state).type = "PUBLISH" =>
              /\ state # "resend_pubrel"
              /\ PacketFor(e, state).mid = e.mid /\ PacketFor(e, state).qos = e.qos
              /\ PacketFor(e, state).msg = e.msg
<1>1. e.mid \in 0..MidMax
  BY DEF Entry
<1> QED
  BY <1>1, PacketType DEF PacketFor, Publish, Packet

LEMMA WriteSound ==
  ASSUME NEW l \in Lists, Fits(l), Received(l), Asserted(l), Outbound(l), NEW stop, NEW max,
         NEW k, k = AfterWrite(l, stop, max)
  PROVE  Sound(WritePackets(l, stop, max), l, k)
<1>1. DOMAIN k = DOMAIN l /\ Keeps(l, k, {})
      /\ \A a \in DOMAIN l : k[a].state \in Releasing <=> l[a].state \in Releasing
  BY WriteStates
<1>2. WritePackets(l, stop, max) \in Seq(Wire)
  BY WritePacketFacts
<1>3. ASSUME NEW x \in Packets(WritePackets(l, stop, max))
      PROVE  /\ x.type = "PUBLISH" => Published(x, l, k)
             /\ x.type = "PUBREL"  => Freed(x, l, k)
  <2>1. PICK a \in DOMAIN l : /\ Sends(FoundState(l, stop, max, a))
                              /\ x = PacketFor(l[a], FoundState(l, stop, max, a))
    BY WritePacketOf
  <2> DEFINE found == FoundState(l, stop, max, a)
  <2>2. l[a] \in Entry /\ found \in MsgState
        /\ (found \in Releasing <=> l[a].state \in Releasing)
        /\ (found = "resend_pubrel" => l[a].state = "resend_pubrel")
    BY EntryType, FoundReleased
  <2>3. Sends(found) /\ x = PacketFor(l[a], found)
    BY <2>1
  <2> HIDE DEF found
  <2>4. CASE x.type = "PUBLISH"
    <3>1. found # "resend_pubrel" /\ x.mid = l[a].mid /\ x.qos = l[a].qos /\ x.msg = l[a].msg
      BY <2>2, <2>3, <2>4, PacketForFacts
    <3>2. l[a].state \notin Releasing
      BY <2>2, <2>3, <3>1, SentReleased
    <3>3. k[a].dir = l[a].dir /\ k[a].state \notin Releasing
      BY <1>1, <3>2 DEF Keeps
    <3> QED
      BY <1>1, <2>4, <3>1, <3>2, <3>3 DEF Published
  <2>5. CASE x.type = "PUBREL"
    <3>1. l[a].state = "resend_pubrel" /\ x.mid = l[a].mid
      BY <2>2, <2>3, <2>5, PacketForFacts
    <3>2. l[a].state \in Releasing /\ l[a].dir = Out
      BY <3>1 DEF Releasing, Outbound
    <3>3. Match(k, x.mid, Out) = Match(l, x.mid, Out) /\ a \in Match(l, x.mid, Out)
      BY <1>1, <3>1, <3>2 DEF Keeps, Match
    <3>4. ASSUME Sole(l, x.mid), NEW b \in Match(k, x.mid, Out)
          PROVE  k[b].state \in Releasing
      BY <1>1, <3>2, <3>3, <3>4 DEF Sole
    <3> QED
      BY <2>5, <3>3, <3>4 DEF Freed
  <2> QED
    BY <2>4, <2>5
<1> QED
  BY <1>2, <1>3 DEF Sound

LEMMA WritePassActs ==
  ASSUME DInv, Outbound(msgs), WritePass
  PROVE  Acts
<1>1. msgs \in Lists /\ Fits(msgs) /\ Asserted(msgs) /\ Received(msgs) /\ sock' = sock
  BY DFacts DEF WritePass, session
<1>2. CASE sock /\ msgs' = AfterWrite(msgs, PastEnd, limits.inflight)
  <2>1. sent' = WritePackets(msgs, PastEnd, limits.inflight)
    BY <1>2 DEF WritePass, Outputs
  <2> DEFINE stop == PastEnd
             max  == limits.inflight
  <2>2. msgs' = AfterWrite(msgs, stop, max) /\ sent' = WritePackets(msgs, stop, max)
    BY <1>2, <2>1
  <2> HIDE DEF stop, max
  <2>3. Keeps(msgs, msgs', {}) /\ Shifts(toBroker, msgs, msgs') /\ Sound(sent', msgs, msgs')
    BY <1>1, <2>2, WriteStates, WriteShifts, WriteSound
  <2>4. Serves(toBroker, msgs, msgs', sent')
    BY <2>3, KeepsServes
  <2> QED
    BY <1>1, <1>2, <2>4 DEF Acts
<1>3. CASE ~sock
  <2>1. msgs' = msgs
    BY <1>3 DEF WritePass, list
  <2> QED
    BY <1>1, <1>3, <2>1, NoneSound, SameServes DEF Acts
<1> QED
  BY <1>2, <1>3 DEF WritePass

LEMMA WriteFailsActs ==
  ASSUME DInv, Outbound(msgs), NEW stop \in Stamps, WriteFails(stop)
  PROVE  Acts /\ ~sock'
<1> DEFINE max == limits.inflight
           k   == AfterWrite(msgs, stop, max)
<1>1. msgs \in Lists /\ Fits(msgs) /\ Asserted(msgs) /\ sock /\ ~clean
  BY DFacts DEF WriteFails, Reading
<1>2. \E n, n12 : Hangup(k, n, n12)
  BY DEF WriteFails
<1> HIDE DEF max
<1>3. Keeps(msgs, k, {}) /\ Shifts(toBroker, msgs, k)
  BY <1>1, WriteStates, WriteShifts
<1> HIDE DEF k
<1>4. Serves(toBroker, msgs, k, <<>>)
  BY <1>3, NoneSound, KeepsServes
<1> QED
  BY <1>1, <1>2, <1>4, HangupActs

LEMMA DisconnectActs ==
  ASSUME DInv, Outbound(msgs), Disconnect
  PROVE  Acts /\ ~sock'
<1>1. ~clean /\ Hangup(msgs, msg_count, msg_count12)
  BY DFacts DEF Disconnect, Reading
<1> QED
  BY <1>1, NoneSound, SameServes, HangupActs

LEMMA TimeoutCheckActs ==
  ASSUME DInv, Outbound(msgs), NEW S, TimeoutCheck(S)
  PROVE  Acts
<1>1. msgs \in Lists /\ Fits(msgs) /\ msgs' = Retry(msgs, S) /\ sent' = <<>>
  BY DFacts DEF TimeoutCheck, Outputs
<1>2. Keeps(msgs, msgs', {}) /\ Shifts(toBroker, msgs, msgs')
  BY <1>1, RetryKeeps, RetryShifts
<1>3. Serves(toBroker, msgs, msgs', <<>>)
  BY <1>2, NoneSound, KeepsServes
<1> QED
  BY <1>1, <1>3 DEF Acts

\* A new connection resets the list, and begins with CONNACK.
LEMMA ConnectActs ==
  ASSUME DInv, Outbound(msgs), Connect(FALSE)
  PROVE  Acts /\ sock'
<1>1. msgs \in Lists /\ Fits(msgs) /\ limits.inflight \in Nat
  BY DFacts, InvFacts, LimitTypes DEF Rest
<1>2. sock' /\ sent' = <<Packet("CONNACK", 0)>>
      /\ msgs' = Reset(IF clean THEN NoEntries ELSE msgs, limits.inflight)
  BY DEF Connect, Outputs
<1>3. Sound(sent', msgs, msgs')
  BY <1>2, MidTypes, OneSilent, SilentSound
<1>4. CASE ~clean
  <2>1. Keeps(msgs, msgs', {}) /\ Shifts(toBroker, msgs, msgs')
    BY <1>1, <1>2, <1>4, ResetKeeps, ResetShifts
  <2>2. Serves(toBroker, msgs, msgs', sent')
    BY <1>3, <2>1, KeepsServes
  <2> QED
    BY <1>2, <2>2 DEF Acts
<1>5. CASE clean
  <2>1. DOMAIN msgs = {} /\ DOMAIN msgs' = {}
    BY <1>2, <1>5, DFacts, EmptyList DEF Reset
  <2>2. Serves(toBroker, msgs, msgs', sent')
    BY <1>3, <2>1 DEF Serves, Sound, Outbound
  <2> QED
    BY <1>2, <2>2 DEF Acts
<1> QED
  BY <1>4, <1>5
------------------------------------------------------------------------------
\* Every step preserves the invariant.

LEMMA RKept ==
  ASSUME given' \in [Subs -> {NoSub, 0, 1, 2}], got' \in [Subs -> 0..2],
         mids' \in [Subs -> 0..MidMax], held' \in [Mids -> Msgs \cup {NoMsg}],
         Receipt(toBroker', toClient', msgs', given', got', mids', held', returned', redone')
  PROVE  RInv'
  BY DEF RInv, RTypes, Receipt, Listed, Single, Outbound, Genuine, Answer, Holding, Queueing,
         OnTheWay, OnlyOnce, NoneBehind, Carrying, Packets, Of, Used, Alone, Has

LEMMA RFacts ==
  ASSUME RInv
  PROVE  /\ given \in [Subs -> {NoSub, 0, 1, 2}] /\ got \in [Subs -> 0..2]
         /\ mids \in [Subs -> 0..MidMax] /\ held \in [Mids -> Msgs \cup {NoMsg}]
         /\ Receipt(toBroker, toClient, msgs, given, got, mids, held, returned, redone)
         /\ Outbound(msgs) /\ Queueing(given, got, mids)
         /\ Holding(held, given, mids, returned)
  BY DEF RInv, RTypes, Receipt

LEMMA InboundMsgs ==
  ASSUME DInv
  PROVE  Inbound(msgs)
<1>1. /\ \A a \in DOMAIN msgs : msgs[a].dir \in {In, Out}
      /\ \A a \in DOMAIN msgs : msgs[a].dir = In => Owned(pub, pubMid, msgs[a])
      /\ \A p \in Pubs : Busy(pub[p]) => pubMid[p] \in Mids
  BY DFacts, EntryType DEF Handshake
<1> QED
  BY <1>1 DEF Inbound, Owned

LEMMA ObserveRecords ==
  ASSUME Observe, NEW p, p = sent' \/ p = <<>>
  PROVE  Recording(msgs, msgs', p, returned, returned', redone, redone')
<1>1. \A x \in Packets(p) : x.type = "PUBLISH" /\ x.msg \in Pubs => x.mid \in Returned
  BY DEF Packets, Returned
<1>2. \A a \in DOMAIN msgs' \cap DOMAIN msgs :
        msgs[a].state = "resend_pubrel" /\ msgs'[a].state = "publish_qos2"
          => msgs[a].msg \in Redone
  BY DEF Redone
<1> QED
  BY <1>1, <1>2 DEF Observe, Recording

LEMMA ActsReceipt ==
  ASSUME DInv, RInv, Acts, Observe, UNCHANGED <<given, mids, held>>,
         Less(toBroker, toBroker'), NEW rest, Less(toClient, rest),
         toClient' = rest \o IF sock' THEN sent' ELSE <<>>
  PROVE  RInv'
<1> DEFINE p == IF sock' THEN sent' ELSE <<>>
<1>1. toBroker \in Seq(Wire) /\ toClient \in Seq(Wire) /\ toClient' = rest \o p
      /\ Serves(toBroker, msgs, msgs', p) /\ (p = sent' \/ p = <<>>)
  BY DFacts DEF Acts
<1> HIDE DEF p
<1>2. Serving(toBroker, toClient, msgs, toBroker', toClient', msgs', rest, p)
  BY <1>1 DEF Serving
<1>3. Inbound(msgs) /\ Recording(msgs, msgs', p, returned, returned', redone, redone')
  BY <1>1, InboundMsgs, ObserveRecords
<1>4. Receipt(toBroker, toClient, msgs, given, got, mids, held, returned, redone)
  BY RFacts
<1>5. Receipt(toBroker', toClient', msgs', given, got, mids, held, returned', redone')
  BY <1>2, <1>3, <1>4, ServesReceipt
<1>6. given' = given /\ mids' = mids /\ held' = held /\ got' = got
  BY DEF Observe
<1> QED
  BY <1>5, <1>6, RFacts, RKept

LEMMA DeliverReceipt ==
  ASSUME DInv, RInv, Acts, Observe, UNCHANGED <<given, mids>>,
         NEW left, Less(toBroker, left), Deliver(left)
  PROVE  RInv'
<1>1. Less(toBroker, toBroker') /\ held' = held
  BY DEF Deliver, Less
<1>2. CASE sock'
  <2>1. toClient' = toClient \o sent'
    BY <1>2 DEF Deliver
  <2>2. Less(toClient, toClient) /\ toClient' = toClient \o IF sock' THEN sent' ELSE <<>>
    BY <1>2, <2>1 DEF Less
  <2> QED
    BY <1>1, <2>2, ActsReceipt
<1>3. CASE ~sock'
  <2>1. toClient' = <<>> /\ <<>> \o <<>> = <<>>
    BY <1>3 DEF Deliver
  <2>2. Less(toClient, <<>>) /\ toClient' = <<>> \o IF sock' THEN sent' ELSE <<>>
    BY <1>3, <2>1 DEF Less
  <2> QED
    BY <1>1, <2>2, ActsReceipt
<1> QED
  BY <1>2, <1>3

LEMMA BrokerReceivesReceipt ==
  ASSUME DInv, RInv, BrokerReceives
  PROVE  RInv'
<1> DEFINE x == Head(toBroker)
<1>1. /\ toBroker # <<>> /\ Handle(x) /\ Deliver(Tail(toBroker)) /\ Observe
      /\ UNCHANGED <<given, mids>> /\ Less(toBroker, Tail(toBroker))
  BY DEF BrokerReceives, Less
<1>2. Outbound(msgs) /\ x \in Wire /\ x.mid \in 0..MidMax
  BY <1>1, DFacts, RFacts, HeadPackets DEF Wire
<1>3. Acts
  <2>1. CASE x.type = "PUBLISH" /\ PublishQos2(x.mid, x.msg)
    BY <1>1, <1>2, <2>1, PublishType, PublishQos2Acts
  <2>2. CASE x.type \in {"PUBACK", "PUBCOMP"} /\ PubAckComp(x.mid)
    BY <1>1, <1>2, <2>2, PubAckCompActs
  <2>3. CASE x.type = "PUBREC" /\ PubRec(x.mid)
    BY <1>1, <1>2, <2>3, PubRecActs
  <2>4. CASE x.type = "PUBREL" /\ PubRel(x.mid, NoSub)
    BY <1>2, <2>4, PubRelActs
  <2> QED
    BY <1>1, <2>1, <2>2, <2>3, <2>4 DEF Handle
<1> QED
  BY <1>1, <1>3, DeliverReceipt

LEMMA BrokerWritesReceipt ==
  ASSUME DInv, RInv, BrokerWrites
  PROVE  RInv'
<1>1. Acts
  BY RFacts, WritePassActs DEF BrokerWrites
<1> QED
  BY <1>1, DeliverReceipt DEF BrokerWrites, Less

LEMMA BrokerRetriesReceipt ==
  ASSUME DInv, RInv, NEW S, BrokerRetries(S)
  PROVE  RInv'
<1>1. Acts
  BY RFacts, TimeoutCheckActs DEF BrokerRetries
<1> QED
  BY <1>1, DeliverReceipt DEF BrokerRetries, Less

LEMMA BrokerLosesClientReceipt ==
  ASSUME DInv, RInv, BrokerLosesClient
  PROVE  RInv'
<1>1. Acts
  BY RFacts, DisconnectActs, WriteFailsActs DEF BrokerLosesClient
<1> QED
  BY <1>1, DeliverReceipt DEF BrokerLosesClient, Less

LEMMA ClientConnectsReceipt ==
  ASSUME DInv, RInv, ClientConnects
  PROVE  RInv'
<1>1. Acts /\ sock'
  BY RFacts, ConnectActs DEF ClientConnects
<1>2. toBroker' = <<>> /\ toClient' = sent' /\ UNCHANGED <<given, mids, held>> /\ Observe
  BY DEF ClientConnects, client
<1>3. sent' \in Seq(Wire)
  BY <1>1 DEF Acts, Serves
<1>4. sent' = <<>> \o sent'
  BY <1>3
<1>5. toClient' = <<>> \o IF sock' THEN sent' ELSE <<>>
  BY <1>1, <1>2, <1>4
<1> QED
  BY <1>1, <1>2, <1>5, ActsReceipt DEF Less
------------------------------------------------------------------------------
\* A message is queued for the client, or there is no room for it.
LEMMA BrokerRoutesReceipt ==
  ASSUME DInv, RInv, NEW qos \in {1, 2}, NEW s \in Subs, BrokerRoutes(qos, s)
  PROVE  RInv'
<1> DEFINE q == IF DOMAIN msgs' = DOMAIN msgs THEN 0 ELSE qos
           m == last_mid'
<1>1. /\ msgs \in Lists /\ Asserted(msgs) /\ toBroker \in Seq(Wire) /\ toClient \in Seq(Wire)
      /\ given \in [Subs -> {NoSub, 0, 1, 2}] /\ mids \in [Subs -> 0..MidMax]
      /\ Receipt(toBroker, toClient, msgs, given, got, mids, held, returned, redone)
  BY DFacts, RFacts
<1>2. /\ given[s] = NoSub /\ Route(qos, s) /\ Deliver(toBroker) /\ Observe
      /\ given' = [given EXCEPT ![s] = q] /\ mids' = [mids EXCEPT ![s] = m]
  BY DEF BrokerRoutes
<1>3. m = NextMid(last_mid) /\ m \in Mids /\ sent' = <<>> /\ qos > 0 /\ qos \in QoS
  <2>1. last_mid \in 0..MidMax
    BY DFacts, InvFacts DEF Rest
  <2>2. m = NextMid(last_mid) /\ sent' = <<>>
    BY <1>2 DEF Route, Outputs
  <2>3. NextMid(last_mid) \in Mids
    BY <2>1, MidAssumption DEF NextMid, Mids
  <2> QED
    BY <2>2, <2>3 DEF QoS
<1>4. PICK at \in Stamps : IsNext(msgs, at) /\ msgs' = Inserted(msgs, at, Out, m, qos, s)
  BY <1>2, <1>3 DEF Route, Insert
<1> DEFINE e == [mid |-> m, dir |-> Out, qos |-> qos,
                 state |-> Admit(Out, qos, msg_count12), msg |-> s]
<1>5. \/ msgs' = msgs
      \/ Appended(msgs, at, e, msgs')
  <2>1. at \notin DOMAIN msgs
    BY <1>1, <1>4, EntryType DEF IsNext, Stamps
  <2>2. msgs' = msgs \/ msgs' = Append1(msgs, at, e)
    BY <1>4 DEF Inserted
  <2> QED
    BY <2>1, <2>2 DEF Append1, Appended
<1>6. /\ e.dir = Out /\ e.msg = s /\ e.qos = qos /\ e.mid = m /\ e.state \notin Releasing
  BY <1>3, AdmitUnreleased
<1> HIDE DEF e
<1>7. \/ msgs' = msgs /\ q = 0
      \/ Appended(msgs, at, e, msgs') /\ e.qos = q
  BY <1>5, <1>6 DEF Appended
<1>8. Assigned(given, mids, s, q, m, given', mids')
  <2>1. mids[s] = 0
    BY <1>2, RFacts DEF Queueing
  <2>2. q \in QoS
    BY <1>3 DEF QoS
  <2> HIDE DEF q, m
  <2> QED
    BY <1>1, <1>2, <1>3, <2>1, <2>2 DEF Assigned
<1> HIDE DEF q, m
<1>9. Receipt(toBroker, toClient, msgs', given', got, mids', held, returned, redone)
  BY <1>1, <1>6, <1>7, <1>8, QueuesReceipt
\* If the client is away, nothing is in transit.
<1>10. Calm
  BY <1>2, DeliveryAssumption, RouteCalm
<1>11. Inbound(msgs')
  <2>1. \A a \in DOMAIN msgs' : msgs'[a].dir \in {In, Out}
    <3>1. msgs' \in Lists
      BY <1>10 DEF Calm, Inv, Good
    <3> QED
      BY <3>1, EntryType
  <2>2. Inbound(msgs) /\ SameInbound(msgs, msgs') /\ In # Out
    BY <1>10, InboundMsgs DEF Calm, In, Out
  <2> QED
    BY <2>1, <2>2 DEF Inbound, SameInbound
<1>12. Recording(msgs', msgs', <<>>, returned, returned', redone, redone')
  BY <1>2 DEF Observe, Recording, Packets
<1>13. Serves(toBroker, msgs', msgs', <<>>)
  BY <1>9, NoneSound, SameServes DEF Receipt
<1>14. PICK rest : Less(toClient, rest) /\ toClient' = rest \o <<>> /\ Less(toBroker, toBroker')
  <2>1. toClient \o <<>> = toClient /\ <<>> \o <<>> = <<>>
    BY <1>1
  <2> QED
    BY <1>2, <1>3, <2>1 DEF Deliver, Less
<1>15. Serving(toBroker, toClient, msgs', toBroker', toClient', msgs', rest, <<>>)
  BY <1>1, <1>13, <1>14 DEF Serving
<1>16. Receipt(toBroker', toClient', msgs', given', got, mids', held, returned', redone')
  BY <1>9, <1>11, <1>12, <1>15, ServesReceipt
<1>17. /\ given' \in [Subs -> {NoSub, 0, 1, 2}] /\ mids' \in [Subs -> 0..MidMax]
       /\ held' = held /\ got' = got
  <2>1. q \in {NoSub, 0, 1, 2} /\ m \in 0..MidMax
    BY <1>3, MidTypes DEF q
  <2> QED
    BY <1>1, <1>2, <2>1 DEF Deliver, Observe
<1> QED
  BY <1>16, <1>17, RFacts, RKept
------------------------------------------------------------------------------
\* The client's steps.

LEMMA ClientQuiet ==
  ASSUME DInv, RInv, UNCHANGED <<msgs, held, history>>, Less(toClient, toClient'),
         NEW r \in Seq(Wire), \A x \in Packets(r) : x.type \in {"PUBLISH", "PUBREL"},
         toBroker' = toBroker \o r
  PROVE  RInv'
<1>1. /\ toBroker \in Seq(Wire) /\ toClient \in Seq(Wire)
      /\ Receipt(toBroker, toClient, msgs, given, got, mids, held, returned, redone)
  BY DFacts, RFacts
<1>2. Receipt(toBroker', toClient', msgs, given, got, mids, held, returned, redone)
  BY <1>1, QuietReceipt
<1>3. /\ msgs' = msgs /\ given' = given /\ got' = got /\ mids' = mids /\ held' = held
      /\ returned' = returned /\ redone' = redone
  BY DEF history
<1> QED
  BY <1>2, <1>3, RFacts, RKept

LEMMA ClientPublishesReceipt ==
  ASSUME DInv, RInv, NEW p \in Pubs, ClientPublishes(p)
  PROVE  RInv'
<1>1. PICK mid \in Mids :
        toBroker' = Append(toBroker, [type |-> "PUBLISH", mid |-> mid, qos |-> 2, msg |-> p])
  BY DEF ClientPublishes
<1> DEFINE x == [type |-> "PUBLISH", mid |-> mid, qos |-> 2, msg |-> p]
<1>2. x \in Wire /\ x.type = "PUBLISH"
  BY MidTypes, DeliveryAssumption DEF Wire, QoS
<1>3. toBroker' = Append(toBroker, x) /\ toBroker \in Seq(Wire)
  BY <1>1, DFacts
<1> HIDE DEF x
<1>4. toBroker' = toBroker \o <<x>> /\ <<x>> \in Seq(Wire)
      /\ \A y \in Packets(<<x>>) : y.type \in {"PUBLISH", "PUBREL"}
  BY <1>2, <1>3, OnePacket
<1>5. UNCHANGED <<msgs, held, history>> /\ Less(toClient, toClient')
  BY DEF ClientPublishes, vars, Less
<1> QED
  BY <1>4, <1>5, ClientQuiet

LEMMA UnansweredType ==
  ASSUME NEW p
  PROVE  Unanswered(p).type \in {"PUBLISH", "PUBREL"}
  BY DEF Unanswered, Packet

LEMMA ClientRepeatsReceipt ==
  ASSUME DInv, RInv, NEW p \in Pubs, ClientRepeats(p)
  PROVE  RInv'
<1>1. toBroker' = Append(toBroker, Unanswered(p)) /\ toBroker \in Seq(Wire)
      /\ Unanswered(p) \in Wire /\ Unanswered(p).type \in {"PUBLISH", "PUBREL"}
  BY DFacts, UnansweredHonest, UnansweredType DEF ClientRepeats
<1> DEFINE x == Unanswered(p)
<1> HIDE DEF x
<1>2. toBroker' = toBroker \o <<x>> /\ <<x>> \in Seq(Wire)
      /\ \A y \in Packets(<<x>>) : y.type \in {"PUBLISH", "PUBREL"}
  BY <1>1, OnePacket DEF x
<1>3. UNCHANGED <<msgs, held, history>> /\ Less(toClient, toClient')
  BY DEF ClientRepeats, vars, client, Less
<1> QED
  BY <1>2, <1>3, ClientQuiet

LEMMA ClientLosesBrokerReceipt ==
  ASSUME DInv, RInv, ClientLosesBroker
  PROVE  RInv'
<1>1. UNCHANGED <<msgs, held, history, toBroker, toClient>>
  BY DEF ClientLosesBroker, vars, network
<1>2. toBroker' = toBroker \o <<>> /\ <<>> \in Seq(Wire) /\ Packets(<<>>) = {}
  BY <1>1, DFacts DEF Packets
<1> QED
  BY <1>1, <1>2, ClientQuiet DEF Less
------------------------------------------------------------------------------
\* The client takes a packet; what the broker and the histories of it hold stays.
Receives == Takes /\ RInv /\ UNCHANGED <<given, mids, redone, returned>>

LEMMA ReceivesFacts ==
  ASSUME Receives
  PROVE  /\ toClient # <<>> /\ toClient' = Tail(toClient) /\ ClientTakes(Head(toClient))
         /\ toBroker \in Seq(Wire) /\ toClient \in Seq(Wire) /\ Less(toClient, toClient')
         /\ Receipt(toBroker, toClient, msgs, given, got, mids, held, returned, redone)
         /\ given \in [Subs -> {NoSub, 0, 1, 2}] /\ got \in [Subs -> 0..2]
         /\ mids \in [Subs -> 0..MidMax] /\ held \in [Mids -> Msgs \cup {NoMsg}]
         /\ msgs' = msgs /\ given' = given /\ mids' = mids
         /\ redone' = redone /\ returned' = returned
         /\ Head(toClient) \in Wire /\ Genuine(Head(toClient), given, mids, returned)
<1>1. DInv /\ RInv /\ toClient # <<>> /\ toClient' = Tail(toClient) /\ UNCHANGED vars
  BY DEF Receives, Takes
<1>2. toClient \in Seq(Wire) /\ Head(toClient) \in Packets(toClient)
  BY <1>1, DFacts, HeadPackets
<1>3. Genuine(Head(toClient), given, mids, returned)
  BY <1>1, <1>2, RFacts DEF Receipt
<1> QED
  BY <1>1, <1>3, TakesFacts, RFacts DEF Receives, Takes, vars

\* The client's answer to what it has been sent.
LEMMA ReceivesKept ==
  ASSUME Receives, got' \in [Subs -> 0..2], held' \in [Mids -> Msgs \cup {NoMsg}],
         Receipt(toBroker', Tail(toClient), msgs, given, got', mids, held', returned, redone)
  PROVE  RInv'
<1>1. Receipt(toBroker', toClient', msgs', given', got', mids', held', returned', redone')
  BY ReceivesFacts
<1>2. given' \in [Subs -> {NoSub, 0, 1, 2}] /\ mids' \in [Subs -> 0..MidMax]
  BY ReceivesFacts
<1> QED
  BY <1>1, <1>2, RKept

LEMMA CappedType ==
  ASSUME NEW n \in 0..2
  PROVE  Capped(n + 1) \in 0..2
  BY DEF Capped

LEMMA TakesQos1 ==
  ASSUME NEW x, ClientTakes(x), x.type = "PUBLISH", x.qos = 1
  PROVE  /\ got' = Receipts(x) /\ held' = held
         /\ toBroker' = Append(toBroker, Packet("PUBACK", x.mid))
<1> QED
  BY DEF ClientTakes

LEMMA TakesQos2 ==
  ASSUME NEW x, ClientTakes(x), x.type = "PUBLISH", x.qos = 2
  PROVE  /\ got' = got
         /\ held' = IF held[x.mid] = NoMsg THEN [held EXCEPT ![x.mid] = x.msg] ELSE held
         /\ toBroker' = Append(toBroker, Packet("PUBREC", x.mid))
<1> QED
  BY DEF ClientTakes

LEMMA TakesPubrel ==
  ASSUME NEW x, ClientTakes(x), x.type = "PUBREL"
  PROVE  /\ got' = IF held[x.mid] \in Subs THEN [got EXCEPT ![held[x.mid]] = Capped(@ + 1)]
                                           ELSE got
         /\ held' = [held EXCEPT ![x.mid] = NoMsg]
         /\ toBroker' = Append(toBroker, Packet("PUBCOMP", x.mid))
<1> QED
  BY DEF ClientTakes

\* An answer is appended as a sequence of one packet.
LEMMA AnswerAppended ==
  ASSUME Receives, NEW type \in {"PUBACK", "PUBREC", "PUBCOMP"},
         toBroker' = Append(toBroker, Packet(type, Head(toClient).mid))
  PROVE  toBroker' = toBroker \o <<Packet(type, Head(toClient).mid)>>
<1>1. Head(toClient).mid \in 0..MidMax /\ toBroker \in Seq(Wire)
  BY ReceivesFacts DEF Wire
<1>2. Packet(type, Head(toClient).mid) \in Wire
  BY <1>1, PacketType
<1> QED
  BY <1>1, <1>2, OneFacts

LEMMA ReceivesQos1 ==
  ASSUME Receives, Head(toClient).type = "PUBLISH", Head(toClient).qos = 1
  PROVE  RInv'
<1> DEFINE x == Head(toClient)
<1>1. got' = Receipts(x) /\ held' = held
      /\ toBroker' = Append(toBroker, Packet("PUBACK", x.mid))
  BY ReceivesFacts, TakesQos1
<1>2. toBroker' = toBroker \o <<Packet("PUBACK", x.mid)>>
  BY <1>1, AnswerAppended
<1>3. \A s \in Subs : got'[s] = IF s = x.msg THEN Capped(got[s] + 1) ELSE got[s]
  BY <1>1, ReceivesFacts DEF Receipts
<1>4. got' \in [Subs -> 0..2]
  BY <1>1, ReceivesFacts, CappedType DEF Receipts
<1>5. Receipt(toBroker', Tail(toClient), msgs, given, got', mids, held, returned, redone)
  BY <1>2, <1>3, ReceivesFacts, Qos1Receipt, ZenonT(40)
<1> QED
  BY <1>1, <1>4, <1>5, ReceivesFacts, ReceivesKept

LEMMA ReceivesQos2 ==
  ASSUME Receives, Head(toClient).type = "PUBLISH", Head(toClient).qos = 2
  PROVE  RInv'
<1> DEFINE x == Head(toClient)
<1>1. got' = got
      /\ held' = (IF held[x.mid] = NoMsg THEN [held EXCEPT ![x.mid] = x.msg] ELSE held)
      /\ toBroker' = Append(toBroker, Packet("PUBREC", x.mid))
  BY ReceivesFacts, TakesQos2
<1>2. toBroker' = toBroker \o <<Packet("PUBREC", x.mid)>>
  BY <1>1, AnswerAppended
<1>3. x.mid \in Mids /\ x.msg \in Msgs \cup {NoMsg}
  BY ReceivesFacts DEF Genuine, Wire
<1>4. HeldNow(held, held', x.mid, x.msg)
  BY <1>1, <1>3, ReceivesFacts DEF HeldNow
<1>5. held' \in [Mids -> Msgs \cup {NoMsg}]
  BY <1>1, <1>3, ReceivesFacts
<1> HIDE DEF x
<1>6. Receipt(toBroker', Tail(toClient), msgs, given, got, mids, held', returned, redone)
  <2>1. /\ toBroker \in Seq(Wire) /\ toClient \in Seq(Wire) /\ toClient # <<>>
        /\ Receipt(toBroker, toClient, msgs, given, got, mids, held, returned, redone)
        /\ x = Head(toClient) /\ x.type = "PUBLISH" /\ x.qos = 2
    BY ReceivesFacts DEF x
  <2> QED
    BY ONLY <1>2, <1>4, <2>1, Qos2Receipt
<1> QED
  BY <1>1, <1>5, <1>6, ReceivesFacts, ReceivesKept

LEMMA ReceivesPubrel ==
  ASSUME Receives, Head(toClient).type = "PUBREL"
  PROVE  RInv'
<1> DEFINE x == Head(toClient)
<1>1. /\ got' = IF held[x.mid] \in Subs THEN [got EXCEPT ![held[x.mid]] = Capped(@ + 1)] ELSE got
      /\ held' = [held EXCEPT ![x.mid] = NoMsg]
      /\ toBroker' = Append(toBroker, Packet("PUBCOMP", x.mid))
  BY ReceivesFacts, TakesPubrel
<1>2. toBroker' = toBroker \o <<Packet("PUBCOMP", x.mid)>>
  BY <1>1, AnswerAppended
<1>3. x.mid \in Mids
  BY ReceivesFacts DEF Genuine
<1>4. Dropped(held, held', x.mid)
  BY <1>1, <1>3, ReceivesFacts DEF Dropped
<1>5. held' \in [Mids -> Msgs \cup {NoMsg}]
  BY <1>1, <1>3, ReceivesFacts
<1>6. OnceMore(got, got', held[x.mid])
  BY <1>1, ReceivesFacts DEF OnceMore
<1>7. got' \in [Subs -> 0..2]
  BY <1>1, ReceivesFacts, CappedType
<1> HIDE DEF x
<1>8. Receipt(toBroker', Tail(toClient), msgs, given, got', mids, held', returned, redone)
  <2>1. /\ toBroker \in Seq(Wire) /\ toClient \in Seq(Wire) /\ toClient # <<>>
        /\ Receipt(toBroker, toClient, msgs, given, got, mids, held, returned, redone)
        /\ got \in [Subs -> 0..2] /\ x = Head(toClient) /\ x.type = "PUBREL"
    BY ReceivesFacts DEF x
  <2> QED
    BY ONLY <1>2, <1>4, <1>6, <2>1, PubrelReceipt
<1> QED
  BY <1>5, <1>7, <1>8, ReceivesKept

LEMMA RepeatsTypes ==
  ASSUME DInv
  PROVE  Repeats \in Seq(Wire) /\ \A x \in Packets(Repeats) : x.type \in {"PUBLISH", "PUBREL"}
<1>1. Repeats \in Seq(Wire)
  BY RepeatsHonest DEF Honest
<1>2. \A x \in Packets(Repeats) : \E p : x = Unanswered(p)
  BY DEF Repeats, Packets
<1> QED
  BY <1>1, <1>2, UnansweredType

\* CONNACK, and the answers to what the client publishes.
LEMMA ReceivesOthers ==
  ASSUME Receives, Head(toClient).type \in {"CONNACK", "PUBREC", "PUBCOMP"}
  PROVE  RInv'
<1> DEFINE x == Head(toClient)
<1>1. DInv /\ RInv /\ toBroker \in Seq(Wire) /\ ClientTakes(x) /\ x.mid \in 0..MidMax
      /\ Less(toClient, toClient')
  BY ReceivesFacts DEF Receives, Takes, Wire
<1>2. held' = held /\ got' = got
  BY <1>1 DEF ClientTakes
<1>3. UNCHANGED <<msgs, held, history>>
  BY <1>2, ReceivesFacts DEF Receives, Takes, history
<1>4. PICK r \in Seq(Wire) : /\ \A y \in Packets(r) : y.type \in {"PUBLISH", "PUBREL"}
                             /\ toBroker' = toBroker \o r
  <2>1. CASE x.type = "CONNACK"
    BY <1>1, <2>1, RepeatsTypes DEF ClientTakes
  <2>2. CASE x.type = "PUBREC"
    <3>1. toBroker' = Append(toBroker, Packet("PUBREL", x.mid))
      BY <1>1, <2>2 DEF ClientTakes
    <3>2. Packet("PUBREL", x.mid) \in Wire /\ Packet("PUBREL", x.mid).type = "PUBREL"
      BY <1>1, PacketType
    <3> DEFINE y == Packet("PUBREL", x.mid)
    <3> HIDE DEF y
    <3>3. toBroker' = toBroker \o <<y>> /\ <<y>> \in Seq(Wire) /\ Packets(<<y>>) = {y}
      BY <1>1, <3>1, <3>2, OnePacket DEF y
    <3> QED
      BY <3>2, <3>3 DEF y
  <2>3. CASE x.type = "PUBCOMP"
    <3>1. toBroker' = toBroker
      BY <1>1, <2>3 DEF ClientTakes
    <3>2. toBroker' = toBroker \o <<>> /\ <<>> \in Seq(Wire) /\ Packets(<<>>) = {}
      BY <1>1, <3>1 DEF Packets
    <3> QED
      BY <3>2
  <2> QED
    BY <2>1, <2>2, <2>3
<1> QED
  BY <1>1, <1>3, <1>4, ClientQuiet

LEMMA ClientReceivesReceipt ==
  ASSUME DInv, RInv, ClientReceives
  PROVE  RInv'
<1>1. Receives
  BY DEF Receives, Takes, ClientReceives
<1>2. Head(toClient) \in Wire /\ Head(toClient).type # "PUBACK"
      /\ (Head(toClient).type = "PUBLISH" => Head(toClient).qos \in {1, 2})
  BY <1>1, TakesFacts DEF Receives
<1>3. Head(toClient).type \in {"CONNACK", "PUBREC", "PUBREL", "PUBCOMP", "PUBLISH"}
  BY <1>2 DEF Wire
<1> QED
  BY <1>1, <1>2, <1>3, ReceivesQos1, ReceivesQos2, ReceivesPubrel, ReceivesOthers
------------------------------------------------------------------------------
LEMMA RInvInit == DInit => RInv
<1> SUFFICES ASSUME DInit PROVE RInv
  OBVIOUS
<1>1. /\ toBroker = <<>> /\ toClient = <<>> /\ msgs = NoEntries
      /\ held = [mid \in Mids |-> NoMsg]
      /\ given = [s \in Subs |-> NoSub] /\ got = [s \in Subs |-> 0]
      /\ mids = [s \in Subs |-> 0]
  BY DEF DInit, Init
<1>2. DOMAIN msgs = {} /\ Packets(toBroker) = {} /\ Packets(toClient) = {}
  BY <1>1, EmptyList DEF Packets
<1>3. RTypes
  BY <1>1, MidTypes DEF RTypes
<1>4. Listed(msgs, given, mids) /\ Single(msgs) /\ Outbound(msgs)
  BY <1>2 DEF Listed, Single, Outbound
<1>5. Holding(held, given, mids, returned) /\ Queueing(given, got, mids)
  BY <1>1 DEF Holding, Queueing
<1>6. \A s \in Subs : ~(given[s] > 0) /\ given[s] # 2
  BY <1>1 DEF NoSub
<1> QED
  BY <1>2, <1>3, <1>4, <1>5, <1>6 DEF RInv, Receipt

LEMMA RInvStutters ==
  ASSUME DInv, RInv, UNCHANGED dvars
  PROVE  RInv'
<1>1. UNCHANGED <<msgs, held, history, toBroker, toClient>>
  BY DEF dvars, vars, client, network
<1>2. toBroker' = toBroker \o <<>> /\ <<>> \in Seq(Wire) /\ Packets(<<>>) = {}
  BY <1>1, DFacts DEF Packets
<1> QED
  BY <1>1, <1>2, ClientQuiet DEF Less

LEMMA RInvNext == DInv /\ RInv /\ [DNext]_dvars => RInv'
<1> SUFFICES ASSUME DInv, RInv, [DNext]_dvars
             PROVE  RInv'
  OBVIOUS
<1>1. CASE BrokerReceives
  BY <1>1, BrokerReceivesReceipt
<1>2. CASE \E qos \in {1, 2}, s \in Subs : BrokerRoutes(qos, s)
  BY <1>2, BrokerRoutesReceipt
<1>3. CASE BrokerWrites
  BY <1>3, BrokerWritesReceipt
<1>4. CASE \E S \in SUBSET Waiting(msgs) : BrokerRetries(S)
  BY <1>4, BrokerRetriesReceipt
<1>5. CASE BrokerLosesClient
  BY <1>5, BrokerLosesClientReceipt
<1>6. CASE ClientLosesBroker
  BY <1>6, ClientLosesBrokerReceipt
<1>7. CASE ClientConnects
  BY <1>7, ClientConnectsReceipt
<1>8. CASE \E p \in Pubs : ClientPublishes(p) \/ ClientRepeats(p)
  BY <1>8, ClientPublishesReceipt, ClientRepeatsReceipt
<1>9. CASE ClientReceives
  BY <1>9, ClientReceivesReceipt
<1>10. CASE UNCHANGED dvars
  BY <1>10, RInvStutters
<1> QED
  BY <1>1, <1>2, <1>3, <1>4, <1>5, <1>6, <1>7, <1>8, <1>9, <1>10 DEF DNext

LEMMA RInvAlways == DSpec => []RInv
  BY RInvInit, RInvNext, DInvAlways, PTL DEF DSpec

------------------------------------------------------------------------------
\* The theorems.

\* The only losses: for any number of messages, identifiers, packets in transit and
\* lost connections, a message that was queued for a client which keeps its session
\* stays in the list until the application has it, unless another message was queued
\* under the same identifier or the client was sent its own message under it
\* (database.c:256-301, 621-741, context.c:44).
THEOREM NothingElseLost == DSpec => []LostOnlyIfShared
<1>1. ASSUME RInv, NEW s \in Subs, Lost(s), ~Shared(s)
      PROVE  FALSE
  <2>1. Alone(mids, s) /\ mids[s] \notin returned
    BY <1>1 DEF Shared, Reused, Alone
  <2>2. given[s] > 0 /\ got[s] = 0 /\ ~Kept(s)
    BY <1>1 DEF Lost
  <2>3. Of(msgs, s) # {}
    BY <1>1, <2>1, <2>2, RFacts DEF Receipt, OnTheWay
  <2> QED
    BY <2>2, <2>3 DEF Kept, OutEntries, Of
<1>2. RInv => LostOnlyIfShared
  BY <1>1 DEF LostOnlyIfShared
<1> QED
  BY <1>2, RInvAlways, PTL

\* The only duplicates: a QoS 2 message whose identifier no other one has is given to
\* the application twice only if a reconnection has moved it back from PUBREL to
\* PUBLISH (database.c:648-652), whatever was repeated, lost or reset otherwise.
THEOREM NothingElseTwice == DSpec => []TwiceOnlyIfRedone
<1>1. ASSUME RInv, NEW s \in Subs, given[s] = 2, got[s] > 1, s \notin redone, ~Reused(s)
      PROVE  FALSE
  <2>1. Alone(mids, s)
    BY <1>1 DEF Reused, Alone
  <2>2. got[s] <= 1 /\ got[s] \in 0..2
    BY <1>1, <2>1, RFacts DEF Receipt, OnlyOnce
  <2> QED
    BY <1>1, <2>2
<1>2. RInv => TwiceOnlyIfRedone
  BY <1>1 DEF TwiceOnlyIfRedone
<1> QED
  BY <1>2, RInvAlways, PTL
==============================================================================

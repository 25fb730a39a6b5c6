---------------------------- MODULE Services_proofs ----------------------------
(***************************************************************************)
(* What the console and the collector leave in their databases: for every  *)
(* set of messages, every list to begin with, any number of connections,   *)
(* imports, removals and crashes, and every order of the answers.          *)
(*                                                                         *)
(* A bag of calls is described by its copies (BagFacts): a handler adds to *)
(* them (Adds, Makes), an answer takes one away (Takes), and the end of a  *)
(* process makes all of them calls without a callback (OrphanedFacts).     *)
(* The console's invariant, ScInv, follows a datum from its arrival into   *)
(* the database and a registration through the two calls it takes.  The    *)
(* collector's, PdInv, says of a datum that no other call was made for     *)
(* while one was under way which calls may be under way together, and what *)
(* the database holds then (Agrees); after a start, that the list decides. *)
(***************************************************************************)
EXTENDS Services, Lists_proofs

\* The bags of elements of S.
BagsOf(S) == UNION {[T -> Nat \ {0}] : T \in SUBSET S}

------------------------------------------------------------------------------
\* The console's inductive invariant.

\* What the console publishes, which it may receive again.
Own == {Message("SERV", "USER_01", "sensordata"), Message("SERV", "USER_01", "responseService"),
        Message("THR", "USER_01", "responseThr"), Message("TGThr", "TG_01", "changeThrReq")}

Registering == {"findList", "update", "push"}
ScCall == [op : Registering \cup {"insert", "findThr", "findServices", "findDetail"}, m : ScMsg, live : BOOLEAN]
Entry == [dev : STRING \cup {NoDocument}, val : Nat]
Data == {"TGdata", "Log"}

ScState == [phase : {"down", "clearing", "offline", "online"}, keys : Nat, listeners : Nat,
            inbox : Seq(ScMsg \cup Own), calls : BagsOf(ScCall), tgcfg : Seq(Entry), stored : [ScMsg -> Nat]]
Notes == [connects : Nat, crashes : Nat, again : SUBSET (ScMsg \cup Own), last : [Devs -> Nat], overlap : SUBSET Devs]

\* A process that has ended has no callbacks; one that is connected has a listener.
ScAlive(p) ==
  /\ p.phase = "online" => p.listeners > 0
  /\ p.phase = "down" => \A c \in DOMAIN p.calls : ~c.live

\* Where a datum may be: on its way, in a call or in the database.
Arriving(p, m) == {i \in DOMAIN p.inbox : p.inbox[i] = m}
Inserted(p, m) ==
  p.stored[m] + Copies(Call("insert", m), p.calls) + Copies(Orphan(Call("insert", m)), p.calls)
StoresTrue(p, again, snt) ==
  \A m \in ScMsg :
    IF m.topic \in Data
    THEN m \notin again =>
           /\ \A i, j \in Arriving(p, m) : i = j
           /\ Inserted(p, m) <= IF Arriving(p, m) = {} THEN 1 ELSE 0
           /\ m \notin snt => Inserted(p, m) = 0 /\ Arriving(p, m) = {}
    ELSE Inserted(p, m) = 0

Pending(p, d) == {c \in DOMAIN p.calls : c.op \in Registering /\ c.m.dev = d}

DeviceTrue(p, d, v) ==
  /\ \A c \in Pending(p, d) :
       /\ c.live /\ p.calls[c] = 1 /\ c.m.val = v
       /\ \A e \in Pending(p, d) : e = c
       /\ c.op = "update" => Listed(p.tgcfg, d) # {}
       /\ c.op = "push" => Listed(p.tgcfg, d) = {}
  /\ \A i, j \in Listed(p.tgcfg, d) : i = j
  /\ Pending(p, d) = {} /\ v > 0 /\ p.tgcfg # Nothing => \E i \in Listed(p.tgcfg, d) : p.tgcfg[i].val = v

DevicesTrue(p, last, overlap) ==
  /\ \A c \in DOMAIN p.calls : c.op \in {"update", "push"} => p.tgcfg # Nothing
  /\ \A d \in Devs \ overlap : DeviceTrue(p, d, last[d])

------------------------------------------------------------------------------
\* The collector's.

Id == Nat \ {0}
Changing == {"every", "insert", "cancel", "flag"}
PdOne == [op : Changing \cup {"store"}, id : Id, live : BOOLEAN] \cup [op : {"purge", "findAll"}, id : {Every}, live : BOOLEAN]
Asked == [type : {"remove"}, id : Id] \cup [type : {"import", "malformed"}, id : {Every}]
Doc == [id : Id, isCollected : BOOLEAN]

PdState == [phase : {"down", "starting", "offline", "online"}, listeners : Nat, inbox : Seq(Asked), clock : Id,
            defined : SUBSET Id, calls : BagsOf(PdOne), jobs : SUBSET Id, list : Seq(Doc)]
PdNotes == [imports : Nat, removes : Nat, runs : Nat, connects : Nat, faults : Nat, overtaken : SUBSET Nat]
PdAlive(p, over) ==
  /\ p.phase = "online" => p.listeners > 0
  /\ p.phase \in {"down", "starting"} => p.defined = {}
  /\ p.phase = "down" => \A c \in DOMAIN p.calls : ~c.live
  /\ p.phase # "down" => \A c \in DOMAIN p.calls : c.live \/ c.id \in over
  /\ Copies(PdCall("findAll", Every), p.calls) = IF p.phase = "starting" THEN 1 ELSE 0

Under(p, op, id) == PdCall(op, id) \in DOMAIN p.calls
Idle(p, id) == \A op \in Changing : ~Under(p, op, id)
Sole(p, id) ==
  /\ \A i, j \in Docs(p, id) : i = j
  /\ Copies(PdCall("insert", id), p.calls) <= IF Docs(p, id) = {} THEN 1 ELSE 0
Purging(p) == Under(p, "purge", Every)

Agrees(p, id) ==
  /\ Under(p, "every", id) =>
       /\ ~Under(p, "cancel", id) /\ ~Under(p, "flag", id)
       /\ Under(p, "insert", id) \/ id \in Collected(p)
  /\ Under(p, "insert", id) =>
       /\ ~Under(p, "cancel", id) /\ ~Under(p, "flag", id)
       /\ Under(p, "every", id) \/ id \in p.jobs
  /\ Under(p, "cancel", id) => ~Under(p, "flag", id)
  /\ Under(p, "flag", id) => id \notin p.jobs
  /\ Idle(p, id) => (id \in p.jobs <=> id \in Collected(p))

DatumTrue(p, id) ==
  IF Every \in Subjects(p.calls)
  THEN /\ Idle(p, id) /\ (id \in p.jobs => Purging(p))
       /\ p.phase # "starting" => id \notin Collected(p)
  ELSE Sole(p, id) => Agrees(p, id)

DataTrue(p, over) == p.phase # "down" => \A id \in Id \ over : DatumTrue(p, id)

------------------------------------------------------------------------------
(* The calls under way.                                                    *)

\* A bag of the elements of S, by its domain and its copies.
LEMMA BagFacts ==
  ASSUME NEW S, NEW b
  PROVE  /\ b \in BagsOf(S) <=> b \in [DOMAIN b -> Nat \ {0}] /\ DOMAIN b \subseteq S
         /\ b \in BagsOf(S) => /\ b = [c \in DOMAIN b |-> b[c]]
                               /\ \A c : Copies(c, b) \in Nat /\ (c \in DOMAIN b <=> Copies(c, b) # 0)
                               /\ \A c \in DOMAIN b : c \in S /\ b[c] \in Nat /\ b[c] > 0 /\ b[c] = Copies(c, b)
<1>1. b \in BagsOf(S) <=> b \in [DOMAIN b -> Nat \ {0}] /\ DOMAIN b \subseteq S
  BY DEF BagsOf
<1> QED
  BY <1>1 DEF Copies, BagIn, BagToSet

\* Calls are made ...
IsSum(s, a, b) == DOMAIN s = DOMAIN a \cup DOMAIN b /\ \A c : Copies(c, s) = Copies(c, a) + Copies(c, b)

LEMMA AddFacts ==
  ASSUME NEW S, NEW a \in BagsOf(S), NEW b \in BagsOf(S)
  PROVE  (a (+) b) \in BagsOf(S) /\ IsSum((a (+) b), a, b)
<1>1. /\ a \in [DOMAIN a -> Nat \ {0}] /\ DOMAIN a \subseteq S
      /\ b \in [DOMAIN b -> Nat \ {0}] /\ DOMAIN b \subseteq S
  BY BagFacts
<1>2. DOMAIN (a (+) b) = DOMAIN a \cup DOMAIN b /\ (a (+) b) \in [DOMAIN a \cup DOMAIN b -> Nat \ {0}]
  BY <1>1 DEF (+)
<1>3. ASSUME NEW c PROVE Copies(c, (a (+) b)) = Copies(c, a) + Copies(c, b)
  BY <1>1 DEF (+), Copies, BagIn, BagToSet
<1> QED
  BY <1>1, <1>2, <1>3, BagFacts DEF IsSum

\* ... by listeners, or one, ...
IsEach(b, n, C) == DOMAIN b = C /\ \A c : Copies(c, b) = IF c \in C THEN n ELSE 0

LEMMA ByEachFacts ==
  ASSUME NEW S, NEW C \in SUBSET S, NEW n \in Nat, n > 0
  PROVE  ByEach(n, C) \in BagsOf(S) /\ IsEach(ByEach(n, C), n, C)
BY BagFacts DEF ByEach, Copies, BagIn, BagToSet, IsEach

\* All listeners, or one, have made calls.
Adds(a, x, h, n) ==
  DOMAIN a = DOMAIN x \cup h /\ \A c : Copies(c, a) = Copies(c, x) + (IF c \in h THEN n ELSE 0)

LEMMA AddEach ==
  ASSUME NEW S, NEW x \in BagsOf(S), NEW h \in SUBSET S, NEW n \in Nat, n > 0
  PROVE  LET a == (x (+) ByEach(n, h)) IN a \in BagsOf(S) /\ Adds(a, x, h, n)
<1>1. PICK b : b = ByEach(n, h)
  OBVIOUS
<1>2. b \in BagsOf(S) /\ IsEach(b, n, h)
  BY <1>1, ByEachFacts
<1>3. (x (+) b) \in BagsOf(S) /\ IsSum((x (+) b), x, b)
  BY <1>2, AddFacts
<1>4. Adds((x (+) b), x, h, n)
  BY <1>2, <1>3 DEF Adds, IsSum, IsEach
<1> QED
  BY <1>1, <1>3, <1>4

\* The calls of a set, each once.
LEMMA OnceEach == \A C : SetToBag(C) = ByEach(1, C) /\ \A c : Once(c) = ByEach(1, {c})
BY DEF Once, SetToBag, ByEach

\* ... and answered.
Takes(r, b, c) ==
  /\ DOMAIN r \subseteq DOMAIN b /\ DOMAIN b \subseteq DOMAIN r \cup {c}
  /\ \A e : Copies(e, r) = Copies(e, b) - (IF e = c THEN 1 ELSE 0)

LEMMA RemoveFacts ==
  ASSUME NEW S, NEW b \in BagsOf(S), NEW c \in DOMAIN b
  PROVE  BagRemove(b, c) \in BagsOf(S) /\ Takes(BagRemove(b, c), b, c)
<1>1. b \in [DOMAIN b -> Nat \ {0}] /\ DOMAIN b \subseteq S
  BY BagFacts
<1>2. /\ DOMAIN BagRemove(b, c) \subseteq DOMAIN b /\ DOMAIN b \subseteq DOMAIN BagRemove(b, c) \cup {c}
      /\ BagRemove(b, c) \in [DOMAIN BagRemove(b, c) -> Nat \ {0}]
  BY <1>1 DEF BagRemove
<1>3. ASSUME NEW e PROVE Copies(e, BagRemove(b, c)) = Copies(e, b) - (IF e = c THEN 1 ELSE 0)
  BY <1>1 DEF BagRemove, Copies, BagIn, BagToSet
<1> QED
  BY <1>1, <1>2, <1>3, BagFacts DEF Takes

\* Calls that are live or not.
Alive(c) == [c EXCEPT !.live = TRUE]
Mortal(S) ==
  \A c \in S : /\ c.live \in BOOLEAN
               /\ Orphan(c) \in S /\ ~Orphan(c).live /\ (~c.live => Orphan(c) = c)
               /\ Alive(c) \in S /\ Alive(c).live /\ (c.live => Alive(c) = c)
               /\ Orphan(Alive(c)) = Orphan(c) /\ Alive(Orphan(c)) = Alive(c)

\* A process ends: none of its calls has a callback any more.
LEMMA OrphanedFacts ==
  ASSUME NEW S, Mortal(S), NEW b \in BagsOf(S)
  PROVE  /\ Orphaned(b) \in BagsOf(S)
         /\ \A c \in DOMAIN Orphaned(b) : ~c.live /\ (c \in DOMAIN b \/ Alive(c) \in DOMAIN b)
         /\ \A c \in S : Copies(c, Orphaned(b)) = IF c.live THEN 0 ELSE Copies(c, b) + Copies(Alive(c), b)
<1> DEFINE T == {Orphan(x) : x \in DOMAIN b}
           o == Orphaned(b)
<1>1. o = [c \in T |-> Copies(c, b) + Copies(Alive(c), b)]
  BY DEF Orphaned, Alive, BagToSet
<1>2. DOMAIN b \subseteq S /\ \A c : Copies(c, b) \in Nat /\ (c \in DOMAIN b <=> Copies(c, b) # 0)
  BY BagFacts
<1>3. \A c \in T : c \in S /\ ~c.live /\ (c \in DOMAIN b \/ Alive(c) \in DOMAIN b)
  <2>1. SUFFICES ASSUME NEW x \in DOMAIN b
                 PROVE  LET c == Orphan(x) IN c \in S /\ ~c.live /\ (c \in DOMAIN b \/ Alive(c) \in DOMAIN b)
    OBVIOUS
  <2>2. x \in S
    BY <1>2
  <2>3. /\ x.live \in BOOLEAN /\ Orphan(x) \in S /\ ~Orphan(x).live /\ (~x.live => Orphan(x) = x)
        /\ (x.live => Alive(x) = x) /\ Alive(Orphan(x)) = Alive(x)
    BY <2>2 DEF Mortal
  <2> QED
    BY <2>3
<1>4. \A c \in S : ~c.live /\ (c \in DOMAIN b \/ Alive(c) \in DOMAIN b) => c \in T
  <2>1. SUFFICES ASSUME NEW c \in S, ~c.live, c \in DOMAIN b \/ Alive(c) \in DOMAIN b PROVE c \in T
    OBVIOUS
  <2>2. Orphan(c) = c /\ Orphan(Alive(c)) = Orphan(c)
    BY <2>1 DEF Mortal
  <2> QED
    BY <2>1, <2>2
<1> HIDE DEF T
<1>5. \A c \in T : o[c] \in Nat \ {0}
  BY <1>1, <1>2, <1>3
<1>6. o \in BagsOf(S)
  <2>1. DOMAIN o = T /\ o \in [T -> Nat \ {0}] /\ T \subseteq S
    BY <1>1, <1>3, <1>5
  <2> HIDE DEF o
  <2> QED
    BY <2>1, BagFacts
<1>7. ASSUME NEW c \in S PROVE Copies(c, o) = IF c.live THEN 0 ELSE Copies(c, b) + Copies(Alive(c), b)
  <2>1. CASE c \in T
    BY <1>1, <1>3, <2>1 DEF Copies, BagIn, BagToSet
  <2>2. CASE c \notin T
    <3>1. Copies(c, o) = 0
      BY <1>1, <2>2 DEF Copies, BagIn, BagToSet
    <3>2. ~c.live => Copies(c, b) = 0 /\ Copies(Alive(c), b) = 0
      BY <1>2, <1>4, <2>2
    <3> QED
      BY <3>1, <3>2
  <2> QED
    BY <2>1, <2>2
<1> QED
  BY <1>1, <1>3, <1>6, <1>7

\* The calls of the console and of the collector.
LEMMA CallsMortal == Mortal(ScCall) /\ Mortal(PdOne)
<1>1. ASSUME NEW c \in ScCall
      PROVE  /\ c.live \in BOOLEAN
             /\ Orphan(c) \in ScCall /\ ~Orphan(c).live /\ (~c.live => Orphan(c) = c)
             /\ Alive(c) \in ScCall /\ Alive(c).live /\ (c.live => Alive(c) = c)
             /\ Orphan(Alive(c)) = Orphan(c) /\ Alive(Orphan(c)) = Alive(c)
  BY DEF ScCall, Orphan, Alive
<1>2. ASSUME NEW c \in PdOne
      PROVE  /\ c.live \in BOOLEAN
             /\ Orphan(c) \in PdOne /\ ~Orphan(c).live /\ (~c.live => Orphan(c) = c)
             /\ Alive(c) \in PdOne /\ Alive(c).live /\ (c.live => Alive(c) = c)
             /\ Orphan(Alive(c)) = Orphan(c) /\ Alive(Orphan(c)) = Alive(c)
  BY DEF PdOne, Orphan, Alive
<1> QED
  BY <1>1, <1>2 DEF Mortal

------------------------------------------------------------------------------
(* The console.                                                            *)

\* The parts of its state.
LEMMA ScParts ==
  ASSUME NEW p \in ScState
  PROVE  /\ p.phase \in {"down", "clearing", "offline", "online"} /\ p.keys \in Nat /\ p.listeners \in Nat
         /\ p.inbox \in Seq(ScMsg \cup Own) /\ p.calls \in BagsOf(ScCall) /\ p.tgcfg \in Seq(Entry)
         /\ p.stored \in [ScMsg -> Nat]
BY DEF ScState

\* Messages have the fields of ScMsg's.
LEMMA MessageParts ==
  /\ \A m \in ScMsg : m.topic \in STRING /\ m.to \in STRING /\ m.type \in STRING /\ m.dev \in Devs
                      /\ m.dev \in STRING /\ m.dev # NoDocument /\ m.val \in Nat
  /\ \A m \in Own : m.topic \notin Data /\ ~(m.topic = "SERV" /\ m.to = "TG_01") /\ OnMessage(m).calls = {}
<1>1. ASSUME NEW m \in ScMsg
      PROVE  m.topic \in STRING /\ m.to \in STRING /\ m.type \in STRING /\ m.dev \in Devs
             /\ m.dev \in STRING /\ m.dev # NoDocument /\ m.val \in Nat
  BY SmartCloudAssumption DEF Devs
<1>2. ASSUME NEW m \in Own
      PROVE  m.topic \notin Data /\ ~(m.topic = "SERV" /\ m.to = "TG_01") /\ OnMessage(m).calls = {}
  <2>1. CASE m \in {Message("SERV", "USER_01", "sensordata"), Message("SERV", "USER_01", "responseService")}
    BY <2>1 DEF Message, Data, OnMessage, HandleServ, Does
  <2>2. CASE m = Message("THR", "USER_01", "responseThr")
    BY <2>2 DEF Message, Data, OnMessage, HandleThr, Does
  <2>3. CASE m = Message("TGThr", "TG_01", "changeThrReq")
    BY <2>3 DEF Message, Data, OnMessage, Does
  <2> QED
    BY <1>2, <2>1, <2>2, <2>3 DEF Own
<1> QED
  BY <1>1, <1>2

\* What a message makes the console do: a datum is inserted, a registration looked up, and nothing
\* else changes the database.
LEMMA Handled ==
  ASSUME NEW m \in ScMsg \cup Own, NEW h, h = OnMessage(m)
  PROVE  /\ h.pubs \in Seq(Own) /\ h.calls \in SUBSET ScCall
         /\ m.topic \in Data => m \in ScMsg /\ h.calls = {Call("insert", m)}
         /\ m.topic = "SERV" /\ m.to = "TG_01" => m \in ScMsg /\ h.calls = {Call("findList", m)}
         /\ m.topic \notin Data /\ ~(m.topic = "SERV" /\ m.to = "TG_01")
              => \A c \in h.calls : c.op \notin Registering \cup {"insert"}
<1>1. h.pubs \in Seq(Own)
  <2>1. /\ <<>> \in Seq(Own)
        /\ <<Message("SERV", "USER_01", "sensordata")>> \in Seq(Own)
        /\ <<Message("TGThr", "TG_01", "changeThrReq")>> \in Seq(Own)
    BY DEF Own
  <2>2. /\ HandleServ(m).pubs \in Seq(Own) /\ HandleRegister(m).pubs \in Seq(Own)
    BY <2>1 DEF HandleServ, HandleRegister, Does
  <2>3. HandleThr(m).pubs \in Seq(Own)
    BY <2>1 DEF HandleThr, Does
  <2> QED
    BY <2>1, <2>2, <2>3 DEF OnMessage, Does
<1>2. CASE m \in Own
  <2>1. m.topic \notin Data /\ ~(m.topic = "SERV" /\ m.to = "TG_01") /\ h.calls = {}
    BY <1>2, MessageParts
  <2> QED
    BY <1>1, <2>1
<1>3. CASE m \in ScMsg
  <2>1. \A op \in Registering \cup {"insert", "findThr", "findServices", "findDetail"} :
          Call(op, m) \in ScCall /\ Call(op, m).op = op
    BY <1>3 DEF ScCall, Call
  <2>2. m.topic \in Data => h.calls = {Call("insert", m)}
    BY DEF Data, OnMessage, Does
  <2>3. m.topic = "SERV" /\ m.to = "TG_01" => h.calls = {Call("findList", m)}
    BY DEF OnMessage, HandleServ, Does
  <2>4. m.topic = "SERV" /\ m.to # "TG_01" => h.calls \subseteq {Call("findServices", m), Call("findDetail", m)}
    BY DEF OnMessage, HandleServ, Does
  <2>5. m.topic \notin Data \cup {"SERV"} => h.calls \subseteq {Call("findThr", m)}
    BY DEF Data, OnMessage, HandleThr, HandleRegister, Does
  <2>6. h.calls \in SUBSET ScCall
    BY <2>1, <2>2, <2>3, <2>4, <2>5 DEF Registering
  <2>7. ASSUME m.topic \notin Data, ~(m.topic = "SERV" /\ m.to = "TG_01"), NEW c \in h.calls
        PROVE  c.op \notin Registering \cup {"insert"}
    <3>1. c \in {Call("findServices", m), Call("findDetail", m), Call("findThr", m)}
      BY <2>4, <2>5, <2>7
    <3> QED
      BY <2>1, <3>1 DEF Registering, Call
  <2> QED
    BY <1>1, <1>3, <2>2, <2>3, <2>6, <2>7
<1> QED
  BY <1>2, <1>3

\* What listeners publish, one behind the other.
LEMMA FlattenType ==
  ASSUME NEW A, NEW n \in Nat, NEW q \in Seq(A)
  PROVE  FlattenSeq([i \in 1..n |-> q]) \in Seq(A)
<1> DEFINE s == [i \in 1..n |-> q]
<1>1. s \in [1..n -> Seq(A)]
  OBVIOUS
<1> HIDE DEF s
<1>2. FlattenSeq(s) \in Seq(A)
  BY <1>1, FlattenFacts
<1> QED
  BY <1>2 DEF s

\* The calls of a state, by their copies.
LEMMA ScCallFacts ==
  ASSUME NEW p \in ScState
  PROVE  /\ \A c : Copies(c, p.calls) \in Nat /\ (c \in DOMAIN p.calls <=> Copies(c, p.calls) # 0)
         /\ \A c \in DOMAIN p.calls : c \in ScCall /\ p.calls[c] = Copies(c, p.calls)
         /\ \A c \in ScCall : c.m \in ScMsg /\ c.live \in BOOLEAN
         /\ \A m \in ScMsg : /\ Call("insert", m) \in ScCall /\ Orphan(Call("insert", m)) \in ScCall
                             /\ Call("insert", m) # Orphan(Call("insert", m))
                             /\ p.stored[m] \in Nat /\ Inserted(p, m) \in Nat
<1>1. p.calls \in BagsOf(ScCall) /\ p.stored \in [ScMsg -> Nat]
  BY ScParts
<1>2. /\ \A c : Copies(c, p.calls) \in Nat /\ (c \in DOMAIN p.calls <=> Copies(c, p.calls) # 0)
      /\ \A c \in DOMAIN p.calls : c \in ScCall /\ p.calls[c] = Copies(c, p.calls)
  BY <1>1, BagFacts
<1>3. \A c \in ScCall : c.m \in ScMsg /\ c.live \in BOOLEAN
  BY DEF ScCall
<1>4. ASSUME NEW m \in ScMsg
      PROVE  /\ Call("insert", m) \in ScCall /\ Orphan(Call("insert", m)) \in ScCall
             /\ Call("insert", m) # Orphan(Call("insert", m))
             /\ p.stored[m] \in Nat /\ Inserted(p, m) \in Nat
  <2>1. /\ Call("insert", m) \in ScCall /\ Orphan(Call("insert", m)) \in ScCall
        /\ Call("insert", m) # Orphan(Call("insert", m))
    BY DEF ScCall, Call, Orphan
  <2> QED
    BY <1>1, <1>2, <2>1 DEF Inserted
<1> QED
  BY <1>2, <1>3, <1>4

\* A step that makes no call for a datum and puts none on its way.
LEMMA StoresKept ==
  ASSUME NEW p \in ScState, NEW q \in ScState, NEW again, NEW more, NEW snt, NEW k \in 0..1,
         StoresTrue(p, again, snt), again \subseteq more,
         \A m \in ScMsg : Inserted(q, m) <= Inserted(p, m),
         \A m \in ScMsg : m.topic \in Data => \A i \in Arriving(q, m) : i + k \in Arriving(p, m)
  PROVE  StoresTrue(q, more, snt)
<1>1. SUFFICES ASSUME NEW m \in ScMsg
               PROVE  IF m.topic \in Data
                      THEN m \notin more =>
                             /\ \A i, j \in Arriving(q, m) : i = j
                             /\ Inserted(q, m) <= IF Arriving(q, m) = {} THEN 1 ELSE 0
                             /\ m \notin snt => Inserted(q, m) = 0 /\ Arriving(q, m) = {}
                      ELSE Inserted(q, m) = 0
  BY DEF StoresTrue
<1>2. Inserted(q, m) \in Nat /\ Inserted(p, m) \in Nat /\ Inserted(q, m) <= Inserted(p, m)
  BY ScCallFacts
<1>3. CASE m.topic \notin Data
  BY <1>2, <1>3 DEF StoresTrue
<1>4. CASE m.topic \in Data /\ m \notin more
  <2>1. /\ \A i, j \in Arriving(p, m) : i = j
        /\ Inserted(p, m) <= IF Arriving(p, m) = {} THEN 1 ELSE 0
        /\ m \notin snt => Inserted(p, m) = 0 /\ Arriving(p, m) = {}
    BY <1>4 DEF StoresTrue
  <2>2. \A i \in Arriving(q, m) : i + k \in Arriving(p, m) /\ i \in Int
    <3>1. Arriving(q, m) \subseteq Nat
      BY ScParts DEF Arriving
    <3> QED
      BY <1>4, <3>1
  <2>3. \A i, j \in Arriving(q, m) : i = j
    <3>1. SUFFICES ASSUME NEW i \in Arriving(q, m), NEW j \in Arriving(q, m) PROVE i = j
      OBVIOUS
    <3>2. i + k = j + k /\ i \in Int /\ j \in Int
      BY <2>1, <2>2
    <3> QED
      BY <3>2
  <2>4. Arriving(p, m) = {} => Arriving(q, m) = {}
    BY <2>2
  <2> QED
    BY <1>2, <1>4, <2>1, <2>3, <2>4
<1> QED
  BY <1>3, <1>4

\* A device whose calls and entries stay.
LEMMA DeviceSame ==
  ASSUME NEW p \in ScState, NEW q \in ScState, NEW d, NEW v, DeviceTrue(p, d, v),
         Listed(q.tgcfg, d) = Listed(p.tgcfg, d),
         \A i \in Listed(p.tgcfg, d) : q.tgcfg[i].val = p.tgcfg[i].val,
         q.tgcfg # Nothing => p.tgcfg # Nothing,
         \A c \in ScCall : c.op \in Registering /\ c.m.dev = d => Copies(c, q.calls) = Copies(c, p.calls)
  PROVE  DeviceTrue(q, d, v)
<1>1. Pending(q, d) = Pending(p, d) /\ \A c \in Pending(p, d) : q.calls[c] = p.calls[c]
  BY ScCallFacts DEF Pending
<1> QED
  BY <1>1 DEF DeviceTrue

\* What is true of each device is true of all.
LEMMA DevicesKept ==
  ASSUME NEW p \in ScState, NEW q \in ScState, NEW last, NEW over, NEW more, over \subseteq more,
         DevicesTrue(p, last, over), q.tgcfg = p.tgcfg,
         \A c \in DOMAIN q.calls : c.op \in {"update", "push"} => q.tgcfg # Nothing,
         \A c \in ScCall : c.op \in Registering /\ c.m.dev \notin more => Copies(c, q.calls) = Copies(c, p.calls)
  PROVE  DevicesTrue(q, last, more)
<1>1. ASSUME NEW d \in Devs \ more PROVE DeviceTrue(q, d, last[d])
  <2>1. DeviceTrue(p, d, last[d])
    BY DEF DevicesTrue
  <2> QED
    BY <2>1, DeviceSame
<1> QED
  BY <1>1 DEF DevicesTrue

\* The process ends: a datum stays in its call, the calls of a device are given up.
LEMMA DieGood ==
  ASSUME NEW p \in ScState, NEW q, q = Die(p), NEW again, NEW snt, NEW last, NEW over, NEW more,
         StoresTrue(p, again, snt), DevicesTrue(p, last, over), over \subseteq more, Overtakes(p) \subseteq more
  PROVE  q \in ScState /\ ScAlive(q) /\ StoresTrue(q, again, snt) /\ DevicesTrue(q, last, more)
<1> DEFINE b == Orphaned(p.calls)
<1>1. Mortal(ScCall) /\ p.calls \in BagsOf(ScCall)
  BY CallsMortal, ScParts
<1>2. /\ b \in BagsOf(ScCall)
      /\ \A c \in DOMAIN b : ~c.live /\ (c \in DOMAIN p.calls \/ Alive(c) \in DOMAIN p.calls)
      /\ \A c \in ScCall : Copies(c, b) = IF c.live THEN 0 ELSE Copies(c, p.calls) + Copies(Alive(c), p.calls)
  BY <1>1, OrphanedFacts
<1> HIDE DEF b
<1>3. q = [p EXCEPT !.phase = "down", !.listeners = 0, !.inbox = <<>>, !.calls = b]
  BY DEF Die, b
<1>4. q \in ScState
  <2>1. <<>> \in Seq(ScMsg \cup Own) /\ 0 \in Nat
    OBVIOUS
  <2> QED
    BY <1>2, <1>3, <2>1 DEF ScState
<1>5. q.phase = "down" /\ q.inbox = <<>> /\ q.calls = b /\ q.stored = p.stored /\ q.tgcfg = p.tgcfg
  BY <1>3 DEF ScState
<1>6. ScAlive(q)
  BY <1>2, <1>5 DEF ScAlive
<1>7. StoresTrue(q, again, snt)
  <2>1. ASSUME NEW m \in ScMsg PROVE Inserted(q, m) = Inserted(p, m) /\ Arriving(q, m) = {}
    <3> DEFINE c == Call("insert", m)
    <3>1. c \in ScCall /\ Orphan(c) \in ScCall /\ c.live /\ ~Orphan(c).live /\ Alive(Orphan(c)) = c
      <4>1. c \in ScCall
        BY ScCallFacts
      <4>2. c.live
        BY DEF Call
      <4> HIDE DEF c
      <4> QED
        BY <1>1, <4>1, <4>2 DEF Mortal
    <3>2. Copies(c, b) = 0 /\ Copies(Orphan(c), b) = Copies(Orphan(c), p.calls) + Copies(c, p.calls)
      BY <1>2, <3>1
    <3>3. Copies(c, p.calls) \in Nat /\ Copies(Orphan(c), p.calls) \in Nat /\ p.stored[m] \in Nat
      BY ScCallFacts
    <3>4. Inserted(p, m) = p.stored[m] + Copies(c, p.calls) + Copies(Orphan(c), p.calls)
      BY DEF Inserted
    <3>5. Inserted(q, m) = p.stored[m] + Copies(c, b) + Copies(Orphan(c), b)
      BY <1>5 DEF Inserted
    <3> HIDE DEF c
    <3>6. Inserted(q, m) = Inserted(p, m)
      BY <3>2, <3>3, <3>4, <3>5
    <3>7. Arriving(q, m) = {}
      BY <1>5 DEF Arriving
    <3> QED
      BY <3>6, <3>7
  <2>2. PICK k \in 0..1 : k = 0
    OBVIOUS
  <2>3. \A m \in ScMsg : Inserted(q, m) <= Inserted(p, m)
    BY <2>1, ScCallFacts
  <2> QED
    BY <1>4, <2>1, <2>3, StoresKept
<1>8. ASSUME NEW d \in Devs \ more PROVE DeviceTrue(q, d, last[d])
  <2>1. Pending(p, d) = {}
    <3>1. d \notin Overtakes(p)
      OBVIOUS
    <3> QED
      BY <3>1 DEF Pending, Overtakes, Registering, BagToSet
  <2>2. Pending(q, d) = {}
    <3>1. SUFFICES ASSUME NEW c \in DOMAIN b, c.op \in Registering, c.m.dev = d PROVE FALSE
      BY <1>5 DEF Pending
    <3>2. Alive(c).op = c.op /\ Alive(c).m = c.m
      <4>1. c \in ScCall
        BY <1>2, <3>1, BagFacts
      <4> QED
        BY <4>1 DEF Alive, ScCall
    <3> QED
      BY <1>2, <2>1, <3>1, <3>2 DEF Pending
  <2>3. DeviceTrue(p, d, last[d])
    BY DEF DevicesTrue
  <2> QED
    BY <1>5, <2>1, <2>2, <2>3 DEF DeviceTrue
<1>9. \A c \in DOMAIN q.calls : c.op \in {"update", "push"} => q.tgcfg # Nothing
  <2>1. SUFFICES ASSUME NEW c \in DOMAIN b, c.op \in {"update", "push"} PROVE p.tgcfg # Nothing
    BY <1>5
  <2>2. Alive(c).op = c.op
    <3>1. c \in ScCall
      BY <1>2, <2>1, BagFacts
    <3> QED
      BY <3>1 DEF Alive, ScCall
  <2> QED
    BY <1>2, <2>1, <2>2 DEF DevicesTrue
<1> QED
  BY <1>4, <1>6, <1>7, <1>8, <1>9 DEF DevicesTrue

\* What is published is put behind what is on its way; the database does not see it.
LEMMA PublishGood ==
  ASSUME NEW p \in ScState, NEW s \in Seq(Own), NEW q, q = Publish(p, s), NEW again, NEW snt, NEW last, NEW over,
         ScAlive(p), StoresTrue(p, again, snt), DevicesTrue(p, last, over)
  PROVE  q \in ScState /\ ScAlive(q) /\ StoresTrue(q, again, snt) /\ DevicesTrue(q, last, over)
<1>1. CASE p.phase # "online"
  BY <1>1 DEF Publish
<1>2. CASE p.phase = "online"
  <2> DEFINE r == p.inbox \o s
  <2>1. p.inbox \in Seq(ScMsg \cup Own) /\ Len(p.inbox) \in Nat
    BY ScParts, LenProperties
  <2>2. s \in Seq(ScMsg \cup Own)
    <3>1. DOMAIN s = 1..Len(s) /\ Len(s) \in Nat /\ \A i \in 1..Len(s) : s[i] \in Own
      OBVIOUS
    <3>2. s \in [1..Len(s) -> ScMsg \cup Own]
      <4>1. s = [i \in 1..Len(s) |-> s[i]]
        BY <3>1
      <4> QED
        BY <3>1, <4>1
    <3> QED
      BY <3>1, <3>2, SeqDef
  <2>3. /\ r \in Seq(ScMsg \cup Own) /\ Len(r) = Len(p.inbox) + Len(s)
        /\ \A i \in 1..Len(r) : r[i] = IF i <= Len(p.inbox) THEN p.inbox[i] ELSE s[i - Len(p.inbox)]
    BY <2>1, <2>2, ConcatProperties
  <2> HIDE DEF r
  <2>4. q = [p EXCEPT !.inbox = r]
    BY <1>2 DEF Publish, r
  <2>5. q \in ScState
    BY <2>3, <2>4 DEF ScState
  <2>6. /\ q.inbox = r /\ q.calls = p.calls /\ q.tgcfg = p.tgcfg /\ q.stored = p.stored
        /\ q.phase = p.phase /\ q.listeners = p.listeners
    BY <2>4 DEF ScState
  <2>7. ScAlive(q)
    BY <2>6 DEF ScAlive
  <2>8. ASSUME NEW m \in ScMsg, m.topic \in Data, NEW i \in Arriving(q, m)
        PROVE  i + 0 \in Arriving(p, m)
    <3>1. i \in 1..Len(r) /\ r[i] = m
      BY <2>3, <2>6, <2>8 DEF Arriving
    <3>2. Len(s) \in Nat /\ \A j \in 1..Len(s) : s[j] \in Own
      OBVIOUS
    <3>3. i <= Len(p.inbox)
      <4>1. SUFFICES ASSUME ~(i <= Len(p.inbox)) PROVE FALSE
        OBVIOUS
      <4>2. i - Len(p.inbox) \in 1..Len(s) /\ m = s[i - Len(p.inbox)]
        BY <2>1, <2>3, <3>1, <3>2, <4>1
      <4> QED
        BY <2>8, <3>2, <4>2, MessageParts
    <3>4. i \in DOMAIN p.inbox /\ p.inbox[i] = m /\ i + 0 = i
      BY <2>1, <2>3, <3>1, <3>3
    <3> QED
      BY <3>4 DEF Arriving
  <2>9. \A m \in ScMsg : Inserted(q, m) <= Inserted(p, m)
    <3>1. \A m \in ScMsg : Inserted(q, m) = Inserted(p, m)
      BY <2>6 DEF Inserted
    <3> QED
      BY <3>1, ScCallFacts
  <2>10. StoresTrue(q, again, snt)
    <3>1. PICK k \in 0..1 : k = 0
      OBVIOUS
    <3> QED
      BY <2>5, <2>8, <2>9, <3>1, StoresKept
  <2>11. DevicesTrue(q, last, over)
    BY <2>5, <2>6, DevicesKept DEF DevicesTrue
  <2> QED
    BY <2>5, <2>7, <2>10, <2>11
<1> QED
  BY <1>1, <1>2

\* A message is taken out of the inbox and the listeners make their calls.
Taken(p, m) == Start([p EXCEPT !.inbox = Tail(@)], ByEach(p.listeners, OnMessage(m).calls))

TakenAs(p, m, q) ==
  /\ m \in ScMsg \cup Own /\ q \in ScState
  /\ q.phase = p.phase /\ q.listeners = p.listeners /\ q.tgcfg = p.tgcfg /\ q.stored = p.stored
  /\ \A c : Copies(c, q.calls) = Copies(c, p.calls) + IF c \in OnMessage(m).calls THEN p.listeners ELSE 0
  /\ DOMAIN q.calls = DOMAIN p.calls \cup OnMessage(m).calls
  /\ p.listeners \in Nat /\ p.listeners > 0
  /\ \A n \in ScMsg : \A i \in Arriving(q, n) : i + 1 \in Arriving(p, n) /\ i + 1 # 1
  /\ 1 \in DOMAIN p.inbox /\ p.inbox[1] = m

LEMMA TakenFacts ==
  ASSUME NEW p \in ScState, ScAlive(p), p.phase = "online", p.inbox # <<>>,
         NEW m, m = Head(p.inbox), NEW q, q = Taken(p, m)
  PROVE  TakenAs(p, m, q)
<1> DEFINE t == Tail(p.inbox)
           h == OnMessage(m).calls
           n == p.listeners
           x == p.calls
           a == (x (+) ByEach(n, h))
<1>1. p.inbox \in Seq(ScMsg \cup Own) /\ n \in Nat /\ n > 0 /\ x \in BagsOf(ScCall)
  BY ScParts DEF ScAlive
<1>2. /\ m \in ScMsg \cup Own /\ 1 \in DOMAIN p.inbox /\ p.inbox[1] = m
      /\ t \in Seq(ScMsg \cup Own) /\ Len(t) = Len(p.inbox) - 1 /\ Len(p.inbox) \in Nat /\ Len(p.inbox) > 0
      /\ \A i \in 1..Len(t) : t[i] = p.inbox[i + 1]
  BY <1>1, HeadTailProperties
<1>3. h \in SUBSET ScCall
  BY <1>2, Handled
<1> HIDE DEF h, n, x, t
<1>5. a \in BagsOf(ScCall) /\ Adds(a, x, h, n)
  BY <1>1, <1>3, AddEach
<1>6. q = [p EXCEPT !.inbox = t, !.calls = a]
  BY DEF Taken, Start, t, h, n, x, ScState
<1> HIDE DEF a
<1>7. q \in ScState
  BY <1>2, <1>5, <1>6 DEF ScState
<1>8. /\ q.phase = p.phase /\ q.listeners = p.listeners /\ q.tgcfg = p.tgcfg /\ q.stored = p.stored
      /\ q.inbox = t /\ q.calls = a
  BY <1>6 DEF ScState
<1>9. ASSUME NEW k \in ScMsg, NEW i \in Arriving(q, k) PROVE i + 1 \in Arriving(p, k) /\ i + 1 # 1
  <2>1. i \in 1..Len(t) /\ t[i] = k
    BY <1>2, <1>8 DEF Arriving
  <2>2. i + 1 \in DOMAIN p.inbox /\ p.inbox[i + 1] = k /\ i + 1 # 1
    BY <1>1, <1>2, <2>1
  <2> QED
    BY <2>2 DEF Arriving
<1> QED
  BY <1>1, <1>2, <1>5, <1>7, <1>8, <1>9 DEF TakenAs, Adds, h, n, x

\* A datum that arrives once is inserted once, unless there are several listeners.
LEMMA TakenStores ==
  ASSUME NEW p \in ScState, ScAlive(p), p.phase = "online", p.inbox # <<>>,
         NEW m, m = Head(p.inbox), NEW q, q = Taken(p, m),
         NEW again, NEW more, NEW snt, StoresTrue(p, again, snt), again \subseteq more,
         p.listeners > 1 => m \in more
  PROVE  StoresTrue(q, more, snt)
<1>1. /\ m \in ScMsg \cup Own /\ q \in ScState
      /\ q.phase = p.phase /\ q.listeners = p.listeners /\ q.tgcfg = p.tgcfg /\ q.stored = p.stored
      /\ \A c : Copies(c, q.calls) = Copies(c, p.calls) + IF c \in OnMessage(m).calls THEN p.listeners ELSE 0
      /\ p.listeners \in Nat /\ p.listeners > 0
      /\ \A n \in ScMsg : \A i \in Arriving(q, n) : i + 1 \in Arriving(p, n) /\ i + 1 # 1
      /\ 1 \in DOMAIN p.inbox /\ p.inbox[1] = m
  <2>1. TakenAs(p, m, q)
    BY TakenFacts
  <2> QED
    BY <2>1 DEF TakenAs
<1>2. ASSUME NEW n \in ScMsg, n # m \/ m.topic \notin Data
      PROVE  Inserted(q, n) = Inserted(p, n)
  <2> DEFINE c == Call("insert", n)
             o == Orphan(c)
  <2>1. c.op = "insert" /\ o.op = "insert" /\ c.m = n /\ o.m = n
    BY DEF Call, Orphan
  <2>2. ASSUME NEW e \in OnMessage(m).calls PROVE e # c /\ e # o
    <3>1. CASE m.topic \in Data
      <4>1. e = Call("insert", m)
        BY <1>1, <2>2, <3>1, Handled
      <4>2. e.m = m
        BY <4>1 DEF Call
      <4> HIDE DEF c, o
      <4> QED
        BY <1>2, <2>1, <3>1, <4>2
    <3>2. CASE m.topic \notin Data
      <4>1. e.op # "insert"
        <5>1. CASE m.topic = "SERV" /\ m.to = "TG_01"
          <6>1. e = Call("findList", m)
            BY <1>1, <2>2, <5>1, Handled
          <6> QED
            BY <6>1 DEF Call
        <5>2. CASE ~(m.topic = "SERV" /\ m.to = "TG_01")
          BY <1>1, <2>2, <3>2, <5>2, Handled
        <5> QED
          BY <5>1, <5>2
      <4> HIDE DEF c, o
      <4> QED
        BY <2>1, <4>1
    <3> QED
      BY <3>1, <3>2
  <2>3. Copies(c, q.calls) = Copies(c, p.calls) /\ Copies(o, q.calls) = Copies(o, p.calls)
    <3>1. c \notin OnMessage(m).calls /\ o \notin OnMessage(m).calls
      BY <2>2
    <3>2. Copies(c, p.calls) \in Nat /\ Copies(o, p.calls) \in Nat
      BY ScCallFacts
    <3> HIDE DEF c, o
    <3> QED
      BY <1>1, <3>1, <3>2
  <2> QED
    BY <1>1, <2>3 DEF Inserted
<1>3. ASSUME m \in ScMsg, m.topic \in Data
      PROVE  Inserted(q, m) = Inserted(p, m) + p.listeners
  <2> DEFINE c == Call("insert", m)
             o == Orphan(c)
  <2>1. OnMessage(m).calls = {c} /\ c # o
    BY <1>3, Handled, ScCallFacts
  <2>2. Copies(c, p.calls) \in Nat /\ Copies(o, p.calls) \in Nat /\ p.stored[m] \in Nat
    BY <1>3, ScCallFacts
  <2>3. Copies(c, q.calls) = Copies(c, p.calls) + p.listeners /\ Copies(o, q.calls) = Copies(o, p.calls)
    <3> HIDE DEF c, o
    <3> QED
      BY <1>1, <2>1, <2>2
  <2>4. Inserted(q, m) = q.stored[m] + Copies(c, q.calls) + Copies(o, q.calls)
    BY DEF Inserted
  <2>5. Inserted(p, m) = p.stored[m] + Copies(c, p.calls) + Copies(o, p.calls)
    BY DEF Inserted
  <2> HIDE DEF c, o
  <2> QED
    BY <1>1, <2>2, <2>3, <2>4, <2>5
<1>4. ASSUME NEW n \in ScMsg
      PROVE  IF n.topic \in Data
             THEN n \notin more =>
                    /\ \A i, j \in Arriving(q, n) : i = j
                    /\ Inserted(q, n) <= IF Arriving(q, n) = {} THEN 1 ELSE 0
                    /\ n \notin snt => Inserted(q, n) = 0 /\ Arriving(q, n) = {}
             ELSE Inserted(q, n) = 0
  <2>1. Inserted(p, n) \in Nat /\ Inserted(q, n) \in Nat
    BY <1>1, ScCallFacts
  <2>2. CASE n.topic \notin Data
    BY <1>2, <2>2 DEF StoresTrue
  <2>3. CASE n.topic \in Data /\ n \notin more
    <3>1. /\ \A i, j \in Arriving(p, n) : i = j
          /\ Inserted(p, n) <= IF Arriving(p, n) = {} THEN 1 ELSE 0
          /\ n \notin snt => Inserted(p, n) = 0 /\ Arriving(p, n) = {}
      BY <2>3 DEF StoresTrue
    <3>2. Arriving(q, n) \subseteq Int
      BY <1>1, ScParts DEF Arriving
    <3>3. \A i, j \in Arriving(q, n) : i = j
      <4>1. SUFFICES ASSUME NEW i \in Arriving(q, n), NEW j \in Arriving(q, n) PROVE i = j
        OBVIOUS
      <4>2. i + 1 = j + 1 /\ i \in Int /\ j \in Int
        BY <1>1, <3>1, <3>2
      <4> QED
        BY <4>2
    <3>4. Arriving(p, n) = {} => Arriving(q, n) = {}
      BY <1>1
    <3>5. CASE n # m
      BY <1>2, <2>1, <2>3, <3>1, <3>3, <3>4, <3>5
    <3>6. CASE n = m
      <4>1. 1 \in Arriving(p, n)
        BY <1>1, <3>6 DEF Arriving
      <4>2. Arriving(q, n) = {} /\ Inserted(p, n) = 0 /\ n \in snt
        BY <1>1, <2>1, <3>1, <4>1
      <4>3. p.listeners = 1
        BY <1>1, <2>3, <3>6
      <4>4. Inserted(q, n) = 1
        BY <1>3, <2>3, <3>6, <4>2, <4>3
      <4> QED
        BY <2>3, <4>2, <4>4
    <3> QED
      BY <3>5, <3>6
  <2> QED
    BY <2>2, <2>3
<1> QED
  BY <1>4 DEF StoresTrue

\* A registration is looked up: it is what the device waits for, unless it overlaps another.
Noting(p, m, registers, last, over, new, more) ==
  /\ registers <=> m.topic = "SERV" /\ m.to = "TG_01"
  /\ \A d \in Devs : new[d] = IF registers /\ d = m.dev THEN m.val ELSE last[d]
  /\ over \subseteq more
  /\ registers /\ (m.dev \in Overtakes(p) \/ p.listeners > 1) => m.dev \in more

LEMMA TakenDevices ==
  ASSUME NEW p \in ScState, ScAlive(p), p.phase = "online", p.inbox # <<>>,
         NEW m, m = Head(p.inbox), NEW q, q = Taken(p, m),
         NEW last, NEW over, DevicesTrue(p, last, over),
         NEW registers, NEW new, NEW more, Noting(p, m, registers, last, over, new, more)
  PROVE  DevicesTrue(q, new, more)
<1>0. /\ registers <=> m.topic = "SERV" /\ m.to = "TG_01"
      /\ \A d \in Devs : new[d] = IF registers /\ d = m.dev THEN m.val ELSE last[d]
      /\ over \subseteq more
      /\ registers /\ (m.dev \in Overtakes(p) \/ p.listeners > 1) => m.dev \in more
  BY DEF Noting
<1>1. /\ m \in ScMsg \cup Own /\ q \in ScState
      /\ q.phase = p.phase /\ q.listeners = p.listeners /\ q.tgcfg = p.tgcfg /\ q.stored = p.stored
      /\ \A c : Copies(c, q.calls) = Copies(c, p.calls) + IF c \in OnMessage(m).calls THEN p.listeners ELSE 0
      /\ DOMAIN q.calls = DOMAIN p.calls \cup OnMessage(m).calls
      /\ p.listeners \in Nat /\ p.listeners > 0
  <2>1. TakenAs(p, m, q)
    BY TakenFacts
  <2> QED
    BY <2>1 DEF TakenAs
<1>2. \A c : Copies(c, p.calls) \in Nat
  BY ScCallFacts
<1>3. \A c : c \notin OnMessage(m).calls => Copies(c, q.calls) = Copies(c, p.calls)
  BY <1>1, <1>2
<1>4. CASE ~registers
  <2>1. \A c \in OnMessage(m).calls : c.op \notin Registering
    <3>1. CASE m.topic \in Data
      <4>1. OnMessage(m).calls = {Call("insert", m)}
        BY <1>1, <3>1, Handled
      <4> QED
        BY <4>1 DEF Call, Registering
    <3>2. CASE m.topic \notin Data
      BY <1>0, <1>1, <1>4, <3>2, Handled
    <3> QED
      BY <3>1, <3>2
  <2>2. \A c \in DOMAIN q.calls : c.op \in {"update", "push"} => q.tgcfg # Nothing
    BY <1>1, <2>1 DEF DevicesTrue, Registering
  <2>3. DevicesTrue(q, last, more)
    BY <1>0, <1>1, <1>3, <2>1, <2>2, DevicesKept
  <2> QED
    BY <1>0, <1>4, <2>3 DEF DevicesTrue
<1>5. CASE registers
  <2> DEFINE k == Call("findList", m)
  <2>1. m \in ScMsg /\ OnMessage(m).calls = {k} /\ m.dev \in Devs
    BY <1>0, <1>1, <1>5, Handled, MessageParts
  <2>2. k.op = "findList" /\ k.m = m /\ k.live
    BY DEF Call
  <2> HIDE DEF k
  <2>3. \A c \in DOMAIN q.calls : c.op \in {"update", "push"} => q.tgcfg # Nothing
    BY <1>1, <2>1, <2>2 DEF DevicesTrue
  <2>4. ASSUME NEW d \in Devs \ more, d # m.dev PROVE DeviceTrue(q, d, new[d])
    <3>1. DeviceTrue(p, d, last[d]) /\ new[d] = last[d]
      BY <1>0, <2>4 DEF DevicesTrue
    <3>2. \A c \in ScCall : c.op \in Registering /\ c.m.dev = d => Copies(c, q.calls) = Copies(c, p.calls)
      BY <1>3, <2>1, <2>2, <2>4
    <3> QED
      BY <1>1, <3>1, <3>2, DeviceSame
  <2>5. ASSUME m.dev \notin more PROVE DeviceTrue(q, m.dev, new[m.dev])
    <3>1. p.listeners = 1 /\ m.dev \notin Overtakes(p) /\ new[m.dev] = m.val
      BY <1>0, <1>1, <1>5, <2>1, <2>5
    <3>2. Pending(p, m.dev) = {}
      BY <3>1 DEF Pending, Overtakes, Registering, BagToSet
    <3>3. k \notin DOMAIN p.calls
      BY <2>2, <3>2 DEF Pending, Registering
    <3>4. q.calls[k] = 1 /\ k \in DOMAIN q.calls
      <4>1. Copies(k, p.calls) = 0
        BY <3>3 DEF Copies, BagIn, BagToSet
      <4>2. Copies(k, q.calls) = 1
        BY <1>1, <2>1, <3>1, <4>1
      <4> QED
        BY <1>1, <2>1, <4>2, ScCallFacts
    <3>5. Pending(q, m.dev) = {k}
      BY <1>1, <2>1, <2>2, <3>2 DEF Pending, Registering
    <3>6. \A i, j \in Listed(q.tgcfg, m.dev) : i = j
      <4>1. DeviceTrue(p, m.dev, last[m.dev])
        BY <1>0, <2>1, <2>5 DEF DevicesTrue
      <4> QED
        BY <1>1, <4>1 DEF DeviceTrue
    <3> QED
      BY <2>2, <3>1, <3>4, <3>5, <3>6 DEF DeviceTrue
  <2> QED
    BY <2>3, <2>4, <2>5 DEF DevicesTrue
<1> QED
  BY <1>4, <1>5

------------------------------------------------------------------------------
(* The answers of the database. *)

\* The call is not under way any more.
Taking(p, c) == [p EXCEPT !.calls = BagRemove(@, c)]

LEMMA TakingFacts ==
  ASSUME NEW p \in ScState, NEW c \in DOMAIN p.calls, NEW q, q = Taking(p, c)
  PROVE  /\ q \in ScState /\ c \in ScCall /\ Takes(q.calls, p.calls, c)
         /\ q.phase = p.phase /\ q.listeners = p.listeners /\ q.inbox = p.inbox
         /\ q.tgcfg = p.tgcfg /\ q.stored = p.stored
         /\ ScAlive(p) => ScAlive(q)
<1> DEFINE b == BagRemove(p.calls, c)
<1>1. p.calls \in BagsOf(ScCall)
  BY ScParts
<1>2. b \in BagsOf(ScCall) /\ Takes(b, p.calls, c)
  BY <1>1, RemoveFacts
<1>3. c \in ScCall
  BY ScCallFacts
<1> HIDE DEF b
<1>4. q = [p EXCEPT !.calls = b]
  BY DEF Taking, b
<1>5. q \in ScState /\ q.calls = b
      /\ q.phase = p.phase /\ q.listeners = p.listeners /\ q.inbox = p.inbox
      /\ q.tgcfg = p.tgcfg /\ q.stored = p.stored
  BY <1>2, <1>4 DEF ScState
<1>6. ScAlive(p) => ScAlive(q)
  BY <1>2, <1>5 DEF ScAlive, Takes
<1> QED
  BY <1>2, <1>3, <1>5, <1>6

\* What is inserted may be forgotten.
LEMMA TakingStores ==
  ASSUME NEW p \in ScState, NEW c \in DOMAIN p.calls, NEW q, q = Taking(p, c),
         NEW again, NEW snt, StoresTrue(p, again, snt)
  PROVE  StoresTrue(q, again, snt)
<1>1. q \in ScState /\ Takes(q.calls, p.calls, c) /\ q.inbox = p.inbox /\ q.stored = p.stored
  BY TakingFacts
<1>2. ASSUME NEW m \in ScMsg PROVE Inserted(q, m) <= Inserted(p, m)
  <2> DEFINE k == Call("insert", m)
             o == Orphan(k)
  <2>1. Copies(k, p.calls) \in Nat /\ Copies(o, p.calls) \in Nat /\ p.stored[m] \in Nat
    BY ScCallFacts
  <2>2. Copies(k, q.calls) <= Copies(k, p.calls) /\ Copies(o, q.calls) <= Copies(o, p.calls)
        /\ Copies(k, q.calls) \in Int /\ Copies(o, q.calls) \in Int
    <3> HIDE DEF k, o
    <3> QED
      BY <1>1, <2>1 DEF Takes
  <2>4. Inserted(q, m) = q.stored[m] + Copies(k, q.calls) + Copies(o, q.calls)
    BY DEF Inserted
  <2>5. Inserted(p, m) = p.stored[m] + Copies(k, p.calls) + Copies(o, p.calls)
    BY DEF Inserted
  <2> HIDE DEF k, o
  <2> QED
    BY <1>1, <2>1, <2>2, <2>4, <2>5
<1>3. PICK k \in 0..1 : k = 0
  OBVIOUS
<1>4. \A m \in ScMsg : m.topic \in Data => \A i \in Arriving(q, m) : i + k \in Arriving(p, m)
  <2>1. SUFFICES ASSUME NEW m \in ScMsg, NEW i \in Arriving(q, m) PROVE i + k \in Arriving(p, m)
    OBVIOUS
  <2>2. i \in Nat
    BY <1>1, ScParts DEF Arriving
  <2>3. i + k = i
    BY <1>3, <2>2
  <2>4. i \in Arriving(p, m)
    BY <1>1 DEF Arriving
  <2> QED
    BY <2>3, <2>4
<1> QED
  BY <1>1, <1>2, <1>4, StoresKept

\* The copies of the other calls stay.
LEMMA TakingOthers ==
  ASSUME NEW p \in ScState, NEW c \in DOMAIN p.calls, NEW q, q = Taking(p, c)
  PROVE  \A e : e # c => Copies(e, q.calls) = Copies(e, p.calls)
<1>1. Takes(q.calls, p.calls, c)
  BY TakingFacts
<1>2. \A e : Copies(e, p.calls) \in Nat
  BY ScCallFacts
<1>3. ASSUME NEW e, e # c PROVE Copies(e, q.calls) = Copies(e, p.calls)
  <2>1. Copies(e, q.calls) = Copies(e, p.calls) - (IF e = c THEN 1 ELSE 0)
    BY <1>1 DEF Takes
  <2> QED
    BY <1>2, <1>3, <2>1
<1> QED
  BY <1>3

\* A call that no device waits for, or one of a device whose registrations overlapped.
LEMMA TakingDevices ==
  ASSUME NEW p \in ScState, NEW c \in DOMAIN p.calls, NEW q, q = Taking(p, c),
         NEW last, NEW over, DevicesTrue(p, last, over), NEW more, over \subseteq more,
         c.op \notin Registering \/ c.m.dev \in more
  PROVE  DevicesTrue(q, last, more)
<1>1. q \in ScState /\ q.tgcfg = p.tgcfg /\ DOMAIN q.calls \subseteq DOMAIN p.calls
  BY TakingFacts DEF Takes
<1>2. \A e : e # c => Copies(e, q.calls) = Copies(e, p.calls)
  BY TakingOthers
<1>3. \A e \in ScCall : e.op \in Registering /\ e.m.dev \notin more => Copies(e, q.calls) = Copies(e, p.calls)
  BY <1>2
<1>4. \A e \in DOMAIN q.calls : e.op \in {"update", "push"} => q.tgcfg # Nothing
  BY <1>1 DEF DevicesTrue
<1> QED
  BY <1>1, <1>3, <1>4, DevicesKept

\* A device waits for one call, and then for none.
LEMMA WaitsFor ==
  ASSUME NEW p \in ScState, NEW c \in DOMAIN p.calls, c.op \in Registering, NEW b, b = c.m.dev,
         NEW last, NEW over, DevicesTrue(p, last, over), b \in Devs \ over, NEW q, q = Taking(p, c)
  PROVE  /\ c.live /\ c.m.val = last[b] /\ Pending(p, b) = {c} /\ p.calls[c] = 1
         /\ Pending(q, b) = {} /\ DeviceTrue(p, b, last[b])
<1>0. DeviceTrue(p, b, last[b])
  BY DEF DevicesTrue
<1>1. c \in Pending(p, b)
  BY DEF Pending
<1>2. c.live /\ c.m.val = last[b] /\ Pending(p, b) = {c} /\ p.calls[c] = 1
  BY <1>0, <1>1 DEF DeviceTrue
<1>3. Takes(q.calls, p.calls, c) /\ q \in ScState
  BY TakingFacts
<1>4. c \notin DOMAIN q.calls
  <2>1. Copies(c, p.calls) = 1
    BY <1>2, ScCallFacts
  <2>2. Copies(c, q.calls) = 0
    BY <1>3, <2>1 DEF Takes
  <2> QED
    BY <1>3, <2>2, ScCallFacts
<1>5. Pending(q, b) = {}
  BY <1>2, <1>3, <1>4 DEF Pending, Takes
<1> QED
  BY <1>0, <1>2, <1>5

\* The answer is for one device: the others' calls and entries stay.
AnswerFor(b, p, q, last, over) ==
  /\ \A d : d # b => /\ Listed(q.tgcfg, d) = Listed(p.tgcfg, d)
                     /\ \A i \in Listed(p.tgcfg, d) : q.tgcfg[i].val = p.tgcfg[i].val
  /\ \A e \in ScCall : e.op \in Registering /\ e.m.dev # b => Copies(e, q.calls) = Copies(e, p.calls)
  /\ p.tgcfg # Nothing /\ q.tgcfg # Nothing
  /\ b \in Devs \ over => DeviceTrue(q, b, last[b])

LEMMA DeviceEach ==
  ASSUME NEW p \in ScState, NEW q \in ScState, NEW b, NEW last, NEW over, DevicesTrue(p, last, over),
         AnswerFor(b, p, q, last, over)
  PROVE  DevicesTrue(q, last, over)
<1>1. ASSUME NEW d \in Devs \ over PROVE DeviceTrue(q, d, last[d])
  <2>1. CASE d = b
    BY <2>1 DEF AnswerFor
  <2>2. CASE d # b
    <3>1. DeviceTrue(p, d, last[d])
      BY DEF DevicesTrue
    <3>2. /\ Listed(q.tgcfg, d) = Listed(p.tgcfg, d)
          /\ \A i \in Listed(p.tgcfg, d) : q.tgcfg[i].val = p.tgcfg[i].val
      BY <2>2 DEF AnswerFor
    <3>3. \A e \in ScCall : e.op \in Registering /\ e.m.dev = d => Copies(e, q.calls) = Copies(e, p.calls)
      BY <2>2 DEF AnswerFor
    <3>4. p.tgcfg # Nothing
      BY DEF AnswerFor
    <3> QED
      BY <3>1, <3>2, <3>3, <3>4, DeviceSame
  <2> QED
    BY <2>1, <2>2
<1> QED
  BY <1>1 DEF DevicesTrue, AnswerFor

\* A datum comes into the database.
LEMMA InsertGood ==
  ASSUME NEW p \in ScState, NEW c \in DOMAIN p.calls, c.op = "insert", NEW t, t = Taking(p, c),
         NEW q, q = [t EXCEPT !.stored[c.m] = @ + 1],
         NEW again, NEW snt, NEW last, NEW over,
         ScAlive(p), StoresTrue(p, again, snt), DevicesTrue(p, last, over)
  PROVE  q \in ScState /\ ScAlive(q) /\ StoresTrue(q, again, snt) /\ DevicesTrue(q, last, over)
<1>1. /\ t \in ScState /\ c \in ScCall /\ Takes(t.calls, p.calls, c) /\ ScAlive(t)
      /\ t.inbox = p.inbox /\ t.stored = p.stored
  BY TakingFacts
<1>2. c.m \in ScMsg /\ c.live \in BOOLEAN /\ t.stored \in [ScMsg -> Nat]
  BY <1>1, ScParts, ScCallFacts
<1> DEFINE z == [t.stored EXCEPT ![c.m] = @ + 1]
<1>3. /\ z \in [ScMsg -> Nat] /\ z[c.m] = p.stored[c.m] + 1
      /\ \A m \in ScMsg : m # c.m => z[m] = p.stored[m]
  BY <1>1, <1>2
<1> HIDE DEF z
<1>4. /\ q \in ScState /\ q.stored = z
      /\ q.phase = t.phase /\ q.listeners = t.listeners /\ q.inbox = t.inbox /\ q.calls = t.calls /\ q.tgcfg = t.tgcfg
  <2>1. q = [t EXCEPT !.stored = z]
    BY <1>1 DEF z, ScState
  <2> QED
    BY <1>1, <1>3, <2>1 DEF ScState
<1>5. ScAlive(q)
  BY <1>1, <1>4 DEF ScAlive
<1>6. c = Call("insert", c.m) \/ c = Orphan(Call("insert", c.m))
  <2>1. c.live \in BOOLEAN
    BY <1>2
  <2>2. c = [op |-> c.op, m |-> c.m, live |-> c.live]
    BY <1>1 DEF ScCall
  <2>3. CASE c.live = TRUE
    BY <2>2, <2>3 DEF Call
  <2>4. CASE c.live = FALSE
    BY <2>2, <2>4 DEF Call, Orphan
  <2> QED
    BY <2>1, <2>3, <2>4
<1>7. ASSUME NEW m \in ScMsg PROVE Inserted(q, m) = Inserted(p, m)
  <2> DEFINE k == Call("insert", m)
             o == Orphan(k)
  <2>1. Copies(k, p.calls) \in Nat /\ Copies(o, p.calls) \in Nat /\ p.stored[m] \in Nat /\ k # o
        /\ k.m = m /\ o.m = m
    <3>1. k.m = m /\ o.m = m
      BY DEF Call, Orphan
    <3> QED
      BY <3>1, ScCallFacts
  <2>2. Inserted(q, m) = q.stored[m] + Copies(k, q.calls) + Copies(o, q.calls)
    BY DEF Inserted
  <2>3. Inserted(p, m) = p.stored[m] + Copies(k, p.calls) + Copies(o, p.calls)
    BY DEF Inserted
  <2>4. m = c.m => c = k \/ c = o
    BY <1>6
  <2> HIDE DEF k, o
  <2>5. /\ Copies(k, q.calls) = Copies(k, p.calls) - IF k = c THEN 1 ELSE 0
        /\ Copies(o, q.calls) = Copies(o, p.calls) - IF o = c THEN 1 ELSE 0
    BY <1>1, <1>4 DEF Takes
  <2>6. CASE m = c.m
    <3>1. q.stored[m] = p.stored[m] + 1
      BY <1>3, <1>4, <2>6
    <3>2. CASE c = k
      BY <2>1, <2>2, <2>3, <2>5, <3>1, <3>2
    <3>3. CASE c = o
      BY <2>1, <2>2, <2>3, <2>5, <3>1, <3>3
    <3> QED
      BY <2>4, <2>6, <3>2, <3>3
  <2>7. CASE m # c.m
    <3>1. q.stored[m] = p.stored[m]
      BY <1>3, <1>4, <2>7
    <3>2. k # c /\ o # c
      BY <2>1, <2>7
    <3> QED
      BY <2>1, <2>2, <2>3, <2>5, <3>1, <3>2
  <2> QED
    BY <2>6, <2>7
<1>8. StoresTrue(q, again, snt)
  <2>1. \A m \in ScMsg : Arriving(q, m) = Arriving(p, m)
    BY <1>1, <1>4 DEF Arriving
  <2> QED
    BY <1>7, <2>1 DEF StoresTrue
<1>9. DevicesTrue(q, last, over)
  <2>1. c.op \notin Registering
    BY DEF Registering
  <2>2. DevicesTrue(t, last, over)
    BY <2>1, TakingDevices
  <2>3. \A e \in DOMAIN q.calls : e.op \in {"update", "push"} => q.tgcfg # Nothing
    BY <1>4, <2>2 DEF DevicesTrue
  <2> QED
    BY <1>1, <1>4, <2>2, <2>3, DevicesKept
<1> QED
  BY <1>4, <1>5, <1>8, <1>9

\* The first entry of a device is one of its entries.
LEMMA FirstFacts ==
  ASSUME NEW s \in Seq(Entry), NEW d, Listed(s, d) # {}
  PROVE  First(s, d) \in Listed(s, d)
<1>1. Listed(s, d) \in SUBSET Nat
  BY DEF Listed
<1>2. PICK i \in Listed(s, d) : \A j \in Listed(s, d) : i <= j
  BY <1>1, Least
<1> QED
  BY <1>2 DEF First

\* A step that leaves the data alone.
LEMMA StoresAlike ==
  ASSUME NEW p, NEW q, NEW again, NEW snt, StoresTrue(p, again, snt), q.inbox = p.inbox, q.stored = p.stored,
         \A m \in ScMsg : /\ Copies(Call("insert", m), q.calls) = Copies(Call("insert", m), p.calls)
                          /\ Copies(Orphan(Call("insert", m)), q.calls) = Copies(Orphan(Call("insert", m)), p.calls)
  PROVE  StoresTrue(q, again, snt)
<1>1. \A m \in ScMsg : Inserted(q, m) = Inserted(p, m) /\ Arriving(q, m) = Arriving(p, m)
  BY DEF Inserted, Arriving
<1> QED
  BY <1>1 DEF StoresTrue

\* A list with a device in it is a document.
LEMMA NotNothing ==
  ASSUME NEW s, NEW i \in DOMAIN s, s[i].dev # NoDocument
  PROVE  s # Nothing
<1>1. SUFFICES ASSUME s = Nothing PROVE FALSE
  OBVIOUS
<1>2. DOMAIN s = {1} /\ s[1].dev = NoDocument
  BY <1>1 DEF Nothing
<1> QED
  BY <1>2

\* A device's value is set to v.
ValueSet(r, s, d, v) ==
  /\ r \in Seq(Entry) /\ r # Nothing
  /\ \A e : e # d => Listed(r, e) = Listed(s, e) /\ \A i \in Listed(s, e) : r[i].val = s[i].val
  /\ \E i \in Listed(r, d) : r[i].val = v

Single(s, d) == \A i, j \in Listed(s, d) : i = j

\* The value of its first entry is set.
LEMMA SetFirst ==
  ASSUME NEW s \in Seq(Entry), NEW d, d # NoDocument, NEW v \in Nat, Listed(s, d) # {},
         NEW r, r = [s EXCEPT ![First(s, d)].val = v]
  PROVE  ValueSet(r, s, d, v) /\ Listed(r, d) = Listed(s, d)
<1>1. PICK k : k = First(s, d) /\ k \in Listed(s, d)
  BY FirstFacts
<1>2. k \in DOMAIN s /\ s[k] \in Entry /\ s[k].dev = d
  BY <1>1 DEF Listed
<1> DEFINE x == [s[k] EXCEPT !.val = v]
<1>3. x \in Entry /\ x.dev = d /\ x.val = v
  BY <1>2 DEF Entry
<1> HIDE DEF x
<1>4. r = [s EXCEPT ![k] = x]
  BY <1>1, <1>2 DEF x
<1>5. r \in Seq(Entry) /\ DOMAIN r = DOMAIN s /\ r[k] = x /\ \A i \in DOMAIN s : i # k => r[i] = s[i]
  <2>1. Len(s) \in Nat /\ DOMAIN s = 1..Len(s) /\ s \in [1..Len(s) -> Entry]
    OBVIOUS
  <2>2. r \in [1..Len(s) -> Entry]
    BY <1>2, <1>3, <1>4, <2>1
  <2>3. r \in Seq(Entry)
    BY <2>1, <2>2, SeqDef
  <2> QED
    BY <1>2, <1>4, <2>3
<1>6. \A e : Listed(r, e) = Listed(s, e)
  BY <1>2, <1>3, <1>5 DEF Listed
<1>7. r # Nothing
  BY <1>2, <1>3, <1>5, NotNothing
<1>8. \A e : e # d => \A i \in Listed(s, e) : r[i].val = s[i].val
  BY <1>2, <1>5 DEF Listed
<1>9. \E i \in Listed(r, d) : r[i].val = v
  BY <1>1, <1>3, <1>5, <1>6
<1> QED
  BY <1>5, <1>6, <1>7, <1>8, <1>9 DEF ValueSet

\* A device is put behind the others.
LEMMA PutLast ==
  ASSUME NEW s \in Seq(Entry), NEW x \in Entry, NEW d, x.dev = d, d # NoDocument, NEW v, x.val = v,
         NEW r, r = Append(s, x)
  PROVE  ValueSet(r, s, d, v) /\ (Listed(s, d) = {} => Single(r, d))
<1> DEFINE n == Len(s)
<1>2. n \in Nat /\ DOMAIN s = 1..n
  OBVIOUS
<1>3. r \in Seq(Entry) /\ Len(r) = n + 1 /\ r[n + 1] = x /\ \A i \in 1..n : r[i] = s[i]
  BY AppendProperties
<1> HIDE DEF n
<1>4. DOMAIN r = 1..n + 1
  BY <1>3
<1>5. n + 1 \in DOMAIN r /\ n + 1 \notin DOMAIN s /\ \A i \in DOMAIN r : i = n + 1 \/ i \in DOMAIN s
  BY <1>2, <1>4
<1>6. DOMAIN s \subseteq DOMAIN r
  BY <1>2, <1>4
<1>7. \A i \in DOMAIN s : r[i] = s[i]
  BY <1>2, <1>3
<1>8. r # Nothing
  BY <1>3, <1>5, NotNothing
<1>9. \A e : e # d => Listed(r, e) = Listed(s, e) /\ \A i \in Listed(s, e) : r[i].val = s[i].val
  BY <1>3, <1>5, <1>6, <1>7 DEF Listed
<1>10. Listed(s, d) = {} => Listed(r, d) = {n + 1}
  BY <1>3, <1>5, <1>7 DEF Listed
<1>11. \E i \in Listed(r, d) : r[i].val = v
  BY <1>3, <1>5 DEF Listed
<1> QED
  BY <1>3, <1>8, <1>9, <1>10, <1>11 DEF ValueSet, Single

\* The list takes the value that its device sent.
LEMMA ListGood ==
  ASSUME NEW p \in ScState, NEW c \in DOMAIN p.calls, c.op \in {"update", "push"}, NEW t, t = Taking(p, c),
         NEW b, b = c.m.dev, NEW v, v = c.m.val, NEW r, ValueSet(r, p.tgcfg, b, v), NEW q, q = [t EXCEPT !.tgcfg = r],
         NEW again, NEW snt, NEW last, NEW over,
         ScAlive(p), StoresTrue(p, again, snt), DevicesTrue(p, last, over),
         b \notin over => Single(r, b)
  PROVE  q \in ScState /\ ScAlive(q) /\ StoresTrue(q, again, snt) /\ DevicesTrue(q, last, over)
<1>1. /\ t \in ScState /\ c \in ScCall /\ Takes(t.calls, p.calls, c) /\ ScAlive(t)
      /\ t.inbox = p.inbox /\ t.stored = p.stored
  BY TakingFacts
<1>2. /\ q \in ScState /\ q.tgcfg = r /\ q.stored = t.stored
      /\ q.phase = t.phase /\ q.listeners = t.listeners /\ q.inbox = t.inbox /\ q.calls = t.calls
  BY <1>1 DEF ScState, ValueSet
<1>3. ScAlive(q)
  BY <1>1, <1>2 DEF ScAlive
<1>4. StoresTrue(q, again, snt)
  <2>1. StoresTrue(t, again, snt)
    BY TakingStores
  <2> QED
    BY <1>2, <2>1, StoresAlike
<1>5. /\ r \in Seq(Entry) /\ r # Nothing
      /\ \A e : e # b => Listed(r, e) = Listed(p.tgcfg, e) /\ \A i \in Listed(p.tgcfg, e) : r[i].val = p.tgcfg[i].val
      /\ \E i \in Listed(r, b) : r[i].val = v
  BY DEF ValueSet
<1>6. b \in Devs \ over => DeviceTrue(q, b, last[b])
  <2>1. SUFFICES ASSUME b \in Devs \ over PROVE DeviceTrue(q, b, last[b])
    OBVIOUS
  <2>3. c.op \in Registering
    BY DEF Registering
  <2>4. c.m.val = last[b] /\ Pending(t, b) = {}
    BY <1>5, <2>1, <2>3, WaitsFor
  <2>5. Pending(q, b) = {}
    BY <1>2, <2>4 DEF Pending
  <2>6. /\ \A i, j \in Listed(q.tgcfg, b) : i = j
        /\ \E i \in Listed(q.tgcfg, b) : q.tgcfg[i].val = last[b]
    BY <1>2, <1>5, <2>1, <2>4 DEF Single
  <2> QED
    BY <2>5, <2>6 DEF DeviceTrue
<1>7. \A e \in ScCall : e.op \in Registering /\ e.m.dev # b => Copies(e, q.calls) = Copies(e, p.calls)
  <2>1. \A e : e # c => Copies(e, t.calls) = Copies(e, p.calls)
    BY TakingOthers
  <2> QED
    BY <1>2, <1>5, <2>1
<1>8. DevicesTrue(q, last, over)
  <2>1. \A d : d # b => /\ Listed(q.tgcfg, d) = Listed(p.tgcfg, d)
                       /\ \A i \in Listed(p.tgcfg, d) : q.tgcfg[i].val = p.tgcfg[i].val
    BY <1>2, <1>5
  <2>2. p.tgcfg # Nothing /\ q.tgcfg # Nothing
    BY <1>2, <1>5 DEF DevicesTrue
  <2>3. AnswerFor(b, p, q, last, over)
    BY <1>6, <1>7, <2>1, <2>2 DEF AnswerFor
  <2> QED
    BY <1>2, <2>3, DeviceEach
<1> QED
  BY <1>2, <1>3, <1>4, <1>8

ScGood(p, again, snt, last, over) ==
  p \in ScState /\ ScAlive(p) /\ StoresTrue(p, again, snt) /\ DevicesTrue(p, last, over)

\* A device was looked up: its entry is to be updated, or made.
LEMMA FoundGood ==
  ASSUME NEW p \in ScState, NEW c \in DOMAIN p.calls, c.op = "findList", c.live, p.tgcfg # Nothing,
         NEW t, t = Taking(p, c), NEW op \in {"update", "push"}, NEW q, q = Start(t, Once(Call(op, c.m))),
         op = "update" => Listed(p.tgcfg, c.m.dev) # {}, op = "push" => Listed(p.tgcfg, c.m.dev) = {},
         NEW again, NEW snt, NEW last, NEW over, ScGood(p, again, snt, last, over)
  PROVE  ScGood(q, again, snt, last, over)
<1> DEFINE n == Call(op, c.m)
           a == (t.calls (+) ByEach(1, {n}))
<1>0. ScAlive(p) /\ StoresTrue(p, again, snt) /\ DevicesTrue(p, last, over)
  BY DEF ScGood
<1>1. /\ t \in ScState /\ c \in ScCall /\ Takes(t.calls, p.calls, c)
      /\ t.phase = p.phase /\ t.inbox = p.inbox /\ t.stored = p.stored /\ t.tgcfg = p.tgcfg
  BY TakingFacts
<1>2. n \in ScCall /\ n.op = op /\ n.m = c.m /\ n.live /\ n.op \in Registering /\ c.op \in Registering
  <2>1. c.m \in ScMsg
    BY <1>1, ScCallFacts
  <2> QED
    BY <2>1 DEF Call, ScCall, Registering
<1>3. \A m \in ScMsg : n # Call("insert", m) /\ n # Orphan(Call("insert", m))
  BY DEF Call, Orphan
<1> HIDE DEF n
<1>4. a \in BagsOf(ScCall) /\ Adds(a, t.calls, {n}, 1)
  <2>1. t.calls \in BagsOf(ScCall)
    BY <1>1, ScParts
  <2>2. {n} \in SUBSET ScCall /\ 1 \in Nat /\ 1 > 0
    BY <1>2
  <2> QED
    BY <2>1, <2>2, AddEach
<1>5. q = [t EXCEPT !.calls = a]
  BY OnceEach DEF Start, n
<1> HIDE DEF a
<1>6. /\ q \in ScState /\ q.calls = a
      /\ q.phase = t.phase /\ q.listeners = t.listeners /\ q.inbox = t.inbox /\ q.stored = t.stored /\ q.tgcfg = t.tgcfg
  BY <1>1, <1>4, <1>5 DEF ScState
<1>7. ScAlive(q)
  <2>1. ScAlive(t) /\ p.phase # "down"
    BY <1>0, TakingFacts DEF ScAlive
  <2> QED
    BY <1>1, <1>6, <2>1 DEF ScAlive
<1>8. \A e : Copies(e, t.calls) \in Nat
  BY <1>1, ScCallFacts
<1>9. \A e : e # n => Copies(e, q.calls) = Copies(e, t.calls)
  <2>1. SUFFICES ASSUME NEW e, e # n PROVE Copies(e, q.calls) = Copies(e, t.calls)
    OBVIOUS
  <2>2. Copies(e, a) = Copies(e, t.calls) + IF e \in {n} THEN 1 ELSE 0
    BY <1>4 DEF Adds
  <2> QED
    BY <1>6, <1>8, <2>1, <2>2
<1>10. StoresTrue(q, again, snt)
  <2>1. StoresTrue(t, again, snt)
    BY <1>0, TakingStores
  <2> QED
    BY <1>3, <1>6, <1>9, <2>1, StoresAlike
<1>11. PICK b : b = c.m.dev
  OBVIOUS
<1>12. b \in Devs \ over => DeviceTrue(q, b, last[b])
  <2>1. SUFFICES ASSUME b \in Devs \ over PROVE DeviceTrue(q, b, last[b])
    OBVIOUS
  <2>2. c.m.val = last[b] /\ Pending(t, b) = {} /\ DeviceTrue(p, b, last[b])
    BY <1>0, <1>2, <1>11, <2>1, WaitsFor
  <2>3. n \notin DOMAIN t.calls
    BY <1>2, <1>11, <2>2 DEF Pending
  <2>4. Pending(q, b) = {n}
    BY <1>2, <1>4, <1>6, <1>11, <2>2 DEF Pending, Adds
  <2>5. q.calls[n] = 1
    <3>1. Copies(n, t.calls) = 0
      BY <2>3 DEF Copies, BagIn, BagToSet
    <3>2. Copies(n, a) = Copies(n, t.calls) + IF n \in {n} THEN 1 ELSE 0
      BY <1>4 DEF Adds
    <3>3. n \in DOMAIN q.calls /\ Copies(n, q.calls) = 1
      BY <1>4, <1>6, <3>1, <3>2 DEF Adds
    <3> QED
      BY <1>6, <3>3, ScCallFacts
  <2>6. \A i, j \in Listed(q.tgcfg, b) : i = j
    BY <1>1, <1>6, <2>2 DEF DeviceTrue
  <2> QED
    BY <1>1, <1>2, <1>6, <1>11, <2>2, <2>4, <2>5, <2>6 DEF DeviceTrue
<1>13. \A e \in ScCall : e.op \in Registering /\ e.m.dev # b => Copies(e, q.calls) = Copies(e, p.calls)
  <2>1. \A e : e # c => Copies(e, t.calls) = Copies(e, p.calls)
    BY TakingOthers
  <2> QED
    BY <1>2, <1>9, <1>11, <2>1
<1>14. AnswerFor(b, p, q, last, over)
  BY <1>1, <1>6, <1>12, <1>13 DEF AnswerFor
<1>15. DevicesTrue(q, last, over)
  BY <1>0, <1>6, <1>14, DeviceEach
<1> QED
  BY <1>6, <1>7, <1>10, <1>15 DEF ScGood

\* An exception in a callback.
LEMMA ThrowsGood ==
  ASSUME NEW p \in ScState, NEW c \in DOMAIN p.calls, NEW t, t = Taking(p, c), NEW q, q = Die(t),
         NEW again, NEW snt, NEW last, NEW over, ScGood(p, again, snt, last, over),
         NEW more, more = over \cup Overtakes(p)
  PROVE  ScGood(q, again, snt, last, more) /\ q.phase = "down"
<1>0. ScAlive(p) /\ StoresTrue(p, again, snt) /\ DevicesTrue(p, last, over)
  BY DEF ScGood
<1>1. t \in ScState /\ DOMAIN t.calls \subseteq DOMAIN p.calls
  BY TakingFacts DEF Takes
<1>2. StoresTrue(t, again, snt)
  BY <1>0, TakingStores
<1>3. c.op \notin Registering \/ c.m.dev \in more
  BY DEF Overtakes, Registering, BagToSet
<1>4. DevicesTrue(t, last, more)
  BY <1>0, <1>3, TakingDevices
<1>5. Overtakes(t) \subseteq more
  BY <1>1 DEF Overtakes, BagToSet
<1>6. q \in ScState /\ ScAlive(q) /\ StoresTrue(q, again, snt) /\ DevicesTrue(q, last, more)
  BY <1>1, <1>2, <1>4, <1>5, DieGood
<1>7. q.phase = "down"
  BY <1>1 DEF Die, ScState
<1> QED
  BY <1>6, <1>7 DEF ScGood

\* An entry, and the entries of a device.
LEMMA EntryFacts ==
  ASSUME NEW d \in STRING, NEW v \in Nat
  PROVE  \E x \in Entry : x = [dev |-> d, val |-> v] /\ x.dev = d /\ x.val = v
<1>1. [dev |-> d, val |-> v] \in Entry
  BY DEF Entry
<1> QED
  BY <1>1

LEMMA ListedFinite ==
  ASSUME NEW s \in Seq(Entry), NEW d
  PROVE  IsFiniteSet(Listed(s, d))
<1>1. PICK n \in Nat : DOMAIN s = 1..n
  OBVIOUS
<1>2. IsFiniteSet(1..n)
  BY FS_Interval
<1>3. Listed(s, d) \in SUBSET (1..n)
  BY <1>1 DEF Listed
<1> QED
  BY <1>2, <1>3, FS_Subset

\* The database answers, or does not.
LEMMA AnswerGood ==
  ASSUME NEW p \in ScState, NEW c \in DOMAIN p.calls, NEW t, t = Taking(p, c), NEW q, q = Execute(t, c),
         NEW again, NEW snt, NEW last, NEW over, ScGood(p, again, snt, last, over),
         NEW more, over \subseteq more, q.phase = "down" /\ p.phase # "down" => more = over \cup Overtakes(p)
  PROVE  ScGood(q, again, snt, last, more)
<1>0. ScAlive(p) /\ StoresTrue(p, again, snt) /\ DevicesTrue(p, last, over)
  BY DEF ScGood
<1>1. /\ t \in ScState /\ c \in ScCall /\ ScAlive(t)
      /\ t.phase = p.phase /\ t.tgcfg = p.tgcfg
  BY <1>0, TakingFacts
<1>2. c.m \in ScMsg /\ c.m.dev \in Devs /\ c.m.dev \in STRING /\ c.m.dev # NoDocument /\ c.m.val \in Nat
  BY <1>1, ScCallFacts, MessageParts
<1>3. p.tgcfg \in Seq(Entry)
  BY ScParts
<1>4. StoresTrue(t, again, snt)
  BY <1>0, TakingStores
<1>5. ScGood(q, again, snt, last, over) => ScGood(q, again, snt, last, more)
  BY DEF ScGood, DevicesTrue
<1>6. CASE c.op = "insert"
  <2>1. q = [t EXCEPT !.stored[c.m] = @ + 1]
    BY <1>6 DEF Execute
  <2>2. q \in ScState /\ ScAlive(q) /\ StoresTrue(q, again, snt) /\ DevicesTrue(q, last, over)
    BY <1>0, <1>6, <2>1, InsertGood
  <2> QED
    BY <1>5, <2>2 DEF ScGood
<1>7. PICK b, v : b = c.m.dev /\ v = c.m.val /\ b \in STRING /\ b # NoDocument /\ v \in Nat /\ b \in Devs
  BY <1>2
<1>8. CASE c.op = "update" /\ Listed(p.tgcfg, b) # {}
  <2>1. PICK r : r = [p.tgcfg EXCEPT ![First(p.tgcfg, b)].val = v]
    OBVIOUS
  <2>2. q = [t EXCEPT !.tgcfg = r]
    BY <1>1, <1>7, <1>8, <2>1 DEF Execute
  <2>3. ValueSet(r, p.tgcfg, b, v) /\ Listed(r, b) = Listed(p.tgcfg, b)
    BY <1>3, <1>7, <1>8, <2>1, SetFirst
  <2>4. b \notin over => Single(r, b)
    <3>1. b \notin over => DeviceTrue(p, b, last[b])
      BY <1>0, <1>7 DEF DevicesTrue
    <3>2. b \notin over => Single(p.tgcfg, b)
      BY <3>1 DEF DeviceTrue, Single
    <3> QED
      BY <2>3, <3>2 DEF Single
  <2>5. q \in ScState /\ ScAlive(q) /\ StoresTrue(q, again, snt) /\ DevicesTrue(q, last, over)
    BY <1>0, <1>7, <1>8, <2>2, <2>3, <2>4, ListGood, SMTT(40)
  <2> QED
    BY <1>5, <2>5 DEF ScGood
<1>16. CASE c.op = "push"
  <2>0. PICK x \in Entry : x = [dev |-> b, val |-> v] /\ x.dev = b /\ x.val = v
    BY <1>7, EntryFacts
  <2>1. PICK r : r = Append(p.tgcfg, x)
    OBVIOUS
  <2>2. q = [t EXCEPT !.tgcfg = r]
    BY <1>1, <1>7, <1>16, <2>0, <2>1 DEF Execute
  <2>3. ValueSet(r, p.tgcfg, b, v) /\ (Listed(p.tgcfg, b) = {} => Single(r, b))
    BY ONLY <1>3, <1>7, <2>0, <2>1, PutLast
  <2>4. b \notin over => Listed(p.tgcfg, b) = {}
    <3>1. c \in Pending(p, b)
      BY <1>7, <1>16 DEF Pending, Registering
    <3> QED
      BY <1>0, <1>7, <1>16, <3>1 DEF DevicesTrue, DeviceTrue
  <2>5. q \in ScState /\ ScAlive(q) /\ StoresTrue(q, again, snt) /\ DevicesTrue(q, last, over)
    <3>1. c.op \in {"update", "push"} /\ ValueSet(r, p.tgcfg, b, v) /\ (b \notin over => Single(r, b))
      BY <1>16, <2>3, <2>4
    <3> QED
      BY <1>0, <1>7, <2>2, <3>1, ListGood, SMTT(40)
  <2> QED
    BY <1>5, <2>5 DEF ScGood
<1>9. CASE c.live /\ c.op \in {"findList", "findThr"} /\ q = Die(t)
  <2>1. p.phase # "down"
    BY <1>0, <1>9 DEF ScAlive
  <2>2. PICK w : w = over \cup Overtakes(p)
    OBVIOUS
  <2>3. ScGood(q, again, snt, last, w) /\ q.phase = "down"
    BY <1>9, <2>2, ThrowsGood
  <2> QED
    BY <2>1, <2>2, <2>3
<1>10. CASE c.live /\ c.op = "findList" /\ p.tgcfg # Nothing
  <2>1. CASE Listed(p.tgcfg, c.m.dev) # {}
    <3>1. q = Start(t, Once(Call("update", c.m)))
      BY <1>1, <1>10, <2>1 DEF Execute, FindList
    <3> QED
      BY <1>5, <1>10, <2>1, <3>1, FoundGood
  <2>2. CASE Listed(p.tgcfg, c.m.dev) = {}
    <3>1. q = Start(t, Once(Call("push", c.m)))
      BY <1>1, <1>10, <2>2 DEF Execute, FindList
    <3> QED
      BY <1>5, <1>10, <2>2, <3>1, FoundGood
  <2> QED
    BY <2>1, <2>2
<1>11. ASSUME NEW s \in Seq(Own), c.op \in {"findThr", "findServices"}, q = Publish(t, s)
       PROVE  ScGood(q, again, snt, last, over)
  <2>1. DevicesTrue(t, last, over)
    BY <1>0, <1>11, TakingDevices DEF Registering
  <2>2. q \in ScState /\ ScAlive(q) /\ StoresTrue(q, again, snt) /\ DevicesTrue(q, last, over)
    BY <1>1, <1>4, <1>11, <2>1, PublishGood
  <2> QED
    BY <2>2 DEF ScGood
<1>12. CASE c.live /\ c.op = "findThr" /\ q # Die(t)
  <2>1. ~(p.tgcfg = Nothing \/ Listed(p.tgcfg, c.m.dev) = {})
    BY <1>1, <1>12 DEF Execute, FindThr
  <2> DEFINE s == [i \in 1..Cardinality(Listed(p.tgcfg, c.m.dev)) |-> Message("THR", "USER_01", "responseThr")]
  <2>2. q = Publish(t, s)
    BY <1>1, <1>12, <2>1 DEF Execute, FindThr
  <2>3. s \in Seq(Own)
    <3>1. IsFiniteSet(Listed(p.tgcfg, c.m.dev))
      BY <1>3, ListedFinite
    <3>2. PICK n \in Nat : n = Cardinality(Listed(p.tgcfg, c.m.dev))
      BY <3>1, FS_CardinalityType
    <3>3. Message("THR", "USER_01", "responseThr") \in Own
      BY DEF Own
    <3>4. s \in [1..n -> Own]
      BY <3>2, <3>3
    <3> QED
      BY <3>2, <3>4, SeqDef
  <2> HIDE DEF s
  <2> QED
    BY <1>5, <1>11, <1>12, <2>2, <2>3
<1>13. CASE c.live /\ c.op = "findServices"
  <2>1. q = Publish(t, <<Message("SERV", "USER_01", "responseService")>>)
    BY <1>13 DEF Execute
  <2>2. <<Message("SERV", "USER_01", "responseService")>> \in Seq(Own)
    BY DEF Own
  <2> QED
    BY <1>5, <1>11, <1>13, <2>1, <2>2
<1>14. CASE /\ ~(c.op = "insert") /\ ~(c.op = "push") /\ ~(c.op = "update" /\ Listed(p.tgcfg, c.m.dev) # {})
            /\ ~(c.live /\ c.op \in {"findList", "findThr", "findServices"})
  <2>1. q = t
    BY <1>1, <1>14 DEF Execute
  <2>2. c.op \notin Registering \/ c.m.dev \in over
    <3>1. SUFFICES ASSUME c.op \in Registering, c.m.dev \notin over PROVE FALSE
      OBVIOUS
    <3>2. c \in Pending(p, c.m.dev)
      BY <3>1 DEF Pending
    <3>3. DeviceTrue(p, c.m.dev, last[c.m.dev])
      BY <1>0, <1>2, <3>1 DEF DevicesTrue
    <3> QED
      BY <1>14, <3>1, <3>2, <3>3 DEF DeviceTrue, Registering
  <2>3. DevicesTrue(t, last, over)
    BY <1>0, <2>2, TakingDevices
  <2> QED
    BY <1>1, <1>4, <1>5, <2>1, <2>3 DEF ScGood
<1>15. c.live /\ c.op = "findList" /\ p.tgcfg = Nothing => q = Die(t)
  BY <1>1 DEF Execute, FindList
<1> QED
  BY <1>6, <1>7, <1>8, <1>16, <1>9, <1>10, <1>12, <1>13, <1>14, <1>15

ScTyped == sent \subseteq ScMsg /\ noted \in Notes
ScInv == ScGood(sc, noted.again, sent, noted.last, noted.overlap) /\ ScTyped

\* What a service holds when nothing has happened.
LEMMA NoCalls ==
  ASSUME NEW S
  PROVE  EmptyBag \in BagsOf(S) /\ DOMAIN EmptyBag = {} /\ \A c : Copies(c, EmptyBag) = 0
<1>1. DOMAIN EmptyBag = {} /\ EmptyBag \in [{} -> Nat \ {0}]
  BY DEF EmptyBag, SetToBag
<1>2. EmptyBag \in BagsOf(S)
  BY <1>1, BagFacts
<1> QED
  BY <1>1, <1>2 DEF Copies, BagIn, BagToSet

\* A step that changes neither the messages nor the database.
LEMMA SameGood ==
  ASSUME NEW p, NEW q \in ScState, NEW again, NEW snt, NEW last, NEW over, ScGood(p, again, snt, last, over),
         q.inbox = p.inbox, q.stored = p.stored, q.calls = p.calls, q.tgcfg = p.tgcfg, ScAlive(q)
  PROVE  ScGood(q, again, snt, last, over)
<1>0. p \in ScState /\ StoresTrue(p, again, snt) /\ DevicesTrue(p, last, over)
  BY DEF ScGood
<1>1. StoresTrue(q, again, snt)
  BY <1>0, StoresAlike
<1>2. \A c \in DOMAIN q.calls : c.op \in {"update", "push"} => q.tgcfg # Nothing
  BY <1>0 DEF DevicesTrue
<1>3. DevicesTrue(q, last, over)
  BY <1>0, <1>2, DevicesKept
<1> QED
  BY <1>1, <1>3 DEF ScGood

\* The process starts and connects.
LEMMA BootHolds == ScInv /\ (Boot \/ InsertKey \/ OnConnect) => ScInv'
<1>1. SUFFICES ASSUME ScInv, Boot \/ InsertKey \/ OnConnect PROVE ScInv'
  OBVIOUS
<1>2. sc \in ScState /\ ScAlive(sc) /\ noted \in Notes /\ sent \subseteq ScMsg
  BY <1>1 DEF ScInv, ScGood, ScTyped
<1>3. /\ sc' \in ScState /\ sc'.inbox = sc.inbox /\ sc'.stored = sc.stored /\ sc'.calls = sc.calls /\ sc'.tgcfg = sc.tgcfg
      /\ sc'.phase # "down" /\ (sc'.phase = "online" => sc'.listeners = sc.listeners + 1)
  <2>1. CASE Boot
    BY <1>2, <2>1 DEF Boot, ScState
  <2>2. CASE InsertKey
    <3>1. PICK n \in Nat : n = sc.keys + 1
      BY <1>2, ScParts
    <3>2. sc' = [sc EXCEPT !.phase = "offline", !.keys = n]
      BY <2>2, <3>1 DEF InsertKey
    <3> QED
      BY <1>2, <3>1, <3>2 DEF ScState
  <2>3. CASE OnConnect
    <3>1. PICK n \in Nat : n = sc.listeners + 1
      BY <1>2, ScParts
    <3>2. sc' = [sc EXCEPT !.phase = "online", !.listeners = n]
      BY <2>3, <3>1 DEF OnConnect
    <3> QED
      BY <1>2, <3>1, <3>2 DEF ScState
  <2> QED
    BY <1>1, <2>1, <2>2, <2>3
<1>4. /\ noted' \in Notes /\ noted'.again = noted.again /\ noted'.last = noted.last /\ noted'.overlap = noted.overlap
      /\ sent' = sent
  <2>1. CASE Boot \/ InsertKey
    BY <1>2, <2>1 DEF Boot, InsertKey, Notes
  <2>2. CASE OnConnect
    BY <1>2, <2>2 DEF OnConnect, Notes
  <2> QED
    BY <1>1, <2>1, <2>2
<1>5. ScAlive(sc')
  <2>1. sc.listeners \in Nat
    BY <1>2, ScParts
  <2> QED
    BY <1>3, <2>1 DEF ScAlive
<1>6. ScGood(sc, noted.again, sent, noted.last, noted.overlap)
  BY <1>1 DEF ScInv
<1>7. ScGood(sc', noted.again, sent, noted.last, noted.overlap)
  BY <1>3, <1>5, <1>6, SameGood
<1> QED
  BY <1>2, <1>4, <1>7 DEF ScInv, ScTyped

\* The connection is lost, and what has arrived with it.
LEMMA OfflineHolds == ScInv /\ OnOffline => ScInv'
<1>1. SUFFICES ASSUME ScInv, OnOffline PROVE ScInv'
  OBVIOUS
<1>2. /\ sc \in ScState /\ ScAlive(sc) /\ StoresTrue(sc, noted.again, sent)
      /\ DevicesTrue(sc, noted.last, noted.overlap)
  BY <1>1 DEF ScInv, ScGood
<1>3. /\ sc' \in ScState /\ sc'.inbox = <<>> /\ sc'.stored = sc.stored /\ sc'.calls = sc.calls /\ sc'.tgcfg = sc.tgcfg
      /\ sc'.phase = "offline" /\ noted' = noted /\ sent' = sent
  <2>1. <<>> \in Seq(ScMsg \cup Own)
    OBVIOUS
  <2> QED
    BY <1>1, <1>2, <2>1 DEF OnOffline, ScState
<1>4. ScAlive(sc')
  BY <1>3 DEF ScAlive
<1>5. StoresTrue(sc', noted.again, sent)
  <2>1. \A m \in ScMsg : Inserted(sc', m) = Inserted(sc, m) /\ Arriving(sc', m) = {}
    BY <1>3 DEF Inserted, Arriving
  <2>2. PICK k \in 0..1 : k = 0
    OBVIOUS
  <2>3. \A m \in ScMsg : Inserted(sc', m) <= Inserted(sc, m)
    BY <1>2, <2>1, ScCallFacts
  <2> QED
    BY <1>2, <1>3, <2>1, <2>3, StoresKept
<1>6. \A c \in DOMAIN sc'.calls : c.op \in {"update", "push"} => sc'.tgcfg # Nothing
  BY <1>2, <1>3 DEF DevicesTrue
<1>7. DevicesTrue(sc', noted.last, noted.overlap)
  BY <1>2, <1>3, <1>6, DevicesKept
<1> QED
  BY <1>1, <1>3, <1>4, <1>5, <1>7 DEF ScInv, ScGood, ScTyped

\* A datum that is sent was nowhere before.
LEMMA SendHolds == \A m \in ScMsg : ScInv /\ Send(m) => ScInv'
<1>1. SUFFICES ASSUME NEW m \in ScMsg, ScInv, Send(m) PROVE ScInv'
  OBVIOUS
<1>2. /\ sc \in ScState /\ ScAlive(sc) /\ StoresTrue(sc, noted.again, sent)
      /\ DevicesTrue(sc, noted.last, noted.overlap) /\ ScTyped
  BY <1>1 DEF ScInv, ScGood
<1> DEFINE r == Append(sc.inbox, m)
           n == Len(sc.inbox)
<1>3. sc.inbox \in Seq(ScMsg \cup Own) /\ n \in Nat /\ DOMAIN sc.inbox = 1..n
  BY <1>2, ScParts
<1>4. r \in Seq(ScMsg \cup Own) /\ Len(r) = n + 1 /\ r[n + 1] = m /\ \A i \in 1..n : r[i] = sc.inbox[i]
  BY <1>3, AppendProperties
<1>5. sc' = [sc EXCEPT !.inbox = r] /\ m \notin sent /\ sc.phase = "online" /\ sent' = sent \cup {m} /\ noted' = noted
  <2>1. sc.inbox \o <<m>> = r
    BY <1>3
  <2> QED
    BY <1>1, <1>2, <2>1 DEF Send, Publish, ScState
<1> HIDE DEF r, n
<1>6. /\ sc' \in ScState /\ sc'.inbox = r /\ sc'.stored = sc.stored /\ sc'.calls = sc.calls /\ sc'.tgcfg = sc.tgcfg
      /\ sc'.phase = sc.phase /\ sc'.listeners = sc.listeners
  BY <1>2, <1>4, <1>5 DEF ScState
<1>7. ScAlive(sc')
  BY <1>2, <1>6 DEF ScAlive
<1>8. DOMAIN r = 1..n + 1
  BY <1>4
<1>9. \A i \in DOMAIN r : IF i = n + 1 THEN r[i] = m ELSE i \in DOMAIN sc.inbox /\ r[i] = sc.inbox[i]
  BY <1>3, <1>4, <1>8
<1>10. DOMAIN sc.inbox \subseteq DOMAIN r
  BY <1>3, <1>8
<1>11. \A x \in ScMsg : Inserted(sc', x) = Inserted(sc, x)
  BY <1>6 DEF Inserted
<1>12. \A x \in ScMsg : x # m => Arriving(sc', x) = Arriving(sc, x)
  <2>1. SUFFICES ASSUME NEW x \in ScMsg, x # m, NEW i
                 PROVE  i \in DOMAIN r /\ r[i] = x <=> i \in DOMAIN sc.inbox /\ sc.inbox[i] = x
    BY <1>6 DEF Arriving
  <2>2. CASE i \in DOMAIN r
    BY <1>9, <2>1, <2>2, <1>3
  <2>3. CASE i \notin DOMAIN r
    BY <1>10, <2>3
  <2> QED
    BY <2>2, <2>3
<1>13. Arriving(sc, m) = {} => \A i, j \in Arriving(sc', m) : i = j
  BY <1>6, <1>9 DEF Arriving
<1>14. StoresTrue(sc', noted.again, sent')
  <2>1. ASSUME NEW x \in ScMsg
        PROVE  IF x.topic \in Data
               THEN x \notin noted.again =>
                      /\ \A i, j \in Arriving(sc', x) : i = j
                      /\ Inserted(sc', x) <= IF Arriving(sc', x) = {} THEN 1 ELSE 0
                      /\ x \notin sent' => Inserted(sc', x) = 0 /\ Arriving(sc', x) = {}
               ELSE Inserted(sc', x) = 0
    <3>1. CASE x # m
      BY <1>2, <1>5, <1>11, <1>12, <3>1 DEF StoresTrue
    <3>2. CASE x = m /\ x.topic \in Data /\ x \notin noted.again
      <4>1. Inserted(sc, x) = 0 /\ Arriving(sc, x) = {}
        BY <1>2, <1>5, <3>2 DEF StoresTrue
      <4>2. Inserted(sc', x) = 0 /\ x \in sent'
        BY <1>5, <1>11, <3>2, <4>1
      <4> QED
        BY <1>13, <3>2, <4>1, <4>2
    <3>3. CASE x = m /\ x.topic \notin Data
      BY <1>2, <1>11, <3>3 DEF StoresTrue
    <3> QED
      BY <3>1, <3>2, <3>3
  <2> QED
    BY <2>1 DEF StoresTrue
<1>15. \A c \in DOMAIN sc'.calls : c.op \in {"update", "push"} => sc'.tgcfg # Nothing
  BY <1>2, <1>6 DEF DevicesTrue
<1>16. DevicesTrue(sc', noted.last, noted.overlap)
  BY <1>2, <1>6, <1>15, DevicesKept
<1> QED
  BY <1>2, <1>5, <1>6, <1>7, <1>14, <1>16 DEF ScInv, ScGood, ScTyped

\* A message is handled by every listener.
LEMMA ReceiveHolds == ScInv /\ Receive => ScInv'
<1>1. SUFFICES ASSUME ScInv, Receive PROVE ScInv'
  OBVIOUS
<1>2. /\ sc \in ScState /\ ScAlive(sc) /\ StoresTrue(sc, noted.again, sent)
      /\ DevicesTrue(sc, noted.last, noted.overlap) /\ noted \in Notes /\ sent \subseteq ScMsg
  BY <1>1 DEF ScInv, ScGood, ScTyped
<1>3. PICK m : m = Head(sc.inbox)
  OBVIOUS
<1>4. PICK t : t = Taken(sc, m)
  OBVIOUS
<1>5. PICK registers \in BOOLEAN : registers <=> m.topic = "SERV" /\ m.to = "TG_01"
  OBVIOUS
<1>6. PICK more : more = IF sc.listeners > 1 THEN noted.again \cup {m} ELSE noted.again
  OBVIOUS
<1>7. PICK new : new = [d \in Devs |-> IF registers /\ d = m.dev THEN m.val ELSE noted.last[d]]
  OBVIOUS
<1>8. PICK over : over = IF registers /\ (m.dev \in Overtakes(sc) \/ sc.listeners > 1)
                         THEN noted.overlap \cup {m.dev} ELSE noted.overlap
  OBVIOUS
<1>9. PICK s : s = FlattenSeq([i \in 1..sc.listeners |-> OnMessage(m).pubs])
  OBVIOUS
<1>10. /\ sc.phase = "online" /\ sc.inbox # <<>> /\ sc' = Publish(t, s) /\ sent' = sent
       /\ noted' = [noted EXCEPT !.again = more, !.last = new, !.overlap = over]
  BY <1>1, <1>3, <1>4, <1>5, <1>6, <1>7, <1>8, <1>9 DEF Receive, Taken, Overtakes
<1>11. m \in ScMsg \cup Own /\ t \in ScState /\ t.phase = sc.phase /\ t.listeners = sc.listeners
       /\ sc.listeners \in Nat /\ sc.listeners > 0
  <2>1. TakenAs(sc, m, t)
    BY <1>2, <1>3, <1>4, <1>10, TakenFacts
  <2> QED
    BY <2>1 DEF TakenAs
<1>12. StoresTrue(t, more, sent)
  <2>1. noted.again \subseteq more /\ (sc.listeners > 1 => m \in more)
    BY <1>6
  <2> QED
    BY <1>2, <1>3, <1>4, <1>10, <2>1, TakenStores
<1>13. DevicesTrue(t, new, over)
  <2>1. \A d \in Devs : new[d] = IF registers /\ d = m.dev THEN m.val ELSE noted.last[d]
    BY <1>7
  <2>2. noted.overlap \subseteq over /\ (registers /\ (m.dev \in Overtakes(sc) \/ sc.listeners > 1) => m.dev \in over)
    BY <1>8
  <2>3. Noting(sc, m, registers, noted.last, noted.overlap, new, over)
    BY <1>5, <2>1, <2>2 DEF Noting
  <2> QED
    BY <1>2, <1>3, <1>4, <1>10, <2>3, TakenDevices
<1>14. ScAlive(t)
  BY <1>10, <1>11 DEF ScAlive
<1>15. s \in Seq(Own)
  <2>1. PICK n \in Nat : n = sc.listeners
    BY <1>11
  <2>2. PICK q \in Seq(Own) : q = OnMessage(m).pubs
    BY <1>11, Handled
  <2>3. FlattenSeq([i \in 1..n |-> q]) \in Seq(Own)
    BY FlattenType
  <2> QED
    BY <1>9, <2>1, <2>2, <2>3
<1>16. sc' \in ScState /\ ScAlive(sc') /\ StoresTrue(sc', more, sent) /\ DevicesTrue(sc', new, over)
  BY <1>10, <1>11, <1>12, <1>13, <1>14, <1>15, PublishGood
<1>17. more \in SUBSET (ScMsg \cup Own) /\ new \in [Devs -> Nat] /\ over \in SUBSET Devs
  <2>1. noted.again \in SUBSET (ScMsg \cup Own) /\ noted.last \in [Devs -> Nat] /\ noted.overlap \in SUBSET Devs
    BY <1>2 DEF Notes
  <2>2. registers => m.dev \in Devs /\ m.val \in Nat
    BY <1>5, <1>11, Handled, MessageParts
  <2>3. more \in SUBSET (ScMsg \cup Own)
    BY <1>6, <1>11, <2>1
  <2>4. new \in [Devs -> Nat]
    BY <1>7, <2>1, <2>2
  <2>5. over \in SUBSET Devs
    BY <1>8, <2>1, <2>2
  <2> QED
    BY <2>3, <2>4, <2>5
<1>18. noted' \in Notes /\ noted'.again = more /\ noted'.last = new /\ noted'.overlap = over
  BY <1>2, <1>10, <1>17 DEF Notes
<1> QED
  BY <1>2, <1>10, <1>16, <1>18 DEF ScInv, ScGood, ScTyped

\* Devices that a call is under way for.
LEMMA OvertakesType ==
  ASSUME NEW p \in ScState
  PROVE  Overtakes(p) \in SUBSET Devs
BY ScCallFacts, MessageParts DEF Overtakes, BagToSet

\* What only excepts more devices.
LEMMA NotesWith ==
  ASSUME noted \in Notes, NEW over \in SUBSET Devs, NEW n, n = [noted EXCEPT !.overlap = over]
  PROVE  n \in Notes /\ n.again = noted.again /\ n.last = noted.last /\ n.overlap = over
BY DEF Notes

\* What the database answers ...
LEMMA AnswerHolds == \A c \in DOMAIN sc.calls : ScInv /\ Answer(c) => ScInv'
<1>1. SUFFICES ASSUME NEW c \in DOMAIN sc.calls, ScInv, Answer(c) PROVE ScInv'
  OBVIOUS
<1>2. /\ sc \in ScState /\ ScGood(sc, noted.again, sent, noted.last, noted.overlap)
      /\ noted \in Notes /\ noted.overlap \in SUBSET Devs /\ sent \subseteq ScMsg /\ sent' = sent
  BY <1>1 DEF ScInv, ScGood, ScTyped, Notes, Answer
<1>3. PICK t : t = Taking(sc, c)
  OBVIOUS
<1>4. sc' = Execute(t, c)
  BY <1>1, <1>3 DEF Answer, Taking
<1>5. CASE sc'.phase = "down" /\ sc.phase # "down"
  <2>1. PICK over : over = noted.overlap \cup Overtakes(sc)
    OBVIOUS
  <2>2. over \in SUBSET Devs /\ noted.overlap \subseteq over
    BY <1>2, <2>1, OvertakesType
  <2>3. noted' = [noted EXCEPT !.overlap = over]
    BY <1>1, <1>5, <2>1 DEF Answer
  <2>4. noted' \in Notes /\ noted'.again = noted.again /\ noted'.last = noted.last /\ noted'.overlap = over
    BY <1>2, <2>2, <2>3, NotesWith
  <2>5. ScGood(sc', noted.again, sent, noted.last, over)
    BY <1>2, <1>3, <1>4, <2>1, <2>2, AnswerGood
  <2> QED
    BY <1>2, <2>4, <2>5 DEF ScInv, ScTyped
<1>6. CASE ~(sc'.phase = "down" /\ sc.phase # "down")
  <2>1. noted' = noted
    BY <1>1, <1>6 DEF Answer
  <2>2. PICK over : over = noted.overlap
    OBVIOUS
  <2>3. ScGood(sc', noted.again, sent, noted.last, over)
    BY <1>2, <1>3, <1>4, <1>6, <2>2, AnswerGood
  <2> QED
    BY <1>2, <2>1, <2>2, <2>3 DEF ScInv, ScTyped
<1> QED
  BY <1>5, <1>6

\* ... or never executes; and the end of the process.
LEMMA ForgottenHolds == \A c \in DOMAIN sc.calls : ScInv /\ Forgotten(c) => ScInv'
<1>1. SUFFICES ASSUME NEW c \in DOMAIN sc.calls, ScInv, Forgotten(c) PROVE ScInv'
  OBVIOUS
<1>2. /\ sc \in ScState /\ ScAlive(sc) /\ StoresTrue(sc, noted.again, sent)
      /\ DevicesTrue(sc, noted.last, noted.overlap) /\ ScTyped
  BY <1>1 DEF ScInv, ScGood
<1>3. sc' = Taking(sc, c) /\ ~c.live /\ sent' = sent /\ noted' = noted
  BY <1>1 DEF Forgotten, Taking
<1>4. sc' \in ScState /\ ScAlive(sc')
  BY <1>2, <1>3, TakingFacts
<1>5. StoresTrue(sc', noted.again, sent)
  BY <1>2, <1>3, TakingStores
<1>6. c.op \notin Registering \/ c.m.dev \in noted.overlap
  <2>1. SUFFICES ASSUME c.op \in Registering, c.m.dev \notin noted.overlap PROVE FALSE
    OBVIOUS
  <2>2. c.m.dev \in Devs
    BY <1>2, ScCallFacts, MessageParts
  <2>3. c \in Pending(sc, c.m.dev) /\ DeviceTrue(sc, c.m.dev, noted.last[c.m.dev])
    BY <1>2, <2>1, <2>2 DEF Pending, DevicesTrue
  <2> QED
    BY <1>3, <2>3 DEF DeviceTrue
<1>7. DevicesTrue(sc', noted.last, noted.overlap)
  BY <1>2, <1>3, <1>6, TakingDevices
<1> QED
  BY <1>2, <1>3, <1>4, <1>5, <1>7 DEF ScInv, ScGood, ScTyped

LEMMA ScCrashHolds == ScInv /\ ScCrash => ScInv'
<1>1. SUFFICES ASSUME ScInv, ScCrash PROVE ScInv'
  OBVIOUS
<1>2. /\ sc \in ScState /\ StoresTrue(sc, noted.again, sent)
      /\ DevicesTrue(sc, noted.last, noted.overlap) /\ noted \in Notes /\ sent \subseteq ScMsg
  BY <1>1 DEF ScInv, ScGood, ScTyped
<1>3. PICK over : over = noted.overlap \cup Overtakes(sc)
  OBVIOUS
<1>4. sc' = Die(sc) /\ sent' = sent /\ noted' = [noted EXCEPT !.crashes = @ + 1, !.overlap = over]
  BY <1>1, <1>3 DEF ScCrash
<1>5. over \in SUBSET Devs
  BY <1>2, <1>3, OvertakesType DEF Notes
<1>6. sc' \in ScState /\ ScAlive(sc') /\ StoresTrue(sc', noted.again, sent) /\ DevicesTrue(sc', noted.last, over)
  BY <1>2, <1>3, <1>4, DieGood
<1>7. noted' \in Notes /\ noted'.again = noted.again /\ noted'.last = noted.last /\ noted'.overlap = over
  <2>1. PICK n \in Nat : n = noted.crashes + 1
    BY <1>2 DEF Notes
  <2>2. noted' = [noted EXCEPT !.crashes = n, !.overlap = over]
    BY <1>4, <2>1
  <2> QED
    BY <1>2, <1>5, <2>1, <2>2 DEF Notes
<1> QED
  BY <1>2, <1>4, <1>6, <1>7 DEF ScInv, ScGood, ScTyped

\* Every step of the console keeps its invariant.
LEMMA ScNextHolds == ScInv /\ SCNext => ScInv'
<1>1. SUFFICES ASSUME ScInv, SCNext PROVE ScInv'
  OBVIOUS
<1>2. CASE Boot \/ InsertKey \/ OnConnect
  BY <1>1, <1>2, BootHolds
<1>3. CASE OnOffline
  BY <1>1, <1>3, OfflineHolds
<1>4. CASE Receive
  BY <1>1, <1>4, ReceiveHolds
<1>5. CASE ScCrash
  BY <1>1, <1>5, ScCrashHolds
<1>6. CASE \E m \in ScMsg : Send(m)
  BY <1>1, <1>6, SendHolds
<1>7. CASE \E c \in BagToSet(sc.calls) : Answer(c) \/ Forgotten(c)
  BY <1>1, <1>7, AnswerHolds, ForgottenHolds DEF BagToSet
<1> QED
  BY <1>1, <1>2, <1>3, <1>4, <1>5, <1>6, <1>7 DEF SCNext

\* Of two places a set has the size 2.
LEMMA PairSize ==
  ASSUME NEW i, NEW j, i # j
  PROVE  IsFiniteSet({i, j}) /\ Cardinality({i, j}) = 2
<1>1. IsFiniteSet({i}) /\ Cardinality({i}) = 1
  BY FS_Singleton
<1>2. /\ IsFiniteSet({i} \cup {j})
      /\ Cardinality({i} \cup {j}) = IF j \in {i} THEN Cardinality({i}) ELSE Cardinality({i}) + 1
  BY <1>1, FS_AddElement
<1>3. {i} \cup {j} = {i, j} /\ j \notin {i}
  OBVIOUS
<1> QED
  BY <1>1, <1>2, <1>3

\* A device that is listed twice at first is excepted.
LEMMA ScInitHolds == SCInit => ScInv
<1>1. SUFFICES ASSUME SCInit PROVE ScInv
  OBVIOUS
<1>2. PICK list \in TgcfgInit :
        sc = [phase |-> "down", keys |-> 1, listeners |-> 0, inbox |-> <<>>, calls |-> EmptyBag,
              tgcfg |-> list, stored |-> [m \in ScMsg |-> 0]]
  BY <1>1 DEF SCInit
<1>3. /\ sent = {}
      /\ noted = [connects |-> 0, crashes |-> 0, again |-> {}, last |-> [d \in Devs |-> 0],
                  overlap |-> {d \in Devs : Cardinality(Listed(sc.tgcfg, d)) > 1}]
  BY <1>1 DEF SCInit
<1>4. list \in Seq(Entry)
  <2>1. CASE list = Nothing
    <3>1. [dev |-> NoDocument, val |-> 0] \in Entry
      BY DEF Entry
    <3> QED
      BY <2>1, <3>1 DEF Nothing
  <2>2. CASE list \in Seq([dev : STRING \ {NoDocument}, val : Nat])
    <3>1. PICK X : X = [dev : STRING \ {NoDocument}, val : Nat]
      OBVIOUS
    <3>2. X \subseteq Entry
      BY <3>1 DEF Entry
    <3>3. list \in Seq(X)
      BY <2>2, <3>1
    <3>4. Len(list) \in Nat /\ list \in [1..Len(list) -> X]
      BY <3>3
    <3>5. list \in [1..Len(list) -> Entry]
      BY <3>2, <3>4
    <3> QED
      BY <3>4, <3>5, SeqDef
  <2> QED
    BY <2>1, <2>2, SmartCloudAssumption
<1>5. EmptyBag \in BagsOf(ScCall) /\ DOMAIN EmptyBag = {} /\ \A c : Copies(c, EmptyBag) = 0
  BY NoCalls
<1>6. sc \in ScState
  <2>1. <<>> \in Seq(ScMsg \cup Own) /\ [m \in ScMsg |-> 0] \in [ScMsg -> Nat]
    OBVIOUS
  <2> QED
    BY <1>2, <1>4, <1>5, <2>1 DEF ScState
<1>7. sc.calls = EmptyBag /\ sc.inbox = <<>> /\ sc.phase = "down" /\ sc.tgcfg = list /\ sc.stored = [m \in ScMsg |-> 0]
  BY <1>2
<1>8. ScAlive(sc)
  BY <1>5, <1>7 DEF ScAlive
<1>9. StoresTrue(sc, noted.again, sent)
  <2>1. \A m \in ScMsg : Inserted(sc, m) = 0 /\ Arriving(sc, m) = {}
    BY <1>5, <1>7 DEF Inserted, Arriving
  <2> QED
    BY <2>1 DEF StoresTrue
<1>10. noted \in Notes /\ noted.last = [d \in Devs |-> 0]
       /\ noted.overlap = {d \in Devs : Cardinality(Listed(list, d)) > 1}
  BY <1>3, <1>7 DEF Notes
<1>11. ASSUME NEW d \in Devs \ noted.overlap PROVE DeviceTrue(sc, d, noted.last[d])
  <2>1. \A i, j \in Listed(list, d) : i = j
    <3>1. IsFiniteSet(Listed(list, d)) /\ ~(Cardinality(Listed(list, d)) > 1)
      BY <1>4, <1>10, ListedFinite
    <3>2. SUFFICES ASSUME NEW i \in Listed(list, d), NEW j \in Listed(list, d), i # j PROVE FALSE
      OBVIOUS
    <3>3. IsFiniteSet({i, j}) /\ Cardinality({i, j}) = 2
      BY <3>2, PairSize
    <3>4. {i, j} \in SUBSET Listed(list, d)
      OBVIOUS
    <3>5. Cardinality({i, j}) <= Cardinality(Listed(list, d))
      BY <3>1, <3>4, FS_Subset
    <3>6. Cardinality(Listed(list, d)) \in Nat
      BY <3>1, FS_CardinalityType
    <3> QED
      BY <3>1, <3>3, <3>5, <3>6
  <2>2. Pending(sc, d) = {} /\ noted.last[d] = 0
    BY <1>5, <1>7, <1>10 DEF Pending
  <2> QED
    BY <1>7, <2>1, <2>2 DEF DeviceTrue
<1>12. DevicesTrue(sc, noted.last, noted.overlap)
  BY <1>5, <1>7, <1>11 DEF DevicesTrue
<1>13. sent \subseteq ScMsg
  BY <1>3
<1> QED
  BY <1>6, <1>8, <1>9, <1>10, <1>12, <1>13 DEF ScInv, ScGood, ScTyped

------------------------------------------------------------------------------

\* What the console's invariant says of StoredOnce and of ListTrue.
LEMMA HoldsStoredOnce == ScInv => StoredOnce
<1>1. SUFFICES ASSUME ScInv, NEW m \in ScMsg \ noted.again PROVE Inserted(sc, m) <= 1
  BY DEF StoredOnce, Inserted
<1>2. sc \in ScState /\ StoresTrue(sc, noted.again, sent)
  BY <1>1 DEF ScInv, ScGood
<1>3. Inserted(sc, m) \in Nat
  BY <1>2, ScCallFacts
<1> QED
  BY <1>2, <1>3 DEF StoresTrue

LEMMA HoldsListTrue == ScInv => ListTrue
<1>1. SUFFICES ASSUME ScInv, sc.calls = EmptyBag, NEW d \in Devs,
                      noted.last[d] > 0, d \notin noted.overlap, sc.tgcfg # Nothing
               PROVE  Cardinality(Listed(sc.tgcfg, d)) = 1 /\ sc.tgcfg[First(sc.tgcfg, d)].val = noted.last[d]
  BY DEF ListTrue
<1>2. DeviceTrue(sc, d, noted.last[d]) /\ sc.tgcfg \in Seq(Entry)
  BY <1>1, ScParts DEF ScInv, ScGood, DevicesTrue
<1>3. Pending(sc, d) = {}
  BY <1>1, NoCalls DEF Pending
<1>4. PICK i \in Listed(sc.tgcfg, d) : sc.tgcfg[i].val = noted.last[d]
  BY <1>1, <1>2, <1>3 DEF DeviceTrue
<1>5. Listed(sc.tgcfg, d) = {i}
  BY <1>2 DEF DeviceTrue
<1>6. Cardinality(Listed(sc.tgcfg, d)) = 1
  BY <1>5, FS_Singleton
<1>7. First(sc.tgcfg, d) = i
  <2>1. First(sc.tgcfg, d) \in Listed(sc.tgcfg, d)
    BY <1>2, FirstFacts
  <2> QED
    BY <1>5, <2>1
<1> QED
  BY <1>4, <1>6, <1>7

------------------------------------------------------------------------------
(* The collector.                                                          *)

\* The parts of its state.
LEMMA PdParts ==
  ASSUME NEW p \in PdState
  PROVE  /\ p.phase \in {"down", "starting", "offline", "online"} /\ p.listeners \in Nat /\ p.inbox \in Seq(Asked)
         /\ p.clock \in Id /\ p.defined \in SUBSET Id /\ p.calls \in BagsOf(PdOne) /\ p.jobs \in SUBSET Id
         /\ p.list \in Seq(Doc)
BY DEF PdState

\* Its calls: those about all data purge or read, the others are about one datum.
LEMMA PdCalls ==
  /\ \A c \in PdOne : /\ c.live \in BOOLEAN /\ c.id \in Nat
                      /\ c.id = Every <=> c.op \in {"purge", "findAll"}
                      /\ c.id # Every => c.id \in Id /\ c.op \in Changing \cup {"store"}
                      /\ c.live => c = PdCall(c.op, c.id)
  /\ \A op \in Changing \cup {"store"} : \A id \in Id : PdCall(op, id) \in PdOne
  /\ PdCall("purge", Every) \in PdOne /\ PdCall("findAll", Every) \in PdOne
  /\ \A op, id : PdCall(op, id).op = op /\ PdCall(op, id).id = id /\ PdCall(op, id).live
<1>1. ASSUME NEW c \in PdOne
      PROVE  /\ c.live \in BOOLEAN /\ c.id \in Nat
             /\ c.id = Every <=> c.op \in {"purge", "findAll"}
             /\ c.id # Every => c.id \in Id /\ c.op \in Changing \cup {"store"}
             /\ c.live => c = PdCall(c.op, c.id)
  <2>1. CASE c \in [op : Changing \cup {"store"}, id : Id, live : BOOLEAN]
    BY <2>1 DEF Id, Every, Changing, PdCall
  <2>2. CASE c \in [op : {"purge", "findAll"}, id : {Every}, live : BOOLEAN]
    BY <2>2 DEF Id, Every, Changing, PdCall
  <2> QED
    BY <1>1, <2>1, <2>2 DEF PdOne
<1>2. \A op \in Changing \cup {"store"} : \A id \in Id : PdCall(op, id) \in PdOne
  BY DEF PdOne, PdCall
<1>3. PdCall("purge", Every) \in PdOne /\ PdCall("findAll", Every) \in PdOne
  BY DEF PdOne, PdCall
<1>4. \A op, id : PdCall(op, id).op = op /\ PdCall(op, id).id = id /\ PdCall(op, id).live
  BY DEF PdCall
<1> QED
  BY <1>1, <1>2, <1>3, <1>4

\* The calls of a state, by their copies.
LEMMA PdCallFacts ==
  ASSUME NEW p \in PdState
  PROVE  /\ \A c : Copies(c, p.calls) \in Nat /\ (c \in DOMAIN p.calls <=> Copies(c, p.calls) # 0)
         /\ \A c \in DOMAIN p.calls : c \in PdOne /\ c.id \in Subjects(p.calls)
         /\ \A id : id \in Subjects(p.calls) <=> \E c \in DOMAIN p.calls : c.id = id
         /\ Subjects(p.calls) \in SUBSET Nat
<1>1. p.calls \in BagsOf(PdOne)
  BY PdParts
<1>2. /\ \A c : Copies(c, p.calls) \in Nat /\ (c \in DOMAIN p.calls <=> Copies(c, p.calls) # 0)
      /\ \A c \in DOMAIN p.calls : c \in PdOne
  BY <1>1, BagFacts
<1>3. \A id : id \in Subjects(p.calls) <=> \E c \in DOMAIN p.calls : c.id = id
  BY DEF Subjects, BagToSet
<1> QED
  BY <1>2, <1>3, PdCalls

\* What concerns one datum is as before.
Same(p, q, id) ==
  /\ \A op \in Changing : Copies(PdCall(op, id), q.calls) = Copies(PdCall(op, id), p.calls)
  /\ Docs(q, id) = Docs(p, id)
  /\ id \in q.jobs <=> id \in p.jobs
  /\ id \in Collected(q) <=> id \in Collected(p)

LEMMA SameDatum ==
  ASSUME NEW p \in PdState, NEW q \in PdState, NEW id, Same(p, q, id)
  PROVE  /\ Idle(q, id) <=> Idle(p, id)
         /\ Sole(q, id) <=> Sole(p, id)
         /\ Agrees(q, id) <=> Agrees(p, id)
<1>1. \A op \in Changing : Under(q, op, id) <=> Under(p, op, id)
  BY PdCallFacts DEF Same, Under
<1>2. Docs(q, id) = Docs(p, id) /\ Copies(PdCall("insert", id), q.calls) = Copies(PdCall("insert", id), p.calls)
  BY DEF Same, Changing
<1>3. Idle(q, id) <=> Idle(p, id)
  BY <1>1 DEF Idle
<1>4. Sole(q, id) <=> Sole(p, id)
  BY <1>2 DEF Sole
<1>5. (id \in q.jobs <=> id \in p.jobs) /\ (id \in Collected(q) <=> id \in Collected(p))
  BY DEF Same
<1>6. /\ Under(q, "every", id) <=> Under(p, "every", id)
      /\ Under(q, "insert", id) <=> Under(p, "insert", id)
      /\ Under(q, "cancel", id) <=> Under(p, "cancel", id)
      /\ Under(q, "flag", id) <=> Under(p, "flag", id)
  BY <1>1 DEF Changing
<1>7. Agrees(q, id) <=> Agrees(p, id)
  BY <1>3, <1>5, <1>6 DEF Agrees
<1> QED
  BY <1>3, <1>4, <1>7

\* A datum that a step does not concern is as it was.
LEMMA KeptDatum ==
  ASSUME NEW p \in PdState, NEW q \in PdState, NEW id, DatumTrue(p, id), Same(p, q, id),
         Every \in Subjects(q.calls) <=> Every \in Subjects(p.calls), Purging(p) => Purging(q),
         p.phase = "starting" => q.phase = "starting"
  PROVE  DatumTrue(q, id)
<1>1. /\ Idle(q, id) <=> Idle(p, id)
      /\ Sole(q, id) <=> Sole(p, id)
      /\ Agrees(q, id) <=> Agrees(p, id)
  BY SameDatum
<1> QED
  BY <1>1 DEF DatumTrue, Same

\* A step that changes neither the calls nor the database.
PdGood(p, over) == p \in PdState /\ over \in SUBSET Nat /\ PdAlive(p, over) /\ DataTrue(p, over)

LEMMA PdSame ==
  ASSUME NEW p, NEW q \in PdState, NEW over, PdGood(p, over),
         q.calls = p.calls, q.jobs = p.jobs, q.list = p.list, q.defined = p.defined,
         p.phase \in {"offline", "online"}, q.phase \in {"offline", "online"}, q.phase = "online" => q.listeners > 0
  PROVE  PdGood(q, over)
<1>1. p \in PdState /\ over \in SUBSET Nat /\ PdAlive(p, over) /\ DataTrue(p, over)
  BY DEF PdGood
<1>2. PdAlive(q, over)
  BY <1>1 DEF PdAlive
<1>3. ASSUME NEW id \in Id \ over PROVE DatumTrue(q, id)
  <2>1. DatumTrue(p, id)
    BY <1>1 DEF DataTrue
  <2>2. Same(p, q, id)
    BY DEF Same, Docs, Collected
  <2>3. Purging(p) => Purging(q)
    BY DEF Purging, Under
  <2> QED
    BY <1>1, <2>1, <2>2, <2>3, KeptDatum
<1> QED
  BY <1>1, <1>2, <1>3 DEF PdGood, DataTrue

\* The process ends.
LEMMA PdDieGood ==
  ASSUME NEW p, NEW over, PdGood(p, over), NEW more \in SUBSET Nat, NEW q, q = PdDie(p)
  PROVE  PdGood(q, more)
<1> DEFINE b == Orphaned(p.calls)
<1>1. p \in PdState /\ p.calls \in BagsOf(PdOne) /\ Mortal(PdOne)
  BY PdParts, CallsMortal DEF PdGood
<1>2. /\ b \in BagsOf(PdOne)
      /\ \A c \in DOMAIN b : ~c.live
      /\ \A c \in PdOne : Copies(c, b) = IF c.live THEN 0 ELSE Copies(c, p.calls) + Copies(Alive(c), p.calls)
  BY <1>1, OrphanedFacts
<1> HIDE DEF b
<1>3. q = [p EXCEPT !.phase = "down", !.listeners = 0, !.inbox = <<>>, !.defined = {}, !.calls = b]
  BY DEF PdDie, b
<1>4. q \in PdState
  <2>1. <<>> \in Seq(Asked) /\ {} \in SUBSET Id /\ 0 \in Nat
    OBVIOUS
  <2> QED
    BY <1>1, <1>2, <1>3, <2>1 DEF PdState
<1>5. q.phase = "down" /\ q.defined = {} /\ q.calls = b
  BY <1>1, <1>3 DEF PdState
<1>6. Copies(PdCall("findAll", Every), q.calls) = 0
  BY <1>2, <1>5, PdCalls
<1> QED
  BY <1>2, <1>4, <1>5, <1>6 DEF PdGood, PdAlive, DataTrue

PdInv == PdGood(pd, pdNoted.overtaken) /\ pdNoted \in PdNotes

\* Calls are made, of which none is about all data.
LEMMA PdStarted ==
  ASSUME NEW p \in PdState, NEW C \in SUBSET PdOne, NEW n \in Nat, n > 0, NEW q, q = PdStart(p, ByEach(n, C))
  PROVE  /\ q \in PdState /\ Adds(q.calls, p.calls, C, n)
         /\ q.phase = p.phase /\ q.listeners = p.listeners /\ q.inbox = p.inbox /\ q.clock = p.clock
         /\ q.defined = p.defined /\ q.jobs = p.jobs /\ q.list = p.list
<1> DEFINE a == p.calls (+) ByEach(n, C)
<1>1. p.calls \in BagsOf(PdOne)
  BY PdParts
<1>2. a \in BagsOf(PdOne) /\ Adds(a, p.calls, C, n)
  BY <1>1, AddEach
<1>3. q = [p EXCEPT !.calls = a]
  BY DEF PdStart
<1> HIDE DEF a
<1> QED
  BY <1>2, <1>3 DEF PdState

\* The process starts: what the calls of the last one are about is excepted, and for the other
\* data the list decides.
LEMMA PdBootHolds == PdInv /\ PdBoot => PdInv'
<1>1. SUFFICES ASSUME PdInv, PdBoot PROVE PdInv'
  OBVIOUS
<1>2. pd \in PdState /\ PdAlive(pd, pdNoted.overtaken) /\ pdNoted \in PdNotes /\ pd.phase = "down"
  BY <1>1 DEF PdInv, PdGood, PdBoot
<1>3. PICK over : over = Subjects(pd.calls)
  OBVIOUS
<1>4. PICK C : C = {PdCall("purge", Every), PdCall("findAll", Every)}
  OBVIOUS
<1>5. PICK t : t = [pd EXCEPT !.phase = "starting"]
  OBVIOUS
<1>6. t \in PdState /\ t.phase = "starting" /\ t.calls = pd.calls /\ t.defined = pd.defined /\ t.jobs = pd.jobs /\ t.list = pd.list
  BY <1>2, <1>5 DEF PdState
<1>7. pd' = PdStart(t, ByEach(1, C)) /\ pdNoted' = [pdNoted EXCEPT !.overtaken = over]
  BY <1>1, <1>3, <1>4, <1>5, OnceEach DEF PdBoot
<1>8. C \in SUBSET PdOne
  BY <1>4, PdCalls
<1>9. /\ pd' \in PdState /\ Adds(pd'.calls, pd.calls, C, 1) /\ pd'.phase = "starting"
      /\ pd'.defined = pd.defined /\ pd'.jobs = pd.jobs /\ pd'.list = pd.list
  BY <1>6, <1>7, <1>8, PdStarted
<1>10. over \in SUBSET Nat
  BY <1>2, <1>3, PdCallFacts
<1>11. pdNoted' \in PdNotes /\ pdNoted'.overtaken = over
  BY <1>2, <1>7, <1>10 DEF PdNotes
<1>12. \A c \in DOMAIN pd'.calls : c \in C \/ c \in DOMAIN pd.calls
  BY <1>9 DEF Adds
<1>13. C \subseteq DOMAIN pd'.calls
  BY <1>9 DEF Adds
<1>14. PdAlive(pd', over)
  <2>1. \A c \in DOMAIN pd'.calls : c.live \/ c.id \in over
    BY <1>2, <1>3, <1>4, <1>12, PdCalls, PdCallFacts
  <2>2. Copies(PdCall("findAll", Every), pd'.calls) = 1
    <3>1. Copies(PdCall("findAll", Every), pd.calls) = 0
      BY <1>2 DEF PdAlive
    <3>2. PdCall("findAll", Every) \in C
      BY <1>4
    <3> QED
      BY <1>9, <3>1, <3>2 DEF Adds
  <2>3. pd'.defined = {}
    BY <1>2, <1>9 DEF PdAlive
  <2> QED
    BY <1>9, <2>1, <2>2, <2>3 DEF PdAlive
<1>15. ASSUME NEW id \in Id \ over PROVE DatumTrue(pd', id)
  <2>1. Every \in Subjects(pd'.calls) /\ Purging(pd')
    <3>1. PdCall("purge", Every) \in DOMAIN pd'.calls
      BY <1>4, <1>13
    <3> QED
      BY <1>9, <3>1, PdCalls, PdCallFacts DEF Purging, Under
  <2>2. Idle(pd', id)
    <3>1. SUFFICES ASSUME NEW op \in Changing, PdCall(op, id) \in DOMAIN pd'.calls PROVE FALSE
      BY DEF Idle, Under
    <3>2. PdCall(op, id) \notin DOMAIN pd.calls
      BY <1>2, <1>3, PdCalls, PdCallFacts
    <3>3. PdCall(op, id) \in C
      BY <1>12, <3>1, <3>2
    <3>4. id = Every
      BY <1>4, <3>3, PdCalls
    <3> QED
      BY <3>4 DEF Id, Every
  <2> QED
    BY <1>9, <2>1, <2>2 DEF DatumTrue
<1> QED
  BY <1>9, <1>10, <1>11, <1>14, <1>15 DEF PdInv, PdGood, DataTrue

\* The broker is connected to, or is lost.
LEMMA PdConnectionHolds == PdInv /\ (PdOnConnect \/ PdOnOffline) => PdInv'
<1>1. SUFFICES ASSUME PdInv, PdOnConnect \/ PdOnOffline PROVE PdInv'
  OBVIOUS
<1>2. pd \in PdState /\ pdNoted \in PdNotes /\ PdGood(pd, pdNoted.overtaken)
  BY <1>1 DEF PdInv, PdGood
<1>3. /\ pd' \in PdState /\ pd'.calls = pd.calls /\ pd'.jobs = pd.jobs /\ pd'.list = pd.list /\ pd'.defined = pd.defined
      /\ pd.phase \in {"offline", "online"} /\ pd'.phase \in {"offline", "online"}
      /\ pd'.phase = "online" => pd'.listeners > 0
  <2>1. CASE PdOnConnect
    <3>1. PICK n \in Nat : n = pd.listeners + 1 /\ n > 0
      BY <1>2, PdParts
    <3>2. pd' = [pd EXCEPT !.phase = "online", !.listeners = n] /\ pd.phase = "offline"
      BY <2>1, <3>1 DEF PdOnConnect
    <3> QED
      BY <1>2, <3>1, <3>2 DEF PdState
  <2>2. CASE PdOnOffline
    <3>1. pd' = [pd EXCEPT !.phase = "offline", !.inbox = <<>>] /\ pd.phase = "online"
      BY <2>2 DEF PdOnOffline
    <3>2. <<>> \in Seq(Asked)
      OBVIOUS
    <3> QED
      BY <1>2, <3>1, <3>2 DEF PdState
  <2> QED
    BY <1>1, <2>1, <2>2
<1>4. pdNoted' \in PdNotes /\ pdNoted'.overtaken = pdNoted.overtaken
  BY <1>1, <1>2 DEF PdOnConnect, PdOnOffline, PdNotes
<1>5. PdGood(pd', pdNoted.overtaken)
  BY <1>2, <1>3, PdSame
<1> QED
  BY <1>4, <1>5 DEF PdInv

\* The dashboard publishes.
LEMMA AskHolds == PdInv /\ (AskImport \/ AskRemove \/ AskMalformed) => PdInv'
<1>1. SUFFICES ASSUME PdInv, AskImport \/ AskRemove \/ AskMalformed PROVE PdInv'
  OBVIOUS
<1>2. pd \in PdState /\ pdNoted \in PdNotes /\ PdGood(pd, pdNoted.overtaken) /\ PdAlive(pd, pdNoted.overtaken)
  BY <1>1 DEF PdInv, PdGood
<1>3. PICK m \in Asked, counter \in {"imports", "removes", "faults"} :
        /\ pd.phase = "online" /\ pd' = [pd EXCEPT !.inbox = Append(@, m)]
        /\ pdNoted' = [pdNoted EXCEPT ![counter] = @ + 1]
  <2>1. CASE AskImport
    <3>1. [type |-> "import", id |-> Every] \in Asked
      BY DEF Asked
    <3> QED
      BY <2>1, <3>1 DEF AskImport, Ask
  <2>2. CASE AskMalformed
    <3>1. [type |-> "malformed", id |-> Every] \in Asked
      BY DEF Asked
    <3> QED
      BY <2>2, <3>1 DEF AskMalformed, Ask
  <2>3. CASE AskRemove
    <3>1. PICK id \in Ids(pd) : Ask([type |-> "remove", id |-> id], "removes", MaxRemoves)
      BY <2>3 DEF AskRemove
    <3>2. PICK i \in DOMAIN pd.list : id = pd.list[i].id
      BY <3>1 DEF Ids
    <3>3. pd.list[i] \in Doc
      BY <1>2, PdParts
    <3>4. id \in Id
      BY <3>2, <3>3 DEF Doc
    <3>5. [type |-> "remove", id |-> id] \in Asked
      BY <3>4 DEF Asked
    <3> QED
      BY <3>1, <3>5 DEF Ask
  <2> QED
    BY <1>1, <2>1, <2>2, <2>3
<1>4. /\ pd' \in PdState /\ pd'.calls = pd.calls /\ pd'.jobs = pd.jobs /\ pd'.list = pd.list /\ pd'.defined = pd.defined
      /\ pd'.phase = "online" /\ pd'.listeners = pd.listeners
  <2>1. Append(pd.inbox, m) \in Seq(Asked)
    BY <1>2, PdParts, AppendProperties
  <2> QED
    BY <1>2, <1>3, <2>1 DEF PdState
<1>5. pdNoted' \in PdNotes /\ pdNoted'.overtaken = pdNoted.overtaken
  BY <1>2, <1>3 DEF PdNotes
<1>6. PdGood(pd', pdNoted.overtaken)
  BY <1>2, <1>3, <1>4, PdSame DEF PdAlive
<1> QED
  BY <1>5, <1>6 DEF PdInv

\* The process ends for another reason.
LEMMA PdCrashHolds == PdInv /\ PdCrash => PdInv'
<1>1. SUFFICES ASSUME PdInv, PdCrash PROVE PdInv'
  OBVIOUS
<1>2. PdGood(pd, pdNoted.overtaken) /\ pdNoted \in PdNotes /\ pd' = PdDie(pd)
      /\ pdNoted' = [pdNoted EXCEPT !.faults = @ + 1]
  BY <1>1 DEF PdInv, PdCrash
<1>3. pdNoted' \in PdNotes /\ pdNoted'.overtaken = pdNoted.overtaken /\ pdNoted.overtaken \in SUBSET Nat
  BY <1>2 DEF PdNotes
<1>4. PdGood(pd', pdNoted.overtaken)
  BY <1>2, <1>3, PdDieGood
<1> QED
  BY <1>3, <1>4 DEF PdInv

\* Live calls about data are made, each perhaps several times: a datum is imported, or its
\* removal begins.
Makes(b, a, C) ==
  /\ DOMAIN b = DOMAIN a \cup C
  /\ \A c : IF c \in C THEN Copies(c, b) > Copies(c, a) ELSE Copies(c, b) = Copies(c, a)

Made(C) ==
  /\ \A c \in C : c \in PdOne /\ c.live /\ c.id \in Id /\ c.op # "flag"
  /\ \A id : /\ PdCall("every", id) \in C <=> PdCall("insert", id) \in C
             /\ PdCall("cancel", id) \in C => PdCall("every", id) \notin C

\* Those that change what is collected are noted when they overtake another.
Minds(C, p, more) ==
  \A c \in C : c.op \in Changing /\ c.id \notin more => Every \notin Subjects(p.calls) /\ c.id \notin Subjects(p.calls)

LEMMA MadeDatum ==
  ASSUME NEW p \in PdState, NEW q \in PdState, NEW C, NEW more, NEW id \in Id \ more, DatumTrue(p, id),
         Makes(q.calls, p.calls, C), Made(C), Minds(C, p, more),
         q.jobs = p.jobs, q.list = p.list, q.phase = p.phase
  PROVE  DatumTrue(q, id)
<1>1. Docs(q, id) = Docs(p, id) /\ Collected(q) = Collected(p)
  BY DEF Docs, Collected
<1>2. \A op \in Changing : Under(q, op, id) <=> Under(p, op, id) \/ PdCall(op, id) \in C
  BY DEF Makes, Under
<1>3. Every \in Subjects(q.calls) <=> Every \in Subjects(p.calls)
  <2>1. \A c \in C : c.id # Every
    BY DEF Made, Id, Every
  <2>2. Every \in Subjects(q.calls) <=> \E c \in DOMAIN q.calls : c.id = Every
    BY PdCallFacts
  <2>3. Every \in Subjects(p.calls) <=> \E c \in DOMAIN p.calls : c.id = Every
    BY PdCallFacts
  <2> QED
    BY <2>1, <2>2, <2>3 DEF Makes
<1>4. Purging(p) => Purging(q)
  BY DEF Purging, Under, Makes
<1>5. CASE \A op \in Changing : PdCall(op, id) \notin C
  <2>1. Same(p, q, id)
    BY <1>1, <1>5 DEF Same, Makes
  <2> QED
    BY <1>3, <1>4, <2>1, KeptDatum
<1>6. CASE \E op \in Changing : PdCall(op, id) \in C
  <2>1. Every \notin Subjects(p.calls) /\ id \notin Subjects(p.calls)
    BY <1>6, PdCalls DEF Minds
  <2>2. Idle(p, id)
    BY <2>1, PdCalls, PdCallFacts DEF Idle, Under
  <2>3. SUFFICES ASSUME Sole(q, id) PROVE Agrees(q, id)
    BY <1>3, <2>1 DEF DatumTrue
  <2>4. Sole(p, id)
    <3>1. Copies(PdCall("insert", id), p.calls) <= Copies(PdCall("insert", id), q.calls)
      BY PdCallFacts DEF Makes
    <3>2. Copies(PdCall("insert", id), p.calls) \in Nat /\ Copies(PdCall("insert", id), q.calls) \in Nat
      BY PdCallFacts
    <3> QED
      BY <1>1, <2>3, <3>1, <3>2 DEF Sole
  <2>5. id \in p.jobs <=> id \in Collected(p)
    BY <2>1, <2>2, <2>4 DEF DatumTrue, Agrees
  <2>6. /\ Under(q, "every", id) <=> PdCall("every", id) \in C
        /\ Under(q, "insert", id) <=> PdCall("insert", id) \in C
        /\ Under(q, "cancel", id) <=> PdCall("cancel", id) \in C
        /\ Under(q, "flag", id) <=> PdCall("flag", id) \in C
    BY <1>2, <2>2 DEF Idle, Changing
  <2>7. PdCall("flag", id) \notin C
    BY PdCalls DEF Made
  <2>8. Under(q, "every", id) <=> Under(q, "insert", id)
    BY <2>6 DEF Made
  <2>9. Under(q, "cancel", id) => ~Under(q, "every", id)
    BY <2>6 DEF Made
  <2>10. Idle(q, id) => FALSE
    BY <1>2, <1>6 DEF Idle
  <2> QED
    BY <2>6, <2>7, <2>8, <2>9, <2>10 DEF Agrees
<1> QED
  BY <1>5, <1>6

\* All data, when such calls are made.
LEMMA MadeGood ==
  ASSUME NEW p, NEW q \in PdState, NEW over, PdGood(p, over), NEW more \in SUBSET Nat, over \subseteq more,
         NEW C, Makes(q.calls, p.calls, C), Made(C), Minds(C, p, more),
         q.jobs = p.jobs, q.list = p.list, q.phase = p.phase, q.listeners = p.listeners,
         p.phase \in {"offline", "online"}
  PROVE  PdGood(q, more)
<1>1. p \in PdState /\ PdAlive(p, over) /\ DataTrue(p, over)
  BY DEF PdGood
<1>2. PdAlive(q, more)
  <2>1. \A c \in DOMAIN q.calls : c.live \/ c.id \in more
    BY <1>1 DEF PdAlive, Makes, Made
  <2>2. PdCall("findAll", Every) \notin C
    BY PdCalls DEF Made, Id, Every
  <2>3. Copies(PdCall("findAll", Every), q.calls) = 0
    BY <1>1, <2>2 DEF PdAlive, Makes
  <2> QED
    BY <1>1, <2>1, <2>3 DEF PdAlive
<1>3. ASSUME NEW id \in Id \ more PROVE DatumTrue(q, id)
  <2>1. DatumTrue(p, id)
    BY <1>1 DEF DataTrue
  <2> QED
    BY <1>1, <2>1, MadeDatum
<1> QED
  BY <1>2, <1>3 DEF PdGood, DataTrue

\* What is overtaken is noted.
LEMMA NewMinded ==
  ASSUME NEW p \in PdState, NEW q \in PdState, NEW C, Makes(q.calls, p.calls, C), NEW more, Overtaken(p, q) \subseteq more
  PROVE  Minds(C, p, more)
<1>1. SUFFICES ASSUME NEW c \in C, c.id \notin more
               PROVE  Every \notin Subjects(p.calls) /\ c.id \notin Subjects(p.calls)
  BY DEF Minds
<1>2. c \in DOMAIN q.calls /\ c.id \in Subjects(q.calls) /\ Copies(c, q.calls) > Copies(c, p.calls)
  BY PdCallFacts DEF Makes
<1>3. CASE Every \in Subjects(p.calls)
  BY <1>1, <1>2, <1>3 DEF Overtaken
<1>4. CASE Every \notin Subjects(p.calls)
  BY <1>1, <1>2, <1>4 DEF Overtaken, BagToSet
<1> QED
  BY <1>3, <1>4

\* Subjects are numbers.
LEMMA OvertakenType ==
  ASSUME NEW p \in PdState, NEW q \in PdState
  PROVE  Overtaken(p, q) \in SUBSET Nat
BY PdCallFacts DEF Overtaken

\* An import.
LEMMA ImportMakes ==
  ASSUME NEW p \in PdState, p.listeners > 0, NEW ids \in Times(p), NEW q, q = Import(p, ids)
  PROVE  /\ q \in PdState /\ q.jobs = p.jobs /\ q.list = p.list /\ q.phase = p.phase /\ q.listeners = p.listeners
         /\ \E C : Makes(q.calls, p.calls, C) /\ Made(C)
<1>1. p.clock \in Id /\ p.listeners \in Nat /\ p.defined \in SUBSET Id /\ p.calls \in BagsOf(PdOne)
  BY PdParts
<1>2. PICK n \in Nat : n = p.listeners /\ n > 0
  BY <1>1
<1>3. ids \in [1..n -> Id]
  BY <1>1, <1>2 DEF Times, Id
<1>4. ids \in Seq(Id) /\ DOMAIN ids = 1..n
  BY <1>3, SeqDef
<1>5. ids[Len(ids)] \in Id /\ Range(ids) \in SUBSET Id
  <2>1. Len(ids) = n
    BY <1>4, LenProperties
  <2> QED
    BY <1>2, <1>3, <2>1 DEF Range
<1>6. PICK C : C = {PdCall(op, id) : op \in {"every", "insert"}, id \in Range(ids)}
  <2> DEFINE made == {PdCall(op, id) : op \in {"every", "insert"}, id \in Range(ids)}
  <2>1. made = made
    OBVIOUS
  <2> HIDE DEF made
  <2>2. \E C : C = made
    OBVIOUS
  <2> QED
    BY <2>2 DEF made
<1>7. C \in SUBSET PdOne /\ Made(C)
  <2>1. \A c \in C : \E op \in {"every", "insert"}, id \in Id : c = PdCall(op, id)
    BY <1>5, <1>6
  <2>2. \A c \in C : c \in PdOne /\ c.live /\ c.id \in Id /\ c.op \in {"every", "insert"}
    BY <2>1, PdCalls DEF Changing
  <2>3. \A id : /\ PdCall("every", id) \in C <=> id \in Range(ids)
                /\ PdCall("insert", id) \in C <=> id \in Range(ids)
                /\ PdCall("cancel", id) \notin C
    BY <1>6, <2>2, PdCalls
  <2> QED
    BY <2>2, <2>3 DEF Made
<1>8. PICK b : b = [c \in C |-> Cardinality({i \in DOMAIN ids : ids[i] = c.id})]
  OBVIOUS
<1>9. b \in BagsOf(PdOne) /\ DOMAIN b = C
  <2>1. ASSUME NEW c \in C PROVE b[c] \in Nat \ {0}
    <3>1. PICK i \in DOMAIN ids : ids[i] = c.id
      <4>1. c.id \in Range(ids)
        BY <1>6, PdCalls
      <4> QED
        BY <4>1 DEF Range
    <3>2. PICK X : X = {j \in DOMAIN ids : ids[j] = c.id}
      OBVIOUS
    <3>3. IsFiniteSet(1..n) /\ X \subseteq 1..n
      BY <1>4, <3>2, FS_Interval
    <3>4. IsFiniteSet(X)
      BY <3>3, FS_Subset
    <3>5. Cardinality(X) \in Nat /\ (Cardinality(X) = 0 <=> X = {})
      BY <3>4, FS_CardinalityType, FS_EmptySet
    <3>6. X # {}
      BY <3>1, <3>2
    <3> QED
      BY <1>8, <3>2, <3>5, <3>6
  <2>2. b \in [C -> Nat \ {0}]
    BY <1>8, <2>1
  <2> QED
    BY <1>7, <2>2, BagFacts
<1>10. PICK a : a = (p.calls (+) b)
  OBVIOUS
<1>11. a \in BagsOf(PdOne) /\ IsSum(a, p.calls, b)
  BY <1>1, <1>9, <1>10, AddFacts
<1>12. Makes(a, p.calls, C)
  <2>1. \A c : Copies(c, b) \in Nat /\ (c \in C <=> Copies(c, b) # 0)
    BY <1>9, BagFacts
  <2>2. \A c : Copies(c, p.calls) \in Nat
    BY <1>1, BagFacts
  <2> QED
    BY <1>9, <1>11, <2>1, <2>2 DEF Makes, IsSum
<1>13. q = [p EXCEPT !.clock = ids[Len(ids)], !.defined = @ \cup Range(ids), !.calls = a]
  BY <1>6, <1>8, <1>10 DEF Import, PdStart, PdState
<1>14. PICK k \in Id, d \in SUBSET Id : k = ids[Len(ids)] /\ d = p.defined \cup Range(ids)
  BY <1>1, <1>5
<1>15. q = [p EXCEPT !.clock = k, !.defined = d, !.calls = a]
  BY <1>13, <1>14
<1> QED
  BY <1>7, <1>11, <1>12, <1>15 DEF PdState

\* What the dashboard asks for.
LEMMA PdReceiveHolds == PdInv /\ PdReceive => PdInv'
<1>1. SUFFICES ASSUME PdInv, PdReceive PROVE PdInv'
  OBVIOUS
<1>2. /\ pd \in PdState /\ pdNoted \in PdNotes /\ PdGood(pd, pdNoted.overtaken) /\ PdAlive(pd, pdNoted.overtaken)
      /\ pd.phase = "online" /\ pd.inbox # <<>> /\ pdNoted.overtaken \in SUBSET Nat
  BY <1>1 DEF PdInv, PdGood, PdReceive
<1>3. PICK m : m = Head(pd.inbox)
  OBVIOUS
<1>4. PICK p : p = [pd EXCEPT !.inbox = Tail(@)]
  OBVIOUS
<1>5. m \in Asked /\ Tail(pd.inbox) \in Seq(Asked)
  BY <1>2, <1>3, PdParts, HeadTailProperties
<1>6. /\ p \in PdState /\ p.calls = pd.calls /\ p.jobs = pd.jobs /\ p.list = pd.list /\ p.defined = pd.defined
      /\ p.phase = "online" /\ p.listeners = pd.listeners /\ p.listeners > 0
  BY <1>2, <1>4, <1>5 DEF PdState, PdAlive
<1>7. PdGood(p, pdNoted.overtaken)
  BY <1>2, <1>6, PdSame
<1>8. PICK more : more = pdNoted.overtaken \cup Overtaken(pd, pd')
  OBVIOUS
<1>9. pdNoted' = [pdNoted EXCEPT !.overtaken = more]
  BY <1>1, <1>8 DEF PdReceive
<1>10. \/ m.type = "import" /\ \E ids \in Times(p) : pd' = Import(p, ids)
       \/ m.type = "remove" /\ pd' = PdStart(p, ByEach(p.listeners, {PdCall("cancel", m.id)}))
       \/ m.type = "malformed" /\ pd' = PdDie(p)
  BY <1>1, <1>3, <1>4 DEF PdReceive
<1>11. ASSUME NEW C, Makes(pd'.calls, p.calls, C), Made(C), pd' \in PdState, pd'.jobs = p.jobs, pd'.list = p.list,
              pd'.phase = p.phase, pd'.listeners = p.listeners
       PROVE  pd' \in PdState /\ PdGood(pd', more)
  <2>1. more \in SUBSET Nat
    BY <1>2, <1>8, <1>11, OvertakenType
  <2>2. Makes(pd'.calls, pd.calls, C)
    BY <1>6, <1>11
  <2>3. Minds(C, pd, more)
    BY <1>2, <1>8, <1>11, <2>2, NewMinded
  <2>4. Minds(C, p, more)
    BY <1>6, <2>3 DEF Minds
  <2> QED
    BY <1>6, <1>7, <1>8, <1>11, <2>1, <2>4, MadeGood
<1>12. pd' \in PdState /\ PdGood(pd', more)
  <2>1. CASE \E ids \in Times(p) : pd' = Import(p, ids)
    BY <1>6, <1>11, <2>1, ImportMakes
  <2>2. CASE m.type = "remove" /\ pd' = PdStart(p, ByEach(p.listeners, {PdCall("cancel", m.id)}))
    <3>1. PICK id \in Id : m.id = id
      BY <1>5, <2>2 DEF Asked
    <3>2. PICK C : C = {PdCall("cancel", id)}
      OBVIOUS
    <3>3. C \in SUBSET PdOne
      BY <3>2, PdCalls DEF Changing
    <3>4. Made(C)
      BY <3>2, <3>3, PdCalls DEF Made
    <3>5. PICK n \in Nat : n = p.listeners /\ n > 0
      BY <1>6, PdParts
    <3>6. pd' = PdStart(p, ByEach(n, C))
      BY <2>2, <3>1, <3>2, <3>5
    <3>7. /\ pd' \in PdState /\ Adds(pd'.calls, p.calls, C, n) /\ pd'.phase = p.phase /\ pd'.listeners = p.listeners
          /\ pd'.jobs = p.jobs /\ pd'.list = p.list
      BY <1>6, <3>3, <3>5, <3>6, PdStarted
    <3>8. Makes(pd'.calls, p.calls, C)
      <4>1. \A c : Copies(c, p.calls) \in Nat
        BY <1>6, PdCallFacts
      <4> QED
        BY <3>5, <3>7, <4>1 DEF Adds, Makes
    <3> QED
      BY <1>11, <3>4, <3>7, <3>8
  <2>3. CASE pd' = PdDie(p)
    <3>1. PdGood(pd', pdNoted.overtaken)
      BY <1>2, <1>7, <2>3, PdDieGood
    <3>2. pd' \in PdState
      BY <3>1 DEF PdGood
    <3>3. more \in SUBSET Nat
      BY <1>2, <1>8, <3>2, OvertakenType
    <3> QED
      BY <1>7, <2>3, <3>2, <3>3, PdDieGood
  <2> QED
    BY <1>10, <2>1, <2>2, <2>3
<1>13. pdNoted' \in PdNotes /\ pdNoted'.overtaken = more
  <2>1. more \in SUBSET Nat
    BY <1>12 DEF PdGood
  <2> QED
    BY <1>2, <1>9, <2>1 DEF PdNotes
<1> QED
  BY <1>12, <1>13 DEF PdInv

\* A collection is stored, or its page is not what the callback expects.
LEMMA CollectHolds == ASSUME NEW id PROVE PdInv /\ Collect(id) => PdInv'
<1>1. SUFFICES ASSUME PdInv, Collect(id) PROVE PdInv'
  OBVIOUS
<1>2. /\ pd \in PdState /\ pdNoted \in PdNotes /\ PdGood(pd, pdNoted.overtaken) /\ PdAlive(pd, pdNoted.overtaken)
      /\ pdNoted.overtaken \in SUBSET Nat /\ id \in pd.defined
  BY <1>1 DEF PdInv, PdGood, Collect
<1>3. pdNoted' \in PdNotes /\ pdNoted'.overtaken = pdNoted.overtaken
  <2>1. \/ pdNoted' = [pdNoted EXCEPT !.runs = @ + 1]
        \/ pdNoted' = [pdNoted EXCEPT !.runs = @ + 1, !.faults = @ + 1]
    BY <1>1 DEF Collect
  <2>2. PICK r \in Nat, f \in Nat : r = pdNoted.runs + 1 /\ f = pdNoted.faults + 1
    BY <1>2 DEF PdNotes
  <2>3. \/ pdNoted' = [pdNoted EXCEPT !.runs = r]
        \/ pdNoted' = [pdNoted EXCEPT !.runs = r, !.faults = f]
    BY <2>1, <2>2
  <2> QED
    BY <1>2, <2>3 DEF PdNotes
<1>4. CASE pd' = PdDie(pd)
  <2>1. PdGood(pd', pdNoted.overtaken)
    BY <1>2, <1>4, PdDieGood
  <2> QED
    BY <1>3, <2>1 DEF PdInv
<1>5. CASE pd' = PdStart(pd, Once(PdCall("store", id)))
  <2>1. pd.phase \in {"offline", "online"} /\ id \in Id
    BY <1>2, PdParts DEF PdAlive
  <2>2. PICK C : C = {PdCall("store", id)}
    OBVIOUS
  <2>3. pd' = PdStart(pd, ByEach(1, C))
    BY <1>5, <2>2, OnceEach
  <2>4. C \in SUBSET PdOne
    BY <2>1, <2>2, PdCalls
  <2>5. Made(C)
    BY <2>1, <2>2, <2>4, PdCalls DEF Made
  <2>6. Minds(C, pd, pdNoted.overtaken)
    BY <2>2, PdCalls DEF Minds, Changing
  <2>7. /\ pd' \in PdState /\ Adds(pd'.calls, pd.calls, C, 1) /\ pd'.phase = pd.phase /\ pd'.listeners = pd.listeners
        /\ pd'.jobs = pd.jobs /\ pd'.list = pd.list
    BY <1>2, <2>3, <2>4, PdStarted
  <2>8. Makes(pd'.calls, pd.calls, C)
    <3>1. \A c : Copies(c, pd.calls) \in Nat
      BY <1>2, PdCallFacts
    <3> QED
      BY <2>7, <3>1 DEF Adds, Makes
  <2>9. PdGood(pd', pdNoted.overtaken)
    BY <1>2, <2>1, <2>5, <2>6, <2>7, <2>8, MadeGood
  <2> QED
    BY <1>3, <2>9 DEF PdInv
<1> QED
  BY <1>1, <1>4, <1>5 DEF Collect

\* A call is answered, or was never made.
PdTaking(p, c) == [p EXCEPT !.calls = BagRemove(@, c)]

LEMMA PdTakingFacts ==
  ASSUME NEW p \in PdState, NEW c \in DOMAIN p.calls, NEW t, t = PdTaking(p, c)
  PROVE  /\ t \in PdState /\ Takes(t.calls, p.calls, c) /\ c \in PdOne
         /\ t.phase = p.phase /\ t.listeners = p.listeners /\ t.inbox = p.inbox /\ t.clock = p.clock
         /\ t.defined = p.defined /\ t.jobs = p.jobs /\ t.list = p.list
<1>1. PICK b : b = BagRemove(p.calls, c)
  OBVIOUS
<1>2. b \in BagsOf(PdOne) /\ Takes(b, p.calls, c)
  BY <1>1, PdParts, RemoveFacts
<1>3. t = [p EXCEPT !.calls = b]
  BY <1>1 DEF PdTaking
<1>4. c \in PdOne
  BY PdCallFacts
<1> QED
  BY <1>2, <1>3, <1>4 DEF PdState

\* The process goes on.
Lives(p, q) ==
  /\ q.phase = p.phase /\ q.listeners = p.listeners /\ q.defined = p.defined
  /\ Copies(PdCall("findAll", Every), q.calls) = Copies(PdCall("findAll", Every), p.calls)
  /\ \A c \in DOMAIN q.calls : c \in DOMAIN p.calls \/ (p.phase # "down" /\ c.live)

LEMMA AliveKept ==
  ASSUME NEW p \in PdState, NEW q \in PdState, NEW over, PdAlive(p, over), NEW more, over \subseteq more, Lives(p, q)
  PROVE  PdAlive(q, more)
<1>1. q.phase = "down" => \A c \in DOMAIN q.calls : ~c.live
  BY DEF PdAlive, Lives
<1>2. q.phase # "down" => \A c \in DOMAIN q.calls : c.live \/ c.id \in more
  BY DEF PdAlive, Lives
<1> QED
  BY <1>1, <1>2 DEF PdAlive, Lives

\* A call about all data that is not the reading of the list.
LEMMA EveryTaken ==
  ASSUME NEW p \in PdState, NEW q \in PdState, NEW over, PdAlive(p, over), NEW c \in DOMAIN p.calls, c.id = Every,
         c # PdCall("findAll", Every), Takes(q.calls, p.calls, c), q.list = p.list, q.phase = p.phase,
         q.jobs = {} \/ (q.jobs = p.jobs /\ c # PdCall("purge", Every)),
         NEW id \in Id, DatumTrue(p, id)
  PROVE  DatumTrue(q, id)
<1>1. Every \in Subjects(p.calls)
  BY PdCallFacts
<1>2. Idle(p, id) /\ (id \in p.jobs => Purging(p)) /\ (p.phase # "starting" => id \notin Collected(p))
  BY <1>1 DEF DatumTrue
<1>3. Idle(q, id)
  BY <1>2 DEF Idle, Under, Takes
<1>4. id \in q.jobs => Purging(q)
  BY <1>2 DEF Purging, Under, Takes
<1>5. Collected(q) = Collected(p)
  BY DEF Collected
<1>6. q.phase = "starting" => Every \in Subjects(q.calls)
  <2>1. SUFFICES ASSUME p.phase = "starting" PROVE Every \in Subjects(q.calls)
    OBVIOUS
  <2>2. Copies(PdCall("findAll", Every), q.calls) # 0
    BY <2>1 DEF PdAlive, Takes
  <2> QED
    BY <2>2, PdCalls, PdCallFacts
<1>7. CASE Every \in Subjects(q.calls)
  BY <1>2, <1>3, <1>4, <1>5, <1>7 DEF DatumTrue
<1>8. CASE Every \notin Subjects(q.calls)
  <2>1. ~Purging(q)
    BY <1>8, PdCalls, PdCallFacts DEF Purging, Under
  <2>2. id \notin q.jobs /\ id \notin Collected(q)
    BY <1>2, <1>4, <1>5, <1>6, <1>8, <2>1
  <2>3. Agrees(q, id)
    BY <1>3, <2>2 DEF Agrees, Idle, Changing
  <2> QED
    BY <1>8, <2>3 DEF DatumTrue
<1> QED
  BY <1>7, <1>8

\* A step about one datum.
Touches(p, q, d) ==
  /\ \A c : c.id # d => Copies(c, q.calls) = Copies(c, p.calls)
  /\ \A x : x # d => /\ Docs(q, x) = Docs(p, x)
                     /\ x \in q.jobs <=> x \in p.jobs
                     /\ x \in Collected(q) <=> x \in Collected(p)

\* It leaves the others as they are ...
LEMMA OthersKept ==
  ASSUME NEW p \in PdState, NEW q \in PdState, NEW d \in Id, Touches(p, q, d), q.phase = p.phase
  PROVE  /\ Every \in Subjects(q.calls) <=> Every \in Subjects(p.calls)
         /\ Purging(q) <=> Purging(p)
         /\ \A x \in Id : x # d /\ DatumTrue(p, x) => DatumTrue(q, x)
<1>1. d # Every
  BY DEF Id, Every
<1>2. \A c : c.id = Every => (c \in DOMAIN q.calls <=> c \in DOMAIN p.calls)
  BY <1>1, PdCallFacts DEF Touches
<1>3. Every \in Subjects(q.calls) <=> Every \in Subjects(p.calls)
  <2>1. Every \in Subjects(q.calls) <=> \E c \in DOMAIN q.calls : c.id = Every
    BY PdCallFacts
  <2>2. Every \in Subjects(p.calls) <=> \E c \in DOMAIN p.calls : c.id = Every
    BY PdCallFacts
  <2> QED
    BY <1>2, <2>1, <2>2
<1>4. Purging(q) <=> Purging(p)
  BY <1>2, PdCalls DEF Purging, Under
<1>5. ASSUME NEW x \in Id, x # d, DatumTrue(p, x) PROVE DatumTrue(q, x)
  <2>1. Same(p, q, x)
    BY <1>5, PdCalls DEF Touches, Same
  <2> QED
    BY <1>3, <1>4, <1>5, <2>1, KeptDatum
<1> QED
  BY <1>3, <1>4, <1>5

\* ... and so it is enough to look at that datum.
LEMMA TouchedGood ==
  ASSUME NEW p, NEW q \in PdState, NEW over, PdGood(p, over), NEW more \in SUBSET Nat, over \subseteq more,
         Lives(p, q), NEW d \in Id, Touches(p, q, d), p.phase # "down" /\ d \notin more => DatumTrue(q, d)
  PROVE  PdGood(q, more)
<1>1. p \in PdState /\ PdAlive(p, over) /\ DataTrue(p, over) /\ q.phase = p.phase
  BY DEF PdGood, Lives
<1>2. PdAlive(q, more)
  BY <1>1, AliveKept
<1>3. ASSUME q.phase # "down", NEW x \in Id \ more PROVE DatumTrue(q, x)
  <2>1. DatumTrue(p, x)
    BY <1>1, <1>3 DEF DataTrue
  <2> QED
    BY <1>1, <1>3, <2>1, OthersKept
<1> QED
  BY <1>2, <1>3 DEF PdGood, DataTrue

\* A datum that a call is under way for is one that agrees.
LEMMA UnderAgrees ==
  ASSUME NEW p \in PdState, NEW d \in Id, NEW op \in Changing, Under(p, op, d), DatumTrue(p, d)
  PROVE  Every \notin Subjects(p.calls) /\ (Sole(p, d) => Agrees(p, d))
BY DEF DatumTrue, Idle

\* The list is read: it decides.
LEMMA FoundList ==
  ASSUME NEW p, NEW over, PdGood(p, over), NEW c \in DOMAIN p.calls, c = PdCall("findAll", Every),
         NEW t, t = PdTaking(p, c), NEW q, q = Reschedule(t), NEW more, more = over \cup Overtaken(t, q)
  PROVE  PdGood(q, more)
<1>1. p \in PdState /\ PdAlive(p, over) /\ DataTrue(p, over) /\ over \in SUBSET Nat
  BY DEF PdGood
<1>2. /\ t \in PdState /\ Takes(t.calls, p.calls, c) /\ t.phase = p.phase /\ t.jobs = p.jobs /\ t.list = p.list
      /\ t.defined \in SUBSET Id /\ t.list \in Seq(Doc)
  BY <1>1, PdTakingFacts, PdParts
<1>3. p.phase = "starting" /\ Copies(PdCall("findAll", Every), p.calls) = 1
  BY <1>1, PdCallFacts DEF PdAlive
<1>4. PICK K : K = Collected(t)
  OBVIOUS
<1>5. K \in SUBSET Id /\ K = Collected(p)
  <2>1. ASSUME NEW j \in DOMAIN t.list PROVE t.list[j].id \in Id
    <3>1. t.list[j] \in Doc
      BY <1>2
    <3> QED
      BY <3>1 DEF Doc
  <2>2. K \in SUBSET Id
    BY <1>4, <2>1 DEF Collected
  <2> QED
    BY <1>2, <1>4, <2>2 DEF Collected
<1>6. PICK C : C = {PdCall("every", id) : id \in K}
  OBVIOUS
<1>7. C \in SUBSET PdOne
  BY <1>5, <1>6, PdCalls DEF Changing
<1>8. PICK u : u = [t EXCEPT !.phase = "offline", !.defined = @ \cup K]
  OBVIOUS
<1>9. u \in PdState /\ u.phase = "offline" /\ u.calls = t.calls /\ u.jobs = t.jobs /\ u.list = t.list
  <2>1. PICK D \in SUBSET Id : D = t.defined \cup K
    BY <1>2, <1>5
  <2>2. u = [t EXCEPT !.phase = "offline", !.defined = D]
    BY <1>8, <2>1
  <2> QED
    BY <1>2, <2>2 DEF PdState
<1>10. q = PdStart(u, ByEach(1, C))
  BY <1>4, <1>6, <1>8, OnceEach DEF Reschedule
<1>11. /\ q \in PdState /\ Adds(q.calls, t.calls, C, 1) /\ q.phase = "offline" /\ q.jobs = p.jobs /\ q.list = p.list
  BY <1>2, <1>7, <1>9, <1>10, PdStarted
<1>12. more \in SUBSET Nat /\ over \subseteq more
  BY <1>1, <1>2, <1>11, OvertakenType
<1>13. Makes(q.calls, t.calls, C)
  <2>1. \A x : Copies(x, t.calls) \in Nat
    BY <1>2, PdCallFacts
  <2> QED
    BY <1>11, <2>1 DEF Adds, Makes
<1>14. Minds(C, t, more)
  BY <1>2, <1>11, <1>13, NewMinded
<1>15. PdAlive(q, more)
  <2>1. \A x \in DOMAIN q.calls : x.live \/ x.id \in more
    <3>1. \A x \in C : x.live
      BY <1>6, PdCalls
    <3>2. \A x \in DOMAIN t.calls : x.live \/ x.id \in more
      BY <1>1, <1>2, <1>3, <1>12 DEF PdAlive, Takes
    <3> QED
      BY <1>13, <3>1, <3>2 DEF Makes
  <2>2. Copies(PdCall("findAll", Every), q.calls) = 0
    <3>1. PdCall("findAll", Every) \notin C
      BY <1>6, PdCalls
    <3> QED
      BY <1>2, <1>3, <1>13, <3>1 DEF Makes, Takes
  <2> QED
    BY <1>11, <2>1, <2>2 DEF PdAlive
<1>16. ASSUME NEW id \in Id \ more PROVE DatumTrue(q, id)
  <2>1. DatumTrue(p, id) /\ Every \in Subjects(p.calls)
    BY <1>1, <1>3, <1>12, <1>16, PdCalls, PdCallFacts DEF DataTrue
  <2>2. Idle(p, id) /\ (id \in p.jobs => Purging(p))
    BY <2>1 DEF DatumTrue
  <2>3. Collected(q) = K
    BY <1>5, <1>11 DEF Collected
  <2>4. id \in K => PdCall("every", id) \in C
    BY <1>6
  <2>5. id \in K => Every \notin Subjects(t.calls)
    BY <1>14, <1>16, <2>4, PdCalls DEF Minds, Changing
  <2>6. \A op \in Changing : Under(q, op, id) => op = "every" /\ id \in K
    <3>1. SUFFICES ASSUME NEW op \in Changing, PdCall(op, id) \in DOMAIN q.calls PROVE op = "every" /\ id \in K
      BY DEF Under
    <3>2. PdCall(op, id) \notin DOMAIN t.calls
      BY <1>2, <2>2 DEF Takes, Idle, Under
    <3>3. PdCall(op, id) \in C
      BY <1>13, <3>1, <3>2 DEF Makes
    <3> QED
      BY <1>6, <3>3, PdCalls
  <2>7. Purging(p) => Purging(q)
    BY <1>2, <1>13, PdCalls DEF Purging, Under, Takes, Makes
  <2>8. Purging(q) => Every \in Subjects(t.calls)
    <3>1. PdCall("purge", Every) \notin C
      BY <1>6, PdCalls
    <3> QED
      BY <1>2, <1>13, <3>1, PdCalls, PdCallFacts DEF Purging, Under, Makes
  <2>9. Every \in Subjects(q.calls) <=> Every \in Subjects(t.calls)
    <3>1. \A x \in C : x.id # Every
      BY <1>5, <1>6, PdCalls DEF Id, Every
    <3>2. Every \in Subjects(q.calls) <=> \E x \in DOMAIN q.calls : x.id = Every
      BY <1>11, PdCallFacts
    <3>3. Every \in Subjects(t.calls) <=> \E x \in DOMAIN t.calls : x.id = Every
      BY <1>2, PdCallFacts
    <3> QED
      BY <1>13, <3>1, <3>2, <3>3 DEF Makes
  <2>10. CASE Every \in Subjects(t.calls)
    <3>1. id \notin K
      BY <2>5, <2>10
    <3>2. Idle(q, id)
      BY <2>6, <3>1 DEF Idle
    <3> QED
      BY <1>11, <2>2, <2>3, <2>7, <2>9, <2>10, <3>1, <3>2 DEF DatumTrue
  <2>11. CASE Every \notin Subjects(t.calls)
    <3>1. id \notin q.jobs
      BY <1>11, <2>2, <2>7, <2>8, <2>11
    <3>2. Under(q, "every", id) <=> id \in K
      BY <1>13, <2>4, <2>6 DEF Under, Makes, Changing
    <3>3. ~Under(q, "insert", id) /\ ~Under(q, "cancel", id) /\ ~Under(q, "flag", id)
      BY <2>6 DEF Changing
    <3>4. Idle(q, id) => id \notin K
      BY <3>2 DEF Idle, Changing
    <3>5. Agrees(q, id)
      BY <2>3, <3>1, <3>2, <3>3, <3>4 DEF Agrees
    <3> QED
      BY <2>9, <2>11, <3>5 DEF DatumTrue
  <2> QED
    BY <2>10, <2>11
<1> QED
  BY <1>11, <1>12, <1>15, <1>16 DEF PdGood, DataTrue

\* What is the same when only a datum of the database changes.
AsBefore(p, q) ==
  q.phase = p.phase /\ q.listeners = p.listeners /\ q.defined = p.defined /\ q.calls = p.calls

\* A document is not collected any more.
LEMMA UnlistFacts ==
  ASSUME NEW p \in PdState, NEW d \in Id, NEW q, q = Unlist(p, d)
  PROVE  /\ q \in PdState /\ AsBefore(p, q) /\ q.jobs = p.jobs
         /\ \A x : Docs(q, x) = Docs(p, x)
         /\ \A x : x # d => (x \in Collected(q) <=> x \in Collected(p))
         /\ (\A i, j \in Docs(p, d) : i = j) => d \notin Collected(q)
<1>1. p.list \in Seq(Doc)
  BY PdParts
<1>2. CASE Docs(p, d) = {}
  <2>1. q = p
    BY <1>2 DEF Unlist
  <2>2. d \notin Collected(p)
    BY <1>2 DEF Docs, Collected
  <2> QED
    BY <2>1, <2>2 DEF AsBefore
<1>3. CASE Docs(p, d) # {}
  <2>1. PICK k \in Docs(p, d) : k = CHOOSE i \in Docs(p, d) : \A j \in Docs(p, d) : i <= j
    <3>1. Docs(p, d) \in SUBSET Nat
      BY <1>1 DEF Docs
    <3>2. PICK i \in Docs(p, d) : \A j \in Docs(p, d) : i <= j
      BY <1>3, <3>1, Least
    <3> QED
      BY <3>2
  <2>2. k \in DOMAIN p.list /\ p.list[k] \in Doc /\ p.list[k].id = d
    <3>1. k \in DOMAIN p.list /\ p.list[k].id = d
      BY DEF Docs
    <3> QED
      BY <1>1, <3>1
  <2>3. PICK x \in Doc : x = [p.list[k] EXCEPT !.isCollected = FALSE] /\ x.id = d /\ x.isCollected = FALSE
    <3>1. PICK y \in Doc : y = p.list[k] /\ y.id = d
      BY <2>2
    <3>2. [y EXCEPT !.isCollected = FALSE] \in Doc
      BY <3>1 DEF Doc
    <3>3. [y EXCEPT !.isCollected = FALSE].id = d /\ [y EXCEPT !.isCollected = FALSE].isCollected = FALSE
      BY <3>1 DEF Doc
    <3> QED
      BY <3>1, <3>2, <3>3
  <2>4. PICK r : r = [p.list EXCEPT ![k] = x]
    OBVIOUS
  <2>5. r \in Seq(Doc) /\ DOMAIN r = DOMAIN p.list /\ r[k] = x /\ \A i \in DOMAIN r : i # k => r[i] = p.list[i]
    <3>1. Len(p.list) \in Nat /\ DOMAIN p.list = 1..Len(p.list) /\ p.list \in [1..Len(p.list) -> Doc]
      BY <1>1
    <3>2. r \in [1..Len(p.list) -> Doc]
      BY <2>2, <2>4, <3>1
    <3>3. r \in Seq(Doc)
      BY <3>1, <3>2, SeqDef
    <3> QED
      BY <2>2, <2>4, <3>3
  <2>6. q = [p EXCEPT !.list = r]
    <3>1. q = [p EXCEPT !.list[k].isCollected = FALSE]
      BY <1>3, <2>1 DEF Unlist
    <3>2. [p.list EXCEPT ![k].isCollected = FALSE] = r
      BY <2>2, <2>3, <2>4
    <3> QED
      BY <3>1, <3>2 DEF PdState
  <2>7. q \in PdState /\ AsBefore(p, q) /\ q.jobs = p.jobs /\ q.list = r
    BY <2>5, <2>6 DEF PdState, AsBefore
  <2>8. \A e : Docs(q, e) = Docs(p, e)
    <3>1. \A i \in DOMAIN r : r[i].id = p.list[i].id
      BY <2>2, <2>3, <2>5
    <3> QED
      BY <2>5, <2>7, <3>1 DEF Docs
  <2>9. ASSUME NEW e, e # d PROVE e \in Collected(q) <=> e \in Collected(p)
    <3>1. e \in Collected(q) <=> \E i \in DOMAIN r : r[i].id = e /\ r[i].isCollected
      BY <2>7 DEF Collected
    <3>2. e \in Collected(p) <=> \E i \in DOMAIN p.list : p.list[i].id = e /\ p.list[i].isCollected
      BY DEF Collected
    <3> QED
      BY <2>2, <2>3, <2>5, <2>9, <3>1, <3>2
  <2>10. ASSUME \A i, j \in Docs(p, d) : i = j, d \in Collected(q) PROVE FALSE
    <3>1. PICK i \in DOMAIN r : r[i].id = d /\ r[i].isCollected
      BY <2>7, <2>10 DEF Collected
    <3>2. i \in Docs(p, d)
      BY <2>7, <2>8, <3>1 DEF Docs
    <3>3. i = k
      BY <2>1, <2>10, <3>2
    <3> QED
      BY <2>3, <2>5, <3>1, <3>3
  <2> QED
    BY <2>7, <2>8, <2>9, <2>10
<1> QED
  BY <1>2, <1>3

\* A document is put behind the others.
LEMMA EnlistFacts ==
  ASSUME NEW p \in PdState, NEW d \in Id, NEW q, q = [p EXCEPT !.list = Append(@, [id |-> d, isCollected |-> TRUE])]
  PROVE  /\ q \in PdState /\ AsBefore(p, q) /\ q.jobs = p.jobs
         /\ \A x : x # d => Docs(q, x) = Docs(p, x) /\ (x \in Collected(q) <=> x \in Collected(p))
         /\ d \in Collected(q) /\ Docs(q, d) # {}
         /\ (\A i, j \in Docs(q, d) : i = j) => Docs(p, d) = {}
<1>1. PICK s \in Seq(Doc) : s = p.list
  BY PdParts
<1>2. PICK n \in Nat : n = Len(s) /\ DOMAIN s = 1..n
  OBVIOUS
<1>3. PICK x \in Doc : x = [id |-> d, isCollected |-> TRUE] /\ x.id = d /\ x.isCollected
  <2>1. [id |-> d, isCollected |-> TRUE] \in Doc
    BY DEF Doc
  <2> QED
    BY <2>1
<1>4. PICK r : r = Append(s, x)
  OBVIOUS
<1>5. r \in Seq(Doc) /\ Len(r) = n + 1 /\ r[n + 1] = x /\ \A i \in 1..n : r[i] = s[i]
  BY <1>2, <1>4, AppendProperties
<1>6. PICK z \in Nat : z = n + 1 /\ z \notin DOMAIN s
  BY <1>2
<1>7. DOMAIN r = DOMAIN s \cup {z} /\ r[z] = x /\ \A i \in DOMAIN s : r[i] = s[i]
  <2>1. DOMAIN r = 1..n + 1
    BY <1>5
  <2> QED
    BY <1>2, <1>5, <1>6, <2>1
<1>8. q = [p EXCEPT !.list = r]
  BY <1>1, <1>3, <1>4 DEF PdState
<1>9. q \in PdState /\ AsBefore(p, q) /\ q.jobs = p.jobs /\ q.list = r
  BY <1>5, <1>8 DEF PdState, AsBefore
<1>10. ASSUME NEW e, e # d PROVE Docs(q, e) = Docs(p, e)
  BY <1>1, <1>3, <1>6, <1>7, <1>9, <1>10 DEF Docs
<1>11. ASSUME NEW e, e # d PROVE e \in Collected(q) <=> e \in Collected(p)
  <2>1. e \in Collected(q) <=> \E i \in DOMAIN r : r[i].id = e /\ r[i].isCollected
    BY <1>9 DEF Collected
  <2>2. e \in Collected(p) <=> \E i \in DOMAIN s : s[i].id = e /\ s[i].isCollected
    BY <1>1 DEF Collected
  <2> QED
    BY <1>3, <1>7, <1>11, <2>1, <2>2
<1>12. d \in Collected(q) /\ z \in Docs(q, d)
  <2>1. z \in DOMAIN r /\ r[z].id = d /\ r[z].isCollected
    BY <1>3, <1>7
  <2> QED
    BY <1>9, <2>1 DEF Collected, Docs
<1>13. (\A i, j \in Docs(q, d) : i = j) => Docs(p, d) = {}
  <2>1. SUFFICES ASSUME \A i, j \in Docs(q, d) : i = j, NEW i \in Docs(p, d) PROVE FALSE
    OBVIOUS
  <2>2. i \in DOMAIN s /\ i \in Docs(q, d)
    BY <1>1, <1>7, <1>9, <2>1 DEF Docs
  <2> QED
    BY <1>6, <1>12, <2>1, <2>2
<1> QED
  BY <1>9, <1>10, <1>11, <1>12, <1>13

\* The job is made, or the document: whichever is second finds the other, or the call for it.
LEMMA EveryDatum ==
  ASSUME NEW p \in PdState, NEW q \in PdState, NEW d \in Id, DatumTrue(p, d),
         NEW c \in DOMAIN p.calls, c = PdCall("every", d), Takes(q.calls, p.calls, c),
         q.list = p.list, q.jobs = p.jobs \cup {d}, Every \in Subjects(q.calls) => Every \in Subjects(p.calls)
  PROVE  DatumTrue(q, d)
<1>1. Every \notin Subjects(p.calls) /\ (Sole(p, d) => Agrees(p, d)) /\ Under(p, "every", d)
  BY UnderAgrees DEF Under, Changing
<1>2. SUFFICES ASSUME Sole(q, d) PROVE Agrees(q, d)
  BY <1>1 DEF DatumTrue
<1>3. Docs(q, d) = Docs(p, d) /\ Collected(q) = Collected(p)
  BY DEF Docs, Collected
<1>4. PdCall("insert", d) # c /\ PdCall("cancel", d) # c /\ PdCall("flag", d) # c
  BY PdCalls
<1>5. Sole(p, d)
  <2>1. Copies(PdCall("insert", d), p.calls) \in Nat
    BY PdCallFacts
  <2>2. Copies(PdCall("insert", d), q.calls) = Copies(PdCall("insert", d), p.calls)
    BY <1>4, <2>1 DEF Takes
  <2> QED
    BY <1>2, <1>3, <2>2 DEF Sole
<1>6. Agrees(p, d)
  BY <1>1, <1>5
<1>7. /\ Under(q, "insert", d) <=> Under(p, "insert", d)
      /\ Under(q, "cancel", d) <=> Under(p, "cancel", d)
      /\ Under(q, "flag", d) <=> Under(p, "flag", d)
  BY <1>4 DEF Under, Takes
<1>8. d \in q.jobs
  OBVIOUS
<1>9. ~Under(q, "cancel", d) /\ ~Under(q, "flag", d) /\ (Under(q, "insert", d) \/ d \in Collected(q))
  BY <1>1, <1>3, <1>6, <1>7 DEF Agrees
<1>10. Idle(q, d) => ~Under(q, "insert", d)
  BY DEF Idle, Changing
<1> QED
  BY <1>8, <1>9, <1>10 DEF Agrees

\* The document is put behind the others.
LEMMA InsertDatum ==
  ASSUME NEW p \in PdState, NEW q \in PdState, NEW d \in Id, DatumTrue(p, d),
         NEW c \in DOMAIN p.calls, c = PdCall("insert", d), Takes(q.calls, p.calls, c),
         q.jobs = p.jobs, d \in Collected(q), Docs(q, d) # {},
         (\A i, j \in Docs(q, d) : i = j) => Docs(p, d) = {},
         Every \in Subjects(q.calls) => Every \in Subjects(p.calls)
  PROVE  DatumTrue(q, d)
<1>1. Every \notin Subjects(p.calls) /\ (Sole(p, d) => Agrees(p, d)) /\ Under(p, "insert", d)
  BY UnderAgrees DEF Under, Changing
<1>2. SUFFICES ASSUME Sole(q, d) PROVE Agrees(q, d)
  BY <1>1 DEF DatumTrue
<1>3. Docs(p, d) = {} /\ Copies(c, q.calls) <= 0 /\ Copies(c, q.calls) \in Nat
  BY <1>2, PdCallFacts DEF Sole
<1>4. ~Under(q, "insert", d)
  BY <1>3, PdCallFacts DEF Under
<1>5. Copies(c, p.calls) <= 1
  <2>1. Copies(c, p.calls) \in Nat /\ Copies(c, q.calls) = Copies(c, p.calls) - 1
    BY PdCallFacts DEF Takes
  <2> QED
    BY <1>3, <2>1
<1>6. Sole(p, d)
  BY <1>3, <1>5 DEF Sole
<1>7. PdCall("every", d) # c /\ PdCall("cancel", d) # c /\ PdCall("flag", d) # c
  BY PdCalls
<1>8. /\ Under(q, "every", d) <=> Under(p, "every", d)
      /\ Under(q, "cancel", d) <=> Under(p, "cancel", d)
      /\ Under(q, "flag", d) <=> Under(p, "flag", d)
  BY <1>7 DEF Under, Takes
<1>9. ~Under(q, "cancel", d) /\ ~Under(q, "flag", d) /\ (Under(q, "every", d) \/ d \in q.jobs)
  BY <1>1, <1>6, <1>8 DEF Agrees
<1>10. Idle(q, d) => ~Under(q, "every", d)
  BY DEF Idle, Changing
<1> QED
  BY <1>4, <1>9, <1>10 DEF Agrees

\* The job is cancelled; then the document is found.
LEMMA CancelDatum ==
  ASSUME NEW p \in PdState, NEW t \in PdState, NEW q \in PdState, NEW d \in Id, DatumTrue(p, d),
         NEW c \in DOMAIN p.calls, c = PdCall("cancel", d), d \notin Subjects(t.calls),
         Makes(q.calls, t.calls, {PdCall("flag", d)}), d \notin q.jobs,
         Every \in Subjects(q.calls) => Every \in Subjects(p.calls)
  PROVE  DatumTrue(q, d)
<1>1. Every \notin Subjects(p.calls)
  <2>1. Under(p, "cancel", d) /\ "cancel" \in Changing
    BY DEF Under, Changing
  <2> QED
    BY <2>1, UnderAgrees
<1>2. \A op \in Changing : PdCall(op, d) \notin DOMAIN t.calls
  BY PdCalls, PdCallFacts
<1>3. \A op \in Changing : Under(q, op, d) <=> PdCall(op, d) = PdCall("flag", d)
  BY <1>2 DEF Under, Makes
<1>4. Under(q, "flag", d) /\ ~Under(q, "every", d) /\ ~Under(q, "insert", d) /\ ~Under(q, "cancel", d)
  BY <1>3, PdCalls DEF Changing
<1>5. ~Idle(q, d)
  BY <1>4 DEF Idle, Changing
<1> QED
  BY <1>1, <1>4, <1>5 DEF DatumTrue, Agrees

\* The document of a datum whose job is cancelled is not collected any more.
LEMMA FlagDatum ==
  ASSUME NEW p \in PdState, NEW q \in PdState, NEW d \in Id, DatumTrue(p, d),
         NEW c \in DOMAIN p.calls, c = PdCall("flag", d), Takes(q.calls, p.calls, c),
         q.jobs = p.jobs, Docs(q, d) = Docs(p, d),
         (\A i, j \in Docs(p, d) : i = j) => d \notin Collected(q),
         Every \in Subjects(q.calls) => Every \in Subjects(p.calls)
  PROVE  DatumTrue(q, d)
<1>1. Every \notin Subjects(p.calls) /\ (Sole(p, d) => Agrees(p, d)) /\ Under(p, "flag", d)
  BY UnderAgrees DEF Under, Changing
<1>2. SUFFICES ASSUME Sole(q, d) PROVE Agrees(q, d)
  BY <1>1 DEF DatumTrue
<1>3. PdCall("every", d) # c /\ PdCall("insert", d) # c /\ PdCall("cancel", d) # c
  BY PdCalls
<1>4. Sole(p, d) /\ d \notin Collected(q)
  <2>1. Copies(PdCall("insert", d), p.calls) \in Nat
    BY PdCallFacts
  <2>2. Copies(PdCall("insert", d), q.calls) = Copies(PdCall("insert", d), p.calls)
    BY <1>3, <2>1 DEF Takes
  <2> QED
    BY <1>2, <2>2 DEF Sole
<1>5. /\ Under(q, "every", d) <=> Under(p, "every", d)
      /\ Under(q, "insert", d) <=> Under(p, "insert", d)
      /\ Under(q, "cancel", d) <=> Under(p, "cancel", d)
  BY <1>3 DEF Under, Takes
<1>6. ~Under(q, "every", d) /\ ~Under(q, "insert", d) /\ ~Under(q, "cancel", d) /\ d \notin q.jobs
  BY <1>1, <1>4, <1>5 DEF Agrees
<1> QED
  BY <1>4, <1>6 DEF Agrees

\* A call about one datum is taken.
LEMMA TakenTouches ==
  ASSUME NEW p \in PdState, NEW c \in DOMAIN p.calls, NEW d \in Id, c.id = d, NEW t, t = PdTaking(p, c)
  PROVE  Lives(p, t) /\ Touches(p, t, d)
<1>1. /\ t \in PdState /\ Takes(t.calls, p.calls, c) /\ t.phase = p.phase /\ t.listeners = p.listeners
      /\ t.defined = p.defined /\ t.jobs = p.jobs /\ t.list = p.list
  BY PdTakingFacts
<1>2. \A e : Copies(e, p.calls) \in Nat
  BY PdCallFacts
<1>3. \A e : e # c => Copies(e, t.calls) = Copies(e, p.calls)
  BY <1>1, <1>2 DEF Takes
<1>4. d # Every /\ PdCall("findAll", Every).id = Every
  BY PdCalls DEF Id, Every
<1>5. PdCall("findAll", Every) # c
  BY <1>4
<1>6. \A e : e.id # d => e # c
  OBVIOUS
<1>7. \A x : Docs(t, x) = Docs(p, x) /\ Collected(t) = Collected(p)
  BY <1>1 DEF Docs, Collected
<1>8. Lives(p, t)
  BY <1>1, <1>3, <1>5 DEF Lives, Takes
<1>9. Touches(p, t, d)
  BY <1>1, <1>3, <1>6, <1>7 DEF Touches
<1> QED
  BY <1>8, <1>9

\* A call that no live callback waits for leaves the datum out.
LEMMA DeadOut ==
  ASSUME NEW p \in PdState, NEW over, PdAlive(p, over), NEW c \in DOMAIN p.calls, p.phase # "down", c.id \notin over
  PROVE  c.live /\ c = PdCall(c.op, c.id)
<1>1. c.live /\ c \in PdOne
  BY PdCallFacts DEF PdAlive
<1> QED
  BY <1>1, PdCalls

\* A call about a datum is answered, and makes no other.
LEMMA DatumGood ==
  ASSUME NEW p, NEW over, PdGood(p, over), NEW c \in DOMAIN p.calls, c.id \in Id,
         NEW t, t = PdTaking(p, c), NEW q, q = PdExecute(t, c),
         c.op \in {"every", "insert", "flag", "store"} \/ (c.op = "cancel" /\ ~c.live),
         NEW more, more = over \cup Overtaken(t, q)
  PROVE  PdGood(q, more)
<1>1. p \in PdState /\ PdAlive(p, over) /\ DataTrue(p, over) /\ over \in SUBSET Nat
  BY DEF PdGood
<1>2. PICK d \in Id : c.id = d
  OBVIOUS
<1>3. /\ t \in PdState /\ Takes(t.calls, p.calls, c) /\ c \in PdOne /\ t.phase = p.phase
      /\ t.jobs = p.jobs /\ t.list = p.list
  BY <1>1, PdTakingFacts
<1>4. Lives(p, t) /\ Touches(p, t, d)
  BY <1>1, <1>2, TakenTouches
<1>5. Docs(t, d) = Docs(p, d) /\ Collected(t) = Collected(p)
  BY <1>3 DEF Docs, Collected
<1>6. SUFFICES /\ q \in PdState /\ AsBefore(t, q) /\ Touches(p, q, d)
               /\ p.phase # "down" /\ d \notin over => DatumTrue(q, d)
  <2>1. SUFFICES ASSUME q \in PdState, AsBefore(t, q), Touches(p, q, d), p.phase # "down" /\ d \notin over => DatumTrue(q, d)
                 PROVE  PdGood(q, more)
    OBVIOUS
  <2>2. Lives(p, q)
    BY <1>4, <2>1 DEF AsBefore, Lives
  <2>3. more \in SUBSET Nat /\ over \subseteq more
    BY <1>1, <1>3, <2>1, OvertakenType
  <2>4. p.phase # "down" /\ d \notin more => DatumTrue(q, d)
    BY <2>1, <2>3
  <2> QED
    BY <2>1, <2>2, <2>3, <2>4, TouchedGood
<1>7. ASSUME p.phase # "down", d \notin over
      PROVE  DatumTrue(p, d) /\ c = PdCall(c.op, d) /\ c.live
  BY <1>1, <1>2, <1>7, DeadOut DEF DataTrue
<1>8. ASSUME q \in PdState, AsBefore(t, q), Touches(p, q, d)
      PROVE  /\ Takes(q.calls, p.calls, c) /\ q.phase = p.phase
             /\ Every \in Subjects(q.calls) => Every \in Subjects(p.calls)
             /\ Every \in Subjects(p.calls) => Every \in Subjects(q.calls)
             /\ Purging(p) => Purging(q)
  BY <1>1, <1>3, <1>8, OthersKept DEF AsBefore
<1>9. CASE c.op = "every"
  <2>1. PICK J \in SUBSET Id : J = p.jobs \cup {d}
    BY <1>1, PdParts
  <2>2. q = [t EXCEPT !.jobs = J]
    BY <1>2, <1>3, <1>9, <2>1 DEF PdExecute
  <2>3. q \in PdState /\ AsBefore(t, q) /\ q.jobs = J /\ q.list = t.list
    BY <1>3, <2>2 DEF PdState, AsBefore
  <2>4. \A x : Docs(q, x) = Docs(t, x) /\ Collected(q) = Collected(t)
    BY <2>3 DEF Docs, Collected
  <2>5. Touches(p, q, d)
    BY <1>3, <1>4, <2>1, <2>3, <2>4 DEF Touches, AsBefore
  <2>6. p.phase # "down" /\ d \notin over => DatumTrue(q, d)
    BY <1>1, <1>3, <1>7, <1>8, <1>9, <2>1, <2>3, <2>5, EveryDatum
  <2> QED
    BY <2>3, <2>5, <2>6
<1>10. CASE c.op = "insert"
  <2>1. q = [t EXCEPT !.list = Append(@, [id |-> d, isCollected |-> TRUE])]
    BY <1>2, <1>10 DEF PdExecute
  <2>2. /\ q \in PdState /\ AsBefore(t, q) /\ q.jobs = t.jobs
        /\ \A x : x # d => Docs(q, x) = Docs(t, x) /\ (x \in Collected(q) <=> x \in Collected(t))
        /\ d \in Collected(q) /\ Docs(q, d) # {}
        /\ (\A i, j \in Docs(q, d) : i = j) => Docs(t, d) = {}
    BY <1>3, <2>1, EnlistFacts
  <2>3. Touches(p, q, d)
    BY <1>3, <1>4, <2>2 DEF Touches, AsBefore
  <2>4. p.phase # "down" /\ d \notin over => DatumTrue(q, d)
    BY <1>1, <1>3, <1>5, <1>7, <1>8, <1>10, <2>2, <2>3, InsertDatum
  <2> QED
    BY <2>2, <2>3, <2>4
<1>11. CASE c.op = "flag"
  <2>1. q = Unlist(t, d)
    BY <1>2, <1>11 DEF PdExecute
  <2>2. /\ q \in PdState /\ AsBefore(t, q) /\ q.jobs = t.jobs
        /\ \A x : Docs(q, x) = Docs(t, x)
        /\ \A x : x # d => (x \in Collected(q) <=> x \in Collected(t))
        /\ (\A i, j \in Docs(t, d) : i = j) => d \notin Collected(q)
    BY <1>3, <2>1, UnlistFacts
  <2>3. Touches(p, q, d)
    BY <1>3, <1>4, <2>2 DEF Touches, AsBefore
  <2>4. p.phase # "down" /\ d \notin over => DatumTrue(q, d)
    BY <1>1, <1>3, <1>5, <1>7, <1>8, <1>11, <2>2, <2>3, FlagDatum
  <2> QED
    BY <2>2, <2>3, <2>4
<1>12. CASE c.op = "store"
  <2>1. q = t
    BY <1>12 DEF PdExecute
  <2>2. q \in PdState /\ AsBefore(t, q) /\ Touches(p, q, d)
    BY <1>3, <1>4, <2>1 DEF AsBefore
  <2>3. Same(p, q, d)
    <3>1. \A op \in Changing : PdCall(op, d) # c
      BY <1>12, PdCalls DEF Changing
    <3>2. \A e : Copies(e, p.calls) \in Nat
      BY <1>1, PdCallFacts
    <3>3. \A op \in Changing : Copies(PdCall(op, d), q.calls) = Copies(PdCall(op, d), p.calls)
      BY <1>3, <2>1, <3>1, <3>2 DEF Takes
    <3> QED
      BY <1>3, <1>5, <2>1, <3>3 DEF Same
  <2>4. p.phase # "down" /\ d \notin over => DatumTrue(q, d)
    BY <1>1, <1>7, <1>8, <2>2, <2>3, KeptDatum
  <2> QED
    BY <2>2, <2>4
<1>13. CASE c.op = "cancel" /\ ~c.live
  <2>1. PICK J \in SUBSET Id : J = p.jobs \ {d}
    BY <1>1, PdParts
  <2>2. q = [t EXCEPT !.jobs = J]
    BY <1>2, <1>3, <1>13, <2>1 DEF PdExecute
  <2>3. q \in PdState /\ AsBefore(t, q) /\ q.jobs = J /\ q.list = t.list
    BY <1>3, <2>2 DEF PdState, AsBefore
  <2>4. \A x : Docs(q, x) = Docs(t, x) /\ Collected(q) = Collected(t)
    BY <2>3 DEF Docs, Collected
  <2>5. Touches(p, q, d)
    BY <1>3, <1>4, <2>1, <2>3, <2>4 DEF Touches, AsBefore
  <2>6. p.phase # "down" /\ d \notin over => FALSE
    BY <1>7, <1>13
  <2> QED
    BY <2>3, <2>5, <2>6
<1> QED
  BY <1>9, <1>10, <1>11, <1>12, <1>13

\* A cancellation is answered: the document is looked for.
LEMMA CancelGood ==
  ASSUME NEW p, NEW over, PdGood(p, over), NEW c \in DOMAIN p.calls, c.id \in Id, c.op = "cancel", c.live,
         NEW t, t = PdTaking(p, c), NEW q, q = PdExecute(t, c), NEW more, more = over \cup Overtaken(t, q)
  PROVE  PdGood(q, more)
<1>1. p \in PdState /\ PdAlive(p, over) /\ DataTrue(p, over) /\ over \in SUBSET Nat
  BY DEF PdGood
<1>2. PICK d \in Id : c.id = d
  OBVIOUS
<1>3. /\ t \in PdState /\ Takes(t.calls, p.calls, c) /\ c \in PdOne /\ t.phase = p.phase
      /\ t.jobs = p.jobs /\ t.list = p.list
  BY <1>1, PdTakingFacts
<1>4. Lives(p, t) /\ Touches(p, t, d)
  BY <1>1, <1>2, TakenTouches
<1>5. PICK J \in SUBSET Id : J = p.jobs \ {d}
  BY <1>1, PdParts
<1>6. PICK u : u = [t EXCEPT !.jobs = J]
  OBVIOUS
<1>7. u \in PdState /\ AsBefore(t, u) /\ u.jobs = J /\ u.list = t.list
  BY <1>3, <1>6 DEF PdState, AsBefore
<1>8. PICK C : C = {PdCall("flag", d)}
  OBVIOUS
<1>9. C \in SUBSET PdOne
  BY <1>8, PdCalls DEF Changing
<1>10. q = PdStart(u, ByEach(1, C))
  <2>1. q = PdStart([t EXCEPT !.jobs = @ \ {c.id}], Once(PdCall("flag", c.id)))
    BY DEF PdExecute
  <2> QED
    BY <1>2, <1>3, <1>5, <1>6, <1>8, <2>1, OnceEach
<1>11. /\ q \in PdState /\ Adds(q.calls, t.calls, C, 1) /\ q.phase = p.phase /\ q.listeners = u.listeners
       /\ q.defined = u.defined /\ q.jobs = J /\ q.list = p.list
  BY <1>3, <1>7, <1>9, <1>10, PdStarted DEF AsBefore
<1>12. more \in SUBSET Nat /\ over \subseteq more
  BY <1>1, <1>3, <1>11, OvertakenType
<1>13. \A e : Copies(e, t.calls) \in Nat
  BY <1>3, PdCallFacts
<1>14. Makes(q.calls, t.calls, C)
  BY <1>11, <1>13 DEF Adds, Makes
<1>15. Minds(C, t, more)
  BY <1>3, <1>11, <1>14, NewMinded
<1>16. p.phase # "down"
  BY <1>1 DEF PdAlive
<1>17. Lives(p, q)
  <2>1. PdCall("findAll", Every) \notin C /\ \A e \in C : e.live
    BY <1>8, PdCalls
  <2> QED
    BY <1>4, <1>7, <1>11, <1>14, <1>16, <2>1 DEF Lives, AsBefore, Makes
<1>18. Touches(p, q, d)
  <2>1. \A e \in C : e.id = d
    BY <1>8, PdCalls
  <2>2. \A e : e.id # d => Copies(e, q.calls) = Copies(e, p.calls)
    BY <1>4, <1>14, <2>1 DEF Makes, Touches
  <2>3. \A x : Docs(q, x) = Docs(p, x) /\ Collected(q) = Collected(p)
    BY <1>11 DEF Docs, Collected
  <2> QED
    BY <1>5, <1>11, <2>2, <2>3 DEF Touches
<1>19. d \notin more => DatumTrue(q, d)
  <2>1. SUFFICES ASSUME d \notin more PROVE DatumTrue(q, d)
    OBVIOUS
  <2>2. DatumTrue(p, d) /\ c = PdCall("cancel", d)
    BY <1>1, <1>2, <1>12, <1>16, <2>1, DeadOut DEF DataTrue
  <2>3. d \notin Subjects(t.calls)
    BY <1>8, <1>15, <2>1, PdCalls DEF Minds, Changing
  <2>4. Every \in Subjects(q.calls) => Every \in Subjects(p.calls)
    BY <1>1, <1>11, <1>18, OthersKept
  <2>5. d \notin q.jobs
    BY <1>5, <1>11
  <2> QED
    BY <1>1, <1>3, <1>8, <1>11, <1>14, <2>2, <2>3, <2>4, <2>5, CancelDatum
<1> QED
  BY <1>11, <1>12, <1>17, <1>18, <1>19, TouchedGood

\* A call about all data is answered, or was never made.
LEMMA EveryGood ==
  ASSUME NEW p, NEW over, PdGood(p, over), NEW c \in DOMAIN p.calls, c.id = Every, c # PdCall("findAll", Every),
         NEW t, t = PdTaking(p, c), NEW q, q = [t EXCEPT !.jobs = {}] \/ (q = t /\ c # PdCall("purge", Every)),
         NEW more \in SUBSET Nat, over \subseteq more
  PROVE  q \in PdState /\ PdGood(q, more)
<1>1. p \in PdState /\ PdAlive(p, over) /\ DataTrue(p, over)
  BY DEF PdGood
<1>2. /\ t \in PdState /\ Takes(t.calls, p.calls, c) /\ t.phase = p.phase /\ t.listeners = p.listeners
      /\ t.defined = p.defined /\ t.jobs = p.jobs /\ t.list = p.list
  BY <1>1, PdTakingFacts
<1>3. q \in PdState /\ AsBefore(t, q) /\ q.list = p.list /\ (q.jobs = {} \/ (q.jobs = p.jobs /\ c # PdCall("purge", Every)))
  BY <1>2 DEF PdState, AsBefore
<1>4. Lives(p, q)
  <2>1. Copies(PdCall("findAll", Every), p.calls) \in Nat
    BY <1>1, PdCallFacts
  <2> QED
    BY <1>2, <1>3, <2>1 DEF AsBefore, Lives, Takes
<1>5. PdAlive(q, more)
  BY <1>1, <1>3, <1>4, AliveKept
<1>6. ASSUME q.phase # "down", NEW id \in Id \ more PROVE DatumTrue(q, id)
  <2>1. DatumTrue(p, id) /\ q.phase = p.phase /\ Takes(q.calls, p.calls, c)
    BY <1>1, <1>2, <1>3, <1>6 DEF DataTrue, AsBefore
  <2> QED
    BY <1>1, <1>3, <2>1, EveryTaken
<1> QED
  BY <1>3, <1>5, <1>6 DEF PdGood, DataTrue

\* What the database answers ...
LEMMA PdAnswerHolds == \A c \in DOMAIN pd.calls : PdInv /\ PdAnswer(c) => PdInv'
<1>1. SUFFICES ASSUME NEW c \in DOMAIN pd.calls, PdInv, PdAnswer(c) PROVE PdInv'
  OBVIOUS
<1>2. pd \in PdState /\ PdGood(pd, pdNoted.overtaken) /\ pdNoted \in PdNotes /\ pdNoted.overtaken \in SUBSET Nat
  BY <1>1 DEF PdInv, PdGood
<1>3. PICK t : t = PdTaking(pd, c)
  OBVIOUS
<1>4. PICK more : more = pdNoted.overtaken \cup Overtaken(t, pd')
  OBVIOUS
<1>5. pd' = PdExecute(t, c) /\ pdNoted' = [pdNoted EXCEPT !.overtaken = more]
  BY <1>1, <1>3, <1>4 DEF PdAnswer, PdTaking
<1>6. t \in PdState /\ c \in PdOne
  BY <1>2, <1>3, PdTakingFacts
<1>7. PdGood(pd', more)
  <2>1. CASE c.id \in Id
    <3>1. c.op \in {"every", "insert", "cancel", "flag", "store"} /\ c.live \in BOOLEAN
      BY <1>6, <2>1, PdCalls DEF Changing, Id, Every
    <3>2. CASE c.op = "cancel" /\ c.live
      BY <1>2, <1>3, <1>4, <1>5, <2>1, <3>2, CancelGood
    <3>3. CASE ~(c.op = "cancel" /\ c.live)
      BY <1>2, <1>3, <1>4, <1>5, <2>1, <3>1, <3>3, DatumGood
    <3> QED
      BY <3>2, <3>3
  <2>2. CASE c = PdCall("findAll", Every)
    <3>1. pd' = Reschedule(t)
      BY <1>5, <2>2, PdCalls DEF PdExecute
    <3> QED
      BY <1>2, <1>3, <1>4, <2>2, <3>1, FoundList
  <2>3. CASE c.id = Every /\ c # PdCall("findAll", Every)
    <3>1. c.op \in {"purge", "findAll"} /\ (c.op = "findAll" => ~c.live)
      BY <1>6, <2>3, PdCalls
    <3>2. pd' = [t EXCEPT !.jobs = {}] \/ (pd' = t /\ c # PdCall("purge", Every))
      BY <1>5, <3>1, PdCalls DEF PdExecute
    <3>3. pd' \in PdState
      BY <1>2, <1>3, <2>3, <3>2, EveryGood
    <3>4. more \in SUBSET Nat /\ pdNoted.overtaken \subseteq more
      BY <1>2, <1>4, <1>6, <3>3, OvertakenType
    <3> QED
      BY <1>2, <1>3, <2>3, <3>2, <3>4, EveryGood
  <2> QED
    BY <1>6, <2>1, <2>2, <2>3, PdCalls
<1>8. more \in SUBSET Nat
  BY <1>7 DEF PdGood
<1>9. pdNoted' \in PdNotes /\ pdNoted'.overtaken = more
  BY <1>2, <1>5, <1>8 DEF PdNotes
<1> QED
  BY <1>7, <1>9 DEF PdInv

\* ... or never executes.
LEMMA PdForgottenHolds == \A c \in DOMAIN pd.calls : PdInv /\ PdForgotten(c) => PdInv'
<1>1. SUFFICES ASSUME NEW c \in DOMAIN pd.calls, PdInv, PdForgotten(c) PROVE PdInv'
  OBVIOUS
<1>2. /\ pd \in PdState /\ PdGood(pd, pdNoted.overtaken) /\ PdAlive(pd, pdNoted.overtaken)
      /\ pdNoted \in PdNotes /\ pdNoted.overtaken \in SUBSET Nat
  BY <1>1 DEF PdInv, PdGood
<1>3. pd' = PdTaking(pd, c) /\ ~c.live /\ pdNoted' = pdNoted
  BY <1>1 DEF PdForgotten, PdTaking
<1>4. pd' \in PdState /\ c \in PdOne
  BY <1>2, <1>3, PdTakingFacts
<1>5. PdGood(pd', pdNoted.overtaken)
  <2>1. CASE c.id = Every
    <3>1. c # PdCall("findAll", Every) /\ c # PdCall("purge", Every)
      BY <1>3, PdCalls
    <3> QED
      BY <1>2, <1>3, <2>1, <3>1, EveryGood
  <2>2. CASE c.id # Every
    <3>1. PICK d \in Id : c.id = d
      BY <1>4, <2>2, PdCalls
    <3>2. Lives(pd, pd') /\ Touches(pd, pd', d)
      BY <1>2, <1>3, <3>1, TakenTouches
    <3>3. pd.phase # "down" /\ d \notin pdNoted.overtaken => FALSE
      BY <1>2, <1>3, <3>1 DEF PdAlive
    <3> QED
      BY <1>2, <1>4, <3>2, <3>3, TouchedGood
  <2> QED
    BY <2>1, <2>2
<1> QED
  BY <1>2, <1>3, <1>5 DEF PdInv

\* Every step of the collector keeps its invariant, and it starts with it.
LEMMA PdNextHolds == PdInv /\ PDNext => PdInv'
<1>1. SUFFICES ASSUME PdInv, PDNext PROVE PdInv'
  OBVIOUS
<1>2. CASE PdBoot
  BY <1>1, <1>2, PdBootHolds
<1>3. CASE PdOnConnect \/ PdOnOffline
  BY <1>1, <1>3, PdConnectionHolds
<1>4. CASE AskImport \/ AskRemove \/ AskMalformed
  BY <1>1, <1>4, AskHolds
<1>5. CASE PdReceive
  BY <1>1, <1>5, PdReceiveHolds
<1>6. CASE PdCrash
  BY <1>1, <1>6, PdCrashHolds
<1>7. CASE \E c \in BagToSet(pd.calls) : PdAnswer(c) \/ PdForgotten(c)
  BY <1>1, <1>7, PdAnswerHolds, PdForgottenHolds DEF BagToSet
<1>8. CASE \E id \in pd.jobs : Collect(id)
  BY <1>1, <1>8, CollectHolds
<1> QED
  BY <1>1, <1>2, <1>3, <1>4, <1>5, <1>6, <1>7, <1>8 DEF PDNext

LEMMA PdInitHolds == PDInit => PdInv
<1>1. SUFFICES ASSUME PDInit PROVE PdInv
  OBVIOUS
<1>2. EmptyBag \in BagsOf(PdOne) /\ DOMAIN EmptyBag = {} /\ Copies(PdCall("findAll", Every), EmptyBag) = 0
  BY NoCalls
<1>3. PICK b : b = EmptyBag
  OBVIOUS
<1>4. pd = [phase |-> "down", listeners |-> 0, inbox |-> <<>>, clock |-> 1,
            defined |-> {}, calls |-> b, jobs |-> {}, list |-> <<>>]
  BY <1>1, <1>3 DEF PDInit
<1>5. pd \in PdState /\ pd.phase = "down" /\ pd.defined = {} /\ pd.calls = b
  <2>1. <<>> \in Seq(Asked) /\ <<>> \in Seq(Doc) /\ 1 \in Id
    BY DEF Id
  <2> QED
    BY <1>2, <1>3, <1>4, <2>1 DEF PdState
<1>6. pdNoted \in PdNotes /\ pdNoted.overtaken = {}
  BY <1>1 DEF PDInit, PdNotes
<1>7. PdAlive(pd, {})
  BY <1>2, <1>3, <1>5 DEF PdAlive
<1> QED
  BY <1>5, <1>6, <1>7 DEF PdInv, PdGood, DataTrue

\* What the collector's invariant says when nothing is under way.
LEMMA HoldsConsistent == PdInv => Consistent
<1>1. SUFFICES ASSUME PdInv, pd.phase \in {"offline", "online"}, pd.calls = EmptyBag,
                      NEW id \in (pd.jobs \cup Ids(pd)) \ pdNoted.overtaken, Cardinality(Docs(pd, id)) <= 1
               PROVE  id \in pd.jobs <=> id \in Collected(pd)
  BY DEF Consistent
<1>2. pd \in PdState /\ DataTrue(pd, pdNoted.overtaken) /\ pd.list \in Seq(Doc)
  BY <1>1, PdParts DEF PdInv, PdGood
<1>3. id \in Id
  <2>1. CASE id \in pd.jobs
    BY <1>2, <2>1, PdParts
  <2>2. CASE id \in Ids(pd)
    <3>1. PICK i \in DOMAIN pd.list : id = pd.list[i].id
      BY <2>2 DEF Ids
    <3>2. pd.list[i] \in Doc
      BY <1>2
    <3> QED
      BY <3>1, <3>2 DEF Doc
  <2> QED
    BY <1>1, <2>1, <2>2
<1>4. DatumTrue(pd, id)
  BY <1>1, <1>2, <1>3 DEF DataTrue
<1>5. DOMAIN pd.calls = {} /\ \A c : Copies(c, pd.calls) = 0
  BY <1>1, NoCalls
<1>6. Every \notin Subjects(pd.calls) /\ Idle(pd, id)
  BY <1>2, <1>5, PdCallFacts DEF Idle, Under
<1>7. \A i, j \in Docs(pd, id) : i = j
  <2>1. SUFFICES ASSUME NEW i \in Docs(pd, id), NEW j \in Docs(pd, id), i # j PROVE FALSE
    OBVIOUS
  <2>2. PICK D : D = Docs(pd, id)
    OBVIOUS
  <2>3. PICK n \in Nat : DOMAIN pd.list = 1..n
    BY <1>2
  <2>4. D \subseteq 1..n /\ IsFiniteSet(1..n)
    BY <2>2, <2>3, FS_Interval DEF Docs
  <2>5. IsFiniteSet(D)
    BY <2>4, FS_Subset
  <2>6. {i, j} \subseteq D
    BY <2>1, <2>2
  <2>7. Cardinality({i, j}) = 2
    BY <2>1, PairSize
  <2>8. Cardinality({i, j}) <= Cardinality(D) /\ Cardinality(D) \in Nat
    BY <2>5, <2>6, FS_Subset, FS_CardinalityType
  <2> QED
    BY <1>1, <2>2, <2>7, <2>8
<1>8. Sole(pd, id)
  BY <1>5, <1>7 DEF Sole
<1> QED
  BY <1>4, <1>6, <1>8 DEF DatumTrue, Agrees

------------------------------------------------------------------------------
\* Of both services: the one that is not looked at takes no step.
Inv == ScInv /\ PdInv

LEMMA InvAlways == Spec => []Inv
<1>1. Init => Inv
  BY ScInitHolds, PdInitHolds DEF Init, Inv
<1>2. Inv /\ [Next]_vars => Inv'
  <2>1. SUFFICES ASSUME Inv, [Next]_vars PROVE Inv'
    OBVIOUS
  <2>2. ASSUME UNCHANGED scVars PROVE ScInv'
    BY <2>1, <2>2 DEF Inv, ScInv, ScTyped, scVars
  <2>3. ASSUME UNCHANGED pdVars PROVE PdInv'
    BY <2>1, <2>3 DEF Inv, PdInv, pdVars
  <2>4. CASE SCNext /\ UNCHANGED pdVars
    BY <2>1, <2>3, <2>4, ScNextHolds DEF Inv
  <2>5. CASE PDNext /\ UNCHANGED scVars
    BY <2>1, <2>2, <2>5, PdNextHolds DEF Inv
  <2>6. CASE UNCHANGED vars
    BY <2>2, <2>3, <2>6 DEF Inv, vars
  <2> QED
    BY <2>1, <2>4, <2>5, <2>6 DEF Next
<1> QED
  BY <1>1, <1>2, PTL DEF Spec

\* A datum of the gateway that one listener received is in the database, or in a call that will put
\* it there, at most once (SC/server.js:77): for all messages, connections, crashes and orders of
\* the answers.
THEOREM DataStoredOnce == Spec => []StoredOnce
<1>1. Inv => StoredOnce
  BY HoldsStoredOnce DEF Inv
<1> QED
  BY <1>1, InvAlways, PTL

\* A device that registered and whose calls did not overlap is in the list once, with the value it
\* registered last (SC/server.js:171, 205), whatever the list held when the process started.
THEOREM DevicesListed == Spec => []ListTrue
<1>1. Inv => ListTrue
  BY HoldsListTrue DEF Inv
<1> QED
  BY <1>1, InvAlways, PTL

\* When nothing is under way the schedule is what the list says (PD/pdCollector.js:269), except of
\* the data that calls overtook each other for: for any number of imports, removals and crashes.
THEOREM ScheduleConsistent == Spec => []Consistent
<1>1. Inv => Consistent
  BY HoldsConsistent DEF Inv
<1> QED
  BY <1>1, InvAlways, PTL
================================================================================

--------------------------- MODULE Sessions_proofs ---------------------------
(***************************************************************************)
(* Contexts are counted, owned and freed right, for every set of           *)
(* addresses, of identifiers and of files, every limit, and any number of  *)
(* connections, takeovers, expiries and reloads.                           *)
(*                                                                         *)
(* The argument: DoDisconnect is the only way in which a context gets on   *)
(* the disused list, and it is called only for contexts that are not on it *)
(* (Closable).  Takeover, expiry and the closing of a websocket first put  *)
(* a context into a state that no other step leaves behind; DoDisconnect   *)
(* ends that.  The loops over lists of contexts keep what each of their    *)
(* steps keeps, because no list names a context twice.                     *)
(*                                                                         *)
(* The second half shows that the broker keeps what SessionService         *)
(* promises.  For that IInv is strengthened by Calm: no two contexts have  *)
(* one will, one that is new has neither messages nor a lost queue, rights *)
(* are those that the lists give its identifier, and a context whose end   *)
(* has been dealt with has no will.  Sess(d) is the map of sessions of a   *)
(* database in the middle of a handler, so that each function on contexts  *)
(* is described once by what it leaves of them.                            *)
(***************************************************************************)
EXTENDS Sessions, Lists_proofs

------------------------------------------------------------------------------
\* Types.

States == {"new", "connected", "disconnecting", "disconnect_ws", "disconnected", "expiring"}

Ctx == [kind : {"tcp", "ws"}, state : States, open : BOOLEAN, wsi : BOOLEAN, listener : BOOLEAN,
        id : Id \cup {NoId}, clean_session : BOOLEAN, will : Nat, msgs : Seq(Nat),
        deaf : BOOLEAN, sub : BOOLEAN, acl : SUBSET Right, timed : BOOLEAN]

Heaps  == UNION {[X -> Ctx] : X \in SUBSET Context}
Rights == UNION {[X -> SUBSET Right] : X \in SUBSET (Id \cup {NoId})}

Db == [heap : Heaps, by_id : Seq(Context), ll_for_free : Seq(Context), leaves : Seq(Context),
       client_count : Int, made : Nat, published : Seq(Nat),
       unpwd : Seq(PwLine), acl_list : Rights, acl_patterns : SUBSET Right]

LEMMA HeapType ==
  ASSUME NEW h
  PROVE  h \in Heaps <=> DOMAIN h \in SUBSET Context /\ h \in [DOMAIN h -> Ctx]
  BY DEF Heaps

\* A context is changed.
LEMMA HeapExcept ==
  ASSUME NEW h \in Heaps, NEW c \in DOMAIN h, NEW y \in Ctx
  PROVE  /\ [h EXCEPT ![c] = y] \in Heaps
         /\ DOMAIN [h EXCEPT ![c] = y] = DOMAIN h
         /\ [h EXCEPT ![c] = y][c] = y
         /\ \A e \in DOMAIN h : e # c => [h EXCEPT ![c] = y][e] = h[e]
<1>1. DOMAIN h \in SUBSET Context /\ h \in [DOMAIN h -> Ctx]
  BY HeapType
<1>2. [h EXCEPT ![c] = y] \in [DOMAIN h -> Ctx]
  BY <1>1
<1>3. DOMAIN [h EXCEPT ![c] = y] = DOMAIN h
  BY <1>1
<1>4. [h EXCEPT ![c] = y] \in Heaps
  BY <1>1, <1>2, <1>3, HeapType
<1> QED
  BY <1>1, <1>3, <1>4

\* What a step on one context leaves of the others, and of every context when only its
\* messages or rights change.
Like(x, y) ==
  /\ y.kind = x.kind /\ y.state = x.state /\ y.open = x.open /\ y.wsi = x.wsi
  /\ y.listener = x.listener /\ y.id = x.id /\ y.clean_session = x.clean_session
  /\ y.will = x.will /\ y.sub = x.sub

Others(d, k, c) ==
  /\ DOMAIN k.heap = DOMAIN d.heap
  /\ \A e \in DOMAIN d.heap : e # c => Like(d.heap[e], k.heap[e])

LEMMA WithMsgs ==
  ASSUME NEW x \in Ctx, NEW s \in Seq(Nat)
  PROVE  [x EXCEPT !.msgs = s] \in Ctx /\ Like(x, [x EXCEPT !.msgs = s])
  BY DEF Ctx, Like

\* mqtt3_db_messages_easy_queue
LEMMA QueueFacts ==
  ASSUME NEW d \in Db, NEW w \in Nat, NEW k, k = EasyQueue(d, w)
  PROVE  /\ k \in Db /\ DOMAIN k.heap = DOMAIN d.heap
         /\ \A e \in DOMAIN d.heap : Like(d.heap[e], k.heap[e])
         /\ k.by_id = d.by_id /\ k.ll_for_free = d.ll_for_free /\ k.leaves = d.leaves
         /\ k.client_count = d.client_count /\ k.made = d.made
<1> DEFINE Hears(c) == c \in Range(d.leaves) /\ AclCheck(d, c, "read") /\ ~d.heap[c].deaf
           h == [c \in DOMAIN d.heap |-> IF Hears(c) THEN [d.heap[c] EXCEPT !.msgs = Append(@, w)]
                                         ELSE d.heap[c]]
<1>1. k = [d EXCEPT !.published = Append(d.published, w), !.heap = h]
  BY DEF EasyQueue, Db
<1>2. DOMAIN d.heap \in SUBSET Context /\ d.heap \in [DOMAIN d.heap -> Ctx]
  BY HeapType DEF Db
<1>3. ASSUME NEW c \in DOMAIN d.heap
      PROVE  h[c] \in Ctx /\ Like(d.heap[c], h[c])
  <2>1. d.heap[c] \in Ctx
    BY <1>2
  <2>2. [d.heap[c] EXCEPT !.msgs = Append(@, w)] \in Ctx
        /\ Like(d.heap[c], [d.heap[c] EXCEPT !.msgs = Append(@, w)])
    <3>1. Append(d.heap[c].msgs, w) \in Seq(Nat)
      BY <2>1 DEF Ctx
    <3> QED
      BY <2>1, <3>1, WithMsgs
  <2>3. Like(d.heap[c], d.heap[c])
    BY DEF Like
  <2> HIDE DEF Hears
  <2> QED
    BY <2>1, <2>2, <2>3
<1>4. h \in Heaps
  <2>1. DOMAIN h = DOMAIN d.heap /\ h \in [DOMAIN d.heap -> Ctx]
    BY <1>3
  <2> HIDE DEF h
  <2> QED
    BY <1>2, <2>1, HeapType
<1>5. DOMAIN h = DOMAIN d.heap
  OBVIOUS
<1> HIDE DEF h
<1>6. Append(d.published, w) \in Seq(Nat)
  BY DEF Db
<1> QED
  BY <1>1, <1>3, <1>4, <1>5, <1>6 DEF Db
\* The rest of the database is as it was, but for what is published.
SameLists(d, k) ==
  /\ k.by_id = d.by_id /\ k.ll_for_free = d.ll_for_free /\ k.leaves = d.leaves
  /\ k.made = d.made
SameFiles(d, k) ==
  k.unpwd = d.unpwd /\ k.acl_list = d.acl_list /\ k.acl_patterns = d.acl_patterns

LEMMA LikeSame ==
  ASSUME NEW x
  PROVE  Like(x, x)
  BY DEF Like

LEMMA ContextType ==
  ASSUME NEW d \in Db, NEW c \in DOMAIN d.heap
  PROVE  d.heap[c] \in Ctx /\ d.heap \in Heaps /\ c \in Context
  BY HeapType DEF Db

\* mosquitto__socket_close
LEMMA CloseFacts ==
  ASSUME NEW d \in Db, NEW c \in DOMAIN d.heap, NEW x, x = d.heap[c],
         NEW k, k = SocketClose(d, c), NEW y, y = k.heap[c]
  PROVE  /\ k \in Db /\ Others(d, k, c) /\ SameLists(d, k) /\ SameFiles(d, k)
         /\ k.client_count = d.client_count - (IF x.listener THEN 1 ELSE 0)
         /\ y.kind = x.kind /\ ~y.open /\ y.wsi = x.wsi /\ ~y.listener /\ y.id = x.id
         /\ y.clean_session = x.clean_session /\ y.will = x.will /\ y.sub = x.sub
         /\ y.state = x.state \/ (x.kind = "ws" /\ x.open /\ y.state = "disconnect_ws")
<1> DEFINE s == IF x.kind = "ws" /\ x.open /\ x.state # "disconnecting" THEN "disconnect_ws" ELSE x.state
           z == [x EXCEPT !.state = s, !.open = FALSE, !.listener = FALSE]
           h == [d.heap EXCEPT ![c] = z]
           n == d.client_count - (IF x.listener THEN 1 ELSE 0)
<1>1. x \in Ctx /\ d.heap \in Heaps
  BY ContextType
<1>2. s \in States
  BY <1>1 DEF Ctx, States
<1>3. k = [d EXCEPT !.heap = h, !.client_count = n]
  <2>1. k = [d EXCEPT !.heap[c].state = s, !.heap[c].open = FALSE, !.heap[c].listener = FALSE,
                      !.client_count = n]
    BY DEF SocketClose
  <2> HIDE DEF s, n
  <2>2. h = [d.heap EXCEPT ![c].state = s, ![c].open = FALSE, ![c].listener = FALSE]
    BY <1>1, HeapType
  <2> HIDE DEF h
  <2> QED
    BY <2>1, <2>2 DEF Db
<1>4. s = x.state \/ (x.kind = "ws" /\ x.open /\ s = "disconnect_ws")
  OBVIOUS
<1> HIDE DEF s
<1>5. z \in Ctx /\ Like([x EXCEPT !.state = s, !.open = FALSE, !.listener = FALSE], z)
      /\ z.kind = x.kind /\ z.open = FALSE /\ z.wsi = x.wsi /\ z.listener = FALSE /\ z.id = x.id
      /\ z.clean_session = x.clean_session /\ z.will = x.will /\ z.sub = x.sub /\ z.state = s
  BY <1>1, <1>2, LikeSame DEF Ctx
<1> HIDE DEF z
<1>6. /\ h \in Heaps /\ DOMAIN h = DOMAIN d.heap /\ h[c] = z
      /\ \A e \in DOMAIN d.heap : e # c => h[e] = d.heap[e]
  BY <1>1, <1>5, HeapExcept
<1> HIDE DEF h
<1>7. n \in Int
  BY DEF Db
<1> HIDE DEF n
<1>8. k \in Db /\ k.heap = h /\ k.client_count = n /\ SameLists(d, k) /\ SameFiles(d, k)
  BY <1>3, <1>6, <1>7 DEF Db, SameLists, SameFiles
<1>9. Others(d, k, c)
  BY <1>6, <1>8, LikeSame DEF Others
<1>10. y = z
  BY <1>6, <1>8
<1> QED
  BY <1>4, <1>5, <1>8, <1>9, <1>10 DEF n
\* One context is changed, and nothing else.
LEMMA AlterFacts ==
  ASSUME NEW d \in Db, NEW c \in DOMAIN d.heap, NEW z \in Ctx,
         NEW k, k = [d EXCEPT !.heap = [d.heap EXCEPT ![c] = z]]
  PROVE  /\ k \in Db /\ Others(d, k, c) /\ SameLists(d, k) /\ SameFiles(d, k)
         /\ k.client_count = d.client_count /\ k.heap[c] = z /\ DOMAIN k.heap = DOMAIN d.heap
<1> DEFINE h == [d.heap EXCEPT ![c] = z]
<1>1. /\ h \in Heaps /\ DOMAIN h = DOMAIN d.heap /\ h[c] = z
      /\ \A e \in DOMAIN d.heap : e # c => h[e] = d.heap[e]
  BY ContextType, HeapExcept
<1>2. k = [d EXCEPT !.heap = h]
  OBVIOUS
<1> HIDE DEF h
<1>3. k \in Db /\ k.heap = h /\ SameLists(d, k) /\ SameFiles(d, k) /\ k.client_count = d.client_count
  BY <1>1, <1>2 DEF Db, SameLists, SameFiles
<1> QED
  BY <1>1, <1>3, LikeSame DEF Others

LEMMA LikeTransitive ==
  ASSUME NEW x, NEW y, NEW z, Like(x, y), Like(y, z)
  PROVE  Like(x, z)
  BY DEF Like

\* mqtt3_context_disconnect
LEMMA DisconnectFacts ==
  ASSUME NEW d \in Db, NEW c \in DOMAIN d.heap, NEW x, x = d.heap[c],
         NEW k, k = ContextDisconnect(d, c), NEW y, y = k.heap[c]
  PROVE  /\ k \in Db /\ Others(d, k, c) /\ SameLists(d, k) /\ SameFiles(d, k)
         /\ k.client_count = d.client_count - (IF x.listener THEN 1 ELSE 0)
         /\ y.kind = x.kind /\ ~y.open /\ y.wsi = x.wsi /\ ~y.listener /\ y.id = x.id
         /\ y.clean_session = x.clean_session /\ y.will = 0 /\ y.sub = x.sub
         /\ y.state = x.state \/ (x.kind = "ws" /\ x.open /\ y.state = "disconnect_ws")
<1> DEFINE d1 == IF x.state # "disconnecting" /\ x.will # 0 /\ AclCheck(d, c, "write")
                 THEN EasyQueue(d, x.will) ELSE d
<1>1. x \in Ctx /\ x.will \in Nat
  BY ContextType DEF Ctx
<1>2. /\ d1 \in Db /\ DOMAIN d1.heap = DOMAIN d.heap
      /\ \A e \in DOMAIN d.heap : Like(d.heap[e], d1.heap[e])
      /\ SameLists(d, d1) /\ SameFiles(d, d1) /\ d1.client_count = d.client_count
  <2>1. CASE d1 = d
    BY <2>1, LikeSame DEF SameLists, SameFiles
  <2>2. CASE d1 = EasyQueue(d, x.will)
    <3>1. SameFiles(d, EasyQueue(d, x.will))
      BY DEF EasyQueue, SameFiles, Db
    <3> HIDE DEF d1
    <3> QED
      BY <1>1, <2>2, <3>1, QueueFacts DEF SameLists
  <2> QED
    BY <2>1, <2>2
<1> DEFINE z == [d1.heap[c] EXCEPT !.will = 0, !.timed = TRUE]
           d2 == [d1 EXCEPT !.heap = [d1.heap EXCEPT ![c] = z]]
<1>3. k = SocketClose(d2, c)
  <2>1. k = SocketClose([d1 EXCEPT !.heap[c].will = 0, !.heap[c].timed = TRUE], c)
    BY DEF ContextDisconnect
  <2>2. [d1.heap EXCEPT ![c].will = 0, ![c].timed = TRUE] = [d1.heap EXCEPT ![c] = z]
    BY <1>2, HeapType DEF Db
  <2>3. [d1 EXCEPT !.heap[c].will = 0, !.heap[c].timed = TRUE] = d2
    BY <1>2, <2>2 DEF Db
  <2> QED
    BY <2>1, <2>3
<1>4. d1.heap[c] \in Ctx /\ c \in DOMAIN d1.heap
  BY <1>2, ContextType
<1> HIDE DEF d1
<1>5. z \in Ctx /\ z.will = 0 /\ z.kind = d1.heap[c].kind /\ z.state = d1.heap[c].state
      /\ z.open = d1.heap[c].open /\ z.wsi = d1.heap[c].wsi /\ z.listener = d1.heap[c].listener
      /\ z.id = d1.heap[c].id /\ z.clean_session = d1.heap[c].clean_session
      /\ z.sub = d1.heap[c].sub
  BY <1>4 DEF Ctx
<1> HIDE DEF z
<1>6. /\ d2 \in Db /\ Others(d1, d2, c) /\ SameLists(d1, d2) /\ SameFiles(d1, d2)
      /\ d2.client_count = d1.client_count /\ d2.heap[c] = z /\ DOMAIN d2.heap = DOMAIN d1.heap
  BY <1>2, <1>4, <1>5, AlterFacts
<1> HIDE DEF d2
<1>7. /\ k \in Db /\ Others(d2, k, c) /\ SameLists(d2, k) /\ SameFiles(d2, k)
      /\ k.client_count = d2.client_count - (IF z.listener THEN 1 ELSE 0)
      /\ y.kind = z.kind /\ ~y.open /\ y.wsi = z.wsi /\ ~y.listener /\ y.id = z.id
      /\ y.clean_session = z.clean_session /\ y.will = z.will /\ y.sub = z.sub
      /\ y.state = z.state \/ (z.kind = "ws" /\ z.open /\ y.state = "disconnect_ws")
  BY <1>3, <1>4, <1>6, CloseFacts
<1>8. /\ z.kind = x.kind /\ z.open = x.open /\ z.wsi = x.wsi /\ z.listener = x.listener
      /\ z.id = x.id /\ z.clean_session = x.clean_session /\ z.sub = x.sub /\ z.state = x.state
  BY <1>2, <1>5 DEF Like
<1>9. Others(d, k, c)
  <2>1. DOMAIN k.heap = DOMAIN d.heap
    BY <1>2, <1>6, <1>7 DEF Others
  <2>2. ASSUME NEW e \in DOMAIN d.heap, e # c
        PROVE  Like(d.heap[e], k.heap[e])
    <3>1. Like(d.heap[e], d1.heap[e]) /\ Like(d1.heap[e], d2.heap[e]) /\ Like(d2.heap[e], k.heap[e])
      BY <1>2, <1>6, <1>7, <2>2 DEF Others
    <3> QED
      BY <3>1, LikeTransitive
  <2> QED
    BY <2>1, <2>2 DEF Others
<1>10. SameLists(d, k) /\ SameFiles(d, k)
  BY <1>2, <1>6, <1>7 DEF SameLists, SameFiles
<1> QED
  BY <1>2, <1>5, <1>6, <1>7, <1>8, <1>9, <1>10
------------------------------------------------------------------------------
\* Lists of contexts.

\* A list that names nothing twice.
Distinct(s) == \A i, j \in DOMAIN s : s[i] = s[j] => i = j

LEMMA WithoutFacts ==
  ASSUME NEW s \in Seq(Context), NEW c
  PROVE  /\ Without(s, c) \in Seq(Context)
         /\ Range(Without(s, c)) = Range(s) \ {c}
         /\ Distinct(s) => Distinct(Without(s, c))
<1> DEFINE S == {i \in DOMAIN s : s[i] # c}
           t == Those(s, S)
<1>1. S \in SUBSET DOMAIN s
  OBVIOUS
<1>2. /\ t \in Seq(Context)
      /\ \A x : (\E i \in DOMAIN t : t[i] = x) <=> \E i \in S : s[i] = x
      /\ Distinct(s) => Distinct(t)
  BY <1>1, ThoseFacts DEF Distinct
<1> HIDE DEF t
<1>3. Range(t) = Range(s) \ {c}
  BY <1>2 DEF Range
<1> QED
  BY <1>2, <1>3 DEF Without, t

LEMMA PushFacts ==
  ASSUME NEW s \in Seq(Context), NEW c \in Context
  PROVE  /\ <<c>> \o s \in Seq(Context)
         /\ Range(<<c>> \o s) = Range(s) \cup {c}
         /\ Distinct(s) /\ c \notin Range(s) => Distinct(<<c>> \o s)
<1> DEFINE t == <<c>> \o s
<1>1. t \in Seq(Context) /\ Len(t) = Len(s) + 1
  OBVIOUS
<1>2. DOMAIN t = 1..Len(s) + 1 /\ DOMAIN s = 1..Len(s) /\ Len(s) \in Nat
  BY <1>1
<1>3. t[1] = c /\ \A i \in DOMAIN s : i + 1 \in DOMAIN t /\ t[i + 1] = s[i]
  BY <1>2
<1>4. \A i \in DOMAIN t : i = 1 \/ (i - 1 \in DOMAIN s /\ t[i] = s[i - 1])
  BY <1>2, <1>3
<1> HIDE DEF t
<1>5. Range(t) = Range(s) \cup {c}
  <2>1. 1 \in DOMAIN t
    BY <1>2
  <2> QED
    BY <1>3, <1>4, <2>1 DEF Range
<1>6. ASSUME Distinct(s), c \notin Range(s), NEW i \in DOMAIN t, NEW j \in DOMAIN t, t[i] = t[j]
      PROVE  i = j
  <2>1. i \in Int /\ j \in Int
    BY <1>2
  <2>2. \A n \in DOMAIN s : s[n] # c
    BY <1>6 DEF Range
  <2>3. CASE i = 1
    BY <1>3, <1>4, <1>6, <2>2, <2>3
  <2>4. CASE j = 1
    BY <1>3, <1>4, <1>6, <2>2, <2>4
  <2>5. CASE i # 1 /\ j # 1
    <3>1. s[i - 1] = s[j - 1] /\ i - 1 \in DOMAIN s /\ j - 1 \in DOMAIN s
      BY <1>4, <1>6, <2>5
    <3> QED
      BY <1>6, <2>1, <3>1 DEF Distinct
  <2> QED
    BY <2>3, <2>4, <2>5
<1> QED
  BY <1>1, <1>5, <1>6 DEF t, Distinct

------------------------------------------------------------------------------
\* do_disconnect

\* What it leaves of the context, whose connection ends.
Ends(x, y) ==
  /\ y.kind = x.kind /\ ~y.open /\ y.sub = x.sub
  /\ y.clean_session = x.clean_session /\ y.will \in {x.will, 0}

\* A websocket waits for libwebsockets.
LEMMA EndsWs ==
  ASSUME NEW d \in Db, NEW c \in DOMAIN d.heap, NEW x, x = d.heap[c],
         x.state # "disconnected", x.wsi,
         NEW k, k = DoDisconnect(d, c), NEW y, y = k.heap[c]
  PROVE  /\ k \in Db /\ Others(d, k, c) /\ SameLists(d, k) /\ SameFiles(d, k)
         /\ k.client_count = d.client_count /\ Ends(x, y) /\ y.wsi
         /\ y.listener = x.listener /\ y.id = x.id /\ y.state \in {"disconnecting", "disconnect_ws"}
<1> DEFINE s == IF x.state # "disconnecting" THEN "disconnect_ws" ELSE x.state
           z == [x EXCEPT !.state = s, !.open = FALSE]
<1>1. x \in Ctx /\ c \in Context
  BY ContextType
<1>2. s \in {"disconnecting", "disconnect_ws"} /\ s \in States
  BY DEF States
<1>3. k = [d EXCEPT !.heap[c].state = s, !.heap[c].open = FALSE]
  BY DEF DoDisconnect
<1> HIDE DEF s
<1>4. [d.heap EXCEPT ![c].state = s, ![c].open = FALSE] = [d.heap EXCEPT ![c] = z]
  BY HeapType DEF Db
<1>5. k = [d EXCEPT !.heap = [d.heap EXCEPT ![c] = z]]
  BY <1>3, <1>4 DEF Db
<1>6. z \in Ctx /\ Ends(x, z) /\ z.wsi = x.wsi /\ z.listener = x.listener /\ z.id = x.id
      /\ z.state = s
  BY <1>1, <1>2 DEF Ctx, Ends
<1> HIDE DEF z
<1>7. /\ k \in Db /\ Others(d, k, c) /\ SameLists(d, k) /\ SameFiles(d, k)
      /\ k.client_count = d.client_count /\ y = z
  BY <1>5, <1>6, AlterFacts
<1> QED
  BY <1>2, <1>6, <1>7

\* A context that is kept.
LEMMA EndsDurable ==
  ASSUME NEW d \in Db, NEW c \in DOMAIN d.heap, NEW x, x = d.heap[c],
         x.state # "disconnected", ~x.wsi, ~x.clean_session,
         NEW k, k = DoDisconnect(d, c), NEW y, y = k.heap[c]
  PROVE  /\ k \in Db /\ Others(d, k, c) /\ SameLists(d, k) /\ SameFiles(d, k)
         /\ k.client_count = d.client_count - (IF x.listener THEN 1 ELSE 0)
         /\ Ends(x, y) /\ ~y.wsi /\ ~y.listener /\ y.id = x.id /\ y.state = "disconnected"
<1> DEFINE d1 == ContextDisconnect(d, c)
           z  == [d1.heap[c] EXCEPT !.state = "disconnected"]
<1>1. x \in Ctx
  BY ContextType
<1>2. k = [d1 EXCEPT !.heap[c].state = "disconnected"]
  BY DEF DoDisconnect
<1> HIDE DEF d1
<1>3. /\ d1 \in Db /\ Others(d, d1, c) /\ SameLists(d, d1) /\ SameFiles(d, d1)
      /\ d1.client_count = d.client_count - (IF x.listener THEN 1 ELSE 0)
      /\ Ends(x, d1.heap[c]) /\ d1.heap[c].wsi = x.wsi /\ ~d1.heap[c].listener
      /\ d1.heap[c].id = x.id
  BY DisconnectFacts DEF d1, Ends
<1>4. c \in DOMAIN d1.heap /\ d1.heap[c] \in Ctx /\ d1.heap \in Heaps
  BY <1>3, ContextType DEF Others
<1>5. k = [d1 EXCEPT !.heap = [d1.heap EXCEPT ![c] = z]]
  <2>1. [d1.heap EXCEPT ![c].state = "disconnected"] = [d1.heap EXCEPT ![c] = z]
    BY <1>4, HeapType
  <2> QED
    BY <1>2, <1>3, <2>1 DEF Db
<1>6. /\ z \in Ctx /\ Ends(x, z) /\ z.wsi = x.wsi /\ ~z.listener /\ z.id = x.id
      /\ z.state = "disconnected"
  BY <1>3, <1>4 DEF Ctx, Ends, States
<1> HIDE DEF z
<1>7. /\ k \in Db /\ Others(d1, k, c) /\ SameLists(d1, k) /\ SameFiles(d1, k)
      /\ k.client_count = d1.client_count /\ y = z
  BY <1>3, <1>4, <1>5, <1>6, AlterFacts
<1>8. Others(d, k, c)
  BY <1>3, <1>7, LikeTransitive DEF Others
<1>9. SameLists(d, k) /\ SameFiles(d, k)
  BY <1>3, <1>7 DEF SameLists, SameFiles
<1> QED
  BY <1>3, <1>6, <1>7, <1>8, <1>9

\* A context that is done for.
DoneFor(d, k, c) ==
  LET x == d.heap[c]
      y == k.heap[c]
  IN  /\ k \in Db /\ Others(d, k, c) /\ SameFiles(d, k)
      /\ k.leaves = d.leaves /\ k.made = d.made
      /\ k.by_id = Without(d.by_id, c) /\ k.ll_for_free = <<c>> \o d.ll_for_free
      /\ k.client_count = d.client_count - (IF x.listener THEN 1 ELSE 0)
      /\ Ends(x, y) /\ ~y.wsi /\ ~y.listener /\ y.id = NoId /\ y.state = "disconnected"

LEMMA EndsClean ==
  ASSUME NEW d \in Db, NEW c \in DOMAIN d.heap,
         d.heap[c].state # "disconnected", ~d.heap[c].wsi, d.heap[c].clean_session,
         NEW k, k = DoDisconnect(d, c)
  PROVE  DoneFor(d, k, c)
<1> PICK x : x = d.heap[c]
  OBVIOUS
<1> PICK y : y = k.heap[c]
  OBVIOUS
<1> DEFINE d1 == ContextDisconnect(d, c)
           z  == [d1.heap[c] EXCEPT !.id = NoId, !.state = "disconnected"]
           b  == Without(d1.by_id, c)
           l  == <<c>> \o d1.ll_for_free
           d2 == [d1 EXCEPT !.heap = [d1.heap EXCEPT ![c] = z]]
<1>1. x \in Ctx /\ c \in Context
  BY ContextType
<1>2. /\ d1 \in Db /\ Others(d, d1, c) /\ SameLists(d, d1) /\ SameFiles(d, d1)
      /\ d1.client_count = d.client_count - (IF x.listener THEN 1 ELSE 0)
      /\ Ends(x, d1.heap[c]) /\ d1.heap[c].wsi = x.wsi /\ ~d1.heap[c].listener
      /\ d1.heap[c].id = x.id
  <2> HIDE DEF z, b, l, d2
  <2>1. d1 = ContextDisconnect(d, c)
    OBVIOUS
  <2> HIDE DEF d1
  <2>2. /\ d1 \in Db /\ Others(d, d1, c) /\ SameLists(d, d1) /\ SameFiles(d, d1)
        /\ d1.client_count = d.client_count - (IF x.listener THEN 1 ELSE 0)
        /\ d1.heap[c].kind = x.kind /\ ~d1.heap[c].open /\ d1.heap[c].wsi = x.wsi
        /\ ~d1.heap[c].listener /\ d1.heap[c].id = x.id /\ d1.heap[c].sub = x.sub
        /\ d1.heap[c].clean_session = x.clean_session /\ d1.heap[c].will = 0
    BY ONLY <2>1, d \in Db, c \in DOMAIN d.heap, x = d.heap[c], DisconnectFacts
  <2> QED
    BY <2>2 DEF Ends
<1>3. k = [[[d1 EXCEPT !.ll_for_free = l]
                EXCEPT !.by_id = b, !.heap[c].id = NoId] EXCEPT !.heap[c].state = "disconnected"]
  <2>1. AddToDisused(d1, c) = [d1 EXCEPT !.ll_for_free = l]
    BY DEF AddToDisused
  <2>2. [d1 EXCEPT !.ll_for_free = l].by_id = d1.by_id
    BY <1>2 DEF Db
  <2>3. k = [[AddToDisused(d1, c) EXCEPT !.by_id = Without(@, c), !.heap[c].id = NoId]
                EXCEPT !.heap[c].state = "disconnected"]
    BY DEF DoDisconnect
  <2> HIDE DEF d1
  <2> QED
    BY <2>1, <2>2, <2>3
<1> HIDE DEF d1
<1>4. c \in DOMAIN d1.heap /\ d1.heap[c] \in Ctx /\ d1.heap \in Heaps
  BY <1>2, ContextType DEF Others
<1>5. /\ z \in Ctx /\ Ends(x, z) /\ z.wsi = x.wsi /\ ~z.listener /\ z.id = NoId
      /\ z.state = "disconnected"
  BY <1>2, <1>4 DEF Ctx, Ends, States
<1>6. k = [d2 EXCEPT !.ll_for_free = l, !.by_id = b]
  <2>1. [[d1.heap EXCEPT ![c].id = NoId] EXCEPT ![c].state = "disconnected"]
          = [d1.heap EXCEPT ![c] = z]
    BY <1>4, HeapType
  <2> HIDE DEF z, l, b
  <2> DEFINE h1 == [d1.heap EXCEPT ![c].id = NoId]
             k1 == [d1 EXCEPT !.ll_for_free = l, !.by_id = b, !.heap = h1]
  <2>2. [[d1 EXCEPT !.ll_for_free = l] EXCEPT !.by_id = b, !.heap[c].id = NoId] = k1
    BY <1>2 DEF Db
  <2>3. k = [k1 EXCEPT !.heap[c].state = "disconnected"]
    BY <1>3, <2>2
  <2> HIDE DEF h1
  <2>4. k1.heap = h1
    BY <1>2 DEF Db
  <2>5. k = [k1 EXCEPT !.heap = [h1 EXCEPT ![c].state = "disconnected"]]
    BY <2>3, <2>4
  <2>6. k = [k1 EXCEPT !.heap = [d1.heap EXCEPT ![c] = z]]
    BY <2>1, <2>5 DEF h1
  <2> QED
    BY <1>2, <2>6 DEF Db
<1> HIDE DEF z
<1>7. /\ d2 \in Db /\ Others(d1, d2, c) /\ SameLists(d1, d2) /\ SameFiles(d1, d2)
      /\ d2.client_count = d1.client_count /\ d2.heap[c] = z
  BY <1>2, <1>4, <1>5, AlterFacts
<1> HIDE DEF d2
<1>8. l \in Seq(Context) /\ b \in Seq(Context)
  BY <1>1, <1>2, WithoutFacts, PushFacts DEF Db
<1> HIDE DEF l, b
<1>9. /\ k \in Db /\ k.heap = d2.heap /\ k.by_id = b /\ k.ll_for_free = l
      /\ k.client_count = d2.client_count /\ k.leaves = d2.leaves /\ k.made = d2.made
      /\ SameFiles(d2, k)
  BY <1>6, <1>7, <1>8 DEF Db, SameFiles
<1>10. Others(d, k, c)
  BY <1>2, <1>7, <1>9, LikeTransitive DEF Others
<1>11. SameFiles(d, k) /\ k.leaves = d.leaves /\ k.made = d.made
       /\ b = Without(d.by_id, c) /\ l = <<c>> \o d.ll_for_free
  BY <1>2, <1>7, <1>9 DEF SameLists, SameFiles, l, b
<1> QED
  BY <1>2, <1>5, <1>7, <1>9, <1>10, <1>11 DEF DoneFor
------------------------------------------------------------------------------
\* The inductive invariant.

Listening(d) == {c \in DOMAIN d.heap : d.heap[c].kind = "tcp" /\ d.heap[c].open}

\* The structures agree about a context.
Fit(d, c) ==
  LET x == d.heap[c]
  IN  /\ x.listener <=> x.kind = "tcp" /\ x.open
      /\ x.wsi => x.kind = "ws"
      /\ x.kind = "ws" /\ x.id # NoId => x.id \in WsId
      /\ x.state = "new" => x.id = NoId
      /\ ~x.clean_session => x.id # NoId
      /\ x.will <= d.made
      /\ x.sub <=> c \in Range(d.leaves)
      /\ x.id # NoId <=> c \in Range(d.by_id)

\* It is to be freed when nothing else will come of it, and has then no identifier.
Owned(d, c) ==
  LET x == d.heap[c]
  IN  /\ c \in Range(d.ll_for_free) <=> ~x.open /\ ~x.wsi /\ x.clean_session
      /\ c \in Range(d.ll_for_free) => x.id = NoId
      /\ x.kind = "ws" /\ x.open => x.wsi
      /\ x.state = "disconnected" => ~x.open /\ ~x.wsi

\* An identifier that is used by TCP only has one context.
OneEach(d) ==
  \A c, e \in DOMAIN d.heap :
    d.heap[c].id = d.heap[e].id /\ d.heap[c].id \in Id \ WsId => c = e

\* What holds while the disused contexts are being freed, too.
Loose(d) ==
  /\ d \in Db /\ IsFiniteSet(DOMAIN d.heap)
  /\ Range(d.by_id) \cup Range(d.leaves) \subseteq DOMAIN d.heap
  /\ Distinct(d.by_id) /\ Distinct(d.ll_for_free)
  /\ d.client_count = Cardinality(Listening(d))
  /\ OneEach(d)
  /\ \A c \in DOMAIN d.heap : Fit(d, c)

Good(d) ==
  /\ Loose(d)
  /\ Range(d.ll_for_free) \subseteq DOMAIN d.heap
  /\ \A c \in DOMAIN d.heap : Owned(d, c)

\* A context whose connection may be ended: it is not on the disused list yet, and may
\* be in a state in which it should be.
Closable(d, c) ==
  /\ Loose(d) /\ Range(d.ll_for_free) \subseteq DOMAIN d.heap
  /\ c \in DOMAIN d.heap /\ c \notin Range(d.ll_for_free) /\ d.heap[c].state # "disconnected"
  /\ \A e \in DOMAIN d.heap : e # c => Owned(d, e)

\* What a client was told of its subscription holds.
Grants(d, gr) ==
  \A c \in DOMAIN d.heap : d.heap[c].id \in gr \ WsId => d.heap[c].sub

\* A context that no CONNECT has come for yet has no subscription.
Fresh(d) == \A c \in DOMAIN d.heap : d.heap[c].state = "new" => ~d.heap[c].sub

\* Contexts lose their identifiers, and nothing else that was granted.
Frame(d, k) ==
  /\ DOMAIN k.heap = DOMAIN d.heap /\ k.made = d.made /\ k.client_count <= d.client_count
  /\ \A c \in DOMAIN d.heap : /\ k.heap[c].sub = d.heap[c].sub
                              /\ k.heap[c].id \in {d.heap[c].id, NoId}
                              /\ k.heap[c].state = "new" => d.heap[c].state = "new"

------------------------------------------------------------------------------
\* Steps on one context.

\* The other contexts stay as they were.
LEMMA FitKept ==
  ASSUME NEW d, NEW k, NEW e, Like(d.heap[e], k.heap[e]), Fit(d, e),
         d.heap[e].will \in Nat, d.made \in Nat, k.made \in Nat, d.made <= k.made,
         e \in Range(k.leaves) <=> e \in Range(d.leaves),
         e \in Range(k.by_id) <=> e \in Range(d.by_id)
  PROVE  Fit(k, e)
<1>1. k.heap[e].will <= k.made
  BY DEF Fit, Like
<1> QED
  BY <1>1 DEF Fit, Like

LEMMA OwnedKept ==
  ASSUME NEW d, NEW k, NEW e, Like(d.heap[e], k.heap[e]), Owned(d, e),
         e \in Range(k.ll_for_free) <=> e \in Range(d.ll_for_free)
  PROVE  Owned(k, e)
  BY DEF Owned, Like

\* The context stops listening, or goes on as it did.
LEMMA CountKept ==
  ASSUME NEW d, NEW k, Loose(d), NEW c \in DOMAIN d.heap, Others(d, k, c),
         ~k.heap[c].open,
         k.client_count = d.client_count - (IF c \in Listening(d) THEN 1 ELSE 0)
  PROVE  k.client_count = Cardinality(Listening(k)) /\ k.client_count <= d.client_count
<1>1. IsFiniteSet(Listening(d)) /\ Listening(k) = Listening(d) \ {c}
  <2>1. Listening(d) \subseteq DOMAIN d.heap
    BY DEF Listening
  <2>2. IsFiniteSet(Listening(d))
    BY <2>1, FS_Subset DEF Loose
  <2> QED
    BY <2>2 DEF Listening, Others, Like
<1>2. Cardinality(Listening(d)) \in Nat /\ d.client_count = Cardinality(Listening(d))
  BY <1>1, FS_CardinalityType DEF Loose
<1>3. Cardinality(Listening(d) \ {c}) =
        IF c \in Listening(d) THEN Cardinality(Listening(d)) - 1 ELSE Cardinality(Listening(d))
  BY <1>1, FS_RemoveElement
<1> QED
  BY <1>1, <1>2, <1>3

LEMMA DisconnectGood ==
  ASSUME NEW d, NEW c, Closable(d, c), NEW k, k = DoDisconnect(d, c)
  PROVE  /\ Good(k) /\ Others(d, k, c) /\ Frame(d, k) /\ SameFiles(d, k)
         /\ ~d.heap[c].wsi /\ d.heap[c].clean_session => k.heap[c].id = NoId
<1> DEFINE x == d.heap[c]
           y == k.heap[c]
<1>1. d \in Db /\ c \in DOMAIN d.heap /\ x.state # "disconnected" /\ c \notin Range(d.ll_for_free)
      /\ c \in Context
  BY ContextType DEF Closable, Loose
<1>2. x \in Ctx /\ Fit(d, c) /\ Loose(d)
  BY <1>1, ContextType DEF Closable, Loose
<1>3. /\ k \in Db /\ Others(d, k, c) /\ SameFiles(d, k) /\ k.made = d.made /\ k.leaves = d.leaves
      /\ k.client_count = d.client_count - (IF c \in Listening(d) THEN 1 ELSE 0)
      /\ Ends(x, y)
      /\ y.id \in {x.id, NoId} /\ y.state # "new"
      /\ y.listener <=> y.kind = "tcp" /\ y.open
      /\ y.wsi => y.kind = "ws"
      /\ y.wsi <=> x.wsi
      /\ y.wsi => y.state # "disconnected"
  <2>1. c \in Listening(d) <=> x.listener
    BY <1>1, <1>2 DEF Fit, Listening
  <2>2. CASE x.wsi
    <3>1. ~x.listener
      BY <1>2, <2>2 DEF Fit
    <3>2. d.client_count = d.client_count - 0
      BY <1>1 DEF Db
    <3> QED
      BY <1>1, <1>2, <2>1, <2>2, <3>1, <3>2, EndsWs DEF SameLists, Ends, Fit
  <2>3. CASE ~x.wsi /\ ~x.clean_session
    BY <1>1, <1>2, <2>1, <2>3, EndsDurable DEF SameLists, Ends
  <2>4. CASE ~x.wsi /\ x.clean_session
    <3>1. /\ k \in Db /\ Others(d, k, c) /\ SameFiles(d, k) /\ k.leaves = d.leaves /\ k.made = d.made
          /\ k.client_count = d.client_count - (IF x.listener THEN 1 ELSE 0)
          /\ Ends(x, y) /\ ~y.wsi /\ ~y.listener /\ y.id = NoId /\ y.state = "disconnected"
      <4>1. DoneFor(d, k, c)
        BY <1>1, <2>4, EndsClean
      <4> QED
        BY <4>1 DEF DoneFor
    <3> QED
      BY <2>1, <2>4, <3>1 DEF Ends
  <2>5. x.wsi \in BOOLEAN /\ x.clean_session \in BOOLEAN
    BY <1>2 DEF Ctx
  <2> QED
    BY <2>2, <2>3, <2>4, <2>5
<1>4. /\ Distinct(k.by_id) /\ Distinct(k.ll_for_free)
      /\ \A e \in DOMAIN d.heap : e # c => /\ e \in Range(k.by_id) <=> e \in Range(d.by_id)
                                           /\ e \in Range(k.ll_for_free) <=> e \in Range(d.ll_for_free)
      /\ Range(k.by_id) \subseteq Range(d.by_id)
      /\ Range(k.ll_for_free) \subseteq Range(d.ll_for_free) \cup {c}
      /\ y.id # NoId <=> c \in Range(k.by_id)
      /\ c \in Range(k.ll_for_free) <=> ~y.wsi /\ y.clean_session
      /\ c \in Range(k.ll_for_free) => y.id = NoId
      /\ ~y.clean_session => y.id # NoId
  <2>1. Distinct(d.by_id) /\ Distinct(d.ll_for_free) /\ d.by_id \in Seq(Context)
        /\ d.ll_for_free \in Seq(Context)
    BY <1>1 DEF Closable, Loose, Db
  <2>2. CASE x.wsi \/ ~x.clean_session
    <3>1. k.by_id = d.by_id /\ k.ll_for_free = d.ll_for_free /\ y.id = x.id
      <4>1. CASE x.wsi
        BY <1>1, <4>1, EndsWs DEF SameLists
      <4>2. CASE ~x.wsi /\ ~x.clean_session
        BY <1>1, <4>2, EndsDurable DEF SameLists
      <4> QED
        BY <2>2, <4>1, <4>2
    <3> QED
      BY <1>1, <1>2, <1>3, <2>1, <2>2, <3>1 DEF Fit, Ends
  <2>3. CASE ~x.wsi /\ x.clean_session
    <3>1. k.by_id = Without(d.by_id, c) /\ k.ll_for_free = <<c>> \o d.ll_for_free /\ y.id = NoId
      <4>1. DoneFor(d, k, c)
        BY <1>1, <2>3, EndsClean
      <4> QED
        BY <4>1 DEF DoneFor
    <3>2. Range(k.by_id) = Range(d.by_id) \ {c} /\ Distinct(k.by_id)
      BY <2>1, <3>1, WithoutFacts
    <3>3. Range(k.ll_for_free) = Range(d.ll_for_free) \cup {c} /\ Distinct(k.ll_for_free)
      BY <1>1, <2>1, <3>1, PushFacts
    <3> QED
      BY <1>3, <2>3, <3>1, <3>2, <3>3 DEF Ends
  <2>4. x.wsi \in BOOLEAN /\ x.clean_session \in BOOLEAN
    BY <1>2 DEF Ctx
  <2> QED
    BY <2>2, <2>3, <2>4
<1> HIDE DEF y
<1>5. k.client_count = Cardinality(Listening(k)) /\ k.client_count <= d.client_count
  BY <1>1, <1>2, <1>3, CountKept DEF Ends, y
<1>6. Frame(d, k)
  BY <1>1, <1>3, <1>5 DEF Frame, Others, Ends, Like, y
<1>7. OneEach(k)
  BY <1>2, <1>6, IdAssumption DEF Loose, OneEach, Frame
<1>8. ASSUME NEW e \in DOMAIN k.heap
      PROVE  Fit(k, e) /\ Owned(k, e)
  <2>1. CASE e = c
    <3>1. y.will <= k.made
      BY <1>1, <1>2, <1>3 DEF Fit, Ends, Db, Ctx
    <3>2. Fit(k, c)
      BY <1>2, <1>3, <1>4, <3>1 DEF Fit, Ends, y
    <3>3. Owned(k, c)
      BY <1>3, <1>4 DEF Owned, Ends, y
    <3> QED
      BY <2>1, <3>2, <3>3
  <2>2. CASE e # c
    <3>1. e \in DOMAIN d.heap /\ Fit(d, e) /\ Owned(d, e) /\ Like(d.heap[e], k.heap[e])
      BY <1>3, <2>2 DEF Closable, Loose, Others
    <3> QED
      <4>1. d.heap[e].will \in Nat /\ d.made \in Nat /\ k.made = d.made /\ d.made <= k.made
        <5>1. d.heap[e] \in Ctx
          BY <1>1, <3>1, ContextType
        <5>2. d.heap[e].will \in Nat
          BY <5>1 DEF Ctx
        <5>3. d.made \in Nat
          BY <1>1 DEF Db
        <5> QED
          BY <1>3, <5>2, <5>3
      <4>2. Fit(k, e)
        BY <1>3, <1>4, <2>2, <3>1, <4>1, FitKept
      <4>3. Owned(k, e)
        BY <1>4, <2>2, <3>1, OwnedKept
      <4> QED
        BY <4>2, <4>3
  <2> QED
    BY <2>1, <2>2
<1>9. Loose(k)
  <2>1. IsFiniteSet(DOMAIN k.heap) /\ Range(k.by_id) \cup Range(k.leaves) \subseteq DOMAIN k.heap
    BY <1>2, <1>3, <1>4 DEF Loose, Others
  <2> QED
    BY <1>3, <1>4, <1>5, <1>7, <1>8, <2>1 DEF Loose
<1>10. Range(k.ll_for_free) \subseteq DOMAIN k.heap
  BY <1>1, <1>3, <1>4 DEF Closable, Others
<1>11. ~x.wsi /\ x.clean_session => y.id = NoId
  <2>1. ASSUME ~x.wsi, x.clean_session
        PROVE  DoneFor(d, k, c)
    BY <1>1, <2>1, EndsClean
  <2> QED
    BY <2>1 DEF DoneFor, y
<1> QED
  BY <1>3, <1>6, <1>8, <1>9, <1>10, <1>11 DEF Good, y
------------------------------------------------------------------------------
\* Steps that end no connection.

\* Subscriptions, messages and rights may change.
Kept(x, y) ==
  /\ y.kind = x.kind /\ y.state = x.state /\ y.open = x.open /\ y.wsi = x.wsi
  /\ y.listener = x.listener /\ y.id = x.id /\ y.clean_session = x.clean_session
  /\ y.will = x.will

Alike(d, k) ==
  /\ DOMAIN k.heap = DOMAIN d.heap
  /\ \A e \in DOMAIN d.heap : Kept(d.heap[e], k.heap[e])
  /\ k.by_id = d.by_id /\ k.ll_for_free = d.ll_for_free /\ k.made = d.made
  /\ k.client_count = d.client_count

Linked(d) ==
  /\ Range(d.leaves) \subseteq DOMAIN d.heap
  /\ \A e \in DOMAIN d.heap : d.heap[e].sub <=> e \in Range(d.leaves)

LEMMA AlikeGood ==
  ASSUME NEW d, NEW k \in Db, Good(d), Alike(d, k), Linked(k)
  PROVE  Good(k)
<1>1. k.client_count = Cardinality(Listening(k))
  BY DEF Good, Loose, Alike, Listening, Kept
<1>2. OneEach(k)
  BY DEF Good, Loose, Alike, OneEach, Kept
<1>3. ASSUME NEW e \in DOMAIN k.heap
      PROVE  Fit(k, e) /\ Owned(k, e)
  <2>1. e \in DOMAIN d.heap /\ Fit(d, e) /\ Owned(d, e) /\ Kept(d.heap[e], k.heap[e])
    BY <1>3 DEF Good, Loose, Alike
  <2>2. k.heap[e].sub <=> e \in Range(k.leaves)
    BY <1>3 DEF Linked
  <2>3. Fit(k, e)
    BY <2>1, <2>2 DEF Fit, Kept, Alike
  <2>4. Owned(k, e)
    BY <2>1 DEF Owned, Kept, Alike
  <2> QED
    BY <2>3, <2>4
<1>4. Loose(k)
  BY <1>1, <1>2, <1>3 DEF Good, Loose, Alike, Linked
<1> QED
  BY <1>3, <1>4 DEF Good, Alike

\* Only messages and rights.
LEMMA SameGood ==
  ASSUME NEW d, NEW k \in Db, Good(d), DOMAIN k.heap = DOMAIN d.heap,
         \A e \in DOMAIN d.heap : Like(d.heap[e], k.heap[e]),
         SameLists(d, k), k.client_count = d.client_count
  PROVE  Good(k) /\ Frame(d, k)
<1>1. Alike(d, k)
  BY DEF Alike, Kept, Like, SameLists
<1>2. Linked(k)
  BY DEF Linked, Good, Loose, Fit, Like, SameLists
<1>3. d.client_count <= d.client_count
  BY DEF Good, Loose, Db
<1>4. Frame(d, k)
  BY <1>1, <1>3 DEF Alike, Kept, Like, Frame
<1> QED
  BY <1>1, <1>2, <1>4, AlikeGood

LEMMA FrameFacts ==
  ASSUME NEW d, NEW k, NEW m, d.client_count \in Int, k.client_count \in Int,
         m.client_count \in Int, Frame(d, k), Frame(k, m)
  PROVE  Frame(d, m)
<1>1. m.client_count <= d.client_count
  BY DEF Frame
<1> QED
  BY <1>1 DEF Frame

LEMMA FrameGrants ==
  ASSUME NEW d, NEW k, NEW gr \in SUBSET Id, Frame(d, k), Grants(d, gr), Fresh(d)
  PROVE  Grants(k, gr) /\ Fresh(k)
<1>1. NoId \notin gr \ WsId
  BY IdAssumption
<1> QED
  BY <1>1 DEF Frame, Grants, Fresh

\* How a context may be marked before its connection is ended.
Marked(x, z) ==
  /\ z.kind = x.kind /\ z.open = x.open /\ z.listener = x.listener /\ z.id = x.id
  /\ z.sub = x.sub /\ z.will = x.will
  /\ z.wsi => x.wsi
  /\ ~z.clean_session => ~x.clean_session
  /\ z.state # "disconnected"
  /\ z.state = "new" => x.state = "new"

LEMMA MarkClosable ==
  ASSUME NEW d, NEW c \in DOMAIN d.heap, Good(d), c \notin Range(d.ll_for_free),
         NEW z \in Ctx, Marked(d.heap[c], z),
         NEW k, k = [d EXCEPT !.heap = [d.heap EXCEPT ![c] = z]]
  PROVE  /\ Closable(k, c) /\ Others(d, k, c) /\ Frame(d, k) /\ SameFiles(d, k)
         /\ k.heap[c] = z /\ DOMAIN k.heap = DOMAIN d.heap
<1>1. d \in Db /\ d.client_count <= d.client_count
  BY DEF Good, Loose, Db
<1>2. /\ k \in Db /\ Others(d, k, c) /\ SameLists(d, k) /\ SameFiles(d, k)
      /\ k.client_count = d.client_count /\ k.heap[c] = z /\ DOMAIN k.heap = DOMAIN d.heap
  BY <1>1, AlterFacts
<1>3. Listening(k) = Listening(d)
  BY <1>2 DEF Listening, Others, Like, Marked
<1>4. OneEach(k)
  BY <1>2 DEF Good, Loose, OneEach, Others, Like, Marked
<1>5. ASSUME NEW e \in DOMAIN d.heap
      PROVE  Fit(k, e) /\ (e # c => Owned(k, e))
  <2>1. Fit(d, e) /\ Owned(d, e)
    BY <1>5 DEF Good, Loose
  <2>2. CASE e = c
    <3>1. z.will <= k.made
      BY <1>2, <2>1, <2>2 DEF Fit, Marked, SameLists
    <3> QED
      BY <1>2, <2>1, <2>2, <3>1 DEF Fit, Marked, SameLists
  <2>3. CASE e # c
    <3>1. Like(d.heap[e], k.heap[e])
      BY <1>2, <1>5, <2>3 DEF Others
    <3>2. Fit(k, e)
      BY <1>2, <2>1, <3>1 DEF Fit, Like, SameLists
    <3>3. Owned(k, e)
      BY <1>2, <2>1, <3>1 DEF Owned, Like, SameLists
    <3> QED
      BY <3>2, <3>3
  <2> QED
    BY <2>2, <2>3
<1>6. Loose(k)
  BY <1>2, <1>3, <1>4, <1>5 DEF Good, Loose, SameLists
<1>7. z.state # "disconnected" /\ (z.state = "new" => d.heap[c].state = "new")
  BY DEF Marked
<1>8. Closable(k, c)
  BY <1>2, <1>5, <1>6, <1>7 DEF Closable, Good, SameLists
<1>9. Frame(d, k)
  BY <1>1, <1>2, <1>7 DEF Frame, Others, Like, Marked, SameLists
<1> QED
  BY <1>2, <1>8, <1>9

\* A connection that is open may be ended at once.
LEMMA OpenClosable ==
  ASSUME NEW d, NEW c \in DOMAIN d.heap, Good(d), d.heap[c].open
  PROVE  Closable(d, c)
  BY DEF Good, Closable, Owned
------------------------------------------------------------------------------
\* A context is made, and one is freed.

\* mqtt3_context_init for a new connection, and the count of its listener
Made(d, c, kind) ==
  [d EXCEPT !.heap = Put(d.heap, c, NewContext(kind)),
            !.client_count = @ + IF kind = "tcp" THEN 1 ELSE 0]

LEMMA MadeGood ==
  ASSUME NEW d, Good(d), NEW c \in Context \ DOMAIN d.heap, NEW kind \in {"tcp", "ws"},
         NEW k, k = Made(d, c, kind)
  PROVE  /\ Good(k) /\ DOMAIN k.heap = DOMAIN d.heap \cup {c}
         /\ SameLists(d, k) /\ k.heap[c] = NewContext(kind)
         /\ \A e \in DOMAIN d.heap : k.heap[e] = d.heap[e]
         /\ k.client_count = d.client_count + (IF kind = "tcp" THEN 1 ELSE 0)
<1> DEFINE y == NewContext(kind)
           h == Put(d.heap, c, y)
           n == d.client_count + (IF kind = "tcp" THEN 1 ELSE 0)
<1>1. /\ d \in Db /\ d.client_count \in Int /\ d.made \in Nat /\ DOMAIN d.heap \subseteq Context
      /\ d.heap \in [DOMAIN d.heap -> Ctx]
  BY HeapType DEF Good, Loose, Db
<1>2. /\ y.kind = kind /\ y.state = "new" /\ y.open /\ (y.wsi <=> kind = "ws")
      /\ (y.listener <=> kind = "tcp") /\ y.id = NoId /\ y.clean_session /\ y.will = 0 /\ ~y.sub
  BY DEF NewContext
<1>3. y \in Ctx
  <2>1. <<>> \in Seq(Nat)
    OBVIOUS
  <2> QED
    BY <2>1 DEF NewContext, Ctx, States, NoAcl
<1>4. k = [d EXCEPT !.heap = h, !.client_count = n]
  BY <1>1 DEF Made, Db
<1> HIDE DEF y
<1>5. /\ DOMAIN h = DOMAIN d.heap \cup {c} /\ h[c] = y
      /\ \A e \in DOMAIN d.heap : h[e] = d.heap[e]
  BY DEF Put
<1>6. h \in Heaps
  <2>1. h \in [DOMAIN h -> Ctx]
    BY <1>1, <1>3 DEF Put
  <2>2. DOMAIN h \subseteq Context
    BY <1>1, <1>5
  <2> QED
    BY <2>1, <2>2, HeapType
<1> HIDE DEF h
<1>7. n \in Int
  BY <1>1
<1> HIDE DEF n
<1>8. k \in Db /\ k.heap = h /\ k.client_count = n /\ SameLists(d, k)
  BY <1>1, <1>4, <1>6, <1>7 DEF Db, SameLists
<1>9. n = Cardinality(Listening(k))
  <2>1. IsFiniteSet(Listening(d)) /\ c \notin Listening(d)
        /\ d.client_count = Cardinality(Listening(d))
    <3>1. Listening(d) \subseteq DOMAIN d.heap
      BY DEF Listening
    <3> QED
      BY <3>1, FS_Subset DEF Good, Loose
  <2>2. Listening(k) = IF kind = "tcp" THEN Listening(d) \cup {c} ELSE Listening(d)
    BY <1>2, <1>5, <1>8 DEF Listening
  <2>3. Cardinality(Listening(d) \cup {c}) = Cardinality(Listening(d)) + 1
    BY <2>1, FS_AddElement
  <2>4. d.client_count + 0 = d.client_count
    BY <1>1
  <2> QED
    BY <2>1, <2>2, <2>3, <2>4 DEF n
<1>10. c \notin Range(k.by_id) /\ c \notin Range(k.leaves) /\ c \notin Range(k.ll_for_free)
  BY <1>8 DEF Good, Loose, SameLists
<1>11. OneEach(k)
  BY <1>2, <1>5, <1>8, IdAssumption DEF Good, Loose, OneEach
<1>12. ASSUME NEW e \in DOMAIN k.heap
       PROVE  Fit(k, e) /\ Owned(k, e)
  <2>1. CASE e = c
    <3>1. Fit(k, c)
      BY <1>1, <1>2, <1>5, <1>8, <1>10 DEF Fit, SameLists
    <3>2. Owned(k, c)
      BY <1>2, <1>5, <1>8, <1>10 DEF Owned
    <3> QED
      BY <2>1, <3>1, <3>2
  <2>2. CASE e # c
    <3>1. e \in DOMAIN d.heap /\ Fit(d, e) /\ Owned(d, e) /\ k.heap[e] = d.heap[e]
      BY <1>5, <1>8, <1>12, <2>2 DEF Good, Loose
    <3>2. Fit(k, e)
      BY <1>8, <3>1 DEF Fit, SameLists
    <3>3. Owned(k, e)
      BY <1>8, <3>1 DEF Owned, SameLists
    <3> QED
      BY <3>2, <3>3
  <2> QED
    BY <2>1, <2>2
<1>13. Loose(k)
  <2>1. IsFiniteSet(DOMAIN k.heap)
    BY <1>5, <1>8, FS_AddElement DEF Good, Loose
  <2>2. Range(k.by_id) \cup Range(k.leaves) \subseteq DOMAIN k.heap
    BY <1>5, <1>8 DEF Good, Loose, SameLists
  <2> QED
    BY <1>8, <1>9, <1>11, <1>12, <2>1, <2>2 DEF Good, Loose, SameLists
<1>14. Range(k.ll_for_free) \subseteq DOMAIN k.heap
  BY <1>5, <1>8 DEF Good, SameLists
<1> QED
  BY <1>5, <1>8, <1>12, <1>13, <1>14 DEF Good, n, y

\* mqtt3_context_cleanup
LEMMA CleanupLoose ==
  ASSUME NEW d, NEW c \in DOMAIN d.heap, Loose(d), NEW k, k = ContextCleanup(d, c)
  PROVE  /\ Loose(k) /\ DOMAIN k.heap = DOMAIN d.heap \ {c}
         /\ \A e \in DOMAIN k.heap : Like(d.heap[e], k.heap[e])
         /\ k.ll_for_free = d.ll_for_free /\ k.made = d.made
         /\ k.client_count = d.client_count - (IF c \in Listening(d) THEN 1 ELSE 0)
<1> DEFINE d1 == SocketClose(d, c)
           l  == IF d.heap[c].sub THEN Without(d.leaves, c) ELSE d.leaves
           b  == Without(d.by_id, c)
           h  == Drop(d1.heap, {c})
           n  == d.client_count - (IF c \in Listening(d) THEN 1 ELSE 0)
<1>1. /\ d \in Db /\ d.client_count \in Int /\ d.by_id \in Seq(Context) /\ d.leaves \in Seq(Context)
      /\ c \in Context /\ d.heap[c] \in Ctx
  BY ContextType DEF Loose, Db
<1>2. c \in Listening(d) <=> d.heap[c].listener
  BY DEF Loose, Fit, Listening
<1>3. /\ d1 \in Db /\ Others(d, d1, c) /\ SameLists(d, d1) /\ d1.client_count = n
  <2> HIDE DEF l, b, h
  <2> DEFINE x == d.heap[c]
             z == d1.heap[c]
  <2>1. /\ d1 \in Db /\ Others(d, d1, c) /\ SameLists(d, d1)
        /\ d1.client_count = d.client_count - (IF x.listener THEN 1 ELSE 0)
    <3>1. d1 = SocketClose(d, c) /\ x = d.heap[c] /\ z = d1.heap[c]
      OBVIOUS
    <3> HIDE DEF d1, x, z
    <3> QED
      BY <1>1, <3>1, CloseFacts
  <2> QED
    BY <1>2, <2>1
<1>4. k = [d1 EXCEPT !.leaves = l, !.by_id = b, !.heap = h]
  <2> HIDE DEF d1
  <2>1. k = [d1 EXCEPT !.leaves = IF d.heap[c].sub THEN Without(d1.leaves, c) ELSE d1.leaves,
                       !.by_id = Without(d1.by_id, c), !.heap = Drop(d1.heap, {c})]
    BY <1>3 DEF ContextCleanup, d1, Db
  <2> QED
    BY <1>3, <2>1 DEF SameLists
<1> HIDE DEF d1
<1>5. /\ h \in Heaps /\ DOMAIN h = DOMAIN d.heap \ {c}
      /\ \A e \in DOMAIN h : Like(d.heap[e], h[e])
  <2>1. DOMAIN d1.heap \subseteq Context /\ d1.heap \in [DOMAIN d1.heap -> Ctx]
    BY <1>3, HeapType DEF Db
  <2>2. DOMAIN h = DOMAIN d.heap \ {c} /\ \A e \in DOMAIN h : h[e] = d1.heap[e]
    BY <1>3 DEF Others, Drop
  <2>3. h \in [DOMAIN h -> Ctx]
    BY <1>3, <2>1 DEF Others, Drop
  <2> HIDE DEF h
  <2>4. h \in Heaps
    BY <1>3, <2>1, <2>2, <2>3, HeapType DEF Others
  <2> QED
    BY <1>3, <2>2, <2>4 DEF Others
<1> HIDE DEF h
<1>6. b \in Seq(Context) /\ Range(b) = Range(d.by_id) \ {c} /\ Distinct(b)
  BY <1>1, WithoutFacts DEF Loose
<1>7. l \in Seq(Context) /\ Range(l) = Range(d.leaves) \ {c}
  <2>1. CASE d.heap[c].sub
    BY <1>1, <2>1, WithoutFacts
  <2>2. CASE ~d.heap[c].sub
    BY <1>1, <2>2 DEF Loose, Fit
  <2> QED
    BY <2>1, <2>2
<1> HIDE DEF b, l
<1>8. n \in Int
  BY <1>1
<1>9. n = Cardinality(Listening(k))
  <2>1. k.heap = h
    BY <1>3, <1>4 DEF Db
  <2>2. Listening(k) = Listening(d) \ {c}
    BY <1>5, <2>1 DEF Listening, Like
  <2>3. IsFiniteSet(Listening(d))
    <3>1. Listening(d) \subseteq DOMAIN d.heap
      BY DEF Listening
    <3> QED
      BY <3>1, FS_Subset DEF Loose
  <2>4. Cardinality(Listening(d) \ {c}) =
          IF c \in Listening(d) THEN Cardinality(Listening(d)) - 1 ELSE Cardinality(Listening(d))
    BY <2>3, FS_RemoveElement
  <2>5. d.client_count = Cardinality(Listening(d)) /\ d.client_count - 0 = d.client_count
    BY <1>1 DEF Loose
  <2> QED
    BY <2>2, <2>4, <2>5
<1> HIDE DEF n
<1>10. /\ k \in Db /\ k.heap = h /\ k.by_id = b /\ k.leaves = l /\ k.client_count = n
       /\ k.ll_for_free = d.ll_for_free /\ k.made = d.made
  BY <1>3, <1>4, <1>5, <1>6, <1>7 DEF Db, SameLists
<1>11. OneEach(k)
  BY <1>5, <1>10 DEF Loose, OneEach, Like
<1>12. ASSUME NEW e \in DOMAIN k.heap
       PROVE  Fit(k, e)
  <2>1. e # c /\ e \in DOMAIN d.heap /\ Fit(d, e) /\ Like(d.heap[e], k.heap[e])
    BY <1>5, <1>10, <1>12 DEF Loose
  <2> QED
    BY <1>6, <1>7, <1>10, <2>1 DEF Fit, Like
<1>13. IsFiniteSet(DOMAIN k.heap)
  BY <1>5, <1>10, FS_Subset DEF Loose
<1>14. Loose(k)
  BY <1>5, <1>6, <1>7, <1>9, <1>10, <1>11, <1>12, <1>13 DEF Loose
<1> QED
  BY <1>5, <1>10, <1>14 DEF n
------------------------------------------------------------------------------
\* The loops over lists of contexts: what holds before, and is kept by each step, holds
\* after (J[i] is what holds after the i-th).

LEMMA EachCleanup ==
  ASSUME NEW s \in Seq(Context), NEW d, NEW J, d \in J[0], NEW D,
         \A i \in 0..Len(s) : J[i] \subseteq D,
         \A i \in 1..Len(s) : \A x \in J[i - 1] : ContextCleanup(x, s[i]) \in J[i]
  PROVE  Each(ContextCleanup, d, s) \in J[Len(s)]
<1> DEFINE n == Len(s)
           F == [p \in (1..n) \X D |-> ContextCleanup(p[2], s[p[1]])]
           P(h) == h = [i \in 0..n |-> IF i = 0 THEN d ELSE ContextCleanup(h[i - 1], s[i])]
           f == CHOOSE h : P(h)
<1>1. Each(ContextCleanup, d, s) = f[n]
  BY DEF Each
<1>2. n \in Nat /\ n \in 0..n /\ \A i \in 1..n : i \in 0..n /\ i - 1 \in 0..n /\ i # 0
  OBVIOUS
<1>3. \A i \in 1..n : \A x \in J[i - 1] : F[<<i, x>>] = ContextCleanup(x, s[i])
  BY <1>2
<1>4. \A i \in 1..n : \A x \in J[i - 1] : F[<<i, x>>] \in J[i]
  BY <1>3
<1> HIDE DEF F
<1>5. PICK g : Loop(g, n, d, F) /\ \A i \in 0..n : g[i] \in J[i]
  <2> HIDE DEF P, f, n
  <2>1. n \in Nat /\ d \in J[0]
    BY <1>2
  <2> QED
    BY ONLY <1>4, <2>1, LoopExists
<1>6. P(g)
  <2>1. \A i \in 0..n : i # 0 => i \in 1..n
    BY <1>2
  <2> QED
    BY <1>2, <1>3, <1>5, <2>1 DEF Loop
<1>7. P(f)
  BY <1>6
<1> HIDE DEF f
<1>8. f[0] = d /\ \A i \in 1..n : f[i] = ContextCleanup(f[i - 1], s[i])
  BY <1>2, <1>7
<1> HIDE DEF P
<1>9. \A i \in 0..n : f[i] \in J[i]
  BY <1>2, <1>8, LoopKeeps
<1> QED
  BY <1>1, <1>2, <1>9

LEMMA EachExpire ==
  ASSUME NEW s \in Seq(Context), NEW d, NEW J, d \in J[0], NEW D,
         \A i \in 0..Len(s) : J[i] \subseteq D,
         \A i \in 1..Len(s) : \A x \in J[i - 1] : ExpireOne(x, s[i]) \in J[i]
  PROVE  Each(ExpireOne, d, s) \in J[Len(s)]
<1> DEFINE n == Len(s)
           F == [p \in (1..n) \X D |-> ExpireOne(p[2], s[p[1]])]
           P(h) == h = [i \in 0..n |-> IF i = 0 THEN d ELSE ExpireOne(h[i - 1], s[i])]
           f == CHOOSE h : P(h)
<1>1. Each(ExpireOne, d, s) = f[n]
  BY DEF Each
<1>2. n \in Nat /\ n \in 0..n /\ \A i \in 1..n : i \in 0..n /\ i - 1 \in 0..n /\ i # 0
  OBVIOUS
<1>3. \A i \in 1..n : \A x \in J[i - 1] : F[<<i, x>>] = ExpireOne(x, s[i])
  BY <1>2
<1>4. \A i \in 1..n : \A x \in J[i - 1] : F[<<i, x>>] \in J[i]
  BY <1>3
<1> HIDE DEF F
<1>5. PICK g : Loop(g, n, d, F) /\ \A i \in 0..n : g[i] \in J[i]
  <2> HIDE DEF P, f, n
  <2>1. n \in Nat /\ d \in J[0]
    BY <1>2
  <2> QED
    BY ONLY <1>4, <2>1, LoopExists
<1>6. P(g)
  <2>1. \A i \in 0..n : i # 0 => i \in 1..n
    BY <1>2
  <2> QED
    BY <1>2, <1>3, <1>5, <2>1 DEF Loop
<1>7. P(f)
  BY <1>6
<1> HIDE DEF f
<1>8. f[0] = d /\ \A i \in 1..n : f[i] = ExpireOne(f[i - 1], s[i])
  BY <1>2, <1>7
<1> HIDE DEF P
<1>9. \A i \in 0..n : f[i] \in J[i]
  BY <1>2, <1>8, LoopKeeps
<1> QED
  BY <1>1, <1>2, <1>9

LEMMA EachApply ==
  ASSUME NEW s \in Seq(Context), NEW d, NEW J, d \in J[0], NEW D,
         \A i \in 0..Len(s) : J[i] \subseteq D,
         \A i \in 1..Len(s) : \A x \in J[i - 1] : Apply(x, s[i]) \in J[i]
  PROVE  Each(Apply, d, s) \in J[Len(s)]
<1> DEFINE n == Len(s)
           F == [p \in (1..n) \X D |-> Apply(p[2], s[p[1]])]
           P(h) == h = [i \in 0..n |-> IF i = 0 THEN d ELSE Apply(h[i - 1], s[i])]
           f == CHOOSE h : P(h)
<1>1. Each(Apply, d, s) = f[n]
  BY DEF Each
<1>2. n \in Nat /\ n \in 0..n /\ \A i \in 1..n : i \in 0..n /\ i - 1 \in 0..n /\ i # 0
  OBVIOUS
<1>3. \A i \in 1..n : \A x \in J[i - 1] : F[<<i, x>>] = Apply(x, s[i])
  BY <1>2
<1>4. \A i \in 1..n : \A x \in J[i - 1] : F[<<i, x>>] \in J[i]
  BY <1>3
<1> HIDE DEF F
<1>5. PICK g : Loop(g, n, d, F) /\ \A i \in 0..n : g[i] \in J[i]
  <2> HIDE DEF P, f, n
  <2>1. n \in Nat /\ d \in J[0]
    BY <1>2
  <2> QED
    BY ONLY <1>4, <2>1, LoopExists
<1>6. P(g)
  <2>1. \A i \in 0..n : i # 0 => i \in 1..n
    BY <1>2
  <2> QED
    BY <1>2, <1>3, <1>5, <2>1 DEF Loop
<1>7. P(f)
  BY <1>6
<1> HIDE DEF f
<1>8. f[0] = d /\ \A i \in 1..n : f[i] = Apply(f[i - 1], s[i])
  BY <1>2, <1>7
<1> HIDE DEF P
<1>9. \A i \in 0..n : f[i] \in J[i]
  BY <1>2, <1>8, LoopKeeps
<1> QED
  BY <1>1, <1>2, <1>9
------------------------------------------------------------------------------
\* The inductive invariant is kept by every action.

IInv ==
  /\ Good(db) /\ Fresh(db) /\ db.client_count <= MaxClients
  /\ granted \in SUBSET Id /\ Grants(db, granted)

LEMMA FrameStep ==
  ASSUME IInv, Good(db'), Frame(db, db'), granted' \in SUBSET granted
  PROVE  IInv'
<1>1. db.client_count \in Int /\ db'.client_count \in Int
  BY DEF IInv, Good, Loose, Db
<1>2. db'.client_count <= MaxClients
  BY <1>1, ClientAssumption DEF IInv, Frame
<1>3. Grants(db', granted) /\ Fresh(db')
  BY FrameGrants DEF IInv
<1>4. Grants(db', granted')
  BY <1>3 DEF Grants
<1> QED
  BY <1>2, <1>3, <1>4 DEF IInv

LEMMA AcceptInv ==
  ASSUME IInv, Accept
  PROVE  IInv'
<1> DEFINE c == NewAddress
<1>1. c \in Context \ DOMAIN db.heap
  BY DEF Accept, NewAddress, Free
<1>2. Good(db) /\ db \in Db /\ db.client_count \in Int
  BY DEF IInv, Good, Loose, Db
<1>3. Accepted = Made(db, c, "tcp")
  BY <1>2 DEF Accepted, Made, Db
<1> HIDE DEF c
<1>4. /\ Good(Accepted) /\ DOMAIN Accepted.heap = DOMAIN db.heap \cup {c}
      /\ SameLists(db, Accepted) /\ Accepted.heap[c] = NewContext("tcp")
      /\ \A e \in DOMAIN db.heap : Accepted.heap[e] = db.heap[e]
      /\ Accepted.client_count = db.client_count + 1
  <2>1. (IF "tcp" = "tcp" THEN 1 ELSE 0) = 1
    OBVIOUS
  <2> QED
    BY <1>1, <1>2, <1>3, <2>1, MadeGood
<1>5. CASE Accepted.client_count > MaxClients
  <2>1. db' = ContextCleanup(Accepted, c) /\ granted' = granted
    BY <1>5 DEF Accept, Step, Refused, c
  <2>2. /\ Loose(db') /\ DOMAIN db'.heap = DOMAIN db.heap
        /\ \A e \in DOMAIN db.heap : Like(db.heap[e], db'.heap[e])
        /\ db'.ll_for_free = db.ll_for_free /\ db'.made = db.made
        /\ db'.client_count = Accepted.client_count - (IF c \in Listening(Accepted) THEN 1 ELSE 0)
    <3>1. Loose(Accepted) /\ c \in DOMAIN Accepted.heap
      BY <1>4 DEF Good
    <3>2. /\ Loose(db') /\ DOMAIN db'.heap = DOMAIN Accepted.heap \ {c}
          /\ \A e \in DOMAIN db'.heap : Like(Accepted.heap[e], db'.heap[e])
          /\ db'.ll_for_free = Accepted.ll_for_free /\ db'.made = Accepted.made
          /\ db'.client_count = Accepted.client_count - (IF c \in Listening(Accepted) THEN 1 ELSE 0)
      BY <2>1, <3>1, CleanupLoose
    <3>3. DOMAIN db'.heap = DOMAIN db.heap
      BY <1>1, <1>4, <3>2
    <3> QED
      BY <1>4, <3>2, <3>3 DEF SameLists
  <2>3. c \in Listening(Accepted)
    BY <1>4 DEF Listening, NewContext
  <2>4. db'.client_count = db.client_count
    BY <1>2, <1>4, <2>2, <2>3
  <2>5. Good(db')
    BY <1>2, <2>2 DEF Good, Owned, Like
  <2>6. Frame(db, db')
    BY <1>2, <2>2, <2>4 DEF Frame, Like
  <2> QED
    BY <2>1, <2>5, <2>6, FrameStep
<1>6. CASE ~(Accepted.client_count > MaxClients)
  <2>1. db' = Accepted /\ granted' = granted
    BY <1>6 DEF Accept, Step
  <2>2. db'.client_count <= MaxClients
    BY <1>2, <1>4, <1>6, <2>1, ClientAssumption
  <2>3. Fresh(db') /\ Grants(db', granted)
    <3>1. ~NewContext("tcp").sub /\ NewContext("tcp").id = NoId
      BY DEF NewContext
    <3>2. NoId \notin granted
      BY IdAssumption DEF IInv
    <3> QED
      BY <1>4, <2>1, <3>1, <3>2 DEF IInv, Fresh, Grants
  <2> QED
    BY <1>4, <2>1, <2>2, <2>3 DEF IInv
<1> QED
  BY <1>5, <1>6

LEMMA WsEstablishedInv ==
  ASSUME IInv, WsEstablished
  PROVE  IInv'
<1> DEFINE c == NewAddress
<1>1. c \in Context \ DOMAIN db.heap
  BY DEF WsEstablished, Room, NewAddress, Free
<1>2. Good(db) /\ db \in Db /\ db.client_count \in Int
  BY DEF IInv, Good, Loose, Db
<1>3. db' = Made(db, c, "ws") /\ granted' = granted
  <2>1. db' = [db EXCEPT !.heap = Put(db.heap, c, NewContext("ws"))] /\ granted' = granted
    BY <1>2 DEF WsEstablished, Step, Db
  <2>2. db.client_count + (IF "ws" = "tcp" THEN 1 ELSE 0) = db.client_count
    BY <1>2
  <2> QED
    BY <1>2, <2>1, <2>2 DEF Made, Db
<1> HIDE DEF c
<1>4. /\ Good(db') /\ DOMAIN db'.heap = DOMAIN db.heap \cup {c}
      /\ db'.heap[c] = NewContext("ws")
      /\ \A e \in DOMAIN db.heap : db'.heap[e] = db.heap[e]
      /\ db'.client_count = db.client_count
  <2>1. db.client_count + (IF "ws" = "tcp" THEN 1 ELSE 0) = db.client_count
    BY <1>2
  <2> QED
    BY <1>1, <1>2, <1>3, <2>1, MadeGood
<1>5. Fresh(db') /\ Grants(db', granted)
  <2>1. ~NewContext("ws").sub /\ NewContext("ws").id = NoId
    BY DEF NewContext
  <2>2. NoId \notin granted
    BY IdAssumption DEF IInv
  <2> QED
    BY <1>4, <2>1, <2>2 DEF IInv, Fresh, Grants
<1> QED
  BY <1>3, <1>4, <1>5 DEF IInv

\* A connection that is open ends.
LEMMA DropInv ==
  ASSUME IInv, NEW c \in DOMAIN db.heap, db.heap[c].open, Step(DoDisconnect(db, c))
  PROVE  IInv'
<1>1. Closable(db, c)
  BY OpenClosable DEF IInv
<1>2. db' = DoDisconnect(db, c) /\ granted' = granted
  BY DEF Step
<1>3. Good(db') /\ Frame(db, db')
  BY <1>1, <1>2, DisconnectGood
<1> QED
  BY <1>2, <1>3, FrameStep

\* A context is marked, and then its connection is ended.
LEMMA MarkDisconnect ==
  ASSUME NEW d, NEW c \in DOMAIN d.heap, Good(d), c \notin Range(d.ll_for_free),
         NEW z \in Ctx, Marked(d.heap[c], z),
         NEW m, m = [d EXCEPT !.heap = [d.heap EXCEPT ![c] = z]],
         NEW k, k = DoDisconnect(m, c)
  PROVE  /\ Good(k) /\ Frame(d, k) /\ SameFiles(d, k) /\ Others(d, k, c)
         /\ ~z.wsi /\ z.clean_session => k.heap[c].id = NoId
<1>1. /\ Closable(m, c) /\ Others(d, m, c) /\ Frame(d, m) /\ SameFiles(d, m)
      /\ m.heap[c] = z /\ DOMAIN m.heap = DOMAIN d.heap
  BY MarkClosable
<1>2. /\ Good(k) /\ Others(m, k, c) /\ Frame(m, k) /\ SameFiles(m, k)
      /\ ~z.wsi /\ z.clean_session => k.heap[c].id = NoId
  BY <1>1, DisconnectGood
<1>3. d.client_count \in Int /\ m.client_count \in Int /\ k.client_count \in Int
  BY <1>1, <1>2 DEF Good, Closable, Loose, Db
<1>4. Frame(d, k)
  BY <1>1, <1>2, <1>3, FrameFacts
<1>5. Others(d, k, c)
  BY <1>1, <1>2, LikeTransitive DEF Others
<1> QED
  BY <1>1, <1>2, <1>4, <1>5 DEF SameFiles

LEMMA HandleDisconnectInv ==
  ASSUME IInv, NEW c \in DOMAIN db.heap, HandleDisconnect(c)
  PROVE  IInv'
<1> DEFINE z == [db.heap[c] EXCEPT !.state = "disconnecting"]
           m == [db EXCEPT !.heap = [db.heap EXCEPT ![c] = z]]
<1>1. db \in Db /\ Good(db) /\ db.heap[c] \in Ctx /\ db.heap \in Heaps
  BY ContextType DEF IInv, Good, Loose
<1>2. db' = DoDisconnect(m, c) /\ granted' = granted
  <2>1. [db.heap EXCEPT ![c].state = "disconnecting"] = [db.heap EXCEPT ![c] = z]
    BY <1>1, HeapType
  <2>2. [db EXCEPT !.heap[c].state = "disconnecting"] = m
    BY <1>1, <2>1 DEF Db
  <2> QED
    BY <2>2 DEF HandleDisconnect, Step
<1>3. z \in Ctx /\ Marked(db.heap[c], z)
  BY <1>1 DEF Ctx, States, Marked
<1> HIDE DEF z
<1>4. c \notin Range(db.ll_for_free)
  BY <1>1 DEF HandleDisconnect, Good, Owned
<1>5. Good(db') /\ Frame(db, db')
  BY <1>1, <1>2, <1>3, <1>4, MarkDisconnect
<1> QED
  BY <1>2, <1>5, FrameStep

LEMMA WsClosedInv ==
  ASSUME IInv, NEW c \in DOMAIN db.heap, WsClosed(c)
  PROVE  IInv'
<1> DEFINE z == [db.heap[c] EXCEPT !.wsi = FALSE]
           m == [db EXCEPT !.heap = [db.heap EXCEPT ![c] = z]]
<1>1. db \in Db /\ Good(db) /\ db.heap[c] \in Ctx /\ db.heap \in Heaps
  BY ContextType DEF IInv, Good, Loose
<1>2. db' = DoDisconnect(m, c) /\ granted' = granted
  <2>1. [db.heap EXCEPT ![c].wsi = FALSE] = [db.heap EXCEPT ![c] = z]
    BY <1>1, HeapType
  <2>2. [db EXCEPT !.heap[c].wsi = FALSE] = m
    BY <1>1, <2>1 DEF Db
  <2> QED
    BY <2>2 DEF WsClosed, Step
<1>3. c \notin Range(db.ll_for_free) /\ db.heap[c].state # "disconnected"
  BY <1>1 DEF WsClosed, Good, Owned
<1>4. z \in Ctx /\ Marked(db.heap[c], z)
  BY <1>1, <1>3 DEF Ctx, Marked
<1> HIDE DEF z
<1>5. Good(db') /\ Frame(db, db')
  BY <1>1, <1>2, <1>3, <1>4, MarkDisconnect
<1> QED
  BY <1>2, <1>5, FrameStep
\* A context that no CONNECT has been accepted for is disconnected before its connection ends.
LEMMA RefusedClosable ==
  ASSUME IInv, NEW c \in DOMAIN db.heap, db.heap[c].state = "new", db.heap[c].open,
         NEW m, m = ContextDisconnect(db, c)
  PROVE  Closable(m, c) /\ Frame(db, m)
<1>1. db \in Db /\ Good(db) /\ db.heap[c] \in Ctx /\ db.client_count \in Int /\ db.made \in Nat
  BY ContextType DEF IInv, Good, Loose, Db
<1>2. /\ db.heap[c].state = "new" /\ db.heap[c].open /\ db.heap[c].id = NoId
      /\ c \notin Range(db.ll_for_free) /\ Fit(db, c)
  BY <1>1 DEF Good, Loose, Fit, Owned
<1>3. Closable(m, c) /\ Frame(db, m)
  <2> DEFINE x == db.heap[c]
             y == m.heap[c]
  <2>1. /\ m \in Db /\ Others(db, m, c) /\ SameLists(db, m)
        /\ m.client_count = db.client_count - (IF x.listener THEN 1 ELSE 0)
        /\ y.kind = x.kind /\ ~y.open /\ y.wsi = x.wsi /\ ~y.listener /\ y.id = x.id
        /\ y.clean_session = x.clean_session /\ y.will = 0 /\ y.sub = x.sub
        /\ y.state \in {"new", "disconnect_ws"}
    <3>1. m = ContextDisconnect(db, c) /\ x = db.heap[c] /\ y = m.heap[c]
      OBVIOUS
    <3>2. db \in Db /\ c \in DOMAIN db.heap /\ x.state = "new"
      BY <1>1, <1>2
    <3> HIDE DEF x, y
    <3> QED
      BY ONLY <3>1, <3>2, DisconnectFacts
  <2>2. m.client_count = Cardinality(Listening(m)) /\ m.client_count <= db.client_count
    <3>1. c \in Listening(db) <=> x.listener
      BY <1>2 DEF Listening, Fit
    <3>2. m.client_count = db.client_count - (IF c \in Listening(db) THEN 1 ELSE 0)
      BY <2>1, <3>1
    <3> QED
      BY <1>1, <2>1, <3>2, CountKept DEF Good
  <2>3. OneEach(m)
    BY <1>1, <2>1 DEF Good, Loose, OneEach, Others, Like
  <2>4. ASSUME NEW e \in DOMAIN db.heap
        PROVE  Fit(m, e) /\ (e # c => Owned(m, e))
    <3>1. Fit(db, e) /\ Owned(db, e)
      BY <1>1 DEF Good, Loose
    <3>2. CASE e = c
      <4>1. y.will <= m.made
        BY <1>1, <2>1 DEF SameLists
      <4> QED
        BY <1>2, <2>1, <3>1, <3>2, <4>1 DEF Fit, SameLists
    <3>3. CASE e # c
      <4>1. Like(db.heap[e], m.heap[e])
        BY <2>1, <3>3 DEF Others
      <4>2. Fit(m, e)
        BY <2>1, <3>1, <4>1 DEF Fit, Like, SameLists
      <4>3. Owned(m, e)
        BY <2>1, <3>1, <4>1 DEF Owned, Like, SameLists
      <4> QED
        BY <4>2, <4>3
    <3> QED
      BY <3>2, <3>3
  <2>5. DOMAIN m.heap = DOMAIN db.heap
    BY <2>1 DEF Others
  <2>6. Loose(m)
    BY <1>1, <2>1, <2>2, <2>3, <2>4, <2>5 DEF Good, Loose, SameLists
  <2>7. Closable(m, c)
    BY <1>1, <1>2, <2>1, <2>4, <2>5, <2>6 DEF Closable, Good, SameLists
  <2>8. Frame(db, m)
    BY <1>2, <2>1, <2>2, <2>5 DEF Frame, Others, Like, SameLists
  <2> QED
    BY <2>7, <2>8
<1> QED
  BY <1>3

LEMMA RefuseInv ==
  ASSUME IInv, NEW c \in DOMAIN db.heap, NEW id, Refuse(c, id)
  PROVE  IInv'
<1> DEFINE m == ContextDisconnect(db, c)
<1>1. db' = DoDisconnect(m, c) /\ granted' = granted
  BY DEF Refuse, Step
<1>2. Closable(m, c) /\ Frame(db, m)
  BY RefusedClosable DEF Refuse
<1> HIDE DEF m
<1>3. Good(db') /\ Frame(m, db')
  BY <1>1, <1>2, DisconnectGood
<1>4. Frame(db, db')
  <2>1. db.client_count \in Int /\ m.client_count \in Int /\ db'.client_count \in Int
    BY <1>2, <1>3 DEF IInv, Good, Closable, Loose, Db
  <2> QED
    BY <1>2, <1>3, <2>1, FrameFacts
<1> QED
  BY <1>1, <1>3, <1>4, FrameStep

LEMMA SentInv ==
  ASSUME IInv, NEW c \in DOMAIN db.heap, Sent(c)
  PROVE  IInv'
<1> DEFINE s == Tail(db.heap[c].msgs)
           z == [db.heap[c] EXCEPT !.msgs = s]
<1>1. db \in Db /\ Good(db) /\ db.heap[c] \in Ctx /\ db.heap \in Heaps
  BY ContextType DEF IInv, Good, Loose
<1>2. db' = [db EXCEPT !.heap = [db.heap EXCEPT ![c] = z]] /\ granted' = granted
  <2>1. [db.heap EXCEPT ![c].msgs = Tail(@)] = [db.heap EXCEPT ![c] = z]
    BY <1>1, HeapType
  <2>2. [db EXCEPT !.heap[c].msgs = Tail(@)] = [db EXCEPT !.heap = [db.heap EXCEPT ![c] = z]]
    BY <1>1, <2>1 DEF Db
  <2> QED
    BY <2>2 DEF Sent, Step
<1>3. z \in Ctx /\ Like(db.heap[c], z)
  <2>1. s \in Seq(Nat)
    BY <1>1 DEF Sent, Ctx
  <2> QED
    BY <1>1, <2>1, WithMsgs
<1> HIDE DEF z
<1>4. /\ db' \in Db /\ Others(db, db', c) /\ SameLists(db, db')
      /\ db'.client_count = db.client_count /\ db'.heap[c] = z /\ DOMAIN db'.heap = DOMAIN db.heap
  BY <1>1, <1>2, <1>3, AlterFacts
<1>5. \A e \in DOMAIN db.heap : Like(db.heap[e], db'.heap[e])
  BY <1>3, <1>4 DEF Others
<1>6. Good(db') /\ Frame(db, db')
  BY <1>1, <1>4, <1>5, SameGood
<1> QED
  BY <1>2, <1>6, FrameStep

------------------------------------------------------------------------------
\* The actions with loops.

LEMMA FreeDisusedInv ==
  ASSUME IInv, FreeDisused
  PROVE  IInv'
<1> DEFINE s == db.ll_for_free
           n == Len(s)
           m == Each(ContextCleanup, db, s)
           Gone(i) == {s[j] : j \in 1..i}
           J == [i \in 0..n |->
                   {x \in Db : /\ Loose(x) /\ DOMAIN x.heap = DOMAIN db.heap \ Gone(i)
                               /\ \A e \in DOMAIN x.heap : Like(db.heap[e], x.heap[e])
                               /\ x.ll_for_free = s /\ x.made = db.made
                               /\ x.client_count <= db.client_count}]
<1>1. /\ db \in Db /\ Good(db) /\ Loose(db) /\ db.client_count \in Int
      /\ s \in Seq(Context) /\ n \in Nat /\ DOMAIN s = 1..n /\ Distinct(s)
  BY DEF IInv, Good, Loose, Db
<1>2. db' = [m EXCEPT !.ll_for_free = <<>>] /\ granted' = granted
  BY DEF FreeDisused, Step
<1>3. db \in J[0]
  <2>1. 0 \in 0..n /\ Gone(0) = {}
    BY <1>1
  <2>2. db.client_count <= db.client_count
    BY <1>1
  <2> HIDE DEF Gone
  <2> QED
    BY <1>1, <2>1, <2>2, LikeSame
<1>4. ASSUME NEW i \in 1..n, NEW x \in J[i - 1]
      PROVE  ContextCleanup(x, s[i]) \in J[i]
  <2> DEFINE k == ContextCleanup(x, s[i])
  <2>1. i - 1 \in 0..n /\ i \in 0..n /\ i \in DOMAIN s
    BY <1>1
  <2>2. /\ x \in Db /\ Loose(x) /\ DOMAIN x.heap = DOMAIN db.heap \ Gone(i - 1)
        /\ \A e \in DOMAIN x.heap : Like(db.heap[e], x.heap[e])
        /\ x.ll_for_free = s /\ x.made = db.made /\ x.client_count <= db.client_count
        /\ x.client_count \in Int
    BY <2>1 DEF Db
  <2>3. s[i] \in DOMAIN x.heap
    <3>1. s[i] \in Range(s)
      BY <2>1 DEF Range
    <3>2. s[i] \in DOMAIN db.heap
      BY <1>1, <3>1 DEF Good
    <3>3. \A j \in 1..i - 1 : j \in DOMAIN s /\ j # i
      BY <1>1
    <3>4. s[i] \notin Gone(i - 1)
      BY <1>1, <2>1, <3>3 DEF Distinct
    <3> QED
      BY <2>2, <3>2, <3>4
  <2>4. Gone(i) = Gone(i - 1) \cup {s[i]}
    <3>1. 1..i = (1..i - 1) \cup {i}
      BY <2>1
    <3> QED
      BY <3>1
  <2> HIDE DEF Gone, J
  <2>5. /\ Loose(k) /\ DOMAIN k.heap = DOMAIN x.heap \ {s[i]}
        /\ \A e \in DOMAIN k.heap : Like(x.heap[e], k.heap[e])
        /\ k.ll_for_free = x.ll_for_free /\ k.made = x.made
        /\ k.client_count = x.client_count - (IF s[i] \in Listening(x) THEN 1 ELSE 0)
    BY <2>2, <2>3, CleanupLoose
  <2> HIDE DEF k
  <2>6. k.client_count <= db.client_count
    BY <1>1, <2>2, <2>5
  <2>7. \A e \in DOMAIN k.heap : Like(db.heap[e], k.heap[e])
    BY <2>2, <2>5, LikeTransitive
  <2>8. k \in Db
    BY <2>5 DEF Loose
  <2>9. DOMAIN k.heap = DOMAIN db.heap \ Gone(i)
    BY <2>2, <2>4, <2>5
  <2>10. k \in J[i]
    BY <2>1, <2>2, <2>5, <2>6, <2>7, <2>8, <2>9 DEF J
  <2> QED
    BY <2>10 DEF k
<1>5. m \in J[n]
  <2>1. \A i \in 0..n : J[i] \subseteq Db
    OBVIOUS
  <2> HIDE DEF J
  <2> QED
    BY <1>1, <1>3, <1>4, <2>1, EachCleanup
<1>6. /\ m \in Db /\ Loose(m) /\ DOMAIN m.heap = DOMAIN db.heap \ Range(s)
      /\ \A e \in DOMAIN m.heap : Like(db.heap[e], m.heap[e])
      /\ m.made = db.made /\ m.client_count <= db.client_count
  <2>1. n \in 0..n /\ Gone(n) = Range(s)
    BY <1>1 DEF Range
  <2> HIDE DEF m, Gone
  <2> QED
    BY <1>5, <2>1
<1> HIDE DEF m, J
<1>7. /\ db' \in Db /\ db'.heap = m.heap /\ db'.by_id = m.by_id /\ db'.leaves = m.leaves
      /\ db'.ll_for_free = <<>> /\ db'.made = m.made /\ db'.client_count = m.client_count
  <2>1. <<>> \in Seq(Context)
    OBVIOUS
  <2> QED
    BY <1>2, <1>6, <2>1 DEF Db
<1>8. Loose(db')
  <2>1. Distinct(db'.ll_for_free)
    BY <1>7 DEF Distinct
  <2>2. Listening(db') = Listening(m) /\ OneEach(db')
    BY <1>6, <1>7 DEF Listening, Loose, OneEach
  <2>3. \A e \in DOMAIN db'.heap : Fit(db', e)
    BY <1>6, <1>7 DEF Loose, Fit
  <2> QED
    BY <1>6, <1>7, <2>1, <2>2, <2>3 DEF Loose
<1>9. ASSUME NEW e \in DOMAIN db'.heap
      PROVE  Owned(db', e)
  <2>1. e \in DOMAIN db.heap /\ e \notin Range(s) /\ Like(db.heap[e], db'.heap[e])
    BY <1>6, <1>7
  <2>2. Owned(db, e) /\ e \notin Range(db'.ll_for_free)
    BY <1>1, <1>7, <2>1 DEF Good, Range
  <2> QED
    BY <2>1, <2>2 DEF Owned, Like
<1>10. Good(db')
  <2>1. Range(db'.ll_for_free) = {}
    BY <1>7 DEF Range
  <2> QED
    BY <1>8, <1>9, <2>1 DEF Good
<1>11. Fresh(db') /\ Grants(db', granted)
  BY <1>6, <1>7 DEF IInv, Fresh, Grants, Like
<1>12. db'.client_count <= MaxClients
  BY <1>1, <1>6, <1>7, <1>10, ClientAssumption DEF IInv, Db
<1> QED
  BY <1>2, <1>10, <1>11, <1>12 DEF IInv
LEMMA ExpireOneGood ==
  ASSUME NEW d, Good(d), NEW c \in DOMAIN d.heap, ~d.heap[c].clean_session,
         NEW k, k = ExpireOne(d, c)
  PROVE  Good(k) /\ Frame(d, k) /\ Others(d, k, c)
<1> DEFINE z == [d.heap[c] EXCEPT !.clean_session = TRUE, !.state = "expiring"]
           m == [d EXCEPT !.heap = [d.heap EXCEPT ![c] = z]]
<1>1. d \in Db /\ d.heap[c] \in Ctx /\ d.heap \in Heaps
  BY ContextType DEF Good, Loose
<1>2. k = DoDisconnect(m, c)
  <2>1. [d.heap EXCEPT ![c].clean_session = TRUE, ![c].state = "expiring"] = [d.heap EXCEPT ![c] = z]
    BY <1>1, HeapType
  <2>2. [d EXCEPT !.heap[c].clean_session = TRUE, !.heap[c].state = "expiring"] = m
    BY <1>1, <2>1 DEF Db
  <2> QED
    BY <2>2 DEF ExpireOne
<1>3. z \in Ctx /\ Marked(d.heap[c], z)
  BY <1>1 DEF Ctx, States, Marked
<1> HIDE DEF z
<1>4. c \notin Range(d.ll_for_free)
  BY <1>1 DEF Good, Owned
<1> QED
  BY <1>1, <1>2, <1>3, <1>4, MarkDisconnect

LEMMA ExpireInv ==
  ASSUME IInv, NEW old, Expire(old)
  PROVE  IInv'
<1> DEFINE S == {i \in DOMAIN db.by_id :
                   /\ db.by_id[i] \in {c \in Range(db.by_id) : ~db.heap[c].open /\ ~db.heap[c].clean_session}
                   /\ db.by_id[i] \in old \/ ~db.heap[db.by_id[i]].timed}
           s == Those(db.by_id, S)
           n == Len(s)
           J == [i \in 0..n |->
                   {x \in Db : /\ Good(x) /\ Frame(db, x)
                               /\ \A j \in i + 1..n : Like(db.heap[s[j]], x.heap[s[j]])}]
<1>1. /\ db \in Db /\ Good(db) /\ db.by_id \in Seq(Context) /\ Distinct(db.by_id)
      /\ db.client_count \in Int /\ Range(db.by_id) \subseteq DOMAIN db.heap
  BY DEF IInv, Good, Loose, Db
<1>2. db' = Each(ExpireOne, db, s) /\ granted' \subseteq granted
  BY DEF Expire
<1>3. S \subseteq DOMAIN db.by_id /\ \A i \in S : ~db.heap[db.by_id[i]].clean_session
  OBVIOUS
<1> HIDE DEF S
<1>4. /\ s \in Seq(Context) /\ Distinct(s)
      /\ \A i \in DOMAIN s : s[i] \in DOMAIN db.heap /\ ~db.heap[s[i]].clean_session
  <2>1. /\ s \in Seq(Context) /\ Distinct(s)
        /\ \A x : (\E i \in DOMAIN s : s[i] = x) <=> \E i \in S : db.by_id[i] = x
    BY <1>1, <1>3, ThoseFacts DEF Distinct
  <2> HIDE DEF s
  <2>2. ASSUME NEW i \in DOMAIN s
        PROVE  s[i] \in DOMAIN db.heap /\ ~db.heap[s[i]].clean_session
    <3>1. PICK j \in S : db.by_id[j] = s[i]
      BY <2>1
    <3>2. db.by_id[j] \in Range(db.by_id)
      BY <1>3 DEF Range
    <3> QED
      BY <1>1, <1>3, <3>1, <3>2
  <2> QED
    BY <2>1, <2>2
<1> HIDE DEF s
<1>5. n \in Nat /\ DOMAIN s = 1..n
  BY <1>4
<1>6. db \in J[0]
  <2>1. 0 \in 0..n /\ db.client_count <= db.client_count
    BY <1>1, <1>5
  <2>2. Frame(db, db)
    BY <2>1 DEF Frame
  <2> QED
    BY <1>1, <2>1, <2>2, LikeSame
<1>7. ASSUME NEW i \in 1..n, NEW x \in J[i - 1]
      PROVE  ExpireOne(x, s[i]) \in J[i]
  <2> DEFINE k == ExpireOne(x, s[i])
  <2>1. i - 1 \in 0..n /\ i \in 0..n /\ i \in DOMAIN s /\ i \in i - 1 + 1..n
    BY <1>5
  <2>2. /\ x \in Db /\ Good(x) /\ Frame(db, x)
        /\ \A j \in i - 1 + 1..n : Like(db.heap[s[j]], x.heap[s[j]])
    BY <2>1
  <2>3. s[i] \in DOMAIN x.heap /\ ~x.heap[s[i]].clean_session
    BY <1>4, <2>1, <2>2 DEF Frame, Like
  <2> HIDE DEF J
  <2>4. Good(k) /\ Frame(x, k) /\ Others(x, k, s[i])
    BY <2>2, <2>3, ExpireOneGood
  <2> HIDE DEF k
  <2>5. k \in Db /\ x.client_count \in Int /\ k.client_count \in Int
    BY <2>2, <2>4 DEF Good, Loose, Db
  <2>6. Frame(db, k)
    BY <1>1, <2>2, <2>4, <2>5, FrameFacts
  <2>7. ASSUME NEW j \in i + 1..n
        PROVE  Like(db.heap[s[j]], k.heap[s[j]])
    <3>1. j \in DOMAIN s /\ j # i /\ j \in i - 1 + 1..n
      BY <1>5
    <3>2. s[j] # s[i] /\ s[j] \in DOMAIN x.heap
      BY <1>4, <2>1, <2>2, <3>1 DEF Distinct, Frame
    <3>3. Like(db.heap[s[j]], x.heap[s[j]]) /\ Like(x.heap[s[j]], k.heap[s[j]])
      BY <2>2, <2>4, <3>1, <3>2 DEF Others
    <3> QED
      BY <3>3, LikeTransitive
  <2>8. k \in J[i]
    BY <2>1, <2>4, <2>5, <2>6, <2>7 DEF J
  <2> QED
    BY <2>8 DEF k
<1>8. db' \in J[n]
  <2>1. \A i \in 0..n : J[i] \subseteq Db
    OBVIOUS
  <2> HIDE DEF J
  <2> QED
    BY <1>2, <1>4, <1>6, <1>7, <2>1, EachExpire
<1>9. Good(db') /\ Frame(db, db')
  <2>1. n \in 0..n
    BY <1>5
  <2> QED
    BY <1>8, <2>1
<1> QED
  BY <1>2, <1>9, FrameStep

------------------------------------------------------------------------------
\* The files.  The loop over the lines of the ACL file has at each line what the lines
\* before it say, and so ends with what the file says.

Before(lines, n, word) == {i \in Rules(lines, word) : i <= n}

ListTo(lines, n) ==
  [id \in {UserOf(lines, i) : i \in Before(lines, n, "topic")} |->
     UNION {Granted(lines[i]) : i \in {j \in Before(lines, n, "topic") : UserOf(lines, j) = id}}]

PatternsTo(lines, n) == UNION {Granted(lines[i]) : i \in Before(lines, n, "pattern")}

TornTo(lines, n) == \E j \in 1..n : Torn(lines[j])

Parsed == [list : Rights, patterns : SUBSET Right, user : Id \cup {NoId}, error : BOOLEAN]

\* what the loop has after n lines, begun with no list and the patterns q
ParsedTo(lines, q, n) ==
  {p \in Parsed : /\ p.error = TornTo(lines, n)
                  /\ p.list = ListTo(lines, n) /\ p.patterns = q \cup PatternsTo(lines, n)
                  /\ ~p.error => p.user = UserOf(lines, n)}

LEMMA GrantedType ==
  ASSUME NEW line \in AclLine, line.word \in {"topic", "pattern"}
  PROVE  Granted(line) \in SUBSET Right
  BY DEF Granted, Right

LEMMA UserOfType ==
  ASSUME NEW lines \in Seq(AclLine), NEW i \in 0..Len(lines)
  PROVE  UserOf(lines, i) \in Id \cup {NoId}
<1> DEFINE heads == Heads(lines, i)
           T == {k \in 0..i : k # 0 /\ lines[i + 1 - k].word = "user"}
<1>1. CASE heads = {}
  BY <1>1 DEF UserOf
<1>2. CASE heads # {}
  <2>1. PICK m \in T : \A k \in T : m <= k
    <3>1. T \in SUBSET Nat
      OBVIOUS
    <3>2. T # {}
      <4>1. PICK j \in heads : TRUE
        BY <1>2
      <4>2. i + 1 - j \in T
        BY <4>1 DEF Heads
      <4> QED
        BY <4>2
    <3> HIDE DEF T
    <3> QED
      BY <3>1, <3>2, Least
  <2>2. i + 1 - m \in heads
    BY <2>1 DEF Heads
  <2>3. \A k \in heads : k <= i + 1 - m
    <3>1. SUFFICES ASSUME NEW k \in heads PROVE k <= i + 1 - m
      OBVIOUS
    <3>2. i + 1 - k \in T
      BY DEF Heads
    <3> QED
      BY <2>1, <3>2 DEF Heads
  <2> DEFINE h == Max(heads)
  <2>4. h \in heads
    <3> HIDE DEF heads, T
    <3> QED
      BY <2>2, <2>3 DEF Max
  <2>5. UserOf(lines, i) = lines[h].name
    BY <1>2 DEF UserOf
  <2> HIDE DEF h
  <2>6. h \in 1..i /\ lines[h] \in AclLine /\ lines[h].word = "user"
    BY <2>4 DEF Heads
  <2>7. lines[h].name \in Id \cup {NoId}
    BY <2>6 DEF AclLine
  <2> QED
    BY <2>5, <2>7
<1> QED
  BY <1>1, <1>2

\* The user of the next line is that of the line before, or the one it names.
LEMMA UserOfNext ==
  ASSUME NEW lines \in Seq(AclLine), NEW i \in 1..Len(lines)
  PROVE  UserOf(lines, i) = IF lines[i].word = "user" THEN lines[i].name ELSE UserOf(lines, i - 1)
<1>1. CASE lines[i].word = "user"
  <2>1. i \in Heads(lines, i) /\ \A k \in Heads(lines, i) : k <= i /\ k \in Int
    BY <1>1 DEF Heads
  <2>2. \A j \in Heads(lines, i) : (\A k \in Heads(lines, i) : j >= k) => j = i
    BY <2>1
  <2>3. Max(Heads(lines, i)) = i
    BY <2>1, <2>2 DEF Max
  <2> QED
    BY <1>1, <2>1, <2>3 DEF UserOf
<1>2. CASE lines[i].word # "user"
  <2>1. Heads(lines, i) = Heads(lines, i - 1)
    BY <1>2 DEF Heads
  <2> QED
    BY <1>2, <2>1 DEF UserOf
<1> QED
  BY <1>1, <1>2

\* A line adds a rule when it is one and no line up to it is in error.
LEMMA BeforeNext ==
  ASSUME NEW lines \in Seq(AclLine), NEW i \in 1..Len(lines), NEW word
  PROVE  Before(lines, i, word) = IF lines[i].word = word /\ ~TornTo(lines, i)
                                  THEN Before(lines, i - 1, word) \cup {i}
                                  ELSE Before(lines, i - 1, word)
<1>1. \A j \in DOMAIN lines : j <= i <=> j <= i - 1 \/ j = i
  OBVIOUS
<1>2. i \in Rules(lines, word) <=> lines[i].word = word /\ ~TornTo(lines, i)
  BY DEF Rules, TornTo
<1>3. Rules(lines, word) \subseteq DOMAIN lines
  BY DEF Rules
<1>4. i <= i /\ ~(i <= i - 1)
  OBVIOUS
<1> QED
  BY <1>1, <1>2, <1>3, <1>4 DEF Before

LEMMA TornNext ==
  ASSUME NEW lines \in Seq(AclLine), NEW i \in 1..Len(lines)
  PROVE  TornTo(lines, i) <=> TornTo(lines, i - 1) \/ Torn(lines[i])
<1>1. 1..i = (1..i - 1) \cup {i}
  OBVIOUS
<1> QED
  BY <1>1 DEF TornTo

LEMMA PutType ==
  ASSUME NEW list \in Rights, NEW id \in Id \cup {NoId}, NEW r \in SUBSET Right
  PROVE  Put(list, id, r) \in Rights
<1>1. DOMAIN list \in SUBSET (Id \cup {NoId}) /\ list \in [DOMAIN list -> SUBSET Right]
  BY DEF Rights
<1>2. Put(list, id, r) \in [DOMAIN list \cup {id} -> SUBSET Right]
  BY <1>1 DEF Put
<1>3. DOMAIN list \cup {id} \in SUBSET (Id \cup {NoId})
  BY <1>1
<1> QED
  BY <1>2, <1>3 DEF Rights

\* A rule is added to the list as it is to what the lines say.
LEMMA RuleAdded ==
  ASSUME NEW lines \in Seq(AclLine), NEW i \in 1..Len(lines),
         lines[i].word = "topic", ~TornTo(lines, i)
  PROVE  LET u == UserOf(lines, i)
             l == ListTo(lines, i - 1)
         IN  ListTo(lines, i) = Put(l, u, Granted(lines[i]) \cup IF u \in DOMAIN l THEN l[u] ELSE {})
<1> DEFINE u == UserOf(lines, i)
           l == ListTo(lines, i - 1)
           B == Before(lines, i - 1, "topic")
           C == Before(lines, i, "topic")
           r(id, S) == UNION {Granted(lines[j]) : j \in {k \in S : UserOf(lines, k) = id}}
           g == Granted(lines[i])
           k == Put(l, u, g \cup IF u \in DOMAIN l THEN l[u] ELSE {})
<1>1. C = B \cup {i}
  BY BeforeNext
<1>2. l = [id \in {UserOf(lines, j) : j \in B} |-> r(id, B)]
  BY DEF ListTo
<1>3. ListTo(lines, i) = [id \in {UserOf(lines, j) : j \in C} |-> r(id, C)]
  BY DEF ListTo
<1> HIDE DEF l, B, C
<1>4. DOMAIN l = {UserOf(lines, j) : j \in B}
  BY <1>2
<1>5. {UserOf(lines, j) : j \in C} = DOMAIN l \cup {u}
  BY <1>1, <1>4
<1>6. ASSUME NEW id, id # u
      PROVE  r(id, C) = r(id, B)
  <2>1. {j \in C : UserOf(lines, j) = id} = {j \in B : UserOf(lines, j) = id}
    BY <1>1, <1>6
  <2> QED
    BY <2>1
<1>7. r(u, C) = g \cup r(u, B)
  <2>1. {j \in C : UserOf(lines, j) = u} = {j \in B : UserOf(lines, j) = u} \cup {i}
    BY <1>1
  <2> DEFINE X == {j \in C : UserOf(lines, j) = u}
             Y == {j \in B : UserOf(lines, j) = u}
  <2> HIDE DEF X, Y
  <2>2. X = Y \cup {i} => UNION {Granted(lines[j]) : j \in X} = g \cup UNION {Granted(lines[j]) : j \in Y}
    OBVIOUS
  <2> QED
    BY <2>1, <2>2 DEF X, Y
<1>8. u \notin DOMAIN l => r(u, B) = {}
  BY <1>4
<1>9. \A id \in DOMAIN l : l[id] = r(id, B)
  BY <1>2
<1> HIDE DEF r, g, u
<1>10. k = [id \in DOMAIN l \cup {u} |-> IF id = u THEN g \cup IF u \in DOMAIN l THEN l[u] ELSE {} ELSE l[id]]
  BY DEF Put
<1>11. \A id \in DOMAIN l \cup {u} :
         r(id, C) = IF id = u THEN g \cup IF u \in DOMAIN l THEN l[u] ELSE {} ELSE l[id]
  BY <1>6, <1>7, <1>8, <1>9
<1>12. ListTo(lines, i) = k
  BY <1>3, <1>5, <1>10, <1>11
<1> QED
  BY <1>12 DEF k, l, u, g

LEMMA PatternAdded ==
  ASSUME NEW lines \in Seq(AclLine), NEW i \in 1..Len(lines),
         lines[i].word = "pattern", ~TornTo(lines, i)
  PROVE  PatternsTo(lines, i) = PatternsTo(lines, i - 1) \cup Granted(lines[i])
<1>1. Before(lines, i, "pattern") = Before(lines, i - 1, "pattern") \cup {i}
  BY BeforeNext
<1> QED
  BY <1>1 DEF PatternsTo

LEMMA ParseKeeps ==
  ASSUME NEW lines \in Seq(AclLine), NEW q \in SUBSET Right, NEW i \in 1..Len(lines),
         NEW p \in ParsedTo(lines, q, i - 1)
  PROVE  ParseLine(p, lines[i]) \in ParsedTo(lines, q, i)
<1> DEFINE line == lines[i]
           k == ParseLine(p, line)
<1>1. line \in AclLine /\ line.word \in {"topic", "pattern", "user", "comment"}
  BY DEF AclLine
<1>2. /\ p \in Parsed /\ p.error = TornTo(lines, i - 1)
      /\ p.list = ListTo(lines, i - 1) /\ p.patterns = q \cup PatternsTo(lines, i - 1)
      /\ ~p.error => p.user = UserOf(lines, i - 1)
  BY DEF ParsedTo
<1>3. TornTo(lines, i) <=> p.error \/ Torn(line)
  BY <1>2, TornNext
<1>4. UserOf(lines, i) = IF line.word = "user" THEN line.name ELSE UserOf(lines, i - 1)
  BY UserOfNext
<1>5. ASSUME NEW word, line.word # word \/ TornTo(lines, i)
      PROVE  Before(lines, i, word) = Before(lines, i - 1, word)
  BY <1>5, BeforeNext
<1>6. line.word # "topic" \/ TornTo(lines, i) => ListTo(lines, i) = ListTo(lines, i - 1)
  BY <1>5 DEF ListTo
<1>7. line.word # "pattern" \/ TornTo(lines, i) => PatternsTo(lines, i) = PatternsTo(lines, i - 1)
  BY <1>5 DEF PatternsTo
<1>8. TornTo(lines, i) \in BOOLEAN
  BY DEF TornTo
<1>9. line.word = "comment" => ~Torn(line)
  BY DEF Torn
<1>10. UserOf(lines, i) \in Id \cup {NoId}
  BY UserOfType
<1>11. CASE p.error \/ line.word = "comment"
  <2>1. k = p
    BY <1>2, <1>9, <1>11 DEF ParseLine, Parsed
  <2>2. p.error = TornTo(lines, i)
    BY <1>2, <1>3, <1>9, <1>11, <1>8 DEF Parsed
  <2>3. ~p.error => p.user = UserOf(lines, i)
    BY <1>2, <1>4, <1>11
  <2>4. p.list = ListTo(lines, i) /\ p.patterns = q \cup PatternsTo(lines, i)
    BY <1>2, <1>3, <1>6, <1>7, <1>11
  <2> QED
    BY <1>2, <2>1, <2>2, <2>3, <2>4 DEF ParsedTo
<1>12. CASE ~p.error /\ line.word # "comment" /\ Torn(line)
  <2>1. k = [p EXCEPT !.error = TRUE]
    BY <1>12 DEF ParseLine
  <2>2. k \in Parsed /\ k.error = TRUE /\ k.list = p.list /\ k.patterns = p.patterns
    BY <1>2, <2>1 DEF Parsed
  <2>3. TornTo(lines, i) = TRUE
    BY <1>3, <1>8, <1>12
  <2>4. p.list = ListTo(lines, i) /\ p.patterns = q \cup PatternsTo(lines, i)
    BY <1>2, <1>6, <1>7, <2>3
  <2> QED
    BY <2>2, <2>3, <2>4 DEF ParsedTo
<1>13. CASE ~p.error /\ line.word = "user" /\ ~Torn(line)
  <2>1. k = [p EXCEPT !.user = line.name]
    BY <1>13 DEF ParseLine
  <2>2. line.name = UserOf(lines, i)
    BY <1>4, <1>13
  <2>3. k \in Parsed /\ k.error = p.error /\ k.list = p.list /\ k.patterns = p.patterns /\ k.user = line.name
    BY <1>2, <1>10, <2>1, <2>2 DEF Parsed
  <2>4. p.error = TornTo(lines, i)
    BY <1>2, <1>3, <1>8, <1>13 DEF Parsed
  <2>5. p.list = ListTo(lines, i) /\ p.patterns = q \cup PatternsTo(lines, i)
    BY <1>2, <1>6, <1>7, <1>13
  <2> QED
    BY <2>2, <2>3, <2>4, <2>5 DEF ParsedTo
<1>14. CASE ~p.error /\ line.word = "topic" /\ ~Torn(line)
  <2> DEFINE r == Granted(line) \cup IF p.user \in DOMAIN p.list THEN p.list[p.user] ELSE {}
  <2>1. k = [p EXCEPT !.list = Put(p.list, p.user, r)]
    BY <1>14 DEF ParseLine, AddAcl
  <2>2. p.user = UserOf(lines, i)
    BY <1>2, <1>4, <1>14
  <2>3. r \in SUBSET Right
    BY <1>1, <1>2, <1>14, GrantedType DEF Parsed, Rights
  <2>4. ListTo(lines, i) = Put(p.list, p.user, r)
    BY <1>2, <1>3, <1>14, <2>2, RuleAdded
  <2> HIDE DEF r
  <2>5. Put(p.list, p.user, r) \in Rights
    BY <1>2, <2>3, PutType DEF Parsed
  <2>6. k \in Parsed /\ k.error = p.error /\ k.list = ListTo(lines, i) /\ k.patterns = p.patterns /\ k.user = p.user
    BY <1>2, <2>1, <2>4, <2>5 DEF Parsed
  <2>7. p.error = TornTo(lines, i)
    BY <1>2, <1>3, <1>8, <1>14 DEF Parsed
  <2>8. p.patterns = q \cup PatternsTo(lines, i)
    BY <1>2, <1>7, <1>14
  <2> QED
    BY <2>2, <2>6, <2>7, <2>8 DEF ParsedTo
<1>15. CASE ~p.error /\ line.word = "pattern" /\ ~Torn(line)
  <2> DEFINE r == p.patterns \cup Granted(line)
  <2>1. k = [p EXCEPT !.patterns = r]
    BY <1>15 DEF ParseLine, AddAclPattern
  <2>2. p.user = UserOf(lines, i)
    BY <1>2, <1>4, <1>15
  <2>3. r \in SUBSET Right
    BY <1>1, <1>2, <1>15, GrantedType DEF Parsed
  <2>4. r = q \cup PatternsTo(lines, i)
    BY <1>2, <1>3, <1>15, PatternAdded
  <2> HIDE DEF r
  <2>5. k \in Parsed /\ k.error = p.error /\ k.list = p.list /\ k.patterns = r /\ k.user = p.user
    BY <1>2, <2>1, <2>3 DEF Parsed
  <2>6. p.error = TornTo(lines, i)
    BY <1>2, <1>3, <1>8, <1>15 DEF Parsed
  <2>7. p.list = ListTo(lines, i)
    BY <1>2, <1>6, <1>15
  <2> QED
    BY <2>2, <2>4, <2>5, <2>6, <2>7 DEF ParsedTo
<1> QED
  BY <1>1, <1>11, <1>12, <1>13, <1>14, <1>15

LEMMA EachParse ==
  ASSUME NEW s \in Seq(AclLine), NEW d, NEW J, d \in J[0], NEW D,
         \A i \in 0..Len(s) : J[i] \subseteq D,
         \A i \in 1..Len(s) : \A x \in J[i - 1] : ParseLine(x, s[i]) \in J[i]
  PROVE  Each(ParseLine, d, s) \in J[Len(s)]
<1> DEFINE n == Len(s)
           F == [p \in (1..n) \X D |-> ParseLine(p[2], s[p[1]])]
           P(h) == h = [i \in 0..n |-> IF i = 0 THEN d ELSE ParseLine(h[i - 1], s[i])]
           f == CHOOSE h : P(h)
<1>1. Each(ParseLine, d, s) = f[n]
  BY DEF Each
<1>2. n \in Nat /\ n \in 0..n /\ \A i \in 1..n : i \in 0..n /\ i - 1 \in 0..n /\ i # 0
  OBVIOUS
<1>3. \A i \in 1..n : \A x \in J[i - 1] : F[<<i, x>>] = ParseLine(x, s[i])
  BY <1>2
<1>4. \A i \in 1..n : \A x \in J[i - 1] : F[<<i, x>>] \in J[i]
  BY <1>3
<1> HIDE DEF F
<1>5. PICK g : Loop(g, n, d, F) /\ \A i \in 0..n : g[i] \in J[i]
  <2> HIDE DEF P, f, n
  <2>1. n \in Nat /\ d \in J[0]
    BY <1>2
  <2> QED
    BY ONLY <1>4, <2>1, LoopExists
<1>6. P(g)
  <2>1. \A i \in 0..n : i # 0 => i \in 1..n
    BY <1>2
  <2> QED
    BY <1>2, <1>3, <1>5, <2>1 DEF Loop
<1>7. P(f)
  BY <1>6
<1> HIDE DEF f
<1>8. f[0] = d /\ \A i \in 1..n : f[i] = ParseLine(f[i - 1], s[i])
  BY <1>2, <1>7
<1> HIDE DEF P
<1>9. \A i \in 0..n : f[i] \in J[i]
  BY <1>2, <1>8, LoopKeeps
<1> QED
  BY <1>1, <1>2, <1>9

\* What the parse of a whole file gives, begun with an empty list.
LEMMA AclfileParsed ==
  ASSUME NEW lines \in Seq(AclLine), NEW q \in SUBSET Right
  PROVE  LET p == AclfileParse(<<>>, q, lines)
         IN  /\ p \in Parsed /\ p.error = TornTo(lines, Len(lines))
             /\ p.list = ListSaid(lines) /\ p.patterns = q \cup PatternsSaid(lines)
<1> DEFINE n == Len(lines)
           d == [list |-> <<>>, patterns |-> q, user |-> NoId, error |-> FALSE]
           J == [i \in 0..n |-> ParsedTo(lines, q, i)]
           p == AclfileParse(<<>>, q, lines)
<1>1. n \in Nat /\ 0 \in 0..n /\ n \in 0..n
  OBVIOUS
<1>2. d \in J[0]
  <2>1. <<>> \in Rights
    <3>1. <<>> \in [{} -> SUBSET Right] /\ {} \in SUBSET (Id \cup {NoId})
      OBVIOUS
    <3> QED
      BY <3>1 DEF Rights
  <2>2. d \in Parsed
    BY <2>1 DEF Parsed
  <2>3. TornTo(lines, 0) = FALSE /\ Heads(lines, 0) = {}
    BY DEF TornTo, Heads
  <2>4. \A word : Before(lines, 0, word) = {}
    BY DEF Before, Rules
  <2>5. ListTo(lines, 0) = <<>>
    <3>1. ListTo(lines, 0) \in [{} -> {}]
      BY <2>4 DEF ListTo
    <3> QED
      BY <3>1
  <2>6. PatternsTo(lines, 0) = {}
    BY <2>4 DEF PatternsTo
  <2>7. UserOf(lines, 0) = NoId
    BY <2>3 DEF UserOf
  <2> QED
    BY <1>1, <2>2, <2>3, <2>5, <2>6, <2>7 DEF ParsedTo
<1>3. \A i \in 0..n : J[i] \subseteq Parsed
  BY DEF ParsedTo
<1>4. ASSUME NEW i \in 1..n, NEW x \in J[i - 1]
      PROVE  ParseLine(x, lines[i]) \in J[i]
  <2>1. i - 1 \in 0..n /\ i \in 0..n
    OBVIOUS
  <2> QED
    BY <2>1, ParseKeeps
<1>5. p \in J[n]
  <2>1. p = Each(ParseLine, d, lines)
    BY DEF AclfileParse
  <2> HIDE DEF J, d, p
  <2> QED
    BY ONLY <1>2, <1>3, <1>4, <2>1, lines \in Seq(AclLine), EachParse DEF n
<1>6. p \in ParsedTo(lines, q, n)
  BY <1>1, <1>5
<1>7. \A word : Before(lines, n, word) = Rules(lines, word)
  BY DEF Before, Rules
<1>8. ListTo(lines, n) = ListSaid(lines) /\ PatternsTo(lines, n) = PatternsSaid(lines)
  BY <1>7 DEF ListTo, ListSaid, PatternsTo, PatternsSaid
<1> HIDE DEF p
<1> QED
  BY <1>6, <1>8 DEF ParsedTo, p

LEMMA NoList ==
  ASSUME NEW l \in Rights, DOMAIN l = {}
  PROVE  l = <<>>
  BY DEF Rights

\* Loading files after the lists were emptied leaves contexts and lists alone, and has what
\* the files mean.
LEMMA SecurityLoads ==
  ASSUME NEW d \in Db, d.acl_list = <<>>, NEW f \in FileType
  PROVE  LET k == SecurityInit(d, f)
         IN  /\ k \in Db /\ SameLists(d, k) /\ k.heap = d.heap /\ k.client_count = d.client_count
             /\ k.unpwd = UnpwdFileParse(f.passwords) /\ k.unpwd \in Seq(PwLine)
             /\ k.acl_list = Means(f).list
             /\ k.acl_patterns = d.acl_patterns \cup Means(f).patterns
<1> DEFINE k == SecurityInit(d, f)
           p == AclfileParse(d.acl_list, d.acl_patterns, f.acl)
           u == UnpwdFileParse(f.passwords)
<1>1. f.passwords \in Seq(PwLine) /\ f.acl \in Seq(AclLine) /\ d.acl_patterns \in SUBSET Right
  BY DEF FileType, Db
<1>2. u \in Seq(PwLine)
  <2> DEFINE n == Len(f.passwords)
  <2>1. n \in Nat /\ DOMAIN f.passwords = 1..n
    BY <1>1
  <2>2. ASSUME NEW i \in 1..n
        PROVE  f.passwords[i] \in PwLine /\ [f.passwords[i] EXCEPT !.password = "unreadable"] \in PwLine
    <3>1. f.passwords[i] \in PwLine
      BY <1>1
    <3> QED
      BY <3>1 DEF PwLine
  <2>3. u \in [1..n -> PwLine]
    BY <2>1, <2>2 DEF UnpwdFileParse
  <2> HIDE DEF u, n
  <2> QED
    BY <2>1, <2>3
<1>3. /\ p \in Parsed /\ p.list = ListSaid(f.acl)
      /\ p.patterns = d.acl_patterns \cup PatternsSaid(f.acl)
  BY <1>1, AclfileParsed
<1> HIDE DEF p, u
<1>4. CASE UnpwdFileError(f.passwords)
  <2>1. k = [d EXCEPT !.unpwd = u]
    BY <1>4 DEF SecurityInit, u
  <2>2. Means(f).list = <<>> /\ Means(f).patterns = {}
    BY <1>4 DEF Means
  <2> QED
    BY <1>2, <2>1, <2>2 DEF Db, SameLists, u
<1>5. CASE ~UnpwdFileError(f.passwords)
  <2>1. k = [d EXCEPT !.unpwd = u, !.acl_list = p.list, !.acl_patterns = p.patterns]
    BY <1>5 DEF SecurityInit, u, p
  <2>2. Means(f).list = ListSaid(f.acl) /\ Means(f).patterns = PatternsSaid(f.acl)
    BY <1>5 DEF Means
  <2> QED
    BY <1>2, <1>3, <2>1, <2>2 DEF Db, SameLists, u, Parsed
<1> QED
  BY <1>4, <1>5

\* The check looks at the first line of the user.
LEMMA FirstLine ==
  ASSUME NEW lines \in Seq(PwLine), NEW id
  PROVE  UnpwdCheck(lines, id) <=>
           \/ lines = <<>>
           \/ \E i \in DOMAIN lines : /\ lines[i].username = id
                                      /\ \A j \in 1..i - 1 : lines[j].username # id
                                      /\ lines[i].password \in {"none", "theirs"}
<1> DEFINE S == {i \in DOMAIN lines : lines[i].username = id}
           o == InOrder(S)
           mine == Those(lines, S)
<1>1. S \in SUBSET Int /\ IsFiniteSet(S) /\ S \in SUBSET DOMAIN lines
  <2>1. S \in SUBSET (1..Len(lines)) /\ IsFiniteSet(1..Len(lines))
    BY FS_Interval
  <2> QED
    BY <2>1, FS_Subset
<1>2. UnpwdCheck(lines, id) <=> lines = <<>> \/ (mine # <<>> /\ mine[1].password \in {"none", "theirs"})
  BY DEF UnpwdCheck
<1>3. mine = <<>> <=> S = {}
  BY <1>1, ThoseFacts
<1>4. CASE S = {}
  BY <1>2, <1>3, <1>4
<1>5. CASE S # {}
  <2>1. /\ DOMAIN o = 1..Cardinality(S) /\ \A i \in DOMAIN o : o[i] \in S
        /\ \A a \in S : \E i \in DOMAIN o : o[i] = a
        /\ \A i, j \in DOMAIN o : i < j => o[i] < o[j]
    BY <1>1, InOrderFacts
  <2>2. Cardinality(S) \in Nat
    BY <1>1, FS_CardinalityType
  <2> DEFINE n == Cardinality(S)
             h == o[1]
  <2>3. mine = [i \in DOMAIN o |-> lines[o[i]]]
    BY DEF Those
  <2> HIDE DEF o, n, mine
  <2>4. 1 \in DOMAIN o
    BY <1>5, <2>1, <2>2 DEF n
  <2>5. h \in S /\ mine[1] = lines[h]
    <3> HIDE DEF S
    <3> QED
      BY <2>1, <2>3, <2>4
  <2>6. \A a \in S : h <= a
    <3>1. SUFFICES ASSUME NEW a \in S PROVE h <= a
      OBVIOUS
    <3>2. PICK i \in DOMAIN o : o[i] = a
      BY <2>1
    <3>3. i = 1 \/ 1 < i
      BY <2>1, <2>2 DEF n
    <3>4. h \in Int /\ a \in Int
      BY <1>1, <2>5
    <3> QED
      BY <2>1, <2>4, <3>2, <3>3, <3>4
  <2> HIDE DEF h
  <2>7. h \in DOMAIN lines /\ lines[h].username = id /\ h \in 1..Len(lines)
    BY <2>5
  <2>8. \A j \in 1..h - 1 : lines[j].username # id
    <3>1. SUFFICES ASSUME NEW j \in 1..h - 1, lines[j].username = id PROVE FALSE
      OBVIOUS
    <3>2. j \in S /\ j < h
      BY <2>7, <3>1
    <3> QED
      BY <2>6, <2>7, <3>2
  <2>9. ASSUME NEW i \in DOMAIN lines, lines[i].username = id,
               \A j \in 1..i - 1 : lines[j].username # id
        PROVE  i = h
    <3>1. h <= i /\ i \in 1..Len(lines)
      BY <2>6, <2>9
    <3>2. h \notin 1..i - 1
      BY <2>7, <2>9
    <3> QED
      BY <2>7, <3>1, <3>2
  <2> HIDE DEF S
  <2>10. lines # <<>>
    BY <2>7
  <2> QED
    BY <1>2, <1>3, <1>5, <2>5, <2>7, <2>8, <2>9, <2>10
<1> QED
  BY <1>4, <1>5

\* The passwords that are in force let in whom the file means to.
LEMMA LetsIn ==
  ASSUME NEW lines \in Seq(PwLine), NEW id
  PROVE  UnpwdCheck(UnpwdFileParse(lines), id) <=> LetIn(lines, id)
<1> DEFINE u == UnpwdFileParse(lines)
           n == Len(lines)
<1>1. n \in Nat /\ DOMAIN lines = 1..n /\ \A i \in 1..n : lines[i] \in PwLine
  OBVIOUS
<1>2. ASSUME NEW i \in 1..n
      PROVE  /\ u[i] \in PwLine /\ u[i].username = lines[i].username
             /\ u[i].password \in {"none", "theirs"} <=>
                  lines[i].password = "none" \/ (lines[i].password = "theirs" /\ ~Undecoded(lines, i))
  <2>1. lines[i] \in PwLine
    BY <1>1
  <2>2. u[i] = IF lines[i].password = "theirs" /\ Undecoded(lines, i)
               THEN [lines[i] EXCEPT !.password = "unreadable"] ELSE lines[i]
    BY <1>1 DEF UnpwdFileParse
  <2> HIDE DEF u
  <2> QED
    BY <2>1, <2>2 DEF PwLine
<1>3. u \in [1..n -> PwLine]
  <2>1. u = [i \in 1..n |-> u[i]]
    BY <1>1 DEF UnpwdFileParse
  <2> HIDE DEF u
  <2> QED
    BY <1>2, <2>1
<1>4. u \in Seq(PwLine) /\ DOMAIN u = 1..n
  <2> HIDE DEF u, n
  <2> QED
    BY <1>1, <1>3
<1>5. u = <<>> <=> lines = <<>>
  <2> HIDE DEF u
  <2> QED
    BY <1>1, <1>4
<1> HIDE DEF u
<1>6. UnpwdCheck(u, id) <=>
        \/ u = <<>>
        \/ \E i \in DOMAIN u : /\ u[i].username = id
                               /\ \A j \in 1..i - 1 : u[j].username # id
                               /\ u[i].password \in {"none", "theirs"}
  BY <1>4, FirstLine
<1>7. ASSUME NEW i \in 1..n
      PROVE  (\A j \in 1..i - 1 : u[j].username # id) <=> (\A j \in 1..i - 1 : lines[j].username # id)
  <2>1. \A j \in 1..i - 1 : j \in 1..n
    BY <1>1
  <2> QED
    BY <1>2, <2>1
<1>8. UnpwdCheck(u, id) <=> LetIn(lines, id)
  BY <1>1, <1>2, <1>4, <1>5, <1>6, <1>7 DEF LetIn
<1> QED
  BY <1>8 DEF u

\* Reading the two files line by line, as the broker does, gives what they say as a whole,
\* for all files of any length, in error or not: whoever is let in and whatever rights a user
\* or all have stand in the lines that were read before one in error
\* (security_default.c:318, security_default.c:485), and the reading changes nothing else.
THEOREM FilesRead ==
  ASSUME NEW d \in Db, d.acl_list = <<>>, d.acl_patterns = {}, NEW f \in FileType
  PROVE  LET k == SecurityInit(d, f)
         IN  /\ k.acl_list = Means(f).list /\ k.acl_patterns = Means(f).patterns
             /\ {id \in Id : UnpwdCheck(k.unpwd, id)} = Means(f).unpwd
             /\ k = [d EXCEPT !.unpwd = k.unpwd, !.acl_list = k.acl_list, !.acl_patterns = k.acl_patterns]
<1> DEFINE k == SecurityInit(d, f)
           p == AclfileParse(d.acl_list, d.acl_patterns, f.acl)
           u == UnpwdFileParse(f.passwords)
<1>1. /\ k \in Db /\ k.unpwd = u
      /\ k.acl_list = Means(f).list /\ k.acl_patterns = d.acl_patterns \cup Means(f).patterns
  BY SecurityLoads
<1>2. f.passwords \in Seq(PwLine)
  BY DEF FileType
<1>3. {id \in Id : UnpwdCheck(u, id)} = Means(f).unpwd
  BY <1>2, LetsIn DEF Means
<1>4. k = IF UnpwdFileError(f.passwords) THEN [d EXCEPT !.unpwd = u]
          ELSE [d EXCEPT !.unpwd = u, !.acl_list = p.list, !.acl_patterns = p.patterns]
  BY DEF SecurityInit
<1> HIDE DEF k, p, u
<1>5. k = [d EXCEPT !.unpwd = k.unpwd, !.acl_list = k.acl_list, !.acl_patterns = k.acl_patterns]
  BY <1>4 DEF Db
<1>6. k.acl_patterns = Means(f).patterns
  BY <1>1
<1> QED
  BY <1>1, <1>3, <1>5, <1>6 DEF k

\* Rights and files change.
LEMMA ApplyGood ==
  ASSUME NEW d, Good(d), NEW c \in DOMAIN d.heap, d.heap[c].id # NoId,
         NEW k, k = Apply(d, c)
  PROVE  Good(k) /\ Frame(d, k) /\ Others(d, k, c)
<1> DEFINE id == d.heap[c].id
           z == [d.heap[c] EXCEPT !.state = "disconnecting"]
           m == [d EXCEPT !.heap = [d.heap EXCEPT ![c] = z]]
           a == d.acl_list[id]
           y == [d.heap[c] EXCEPT !.acl = a]
<1>1. d \in Db /\ d.heap[c] \in Ctx /\ d.heap \in Heaps /\ d.client_count \in Int
  BY ContextType DEF Good, Loose, Db
<1>2. CASE ~UnpwdCheck(d.unpwd, id)
  <2>1. k = DoDisconnect(m, c)
    <3>1. [d.heap EXCEPT ![c].state = "disconnecting"] = [d.heap EXCEPT ![c] = z]
      BY <1>1, HeapType
    <3>2. [d EXCEPT !.heap[c].state = "disconnecting"] = m
      BY <1>1, <3>1 DEF Db
    <3> QED
      BY <1>2, <3>2 DEF Apply
  <2>2. z \in Ctx /\ Marked(d.heap[c], z)
    BY <1>1 DEF Ctx, States, Marked
  <2> HIDE DEF z
  <2>3. c \notin Range(d.ll_for_free)
    BY <1>1 DEF Good, Owned
  <2> QED
    BY <1>1, <2>1, <2>2, <2>3, MarkDisconnect
<1>3. CASE UnpwdCheck(d.unpwd, id) /\ id \in DOMAIN d.acl_list
  <2>1. k = [d EXCEPT !.heap = [d.heap EXCEPT ![c] = y]]
    <3>1. [d.heap EXCEPT ![c].acl = a] = [d.heap EXCEPT ![c] = y]
      BY <1>1, HeapType
    <3>2. k = [d EXCEPT !.heap[c].acl = a]
      BY <1>3 DEF Apply
    <3> QED
      BY <1>1, <3>1, <3>2 DEF Db
  <2>2. a \in SUBSET Right
    BY <1>1, <1>3 DEF Db, Rights
  <2> HIDE DEF a
  <2>3. y \in Ctx /\ Like(d.heap[c], y)
    BY <1>1, <2>2 DEF Ctx, Like
  <2> HIDE DEF y
  <2>4. /\ k \in Db /\ Others(d, k, c) /\ SameLists(d, k)
        /\ k.client_count = d.client_count /\ k.heap[c] = y /\ DOMAIN k.heap = DOMAIN d.heap
    BY <1>1, <2>1, <2>3, AlterFacts
  <2>5. \A e \in DOMAIN d.heap : Like(d.heap[e], k.heap[e])
    BY <2>3, <2>4 DEF Others
  <2> QED
    BY <2>4, <2>5, SameGood
<1>4. CASE UnpwdCheck(d.unpwd, id) /\ id \notin DOMAIN d.acl_list
  <2>1. k = d
    BY <1>4 DEF Apply
  <2>2. d.client_count <= d.client_count
    BY <1>1
  <2> QED
    BY <2>1, <2>2, LikeSame DEF Frame, Others
<1> QED
  BY <1>2, <1>3, <1>4

LEMMA FilesGood ==
  ASSUME IInv, NEW f \in Files, NEW k, k = SecurityInit(SecurityCleanup(db), f)
  PROVE  /\ Good(k) /\ Frame(db, k) /\ k.by_id = db.by_id
         /\ \A e \in DOMAIN db.heap : Like(db.heap[e], k.heap[e])
<1> DEFINE g == [c \in DOMAIN db.heap |-> IF c \in Range(db.by_id) THEN [db.heap[c] EXCEPT !.acl = NoAcl]
                                         ELSE db.heap[c]]
           m == AclCleanup(db)
<1>1. db \in Db /\ Good(db) /\ db.heap \in Heaps
  BY DEF IInv, Good, Loose, Db
<1>2. ASSUME NEW c \in DOMAIN db.heap
      PROVE  g[c] \in Ctx /\ Like(db.heap[c], g[c])
  <2>1. db.heap[c] \in Ctx
    BY <1>1, ContextType
  <2>2. [db.heap[c] EXCEPT !.acl = NoAcl] \in Ctx /\ Like(db.heap[c], [db.heap[c] EXCEPT !.acl = NoAcl])
    BY <2>1 DEF Ctx, Like, NoAcl
  <2> QED
    BY <2>1, <2>2, LikeSame
<1>3. DOMAIN g = DOMAIN db.heap /\ g \in Heaps
  <2>1. DOMAIN g = DOMAIN db.heap /\ g \in [DOMAIN db.heap -> Ctx]
    BY <1>2
  <2>2. DOMAIN db.heap \in SUBSET Context
    BY <1>1, HeapType
  <2> HIDE DEF g
  <2> QED
    BY <2>1, <2>2, HeapType
<1>4. /\ m \in Db /\ DOMAIN m.heap = DOMAIN db.heap /\ SameLists(db, m)
      /\ m.client_count = db.client_count /\ m.acl_list = <<>>
      /\ \A e \in DOMAIN db.heap : Like(db.heap[e], m.heap[e])
  <2>1. CASE DOMAIN db.acl_list = {}
    <3>1. db.acl_list = <<>>
      BY <1>1, <2>1, NoList DEF Db
    <3> QED
      BY <1>1, <2>1, <3>1, LikeSame DEF AclCleanup, SameLists
  <2>2. CASE DOMAIN db.acl_list # {}
    <3>1. m = [db EXCEPT !.acl_list = <<>>, !.acl_patterns = {}, !.heap = g]
      BY <2>2 DEF AclCleanup
    <3> HIDE DEF g, m
    <3>2. <<>> \in Rights
      BY DEF Rights
    <3>3. /\ m \in Db /\ m.heap = g /\ SameLists(db, m) /\ m.client_count = db.client_count
          /\ m.acl_list = <<>>
      BY <1>1, <1>3, <3>1, <3>2 DEF Db, SameLists
    <3> QED
      BY <1>2, <1>3, <3>3
  <2> QED
    BY <2>1, <2>2
<1> HIDE DEF m, g
<1>5. f \in FileType
  BY FilesAssumption
<1> DEFINE e == [m EXCEPT !.unpwd = <<>>]
<1>6. /\ e \in Db /\ e.heap = m.heap /\ SameLists(m, e) /\ e.client_count = m.client_count
      /\ e.acl_list = <<>>
  <2>1. <<>> \in Seq(PwLine)
    OBVIOUS
  <2> QED
    BY <1>4, <2>1 DEF Db, SameLists
<1>7. k = SecurityInit(e, f)
  BY DEF SecurityCleanup, UnpwdCleanup, m
<1> HIDE DEF e
<1>8. k \in Db /\ k.heap = m.heap /\ SameLists(m, k) /\ k.client_count = m.client_count
  BY <1>5, <1>6, <1>7, SecurityLoads DEF SameLists
<1>9. SameLists(db, k) /\ k.client_count = db.client_count
  BY <1>4, <1>8 DEF SameLists
<1>10. Good(k) /\ Frame(db, k)
  BY <1>1, <1>4, <1>8, <1>9, SameGood
<1> QED
  BY <1>4, <1>8, <1>9, <1>10 DEF SameLists

LEMMA ReloadInv ==
  ASSUME IInv, NEW f \in Files, Reload(f)
  PROVE  IInv'
<1> DEFINE d == SecurityInit(SecurityCleanup(db), f)
           s == d.by_id
           n == Len(s)
           J == [i \in 0..n |->
                   {x \in Db : /\ Good(x) /\ Frame(d, x)
                               /\ \A j \in i + 1..n : Like(d.heap[s[j]], x.heap[s[j]])}]
<1>1. db' = Each(Apply, d, s) /\ granted' = granted
  BY DEF Reload, SecurityApply
<1>2. Good(d) /\ Frame(db, d)
  BY FilesGood
<1> HIDE DEF d
<1>3. /\ d \in Db /\ s \in Seq(Context) /\ Distinct(s) /\ d.client_count \in Int
      /\ \A i \in DOMAIN s : s[i] \in DOMAIN d.heap /\ d.heap[s[i]].id # NoId
  <2>1. d \in Db /\ s \in Seq(Context) /\ Distinct(s) /\ d.client_count \in Int
    BY <1>2 DEF Good, Loose, Db
  <2>2. \A i \in DOMAIN s : s[i] \in Range(s)
    BY DEF Range
  <2> QED
    BY <1>2, <2>1, <2>2 DEF Good, Loose, Fit
<1> HIDE DEF s
<1>4. n \in Nat /\ DOMAIN s = 1..n
  BY <1>3
<1>5. d \in J[0]
  <2>1. 0 \in 0..n /\ d.client_count <= d.client_count
    BY <1>3, <1>4
  <2>2. Frame(d, d)
    BY <2>1 DEF Frame
  <2> QED
    BY <1>2, <1>3, <2>1, <2>2, LikeSame
<1>6. ASSUME NEW i \in 1..n, NEW x \in J[i - 1]
      PROVE  Apply(x, s[i]) \in J[i]
  <2> DEFINE k == Apply(x, s[i])
  <2>1. i - 1 \in 0..n /\ i \in 0..n /\ i \in DOMAIN s /\ i \in i - 1 + 1..n
    BY <1>4
  <2>2. /\ x \in Db /\ Good(x) /\ Frame(d, x)
        /\ \A j \in i - 1 + 1..n : Like(d.heap[s[j]], x.heap[s[j]])
    BY <2>1
  <2>3. s[i] \in DOMAIN x.heap /\ x.heap[s[i]].id # NoId
    BY <1>3, <2>1, <2>2 DEF Frame, Like
  <2> HIDE DEF J
  <2>4. Good(k) /\ Frame(x, k) /\ Others(x, k, s[i])
    BY <2>2, <2>3, ApplyGood
  <2> HIDE DEF k
  <2>5. k \in Db /\ x.client_count \in Int /\ k.client_count \in Int
    BY <2>2, <2>4 DEF Good, Loose, Db
  <2>6. Frame(d, k)
    BY <1>3, <2>2, <2>4, <2>5, FrameFacts
  <2>7. ASSUME NEW j \in i + 1..n
        PROVE  Like(d.heap[s[j]], k.heap[s[j]])
    <3>1. j \in DOMAIN s /\ j # i /\ j \in i - 1 + 1..n
      BY <1>4
    <3>2. s[j] # s[i] /\ s[j] \in DOMAIN x.heap
      BY <1>3, <2>1, <2>2, <3>1 DEF Distinct, Frame
    <3>3. Like(d.heap[s[j]], x.heap[s[j]]) /\ Like(x.heap[s[j]], k.heap[s[j]])
      BY <2>2, <2>4, <3>1, <3>2 DEF Others
    <3> QED
      BY <3>3, LikeTransitive
  <2>8. k \in J[i]
    BY <2>1, <2>4, <2>5, <2>6, <2>7 DEF J
  <2> QED
    BY <2>8 DEF k
<1>7. db' \in J[n]
  <2>1. \A i \in 0..n : J[i] \subseteq Db
    OBVIOUS
  <2> HIDE DEF J
  <2> QED
    BY <1>1, <1>3, <1>5, <1>6, <2>1, EachApply
<1>8. Good(db') /\ Frame(d, db')
  <2>1. n \in 0..n
    BY <1>4
  <2> QED
    BY <1>7, <2>1
<1>9. Frame(db, db')
  <2>1. db.client_count \in Int /\ db'.client_count \in Int
    BY <1>8 DEF IInv, Good, Loose, Db
  <2> QED
    BY <1>2, <1>3, <1>8, <2>1, FrameFacts
<1> QED
  BY <1>1, <1>8, <1>9, FrameStep
------------------------------------------------------------------------------
\* Subscriptions.

\* A subscription is made or ended.
Relinked(d, k, c, l, b) ==
  /\ k \in Db /\ Alike(d, k) /\ k.leaves = l /\ k.heap[c].sub = b
  /\ \A e \in DOMAIN d.heap : e # c => k.heap[e] = d.heap[e]

LEMMA LinkFacts ==
  ASSUME NEW d \in Db, NEW c \in DOMAIN d.heap, NEW b \in BOOLEAN, NEW l \in Seq(Context),
         NEW k, k = [d EXCEPT !.leaves = l, !.heap[c].sub = b]
  PROVE  Relinked(d, k, c, l, b)
<1> DEFINE z == [d.heap[c] EXCEPT !.sub = b]
           h == [d.heap EXCEPT ![c] = z]
<1>1. d.heap[c] \in Ctx /\ d.heap \in Heaps
  BY ContextType
<1>2. k = [d EXCEPT !.leaves = l, !.heap = h]
  <2>1. [d.heap EXCEPT ![c].sub = b] = h
    BY <1>1, HeapType
  <2> QED
    BY <2>1 DEF Db
<1>3. z \in Ctx /\ Kept(d.heap[c], z) /\ z.sub = b
  BY <1>1 DEF Ctx, Kept
<1> HIDE DEF z
<1>4. /\ h \in Heaps /\ DOMAIN h = DOMAIN d.heap /\ h[c] = z
      /\ \A e \in DOMAIN d.heap : e # c => h[e] = d.heap[e]
  BY <1>1, <1>3, HeapExcept
<1> HIDE DEF h
<1>5. /\ k \in Db /\ k.heap = h /\ k.leaves = l /\ k.by_id = d.by_id /\ k.made = d.made
      /\ k.ll_for_free = d.ll_for_free /\ k.client_count = d.client_count
  BY <1>2, <1>4 DEF Db
<1>6. \A e \in DOMAIN d.heap : Kept(d.heap[e], h[e])
  BY <1>3, <1>4 DEF Kept
<1> QED
  BY <1>3, <1>4, <1>5, <1>6 DEF Alike, Relinked

LEMMA HandleSubscribeInv ==
  ASSUME IInv, NEW c \in DOMAIN db.heap, HandleSubscribe(c)
  PROVE  IInv'
<1> DEFINE id == db.heap[c].id
<1>1. /\ db \in Db /\ Good(db) /\ OneEach(db) /\ db.leaves \in Seq(Context) /\ c \in Context
      /\ db.heap[c] \in Ctx
  BY ContextType DEF IInv, Good, Loose, Db
<1>2. /\ id \in Id /\ id # NoId /\ granted' \in SUBSET Id /\ granted' \subseteq granted \cup {id}
      /\ db.heap[c].state # "new"
  BY <1>1 DEF HandleSubscribe, Served, Ctx, IInv, Good, Loose, Fit
<1>3. CASE \E e \in Range(db.leaves) : db.heap[e].id = id
  <2>1. db' = db
    BY <1>3 DEF HandleSubscribe
  <2>2. PICK e \in Range(db.leaves) : db.heap[e].id = id
    BY <1>3
  <2>3. e \in DOMAIN db.heap /\ db.heap[e].sub
    BY <1>1, <2>2 DEF Good, Loose, Fit
  <2>4. Grants(db, granted')
    BY <1>1, <1>2, <2>2, <2>3 DEF IInv, Grants, OneEach
  <2> QED
    BY <1>2, <2>1, <2>4 DEF IInv
<1>4. CASE ~\E e \in Range(db.leaves) : db.heap[e].id = id
  <2> DEFINE l == Append(db.leaves, c)
  <2>1. db' = [db EXCEPT !.leaves = l, !.heap[c].sub = TRUE]
    BY <1>1, <1>4 DEF HandleSubscribe, Db
  <2>2. l \in Seq(Context) /\ Range(l) = Range(db.leaves) \cup {c}
    <3>1. Len(l) = Len(db.leaves) + 1 /\ Len(db.leaves) \in Nat
      BY <1>1
    <3>2. DOMAIN l = 1..Len(db.leaves) + 1 /\ DOMAIN db.leaves = 1..Len(db.leaves)
      BY <1>1
    <3>3. \A i \in 1..Len(db.leaves) + 1 : i \in 1..Len(db.leaves) \/ i = Len(db.leaves) + 1
      BY <3>1
    <3>4. l[Len(db.leaves) + 1] = c /\ \A i \in 1..Len(db.leaves) : l[i] = db.leaves[i]
      BY <1>1
    <3>5. Len(db.leaves) + 1 \in 1..Len(db.leaves) + 1
          /\ \A i \in 1..Len(db.leaves) : i \in 1..Len(db.leaves) + 1
      BY <3>1
    <3>6. l \in Seq(Context)
      BY <1>1
    <3> HIDE DEF l
    <3> QED
      BY <3>2, <3>3, <3>4, <3>5, <3>6 DEF Range
  <2> HIDE DEF l
  <2>3. /\ db' \in Db /\ Alike(db, db') /\ db'.leaves = l /\ db'.heap[c].sub
        /\ \A e \in DOMAIN db.heap : e # c => db'.heap[e] = db.heap[e]
    <3>1. Relinked(db, db', c, l, TRUE)
      BY <1>1, <2>1, <2>2, LinkFacts
    <3> QED
      BY <3>1 DEF Relinked
  <2>4. Linked(db')
    BY <1>1, <2>2, <2>3 DEF Linked, Alike, Good, Loose, Fit
  <2>5. Good(db')
    BY <1>1, <2>3, <2>4, AlikeGood
  <2>6. Grants(db', granted')
    <3>1. ASSUME NEW e \in DOMAIN db.heap, e # c, db.heap[e].id \in granted' \ WsId
          PROVE  db.heap[e].sub
      <4>1. db.heap[e].id # id
        BY <1>1, <1>2, <3>1 DEF OneEach
      <4> QED
        BY <1>2, <3>1, <4>1 DEF IInv, Grants
    <3> QED
      BY <2>3, <3>1 DEF Grants, Alike
  <2>7. Fresh(db')
    BY <1>2, <2>3 DEF Fresh, IInv, Alike, Kept
  <2> QED
    BY <1>2, <2>3, <2>5, <2>6, <2>7 DEF IInv, Alike
<1> QED
  BY <1>3, <1>4

LEMMA HandleUnsubscribeInv ==
  ASSUME IInv, NEW c \in DOMAIN db.heap, HandleUnsubscribe(c)
  PROVE  IInv'
<1> DEFINE id == db.heap[c].id
           l  == Without(db.leaves, c)
<1>1. /\ db \in Db /\ Good(db) /\ OneEach(db) /\ db.leaves \in Seq(Context) /\ c \in Context
      /\ db.heap[c] \in Ctx
  BY ContextType DEF IInv, Good, Loose, Db
<1>2. /\ granted' \subseteq granted /\ granted' \in SUBSET Id
      /\ id \notin granted' \ WsId
  <2>1. CASE db.heap[c].open
    BY <2>1 DEF HandleUnsubscribe, IInv
  <2>2. CASE ~db.heap[c].open
    <3>1. db.heap[c].wsi /\ id # NoId /\ granted' = granted
      BY <2>2 DEF HandleUnsubscribe, Served
    <3>2. id \in WsId
      BY <1>1, <3>1 DEF Good, Loose, Fit
    <3> QED
      BY <3>1, <3>2 DEF IInv
  <2> QED
    BY <2>1, <2>2
<1>3. db' = [db EXCEPT !.leaves = l, !.heap[c].sub = FALSE]
  BY <1>1 DEF HandleUnsubscribe, Db
<1>4. l \in Seq(Context) /\ Range(l) = Range(db.leaves) \ {c}
  BY <1>1, WithoutFacts
<1> HIDE DEF l
<1>5. /\ db' \in Db /\ Alike(db, db') /\ db'.leaves = l /\ db'.heap[c].sub = FALSE
      /\ \A e \in DOMAIN db.heap : e # c => db'.heap[e] = db.heap[e]
  <2>1. Relinked(db, db', c, l, FALSE)
    BY <1>1, <1>3, <1>4, LinkFacts
  <2> QED
    BY <2>1 DEF Relinked
<1>6. Linked(db')
  BY <1>1, <1>4, <1>5 DEF Linked, Alike, Good, Loose, Fit
<1>7. Good(db')
  BY <1>1, <1>5, <1>6, AlikeGood
<1>8. Grants(db', granted')
  BY <1>2, <1>5 DEF IInv, Grants, Alike, Kept
<1>9. Fresh(db')
  BY <1>5 DEF Fresh, IInv, Alike, Kept
<1> QED
  BY <1>2, <1>5, <1>7, <1>8, <1>9 DEF IInv, Alike
------------------------------------------------------------------------------
\* CONNECT.

\* What a context takes over of another one.
Inherited(d, k, c, old) ==
  /\ k \in Db /\ Alike(d, k) /\ Linked(k) /\ SameFiles(d, k) /\ k.published = d.published
  /\ LET x == d.heap[old]
         y == k.heap[c]
     IN  /\ y.sub = x.sub /\ y.msgs = x.msgs /\ y.deaf = d.heap[c].deaf
         /\ k.heap[old].acl = x.acl
  /\ \A e \in DOMAIN d.heap : e # c /\ e # old => k.heap[e] = d.heap[e]

LEMMA InheritFacts ==
  ASSUME NEW d \in Db, NEW c \in DOMAIN d.heap, NEW old \in DOMAIN d.heap, c # old,
         ~d.heap[c].sub, Linked(d),
         NEW m, m = [d EXCEPT !.heap[c].msgs = d.heap[old].msgs, !.heap[old].msgs = <<>>],
         NEW k, k = InheritSubs(m, c, old)
  PROVE  Inherited(d, k, c, old)
<1> DEFINE x  == d.heap[old]
           x1 == [x EXCEPT !.msgs = <<>>]
           y1 == [d.heap[c] EXCEPT !.msgs = x.msgs]
           h1 == [[d.heap EXCEPT ![c] = y1] EXCEPT ![old] = x1]
           y2 == [y1 EXCEPT !.sub = x.sub]
           x2 == [x1 EXCEPT !.sub = FALSE]
           h2 == [[h1 EXCEPT ![c] = y2] EXCEPT ![old] = x2]
           l  == IF x.sub THEN [i \in DOMAIN d.leaves |-> IF d.leaves[i] = old THEN c ELSE d.leaves[i]]
                 ELSE d.leaves
<1>1. /\ d.heap \in Heaps /\ x \in Ctx /\ d.heap[c] \in Ctx /\ c \in Context /\ old \in Context
      /\ d.leaves \in Seq(Context)
  BY ContextType DEF Db
<1>2. /\ x1 \in Ctx /\ y1 \in Ctx /\ Like(x, x1) /\ Like(d.heap[c], y1)
      /\ x1.acl = x.acl /\ y1.msgs = x.msgs /\ y1.deaf = d.heap[c].deaf
  <2>1. x.msgs \in Seq(Nat) /\ <<>> \in Seq(Nat)
    BY <1>1 DEF Ctx
  <2>2. x1.acl = x.acl /\ y1.msgs = x.msgs /\ y1.deaf = d.heap[c].deaf
    BY <1>1 DEF Ctx
  <2> QED
    BY <1>1, <2>1, <2>2, WithMsgs
<1>3. m = [d EXCEPT !.heap = h1]
  <2>1. [[d.heap EXCEPT ![c].msgs = x.msgs] EXCEPT ![old].msgs = <<>>] = h1
    BY <1>1, HeapType
  <2>2. m = [d EXCEPT !.heap = [[d.heap EXCEPT ![c].msgs = x.msgs] EXCEPT ![old].msgs = <<>>]]
    BY DEF Db
  <2> QED
    BY <2>1, <2>2
<1>4. /\ h1 \in Heaps /\ DOMAIN h1 = DOMAIN d.heap /\ h1[c] = y1 /\ h1[old] = x1
      /\ \A e \in DOMAIN d.heap : e # c /\ e # old => h1[e] = d.heap[e]
  <2> HIDE DEF x1, y1
  <2> DEFINE g == [d.heap EXCEPT ![c] = y1]
  <2>1. /\ g \in Heaps /\ DOMAIN g = DOMAIN d.heap /\ g[c] = y1
        /\ \A e \in DOMAIN d.heap : e # c => g[e] = d.heap[e]
    BY <1>1, <1>2, HeapExcept
  <2>2. h1 = [g EXCEPT ![old] = x1]
    OBVIOUS
  <2> HIDE DEF g, h1
  <2>3. /\ h1 \in Heaps /\ DOMAIN h1 = DOMAIN g /\ h1[old] = x1
        /\ \A e \in DOMAIN g : e # old => h1[e] = g[e]
    BY <1>2, <2>1, <2>2, HeapExcept
  <2> QED
    BY <2>1, <2>3
<1>5. /\ x1.sub = x.sub /\ y2 \in Ctx /\ x2 \in Ctx /\ Kept(x, x2) /\ Kept(d.heap[c], y2)
      /\ y2.sub = x.sub /\ x2.sub = FALSE /\ x2.acl = x.acl
      /\ y2.msgs = x.msgs /\ y2.deaf = d.heap[c].deaf
  <2> HIDE DEF x1, y1
  <2> QED
    BY <1>1, <1>2 DEF Ctx, Like, Kept
<1> HIDE DEF x1, y1, h1
<1>6. k = [m EXCEPT !.heap = h2, !.leaves = l]
  <2>1. m.heap = h1 /\ m.leaves = d.leaves /\ m.heap[old].sub = x.sub
    BY <1>3, <1>4, <1>5 DEF Db
  <2>2. k = [m EXCEPT !.heap[c].sub = x.sub, !.heap[old].sub = FALSE, !.leaves = l]
    BY <2>1 DEF InheritSubs
  <2> HIDE DEF l
  <2>3. [[h1 EXCEPT ![c].sub = x.sub] EXCEPT ![old].sub = FALSE] = h2
    BY <1>4, HeapType
  <2> HIDE DEF h2
  <2>4. k = [m EXCEPT !.heap = [[h1 EXCEPT ![c].sub = x.sub] EXCEPT ![old].sub = FALSE], !.leaves = l]
    BY <1>3, <2>1, <2>2 DEF Db
  <2> QED
    BY <2>3, <2>4
<1>7. /\ h2 \in Heaps /\ DOMAIN h2 = DOMAIN d.heap /\ h2[c] = y2 /\ h2[old] = x2
      /\ \A e \in DOMAIN d.heap : e # c /\ e # old => h2[e] = d.heap[e]
  <2> HIDE DEF x2, y2
  <2> DEFINE g == [h1 EXCEPT ![c] = y2]
  <2>1. /\ g \in Heaps /\ DOMAIN g = DOMAIN h1 /\ g[c] = y2
        /\ \A e \in DOMAIN h1 : e # c => g[e] = h1[e]
    BY <1>4, <1>5, HeapExcept
  <2>2. h2 = [g EXCEPT ![old] = x2]
    OBVIOUS
  <2> HIDE DEF g, h2
  <2>3. /\ h2 \in Heaps /\ DOMAIN h2 = DOMAIN g /\ h2[old] = x2
        /\ \A e \in DOMAIN g : e # old => h2[e] = g[e]
    BY <1>4, <1>5, <2>1, <2>2, HeapExcept
  <2> QED
    BY <1>4, <2>1, <2>3
<1> HIDE DEF h2, x2, y2
<1>8. /\ l \in Seq(Context)
      /\ Range(l) = IF x.sub THEN (Range(d.leaves) \ {old}) \cup {c} ELSE Range(d.leaves)
  <2>1. CASE x.sub
    <3>1. l = [i \in DOMAIN d.leaves |-> IF d.leaves[i] = old THEN c ELSE d.leaves[i]]
      BY <2>1
    <3> HIDE DEF l
    <3>2. l \in Seq(Context)
      <4>1. DOMAIN d.leaves = 1..Len(d.leaves) /\ Len(d.leaves) \in Nat
            /\ \A i \in DOMAIN d.leaves : d.leaves[i] \in Context
        BY <1>1
      <4>2. l \in [1..Len(d.leaves) -> Context]
        BY <1>1, <3>1, <4>1
      <4> QED
        BY <4>1, <4>2
    <3>3. old \in Range(d.leaves)
      BY <2>1 DEF Linked
    <3>4. Range(l) = (Range(d.leaves) \ {old}) \cup {c}
      <4>1. c \notin Range(d.leaves)
        BY DEF Linked
      <4> QED
        BY <3>1, <3>3, <4>1 DEF Range
    <3> QED
      BY <2>1, <3>2, <3>4
  <2>2. CASE ~x.sub
    BY <1>1, <2>2
  <2> QED
    BY <2>1, <2>2
<1> HIDE DEF l
<1>9. /\ k \in Db /\ k.heap = h2 /\ k.leaves = l /\ k.by_id = d.by_id /\ k.made = d.made
      /\ k.ll_for_free = d.ll_for_free /\ k.client_count = d.client_count
      /\ SameFiles(d, k) /\ k.published = d.published
  <2>1. /\ m \in Db /\ m.by_id = d.by_id /\ m.made = d.made
        /\ m.ll_for_free = d.ll_for_free /\ m.client_count = d.client_count
        /\ SameFiles(d, m) /\ m.published = d.published
    BY <1>3, <1>4 DEF Db, SameFiles
  <2>2. k.heap = h2 /\ k.leaves = l
    BY ONLY <1>6, <2>1 DEF Db
  <2>3. /\ k.by_id = m.by_id /\ k.made = m.made
        /\ k.ll_for_free = m.ll_for_free /\ k.client_count = m.client_count
        /\ SameFiles(m, k) /\ k.published = m.published
    BY ONLY <1>6, <2>1 DEF Db, SameFiles
  <2>4. k \in Db
    BY ONLY <1>6, <1>7, <1>8, <2>1 DEF Db
  <2> QED
    BY ONLY <2>1, <2>2, <2>3, <2>4 DEF SameFiles
<1>10. Alike(d, k)
  <2>1. \A e \in DOMAIN d.heap : Kept(d.heap[e], h2[e])
    <3>1. \A e \in DOMAIN d.heap : Kept(d.heap[e], d.heap[e])
      BY DEF Kept
    <3> QED
      BY <1>5, <1>7, <3>1
  <2> QED
    BY <1>7, <1>9, <2>1 DEF Alike
<1>11. Linked(k)
  <2>1. x.sub \in BOOLEAN
    BY <1>1 DEF Ctx
  <2>2. x.sub <=> old \in Range(d.leaves)
    BY DEF Linked
  <2>3. c \notin Range(d.leaves)
    BY DEF Linked
  <2>4. c \in Range(l) <=> x.sub
    BY <1>8, <2>1, <2>3
  <2>5. old \notin Range(l)
    BY <1>8, <2>1, <2>2
  <2>6. \A e \in DOMAIN d.heap : e # c /\ e # old => (h2[e].sub <=> e \in Range(l))
    BY <1>7, <1>8 DEF Linked
  <2>7. Range(l) \subseteq DOMAIN d.heap
    BY <1>8 DEF Linked
  <2> QED
    BY <1>5, <1>7, <1>9, <2>1, <2>4, <2>5, <2>6, <2>7 DEF Linked
<1> QED
  BY <1>5, <1>7, <1>9, <1>10, <1>11 DEF Inherited

\* A session that goes on passes to the new context; then the old one is marked, and ended.
TakenOver(d, m, c, old, continued) ==
  LET x == d.heap[old]
      y == m.heap[c]
  IN  /\ m \in Db /\ Good(m) /\ Alike(d, m) /\ SameFiles(d, m) /\ m.published = d.published
      /\ y.sub <=> continued /\ x.sub
      /\ continued => y.msgs = x.msgs
      /\ ~continued => y.msgs = d.heap[c].msgs
      /\ y.deaf = d.heap[c].deaf /\ m.heap[old].acl = x.acl
      /\ \A e \in DOMAIN d.heap : e # c /\ e # old => m.heap[e] = d.heap[e]

EndedBy(d, k, c, old, continued) ==
  \E m \in Db, z \in Ctx :
    /\ TakenOver(d, m, c, old, continued)
    /\ Marked(m.heap[old], z) /\ z.clean_session /\ z.wsi = m.heap[old].wsi
    /\ z.state = "disconnecting" /\ z.acl = m.heap[old].acl
    /\ k = DoDisconnect([m EXCEPT !.heap = [m.heap EXCEPT ![old] = z]], old)

LEMMA TakeoverParts ==
  ASSUME NEW d, Good(d), NEW c \in DOMAIN d.heap, NEW old \in DOMAIN d.heap, c # old,
         ~d.heap[c].sub, d.heap[old].id # NoId, NEW clean \in BOOLEAN,
         NEW k, k = Takeover(d, c, old, clean)
  PROVE  EndedBy(d, k, c, old, ~clean /\ ~d.heap[old].clean_session)
<1> DEFINE continued == ~clean /\ ~d.heap[old].clean_session
           d1 == [d EXCEPT !.heap[c].msgs = d.heap[old].msgs, !.heap[old].msgs = <<>>]
           d2 == IF continued THEN InheritSubs(d1, c, old) ELSE d
           z  == [d2.heap[old] EXCEPT !.clean_session = TRUE, !.state = "disconnecting"]
           m  == [d2 EXCEPT !.heap = [d2.heap EXCEPT ![old] = z]]
<1>1. d \in Db /\ d.heap[old] \in Ctx /\ d.heap[c] \in Ctx
  BY ContextType DEF Good, Loose, Db
<1>2. Linked(d)
  BY DEF Good, Loose, Fit, Linked
<1>3. TakenOver(d, d2, c, old, continued)
  <2>1. CASE continued
    <3>1. d2 = InheritSubs(d1, c, old)
      BY <2>1
    <3> HIDE DEF d2, continued
    <3>2. Inherited(d, d2, c, old)
      BY <1>1, <1>2, <3>1, InheritFacts
    <3>3. Good(d2)
      BY <3>2, AlikeGood DEF Inherited
    <3> QED
      BY <1>1, <2>1, <3>2, <3>3 DEF Inherited, TakenOver, Ctx
  <2>2. CASE ~continued
    <3>1. d2 = d
      BY <2>2
    <3> HIDE DEF d2, continued
    <3>2. Alike(d, d) /\ SameFiles(d, d)
      BY DEF Alike, Kept, SameFiles
    <3> QED
      BY <1>1, <1>2, <2>2, <3>1, <3>2 DEF TakenOver
  <2> QED
    BY <2>1, <2>2
<1>4. k = DoDisconnect([d2 EXCEPT !.heap[old].clean_session = TRUE, !.heap[old].state = "disconnecting"], old)
  BY ZenonT(40) DEF Takeover
<1> HIDE DEF d2, d1
<1>5. d2 \in Db /\ d2.heap[old] \in Ctx /\ d2.heap \in Heaps
  BY <1>3, ContextType DEF TakenOver, Alike
<1>6. k = DoDisconnect(m, old)
  <2>1. [d2.heap EXCEPT ![old].clean_session = TRUE, ![old].state = "disconnecting"]
          = [d2.heap EXCEPT ![old] = z]
    BY <1>5, HeapType
  <2>2. [d2 EXCEPT !.heap[old].clean_session = TRUE, !.heap[old].state = "disconnecting"] = m
    BY <1>5, <2>1 DEF Db
  <2> QED
    BY <1>4, <2>2
<1>7. /\ z \in Ctx /\ Marked(d2.heap[old], z) /\ z.clean_session /\ z.wsi = d2.heap[old].wsi
      /\ z.state = "disconnecting" /\ z.acl = d2.heap[old].acl
  BY <1>5 DEF Ctx, States, Marked
<1> HIDE DEF z, continued
<1>8. EndedBy(d, k, c, old, continued)
  BY <1>3, <1>5, <1>6, <1>7 DEF EndedBy
<1> QED
  BY <1>8 DEF continued

\* What a takeover leaves: the old context is done for, or waits for libwebsockets.
Taken(d, k, c, old, continued) ==
  /\ Good(k) /\ DOMAIN k.heap = DOMAIN d.heap /\ k.made = d.made
  /\ k.client_count <= d.client_count
  /\ \A e \in DOMAIN d.heap : e # old => Kept(d.heap[e], k.heap[e])
  /\ \A e \in DOMAIN d.heap : e # c /\ e # old => k.heap[e].sub = d.heap[e].sub
  /\ k.heap[c].sub <=> continued /\ d.heap[old].sub
  /\ k.heap[old].id \in {d.heap[old].id, NoId} /\ k.heap[old].state # "new"
  /\ d.heap[old].kind = "tcp" => k.heap[old].id = NoId

LEMMA TakeoverGood ==
  ASSUME NEW d, Good(d), NEW c \in DOMAIN d.heap, NEW old \in DOMAIN d.heap, c # old,
         ~d.heap[c].sub, d.heap[old].id # NoId, NEW clean \in BOOLEAN,
         NEW k, k = Takeover(d, c, old, clean)
  PROVE  Taken(d, k, c, old, ~clean /\ ~d.heap[old].clean_session)
<1> DEFINE continued == ~clean /\ ~d.heap[old].clean_session
<1>0. EndedBy(d, k, c, old, continued)
  BY TakeoverParts
<1> HIDE DEF continued
<1>1. PICK m \in Db, z \in Ctx :
        /\ TakenOver(d, m, c, old, continued)
        /\ Marked(m.heap[old], z) /\ z.clean_session /\ z.wsi = m.heap[old].wsi
        /\ z.state = "disconnecting" /\ z.acl = m.heap[old].acl
        /\ k = DoDisconnect([m EXCEPT !.heap = [m.heap EXCEPT ![old] = z]], old)
  BY <1>0 DEF EndedBy
<1>2. /\ Good(m) /\ old \in DOMAIN m.heap /\ c \in DOMAIN m.heap /\ DOMAIN m.heap = DOMAIN d.heap
      /\ m.heap[old].id = d.heap[old].id /\ m.heap[old].kind = d.heap[old].kind
      /\ m.heap[old] \in Ctx
  BY <1>1, ContextType DEF TakenOver, Alike, Kept
<1>3. old \notin Range(m.ll_for_free)
  BY <1>2 DEF Good, Owned
<1>4. /\ Good(k) /\ Frame(m, k) /\ Others(m, k, old)
      /\ ~z.wsi /\ z.clean_session => k.heap[old].id = NoId
  BY <1>1, <1>2, <1>3, MarkDisconnect
<1>5. d.heap[old].kind = "tcp" => k.heap[old].id = NoId
  BY <1>1, <1>2, <1>4 DEF Good, Loose, Fit
<1>6. k.heap[old].state # "new"
  <2>1. m.heap[old].state # "new"
    BY <1>2 DEF Good, Loose, Fit
  <2> QED
    BY <1>2, <1>4, <2>1 DEF Frame
<1>7. \A e \in DOMAIN d.heap : e # old => Kept(d.heap[e], k.heap[e]) /\ k.heap[e].sub = m.heap[e].sub
  BY <1>1, <1>2, <1>4 DEF TakenOver, Alike, Others, Like, Kept
<1>8. k.made = d.made /\ k.client_count <= d.client_count
  BY <1>1, <1>4 DEF TakenOver, Alike, Frame
<1>9. k.heap[old].id \in {d.heap[old].id, NoId} /\ DOMAIN k.heap = DOMAIN d.heap
  BY <1>2, <1>4 DEF Frame
<1>10. /\ k.heap[c].sub <=> continued /\ d.heap[old].sub
       /\ \A e \in DOMAIN d.heap : e # c /\ e # old => k.heap[e].sub = d.heap[e].sub
  BY <1>1, <1>7 DEF TakenOver
<1> QED
  BY <1>4, <1>5, <1>6, <1>7, <1>8, <1>9, <1>10 DEF Taken, continued

\* The context is given its identifier.
Named(d, k, c, id) ==
  LET x == d.heap[c]
      y == k.heap[c]
  IN  /\ k \in Db /\ DOMAIN k.heap = DOMAIN d.heap
      /\ \A e \in DOMAIN d.heap : e # c => k.heap[e] = d.heap[e]
      /\ k.by_id = <<c>> \o d.by_id /\ k.ll_for_free = d.ll_for_free /\ k.leaves = d.leaves
      /\ k.client_count = d.client_count /\ k.made = d.made + 1
      /\ y.kind = x.kind /\ y.open = x.open /\ y.wsi = x.wsi /\ y.listener = x.listener
      /\ y.sub = x.sub /\ y.id = id /\ y.state = "connected" /\ y.will <= d.made + 1

\* The rest of what CONNECT gives it.
Answered(d, k, c, w, a, clean) ==
  LET x == d.heap[c]
      y == k.heap[c]
  IN  /\ y.will = w /\ y.acl = a /\ y.clean_session = clean
      /\ SameFiles(d, k) /\ k.published = d.published
      /\ x.msgs = <<>> \/ AclCheck(k, c, "read") => y.msgs = x.msgs /\ y.deaf = x.deaf
      /\ x.msgs # <<>> /\ ~AclCheck(k, c, "read") => y.msgs = <<>> /\ y.deaf

\* What its client may no longer read is unlinked.
Passed(m, n, c) ==
  /\ n \in Db /\ Like(m.heap[c], n.heap[c]) /\ DOMAIN n.heap = DOMAIN m.heap
  /\ \A e \in DOMAIN m.heap : e # c => n.heap[e] = m.heap[e]
  /\ n.by_id = m.by_id /\ n.ll_for_free = m.ll_for_free
  /\ n.leaves = m.leaves /\ n.client_count = m.client_count /\ n.made = m.made
  /\ SameFiles(m, n) /\ n.published = m.published
  /\ LET x == m.heap[c]
         y == n.heap[c]
     IN  /\ y.acl = x.acl
         /\ x.msgs = <<>> \/ AclCheck(m, c, "read") => y.msgs = x.msgs /\ y.deaf = x.deaf
         /\ x.msgs # <<>> /\ ~AclCheck(m, c, "read") => y.msgs = <<>> /\ y.deaf

LEMMA PassFacts ==
  ASSUME NEW m \in Db, NEW c \in DOMAIN m.heap
  PROVE  Passed(m, AclPass(m, c), c)
<1> DEFINE n == AclPass(m, c)
           y == [m.heap[c] EXCEPT !.msgs = <<>>, !.deaf = TRUE]
           g == [m.heap EXCEPT ![c] = y]
<1>1. CASE AclCheck(m, c, "read") \/ m.heap[c].msgs = <<>>
  <2>1. n = m
    BY <1>1 DEF AclPass
  <2> QED
    BY <1>1, <2>1, LikeSame DEF Passed, SameFiles
<1>2. CASE ~(AclCheck(m, c, "read") \/ m.heap[c].msgs = <<>>)
  <2>0. n = [m EXCEPT !.heap[c].msgs = <<>>, !.heap[c].deaf = TRUE]
    BY <1>2 DEF AclPass
  <2>1. m.heap[c] \in Ctx /\ m.heap \in Heaps
    BY ContextType
  <2>2. <<>> \in Seq(Nat)
    BY ONLY TRUE
  <2>3. [m.heap EXCEPT ![c].msgs = <<>>, ![c].deaf = TRUE] = g
    BY ONLY <2>1, HeapType
  <2> HIDE DEF n
  <2>4. n = [m EXCEPT !.heap = g]
    <3> HIDE DEF g
    <3> QED
      BY <2>0, <2>3 DEF Db
  <2>5. y \in Ctx /\ Like(m.heap[c], y) /\ y.acl = m.heap[c].acl /\ y.msgs = <<>> /\ y.deaf
    BY ONLY <2>1, <2>2 DEF Ctx, Like
  <2> HIDE DEF y
  <2>6. /\ g \in Heaps /\ DOMAIN g = DOMAIN m.heap /\ g[c] = y
        /\ \A e \in DOMAIN m.heap : e # c => g[e] = m.heap[e]
    BY <2>1, <2>5, HeapExcept
  <2> HIDE DEF g
  <2>7. m \in Db
    OBVIOUS
  <2>8. /\ n \in Db /\ n.heap = g /\ n.by_id = m.by_id /\ n.ll_for_free = m.ll_for_free
        /\ n.leaves = m.leaves /\ n.client_count = m.client_count /\ n.made = m.made
        /\ SameFiles(m, n) /\ n.published = m.published
    BY ONLY <2>4, <2>6, <2>7 DEF Db, SameFiles
  <2>9. Passed(m, n, c)
    BY ONLY <1>2, <2>5, <2>6, <2>8 DEF Passed
  <2> QED
    BY <2>9 DEF n
<1> QED
  BY <1>1, <1>2

\* The fields that CONNECT sets.
Given(d, c, w, a, id, clean) ==
  [d EXCEPT !.made = @ + 1, !.heap[c].will = w, !.heap[c].acl = a, !.heap[c].id = id,
            !.heap[c].clean_session = clean, !.heap[c].state = "connected"]

LEMMA NamedFacts ==
  ASSUME NEW d \in Db, NEW c \in DOMAIN d.heap, NEW id \in Id, NEW clean \in BOOLEAN,
         NEW w \in 0..d.made + 1, NEW a \in SUBSET Right, NEW m, NEW k,
         m = Given(d, c, w, a, id, clean),
         k = [AclPass(m, c) EXCEPT !.by_id = <<c>> \o @]
  PROVE  Named(d, k, c, id) /\ Answered(d, k, c, w, a, clean)
<1> DEFINE x == d.heap[c]
           z == [x EXCEPT !.will = w, !.acl = a, !.id = id, !.clean_session = clean,
                          !.state = "connected"]
           h == [d.heap EXCEPT ![c] = z]
           n == AclPass(m, c)
           b == <<c>> \o d.by_id
<1>1. /\ x \in Ctx /\ d.heap \in Heaps /\ c \in Context /\ d.made \in Nat
      /\ d.by_id \in Seq(Context)
  BY ONLY d \in Db, c \in DOMAIN d.heap, ContextType DEF Db
<1>2. w \in Nat /\ w <= d.made + 1 /\ d.made + 1 \in Nat
  BY ONLY <1>1, w \in 0..d.made + 1
<1>3. m = [d EXCEPT !.made = d.made + 1, !.heap = h]
  <2>1. [d.heap EXCEPT ![c].will = w, ![c].acl = a, ![c].id = id, ![c].clean_session = clean,
                       ![c].state = "connected"] = h
    BY ONLY <1>1, HeapType
  <2> DEFINE g == [d.heap EXCEPT ![c].will = w, ![c].acl = a, ![c].id = id, ![c].clean_session = clean,
                                 ![c].state = "connected"]
  <2>2. Given(d, c, w, a, id, clean) = [d EXCEPT !.made = d.made + 1, !.heap = g]
    <3> DEFINE K(f) == [d EXCEPT !.made = d.made + 1, !.heap = f]
               g1 == [d.heap EXCEPT ![c].will = w]
               g2 == [g1 EXCEPT ![c].acl = a]
               g3 == [g2 EXCEPT ![c].id = id]
               g4 == [g3 EXCEPT ![c].clean_session = clean]
               k1 == [[d EXCEPT !.made = d.made + 1] EXCEPT !.heap[c].will = w]
               k2 == [k1 EXCEPT !.heap[c].acl = a]
               k3 == [k2 EXCEPT !.heap[c].id = id]
               k4 == [k3 EXCEPT !.heap[c].clean_session = clean]
               k5 == [k4 EXCEPT !.heap[c].state = "connected"]
    <3>1. \A f : K(f).heap = f
      BY ONLY d \in Db DEF Db
    <3>2. Given(d, c, w, a, id, clean) = k5 /\ g = [g4 EXCEPT ![c].state = "connected"]
      BY DEF Given
    <3>3. k1 = K(g1)
      BY ONLY d \in Db DEF Db
    <3> HIDE DEF k1, g1
    <3>4. k2 = K(g2)
      BY ONLY d \in Db, <3>1, <3>3 DEF Db
    <3> HIDE DEF k2, g2
    <3>5. k3 = K(g3)
      BY ONLY d \in Db, <3>1, <3>4 DEF Db
    <3> HIDE DEF k3, g3
    <3>6. k4 = K(g4)
      BY ONLY d \in Db, <3>1, <3>5 DEF Db
    <3> HIDE DEF k4, g4
    <3>7. k5 = K([g4 EXCEPT ![c].state = "connected"])
      BY ONLY d \in Db, <3>1, <3>6 DEF Db
    <3> HIDE DEF k5, g
    <3> QED
      BY <3>2, <3>7
  <2>3. g = h
    BY <2>1
  <2> HIDE DEF g, h
  <2> QED
    BY ONLY <2>2, <2>3, m = Given(d, c, w, a, id, clean)
<1>4. /\ z \in Ctx /\ z.kind = x.kind /\ z.open = x.open /\ z.wsi = x.wsi
      /\ z.listener = x.listener /\ z.sub = x.sub /\ z.id = id /\ z.state = "connected"
      /\ z.will = w /\ z.acl = a /\ z.clean_session = clean /\ z.msgs = x.msgs /\ z.deaf = x.deaf
  <2> HIDE DEF x
  <2> QED
    BY ONLY <1>1, <1>2, id \in Id, clean \in BOOLEAN, a \in SUBSET Right DEF Ctx, States
<1> HIDE DEF z
<1>5. /\ h \in Heaps /\ DOMAIN h = DOMAIN d.heap /\ h[c] = z
      /\ \A e \in DOMAIN d.heap : e # c => h[e] = d.heap[e]
  BY ONLY <1>1, <1>4, c \in DOMAIN d.heap, HeapExcept
<1> HIDE DEF h
<1>6. /\ m \in Db /\ m.heap = h /\ m.by_id = d.by_id /\ m.ll_for_free = d.ll_for_free
      /\ m.leaves = d.leaves /\ m.client_count = d.client_count /\ m.made = d.made + 1
      /\ SameFiles(d, m) /\ m.published = d.published
  BY ONLY <1>2, <1>3, <1>5, d \in Db DEF Db, SameFiles
<1>7. Passed(m, n, c)
  BY ONLY <1>5, <1>6, c \in DOMAIN d.heap, PassFacts
<1>8. k = [n EXCEPT !.by_id = b]
  <2>1. n.by_id = d.by_id
    BY ONLY <1>6, <1>7 DEF Passed
  <2> QED
    BY <2>1
<1> HIDE DEF n
<1>9. b \in Seq(Context)
  BY ONLY <1>1
<1> HIDE DEF b
<1>10. /\ k \in Db /\ k.heap = n.heap /\ k.by_id = b /\ k.ll_for_free = n.ll_for_free
       /\ k.leaves = n.leaves /\ k.client_count = n.client_count /\ k.made = n.made
       /\ SameFiles(n, k) /\ k.published = n.published
  BY ONLY <1>7, <1>8, <1>9 DEF Db, Passed, SameFiles
<1>11. b = <<c>> \o d.by_id /\ x = d.heap[c]
  BY DEF b
<1> HIDE DEF x
<1>12. Named(d, k, c, id)
  BY ONLY <1>2, <1>4, <1>5, <1>6, <1>7, <1>10, <1>11 DEF Named, Passed, Like
<1>13. AclCheck(k, c, "read") <=> AclCheck(m, c, "read")
  BY ONLY <1>6, <1>7, <1>10 DEF AclCheck, AclCheckDefault, Passed, Like, SameFiles
<1>14. SameFiles(d, k) /\ k.published = d.published
  BY ONLY <1>6, <1>7, <1>10 DEF Passed, SameFiles
<1>15. /\ k.heap[c].will = w /\ k.heap[c].acl = a /\ k.heap[c].clean_session = clean
       /\ m.heap[c].msgs = x.msgs /\ m.heap[c].deaf = x.deaf
  BY ONLY <1>4, <1>5, <1>6, <1>7, <1>10 DEF Passed, Like
<1>16. Answered(d, k, c, w, a, clean)
  BY ONLY <1>7, <1>10, <1>11, <1>13, <1>14, <1>15 DEF Answered, Passed
<1> QED
  BY <1>12, <1>16
LEMMA FoundFacts ==
  ASSUME NEW d, Loose(d), NEW id \in Id
  PROVE  /\ Found(d, id) \in Seq(Context) /\ Distinct(Found(d, id))
         /\ Range(Found(d, id)) = {e \in DOMAIN d.heap : d.heap[e].id = id}
         /\ Found(d, id) # <<>> => Found(d, id)[1] \in Range(Found(d, id))
<1> DEFINE S == {i \in DOMAIN d.by_id : d.heap[d.by_id[i]].id = id}
           t == Those(d.by_id, S)
<1>1. d.by_id \in Seq(Context) /\ Distinct(d.by_id) /\ S \in SUBSET DOMAIN d.by_id
  BY DEF Loose, Db
<1>2. /\ t \in Seq(Context)
      /\ \A x : (\E i \in DOMAIN t : t[i] = x) <=> \E i \in S : d.by_id[i] = x
      /\ Distinct(t)
  <2> HIDE DEF S
  <2> QED
    BY <1>1, ThoseFacts DEF Distinct
<1> HIDE DEF t
<1>3. ASSUME NEW x
      PROVE  (\E i \in S : d.by_id[i] = x) <=> x \in DOMAIN d.heap /\ d.heap[x].id = id
  <2>1. Range(d.by_id) \subseteq DOMAIN d.heap /\ id # NoId
    BY IdAssumption DEF Loose
  <2>2. x \in DOMAIN d.heap => (d.heap[x].id # NoId <=> x \in Range(d.by_id))
    BY DEF Loose, Fit
  <2> QED
    BY <2>1, <2>2 DEF Range
<1> HIDE DEF S
<1>4. Range(t) = {e \in DOMAIN d.heap : d.heap[e].id = id}
  BY <1>2, <1>3 DEF Range
<1>5. t # <<>> => t[1] \in Range(t)
  <2>1. ASSUME t # <<>>
        PROVE  1 \in DOMAIN t
    BY <1>2, <2>1
  <2> QED
    BY <2>1 DEF Range
<1> QED
  BY <1>2, <1>4, <1>5 DEF Found, t, S

\* The database when the identifier is free, or its context has been taken over.
Ready(d, m, c, id, gr, gr1) ==
  /\ Good(m) /\ DOMAIN m.heap = DOMAIN d.heap /\ m.made = d.made
  /\ m.client_count <= d.client_count
  /\ Kept(d.heap[c], m.heap[c])
  /\ \A e \in DOMAIN m.heap :
       /\ id \notin WsId => m.heap[e].id # id
       /\ e # c => /\ m.heap[e].id \in gr \ WsId => m.heap[e].sub
                   /\ m.heap[e].state = "new" => ~m.heap[e].sub
  /\ gr1 \subseteq gr
  /\ id \in gr1 \ WsId => m.heap[c].sub

LEMMA ReadyFacts ==
  ASSUME IInv, NEW c \in DOMAIN db.heap, NEW id \in Id, NEW clean \in BOOLEAN,
         db.heap[c].id = NoId, ~db.heap[c].sub,
         NEW old, old = Found(db, id),
         NEW m, m = IF old = <<>> THEN db ELSE Takeover(db, c, old[1], clean),
         granted' = IF old # <<>> /\ ~clean /\ ~db.heap[old[1]].clean_session
                    THEN granted ELSE granted \ {id}
  PROVE  Ready(db, m, c, id, granted, granted')
<1>1. Good(db) /\ Fresh(db) /\ Grants(db, granted) /\ granted \in SUBSET Id /\ id # NoId
      /\ NoId \notin granted /\ db.client_count <= db.client_count
  BY IdAssumption DEF IInv, Good, Loose, Db
<1>2. /\ Range(old) = {e \in DOMAIN db.heap : db.heap[e].id = id}
      /\ old # <<>> => old[1] \in Range(old)
  BY <1>1, FoundFacts DEF Good
<1>3. CASE old = <<>>
  <2>1. m = db /\ granted' = granted \ {id}
    BY <1>3
  <2>2. Range(old) = {}
    BY <1>3 DEF Range
  <2>3. Kept(db.heap[c], db.heap[c])
    BY DEF Kept
  <2> QED
    BY <1>1, <1>2, <2>1, <2>2, <2>3 DEF Ready, Fresh, Grants
<1>4. CASE old # <<>>
  <2> DEFINE o == old[1]
             continued == ~clean /\ ~db.heap[o].clean_session
  <2>1. o \in DOMAIN db.heap /\ db.heap[o].id = id /\ c # o
    BY <1>1, <1>2, <1>4
  <2>2. m = Takeover(db, c, o, clean)
    BY <1>4
  <2>3. granted' = IF continued THEN granted ELSE granted \ {id}
    BY <1>4
  <2> HIDE DEF o
  <2>4. Taken(db, m, c, o, continued)
    BY <1>1, <2>1, <2>2, TakeoverGood
  <2> HIDE DEF continued
  <2>5. db.heap[o].kind = "tcp" \/ id \in WsId
    <3>1. db.heap[o] \in Ctx /\ Fit(db, o)
      BY <1>1, <2>1, ContextType DEF Good, Loose
    <3> QED
      BY <1>1, <2>1, <3>1 DEF Fit, Ctx
  <2>6. ASSUME NEW e \in DOMAIN m.heap
        PROVE  /\ id \notin WsId => m.heap[e].id # id
               /\ e # c => /\ m.heap[e].id \in granted \ WsId => m.heap[e].sub
                           /\ m.heap[e].state = "new" => ~m.heap[e].sub
    <3>1. e \in DOMAIN db.heap
      BY <2>4 DEF Taken
    <3>2. CASE e = o
      BY <1>1, <2>1, <2>4, <2>5, <3>2 DEF Taken
    <3>3. CASE e # o
      <4>1. Kept(db.heap[e], m.heap[e]) /\ (e # c => m.heap[e].sub = db.heap[e].sub)
        BY <2>4, <3>1, <3>3 DEF Taken
      <4>2. id \notin WsId => db.heap[e].id # id
        BY <1>1, <2>1, <3>1, <3>3 DEF Good, Loose, OneEach
      <4> QED
        BY <1>1, <3>1, <4>1, <4>2 DEF Kept, Grants, Fresh
    <3> QED
      BY <3>2, <3>3
  <2>7. id \in granted' \ WsId => m.heap[c].sub
    BY <1>1, <2>1, <2>3, <2>4 DEF Taken, Grants
  <2>8. granted' \subseteq granted
    BY <2>3
  <2> QED
    BY <2>1, <2>4, <2>6, <2>7, <2>8 DEF Ready, Taken
<1> QED
  BY <1>3, <1>4

LEMMA NamedGood ==
  ASSUME NEW m, NEW k, NEW c \in DOMAIN m.heap, NEW id \in Id, Good(m), Named(m, k, c, id),
         m.heap[c].id = NoId, m.heap[c].open, m.heap[c].kind = "ws" => id \in WsId,
         id \notin WsId => \A e \in DOMAIN m.heap : m.heap[e].id # id
  PROVE  Good(k)
<1>1. m \in Db /\ m.made \in Nat /\ k.made \in Nat /\ m.made <= k.made /\ k.made = m.made + 1
      /\ m.by_id \in Seq(Context) /\ c \in Context /\ id # NoId
  BY ContextType, IdAssumption DEF Good, Loose, Db, Named
<1>2. Fit(m, c) /\ Owned(m, c)
  BY DEF Good, Loose
<1>3. c \notin Range(m.by_id) /\ c \notin Range(m.ll_for_free)
  BY <1>2 DEF Fit, Owned
<1>4. Range(k.by_id) = Range(m.by_id) \cup {c} /\ Distinct(k.by_id)
  BY <1>1, <1>3, PushFacts DEF Good, Loose, Named
<1>5. k.client_count = Cardinality(Listening(k))
  <2>1. Listening(k) = Listening(m)
    BY DEF Named, Listening
  <2> QED
    BY <2>1 DEF Named, Good, Loose
<1>6. OneEach(k)
  <2>1. ASSUME NEW e \in DOMAIN k.heap, NEW f \in DOMAIN k.heap,
               k.heap[e].id = k.heap[f].id, k.heap[e].id \in Id \ WsId
        PROVE  e = f
    <3>1. \A g \in DOMAIN m.heap : g # c => k.heap[g] = m.heap[g]
      BY DEF Named
    <3>2. k.heap[c].id = id /\ DOMAIN k.heap = DOMAIN m.heap
      BY DEF Named
    <3> QED
      BY <2>1, <3>1, <3>2 DEF Good, Loose, OneEach
  <2> QED
    BY <2>1 DEF OneEach
<1>7. ASSUME NEW e \in DOMAIN k.heap
      PROVE  Fit(k, e) /\ Owned(k, e)
  <2>1. CASE e = c
    <3>1. Fit(k, c)
      BY <1>1, <1>2, <1>4 DEF Fit, Named
    <3>2. Owned(k, c)
      BY <1>2, <1>3 DEF Owned, Named
    <3> QED
      BY <2>1, <3>1, <3>2
  <2>2. CASE e # c
    <3>1. e \in DOMAIN m.heap /\ k.heap[e] = m.heap[e]
      BY <1>7, <2>2 DEF Named
    <3>2. Fit(m, e) /\ Owned(m, e) /\ m.heap[e] \in Ctx
      BY <1>1, <3>1, ContextType DEF Good, Loose
    <3>3. m.heap[e].will \in Nat /\ Like(m.heap[e], k.heap[e])
      BY <3>1, <3>2, LikeSame DEF Ctx
    <3>4. Fit(k, e)
      BY <1>1, <1>4, <2>2, <3>2, <3>3, FitKept DEF Named
    <3>5. Owned(k, e)
      BY <3>2, <3>3, OwnedKept DEF Named
    <3> QED
      BY <3>4, <3>5
  <2> QED
    BY <2>1, <2>2
<1>8. Loose(k)
  BY <1>4, <1>5, <1>6, <1>7 DEF Good, Loose, Named
<1> QED
  BY <1>7, <1>8 DEF Good, Named

LEMMA HandleConnectInv ==
  ASSUME IInv, NEW c \in DOMAIN db.heap, NEW id \in Id, NEW clean \in BOOLEAN, NEW will \in BOOLEAN,
         HandleConnect(c, id, clean, will)
  PROVE  IInv'
<1> DEFINE old == Found(db, id)
           m == IF old = <<>> THEN db ELSE Takeover(db, c, old[1], clean)
           w == IF will THEN db.made + 1 ELSE 0
           a == Entry(m, id)
           g == Given(m, c, w, a, id, clean)
<1>1. /\ db' = [AclPass(g, c) EXCEPT !.by_id = <<c>> \o @]
      /\ granted' = IF old # <<>> /\ ~clean /\ ~db.heap[old[1]].clean_session
                    THEN granted ELSE granted \ {id}
      /\ db.heap[c].state = "new" /\ db.heap[c].open /\ (db.heap[c].kind = "ws" => id \in WsId)
  BY DEF HandleConnect, Given
<1>2. db.heap[c].id = NoId /\ ~db.heap[c].sub
  BY <1>1 DEF IInv, Good, Loose, Fit, Fresh
<1>3. Ready(db, m, c, id, granted, granted')
  <2>1. old = Found(db, id) /\ m = IF old = <<>> THEN db ELSE Takeover(db, c, old[1], clean)
    OBVIOUS
  <2> HIDE DEF old, m
  <2> QED
    BY <1>1, <1>2, <2>1, ReadyFacts
<1> HIDE DEF m, old
<1>4. /\ m \in Db /\ Good(m) /\ c \in DOMAIN m.heap /\ db.made = m.made /\ db.made \in Nat
      /\ db.client_count \in Int /\ m.client_count \in Int /\ m.client_count <= db.client_count
      /\ m.heap[c].id = NoId /\ m.heap[c].open /\ (m.heap[c].kind = "ws" => id \in WsId)
  BY <1>1, <1>2, <1>3 DEF Ready, Kept, IInv, Good, Loose, Db
<1>5. w \in 0..m.made + 1
  BY <1>4
<1>6. a \in SUBSET Right
  BY <1>4 DEF Entry, Db, Rights, NoAcl
<1> HIDE DEF w, a
<1>7. Named(m, db', c, id)
  <2>1. g = Given(m, c, w, a, id, clean)
    OBVIOUS
  <2>2. db' = [AclPass(g, c) EXCEPT !.by_id = <<c>> \o @]
    BY <1>1
  <2> HIDE DEF g
  <2> QED
    BY ONLY <1>4, <1>5, <1>6, <2>1, <2>2, id \in Id, clean \in BOOLEAN, NamedFacts
<1> HIDE DEF g
<1>8. Good(db')
  BY ONLY <1>3, <1>4, <1>7, id \in Id, NamedGood DEF Ready
<1>9. db'.client_count <= MaxClients
  BY ONLY <1>4, <1>7, IInv, ClientAssumption DEF Named, IInv
<1>10. Fresh(db')
  BY ONLY <1>3, <1>7 DEF Ready, Named, Fresh
<1>11. Grants(db', granted')
  BY ONLY <1>3, <1>7 DEF Ready, Named, Grants
<1>12. granted' \in SUBSET Id
  BY ONLY <1>3, IInv DEF Ready, IInv
<1> QED
  BY <1>8, <1>9, <1>10, <1>11, <1>12 DEF IInv

------------------------------------------------------------------------------
\* The specification.

LEMMA InitInv ==
  ASSUME Init
  PROVE  IInv
<1> DEFINE r == [heap |-> <<>>, by_id |-> <<>>, ll_for_free |-> <<>>, leaves |-> <<>>,
                 client_count |-> 0, made |-> 0, published |-> <<>>,
                 unpwd |-> <<>>, acl_list |-> <<>>, acl_patterns |-> {}]
<1>1. file \in FileType /\ db = SecurityInit(r, file) /\ granted = {}
  BY FilesAssumption DEF Init
<1>2. DOMAIN <<>> = {} /\ Range(<<>>) = {} /\ <<>> \in Heaps /\ <<>> \in Rights
  <2>1. DOMAIN <<>> = {}
    OBVIOUS
  <2>2. <<>> \in [{} -> Ctx] /\ <<>> \in [{} -> SUBSET Right]
    OBVIOUS
  <2>3. {} \in SUBSET Context /\ {} \in SUBSET (Id \cup {NoId})
    OBVIOUS
  <2>4. <<>> \in Heaps
    BY <2>2, <2>3 DEF Heaps
  <2>5. <<>> \in Rights
    BY <2>2, <2>3 DEF Rights
  <2>6. Range(<<>>) = {}
    BY <2>1 DEF Range
  <2> QED
    BY <2>1, <2>4, <2>5, <2>6
<1>3. /\ r \in Db /\ r.acl_list = <<>> /\ r.heap = <<>> /\ r.by_id = <<>> /\ r.ll_for_free = <<>>
      /\ r.leaves = <<>> /\ r.client_count = 0 /\ r.made = 0
  <2>1. /\ <<>> \in Seq(Context) /\ <<>> \in Seq(Nat) /\ <<>> \in Seq(PwLine) /\ {} \in SUBSET Right
        /\ 0 \in Int /\ 0 \in Nat
    OBVIOUS
  <2> QED
    BY <1>2, <2>1 DEF Db
<1> HIDE DEF r
<1>4. /\ db.heap = <<>> /\ db.by_id = <<>> /\ db.ll_for_free = <<>> /\ db.leaves = <<>>
      /\ db.client_count = 0 /\ db.made = 0 /\ db \in Db /\ DOMAIN db.heap = {}
  BY <1>1, <1>2, <1>3, SecurityLoads DEF SameLists
<1>6. Listening(db) = {} /\ Cardinality({}) = 0 /\ IsFiniteSet({})
  BY <1>4, FS_EmptySet DEF Listening
<1>7. Distinct(<<>>)
  BY DEF Distinct
<1>8. Good(db) /\ Fresh(db) /\ Grants(db, {})
  BY <1>2, <1>4, <1>6, <1>7 DEF Good, Loose, OneEach, Fresh, Grants
<1> QED
  BY <1>1, <1>4, <1>8, ClientAssumption DEF IInv

LEMMA NextInv ==
  ASSUME IInv, [Next]_vars
  PROVE  IInv'
<1>1. CASE UNCHANGED vars
  BY <1>1 DEF vars, IInv
<1>2. CASE Accept
  BY <1>2, AcceptInv
<1>3. CASE WsEstablished
  BY <1>3, WsEstablishedInv
<1>4. CASE FreeDisused
  BY <1>4, FreeDisusedInv
<1>5. ASSUME NEW c \in DOMAIN db.heap,
             \/ \E id \in Id : Refuse(c, id)
                               \/ \E clean, will \in BOOLEAN : HandleConnect(c, id, clean, will)
             \/ HandleConnectError(c) \/ HandleDisconnect(c) \/ Fail(c) \/ WsClosed(c)
             \/ HandleSubscribe(c) \/ HandleUnsubscribe(c) \/ Sent(c)
      PROVE  IInv'
  <2>1. CASE HandleConnectError(c) \/ Fail(c)
    BY <2>1, DropInv DEF HandleConnectError, Fail
  <2>2. CASE \E id \in Id : Refuse(c, id)
    BY <2>2, RefuseInv
  <2>3. CASE \E id \in Id : \E clean, will \in BOOLEAN : HandleConnect(c, id, clean, will)
    BY <2>3, HandleConnectInv
  <2> QED
    BY <1>5, <2>1, <2>2, <2>3, HandleDisconnectInv, WsClosedInv, HandleSubscribeInv,
       HandleUnsubscribeInv, SentInv
<1>6. CASE \E old \in SUBSET DOMAIN db.heap : Expire(old)
  BY <1>6, ExpireInv
<1>7. CASE \E f \in Files : Reload(f)
  BY <1>7, ReloadInv
<1> QED
  BY <1>1, <1>2, <1>3, <1>4, <1>5, <1>6, <1>7 DEF Next

LEMMA Invariant == Spec => []IInv
<1>1. Init => IInv
  BY InitInv
<1>2. IInv /\ [Next]_vars => IInv'
  BY NextInv
<1> QED
  BY <1>1, <1>2, PTL DEF Spec

\* No pointer to a context is stale, and the tree, the hash and the contexts agree
\* (context.c:118).
THEOREM PointersTrue == Spec => []TypeOK
<1>1. ASSUME IInv
      PROVE  TypeOK
  <2>1. Good(db)
    BY <1>1 DEF IInv
  <2>2. ASSUME NEW c \in DOMAIN db.heap
        PROVE  /\ db.heap[c].id \in Id \cup {NoId}
               /\ db.heap[c].will \in 0..db.made
               /\ db.heap[c].sub <=> c \in Range(db.leaves)
               /\ db.heap[c].id # NoId <=> c \in Range(db.by_id)
    <3>1. db.heap[c] \in Ctx /\ Fit(db, c) /\ db.made \in Nat
      BY <2>1, ContextType DEF Good, Loose, Db
    <3> QED
      BY <3>1 DEF Ctx, Fit
  <2> QED
    BY <2>1, <2>2 DEF TypeOK, Good, Loose
<1>2. IInv => TypeOK
  BY <1>1
<1> QED
  BY <1>2, Invariant, PTL

\* Every context is freed once, and none is forgotten (context.c:206): it is on the disused
\* list, once, exactly when its connection and its session have ended.
THEOREM OwnedOnce == Spec => []OneOwner
<1>1. ASSUME IInv
      PROVE  OneOwner
  <2>1. Good(db) /\ db.ll_for_free \in Seq(Context)
    BY <1>1 DEF IInv, Good, Loose, Db
  <2>2. ASSUME NEW c \in DOMAIN db.heap
        PROVE  LET x == db.heap[c]
                   uses == Cardinality({i \in DOMAIN db.ll_for_free : db.ll_for_free[i] = c})
               IN  /\ uses <= 1
                   /\ uses = 1 <=> ~x.open /\ ~x.wsi /\ x.clean_session
                   /\ uses = 0 => x.open \/ x.wsi \/ c \in Range(db.by_id)
    <3> DEFINE U == {i \in DOMAIN db.ll_for_free : db.ll_for_free[i] = c}
    <3>1. Fit(db, c) /\ Owned(db, c) /\ Distinct(db.ll_for_free)
      BY <2>1 DEF Good, Loose
    <3>2. CASE c \in Range(db.ll_for_free)
      <4>1. PICK i \in DOMAIN db.ll_for_free : db.ll_for_free[i] = c
        BY <3>2 DEF Range
      <4>2. U = {i}
        BY <3>1, <4>1 DEF Distinct
      <4>3. Cardinality(U) = 1
        BY <4>2, FS_Singleton
      <4> QED
        BY <3>1, <3>2, <4>3 DEF Owned
    <3>3. CASE c \notin Range(db.ll_for_free)
      <4>1. U = {}
        BY <3>3 DEF Range
      <4>2. Cardinality(U) = 0
        BY <4>1, FS_EmptySet
      <4>3. db.heap[c].open \/ db.heap[c].wsi \/ c \in Range(db.by_id)
        BY <3>1, <3>3 DEF Owned, Fit
      <4> QED
        BY <3>1, <3>3, <4>2, <4>3 DEF Owned
    <3> QED
      BY <3>2, <3>3
  <2> QED
    BY <2>2 DEF OneOwner
<1>2. IInv => OneOwner
  BY <1>1
<1> QED
  BY <1>2, Invariant, PTL

\* The listener counts exactly its open connections, never more than max_connections (net.c:116).
THEOREM ConnectionsCounted == Spec => []CountExact
<1>1. IInv => CountExact
  BY DEF IInv, Good, Loose, Listening, CountExact
<1> QED
  BY <1>1, Invariant, PTL

\* What SUBACK granted a client that uses TCP only is in the tree, under the one context that
\* has its identifier (read_handle_server.c:435).
THEOREM GrantsHold == Spec => []GrantsKept
<1>1. ASSUME IInv, NEW id \in Id \ WsId
      PROVE  /\ Len(Found(db, id)) <= 1
             /\ id \in granted => \A c \in Range(Found(db, id)) : c \in Range(db.leaves)
  <2>1. Good(db) /\ Grants(db, granted) /\ OneEach(db)
    BY <1>1 DEF IInv, Good, Loose
  <2>2. /\ Found(db, id) \in Seq(Context) /\ Distinct(Found(db, id))
        /\ Range(Found(db, id)) = {e \in DOMAIN db.heap : db.heap[e].id = id}
    BY <2>1, FoundFacts DEF Good
  <2>3. Len(Found(db, id)) <= 1
    <3>1. ASSUME ~(Len(Found(db, id)) <= 1)
          PROVE  FALSE
      <4>1. 1 \in DOMAIN Found(db, id) /\ 2 \in DOMAIN Found(db, id)
        BY <2>2, <3>1
      <4> DEFINE a == Found(db, id)[1]
                 b == Found(db, id)[2]
      <4>2. a \in Range(Found(db, id)) /\ b \in Range(Found(db, id))
        BY <4>1 DEF Range
      <4> HIDE DEF a, b
      <4>3. a = b
        BY <2>1, <2>2, <4>2 DEF OneEach
      <4> QED
        BY <2>2, <4>1, <4>3 DEF Distinct, a, b
    <3> QED
      BY <3>1
  <2>4. ASSUME id \in granted, NEW c \in Range(Found(db, id))
        PROVE  c \in Range(db.leaves)
    BY <2>1, <2>2, <2>4 DEF Grants, Good, Loose, Fit
  <2> QED
    BY <2>3, <2>4
<1>2. IInv => GrantsKept
  BY <1>1 DEF GrantsKept
<1> QED
  BY <1>2, Invariant, PTL

------------------------------------------------------------------------------
\* Sessions as a service.  What the functions on contexts leave of every field that a session
\* shows, and what they publish.

\* who is sent a will
Hears(d, e) == d.heap[e].sub /\ AclCheck(d, e, "read") /\ ~d.heap[e].deaf

\* mqtt3_db_messages_easy_queue
LEMMA QueueExact ==
  ASSUME NEW d, Loose(d), NEW w \in Nat, NEW k, k = EasyQueue(d, w)
  PROVE  /\ DOMAIN k.heap = DOMAIN d.heap /\ k.published = Append(d.published, w)
         /\ SameFiles(d, k) /\ SameLists(d, k)
         /\ \A e \in DOMAIN d.heap :
              k.heap[e] = IF Hears(d, e) THEN [d.heap[e] EXCEPT !.msgs = Append(@, w)] ELSE d.heap[e]
<1> DEFINE P(c) == c \in Range(d.leaves) /\ AclCheck(d, c, "read") /\ ~d.heap[c].deaf
           h == [c \in DOMAIN d.heap |-> IF P(c) THEN [d.heap[c] EXCEPT !.msgs = Append(@, w)]
                                         ELSE d.heap[c]]
<1>1. k = [d EXCEPT !.published = Append(d.published, w), !.heap = h]
  BY DEF EasyQueue, Db, Loose
<1>2. \A e \in DOMAIN d.heap : P(e) <=> Hears(d, e)
  BY DEF Loose, Fit, Hears
<1>3. /\ DOMAIN h = DOMAIN d.heap
      /\ \A e \in DOMAIN d.heap :
           h[e] = IF Hears(d, e) THEN [d.heap[e] EXCEPT !.msgs = Append(@, w)] ELSE d.heap[e]
  <2> HIDE DEF P
  <2> QED
    BY <1>2
<1> HIDE DEF h
<1>4. k.heap = h /\ k.published = Append(d.published, w) /\ SameFiles(d, k) /\ SameLists(d, k)
  BY <1>1 DEF Db, Loose, SameFiles, SameLists
<1> QED
  BY <1>3, <1>4

\* Nothing of the context but its connection.
Shown(x, y) == y.msgs = x.msgs /\ y.deaf = x.deaf /\ y.acl = x.acl

\* the other contexts stay, and nothing is published
Apart(d, k, c) ==
  /\ DOMAIN k.heap = DOMAIN d.heap /\ k.published = d.published
  /\ \A e \in DOMAIN d.heap : e # c => k.heap[e] = d.heap[e]

LEMMA AlterExact ==
  ASSUME NEW d \in Db, NEW c \in DOMAIN d.heap, NEW z \in Ctx,
         NEW k, k = [d EXCEPT !.heap = [d.heap EXCEPT ![c] = z]]
  PROVE  Apart(d, k, c) /\ k.heap[c] = z
<1>1. k.heap = [d.heap EXCEPT ![c] = z] /\ k.published = d.published
  BY DEF Db
<1> QED
  BY <1>1, ContextType, HeapExcept DEF Apart

\* mosquitto__socket_close
LEMMA CloseExact ==
  ASSUME NEW d \in Db, NEW c \in DOMAIN d.heap, NEW k, k = SocketClose(d, c)
  PROVE  Apart(d, k, c) /\ Shown(d.heap[c], k.heap[c])
<1> DEFINE x == d.heap[c]
           s == IF x.kind = "ws" /\ x.open /\ x.state # "disconnecting" THEN "disconnect_ws" ELSE x.state
           n == d.client_count - (IF x.listener THEN 1 ELSE 0)
           z == [x EXCEPT !.state = s, !.open = FALSE, !.listener = FALSE]
           h == [d.heap EXCEPT ![c] = z]
<1>1. x \in Ctx
  BY ContextType
<1>2. [d.heap EXCEPT ![c].state = s, ![c].open = FALSE, ![c].listener = FALSE] = h
  BY HeapType DEF Db
<1>3. k = [d EXCEPT !.heap = h, !.client_count = n]
  BY <1>2 DEF SocketClose, Db
<1>4. s \in States
  BY <1>1 DEF States, Ctx
<1> HIDE DEF s
<1>5. z \in Ctx /\ Shown(x, z)
  BY <1>1, <1>4 DEF Ctx, Shown
<1> HIDE DEF z
<1>6. /\ DOMAIN h = DOMAIN d.heap /\ h[c] = z /\ \A e \in DOMAIN d.heap : e # c => h[e] = d.heap[e]
  BY <1>5, ContextType, HeapExcept
<1> HIDE DEF h, n
<1>7. k.heap = h /\ k.published = d.published
  BY <1>3 DEF Db
<1> QED
  BY <1>5, <1>6, <1>7 DEF Apart


\* the database once the will of a context that fails has been sent
AfterWill(d, c) ==
  IF d.heap[c].state # "disconnecting" /\ d.heap[c].will # 0 /\ AclCheck(d, c, "write")
  THEN EasyQueue(d, d.heap[c].will) ELSE d

LEMMA AfterWillFacts ==
  ASSUME NEW d, Loose(d), NEW c \in DOMAIN d.heap, NEW m, m = AfterWill(d, c)
  PROVE  /\ m \in Db /\ DOMAIN m.heap = DOMAIN d.heap /\ SameFiles(d, m) /\ SameLists(d, m)
         /\ m.client_count = d.client_count
         /\ \A e \in DOMAIN d.heap : Like(d.heap[e], m.heap[e]) /\ m.heap[e].deaf = d.heap[e].deaf
                                     /\ m.heap[e].acl = d.heap[e].acl /\ m.heap[e] \in Ctx
<1>1. d \in Db /\ d.heap[c] \in Ctx /\ d.heap[c].will \in Nat
  BY ContextType DEF Loose, Ctx
<1>2. CASE m = d
  BY <1>1, <1>2, LikeSame, ContextType DEF SameFiles, SameLists
<1>3. CASE m = EasyQueue(d, d.heap[c].will)
  <2>1. /\ m \in Db /\ DOMAIN m.heap = DOMAIN d.heap /\ m.client_count = d.client_count
        /\ \A e \in DOMAIN d.heap : Like(d.heap[e], m.heap[e])
    BY <1>1, <1>3, QueueFacts
  <2>2. /\ SameFiles(d, m) /\ SameLists(d, m)
        /\ \A e \in DOMAIN d.heap :
             m.heap[e] = IF Hears(d, e) THEN [d.heap[e] EXCEPT !.msgs = Append(@, d.heap[c].will)] ELSE d.heap[e]
    BY <1>1, <1>3, QueueExact
  <2>3. ASSUME NEW e \in DOMAIN d.heap
        PROVE  m.heap[e].deaf = d.heap[e].deaf /\ m.heap[e].acl = d.heap[e].acl /\ m.heap[e] \in Ctx
    <3>1. d.heap[e] \in Ctx /\ m.heap[e] \in Ctx
      BY <1>1, <2>1, ContextType
    <3> QED
      BY <2>2, <3>1 DEF Ctx
  <2> QED
    BY <2>1, <2>2, <2>3
<1> QED
  BY <1>2, <1>3 DEF AfterWill

\* mqtt3_context_disconnect
LEMMA DisconnectExact ==
  ASSUME NEW d, Loose(d), NEW c \in DOMAIN d.heap, NEW m, m = AfterWill(d, c),
         NEW k, k = ContextDisconnect(d, c)
  PROVE  Apart(m, k, c) /\ Shown(m.heap[c], k.heap[c])
<1> DEFINE z == [m.heap[c] EXCEPT !.will = 0, !.timed = TRUE]
           d2 == [m EXCEPT !.heap = [m.heap EXCEPT ![c] = z]]
<1>1. m \in Db /\ c \in DOMAIN m.heap /\ m.heap[c] \in Ctx
  BY AfterWillFacts
<1>2. k = SocketClose(d2, c)
  <2>1. k = SocketClose([m EXCEPT !.heap[c].will = 0, !.heap[c].timed = TRUE], c)
    BY DEF ContextDisconnect, AfterWill
  <2>2. [m.heap EXCEPT ![c].will = 0, ![c].timed = TRUE] = [m.heap EXCEPT ![c] = z]
    BY <1>1, HeapType DEF Db
  <2>3. [m EXCEPT !.heap[c].will = 0, !.heap[c].timed = TRUE] = d2
    BY <1>1, <2>2 DEF Db
  <2> QED
    BY <2>1, <2>3
<1>3. z \in Ctx /\ Shown(m.heap[c], z)
  BY <1>1 DEF Ctx, Shown
<1> HIDE DEF z
<1>4. d2 \in Db /\ Apart(m, d2, c) /\ d2.heap[c] = z
  BY <1>1, <1>3, AlterFacts, AlterExact
<1> HIDE DEF d2
<1>5. c \in DOMAIN d2.heap
  BY <1>1, <1>4 DEF Apart
<1>6. Apart(d2, k, c) /\ Shown(d2.heap[c], k.heap[c])
  BY <1>2, <1>4, <1>5, CloseExact
<1> QED
  BY <1>3, <1>4, <1>6 DEF Apart, Shown

\* What do_disconnect leaves, when m is the database with the will sent, or d as it was.
Quit(d, m, k, c) ==
  LET x == d.heap[c]
      y == k.heap[c]
  IN  /\ Apart(m, k, c) /\ Shown(m.heap[c], y) /\ SameFiles(d, k) /\ k.made = d.made
      /\ ~y.open /\ y.wsi = x.wsi /\ y.kind = x.kind /\ y.clean_session = x.clean_session /\ y.sub = x.sub
      /\ y.id = IF x.wsi \/ ~x.clean_session THEN x.id ELSE NoId
      /\ y.will = IF x.wsi THEN x.will ELSE 0
      /\ y.state # "new"

LEMMA QuitFacts ==
  ASSUME NEW d, Loose(d), NEW c \in DOMAIN d.heap, d.heap[c].state # "disconnected",
         NEW k, k = DoDisconnect(d, c)
  PROVE  Quit(d, IF d.heap[c].wsi THEN d ELSE AfterWill(d, c), k, c)
<1> DEFINE x == d.heap[c]
<1>1. x \in Ctx /\ d \in Db
  BY ContextType DEF Loose
<1>2. CASE x.wsi
  <2> DEFINE s == IF x.state # "disconnecting" THEN "disconnect_ws" ELSE x.state
             z == [x EXCEPT !.state = s, !.open = FALSE]
  <2>1. s \in {"disconnecting", "disconnect_ws"}
    OBVIOUS
  <2>2. k = [d EXCEPT !.heap[c].state = s, !.heap[c].open = FALSE]
    BY <1>2 DEF DoDisconnect
  <2> HIDE DEF s
  <2>3. [d.heap EXCEPT ![c].state = s, ![c].open = FALSE] = [d.heap EXCEPT ![c] = z]
    BY <1>1, HeapType DEF Db
  <2>4. k = [d EXCEPT !.heap = [d.heap EXCEPT ![c] = z]]
    BY <1>1, <2>2, <2>3 DEF Db
  <2>5. /\ z \in Ctx /\ Shown(x, z) /\ z.will = x.will /\ ~z.open /\ z.wsi = x.wsi /\ z.kind = x.kind
        /\ z.clean_session = x.clean_session /\ z.sub = x.sub /\ z.id = x.id /\ z.state # "new"
    BY <1>1, <2>1 DEF Ctx, Shown, States
  <2> HIDE DEF z
  <2>6. Apart(d, k, c) /\ k.heap[c] = z /\ SameFiles(d, k) /\ k.made = d.made
    BY <1>1, <2>4, <2>5, AlterExact, AlterFacts DEF SameLists
  <2> QED
    BY <1>2, <2>5, <2>6 DEF Quit
<1>3. CASE ~x.wsi
  <2> DEFINE m == AfterWill(d, c)
             d1 == ContextDisconnect(d, c)
             z == [d1.heap[c] EXCEPT !.id = IF x.clean_session THEN NoId ELSE @, !.state = "disconnected"]
             b == Without(d1.by_id, c)
             l == <<c>> \o d1.ll_for_free
  <2>1. /\ Apart(m, d1, c) /\ Shown(m.heap[c], d1.heap[c]) /\ d1 \in Db /\ SameFiles(d, d1)
        /\ d1.made = d.made /\ d1.heap[c] \in Ctx /\ c \in DOMAIN d1.heap /\ d1.heap \in Heaps
        /\ ~d1.heap[c].open /\ d1.heap[c].wsi = x.wsi /\ d1.heap[c].kind = x.kind /\ d1.heap[c].clean_session = x.clean_session
        /\ d1.heap[c].sub = x.sub /\ d1.heap[c].id = x.id /\ d1.heap[c].will = 0
    <3> HIDE DEF z, b, l, m
    <3>1. d1 = ContextDisconnect(d, c)
      OBVIOUS
    <3> HIDE DEF d1
    <3>2. /\ d1 \in Db /\ Others(d, d1, c) /\ SameLists(d, d1) /\ SameFiles(d, d1)
          /\ d1.heap[c].kind = x.kind /\ ~d1.heap[c].open /\ d1.heap[c].wsi = x.wsi /\ d1.heap[c].id = x.id
          /\ d1.heap[c].clean_session = x.clean_session /\ d1.heap[c].will = 0 /\ d1.heap[c].sub = x.sub
      BY <1>1, <3>1, DisconnectFacts
    <3>3. c \in DOMAIN d1.heap
      BY <3>2 DEF Others
    <3>4. d1.heap[c] \in Ctx /\ d1.heap \in Heaps
      BY <3>2, <3>3, ContextType
    <3>5. Apart(m, d1, c) /\ Shown(m.heap[c], d1.heap[c])
      BY <3>1, DisconnectExact DEF m
    <3> QED
      BY <3>2, <3>3, <3>4, <3>5 DEF SameLists
  <2>2. k = IF x.clean_session
            THEN [[AddToDisused(d1, c) EXCEPT !.by_id = Without(@, c), !.heap[c].id = NoId]
                    EXCEPT !.heap[c].state = "disconnected"]
            ELSE [d1 EXCEPT !.heap[c].state = "disconnected"]
    BY <1>3 DEF DoDisconnect
  <2> HIDE DEF d1, m
  <2>3. k.heap = [d1.heap EXCEPT ![c] = z] /\ k.published = d1.published /\ SameFiles(d1, k) /\ k.made = d1.made
    <3>1. CASE ~x.clean_session
      <4>1. [d1.heap EXCEPT ![c].state = "disconnected"] = [d1.heap EXCEPT ![c] = z]
        BY <2>1, <3>1, HeapType
      <4> QED
        BY <2>1, <2>2, <3>1, <4>1 DEF Db, SameFiles
    <3>2. CASE x.clean_session
      <4> DEFINE h1 == [d1.heap EXCEPT ![c].id = NoId]
                 k1 == [d1 EXCEPT !.ll_for_free = l, !.by_id = b, !.heap = h1]
      <4>1. [h1 EXCEPT ![c].state = "disconnected"] = [d1.heap EXCEPT ![c] = z]
        BY <2>1, <3>2, HeapType
      <4>2. AddToDisused(d1, c) = [d1 EXCEPT !.ll_for_free = l]
        BY DEF AddToDisused
      <4>3. [d1 EXCEPT !.ll_for_free = l].by_id = d1.by_id
        BY <2>1 DEF Db
      <4>4. k = [[[d1 EXCEPT !.ll_for_free = l] EXCEPT !.by_id = b, !.heap[c].id = NoId]
                    EXCEPT !.heap[c].state = "disconnected"]
        BY <2>2, <3>2, <4>2, <4>3
      <4> HIDE DEF l, b
      <4>5. [[d1 EXCEPT !.ll_for_free = l] EXCEPT !.by_id = b, !.heap[c].id = NoId] = k1
        BY <2>1 DEF Db
      <4>6. k = [k1 EXCEPT !.heap[c].state = "disconnected"]
        BY <4>4, <4>5
      <4>7. k1.heap = h1
        BY <2>1 DEF Db
      <4>8. k = [k1 EXCEPT !.heap = [h1 EXCEPT ![c].state = "disconnected"]]
        BY <4>6, <4>7
      <4>9. k = [k1 EXCEPT !.heap = [d1.heap EXCEPT ![c] = z]]
        BY <4>1, <4>8
      <4> HIDE DEF h1, z
      <4> QED
        BY <2>1, <4>9 DEF Db, SameFiles
    <3> QED
      BY <1>1, <3>1, <3>2 DEF Ctx
  <2>4. /\ z \in Ctx /\ Shown(d1.heap[c], z) /\ z.will = 0 /\ ~z.open /\ z.wsi = x.wsi /\ z.kind = x.kind
        /\ z.clean_session = x.clean_session /\ z.sub = x.sub /\ z.state # "new"
        /\ z.id = IF x.clean_session THEN NoId ELSE x.id
    BY <1>1, <2>1 DEF Ctx, Shown, States
  <2> HIDE DEF z
  <2>5. /\ k.heap[c] = z /\ DOMAIN k.heap = DOMAIN d1.heap
        /\ \A e \in DOMAIN d1.heap : e # c => k.heap[e] = d1.heap[e]
    BY <2>1, <2>3, <2>4, HeapExcept
  <2>6. Quit(d, m, k, c)
    BY <1>1, <1>3, <2>1, <2>3, <2>4, <2>5 DEF Quit, Apart, Shown, SameFiles
  <2> QED
    BY <1>3, <2>6 DEF m
<1> QED
  BY <1>1, <1>2, <1>3 DEF Ctx

------------------------------------------------------------------------------
\* The sessions of a database.

Own == Id \ WsId

See(x) == [online |-> x.open, durable |-> ~x.clean_session, subscribed |-> x.sub,
           will |-> x.will, inbox |-> x.msgs, deaf |-> x.deaf]

Sess(d) == [id \in {j \in Own : Found(d, j) # <<>>} |-> See(d.heap[Found(d, id)[1]])]

LEMMA SessionMapIs == SessionMap = Sess(db) /\ SessionMap' = Sess(db')
  BY DEF SessionMap, SessionOf, Sess, See, Own, Found

\* There is one for each identifier that a context has.
LEMMA SessFacts ==
  ASSUME NEW d, Loose(d)
  PROVE  /\ \A id \in DOMAIN Sess(d) : id \in Own /\ \E c \in DOMAIN d.heap : d.heap[c].id = id
         /\ Sess(d) = [id \in DOMAIN Sess(d) |-> Sess(d)[id]]
         /\ \A c \in DOMAIN d.heap : d.heap[c].id \in Own =>
              d.heap[c].id \in DOMAIN Sess(d) /\ Sess(d)[d.heap[c].id] = See(d.heap[c])
<1>1. ASSUME NEW id \in Own
      PROVE  /\ Found(d, id) # <<>> <=> \E c \in DOMAIN d.heap : d.heap[c].id = id
             /\ \A c \in DOMAIN d.heap : d.heap[c].id = id => Found(d, id)[1] = c
  <2>1. /\ Range(Found(d, id)) = {e \in DOMAIN d.heap : d.heap[e].id = id}
        /\ Found(d, id) # <<>> => Found(d, id)[1] \in Range(Found(d, id))
    BY FoundFacts DEF Own
  <2>2. Found(d, id) = <<>> => Range(Found(d, id)) = {}
    BY DEF Range
  <2>3. \A c, e \in DOMAIN d.heap : d.heap[c].id = id /\ d.heap[e].id = id => c = e
    BY DEF Loose, OneEach, Own
  <2> QED
    BY <2>1, <2>2, <2>3
<1>2. /\ \A id : id \in DOMAIN Sess(d) <=> id \in Own /\ Found(d, id) # <<>>
      /\ \A id \in Own : Found(d, id) # <<>> => Sess(d)[id] = See(d.heap[Found(d, id)[1]])
  <2> HIDE DEF Found, See
  <2> QED
    BY DEF Sess
<1>3. Sess(d) = [id \in DOMAIN Sess(d) |-> Sess(d)[id]]
  BY DEF Sess
<1> HIDE DEF Found, See, Sess
<1> QED
  BY <1>1, <1>2, <1>3

\* A map with the same identifiers and values is the same.
LEMMA SessIs ==
  ASSUME NEW d, Loose(d), NEW f, f = [id \in DOMAIN f |-> f[id]],
         \A id \in DOMAIN f : id \in Own /\ \E c \in DOMAIN d.heap : d.heap[c].id = id,
         \A c \in DOMAIN d.heap : d.heap[c].id \in Own =>
           d.heap[c].id \in DOMAIN f /\ f[d.heap[c].id] = See(d.heap[c])
  PROVE  Sess(d) = f
<1>1. ASSUME NEW id \in DOMAIN f
      PROVE  id \in DOMAIN Sess(d) /\ Sess(d)[id] = f[id]
  <2>1. PICK c \in DOMAIN d.heap : d.heap[c].id = id
    OBVIOUS
  <2> QED
    BY <2>1, SessFacts
<1>2. ASSUME NEW id \in DOMAIN Sess(d)
      PROVE  id \in DOMAIN f
  <2>1. PICK c \in DOMAIN d.heap : d.heap[c].id = id
    BY SessFacts
  <2> QED
    BY <2>1, SessFacts
<1>3. Sess(d) = [id \in DOMAIN Sess(d) |-> Sess(d)[id]]
  BY SessFacts
<1> HIDE DEF Sess
<1> QED
  BY <1>1, <1>2, <1>3

\* Contexts that are seen as before make the same sessions.
SeenAs(d, k, C) ==
  /\ \A c \in DOMAIN d.heap \ C : d.heap[c].id \in Own =>
       c \in DOMAIN k.heap /\ k.heap[c].id = d.heap[c].id /\ See(k.heap[c]) = See(d.heap[c])
  /\ \A c \in DOMAIN k.heap \ C : k.heap[c].id \in Own => c \in DOMAIN d.heap /\ d.heap[c].id = k.heap[c].id

LEMMA SeenSame ==
  ASSUME NEW d, NEW k, Loose(d), Loose(k), SeenAs(d, k, {})
  PROVE  Sess(k) = Sess(d)
<1>1. ASSUME NEW id \in DOMAIN Sess(d)
      PROVE  id \in Own /\ \E c \in DOMAIN k.heap : k.heap[c].id = id
  <2>1. id \in Own /\ \E c \in DOMAIN d.heap : d.heap[c].id = id
    BY SessFacts
  <2> QED
    BY <2>1 DEF SeenAs
<1>2. ASSUME NEW c \in DOMAIN k.heap, k.heap[c].id \in Own
      PROVE  k.heap[c].id \in DOMAIN Sess(d) /\ Sess(d)[k.heap[c].id] = See(k.heap[c])
  <2>1. c \in DOMAIN d.heap /\ d.heap[c].id = k.heap[c].id
    BY <1>2 DEF SeenAs
  <2>2. See(k.heap[c]) = See(d.heap[c])
    BY <1>2, <2>1 DEF SeenAs
  <2> QED
    BY <1>2, <2>1, <2>2, SessFacts
<1>3. Sess(d) = [id \in DOMAIN Sess(d) |-> Sess(d)[id]]
  BY SessFacts
<1> QED
  BY <1>1, <1>2, <1>3, SessIs

\* One session has changed.
LEMMA SeenOne ==
  ASSUME NEW d, NEW k, Loose(d), Loose(k), NEW c \in DOMAIN d.heap, SeenAs(d, k, {c}),
         d.heap[c].id \in Own, c \in DOMAIN k.heap, k.heap[c].id = d.heap[c].id
  PROVE  Sess(k) = [Sess(d) EXCEPT ![d.heap[c].id] = See(k.heap[c])]
<1> DEFINE id == d.heap[c].id
           f == [Sess(d) EXCEPT ![id] = See(k.heap[c])]
<1>1. /\ DOMAIN f = DOMAIN Sess(d) /\ f = [j \in DOMAIN f |-> f[j]]
      /\ id \in DOMAIN Sess(d) => f[id] = See(k.heap[c])
      /\ \A j \in DOMAIN Sess(d) : j # id => f[j] = Sess(d)[j]
  <2> HIDE DEF Sess, See, id
  <2>1. Sess(d) = [j \in DOMAIN Sess(d) |-> Sess(d)[j]]
    BY SessFacts
  <2> QED
    BY <2>1
<1> HIDE DEF f
<1>2. ASSUME NEW j \in DOMAIN f
      PROVE  j \in Own /\ \E e \in DOMAIN k.heap : k.heap[e].id = j
  <2>1. j \in Own /\ \E e \in DOMAIN d.heap : d.heap[e].id = j
    BY <1>1, <1>2, SessFacts
  <2>2. PICK e \in DOMAIN d.heap : d.heap[e].id = j
    BY <2>1
  <2>3. e \in DOMAIN k.heap /\ k.heap[e].id = j
    BY <1>1, <1>2, <2>1, <2>2 DEF SeenAs
  <2> QED
    BY <2>1, <2>3
<1>3. ASSUME NEW e \in DOMAIN k.heap, k.heap[e].id \in Own
      PROVE  k.heap[e].id \in DOMAIN f /\ f[k.heap[e].id] = See(k.heap[e])
  <2>1. CASE e = c
    BY <1>1, <2>1, SessFacts
  <2>2. CASE e # c
    <3>1. e \in DOMAIN d.heap /\ d.heap[e].id = k.heap[e].id /\ See(k.heap[e]) = See(d.heap[e])
      BY <1>3, <2>2 DEF SeenAs
    <3>2. d.heap[e].id # id
      BY <1>3, <2>2, <3>1 DEF Loose, OneEach, Own
    <3> QED
      BY <1>1, <1>3, <3>1, <3>2, SessFacts
  <2> QED
    BY <2>1, <2>2
<1>4. Sess(k) = f
  BY <1>1, <1>2, <1>3, SessIs
<1> QED
  BY <1>4 DEF f

\* One session has gone.
LEMMA SeenLess ==
  ASSUME NEW d, NEW k, Loose(d), Loose(k), NEW c \in DOMAIN d.heap, SeenAs(d, k, {c}),
         d.heap[c].id \in Own, c \in DOMAIN k.heap => k.heap[c].id \notin Own
  PROVE  Sess(k) = [id \in DOMAIN Sess(d) \cap (DOMAIN Sess(d) \ {d.heap[c].id}) |-> Sess(d)[id]]
<1> DEFINE id == d.heap[c].id
           f == [j \in DOMAIN Sess(d) \cap (DOMAIN Sess(d) \ {id}) |-> Sess(d)[j]]
<1>1. /\ DOMAIN f = DOMAIN Sess(d) \ {id} /\ f = [j \in DOMAIN f |-> f[j]]
      /\ \A j \in DOMAIN Sess(d) : j # id => f[j] = Sess(d)[j]
  <2> HIDE DEF Sess, id
  <2> QED
    OBVIOUS
<1> HIDE DEF f
<1>2. ASSUME NEW j \in DOMAIN f
      PROVE  j \in Own /\ \E e \in DOMAIN k.heap : k.heap[e].id = j
  <2>1. j \in Own /\ \E e \in DOMAIN d.heap : d.heap[e].id = j
    BY <1>1, <1>2, SessFacts
  <2>2. PICK e \in DOMAIN d.heap : d.heap[e].id = j
    BY <2>1
  <2>3. e \in DOMAIN k.heap /\ k.heap[e].id = j
    BY <1>1, <1>2, <2>1, <2>2 DEF SeenAs
  <2> QED
    BY <2>1, <2>3
<1>3. ASSUME NEW e \in DOMAIN k.heap, k.heap[e].id \in Own
      PROVE  k.heap[e].id \in DOMAIN f /\ f[k.heap[e].id] = See(k.heap[e])
  <2>1. e # c
    BY <1>3
  <2>2. e \in DOMAIN d.heap /\ d.heap[e].id = k.heap[e].id /\ See(k.heap[e]) = See(d.heap[e])
    BY <1>3, <2>1 DEF SeenAs
  <2>3. d.heap[e].id # id
    BY <1>3, <2>1, <2>2 DEF Loose, OneEach, Own
  <2> QED
    BY <1>1, <1>3, <2>2, <2>3, SessFacts
<1>4. Sess(k) = f
  BY <1>1, <1>2, <1>3, SessIs
<1> QED
  BY <1>4 DEF f

------------------------------------------------------------------------------
\* What else holds of the contexts: a will belongs to one of them; a context that no CONNECT
\* has come for is blank; the rights of a context are those of the list, if its client is let in.

WillsOnce(d) ==
  \A c \in DOMAIN d.heap :
    /\ d.heap[c].id = NoId => d.heap[c].will = 0
    /\ \A e \in DOMAIN d.heap : e # c /\ d.heap[c].will # 0 => d.heap[e].will # d.heap[c].will

Blank(d) == \A c \in DOMAIN d.heap : d.heap[c].state = "new" => d.heap[c].msgs = <<>> /\ ~d.heap[c].deaf

RightsOf(d, id) == IF UnpwdCheck(d.unpwd, id) THEN Entry(d, id) ELSE NoAcl

RightsIn(d) == \A c \in DOMAIN d.heap : d.heap[c].id # NoId => d.heap[c].acl = RightsOf(d, d.heap[c].id)

\* a context whose end has been dealt with has no will left, and a socket that is open is not being ended
Orderly(x) == (~x.open /\ ~x.wsi => x.will = 0) /\ (x.open /\ ~x.wsi => x.state # "disconnecting")

AllOrderly(d) == \A c \in DOMAIN d.heap : Orderly(d.heap[c])

Fair(d) == WillsOnce(d) /\ Blank(d)

Calm(d) == Fair(d) /\ RightsIn(d) /\ AllOrderly(d) /\ d.made <= MaxConn

SInv == IInv /\ Calm(db)

LEMMA SameRights ==
  ASSUME NEW d, NEW k, SameFiles(d, k), NEW id
  PROVE  RightsOf(k, id) = RightsOf(d, id)
  BY DEF RightsOf, Entry, SameFiles

\* A context goes on, or comes to its end.
Tame(x, y) ==
  /\ y.id \in {x.id, NoId} /\ y.will \in {x.will, 0}
  /\ y.id = NoId => y.will = 0
  /\ y.state = "new" => x.state = "new" /\ y.msgs = x.msgs /\ y.deaf = x.deaf

LEMMA TameKeeps ==
  ASSUME NEW d, NEW k, Fair(d), DOMAIN k.heap \subseteq DOMAIN d.heap,
         \A e \in DOMAIN k.heap : Tame(d.heap[e], k.heap[e])
  PROVE  Fair(k)
<1>1. WillsOnce(k)
  BY DEF Fair, WillsOnce, Tame
<1>2. Blank(k)
  BY DEF Fair, Blank, Tame
<1> QED
  BY <1>1, <1>2 DEF Fair

\* The files and the rights of the contexts are as they were.
LEMMA RightsKept ==
  ASSUME NEW d, NEW k, RightsIn(d), SameFiles(d, k), DOMAIN k.heap \subseteq DOMAIN d.heap,
         \A e \in DOMAIN k.heap : k.heap[e].id \in {d.heap[e].id, NoId} /\ k.heap[e].acl = d.heap[e].acl
  PROVE  RightsIn(k)
  BY SameRights DEF RightsIn

\* Only a client with an identifier hears.
LEMMA SameLoose ==
  ASSUME NEW d, NEW k \in Db, Loose(d), DOMAIN k.heap = DOMAIN d.heap,
         \A e \in DOMAIN d.heap : Like(d.heap[e], k.heap[e]),
         SameLists(d, k), k.client_count = d.client_count
  PROVE  Loose(k)
<1>1. Listening(k) = Listening(d)
  BY DEF Listening, Like
<1>2. OneEach(k)
  BY DEF Loose, OneEach, Like
<1>3. ASSUME NEW e \in DOMAIN k.heap
      PROVE  Fit(k, e)
  BY <1>3 DEF Loose, Fit, Like, SameLists
<1> QED
  BY <1>1, <1>2, <1>3 DEF Loose, SameLists

LEMMA QuitTame ==
  ASSUME NEW d, Loose(d), Fair(d), NEW c \in DOMAIN d.heap, NEW k,
         NEW m, m = d \/ (m = AfterWill(d, c) /\ ~d.heap[c].wsi), Quit(d, m, k, c)
  PROVE  /\ Fair(k) /\ Loose(m) /\ Quit(m, m, k, c)
         /\ \A e \in DOMAIN d.heap : k.heap[e].id \in {d.heap[e].id, NoId} /\ k.heap[e].acl = d.heap[e].acl
         /\ Orderly(k.heap[c]) /\ \A e \in DOMAIN d.heap : e # c /\ Orderly(d.heap[e]) => Orderly(k.heap[e])
<1>1. /\ m \in Db /\ DOMAIN m.heap = DOMAIN d.heap /\ SameFiles(d, m) /\ SameLists(d, m)
      /\ m.client_count = d.client_count
      /\ \A e \in DOMAIN d.heap : Like(d.heap[e], m.heap[e]) /\ m.heap[e].deaf = d.heap[e].deaf
                                  /\ m.heap[e].acl = d.heap[e].acl
  <2>1. CASE m = d
    BY <2>1, LikeSame DEF Loose, SameFiles, SameLists
  <2>2. CASE m = AfterWill(d, c)
    BY <2>2, AfterWillFacts
  <2> QED
    BY <2>1, <2>2
<1>2. ASSUME NEW e \in DOMAIN d.heap, d.heap[e].state = "new"
      PROVE  m.heap[e].msgs = d.heap[e].msgs
  <2>1. CASE m = EasyQueue(d, d.heap[c].will)
    <3>1. d.heap[c].will \in Nat
      BY ContextType DEF Loose, Ctx
    <3>2. ~Hears(d, e)
      BY <1>2 DEF Loose, Fit, Hears, AclCheck
    <3> QED
      BY <2>1, <3>1, <3>2, QueueExact
  <2> QED
    BY <2>1 DEF AfterWill
<1>3. Loose(m)
  BY <1>1, SameLoose
<1>4. Quit(m, m, k, c)
  BY <1>1 DEF Quit, Like, SameFiles, SameLists
<1>5. ASSUME NEW e \in DOMAIN k.heap
      PROVE  /\ Tame(d.heap[e], k.heap[e])
             /\ k.heap[e].id \in {d.heap[e].id, NoId} /\ k.heap[e].acl = d.heap[e].acl
             /\ e = c \/ Orderly(d.heap[e]) => Orderly(k.heap[e])
  <2>1. e \in DOMAIN d.heap
    BY <1>1 DEF Quit, Apart
  <2>2. CASE e = c
    <3>1. d.heap[c].id = NoId => d.heap[c].will = 0
      BY DEF Fair, WillsOnce
    <3> QED
      BY <1>1, <2>2, <3>1 DEF Quit, Shown, Tame, Orderly
  <2>3. CASE e # c
    <3>1. k.heap[e] = m.heap[e]
      BY <1>1, <2>1, <2>3 DEF Quit, Apart
    <3>2. d.heap[e].id = NoId => d.heap[e].will = 0
      BY <2>1 DEF Fair, WillsOnce
    <3>3. Like(d.heap[e], m.heap[e]) /\ m.heap[e].deaf = d.heap[e].deaf /\ m.heap[e].acl = d.heap[e].acl
      BY <1>1, <2>1
    <3>4. d.heap[e].state = "new" => m.heap[e].msgs = d.heap[e].msgs
      BY <1>2, <2>1
    <3> QED
      BY <2>3, <3>1, <3>2, <3>3, <3>4 DEF Tame, Like, Orderly
  <2> QED
    BY <2>2, <2>3
<1>6. DOMAIN k.heap = DOMAIN d.heap
  BY <1>1 DEF Quit, Apart
<1>7. Fair(k)
  BY <1>5, <1>6, TameKeeps
<1> QED
  BY <1>3, <1>4, <1>5, <1>6, <1>7

\* The rights of an identifier, as the broker has them in force.
MayIn(d, id, right) ==
  \/ DOMAIN d.acl_list = {} /\ d.acl_patterns = {}
  \/ right \in d.acl_patterns
  \/ UnpwdCheck(d.unpwd, id) /\ id \in DOMAIN d.acl_list /\ right \in d.acl_list[id]

LEMMA MayIs ==
  ASSUME NEW id \in Id, NEW right
  PROVE  Promise!May(id, right) <=> MayIn(db, id, right)
  BY DEF Promise!May, InForce, MayIn

LEMMA CheckIs ==
  ASSUME NEW d, RightsIn(d), NEW c \in DOMAIN d.heap, d.heap[c].id # NoId, NEW right
  PROVE  AclCheck(d, c, right) <=> MayIn(d, d.heap[c].id, right)
  BY DEF AclCheck, AclCheckDefault, MayIn, RightsIn, RightsOf, Entry, NoAcl

LEMMA MaySame ==
  ASSUME NEW d, NEW k, SameFiles(d, k), NEW id, NEW right
  PROVE  MayIn(k, id, right) <=> MayIn(d, id, right)
  BY DEF MayIn, SameFiles

LEMMA OwnFacts ==
  ASSUME NEW d, Loose(d), NEW c \in DOMAIN d.heap, d.heap[c].id \in Own
  PROVE  d.heap[c].id # NoId /\ d.heap[c].id \in Id /\ d.heap[c].kind = "tcp" /\ ~d.heap[c].wsi
         /\ d.heap[c].id \in Id \ WsId
<1>1. d.heap[c] \in Ctx /\ Fit(d, c)
  BY ContextType DEF Loose
<1> QED
  BY <1>1, IdAssumption DEF Own, Fit, Ctx

\* What a will does to the sessions.
HeardIn(d, w) ==
  [j \in DOMAIN Sess(d) |->
     IF Sess(d)[j].subscribed /\ ~Sess(d)[j].deaf /\ MayIn(d, j, "read")
     THEN [Sess(d)[j] EXCEPT !.inbox = Append(@, w)] ELSE Sess(d)[j]]

LEMMA HeardIs ==
  ASSUME NEW d, Loose(d), SameFiles(db, d), Sess(d) = Sess(db), NEW w
  PROVE  Promise!Heard(w) = HeardIn(d, w)
<1>1. \A j \in DOMAIN Sess(db) : j \in Id
  BY SessFacts DEF Own
<1>2. \A j \in DOMAIN Sess(db) : Promise!May(j, "read") <=> MayIn(d, j, "read")
  BY <1>1, MayIs, MaySame
<1>3. Promise!Heard(w) = [j \in DOMAIN Sess(db) |->
         IF j \in {i \in DOMAIN Sess(db) : Sess(db)[i].subscribed /\ ~Sess(db)[i].deaf /\ Promise!May(i, "read")}
         THEN [Sess(db)[j] EXCEPT !.inbox = Append(@, w)] ELSE Sess(db)[j]]
  BY SessionMapIs DEF Promise!Heard
<1> HIDE DEF Sess, MayIn
<1> QED
  BY <1>2, <1>3 DEF HeardIn

LEMMA SessQueue ==
  ASSUME NEW d, Loose(d), RightsIn(d), NEW w \in Nat, NEW k, k = EasyQueue(d, w), Loose(k)
  PROVE  Sess(k) = HeardIn(d, w)
<1> DEFINE f == HeardIn(d, w)
<1>1. /\ DOMAIN f = DOMAIN Sess(d) /\ f = [j \in DOMAIN f |-> f[j]]
      /\ \A j \in DOMAIN Sess(d) :
           f[j] = IF Sess(d)[j].subscribed /\ ~Sess(d)[j].deaf /\ MayIn(d, j, "read")
                  THEN [Sess(d)[j] EXCEPT !.inbox = Append(@, w)] ELSE Sess(d)[j]
  <2> HIDE DEF Sess, MayIn
  <2> QED
    BY DEF HeardIn
<1> HIDE DEF f
<1>2. /\ DOMAIN k.heap = DOMAIN d.heap
      /\ \A e \in DOMAIN d.heap :
           k.heap[e] = IF Hears(d, e) THEN [d.heap[e] EXCEPT !.msgs = Append(@, w)] ELSE d.heap[e]
  BY QueueExact
<1>3. ASSUME NEW e \in DOMAIN d.heap
      PROVE  /\ k.heap[e].id = d.heap[e].id
             /\ See(k.heap[e]) = IF Hears(d, e) THEN [See(d.heap[e]) EXCEPT !.inbox = Append(@, w)]
                                 ELSE See(d.heap[e])
  <2>1. d.heap[e] \in Ctx
    BY ContextType DEF Loose
  <2>2. CASE Hears(d, e)
    <3>1. k.heap[e] = [d.heap[e] EXCEPT !.msgs = Append(@, w)]
      BY <1>2, <2>2
    <3> QED
      BY <2>1, <2>2, <3>1 DEF Ctx, See
  <2>3. CASE ~Hears(d, e)
    BY <1>2, <2>3
  <2> QED
    BY <2>2, <2>3
<1>4. ASSUME NEW j \in DOMAIN f
      PROVE  j \in Own /\ \E e \in DOMAIN k.heap : k.heap[e].id = j
  <2>1. j \in DOMAIN Sess(d)
    BY <1>1
  <2>2. j \in Own /\ \E e \in DOMAIN d.heap : d.heap[e].id = j
    BY <2>1, SessFacts
  <2> QED
    BY <1>2, <1>3, <2>2
<1>5. ASSUME NEW e \in DOMAIN k.heap, k.heap[e].id \in Own
      PROVE  k.heap[e].id \in DOMAIN f /\ f[k.heap[e].id] = See(k.heap[e])
  <2> DEFINE j == d.heap[e].id
  <2>1. e \in DOMAIN d.heap /\ k.heap[e].id = j /\ j \in Own
    BY <1>2, <1>3, <1>5
  <2>2. j \in DOMAIN Sess(d) /\ Sess(d)[j] = See(d.heap[e]) /\ j # NoId
    BY <2>1, SessFacts, OwnFacts
  <2>3. Hears(d, e) <=> Sess(d)[j].subscribed /\ ~Sess(d)[j].deaf /\ MayIn(d, j, "read")
    BY <2>1, <2>2, CheckIs DEF Hears, See
  <2> HIDE DEF See, Hears, Sess, MayIn, j
  <2>4. j \in DOMAIN f /\ f[j] = IF Hears(d, e) THEN [See(d.heap[e]) EXCEPT !.inbox = Append(@, w)]
                                ELSE See(d.heap[e])
    BY ONLY <1>1, <2>2, <2>3
  <2>5. See(k.heap[e]) = IF Hears(d, e) THEN [See(d.heap[e]) EXCEPT !.inbox = Append(@, w)]
                         ELSE See(d.heap[e])
    BY <1>3, <2>1
  <2> QED
    BY ONLY <2>1, <2>4, <2>5
<1>6. Sess(k) = f
  BY <1>1, <1>4, <1>5, SessIs
<1> QED
  BY <1>6 DEF f

LEMMA SeenEnd ==
  ASSUME NEW x, NEW y, y.will = 0, y.clean_session = x.clean_session, y.sub = x.sub,
         y.msgs = x.msgs, y.deaf = x.deaf
  PROVE  See(y) = [See(x) EXCEPT !.online = y.open, !.will = 0]
<1> DEFINE g == y.open
           o == x.open
           b == ~x.clean_session
           u == x.sub
           w == x.will
           s == x.msgs
           f == x.deaf
           r  == [online |-> o, durable |-> b, subscribed |-> u, will |-> w, inbox |-> s, deaf |-> f]
           r1 == [online |-> g, durable |-> b, subscribed |-> u, will |-> w, inbox |-> s, deaf |-> f]
           r2 == [online |-> g, durable |-> b, subscribed |-> u, will |-> 0, inbox |-> s, deaf |-> f]
<1>1. See(x) = r
  BY DEF See
<1>2. See(y) = r2
  BY DEF See
<1> HIDE DEF g, o, b, u, w, s, f
<1>3. [r EXCEPT !.online = g] = r1
  OBVIOUS
<1>4. [r1 EXCEPT !.will = 0] = r2
  OBVIOUS
<1> HIDE DEF r, r1, r2
<1>5. [r EXCEPT !.online = g, !.will = 0] = [[r EXCEPT !.online = g] EXCEPT !.will = 0]
  OBVIOUS
<1> QED
  BY <1>1, <1>2, <1>3, <1>4, <1>5 DEF g

\* The end of a connection, and perhaps of a session.
LEMMA SessEnds ==
  ASSUME NEW m, NEW k, Loose(m), Loose(k), NEW c \in DOMAIN m.heap, Quit(m, m, k, c)
  PROVE  Sess(k) = IF m.heap[c].id \in Own THEN Promise!End(m.heap[c].id, Sess(m)) ELSE Sess(m)
<1> DEFINE x == m.heap[c]
           y == k.heap[c]
           id == x.id
<1>1. DOMAIN k.heap = DOMAIN m.heap /\ \A e \in DOMAIN m.heap : e # c => k.heap[e] = m.heap[e]
  BY DEF Quit, Apart
<1>2. SeenAs(m, k, {c})
  BY <1>1 DEF SeenAs
<1>3. NoId \notin Own
  BY IdAssumption DEF Own
<1>4. CASE id \notin Own
  <2>1. y.id \notin Own
    BY <1>3, <1>4 DEF Quit
  <2>2. SeenAs(m, k, {})
    BY <1>1, <1>4, <2>1 DEF SeenAs
  <2> QED
    BY <1>4, <2>2, SeenSame
<1>5. CASE id \in Own /\ ~x.clean_session
  <2>1. ~x.wsi /\ x \in Ctx
    BY <1>5, OwnFacts, ContextType DEF Loose
  <2>2. y.id = id
    BY <1>5 DEF Quit
  <2>3. Sess(k) = [Sess(m) EXCEPT ![id] = See(y)]
    BY <1>1, <1>2, <1>5, <2>2, SeenOne
  <2>4. id \in DOMAIN Sess(m) /\ Sess(m)[id] = See(x) /\ Sess(m) = [j \in DOMAIN Sess(m) |-> Sess(m)[j]]
    BY <1>5, SessFacts
  <2>5. See(y) = [See(x) EXCEPT !.online = FALSE, !.will = 0] /\ See(x).durable
    <3>1. y \in Ctx
      BY <1>1, ContextType DEF Loose
    <3>2. y.open = FALSE /\ x.clean_session = FALSE
      BY <1>5, <2>1, <3>1 DEF Quit, Ctx
    <3>3. /\ y.will = 0 /\ y.clean_session = x.clean_session /\ y.sub = x.sub
          /\ y.msgs = x.msgs /\ y.deaf = x.deaf
      BY <2>1 DEF Quit, Shown
    <3> HIDE DEF x, y
    <3>4. See(x).durable
      BY <3>2 DEF See
    <3>5. See(y) = [See(x) EXCEPT !.online = FALSE, !.will = 0]
      <4>1. See(y) = [See(x) EXCEPT !.online = y.open, !.will = 0]
        BY <3>3, SeenEnd
      <4> HIDE DEF See
      <4> QED
        BY <3>2, <4>1, Zenon
    <3> QED
      BY <3>4, <3>5
  <2>6. Promise!End(id, Sess(m)) = [Sess(m) EXCEPT ![id].online = FALSE, ![id].will = 0]
    BY <2>4, <2>5 DEF Promise!End
  <2> HIDE DEF See, Sess, x, y, id
  <2>7. [Sess(m) EXCEPT ![id].online = FALSE, ![id].will = 0] = [Sess(m) EXCEPT ![id] = See(y)]
    BY <2>4, <2>5
  <2> QED
    BY <1>5, <2>3, <2>6, <2>7 DEF id, x
<1>6. CASE id \in Own /\ x.clean_session
  <2>1. ~x.wsi
    BY <1>6, OwnFacts
  <2>2. y.id \notin Own
    BY <1>3, <1>6, <2>1 DEF Quit
  <2>3. Sess(k) = [j \in DOMAIN Sess(m) \cap (DOMAIN Sess(m) \ {id}) |-> Sess(m)[j]]
    BY <1>1, <1>2, <1>6, <2>2, SeenLess
  <2>4. id \in DOMAIN Sess(m) /\ Sess(m)[id] = See(x)
    BY <1>6, SessFacts
  <2>5. ~See(x).durable
    BY <1>6 DEF See
  <2>6. Promise!End(id, Sess(m)) = [j \in DOMAIN Sess(m) \cap (DOMAIN Sess(m) \ {id}) |-> Sess(m)[j]]
    BY <2>4, <2>5 DEF Promise!End, Promise!Only
  <2> QED
    BY <1>6, <2>3, <2>6
<1> QED
  BY <1>4, <1>5, <1>6

\* Steps of the broker are steps of the service.

LEMMA SameForce ==
  ASSUME SameFiles(db, db')
  PROVE  InForce' = InForce
  BY DEF SameFiles, InForce

LEMMA Stutters ==
  ASSUME SameFiles(db, db'), Sess(db') = Sess(db), db'.published = db.published
  PROVE  UNCHANGED Promise!abstract
<1>1. SessionMap' = SessionMap /\ InForce' = InForce
  BY SessionMapIs, SameForce
<1> HIDE DEF SessionMap, InForce
<1> QED
  BY <1>1 DEF Promise!abstract

\* The broker's step is one of the service, or none.
Serves == Promise!Next \/ UNCHANGED Promise!abstract

\* It ends the connection of x as promised: without its will if x is being disconnected.
Closes(x) ==
  /\ IF x.id \notin Own THEN Promise!Other \/ UNCHANGED Promise!abstract
     ELSE IF x.state = "disconnecting" THEN Promise!Left(x.id)
     ELSE Promise!Failed(x.id) \/ Promise!FailedSilently(x.id)
  /\ db'.published # db.published =>
       db'.published = Append(db.published, x.will) /\ x.state # "disconnecting" /\ x.id # NoId

\* A connection ends, as DoDisconnect has it: d is db with a mark on the context.
LEMMA QuitStep ==
  ASSUME NEW d, Loose(d), Fair(d), RightsIn(d), NEW c \in DOMAIN d.heap,
         SameFiles(db, d), Sess(d) = Sess(db), d.made <= MaxConn, d.published = db.published,
         d.heap[c].state # "disconnected", d.heap[c].id \in Own => d.heap[c].open,
         db' = DoDisconnect(d, c), Loose(db')
  PROVE  Serves /\ Closes(d.heap[c])
<1> DEFINE x == d.heap[c]
           id == x.id
           m == IF x.wsi THEN d ELSE AfterWill(d, c)
           w == x.will
<1>1. Quit(d, m, db', c) /\ x \in Ctx /\ d \in Db
  BY QuitFacts, ContextType DEF Loose
<1>2. /\ Loose(m) /\ Quit(m, m, db', c) /\ DOMAIN m.heap = DOMAIN d.heap /\ m.heap[c].id = id
      /\ SameFiles(d, m)
  <2>1. m = d \/ (m = AfterWill(d, c) /\ ~x.wsi)
    OBVIOUS
  <2>2. CASE m = d
    BY <1>1, <2>2 DEF SameFiles
  <2>3. CASE m = AfterWill(d, c)
    BY <1>1, <2>1, <2>3, QuitTame, AfterWillFacts DEF Like
  <2> QED
    BY <2>1, <2>2, <2>3
<1>3. /\ SameFiles(db, db') /\ db'.published = m.published
      /\ Sess(db') = IF id \in Own THEN Promise!End(id, Sess(m)) ELSE Sess(m)
  <2>1. SameFiles(db, db')
    BY <1>1 DEF Quit, SameFiles
  <2>2. Sess(db') = IF m.heap[c].id \in Own THEN Promise!End(m.heap[c].id, Sess(m)) ELSE Sess(m)
    BY <1>2, SessEnds
  <2>3. db'.published = m.published
    BY <1>2 DEF Quit, Apart
  <2> QED
    BY <1>2, <2>1, <2>2, <2>3
<1>4. m = d \/ (/\ m = EasyQueue(d, w) /\ ~x.wsi /\ x.state # "disconnecting"
                /\ w # 0 /\ AclCheck(d, c, "write"))
  BY DEF AfterWill
<1>5. id \in Own => /\ ~x.wsi /\ id \in Id /\ id # NoId /\ x.open
                    /\ id \in DOMAIN Sess(db) /\ Sess(db)[id] = See(x)
  BY OwnFacts, SessFacts
<1> HIDE DEF m
<1>6. InForce' = InForce /\ SessionMap = Sess(db) /\ SessionMap' = Sess(db')
  BY <1>3, SameForce, SessionMapIs
<1> HIDE DEF InForce, SessionMap
<1>7. CASE m = d /\ id \notin Own
  <2>1. UNCHANGED Promise!abstract /\ db'.published = db.published
    BY <1>3, <1>7, Stutters
  <2> QED
    BY <1>7, <2>1 DEF Serves, Closes
<1>8. CASE m = d /\ id \in Own
  <2>1. SessionMap' = Promise!End(id, SessionMap) /\ db'.published = db.published
    BY <1>3, <1>6, <1>8
  <2>2. SessionMap[id].online /\ id \in DOMAIN SessionMap /\ SessionMap[id].will = w
    BY <1>5, <1>6, <1>8 DEF See
  <2>3. CASE x.state = "disconnecting"
    <3>1. Promise!Left(id)
      BY <1>6, <2>1, <2>2 DEF Promise!Left
    <3> QED
      BY <1>8, <2>1, <2>2, <2>3, <3>1 DEF Promise!Next, Serves, Closes
  <2>4. CASE x.state # "disconnecting"
    <3>1. w = 0 \/ ~AclCheck(d, c, "write")
      <4>1. ASSUME m = EasyQueue(d, w), w # 0
            PROVE  FALSE
        <5>1. w \in Nat
          BY <1>1 DEF Ctx
        <5>2. EasyQueue(d, w).published = Append(d.published, w)
          BY <5>1, QueueExact
        <5>3. d.published \in Seq(Nat)
          BY <1>1 DEF Db
        <5>4. Len(Append(d.published, w)) = Len(d.published) + 1 /\ Len(d.published) \in Nat
          BY <5>3
        <5>5. d.published = Append(d.published, w)
          BY <1>8, <4>1, <5>2
        <5> QED
          BY <5>4, <5>5
      <4> QED
        BY <1>5, <1>8, <2>4, <4>1 DEF AfterWill, m
    <3>2. w = 0 \/ ~Promise!May(id, "write")
      BY <1>5, <1>8, <3>1, CheckIs, MaySame, MayIs
    <3>3. Promise!FailedSilently(id)
      BY <1>6, <2>1, <2>2, <3>2 DEF Promise!FailedSilently
    <3> QED
      BY <1>8, <2>1, <2>2, <2>4, <3>3 DEF Promise!Next, Serves, Closes
  <2> QED
    BY <2>3, <2>4
<1>9. CASE m # d
  <2>1. /\ m = EasyQueue(d, w) /\ w # 0 /\ AclCheck(d, c, "write") /\ w \in Nat /\ id # NoId
        /\ x.state # "disconnecting"
    BY <1>1, <1>4, <1>9 DEF Ctx, AclCheck
  <2>2. Sess(m) = HeardIn(d, w) /\ m.published = Append(db.published, w)
    <3>1. Sess(m) = HeardIn(d, w)
      BY <1>2, <2>1, SessQueue
    <3>2. m.published = Append(d.published, w)
      BY <2>1, QueueExact
    <3> QED
      BY <3>1, <3>2
  <2>3. Promise!Heard(w) = HeardIn(d, w)
    BY HeardIs
  <2>4. CASE id \in Own
    <3>1. SessionMap' = Promise!End(id, Promise!Heard(w)) /\ db'.published = Append(db.published, w)
      BY <1>3, <1>6, <2>2, <2>3, <2>4
    <3>2. SessionMap[id].online /\ id \in DOMAIN SessionMap /\ SessionMap[id].will = w
      BY <1>5, <1>6, <2>4 DEF See
    <3>3. Promise!May(id, "write")
      BY <1>5, <2>1, <2>4, CheckIs, MaySame, MayIs
    <3>4. Promise!Failed(id)
      BY <1>6, <2>1, <3>1, <3>2, <3>3 DEF Promise!Failed
    <3> QED
      BY <2>1, <2>4, <3>1, <3>2, <3>4 DEF Promise!Next, Serves, Closes
  <2>5. CASE id \notin Own
    <3>1. SessionMap' = Promise!Heard(w) /\ db'.published = Append(db.published, w)
      BY <1>3, <1>6, <2>2, <2>3, <2>5
    <3>2. w \in 1..MaxConn
      <4>1. w <= d.made /\ d.made \in Nat
        BY <1>1 DEF Loose, Fit, Db
      <4> QED
        BY <2>1, <4>1, ClientAssumption
    <3>3. ASSUME NEW j \in DOMAIN SessionMap
          PROVE  SessionMap[j].will # w
      <4>1. j \in DOMAIN Sess(d)
        BY <1>6
      <4>2. PICK e \in DOMAIN d.heap : d.heap[e].id = j /\ j \in Own
        BY <4>1, SessFacts
      <4>3. Sess(d)[j] = See(d.heap[e]) /\ e # c
        BY <2>5, <4>2, SessFacts
      <4>4. d.heap[e].will # w
        BY <2>1, <4>3 DEF Fair, WillsOnce
      <4> QED
        BY <1>6, <4>3, <4>4 DEF See
    <3>4. Promise!Other
      BY <1>6, <3>1, <3>2, <3>3 DEF Promise!Other
    <3> QED
      BY <2>1, <2>5, <3>1, <3>4 DEF Promise!Next, Serves, Closes
  <2> QED
    BY <2>4, <2>5
<1> QED
  BY <1>7, <1>8, <1>9

\* What such a step keeps.
LEMMA QuitKeeps ==
  ASSUME NEW d, Loose(d), Fair(d), RightsIn(d), NEW c \in DOMAIN d.heap,
         d.heap[c].state # "disconnected", NEW k, k = DoDisconnect(d, c),
         \A e \in DOMAIN d.heap : e # c => Orderly(d.heap[e])
  PROVE  Fair(k) /\ RightsIn(k) /\ AllOrderly(k) /\ k.made = d.made
<1> DEFINE m == IF d.heap[c].wsi THEN d ELSE AfterWill(d, c)
<1>1. Quit(d, m, k, c)
  BY QuitFacts
<1>2. m = d \/ (m = AfterWill(d, c) /\ ~d.heap[c].wsi)
  OBVIOUS
<1>3. DOMAIN m.heap = DOMAIN d.heap
  BY <1>2, AfterWillFacts
<1> HIDE DEF m
<1>4. /\ Fair(k)
      /\ \A e \in DOMAIN d.heap : k.heap[e].id \in {d.heap[e].id, NoId} /\ k.heap[e].acl = d.heap[e].acl
      /\ Orderly(k.heap[c]) /\ \A e \in DOMAIN d.heap : e # c /\ Orderly(d.heap[e]) => Orderly(k.heap[e])
  BY <1>1, <1>2, QuitTame
<1>5. DOMAIN k.heap = DOMAIN d.heap /\ SameFiles(d, k) /\ k.made = d.made
  BY <1>1, <1>3 DEF Quit, Apart
<1>6. RightsIn(k)
  BY <1>4, <1>5, RightsKept
<1>7. AllOrderly(k)
  BY <1>4, <1>5 DEF AllOrderly
<1> QED
  BY <1>4, <1>5, <1>6, <1>7

\* The connection of a context that is open is ended at once.
LEMMA DropStep ==
  ASSUME SInv, IInv', NEW c \in DOMAIN db.heap, db.heap[c].open, db' = DoDisconnect(db, c)
  PROVE  Calm(db') /\ Serves /\ Closes(db.heap[c]) /\ (db.heap[c].id \in Own => db.heap[c].state # "disconnecting")
<1>1. Loose(db) /\ Fair(db) /\ RightsIn(db) /\ AllOrderly(db) /\ db.made <= MaxConn /\ Loose(db')
  BY DEF SInv, Calm, IInv, Good
<1>2. db.heap[c].state # "disconnected"
  BY DEF SInv, Calm, IInv, Good, Owned
<1>3. Serves /\ Closes(db.heap[c])
  <2>1. SameFiles(db, db)
    BY DEF SameFiles
  <2> QED
    BY <1>1, <1>2, <2>1, QuitStep
<1>4. Fair(db') /\ RightsIn(db') /\ AllOrderly(db') /\ db'.made = db.made
  <2>1. \A e \in DOMAIN db.heap : e # c => Orderly(db.heap[e])
    BY <1>1 DEF AllOrderly
  <2> QED
    BY <1>1, <1>2, <2>1, QuitKeeps
<1>5. db.heap[c].id \in Own => db.heap[c].state # "disconnecting"
  BY <1>1, OwnFacts DEF AllOrderly, Orderly
<1> QED
  BY <1>1, <1>3, <1>4, <1>5 DEF Calm

\* A context is marked in a way that does not show.
LEMMA MarkFair ==
  ASSUME NEW d, Good(d), Fair(d), NEW c \in DOMAIN d.heap, c \notin Range(d.ll_for_free),
         NEW z \in Ctx, Marked(d.heap[c], z), Shown(d.heap[c], z),
         NEW m, m = [d EXCEPT !.heap = [d.heap EXCEPT ![c] = z]]
  PROVE  /\ Loose(m) /\ Fair(m) /\ (RightsIn(d) => RightsIn(m)) /\ SameFiles(d, m) /\ Apart(d, m, c) /\ m.heap[c] = z
         /\ m.made = d.made
<1>1. Closable(m, c) /\ SameFiles(d, m) /\ Frame(d, m)
  BY MarkClosable
<1>2. d \in Db
  BY DEF Good, Loose
<1>3. Apart(d, m, c) /\ m.heap[c] = z
  BY <1>2, AlterExact
<1>4. ASSUME NEW e \in DOMAIN m.heap
      PROVE  /\ Tame(d.heap[e], m.heap[e])
             /\ m.heap[e].id \in {d.heap[e].id, NoId} /\ m.heap[e].acl = d.heap[e].acl
  <2>1. e \in DOMAIN d.heap /\ (d.heap[e].id = NoId => d.heap[e].will = 0)
    BY <1>3 DEF Apart, Fair, WillsOnce
  <2>2. CASE e = c
    BY <1>3, <2>1, <2>2 DEF Marked, Shown, Tame
  <2>3. CASE e # c
    BY <1>3, <2>1, <2>3 DEF Apart, Tame
  <2> QED
    BY <2>2, <2>3
<1>5. DOMAIN m.heap = DOMAIN d.heap
  BY <1>3 DEF Apart
<1>6. Fair(m)
  BY <1>4, <1>5, TameKeeps
<1>7. RightsIn(d) => RightsIn(m)
  BY <1>1, <1>4, <1>5, RightsKept
<1> QED
  BY <1>1, <1>3, <1>6, <1>7 DEF Closable, Frame

LEMMA MarkStep ==
  ASSUME SInv, IInv', NEW c \in DOMAIN db.heap, c \notin Range(db.ll_for_free),
         NEW z \in Ctx, Marked(db.heap[c], z), Shown(db.heap[c], z),
         z.clean_session = db.heap[c].clean_session, z.id \in Own => z.open,
         NEW d, d = [db EXCEPT !.heap = [db.heap EXCEPT ![c] = z]], db' = DoDisconnect(d, c)
  PROVE  Calm(db') /\ Serves /\ Closes(z)
<1>1. /\ Loose(db) /\ Fair(db) /\ RightsIn(db) /\ AllOrderly(db) /\ db.made <= MaxConn /\ Loose(db')
      /\ Good(db)
  BY DEF SInv, Calm, IInv, Good
<1>2. /\ Loose(d) /\ Fair(d) /\ RightsIn(d) /\ SameFiles(db, d) /\ Apart(db, d, c) /\ d.heap[c] = z
      /\ d.made = db.made
  BY <1>1, MarkFair
<1>3. z.state # "disconnected" /\ c \in DOMAIN d.heap
  BY <1>2 DEF Marked, Apart
<1>4. SeenAs(db, d, {})
  <2>1. See(z) = See(db.heap[c]) /\ z.id = db.heap[c].id
    BY DEF See, Marked, Shown
  <2> QED
    BY <1>2, <2>1 DEF SeenAs, Apart
<1>5. Sess(d) = Sess(db)
  BY <1>1, <1>2, <1>4, SeenSame
<1>6. Serves /\ Closes(z)
  <2>1. d.published = db.published
    BY <1>2 DEF Apart
  <2> QED
    BY <1>1, <1>2, <1>3, <1>5, <2>1, QuitStep
<1>7. Fair(db') /\ RightsIn(db') /\ AllOrderly(db') /\ db'.made = d.made
  <2>1. \A e \in DOMAIN d.heap : e # c => Orderly(d.heap[e])
    BY <1>1, <1>2 DEF AllOrderly, Apart
  <2>2. d.heap[c].state # "disconnected" /\ c \in DOMAIN d.heap /\ db' = DoDisconnect(d, c)
    BY <1>2, <1>3
  <2> QED
    BY ONLY <1>2, <2>1, <2>2, QuitKeeps
<1> QED
  BY <1>1, <1>2, <1>6, <1>7 DEF Calm

LEMMA HandleDisconnectStep ==
  ASSUME SInv, IInv', NEW c \in DOMAIN db.heap, HandleDisconnect(c)
  PROVE  /\ Calm(db') /\ Serves /\ db'.published = db.published
         /\ IF db.heap[c].id \in Own THEN Promise!Left(db.heap[c].id)
            ELSE Promise!Other \/ UNCHANGED Promise!abstract
<1> DEFINE z == [db.heap[c] EXCEPT !.state = "disconnecting"]
           m == [db EXCEPT !.heap = [db.heap EXCEPT ![c] = z]]
<1>1. db \in Db /\ Good(db) /\ db.heap[c] \in Ctx /\ db.heap \in Heaps
  BY ContextType DEF SInv, Calm, IInv, Good, Loose
<1>2. db' = DoDisconnect(m, c)
  <2>1. [db.heap EXCEPT ![c].state = "disconnecting"] = [db.heap EXCEPT ![c] = z]
    BY <1>1, HeapType
  <2>2. [db EXCEPT !.heap[c].state = "disconnecting"] = m
    BY <1>1, <2>1 DEF Db
  <2> QED
    BY <2>2 DEF HandleDisconnect, Step
<1>3. /\ z \in Ctx /\ Marked(db.heap[c], z) /\ Shown(db.heap[c], z)
      /\ z.clean_session = db.heap[c].clean_session /\ z.open /\ z.state = "disconnecting"
      /\ z.id = db.heap[c].id
  BY <1>1 DEF Ctx, States, Marked, Shown, HandleDisconnect
<1> HIDE DEF z
<1>4. c \notin Range(db.ll_for_free)
  BY <1>1 DEF HandleDisconnect, Good, Owned
<1>5. Calm(db') /\ Serves /\ Closes(z)
  BY <1>2, <1>3, <1>4, MarkStep
<1> QED
  BY <1>3, <1>5 DEF Closes

LEMMA WsClosedStep ==
  ASSUME SInv, IInv', NEW c \in DOMAIN db.heap, WsClosed(c)
  PROVE  /\ Calm(db') /\ Serves /\ db.heap[c].id \notin Own
         /\ Promise!Other \/ UNCHANGED Promise!abstract
         /\ db'.published # db.published => db'.published = Append(db.published, db.heap[c].will)
<1> DEFINE z == [db.heap[c] EXCEPT !.wsi = FALSE]
           m == [db EXCEPT !.heap = [db.heap EXCEPT ![c] = z]]
<1>1. db \in Db /\ Good(db) /\ Loose(db) /\ db.heap[c] \in Ctx /\ db.heap \in Heaps /\ db.heap[c].wsi
  BY ContextType DEF SInv, Calm, IInv, Good, Loose, WsClosed
<1>2. db' = DoDisconnect(m, c)
  <2>1. [db.heap EXCEPT ![c].wsi = FALSE] = [db.heap EXCEPT ![c] = z]
    BY <1>1, HeapType
  <2>2. [db EXCEPT !.heap[c].wsi = FALSE] = m
    BY <1>1, <2>1 DEF Db
  <2> QED
    BY <2>2 DEF WsClosed, Step
<1>3. c \notin Range(db.ll_for_free) /\ db.heap[c].state # "disconnected"
  BY <1>1 DEF Good, Owned
<1>4. /\ z \in Ctx /\ Marked(db.heap[c], z) /\ Shown(db.heap[c], z)
      /\ z.clean_session = db.heap[c].clean_session /\ z.id = db.heap[c].id /\ z.will = db.heap[c].will
  BY <1>1, <1>3 DEF Ctx, Marked, Shown
<1> HIDE DEF z
<1>5. z.id \notin Own
  BY <1>1, <1>4, OwnFacts
<1>6. Calm(db') /\ Serves /\ Closes(z)
  BY <1>2, <1>3, <1>4, <1>5, MarkStep
<1> QED
  BY <1>4, <1>5, <1>6 DEF Closes

LEMMA RefuseStep ==
  ASSUME SInv, IInv', NEW c \in DOMAIN db.heap, NEW id, Refuse(c, id)
  PROVE  Calm(db') /\ Serves /\ db'.published = db.published /\ db.heap[c].id \notin Own
<1> DEFINE d == ContextDisconnect(db, c)
           x == db.heap[c]
           y == d.heap[c]
<1>1. /\ db \in Db /\ Loose(db) /\ Fair(db) /\ RightsIn(db) /\ AllOrderly(db) /\ db.made <= MaxConn
      /\ Loose(db') /\ x.state = "new" /\ x.open /\ x.id = NoId /\ x.will = 0 /\ NoId \notin Own
  BY IdAssumption DEF SInv, Calm, IInv, Good, Loose, Refuse, Fit, Fair, WillsOnce, Own
<1>2. Closable(d, c) /\ db' = DoDisconnect(d, c)
  BY RefusedClosable DEF SInv, Calm, Refuse, Step
<1>3. /\ Loose(d) /\ c \in DOMAIN d.heap /\ SameFiles(db, d) /\ d.made = db.made
      /\ y.id = NoId /\ y.will = 0 /\ y.state # "disconnected"
      /\ y.state \in {"new", "disconnect_ws"}
  <2>1. /\ SameLists(db, d) /\ SameFiles(db, d) /\ y.id = x.id /\ y.will = 0
        /\ y.state = x.state \/ y.state = "disconnect_ws"
    <3>1. d = ContextDisconnect(db, c) /\ x = db.heap[c] /\ y = d.heap[c]
      OBVIOUS
    <3>2. db \in Db
      BY <1>1
    <3> HIDE DEF d, x, y
    <3> QED
      BY ONLY <3>1, <3>2, c \in DOMAIN db.heap, DisconnectFacts
  <2> HIDE DEF d
  <2> QED
    BY <1>1, <1>2, <2>1 DEF Closable, SameLists
<1>4. Apart(db, d, c) /\ Shown(x, y)
  <2>1. AfterWill(db, c) = db
    BY <1>1 DEF AfterWill
  <2> HIDE DEF d
  <2>2. d = ContextDisconnect(db, c)
    BY DEF d
  <2> QED
    BY <1>1, <2>1, <2>2, DisconnectExact
<1> HIDE DEF d
<1>5. ASSUME NEW e \in DOMAIN d.heap
      PROVE  /\ Tame(db.heap[e], d.heap[e])
             /\ d.heap[e].id \in {db.heap[e].id, NoId} /\ d.heap[e].acl = db.heap[e].acl
             /\ e # c => Orderly(d.heap[e])
  <2>1. e \in DOMAIN db.heap /\ (db.heap[e].id = NoId => db.heap[e].will = 0) /\ Orderly(db.heap[e])
    BY <1>1, <1>4 DEF Apart, Fair, WillsOnce, AllOrderly
  <2>2. CASE e = c
    BY <1>1, <1>3, <1>4, <2>1, <2>2 DEF Shown, Tame
  <2>3. CASE e # c
    BY <1>4, <2>1, <2>3 DEF Apart, Tame
  <2> QED
    BY <2>2, <2>3
<1>6. DOMAIN d.heap = DOMAIN db.heap /\ d.published = db.published
  BY <1>4 DEF Apart
<1>7. Fair(d) /\ RightsIn(d)
  BY <1>1, <1>3, <1>5, <1>6, TameKeeps, RightsKept
<1>8. Sess(d) = Sess(db)
  <2>1. SeenAs(db, d, {})
    BY <1>1, <1>3, <1>4 DEF SeenAs, Apart
  <2> QED
    BY <1>1, <1>3, <2>1, SeenSame
<1>9. Serves /\ Closes(y)
  BY <1>1, <1>2, <1>3, <1>6, <1>7, <1>8, QuitStep
<1>10. Fair(db') /\ RightsIn(db') /\ AllOrderly(db') /\ db'.made = d.made
  BY <1>2, <1>3, <1>5, <1>7, QuitKeeps
<1> QED
  BY <1>1, <1>3, <1>9, <1>10 DEF Calm, Closes

\* Contexts are made and freed that have no identifier.
LEMMA CleanupExact ==
  ASSUME NEW d \in Db, NEW c \in DOMAIN d.heap, NEW k, k = ContextCleanup(d, c)
  PROVE  /\ DOMAIN k.heap = DOMAIN d.heap \ {c} /\ \A e \in DOMAIN k.heap : k.heap[e] = d.heap[e]
         /\ k.published = d.published /\ SameFiles(d, k) /\ k.made = d.made
<1> DEFINE d1 == SocketClose(d, c)
           l  == IF d.heap[c].sub THEN Without(d1.leaves, c) ELSE d1.leaves
           b  == Without(d1.by_id, c)
           h  == Drop(d1.heap, {c})
<1>1. d1 \in Db /\ SameFiles(d, d1) /\ d1.made = d.made /\ Apart(d, d1, c)
  <2>1. d1 = SocketClose(d, c)
    OBVIOUS
  <2> HIDE DEF d1
  <2> QED
    BY <2>1, CloseFacts, CloseExact DEF SameLists
<1>2. k = [d1 EXCEPT !.leaves = l, !.by_id = b, !.heap = h]
  <2>1. k = [SocketClose(d, c) EXCEPT !.leaves = IF d.heap[c].sub THEN Without(@, c) ELSE @,
                            !.by_id = Without(@, c),
                            !.heap = Drop(@, {c})]
    BY DEF ContextCleanup
  <2> HIDE DEF d1
  <2>2. k = [d1 EXCEPT !.leaves = IF d.heap[c].sub THEN Without(@, c) ELSE @,
                       !.by_id = Without(@, c), !.heap = Drop(@, {c})]
    BY <2>1 DEF d1
  <2> QED
    BY <1>1, <2>2 DEF Db
<1> HIDE DEF d1
<1>3. DOMAIN h = DOMAIN d.heap \ {c} /\ \A e \in DOMAIN h : h[e] = d.heap[e]
  BY <1>1 DEF Apart, Drop
<1> HIDE DEF l, b, h
<1>4. k.heap = h /\ k.published = d1.published /\ SameFiles(d1, k) /\ k.made = d1.made
  BY <1>1, <1>2 DEF Db, SameFiles
<1> QED
  BY <1>1, <1>3, <1>4 DEF Apart, SameFiles

\* Contexts come that are blank, or go that no identifier is left of.
LEMMA BlankStep ==
  ASSUME SInv, Loose(db'), SameFiles(db, db'), db'.published = db.published, db'.made = db.made,
         \A e \in DOMAIN db.heap : (e \in DOMAIN db'.heap /\ db'.heap[e] = db.heap[e])
                                   \/ (e \notin DOMAIN db'.heap /\ db.heap[e].id = NoId),
         \A e \in DOMAIN db'.heap \ DOMAIN db.heap : \E kind \in {"tcp", "ws"} : db'.heap[e] = NewContext(kind)
  PROVE  Calm(db') /\ UNCHANGED Promise!abstract
<1>1. /\ Loose(db) /\ Fair(db) /\ RightsIn(db) /\ AllOrderly(db) /\ db.made <= MaxConn /\ NoId \notin Own
  BY IdAssumption DEF SInv, Calm, IInv, Good, Own
<1>2. ASSUME NEW e \in DOMAIN db'.heap \ DOMAIN db.heap
      PROVE  LET y == db'.heap[e]
             IN  y.id = NoId /\ y.will = 0 /\ y.msgs = <<>> /\ ~y.deaf /\ y.state # "disconnecting"
  BY DEF NewContext
<1>3. SeenAs(db, db', {})
  BY <1>1, <1>2 DEF SeenAs
<1>4. UNCHANGED Promise!abstract
  BY <1>1, <1>3, SeenSame, Stutters
<1>5. WillsOnce(db')
  BY <1>1, <1>2 DEF Fair, WillsOnce
<1>6. Blank(db') /\ AllOrderly(db')
  BY <1>1, <1>2 DEF Fair, Blank, AllOrderly, Orderly
<1>7. RightsIn(db')
  BY <1>1, <1>2, SameRights DEF RightsIn
<1> QED
  BY <1>1, <1>4, <1>5, <1>6, <1>7 DEF Calm, Fair

LEMMA AcceptStep ==
  ASSUME SInv, IInv', Accept
  PROVE  Calm(db') /\ UNCHANGED Promise!abstract
<1> DEFINE c == NewAddress
<1>1. c \in Context \ DOMAIN db.heap
  BY DEF Accept, NewAddress, Free
<1>2. Good(db) /\ db \in Db /\ db.client_count \in Int /\ Loose(db')
  BY DEF SInv, Calm, IInv, Good, Loose, Db
<1>3. Accepted = Made(db, c, "tcp")
  BY <1>2 DEF Accepted, Made, Db
<1> HIDE DEF c
<1>4. /\ Accepted \in Db /\ DOMAIN Accepted.heap = DOMAIN db.heap \cup {c}
      /\ Accepted.heap[c] = NewContext("tcp") /\ Accepted.made = db.made
      /\ \A e \in DOMAIN db.heap : Accepted.heap[e] = db.heap[e]
  BY <1>1, <1>2, <1>3, MadeGood DEF Good, Loose, SameLists
<1>5. SameFiles(db, Accepted) /\ Accepted.published = db.published
  BY <1>2, <1>3 DEF Made, Db, SameFiles
<1>6. CASE Accepted.client_count > MaxClients
  <2>1. db' = ContextCleanup(Accepted, c)
    BY <1>6 DEF Accept, Step, Refused, c
  <2>2. /\ DOMAIN db'.heap = DOMAIN Accepted.heap \ {c} /\ \A e \in DOMAIN db'.heap : db'.heap[e] = Accepted.heap[e]
        /\ db'.published = Accepted.published /\ SameFiles(Accepted, db') /\ db'.made = Accepted.made
    BY <1>4, <2>1, CleanupExact
  <2>3. DOMAIN db'.heap = DOMAIN db.heap
    BY <1>1, <1>4, <2>2
  <2>4. SameFiles(db, db')
    BY <1>5, <2>2 DEF SameFiles
  <2> QED
    BY <1>2, <1>4, <1>5, <2>2, <2>3, <2>4, BlankStep
<1>7. CASE ~(Accepted.client_count > MaxClients)
  <2>1. db' = Accepted
    BY <1>7 DEF Accept, Step
  <2> QED
    BY <1>2, <1>4, <1>5, <2>1, BlankStep
<1> QED
  BY <1>6, <1>7

LEMMA WsEstablishedStep ==
  ASSUME SInv, IInv', WsEstablished
  PROVE  Calm(db') /\ UNCHANGED Promise!abstract
<1> DEFINE c == NewAddress
<1>1. c \in Context \ DOMAIN db.heap
  BY DEF WsEstablished, Room, NewAddress, Free
<1>2. Good(db) /\ db \in Db /\ db.client_count \in Int /\ Loose(db')
  BY DEF SInv, Calm, IInv, Good, Loose, Db
<1>3. db' = Made(db, c, "ws")
  <2>1. db' = [db EXCEPT !.heap = Put(db.heap, c, NewContext("ws"))]
    BY <1>2 DEF WsEstablished, Step, Db
  <2>2. db.client_count + (IF "ws" = "tcp" THEN 1 ELSE 0) = db.client_count
    BY <1>2
  <2> QED
    BY <1>2, <2>1, <2>2 DEF Made, Db
<1> HIDE DEF c
<1>4. /\ DOMAIN db'.heap = DOMAIN db.heap \cup {c} /\ db'.made = db.made
      /\ db'.heap[c] = NewContext("ws")
      /\ \A e \in DOMAIN db.heap : db'.heap[e] = db.heap[e]
  BY <1>1, <1>2, <1>3, MadeGood DEF SameLists
<1>5. SameFiles(db, db') /\ db'.published = db.published
  BY <1>2, <1>3 DEF Made, Db, SameFiles
<1> QED
  BY <1>2, <1>4, <1>5, BlankStep

\* One context goes on with other messages or another subscription.
LEMMA ChangeStep ==
  ASSUME SInv, Loose(db'), SameFiles(db, db'), db'.made = db.made, NEW c \in DOMAIN db.heap,
         Apart(db, db', c), Kept(db.heap[c], db'.heap[c]), db.heap[c].state # "new",
         db'.heap[c].acl = db.heap[c].acl
  PROVE  /\ Calm(db') /\ InForce' = InForce /\ db'.published = db.published
         /\ IF db.heap[c].id \in Own
            THEN LET id == db.heap[c].id
                 IN  /\ id \in DOMAIN SessionMap /\ SessionMap[id] = See(db.heap[c])
                     /\ SessionMap' = [SessionMap EXCEPT ![id] = See(db'.heap[c])]
            ELSE UNCHANGED Promise!abstract
<1> DEFINE x == db.heap[c]
           y == db'.heap[c]
<1>1. /\ Loose(db) /\ Fair(db) /\ RightsIn(db) /\ AllOrderly(db) /\ db.made <= MaxConn
      /\ DOMAIN db'.heap = DOMAIN db.heap
  BY DEF SInv, Calm, IInv, Good, Apart
<1>2. ASSUME NEW e \in DOMAIN db'.heap
      PROVE  /\ Tame(db.heap[e], db'.heap[e]) /\ Orderly(db'.heap[e])
             /\ db'.heap[e].id \in {db.heap[e].id, NoId} /\ db'.heap[e].acl = db.heap[e].acl
  <2>1. e \in DOMAIN db.heap /\ (db.heap[e].id = NoId => db.heap[e].will = 0) /\ Orderly(db.heap[e])
    BY <1>1 DEF Fair, WillsOnce, AllOrderly
  <2>2. CASE e = c
    BY <2>1, <2>2 DEF Kept, Tame, Orderly
  <2>3. CASE e # c
    BY <2>1, <2>3 DEF Apart, Tame
  <2> QED
    BY <2>2, <2>3
<1>3. Calm(db')
  BY <1>1, <1>2, TameKeeps, RightsKept DEF Calm, AllOrderly
<1>4. InForce' = InForce /\ db'.published = db.published /\ SessionMap = Sess(db) /\ SessionMap' = Sess(db')
  BY SameForce, SessionMapIs DEF Apart
<1>5. CASE x.id \in Own
  <2>1. SeenAs(db, db', {c})
    BY <1>1 DEF SeenAs, Apart
  <2>2. Sess(db') = [Sess(db) EXCEPT ![x.id] = See(y)]
    BY <1>1, <1>5, <2>1, SeenOne DEF Kept
  <2>3. x.id \in DOMAIN Sess(db) /\ Sess(db)[x.id] = See(x)
    BY <1>1, <1>5, SessFacts
  <2> HIDE DEF SessionMap, Sess, See, InForce
  <2> QED
    BY <1>3, <1>4, <1>5, <2>2, <2>3
<1>6. CASE x.id \notin Own
  <2>1. SeenAs(db, db', {})
    BY <1>1, <1>6 DEF SeenAs, Apart, Kept
  <2>2. UNCHANGED Promise!abstract
    BY <1>1, <1>4, <2>1, SeenSame, Stutters
  <2> QED
    BY <1>3, <1>4, <1>6, <2>2
<1> QED
  BY <1>5, <1>6

LEMMA SentStep ==
  ASSUME SInv, IInv', NEW c \in DOMAIN db.heap, Sent(c)
  PROVE  /\ Calm(db') /\ Serves /\ db'.published = db.published
         /\ IF db.heap[c].id \in Own THEN Promise!Take(db.heap[c].id) ELSE UNCHANGED Promise!abstract
<1> DEFINE x == db.heap[c]
           s == Tail(x.msgs)
           z == [x EXCEPT !.msgs = s]
<1>1. db \in Db /\ Good(db) /\ Loose(db) /\ Loose(db') /\ x \in Ctx /\ db.heap \in Heaps
  BY ContextType DEF SInv, IInv, Good, Loose
<1>2. db' = [db EXCEPT !.heap = [db.heap EXCEPT ![c] = z]]
  <2>1. [db.heap EXCEPT ![c].msgs = Tail(@)] = [db.heap EXCEPT ![c] = z]
    BY <1>1, HeapType
  <2>2. [db EXCEPT !.heap[c].msgs = Tail(@)] = [db EXCEPT !.heap = [db.heap EXCEPT ![c] = z]]
    BY <1>1, <2>1 DEF Db
  <2> QED
    BY <2>2 DEF Sent, Step
<1>3. z \in Ctx /\ Kept(x, z) /\ z.acl = x.acl /\ See(z) = [See(x) EXCEPT !.inbox = s]
  <2>1. s \in Seq(Nat)
    BY <1>1 DEF Sent, Ctx
  <2>2. z \in Ctx /\ Like(x, z)
    BY <1>1, <2>1, WithMsgs
  <2>3. z.acl = x.acl /\ z.msgs = s /\ z.deaf = x.deaf
    BY <1>1 DEF Ctx
  <2> HIDE DEF z, s
  <2> QED
    BY <2>2, <2>3 DEF Like, Kept, See
<1>4. x.open /\ x.id # NoId /\ x.msgs # <<>> /\ x.state # "new"
  BY <1>1 DEF Sent, Served, Loose, Fit
<1> HIDE DEF z
<1>5. SameFiles(db, db') /\ db'.made = db.made /\ Apart(db, db', c) /\ db'.heap[c] = z
  BY <1>1, <1>2, <1>3, AlterFacts, AlterExact DEF SameLists
<1>6. /\ Calm(db') /\ InForce' = InForce /\ db'.published = db.published
      /\ IF x.id \in Own
         THEN /\ x.id \in DOMAIN SessionMap /\ SessionMap[x.id] = See(x)
              /\ SessionMap' = [SessionMap EXCEPT ![x.id] = See(z)]
         ELSE UNCHANGED Promise!abstract
  BY <1>1, <1>3, <1>4, <1>5, ChangeStep
<1>7. CASE x.id \in Own
  <2> DEFINE id == x.id
  <2>0. See(x).online /\ See(x).inbox = x.msgs
    BY <1>4 DEF See
  <2> HIDE DEF SessionMap, See, InForce, s
  <2>1. /\ SessionMap[id].online /\ SessionMap[id].inbox = x.msgs
        /\ See(z) = [SessionMap[id] EXCEPT !.inbox = s] /\ s = Tail(SessionMap[id].inbox)
    BY <1>3, <1>6, <1>7, <2>0 DEF s
  <2>2. SessionMap' = [SessionMap EXCEPT ![id].inbox = Tail(@)]
    BY <1>6, <1>7, <2>1
  <2>3. Promise!Take(id)
    BY <1>4, <1>6, <2>1, <2>2 DEF Promise!Take
  <2> QED
    BY <1>6, <1>7, <2>3 DEF Serves, Promise!Next
<1>8. CASE x.id \notin Own
  BY <1>6, <1>8 DEF Serves
<1> QED
  BY <1>6, <1>7, <1>8

\* A subscription of one context is made or ended.
LEMMA LinkStep ==
  ASSUME SInv, IInv', NEW c \in DOMAIN db.heap, Served(c), NEW b \in BOOLEAN, NEW l \in Seq(Context),
         db' = [db EXCEPT !.leaves = l, !.heap[c].sub = b]
  PROVE  /\ Calm(db') /\ Serves /\ db'.published = db.published
         /\ IF db.heap[c].id \in Own THEN Promise!Subscription(db.heap[c].id, b) ELSE UNCHANGED Promise!abstract
<1> DEFINE x == db.heap[c]
           y == db'.heap[c]
           z == [x EXCEPT !.sub = b]
           h == [db.heap EXCEPT ![c] = z]
<1>1. db \in Db /\ Loose(db) /\ Loose(db') /\ x \in Ctx /\ db.heap \in Heaps
  BY ContextType DEF SInv, IInv, Good, Loose
<1>2. db' = [db EXCEPT !.leaves = l, !.heap = h]
  <2>1. [db.heap EXCEPT ![c].sub = b] = h
    BY <1>1, HeapType
  <2> QED
    BY <1>1, <2>1 DEF Db
<1>3. z \in Ctx /\ Kept(x, z) /\ z.acl = x.acl /\ z.sub = b /\ Shown(x, z)
  BY <1>1 DEF Ctx, Kept, Shown
<1> HIDE DEF z
<1>4. DOMAIN h = DOMAIN db.heap /\ h[c] = z /\ \A e \in DOMAIN db.heap : e # c => h[e] = db.heap[e]
  BY <1>1, <1>3, HeapExcept
<1> HIDE DEF h
<1>5. SameFiles(db, db') /\ db'.made = db.made /\ Apart(db, db', c) /\ y = z
  BY <1>1, <1>2, <1>4 DEF Db, SameFiles, Apart
<1>6. x.state # "new" /\ x.id # NoId
  BY <1>1 DEF Served, Loose, Fit
<1>7. /\ Calm(db') /\ InForce' = InForce /\ db'.published = db.published
      /\ IF x.id \in Own
         THEN /\ x.id \in DOMAIN SessionMap /\ SessionMap[x.id] = See(x)
              /\ SessionMap' = [SessionMap EXCEPT ![x.id] = See(z)]
         ELSE UNCHANGED Promise!abstract
  BY <1>1, <1>3, <1>5, <1>6, ChangeStep
<1>8. CASE x.id \in Own
  <2> DEFINE id == x.id
  <2>1. x.open
    BY <1>1, <1>8, OwnFacts DEF Served
  <2>2. See(z) = [See(x) EXCEPT !.subscribed = b]
    BY <1>3 DEF Kept, Shown, See
  <2>6. See(x).online
    BY <2>1 DEF See
  <2> HIDE DEF SessionMap, See, InForce
  <2>3. SessionMap[id].online /\ See(z) = [SessionMap[id] EXCEPT !.subscribed = b]
    BY <1>7, <1>8, <2>2, <2>6
  <2>4. SessionMap' = [SessionMap EXCEPT ![id].subscribed = b]
    BY <1>7, <1>8, <2>3
  <2>5. Promise!Subscription(id, b)
    BY <1>7, <2>3, <2>4 DEF Promise!Subscription
  <2> QED
    BY <1>7, <1>8, <2>5 DEF Serves, Promise!Next
<1>9. CASE x.id \notin Own
  BY <1>7, <1>9 DEF Serves
<1> QED
  BY <1>7, <1>8, <1>9

LEMMA HandleSubscribeStep ==
  ASSUME SInv, IInv', NEW c \in DOMAIN db.heap, HandleSubscribe(c)
  PROVE  /\ Calm(db') /\ Serves /\ db'.published = db.published
         /\ IF db.heap[c].id \in Own THEN Promise!Subscription(db.heap[c].id, TRUE) ELSE UNCHANGED Promise!abstract
<1>1. db \in Db /\ db.leaves \in Seq(Context) /\ c \in Context /\ Served(c)
  BY ContextType DEF SInv, IInv, Good, Loose, Db, HandleSubscribe
<1>2. CASE \E e \in Range(db.leaves) : db.heap[e].id = db.heap[c].id
  <2> DEFINE x == db.heap[c]
             id == x.id
  <2>1. db' = db
    BY <1>2 DEF HandleSubscribe
  <2>2. Calm(db') /\ UNCHANGED Promise!abstract
    BY <2>1, Stutters DEF SInv, SameFiles
  <2>3. CASE id \in Own
    <3>1. Good(db) /\ Loose(db) /\ x \in Ctx
      <4>1. Good(db) /\ Loose(db)
        BY DEF SInv, IInv, Good
      <4> QED
        BY <4>1, ContextType DEF Loose
    <3>2. PICK e \in Range(db.leaves) : db.heap[e].id = id
      BY <1>2
    <3>3. e = c
      BY <2>3, <3>1, <3>2 DEF Loose, OneEach, Own
    <3>4. x.sub = TRUE /\ x.open = TRUE
      BY <1>1, <2>3, <3>1, <3>2, <3>3, OwnFacts DEF Loose, Fit, Served, Ctx
    <3>5. id \in DOMAIN SessionMap /\ SessionMap[id] = See(x)
      BY <2>3, <3>1, SessFacts, SessionMapIs
    <3>6. See(x).online /\ See(x) = [See(x) EXCEPT !.subscribed = TRUE]
      <4> DEFINE d == ~x.clean_session
                 t == TRUE
                 w == x.will
                 i == x.msgs
                 f == x.deaf
                 r == [online |-> t, durable |-> d, subscribed |-> t, will |-> w, inbox |-> i, deaf |-> f]
      <4>1. See(x) = [online |-> x.open, durable |-> d, subscribed |-> x.sub, will |-> x.will,
                      inbox |-> x.msgs, deaf |-> x.deaf]
        BY DEF See
      <4> HIDE DEF d, x
      <4>2. See(x) = r
        BY <3>4, <4>1
      <4>3. r.online = t /\ r = [r EXCEPT !.subscribed = t]
        <5> HIDE DEF t, w, i, f
        <5> QED
          OBVIOUS
      <4> HIDE DEF r
      <4> QED
        BY <4>2, <4>3
    <3>7. SessionMap = [j \in DOMAIN SessionMap |-> SessionMap[j]]
      BY DEF SessionMap
    <3> HIDE DEF SessionMap, See, x, id, InForce
    <3>8. SessionMap = [SessionMap EXCEPT ![id].subscribed = TRUE]
      BY <3>5, <3>6, <3>7
    <3>9. Promise!Subscription(id, TRUE)
      BY <2>2, <3>5, <3>6, <3>8 DEF Promise!Subscription, Promise!abstract
    <3> QED
      BY <2>1, <2>2, <2>3, <3>9 DEF Serves, x, id
  <2> QED
    BY <2>1, <2>2, <2>3 DEF Serves
<1>3. CASE ~\E e \in Range(db.leaves) : db.heap[e].id = db.heap[c].id
  <2> DEFINE l == Append(db.leaves, c)
  <2>1. db' = [db EXCEPT !.leaves = l, !.heap[c].sub = TRUE]
    BY <1>1, <1>3 DEF HandleSubscribe, Db
  <2>2. l \in Seq(Context)
    BY <1>1
  <2> HIDE DEF l
  <2> QED
    BY <1>1, <2>1, <2>2, LinkStep
<1> QED
  BY <1>2, <1>3

LEMMA HandleUnsubscribeStep ==
  ASSUME SInv, IInv', NEW c \in DOMAIN db.heap, HandleUnsubscribe(c)
  PROVE  /\ Calm(db') /\ Serves /\ db'.published = db.published
         /\ IF db.heap[c].id \in Own THEN Promise!Subscription(db.heap[c].id, FALSE) ELSE UNCHANGED Promise!abstract
<1> DEFINE l == Without(db.leaves, c)
<1>1. db \in Db /\ db.leaves \in Seq(Context) /\ Served(c)
  BY DEF SInv, IInv, Good, Loose, Db, HandleUnsubscribe
<1>2. db' = [db EXCEPT !.leaves = l, !.heap[c].sub = FALSE]
  BY <1>1 DEF HandleUnsubscribe, Db
<1>3. l \in Seq(Context)
  BY <1>1, WithoutFacts
<1> HIDE DEF l
<1> QED
  BY <1>1, <1>2, <1>3, LinkStep

\* The loop that frees the disused contexts.
LEMMA FreeDisusedStep ==
  ASSUME SInv, IInv', FreeDisused
  PROVE  Calm(db') /\ UNCHANGED Promise!abstract
<1> DEFINE s == db.ll_for_free
           n == Len(s)
           m == Each(ContextCleanup, db, s)
           Gone(i) == {s[j] : j \in 1..i}
           J == [i \in 0..n |->
                   {x \in Db : /\ Loose(x) /\ DOMAIN x.heap = DOMAIN db.heap \ Gone(i)
                               /\ \A e \in DOMAIN x.heap : x.heap[e] = db.heap[e]
                               /\ x.published = db.published /\ SameFiles(db, x) /\ x.made = db.made}]
<1>1. /\ db \in Db /\ Good(db) /\ Loose(db) /\ Loose(db')
      /\ s \in Seq(Context) /\ n \in Nat /\ DOMAIN s = 1..n /\ Distinct(s)
  BY DEF SInv, IInv, Good, Loose, Db
<1>2. db' = [m EXCEPT !.ll_for_free = <<>>]
  BY DEF FreeDisused, Step
<1>3. db \in J[0]
  <2>1. 0 \in 0..n /\ Gone(0) = {}
    BY <1>1
  <2> HIDE DEF Gone
  <2> QED
    BY <1>1, <2>1 DEF SameFiles
<1>4. ASSUME NEW i \in 1..n, NEW x \in J[i - 1]
      PROVE  ContextCleanup(x, s[i]) \in J[i]
  <2> DEFINE k == ContextCleanup(x, s[i])
  <2>1. i - 1 \in 0..n /\ i \in 0..n /\ i \in DOMAIN s
    BY <1>1
  <2>2. /\ x \in Db /\ Loose(x) /\ DOMAIN x.heap = DOMAIN db.heap \ Gone(i - 1)
        /\ \A e \in DOMAIN x.heap : x.heap[e] = db.heap[e]
        /\ x.published = db.published /\ SameFiles(db, x) /\ x.made = db.made
    BY <2>1
  <2>3. s[i] \in DOMAIN x.heap
    <3>1. s[i] \in Range(s)
      BY <2>1 DEF Range
    <3>2. s[i] \in DOMAIN db.heap
      BY <1>1, <3>1 DEF Good
    <3>3. \A j \in 1..i - 1 : j \in DOMAIN s /\ j # i
      BY <1>1
    <3>4. s[i] \notin Gone(i - 1)
      BY <1>1, <2>1, <3>3 DEF Distinct
    <3> QED
      BY <2>2, <3>2, <3>4
  <2>4. Gone(i) = Gone(i - 1) \cup {s[i]}
    <3>1. 1..i = (1..i - 1) \cup {i}
      BY <2>1
    <3> QED
      BY <3>1
  <2> HIDE DEF Gone, J
  <2>5. Loose(k)
    BY <2>2, <2>3, CleanupLoose
  <2>6. /\ DOMAIN k.heap = DOMAIN x.heap \ {s[i]} /\ \A e \in DOMAIN k.heap : k.heap[e] = x.heap[e]
        /\ k.published = x.published /\ SameFiles(x, k) /\ k.made = x.made
    BY <2>2, <2>3, CleanupExact
  <2> HIDE DEF k
  <2>7. k \in Db /\ SameFiles(db, k)
    BY <2>2, <2>5, <2>6 DEF Loose, SameFiles
  <2>8. DOMAIN k.heap = DOMAIN db.heap \ Gone(i)
    BY <2>2, <2>4, <2>6
  <2>9. k \in J[i]
    BY <2>1, <2>2, <2>5, <2>6, <2>7, <2>8 DEF J
  <2> QED
    BY <2>9 DEF k
<1>5. m \in J[n]
  <2>1. \A i \in 0..n : J[i] \subseteq Db
    OBVIOUS
  <2> HIDE DEF J
  <2> QED
    BY <1>1, <1>3, <1>4, <2>1, EachCleanup
<1>6. /\ m \in Db /\ DOMAIN m.heap = DOMAIN db.heap \ Range(s)
      /\ \A e \in DOMAIN m.heap : m.heap[e] = db.heap[e]
      /\ m.published = db.published /\ SameFiles(db, m) /\ m.made = db.made
  <2>1. n \in 0..n /\ Gone(n) = Range(s)
    BY <1>1 DEF Range
  <2> HIDE DEF m, Gone
  <2> QED
    BY <1>5, <2>1
<1> HIDE DEF m, J
<1>7. /\ db'.heap = m.heap /\ db'.published = m.published /\ SameFiles(db, db') /\ db'.made = m.made
  BY <1>2, <1>6 DEF Db, SameFiles
<1>8. \A e \in Range(s) : e \in DOMAIN db.heap /\ db.heap[e].id = NoId
  BY <1>1 DEF Good, Owned
<1> QED
  BY <1>1, <1>6, <1>7, <1>8, BlankStep

\* A session that no connection has is given up.
LEMMA ExpireOneExact ==
  ASSUME NEW d, Good(d), Fair(d), RightsIn(d), AllOrderly(d), NEW c \in DOMAIN d.heap,
         ~d.heap[c].clean_session, ~d.heap[c].open, NEW k, k = ExpireOne(d, c)
  PROVE  /\ Good(k) /\ Fair(k) /\ RightsIn(k) /\ AllOrderly(k) /\ k.made = d.made /\ SameFiles(d, k)
         /\ Apart(d, k, c) /\ k.heap[c].id = IF d.heap[c].wsi THEN d.heap[c].id ELSE NoId
<1> DEFINE z == [d.heap[c] EXCEPT !.clean_session = TRUE, !.state = "expiring"]
           m == [d EXCEPT !.heap = [d.heap EXCEPT ![c] = z]]
<1>1. d \in Db /\ d.heap[c] \in Ctx /\ d.heap \in Heaps
  BY ContextType DEF Good, Loose
<1>2. k = DoDisconnect(m, c)
  <2>1. [d.heap EXCEPT ![c].clean_session = TRUE, ![c].state = "expiring"] = [d.heap EXCEPT ![c] = z]
    BY <1>1, HeapType
  <2>2. [d EXCEPT !.heap[c].clean_session = TRUE, !.heap[c].state = "expiring"] = m
    BY <1>1, <2>1 DEF Db
  <2> QED
    BY <2>2 DEF ExpireOne
<1>3. /\ z \in Ctx /\ Marked(d.heap[c], z) /\ Shown(d.heap[c], z) /\ z.clean_session /\ ~z.open
      /\ z.state = "expiring" /\ z.wsi = d.heap[c].wsi
  BY <1>1 DEF Ctx, States, Marked, Shown
<1> HIDE DEF z
<1>4. c \notin Range(d.ll_for_free) /\ (z.wsi \/ z.will = 0)
  BY <1>1, <1>3 DEF Good, Owned, AllOrderly, Orderly, Marked
<1>5. /\ Loose(m) /\ Fair(m) /\ RightsIn(m) /\ SameFiles(d, m) /\ Apart(d, m, c) /\ m.heap[c] = z
      /\ m.made = d.made
  BY <1>3, <1>4, MarkFair
<1> HIDE DEF m
<1>6. c \in DOMAIN m.heap /\ m.heap[c].state # "disconnected"
  BY <1>3, <1>5 DEF Apart
<1>7. Quit(m, m, k, c)
  <2>1. (IF m.heap[c].wsi THEN m ELSE AfterWill(m, c)) = m
    BY <1>4, <1>5 DEF AfterWill
  <2>2. Quit(m, IF m.heap[c].wsi THEN m ELSE AfterWill(m, c), k, c)
    BY <1>2, <1>5, <1>6, QuitFacts
  <2> QED
    BY <2>1, <2>2
<1>8. Fair(k) /\ RightsIn(k) /\ AllOrderly(k) /\ k.made = m.made
  <2>1. \A e \in DOMAIN m.heap : e # c => Orderly(m.heap[e])
    BY <1>5 DEF AllOrderly, Apart
  <2> QED
    BY <1>2, <1>5, <1>6, <2>1, QuitKeeps
<1>9. SameFiles(d, k) /\ Apart(d, k, c)
  BY <1>5, <1>7 DEF Quit, Apart, SameFiles
<1>10. k.heap[c].id = IF d.heap[c].wsi THEN d.heap[c].id ELSE NoId
  BY <1>3, <1>5, <1>7 DEF Quit, Marked
<1> QED
  BY <1>5, <1>8, <1>9, <1>10, ExpireOneGood

\* what is left of a map without some
LEMMA OnlyFacts ==
  ASSUME NEW f, NEW xs
  PROVE  /\ DOMAIN Promise!Only(f, xs) = DOMAIN f \cap xs
         /\ Promise!Only(f, xs) = [x \in DOMAIN Promise!Only(f, xs) |-> Promise!Only(f, xs)[x]]
         /\ \A x \in DOMAIN f \cap xs : Promise!Only(f, xs)[x] = f[x]
  BY DEF Promise!Only

LEMMA ExpireStep ==
  ASSUME SInv, IInv', NEW old, Expire(old)
  PROVE  Calm(db') /\ Promise!Expire /\ db'.published = db.published
<1> DEFINE S == {i \in DOMAIN db.by_id :
                   /\ db.by_id[i] \in {c \in Range(db.by_id) : ~db.heap[c].open /\ ~db.heap[c].clean_session}
                   /\ db.by_id[i] \in old \/ ~db.heap[db.by_id[i]].timed}
           s == Those(db.by_id, S)
           n == Len(s)
           J == [i \in 0..n |->
                   {x \in Db : /\ Good(x) /\ Calm(x) /\ SameFiles(db, x) /\ x.published = db.published
                               /\ DOMAIN x.heap = DOMAIN db.heap
                               /\ \A e \in DOMAIN db.heap :
                                    (\A j \in 1..i : s[j] # e) => x.heap[e] = db.heap[e]
                               /\ \A j \in 1..i :
                                    x.heap[s[j]].id = IF db.heap[s[j]].wsi THEN db.heap[s[j]].id ELSE NoId}]
<1>1. /\ db \in Db /\ Good(db) /\ Calm(db) /\ db.by_id \in Seq(Context) /\ Distinct(db.by_id)
      /\ Range(db.by_id) \subseteq DOMAIN db.heap
  BY DEF SInv, IInv, Good, Loose, Db
<1>2. db' = Each(ExpireOne, db, s)
  BY DEF Expire
<1>3. /\ S \subseteq DOMAIN db.by_id
      /\ \A i \in S : ~db.heap[db.by_id[i]].clean_session /\ ~db.heap[db.by_id[i]].open
  OBVIOUS
<1> HIDE DEF S
<1>4. /\ s \in Seq(Context) /\ Distinct(s)
      /\ \A i \in DOMAIN s : s[i] \in DOMAIN db.heap /\ ~db.heap[s[i]].clean_session /\ ~db.heap[s[i]].open
  <2>1. /\ s \in Seq(Context) /\ Distinct(s)
        /\ \A x : (\E i \in DOMAIN s : s[i] = x) <=> \E i \in S : db.by_id[i] = x
    BY <1>1, <1>3, ThoseFacts DEF Distinct
  <2> HIDE DEF s
  <2>2. ASSUME NEW i \in DOMAIN s
        PROVE  s[i] \in DOMAIN db.heap /\ ~db.heap[s[i]].clean_session /\ ~db.heap[s[i]].open
    <3>1. PICK j \in S : db.by_id[j] = s[i]
      BY <2>1
    <3>2. db.by_id[j] \in Range(db.by_id)
      BY <1>3 DEF Range
    <3> QED
      BY <1>1, <1>3, <3>1, <3>2
  <2> QED
    BY <2>1, <2>2
<1> HIDE DEF s
<1>5. n \in Nat /\ DOMAIN s = 1..n
  BY <1>4
<1>6. db \in J[0]
  <2>1. 0 \in 0..n /\ 1..0 = {}
    BY <1>5
  <2> QED
    BY <1>1, <2>1 DEF SameFiles
<1>7. ASSUME NEW i \in 1..n, NEW x \in J[i - 1]
      PROVE  ExpireOne(x, s[i]) \in J[i]
  <2> DEFINE k == ExpireOne(x, s[i])
             c == s[i]
  <2>1. i - 1 \in 0..n /\ i \in 0..n /\ i \in DOMAIN s /\ 1..i = (1..i - 1) \cup {i}
    BY <1>5
  <2>2. /\ x \in Db /\ Good(x) /\ Calm(x) /\ SameFiles(db, x) /\ x.published = db.published
        /\ DOMAIN x.heap = DOMAIN db.heap
        /\ \A e \in DOMAIN db.heap : (\A j \in 1..i - 1 : s[j] # e) => x.heap[e] = db.heap[e]
        /\ \A j \in 1..i - 1 : x.heap[s[j]].id = IF db.heap[s[j]].wsi THEN db.heap[s[j]].id ELSE NoId
    BY <2>1
  <2>3. \A j \in 1..i - 1 : j \in DOMAIN s /\ s[j] # c /\ s[j] \in DOMAIN db.heap
    <3>1. \A j \in 1..i - 1 : j \in DOMAIN s /\ j # i
      BY <1>5
    <3> QED
      BY <1>4, <2>1, <3>1 DEF Distinct
  <2>4. c \in DOMAIN x.heap /\ x.heap[c] = db.heap[c] /\ ~x.heap[c].clean_session /\ ~x.heap[c].open
    BY <1>4, <2>1, <2>2, <2>3
  <2> HIDE DEF J
  <2>5. /\ Good(k) /\ Fair(k) /\ RightsIn(k) /\ AllOrderly(k) /\ k.made = x.made /\ SameFiles(x, k)
        /\ Apart(x, k, c) /\ k.heap[c].id = IF x.heap[c].wsi THEN x.heap[c].id ELSE NoId
    BY <2>2, <2>4, ExpireOneExact DEF Calm
  <2> HIDE DEF k, c
  <2>6. k \in Db /\ Calm(k) /\ SameFiles(db, k) /\ k.published = db.published /\ DOMAIN k.heap = DOMAIN db.heap
    BY <2>2, <2>5 DEF Good, Loose, Calm, SameFiles, Apart
  <2>7. ASSUME NEW e \in DOMAIN db.heap, \A j \in 1..i : s[j] # e
        PROVE  k.heap[e] = db.heap[e]
    <3>1. e # c /\ \A j \in 1..i - 1 : s[j] # e
      BY <2>1, <2>7 DEF c
    <3> QED
      BY <2>2, <2>5, <3>1 DEF Apart
  <2>8. ASSUME NEW j \in 1..i
        PROVE  k.heap[s[j]].id = IF db.heap[s[j]].wsi THEN db.heap[s[j]].id ELSE NoId
    <3>1. CASE j = i
      BY <2>4, <2>5, <3>1 DEF c
    <3>2. CASE j # i
      <4>1. j \in 1..i - 1
        BY <2>1, <3>2
      <4> QED
        BY <2>2, <2>3, <2>5, <4>1 DEF Apart
    <3> QED
      BY <3>1, <3>2
  <2>9. k \in J[i]
    BY <2>1, <2>5, <2>6, <2>7, <2>8 DEF J
  <2> QED
    BY <2>9 DEF k
<1>8. db' \in J[n]
  <2>1. \A i \in 0..n : J[i] \subseteq Db
    OBVIOUS
  <2> HIDE DEF J
  <2> QED
    BY <1>2, <1>4, <1>6, <1>7, <2>1, EachExpire
<1>9. /\ Good(db') /\ Calm(db') /\ SameFiles(db, db') /\ db'.published = db.published
      /\ DOMAIN db'.heap = DOMAIN db.heap
      /\ \A e \in DOMAIN db.heap : (\A j \in DOMAIN s : s[j] # e) => db'.heap[e] = db.heap[e]
      /\ \A j \in DOMAIN s : db'.heap[s[j]].id = IF db.heap[s[j]].wsi THEN db.heap[s[j]].id ELSE NoId
  <2>1. n \in 0..n
    BY <1>5
  <2> QED
    BY <1>5, <1>8, <2>1
<1> HIDE DEF J
<1> DEFINE ids == {j \in DOMAIN Sess(db) : ~Sess(db)[j].online /\ \E i \in DOMAIN s : db.heap[s[i]].id = j}
           g == Promise!Only(Sess(db), DOMAIN Sess(db) \ ids)
<1>10. Loose(db) /\ Loose(db') /\ NoId \notin Own
  BY <1>1, <1>9, IdAssumption DEF Good, Own
<1>11. \A i \in DOMAIN s : db.heap[s[i]].id \in Own => db.heap[s[i]].id \in ids /\ ~db.heap[s[i]].wsi
  <2>1. ASSUME NEW i \in DOMAIN s, db.heap[s[i]].id \in Own
        PROVE  db.heap[s[i]].id \in ids /\ ~db.heap[s[i]].wsi
    <3>1. s[i] \in DOMAIN db.heap /\ ~db.heap[s[i]].open
      BY <1>4
    <3>2. ~See(db.heap[s[i]]).online
      BY <3>1 DEF See
    <3> QED
      BY <1>10, <2>1, <3>1, <3>2, SessFacts, OwnFacts
  <2> QED
    BY <2>1
<1>12. /\ DOMAIN g = DOMAIN Sess(db) \ ids /\ g = [j \in DOMAIN g |-> g[j]]
       /\ \A j \in DOMAIN Sess(db) \ ids : g[j] = Sess(db)[j]
  <2> HIDE DEF Sess, ids
  <2>1. DOMAIN Sess(db) \cap (DOMAIN Sess(db) \ ids) = DOMAIN Sess(db) \ ids
    OBVIOUS
  <2> DEFINE xs == DOMAIN Sess(db) \ ids
  <2>2. DOMAIN g = DOMAIN Sess(db) \cap xs
    BY OnlyFacts, Zenon
  <2>3. g = [j \in DOMAIN g |-> g[j]]
    BY OnlyFacts, Zenon
  <2>4. \A j \in DOMAIN Sess(db) \cap xs : g[j] = Sess(db)[j]
    BY OnlyFacts, Zenon
  <2> HIDE DEF g
  <2> QED
    BY <2>1, <2>2, <2>3, <2>4
<1> HIDE DEF g
<1>13. ASSUME NEW j \in DOMAIN g
       PROVE  j \in Own /\ \E e \in DOMAIN db'.heap : db'.heap[e].id = j
  <2>1. j \in DOMAIN Sess(db) /\ j \notin ids
    BY <1>12, <1>13
  <2> HIDE DEF ids
  <2>2. j \in Own /\ \E e \in DOMAIN db.heap : db.heap[e].id = j
    BY <1>10, <2>1, SessFacts
  <2>3. PICK e \in DOMAIN db.heap : db.heap[e].id = j
    BY <2>2
  <2>4. \A i \in DOMAIN s : s[i] # e
    BY <1>11, <2>1, <2>2, <2>3
  <2> QED
    BY <1>9, <2>2, <2>3, <2>4
<1>14. ASSUME NEW e \in DOMAIN db'.heap, db'.heap[e].id \in Own
       PROVE  db'.heap[e].id \in DOMAIN g /\ g[db'.heap[e].id] = See(db'.heap[e])
  <2>1. ASSUME NEW i \in DOMAIN s, s[i] = e
        PROVE  FALSE
    <3>1. db.heap[e].wsi /\ db.heap[e].id \in Own
      BY <1>9, <1>10, <1>14, <2>1
    <3> QED
      BY <1>11, <2>1, <3>1
  <2>2. e \in DOMAIN db.heap /\ db'.heap[e] = db.heap[e]
    BY <1>9, <2>1
  <2>3. db.heap[e].id \in DOMAIN Sess(db) /\ Sess(db)[db.heap[e].id] = See(db.heap[e])
    BY <1>10, <1>14, <2>2, SessFacts
  <2>4. db.heap[e].id \notin ids
    <3>1. ASSUME NEW i \in DOMAIN s, db.heap[s[i]].id = db.heap[e].id
          PROVE  FALSE
      <4>1. s[i] \in DOMAIN db.heap /\ s[i] # e
        BY <1>4, <2>1
      <4> QED
        BY <1>10, <1>14, <2>2, <3>1, <4>1 DEF Loose, OneEach, Own
    <3> QED
      BY <3>1
  <2> HIDE DEF ids
  <2> QED
    BY <1>12, <2>2, <2>3, <2>4
<1>15. Sess(db') = g
  BY <1>10, <1>12, <1>13, <1>14, SessIs
<1>16. Promise!Expire
  <2>1. SessionMap = Sess(db) /\ SessionMap' = g /\ InForce' = InForce
    BY <1>9, <1>15, SessionMapIs, SameForce
  <2>2. ids \in SUBSET {j \in DOMAIN Sess(db) : ~Sess(db)[j].online}
    OBVIOUS
  <2>3. SessionMap' = Promise!Only(SessionMap, DOMAIN SessionMap \ ids)
    BY <2>1 DEF g
  <2> HIDE DEF ids, SessionMap, InForce, Sess
  <2>4. ids \in SUBSET {j \in DOMAIN SessionMap : ~SessionMap[j].online}
    BY <2>1, <2>2
  <2> QED
    BY <1>9, <2>1, <2>3, <2>4 DEF Promise!Expire
<1> QED
  BY <1>9, <1>16

\* The files are read again, and all rights are forgotten.
LEMMA FilesExact ==
  ASSUME SInv, NEW f \in Files, NEW k, k = SecurityInit(SecurityCleanup(db), f)
  PROVE  /\ DOMAIN k.heap = DOMAIN db.heap /\ k.published = db.published /\ k.made = db.made
         /\ k.unpwd = UnpwdFileParse(f.passwords) /\ k.acl_list = Means(f).list
         /\ k.acl_patterns = Means(f).patterns \cup (IF DOMAIN db.acl_list = {} THEN db.acl_patterns ELSE {})
         /\ \A e \in DOMAIN db.heap : /\ k.heap[e].msgs = db.heap[e].msgs /\ k.heap[e].deaf = db.heap[e].deaf
                                      /\ k.heap[e].id # NoId => k.heap[e].acl = NoAcl
<1> DEFINE g == [c \in DOMAIN db.heap |-> IF c \in Range(db.by_id) THEN [db.heap[c] EXCEPT !.acl = NoAcl]
                                         ELSE db.heap[c]]
           m == AclCleanup(db)
           Cleared(h) == /\ DOMAIN h = DOMAIN db.heap
                         /\ \A e \in DOMAIN db.heap : /\ h[e].msgs = db.heap[e].msgs /\ h[e].deaf = db.heap[e].deaf
                                                      /\ h[e].id # NoId => h[e].acl = NoAcl
           old == IF DOMAIN db.acl_list = {} THEN db.acl_patterns ELSE {}
<1>1. db \in Db /\ db.heap \in Heaps /\ RightsIn(db) /\ \A c \in DOMAIN db.heap : Fit(db, c)
  BY DEF SInv, Calm, IInv, Good, Loose, Db
<1>2. ASSUME NEW c \in DOMAIN db.heap
      PROVE  /\ g[c] \in Ctx /\ g[c].msgs = db.heap[c].msgs /\ g[c].deaf = db.heap[c].deaf
             /\ g[c].id # NoId => g[c].acl = NoAcl
  <2>1. db.heap[c] \in Ctx /\ (db.heap[c].id # NoId <=> c \in Range(db.by_id))
    BY <1>1, ContextType DEF Fit
  <2>2. g[c] = IF c \in Range(db.by_id) THEN [db.heap[c] EXCEPT !.acl = NoAcl] ELSE db.heap[c]
    OBVIOUS
  <2> HIDE DEF g
  <2>3. CASE c \in Range(db.by_id)
    BY <2>1, <2>2, <2>3 DEF Ctx, NoAcl
  <2>4. CASE c \notin Range(db.by_id)
    BY <2>1, <2>2, <2>4
  <2> QED
    BY <2>3, <2>4
<1>3. DOMAIN g = DOMAIN db.heap /\ g \in Heaps
  <2>1. DOMAIN g = DOMAIN db.heap /\ g \in [DOMAIN db.heap -> Ctx]
    BY <1>2
  <2>2. DOMAIN db.heap \in SUBSET Context
    BY <1>1, HeapType
  <2> HIDE DEF g
  <2> QED
    BY <2>1, <2>2, HeapType
<1>4. /\ m \in Db /\ m.acl_list = <<>> /\ m.acl_patterns = old
      /\ m.published = db.published /\ m.made = db.made /\ Cleared(m.heap)
  <2>1. CASE DOMAIN db.acl_list = {}
    <3>1. db.acl_list = <<>>
      BY <1>1, <2>1, NoList DEF Db
    <3>2. \A e \in DOMAIN db.heap : db.heap[e].id # NoId => db.heap[e].acl = NoAcl
      BY <1>1, <2>1 DEF RightsIn, RightsOf, Entry
    <3> QED
      BY <1>1, <2>1, <3>1, <3>2 DEF AclCleanup
  <2>2. CASE DOMAIN db.acl_list # {}
    <3>1. m = [db EXCEPT !.acl_list = <<>>, !.acl_patterns = {}, !.heap = g]
      BY <2>2 DEF AclCleanup
    <3> HIDE DEF g, m
    <3>2. <<>> \in Rights
      BY DEF Rights
    <3>3. /\ m \in Db /\ m.heap = g /\ m.acl_list = <<>> /\ m.acl_patterns = {}
          /\ m.published = db.published /\ m.made = db.made
      BY <1>1, <1>3, <3>1, <3>2 DEF Db
    <3> QED
      BY <1>2, <1>3, <2>2, <3>3
  <2> QED
    BY <2>1, <2>2
<1> HIDE DEF m, g
<1>5. f \in FileType
  BY FilesAssumption
<1> DEFINE e == [m EXCEPT !.unpwd = <<>>]
<1>6. /\ e \in Db /\ e.heap = m.heap /\ e.acl_list = <<>> /\ e.acl_patterns = old
      /\ e.published = db.published /\ e.made = db.made
  <2>1. <<>> \in Seq(PwLine)
    OBVIOUS
  <2> HIDE DEF old
  <2> QED
    BY <1>4, <2>1 DEF Db
<1>7. k = SecurityInit(e, f)
  BY DEF SecurityCleanup, UnpwdCleanup, m
<1> HIDE DEF e, old
<1>8. /\ k.heap = e.heap /\ k.made = e.made /\ k.unpwd = UnpwdFileParse(f.passwords)
      /\ k.acl_list = Means(f).list /\ k.acl_patterns = e.acl_patterns \cup Means(f).patterns
  BY <1>5, <1>6, <1>7, SecurityLoads DEF SameLists
<1>9. k.published = e.published
  <2>1. k = [e EXCEPT !.unpwd = k.unpwd, !.acl_list = k.acl_list, !.acl_patterns = k.acl_patterns]
    <3> DEFINE p == AclfileParse(e.acl_list, e.acl_patterns, f.acl)
               u == UnpwdFileParse(f.passwords)
    <3>1. k = IF UnpwdFileError(f.passwords) THEN [e EXCEPT !.unpwd = u]
              ELSE [e EXCEPT !.unpwd = u, !.acl_list = p.list, !.acl_patterns = p.patterns]
      BY <1>7 DEF SecurityInit
    <3> HIDE DEF p, u
    <3> QED
      BY <1>6, <3>1 DEF Db
  <2> QED
    BY <1>6, <2>1 DEF Db
<1>10. k.acl_patterns = Means(f).patterns \cup old
  BY <1>6, <1>8
<1> QED
  BY <1>4, <1>6, <1>8, <1>9, <1>10 DEF old

\* Who is let in goes on, with the rights of the list; who is not leaves.
Applied(d, k, c) ==
  LET x == d.heap[c]
      y == k.heap[c]
  IN  /\ y.id # NoId => y.acl = RightsOf(d, x.id) /\ y.id = x.id
      /\ IF UnpwdCheck(d.unpwd, x.id) THEN y.id = x.id /\ See(y) = See(x)
         ELSE /\ y.id = IF x.wsi \/ ~x.clean_session THEN x.id ELSE NoId
              /\ ~y.open /\ (x.wsi \/ y.will = 0) /\ y.clean_session = x.clean_session /\ y.sub = x.sub
              /\ y.msgs = x.msgs /\ y.deaf = x.deaf

LEMMA ApplyExact ==
  ASSUME NEW d, Good(d), Fair(d), AllOrderly(d), NEW c \in DOMAIN d.heap, d.heap[c].id # NoId,
         d.heap[c].acl = NoAcl, NEW k, k = Apply(d, c)
  PROVE  /\ Fair(k) /\ AllOrderly(k) /\ k.made = d.made /\ SameFiles(d, k) /\ Apart(d, k, c)
         /\ Applied(d, k, c)
<1> DEFINE x == d.heap[c]
           id == x.id
           z == [x EXCEPT !.state = "disconnecting"]
           m == [d EXCEPT !.heap = [d.heap EXCEPT ![c] = z]]
           a == d.acl_list[id]
           y == [x EXCEPT !.acl = a]
<1>1. d \in Db /\ x \in Ctx /\ d.heap \in Heaps /\ c \notin Range(d.ll_for_free) /\ x.state # "new"
  BY ContextType DEF Good, Loose, Db, Owned, Fit
<1>2. CASE ~UnpwdCheck(d.unpwd, id)
  <2>1. k = DoDisconnect(m, c)
    <3>1. [d.heap EXCEPT ![c].state = "disconnecting"] = [d.heap EXCEPT ![c] = z]
      BY <1>1, HeapType
    <3>2. [d EXCEPT !.heap[c].state = "disconnecting"] = m
      BY <1>1, <3>1 DEF Db
    <3> QED
      BY <1>2, <3>2 DEF Apply
  <2>2. /\ z \in Ctx /\ Marked(x, z) /\ Shown(x, z) /\ z.state = "disconnecting" /\ z.wsi = x.wsi
        /\ z.clean_session = x.clean_session
    BY <1>1 DEF Ctx, States, Marked, Shown
  <2> HIDE DEF z
  <2>3. Loose(m) /\ Fair(m) /\ SameFiles(d, m) /\ Apart(d, m, c) /\ m.heap[c] = z /\ m.made = d.made
    BY <1>1, <2>2, MarkFair
  <2> HIDE DEF m
  <2>4. c \in DOMAIN m.heap /\ m.heap[c].state # "disconnected" /\ AfterWill(m, c) = m
    BY <2>2, <2>3 DEF Apart, AfterWill
  <2>5. Quit(m, m, k, c)
    BY <2>1, <2>3, <2>4, QuitFacts
  <2>6. /\ Fair(k) /\ Orderly(k.heap[c])
        /\ \A e \in DOMAIN m.heap : e # c /\ Orderly(m.heap[e]) => Orderly(k.heap[e])
    BY <2>3, <2>4, <2>5, QuitTame
  <2>7. AllOrderly(k)
    BY <2>3, <2>5, <2>6 DEF AllOrderly, Quit, Apart
  <2>8. SameFiles(d, k) /\ Apart(d, k, c) /\ k.made = d.made
    BY <2>3, <2>5 DEF Quit, Apart, SameFiles
  <2>9. Applied(d, k, c)
    <3>1. /\ ~k.heap[c].open /\ (x.wsi \/ k.heap[c].will = 0) /\ k.heap[c].clean_session = x.clean_session
          /\ k.heap[c].sub = x.sub /\ k.heap[c].msgs = x.msgs /\ k.heap[c].deaf = x.deaf
          /\ k.heap[c].acl = x.acl
          /\ k.heap[c].id = IF x.wsi \/ ~x.clean_session THEN x.id ELSE NoId
      BY <2>2, <2>3, <2>5 DEF Quit, Marked, Shown
    <3> QED
      BY <1>2, <3>1 DEF Applied, RightsOf
  <2> QED
    BY <2>6, <2>7, <2>8, <2>9
<1>3. ASSUME UnpwdCheck(d.unpwd, id), NEW v \in Ctx, Like(x, v), v.msgs = x.msgs, v.deaf = x.deaf,
             v.acl = Entry(d, id), Apart(d, k, c), k.heap[c] = v, SameFiles(d, k), k.made = d.made
      PROVE  /\ Fair(k) /\ AllOrderly(k) /\ Applied(d, k, c)
  <2>1. ASSUME NEW e \in DOMAIN k.heap
        PROVE  Tame(d.heap[e], k.heap[e]) /\ Orderly(k.heap[e])
    <3>1. e \in DOMAIN d.heap /\ (d.heap[e].id = NoId => d.heap[e].will = 0) /\ Orderly(d.heap[e])
      BY <1>3 DEF Fair, WillsOnce, AllOrderly, Apart
    <3>2. CASE e = c
      BY <1>1, <1>3, <3>1, <3>2 DEF Like, Tame, Orderly
    <3>3. CASE e # c
      BY <1>3, <3>1, <3>3 DEF Apart, Tame
    <3> QED
      BY <3>2, <3>3
  <2>2. Fair(k) /\ AllOrderly(k)
    BY <1>3, <2>1, TameKeeps DEF AllOrderly, Apart
  <2>3. Applied(d, k, c)
    BY <1>3 DEF Applied, RightsOf, Like, See
  <2> QED
    BY <2>2, <2>3
<1>4. CASE UnpwdCheck(d.unpwd, id) /\ id \in DOMAIN d.acl_list
  <2>1. k = [d EXCEPT !.heap = [d.heap EXCEPT ![c] = y]]
    <3>1. [d.heap EXCEPT ![c].acl = a] = [d.heap EXCEPT ![c] = y]
      BY <1>1, HeapType
    <3>2. k = [d EXCEPT !.heap[c].acl = a]
      BY <1>4 DEF Apply
    <3> QED
      BY <1>1, <3>1, <3>2 DEF Db
  <2>2. a \in SUBSET Right /\ a = Entry(d, id)
    BY <1>1, <1>4 DEF Db, Rights, Entry
  <2> HIDE DEF a
  <2>3. y \in Ctx /\ Like(x, y) /\ y.msgs = x.msgs /\ y.deaf = x.deaf /\ y.acl = Entry(d, id)
    BY <1>1, <2>2 DEF Ctx, Like
  <2> HIDE DEF y
  <2>4. Apart(d, k, c) /\ k.heap[c] = y /\ SameFiles(d, k) /\ k.made = d.made
    BY <1>1, <2>1, <2>3, AlterFacts, AlterExact DEF SameLists
  <2> QED
    BY <1>3, <1>4, <2>3, <2>4
<1>5. CASE UnpwdCheck(d.unpwd, id) /\ id \notin DOMAIN d.acl_list
  <2>1. k = d
    BY <1>5 DEF Apply
  <2>2. Apart(d, k, c) /\ k.heap[c] = x /\ SameFiles(d, k) /\ k.made = d.made /\ x.acl = Entry(d, id)
    BY <1>5, <2>1 DEF Apart, SameFiles, Entry
  <2> QED
    BY <1>1, <1>3, <1>5, <2>2, LikeSame
<1> QED
  BY <1>2, <1>4, <1>5

\* The loop that applies the files to the contexts.
LEMMA ReloadExact ==
  ASSUME SInv, IInv', NEW f \in Files, Reload(f)
  PROVE  /\ Calm(db') /\ db'.published = db.published /\ DOMAIN db'.heap = DOMAIN db.heap
         /\ db'.unpwd = UnpwdFileParse(f.passwords) /\ db'.acl_list = Means(f).list
         /\ db'.acl_patterns = Means(f).patterns \cup (IF DOMAIN db.acl_list = {} THEN db.acl_patterns ELSE {})
         /\ \A e \in DOMAIN db.heap :
              LET x == db.heap[e]
                  y == db'.heap[e]
              IN  IF x.id = NoId THEN y.id = NoId
                  ELSE IF UnpwdCheck(db'.unpwd, x.id) THEN y.id = x.id /\ See(y) = See(x)
                  ELSE /\ y.id = IF x.wsi \/ ~x.clean_session THEN x.id ELSE NoId
                       /\ ~y.open /\ (x.wsi \/ y.will = 0) /\ y.clean_session = x.clean_session
                       /\ y.sub = x.sub /\ y.msgs = x.msgs /\ y.deaf = x.deaf
<1> DEFINE d == SecurityInit(SecurityCleanup(db), f)
           s == d.by_id
           n == Len(s)
           J == [i \in 0..n |->
                   {x \in Db : /\ Good(x) /\ Fair(x) /\ AllOrderly(x) /\ SameFiles(d, x) /\ x.made = d.made
                               /\ x.published = d.published /\ DOMAIN x.heap = DOMAIN d.heap
                               /\ \A e \in DOMAIN d.heap :
                                    (\A j \in 1..i : s[j] # e) => x.heap[e] = d.heap[e]
                               /\ \A j \in 1..i : Applied(d, x, s[j])}]
<1>1. db' = Each(Apply, d, s)
  BY DEF Reload, SecurityApply
<1>2. /\ Good(d) /\ \A e \in DOMAIN db.heap : Like(db.heap[e], d.heap[e])
  BY FilesGood DEF SInv
<1>3. /\ DOMAIN d.heap = DOMAIN db.heap /\ d.published = db.published /\ d.made = db.made
      /\ d.unpwd = UnpwdFileParse(f.passwords) /\ d.acl_list = Means(f).list
      /\ d.acl_patterns = Means(f).patterns \cup (IF DOMAIN db.acl_list = {} THEN db.acl_patterns ELSE {})
      /\ \A e \in DOMAIN db.heap : /\ d.heap[e].msgs = db.heap[e].msgs /\ d.heap[e].deaf = db.heap[e].deaf
                                   /\ d.heap[e].id # NoId => d.heap[e].acl = NoAcl
  BY FilesExact
<1> HIDE DEF d
<1>4. Fair(d) /\ AllOrderly(d)
  <2>1. Fair(db) /\ AllOrderly(db)
    BY DEF SInv, Calm
  <2>2. ASSUME NEW e \in DOMAIN d.heap
        PROVE  Tame(db.heap[e], d.heap[e]) /\ Orderly(d.heap[e])
    <3>1. e \in DOMAIN db.heap /\ (db.heap[e].id = NoId => db.heap[e].will = 0) /\ Orderly(db.heap[e])
      BY <1>3, <2>1 DEF Fair, WillsOnce, AllOrderly
    <3> QED
      BY <1>2, <1>3, <3>1 DEF Like, Tame, Orderly
  <2> QED
    BY <1>3, <2>1, <2>2, TameKeeps DEF AllOrderly
<1>5. /\ d \in Db /\ s \in Seq(Context) /\ Distinct(s)
      /\ \A i \in DOMAIN s : s[i] \in DOMAIN d.heap /\ d.heap[s[i]].id # NoId
      /\ \A e \in DOMAIN d.heap : d.heap[e].id # NoId => \E i \in DOMAIN s : s[i] = e
  <2>1. d \in Db /\ s \in Seq(Context) /\ Distinct(s)
    BY <1>2 DEF Good, Loose, Db
  <2>2. /\ \A i \in DOMAIN s : s[i] \in Range(s)
        /\ \A e \in Range(s) : \E i \in DOMAIN s : s[i] = e
    BY DEF Range
  <2> QED
    BY <1>2, <2>1, <2>2 DEF Good, Loose, Fit
<1> HIDE DEF s
<1>6. n \in Nat /\ DOMAIN s = 1..n
  BY <1>5
<1>7. d \in J[0]
  <2>1. 0 \in 0..n /\ 1..0 = {}
    BY <1>6
  <2> QED
    BY <1>2, <1>4, <1>5, <2>1 DEF SameFiles
<1>8. ASSUME NEW i \in 1..n, NEW x \in J[i - 1]
      PROVE  Apply(x, s[i]) \in J[i]
  <2> DEFINE k == Apply(x, s[i])
             c == s[i]
  <2>1. i - 1 \in 0..n /\ i \in 0..n /\ i \in DOMAIN s /\ 1..i = (1..i - 1) \cup {i}
    BY <1>6
  <2>2. /\ x \in Db /\ Good(x) /\ Fair(x) /\ AllOrderly(x) /\ SameFiles(d, x) /\ x.made = d.made
        /\ x.published = d.published /\ DOMAIN x.heap = DOMAIN d.heap
        /\ \A e \in DOMAIN d.heap : (\A j \in 1..i - 1 : s[j] # e) => x.heap[e] = d.heap[e]
        /\ \A j \in 1..i - 1 : Applied(d, x, s[j])
    BY <2>1
  <2>3. \A j \in 1..i - 1 : j \in DOMAIN s /\ s[j] # c /\ s[j] \in DOMAIN d.heap
    <3>1. \A j \in 1..i - 1 : j \in DOMAIN s /\ j # i
      BY <1>6
    <3> QED
      BY <1>5, <2>1, <3>1 DEF Distinct
  <2>4. c \in DOMAIN x.heap /\ x.heap[c] = d.heap[c] /\ x.heap[c].id # NoId /\ x.heap[c].acl = NoAcl
    BY <1>3, <1>5, <2>1, <2>2, <2>3
  <2> HIDE DEF J
  <2>5. /\ Fair(k) /\ AllOrderly(k) /\ k.made = x.made /\ SameFiles(x, k) /\ Apart(x, k, c)
        /\ Applied(x, k, c) /\ Good(k)
    BY <2>2, <2>4, ApplyExact, ApplyGood
  <2> HIDE DEF k, c
  <2>6. /\ k \in Db /\ SameFiles(d, k) /\ k.published = d.published /\ DOMAIN k.heap = DOMAIN d.heap
        /\ k.made = d.made
    BY <2>2, <2>5 DEF Good, Loose, SameFiles, Apart
  <2>7. ASSUME NEW e \in DOMAIN d.heap, \A j \in 1..i : s[j] # e
        PROVE  k.heap[e] = d.heap[e]
    <3>1. e # c /\ \A j \in 1..i - 1 : s[j] # e
      BY <2>1, <2>7 DEF c
    <3> QED
      BY <2>2, <2>5, <3>1 DEF Apart
  <2>8. ASSUME NEW j \in 1..i
        PROVE  Applied(d, k, s[j])
    <3>1. CASE j = i
      <4>1. x.unpwd = d.unpwd /\ RightsOf(x, d.heap[c].id) = RightsOf(d, d.heap[c].id)
        BY <2>2, SameRights DEF SameFiles
      <4> QED
        BY <2>4, <2>5, <3>1, <4>1 DEF c, Applied
    <3>2. CASE j # i
      <4>1. j \in 1..i - 1
        BY <2>1, <3>2
      <4>2. k.heap[s[j]] = x.heap[s[j]]
        BY <2>2, <2>3, <2>5, <4>1 DEF Apart
      <4> QED
        BY <2>2, <4>1, <4>2 DEF Applied
    <3> QED
      BY <3>1, <3>2
  <2>9. k \in J[i]
    BY <2>1, <2>5, <2>6, <2>7, <2>8 DEF J
  <2> QED
    BY <2>9 DEF k
<1>9. db' \in J[n]
  <2>1. \A i \in 0..n : J[i] \subseteq Db
    OBVIOUS
  <2> HIDE DEF J
  <2> QED
    BY <1>1, <1>5, <1>7, <1>8, <2>1, EachApply
<1>10. /\ Fair(db') /\ AllOrderly(db') /\ SameFiles(d, db') /\ db'.made = d.made
       /\ db'.published = d.published /\ DOMAIN db'.heap = DOMAIN d.heap
       /\ \A e \in DOMAIN d.heap : (\A j \in DOMAIN s : s[j] # e) => db'.heap[e] = d.heap[e]
       /\ \A j \in DOMAIN s : Applied(d, db', s[j])
  <2>1. n \in 0..n
    BY <1>6
  <2> QED
    BY <1>6, <1>9, <2>1
<1> HIDE DEF J
<1>11. ASSUME NEW e \in DOMAIN d.heap
       PROVE  IF d.heap[e].id = NoId THEN db'.heap[e] = d.heap[e] ELSE Applied(d, db', e)
  BY <1>5, <1>10
<1>12. RightsIn(db')
  <2>1. ASSUME NEW e \in DOMAIN db'.heap, db'.heap[e].id # NoId
        PROVE  db'.heap[e].acl = RightsOf(db', db'.heap[e].id)
    <3>1. db'.heap[e].acl = RightsOf(d, db'.heap[e].id)
      BY <1>10, <1>11, <2>1 DEF Applied
    <3> QED
      BY <1>10, <3>1, SameRights
  <2> QED
    BY <2>1 DEF RightsIn
<1>13. Calm(db')
  BY <1>3, <1>10, <1>12 DEF SInv, Calm
<1>14. ASSUME NEW e \in DOMAIN db.heap
       PROVE  LET x == db.heap[e]
                  y == db'.heap[e]
              IN  IF x.id = NoId THEN y.id = NoId
                  ELSE IF UnpwdCheck(db'.unpwd, x.id) THEN y.id = x.id /\ See(y) = See(x)
                  ELSE /\ y.id = IF x.wsi \/ ~x.clean_session THEN x.id ELSE NoId
                       /\ ~y.open /\ (x.wsi \/ y.will = 0) /\ y.clean_session = x.clean_session
                       /\ y.sub = x.sub /\ y.msgs = x.msgs /\ y.deaf = x.deaf
  <2>1. Like(db.heap[e], d.heap[e]) /\ d.heap[e].msgs = db.heap[e].msgs /\ d.heap[e].deaf = db.heap[e].deaf
    BY <1>2, <1>3
  <2>2. See(d.heap[e]) = See(db.heap[e])
    BY <2>1 DEF Like, See
  <2>3. db'.unpwd = d.unpwd /\ e \in DOMAIN d.heap
    BY <1>3, <1>10 DEF SameFiles
  <2>4. IF d.heap[e].id = NoId THEN db'.heap[e] = d.heap[e] ELSE Applied(d, db', e)
    BY <1>11, <2>3
  <2> HIDE DEF See
  <2> QED
    BY <2>1, <2>2, <2>3, <2>4 DEF Like, Applied
<1> QED
  BY <1>3, <1>10, <1>13, <1>14 DEF SameFiles

\* the meaning of the files that are in force after a reload
LEMMA ReloadForce ==
  ASSUME NEW f \in Files, db'.unpwd = UnpwdFileParse(f.passwords), db'.acl_list = Means(f).list,
         db'.acl_patterns = Means(f).patterns \cup (IF DOMAIN db.acl_list = {} THEN db.acl_patterns ELSE {})
  PROVE  /\ Means(f) \in Range(Meaning)
         /\ InForce' = [Means(f) EXCEPT !.patterns = @ \cup IF DOMAIN InForce.list = {} THEN InForce.patterns ELSE {}]
         /\ \A id \in Id : id \in InForce'.unpwd <=> UnpwdCheck(db'.unpwd, id)
<1> DEFINE u == {id \in Id : LetIn(f.passwords, id)}
           l == Means(f).list
           p == Means(f).patterns
           o == IF DOMAIN db.acl_list = {} THEN db.acl_patterns ELSE {}
<1>1. Means(f) = [unpwd |-> u, list |-> l, patterns |-> p]
  BY DEF Means
<1>2. InForce' = [unpwd |-> {id \in Id : UnpwdCheck(db'.unpwd, id)}, list |-> l, patterns |-> p \cup o]
  BY DEF InForce
<1>3. {id \in Id : UnpwdCheck(db'.unpwd, id)} = u
  <2>1. f.passwords \in Seq(PwLine)
    BY FilesAssumption DEF FileType
  <2> QED
    BY <2>1, LetsIn
<1>4. InForce.list = db.acl_list /\ InForce.patterns = db.acl_patterns
  BY DEF InForce
<1>5. Means(f) \in Range(Meaning)
  <2> HIDE DEF u, l, p
  <2> QED
    BY DEF Range, Meaning
<1>6. InForce'.unpwd = {id \in Id : UnpwdCheck(db'.unpwd, id)}
  BY <1>2, <1>3
<1>7. InForce' = [Means(f) EXCEPT !.patterns = p \cup o]
  <2> DEFINE all == p \cup o
  <2>1. InForce' = [unpwd |-> u, list |-> l, patterns |-> all]
    BY <1>2, <1>3
  <2>2. [Means(f) EXCEPT !.patterns = all] = [unpwd |-> u, list |-> l, patterns |-> all]
    <3> HIDE DEF u, l, p, all, Means
    <3> QED
      BY ONLY <1>1
  <2> HIDE DEF all, InForce
  <2> QED
    BY ONLY <2>1, <2>2 DEF all
<1>8. [Means(f) EXCEPT !.patterns = @ \cup IF DOMAIN InForce.list = {} THEN InForce.patterns ELSE {}]
      = [Means(f) EXCEPT !.patterns = p \cup o]
  <2> HIDE DEF u, l
  <2> QED
    BY <1>4
<1> QED
  BY <1>5, <1>6, <1>7, <1>8

LEMMA ReloadStep ==
  ASSUME SInv, IInv', NEW f \in Files, Reload(f)
  PROVE  Calm(db') /\ Means(f) \in Range(Meaning) /\ Promise!Reload(Means(f)) /\ db'.published = db.published
<1> DEFINE S == Sess(db)
           out == {j \in DOMAIN S : S[j].online /\ j \notin InForce'.unpwd}
           gone == {i \in out : ~S[i].durable}
           g == [j \in DOMAIN S \ gone |->
                   IF j \in out THEN [S[j] EXCEPT !.online = FALSE, !.will = 0] ELSE S[j]]
<1>1. /\ Calm(db') /\ db'.published = db.published /\ DOMAIN db'.heap = DOMAIN db.heap
      /\ db'.unpwd = UnpwdFileParse(f.passwords) /\ db'.acl_list = Means(f).list
      /\ db'.acl_patterns = Means(f).patterns \cup (IF DOMAIN db.acl_list = {} THEN db.acl_patterns ELSE {})
      /\ \A e \in DOMAIN db.heap :
           LET x == db.heap[e]
               y == db'.heap[e]
           IN  IF x.id = NoId THEN y.id = NoId
               ELSE IF UnpwdCheck(db'.unpwd, x.id) THEN y.id = x.id /\ See(y) = See(x)
               ELSE /\ y.id = IF x.wsi \/ ~x.clean_session THEN x.id ELSE NoId
                    /\ ~y.open /\ (x.wsi \/ y.will = 0) /\ y.clean_session = x.clean_session
                    /\ y.sub = x.sub /\ y.msgs = x.msgs /\ y.deaf = x.deaf
  BY ReloadExact
<1>2. /\ Means(f) \in Range(Meaning)
      /\ InForce' = [Means(f) EXCEPT !.patterns = @ \cup IF DOMAIN InForce.list = {} THEN InForce.patterns ELSE {}]
      /\ \A id \in Id : id \in InForce'.unpwd <=> UnpwdCheck(db'.unpwd, id)
  BY <1>1, ReloadForce
<1>3. Good(db) /\ Loose(db) /\ Loose(db') /\ NoId \notin Own /\ Own \subseteq Id /\ AllOrderly(db)
  BY IdAssumption DEF SInv, Calm, IInv, Good, Own
<1> HIDE DEF InForce
<1>4. /\ DOMAIN g = DOMAIN S \ gone /\ g = [j \in DOMAIN g |-> g[j]]
      /\ \A j \in DOMAIN S \ gone :
           g[j] = IF j \in out THEN [S[j] EXCEPT !.online = FALSE, !.will = 0] ELSE S[j]
  <2> HIDE DEF S, out, gone
  <2> QED
    OBVIOUS
<1> HIDE DEF g
<1>5. ASSUME NEW e \in DOMAIN db.heap, db.heap[e].id \in Own
      PROVE  LET j == db.heap[e].id
             IN  /\ j \in DOMAIN S
                 /\ j \notin gone => db'.heap[e].id = j /\ g[j] = See(db'.heap[e])
                 /\ j \in gone => db'.heap[e].id = NoId
  <2> DEFINE x == db.heap[e]
             y == db'.heap[e]
             j == x.id
  <2>1. j # NoId /\ j \in Id /\ ~x.wsi /\ j \in DOMAIN S /\ S[j] = See(x)
    BY <1>3, <1>5, OwnFacts, SessFacts
  <2>2. See(x).online = x.open /\ See(x).durable = ~x.clean_session
    BY DEF See
  <2>3. x \in Ctx /\ y \in Ctx
    BY <1>1, <1>3, ContextType DEF Loose
  <2>4. j \in out <=> x.open /\ ~UnpwdCheck(db'.unpwd, j)
    BY <1>2, <2>1, <2>2
  <2>5. j \in gone <=> j \in out /\ x.clean_session
    BY <2>1, <2>2, <2>3 DEF Ctx
  <2> HIDE DEF S, out, gone
  <2>6. CASE UnpwdCheck(db'.unpwd, j)
    BY <1>1, <1>4, <2>1, <2>4, <2>5, <2>6
  <2>7. CASE ~UnpwdCheck(db'.unpwd, j)
    <3>1. /\ y.id = IF ~x.clean_session THEN j ELSE NoId
          /\ y.open = FALSE /\ y.will = 0 /\ y.clean_session = x.clean_session
          /\ y.sub = x.sub /\ y.msgs = x.msgs /\ y.deaf = x.deaf
      BY <1>1, <2>1, <2>3, <2>7 DEF Ctx
    <3>2. CASE x.open /\ x.clean_session
      BY <2>1, <2>4, <2>5, <2>7, <3>1, <3>2
    <3>3. CASE x.open /\ ~x.clean_session
      <4>1. See(y) = [See(x) EXCEPT !.online = y.open, !.will = 0]
        BY <3>1, SeenEnd
      <4> HIDE DEF See, x, y, j
      <4>2. See(y) = [S[j] EXCEPT !.online = FALSE, !.will = 0]
        BY <2>1, <3>1, <4>1, Zenon
      <4>3. j \in out /\ j \notin gone
        BY <2>4, <2>5, <2>7, <3>3
      <4>4. g[j] = [S[j] EXCEPT !.online = FALSE, !.will = 0]
        BY <1>4, <2>1, <4>3
      <4>5. y.id = j /\ g[j] = See(y) /\ j \in DOMAIN S /\ j \notin gone
        BY <2>1, <3>1, <3>3, <4>2, <4>3, <4>4
      <4> QED
        BY <4>5 DEF x, y, j
    <3>4. CASE ~x.open
      <4>1. ~x.clean_session /\ x.will = 0
        <5>1. Orderly(x) /\ Owned(db, e)
          BY <1>3 DEF AllOrderly, Good
        <5> QED
          BY <2>1, <3>4, <5>1 DEF Orderly, Owned
      <4>2. See(y) = See(x)
        BY <2>3, <3>1, <3>4, <4>1 DEF See, Ctx
      <4>3. j \notin out /\ j \notin gone
        BY <2>4, <2>5, <3>4
      <4> HIDE DEF See
      <4> QED
        BY <1>4, <2>1, <3>1, <4>1, <4>2, <4>3
    <3> QED
      BY <3>2, <3>3, <3>4
  <2> QED
    BY <2>6, <2>7
<1>6. ASSUME NEW j \in DOMAIN g
      PROVE  j \in Own /\ \E e \in DOMAIN db'.heap : db'.heap[e].id = j
  <2>1. j \in DOMAIN S /\ j \notin gone
    BY <1>4
  <2>2. j \in Own /\ \E e \in DOMAIN db.heap : db.heap[e].id = j
    BY <1>3, <2>1, SessFacts
  <2> QED
    BY <1>1, <1>5, <2>1, <2>2
<1>7. ASSUME NEW e \in DOMAIN db'.heap, db'.heap[e].id \in Own
      PROVE  db'.heap[e].id \in DOMAIN g /\ g[db'.heap[e].id] = See(db'.heap[e])
  <2>1. e \in DOMAIN db.heap /\ db'.heap[e].id = db.heap[e].id
    BY <1>1, <1>3, <1>7
  <2>2. db.heap[e].id \notin gone
    BY <1>3, <1>5, <1>7, <2>1
  <2> QED
    BY <1>4, <1>5, <1>7, <2>1, <2>2
<1>8. Sess(db') = g
  <2> HIDE DEF S, out, gone
  <2> QED
    BY ONLY <1>3, <1>4, <1>6, <1>7, SessIs
<1>9. Promise!Reload(Means(f))
  <2>1. SessionMap = S /\ SessionMap' = g
    BY <1>8, SessionMapIs
  <2>2. InForce' = [Means(f) EXCEPT !.patterns = @ \cup IF DOMAIN InForce.list = {} THEN InForce.patterns ELSE {}]
    BY <1>2
  <2>3. SessionMap' = [j \in DOMAIN S \ gone |->
                         IF j \in out THEN [S[j] EXCEPT !.online = FALSE, !.will = 0] ELSE S[j]]
    BY <2>1 DEF g
  <2> HIDE DEF SessionMap, S, Means
  <2>4. LET o == {j \in DOMAIN SessionMap : SessionMap[j].online /\ j \notin InForce'.unpwd}
        IN  SessionMap' = [j \in DOMAIN SessionMap \ {i \in o : ~SessionMap[i].durable} |->
                       IF j \in o THEN [SessionMap[j] EXCEPT !.online = FALSE, !.will = 0] ELSE SessionMap[j]]
    BY <2>1, <2>3
  <2> QED
    BY <1>1, <2>2, <2>4 DEF Promise!Reload
<1> QED
  BY <1>1, <1>2, <1>9

\* What a takeover leaves of the two contexts; the will of the old one is given up.
Succeeds(d, k, c, old, continued) ==
  LET x == d.heap[old]
      y == k.heap[old]
      v == d.heap[c]
      u == k.heap[c]
  IN  /\ SameFiles(d, k) /\ k.published = d.published
      /\ \A e \in DOMAIN d.heap : e # c /\ e # old => k.heap[e] = d.heap[e]
      /\ ~y.open /\ y.wsi = x.wsi /\ y.id = IF x.wsi THEN x.id ELSE NoId
      /\ y.will = IF x.wsi THEN x.will ELSE 0
      /\ y.acl = x.acl /\ y.state # "new"
      /\ u.deaf = v.deaf /\ u.msgs = IF continued THEN x.msgs ELSE v.msgs

LEMMA TakeoverExact ==
  ASSUME NEW d, Good(d), NEW c \in DOMAIN d.heap, NEW old \in DOMAIN d.heap, c # old,
         ~d.heap[c].sub, d.heap[old].id # NoId, NEW clean \in BOOLEAN,
         NEW k, k = Takeover(d, c, old, clean)
  PROVE  Succeeds(d, k, c, old, ~clean /\ ~d.heap[old].clean_session)
<1> DEFINE continued == ~clean /\ ~d.heap[old].clean_session
           x == d.heap[old]
<1>0. EndedBy(d, k, c, old, continued)
  BY TakeoverParts
<1>14. continued \in BOOLEAN
  OBVIOUS
<1> HIDE DEF continued
<1>1. PICK m \in Db, z \in Ctx :
        /\ TakenOver(d, m, c, old, continued)
        /\ Marked(m.heap[old], z) /\ z.clean_session /\ z.wsi = m.heap[old].wsi
        /\ z.state = "disconnecting" /\ z.acl = m.heap[old].acl
        /\ k = DoDisconnect([m EXCEPT !.heap = [m.heap EXCEPT ![old] = z]], old)
  BY <1>0 DEF EndedBy
<1> DEFINE n == [m EXCEPT !.heap = [m.heap EXCEPT ![old] = z]]
<1>2. /\ Good(m) /\ old \in DOMAIN m.heap /\ c \in DOMAIN m.heap /\ DOMAIN m.heap = DOMAIN d.heap
      /\ Kept(x, m.heap[old])
  BY <1>1 DEF TakenOver, Alike
<1>3. old \notin Range(m.ll_for_free)
  BY <1>2, ContextType DEF Good, Owned, Kept, Loose, Fit
<1>4. Closable(n, old) /\ SameFiles(m, n) /\ n.heap[old] = z
  BY <1>1, <1>2, <1>3, MarkClosable
<1>5. Apart(m, n, old)
  BY <1>1, <1>2, AlterExact
<1>6. k = DoDisconnect(n, old)
  BY <1>1
<1> HIDE DEF n
<1>7. Quit(n, n, k, old)
  <2>1. (IF n.heap[old].wsi THEN n ELSE AfterWill(n, old)) = n
    BY <1>1, <1>4 DEF AfterWill
  <2>2. Quit(n, IF n.heap[old].wsi THEN n ELSE AfterWill(n, old), k, old)
    BY <1>4, <1>6, QuitFacts DEF Closable
  <2> QED
    BY <2>1, <2>2
<1>8. SameFiles(d, k) /\ k.published = d.published
  BY <1>1, <1>4, <1>5, <1>7 DEF TakenOver, Quit, Apart, SameFiles
<1>9. \A e \in DOMAIN d.heap : e # old => k.heap[e] = m.heap[e]
  BY <1>2, <1>5, <1>7 DEF Quit, Apart
<1>10. LET y == k.heap[old]
       IN  /\ ~y.open /\ y.wsi = x.wsi /\ y.id = IF x.wsi THEN x.id ELSE NoId
           /\ y.will = IF x.wsi THEN x.will ELSE 0
           /\ y.acl = x.acl /\ y.state # "new"
  BY <1>1, <1>2, <1>4, <1>7 DEF Quit, Shown, Marked, Kept, TakenOver
<1>11. \A e \in DOMAIN d.heap : e # c /\ e # old => k.heap[e] = d.heap[e]
  BY <1>1, <1>9 DEF TakenOver
<1>12. LET u == k.heap[c] IN u.deaf = d.heap[c].deaf /\ u.msgs = IF continued THEN x.msgs ELSE d.heap[c].msgs
  BY <1>1, <1>9 DEF TakenOver
<1>13. Succeeds(d, k, c, old, continued)
  BY <1>8, <1>10, <1>11, <1>12 DEF Succeeds
<1> QED
  BY <1>13 DEF continued

\* Where the identifier comes from: nowhere, or a context that has lost it or is a websocket.
Turned(d, m, c, id, s, b) ==
  /\ SameFiles(d, m) /\ m.published = d.published
  /\ m.heap[c].msgs = s /\ ~m.heap[c].deaf /\ (m.heap[c].sub <=> b)
  /\ \A e \in DOMAIN d.heap : e # c =>
       \/ m.heap[e] = d.heap[e]
       \/ LET x == d.heap[e]
              y == m.heap[e]
          IN  /\ x.id = id /\ y.id \in {id, NoId} /\ y.will \in {x.will, 0}
              /\ y.id = NoId => y.will = 0
              /\ y.acl = x.acl /\ y.state # "new" /\ Orderly(y)

\* what an identifier has left for its next connection
Remains(d, id, clean) ==
  id \in DOMAIN Sess(d) /\ Sess(d)[id].durable /\ ~clean

TurnedInto(m, c, id, clean, s, b) ==
  /\ b \in BOOLEAN /\ Turned(db, m, c, id, s, b)
  /\ id \in Own => /\ s = IF Remains(db, id, clean) THEN Sess(db)[id].inbox ELSE <<>>
                   /\ b <=> Remains(db, id, clean) /\ Sess(db)[id].subscribed

LEMMA TurnedFacts ==
  ASSUME SInv, NEW c \in DOMAIN db.heap, NEW id \in Id, NEW clean \in BOOLEAN,
         db.heap[c].state = "new",
         NEW m, m = IF Found(db, id) = <<>> THEN db ELSE Takeover(db, c, Found(db, id)[1], clean)
  PROVE  \E s, b : TurnedInto(m, c, id, clean, s, b)
<1> DEFINE old == Found(db, id)
           v == db.heap[c]
<1>1. /\ Good(db) /\ Loose(db) /\ Fresh(db) /\ Fair(db) /\ AllOrderly(db) /\ id # NoId /\ v \in Ctx
      /\ v.id = NoId /\ ~v.sub /\ v.msgs = <<>> /\ ~v.deaf
  <2>1. Good(db) /\ Loose(db) /\ Fresh(db) /\ Fair(db) /\ AllOrderly(db) /\ id # NoId
    BY IdAssumption DEF SInv, IInv, Good, Calm
  <2>2. v \in Ctx /\ Fit(db, c)
    BY <2>1, ContextType DEF Loose
  <2> QED
    BY <2>1, <2>2 DEF Fit, Fresh, Fair, Blank
<1>2. /\ Range(old) = {e \in DOMAIN db.heap : db.heap[e].id = id}
      /\ old # <<>> => old[1] \in Range(old)
  BY <1>1, FoundFacts
<1>3. id \in Own => (id \in DOMAIN Sess(db) <=> old # <<>>)
  <2> HIDE DEF old
  <2>1. old = <<>> => Range(old) = {}
    BY DEF Range
  <2>2. id \in DOMAIN Sess(db) => \E e \in DOMAIN db.heap : db.heap[e].id = id
    BY <1>1, SessFacts
  <2>3. id \in Own => \A e \in DOMAIN db.heap : db.heap[e].id = id => id \in DOMAIN Sess(db)
    BY <1>1, SessFacts
  <2> QED
    BY <1>2, <2>1, <2>2, <2>3
<1> HIDE DEF old
<1>4. CASE old = <<>>
  <2>1. m = db
    BY <1>4 DEF old
  <2>2. Turned(db, m, c, id, <<>>, FALSE)
    BY <1>1, <2>1 DEF Turned, SameFiles
  <2>3. id \in Own => ~Remains(db, id, clean)
    BY <1>3, <1>4 DEF Remains
  <2> QED
    BY <2>2, <2>3 DEF TurnedInto
<1>5. CASE old # <<>>
  <2> DEFINE o == old[1]
             x == db.heap[o]
             y == m.heap[o]
             continued == ~clean /\ ~x.clean_session
             s == IF continued THEN x.msgs ELSE <<>>
             b == continued /\ x.sub
  <2>1. o \in DOMAIN db.heap /\ x.id = id /\ c # o
    BY <1>1, <1>2, <1>5
  <2>2. m = Takeover(db, c, o, clean)
    BY <1>5 DEF old
  <2> HIDE DEF o
  <2>3. Succeeds(db, m, c, o, continued) /\ Taken(db, m, c, o, continued)
    BY <1>1, <2>1, <2>2, TakeoverExact, TakeoverGood
  <2> HIDE DEF continued
  <2>4. m.heap[c].msgs = s /\ ~m.heap[c].deaf /\ (m.heap[c].sub <=> b)
    BY <1>1, <2>3 DEF Succeeds, Taken
  <2>5. /\ y.id \in {id, NoId} /\ y.will \in {x.will, 0} /\ (y.id = NoId => y.will = 0)
        /\ y.acl = x.acl /\ y.state # "new" /\ Orderly(y)
    BY <1>1, <2>1, <2>3 DEF Succeeds, Orderly
  <2>6. Turned(db, m, c, id, s, b)
    <3> HIDE DEF s, b
    <3> QED
      BY <2>1, <2>3, <2>4, <2>5 DEF Turned, Succeeds
  <2>7. ASSUME id \in Own
        PROVE  /\ s = IF Remains(db, id, clean) THEN Sess(db)[id].inbox ELSE <<>>
               /\ b <=> Remains(db, id, clean) /\ Sess(db)[id].subscribed
    <3>1. id \in DOMAIN Sess(db) /\ Sess(db)[id] = See(x)
      BY <1>1, <2>1, <2>7, SessFacts
    <3>2. See(x).durable = ~x.clean_session /\ See(x).inbox = x.msgs /\ See(x).subscribed = x.sub
      BY DEF See
    <3>3. Remains(db, id, clean) <=> continued
      BY <3>1, <3>2 DEF Remains, continued
    <3> HIDE DEF See, Sess
    <3> QED
      BY <3>1, <3>2, <3>3
  <2>8. b \in BOOLEAN
    <3>1. x.sub \in BOOLEAN
      BY <1>1, <2>1, ContextType DEF Loose, Ctx
    <3> HIDE DEF x
    <3> QED
      BY <3>1
  <2>9. TurnedInto(m, c, id, clean, s, b)
    <3> HIDE DEF s, b
    <3> QED
      BY <2>6, <2>7, <2>8 DEF TurnedInto
  <2> QED
    BY <2>9
<1> QED
  BY <1>4, <1>5

LEMMA HandleConnectStep ==
  ASSUME SInv, IInv', NEW c \in DOMAIN db.heap, NEW id \in Id, NEW clean \in BOOLEAN, NEW will \in BOOLEAN,
         HandleConnect(c, id, clean, will)
  PROVE  /\ Calm(db') /\ Serves /\ db'.published = db.published
         /\ IF id \in Own THEN Promise!Arrive(id, clean, IF will THEN db.made + 1 ELSE 0)
            ELSE UNCHANGED Promise!abstract
<1> DEFINE m == IF Found(db, id) = <<>> THEN db ELSE Takeover(db, c, Found(db, id)[1], clean)
           w == IF will THEN db.made + 1 ELSE 0
           a == Entry(m, id)
           g == Given(m, c, w, a, id, clean)
           y == db'.heap[c]
<1>1. /\ db' = [AclPass(g, c) EXCEPT !.by_id = <<c>> \o @]
      /\ granted' = IF Found(db, id) # <<>> /\ ~clean /\ ~db.heap[Found(db, id)[1]].clean_session
                    THEN granted ELSE granted \ {id}
      /\ db.heap[c].state = "new" /\ db.heap[c].open /\ (db.heap[c].kind = "ws" => id \in WsId)
      /\ UnpwdCheck(db.unpwd, id) /\ db.made < MaxConn
  BY DEF HandleConnect, Given
<1>2. /\ db.heap[c].id = NoId /\ ~db.heap[c].sub /\ IInv /\ Good(db) /\ Loose(db) /\ Loose(db')
      /\ Fair(db) /\ RightsIn(db) /\ AllOrderly(db) /\ db.made \in Nat /\ id # NoId /\ NoId \notin Own
  <2>1. IInv /\ Good(db) /\ Loose(db) /\ Loose(db') /\ Fair(db) /\ RightsIn(db) /\ AllOrderly(db) /\ Fresh(db)
    BY DEF SInv, Calm, IInv, Good
  <2>2. id # NoId /\ NoId \notin Own
    BY IdAssumption DEF Own
  <2>3. db.made \in Nat
    BY <2>1 DEF Loose, Db
  <2>4. Fit(db, c)
    BY <2>1 DEF Loose
  <2>5. db.heap[c].id = NoId
    BY <1>1, <2>4 DEF Fit
  <2>6. ~db.heap[c].sub
    BY <1>1, <2>1 DEF Fresh
  <2> QED
    BY <2>1, <2>2, <2>3, <2>5, <2>6
<1>3. Ready(db, m, c, id, granted, granted')
  <2> DEFINE old == Found(db, id)
  <2>1. old = Found(db, id) /\ m = IF old = <<>> THEN db ELSE Takeover(db, c, old[1], clean)
    OBVIOUS
  <2>2. granted' = IF old # <<>> /\ ~clean /\ ~db.heap[old[1]].clean_session
                    THEN granted ELSE granted \ {id}
    BY <1>1
  <2> HIDE DEF old, m
  <2> QED
    BY <1>1, <1>2, <2>1, <2>2, ReadyFacts
<1>4. PICK s, b : TurnedInto(m, c, id, clean, s, b)
  <2>1. m = IF Found(db, id) = <<>> THEN db ELSE Takeover(db, c, Found(db, id)[1], clean)
    OBVIOUS
  <2> HIDE DEF m
  <2> QED
    BY ONLY SInv, c \in DOMAIN db.heap, id \in Id, clean \in BOOLEAN, <1>1, <2>1, TurnedFacts
<1>4a. /\ b \in BOOLEAN /\ Turned(db, m, c, id, s, b)
       /\ id \in Own => /\ s = IF Remains(db, id, clean) THEN Sess(db)[id].inbox ELSE <<>>
                        /\ b <=> Remains(db, id, clean) /\ Sess(db)[id].subscribed
  BY <1>4 DEF TurnedInto
<1> HIDE DEF m
<1>5. /\ m \in Db /\ Good(m) /\ c \in DOMAIN m.heap /\ db.made = m.made /\ DOMAIN m.heap = DOMAIN db.heap
      /\ m.heap[c].open
  BY <1>1, <1>3 DEF Ready, Kept, Good, Loose
<1>6. w \in 0..m.made + 1
  BY <1>2, <1>5
<1>7. a \in SUBSET Right
  BY <1>5 DEF Entry, Db, Rights, NoAcl
<1>8. a = Entry(m, id) /\ (w = 0 \/ w = db.made + 1)
  OBVIOUS
<1> HIDE DEF w, a
<1>9. Named(m, db', c, id) /\ Answered(m, db', c, w, a, clean)
  <2>1. g = Given(m, c, w, a, id, clean)
    OBVIOUS
  <2>2. db' = [AclPass(g, c) EXCEPT !.by_id = <<c>> \o @]
    BY <1>1
  <2> HIDE DEF g
  <2> QED
    BY ONLY <1>5, <1>6, <1>7, <2>1, <2>2, id \in Id, clean \in BOOLEAN, NamedFacts
<1> HIDE DEF g
<1>10. /\ SameFiles(db, db') /\ db'.published = db.published /\ db'.made = db.made + 1
       /\ DOMAIN db'.heap = DOMAIN db.heap
       /\ y.will = w /\ y.acl = a /\ y.clean_session = clean /\ y.open /\ y.id = id /\ y.state = "connected"
       /\ y.sub <=> b
       /\ s = <<>> \/ AclCheck(db', c, "read") => y.msgs = s /\ ~y.deaf
       /\ s # <<>> /\ ~AclCheck(db', c, "read") => y.msgs = <<>> /\ y.deaf
  BY <1>4a, <1>5, <1>9 DEF Named, Answered, Turned, SameFiles
<1>11. ASSUME NEW e \in DOMAIN db.heap, e # c
       PROVE  \/ db'.heap[e] = db.heap[e]
              \/ LET p == db.heap[e]
                     q == db'.heap[e]
                 IN  /\ p.id = id /\ q.id \in {id, NoId} /\ q.will \in {p.will, 0}
                     /\ q.id = NoId => q.will = 0
                     /\ q.acl = p.acl /\ q.state # "new" /\ Orderly(q)
  <2>1. db'.heap[e] = m.heap[e]
    BY <1>5, <1>9, <1>11 DEF Named
  <2> QED
    BY <1>4a, <1>11, <2>1 DEF Turned
<1>12. Calm(db')
  <2>1. ASSUME NEW e \in DOMAIN db'.heap, e # c
        PROVE  /\ db'.heap[e].id \in {db.heap[e].id, NoId} /\ db'.heap[e].will \in {db.heap[e].will, 0}
               /\ db'.heap[e].id = NoId => db'.heap[e].will = 0
               /\ db'.heap[e].acl = db.heap[e].acl /\ Orderly(db'.heap[e])
               /\ db'.heap[e].state = "new" => db'.heap[e] = db.heap[e]
               /\ db'.heap[e].will \in Nat /\ db'.heap[e].will <= db.made
    <3>1. /\ e \in DOMAIN db.heap /\ (db.heap[e].id = NoId => db.heap[e].will = 0) /\ Orderly(db.heap[e])
          /\ db.heap[e].will \in Nat /\ db.heap[e].will <= db.made
      BY <1>2, <1>10, ContextType DEF Fair, WillsOnce, AllOrderly, Loose, Fit, Ctx
    <3>2. 0 <= db.made
      BY <1>2
    <3> QED
      BY <1>11, <2>1, <3>1, <3>2
  <2>2. WillsOnce(db')
    <3>1. ASSUME NEW e \in DOMAIN db'.heap, e # c
          PROVE  w # 0 => db'.heap[e].will # w
      BY <1>2, <1>8, <2>1, <3>1
    <3>2. ASSUME NEW e \in DOMAIN db'.heap, NEW h \in DOMAIN db'.heap, e # h, db'.heap[e].will # 0
          PROVE  db'.heap[h].will # db'.heap[e].will
      <4>1. CASE e = c
        BY <1>10, <3>1, <3>2, <4>1
      <4>2. CASE h = c
        BY <1>10, <3>1, <3>2, <4>2
      <4>3. CASE e # c /\ h # c
        BY <1>2, <1>10, <2>1, <3>2, <4>3 DEF Fair, WillsOnce
      <4> QED
        BY <4>1, <4>2, <4>3
    <3>3. \A e \in DOMAIN db'.heap : db'.heap[e].id = NoId => db'.heap[e].will = 0
      BY <1>2, <1>10, <2>1
    <3> QED
      BY <3>2, <3>3 DEF WillsOnce
  <2>3. Blank(db')
    BY <1>2, <1>10, <2>1 DEF Fair, Blank
  <2>4. RightsIn(db')
    <3>1. ASSUME NEW e \in DOMAIN db'.heap, db'.heap[e].id # NoId
          PROVE  db'.heap[e].acl = RightsOf(db', db'.heap[e].id)
      <4>1. CASE e = c
        BY <1>1, <1>4a, <1>8, <1>10, <4>1 DEF RightsOf, Entry, SameFiles, Turned
      <4>2. CASE e # c
        <5>1. RightsOf(db', db.heap[e].id) = RightsOf(db, db.heap[e].id)
          BY <1>10, SameRights
        <5> QED
          BY <1>2, <1>10, <2>1, <3>1, <4>2, <5>1 DEF RightsIn
      <4> QED
        BY <4>1, <4>2
    <3> QED
      BY <3>1 DEF RightsIn
  <2>5. AllOrderly(db')
    BY <1>10, <2>1 DEF AllOrderly, Orderly
  <2>6. db'.made <= MaxConn
    BY <1>1, <1>2, <1>10, ClientAssumption
  <2> QED
    BY <2>2, <2>3, <2>4, <2>5, <2>6 DEF Calm, Fair
<1>13. \A e \in DOMAIN db'.heap : e # c /\ id \notin WsId => db'.heap[e].id # id
  <2>1. \A e \in DOMAIN m.heap : id \notin WsId => m.heap[e].id # id
    BY <1>3 DEF Ready
  <2> QED
    BY <1>5, <1>9, <2>1 DEF Named
<1>14. CASE id \notin Own
  <2>1. SeenAs(db, db', {})
    BY <1>2, <1>10, <1>11, <1>14 DEF SeenAs
  <2>2. UNCHANGED Promise!abstract
    BY <1>2, <1>10, <2>1, SeenSame, Stutters
  <2> QED
    BY <1>10, <1>12, <1>14, <2>2 DEF Serves
<1>15. CASE id \in Own
  <2> DEFINE r == [online |-> TRUE, durable |-> ~clean, will |-> w, inbox |-> IF Promise!May(id, "read") THEN s ELSE <<>>,
                   deaf |-> (IF Promise!May(id, "read") THEN s ELSE <<>>) # s, subscribed |-> b]
             h == Put(Sess(db), id, r)
  <2>0. b \in BOOLEAN
    BY <1>4a
  <2>1. See(y) = r
    <3>1. AclCheck(db', c, "read") <=> Promise!May(id, "read")
      <4>1. AclCheck(db', c, "read") <=> MayIn(db', id, "read")
        BY <1>2, <1>10, <1>12, CheckIs DEF Calm
      <4> QED
        BY <1>10, <4>1, MaySame, MayIs
    <3>2. y \in Ctx
      BY <1>2, <1>10, ContextType DEF Loose
    <3> DEFINE in == IF Promise!May(id, "read") THEN s ELSE <<>>
               df == in # s
               dr == ~clean
               yc == ~y.clean_session
    <3>3. See(y) = [online |-> y.open, durable |-> yc, subscribed |-> y.sub,
                    will |-> y.will, inbox |-> y.msgs, deaf |-> y.deaf]
      BY DEF See
    <3>4. r = [online |-> TRUE, durable |-> dr, will |-> w, inbox |-> in, deaf |-> df, subscribed |-> b]
      OBVIOUS
    <3>5. y.open = TRUE /\ y.sub = b /\ y.will = w /\ yc = dr
      <4>1. y.open \in BOOLEAN /\ y.sub \in BOOLEAN
        BY <3>2 DEF Ctx
      <4> HIDE DEF y
      <4> QED
        BY <1>10, <2>0, <4>1
    <3>6. y.msgs = in
      BY <1>10, <3>1
    <3>7. y.deaf = df
      <4>1. y.deaf \in BOOLEAN
        BY <3>2 DEF Ctx
      <4>2. y.deaf <=> df
        BY <1>10, <3>1
      <4> HIDE DEF y, df
      <4>3. df \in BOOLEAN
        BY DEF df
      <4> QED
        BY <4>1, <4>2, <4>3
    <3> HIDE DEF y, r, in, df, dr, yc, See
    <3> QED
      BY <3>3, <3>4, <3>5, <3>6, <3>7
  <2> HIDE DEF r
  <2>2. /\ DOMAIN h = DOMAIN Sess(db) \cup {id} /\ h = [j \in DOMAIN h |-> h[j]] /\ h[id] = r
        /\ \A j \in DOMAIN Sess(db) : j # id => h[j] = Sess(db)[j]
    <3> HIDE DEF Sess
    <3> QED
      BY DEF Put
  <2> HIDE DEF h
  <2>3. ASSUME NEW j \in DOMAIN h
        PROVE  j \in Own /\ \E e \in DOMAIN db'.heap : db'.heap[e].id = j
    <3>1. CASE j = id
      BY <1>10, <1>15, <3>1
    <3>2. CASE j # id
      <4>1. j \in Own /\ \E e \in DOMAIN db.heap : db.heap[e].id = j
        BY <1>2, <2>2, <2>3, <3>2, SessFacts
      <4>2. PICK e \in DOMAIN db.heap : db.heap[e].id = j
        BY <4>1
      <4>3. e # c
        BY <1>2, <4>1, <4>2
      <4> QED
        BY <1>10, <1>11, <3>2, <4>1, <4>2, <4>3
    <3> QED
      BY <3>1, <3>2
  <2>4. ASSUME NEW e \in DOMAIN db'.heap, db'.heap[e].id \in Own
        PROVE  db'.heap[e].id \in DOMAIN h /\ h[db'.heap[e].id] = See(db'.heap[e])
    <3>1. CASE e = c
      BY <1>10, <2>1, <2>2, <3>1
    <3>2. CASE e # c
      <4>1. e \in DOMAIN db.heap /\ db'.heap[e].id # id
        BY <1>10, <1>13, <1>15, <3>2 DEF Own
      <4>2. db'.heap[e] = db.heap[e]
        BY <1>2, <1>11, <2>4, <3>2, <4>1
      <4> QED
        BY <1>2, <2>2, <2>4, <4>1, <4>2, SessFacts
    <3> QED
      BY <3>1, <3>2
  <2>5. Sess(db') = h
    BY ONLY <1>2, <2>2, <2>3, <2>4, SessIs
  <2>6. SessionMap = Sess(db) /\ SessionMap' = h /\ InForce' = InForce
    BY <1>10, <2>5, SessionMapIs, SameForce
  <2>7. id \in InForce.unpwd
    BY <1>1 DEF InForce
  <2>8. Promise!Arrive(id, clean, w)
    <3> DEFINE kept == id \in DOMAIN SessionMap /\ SessionMap[id].durable /\ ~clean
               old == IF kept THEN SessionMap[id].inbox ELSE <<>>
               inbox == IF Promise!May(id, "read") THEN old ELSE <<>>
               sb == kept /\ SessionMap[id].subscribed
               r1 == [online |-> TRUE, durable |-> ~clean, will |-> w, inbox |-> inbox, deaf |-> inbox # old,
                      subscribed |-> sb]
    <3>1. kept <=> Remains(db, id, clean)
      BY <2>6 DEF Remains
    <3> HIDE DEF Sess, SessionMap, InForce, kept
    <3>2. old = s /\ (b <=> sb)
      BY <1>4a, <1>15, <2>6, <3>1
    <3>3. b = sb
      <4>1. sb \in BOOLEAN
        OBVIOUS
      <4> HIDE DEF sb
      <4> QED
        BY <2>0, <3>2, <4>1
    <3> HIDE DEF old, sb
    <3>4. r1 = r
      BY <3>2, <3>3 DEF r
    <3> HIDE DEF r1
    <3>5. SessionMap' = Put(SessionMap, id, r1)
      BY <2>6, <3>4 DEF h
    <3>6. \A f, x, v : Promise!Put(f, x, v) = Put(f, x, v)
      BY DEF Promise!Put, Put
    <3>7. SessionMap' = Promise!Put(SessionMap, id, r1)
      BY <3>5, <3>6
    <3> HIDE DEF Promise!May
    <3>8. UNCHANGED <<db.published, InForce>>
      BY <1>10, <2>6
    <3> QED
      BY <2>7, <3>7, <3>8 DEF Promise!Arrive, r1, old, kept, sb
  <2>9. w \in 0..MaxConn
    BY <1>1, <1>2, <1>8, ClientAssumption
  <2>10. Promise!Next
    BY <1>15, <2>8, <2>9 DEF Promise!Next, Own
  <2> QED
    BY <1>10, <1>12, <1>15, <2>8, <2>10 DEF Serves, w
<1> QED
  BY <1>14, <1>15

\* What the broker has at the start is what is promised then.
LEMMA InitServes ==
  ASSUME Init
  PROVE  SInv /\ Promise!Init
<1> DEFINE r == [heap |-> <<>>, by_id |-> <<>>, ll_for_free |-> <<>>, leaves |-> <<>>,
                 client_count |-> 0, made |-> 0, published |-> <<>>,
                 unpwd |-> <<>>, acl_list |-> <<>>, acl_patterns |-> {}]
<1>1. file \in Files /\ file \in FileType /\ db = SecurityInit(r, file)
  BY FilesAssumption DEF Init
<1>2. IInv /\ Loose(db)
  BY InitInv DEF IInv, Good
<1>3. r \in Db /\ r.acl_list = <<>> /\ r.acl_patterns = {} /\ r.heap = <<>> /\ r.made = 0 /\ r.published = <<>>
  <2>1. <<>> \in Heaps /\ <<>> \in Rights
    <3>1. <<>> \in [{} -> Ctx] /\ <<>> \in [{} -> SUBSET Right]
      OBVIOUS
    <3> QED
      BY <3>1 DEF Heaps, Rights
  <2>2. /\ <<>> \in Seq(Context) /\ <<>> \in Seq(Nat) /\ <<>> \in Seq(PwLine) /\ {} \in SUBSET Right
        /\ 0 \in Int /\ 0 \in Nat
    OBVIOUS
  <2> QED
    BY <2>1, <2>2 DEF Db
<1> HIDE DEF r
<1>4. /\ db.acl_list = Means(file).list /\ db.acl_patterns = Means(file).patterns
      /\ {id \in Id : UnpwdCheck(db.unpwd, id)} = Means(file).unpwd
      /\ db.heap = <<>> /\ db.made = 0 /\ db.published = <<>>
  <2>1. /\ db.acl_list = Means(file).list /\ db.acl_patterns = Means(file).patterns
        /\ {id \in Id : UnpwdCheck(db.unpwd, id)} = Means(file).unpwd
        /\ db = [r EXCEPT !.unpwd = db.unpwd, !.acl_list = db.acl_list, !.acl_patterns = db.acl_patterns]
    BY <1>1, <1>3, FilesRead
  <2>2. r.heap = db.heap /\ r.made = db.made /\ r.published = db.published
    <3> HIDE DEF Db
    <3>1. r = [heap |-> <<>>, by_id |-> <<>>, ll_for_free |-> <<>>, leaves |-> <<>>,
               client_count |-> 0, made |-> 0, published |-> <<>>,
               unpwd |-> <<>>, acl_list |-> <<>>, acl_patterns |-> {}]
      BY DEF r
    <3> DEFINE u == db.unpwd
               l == db.acl_list
               p == db.acl_patterns
    <3>2. db = [r EXCEPT !.unpwd = u, !.acl_list = l, !.acl_patterns = p]
      BY <2>1
    <3> HIDE DEF u, l, p
    <3> QED
      BY <3>1, <3>2
  <2> QED
    BY <1>3, <2>1, <2>2
<1>5. DOMAIN db.heap = {}
  BY <1>4
<1>6. Calm(db)
  BY <1>4, <1>5, ClientAssumption DEF Calm, Fair, WillsOnce, Blank, RightsIn, AllOrderly
<1>7. SessionMap = <<>>
  <2>1. <<>> = [id \in DOMAIN <<>> |-> <<>>[id]] /\ DOMAIN <<>> = {}
    OBVIOUS
  <2>2. \A f : f = [id \in DOMAIN f |-> f[id]] /\ DOMAIN f = {} => Sess(db) = f
    BY <1>2, <1>5, SessIs
  <2>3. Sess(db) = <<>>
    BY <2>1, <2>2
  <2> QED
    BY <2>3, SessionMapIs
<1>8. InForce \in Range(Meaning)
  <2>1. InForce = Means(file)
    BY <1>4 DEF InForce, Means
  <2> QED
    BY <1>1, <2>1 DEF Range, Meaning
<1> QED
  BY <1>2, <1>4, <1>6, <1>7, <1>8 DEF SInv, Promise!Init

\* Every step of the broker is one of those promised, or is not seen.
LEMMA NextServes ==
  ASSUME SInv, [Next]_vars
  PROVE  SInv' /\ Serves
<1>1. IInv'
  BY NextInv DEF SInv
<1>2. CASE UNCHANGED vars
  <2>1. db' = db
    BY <1>2 DEF vars
  <2>2. Calm(db')
    BY <2>1 DEF SInv
  <2>3. SessionMap' = SessionMap /\ InForce' = InForce
    <3>1. SameFiles(db, db') /\ Sess(db') = Sess(db)
      BY <2>1 DEF SameFiles
    <3> QED
      BY <3>1, SameForce, SessionMapIs
  <2>4. Serves
    BY <2>1, <2>3 DEF Serves, Promise!abstract
  <2> QED
    BY <1>1, <2>2, <2>4 DEF SInv
<1>3. CASE Next
  <2> SUFFICES Calm(db') /\ Serves
    BY <1>1 DEF SInv
  <2>1. CASE Accept
    BY <1>1, <2>1, AcceptStep DEF Serves
  <2>2. CASE WsEstablished
    BY <1>1, <2>2, WsEstablishedStep DEF Serves
  <2>3. CASE FreeDisused
    BY <1>1, <2>3, FreeDisusedStep DEF Serves
  <2>4. ASSUME NEW c \in DOMAIN db.heap,
               \/ \E id \in Id : Refuse(c, id)
                                 \/ \E clean, will \in BOOLEAN : HandleConnect(c, id, clean, will)
               \/ HandleConnectError(c) \/ HandleDisconnect(c) \/ Fail(c) \/ WsClosed(c)
               \/ HandleSubscribe(c) \/ HandleUnsubscribe(c) \/ Sent(c)
        PROVE  Calm(db') /\ Serves
    <3>1. CASE HandleConnectError(c) \/ Fail(c)
      BY <1>1, <3>1, DropStep DEF HandleConnectError, Fail, Step
    <3>2. CASE \E id \in Id : Refuse(c, id)
      BY <1>1, <3>2, RefuseStep
    <3>3. CASE \E id \in Id : \E clean, will \in BOOLEAN : HandleConnect(c, id, clean, will)
      BY <1>1, <3>3, HandleConnectStep
    <3>4. CASE HandleDisconnect(c)
      BY <1>1, <3>4, HandleDisconnectStep
    <3>5. CASE WsClosed(c)
      BY <1>1, <3>5, WsClosedStep
    <3>6. CASE HandleSubscribe(c)
      BY <1>1, <3>6, HandleSubscribeStep
    <3>7. CASE HandleUnsubscribe(c)
      BY <1>1, <3>7, HandleUnsubscribeStep
    <3>8. CASE Sent(c)
      BY <1>1, <3>8, SentStep
    <3> QED
      BY <2>4, <3>1, <3>2, <3>3, <3>4, <3>5, <3>6, <3>7, <3>8
  <2>5. CASE \E old \in SUBSET DOMAIN db.heap : Expire(old)
    <3>1. Calm(db') /\ Promise!Expire
      BY <1>1, <2>5, ExpireStep
    <3> QED
      BY <3>1 DEF Serves, Promise!Next
  <2>6. CASE \E f \in Files : Reload(f)
    <3>1. PICK f \in Files : Reload(f)
      BY <2>6
    <3>2. Calm(db') /\ Means(f) \in Range(Meaning) /\ Promise!Reload(Means(f))
      BY <1>1, <3>1, ReloadStep
    <3> QED
      BY <3>2 DEF Serves, Promise!Next
  <2> QED
    BY <1>3, <2>1, <2>2, <2>3, <2>4, <2>5, <2>6 DEF Next
<1> QED
  BY <1>2, <1>3

\* Each event of the broker is the step that is promised for it.
LEMMA NextAsPromised ==
  ASSUME SInv, Next
  PROVE  AsPromised
<1>1. IInv'
  BY NextInv DEF SInv
<1>2. Own = Id \ WsId
  BY DEF Own
<1>3. ASSUME NEW c \in DOMAIN db.heap, Fail(c)
      PROVE  /\ IF db.heap[c].id \in Own THEN Promise!Failed(db.heap[c].id) \/ Promise!FailedSilently(db.heap[c].id)
                ELSE Promise!Other \/ UNCHANGED Promise!abstract
             /\ db'.published # db.published => db'.published = Append(db.published, db.heap[c].will)
  <2>1. Closes(db.heap[c]) /\ (db.heap[c].id \in Own => db.heap[c].state # "disconnecting")
    BY <1>1, <1>3, DropStep DEF Fail, Step
  <2> QED
    BY <2>1 DEF Closes
<1>4. ASSUME NEW c \in DOMAIN db.heap, db.heap[c].id \in Own
      PROVE  LET id == db.heap[c].id
             IN  /\ HandleDisconnect(c) => Promise!Left(id)
                 /\ Fail(c) => Promise!Failed(id) \/ Promise!FailedSilently(id)
                 /\ HandleSubscribe(c) => Promise!Subscription(id, TRUE)
                 /\ HandleUnsubscribe(c) => Promise!Subscription(id, FALSE)
                 /\ Sent(c) => Promise!Take(id)
  BY <1>1, <1>3, <1>4, HandleDisconnectStep, HandleSubscribeStep, HandleUnsubscribeStep, SentStep
<1>5. ASSUME NEW c \in DOMAIN db.heap, db.heap[c].id \notin Own,
             HandleDisconnect(c) \/ Fail(c) \/ WsClosed(c) \/ HandleSubscribe(c) \/ HandleUnsubscribe(c) \/ Sent(c)
      PROVE  Promise!Other \/ UNCHANGED Promise!abstract
  BY <1>1, <1>3, <1>5, HandleDisconnectStep, WsClosedStep, HandleSubscribeStep, HandleUnsubscribeStep, SentStep
<1>6. ASSUME NEW c \in DOMAIN db.heap, NEW j \in Id, NEW clean \in BOOLEAN, NEW will \in BOOLEAN,
             HandleConnect(c, j, clean, will)
      PROVE  IF j \in Own THEN Promise!Arrive(j, clean, IF will THEN db.made + 1 ELSE 0)
             ELSE UNCHANGED Promise!abstract
  BY <1>1, <1>6, HandleConnectStep
<1>7. (Accept \/ WsEstablished \/ FreeDisused) => UNCHANGED Promise!abstract
  BY <1>1, AcceptStep, WsEstablishedStep, FreeDisusedStep
<1>8. \A old \in SUBSET DOMAIN db.heap : Expire(old) => Promise!Expire
  BY <1>1, ExpireStep
<1>9. \A f \in Files : Reload(f) => Promise!Reload(Means(f))
  BY <1>1, ReloadStep
<1>10. ASSUME db'.published # db.published
       PROVE  \E c \in DOMAIN db.heap : /\ Fail(c) \/ WsClosed(c)
                                        /\ db'.published = Append(db.published, db.heap[c].will)
  <2>1. ~(Accept \/ WsEstablished \/ FreeDisused)
    BY <1>7, <1>10 DEF Promise!abstract
  <2>2. ~(\E old \in SUBSET DOMAIN db.heap : Expire(old)) /\ ~(\E f \in Files : Reload(f))
    BY <1>1, <1>10, ExpireStep, ReloadStep
  <2>3. PICK c \in DOMAIN db.heap :
             \/ \E id \in Id : Refuse(c, id)
                               \/ \E clean, will \in BOOLEAN : HandleConnect(c, id, clean, will)
             \/ HandleConnectError(c) \/ HandleDisconnect(c) \/ Fail(c) \/ WsClosed(c)
             \/ HandleSubscribe(c) \/ HandleUnsubscribe(c) \/ Sent(c)
    BY <2>1, <2>2 DEF Next
  <2>4. ~(\E id \in Id : Refuse(c, id) \/ \E clean, will \in BOOLEAN : HandleConnect(c, id, clean, will))
    BY <1>1, <1>10, RefuseStep, HandleConnectStep
  <2>5. ~(HandleDisconnect(c) \/ HandleSubscribe(c) \/ HandleUnsubscribe(c) \/ Sent(c))
    BY <1>1, <1>10, HandleDisconnectStep, HandleSubscribeStep, HandleUnsubscribeStep, SentStep
  <2>6. HandleConnectError(c) => Fail(c)
    BY DEF HandleConnectError, Fail
  <2>7. CASE Fail(c)
    BY <1>3, <1>10, <2>7
  <2>8. CASE WsClosed(c)
    BY <1>1, <1>10, <2>8, WsClosedStep
  <2> QED
    BY <2>3, <2>4, <2>5, <2>6, <2>7, <2>8
<1> QED
  BY <1>2, <1>4, <1>5, <1>6, <1>7, <1>8, <1>9, <1>10 DEF AsPromised

\* Contexts that are made, marked, taken over, moved and freed keep the promise of one session
\* per client identifier, event by event.  The will of a client of a TCP listener is published if
\* its connection fails and its rights allow it; DISCONNECT, a takeover and a reload give it up
\* (context.c:190).  A durable session survives what ends its connection and hands its messages
\* and subscriptions to the next (read_handle_server.c:435), and rights are those of the files
\* last read.
THEOREM SessionsPromised == Spec => KeepsSessions
<1>1. Init => SInv /\ Promise!Init
  BY InitServes
<1>2. SInv /\ [Next]_vars => SInv' /\ [Promise!Next]_(Promise!abstract) /\ [AsPromised]_vars
  <2>1. ASSUME SInv, [Next]_vars
        PROVE  SInv' /\ Serves
    BY <2>1, NextServes
  <2>2. ASSUME SInv, [Next]_vars
        PROVE  [AsPromised]_vars
    BY <2>2, NextAsPromised
  <2> QED
    BY <2>1, <2>2 DEF Serves
<1> QED
  BY <1>1, <1>2, PTL DEF Spec, KeepsSessions, Promise!Spec
==============================================================================

------------------------------- MODULE Sessions -------------------------------
(***************************************************************************)
(* Connections, contexts and sessions of the broker: a context is made for *)
(* every connection (src/net.c, src/websockets.c), is given an identifier  *)
(* by CONNECT (src/read_handle_server.c), takes over what the context that *)
(* had it before leaves, and is freed by a later pass of the main loop     *)
(* (src/context.c, src/loop.c).  A reload reads the password and ACL files *)
(* again (src/security_default.c).                                         *)
(*                                                                         *)
(* All clients subscribe to one filter, which the topic of the wills       *)
(* matches; the name of a user is the identifier of its client.  A TCP     *)
(* context is closed where the code decides to; a websocket is closed when *)
(* libwebsockets calls back.                                               *)
(***************************************************************************)
EXTENDS SecurityFiles, SequencesExt, ConnectPacket

CONSTANTS
  Context,       \* addresses of contexts
  WsId,          \* the client identifiers that use websockets as well
  Files,         \* what the password and ACL files may hold
  Visits,        \* <<identifier, clean session, will>>: the CONNECTs of clients
  MaxClients,    \* max_connections of the TCP listener
  MaxContexts,   \* bound: contexts in the heap that are not refused at once
  MaxConn,       \* bound: connections that send CONNECT
  MaxReloads     \* bound: reloads

VARIABLES
  db,        \* struct mosquitto_db, and the addresses in use (heap)
  file,      \* what the files hold
  granted,   \* ids whose client was told last that it is subscribed
  reloads

vars == <<db, file, granted, reloads>>

ASSUME IdAssumption    == WsId \subseteq Id /\ NoId \notin Id
ASSUME FilesAssumption == Files \subseteq FileType
ASSUME ClientAssumption == MaxClients \in Nat /\ MaxConn \in Nat
NoAcl == {}
NewContext(kind) ==
  [kind |-> kind, state |-> "new", open |-> TRUE, wsi |-> kind = "ws", listener |-> kind = "tcp",
   id |-> NoId, clean_session |-> TRUE, will |-> 0, msgs |-> <<>>, deaf |-> FALSE,
   sub |-> FALSE, acl |-> NoAcl, timed |-> FALSE]

Drop(f, xs) == [x \in DOMAIN f \ xs |-> f[x]]
Without(s, c) == Those(s, {i \in DOMAIN s : s[i] # c})
Free == Context \ DOMAIN db.heap

------------------------------------------------------------------------------
(* The files. *)

\* an ACL list that is empty is a null pointer, and then _acl_cleanup returns early
AclCleanup(d) ==
  IF DOMAIN d.acl_list = {} THEN d
  ELSE [d EXCEPT !.acl_list = <<>>, !.acl_patterns = {},
                 !.heap = [c \in DOMAIN d.heap |-> IF c \in Range(d.by_id) THEN [d.heap[c] EXCEPT !.acl = NoAcl]
                                                  ELSE d.heap[c]]]

UnpwdCleanup(d) == [d EXCEPT !.unpwd = <<>>]

SecurityCleanup(d) == UnpwdCleanup(AclCleanup(d))

\* after an error in the password file the ACL file is not read
SecurityInit(d, f) ==
  LET p == AclfileParse(d.acl_list, d.acl_patterns, f.acl)
      u == UnpwdFileParse(f.passwords)
  IN  IF UnpwdFileError(f.passwords) THEN [d EXCEPT !.unpwd = u]
      ELSE [d EXCEPT !.unpwd = u, !.acl_list = p.list, !.acl_patterns = p.patterns]

\* whether mosquitto_security_init, without a plugin, returns an error
SecurityError(f) == UnpwdFileError(f.passwords) \/ AclfileParse(<<>>, {}, f.acl).error

\* the entry of the user in the list
Entry(d, id) == IF id \in DOMAIN d.acl_list THEN d.acl_list[id] ELSE NoAcl

AclCheckDefault(d, c, right) ==
  \/ DOMAIN d.acl_list = {} /\ d.acl_patterns = {}
  \/ right \in d.heap[c].acl \cup d.acl_patterns

\* mosquitto_acl_check without a plugin: who has no identifier has no rights
AclCheck(d, c, right) == d.heap[c].id # NoId /\ AclCheckDefault(d, c, right)

------------------------------------------------------------------------------
(* The life of a context. *)

\* mqtt3_db_messages_easy_queue
EasyQueue(d, w) ==
  LET Hears(c) == c \in Range(d.leaves) /\ AclCheck(d, c, "read") /\ ~d.heap[c].deaf
  IN  [d EXCEPT !.published = Append(@, w),
                !.heap = [c \in DOMAIN d.heap |-> IF Hears(c) THEN [d.heap[c] EXCEPT !.msgs = Append(@, w)]
                                                 ELSE d.heap[c]]]

SocketClose(d, c) ==
  LET x == d.heap[c]
  IN  [d EXCEPT !.heap[c].state = IF x.kind = "ws" /\ x.open /\ @ # "disconnecting" THEN "disconnect_ws" ELSE @,
                !.heap[c].open = FALSE,
                !.heap[c].listener = FALSE,
                !.client_count = @ - IF x.listener THEN 1 ELSE 0]

\* Mutant of ContextDisconnect: the will goes out whatever the state
WillAlways(d, c) ==
  LET x == d.heap[c]
      d1 == IF x.will # 0 /\ AclCheck(d, c, "write") THEN EasyQueue(d, x.will) ELSE d
  IN  SocketClose([d1 EXCEPT !.heap[c].will = 0, !.heap[c].timed = TRUE], c)

ContextDisconnect(d, c) ==
  LET x == d.heap[c]
      d1 == IF x.state # "disconnecting" /\ x.will # 0 /\ AclCheck(d, c, "write")
            THEN EasyQueue(d, x.will) ELSE d
  IN  SocketClose([d1 EXCEPT !.heap[c].will = 0, !.heap[c].timed = TRUE], c)

\* Mutant of AddToDisused: the list is not chained
DisusedReplaced(d, c) == [d EXCEPT !.ll_for_free = <<c>>]

AddToDisused(d, c) == [d EXCEPT !.ll_for_free = <<c>> \o @]

DoDisconnect(d, c) ==
  LET x == d.heap[c]
      d1 == ContextDisconnect(d, c)
      d2 == IF x.clean_session
            THEN [AddToDisused(d1, c) EXCEPT !.by_id = Without(@, c), !.heap[c].id = NoId]
            ELSE d1
  IN  IF x.state = "disconnected" THEN d
      ELSE IF x.wsi
      THEN [d EXCEPT !.heap[c].state = IF @ # "disconnecting" THEN "disconnect_ws" ELSE @,
                     !.heap[c].open = FALSE]
      ELSE [d2 EXCEPT !.heap[c].state = "disconnected"]

\* Mutant of ContextCleanup: the leaf stays in the tree
CleanupLeafStays(d, c) ==
  [SocketClose(d, c) EXCEPT !.by_id = Without(@, c), !.heap = Drop(@, {c})]

\* mqtt3_context_cleanup with do_free
ContextCleanup(d, c) ==
  [SocketClose(d, c) EXCEPT !.leaves = IF d.heap[c].sub THEN Without(@, c) ELSE @,
                            !.by_id = Without(@, c),
                            !.heap = Drop(@, {c})]

\* HASH_FIND: of two contexts with one identifier the one added last
Found(d, id) == Those(d.by_id, {i \in DOMAIN d.by_id : d.heap[d.by_id[i]].id = id})

\* Mutant of InheritSubs: the leaves still point to the old context
InheritSubsOnly(d, c, old) ==
  [d EXCEPT !.heap[c].sub = d.heap[old].sub, !.heap[old].sub = FALSE]

\* the subscriptions pass to the new context, and their leaves point to it
InheritSubs(d, c, old) ==
  [d EXCEPT !.heap[c].sub = d.heap[old].sub,
            !.heap[old].sub = FALSE,
            !.leaves = IF d.heap[old].sub
                       THEN [i \in DOMAIN @ |-> IF @[i] = old THEN c ELSE @[i]] ELSE @]

\* a session is continued when neither the old nor the new one is clean
Takeover(d, c, old, clean) ==
  LET continued == ~clean /\ ~d.heap[old].clean_session
      d1 == [d EXCEPT !.heap[c].msgs = d.heap[old].msgs, !.heap[old].msgs = <<>>]
      d2 == IF continued THEN InheritSubs(d1, c, old) ELSE d
  IN  DoDisconnect([d2 EXCEPT !.heap[old].clean_session = TRUE,
                              !.heap[old].state = "disconnecting"], old)

\* what the ACL no longer lets the client read is unlinked, but last_msg still points to it
AclPass(d, c) ==
  IF AclCheck(d, c, "read") \/ d.heap[c].msgs = <<>> THEN d
  ELSE [d EXCEPT !.heap[c].msgs = <<>>, !.heap[c].deaf = TRUE]

------------------------------------------------------------------------------
(* The handlers. *)

Init ==
  /\ file \in Files /\ ~SecurityError(file)
  /\ db = SecurityInit([heap |-> <<>>, by_id |-> <<>>, ll_for_free |-> <<>>, leaves |-> <<>>,
                        client_count |-> 0, made |-> 0, published |-> <<>>,
                        unpwd |-> <<>>, acl_list |-> <<>>, acl_patterns |-> {}], file)
  /\ granted = {}
  /\ reloads = 0

Step(d) == db' = d /\ UNCHANGED <<file, granted, reloads>>

Room == Free # {} /\ Cardinality(DOMAIN db.heap) < MaxContexts

\* the address is that of any freed context
NewAddress == CHOOSE c \in Free : TRUE

Accepted == [db EXCEPT !.client_count = @ + 1, !.heap = Put(@, NewAddress, NewContext("tcp"))]

\* Mutant of Refused: the context is freed, the connection stays counted
RefusedCounted(d, c) == [d EXCEPT !.heap = Drop(@, {c})]

Refused(d, c) == ContextCleanup(d, c)

\* mqtt3_socket_accept
Accept ==
  /\ Free # {}
  /\ IF Accepted.client_count > MaxClients THEN Step(Refused(Accepted, NewAddress))
     ELSE Room /\ Step(Accepted)

\* LWS_CALLBACK_ESTABLISHED
WsEstablished == Room /\ Step([db EXCEPT !.heap = Put(@, NewAddress, NewContext("ws"))])

\* mqtt3_handle_connect of a client with these credentials
HandleConnect(c, id, clean, will) ==
  /\ <<id, clean, will>> \in Visits /\ <<clean, will>> \in AcceptedShapes
  /\ db.heap[c].state = "new" /\ db.heap[c].open
  /\ db.heap[c].kind = "ws" => id \in WsId
  /\ UnpwdCheck(db.unpwd, id)
  /\ db.made < MaxConn
  /\ LET old == Found(db, id)
         d1 == IF old = <<>> THEN db ELSE Takeover(db, c, old[1], clean)
         d2 == [d1 EXCEPT !.made = @ + 1,
                          !.heap[c].will = IF will THEN db.made + 1 ELSE 0,
                          !.heap[c].acl = Entry(d1, id),
                          !.heap[c].id = id,
                          !.heap[c].clean_session = clean,
                          !.heap[c].state = "connected"]
     IN  /\ db' = [AclPass(d2, c) EXCEPT !.by_id = <<c>> \o @]
         /\ granted' = IF old # <<>> /\ ~clean /\ ~db.heap[old[1]].clean_session
                       THEN granted ELSE granted \ {id}
  /\ UNCHANGED <<file, reloads>>

\* a CONNECT that is not accepted for what it says, and a second one: nothing is taken from it
HandleConnectError(c) ==
  /\ db.heap[c].open
  /\ db.heap[c].state # "new" \/ RefusedShapes # {}
  /\ Step(DoDisconnect(db, c))

\* bad credentials: CONNACK, mqtt3_context_disconnect, and do_disconnect for the error returned
Refuse(c, id) ==
  /\ db.heap[c].state = "new" /\ db.heap[c].open
  /\ ~UnpwdCheck(db.unpwd, id)
  /\ Step(DoDisconnect(ContextDisconnect(db, c), c))

\* Mutant of HandleDisconnect: the state says disconnected before the context is
DisconnectedFirst(c) ==
  /\ db.heap[c].id # NoId /\ db.heap[c].open
  /\ Step(DoDisconnect([db EXCEPT !.heap[c].state = "disconnected"], c))

HandleDisconnect(c) ==
  /\ db.heap[c].id # NoId /\ db.heap[c].open
  /\ Step(DoDisconnect([db EXCEPT !.heap[c].state = "disconnecting"], c))

\* a packet that is an error, a write that fails, a keepalive that has passed
Fail(c) == db.heap[c].open /\ Step(DoDisconnect(db, c))

\* libwebsockets goes on calling back a context that waits to be closed
Served(c) == db.heap[c].id # NoId /\ (db.heap[c].open \/ db.heap[c].wsi)

\* _sub_add finds the leaf by the identifier of its context
HandleSubscribe(c) ==
  LET id == db.heap[c].id
      Same(e) == db.heap[e].id = id
  IN  /\ Served(c)
      /\ db' = IF \E e \in Range(db.leaves) : Same(e) THEN db
               ELSE [db EXCEPT !.leaves = Append(@, c), !.heap[c].sub = TRUE]
      /\ granted' = IF db.heap[c].open THEN granted \cup {id} ELSE granted
      /\ UNCHANGED <<file, reloads>>

\* _sub_remove finds it by the context
HandleUnsubscribe(c) ==
  /\ Served(c)
  /\ db' = [db EXCEPT !.leaves = Without(@, c), !.heap[c].sub = FALSE]
  /\ granted' = IF db.heap[c].open THEN granted \ {db.heap[c].id} ELSE granted
  /\ UNCHANGED <<file, reloads>>

\* the first message is written and acknowledged
Sent(c) ==
  /\ Served(c) /\ db.heap[c].open
  /\ db.heap[c].msgs # <<>>
  /\ Step([db EXCEPT !.heap[c].msgs = Tail(@)])

\* LWS_CALLBACK_CLOSED, asked for by the broker or not
WsClosed(c) ==
  /\ db.heap[c].wsi
  /\ Step(DoDisconnect([db EXCEPT !.heap[c].wsi = FALSE], c))

FreeDisused ==
  /\ db.ll_for_free # <<>>
  /\ Step([Each(ContextCleanup, db, db.ll_for_free) EXCEPT !.ll_for_free = <<>>])

\* its clean flag is set, then it goes as if its connection had
ExpireOne(d, c) ==
  DoDisconnect([d EXCEPT !.heap[c].clean_session = TRUE, !.heap[c].state = "expiring"], c)

\* The check of every hour.  The time since disconnect_t is too long for the contexts in
\* old, and for all that never were disconnected: theirs is 0.
Expire(old) ==
  LET idle == {c \in Range(db.by_id) : ~db.heap[c].open /\ ~db.heap[c].clean_session}
      over == Those(db.by_id, {i \in DOMAIN db.by_id :
                                 /\ db.by_id[i] \in idle
                                 /\ db.by_id[i] \in old \/ ~db.heap[db.by_id[i]].timed})
  IN  /\ old \subseteq idle
      /\ over # <<>>
      /\ db' = Each(ExpireOne, db, over)
      /\ granted' = granted \ {db.heap[over[i]].id : i \in DOMAIN over}
      /\ UNCHANGED <<file, reloads>>

\* mosquitto_security_apply_default: who is no longer let in is disconnected
Apply(d, c) ==
  LET id == d.heap[c].id
  IN  IF ~UnpwdCheck(d.unpwd, id) THEN DoDisconnect([d EXCEPT !.heap[c].state = "disconnecting"], c)
      ELSE IF id \in DOMAIN d.acl_list THEN [d EXCEPT !.heap[c].acl = d.acl_list[id]] ELSE d

SecurityApply(d) == Each(Apply, d, d.by_id)

\* flag_reload: an error in the files is ignored
Reload(f) ==
  /\ reloads < MaxReloads
  /\ f # file
  /\ file' = f
  /\ reloads' = reloads + 1
  /\ db' = SecurityApply(SecurityInit(SecurityCleanup(db), f))
  /\ UNCHANGED granted

Next ==
  \/ Accept \/ WsEstablished \/ FreeDisused
  \/ \E c \in DOMAIN db.heap :
       \/ \E id \in Id : Refuse(c, id) \/ \E clean, will \in BOOLEAN : HandleConnect(c, id, clean, will)
       \/ HandleConnectError(c) \/ HandleDisconnect(c) \/ Fail(c) \/ WsClosed(c)
       \/ HandleSubscribe(c) \/ HandleUnsubscribe(c) \/ Sent(c)
  \/ \E old \in SUBSET DOMAIN db.heap : Expire(old)
  \/ \E f \in Files : Reload(f)

\* The main loop frees the disused contexts at the start of every pass, and closes the
\* websockets that do_disconnect asked a writable callback for.
Closing(c) == c \in DOMAIN db.heap /\ db.heap[c].state \in {"disconnecting", "disconnect_ws"} /\ WsClosed(c)

Spec == Init /\ [][Next]_vars /\ WF_vars(FreeDisused) /\ \A c \in Context : WF_vars(Closing(c))
------------------------------------------------------------------------------
\* Every structure has its shape, and every pointer to a context, from the hash of
\* identifiers, the disused list and the leaves of the tree (context.c:118), is to one
\* that is not freed; context->subs and the leaves agree.
TypeOK ==
  /\ Range(db.by_id) \cup Range(db.ll_for_free) \cup Range(db.leaves) \subseteq DOMAIN db.heap
  /\ \A c \in DOMAIN db.heap :
       /\ db.heap[c].id \in Id \cup {NoId}
       /\ db.heap[c].will \in 0..db.made
       /\ db.heap[c].sub <=> c \in Range(db.leaves)
       /\ db.heap[c].id # NoId <=> c \in Range(db.by_id)

\* Nothing leaks and nothing is freed twice (context.c:206): each context is in use by
\* exactly one owner, its connection, the hash that keeps a durable session, or the
\* list of those to be freed, which names it once.
OneOwner ==
  \A c \in DOMAIN db.heap :
    LET x == db.heap[c]
        uses == Cardinality({i \in DOMAIN db.ll_for_free : db.ll_for_free[i] = c})
    IN  /\ uses <= 1
        /\ uses = 1 <=> ~x.open /\ ~x.wsi /\ x.clean_session
        /\ uses = 0 => x.open \/ x.wsi \/ c \in Range(db.by_id)

\* The listener counts the connections it has, refused and failed ones no longer, and
\* has at most max_connections (net.c:116).
CountExact ==
  /\ db.client_count = Cardinality({c \in DOMAIN db.heap : db.heap[c].kind = "tcp" /\ db.heap[c].open})
  /\ db.client_count <= MaxClients

\* What SUBACK granted a client of a TCP listener, over a reconnection too where its
\* session goes on, is in the tree, on a leaf of the context it has now
\* (read_handle_server.c:435), and no other context has its identifier.
GrantsKept ==
  \A id \in Id \ WsId :
    /\ Len(Found(db, id)) <= 1
    /\ id \in granted => \A c \in Range(Found(db, id)) : c \in Range(db.leaves)

SessionOf(id) ==
  LET x == db.heap[Found(db, id)[1]]
  IN  [online |-> x.open, durable |-> ~x.clean_session, subscribed |-> x.sub,
       will |-> x.will, inbox |-> x.msgs, deaf |-> x.deaf]

\* What the files say, read as a whole: whom they let in, what rights some users have and
\* what rights all have.
Rules(lines, word) == {i \in DOMAIN lines : lines[i].word = word /\ \A j \in 1..i : ~Torn(lines[j])}

Heads(lines, i) == {j \in 1..i : lines[j].word = "user"}

UserOf(lines, i) == IF Heads(lines, i) = {} THEN NoId ELSE lines[Max(Heads(lines, i))].name

ListSaid(lines) ==
  [id \in {UserOf(lines, i) : i \in Rules(lines, "topic")} |->
     UNION {Granted(lines[i]) : i \in {j \in Rules(lines, "topic") : UserOf(lines, j) = id}}]

PatternsSaid(lines) == UNION {Granted(lines[i]) : i \in Rules(lines, "pattern")}

LetIn(lines, id) ==
  \/ lines = <<>>
  \/ \E i \in DOMAIN lines :
       /\ lines[i].username = id /\ \A j \in 1..i - 1 : lines[j].username # id
       /\ lines[i].password = "none" \/ (lines[i].password = "theirs" /\ ~Undecoded(lines, i))

Means(f) ==
  LET ignored == UnpwdFileError(f.passwords)
  IN  [unpwd    |-> {id \in Id : LetIn(f.passwords, id)},
       list     |-> IF ignored THEN <<>> ELSE ListSaid(f.acl),
       patterns |-> IF ignored THEN {} ELSE PatternsSaid(f.acl)]

Meaning == [f \in Files |-> Means(f)]

SessionMap == [id \in {j \in Id \ WsId : Found(db, j) # <<>>} |-> SessionOf(id)]

InForce == [unpwd    |-> {id \in Id : UnpwdCheck(db.unpwd, id)},
            list     |-> db.acl_list,
            patterns |-> db.acl_patterns]

Promise == INSTANCE SessionService WITH
  Id <- Id \ WsId,
  Files <- Range(Meaning),
  file <- InForce,
  session <- SessionMap,
  published <- db.published

\* Which promised step each event is, and that no other publishes a will.  Every accepted CONNECT
\* raises made, and every reload is counted.
AsPromised ==
  /\ \A c \in DOMAIN db.heap : LET id == db.heap[c].id IN
       /\ id \in Id \ WsId =>
            /\ HandleDisconnect(c) => Promise!Left(id)
            /\ Fail(c) => Promise!Failed(id) \/ Promise!FailedSilently(id)
            /\ HandleSubscribe(c) => Promise!Subscription(id, TRUE)
            /\ HandleUnsubscribe(c) => Promise!Subscription(id, FALSE)
            /\ Sent(c) => Promise!Take(id)
       /\ id \notin Id \ WsId =>
            ((HandleDisconnect(c) \/ Fail(c) \/ WsClosed(c) \/ HandleSubscribe(c) \/ HandleUnsubscribe(c) \/ Sent(c))
               => Promise!Other \/ UNCHANGED Promise!abstract)
       /\ db'.made # db.made => \A j \in Id, clean, will \in BOOLEAN :
            HandleConnect(c, j, clean, will)
              => IF j \in Id \ WsId THEN Promise!Arrive(j, clean, IF will THEN db.made + 1 ELSE 0)
                 ELSE UNCHANGED Promise!abstract
  /\ (Accept \/ WsEstablished \/ FreeDisused) => UNCHANGED Promise!abstract
  /\ \A old \in SUBSET DOMAIN db.heap : Expire(old) => Promise!Expire
  /\ reloads' # reloads => \A f \in Files : Reload(f) => Promise!Reload(Means(f))
  /\ db'.published # db.published =>
       \E c \in DOMAIN db.heap : /\ Fail(c) \/ WsClosed(c)
                                /\ db'.published = Append(db.published, db.heap[c].will)

\* Contexts that are made, taken over, marked, moved and freed implement one session per
\* identifier.  A will is published when its connection fails, if the client may, and by no other
\* end of it: DISCONNECT, a takeover and a reload give it up (context.c:190).  A durable session
\* survives, and rights are those of the files as last read, and of patterns that a reload left.
\* A reload ends the sessions that are connected and no longer let in (security_default.c:723),
\* although the manual has it that they are not affected (man/mosquitto.conf.5.xml:407).
KeepsSessions == Promise!Spec /\ [][AsPromised]_vars

\* A context that is done for, its clean session ended, is freed (loop.c:115): what a
\* client left behind in the tree and the store does not stay.
Reclaimed ==
  \A c \in Context :
    (c \in DOMAIN db.heap /\ db.heap[c].clean_session /\ db.heap[c].state \notin {"new", "connected"})
      ~> c \notin DOMAIN db.heap
==============================================================================

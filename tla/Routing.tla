------------------------------- MODULE Routing -------------------------------
(***************************************************************************)
(* The broker's database: the subscription tree, the stored messages with  *)
(* their reference counts, the contexts with the references they hold      *)
(* (src/subs.c, src/database.c, the PUBLISH handler of src/read_handle.c), *)
(* and the file it is written to and restored from (src/persist.c).        *)
(*                                                                         *)
(* The state of a message inside a context's queue is ClientMsgs's         *)
(* subject; here a queue is a sequence of references, an outbound message  *)
(* leaves it when it is acknowledged or, with QoS 0, written.              *)
(***************************************************************************)
EXTENDS TopicTree

CONSTANTS
  Client,
  Topics,        \* the topics of the messages published
  Filters,       \* the topics subscribed to
  Wanted,        \* <<client, filter, QoS>>: the subscriptions a client may make
  Session,       \* <<client, clean_session>>: the sessions a client may ask for
  Published,     \* <<topic, QoS, retain, empty>>: the messages published, of QoS 0 and 1
  Published2,    \* <<client, topic, retain>>: those of QoS 2; a denied one has NoTopic
  ReadAcl,       \* <<client, pattern>>: the ACL's entries with read access; {}: there is no ACL
  MaxInflight, MaxQueued,
  MaxId,         \* bound: messages stored in one history of last_db_id
  MaxBacklog,    \* bound: the queue of a client that subscribes
  MaxRestarts    \* bound: restarts of the broker

VARIABLES
  db,       \* struct mosquitto_db
  file,     \* what persistence_filepath holds; NoFile, or a snapshot
  up,       \* the broker runs
  restarts

vars == <<db, file, up, restarts>>

NoTopic == <<>>

ASSUME RoutingAssumption ==
  /\ Topics \cup Filters \subseteq Seq(STRING) \ {<<>>}
  /\ Wanted \subseteq Client \X Filters \X (0..2)
  /\ Session \subseteq Client \X BOOLEAN
  /\ Published \subseteq Topics \X (0..1) \X BOOLEAN \X BOOLEAN
  /\ Published2 \subseteq Client \X (Topics \cup {NoTopic}) \X BOOLEAN
  /\ MaxInflight \in Nat /\ MaxQueued \in Nat /\ MaxId \in Nat /\ MaxRestarts \in Nat

NoFile == [kind |-> "none"]
EmptyDb == [subs |-> EmptyTree, msg_store |-> <<>>, contexts |-> <<>>, last_db_id |-> 0]

NewContext(clean) ==
  [clean_session |-> clean, sock |-> TRUE, subs |-> {}, msgs |-> <<>>, msg_count12 |-> 0]

Lesser(a, b) == IF a <= b THEN a ELSE b
Drop(f, xs) == [x \in DOMAIN f \ xs |-> f[x]]

\* mosquitto_acl_check for reading: who may not be sent a message with which topic
Denied ==
  LET Granted(c, t) == \E g \in ReadAcl : g[1] = c /\ TopicMatchesSub(g[2], t)
  IN  IF ReadAcl = {} THEN {} ELSE {d \in Client \X Topics : ~Granted(d[1], d[2])}

------------------------------------------------------------------------------
(* The message store. *)

Store(d, topic, qos, retain, empty) ==
  LET id == d.last_db_id + 1
  IN  [d EXCEPT !.last_db_id = id,
                !.msg_store = Put(@, id, [topic |-> topic, qos |-> qos, retain |-> retain, empty |-> empty,
                                          ref_count |-> 0, dest_ids |-> {}])]

Ref(d, id, n) == [d EXCEPT !.msg_store[id].ref_count = @ + n]

Deref(d, id) ==
  IF d.msg_store[id].ref_count = 1 THEN [d EXCEPT !.msg_store = Drop(@, {id})]
  ELSE Ref(d, id, -1)

\* Mutant of Admitted: dest_ids is not looked at
AdmittedAgain(d, c, dir, qos, retain, id) ==
  LET ctx == d.contexts[c]
  IN  IF ctx.sock THEN qos = 0 \/ ctx.msg_count12 < MaxInflight + MaxQueued
      ELSE qos > 0 /\ ctx.msg_count12 < MaxQueued

\* whether mqtt3_db_message_insert accepts the message for context c
Admitted(d, c, dir, qos, retain, id) ==
  LET ctx == d.contexts[c]
  IN  /\ ~(dir = "out" /\ ~retain /\ c \in d.msg_store[id].dest_ids)
      /\ IF ctx.sock
         THEN qos = 0 \/ ctx.msg_count12 < MaxInflight + MaxQueued
         ELSE qos > 0 /\ ctx.msg_count12 < MaxQueued

\* the message is appended to the queues of the contexts that qosOf gives a QoS for
Insert(d, qosOf, dir, retain, id) ==
  LET in == {c \in DOMAIN qosOf : Admitted(d, c, dir, qosOf[c], retain, id)}
      Queued(c) == [d.contexts[c] EXCEPT
                      !.msgs = Append(@, [id |-> id, dir |-> dir, qos |-> qosOf[c], retain |-> retain]),
                      !.msg_count12 = @ + IF qosOf[c] > 0 THEN 1 ELSE 0]
      d1 == [d EXCEPT !.contexts = [c \in DOMAIN @ |-> IF c \in in THEN Queued(c) ELSE @[c]],
                      !.msg_store[id].dest_ids = @ \cup IF dir = "out" /\ ~retain THEN in ELSE {}]
  IN  Ref(d1, id, Cardinality(in))

\* the entries of queues that point to a message
InQueues(queues, id) ==
  UNION {{c} \X {i \in DOMAIN queues[c] : queues[c][i].id = id} : c \in DOMAIN queues}

\* _message_remove
Unlink(d, c, i) ==
  LET m == d.contexts[c].msgs[i]
  IN  Deref([d EXCEPT !.contexts[c].msgs = Those(@, DOMAIN @ \ {i}),
                      !.contexts[c].msg_count12 = @ - IF m.qos > 0 THEN 1 ELSE 0], m.id)

\* Mutant of MessagesDelete: the queue is dropped with its references
MessagesDropped(d, c) == [d EXCEPT !.contexts[c].msgs = <<>>, !.contexts[c].msg_count12 = 0]

MessagesDelete(d, c) ==
  LET q == d.contexts[c].msgs
      Loosen(e, m) == Deref(e, m.id)
      d1 == Each(Loosen, d, q)
  IN  [d1 EXCEPT !.contexts[c].msgs = <<>>, !.contexts[c].msg_count12 = 0]

------------------------------------------------------------------------------
(* Routing. *)

SetRetained(d, path, id) ==
  LET old == d.subs[path].retained
      d1 == IF old # NoMsg THEN Deref(d, old) ELSE d
  IN  IF d1.msg_store[id].empty
      THEN [d1 EXCEPT !.subs[path].retained = NoMsg]
      ELSE Ref([d1 EXCEPT !.subs[path].retained = id], id, 1)

\* mqtt3_db_messages_queue; deliver is FALSE for the restored messages, which have no source
MessagesQueue(d, id, qos, retain, deliver) ==
  LET m == d.msg_store[id]
      path == PathOf(m.topic)
      known == <<path[1]>> \in DOMAIN d.subs
      d0 == Ref(d, id, 1)
      d1 == IF retain /\ known THEN [d0 EXCEPT !.subs = AddPath(@, path)] ELSE d0
      SubsProcess(e, node) ==
        LET e1 == IF retain /\ node = path THEN SetRetained(e, node, id) ELSE e
            leaves == e1.subs[node].subs
            readers == {c \in DOMAIN leaves : <<c, m.topic>> \notin Denied}
        IN  IF deliver THEN Insert(e1, [c \in readers |-> Lesser(qos, leaves[c])], "out", FALSE, id) ELSE e1
  IN  Deref(Each(SubsProcess, d1, Visit(d1.subs, m.topic)), id)

RetainQueue(d, c, filter, sub_qos) ==
  LET Process(e, node) ==
        LET id == e.subs[node].retained
        IN  IF id = NoMsg \/ <<c, e.msg_store[id].topic>> \in Denied THEN e
            ELSE Insert(e, [x \in {c} |-> Lesser(e.msg_store[id].qos, sub_qos)], "out", TRUE, id)
  IN  Each(Process, d, RetainVisit(d.subs, filter))

\* Mutant of SubAdd: context->subs is not told of the new leaf
SubAddLeafOnly(d, c, filter, qos) ==
  [d EXCEPT !.subs = [AddPath(@, PathOf(filter)) EXCEPT ![PathOf(filter)].subs = Put(@, c, qos)]]

SubAdd(d, c, filter, qos) ==
  LET path == PathOf(filter)
      t == AddPath(d.subs, path)
  IN  [d EXCEPT !.subs = [t EXCEPT ![path].subs = Put(@, c, qos)],
                !.contexts[c].subs = @ \cup {path}]

\* Mutant of SubRemove: context->subs keeps the node
SubRemoveLeafOnly(d, c, filter) ==
  IF <<PathOf(filter)[1]>> \notin DOMAIN d.subs THEN d
  ELSE [d EXCEPT !.subs = RemoveLeaf(@, PathOf(filter), c)]

SubRemove(d, c, filter) ==
  LET path == PathOf(filter)
  IN  IF <<path[1]>> \notin DOMAIN d.subs THEN d
      ELSE [d EXCEPT !.subs = RemoveLeaf(@, path, c), !.contexts[c].subs = @ \ {path}]

SubsCleanSession(d, c) ==
  LET Clean(t, p) == CleanLeaf(t, p, c)
  IN  [d EXCEPT !.subs = Each(Clean, @, SetToSeq(d.contexts[c].subs)), !.contexts[c].subs = {}]

\* mqtt3_context_cleanup of a clean session
Forget(d, c) ==
  LET d1 == MessagesDelete(SubsCleanSession(d, c), c)
  IN  [d1 EXCEPT !.contexts = Drop(@, {c})]

------------------------------------------------------------------------------
(* The file. *)

\* Mutant of NodeChunks: a retained $SYS message is saved as retained
NodeChunksSys(d, path) ==
  LET leaves == d.subs[path].subs
      durable == SetToSeq({c \in DOMAIN leaves : ~d.contexts[c].clean_session})
  IN  [i \in DOMAIN durable |-> [client |-> durable[i], topic |-> TopicText(path), qos |-> leaves[durable[i]]]]
        \o IF d.subs[path].retained # NoMsg THEN <<[retain |-> d.subs[path].retained]>> ELSE <<>>

\* _db_subs_retain_write: the chunks of one node
NodeChunks(d, path) ==
  LET leaves == d.subs[path].subs
      durable == {c \in DOMAIN leaves : ~d.contexts[c].clean_session}
      kept == d.subs[path].retained
      Sub(c) == [client |-> c, topic |-> TopicText(path), qos |-> leaves[c]]
  IN  [i \in 1..Cardinality(durable) |-> Sub(SetToSeq(durable)[i])]
        \o IF kept # NoMsg /\ d.msg_store[kept].topic[1] # "$SYS"
           THEN <<[retain |-> kept]>> ELSE <<>>

\* mqtt3_db_client_write: the durable contexts, connected or not, with their queues
SavedClients(d) ==
  [c \in {x \in DOMAIN d.contexts : ~d.contexts[x].clean_session} |-> d.contexts[c].msgs]

Snapshot(d) ==
  LET order == WriteOrder(d.subs)
      Saved(m) == [topic |-> m.topic, qos |-> m.qos, empty |-> m.empty,
                   retain |-> m.retain /\ m.topic[1] # "$SYS"]
  IN  [kind |-> "whole",
       last |-> d.last_db_id,
       store |-> [id \in DOMAIN d.msg_store |-> Saved(d.msg_store[id])],
       clients |-> SavedClients(d),
       tree |-> FlattenSeq([i \in 1..Len(order) |-> NodeChunks(d, order[i])])]

\* Mutant of LoadedMsg: a restored queue entry does not count as a reference
LoadedUncounted(f, id) ==
  LET m == f.store[id]
  IN  [topic |-> m.topic, qos |-> m.qos, retain |-> m.retain, empty |-> m.empty, ref_count |-> 0, dest_ids |-> {}]

\* _db_client_msg_restore: every entry of a queue is a reference to its message
References(f, id) == Cardinality(InQueues(f.clients, id))

\* _db_msg_store_chunk_restore
LoadedMsg(f, id) ==
  LET m == f.store[id]
  IN  [topic |-> m.topic, qos |-> m.qos, retain |-> m.retain, empty |-> m.empty,
       ref_count |-> References(f, id), dest_ids |-> {}]

\* _db_client_chunk_restore: a context without a connection, whose counters stay 0
Offline(msgs) == [NewContext(FALSE) EXCEPT !.sock = FALSE, !.msgs = msgs]

Restored(f) ==
  LET d0 == [EmptyDb EXCEPT !.last_db_id = f.last,
                            !.msg_store = [id \in DOMAIN f.store |-> LoadedMsg(f, id)],
                            !.contexts = [c \in DOMAIN f.clients |-> Offline(f.clients[c])]]
      Chunk(d, ch) ==
        IF "retain" \in DOMAIN ch
        THEN MessagesQueue(d, ch.retain, d.msg_store[ch.retain].qos, d.msg_store[ch.retain].retain, FALSE)
        ELSE SubAdd(d, ch.client, ch.topic, ch.qos)
  IN  Each(Chunk, d0, f.tree)

\* a denied QoS 2 message has no topic, and writing it dereferences the null pointer
Writable(d) == \A id \in DOMAIN d.msg_store : d.msg_store[id].topic # NoTopic

------------------------------------------------------------------------------
Init == db = EmptyDb /\ file = NoFile /\ up = TRUE /\ restarts = 0

Step(d) == up /\ db' = d /\ UNCHANGED <<file, up, restarts>>

Known(c) == c \in DOMAIN db.contexts
Online(c) == Known(c) /\ db.contexts[c].sock

\* a session is continued when neither the old nor the new one is clean;
\* otherwise the old one is cleaned before the new one is made
Connect(c, clean) ==
  /\ ~Online(c)
  /\ IF Known(c) /\ ~clean
     THEN LET q == db.contexts[c].msgs
          IN  Step([db EXCEPT !.contexts[c].sock = TRUE,
                              !.contexts[c].msg_count12 = Cardinality({i \in DOMAIN q : q[i].qos > 0})])
     ELSE LET d == IF Known(c) THEN Forget(db, c) ELSE db
          IN  Step([d EXCEPT !.contexts = Put(@, c, NewContext(clean))])

\* do_disconnect
Disconnected(d, c) ==
  IF d.contexts[c].clean_session THEN Forget(d, c) ELSE [d EXCEPT !.contexts[c].sock = FALSE]

Disconnect(c) == Online(c) /\ Step(Disconnected(db, c))

\* a filter that is refused ends the connection
Subscribe(c, filter, qos) ==
  /\ Online(c)
  /\ Len(db.contexts[c].msgs) <= MaxBacklog
  /\ Step(IF SubTopicCheck(filter) THEN RetainQueue(SubAdd(db, c, filter, qos), c, filter, qos)
          ELSE Disconnected(db, c))

Unsubscribe(c, filter) ==
  /\ Online(c)
  /\ Step(IF SubTopicCheck(filter) THEN SubRemove(db, c, filter) ELSE Disconnected(db, c))

\* mqtt3_handle_publish with QoS 0 and 1, and mqtt3_db_messages_easy_queue (wills, $SYS)
Publish(topic, qos, retain, empty) ==
  /\ db.last_db_id < MaxId
  /\ PubTopicCheck(topic)
  /\ LET d == Store(db, topic, qos, retain, empty)
     IN  Step(MessagesQueue(d, d.last_db_id, qos, retain, TRUE))

\* mqtt3_handle_publish with QoS 2: kept for the client until PUBREL
PublishQos2(c, topic, retain) ==
  /\ Online(c)
  /\ db.last_db_id < MaxId
  /\ LET d == Store(db, topic, 2, retain, topic = NoTopic)
     IN  Step(Insert(d, [x \in {c} |-> 2], "in", retain, d.last_db_id))

\* PUBREL: mqtt3_db_message_release
Release(c, i) ==
  /\ Online(c)
  /\ i \in DOMAIN db.contexts[c].msgs
  /\ LET m == db.contexts[c].msgs[i]
         d == IF db.msg_store[m.id].topic = NoTopic THEN db
              ELSE MessagesQueue(db, m.id, db.msg_store[m.id].qos, m.retain, TRUE)
     IN  m.dir = "in" /\ Step(Unlink(d, c, i))

\* an outbound message is acknowledged, or written with QoS 0
Sent(c, i) ==
  /\ Online(c)
  /\ i \in DOMAIN db.contexts[c].msgs
  /\ db.contexts[c].msgs[i].dir = "out"
  /\ Step(Unlink(db, c, i))

\* mqtt3_db_backup of a running broker (autosave, SIGUSR1) and of one that stops
Backup == up /\ restarts < MaxRestarts /\ Writable(db) /\ file' = Snapshot(db) /\ UNCHANGED <<db, up, restarts>>

\* The disk is full after the clients in kept: the errors of mqtt3_db_client_write and
\* mqtt3_db_subs_retain_write are ignored, and what there is replaces the good file
BackupDiskFull(kept, torn) ==
  /\ up
  /\ restarts < MaxRestarts
  /\ Writable(db)
  /\ LET s == Snapshot(db)
     IN  /\ kept \subseteq DOMAIN s.clients
         /\ file' = IF torn THEN [kind |-> "torn"]
                    ELSE [s EXCEPT !.clients = [c \in kept |-> @[c]], !.tree = <<>>]
  /\ UNCHANGED <<db, up, restarts>>

Down == up' = FALSE /\ db' = EmptyDb /\ UNCHANGED restarts

\* a crash, also between the writing and the renaming of the new file
Crash == up /\ Down /\ UNCHANGED file
BackupCrash == up /\ ~Writable(db) /\ Down /\ UNCHANGED file

\* SIGINT, SIGTERM: the last backup, then mqtt3_db_close
Stop == up /\ restarts < MaxRestarts /\ Writable(db) /\ file' = Snapshot(db) /\ Down

Restart ==
  /\ ~up
  /\ restarts < MaxRestarts
  /\ file.kind # "torn"
  /\ up' = TRUE
  /\ restarts' = restarts + 1
  /\ db' = IF file.kind = "none" THEN EmptyDb ELSE Restored(file)
  /\ UNCHANGED file

Next ==
  \/ \E s \in Session : Connect(s[1], s[2])
  \/ \E w \in Wanted : Subscribe(w[1], w[2], w[3]) \/ Unsubscribe(w[1], w[2])
  \/ \E m \in Published : Publish(m[1], m[2], m[3], m[4])
  \/ \E m \in Published2 : PublishQos2(m[1], m[2], m[3])
  \/ \E c \in Client :
       \/ Disconnect(c)
       \/ \E i \in 1..(MaxInflight + MaxQueued + MaxId) : Release(c, i) \/ Sent(c, i)
  \/ \E kept \in SUBSET Client : BackupDiskFull(kept, FALSE) \/ BackupDiskFull(kept, TRUE)
  \/ Backup \/ BackupCrash \/ Crash \/ Stop \/ Restart

Spec == Init /\ [][Next]_vars

------------------------------------------------------------------------------
Message == [id : 1..MaxId, dir : {"in", "out"}, qos : 0..2, retain : BOOLEAN]
Paths == UNION {Above(PathOf(f)) : f \in Filters \cup Topics}

\* Every part of the database has the shape its structure declares, the ids in
\* use were all assigned, and only filters and topics make nodes.
TypeOK ==
  /\ DOMAIN db.contexts \subseteq Client
  /\ DOMAIN db.msg_store \subseteq 1..db.last_db_id
  /\ \A c \in DOMAIN db.contexts :
       /\ db.contexts[c].msgs \in Seq(Message)
       /\ db.contexts[c].msg_count12 \in 0..Len(db.contexts[c].msgs)
  /\ \A p \in DOMAIN db.subs :
       /\ DOMAIN db.subs[p].subs \subseteq DOMAIN db.contexts
       /\ \A i \in DOMAIN db.subs[p].children : Append(p, db.subs[p].children[i]) \in DOMAIN db.subs
       /\ Len(p) > 1 => Front(p) \in DOMAIN db.subs

\* Reference counts (database.c:188): a stored message counts exactly the queue
\* entries and the retained topics that point to it, and nothing points to a
\* message that was freed, whatever routing, clean-up and restart did.
RefCountsExact ==
  LET kept == {p \in DOMAIN db.subs : db.subs[p].retained # NoMsg}
      Held(id) == Cardinality({p \in kept : db.subs[p].retained = id})
                    + Cardinality(InQueues([c \in DOMAIN db.contexts |-> db.contexts[c].msgs], id))
  IN  /\ \A id \in DOMAIN db.msg_store : db.msg_store[id].ref_count = Held(id)
      /\ \A p \in kept : db.subs[p].retained \in DOMAIN db.msg_store
      /\ \A c \in DOMAIN db.contexts : \A i \in DOMAIN db.contexts[c].msgs :
           db.contexts[c].msgs[i].id \in DOMAIN db.msg_store

\* context->subs (subs.c:280) names exactly the nodes that have a leaf of the
\* context: a stale entry would be a pointer to a freed node, a missing one a
\* leaf that outlives its context.
IndexAgrees ==
  \A c \in DOMAIN db.contexts :
    db.contexts[c].subs = {p \in DOMAIN db.subs : c \in DOMAIN db.subs[p].subs}

\* A node without children, subscribers and retained message stays in the tree
\* only where a retained message was (subs.c:375, subs.c:550): a node made for a
\* filter goes with its last subscription.
FiltersPruned ==
  \A p \in DOMAIN db.subs :
    (Len(p) > 1 /\ Bare(db.subs[p]) /\ db.subs[p].children = <<>>)
      => \E t \in Topics : p \in Above(PathOf(t))

------------------------------------------------------------------------------
(* What clients are promised: PubSub. *)

AllFilters == Filters \cup {TopicText(PathOf(f)) : f \in Filters}
SubsOf(tree) == {s \in Client \X AllFilters :
                   LET p == PathOf(s[2]) IN p \in DOMAIN tree /\ s[1] \in DOMAIN tree[p].subs}
KeptOf(tree) ==
  LET Has(t) == PathOf(t) \in DOMAIN tree /\ tree[PathOf(t)].retained # NoMsg
  IN  [t \in {x \in Topics : Has(x)} |-> tree[PathOf(t)].retained]
Outbound(msgs, store) ==
  LET out == SelectSeq(msgs, LAMBDA m : m.dir = "out")
  IN  [i \in DOMAIN out |-> [id |-> out[i].id, topic |-> store[out[i].id].topic]]

SavedState ==
  IF file.kind \in {"none", "torn"} THEN [kind |-> file.kind]
  ELSE LET kept == {i \in DOMAIN file.tree : "retain" \in DOMAIN file.tree[i]}
           Of(t) == {i \in kept : file.store[file.tree[i].retain].topic = t}
           subbed == DOMAIN file.tree \ kept
       IN  [kind |-> "usable",
            subs |-> {<<file.tree[i].client, file.tree[i].topic>> : i \in subbed},
            inbox |-> [c \in DOMAIN file.clients |-> Outbound(file.clients[c], file.store)],
            kept |-> [t \in {x \in Topics : Of(x) # {}} |-> file.tree[CHOOSE i \in Of(t) : TRUE].retain]]

Promise == INSTANCE PubSub WITH
  subs <- SubsOf(db.subs),
  kept <- KeptOf(db.subs),
  inbox <- [c \in DOMAIN db.contexts |-> Outbound(db.contexts[c].msgs, db.msg_store)],
  durable <- {c \in DOMAIN db.contexts : ~db.contexts[c].clean_session},
  room <- {c \in DOMAIN db.contexts :
             db.contexts[c].sock /\ db.contexts[c].msg_count12 < MaxInflight + MaxQueued},
  saved <- SavedState

\* The database implements PubSub: wildcards, overlapping subscriptions, reference
\* counting, retained messages and the file together route every message to exactly
\* the clients it matches, once, and a restart brings back what was saved.
KeepsPromise == Promise!Spec
==============================================================================

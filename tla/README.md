# Kocom: models and proofs

Kocom collects environmental data of a district. An MQTT broker (mosquitto 1.4,
in C, with its client library) carries messages between the agents of the
district's devices; a service console (`SC`, node.js) and a data collector (`PD`,
node.js) talk through it and keep their data in MongoDB; an R dashboard
(`Shiny`) shows them. This directory holds TLA+ modules that model parts of the
program, TLC configurations that check them on small instances and TLAPS proofs
about them. Paths below are relative to `src/Kocom/mosquitto/` unless they start
with `SC/` or `PD/` (in `src/Kocom/`). `PROJECT.json` maps every definition to the
lines it stands for and lists the runs, the hazards and the findings.

## 1. The system

| component | state | operations | modelled in |
|---|---|---|---|
| broker: message queue of one client (`src/database.c`) | `context->msgs`, `msg_count`, `msg_count12`; the limits `max_inflight`, `max_queued` | insert, update, delete, release, write pass, retry check, reconnect reset, delete all | `MsgList`, `ClientMsgs` |
| broker: QoS handlers (`src/read_handle.c`, `lib/read_handle_shared.c`) | none of their own | PUBLISH, PUBACK, PUBREC, PUBREL, PUBCOMP, SUBSCRIBE, UNSUBSCRIBE | `ClientMsgs`, `ClientDelivery`; as routing in `Routing` |
| broker: main loop (`src/loop.c`) | the contexts, poll sets | write pass, retry check, reads, disconnection, expiry, reload, bridges, freeing of disused contexts | `ClientMsgs` (one client), `Sessions` (contexts), `Bridge` (bridges) |
| broker: sessions (`src/read_handle_server.c`, `src/context.c`, `src/net.c`, `src/websockets.c`) | contexts by identifier and by socket, clean flag, will, disused list, count of connections | accept, CONNECT with or without takeover, DISCONNECT, will, cleanup, expiry | `ConnectPacket`, `Sessions`, `SessionService`; the messages taken over in `ClientMsgs` |
| broker: subscription tree, retained messages (`src/subs.c`) | tree of topic levels with subscribers and a retained message each | subscribe, unsubscribe, publish, clean a session, match with `+`, `#` | `TopicTree`, `Routing`, `PubSub` |
| broker: message store (`src/database.c`) | stored messages with reference counts and destination lists | store, reference, dereference, free | `Routing` |
| broker: persistence (`src/persist.c`) | the database file | backup, rename, restore | `Routing` |
| broker: bridges (`src/bridge.c`, `src/loop.c:165-282`, `src/read_handle_client.c`) | address, restart time, lazy flag, main address retry, notification | connect, fail, fail over, restart, notify, subscribe | `Bridge` |
| broker: passwords, ACLs (`src/security*.c`) | users, user ACLs, patterns; `acl_list` of each context | load, reload (files in error included), apply, check | `SecurityFiles`, `Sessions`; the check for reading (`Denied`) in `Routing`, its result in `ClientMsgs` |
| password file tool (`src/mosquitto_passwd.c`) | the file | put a user, change or delete one | `SecurityFiles` |
| broker: configuration, logging, `$SYS` | | | not modelled: parsing, formatting, start-up |
| client library: message queue (`lib/messages_mosq.c`, `lib/read_handle.c`) | in and out lists, `inflight_messages`, their mutexes | queue, update, remove, retry, reconnect reset | `ClientLib` |
| client library: loop and threads (`lib/mosquitto.c`, `lib/thread_mosq.c`, `lib/net_mosq.c`) | socket, connection state, packet queue | connect, loop_forever, publish, disconnect, keepalive | `ClientLib` |
| client library: utilities (`lib/util_mosq.c`) | `last_mid`, times of the last packets | identifiers, keepalive; checks of topics, topic matching | identifiers in `ClientMsgs`, keepalive in `ClientLib` and `Bridge`, topics in `TopicTree` |
| TLS, SOCKS, SRV, C++ wrapper, command line clients | | | not modelled: wrappers without a protocol of their own |
| service console (`SC/server.js`) | MongoDB collections of devices, services and data; MQTT handlers | register, request, store, change | `SmartCloud`, `Services` |
| data collector (`PD/pdCollector.js`) | scheduled jobs, the list of public data | import, remove, collect, repair at start | `PublicData`, `Services` |
| dashboard (`Shiny`) | none | plots, requests to `PD` | not modelled: user interface; enters `PublicData` as the sender of requests |

**How they interact.** The broker is one thread. A turn of its main loop
(`src/loop.c:110-360`) runs the write pass of every connected client, now and
then the retry check over all of them, then `poll()`, then writes and reads what
poll reported. A read calls a packet handler, which changes the client's own
queue, or routes a message through the subscription tree into other clients'
queues. Contexts survive connections: the CONNECT of a client whose context still
exists moves the old messages into a new context
(`src/read_handle_server.c:433-455`), whether or not the old connection is still
open. The queues hold references to stored messages, shared between clients and
the retained messages. A persistence snapshot writes all of this; a restart
reads it back. The client library has the same message lists on the other side,
used by the application's threads and by the library's own. `SC` and `PD` use an
MQTT client and MongoDB through callbacks that interleave.

**What is hard.** A client's queue is changed from four sides: packets of the
client, messages for it, the write pass, the retry check; and it outlives its
connection, which can break between any two steps, on either side first.
Sending, queueing and promoting are decided by counters and indices that six
functions keep separately. The handshake of QoS 2 has to survive the loss and
repetition of each of its four packets. `PROJECT.json` lists the hazards with
their lines.

**What makes the parts correct.**

* Message queue: the counters equal the list; a queued message is always behind
  one in flight; identifiers being received are unique; limits are respected;
  nothing is lost, duplicated or left behind.
* Sessions: one session per identifier; its will is published when the
  connection fails and the client has the right, and by no other end of it; a
  durable session outlives its connection; rights are those
  of the files in force; contexts are freed once and in the end.
* Subscription tree and store: a message reaches exactly the matching
  subscribers, once; a node is there as long as somebody needs it; the reference
  count of a stored message is the number of references to it.
* Persistence: what a backup held is there after a restart; a crash or a full
  disk leaves a file that can be restored.
* Bridges: the state message is true, or it is known which ends leave it wrong; topics flow in the configured directions
  only; an automatic bridge comes back.
* Client library: like the broker's queue, with two threads; what was accepted is
  reported once, after the broker has it; `disconnect` ends `loop_forever`.
* `SC`, `PD`: a datum is stored once, a device is listed once with its last value,
  the schedule agrees with the list, whatever the order of the callbacks.

## 2. Modules

`MsgList` - the list `context->msgs` and the functions that walk it. The C list
is only appended to, so an entry is named by the stamp it was appended with and a
list is a function from stamps to entries; order is the order of the stamps. Each
walk of the C code unlinks entries, promotes queued ones and counts on its way;
here it is described by the set of the entries it visits (it returns early), the
set it unlinks and the two sets it promotes: those that `_message_remove`
promotes when the head has gone (`LeadingRun`; its counter is never incremented,
so `max_inflight` does not bound the run) and those the walk itself promotes by
index (`WalkPromoted`; `msg_index` is decremented by delete, not by release).
`AfterWrite` and `WritePackets` are the write pass, up to the first send that
fails.

`ClientMsgs` - the broker's side of one client. One action per handler and per
step of the main loop:

| action | code |
|---|---|
| `PublishQos2` | `mqtt3_handle_publish` with QoS 2: look the identifier up, store and insert, PUBREC unless it was queued or dropped |
| `PublishDenied` | the same for a message that the ACL denies or that is too large; there a queued or dropped insertion disconnects the client |
| `PubAckComp` | `_mosquitto_handle_pubackcomp` with `mqtt3_db_message_delete` |
| `PubRec` | `_mosquitto_handle_pubrec` with `mqtt3_db_message_update`; an unknown identifier disconnects |
| `PubRel` | `_mosquitto_handle_pubrel` with `mqtt3_db_message_release`: route, perhaps insert for the client itself, unlink, promote, PUBCOMP |
| `Route` | `_subs_process` with `mqtt3_db_message_insert`: a message for the client, from anyone |
| `WritePass`, `WriteFails` | `mqtt3_db_message_write` to its end, or to the send that fails, and `do_disconnect` |
| `TimeoutCheck` | `mqtt3_db_message_timeout_check`, for any set of the entries that wait |
| `Connect` | `mqtt3_handle_connect`: new context, messages taken over, `mqtt3_db_message_reconnect_reset` |
| `Disconnect`, `Expire`, `Reload` | end of the connection, `persistent_client_expiration`, SIGHUP changing the limits |

The client may send any packet at any time here. `phase` is the place in the main
loop: after poll (reads) or after the write pass (retry check). `sent` and
`routed` are what the last step sent to the client and passed to the subscription
tree.

`ClientDelivery` - `ClientMsgs` behind a TCP connection with a well-behaved client
that keeps its session: packets in order, lost with the connection; the loss is
noticed by the broker, by the client, or by the broker only when the client is
back. The client publishes `Pubs` with QoS 2, receives `Subs` with QoS 1 or 2,
recognises a repeated QoS 2 PUBLISH, and repeats what is unanswered. Histories record
what was given to the broker and got by the application, under which identifier,
what a reset moved back (`redone`), and under which identifiers the broker sent the
client its own messages (`returned`). The client is
the one MQTT 3.1.1 asks for; the repetition after CONNACK and on a timer is what
the library does (`lib/messages_mosq.c`). It is stricter than the library in one
point: the library stores a repeated PUBLISH again (`lib/read_handle.c:143`), which
is `ClientLib`'s subject.

`ExactlyOnce` - the abstract promise to a publisher: offered, passed on once,
confirmed afterwards. `ClientDelivery` implements it with
`passed`, and with the client's states as `offered` and `confirmed`.

Abstractions of these modules: a message is a model value; timestamps are left out, so any waiting
entry may have timed out; the sockets' buffers never fill partially (a send
succeeds or the connection breaks); of a denied message only the missing topic is
kept. A client's own QoS 0 and 1 PUBLISH leaves its queue alone unless it
subscribes to it, which is `Route`. `Connect` takes the ACL pass over inherited
messages (`src/read_handle_server.c:522-547`) to deny nothing: it unlinks without
correcting the counters, which is `Sessions`' subject. Bridges and websockets have
branches of their own in the same functions, which are left out here;
`allow_duplicate_messages` is false, its default in the code (`src/conf.c:110`). `ReloadAssumption`: a reload changes
the in-flight limit but does not turn it on or off. When one turns it off, the
messages queued under the old limit are no longer promoted by anything but a
reconnection (`src/database.c:233,272`), so `HeadInFlight` would fail and the head
would wait; the model of the write pass uses this assumption as well.

`TopicTree` - the tree as a function from paths (sequences of levels) to nodes.
`Tokenise` and `PathOf` keep the artificial first levels `""` and `$SYS` of the
code; `Visit` and `RetainVisit` are the two recursive searches; `RemoveLeaf` and
`CleanLeaf` prune as `_sub_remove` and `tmp_remove_subs` do, which differ;
`TopicText` is the topic that a backup writes for a node, which is not always the
topic that made it.
`SubTopicCheck` and `PubTopicCheck` say which filters and topics are accepted;
`TopicMatchesSub` matches a topic with a pattern of the ACL.

`Routing` - `struct mosquitto_db`: the tree, the stored messages with `ref_count`
and `dest_ids`, the contexts with `subs` and `msgs`, and the file. Actions are
`Connect`, `Disconnect`, `Subscribe` (with the retained messages it queues),
`Unsubscribe`, `Publish` (QoS 0 and 1), `PublishQos2` and `Release` (the two ends of
an inbound QoS 2 message; a denied one has no topic), `Sent` (an outbound message
leaves the queue), `Backup`, `BackupDiskFull`, `BackupCrash`, `Stop`, `Crash`,
`Restart`. A queue is a sequence of references; the states within it are
`ClientMsgs`'. While a message is routed its reference count is raised by one and
lowered again, as in `mqtt3_db_messages_queue`. A reference in a queue is counted where
it stands (`InQueues`: the entries that point to a message), and the loops of the code over
subscribers, retained messages, references and chunks are `Each` of `Lists`.

`PubSub` - the promise: sets of (client, filter) pairs, the retained message of
each topic, an inbox per client and a saved copy of the durable part. `Matches`
states MQTT's matching without a tree. Where the code deviates the promise says so
by name (`ViaParent`: a retained message that `a/#` should find on `a`; `Plain`:
filters whose text survives the file). `Routing` implements it (`KeepsPromise`).

`ConnectPacket` - what `mqtt3_handle_connect` accepts and refuses of a CONNECT
before it looks at any other context, as predicates on the packet's fields.

`SecurityFiles` - the password file and the ACL file as sequences of lines, and what
the broker reads of them line by line (`UnpwdFileParse`, `AclfileParse`): a `user` line
is the user of the `topic` lines after it, up to the next one; lines of the same user
collect in one entry; a password comes from the first line of its user. A line may be
in error (`Torn`; a password that is not one): reading stops there and keeps what it
has read. `UpdatePwuser` and `DeletePwuser` are what `mosquitto_passwd` makes of a file.
Kept of a line is who is granted something: there is one topic, `%c` and `%u` are
patterns like any other, hashing is left out.

`Sessions` - contexts as addresses in a heap, the hash of identifiers, the disused
list, the leaves of one filter, the listener's count, wills, and the password and
ACL files. A reload (`SecurityInit`) goes on whatever the files are: after an error in the
password file the ACL is not read, and there is none; the broker does not start with a file in error. One action per event: `Accept`, `WsEstablished`, `HandleConnect` (checks,
takeover, ACL pass over what was inherited), `HandleConnectError`, `Refuse`,
`HandleDisconnect`, `Fail` (any error or time-out ends in `do_disconnect`),
`WsClosed`, `HandleSubscribe`, `HandleUnsubscribe`, `Sent`, `FreeDisused`, `Expire`,
`Reload`. `SessionService` is the promise per identifier, without contexts;
`Sessions` implements it for identifiers that use TCP only (`SessionMap`: the first
context found by an identifier; `InForce`: whom the loaded lists let in, and their rights).
The promise lets a session end with or without its will; which of its steps an event must be
is `AsPromised`, of which `KeepsSessions` is made too: a DISCONNECT is `Left`; a failure is
`Failed`, which publishes, if there is a will and the right to publish it, and
`FailedSilently` if not; a CONNECT is `Arrive`, which gives up the former will; an expiry and
a reload publish nothing; and only `Fail` and `WsClosed` publish anything, the will of
the context that ends.
What a reload makes of the files is part of the promise, the patterns it leaves behind a
list that is empty included (`security_default.c:463`). Identifiers that use
websockets as well are in the model, but excepted from the promise: a takeover of
a websocket leaves two contexts with one identifier until libwebsockets calls back.

`ClientLib` - two threads and the broker behind a connection. The application's
thread takes two steps for `mosquitto_publish` and `mosquitto_disconnect`, because
the code unlocks between the change and the send; the loop's thread reads, writes,
retries, checks the keepalive, and reconnects in the steps of
`mosquitto_reconnect` (state, reset, socket, CONNECT), between which the
application may run. The handling of a CONNACK is two steps as well, the test of the state
(in `Read`) and `ConnackAssign`, because `lib/read_handle_client.c:46` does both without
`state_mutex`. `Break` cuts the connection with a reset or silently.

`SmartCloud`, `PublicData`, `Services` - the two node.js programs. A handler starts
calls of the database; `Answer` is one of those being executed, in any order, with
its callback. A program that throws dies with its calls, each of which the
database may still execute (`Forgotten`), and is started again by `forever`.
`Services` puts both beside each other; they share nothing, so an instance looks at
one at a time. `Calls` is the bag of calls under way, which both extend. The two
calls with which the console renews its key are the exception: `Boot` and `InsertKey` issue
and execute each in one step, so the insertion of a console that died, executed after its
successor has removed the keys, which would leave two, is not in the model.

`Bridge` - one bridge: its context, the addresses that answer, the subscriptions
at each remote broker. `Outcomes` is what an attempt to connect returns (an address
that is down is found out at once or, `slow`, later). The passes of the main loop
are `PrimaryRetry`, `PlanRestart`, `RestartLazy`, `RestartAutomatic`; times are
abstracted to whether they have come. To the rest of the broker a bridge is a context
like another: a reload whose files do not let it in ends its connection (`ReloadRefuses`), so
does a client that connects with its local identifier and inherits its subscriptions and queue
unless one of them is clean (`TakenOver`), and the hourly check takes a durable bridge without a
connection for a client's session (`Expire`). `DoDisconnect` publishes the will, as the code does,
unless the state is `disconnecting`, which the first two set.

`MCClientMsgs`, `MCClientDelivery`, `MCRouting`, `MCSessions`, `MCClientLib`,
`MCServices`, `MCBridge` - the instances TLC checks. `Lists` - the loops over lists and
the selections from them that `MsgList`, `TopicTree`, `Routing`, `Sessions` and `ClientLib` share. `Lists_proofs`,
`ClientMsgs_proofs`, `ClientDelivery_proofs`, `Sessions_proofs`, `ClientLib_proofs`,
`Services_proofs`, `Bridge_proofs`, `Routing_proofs` - the theorems (section 5).

## 3. Runs

| run | checks | shows |
|---|---|---|
| `client_msgs` | `TypeOK`, `CountsExact`, `HeadInFlight`, `InboundUnique`, `PubrecMeansStored`, `AdmissionBounded` | any packets in any order, with lost connections, takeovers, expiry and reloads, keep the counters exact, the head in flight, no identifier stored twice; every PUBREC is for a stored message; no admission exceeds both limits |
| `delivery` | `LostOnlyIfShared`, `TwiceOnlyIfRedone`, `PassedOnce` | with two lost connections at any moment a message is lost only if its identifier was used twice or the client was sent its own message under it, duplicated only if its PUBREL was reset to PUBLISH, and the client's own messages are routed once before they are confirmed |
| `handshake` | `PublishesOnce`, `Delivered` | with fairness: the QoS 2 handshake implements `ExactlyOnce`, and what is queued reaches the application |
| `routing` | `TypeOK`, `RefCountsExact`, `IndexAgrees`, `FiltersPruned`, `KeepsPromise` | the tree, the store and the contexts deliver every message once to exactly the clients it matches; a message is freed when the last reference to it goes; nodes made for filters go with their last subscriber |
| `restart` | `RefCountsExact`, `IndexAgrees`, `KeepsPromise` | a backup, a full disk, a crash or a stop, and a restart bring back what the file held, with exact counts |
| `sessions` | `TypeOK`, `OneOwner`, `CountExact`, `GrantsKept`, `KeepsSessions`, `Reclaimed` | accept, takeover, wills, expiry, reload over TCP and websockets amount to one session per identifier, whose will is published by a failure of its connection and nothing else; no context leaks, none is freed twice |
| `client_lib` | `TypeOK`, `NeverForgotten`, `WindowHolds`, `TwiceOnlyIfRedone`, `PassedOnce`, `GivesUpOnlyIfLate`, `Delivered`, `DisconnectEnds` | both threads at every point where a mutex is released, and connections that break: what was accepted is reported once, after the broker has it; the window holds; the exceptions are named |
| `services` | `StoredOnce`, `ListTrue`, `Consistent`, `ComesToRest` | overlapping database calls, crashes and restarts store nothing twice, keep the list of devices true and the schedule in step with its list, and end |
| `bridge` | `NotificationTrue`, `FlowsAsConfigured`, `Reconnects` | addresses that come and go, reloads and takeovers, in every kind of configuration: every end of a connection but those two says 0 in the state message |
| `inflight_window` | `InflightWindow` (violated) | finding 1 |
| `at_least_once` | `AtLeastOnce` (violated) | finding 2 |
| `exactly_once` | `AtMostOnce` (violated) | finding 3 |

**Bounds.** `client_msgs`: one message (the queue never compares messages), lists
of three entries (`MaxStamp`: one in flight, one promoted, one still queued; one
entry before, at and behind the one a walk unlinks), two identifiers (so that
entries share one, and the counter wraps), limits of one or two in flight and one
queued, changed by reloads (so that queueing, dropping, promotion and a window
smaller than what is in flight all occur), QoS 0 queueing on. `delivery`: two
messages each way, two identifiers, two in flight and two queued, two lost
connections: the second is needed to lose the repetition after the first. With two
messages each way and a window of two, a message of the client can be left queued
within the window, which is when a reset sends it back to the client. `InTransit` is
one and bounds repetitions only, never answers. With two messages to the client the
identifier counter does not wrap, so identifiers are reused only because a new
context starts at 0. The messages of each direction are interchangeable (`SYMMETRY`;
the run checks no liveness). `handshake`: one message each way, two lost
connections; they compete for a window of one, so promotion matters. Nothing is
dropped in `delivery` and `handshake`: the queue has room for all messages.
Where the limit drops a QoS 2 PUBLISH the client gets no PUBREC and repeats it.

`routing`: two clients; filters `a/#` and `a/+` of one, which overlap on topic
`a/b`, `a` of the other and `+`, which is refused; an ACL that gives one `a/#` and
the other `+`, so that `a/b` is denied to it; two stored
messages of one history (`MaxId`: the second replaces a retained one, or shares a
queue with the first); room for one in flight and one queued, so that messages are
dropped. `MaxBacklog` 0: only a client with an empty queue subscribes, because
subscribing again queues the retained messages again without a limit.
`restart`: one restart (`MaxRestarts`), one durable client with the filters `a/#`
and `/a`, a clean publisher of QoS 2, topics `a` and `$SYS/x`, whose text in the
file differs from the topic; no ACL. `sessions`: three addresses, two contexts in
use (`MaxContexts`) and one that is refused; a TCP identifier that comes durable or
clean, one that uses websockets too; three CONNECTs (`MaxConn`: a session, its
takeover, and what comes after), one reload from a file without an error to any of five: rights for all and for some,
one user gone with an ACL that has a torn line, a password that cannot be read, the other
user gone, and patterns only, which stay whatever is read after them. `client_lib`: three
messages of QoS 1, 2, 1 behind a window of two, so that a reconnection finds more
than the window holds, one message from the broker, two faults (`MaxFaults`);
`mosquitto_disconnect` and the broker's publication come after the last message,
`mosquitto_disconnect` before the last fault and before the publication, pings of an idle connection are left out. `services`: six kinds of messages of which
three are sent, one waiting when the next is sent, two connections, one crash at any
point; for the collector one import, one removal, one collection, two connections,
one fault. `bridge`: three addresses (the main one, one to fail over to, and one
more, so that the round does not end where it began), topics in, out and both, all
eight switches of a configuration, two faults (`MaxFaults`: an address that goes or comes, a
broken connection, a reload, a takeover), one message, which is the
threshold of a lazy bridge.

**Fairness.** `ClientDelivery`: the main loop never blocks for ever: it writes and
checks for timeouts on every turn (weak fairness of `BrokerWrites` and of the retry
step). An entry that waits will time out; it is timed out in turns that come again
and again while other events happen in between (strong fairness on the retry of
everything that waits). `poll()` reports a socket with data on every turn, so a
packet is read even though reads are possible only in one phase (strong). The
client reads its socket (weak), publishes and repeats, and reconnects when it has
lost the connection (strong: each can be disabled and enabled again by the
connection). Connections are lost a bounded number of times.
`Sessions`: every pass of the main loop frees the disused contexts first
(`src/loop.c:115`), and libwebsockets calls back where a writable callback was
asked for. `ClientLib`: both threads run (the application finishes a call that it has begun;
nothing makes it begin one); each step of the loop that is possible is taken, the second half
of a CONNACK's handling too; the keepalive check ends a connection on which an answer stays out; the
broker reads. `Services`: the event loop runs, the database answers, `forever`
restarts, the client reconnects. `Bridge`: the loop passes, times come, an address
that is up answers; messages, faults (reloads and takeovers among them), the idle timeout and the
hourly expiry come when they like.

**Deadlock** is checked in the runs of `ClientMsgs` and `ClientDelivery`. The others
have bounds after which nothing is left to happen (all messages sent, all
connections made, everything at rest), so they say `CHECK_DEADLOCK FALSE`;
`Reclaimed`, `Delivered`, `DisconnectEnds`, `ComesToRest` and `Reconnects` say that they
do not stop early.

## 4. Findings

1. `src/database.c:233` - `_message_remove` never increments the counter that
   should stop the promotion at `max_inflight`; `mosquitto.conf.5.xml:354-360`
   promises that limit, and in-order delivery when it is 1.
2. `src/context.c:44` - a new context gives out identifiers from 1 although it
   inherits unacknowledged messages with theirs; one PUBACK then deletes two
   messages. `mqtt.7.xml:123` promises delivery at least once.
3. `src/database.c:648` - the reconnect reset sends a message whose PUBREL was
   due for a retry back to PUBLISH; the client receives it a second time.
   `mqtt.7.xml:124` promises exactly once.

Seen while modelling; the models do what the code does, and where a property or a
promise must except one of these it names the exception.

*Queue.* `queue_qos0_messages` is documented to count in the limit and does not
(`mosquitto.conf.5.xml:507-513`, `database.c:383`). `allow_duplicate_messages` is documented
to default to true (`mosquitto.conf.5.xml:184`) and defaults to false (`conf.c:110`). The reset turns a queued inbound
message into one to publish to its own publisher (`database.c:681`); the client's
PUBREC then moves on the message that the broker sends under the same identifier,
which the client may not have: it is lost (`Shared` excepts it).

*Tree, store, file.* A search for `a/#` misses the retained message of a childless
`a` that is not the last sibling (`_retain_search`). The filters `#`, `+` and those
that begin with `+/` end the connection (`util_mosq.c:202-207`), so no client can
subscribe to everything. The ACL's pattern `a/#` does not cover the topic `a/`,
nor `a/+/#` the topic `a/b` (`util_mosq.c:229-309`); subscriptions with these filters
match both in the tree. Subscribing again queues
retained messages of QoS 0 without a limit. Nodes made for retained topics stay
after the message is cleared. An inbound QoS 2 message that the queue limit drops
stays stored with a count of 0 (`read_handle.c:231`). A denied QoS 2 message has no
topic, and the next backup compares it with `$SYS` (`persist.c:142`). The text of a
topic in the file loses an empty first level and repeats `$SYS` (`persist.c:256`).
Messages of clean clients are saved and never freed after a restart. Restored
queues count 0 until the client reconnects; restored contexts have no ACL until
then. Write errors of client and subscription records are ignored and the file is
renamed over the good one (`persist.c:382`).

*Sessions.* A reload disconnects the clients that the new files do not let in
(`security_default.c:723`), although `mosquitto.conf.5.xml:407-410` says that clients which
are connected are not affected; `SessionService` promises what the code does: its `Reload`
ends their sessions. "Session present" is set although the found context was clean
(`read_handle_server.c:425`). A takeover suppresses the old connection's will. The
ACL pass leaves `last_msg` pointing to an unlinked entry: what arrives until the
next connection is lost (`deaf`). A takeover of a websocket puts its identifier into
the hash twice, and a subscription made then is swallowed. The hourly expiry takes
websocket sessions that are closing (`disconnect_t` is 0). An ACL file with only
patterns keeps the former patterns on a reload (`security_default.c:463`), and the
result of a failed reload is ignored (`loop.c:361`): what was read before the line in error
is in force, and after an error in the password file there is no ACL.

*Client library.* The CONNACK handler tests the state and assigns it without `state_mutex`
(`lib/read_handle_client.c:46`). A `mosquitto_disconnect` in between is overwritten, and
`mosquitto_loop_forever` reconnects whenever the connection ends, so that `mosquitto_loop_stop`,
which waits for the thread, does not return (`DisconnectEnds` excepts it;
`lib/mosquitto.h:784-786` has it that the thread ends after `mosquitto_disconnect`). The reconnect reset counts every queued message before it
compares (`lib/messages_mosq.c:154`), so with many messages queued nothing is
promoted until the next reconnection (`Delivered` excepts it as `overfull`;
`lib/mosquitto.h:1276-1278` says they are sent). A QoS 2 message waiting for PUBCOMP
outside of the window is published again. `mosquitto_disconnect` during a
reconnection is overwritten too, or leaves a connected client in the state
disconnecting until the keepalive ends. A publication between the socket and the
CONNECT precedes the CONNECT. A send after the unlock may use a freed message, and
an answer to it ends `loop_forever`. A repeated QoS 2 PUBLISH is passed on twice.
`on_disconnect` is called twice on a ping time-out.

*Bridges.* The main address counts as back when a connection to it is only under
way, so an address that is silent rather than refusing makes the bridge leave a
working connection again and again (`loop.c:184`; excepted in `Reconnects`).
A failed first start skips the address it failed on. A lazy bridge that fails, or
breaks with messages queued, waits for the next message, and does not return to
its main address; a bridge that starts once never reconnects. A topic that a new
configuration drops altogether stays subscribed at the remote broker: only topics
of the configuration are unsubscribed. A reload makes no exception for bridges
(`security_default.c:715`): with `allow_anonymous` false, or a password file without the bridge's
name, a connected bridge is marked `disconnecting`, its connection ends and its will is freed
unpublished (`context.c:190`). The retained state message stays 1 until an attempt succeeds or a
later connection ends, although `mosquitto.conf.5.xml:1027-1036` says that 1 means an active
connection. A client that connects with the local identifier of a bridge does the same.
`NotificationTrue` excepts these two. `persistent_client_expiration` takes the context of
a durable bridge for a client's; it is not freed (`loop.c:425`), and the next attempt uses it.

*Console and collector.* Both register their message listener on every connection,
so what comes after a reconnection is handled twice (`SC/server.js:49`,
`PD/pdCollector.js`). An empty collection and an unknown device end the console.
Two overlapping first registrations of a device list it twice (`SC/server.js:171`).
A crash between the schedule and the document of an import loses it at the next
start (`PD/pdCollector.js:120`); a removal that overtakes the pending import of the
same data leaves a job without a document; imports of one millisecond share an
identifier and only the first document is flagged; a message that is not JSON, or
a page in pieces, ends the collector.

## 5. Proofs

`ClientMsgs_proofs` proves, for every set of messages, every `MidMax` and
`MaxStamp`, every set of limits and both values of `QueueQos0`:

| theorem | says |
|---|---|
| `TypesCorrect` | `Spec => []TypeOK` |
| `CountersCorrect` | `Spec => []CountsExact` |
| `HeadNeverQueued` | `Spec => []HeadInFlight` |
| `StoredOnce` | `Spec => []InboundUnique` |
| `AdmissionsBounded` | `Spec => AdmissionBounded` |
| `PubrecsTrue` | `Spec => PubrecMeansStored` |

Assumptions, all stated in `ClientMsgs` and evaluated by every run: `MidMax` and
`MaxStamp` are positive, limits are natural numbers, a reload does not turn the
in-flight limit on or off, `NoMsg` is not a message.

The argument. The four invariants are proved together, as parts of `Inv`. The
counters are natural numbers only because they are exact (a subtraction could go
below 0 otherwise); a new message is queued only when the window is full, which by
exact counters means that another message is in the list, so the head is not
queued; and removals promote what they leave at the head. One strengthening is
needed that is not among the properties, `Fits`: only QoS 0 messages are in state
`publish_qos0`. Without it the write pass could unlink a QoS 1 message without
flushing what is before it, and leave a queued head. The proof has three layers:
lemmas on `MsgList`'s operators (each keeps the list well formed, removes exactly
what it says, leaves no queued head: `WalkKeeps`, `WalkHeaded`, `WriteKeeps`,
`WriteHeaded`, `ResetKeeps`), their effect on the counters (`GoodKept`,
`InsertGood`), and one lemma per action.
`AdmissionsBounded` is an action property: by the invariant before and after a step it
is one about `msg_count12`, which only insertions raise, by one and within the limits
(`AddedBounded`). `PubrecsTrue` is one about what the write pass sends: `Lists_proofs`
shows that the entries of a set can be put in the order of their stamps (`InOrderFacts`, by the
ranks of its members, not by induction), so that each packet of the pass is that of an
entry the pass has left in the list.

`ClientDelivery_proofs` proves, for every number of messages in
either direction, every range of identifiers, all limits, and any number of packets in
transit and of lost connections:

| theorem | says |
|---|---|
| `RoutedOnce` | `DSpec => []PassedOnce` |
| `PublishingRefines` | `DSpec => Once!Init /\ [][Once!Next]_(Once!vars)`: the safety part of `PublishesOnce` |
| `NothingElseLost` | `DSpec => []LostOnlyIfShared` |
| `NothingElseTwice` | `DSpec => []TwiceOnlyIfRedone` |

They add to the assumptions of `ClientMsgs` only those of `ClientDelivery`: `Pubs` and
`Subs` are disjoint sets of messages, the bounds are natural numbers.

The argument for the client's messages (`DInv`). Of the messages in the handshake no two
have the same identifier (`Apart`), every PUBLISH in transit and every message stored by
the broker is the one its client is publishing under that identifier (`Owned`), and for
each of them the handshake is at one of three stages (`Stage`): not stored or stored and
unanswered; stored, PUBREC received, so that a PUBREL will find it; or routed, so that
nothing is stored and nothing in transit could store it again. Because TCP keeps the
order, a stage is a condition on which packets of the identifier are in which channel,
stated by `Waits`, `Holds` and `Routed`; an identifier that is not in use has no traces at all
(`Free`). A broken connection empties the channels and keeps the stage. Each step of the
broker is described first by what it does to the inbound entries of the list
(`SameInbound`) and by the packets it sends (`Plain`), so one lemma covers all the
actions that leave the handshake alone.

The argument for the broker's messages (`RInv`) follows one message whose identifier no
other one has and under which the client was not sent its own. What is in the list, in
transit and held is what was queued (`Listed`, `Genuine`, `Answer`, `Holding`); before the
application has it, it is in the list, no PUBACK or PUBCOMP of its identifier is in
transit, and as soon as the broker can think that the client holds it, the client does
(`OnTheWay`). For QoS 2, once the application has it or PUBREL is on its way, it is not
published again, nor is a PUBLISH of it behind a PUBREL (`OnlyOnce`); the reset of a PUBREL
(`redone`) is the one step that breaks this, and is the exception the property names. Both
invariants were checked with TLC before they were proved. The first attempt was refuted
there: with two messages each way and a window of two, `LostOnlyIfReused` (the property as
it was stated first) is false, by the echo that section 4 describes under *Queue*; `returned` and
`Shared` name that case.

`Sessions_proofs` proves, for every set of addresses and of identifiers, any files, every
`MaxClients`, and any number of connections, takeovers, expiries and reloads:

| theorem | says |
|---|---|
| `PointersTrue` | `Spec => []TypeOK` |
| `OwnedOnce` | `Spec => []OneOwner` |
| `ConnectionsCounted` | `Spec => []CountExact` |
| `GrantsHold` | `Spec => []GrantsKept` |
| `SessionsPromised` | `Spec => KeepsSessions`: `Sessions` implements `SessionService`, each event by the step that `AsPromised` names; a will is published exactly when its connection fails and the client has the right |
| `FilesRead` | `SecurityInit` gives for every pair of files what they mean |

Assumptions, stated in `Sessions`: the identifiers that websockets may use are identifiers,
the absence of one is none, files are well formed, `MaxClients` and `MaxConn` are natural
numbers.

The argument. `Good` says of every context that its fields and the structures agree
(`Fit`) and who owns it (`Owned`: it is on the disused list exactly when it is closed, not
in the hands of libwebsockets and clean; then it has no identifier, and the list names it
once). `DoDisconnect` is the only operation that puts a context on that list, and
`DisconnectGood` is the heart of the proof: for a context that is not on the list and not
disconnected (`Closable`), whatever its own flags say, it leaves everything `Good`.
Takeover, expiry, reload, DISCONNECT and the closing of a websocket first mark a context,
so that it alone is not as `Owned` says, and call `DoDisconnect` at once (`MarkDisconnect`).
Two strengthenings are not among the properties: `OneEach` (an identifier that only TCP uses
has one context; a takeover ends the old one because it cannot be a websocket) and `Fresh`
(a context without a CONNECT has no subscription; without it the inherited ones could
overwrite its own). The loops of the code (freeing, expiry, applying new rights) are
functions on an index (`Each`), and keep what each step keeps (`LoopKeeps`) because no list
names a context twice; that rests on the least number principle (`Least`), which is proved
by the ranks of a finite set of numbers. The invariant was checked with TLC on the instance
of `sessions` before it was proved.

`FilesRead` is about the two files, of any length, with errors anywhere: `Meaning` says
without a loop whom they let in and whom they grant what (`UserOf` a line is the last
`user` line before it; an entry is granted to a user by some line before the first torn
one), and the reading by lines finds just that. The reading is a loop on the index of the
line; that what it has collected after `n` lines is what the first `n` lines say is kept
by each line (`ParseKeeps`).

`SessionsPromised` is the refinement. `SessionService` has no contexts, so the proof needs of
them more than `Good` says (`Calm`): no two contexts have one will, and one without an
identifier has none (`WillsOnce`), or a will could go out a second time from the context that
was taken over; a context without a CONNECT has neither messages nor a lost queue (`Blank`),
or a takeover could mix them with those inherited; the rights a context carries are those its
identifier has in the lists in force (`RightsIn`), since the promise asks the files and the
code asks the context; a context whose end has been dealt with has no will left, and none whose
socket is open is already `disconnecting` (`Orderly`), or its failure would lose the will.
Each function on contexts is described once by what it leaves of every field that a session
shows (`Shown`, `Apart`, `Quit`), for the database in the middle of a handler, and the
map of sessions of such a database is `Sess(d)`. Then one lemma for each event (`DropStep`,
`WsClosedStep`, `RefuseStep`, `HandleConnectStep`, `ExpireStep`, `ReloadStep`, ...) finds the
promised step: a will that is published changes the queues of all that hear it at once,
`Failed` for an identifier of the promise and `Other` for any other; an expiry and a reload
end several sessions in a loop of the code and in one step of the promise (`OnlyFacts`,
`ApplyExact`). That each step is the one `AsPromised` asks for is the same case by case
(`NextAsPromised`). `FilesRead` gives the files in force. The attempt corrected the promise: a
right that the ACL gives to a user who is not let in is nobody's (`May`), and patterns
survive a reload behind an empty list, where the instance had been restricted to files for
which that does not happen. With both corrected the run `sessions` covers such files as well.

`ClientLib_proofs` proves, for every set of messages with any QoS, any inbound messages,
every `max_inflight_messages` (0 included) and any number of faults:

| theorem | says |
|---|---|
| `Typed` | `Spec => []TypeOK` |
| `Remembered` | `Spec => []NeverForgotten` |
| `WindowKeeps` | `Spec => []WindowHolds` |
| `TwiceIfRedone` | `Spec => []TwiceOnlyIfRedone` |
| `Passed` | `Spec => []PassedOnce` |
| `GivesUp` | `Spec => []GivesUpOnlyIfLate` |

Assumptions, stated in `ClientLib`: the order of the messages names each once, their number
is below 65536 (an identifier is given once: `last_mid` does not come round), the
identifiers of inbound messages are distinct.

The argument (`Inv`) follows an identifier from the packets in the client's queue over those in
transit to the broker and those in transit back, which are one queue. Every packet is one
that the state of its sender explains, then or now (`UpOK`, `DownOK`: a PUBACK names a
message that the broker has; a PUBREL, one that it has if the client still holds it). With
that, `Account` says where each message is: not published yet, in the queue, or reported
once and at the broker, which is `NeverForgotten`. The window needs more than its property:
`WindowHolds` counts messages that are not waiting, but an acknowledgement of a message
that a reconnection pushed out of the window lowers the counter too. `Committed` therefore
also counts a waiting message that has a packet in transit, or that the application's thread
is about to send; this number is at most `inflight_messages`, so each acknowledgement that
lowers the counter lowers it too. That the counter stays below twice the number
of messages needs the messages still to be published in the sum (`Window`). `Outwards` is the QoS 2
handshake by the order of packets, as in `ClientDelivery_proofs`, with two exceptions:
what a reconnection starts again, and, since the application's thread may send a message
whose handshake is over by then, everything from then on (`late`). `Inwards` is the
other direction. There is one lemma for each action; the promotion of waiting messages is
a loop whose steps keep `Inv` (`SendNextKeeps`, `PromoteKeeps`). `Inv` was
checked with TLC on the instance of `client_lib` before it was proved.

`Bridge_proofs` proves, for every number of addresses, every set of topics in each
direction, every configuration and every bound on faults, reloads, takeovers and messages:

| theorem | says |
|---|---|
| `StateMessageTrue` | `Spec => NotificationTrue`: the message says 1 while the bridge is connected and 0 from every end of a connection that neither a reload nor a takeover makes |
| `TopicsAsConfigured` | `Spec => []FlowsAsConfigured` |

Assumptions, stated in `Bridge`: topics are bridged in or out, former subscriptions
are among them, there is an address, configurations have their fields. The
argument: `Inv` adds to `FlowsAsConfigured` the types, `SaysOne` (who is connected has said
so), `Sockets` (a socket comes with the will and in one of three states, `disconnecting` not
among them; a context that was ended or never started has none; without it `DoDisconnect`
could end a connection silently and leave the message at 1) and `CleanStart` (between CONNACK
and the requests a clean session has no subscriptions at the address; without it the
requests would leave old ones). `NotificationTrue` is an action property: every step from a
state with `Inv` keeps it and is as `Told` says. Every action either leaves no socket, a socket
that is not connected yet, or the connection as it was (`WithoutSocket`, `WithSocket`,
`SameConnection`), except the CONNACK and the requests, and `ReloadRefuses` and `TakenOver`,
which `Told` excepts; these have steps of their own.

`Services_proofs` proves of the console and the collector, for every set of messages, any
number of connections, imports, removals, collections and crashes, and every order in
which the database answers:

| theorem | says |
|---|---|
| `DataStoredOnce` | `Spec => []StoredOnce` |
| `DevicesListed` | `Spec => []ListTrue` |
| `ScheduleConsistent` | `Spec => []Consistent` |

Assumptions, stated in `SmartCloud` (`SmartCloudAssumption`): messages have their fields, the
list of devices is a list or the missing document to begin with, and no device is called
what stands for that document. `PublicData` needs none. The list may name a device twice
to begin with, since an earlier process can have left it so; such a device is excepted.

The argument. The calls under way are a bag. `BagFacts`, `AddEach`, `RemoveFacts` and
`OrphanedFacts` say how many copies of a call there are after each thing that happens to it, and
nothing else about bags is used. None of the three properties is inductive: each
speaks of what the database holds when the calls are done. For the console (`ScInv`),
`StoresTrue` follows a datum that is received once from the inbox over its call into the
database, with at most one of the three holding it, and `DeviceTrue` a device whose
registrations do not overlap: at most one call is under way for it, live, with the value it
registered last; an `update` finds the device in the list, a `push` does not, and without a
call the list has the value. For the collector (`PdInv`), `Agrees` lists the calls that may be
under way together for one datum: a job being made (`every`) has its document or the call for it,
a document being made has its job or the call for it, neither is with a cancellation, and a
job is gone before its document is changed (`flag`). Between the start and the answer to
the two calls about all data it holds instead that no datum has a call, that a job there
is will be purged, and that nothing is taken from the list yet (`DatumTrue`): the purge is
waited for by nobody, and a datum scheduled while it is under way is one that `overtaken` names. A
crash orphans the calls, and the next start notes what they are about. Both invariants were checked with
TLC on the instance of `services` before they were proved.

`Routing_proofs` proves of the broker's database, for every set of clients, topics and
filters, all limits, every ACL and any number of messages, restarts, full disks and torn
files:

| theorem | says |
|---|---|
| `RoutingTyped` | `Spec => []TypeOK` |
| `ReferencesExact` | `Spec => []RefCountsExact` |
| `IndexTrue` | `Spec => []IndexAgrees` |
| `NoIdleNodes` | `Spec => []FiltersPruned` |

Assumptions, stated in `Routing` (`RoutingAssumption`): topics and filters are non-empty
sequences of levels, what is subscribed and published is made of them, limits and bounds
are natural numbers. `Filters` may hold filters that are not valid; they are refused.

The argument. `RefCountsExact` is not inductive, not even one function at a time: while a
message is routed or unlinked the step holds a reference that is in no structure.
`Good(d, x)` therefore says of a database `d` what holds while the step has `x[id]`
references of message `id` in its hands: the types and the shape of the tree (`Shape`: the parent of a node is a
node and lists it among its children, once; nodes on which nothing hangs are on the way
to a topic), the index (`Indexed`), the counters of the queues
(`Counted`), the references (`Exact`) and that a message is retained at the node of its
own topic (`KeptTrue`). Between steps `x` is `Zero`, and `Good(db, Zero)` with
`FileGood(file)` is the inductive invariant, `DatabaseTrue`. It holds in the states of the
instances of `routing` and `restart`, checked with TLC before it was proved.

There is one lemma for each function of the code, which takes a good database to a good
one and says what it does to `x`: `Store`, `Insert` (a reference for each
subscriber), `Deref` (the message is freed when the last reference goes, which nothing
points to then), `Unlink`, `SubAdd`, `SubRemove` and its pruning up the path, `Forget`,
`Retain`, `SubsProcess`, `RetainQueue`. Loops are `Each`, and keep what their steps keep
(`LoopKeeps`) as long as what they have not reached yet is as they found it: `Forget`
walks a queue whose references `x` has counted in advance; the search collects the leaves before the
first subscriber gets its message, so that the tree does not change under it.

What a restart reads is the difficult half. The restore sets each counter to the number of
references in the queues of the file, then goes through its chunks, subscriptions and
retained messages, and a retained message that replaces another frees that one if nothing else
refers to it. If the file retained one message at two nodes, a chunk in between could free
what a later one needs. It does not (`FileGood`), because a node retains a message only if it
is the node of its topic, and because the backup, which walks the tree by recursion, writes
every node once: `WriteOrderFacts`, by induction on the depth of a node, and
`FlattenFacts` on the lists that the recursion puts one behind the other.

The rights of a reader are checked by a scan of its own, so MQTT's matching, which the tree
implements, is written twice in the broker. `Routing_proofs` compares the two:

| theorem | says |
|---|---|
| `ScanSound` | what `TopicMatchesSub` accepts, `PubSub`'s `Matches` accepts |
| `ScanComplete` | the converse, but for the topics of `EmptyRest` and `ParentByPlus` |
| `RightsCover` | with an ACL, who is not in `Denied` has an entry that covers the topic |

They are about all patterns and all topics without wildcards, sequences of levels of any
length, and assume that no wildcard begins with `$`. The argument is by the three ways
in which the scan can succeed.

Only model-checked, and why. Liveness (`PublishesOnce`'s fairness, `Delivered`,
`Reclaimed`, `DisconnectEnds`, `ComesToRest`, `Reconnects`) is out of the prover's reach.
Not proved: that `Routing` implements `PubSub` (`KeepsPromise`), which needs of the recursive search that it finds the nodes of the
matching filters and no other. What a fold of the library computes for every input needs induction over data, which no installed prover can
instantiate; a loop can be proved about when it is written as a function on an index, as
those of `MsgList`, `Routing`, `Sessions` and `ClientLib` are.


## 6. Not modelled, and what could follow

Not modelled: the parsing of the configuration, and files and
packets at the level of bytes; logging, `$SYS` and the autosave timer; TLS, SOCKS,
SRV; the remapping of bridge topics; the command line clients; the dashboard. They
are sequential code or input and output, whose results are the constants and the
choices of the models. Not composed: `Routing` and `ClientMsgs` meet in one function,
`mqtt3_db_message_insert`, which each models from its side (references there, states
here); `ClientLib` has a broker that follows the protocol, `ClientDelivery` a client
that does.

What could follow, in order: a run on the retry of the broker against `ClientLib` in
the place of its well-behaved broker; the identifiers of websockets in
`SessionService`, with the promise that they can have; a proof that the recursive search
of `TopicTree` finds what `Matches` says, and from it the steps of `KeepsPromise`.

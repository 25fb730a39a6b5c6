------------------------------- MODULE ClientLib -------------------------------
(***************************************************************************)
(* The client library in threaded use: mosquitto_loop_start runs           *)
(* mosquitto_loop_forever in a thread, which reads, writes, retries and    *)
(* reconnects, while a thread of the application publishes and             *)
(* disconnects (lib/mosquitto.c, lib/messages_mosq.c, lib/read_handle*.c,  *)
(* lib/net_mosq.c).  The broker at the other end keeps the session and     *)
(* follows the protocol; connections break with what is in transit, by a   *)
(* reset or in silence.                                                    *)
(*                                                                         *)
(* The two threads meet in struct mosquitto.  A call of the application    *)
(* that takes the mutexes one after the other is a step for each.          *)
(***************************************************************************)
EXTENDS Integers, Sequences, FiniteSets, SequencesExt, Lists

CONSTANTS
  Msg,            \* what the application publishes, in the order given by MsgOrder
  MsgOrder,
  Qos,            \* their QoS
  Inbound,        \* what the broker publishes to the client with QoS 2
  InMid,          \* their identifiers
  max_inflight_messages,  \* 0: no maximum
  MaxFaults       \* bound: connections that break or cannot be made, and timers that expire
                  \* although an answer is on its way

ASSUME ClientLibAssumption ==
  /\ MsgOrder \in Seq(Msg) /\ Range(MsgOrder) = Msg /\ IsInjective(MsgOrder)
  /\ Len(MsgOrder) < 65536  \* bound: an identifier is given once
  /\ Qos \in [Msg -> 0..2]
  /\ IsFiniteSet(Inbound) /\ InMid \in [Inbound -> Nat] /\ IsInjective(InMid)
  /\ max_inflight_messages \in Nat
  /\ MaxFaults \in Nat
  /\ {"none", "garbage1", "garbage2"} \cap (Msg \cup Inbound) = {}

VARIABLES
  mosq,    \* struct mosquitto
  loop,    \* where the thread in mosquitto_loop_forever is
  app,     \* the application's thread, and what its callbacks were told
  net,     \* the connection: what is on its way, and whether it still carries
  broker,  \* the other end
  seen     \* what happened: faults, and the cases that the properties except

vars == <<mosq, loop, app, net, broker, seen>>

Packet(t, mid, m) == [t |-> t, mid |-> mid, m |-> m]
Plain(t) == Packet(t, 0, "none")

\* the bytes of a message that has been freed; its QoS is read from the header
Garbage(qos) == IF qos = 1 THEN "garbage1" ELSE "garbage2"
QosOf(m) ==
  CASE m = "garbage1" -> 1 [] m = "garbage2" -> 2 [] OTHER -> Qos[m]

------------------------------------------------------------------------------
(* Queues of messages. *)

Position(q, mid) == SelectInSeq(q, LAMBDA e : e.mid = mid)
Room(c) == max_inflight_messages = 0 \/ c.inflight < max_inflight_messages

FirstState(qos) == IF qos = 1 THEN "wait_for_puback" ELSE "wait_for_pubrec"

\* _mosquitto_packet_queue of a client whose loop is a thread
PacketQueue(c, p) == [c EXCEPT !.packets = Append(@, p)]

\* _mosquitto_send_publish and the other senders of packets with an identifier
SendPublish(c, e) ==
  IF c.sock THEN PacketQueue(c, Packet("PUBLISH", e.mid, e.m)) ELSE c

\* Mutant of MessageQueue: the window is not looked at
QueueUnlimited(c, mid, m) ==
  LET e == [mid |-> mid, m |-> m, due |-> FALSE, state |-> FirstState(Qos[m])]
  IN  [c EXCEPT !.out = Append(@, e), !.inflight = @ + 1]

\* _mosquitto_message_queue, with the state that mosquitto_publish then gives the message
MessageQueue(c, mid, m) ==
  LET e == [mid |-> mid, m |-> m, due |-> FALSE,
            state |-> IF Room(c) THEN FirstState(Qos[m]) ELSE "invalid"]
  IN  [c EXCEPT !.out = Append(@, e), !.inflight = @ + IF Room(c) THEN 1 ELSE 0]

\* Mutant of ReconnectReset: a QoS 2 message starts again
ResetStartsAgain(c) ==
  LET Within(i) == max_inflight_messages = 0 \/ i < max_inflight_messages
      State(i) == IF Within(i) THEN FirstState(Qos[c.out[i].m]) ELSE "invalid"
  IN  [c EXCEPT !.in = [i \in DOMAIN c.in |-> [c.in[i] EXCEPT !.due = TRUE]],
                !.out = [i \in DOMAIN c.out |-> [c.out[i] EXCEPT !.due = TRUE, !.state = State(i)]],
                !.inflight = Len(c.out)]

\* _mosquitto_messages_reconnect_reset: every message is counted before it is compared
ReconnectReset(c) ==
  LET Within(i) == max_inflight_messages = 0 \/ i < max_inflight_messages
      Reset(e, i) == [e EXCEPT !.due = TRUE,
                               !.state = IF ~Within(i) THEN "invalid"
                                         ELSE IF Qos[e.m] = 1 THEN "wait_for_puback" ELSE @]
  IN  [c EXCEPT !.in = [i \in DOMAIN c.in |-> [c.in[i] EXCEPT !.due = TRUE]],
                !.out = [i \in DOMAIN c.out |-> Reset(c.out[i], i)],
                !.inflight = Len(c.out)]

\* the message at i gets another state
SetState(c, i, state) ==
  [c EXCEPT !.out = [c.out EXCEPT ![i] = [c.out[i] EXCEPT !.state = state]]]

\* the message at i is sent if it waits and there is room
SendNext(c, i) ==
  IF Room(c) /\ c.out[i].state = "invalid"
  THEN SendPublish([SetState(c, i, FirstState(Qos[c.out[i].m])) EXCEPT !.inflight = @ + 1], c.out[i])
  ELSE c

\* the loop after a removal: messages are sent as long as there is room
Promote(c) == Each(SendNext, c, [i \in DOMAIN c.out |-> i])

\* Mutant of MessageRemove: the message behind the one with the identifier goes
RemoveHeadOnly(c, mid) ==
  Promote([c EXCEPT !.out = Tail(@), !.inflight = @ - 1])

\* _mosquitto_message_remove, outgoing, of an identifier that is in the queue
MessageRemove(c, mid) ==
  Promote([c EXCEPT !.out = RemoveAt(@, Position(@, mid)), !.inflight = @ - 1])

------------------------------------------------------------------------------
(* Packets from the broker.  Each handler returns the client, and what the   *)
(* callbacks are told: a message that is published, a message that arrived.  *)

Quiet == "none"
Handled(c, told, passed) == [c |-> c, told |-> told, passed |-> passed, rc |-> "success"]

\* Mutant of HandleConnack: a disconnect that is under way is forgotten
ConnackConnects(c) == [Handled(c, Quiet, Quiet) EXCEPT !.rc = "accepted"]

\* The test of the state, without its mutex; the assignment that follows it is a step of its own.
HandleConnack(c) ==
  [Handled(c, Quiet, Quiet) EXCEPT !.rc = IF c.state = "disconnecting" THEN "success" ELSE "accepted"]

\* Mutant of HandlePubackcomp: the message is only marked
PubackMarks(c, mid) ==
  IF Position(c.out, mid) = 0 THEN Handled(c, Quiet, Quiet)
  ELSE Handled(SetState(c, Position(c.out, mid), "wait_for_pubcomp"),
               c.out[Position(c.out, mid)].m, Quiet)

\* PUBACK and PUBCOMP: the application is told once
HandlePubackcomp(c, mid) ==
  IF Position(c.out, mid) = 0 THEN Handled(c, Quiet, Quiet)
  ELSE Handled(MessageRemove(c, mid), c.out[Position(c.out, mid)].m, Quiet)

\* Mutant of HandlePubrec: the message is taken for acknowledged
PubrecRemoves(c, mid) ==
  IF Position(c.out, mid) = 0 THEN [Handled(c, Quiet, Quiet) EXCEPT !.rc = "not_found"]
  ELSE Handled(MessageRemove(PacketQueue(c, Packet("PUBREL", mid, "none")), mid),
               c.out[Position(c.out, mid)].m, Quiet)

\* an identifier that is not in the queue is an error on which the loop gives up
HandlePubrec(c, mid) ==
  LET i == Position(c.out, mid)
      e == [c.out[i] EXCEPT !.state = "wait_for_pubcomp", !.due = FALSE]
      d == [c EXCEPT !.out = [c.out EXCEPT ![i] = e]]
  IN  IF i = 0 THEN [Handled(c, Quiet, Quiet) EXCEPT !.rc = "not_found"]
      ELSE Handled(PacketQueue(d, Packet("PUBREL", mid, "none")), Quiet, Quiet)

\* _mosquitto_handle_publish, QoS 2: queued, whether or not it is queued already
HandlePublish(c, mid, m) ==
  Handled([PacketQueue(c, Packet("PUBREC", mid, "none")) EXCEPT
             !.in = Append(@, [mid |-> mid, m |-> m, due |-> FALSE])], Quiet, Quiet)

\* Mutant of HandlePubrel: the message stays in the queue
PubrelKeeps(c, mid) ==
  LET i == Position(c.in, mid)
      d == PacketQueue(c, Packet("PUBCOMP", mid, "none"))
  IN  IF i = 0 THEN Handled(d, Quiet, Quiet) ELSE Handled(d, Quiet, c.in[i].m)

HandlePubrel(c, mid) ==
  LET i == Position(c.in, mid)
      d == PacketQueue(c, Packet("PUBCOMP", mid, "none"))
  IN  IF i = 0 THEN Handled(d, Quiet, Quiet)
      ELSE Handled([d EXCEPT !.in = RemoveAt(@, i)], Quiet, c.in[i].m)

PacketHandle(c, p) ==
  CASE p.t = "CONNACK" -> HandleConnack(c)
    [] p.t \in {"PUBACK", "PUBCOMP"} -> HandlePubackcomp(c, p.mid)
    [] p.t = "PUBREC" -> HandlePubrec(c, p.mid)
    [] p.t = "PUBLISH" -> HandlePublish(c, p.mid, p.m)
    [] p.t = "PUBREL" -> HandlePubrel(c, p.mid)
    [] p.t = "PINGRESP" -> Handled([c EXCEPT !.ping_t = FALSE], Quiet, Quiet)

------------------------------------------------------------------------------
(* The start: mosquitto_connect, then mosquitto_loop_start. *)

NewMosq ==
  [state |-> "new", sock |-> TRUE, ping_t |-> FALSE, packets |-> <<Plain("CONNECT")>>,
   out |-> <<>>, in |-> <<>>, inflight |-> 0, last_mid |-> 0]

NewNet == [up |-> <<>>, down |-> <<>>, link |-> "open"]

Init ==
  /\ mosq = NewMosq
  /\ loop = "loop"
  /\ app = [pc |-> "idle", todo |-> MsgOrder, sends |-> <<>>, handed |-> {},
            calls |-> 1, told |-> [m \in Msg |-> 0], passed |-> [i \in Inbound |-> 0]]
  /\ net = NewNet
  /\ broker = [met |-> FALSE, stored |-> {}, got |-> [m \in Msg |-> 0],
               phase |-> [i \in Inbound |-> "idle"]]
  /\ seen = [faults |-> 0, redone |-> {}, stale |-> {}, overfull |-> FALSE, late |-> FALSE]

------------------------------------------------------------------------------
(* The thread of the application. *)

\* mosquitto_publish up to the release of out_message_mutex; QoS 0 is sent from here
Publish ==
  /\ app.pc = "idle" /\ app.todo # <<>>
  /\ LET m == Head(app.todo)
         mid == mosq.last_mid + 1
         c == [mosq EXCEPT !.last_mid = mid]
     IN  IF Qos[m] = 0
         THEN /\ mosq' = SendPublish(c, [mid |-> mid, m |-> m])
              /\ app' = [app EXCEPT !.todo = Tail(@),
                                    !.handed = IF c.sock THEN @ \cup {m} ELSE @]
         ELSE /\ mosq' = MessageQueue(c, mid, m)
              /\ app' = [app EXCEPT !.todo = Tail(@), !.handed = @ \cup {m},
                                    !.pc = IF Room(c) THEN "send" ELSE "idle",
                                    !.sends = IF Room(c) THEN <<[mid |-> mid, m |-> m]>> ELSE <<>>]
  /\ UNCHANGED <<loop, net, broker, seen>>

\* ... and _mosquitto_send_publish of the message, which the loop may have sent and freed by now
PublishSend ==
  /\ app.pc = "send"
  /\ LET e == Head(app.sends)
         freed == Position(mosq.out, e.mid) = 0
         late == freed \/ mosq.out[Position(mosq.out, e.mid)].state = "wait_for_pubcomp"
     IN  /\ \E m \in {e.m} \cup (IF freed THEN {Garbage(Qos[e.m])} ELSE {}) :
              mosq' = SendPublish(mosq, [e EXCEPT !.m = m])
         /\ seen' = [seen EXCEPT !.late = @ \/ late]
  /\ app' = [app EXCEPT !.pc = "idle", !.sends = <<>>]
  /\ UNCHANGED <<loop, net, broker>>

\* mosquitto_disconnect: the state, and then the packet.
\* bound: after the last message, before the broker publishes, and before the last fault
Disconnect ==
  /\ app.pc = "idle" /\ app.calls > 0 /\ app.todo = <<>> /\ seen.faults < MaxFaults
  /\ \A i \in Inbound : broker.phase[i] = "idle"
  /\ mosq' = [mosq EXCEPT !.state = "disconnecting"]
  /\ app' = [app EXCEPT !.pc = "disconnect", !.calls = @ - 1]
  /\ UNCHANGED <<loop, net, broker, seen>>

DisconnectSend ==
  /\ app.pc = "disconnect"
  /\ mosq' = IF mosq.sock THEN PacketQueue(mosq, Plain("DISCONNECT")) ELSE mosq
  /\ app' = [app EXCEPT !.pc = "idle"]
  /\ UNCHANGED <<loop, net, broker, seen>>

------------------------------------------------------------------------------
(* The thread in mosquitto_loop_forever. *)

Running == loop = "loop" /\ mosq.sock

\* packet_read and packet_handle; what the callbacks are told
Read ==
  /\ Running /\ net.down # <<>>
  /\ LET p == Head(net.down)
         h == PacketHandle(mosq, p)
     IN  /\ mosq' = IF h.rc = "not_found" THEN [h.c EXCEPT !.sock = FALSE] ELSE h.c
         /\ app' = [app EXCEPT !.told = [m \in Msg |-> app.told[m] + IF m = h.told THEN 1 ELSE 0],
                               !.passed = [i \in Inbound |-> app.passed[i] + IF i = h.passed THEN 1 ELSE 0]]
         /\ loop' = CASE h.rc = "accepted" -> "connack"
                       [] h.rc = "not_found" /\ mosq.state # "disconnecting" -> "gave up"
                       [] OTHER -> loop
         /\ seen' = [seen EXCEPT !.stale = @ \cup {i \in {p.m} \cap Inbound : Position(mosq.in, p.mid) # 0}]
  /\ net' = [net EXCEPT !.down = Tail(@)]
  /\ UNCHANGED broker

\* what _mosquitto_handle_connack assigns after its test
ConnackAssign ==
  /\ loop = "connack"
  /\ mosq' = [mosq EXCEPT !.state = "connected"]
  /\ loop' = "loop"
  /\ UNCHANGED <<app, net, broker, seen>>

\* packet_write; on_publish of QoS 0 and the end after DISCONNECT
Write ==
  /\ Running /\ mosq.packets # <<>> /\ net.link # "reset"
  /\ LET p == Head(mosq.packets)
         qos0 == p.m \in Msg /\ Qos[p.m] = 0
     IN  /\ mosq' = [mosq EXCEPT !.packets = Tail(@), !.sock = p.t # "DISCONNECT"]
         /\ app' = [app EXCEPT !.told = [m \in Msg |-> app.told[m] + IF qos0 /\ m = p.m THEN 1 ELSE 0]]
         /\ net' = IF net.link = "open" THEN [net EXCEPT !.up = Append(@, p)] ELSE net
  /\ UNCHANGED <<loop, broker, seen>>

\* a read or a write that fails: _mosquitto_loop_rc_handle
ConnLost ==
  /\ Running /\ net.link = "reset"
  /\ mosq' = [mosq EXCEPT !.sock = FALSE]
  /\ UNCHANGED <<loop, app, net, broker, seen>>

\* a timer runs out where nothing more comes, or early
Expired(silence) ==
  \/ silence /\ seen' = seen
  \/ ~silence /\ seen.faults < MaxFaults /\ seen' = [seen EXCEPT !.faults = @ + 1]

\* bound: mosquitto_publish is not held up for the time of a retry
Calm == app.pc # "send" /\ mosq.packets = <<>> /\ net.up = <<>> /\ net.down = <<>>

\* nothing arrives for the time of keepalive; a client that is connected and idle is left out,
\* since its PINGREQ would only be answered
Unanswered ==
  \/ net.link = "silent" /\ net.down = <<>>
  \/ mosq.state # "connected" /\ Calm

\* _mosquitto_check_keepalive, and the wait for PINGRESP in mosquitto_loop_misc
CheckKeepalive ==
  /\ Running /\ Expired(Unanswered)
  /\ mosq' = IF mosq.state = "connected" /\ ~mosq.ping_t
             THEN [PacketQueue(mosq, Plain("PINGREQ")) EXCEPT !.ping_t = TRUE]
             ELSE [mosq EXCEPT !.sock = FALSE]
  /\ UNCHANGED <<loop, app, net, broker>>

\* the packet that asks again for what a message waits for
Again(e) ==
  IF e.state = "wait_for_pubcomp" THEN Packet("PUBREL", e.mid, "none") ELSE Packet("PUBLISH", e.mid, e.m)

\* Mutant of Resend: only publications are sent again
ResendPublish(c, due) ==
  LET outs == SelectSeq(c.out, LAMBDA e : e.state = "wait_for_puback" /\ (due \/ e.due))
      Done(e) == [e EXCEPT !.due = @ /\ e.state = "invalid"]
  IN  [c EXCEPT !.packets = @ \o [i \in DOMAIN outs |-> Again(outs[i])],
                !.out = [i \in DOMAIN c.out |-> Done(c.out[i])]]

\* _mosquitto_message_retry_check
Resend(c, due) ==
  LET outs == Those(c.out, {i \in DOMAIN c.out : c.out[i].state # "invalid" /\ (due \/ c.out[i].due)})
      ins == Those(c.in, {i \in DOMAIN c.in : due \/ c.in[i].due})
      Done(e) == [e EXCEPT !.due = @ /\ e.state = "invalid"]
  IN  [c EXCEPT !.packets = @ \o [i \in DOMAIN outs |-> Again(outs[i])]
                              \o [i \in DOMAIN ins |-> Packet("PUBREC", ins[i].mid, "none")],
                !.out = [i \in DOMAIN c.out |-> Done(c.out[i])],
                !.in = [i \in DOMAIN c.in |-> [c.in[i] EXCEPT !.due = FALSE]]]

\* the messages that a reconnection made due are sent by the next check, others after message_retry
RetryCheck ==
  /\ Running
  /\ \/ mosq' = Resend(mosq, FALSE) /\ seen' = seen
     \/ mosq' = Resend(mosq, TRUE) /\ Expired(Calm)
  /\ mosq' # mosq
  /\ UNCHANGED <<loop, app, net, broker>>

\* mosquitto_loop without a socket: MOSQ_ERR_NO_CONN, and the tests of the state
Closed ==
  /\ loop = "loop" /\ ~mosq.sock
  /\ loop' = IF mosq.state = "disconnecting" THEN "ended" ELSE "reconnecting"
  /\ UNCHANGED <<mosq, app, net, broker, seen>>

\* _mosquitto_reconnect before the socket
Reconnect(c) == [ReconnectReset([c EXCEPT !.packets = <<>>]) EXCEPT !.state = "new", !.ping_t = FALSE]

ReconnectStart ==
  /\ loop = "reconnecting"
  /\ mosq' = Reconnect(mosq)
  /\ loop' = "connecting"
  /\ LET n == Len(mosq.out)
         Lost(e) == e.state = "wait_for_pubcomp" /\ mosq'.out[Position(mosq.out, e.mid)].state = "invalid"
     IN  seen' = [seen EXCEPT !.redone = @ \cup {e.m : e \in {x \in Range(mosq.out) : Lost(x)}},
                              !.overfull = @ \/ (max_inflight_messages > 0 /\ n > 2 * max_inflight_messages - 2)]
  /\ UNCHANGED <<app, net, broker>>

\* _mosquitto_socket_connect; after a failure mosquitto_loop_forever tests the state again
SocketConnect ==
  /\ loop = "connecting"
  /\ \/ /\ mosq' = [mosq EXCEPT !.sock = TRUE]
        /\ net' = NewNet
        /\ broker' = [broker EXCEPT !.met = FALSE]
        /\ loop' = "greeting"
        /\ seen' = seen
     \/ /\ seen.faults < MaxFaults
        /\ seen' = [seen EXCEPT !.faults = @ + 1]
        /\ loop' = "loop"
        /\ UNCHANGED <<mosq, net, broker>>
  /\ UNCHANGED app

\* _mosquitto_send_connect
SendConnect ==
  /\ loop = "greeting"
  /\ mosq' = PacketQueue(mosq, Plain("CONNECT"))
  /\ loop' = "loop"
  /\ UNCHANGED <<app, net, broker, seen>>

------------------------------------------------------------------------------
(* The connection and the broker. *)

Break(how) ==
  /\ net.link = "open" /\ seen.faults < MaxFaults
  /\ net' = [up |-> <<>>, down |-> <<>>, link |-> how]
  /\ seen' = [seen EXCEPT !.faults = @ + 1]
  /\ UNCHANGED <<mosq, loop, app, broker>>

\* what is still unfinished is sent again when the client comes back
Pending(b) ==
  LET Wants(i) == b.phase[i] \in {"sent", "released"}
  IN  SetToSeq({Packet(IF b.phase[i] = "sent" THEN "PUBLISH" ELSE "PUBREL", InMid[i],
                       IF b.phase[i] = "sent" THEN i ELSE "none") : i \in {x \in Inbound : Wants(x)}})

Answer(p, b) ==
  CASE p.t = "CONNECT" -> <<Plain("CONNACK")>> \o Pending(b)
    [] p.t = "PUBLISH" /\ QosOf(p.m) = 1 -> <<Packet("PUBACK", p.mid, "none")>>
    [] p.t = "PUBLISH" /\ QosOf(p.m) = 2 -> <<Packet("PUBREC", p.mid, "none")>>
    [] p.t = "PUBREL" -> <<Packet("PUBCOMP", p.mid, "none")>>
    [] p.t = "PUBREC" -> <<Packet("PUBREL", p.mid, "none")>>
    [] p.t = "PINGREQ" -> <<Plain("PINGRESP")>>
    [] OTHER -> <<>>

Learn(p, b) ==
  CASE p.t = "CONNECT" -> [b EXCEPT !.met = TRUE]
    [] p.t = "PUBLISH" /\ p.m \in Msg /\ (Qos[p.m] # 2 \/ p.mid \notin b.stored) ->
         [b EXCEPT !.got[p.m] = IF @ = 2 THEN 2 ELSE @ + 1,
                   !.stored = IF Qos[p.m] = 2 THEN @ \cup {p.mid} ELSE @]
    [] p.t = "PUBREL" -> [b EXCEPT !.stored = @ \ {p.mid}]
    [] p.t = "PUBREC" -> [b EXCEPT !.phase = [i \in Inbound |->
                            IF InMid[i] = p.mid /\ b.phase[i] = "sent" THEN "released" ELSE b.phase[i]]]
    [] p.t = "PUBCOMP" -> [b EXCEPT !.phase = [i \in Inbound |->
                            IF InMid[i] = p.mid THEN "done" ELSE b.phase[i]]]
    [] OTHER -> b

\* a connection must begin with CONNECT, and ends with DISCONNECT
BrokerRead ==
  /\ net.up # <<>>
  /\ LET p == Head(net.up)
     IN  IF broker.met = (p.t = "CONNECT") \/ p.t = "DISCONNECT"
         THEN /\ net' = [up |-> <<>>, down |-> net.down, link |-> "reset"]
              /\ broker' = broker
         ELSE /\ net' = [net EXCEPT !.up = Tail(@), !.down = @ \o Answer(p, broker)]
              /\ broker' = Learn(p, broker)
  /\ UNCHANGED <<mosq, loop, app, seen>>

\* bound: after the last message of the application, and unless it disconnects
BrokerSend(i) ==
  /\ broker.met /\ net.link = "open" /\ broker.phase[i] = "idle" /\ Calm /\ app.calls > 0 /\ app.todo = <<>>
  /\ broker' = [broker EXCEPT !.phase[i] = "sent"]
  /\ net' = [net EXCEPT !.down = Append(@, Packet("PUBLISH", InMid[i], i))]
  /\ UNCHANGED <<mosq, loop, app, seen>>

Environment ==
  \/ Break("reset") \/ Break("silent")
  \/ BrokerRead
  \/ \E i \in Inbound : BrokerSend(i)

Application == Publish \/ PublishSend \/ Disconnect \/ DisconnectSend
Thread ==
  \/ Read \/ ConnackAssign \/ Write \/ ConnLost \/ CheckKeepalive \/ RetryCheck
  \/ Closed \/ ReconnectStart \/ SocketConnect \/ SendConnect

Next == Application \/ Thread \/ Environment

\* Both threads run, and the broker answers.  The timers are checked on every pass of the loop,
\* and the connection is made in the end because only MaxFaults attempts fail.
Fairness ==
  /\ WF_vars(PublishSend \/ DisconnectSend)
  /\ WF_vars(Read) /\ WF_vars(Write) /\ WF_vars(ConnLost) /\ WF_vars(RetryCheck)
  /\ WF_vars(ConnackAssign \/ Closed \/ ReconnectStart \/ SocketConnect \/ SendConnect)
  /\ WF_vars(CheckKeepalive /\ Unanswered)
  /\ WF_vars(BrokerRead)

Spec == Init /\ [][Next]_vars /\ Fairness

------------------------------------------------------------------------------
(* Properties. *)

Entry == [mid : 1..Len(MsgOrder), m : Msg, due : BOOLEAN,
          state : {"wait_for_puback", "wait_for_pubrec", "wait_for_pubcomp", "invalid"}]

\* The fields have their types; the queue holds an identifier once, and QoS 1 messages never
\* wait for PUBCOMP (lib/messages_mosq.c:380 sets any state that a packet asks for).
TypeOK ==
  /\ mosq.state \in {"new", "connected", "disconnecting"}
  /\ mosq.sock \in BOOLEAN /\ mosq.ping_t \in BOOLEAN
  /\ mosq.inflight \in 0..Len(MsgOrder) + Len(MsgOrder)
  /\ Range(mosq.out) \subseteq Entry
  /\ \A i, j \in DOMAIN mosq.out : mosq.out[i].mid = mosq.out[j].mid => i = j
  /\ \A e \in Range(mosq.out) : Qos[e.m] = 1 => e.state # "wait_for_pubcomp"
  /\ loop \in {"loop", "connack", "reconnecting", "connecting", "greeting", "ended", "gave up"}
  /\ app.pc \in {"idle", "send", "disconnect"}

\* A message that mosquitto_publish accepted is in the queue until on_publish reports it, once,
\* and it is not reported before the broker has it: however the threads interleave and however
\* often the connection breaks.
NeverForgotten ==
  \A m \in app.handed : Qos[m] > 0 =>
    /\ app.told[m] = IF m \in {e.m : e \in Range(mosq.out)} THEN 0 ELSE 1
    /\ app.told[m] = 1 => broker.got[m] > 0

InFlight == {e \in Range(mosq.out) : e.state # "invalid"}

\* The counter is never below what is part way through its delivery, so the window
\* max_inflight_messages holds through publications, reconnections and acknowledgements.
WindowHolds ==
  /\ mosq.inflight >= Cardinality(InFlight)
  /\ max_inflight_messages > 0 => Cardinality(InFlight) <= max_inflight_messages

\* A QoS 2 message reaches the broker twice only if a reconnection found it waiting for PUBCOMP
\* outside of the window, and made it one that must still be published, or if mosquitto_publish was
\* overtaken by the loop as below.
TwiceOnlyIfRedone ==
  \A m \in Msg : Qos[m] = 2 /\ broker.got[m] > 1 => m \in seen.redone \/ seen.late

\* A QoS 2 message is passed to on_message twice only if the broker had to publish it again
\* before it was released, which queues it twice (lib/read_handle.c:147).
PassedOnce ==
  \A i \in Inbound : app.passed[i] > 1 => i \in seen.stale

\* The loop gives up on a PUBREC (lib/mosquitto.c:1015) only if the application's thread sent a
\* message that the loop had sent, after a reconnection, and got an answer for meanwhile.
GivesUpOnlyIfLate == loop = "gave up" => seen.late

\* Every message that was accepted is reported in the end, unless the application disconnects,
\* the loop gives up, or a reconnection found so many messages in the queue that the counter
\* leaves no room when those it sends again are acknowledged.
Delivered ==
  \A m \in Msg : (m \in app.handed /\ Qos[m] > 0) ~>
                   (app.told[m] = 1 \/ app.calls = 0 \/ loop = "gave up" \/ seen.overfull)

\* A disconnect ends the loop, unless it falls between a test of the state and what then overwrites
\* it: the reconnection (lib/mosquitto.c:1055, 486), or the handling of a CONNACK
\* (lib/read_handle_client.c:46).
DisconnectEnds ==
  (mosq.state = "disconnecting" /\ loop = "loop") ~> (loop \in {"ended", "gave up"})
==============================================================================

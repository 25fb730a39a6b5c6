----------------------------- MODULE ClientMsgs ------------------------------
(***************************************************************************)
(* The broker's side of one client: the messages it holds for the client   *)
(* and from the client (src/database.c), the handlers of the packets the   *)
(* client sends (src/read_handle.c, lib/read_handle_shared.c), the main    *)
(* loop's write pass and retry check (src/loop.c) and the connection       *)
(* coming and going (src/read_handle_server.c, src/loop.c, src/context.c). *)
(*                                                                         *)
(* The client may send any packet at any time; ClientDelivery puts a       *)
(* network and a well-behaved client in front of this module.              *)
(***************************************************************************)
EXTENDS MsgList

CONSTANTS
  Msgs,        \* the messages that are published (topic and payload)
  NoMsg,       \* a stored message without a topic: a denied QoS 2 PUBLISH
  MidMax,      \* message identifiers are 1..MidMax and wrap (65535 in the code)
  MaxStamp,    \* bound: an entry is appended only while its stamp is at most this
  Limits,      \* the values of max_inflight_messages and max_queued_messages
               \* that the configuration file holds, one after the other
  QueueQos0    \* queue_qos0_messages

ASSUME MidAssumption   == MidMax \in Nat \ {0}
ASSUME StampAssumption == MaxStamp \in Nat \ {0}
ASSUME LimitAssumption == Limits \subseteq [inflight : Nat, queued : Nat]
\* A reload that turns the limit on or off strands what is queued (README), and
\* the write pass of MsgList takes the head of the list not to be queued.
ASSUME ReloadAssumption == \A k, l \in Limits : k.inflight = 0 <=> l.inflight = 0
ASSUME QosAssumption   == QueueQos0 \in BOOLEAN
ASSUME MsgAssumption   == NoMsg \notin Msgs

Mids   == 1..MidMax
Stamps == 1..MaxStamp

VARIABLES
  sock,          \* context->sock # INVALID_SOCKET, CONNECT accepted
  clean,         \* context->clean_session; with ~sock: the broker keeps nothing
  msgs,          \* context->msgs
  msg_count,     \* context->msg_count
  msg_count12,   \* context->msg_count12
  last_mid,      \* context->last_mid
  limits,        \* max_inflight and max_queued
  phase,         \* where the main loop is: after poll() or after the write pass
  sent,          \* the packets the last step sent to the client
  routed         \* the messages the last step passed to mqtt3_db_messages_queue

list     == <<msgs, msg_count, msg_count12>>
session  == <<sock, clean>>
outputs  == <<sent, routed>>
vars     == <<sock, clean, msgs, msg_count, msg_count12, last_mid, limits,
              phase, sent, routed>>

Entry == [mid : 0..MidMax, dir : {In, Out}, qos : QoS, state : MsgState,
          msg : Msgs \cup {NoMsg}]

\* Mutant of NextMid: the counter does not wrap.
NextMidEndless(mid) == mid + 1

\* _mosquitto_mid_generate: ++ on a uint16_t, skipping 0.
NextMid(mid) == IF mid < MidMax THEN mid + 1 ELSE 1

NoSub == -1    \* the client does not subscribe to what it publishes

\* Mutant of Admit: the limit on what is queued is off by one.
AdmitOneMore(dir, qos, n12) ==
  LET max    == limits.inflight
      direct == qos = 0 \/ max = 0 \/ n12 < max
  IN  CASE sock /\ direct -> IF dir = Out THEN PublishState(qos) ELSE "wait_for_pubrel"
        [] ~sock /\ qos = 0 /\ ~QueueQos0 -> "dropped"
        [] OTHER -> IF limits.queued = 0 \/ n12 - max <= limits.queued
                    THEN "queued" ELSE "dropped"

\* The decision of mqtt3_db_message_insert: the state of a new entry, "dropped"
\* if there is to be none.
Admit(dir, qos, n12) ==
  LET max    == limits.inflight
      direct == qos = 0 \/ max = 0 \/ n12 < max
      room   == limits.queued = 0 \/ n12 - max < limits.queued
  IN  CASE sock /\ direct /\ dir = Out   -> PublishState(qos)
        [] sock /\ direct /\ dir = In    -> "wait_for_pubrel"
        [] sock /\ ~direct /\ room       -> "queued"
        [] sock /\ ~direct /\ ~room      -> "dropped"
        [] ~sock /\ qos = 0 /\ ~QueueQos0 -> "dropped"
        [] OTHER -> IF limits.queued > 0 /\ n12 >= limits.queued
                    THEN "dropped" ELSE "queued"

\* The list with the new entry, if it is admitted.
Inserted(l, at, dir, mid, qos, m) ==
  LET state == Admit(dir, qos, msg_count12)
  IN  IF state = "dropped" THEN l
      ELSE Append1(l, at, [mid |-> mid, dir |-> dir, qos |-> qos,
                           state |-> state, msg |-> m])

Added(dir, qos) == IF Admit(dir, qos, msg_count12) = "dropped" THEN 0 ELSE 1

Insert(at, dir, mid, qos, m) ==
  /\ IsNext(msgs, at)
  /\ msgs' = Inserted(msgs, at, dir, mid, qos, m)
  /\ msg_count' = msg_count + Added(dir, qos)
  /\ msg_count12' = IF qos > 0 THEN msg_count12 + Added(dir, qos) ELSE msg_count12

\* Mutant of Unlink: QoS 2 messages are not subtracted from msg_count12.
UnlinkQos1(l, gone) ==
  /\ msg_count' = msg_count - Cardinality(gone)
  /\ msg_count12' = msg_count12 - Cardinality({a \in gone : l[a].qos = 1})

\* The list is l after the entries in gone have been unlinked from it.
Unlink(l, gone) ==
  /\ msg_count' = msg_count - Cardinality(gone)
  /\ msg_count12' = msg_count12 - Cardinality(gone \cap Acked(l))

Outputs(packets, messages) == sent' = packets /\ routed' = messages

\* do_disconnect.  A clean session's messages go with it.
Hangup(l, n, n12) ==
  /\ sock' = FALSE
  /\ msgs' = IF clean THEN NoEntries ELSE l
  /\ msg_count' = IF clean THEN 0 ELSE n
  /\ msg_count12' = IF clean THEN 0 ELSE n12
  /\ UNCHANGED <<clean, last_mid>>

Reading == phase = "reads" /\ sock

------------------------------------------------------------------------------
\* What the client sends.

\* Mutant of PublishQos2: no mqtt3_db_message_store_find.
PublishQos2Again(mid, m) ==
  /\ Reading
  /\ \E at \in Stamps : Insert(at, In, mid, 2, m)
  /\ Outputs(IF Admit(In, 2, msg_count12) = "wait_for_pubrel"
             THEN <<Packet("PUBREC", mid)>> ELSE <<>>, <<>>)
  /\ UNCHANGED <<session, last_mid, limits, phase>>

\* Mutant of PublishQos2: PUBREC whatever became of the message.
PublishQos2Promised(mid, m) ==
  /\ Reading
  /\ IF Match(msgs, mid, In) # {}
     THEN UNCHANGED list
     ELSE \E at \in Stamps : Insert(at, In, mid, 2, m)
  /\ Outputs(<<Packet("PUBREC", mid)>>, <<>>)
  /\ UNCHANGED <<session, last_mid, limits, phase>>

\* mqtt3_handle_publish, QoS 2, allowed: store the message unless its identifier
\* is stored already; PUBREC unless the entry had to be queued or was dropped.
PublishQos2(mid, m) ==
  /\ Reading
  /\ \/ /\ Match(msgs, mid, In) # {}
        /\ Outputs(<<Packet("PUBREC", mid)>>, <<>>)
        /\ UNCHANGED list
     \/ /\ Match(msgs, mid, In) = {}
        /\ \E at \in Stamps : Insert(at, In, mid, 2, m)
        /\ Outputs(IF Admit(In, 2, msg_count12) = "wait_for_pubrel"
                   THEN <<Packet("PUBREC", mid)>> ELSE <<>>, <<>>)
  /\ UNCHANGED <<session, last_mid, limits, phase>>

\* The same for a PUBLISH that the ACL denies or that is too large: stored without
\* a topic.  Here the 2 that says `queued' or `dropped' is returned to the caller,
\* which disconnects the client.
PublishDenied(mid) ==
  /\ Reading
  /\ \/ /\ Match(msgs, mid, In) # {}
        /\ Outputs(<<Packet("PUBREC", mid)>>, <<>>)
        /\ UNCHANGED <<list, session, last_mid>>
     \/ /\ Match(msgs, mid, In) = {}
        /\ Admit(In, 2, msg_count12) = "wait_for_pubrel"
        /\ \E at \in Stamps : Insert(at, In, mid, 2, NoMsg)
        /\ Outputs(<<Packet("PUBREC", mid)>>, <<>>)
        /\ UNCHANGED <<session, last_mid>>
     \/ /\ Match(msgs, mid, In) = {}
        /\ Admit(In, 2, msg_count12) # "wait_for_pubrel"
        /\ \E at \in Stamps :
             /\ IsNext(msgs, at)
             /\ Hangup(Inserted(msgs, at, In, mid, 2, NoMsg),
                       msg_count + Added(In, 2), msg_count12 + Added(In, 2))
        /\ Outputs(<<>>, <<>>)
  /\ UNCHANGED <<limits, phase>>

\* _mosquitto_handle_pubackcomp: PUBACK or PUBCOMP.
PubAckComp(mid) ==
  LET match == Match(msgs, mid, Out)
  IN  /\ Reading
      /\ msgs' = AfterWalk(msgs, match, match, limits.inflight)
      /\ Unlink(msgs, Unlinked(msgs, match, match, limits.inflight))
      /\ Outputs(<<>>, <<>>)
      /\ UNCHANGED <<session, last_mid, limits, phase>>

\* _mosquitto_handle_pubrec: an identifier that is not in the list is an error,
\* and the client is disconnected.
PubRec(mid) ==
  /\ Reading
  /\ \/ /\ Match(msgs, mid, Out) # {}
        /\ msgs' = SetState(msgs, FirstMatch(msgs, mid, Out), "wait_for_pubcomp")
        /\ Outputs(<<Packet("PUBREL", mid)>>, <<>>)
        /\ UNCHANGED <<session, msg_count, msg_count12, last_mid>>
     \/ /\ Match(msgs, mid, Out) = {}
        /\ Hangup(msgs, msg_count, msg_count12)
        /\ Outputs(<<>>, <<>>)
  /\ UNCHANGED <<limits, phase>>

\* Mutant of Released: PUBCOMP only for an identifier that was stored.
ReleasedStored(l, mid) ==
  LET match == Match(l, mid, In)
  IN  /\ msgs' = AfterWalk(l, match, {}, limits.inflight)
      /\ sent' = IF match = {} THEN <<>> ELSE <<Packet("PUBCOMP", mid)>>

\* _mosquitto_handle_pubrel: route the stored message, drop the entry, PUBCOMP in
\* any case.  `own' is the QoS at which the client itself subscribes to it, NoSub
\* if it does not or if there is nothing to route.  With
\* InboundUnique there is at most one such entry.
Released(l, mid) ==
  LET match    == Match(l, mid, In)
      answered == InOrder({a \in WalkPromoted(l, match, {}, limits.inflight) :
                             l[a].dir = In})
  IN  /\ msgs' = AfterWalk(l, match, {}, limits.inflight)
      /\ sent' = [i \in DOMAIN answered |-> Packet("PUBREC", l[answered[i]].mid)]
                 \o <<Packet("PUBCOMP", mid)>>

PubRel(mid, own) ==
  LET match == Match(msgs, mid, In)
      live  == {a \in match : msgs[a].msg # NoMsg}
  IN  /\ Reading
      /\ routed' = LET order == InOrder(live)
                    IN  [i \in DOMAIN order |-> msgs[order[i]].msg]
      /\ \/ /\ own = NoSub
            /\ Released(msgs, mid)
            /\ Unlink(msgs, Unlinked(msgs, match, {}, limits.inflight))
            /\ UNCHANGED last_mid
         \/ /\ own # NoSub
            /\ \E a \in live, at \in Stamps :
                 LET next == IF own > 0 THEN NextMid(last_mid) ELSE 0
                     l    == Inserted(msgs, at, Out, next, own, msgs[a].msg)
                     gone == Unlinked(l, match, {}, limits.inflight)
                 IN  /\ IsNext(msgs, at)
                     /\ Released(l, mid)
                     /\ last_mid' = IF own > 0 THEN next ELSE last_mid
                     /\ msg_count' = (msg_count + Added(Out, own)) - Cardinality(gone)
                     /\ msg_count12' = (IF own > 0 THEN msg_count12 + Added(Out, own)
                                                   ELSE msg_count12)
                                       - Cardinality(gone \cap Acked(l))
      /\ UNCHANGED <<session, limits, phase>>

------------------------------------------------------------------------------
\* A message for the client, of any publisher (_subs_process).
Route(qos, m) ==
  LET mid == IF qos > 0 THEN NextMid(last_mid) ELSE 0
  IN  /\ phase = "reads"
      /\ sock \/ ~clean
      /\ \E at \in Stamps : Insert(at, Out, mid, qos, m)
      /\ last_mid' = IF qos > 0 THEN mid ELSE last_mid
      /\ Outputs(<<>>, <<>>)
      /\ UNCHANGED <<session, limits, phase>>

------------------------------------------------------------------------------
\* The main loop: write pass, retry check, poll, reads.

PastEnd == MaxStamp + 1

WritePass ==
  /\ phase = "reads"
  /\ phase' = "check"
  /\ \/ /\ sock
        /\ msgs' = AfterWrite(msgs, PastEnd, limits.inflight)
        /\ Unlink(msgs, Written(msgs, PastEnd, limits.inflight))
        /\ Outputs(WritePackets(msgs, PastEnd, limits.inflight), <<>>)
     \/ ~sock /\ Outputs(<<>>, <<>>) /\ UNCHANGED list
  /\ UNCHANGED <<session, last_mid, limits>>

\* The pass ends at the first send that fails, and the client is disconnected.
WriteFails(stop) ==
  LET max  == limits.inflight
      gone == Written(msgs, stop, max)
  IN  /\ Reading
      /\ stop \in DOMAIN msgs \ gone
      /\ Sends(FoundState(msgs, stop, max, stop))
      /\ Hangup(AfterWrite(msgs, stop, max), msg_count - Cardinality(gone),
                msg_count12 - Cardinality(gone \cap Acked(msgs)))
      /\ Outputs(WritePackets(msgs, stop, max), <<>>)
      /\ phase' = "check"
      /\ UNCHANGED limits

\* mqtt3_db_message_timeout_check: only for connected clients.
TimeoutCheck(S) ==
  /\ phase = "check"
  /\ phase' = "reads"
  /\ S = {} \/ sock
  /\ msgs' = Retry(msgs, S)
  /\ Outputs(<<>>, <<>>)
  /\ UNCHANGED <<session, msg_count, msg_count12, last_mid, limits>>

------------------------------------------------------------------------------
\* The connection and the session.

\* A read error, the keepalive running out, or DISCONNECT.
Disconnect ==
  /\ Reading
  /\ Hangup(msgs, msg_count, msg_count12)
  /\ Outputs(<<>>, <<>>)
  /\ UNCHANGED <<limits, phase>>

\* mqtt3_handle_connect: a new context, which takes the messages of the old one
\* if neither is a clean session, whether or not the old one is still connected.
\* Its last_mid and its counters start at 0; the reset counts the messages again.
Connect(c) ==
  LET kept == IF clean \/ c THEN NoEntries ELSE msgs
  IN  /\ phase = "reads"
      /\ sock' = TRUE
      /\ clean' = c
      /\ msgs' = Reset(kept, limits.inflight)
      /\ msg_count' = Cardinality(DOMAIN kept)
      /\ msg_count12' = Cardinality(Acked(kept))
      /\ last_mid' = 0
      /\ Outputs(<<Packet("CONNACK", 0)>>, <<>>)
      /\ UNCHANGED <<limits, phase>>

\* persistent_client_expiration
Expire ==
  /\ phase = "reads" /\ ~sock /\ ~clean
  /\ clean' = TRUE
  /\ msgs' = NoEntries /\ msg_count' = 0 /\ msg_count12' = 0
  /\ Outputs(<<>>, <<>>)
  /\ UNCHANGED <<sock, last_mid, limits, phase>>

\* SIGHUP: mqtt3_db_limits_set.
Reload(new) ==
  /\ phase = "reads"
  /\ limits' = new
  /\ Outputs(<<>>, <<>>)
  /\ UNCHANGED <<session, list, last_mid, phase>>

------------------------------------------------------------------------------
Init ==
  /\ sock = FALSE /\ clean = TRUE
  /\ msgs = NoEntries /\ msg_count = 0 /\ msg_count12 = 0
  /\ last_mid = 0
  /\ limits \in Limits
  /\ phase = "reads"
  /\ sent = <<>> /\ routed = <<>>

FromClient ==
  \/ \E mid \in Mids, m \in Msgs : PublishQos2(mid, m)
  \/ \E mid \in Mids : PublishDenied(mid)
  \/ \E mid \in Mids : PubAckComp(mid)
  \/ \E mid \in Mids : PubRec(mid)
  \/ \E mid \in Mids, own \in QoS \cup {NoSub} : PubRel(mid, own)

MainLoop ==
  \/ WritePass
  \/ \E stop \in Stamps : WriteFails(stop)
  \/ \E S \in SUBSET Waiting(msgs) : TimeoutCheck(S)

Sessions ==
  \/ Disconnect
  \/ \E c \in BOOLEAN : Connect(c)
  \/ Expire
  \/ \E new \in Limits : Reload(new)

Next ==
  \/ FromClient
  \/ \E qos \in QoS, m \in Msgs : Route(qos, m)
  \/ MainLoop
  \/ Sessions

Spec == Init /\ [][Next]_vars

------------------------------------------------------------------------------
\* Types: the list's stamps are positive and bounded, the counters are natural
\* numbers, the identifiers are those of the wire.
TypeOK ==
  /\ sock \in BOOLEAN /\ clean \in BOOLEAN
  /\ DOMAIN msgs \subseteq Stamps
  /\ msgs \in [DOMAIN msgs -> Entry]
  /\ msg_count \in Nat /\ msg_count12 \in Nat
  /\ last_mid \in 0..MidMax
  /\ limits \in Limits
  /\ phase \in {"reads", "check"}

\* msg_count and msg_count12, which the broker keeps by ++ and -- in insert, remove
\* and reset and by which it decides to send, to queue or to drop
\* (database.c:346-395), are at every moment the numbers of entries in the list.
CountsExact ==
  /\ msg_count = Cardinality(DOMAIN msgs)
  /\ msg_count12 = Cardinality(Acked(msgs))

\* While the client is connected, the head of the list is never a queued message:
\* some message before every queued one is in flight, and its acknowledgement is
\* what will promote the queued ones (database.c:231-253).  A queued head would
\* wait for ever.
HeadInFlight ==
  sock /\ limits.inflight > 0 =>
    \A a \in DOMAIN msgs : Queued(msgs, a) => Before(msgs, a) # {}

\* At most one message is being received under an identifier
\* (mqtt3_db_message_store_find, read_handle.c:219): a retransmitted QoS 2
\* PUBLISH is never stored twice, through reconnections and promotions.
InboundUnique ==
  \A a, b \in DOMAIN msgs :
    msgs[a].dir = In /\ msgs[b].dir = In /\ msgs[a].mid = msgs[b].mid => a = b

\* A PUBREC promises that the broker holds the message, so none is sent for an
\* identifier under which nothing is stored (read_handle.c:247, database.c:774,
\* database.c:883): the client would discard its only copy.
PubrecMeansStored ==
  [][\A i \in DOMAIN sent' : sent'[i].type = "PUBREC" /\ sock' =>
       \/ Match(msgs', sent'[i].mid, In) # {}
       \/ sent'[Len(sent')] = Packet("PUBCOMP", sent'[i].mid)]_vars

\* A step that lets in a QoS 1 or 2 message leaves at most max_inflight +
\* max_queued of them in the list (database.c:366, 383).
AdmissionBounded ==
  [][/\ limits.queued > 0 /\ limits.inflight > 0
     /\ Cardinality(Acked(msgs')) > Cardinality(Acked(msgs))
     => Cardinality(Acked(msgs')) <= limits.inflight + limits.queued]_vars

\* What mosquitto.conf(5) says of max_inflight_messages: no more than that many
\* QoS 1 and 2 messages to the client are being transmitted at the same time.  The
\* code promotes every queued message behind the head (database.c:233).
InflightWindow ==
  sock /\ limits.inflight > 0 =>
    Cardinality({a \in Acked(msgs) : msgs[a].dir = Out /\ ~Queued(msgs, a)})
      <= limits.inflight
==============================================================================

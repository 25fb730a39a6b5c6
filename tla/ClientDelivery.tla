--------------------------- MODULE ClientDelivery ----------------------------
(***************************************************************************)
(* The broker's message handling (ClientMsgs) talking over TCP with one    *)
(* well-behaved MQTT client that keeps its session (clean_session = 0).    *)
(* Packets arrive in order while the connection lasts and are lost with    *)
(* it.  The client publishes Pubs with QoS 2 and receives Subs with QoS 1  *)
(* or 2; it acknowledges what it receives, recognises a QoS 2 PUBLISH it   *)
(* still holds by its identifier, and repeats what is unanswered when it   *)
(* has reconnected.                                                        *)
(***************************************************************************)
EXTENDS ClientMsgs

CONSTANTS
  Pubs, Subs,    \* Msgs = Pubs \cup Subs
  InTransit,     \* bound: nobody repeats a packet while this many are in transit
  MaxLosses      \* bound: how often the connection is lost

ASSUME DeliveryAssumption ==
  Msgs = Pubs \cup Subs /\ Pubs \cap Subs = {} /\ InTransit \in Nat /\ MaxLosses \in Nat

VARIABLES
  toBroker, toClient,   \* packets in transit
  up,          \* the client believes in its connection and has had its CONNACK
  pub,         \* pub[p]: where the client is with its message p
  pubMid,      \* the identifier it publishes p under
  held,        \* held[mid]: the QoS 2 message it holds under mid, or NoMsg
  losses,
  given,       \* given[s]: the QoS s was queued for the client at, NoSub before
  got,         \* how often the client's application has been given s (up to 2)
  passed,      \* how often the broker has routed p (up to 2)
  mids,        \* mids[s]: the identifier s was queued under, 0 before
  redone,      \* messages a reconnection moved from PUBREL back to PUBLISH
  returned     \* identifiers under which the broker sent the client its own message

client   == <<up, pub, pubMid, held>>
network  == <<toBroker, toClient>>
history  == <<given, got, passed, mids, redone, returned>>
dvars    == <<vars, client, network, losses, history>>

Transit == Len(toBroker) + Len(toClient)

\* The histories count to two: once too often.
Capped(n) == IF n < 2 THEN n ELSE 2

OutEntries(l) == {a \in DOMAIN l : l[a].dir = Out}

Redone ==
  {msgs[a].msg : a \in {b \in DOMAIN msgs \cap DOMAIN msgs' :
                          /\ msgs[b].state = "resend_pubrel"
                          /\ msgs'[b].state = "publish_qos2"}}

\* A reset turns what the client was sending into messages to publish, too
\* (database.c:681): the identifier is the one the client has chosen.
Returned == {sent'[i].mid : i \in {j \in DOMAIN sent' : /\ sent'[j].type = "PUBLISH"
                                                       /\ sent'[j].msg \in Pubs}}

\* What every step of the broker records.
Observe ==
  /\ redone' = redone \cup Redone
  /\ returned' = returned \cup Returned
  /\ passed' = [p \in Pubs |-> Capped(passed[p] +
                   Cardinality({i \in DOMAIN routed' : routed'[i] = p}))]
  /\ got' = got

\* The broker's packets reach the client unless the broker has hung up.
Deliver(rest) ==
  /\ toBroker' = IF sock' THEN rest ELSE <<>>
  /\ toClient' = IF sock' THEN toClient \o sent' ELSE <<>>
  /\ up' = (up /\ sock')
  /\ UNCHANGED <<pub, pubMid, held>>

------------------------------------------------------------------------------
\* The broker takes the next packet of the client.
Handle(p) ==
  \/ p.type = "PUBLISH" /\ PublishQos2(p.mid, p.msg)
  \/ p.type \in {"PUBACK", "PUBCOMP"} /\ PubAckComp(p.mid)
  \/ p.type = "PUBREC" /\ PubRec(p.mid)
  \/ p.type = "PUBREL" /\ PubRel(p.mid, NoSub)

BrokerReceives ==
  /\ toBroker # <<>>
  /\ Handle(Head(toBroker))
  /\ Deliver(Tail(toBroker))
  /\ Observe
  /\ UNCHANGED <<losses, given, mids>>

\* A subscribed message arrives from another client.
BrokerRoutes(qos, s) ==
  /\ given[s] = NoSub
  /\ Route(qos, s)
  /\ given' = [given EXCEPT ![s] = IF DOMAIN msgs' = DOMAIN msgs THEN 0 ELSE qos]
  /\ mids' = [mids EXCEPT ![s] = last_mid']
  /\ Deliver(toBroker)
  /\ Observe
  /\ UNCHANGED losses

BrokerWrites ==
  /\ WritePass
  /\ Deliver(toBroker)
  /\ Observe
  /\ UNCHANGED <<losses, given, mids>>

BrokerRetries(S) ==
  /\ S = {} \/ Transit < InTransit
  /\ TimeoutCheck(S)
  /\ Deliver(toBroker)
  /\ Observe
  /\ UNCHANGED <<losses, given, mids>>

\* The connection breaks: the broker sees it when it reads, when it writes, or not
\* at all before the client is back.
BrokerLosesClient ==
  /\ losses < MaxLosses /\ losses' = losses + 1
  /\ Disconnect \/ \E stop \in Stamps : WriteFails(stop)
  /\ Deliver(<<>>)
  /\ Observe
  /\ UNCHANGED <<given, mids>>

ClientLosesBroker ==
  /\ up /\ sock
  /\ losses < MaxLosses /\ losses' = losses + 1
  /\ up' = FALSE
  /\ UNCHANGED <<vars, pub, pubMid, held, network, history>>

ClientConnects ==
  /\ ~up
  /\ \A i \in DOMAIN toClient : toClient[i].type # "CONNACK"
  /\ Connect(FALSE)
  /\ toBroker' = <<>> /\ toClient' = sent'
  /\ Observe
  /\ UNCHANGED <<client, losses, given, mids>>

------------------------------------------------------------------------------
\* The client.

Sending(p) == pub[p] \in {"wait_for_pubrec", "wait_for_pubcomp"}

Unanswered(p) ==
  IF pub[p] = "wait_for_pubrec"
  THEN [type |-> "PUBLISH", mid |-> pubMid[p], qos |-> 2, msg |-> p]
  ELSE Packet("PUBREL", pubMid[p])

ClientPublishes(p) ==
  /\ up /\ pub[p] = "idle"
  /\ \E mid \in Mids :
       /\ \A q \in Pubs : Sending(q) => pubMid[q] # mid
       /\ pubMid' = [pubMid EXCEPT ![p] = mid]
       /\ toBroker' = Append(toBroker, [type |-> "PUBLISH", mid |-> mid,
                                        qos |-> 2, msg |-> p])
  /\ pub' = [pub EXCEPT ![p] = "wait_for_pubrec"]
  /\ UNCHANGED <<vars, up, held, toClient, losses, history>>

ClientRepeats(p) ==
  /\ up /\ Sending(p) /\ Transit < InTransit
  /\ toBroker' = Append(toBroker, Unanswered(p))
  /\ UNCHANGED <<vars, client, toClient, losses, history>>

\* After CONNACK the client repeats all that is unanswered, in the order of the
\* identifiers.
Repeats ==
  LET order == InOrder({pubMid[p] : p \in {q \in Pubs : Sending(q)}})
  IN  [i \in DOMAIN order |->
         Unanswered(CHOOSE p \in Pubs : Sending(p) /\ pubMid[p] = order[i])]

Receipts(p) == IF p.msg \in Subs THEN [got EXCEPT ![p.msg] = Capped(@ + 1)] ELSE got

ClientTakes(p) ==
  CASE p.type = "CONNACK" ->
         /\ up' = TRUE /\ toBroker' = toBroker \o Repeats
         /\ UNCHANGED <<pub, held, got>>
    [] p.type = "PUBLISH" /\ p.qos = 1 ->
         /\ got' = Receipts(p)
         /\ toBroker' = Append(toBroker, Packet("PUBACK", p.mid))
         /\ UNCHANGED <<up, pub, held>>
    [] p.type = "PUBLISH" /\ p.qos = 2 ->
         /\ held' = IF held[p.mid] = NoMsg THEN [held EXCEPT ![p.mid] = p.msg] ELSE held
         /\ toBroker' = Append(toBroker, Packet("PUBREC", p.mid))
         /\ UNCHANGED <<up, pub, got>>
    [] p.type = "PUBREL" ->
         /\ got' = IF held[p.mid] \in Subs THEN [got EXCEPT ![held[p.mid]] = Capped(@ + 1)]
                                           ELSE got
         /\ held' = [held EXCEPT ![p.mid] = NoMsg]
         /\ toBroker' = Append(toBroker, Packet("PUBCOMP", p.mid))
         /\ UNCHANGED <<up, pub>>
    [] p.type = "PUBREC" ->
         LET mine == {q \in Pubs : Sending(q) /\ pubMid[q] = p.mid}
         IN  /\ pub' = [q \in Pubs |-> IF q \in mine THEN "wait_for_pubcomp" ELSE pub[q]]
             /\ toBroker' = Append(toBroker, Packet("PUBREL", p.mid))
             /\ UNCHANGED <<up, held, got>>
    [] p.type = "PUBCOMP" ->
         LET mine == {q \in Pubs : pub[q] = "wait_for_pubcomp" /\ pubMid[q] = p.mid}
         IN  /\ pub' = [q \in Pubs |-> IF q \in mine THEN "done" ELSE pub[q]]
             /\ UNCHANGED <<up, held, got, toBroker>>

ClientReceives ==
  /\ toClient # <<>>
  /\ up \/ Head(toClient).type = "CONNACK"
  /\ ClientTakes(Head(toClient))
  /\ toClient' = Tail(toClient)
  /\ UNCHANGED <<vars, pubMid, losses, given, passed, mids, redone, returned>>

------------------------------------------------------------------------------
DInit ==
  /\ Init
  /\ toBroker = <<>> /\ toClient = <<>>
  /\ up = FALSE
  /\ pub = [p \in Pubs |-> "idle"] /\ pubMid = [p \in Pubs |-> 0]
  /\ held = [mid \in Mids |-> NoMsg]
  /\ losses = 0
  /\ given = [s \in Subs |-> NoSub] /\ got = [s \in Subs |-> 0]
  /\ passed = [p \in Pubs |-> 0]
  /\ mids = [s \in Subs |-> 0] /\ redone = {} /\ returned = {}

DNext ==
  \/ BrokerReceives
  \/ \E qos \in {1, 2}, s \in Subs : BrokerRoutes(qos, s)
  \/ BrokerWrites
  \/ \E S \in SUBSET Waiting(msgs) : BrokerRetries(S)
  \/ BrokerLosesClient \/ ClientLosesBroker \/ ClientConnects
  \/ \E p \in Pubs : ClientPublishes(p) \/ ClientRepeats(p)
  \/ ClientReceives

DSpec == DInit /\ [][DNext]_dvars

\* The main loop runs for ever: every turn it writes, checks for timeouts, and
\* takes what poll() reports, so a packet that keeps waiting is read and a message
\* that keeps waiting for its acknowledgement is repeated.  The client takes what
\* it is sent, repeats what stays unanswered, and reconnects.
Fairness ==
  /\ WF_dvars(BrokerWrites)
  /\ WF_dvars(\E S \in SUBSET Waiting(msgs) : BrokerRetries(S))
  /\ SF_dvars(Waiting(msgs) # {} /\ BrokerRetries(Waiting(msgs)))
  /\ SF_dvars(BrokerReceives)
  /\ SF_dvars(ClientConnects)
  /\ WF_dvars(ClientReceives)
  /\ \A p \in Pubs : SF_dvars(ClientPublishes(p)) /\ SF_dvars(ClientRepeats(p))

FairSpec == DSpec /\ Fairness

------------------------------------------------------------------------------
\* A message is kept while the list has an entry of it; it is lost if it was queued
\* for the client, is no longer kept, and never reached the application.
Kept(s) == \E a \in OutEntries(msgs) : msgs[a].msg = s

Lost(s) == given[s] > 0 /\ ~Kept(s) /\ got[s] = 0

\* Another message was queued for the client under the identifier of s.
Reused(s) == \E t \in Subs \ {s} : mids[t] = mids[s]

\* Or the client was sent its own message under it.
Shared(s) == Reused(s) \/ mids[s] \in returned

\* QoS 1 and 2 as man/mqtt.7.xml:123-124 describes them: a message the broker has
\* queued for a client that keeps its session gets there.  It does not: the context
\* of a new connection starts with last_mid = 0 (context.c:44) whatever identifiers
\* the messages it inherits have (read_handle_server.c:433-455), so two messages
\* share one and the PUBACK of the first takes both (database.c:275-287).
AtLeastOnce == \A s \in Subs : ~Lost(s)

\* There is a second cause: a message of the client that waits in the queue when the
\* connection breaks is sent back to it (database.c:681), under the identifier the
\* client has chosen, and the PUBREC that answers it moves on whatever the broker
\* sends under that identifier (database.c:470-484).  Nothing else loses a message:
\* through lost connections, takeovers, repeated packets, promotion and retries, a
\* message whose identifier is its own stays in the list until the application has
\* it (database.c:256-301, 621-741).
LostOnlyIfShared == \A s \in Subs : Lost(s) => Shared(s)

\* QoS 2 towards the client: "exactly once by using a four step handshake"
\* (man/mqtt.7.xml:124).  It is not: a PUBREL that waits to be sent again when the
\* client reconnects becomes a PUBLISH (database.c:648-652), and the client has
\* completed the message it was for.
AtMostOnce == \A s \in Subs : given[s] = 2 => got[s] <= 1

\* Nothing else duplicates a QoS 2 message whose identifier no other one has:
\* repeated PUBLISHes, PUBRECs and PUBRELs, and reconnections at any other moment of
\* the handshake, give it to the application once.
TwiceOnlyIfRedone ==
  \A s \in Subs : given[s] = 2 /\ got[s] > 1 => s \in redone \/ Reused(s)

\* QoS 2 towards the broker: a message of the client is routed at most once, and
\* when the client has its PUBCOMP it has been routed (read_handle.c:219-250,
\* database.c:743-808), whatever was repeated or lost in between.
PassedOnce == \A p \in Pubs : passed[p] <= 1 /\ (pub[p] = "done" => passed[p] = 1)

\* Whatever is queued for the client reaches its application in the end, unless it
\* shares its identifier: no message is left behind in the queue, in any order of
\* acknowledgements, retries and reconnections (database.c:231-253, 664-697).
Delivered == \A s \in Subs : given[s] > 0 ~> (got[s] > 0 \/ Shared(s))

Once == INSTANCE ExactlyOnce WITH
          offered   <- {p \in Pubs : pub[p] # "idle"},
          passed    <- passed,
          confirmed <- {p \in Pubs : pub[p] = "done"}

\* The handshake with which the client publishes implements ExactlyOnce, fairness
\* included: what it offers is passed on once and confirmed.
PublishesOnce == Once!Spec
==============================================================================

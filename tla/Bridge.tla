-------------------------------- MODULE Bridge --------------------------------
(***************************************************************************)
(* A bridge of the broker to remote brokers: src/bridge.c, the passes of   *)
(* the main loop that keep it connected (src/loop.c, lib/util_mosq.c) and  *)
(* the answer to its CONNECT (src/read_handle_client.c).  A bridge is a    *)
(* context that the broker connects itself, to one of several addresses,   *)
(* and that is not freed when its connection ends.                         *)
(*                                                                         *)
(* Times are abstracted to whether they have come.  The messages of the    *)
(* bridge's queue are counted; the queue itself is module ClientMsgs.      *)
(***************************************************************************)
EXTENDS Integers, FiniteSets

CONSTANTS
  Topic,        \* the topics of the bridge
  In, Out,      \* those bridged in, and those bridged out (a topic may be in both)
  Earlier,      \* those that an earlier configuration, with other directions, may have subscribed to
  AddressCount, \* address_count: the addresses are 0..AddressCount-1
  Configs,      \* the configurations looked at
  Threshold,    \* threshold of a lazy bridge
  MaxFaults,    \* bound: addresses that come and go, connections that break, reloads and takeovers
  MaxMessages   \* bound: messages that are queued for the bridge

ASSUME TopicsAssumption == In \cup Out = Topic /\ Earlier \subseteq SUBSET Topic
ASSUME AddressAssumption == AddressCount \in Nat \ {0}
ASSUME ConfigsAssumption ==
  Configs \subseteq [start_type : {"automatic", "lazy", "once"}, round_robin : BOOLEAN,
                     clean_session : BOOLEAN, notifications : BOOLEAN, attempt_unsubscribe : BOOLEAN,
                     slow : BOOLEAN, private_understood : BOOLEAN]
ASSUME BoundsAssumption == MaxFaults \in Nat /\ MaxMessages \in Nat /\ Threshold \in Nat

VARIABLES
  config,   \* start_type, round_robin, clean_session, notifications, attempt_unsubscribe of the bridge
  bridge,   \* the context, its _mqtt3_bridge and what the broker holds for it
  up,       \* the addresses that answer
  remote,   \* the subscriptions of the bridge at each address, and whether it asked for its own
  inserted, \* the messages that were queued
  faults

vars == <<config, bridge, up, remote, inserted, faults>>

Address == 0..AddressCount - 1
Next1(a) == (a + 1) % AddressCount

------------------------------------------------------------------------------
(* Functions of the broker. *)

\* Mutant of Prepare: the will is set with the first notification only
PrepareWillOnce(b) ==
  [b EXCEPT !.state = "new", !.sock = FALSE, !.lazy_reconnect = FALSE, !.subs = Out,
            !.clean = config.clean_session,
            !.msg_count = IF config.clean_session THEN 0 ELSE @,
            !.initial_notification_done = config.notifications,
            !.will = IF config.notifications THEN ~b.initial_notification_done ELSE @,
            !.notification = IF config.notifications /\ ~b.initial_notification_done THEN "0" ELSE @]

\* mqtt3_bridge_connect up to the connection: old packets and subscriptions go, those of the
\* configuration come, and the will is set
Prepare(b) ==
  [b EXCEPT !.state = "new", !.sock = FALSE, !.lazy_reconnect = FALSE, !.subs = Out,
            !.clean = config.clean_session,
            !.msg_count = IF config.clean_session THEN 0 ELSE @,
            !.initial_notification_done = config.notifications,
            !.will = @ \/ config.notifications,
            !.notification = IF config.notifications /\ ~b.initial_notification_done THEN "0" ELSE @]

\* what an attempt to connect to an address returns: an address that does not answer is found out
\* at once, or (slow) later
Outcomes(a) ==
  IF a \in up THEN {"success", "pending"} ELSE IF config.slow THEN {"pending"} ELSE {"error"}

\* the outcome of _mosquitto_socket_connect, and the CONNECT behind it
Connected(b, outcome) ==
  CASE outcome = "success" -> [Prepare(b) EXCEPT !.sock = TRUE]
    [] outcome = "pending" -> [Prepare(b) EXCEPT !.sock = TRUE, !.state = "connect_pending"]
    [] outcome = "error" -> Prepare(b)

\* do_disconnect, after _mosquitto_socket_close or before it: the will is published here, not there,
\* and only if the connection was not meant to end.  A bridge has all rights
\* (security_default.c:235), and its context is never one of those to be freed.
DoDisconnect(b) ==
  IF b.state = "disconnected" THEN b
  ELSE [b EXCEPT !.sock = FALSE, !.state = "disconnected", !.will = FALSE,
                 !.notification = IF b.will /\ b.state # "disconnecting" THEN "0" ELSE @]

\* Mutant of NextAddress: the first address is not come back to
NextAddressStops(b) == [b EXCEPT !.cur_address = IF @ + 1 = AddressCount THEN @ ELSE @ + 1]

NextAddress(b) == [b EXCEPT !.cur_address = Next1(@)]

\* Mutant of Subscribed: topics that go out only are left alone
SubscribedOnly(subs) == subs \cup In

\* what the SUBSCRIBE and UNSUBSCRIBE packets that follow the CONNACK make of the subscriptions
Subscribed(subs) == (subs \cup In) \ IF config.attempt_unsubscribe THEN Out \ In ELSE {}

------------------------------------------------------------------------------
(* Steps of the main loop and of the remote broker. *)

Step(b) == bridge' = b /\ UNCHANGED <<config, up, remote, inserted, faults>>

\* the context may have been restored with the subscriptions of an earlier configuration, and the
\* remote brokers may hold some
Init ==
  /\ config \in Configs
  /\ up \in SUBSET Address
  /\ \E old \in Earlier :
       /\ bridge = [state |-> "new", sock |-> FALSE, cur_address |-> 0, restart_t |-> "start",
                    primary_due |-> TRUE, lazy_reconnect |-> FALSE, private |-> TRUE, will |-> FALSE,
                    initial_notification_done |-> FALSE, notification |-> "none",
                    subs |-> old, msg_count |-> 0, clean |-> config.clean_session]
       /\ remote = [subs |-> [a \in Address |-> old], asked |-> FALSE]
  /\ inserted = 0 /\ faults = 0

\* mqtt3_bridge_new, when the broker starts: nothing is done about an error
Start ==
  /\ bridge.restart_t = "start"
  /\ \E o \in Outcomes(0) : Step(Connected([bridge EXCEPT !.restart_t = "unset"], o))

\* the connection that was pending is there
PendingDone ==
  /\ bridge.sock /\ bridge.state = "connect_pending" /\ bridge.cur_address \in up
  /\ Step([bridge EXCEPT !.state = "new"])

\* the connection is lost or refused, or nothing answers until the keepalive is over
ConnectionFails ==
  /\ bridge.sock /\ bridge.cur_address \notin up
  /\ Step(DoDisconnect(bridge))

ConnectionBreaks ==
  /\ bridge.sock /\ faults < MaxFaults
  /\ bridge' = DoDisconnect(bridge) /\ faults' = faults + 1
  /\ UNCHANGED <<config, up, remote, inserted>>

\* CONNACK: accepted; the notification and the requests for subscriptions are queued
Accepted ==
  /\ bridge.sock /\ bridge.state = "new" /\ bridge.cur_address \in up
  /\ bridge.private => config.private_understood
  /\ bridge' = [bridge EXCEPT !.state = "connected",
                              !.notification = IF config.notifications THEN "1" ELSE @]
  /\ remote' = [remote EXCEPT !.asked = FALSE,
                  !.subs[bridge.cur_address] = IF config.clean_session THEN {} ELSE @]
  /\ UNCHANGED <<config, up, inserted, faults>>

\* CONNACK: the remote broker does not know the bit that bridges add to the protocol version
RefusedProtocol ==
  /\ bridge.sock /\ bridge.state = "new" /\ bridge.cur_address \in up
  /\ bridge.private /\ ~config.private_understood
  /\ Step(DoDisconnect([bridge EXCEPT !.private = FALSE]))

\* the remote broker handles what follows the CONNACK
RemoteSubscribes ==
  /\ bridge.sock /\ bridge.state = "connected" /\ bridge.cur_address \in up /\ ~remote.asked
  /\ remote' = [remote EXCEPT !.asked = TRUE, !.subs[bridge.cur_address] = Subscribed(@)]
  /\ UNCHANGED <<config, bridge, up, inserted, faults>>

\* The main address is tried while another is connected, or being connected to.  One that does not
\* refuse at once counts as being back: the connection ends, for the restart to go on to the first.
PrimaryRetry ==
  /\ bridge.sock /\ ~config.round_robin /\ bridge.cur_address # 0 /\ bridge.primary_due
  /\ Outcomes(0) \cap {"success", "pending"} # {}
  /\ Step(DoDisconnect([bridge EXCEPT !.cur_address = AddressCount - 1]))

\* a pass of the main loop finds the bridge without a connection, and no restart planned
PlanRestart ==
  /\ ~bridge.sock /\ bridge.restart_t = "unset"
  /\ LET b == NextAddress(bridge)
     IN  Step([b EXCEPT !.restart_t = "waiting",
                        !.primary_due = @ /\ (config.round_robin \/ b.cur_address = 0)])

\* what a failure of the second of two attempts and any later one does
Retry(b, o, again) == IF o = "error" THEN [NextAddress(b) EXCEPT !.restart_t = again] ELSE b

RestartLazy ==
  /\ config.start_type = "lazy" /\ bridge.lazy_reconnect
  /\ ~bridge.sock /\ bridge.restart_t \in {"waiting", "due"}
  /\ \E o \in Outcomes(bridge.cur_address) : Step(Retry(Connected(bridge, o), o, bridge.restart_t))

RestartAutomatic ==
  /\ config.start_type = "automatic" /\ ~bridge.sock /\ bridge.restart_t = "due"
  /\ \E o \in Outcomes(bridge.cur_address) :
       Step(Retry(Connected([bridge EXCEPT !.restart_t = "unset"], o), o, "waiting"))

\* restart_timeout and the five seconds between two tries of the main address are over
RestartDue == bridge.restart_t = "waiting" /\ Step([bridge EXCEPT !.restart_t = "due"])
PrimaryDue == ~bridge.primary_due /\ Step([bridge EXCEPT !.primary_due = TRUE])

\* idle_timeout of a lazy bridge
IdleTimeout ==
  /\ config.start_type = "lazy" /\ bridge.sock
  /\ Step(DoDisconnect(bridge))

\* mosquitto_security_apply_default: a bridge is a context like another, with the name it has at the
\* remote broker (src/bridge.c:105).  Files of this broker that do not let that name in, or no
\* anonymous client, end its connection, and free its will if it has none.
ReloadRefuses ==
  /\ bridge.restart_t # "start" /\ faults < MaxFaults
  /\ bridge' = DoDisconnect([bridge EXCEPT !.state = "disconnecting"])
  /\ faults' = faults + 1
  /\ UNCHANGED <<config, up, remote, inserted>>

\* mqtt3_handle_connect of a client with the identifier that the bridge has here: the connection ends,
\* and if neither is clean the subscriptions and the queue become the client's.  The count of the
\* queue is only corrected by the next attempt; until then nothing comes in that would be counted.
TakenOver ==
  /\ bridge.restart_t # "start" /\ faults < MaxFaults
  /\ \E clean \in BOOLEAN :
       LET b == DoDisconnect([bridge EXCEPT !.state = "disconnecting", !.clean = TRUE])
       IN  bridge' = IF clean \/ bridge.clean THEN b ELSE [b EXCEPT !.subs = {}, !.msg_count = 0]
  /\ faults' = faults + 1
  /\ UNCHANGED <<config, up, remote, inserted>>

\* the check of every hour: a durable bridge without a connection is taken for a client's session
Expire ==
  /\ ~bridge.sock /\ ~bridge.clean /\ bridge.restart_t # "start"
  /\ Step(DoDisconnect([bridge EXCEPT !.state = "expiring", !.clean = TRUE]))

\* mqtt3_db_message_insert: enough messages wake a lazy bridge
Insert ==
  /\ bridge.subs # {} /\ inserted < MaxMessages
  /\ LET n == bridge.msg_count + 1
     IN  bridge' = [bridge EXCEPT !.msg_count = n,
           !.lazy_reconnect = @ \/ (config.start_type = "lazy" /\ ~bridge.sock /\ n >= Threshold)]
  /\ inserted' = inserted + 1
  /\ UNCHANGED <<config, up, remote, faults>>

\* the remote broker has taken the messages
Forward ==
  /\ bridge.sock /\ bridge.state = "connected" /\ bridge.cur_address \in up /\ bridge.msg_count > 0
  /\ Step([bridge EXCEPT !.msg_count = 0])

AddressDown(a) ==
  /\ a \in up /\ faults < MaxFaults
  /\ up' = up \ {a} /\ faults' = faults + 1
  /\ UNCHANGED <<config, bridge, remote, inserted>>

AddressUp(a) ==
  /\ a \notin up /\ faults < MaxFaults
  /\ up' = up \cup {a} /\ faults' = faults + 1
  /\ UNCHANGED <<config, bridge, remote, inserted>>

Next ==
  \/ Start \/ PendingDone \/ ConnectionFails \/ ConnectionBreaks
  \/ Accepted \/ RefusedProtocol \/ RemoteSubscribes
  \/ PrimaryRetry \/ PlanRestart \/ RestartLazy \/ RestartAutomatic \/ RestartDue \/ PrimaryDue
  \/ IdleTimeout \/ ReloadRefuses \/ TakenOver \/ Expire \/ Insert \/ Forward
  \/ \E a \in Address : AddressDown(a) \/ AddressUp(a)

\* The main loop passes again and again, times come, and an address that is up answers.
Fairness ==
  /\ WF_vars(Start) /\ WF_vars(PendingDone) /\ WF_vars(ConnectionFails)
  /\ WF_vars(Accepted) /\ WF_vars(RefusedProtocol) /\ WF_vars(RemoteSubscribes)
  /\ WF_vars(PrimaryRetry) /\ WF_vars(PlanRestart) /\ WF_vars(RestartLazy)
  /\ WF_vars(RestartAutomatic) /\ WF_vars(RestartDue) /\ WF_vars(PrimaryDue)

Spec == Init /\ [][Next]_vars /\ Fairness

------------------------------------------------------------------------------
(* Properties. *)

Online == bridge.sock /\ bridge.state = "connected"

\* the connection is ended on purpose, without the will
Dismissed == ReloadRefuses \/ TakenOver

\* An end of the connection, whoever else makes it, says 0, and 1 is said only of a connection that
\* is there
Told ==
  config.notifications =>
    /\ Online' => bridge'.notification = "1"
    /\ bridge.sock /\ ~bridge'.sock => bridge'.notification = "0" \/ Dismissed
    /\ ~Online' /\ bridge'.notification = "1"
         => Dismissed \/ (~Online /\ bridge.notification = "1")

\* The retained state message of the bridge is true: it says 1 while the bridge is connected, and
\* every end of its connection makes it 0, whichever of the peer, the keepalive, the idle timeout
\* and the main address ends it (src/loop.c:176): the will is there with every attempt
\* (src/bridge.c:185).  Excepted are a reload whose files do not let the bridge in
\* (src/security_default.c:715) and a client that connects with its identifier
\* (src/read_handle_server.c:458): only these leave a message of 1 behind, although the manual has
\* it that 1 means an active connection (man/mosquitto.conf.5.xml:1027).
NotificationTrue == [][Told]_vars

\* What flows is what is configured, in both directions: the local subscriptions of a context that
\* was restored with others are replaced (src/bridge.c:163), and the remote broker, which may have
\* kept what the bridge subscribed to when it was configured otherwise, sends only what comes in
\* (src/read_handle_client.c:73) once it has handled the requests, so that nothing goes round.
FlowsAsConfigured ==
  /\ bridge.sock => bridge.subs = Out
  /\ Online /\ remote.asked
       /\ (config.attempt_unsubscribe \/ config.clean_session)
       => remote.subs[bridge.cur_address] = In

\* An automatic bridge ends up connected, whatever its state was, to an address that stays up, and
\* to the main one if it is up: every failure goes on to the next address, and another address is
\* left for the main one.  Excepted is a main address that is down without refusing: each try of it
\* ends the connection to another (src/loop.c:184).
Reconnects ==
  LET Reachable == /\ config.start_type = "automatic" /\ up # {}
                   /\ config.round_robin \/ 0 \in up \/ ~config.slow
      Settled == /\ Online /\ bridge.cur_address \in up
                 /\ 0 \in up /\ ~config.round_robin => bridge.cur_address = 0
  IN  <>[]Reachable => <>[]Settled
==============================================================================

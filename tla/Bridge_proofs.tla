---------------------------- MODULE Bridge_proofs ----------------------------
(***************************************************************************)
(* The safety properties of module Bridge hold for every number of         *)
(* addresses, every set of topics and configurations and every sequence of *)
(* reloads and faults.  The inductive invariant Inv adds to them the types *)
(* and what the steps leave behind: a socket comes with the will and in    *)
(* one of three states, a context that has never been started has none,    *)
(* and one that is connected has said so.                                  *)
(***************************************************************************)
EXTENDS Bridge, TLAPS

\* the contexts, those that do_disconnect is given included
Contexts ==
  [state : {"new", "connect_pending", "connected", "disconnecting", "expiring", "disconnected"},
   sock : BOOLEAN, cur_address : Address, restart_t : {"start", "unset", "waiting", "due"},
   primary_due : BOOLEAN, lazy_reconnect : BOOLEAN, private : BOOLEAN, will : BOOLEAN,
   initial_notification_done : BOOLEAN, notification : {"none", "0", "1"},
   subs : SUBSET Topic, msg_count : Nat, clean : BOOLEAN]

Configurations ==
  [start_type : {"automatic", "lazy", "once"}, round_robin : BOOLEAN,
   clean_session : BOOLEAN, notifications : BOOLEAN, attempt_unsubscribe : BOOLEAN,
   slow : BOOLEAN, private_understood : BOOLEAN]

Types ==
  /\ config \in Configurations
  /\ bridge \in Contexts
  /\ up \subseteq Address
  /\ remote \in [subs : [Address -> SUBSET Topic], asked : BOOLEAN]
  /\ inserted \in Nat /\ faults \in Nat

\* A context whose connection was ended has no socket, nor has one that was never started; the
\* will goes with the socket.
Sockets ==
  /\ bridge.sock => bridge.state \in {"new", "connect_pending", "connected"}
  /\ bridge.restart_t = "start" => ~bridge.sock
  /\ config.notifications /\ bridge.sock => bridge.will

\* Between the CONNACK and the requests a clean session has no subscriptions at the address.
CleanStart ==
  bridge.sock /\ bridge.state = "connected" /\ ~remote.asked /\ config.clean_session
    => remote.subs[bridge.cur_address] = {}

\* Who is connected has said so.
SaysOne == config.notifications /\ Online => bridge.notification = "1"

Inv == Types /\ Sockets /\ CleanStart /\ SaysOne /\ FlowsAsConfigured

------------------------------------------------------------------------------
(* The functions of the broker. *)

\* The next address is an address (src/loop.c:242).
LEMMA NextIsAddress ==
  ASSUME NEW b \in Contexts
  PROVE  NextAddress(b) \in Contexts /\ NextAddress(b) = [b EXCEPT !.cur_address = Next1(@)]
<1>1. AddressCount \in Nat \ {0}
  BY AddressAssumption
<1>2. b.cur_address \in Nat
  BY DEF Contexts, Address
<1>3. (b.cur_address + 1) % AddressCount \in 0..AddressCount - 1
  BY <1>1, <1>2
<1> QED
  BY <1>3 DEF NextAddress, Next1, Contexts, Address

\* What an attempt to connect returns.
LEMMA OutcomesAre ==
  ASSUME NEW a, NEW o \in Outcomes(a)
  PROVE  o \in {"success", "pending", "error"}
BY DEF Outcomes

\* An attempt to connect (src/bridge.c:148) leaves a context with the configured subscriptions,
\* and a socket only with the will.
LEMMA ConnectedIs ==
  ASSUME NEW b \in Contexts, NEW o \in {"success", "pending", "error"}, config \in Configurations
  PROVE  /\ Connected(b, o) \in Contexts
         /\ Connected(b, o).state \in {"new", "connect_pending"}
         /\ Connected(b, o).sock <=> o # "error"
         /\ Connected(b, o).subs = Out
         /\ config.notifications => Connected(b, o).will
         /\ Connected(b, o).notification \in {b.notification, "0"}
         /\ Connected(b, o).restart_t = b.restart_t
         /\ Connected(b, o).cur_address = b.cur_address
<1>1. Out \subseteq Topic
  BY TopicsAssumption
<1>2. /\ Prepare(b) \in Contexts
      /\ Prepare(b).state = "new" /\ ~Prepare(b).sock /\ Prepare(b).subs = Out
      /\ config.notifications => Prepare(b).will
      /\ Prepare(b).notification \in {b.notification, "0"}
      /\ Prepare(b).restart_t = b.restart_t /\ Prepare(b).cur_address = b.cur_address
  BY <1>1, ZenonT(40) DEF Prepare, Contexts, Configurations
<1>3. CASE o = "error"
  BY <1>2, <1>3 DEF Connected
<1>4. CASE o = "success"
  BY <1>2, <1>4 DEF Connected, Contexts
<1>5. CASE o = "pending"
  BY <1>2, <1>5 DEF Connected, Contexts
<1> QED
  BY <1>3, <1>4, <1>5

\* A connection that ends publishes its will (src/loop.c:392), unless it was meant to end
\* (src/context.c:190).
LEMMA DoDisconnectIs ==
  ASSUME NEW b \in Contexts, b.state = "disconnected" => ~b.sock
  PROVE  /\ DoDisconnect(b) \in Contexts
         /\ ~DoDisconnect(b).sock /\ DoDisconnect(b).state = "disconnected"
         /\ DoDisconnect(b).notification \in {b.notification, "0"}
         /\ b.will /\ b.state \notin {"disconnected", "disconnecting"}
              => DoDisconnect(b).notification = "0"
         /\ DoDisconnect(b).restart_t = b.restart_t
BY ZenonT(40) DEF DoDisconnect, Contexts

------------------------------------------------------------------------------
(* The steps. *)

\* A step that leaves the context without a socket keeps the invariant, and says 0 if there was one.
LEMMA WithoutSocket ==
  ASSUME Inv, config' = config, up' \subseteq Address, remote' = remote,
         inserted' \in Nat, faults' \in Nat,
         bridge' \in Contexts, ~bridge'.sock,
         bridge'.notification \in {bridge.notification, "0"},
         config.notifications /\ bridge.sock => bridge'.notification = "0"
  PROVE  Inv' /\ Told
BY DEF Inv, Types, Sockets, CleanStart, SaysOne, Online, FlowsAsConfigured, Told

\* So does one that leaves a socket that is not connected yet.
LEMMA WithSocket ==
  ASSUME Inv, config' = config, up' \subseteq Address, remote' = remote,
         inserted' \in Nat, faults' \in Nat,
         bridge' \in Contexts, bridge'.state \in {"new", "connect_pending"},
         bridge'.restart_t # "start", bridge'.subs = Out,
         config.notifications => bridge'.will,
         ~Online, bridge.sock => bridge'.sock, bridge'.notification \in {bridge.notification, "0"}
  PROVE  Inv' /\ Told
BY DEF Inv, Types, Sockets, CleanStart, SaysOne, Online, FlowsAsConfigured, Told

\* The steps that keep the connection keep the invariant as well.
LEMMA SameConnection ==
  ASSUME Inv, config' = config, up' \subseteq Address, remote' = remote,
         inserted' \in Nat, faults' \in Nat,
         bridge' \in Contexts,
         bridge'.sock = bridge.sock, bridge'.state = bridge.state, bridge'.subs = bridge.subs,
         bridge'.will = bridge.will, bridge'.notification = bridge.notification,
         bridge'.restart_t = "start" => bridge.restart_t = "start",
         bridge.sock => bridge'.cur_address = bridge.cur_address
  PROVE  Inv' /\ Told
BY DEF Inv, Types, Sockets, CleanStart, SaysOne, Online, FlowsAsConfigured, Told

\* Invariance of Inv, and what the state message says, one step per action of the loop.
LEMMA NextKeepsInv == Inv /\ [Next]_vars => Inv' /\ Told
<1> SUFFICES ASSUME Inv, [Next]_vars
             PROVE  Inv' /\ Told
  OBVIOUS
<1> USE DEF Step
<1>t. /\ config \in Configurations /\ bridge \in Contexts /\ up \subseteq Address
      /\ inserted \in Nat /\ faults \in Nat
      /\ remote \in [subs : [Address -> SUBSET Topic], asked : BOOLEAN]
  BY DEF Inv, Types
<1>s. bridge.state = "disconnected" => ~bridge.sock
  BY DEF Inv, Sockets
<1>w. /\ config.notifications /\ bridge.sock => bridge.will
      /\ bridge.sock => bridge.state \notin {"disconnected", "disconnecting"}
  BY DEF Inv, Sockets
\* ending the connection of a context with a socket
<1>d. ASSUME NEW b \in Contexts, bridge.sock, bridge' = DoDisconnect(b), config' = config,
             up' = up, remote' = remote, inserted' = inserted, faults' \in Nat,
             b.sock, b.state = bridge.state, b.will = bridge.will, b.notification = bridge.notification
      PROVE  Inv' /\ Told
  <2>1. b.state \notin {"disconnected", "disconnecting"}
    BY <1>d, <1>w
  <2>2. config.notifications => b.will
    BY <1>d, <1>w
  <2>3. /\ bridge' \in Contexts /\ ~bridge'.sock
        /\ bridge'.notification \in {bridge.notification, "0"}
        /\ config.notifications => bridge'.notification = "0"
    BY <1>d, <2>1, <2>2, DoDisconnectIs
  <2> QED
    BY <2>3, <1>d, <1>t, WithoutSocket
\* an attempt of a context without a connection, with or without a retry behind it
<1>c. ASSUME NEW b \in Contexts, ~bridge.sock, b.notification = bridge.notification,
             b.restart_t # "start", NEW o \in {"success", "pending", "error"},
             NEW again \in {"unset", "waiting", "due"},
             bridge' \in {Connected(b, o), Retry(Connected(b, o), o, again)},
             config' = config, up' = up, remote' = remote, inserted' = inserted, faults' = faults
      PROVE  Inv' /\ Told
  <2> DEFINE k == Connected(b, o)
  <2>1. /\ k \in Contexts /\ k.state \in {"new", "connect_pending"} /\ k.subs = Out
        /\ config.notifications => k.will
        /\ k.notification \in {b.notification, "0"}
        /\ k.restart_t # "start"
        /\ k.sock <=> o # "error"
    BY <1>t, <1>c, ConnectedIs
  <2>2. k.notification \in {bridge.notification, "0"} /\ ~Online
    BY <2>1, <1>c DEF Online
  <2>3. CASE bridge' = k
    BY <2>1, <2>2, <2>3, <1>c, <1>t, WithSocket
  <2>4. CASE bridge' = Retry(k, o, again) /\ o # "error"
    <3>1. Retry(k, o, again) = k
      BY <2>4 DEF Retry
    <3> QED
      BY <2>3, <2>4, <3>1
  <2>5. CASE bridge' = Retry(k, o, again) /\ o = "error"
    <3>1. NextAddress(k) \in Contexts /\ ~NextAddress(k).sock
          /\ NextAddress(k).notification = k.notification
      <4>1. NextAddress(k) \in Contexts /\ NextAddress(k) = [k EXCEPT !.cur_address = Next1(@)]
        BY <2>1, NextIsAddress
      <4> QED
        BY <4>1, <2>1, <2>5 DEF Contexts
    <3>2. bridge' \in Contexts /\ ~bridge'.sock /\ bridge'.notification = k.notification
      <4>1. bridge' = [NextAddress(k) EXCEPT !.restart_t = again]
        BY <2>5 DEF Retry
      <4> HIDE DEF k
      <4> QED
        BY <3>1, <4>1, <1>c DEF Contexts
    <3> QED
      BY <3>2, <2>2, <1>c, <1>t, WithoutSocket
  <2> QED
    BY <2>3, <2>4, <2>5, <1>c
<1>1. CASE Start
  <2>1. PICK o \in Outcomes(0) : Step(Connected([bridge EXCEPT !.restart_t = "unset"], o))
    BY <1>1 DEF Start
  <2> DEFINE b == [bridge EXCEPT !.restart_t = "unset"]
  <2>2. b \in Contexts /\ b.notification = bridge.notification /\ b.restart_t # "start"
    BY <1>t DEF Contexts
  <2>3. ~bridge.sock
    BY <1>1 DEF Start, Inv, Sockets
  <2> HIDE DEF b
  <2> QED
    BY <2>1, <2>2, <2>3, <1>c, OutcomesAre DEF b
<1>2. CASE PendingDone
  BY <1>2, <1>t, <1>w, WithSocket DEF PendingDone, Contexts, Inv, Sockets, Online, FlowsAsConfigured
<1>3. CASE ConnectionFails
  BY <1>3, <1>t, <1>d DEF ConnectionFails
<1>4. CASE ConnectionBreaks
  BY <1>4, <1>t, <1>d DEF ConnectionBreaks
<1>5. CASE Accepted
  <2>1. bridge' = [bridge EXCEPT !.state = "connected",
                                 !.notification = IF config.notifications THEN "1" ELSE @]
    BY <1>5 DEF Accepted
  <2>2. remote' = [remote EXCEPT !.asked = FALSE,
                     !.subs[bridge.cur_address] = IF config.clean_session THEN {} ELSE @]
    BY <1>5 DEF Accepted
  <2>3. bridge.cur_address \in Address
    BY <1>t DEF Contexts
  <2>4. /\ remote' \in [subs : [Address -> SUBSET Topic], asked : BOOLEAN] /\ ~remote'.asked
        /\ config.clean_session => remote'.subs[bridge.cur_address] = {}
    BY <1>t, <2>2, <2>3
  <2>5. /\ bridge' \in Contexts /\ bridge'.state = "connected" /\ bridge'.sock
        /\ bridge'.cur_address = bridge.cur_address /\ bridge'.subs = bridge.subs
        /\ bridge'.will = bridge.will /\ bridge'.restart_t = bridge.restart_t
        /\ config.notifications => bridge'.notification = "1"
    BY <1>5, <1>t, <2>1 DEF Accepted, Contexts
  <2>6. UNCHANGED <<config, up, inserted, faults>>
    BY <1>5 DEF Accepted
  <2> QED
    BY <2>4, <2>5, <2>6, <1>5
       DEF Accepted, Inv, Types, Sockets, CleanStart, SaysOne, Online, FlowsAsConfigured, Told
<1>6. CASE RefusedProtocol
  <2> DEFINE b == [bridge EXCEPT !.private = FALSE]
  <2>1. b \in Contexts /\ b.sock /\ b.state = bridge.state /\ b.will = bridge.will
        /\ b.notification = bridge.notification
    BY <1>6, <1>t DEF RefusedProtocol, Contexts
  <2>2. bridge.sock /\ Step(DoDisconnect(b))
    BY <1>6 DEF RefusedProtocol
  <2> HIDE DEF b
  <2> QED
    BY <2>1, <2>2, <1>t, <1>d
<1>7. CASE RemoteSubscribes
  <2>1. bridge.cur_address \in Address
    BY <1>t DEF Contexts
  <2>2. UNCHANGED <<config, bridge, up, inserted, faults>> /\ remote'.asked
        /\ remote' = [remote EXCEPT !.asked = TRUE, !.subs[bridge.cur_address] = Subscribed(@)]
    BY <1>7, <1>t DEF RemoteSubscribes
  <2>3. remote.subs[bridge.cur_address] \subseteq In \cup Out
    BY <1>t, <2>1, TopicsAssumption
  <2>4. /\ Subscribed(remote.subs[bridge.cur_address]) \subseteq Topic
        /\ config.attempt_unsubscribe => Subscribed(remote.subs[bridge.cur_address]) = In
        /\ config.clean_session => Subscribed(remote.subs[bridge.cur_address]) = In
    <3>1. config.clean_session => remote.subs[bridge.cur_address] = {}
      BY <1>7 DEF RemoteSubscribes, Inv, CleanStart
    <3> QED
      BY <2>3, <3>1, TopicsAssumption DEF Subscribed
  <2>5. remote' \in [subs : [Address -> SUBSET Topic], asked : BOOLEAN]
        /\ remote'.subs[bridge.cur_address] = Subscribed(remote.subs[bridge.cur_address])
    BY <1>t, <2>1, <2>2, <2>4
  <2> QED
    BY <2>2, <2>4, <2>5
       DEF Inv, Types, Sockets, CleanStart, SaysOne, Online, FlowsAsConfigured, Told
<1>8. CASE PrimaryRetry
  <2> DEFINE b == [bridge EXCEPT !.cur_address = AddressCount - 1]
  <2>1. AddressCount - 1 \in Address
    BY AddressAssumption DEF Address
  <2>2. b \in Contexts /\ b.sock /\ b.state = bridge.state /\ b.will = bridge.will
        /\ b.notification = bridge.notification
    BY <1>8, <1>t, <2>1 DEF PrimaryRetry, Contexts
  <2>3. bridge.sock /\ Step(DoDisconnect(b))
    BY <1>8 DEF PrimaryRetry
  <2> HIDE DEF b
  <2> QED
    BY <2>2, <2>3, <1>t, <1>d
<1>9. CASE PlanRestart
  <2>1. NextAddress(bridge) \in Contexts
        /\ NextAddress(bridge) = [bridge EXCEPT !.cur_address = Next1(@)]
    BY <1>t, NextIsAddress
  <2>2. bridge' = [NextAddress(bridge) EXCEPT !.restart_t = "waiting",
           !.primary_due = @ /\ (config.round_robin \/ NextAddress(bridge).cur_address = 0)]
    BY <1>9 DEF PlanRestart
  <2>3. bridge' \in Contexts
    BY <2>1, <2>2 DEF Contexts
  <2>4. bridge'.sock = bridge.sock /\ bridge'.notification = bridge.notification
    BY <2>1, <2>2, <1>t DEF Contexts
  <2> QED
    BY <2>3, <2>4, <1>9, <1>t, WithoutSocket DEF PlanRestart
<1>10. CASE RestartLazy
  <2>1. PICK o \in Outcomes(bridge.cur_address) :
          Step(Retry(Connected(bridge, o), o, bridge.restart_t))
    BY <1>10 DEF RestartLazy
  <2> QED
    BY <2>1, <1>10, <1>t, <1>c, OutcomesAre DEF RestartLazy
<1>11. CASE RestartAutomatic
  <2> DEFINE b == [bridge EXCEPT !.restart_t = "unset"]
  <2>1. PICK o \in Outcomes(bridge.cur_address) : Step(Retry(Connected(b, o), o, "waiting"))
    BY <1>11 DEF RestartAutomatic
  <2>2. b \in Contexts /\ b.notification = bridge.notification /\ b.restart_t # "start"
    BY <1>t DEF Contexts
  <2> HIDE DEF b
  <2> QED
    BY <2>1, <2>2, <1>11, <1>t, <1>c, OutcomesAre DEF RestartAutomatic
<1>12. CASE RestartDue
  BY <1>12, <1>t, SameConnection DEF RestartDue, Contexts
<1>13. CASE PrimaryDue
  BY <1>13, <1>t, SameConnection DEF PrimaryDue, Contexts
<1>14. CASE IdleTimeout
  BY <1>14, <1>t, <1>d DEF IdleTimeout
<1>15. CASE Insert
  <2>1. bridge' \in Contexts
        /\ bridge'.sock = bridge.sock /\ bridge'.state = bridge.state /\ bridge'.subs = bridge.subs
        /\ bridge'.will = bridge.will /\ bridge'.notification = bridge.notification
        /\ bridge'.restart_t = bridge.restart_t /\ bridge'.cur_address = bridge.cur_address
    <3> DEFINE woken == bridge.lazy_reconnect \/ (config.start_type = "lazy" /\ ~bridge.sock
                                                    /\ bridge.msg_count + 1 >= Threshold)
    <3>1. bridge' = [bridge EXCEPT !.msg_count = bridge.msg_count + 1, !.lazy_reconnect = woken]
      BY <1>15 DEF Insert
    <3>2. woken \in BOOLEAN
      OBVIOUS
    <3> HIDE DEF woken
    <3>3. bridge.msg_count + 1 \in Nat
      BY <1>t DEF Contexts
    <3> QED
      BY <3>1, <3>2, <3>3, <1>t DEF Contexts
  <2>2. UNCHANGED <<config, up, remote, faults>> /\ inserted' \in Nat
    BY <1>15, <1>t DEF Insert
  <2> QED
    BY <2>1, <2>2, <1>t, SameConnection
<1>16. CASE Forward
  BY <1>16, <1>t, SameConnection DEF Forward, Contexts
<1>17. ASSUME NEW a \in Address, AddressDown(a) \/ AddressUp(a)
       PROVE  Inv' /\ Told
  BY <1>17, <1>t, SameConnection DEF AddressDown, AddressUp
<1>18. CASE ReloadRefuses
  <2> DEFINE b == [bridge EXCEPT !.state = "disconnecting"]
  <2>1. b \in Contexts /\ b.state = "disconnecting" /\ b.notification = bridge.notification
    BY <1>t DEF Contexts
  <2>2. bridge' = DoDisconnect(b) /\ UNCHANGED <<config, up, remote, inserted>> /\ faults' \in Nat
    BY <1>18, <1>t DEF ReloadRefuses
  <2> HIDE DEF b
  <2>3. bridge' \in Contexts /\ ~bridge'.sock
    BY <2>1, <2>2, DoDisconnectIs
  <2> QED
    BY <2>2, <2>3, <1>18, <1>t
       DEF Inv, Types, Sockets, CleanStart, SaysOne, Online, FlowsAsConfigured, Told, Dismissed
<1>19. CASE Expire
  <2> DEFINE b == [bridge EXCEPT !.state = "expiring", !.clean = TRUE]
  <2>1. b \in Contexts /\ b.state = "expiring" /\ b.notification = bridge.notification
    BY <1>t DEF Contexts
  <2>2. bridge' = DoDisconnect(b) /\ ~bridge.sock /\ UNCHANGED <<config, up, remote, inserted, faults>>
    BY <1>19 DEF Expire
  <2> HIDE DEF b
  <2>3. bridge' \in Contexts /\ ~bridge'.sock /\ bridge'.notification \in {bridge.notification, "0"}
    BY <2>1, <2>2, DoDisconnectIs
  <2> QED
    BY <2>2, <2>3, <1>t, WithoutSocket
<1>20. CASE TakenOver
  <2> DEFINE b == [bridge EXCEPT !.state = "disconnecting", !.clean = TRUE]
             d == DoDisconnect(b)
  <2>1. b \in Contexts /\ b.state = "disconnecting"
    BY <1>t DEF Contexts
  <2>2. /\ bridge' = d \/ bridge' = [d EXCEPT !.subs = {}, !.msg_count = 0]
        /\ UNCHANGED <<config, up, remote, inserted>> /\ faults' \in Nat
    BY <1>20, <1>t DEF TakenOver
  <2> HIDE DEF b
  <2>3. d \in Contexts /\ ~d.sock
    BY <2>1, DoDisconnectIs
  <2> HIDE DEF d
  <2> DEFINE e == [d EXCEPT !.subs = {}, !.msg_count = 0]
  <2>4. e \in Contexts /\ ~e.sock
    BY <2>3 DEF Contexts
  <2> HIDE DEF e
  <2>5. bridge' \in Contexts /\ ~bridge'.sock
    BY <2>2, <2>3, <2>4 DEF e
  <2> QED
    BY <2>2, <2>5, <1>20, <1>t
       DEF Inv, Types, Sockets, CleanStart, SaysOne, Online, FlowsAsConfigured, Told, Dismissed
<1>21. CASE UNCHANGED vars
  BY <1>21, <1>t, SameConnection DEF vars
<1> QED
  BY <1>1, <1>2, <1>3, <1>4, <1>5, <1>6, <1>7, <1>8, <1>9, <1>10, <1>11, <1>12, <1>13, <1>14,
     <1>15, <1>16, <1>17, <1>18, <1>19, <1>20, <1>21 DEF Next

\* A broker that starts has no connection.
LEMMA InitHasInv == Init => Inv
<1> SUFFICES ASSUME Init PROVE Inv
  OBVIOUS
<1>1. config \in Configurations
  BY ConfigsAssumption DEF Init, Configurations
<1>2. 0 \in Address
  BY AddressAssumption DEF Address
<1>3. bridge \in Contexts /\ ~bridge.sock /\ bridge.notification = "none" /\ bridge.state = "new"
  <2> DEFINE clean == config.clean_session
  <2>1. clean \in BOOLEAN
    BY <1>1 DEF Configurations
  <2>2. PICK old \in Earlier :
          bridge = [state |-> "new", sock |-> FALSE, cur_address |-> 0, restart_t |-> "start",
                    primary_due |-> TRUE, lazy_reconnect |-> FALSE, private |-> TRUE, will |-> FALSE,
                    initial_notification_done |-> FALSE, notification |-> "none",
                    subs |-> old, msg_count |-> 0, clean |-> clean]
    BY DEF Init
  <2> HIDE DEF clean
  <2> QED
    BY <1>2, <2>1, <2>2, TopicsAssumption DEF Contexts
<1>4. remote \in [subs : [Address -> SUBSET Topic], asked : BOOLEAN]
  BY TopicsAssumption DEF Init
<1> QED
  BY <1>1, <1>3, <1>4
     DEF Init, Inv, Types, Sockets, CleanStart, SaysOne, Online, FlowsAsConfigured

------------------------------------------------------------------------------
(* The theorems. *)

\* The invariant holds throughout.
LEMMA InvHolds == Spec => []Inv
BY InitHasInv, NextKeepsInv, PTL DEF Spec

\* The retained state message of a bridge says 1 while it is connected, and 0 from every end of its
\* connection (src/bridge.c:185, src/read_handle_client.c:53, src/context.c:188) that is not made by
\* a reload whose files do not let it in (src/security_default.c:715) or by a client with its
\* identifier (src/read_handle_server.c:458), however its connections begin and end and however
\* many addresses it has.
THEOREM StateMessageTrue == Spec => NotificationTrue
<1>1. Inv /\ [Next]_vars => [Told]_vars
  BY NextKeepsInv
<1> QED
  BY <1>1, InvHolds, PTL DEF Spec, NotificationTrue

\* The local subscriptions are those of the configuration in every attempt (src/bridge.c:163), and
\* the remote ones after the requests (src/read_handle_client.c:73).
THEOREM TopicsAsConfigured == Spec => []FlowsAsConfigured
<1>1. Inv => FlowsAsConfigured
  BY DEF Inv
<1> QED
  BY <1>1, InvHolds, PTL
==============================================================================

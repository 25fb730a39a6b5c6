------------------------------ MODULE SmartCloud ------------------------------
(***************************************************************************)
(* The service console SC (SC/server.js): a client of the broker that      *)
(* stores what gateways send in MongoDB and answers the application.  The  *)
(* program is a single event loop; every call of the database is a         *)
(* callback later, and the calls of different messages overlap.  An        *)
(* exception in a callback ends the process, which forever (SC/runSC.sh)   *)
(* starts again.                                                           *)
(*                                                                         *)
(* Messages have QoS 0.  The database executes the calls that are under    *)
(* way in any order, and those of a process that has ended, or not.        *)
(***************************************************************************)
EXTENDS Calls

CONSTANTS
  ScMsg,         \* what gateways and applications send, each once
  TgcfgInit,     \* what the collection TG_01 may hold at first: Nothing, or a list in a document
  MaxMessages,   \* bound: messages of ScMsg that are sent
  MaxInbox,      \* bound: messages on their way when another is sent
  MaxConnects,   \* bound: times that the broker is connected to
  MaxScCrashes   \* bound: crashes for a reason outside of the program

VARIABLES sc,     \* the process and its database
          sent,   \* the messages that have been sent
          noted   \* what happened to them

scVars == <<sc, sent, noted>>

NoDocument == "no document"
Nothing == <<[dev |-> NoDocument, val |-> 0]>>

ASSUME SmartCloudAssumption ==
  /\ ScMsg \subseteq [topic : STRING, to : STRING, type : STRING, dev : STRING \ {NoDocument}, val : Nat]
  /\ TgcfgInit \subseteq {Nothing} \cup Seq([dev : STRING \ {NoDocument}, val : Nat])

Message(topic, to, type) == [topic |-> topic, to |-> to, type |-> type, dev |-> "none", val |-> 0]
Call(op, m) == [op |-> op, m |-> m, live |-> TRUE]
Devs == {m.dev : m \in ScMsg}

------------------------------------------------------------------------------
(* The handler of a message: the calls of the database it starts, and what it *)
(* publishes.  The console is subscribed to much of what it publishes.        *)

Does(calls, pubs) == [calls |-> calls, pubs |-> pubs]

\* topic SERV: lists of services for the user, and registrations of devices by the gateway
HandleServ(m) ==
  CASE m.to = "USER_01" /\ m.type = "requestService" -> Does({Call("findServices", m)}, <<>>)
    [] m.to = "USER_01" /\ m.type = "requestServiceDetail" -> Does({Call("findDetail", m)}, <<>>)
    [] m.to = "TG_01" -> Does({Call("findList", m)}, <<>>)
    [] OTHER -> Does({}, <<>>)

\* Mutant of HandleThr: the change is passed on under the topic that it came under
ThrToSelf(m) ==
  CASE m.type = "requestThr" -> Does({Call("findThr", m)}, <<>>)
    [] m.type = "changeThrReq" -> Does({}, <<Message("THR", "TG_01", "changeThrReq")>>)
    [] OTHER -> Does({}, <<>>)

\* topic THR: thresholds, asked for and changed by the application
HandleThr(m) ==
  CASE m.type = "requestThr" -> Does({Call("findThr", m)}, <<>>)
    [] m.type = "changeThrReq" -> Does({}, <<Message("TGThr", "TG_01", "changeThrReq")>>)
    [] OTHER -> Does({}, <<>>)

\* topic registerTG: the answer goes to the gateway, under a topic that does not come back
HandleRegister(m) == Does({}, <<>>)

\* Mutant of OnMessage: the datum is sent back under its own topic
EchoData(m) ==
  IF m.topic = "TGdata" THEN Does({Call("insert", m)}, <<m>>) ELSE Does({}, <<>>)

OnMessage(m) ==
  CASE m.topic = "TGdata" -> Does({Call("insert", m)}, <<Message("SERV", "USER_01", "sensordata")>>)
    [] m.topic = "Log" -> Does({Call("insert", m)}, <<>>)
    [] m.topic = "SERV" -> HandleServ(m)
    [] m.topic = "THR" -> HandleThr(m)
    [] m.topic = "registerTG" -> HandleRegister(m)
    [] OTHER -> Does({}, <<>>)   \* TGThr, PUSH

------------------------------------------------------------------------------
(* What the database does with a call, and what the callback does then. *)

Listed(list, dev) == {i \in DOMAIN list : list[i].dev = dev}
First(list, dev) == CHOOSE i \in Listed(list, dev) : \A j \in Listed(list, dev) : i <= j

Start(p, calls) == [p EXCEPT !.calls = @ (+) calls]
Publish(p, pubs) == IF p.phase = "online" THEN [p EXCEPT !.inbox = @ \o pubs] ELSE p

\* the exception reaches the event loop: nothing of the process remains but its calls
Die(p) ==
  [p EXCEPT !.phase = "down", !.listeners = 0, !.inbox = <<>>,
            !.calls = Orphaned(@)]

\* Mutant of FindList: the result is not looked at
AlwaysPush(p, m) == Start(p, Once(Call("push", m)))

\* an empty collection is compared with '[]', which it never equals, and its first document is read
FindList(p, m) ==
  CASE p.tgcfg = Nothing -> Die(p)
    [] p.tgcfg # Nothing /\ Listed(p.tgcfg, m.dev) # {} -> Start(p, Once(Call("update", m)))
    [] OTHER -> Start(p, Once(Call("push", m)))

\* the threshold of a device; none is an exception
FindThr(p, m) ==
  IF p.tgcfg = Nothing \/ Listed(p.tgcfg, m.dev) = {} THEN Die(p)
  ELSE Publish(p, [i \in 1..Cardinality(Listed(p.tgcfg, m.dev)) |-> Message("THR", "USER_01", "responseThr")])

Execute(p, c) ==
  CASE c.op = "insert" -> [p EXCEPT !.stored[c.m] = @ + 1]
    [] c.op = "update" /\ Listed(p.tgcfg, c.m.dev) # {} ->
         [p EXCEPT !.tgcfg[First(p.tgcfg, c.m.dev)].val = c.m.val]
    [] c.op = "push" -> [p EXCEPT !.tgcfg = Append(@, [dev |-> c.m.dev, val |-> c.m.val])]
    [] c.op = "findList" /\ c.live -> FindList(p, c.m)
    [] c.op = "findThr" /\ c.live -> FindThr(p, c.m)
    [] c.op = "findServices" /\ c.live -> Publish(p, <<Message("SERV", "USER_01", "responseService")>>)
    [] OTHER -> p

------------------------------------------------------------------------------

SCInit ==
  /\ \E list \in TgcfgInit :
       sc = [phase |-> "down", keys |-> 1, listeners |-> 0, inbox |-> <<>>, calls |-> EmptyBag,
             tgcfg |-> list, stored |-> [m \in ScMsg |-> 0]]
  /\ sent = {}
  /\ noted = [connects |-> 0, crashes |-> 0, again |-> {},
              last |-> [d \in Devs |-> 0], overlap |-> {d \in Devs : Cardinality(Listed(sc.tgcfg, d)) > 1}]

\* the process starts: the databases are connected to one after the other; keys are removed ...
Boot ==
  /\ sc.phase = "down"
  /\ sc' = [sc EXCEPT !.phase = "clearing", !.keys = 0]
  /\ UNCHANGED <<sent, noted>>

\* ... one is inserted, and the client of the broker is made
InsertKey ==
  /\ sc.phase = "clearing"
  /\ sc' = [sc EXCEPT !.phase = "offline", !.keys = @ + 1]
  /\ UNCHANGED <<sent, noted>>

\* every connection adds a listener to those that are there
OnConnect ==
  /\ sc.phase = "offline" /\ noted.connects < MaxConnects
  /\ sc' = [sc EXCEPT !.phase = "online", !.listeners = @ + 1]
  /\ noted' = [noted EXCEPT !.connects = @ + 1]
  /\ UNCHANGED sent

\* bound: only as often as the broker can be connected to again
OnOffline ==
  /\ sc.phase = "online" /\ noted.connects < MaxConnects
  /\ sc' = [sc EXCEPT !.phase = "offline", !.inbox = <<>>]
  /\ UNCHANGED <<sent, noted>>

\* a message of QoS 0 reaches the console only while it is connected
Send(m) ==
  /\ m \notin sent /\ Cardinality(sent) < MaxMessages /\ sc.phase = "online" /\ Len(sc.inbox) < MaxInbox
  /\ sent' = sent \cup {m}
  /\ sc' = Publish(sc, <<m>>)
  /\ UNCHANGED noted

\* all listeners are called in turn
Receive ==
  /\ sc.phase = "online" /\ sc.inbox # <<>>
  /\ LET m == Head(sc.inbox)
         h == OnMessage(m)
         p == Start([sc EXCEPT !.inbox = Tail(@)], ByEach(sc.listeners, h.calls))
         busy == {c.m.dev : c \in {x \in BagToSet(sc.calls) : x.op \in {"findList", "update", "push"}}}
         registers == m.topic = "SERV" /\ m.to = "TG_01"
     IN  /\ sc' = Publish(p, FlattenSeq([i \in 1..sc.listeners |-> h.pubs]))
         /\ noted' = [noted EXCEPT
              !.again = IF sc.listeners > 1 THEN @ \cup {m} ELSE @,
              !.last = [d \in Devs |-> IF registers /\ d = m.dev THEN m.val ELSE @[d]],
              !.overlap = IF registers /\ (m.dev \in busy \/ sc.listeners > 1) THEN @ \cup {m.dev} ELSE @]
  /\ UNCHANGED sent

\* what a device asked for is lost or late when the process ends with a call for it under way
Overtakes(p) ==
  {c.m.dev : c \in {x \in BagToSet(p.calls) : x.op \in {"findList", "update", "push"}}}

\* the database answers any of the calls that are under way
Answer(c) ==
  /\ sc' = Execute([sc EXCEPT !.calls = BagRemove(@, c)], c)
  /\ noted' = IF sc'.phase = "down" /\ sc.phase # "down"
              THEN [noted EXCEPT !.overlap = @ \cup Overtakes(sc)] ELSE noted
  /\ UNCHANGED sent

\* the call of a process that has ended never reached the database
Forgotten(c) ==
  /\ ~c.live
  /\ sc' = [sc EXCEPT !.calls = BagRemove(@, c)]
  /\ UNCHANGED <<sent, noted>>

ScCrash ==
  /\ sc.phase # "down" /\ noted.crashes < MaxScCrashes
  /\ sc' = Die(sc)
  /\ noted' = [noted EXCEPT !.crashes = @ + 1, !.overlap = @ \cup Overtakes(sc)]
  /\ UNCHANGED sent

SCNext ==
  \/ Boot \/ InsertKey \/ OnConnect \/ OnOffline \/ Receive \/ ScCrash
  \/ \E m \in ScMsg : Send(m)
  \/ \E c \in BagToSet(sc.calls) : Answer(c) \/ Forgotten(c)

\* forever starts the process again, the event loop runs and the database answers
SCFairness ==
  /\ WF_scVars(Boot) /\ WF_scVars(InsertKey) /\ WF_scVars(OnConnect) /\ WF_scVars(Receive)
  /\ WF_scVars(\E c \in BagToSet(sc.calls) : Answer(c))

------------------------------------------------------------------------------
(* Properties. *)

\* A datum, or a line of a log, is stored once: the console's own messages that come back to it, a
\* crash and the start after it store nothing again.  Excepted is what comes when the console has
\* connected again without a restart, which has several listeners handle it (SC/server.js:49).
StoredOnce ==
  \A m \in ScMsg \ noted.again :
    sc.stored[m] + Copies(Call("insert", m), sc.calls) + Copies(Orphan(Call("insert", m)), sc.calls) <= 1

\* When nothing is under way a device that registered is in the list once, with the value it sent
\* last: devices do not disturb each other.  Excepted are those whose registrations overlapped
\* (SC/server.js:171 reads what SC/server.js:205 then extends), before the process started too, or
\* died with it.
ListTrue ==
  sc.calls = EmptyBag =>
    \A d \in Devs : noted.last[d] > 0 /\ d \notin noted.overlap /\ sc.tgcfg # Nothing =>
      /\ Cardinality(Listed(sc.tgcfg, d)) = 1
      /\ sc.tgcfg[First(sc.tgcfg, d)].val = noted.last[d]

\* what the console comes to in the end: nothing is under way, the process is up, with its key
Quiet == /\ sc.calls = EmptyBag /\ sc.inbox = <<>>
         /\ sc.phase \in {"online", "offline"} /\ sc.keys = 1
==============================================================================

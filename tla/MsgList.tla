------------------------------- MODULE MsgList -------------------------------
(***************************************************************************)
(* The list of messages the broker keeps for one client (context->msgs)    *)
(* and the functions of src/database.c that walk it.                       *)
(*                                                                         *)
(* The C list is singly linked and entries are only ever appended, so an   *)
(* entry is identified by the stamp it was appended with and the list is a *)
(* function from stamps to entries, in the order of the stamps.  A walk    *)
(* that unlinks and updates entries on its way is given by the set of the  *)
(* stamps it visits, the set it removes and the sets it promotes: no       *)
(* operator below is recursive except the write pass's inbound counter.    *)
(***************************************************************************)
EXTENDS Lists, SequencesExt

In  == "in"      \* mosq_md_in:  a QoS 2 PUBLISH of the client, being received
Out == "out"     \* mosq_md_out: a message for the client

QoS == 0..2

\* enum mosquitto_msg_state, without mosq_ms_invalid, which no entry is left
\* in, and without mosq_ms_resend_pubcomp, which nothing assigns.
MsgState == {"publish_qos0", "publish_qos1", "wait_for_puback",
             "publish_qos2", "wait_for_pubrec", "resend_pubrel",
             "wait_for_pubcomp", "wait_for_pubrel", "send_pubrec", "queued"}

\* The state from which the write pass sends a PUBLISH of that QoS.
PublishState(qos) ==
  CASE qos = 0 -> "publish_qos0"
    [] qos = 1 -> "publish_qos1"
    [] OTHER   -> "publish_qos2"

NoEntries == [a \in {} |-> {}]

Queued(l, a) == l[a].state = "queued"
UpTo(l, a)   == {b \in DOMAIN l : b <= a}
Before(l, a) == {b \in DOMAIN l : b < a}
Acked(l)     == {a \in DOMAIN l : l[a].qos > 0}    \* what msg_count12 counts

\* `at' is the stamp of the next entry to be appended.
IsNext(l, at) == /\ \A b \in DOMAIN l : b < at
                 /\ at = 1 \/ at - 1 \in DOMAIN l

Append1(l, at, e) == [a \in DOMAIN l \cup {at} |-> IF a = at THEN e ELSE l[a]]

\* Mutant of Match: the direction is not compared.
MatchMid(l, mid, dir) == {a \in DOMAIN l : l[a].mid = mid}

Match(l, mid, dir) == {a \in DOMAIN l : l[a].mid = mid /\ l[a].dir = dir}

\* Mutant of LeadingRun: removing the head promotes nothing.
NoRun(l, removed, max) == {}

\* The entries that the walk's removals promote: whenever _message_remove has
\* unlinked the head, it promotes the run of queued entries the list now starts
\* with.  Its counter `i' is never incremented, so the run is bounded by the
\* first entry that is not queued and not by max_inflight.
LeadingRun(l, removed, max) ==
  {a \in DOMAIN l \ removed :
     /\ max > 0
     /\ Queued(l, a)
     /\ \E m \in removed : m < a /\ UpTo(l, m) \subseteq removed
     /\ \A b \in UpTo(l, a) : Queued(l, b) \/ UpTo(l, b) \subseteq removed}

\* What _message_remove makes of an entry of the run.
RunState(e) == IF e.dir = Out THEN PublishState(e.qos) ELSE "send_pubrec"

\* What the walks of mqtt3_db_message_delete and mqtt3_db_message_release make
\* of a queued entry whose index is within max_inflight.
WalkState(e) == IF e.dir = Out THEN PublishState(e.qos) ELSE "wait_for_pubrel"

------------------------------------------------------------------------------
\* The walk both functions share.  `match' is the set of entries to unlink and
\* `uncounted' the entries the walk takes back from msg_index: delete decrements
\* it for an entry it unlinks, release does not.

Index(l, uncounted, a) == 1 + Cardinality(Before(l, a) \ uncounted)

\* The walk returns early once it has unlinked an entry and is past max_inflight.
Visited(l, match, uncounted, max) ==
  {a \in DOMAIN l :
     \A b \in Before(l, a) : \/ match \cap UpTo(l, b) = {}
                             \/ Cardinality(UpTo(l, b) \ uncounted) <= max}

Unlinked(l, match, uncounted, max) == match \cap Visited(l, match, uncounted, max)

WalkPromoted(l, match, uncounted, max) ==
  {a \in Visited(l, match, uncounted, max)
         \ LeadingRun(l, Unlinked(l, match, uncounted, max), max) :
     Queued(l, a) /\ Index(l, uncounted, a) <= max}

AfterWalk(l, match, uncounted, max) ==
  LET gone == Unlinked(l, match, uncounted, max)
      run  == LeadingRun(l, gone, max)
      prom == WalkPromoted(l, match, uncounted, max)
  IN  [a \in DOMAIN l \ gone |->
         [l[a] EXCEPT !.state = IF a \in run  THEN RunState(l[a])
                           ELSE IF a \in prom THEN WalkState(l[a])
                           ELSE @]]

------------------------------------------------------------------------------
\* mqtt3_db_message_update: the first entry with that mid and direction.
FirstMatch(l, mid, dir) ==
  {a \in Match(l, mid, dir) : Before(l, a) \cap Match(l, mid, dir) = {}}

SetState(l, S, state) ==
  [a \in DOMAIN l |-> IF a \in S THEN [l[a] EXCEPT !.state = state] ELSE l[a]]

\* mqtt3_db_message_timeout_check, for the entries S whose timestamp is older
\* than the retry interval.
RetryState(state) ==
  CASE state = "wait_for_puback"  -> "publish_qos1"
    [] state = "wait_for_pubrec"  -> "publish_qos2"
    [] state = "wait_for_pubrel"  -> "send_pubrec"
    [] state = "wait_for_pubcomp" -> "resend_pubrel"
    [] OTHER                      -> state

Waiting(l) == {a \in DOMAIN l : RetryState(l[a].state) # l[a].state}

Retry(l, S) ==
  [a \in DOMAIN l |-> IF a \in S THEN [l[a] EXCEPT !.state = RetryState(@)]
                                 ELSE l[a]]

\* Mutant of ResetState: a released QoS 2 message is published again.
ResetUnreleased(e) ==
  IF e.dir = In \/ e.state = "queued" THEN e.state ELSE PublishState(e.qos)

\* mqtt3_db_message_reconnect_reset.  The first loop resets what was in flight
\* towards the client and keeps what is being received from it; the second turns
\* the queued entries among the first max_inflight into messages to publish,
\* whatever their direction.
ResetState(e) ==
  IF e.dir = In \/ e.state = "queued" THEN e.state
  ELSE IF e.qos = 2 /\ e.state = "wait_for_pubcomp" THEN "resend_pubrel"
  ELSE PublishState(e.qos)

InWindow(l, max, a) == max = 0 \/ Cardinality(Before(l, a)) < max

\* Mutant of Reset: what the client was sending is forgotten.
ResetOutbound(l, max) ==
  [a \in {b \in DOMAIN l : l[b].dir = Out} |->
     [l[a] EXCEPT !.state = IF Queued(l, a) /\ InWindow(l, max, a)
                            THEN PublishState(l[a].qos)
                            ELSE ResetState(l[a])]]

Reset(l, max) ==
  [a \in DOMAIN l |->
     [l[a] EXCEPT !.state = IF Queued(l, a) /\ InWindow(l, max, a)
                            THEN PublishState(l[a].qos)
                            ELSE ResetState(l[a])]]

------------------------------------------------------------------------------
\* mqtt3_db_message_write, as far as the entries before stamp `stop': the one at
\* which a send fails, or past the end of the list.

Ready(l, stop) == {a \in DOMAIN l : a < stop /\ l[a].state = "publish_qos0"}

\* The pass unlinks a QoS 0 message when it has been sent.  While it does so from
\* the head, its removals promote the next queued ones and it sends these too.
Flushed(l, stop, max) ==
  IF max > 0 /\ \E a \in Ready(l, stop) : UpTo(l, a) \subseteq Ready(l, stop)
  THEN Ready(l, stop) \cup
       {a \in DOMAIN l : a < stop /\ \A b \in UpTo(l, a) : l[b].qos = 0}
  ELSE Ready(l, stop)

WriteRun(l, stop, max) == LeadingRun(l, Flushed(l, stop, max), max)

Written(l, stop, max) ==
  Flushed(l, stop, max) \cup
  {a \in WriteRun(l, stop, max) : a < stop /\ l[a].qos = 0}

\* The queued inbound messages the pass promotes.  `seen' is the pass's msg_count
\* after stamp a: an inbound entry counts once, and twice if it is promoted,
\* because the pass looks at it again.
InboundPromoted(l, stop, max) ==
  LET run == WriteRun(l, stop, max)
      promotes(a, before) == /\ Queued(l, a) /\ a \notin run
                             /\ max = 0 \/ before + 1 < max
      seen[a \in Nat] ==
        IF a = 0 THEN 0
        ELSE IF a \notin DOMAIN l \/ l[a].dir = Out THEN seen[a - 1]
        ELSE seen[a - 1] + IF promotes(a, seen[a - 1]) THEN 2 ELSE 1
  IN  {a \in DOMAIN l : l[a].dir = In /\ a <= stop /\ promotes(a, seen[a - 1])}

\* The state the pass finds an entry in, given what it has promoted so far.
FoundState(l, stop, max, a) ==
  IF a \in WriteRun(l, stop, max) THEN RunState(l[a])
  ELSE IF a \in InboundPromoted(l, stop, max) THEN "send_pubrec"
  ELSE l[a].state

\* The state an entry is in when what its state calls for has been sent.
SentState(state) ==
  CASE state = "publish_qos1"  -> "wait_for_puback"
    [] state = "publish_qos2"  -> "wait_for_pubrec"
    [] state = "send_pubrec"   -> "wait_for_pubrel"
    [] state = "resend_pubrel" -> "wait_for_pubcomp"
    [] OTHER                   -> state

Sends(state) == state = "publish_qos0" \/ SentState(state) # state

AfterWrite(l, stop, max) ==
  [a \in DOMAIN l \ Written(l, stop, max) |->
     [l[a] EXCEPT !.state = IF a < stop
                            THEN SentState(FoundState(l, stop, max, a))
                            ELSE FoundState(l, stop, max, a)]]

\* The packets of a pass, in the order of the list.
Packet(type, mid) == [type |-> type, mid |-> mid]
Publish(e)        == [type |-> "PUBLISH", mid |-> e.mid, qos |-> e.qos, msg |-> e.msg]

PacketFor(e, state) ==
  CASE state = "send_pubrec"   -> Packet("PUBREC", e.mid)
    [] state = "resend_pubrel" -> Packet("PUBREL", e.mid)
    [] OTHER                   -> Publish(e)

WritePackets(l, stop, max) ==
  LET sent  == {a \in DOMAIN l : a < stop /\ Sends(FoundState(l, stop, max, a))}
      order == InOrder(sent)
  IN  [i \in DOMAIN order |->
         PacketFor(l[order[i]], FoundState(l, stop, max, order[i]))]
==============================================================================

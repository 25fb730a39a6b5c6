-------------------------- MODULE ClientMsgs_proofs --------------------------
(***************************************************************************)
(* What holds of ClientMsgs for every set of messages, every range of      *)
(* identifiers, every bound on the length of the list and all limits.      *)
(*                                                                         *)
(* The invariants are proved together, because the counters are natural    *)
(* numbers only as long as they are exact, and the head of the list stays  *)
(* in flight only as long as the counters and the states of the QoS 0      *)
(* messages are right.  Each operator of MsgList is shown to keep the list *)
(* well formed, and each action then follows from its operators.           *)
(***************************************************************************)
EXTENDS ClientMsgs, Lists_proofs

Lists == UNION {[S -> Entry] : S \in SUBSET Stamps}

\* k is the list l without the entries in gone: what is left keeps everything but
\* its state.
Keeps(l, k, gone) ==
  /\ k \in Lists
  /\ DOMAIN k = DOMAIN l \ gone
  /\ \A a \in DOMAIN k : /\ k[a].mid = l[a].mid
                         /\ k[a].dir = l[a].dir
                         /\ k[a].qos = l[a].qos
                         /\ k[a].msg = l[a].msg

\* The states of a message that is being received.
Receiving == {"send_pubrec", "wait_for_pubrel"}

\* Only QoS 0 messages are sent and forgotten, and only what the client publishes
\* is answered with PUBREC.
Fits(l) ==
  \A a \in DOMAIN l : /\ l[a].state = "publish_qos0" => l[a].qos = 0
                      /\ l[a].state \in Receiving => l[a].dir = In

\* The client's own messages are kept only for QoS 2.
Received(l) == \A a \in DOMAIN l : l[a].dir = In => l[a].qos = 2

Headed(l) == \A a \in DOMAIN l : Queued(l, a) => Before(l, a) # {}

Unique(l) ==
  \A a, b \in DOMAIN l :
    l[a].dir = In /\ l[b].dir = In /\ l[a].mid = l[b].mid => a = b

------------------------------------------------------------------------------
\* Lists.

\* A list is a function from stamps to entries.
LEMMA ListType ==
  ASSUME NEW l
  PROVE  l \in Lists <=> DOMAIN l \in SUBSET Stamps /\ l \in [DOMAIN l -> Entry]
  BY DEF Lists

\* What is known of an entry of a list: its stamp is a number, its fields have
\* their types.
LEMMA EntryType ==
  ASSUME NEW l \in Lists, NEW a \in DOMAIN l
  PROVE  /\ a \in Int /\ a \in Stamps
         /\ l[a] \in Entry
         /\ l[a].state \in MsgState /\ l[a].qos \in QoS /\ l[a].dir \in {In, Out}
<1>1. a \in Stamps /\ l[a] \in Entry
  BY ListType
<1> QED
  BY <1>1, StampAssumption DEF Entry, Stamps

\* A list is finite, its stamps being bounded.
LEMMA ListFinite ==
  ASSUME NEW l \in Lists
  PROVE  IsFiniteSet(DOMAIN l) /\ IsFiniteSet(Acked(l))
<1>1. IsFiniteSet(Stamps)
  BY StampAssumption, FS_Interval DEF Stamps
<1>2. DOMAIN l \subseteq Stamps
  BY ListType
<1>3. IsFiniteSet(DOMAIN l)
  BY <1>1, <1>2, FS_Subset
<1>4. Acked(l) \subseteq DOMAIN l
  BY DEF Acked
<1> QED
  BY <1>3, <1>4, FS_Subset

\* The empty list is a list, and has every property asked of one.
LEMMA EmptyList ==
  /\ NoEntries \in Lists
  /\ DOMAIN NoEntries = {} /\ Acked(NoEntries) = {}
  /\ Fits(NoEntries) /\ Headed(NoEntries) /\ Unique(NoEntries) /\ Received(NoEntries)
<1>1. DOMAIN NoEntries = {}
  BY DEF NoEntries
<1>2. NoEntries \in [{} -> Entry]
  BY DEF NoEntries
<1> QED
  BY <1>1, <1>2 DEF Lists, Acked, Fits, Headed, Unique, Received

\* The states the walks and passes put an entry into are states of an entry, and
\* only a QoS 0 message is put into publish_qos0, only an inbound one into a state
\* of receiving.
LEMMA StateTypes ==
  ASSUME NEW e \in Entry
  PROVE  /\ PublishState(e.qos) \in MsgState \ {"queued"}
         /\ RunState(e) \in MsgState \ {"queued"}
         /\ WalkState(e) \in MsgState \ {"queued"}
         /\ ResetState(e) \in MsgState
         /\ ResetState(e) = "queued" => e.state = "queued"
         /\ PublishState(e.qos) = "publish_qos0" => e.qos = 0
         /\ RunState(e) = "publish_qos0" => e.qos = 0
         /\ WalkState(e) = "publish_qos0" => e.qos = 0
         /\ ResetState(e) = "publish_qos0" => e.state = "publish_qos0" \/ e.qos = 0
         /\ PublishState(e.qos) \notin Receiving
         /\ RunState(e) \in Receiving => e.dir = In
         /\ WalkState(e) \in Receiving => e.dir = In
         /\ ResetState(e) \in Receiving => e.state \in Receiving
  BY SMT DEF Entry, PublishState, RunState, WalkState, ResetState, MsgState, Receiving, In, Out

\* Sending a message and timing it out neither queue it nor unqueue it, and leave
\* the QoS 0 messages alone, and what is being received goes on being received
\* (database.c:700-731, 850-915).
LEMMA StepTypes ==
  ASSUME NEW s \in MsgState
  PROVE  /\ SentState(s) \in MsgState /\ RetryState(s) \in MsgState
         /\ SentState(s) = "queued" <=> s = "queued"
         /\ RetryState(s) = "queued" <=> s = "queued"
         /\ SentState(s) = "publish_qos0" <=> s = "publish_qos0"
         /\ RetryState(s) = "publish_qos0" <=> s = "publish_qos0"
         /\ SentState(s) \in Receiving <=> s \in Receiving
         /\ RetryState(s) \in Receiving <=> s \in Receiving
  BY SMT DEF SentState, RetryState, MsgState, Receiving

\* An operator that keeps some entries of a list and changes nothing but their
\* states makes a list of it.
LEMMA Restated ==
  ASSUME NEW l \in Lists, NEW S \in SUBSET DOMAIN l, NEW k,
         DOMAIN k = S, k \in [S -> Entry],
         \A a \in S : k[a] = [l[a] EXCEPT !.state = k[a].state]
  PROVE  Keeps(l, k, DOMAIN l \ S)
<1>1. \A a \in S : l[a] \in Entry
  BY ListType
<1>2. \A a \in S : /\ k[a].mid = l[a].mid
                   /\ k[a].dir = l[a].dir
                   /\ k[a].qos = l[a].qos
                   /\ k[a].msg = l[a].msg
  BY <1>1 DEF Entry
<1>3. S \in SUBSET Stamps
  BY ListType
<1>4. k \in Lists
  BY <1>3 DEF Lists
<1> QED
  BY <1>2, <1>4 DEF Keeps

\* The same, and the states are those of f.
LEMMA EntryStates ==
  ASSUME NEW l \in Lists, NEW S \in SUBSET DOMAIN l, NEW f,
         \A a \in S : f[a] \in MsgState
  PROVE  \A a \in S : /\ [l[a] EXCEPT !.state = f[a]] \in Entry
                      /\ [l[a] EXCEPT !.state = f[a]].state = f[a]
<1>1. \A a \in S : l[a] \in Entry
  BY ListType
<1> QED
  BY <1>1 DEF Entry

\* Removing entries takes their numbers from the counters.
LEMMA KeepsCounts ==
  ASSUME NEW l \in Lists, NEW gone \in SUBSET DOMAIN l, NEW k, Keeps(l, k, gone)
  PROVE  /\ Cardinality(DOMAIN k) \in Nat
         /\ Cardinality(Acked(k)) \in Nat
         /\ Cardinality(DOMAIN k) = Cardinality(DOMAIN l) - Cardinality(gone)
         /\ Cardinality(Acked(k)) =
              Cardinality(Acked(l)) - Cardinality(gone \cap Acked(l))
<1>1. k \in Lists /\ DOMAIN k = DOMAIN l \ gone
  BY DEF Keeps
<1>2. Acked(k) = Acked(l) \ gone
  BY DEF Keeps, Acked
<1>3. Cardinality(DOMAIN k) = Cardinality(DOMAIN l) - Cardinality(DOMAIN l \cap gone)
  BY <1>1, ListFinite, FS_Difference
<1>4. Cardinality(Acked(k)) = Cardinality(Acked(l)) - Cardinality(Acked(l) \cap gone)
  BY <1>2, ListFinite, FS_Difference
<1>5. DOMAIN l \cap gone = gone /\ Acked(l) \cap gone = gone \cap Acked(l)
  OBVIOUS
<1> QED
  BY <1>1, <1>3, <1>4, <1>5, ListFinite, FS_CardinalityType

\* A list made by removing entries and changing states has no more messages under
\* one identifier than it had.
LEMMA KeepsUnique ==
  ASSUME NEW l, NEW gone, NEW k, Keeps(l, k, gone), Unique(l)
  PROVE  Unique(k) /\ (Received(l) => Received(k))
  BY DEF Keeps, Unique, Received

\* A list whose states come from those of another, or fit the message, fits too.
LEMMA FitsKept ==
  ASSUME NEW l, Fits(l), NEW gone, NEW k, Keeps(l, k, gone), NEW f,
         \A a \in DOMAIN k :
           /\ k[a].state = f[a]
           /\ f[a] = "publish_qos0" => l[a].state = "publish_qos0" \/ l[a].qos = 0
           /\ f[a] \in Receiving => l[a].state \in Receiving \/ l[a].dir = In
  PROVE  Fits(k)
<1>1. SUFFICES ASSUME NEW a \in DOMAIN k
               PROVE  /\ k[a].state = "publish_qos0" => k[a].qos = 0
                      /\ k[a].state \in Receiving => k[a].dir = In
  BY DEF Fits
<1>2. a \in DOMAIN l /\ k[a].qos = l[a].qos /\ k[a].dir = l[a].dir /\ k[a].state = f[a]
  BY DEF Keeps
<1>3. /\ l[a].state = "publish_qos0" => l[a].qos = 0
      /\ l[a].state \in Receiving => l[a].dir = In
  BY <1>2 DEF Fits
<1> QED
  BY <1>2, <1>3

------------------------------------------------------------------------------
\* The walk of mqtt3_db_message_delete and mqtt3_db_message_release.

\* The walk removes what it unlinks and changes nothing else but states.
LEMMA WalkKeeps ==
  ASSUME NEW l \in Lists, Fits(l), NEW match, NEW uncounted, NEW max,
         NEW k, k = AfterWalk(l, match, uncounted, max)
  PROVE  /\ Unlinked(l, match, uncounted, max) \in SUBSET DOMAIN l
         /\ Keeps(l, k, Unlinked(l, match, uncounted, max))
         /\ Fits(k)
         /\ \A a \in DOMAIN k :
              Queued(k, a) => /\ Queued(l, a)
                              /\ a \notin LeadingRun(l, DOMAIN l \ DOMAIN k, max)
<1> DEFINE gone == Unlinked(l, match, uncounted, max)
           run  == LeadingRun(l, gone, max)
           prom == WalkPromoted(l, match, uncounted, max)
           S == DOMAIN l \ gone
           f == [a \in S |-> IF a \in run  THEN RunState(l[a])
                        ELSE IF a \in prom THEN WalkState(l[a]) ELSE l[a].state]
<1>1. \A a \in S : l[a] \in Entry /\ l[a].state \in MsgState
  BY EntryType
<1>2. f \in [S -> MsgState]
  BY <1>1, StateTypes
<1>3. k = [a \in S |-> [l[a] EXCEPT !.state = f[a]]]
  BY DEF AfterWalk
<1>4. gone \in SUBSET DOMAIN l
  BY DEF Unlinked, Visited
<1>5. \A a \in S : /\ f[a] = "queued" => l[a].state = "queued" /\ a \notin run
                   /\ f[a] = "publish_qos0" => l[a].state = "publish_qos0" \/ l[a].qos = 0
                   /\ f[a] \in Receiving => l[a].state \in Receiving \/ l[a].dir = In
  BY <1>1, StateTypes
<1> HIDE DEF f, S, gone
<1>6. S \in SUBSET DOMAIN l /\ DOMAIN l \ S = gone
  BY <1>4 DEF S
<1>7. Keeps(l, k, gone) /\ \A a \in S : k[a].state = f[a]
  <2>1. \A a \in S : /\ [l[a] EXCEPT !.state = f[a]] \in Entry
                     /\ [l[a] EXCEPT !.state = f[a]].state = f[a]
    BY <1>2, <1>6, EntryStates
  <2>2. DOMAIN k = S /\ k \in [S -> Entry]
    BY <1>3, <2>1
  <2>3. \A a \in S : /\ k[a].state = f[a]
                     /\ k[a] = [l[a] EXCEPT !.state = k[a].state]
    BY <1>3, <2>1
  <2> QED
    BY <1>6, <2>2, <2>3, Restated
<1>8. DOMAIN k = S /\ DOMAIN l \ DOMAIN k = gone
  BY <1>3, <1>6
<1>9. Fits(k)
  BY <1>5, <1>7, <1>8, FitsKept
<1>10. \A a \in DOMAIN k : Queued(k, a) => Queued(l, a) /\ a \notin run
  BY <1>5, <1>7, <1>8 DEF Queued
<1> QED
  BY <1>4, <1>7, <1>8, <1>9, <1>10 DEF gone

\* When all that was before a queued message has been removed, the removals have
\* promoted it.
LEMMA Promotes ==
  ASSUME NEW l \in Lists, NEW removed \in SUBSET DOMAIN l, NEW max, max > 0,
         NEW a \in DOMAIN l \ removed, Queued(l, a),
         Before(l, a) # {}, Before(l, a) \subseteq removed
  PROVE  a \in LeadingRun(l, removed, max)
<1>1. PICK m \in Before(l, a) : TRUE
  OBVIOUS
<1>2. \A b \in DOMAIN l : b \in Int
  BY EntryType
<1>3. \A b \in Before(l, a) : UpTo(l, b) \subseteq Before(l, a)
  BY <1>2 DEF UpTo, Before
<1>4. m \in removed /\ m < a /\ UpTo(l, m) \subseteq removed
  BY <1>1, <1>3 DEF Before
<1>5. \A b \in UpTo(l, a) : b = a \/ b \in Before(l, a)
  BY <1>2 DEF UpTo, Before
<1>6. \A b \in UpTo(l, a) : Queued(l, b) \/ UpTo(l, b) \subseteq removed
  BY <1>3, <1>5
<1> QED
  BY <1>4, <1>6 DEF LeadingRun

\* After the walk no queued message is at the head: either the entry before it is
\* still there, or its removal has promoted it (database.c:231-253).
LEMMA WalkHeaded ==
  ASSUME NEW l \in Lists, Fits(l), Headed(l), NEW match, NEW uncounted,
         NEW max, max > 0, NEW k, k = AfterWalk(l, match, uncounted, max)
  PROVE  Headed(k)
<1> DEFINE removed == DOMAIN l \ DOMAIN k
<1>1. SUFFICES ASSUME NEW a \in DOMAIN k, Queued(k, a), Before(k, a) = {}
               PROVE  FALSE
  BY DEF Headed
<1>0. Keeps(l, k, Unlinked(l, match, uncounted, max))
  BY WalkKeeps
<1>2. DOMAIN k \subseteq DOMAIN l
  BY <1>0 DEF Keeps
<1>3. Queued(l, a) /\ a \notin LeadingRun(l, removed, max)
  BY <1>1, WalkKeeps
<1>4. Before(l, a) # {} /\ Before(l, a) \subseteq removed
  BY <1>1, <1>2, <1>3 DEF Headed, Before
<1>5. a \in DOMAIN l \ removed
  BY <1>1, <1>2
<1> QED
  BY <1>3, <1>4, <1>5, Promotes

------------------------------------------------------------------------------
\* The operators that remove nothing.

\* mqtt3_db_message_update changes one state, and does not queue anything.
LEMMA SetStateKeeps ==
  ASSUME NEW l \in Lists, Fits(l), NEW S, NEW state \in MsgState,
         state \notin {"queued", "publish_qos0"} \cup Receiving,
         NEW k, k = SetState(l, S, state)
  PROVE  Keeps(l, k, {}) /\ Fits(k) /\ (Headed(l) => Headed(k))
<1> DEFINE f == [a \in DOMAIN l |-> IF a \in S THEN state ELSE l[a].state]
<1>1. \A a \in DOMAIN l : l[a] \in Entry /\ l[a].state \in MsgState
  BY EntryType
<1>2. f \in [DOMAIN l -> MsgState]
  BY <1>1
<1>3. \A a \in DOMAIN l : [l[a] EXCEPT !.state = l[a].state] = l[a]
  BY <1>1 DEF Entry
<1>4. k = [a \in DOMAIN l |-> [l[a] EXCEPT !.state = f[a]]]
  BY <1>3 DEF SetState
<1>5. \A a \in DOMAIN l : /\ f[a] = "queued" => l[a].state = "queued"
                          /\ f[a] = "publish_qos0" => l[a].state = "publish_qos0"
                          /\ f[a] \in Receiving => l[a].state \in Receiving
  OBVIOUS
<1> HIDE DEF f
<1>6. /\ Keeps(l, k, {}) /\ DOMAIN k = DOMAIN l
      /\ \A a \in DOMAIN l : k[a].state = f[a]
  <2>1. \A a \in DOMAIN l : /\ [l[a] EXCEPT !.state = f[a]] \in Entry
                            /\ [l[a] EXCEPT !.state = f[a]].state = f[a]
    BY <1>2, EntryStates
  <2>2. DOMAIN k = DOMAIN l /\ k \in [DOMAIN l -> Entry]
    BY <1>4, <2>1
  <2>3. \A a \in DOMAIN l : /\ k[a].state = f[a]
                            /\ k[a] = [l[a] EXCEPT !.state = k[a].state]
    BY <1>4, <2>1
  <2>4. Keeps(l, k, DOMAIN l \ DOMAIN l)
    BY <2>2, <2>3, Restated
  <2>5. DOMAIN l \ DOMAIN l = {}
    OBVIOUS
  <2> QED
    BY <2>2, <2>3, <2>4, <2>5
<1>7. Fits(k)
  BY <1>5, <1>6, FitsKept
<1>8. Headed(l) => Headed(k)
  BY <1>5, <1>6 DEF Headed, Queued, Before
<1> QED
  BY <1>6, <1>7, <1>8

\* mqtt3_db_message_timeout_check changes states only, and does not queue anything.
LEMMA RetryKeeps ==
  ASSUME NEW l \in Lists, Fits(l), NEW S, NEW k, k = Retry(l, S)
  PROVE  Keeps(l, k, {}) /\ Fits(k) /\ (Headed(l) => Headed(k))
<1> DEFINE f == [a \in DOMAIN l |-> IF a \in S THEN RetryState(l[a].state)
                                              ELSE l[a].state]
<1>1. \A a \in DOMAIN l : l[a] \in Entry /\ l[a].state \in MsgState
  BY EntryType
<1>2. f \in [DOMAIN l -> MsgState]
  BY <1>1, StepTypes
<1>3. \A a \in DOMAIN l : [l[a] EXCEPT !.state = l[a].state] = l[a]
  BY <1>1 DEF Entry
<1>4. k = [a \in DOMAIN l |-> [l[a] EXCEPT !.state = f[a]]]
  BY <1>3 DEF Retry
<1>5. \A a \in DOMAIN l : /\ f[a] = "queued" => l[a].state = "queued"
                          /\ f[a] = "publish_qos0" => l[a].state = "publish_qos0"
                          /\ f[a] \in Receiving => l[a].state \in Receiving
  BY <1>1, StepTypes
<1> HIDE DEF f
<1>6. /\ Keeps(l, k, {}) /\ DOMAIN k = DOMAIN l
      /\ \A a \in DOMAIN l : k[a].state = f[a]
  <2>1. \A a \in DOMAIN l : /\ [l[a] EXCEPT !.state = f[a]] \in Entry
                            /\ [l[a] EXCEPT !.state = f[a]].state = f[a]
    BY <1>2, EntryStates
  <2>2. DOMAIN k = DOMAIN l /\ k \in [DOMAIN l -> Entry]
    BY <1>4, <2>1
  <2>3. \A a \in DOMAIN l : /\ k[a].state = f[a]
                            /\ k[a] = [l[a] EXCEPT !.state = k[a].state]
    BY <1>4, <2>1
  <2>4. Keeps(l, k, DOMAIN l \ DOMAIN l)
    BY <2>2, <2>3, Restated
  <2>5. DOMAIN l \ DOMAIN l = {}
    OBVIOUS
  <2> QED
    BY <2>2, <2>3, <2>4, <2>5
<1>7. Fits(k)
  BY <1>5, <1>6, FitsKept
<1>8. Headed(l) => Headed(k)
  BY <1>5, <1>6 DEF Headed, Queued, Before
<1> QED
  BY <1>6, <1>7, <1>8

\* A reconnection leaves no queued message at the head, whatever the list was.
LEMMA ResetKeeps ==
  ASSUME NEW l \in Lists, Fits(l), NEW max \in Nat, NEW k, k = Reset(l, max)
  PROVE  Keeps(l, k, {}) /\ Fits(k) /\ Headed(k)
<1> DEFINE f == [a \in DOMAIN l |-> IF Queued(l, a) /\ InWindow(l, max, a)
                                    THEN PublishState(l[a].qos)
                                    ELSE ResetState(l[a])]
<1>1. \A a \in DOMAIN l : l[a] \in Entry /\ l[a].state \in MsgState
  BY EntryType
<1>2. f \in [DOMAIN l -> MsgState]
  BY <1>1, StateTypes
<1>3. k = [a \in DOMAIN l |-> [l[a] EXCEPT !.state = f[a]]]
  BY DEF Reset
<1>4. \A a \in DOMAIN l :
         /\ f[a] = "publish_qos0" => l[a].state = "publish_qos0" \/ l[a].qos = 0
         /\ f[a] \in Receiving => l[a].state \in Receiving
  BY <1>1, StateTypes
<1>5. \A a \in DOMAIN l : f[a] = "queued" => Before(l, a) # {}
  <2>1. SUFFICES ASSUME NEW a \in DOMAIN l, f[a] = "queued", Before(l, a) = {}
                 PROVE  FALSE
    OBVIOUS
  <2>2. l[a].state = "queued" /\ ~InWindow(l, max, a)
    BY <1>1, <2>1, StateTypes DEF Queued
  <2> QED
    BY <2>1, <2>2, FS_EmptySet DEF InWindow
<1> HIDE DEF f
<1>6. /\ Keeps(l, k, {}) /\ DOMAIN k = DOMAIN l
      /\ \A a \in DOMAIN l : k[a].state = f[a]
  <2>1. \A a \in DOMAIN l : /\ [l[a] EXCEPT !.state = f[a]] \in Entry
                            /\ [l[a] EXCEPT !.state = f[a]].state = f[a]
    BY <1>2, EntryStates
  <2>2. DOMAIN k = DOMAIN l /\ k \in [DOMAIN l -> Entry]
    BY <1>3, <2>1
  <2>3. \A a \in DOMAIN l : /\ k[a].state = f[a]
                            /\ k[a] = [l[a] EXCEPT !.state = k[a].state]
    BY <1>3, <2>1
  <2>4. Keeps(l, k, DOMAIN l \ DOMAIN l)
    BY <2>2, <2>3, Restated
  <2>5. DOMAIN l \ DOMAIN l = {}
    OBVIOUS
  <2> QED
    BY <2>2, <2>3, <2>4, <2>5
<1>7. Fits(k)
  BY <1>4, <1>6, FitsKept
<1>8. Headed(k)
  BY <1>5, <1>6 DEF Headed, Queued, Before
<1> QED
  BY <1>6, <1>7, <1>8

------------------------------------------------------------------------------
\* The write pass.

\* The write pass removes the QoS 0 messages it has sent and changes nothing else
\* but states, wherever it stops.
LEMMA WriteKeeps ==
  ASSUME NEW l \in Lists, Fits(l), NEW stop, NEW max,
         NEW k, k = AfterWrite(l, stop, max)
  PROVE  /\ Written(l, stop, max) \in SUBSET DOMAIN l
         /\ Keeps(l, k, Written(l, stop, max))
         /\ Fits(k)
         /\ \A a \in DOMAIN k :
              Queued(k, a) => Queued(l, a) /\ a \notin WriteRun(l, stop, max)
<1> DEFINE gone == Written(l, stop, max)
           S == DOMAIN l \ gone
           found(a) == FoundState(l, stop, max, a)
           f == [a \in S |-> IF a < stop THEN SentState(found(a)) ELSE found(a)]
<1>1. \A a \in S : l[a] \in Entry /\ l[a].state \in MsgState
  BY EntryType
<1>2. \A a \in S : /\ found(a) \in MsgState
                   /\ found(a) = "queued" => /\ l[a].state = "queued"
                                             /\ a \notin WriteRun(l, stop, max)
                   /\ found(a) = "publish_qos0" =>
                        l[a].state = "publish_qos0" \/ l[a].qos = 0
                   /\ found(a) \in Receiving => l[a].state \in Receiving \/ l[a].dir = In
  <2>1. "send_pubrec" \in MsgState
    BY DEF MsgState
  <2>2. \A a \in InboundPromoted(l, stop, max) : l[a].dir = In
    BY DEF InboundPromoted
  <2> QED
    BY <1>1, <2>1, <2>2, StateTypes DEF FoundState
<1> HIDE DEF found
<1>3. f \in [S -> MsgState]
  BY <1>2, StepTypes
<1>4. k = [a \in S |-> [l[a] EXCEPT !.state = f[a]]]
  BY DEF AfterWrite, found
<1>5. gone \in SUBSET DOMAIN l
  BY DEF Written, Flushed, Ready, WriteRun, LeadingRun
<1>6. \A a \in S : /\ f[a] = "queued" => l[a].state = "queued"
                                         /\ a \notin WriteRun(l, stop, max)
                   /\ f[a] = "publish_qos0" => l[a].state = "publish_qos0" \/ l[a].qos = 0
                   /\ f[a] \in Receiving => l[a].state \in Receiving \/ l[a].dir = In
  BY <1>2, StepTypes
<1> HIDE DEF f, S, gone
<1>7. S \in SUBSET DOMAIN l /\ DOMAIN l \ S = gone
  BY <1>5 DEF S
<1>8. Keeps(l, k, gone) /\ \A a \in S : k[a].state = f[a]
  <2>1. \A a \in S : /\ [l[a] EXCEPT !.state = f[a]] \in Entry
                     /\ [l[a] EXCEPT !.state = f[a]].state = f[a]
    BY <1>3, <1>7, EntryStates
  <2>2. DOMAIN k = S /\ k \in [S -> Entry]
    BY <1>4, <2>1
  <2>3. \A a \in S : /\ k[a].state = f[a]
                     /\ k[a] = [l[a] EXCEPT !.state = k[a].state]
    BY <1>4, <2>1
  <2> QED
    BY <1>7, <2>2, <2>3, Restated
<1>9. DOMAIN k = S
  BY <1>4
<1>10. Fits(k)
  BY <1>6, <1>8, <1>9, FitsKept
<1>11. \A a \in DOMAIN k :
         Queued(k, a) => Queued(l, a) /\ a \notin WriteRun(l, stop, max)
  BY <1>6, <1>8, <1>9 DEF Queued
<1> QED
  BY <1>5, <1>8, <1>10, <1>11 DEF gone

\* Only QoS 0 messages before the stop are sent and forgotten.
LEMMA WrittenQos0 ==
  ASSUME NEW l \in Lists, Fits(l), NEW stop, NEW max
  PROVE  \A a \in Written(l, stop, max) : a \in DOMAIN l /\ l[a].qos = 0 /\ a < stop
<1>1. \A a \in Ready(l, stop) : a \in DOMAIN l /\ l[a].qos = 0 /\ a < stop
  BY DEF Ready, Fits
<1>2. \A a \in DOMAIN l : a \in Int
  BY EntryType
<1>3. \A a \in DOMAIN l : a \in UpTo(l, a)
  BY <1>2 DEF UpTo
<1>4. \A a \in Flushed(l, stop, max) : a \in DOMAIN l /\ l[a].qos = 0 /\ a < stop
  BY <1>1, <1>3 DEF Flushed
<1>5. WriteRun(l, stop, max) \subseteq DOMAIN l
  BY DEF WriteRun, LeadingRun
<1> QED
  BY <1>4, <1>5 DEF Written

\* The pass that has sent everything before a queued message has promoted it: what
\* it has unlinked is QoS 0 from the head on, so all of it was flushed on the way.
LEMMA WriteHeaded ==
  ASSUME NEW l \in Lists, Fits(l), Headed(l), NEW stop, NEW max, max > 0,
         NEW k, k = AfterWrite(l, stop, max)
  PROVE  Headed(k)
<1> DEFINE flushed == Flushed(l, stop, max)
           run     == WriteRun(l, stop, max)
           written == Written(l, stop, max)
<1>1. SUFFICES ASSUME NEW a \in DOMAIN k, Queued(k, a), Before(k, a) = {}
               PROVE  FALSE
  BY DEF Headed
<1>2. Keeps(l, k, written)
  BY WriteKeeps
<1>3. Queued(l, a) /\ a \notin run /\ a \in DOMAIN l \ written
  BY <1>1, <1>2, WriteKeeps DEF Keeps
<1>4. Before(l, a) # {} /\ Before(l, a) \subseteq written
  BY <1>1, <1>2, <1>3 DEF Headed, Keeps, Before
<1>5. \A b \in DOMAIN l : b \in Int
  BY EntryType
<1>6. \A b \in Before(l, a) : UpTo(l, b) \subseteq Before(l, a)
  BY <1>3, <1>5 DEF UpTo, Before
<1>7. flushed \in SUBSET DOMAIN l /\ a \notin flushed
  BY <1>3 DEF Written, Flushed, Ready
<1>8. \A b \in written : l[b].qos = 0 /\ b < stop
  BY WrittenQos0
<1>9. \A b \in written : b \in flushed \/ b \in run
  BY DEF Written
<1>10. Before(l, a) \subseteq flushed
  <2>1. SUFFICES ASSUME NEW b \in Before(l, a), b \in run
                 PROVE  FALSE
    BY <1>4, <1>9
  <2>2. b \in DOMAIN l \ flushed
    BY <2>1 DEF WriteRun, LeadingRun
  <2>3. PICK m \in flushed : UpTo(l, m) \subseteq flushed
    BY <2>1 DEF WriteRun, LeadingRun
  <2>4. \E c \in Ready(l, stop) : UpTo(l, c) \subseteq Ready(l, stop)
    BY <2>3 DEF Flushed
  <2>5. b < stop /\ \A c \in UpTo(l, b) : l[c].qos = 0
    BY <1>4, <1>6, <1>8
  <2>6. b \in flushed
    BY <2>2, <2>4, <2>5 DEF Flushed
  <2> QED
    BY <2>2, <2>6
<1>11. a \in LeadingRun(l, flushed, max)
  BY <1>3, <1>4, <1>7, <1>10, Promotes
<1> QED
  BY <1>3, <1>11 DEF WriteRun

------------------------------------------------------------------------------
\* The inductive invariant.

Rest == /\ sock \in BOOLEAN /\ clean \in BOOLEAN
        /\ last_mid \in 0..MidMax
        /\ limits \in Limits
        /\ phase \in {"reads", "check"}

Good(l) == l \in Lists /\ Fits(l) /\ Unique(l) /\ Received(l)

Counted(l, n, n12) == n = Cardinality(DOMAIN l) /\ n12 = Cardinality(Acked(l))

Inv == Rest /\ Good(msgs) /\ Counted(msgs, msg_count, msg_count12) /\ HeadInFlight

\* The sizes the counters stand for are natural numbers.
LEMMA Counts ==
  ASSUME NEW l \in Lists
  PROVE  Cardinality(DOMAIN l) \in Nat /\ Cardinality(Acked(l)) \in Nat
  BY ListFinite, FS_CardinalityType

\* The configured limits are natural numbers.
LEMMA LimitTypes ==
  ASSUME limits \in Limits
  PROVE  limits.inflight \in Nat /\ limits.queued \in Nat
  BY LimitAssumption

\* Removing entries keeps a list good, and subtracting their numbers keeps the
\* counters exact.
LEMMA GoodKept ==
  ASSUME NEW l, Good(l), NEW gone \in SUBSET DOMAIN l,
         NEW k, Keeps(l, k, gone), Fits(k)
  PROVE  /\ Good(k)
         /\ \A n, n12 : Counted(l, n, n12) =>
              Counted(k, n - Cardinality(gone), n12 - Cardinality(gone \cap Acked(l)))
<1>1. l \in Lists /\ k \in Lists
  BY DEF Good, Keeps
<1>2. Unique(k) /\ Received(k)
  BY KeepsUnique DEF Good
<1>3. /\ Cardinality(DOMAIN k) = Cardinality(DOMAIN l) - Cardinality(gone)
      /\ Cardinality(Acked(k)) = Cardinality(Acked(l)) - Cardinality(gone \cap Acked(l))
  BY <1>1, KeepsCounts
<1> QED
  BY <1>1, <1>2, <1>3 DEF Good, Counted

\* The same when nothing is removed.
LEMMA GoodSame ==
  ASSUME NEW l, Good(l), NEW k, Keeps(l, k, {}), Fits(k)
  PROVE  /\ Good(k)
         /\ \A n, n12 : Counted(l, n, n12) => Counted(k, n, n12)
<1>1. l \in Lists /\ k \in Lists
  BY DEF Good, Keeps
<1>2. Unique(k) /\ Received(k)
  BY KeepsUnique DEF Good
<1>3. DOMAIN k = DOMAIN l /\ Acked(k) = Acked(l)
  BY DEF Keeps, Acked
<1> QED
  BY <1>1, <1>2, <1>3 DEF Good, Counted

\* A list without entries is good, and its counters are 0.
LEMMA GoodEmpty == Good(NoEntries) /\ Counted(NoEntries, 0, 0)
  BY EmptyList, FS_EmptySet DEF Good, Counted

\* A new message is queued for a connected client only when the window is full,
\* that is when other messages are in the list.
LEMMA AdmitFacts ==
  ASSUME Rest, NEW dir \in {In, Out}, NEW qos \in QoS, NEW n12 \in Nat
  PROVE  LET state == Admit(dir, qos, n12)
         IN  /\ state \in MsgState \cup {"dropped"}
             /\ state = "publish_qos0" => qos = 0
             /\ state \in Receiving => dir = In
             /\ sock /\ state = "queued" => qos > 0 /\ n12 >= limits.inflight
<1>1. limits.inflight \in Nat /\ limits.queued \in Nat /\ sock \in BOOLEAN
  BY LimitTypes DEF Rest
<1>2. /\ PublishState(qos) \in MsgState \ {"queued"}
      /\ PublishState(qos) = "publish_qos0" => qos = 0
      /\ PublishState(qos) \notin Receiving
  BY DEF PublishState, MsgState, QoS, Receiving
<1>3. {"wait_for_pubrel", "queued"} \subseteq MsgState
  BY DEF MsgState
<1>4. /\ Admit(dir, qos, n12) \in {PublishState(qos), "wait_for_pubrel", "queued", "dropped"}
      /\ Admit(dir, qos, n12) = "wait_for_pubrel" => dir = In
      /\ sock /\ Admit(dir, qos, n12) = "queued" => qos > 0 /\ n12 >= limits.inflight
  <2>1. PublishState(qos) # "queued" /\ PublishState(qos) # "wait_for_pubrel"
    BY <1>2 DEF Receiving
  <2>2. CASE sock
    BY <1>1, <2>1, <2>2 DEF Admit, In, Out, QoS
  <2>3. CASE ~sock
    BY <1>1, <2>3, QosAssumption DEF Admit
  <2> QED
    BY <1>1, <2>2, <2>3
<1>5. {"queued", "dropped"} \cap Receiving = {}
  BY DEF Receiving
<1> QED
  BY <1>2, <1>3, <1>4, <1>5

\* mqtt3_db_message_insert keeps the list good, the counters exact and the head
\* in flight, provided a QoS 2 PUBLISH of the client is not stored already.
LEMMA InsertGood ==
  ASSUME Inv, NEW at \in Stamps, IsNext(msgs, at),
         NEW dir \in {In, Out}, NEW mid \in 0..MidMax, NEW qos \in QoS,
         NEW m \in Msgs \cup {NoMsg},
         dir = In => qos = 2 /\ Match(msgs, mid, In) = {},
         NEW k, k = Inserted(msgs, at, dir, mid, qos, m)
  PROVE  /\ Good(k)
         /\ Counted(k, msg_count + Added(dir, qos),
                    IF qos > 0 THEN msg_count12 + Added(dir, qos) ELSE msg_count12)
         /\ Added(dir, qos) \in {0, 1}
         /\ sock /\ limits.inflight > 0 => Headed(k)
<1> DEFINE state == Admit(dir, qos, msg_count12)
           e == [mid |-> mid, dir |-> dir, qos |-> qos, state |-> state, msg |-> m]
<1>1. /\ Rest /\ Good(msgs) /\ Counted(msgs, msg_count, msg_count12)
      /\ sock /\ limits.inflight > 0 => Headed(msgs)
  BY DEF Inv, HeadInFlight, Headed
<1>2. /\ msgs \in Lists /\ msg_count \in Nat /\ msg_count12 \in Nat
  BY <1>1, Counts DEF Good, Counted
<1>3. /\ state \in MsgState \cup {"dropped"}
      /\ state = "publish_qos0" => qos = 0
      /\ state \in Receiving => dir = In
      /\ sock /\ state = "queued" => qos > 0 /\ msg_count12 >= limits.inflight
  BY <1>1, <1>2, AdmitFacts
<1>4. CASE state = "dropped"
  <2>1. k = msgs /\ Added(dir, qos) = 0
    BY <1>4 DEF Inserted, Added
  <2> QED
    BY <1>1, <1>2, <2>1
<1>5. CASE state # "dropped"
  <2>1. k = Append1(msgs, at, e) /\ Added(dir, qos) = 1
    BY <1>5 DEF Inserted, Added
  <2>2. e \in Entry
    BY <1>3, <1>5 DEF Entry
  <2> HIDE DEF e
  <2>3. /\ DOMAIN k = DOMAIN msgs \cup {at} /\ at \notin DOMAIN msgs
        /\ k[at] = e /\ \A a \in DOMAIN msgs : k[a] = msgs[a]
        /\ k \in [DOMAIN k -> Entry]
    <3>1. \A a \in DOMAIN msgs : a < at /\ a \in Int /\ msgs[a] \in Entry
      BY <1>2, EntryType DEF IsNext
    <3> QED
      BY <2>1, <2>2, <3>1 DEF Append1
  <2>4. k \in Lists
    BY <1>2, <2>3, ListType
  <2>5. Fits(k)
    BY <1>1, <1>3, <2>3 DEF Good, Fits, e
  <2>6. Unique(k)
    <3>1. \A a \in DOMAIN msgs : ~(dir = In /\ msgs[a].dir = In /\ msgs[a].mid = mid)
      BY DEF Match
    <3>2. k[at].dir = dir /\ k[at].mid = mid
      BY <2>3 DEF e
    <3> QED
      BY <1>1, <2>3, <3>1, <3>2 DEF Good, Unique
  <2>10. Received(k)
    BY <1>1, <2>3 DEF Good, Received, e
  <2>7. Cardinality(DOMAIN k) = msg_count + 1
    BY <1>1, <1>2, <2>3, ListFinite, FS_AddElement DEF Counted
  <2>8. Cardinality(Acked(k)) = IF qos > 0 THEN msg_count12 + 1 ELSE msg_count12
    <3>1. k[at].qos = qos
      BY <2>3 DEF e
    <3>2. Acked(k) = IF qos > 0 THEN Acked(msgs) \cup {at} ELSE Acked(msgs)
      BY <2>3, <3>1 DEF Acked
    <3>3. at \notin Acked(msgs)
      BY <2>3 DEF Acked
    <3> QED
      BY <1>1, <1>2, <3>2, <3>3, ListFinite, FS_AddElement DEF Counted
  <2>9. ASSUME sock, limits.inflight > 0
        PROVE  Headed(k)
    <3>1. \A a \in DOMAIN msgs : Before(msgs, a) \subseteq Before(k, a)
      BY <2>3 DEF Before
    <3>2. \A a \in DOMAIN msgs : Queued(k, a) => Before(k, a) # {}
      BY <1>1, <2>3, <2>9, <3>1 DEF Headed, Queued
    <3>3. ASSUME Queued(k, at)
          PROVE  Before(k, at) # {}
      <4>1. state = "queued"
        BY <2>3, <3>3 DEF Queued, e
      <4>2. Cardinality(Acked(msgs)) > 0
        BY <1>1, <1>2, <1>3, <2>9, <4>1, LimitTypes DEF Counted, Rest
      <4>3. Acked(msgs) # {}
        BY <4>2, FS_EmptySet
      <4>4. \E a \in DOMAIN msgs : a < at
        BY <4>3 DEF Acked, IsNext
      <4> QED
        BY <2>3, <4>4 DEF Before
    <3> QED
      BY <2>3, <3>2, <3>3 DEF Headed
  <2> QED
    BY <2>1, <2>4, <2>5, <2>6, <2>7, <2>8, <2>9, <2>10 DEF Good, Counted
<1> QED
  BY <1>4, <1>5

------------------------------------------------------------------------------
\* What the pieces of the actions do to the invariant.

\* The walk keeps all the invariant asks of the list.
LEMMA WalkGood ==
  ASSUME NEW l, Good(l), NEW n, NEW n12, Counted(l, n, n12),
         NEW match, NEW uncounted, NEW max,
         NEW k, k = AfterWalk(l, match, uncounted, max),
         NEW gone, gone = Unlinked(l, match, uncounted, max)
  PROVE  /\ Good(k)
         /\ Counted(k, n - Cardinality(gone), n12 - Cardinality(gone \cap Acked(l)))
         /\ max > 0 /\ Headed(l) => Headed(k)
<1>1. l \in Lists /\ Fits(l)
  BY DEF Good
<1>2. gone \in SUBSET DOMAIN l /\ Keeps(l, k, gone) /\ Fits(k)
  BY <1>1, WalkKeeps
<1>3. max > 0 /\ Headed(l) => Headed(k)
  BY <1>1, WalkHeaded
<1> QED
  BY <1>2, <1>3, GoodKept

\* The write pass keeps all the invariant asks of the list.
LEMMA WriteGood ==
  ASSUME NEW l, Good(l), NEW n, NEW n12, Counted(l, n, n12),
         NEW stop, NEW max, NEW k, k = AfterWrite(l, stop, max),
         NEW gone, gone = Written(l, stop, max)
  PROVE  /\ Good(k)
         /\ Counted(k, n - Cardinality(gone), n12 - Cardinality(gone \cap Acked(l)))
         /\ max > 0 /\ Headed(l) => Headed(k)
<1>1. l \in Lists /\ Fits(l)
  BY DEF Good
<1>2. gone \in SUBSET DOMAIN l /\ Keeps(l, k, gone) /\ Fits(k)
  BY <1>1, WriteKeeps
<1>3. max > 0 /\ Headed(l) => Headed(k)
  BY <1>1, WriteHeaded
<1> QED
  BY <1>2, <1>3, GoodKept

\* What the invariant says, in the form in which the actions' proofs use it.
LEMMA InvFacts ==
  ASSUME Inv
  PROVE  /\ Rest /\ Good(msgs) /\ Counted(msgs, msg_count, msg_count12)
         /\ sock /\ limits.inflight > 0 => Headed(msgs)
         /\ msgs \in Lists /\ Fits(msgs)
         /\ msg_count \in Nat /\ msg_count12 \in Nat
<1>1. Rest /\ Good(msgs) /\ Counted(msgs, msg_count, msg_count12) /\ HeadInFlight
  BY DEF Inv
<1> QED
  BY <1>1, Counts DEF HeadInFlight, Headed, Good, Counted

\* The parts of the invariant that speak of the list, after a step.
Preserved == Good(msgs)' /\ Counted(msgs, msg_count, msg_count12)' /\ HeadInFlight'

\* The parts of the invariant about the list, from their values in the new state.
LEMMA KeptBy ==
  ASSUME Good(msgs'), Counted(msgs', msg_count', msg_count12'),
         sock' /\ limits'.inflight > 0 => Headed(msgs')
  PROVE  Preserved
  BY DEF Preserved, Good, Counted, HeadInFlight, Headed, Queued, Before, Lists, Fits,
         Unique, Received, Receiving, Acked, Entry, Stamps, Mids, QoS, MsgState, In, Out

\* A step that touches neither the list nor the connection keeps them.
LEMMA UnchangedKept ==
  ASSUME Inv, UNCHANGED <<list, sock, limits>>
  PROVE  Preserved
  BY InvFacts, KeptBy DEF list

\* An insertion keeps them.
LEMMA InsertKept ==
  ASSUME Inv, NEW at \in Stamps,
         NEW dir \in {In, Out}, NEW mid \in 0..MidMax, NEW qos \in QoS,
         NEW m \in Msgs \cup {NoMsg},
         dir = In => qos = 2 /\ Match(msgs, mid, In) = {},
         Insert(at, dir, mid, qos, m), UNCHANGED <<sock, limits>>
  PROVE  Preserved
<1>1. /\ Good(msgs')
      /\ Counted(msgs', msg_count', msg_count12')
      /\ sock /\ limits.inflight > 0 => Headed(msgs')
  BY InsertGood DEF Insert
<1> QED
  BY <1>1, KeptBy

\* do_disconnect keeps them: a list that is kept is not looked at while the client
\* is away, one that is not is emptied with its counters.
LEMMA HangupKept ==
  ASSUME NEW k, Good(k), NEW n, NEW n12, Counted(k, n, n12), Hangup(k, n, n12), Rest
  PROVE  /\ Preserved
         /\ sock' \in BOOLEAN /\ clean' \in BOOLEAN /\ last_mid' \in 0..MidMax
<1>1. Good(msgs') /\ Counted(msgs', msg_count', msg_count12')
  BY GoodEmpty DEF Hangup
<1>2. sock' = FALSE /\ clean' = clean /\ last_mid' = last_mid
  BY DEF Hangup
<1> QED
  BY <1>1, <1>2, KeptBy DEF Rest

\* The invariant, from its parts in the new state.
LEMMA RestKept ==
  ASSUME Rest,
         sock' \in BOOLEAN, clean' \in BOOLEAN, last_mid' \in 0..MidMax,
         limits' \in Limits, phase' \in {"reads", "check"}, Preserved
  PROVE  Inv'
  BY DEF Rest, Preserved, Inv

------------------------------------------------------------------------------
\* Every action keeps the invariant.

\* Identifiers stay in their range when the counter wraps.
LEMMA MidTypes ==
  /\ \A mid \in Mids : mid \in 0..MidMax
  /\ \A mid \in 0..MidMax : NextMid(mid) \in 0..MidMax
  /\ 0 \in 0..MidMax
  BY MidAssumption DEF Mids, NextMid

\* A QoS 2 PUBLISH is stored under an identifier that is not stored.
LEMMA PublishQos2Inv ==
  ASSUME Inv, NEW mid \in Mids, NEW m \in Msgs, PublishQos2(mid, m)
  PROVE  Inv'
<1>1. Rest /\ UNCHANGED <<sock, clean, last_mid, limits, phase>>
  BY InvFacts DEF PublishQos2, session
<1>2. Preserved
  <2>1. CASE Match(msgs, mid, In) # {}
    BY <1>1, <2>1, UnchangedKept DEF PublishQos2
  <2>2. CASE Match(msgs, mid, In) = {}
    <3>1. PICK at \in Stamps : Insert(at, In, mid, 2, m)
      BY <2>2 DEF PublishQos2
    <3>2. In \in {In, Out} /\ 2 \in QoS /\ m \in Msgs \cup {NoMsg} /\ mid \in 0..MidMax
      BY MidTypes DEF QoS
    <3> QED
      BY <1>1, <2>2, <3>1, <3>2, InsertKept
  <2> QED
    BY <2>1, <2>2
<1> QED
  BY <1>1, <1>2, RestKept DEF Rest

\* The same for a denied one, whose client may be disconnected.
LEMMA PublishDeniedInv ==
  ASSUME Inv, NEW mid \in Mids, PublishDenied(mid)
  PROVE  Inv'
<1>1. Rest /\ UNCHANGED <<limits, phase>>
  BY InvFacts DEF PublishDenied
<1>2. In \in {In, Out} /\ 2 \in QoS /\ NoMsg \in Msgs \cup {NoMsg} /\ mid \in 0..MidMax
  BY MidTypes DEF QoS
<1>3. CASE Match(msgs, mid, In) # {}
  <2>1. UNCHANGED <<list, sock, clean, last_mid>>
    BY <1>3 DEF PublishDenied, session
  <2> QED
    BY <1>1, <2>1, UnchangedKept, RestKept DEF Rest
<1>4. CASE Match(msgs, mid, In) = {} /\ Admit(In, 2, msg_count12) = "wait_for_pubrel"
  <2>1. UNCHANGED <<sock, clean, last_mid>>
    BY <1>4 DEF PublishDenied, session
  <2>2. PICK at \in Stamps : Insert(at, In, mid, 2, NoMsg)
    BY <1>4 DEF PublishDenied
  <2>3. Preserved
    BY <1>1, <1>2, <1>4, <2>1, <2>2, InsertKept
  <2> QED
    BY <1>1, <2>1, <2>3, RestKept DEF Rest
<1>5. CASE Match(msgs, mid, In) = {} /\ Admit(In, 2, msg_count12) # "wait_for_pubrel"
  <2>1. PICK at \in Stamps :
          /\ IsNext(msgs, at)
          /\ Hangup(Inserted(msgs, at, In, mid, 2, NoMsg),
                    msg_count + Added(In, 2), msg_count12 + Added(In, 2))
    BY <1>5 DEF PublishDenied
  <2> DEFINE k == Inserted(msgs, at, In, mid, 2, NoMsg)
  <2>2. Good(k) /\ Counted(k, msg_count + Added(In, 2), msg_count12 + Added(In, 2))
    <3>1. 2 > 0
      OBVIOUS
    <3> QED
      BY <1>2, <1>5, <2>1, <3>1, InsertGood
  <2> HIDE DEF k
  <2>3. /\ Preserved
        /\ sock' \in BOOLEAN /\ clean' \in BOOLEAN /\ last_mid' \in 0..MidMax
    BY <1>1, <2>1, <2>2, HangupKept DEF k
  <2> QED
    BY <1>1, <2>3, RestKept DEF Rest
<1> QED
  BY <1>3, <1>4, <1>5

\* PUBACK and PUBCOMP take out what they unlink, and its count.
LEMMA PubAckCompInv ==
  ASSUME Inv, NEW mid, PubAckComp(mid)
  PROVE  Inv'
<1> DEFINE match == Match(msgs, mid, Out)
           gone  == Unlinked(msgs, match, match, limits.inflight)
<1>1. Rest /\ UNCHANGED <<sock, clean, last_mid, limits, phase>>
  BY InvFacts DEF PubAckComp, session
<1>2. /\ msgs' = AfterWalk(msgs, match, match, limits.inflight)
      /\ msg_count' = msg_count - Cardinality(gone)
      /\ msg_count12' = msg_count12 - Cardinality(gone \cap Acked(msgs))
  BY DEF PubAckComp, Unlink
<1> HIDE DEF match, gone
<1>3. /\ Good(msgs') /\ Counted(msgs', msg_count', msg_count12')
      /\ limits.inflight > 0 /\ Headed(msgs) => Headed(msgs')
  BY <1>2, InvFacts, WalkGood DEF gone
<1>4. Preserved
  BY <1>1, <1>3, InvFacts, KeptBy
<1> QED
  BY <1>1, <1>4, RestKept DEF Rest

\* PUBREC changes a state or disconnects the client.
LEMMA PubRecInv ==
  ASSUME Inv, NEW mid, PubRec(mid)
  PROVE  Inv'
<1>1. Rest /\ UNCHANGED <<limits, phase>>
  BY InvFacts DEF PubRec
<1>2. CASE Match(msgs, mid, Out) # {}
  <2>1. /\ msgs' = SetState(msgs, FirstMatch(msgs, mid, Out), "wait_for_pubcomp")
        /\ UNCHANGED <<sock, clean, msg_count, msg_count12, last_mid>>
    BY <1>2 DEF PubRec, session
  <2>2. /\ "wait_for_pubcomp" \in MsgState
        /\ "wait_for_pubcomp" \notin {"queued", "publish_qos0"} \cup Receiving
    BY DEF MsgState, Receiving
  <2>3. Keeps(msgs, msgs', {}) /\ Fits(msgs') /\ (Headed(msgs) => Headed(msgs'))
    BY <2>1, <2>2, InvFacts, SetStateKeeps
  <2>4. Preserved
    BY <1>1, <2>1, <2>3, InvFacts, GoodSame, KeptBy
  <2> QED
    BY <1>1, <2>1, <2>4, RestKept DEF Rest
<1>3. CASE Match(msgs, mid, Out) = {}
  <2>1. Hangup(msgs, msg_count, msg_count12)
    BY <1>3 DEF PubRec
  <2>2. /\ Preserved
        /\ sock' \in BOOLEAN /\ clean' \in BOOLEAN /\ last_mid' \in 0..MidMax
    BY <2>1, InvFacts, HangupKept
  <2> QED
    BY <1>1, <2>2, RestKept DEF Rest
<1> QED
  BY <1>2, <1>3

\* PUBREL may add the client's own copy before it takes the stored message out;
\* the copy is outbound, so what is taken out is what was stored.
LEMMA PubRelInv ==
  ASSUME Inv, NEW mid, NEW own \in QoS \cup {NoSub}, PubRel(mid, own)
  PROVE  Inv'
<1> DEFINE match == Match(msgs, mid, In)
           live  == {a \in match : msgs[a].msg # NoMsg}
<1>1. Rest /\ UNCHANGED <<sock, clean, limits, phase>>
  BY InvFacts DEF PubRel, session
<1>2. CASE own = NoSub
  <2> DEFINE gone == Unlinked(msgs, match, {}, limits.inflight)
  <2>1. /\ msgs' = AfterWalk(msgs, match, {}, limits.inflight)
        /\ msg_count' = msg_count - Cardinality(gone)
        /\ msg_count12' = msg_count12 - Cardinality(gone \cap Acked(msgs))
        /\ UNCHANGED last_mid
    <3>1. ASSUME own # NoSub, live = {}
          PROVE  ~ \E a \in live : TRUE
      BY <3>1
    <3> QED
      BY <1>2, <3>1 DEF PubRel, Unlink, Released
  <2> HIDE DEF match, gone
  <2>2. /\ Good(msgs') /\ Counted(msgs', msg_count', msg_count12')
        /\ limits.inflight > 0 /\ Headed(msgs) => Headed(msgs')
    BY <2>1, InvFacts, WalkGood DEF gone
  <2>3. Preserved
    BY <1>1, <2>2, InvFacts, KeptBy
  <2> QED
    BY <1>1, <2>1, <2>3, RestKept DEF Rest
<1>3. CASE own # NoSub
  <2> DEFINE next == IF own > 0 THEN NextMid(last_mid) ELSE 0
  <2> DEFINE n         == msg_count + Added(Out, own)
             n12       == IF own > 0 THEN msg_count12 + Added(Out, own)
                                     ELSE msg_count12
             L(b, t)   == Inserted(msgs, t, Out, next, own, msgs[b].msg)
             G(b, t)   == Unlinked(L(b, t), match, {}, limits.inflight)
  <2>1. PICK a \in live, at \in Stamps :
          /\ IsNext(msgs, at)
          /\ Released(L(a, at), mid)
          /\ last_mid' = IF own > 0 THEN next ELSE last_mid
          /\ msg_count' = n - Cardinality(G(a, at))
          /\ msg_count12' = n12 - Cardinality(G(a, at) \cap Acked(L(a, at)))
    BY <1>3 DEF PubRel
  <2> DEFINE l    == L(a, at)
             gone == G(a, at)
  <2>2. /\ IsNext(msgs, at)
        /\ msgs' = AfterWalk(l, match, {}, limits.inflight)
        /\ last_mid' = IF own > 0 THEN next ELSE last_mid
        /\ msg_count' = n - Cardinality(gone)
        /\ msg_count12' = n12 - Cardinality(gone \cap Acked(l))
    <3>1. Released(l, mid)
      BY <2>1
    <3>2. msgs' = AfterWalk(l, Match(l, mid, In), {}, limits.inflight)
      BY <3>1 DEF Released
    <3>3. Match(l, mid, In) = match
      <4>1. \A b \in DOMAIN msgs : b < at /\ b \in Int
        BY <2>1, InvFacts, EntryType DEF IsNext
      <4> DEFINE state == Admit(Out, own, msg_count12)
                 e == [mid |-> next, dir |-> Out, qos |-> own,
                       state |-> state, msg |-> msgs[a].msg]
      <4>2. l = msgs \/ l = Append1(msgs, at, e)
        BY DEF Inserted
      <4>3. e.dir # In
        BY DEF In, Out
      <4> HIDE DEF e, l
      <4>4. CASE l = Append1(msgs, at, e)
        <5>1. /\ DOMAIN l = DOMAIN msgs \cup {at}
              /\ l[at] = e
              /\ \A b \in DOMAIN msgs : l[b] = msgs[b]
          BY <4>1, <4>4 DEF Append1
        <5> QED
          BY <4>3, <5>1 DEF Match
      <4> QED
        BY <4>2, <4>4
    <3>4. IsNext(msgs, at)
      BY <2>1
    <3> HIDE DEF match, next, n, n12, L, G
    <3>5. msg_count' = n - Cardinality(gone)
      BY <2>1
    <3>6. msg_count12' = n12 - Cardinality(gone \cap Acked(l))
      BY <2>1
    <3> HIDE DEF gone
    <3>7. last_mid' = IF own > 0 THEN next ELSE last_mid
      BY <2>1
    <3> HIDE DEF l
    <3> QED
      BY <3>2, <3>3, <3>4, <3>5, <3>6, <3>7
  <2>3. own \in QoS /\ msgs[a].msg \in Msgs \cup {NoMsg} /\ next \in 0..MidMax
    <3>1. own \in QoS
      BY <1>3
    <3>2. a \in DOMAIN msgs
      BY <2>1 DEF Match
    <3>3. msgs[a] \in Entry
      BY <3>2, InvFacts, EntryType
    <3> QED
      BY <1>1, <3>1, <3>3, MidTypes DEF Entry, Rest
  <2>4. /\ Good(l) /\ Counted(l, n, n12)
        /\ sock /\ limits.inflight > 0 => Headed(l)
    <3>1. Out \in {In, Out} /\ Out # In
      BY DEF In, Out
    <3> HIDE DEF next
    <3> QED
      BY <2>2, <2>3, <3>1, InsertGood
  <2> HIDE DEF match, L, n, n12, next
  <2>5. /\ Good(msgs') /\ Counted(msgs', msg_count', msg_count12')
        /\ limits.inflight > 0 /\ Headed(l) => Headed(msgs')
    BY <2>2, <2>4, WalkGood DEF gone
  <2>6. Preserved
    BY <1>1, <2>4, <2>5, KeptBy
  <2>7. last_mid' \in 0..MidMax
    BY <1>1, <2>2, <2>3 DEF Rest
  <2> QED
    BY <1>1, <2>6, <2>7, RestKept DEF Rest
<1> QED
  BY <1>2, <1>3

\* A message for the client is an insertion.
LEMMA RouteInv ==
  ASSUME Inv, NEW qos \in QoS, NEW m \in Msgs, Route(qos, m)
  PROVE  Inv'
<1> DEFINE mid == IF qos > 0 THEN NextMid(last_mid) ELSE 0
<1>1. /\ Rest /\ UNCHANGED <<sock, clean, limits, phase>>
      /\ last_mid' = IF qos > 0 THEN mid ELSE last_mid
  BY InvFacts DEF Route, session
<1>2. PICK at \in Stamps : Insert(at, Out, mid, qos, m)
  BY DEF Route
<1>3. Out \in {In, Out} /\ Out # In /\ m \in Msgs \cup {NoMsg}
  BY DEF In, Out
<1>4. mid \in 0..MidMax /\ last_mid' \in 0..MidMax
  BY <1>1, MidTypes DEF Rest
<1> HIDE DEF mid
<1>5. Preserved
  BY <1>1, <1>2, <1>3, <1>4, InsertKept
<1> QED
  BY <1>1, <1>4, <1>5, RestKept DEF Rest

\* The write pass to its end.
LEMMA WritePassInv ==
  ASSUME Inv, WritePass
  PROVE  Inv'
<1>1. Rest /\ UNCHANGED <<sock, clean, last_mid, limits>> /\ phase' = "check"
  BY InvFacts DEF WritePass, session
<1>2. Preserved
  <2>1. CASE sock
    <3> DEFINE max  == limits.inflight
               gone == Written(msgs, PastEnd, max)
    <3>1. /\ msgs' = AfterWrite(msgs, PastEnd, max)
          /\ msg_count' = msg_count - Cardinality(gone)
          /\ msg_count12' = msg_count12 - Cardinality(gone \cap Acked(msgs))
      BY <2>1 DEF WritePass, Unlink
    <3> HIDE DEF gone
    <3>2. /\ Good(msgs') /\ Counted(msgs', msg_count', msg_count12')
          /\ max > 0 /\ Headed(msgs) => Headed(msgs')
      BY <3>1, InvFacts, WriteGood DEF gone
    <3> QED
      BY <1>1, <3>2, InvFacts, KeptBy
  <2>2. CASE ~sock
    BY <1>1, <2>2, UnchangedKept DEF WritePass
  <2> QED
    BY <2>1, <2>2
<1> QED
  BY <1>1, <1>2, RestKept DEF Rest

\* The write pass that is cut short.
LEMMA WriteFailsInv ==
  ASSUME Inv, NEW stop \in Stamps, WriteFails(stop)
  PROVE  Inv'
<1> DEFINE max  == limits.inflight
           gone == Written(msgs, stop, max)
           k    == AfterWrite(msgs, stop, max)
           n    == msg_count - Cardinality(gone)
           n12  == msg_count12 - Cardinality(gone \cap Acked(msgs))
<1>1. Rest /\ UNCHANGED limits /\ phase' = "check" /\ Hangup(k, n, n12)
  BY InvFacts DEF WriteFails
<1>2. Good(k) /\ Counted(k, n, n12)
  <2> HIDE DEF gone, k
  <2> QED
    BY InvFacts, WriteGood DEF gone, k
<1> HIDE DEF k, n, n12
<1>3. /\ Preserved
      /\ sock' \in BOOLEAN /\ clean' \in BOOLEAN /\ last_mid' \in 0..MidMax
  BY <1>1, <1>2, HangupKept
<1> QED
  BY <1>1, <1>3, RestKept DEF Rest

\* The retry check.
LEMMA TimeoutCheckInv ==
  ASSUME Inv, NEW S, TimeoutCheck(S)
  PROVE  Inv'
<1>1. /\ Rest /\ UNCHANGED <<sock, clean, last_mid, limits, msg_count, msg_count12>>
      /\ phase' = "reads" /\ msgs' = Retry(msgs, S)
  BY InvFacts DEF TimeoutCheck, session
<1>2. Keeps(msgs, msgs', {}) /\ Fits(msgs') /\ (Headed(msgs) => Headed(msgs'))
  BY <1>1, InvFacts, RetryKeeps
<1>3. Preserved
  BY <1>1, <1>2, InvFacts, GoodSame, KeptBy
<1> QED
  BY <1>1, <1>3, RestKept DEF Rest

\* The connection ending.
LEMMA DisconnectInv ==
  ASSUME Inv, Disconnect
  PROVE  Inv'
<1>1. Rest /\ UNCHANGED <<limits, phase>> /\ Hangup(msgs, msg_count, msg_count12)
  BY InvFacts DEF Disconnect
<1>2. /\ Preserved
      /\ sock' \in BOOLEAN /\ clean' \in BOOLEAN /\ last_mid' \in 0..MidMax
  BY <1>1, InvFacts, HangupKept
<1> QED
  BY <1>1, <1>2, RestKept DEF Rest

\* A new connection: the reset promotes what is at the head and counts again.
LEMMA ConnectInv ==
  ASSUME Inv, NEW c \in BOOLEAN, Connect(c)
  PROVE  Inv'
<1> DEFINE kept == IF clean \/ c THEN NoEntries ELSE msgs
<1>1. /\ Rest /\ UNCHANGED <<limits, phase>>
      /\ sock' = TRUE /\ clean' = c /\ last_mid' = 0
      /\ msgs' = Reset(kept, limits.inflight)
      /\ Counted(kept, msg_count', msg_count12')
  BY InvFacts DEF Connect, Counted
<1>2. Good(kept)
  BY InvFacts, GoodEmpty
<1> HIDE DEF kept
<1>3. Keeps(kept, msgs', {}) /\ Fits(msgs') /\ Headed(msgs')
  BY <1>1, <1>2, LimitTypes, ResetKeeps DEF Good, Rest
<1>4. Good(msgs') /\ Counted(msgs', msg_count', msg_count12')
  BY <1>1, <1>2, <1>3, GoodSame
<1>5. Preserved
  BY <1>3, <1>4, KeptBy
<1> QED
  BY <1>1, <1>5, MidTypes, RestKept DEF Rest

\* A session expiring.
LEMMA ExpireInv ==
  ASSUME Inv, Expire
  PROVE  Inv'
<1>1. /\ Rest /\ UNCHANGED <<sock, last_mid, limits, phase>>
      /\ sock = FALSE /\ clean' = TRUE
      /\ msgs' = NoEntries /\ msg_count' = 0 /\ msg_count12' = 0
  BY InvFacts DEF Expire, Rest
<1>2. Preserved
  BY <1>1, GoodEmpty, KeptBy
<1> QED
  BY <1>1, <1>2, RestKept DEF Rest

\* A reload changes the window but does not open or close it.
LEMMA ReloadInv ==
  ASSUME Inv, NEW new \in Limits, Reload(new)
  PROVE  Inv'
<1>1. Rest /\ UNCHANGED <<list, sock, clean, last_mid, phase>> /\ limits' = new
  BY InvFacts DEF Reload, session
<1>2. limits.inflight \in Nat /\ new.inflight \in Nat
  BY <1>1, LimitTypes, LimitAssumption DEF Rest
<1>3. new.inflight > 0 => limits.inflight > 0
  BY <1>1, <1>2, ReloadAssumption DEF Rest
<1>4. Preserved
  BY <1>1, <1>3, InvFacts, KeptBy DEF list
<1> QED
  BY <1>1, <1>4, RestKept DEF Rest

\* The invariant holds initially.
LEMMA InvInit == Init => Inv
<1>1. SUFFICES ASSUME Init PROVE Inv
  OBVIOUS
<1>2. Good(msgs) /\ Counted(msgs, msg_count, msg_count12)
  BY <1>1, GoodEmpty DEF Init
<1>3. HeadInFlight
  BY <1>1 DEF Init, HeadInFlight
<1>4. Rest
  BY <1>1, MidTypes DEF Init, Rest
<1> QED
  BY <1>2, <1>3, <1>4 DEF Inv

\* Every step keeps the invariant.
LEMMA InvNext == Inv /\ [Next]_vars => Inv'
<1>1. SUFFICES ASSUME Inv, [Next]_vars PROVE Inv'
  OBVIOUS
<1>2. CASE FromClient
  BY <1>1, <1>2, PublishQos2Inv, PublishDeniedInv, PubAckCompInv, PubRecInv, PubRelInv
     DEF FromClient
<1>3. CASE \E qos \in QoS, m \in Msgs : Route(qos, m)
  BY <1>1, <1>3, RouteInv
<1>4. CASE MainLoop
  BY <1>1, <1>4, WritePassInv, WriteFailsInv, TimeoutCheckInv DEF MainLoop
<1>5. CASE Sessions
  BY <1>1, <1>5, DisconnectInv, ConnectInv, ExpireInv, ReloadInv DEF Sessions
<1>6. CASE UNCHANGED vars
  <2>1. UNCHANGED <<list, sock, clean, last_mid, limits, phase>>
    BY <1>6 DEF vars, list
  <2> QED
    BY <1>1, <2>1, InvFacts, UnchangedKept, RestKept DEF Rest
<1> QED
  BY <1>1, <1>2, <1>3, <1>4, <1>5, <1>6 DEF Next

\* The invariant holds always.
LEMMA InvAlways == Spec => []Inv
  BY InvInit, InvNext, PTL DEF Spec

------------------------------------------------------------------------------
\* The theorems.

\* The variables keep their types for all constants, the counters staying natural
\* numbers through every removal (database.c:221-224).
THEOREM TypesCorrect == Spec => []TypeOK
<1>1. Inv => TypeOK
  BY InvFacts, ListType DEF TypeOK, Rest
<1> QED
  BY <1>1, InvAlways, PTL

\* msg_count and msg_count12 always are the numbers of messages in the list, for
\* lists of any length and through every kind of step.
THEOREM CountersCorrect == Spec => []CountsExact
<1>1. Inv => CountsExact
  BY DEF Inv, Counted, CountsExact
<1> QED
  BY <1>1, InvAlways, PTL

\* No queued message is ever at the head of a connected client's list.
THEOREM HeadNeverQueued == Spec => []HeadInFlight
<1>1. Inv => HeadInFlight
  BY DEF Inv
<1> QED
  BY <1>1, InvAlways, PTL

\* The broker never holds two messages of the client under one identifier.
THEOREM StoredOnce == Spec => []InboundUnique
<1>1. Inv => InboundUnique
  BY DEF Inv, Good, Unique, InboundUnique
<1> QED
  BY <1>1, InvAlways, PTL

------------------------------------------------------------------------------
\* The bound on what is let in.

Bound == limits.inflight + limits.queued

\* A step lets in a QoS 1 or 2 message within the limits.
Bounded == limits.queued > 0 /\ limits.inflight > 0 /\ msg_count12' > msg_count12
             => msg_count12' <= Bound

\* An insertion with QoS 1 or 2 adds at most one message, and none beyond the limits
\* (database.c:346-395).
LEMMA AddedBounded ==
  ASSUME Inv, NEW dir \in {In, Out}, NEW qos \in QoS, qos > 0
  PROVE  /\ Added(dir, qos) \in {0, 1}
         /\ limits.queued > 0 /\ limits.inflight > 0 /\ Added(dir, qos) = 1
              => msg_count12 + 1 <= Bound
<1>1. /\ limits.inflight \in Nat /\ limits.queued \in Nat /\ sock \in BOOLEAN
      /\ msg_count12 \in Nat
  BY InvFacts, LimitTypes DEF Rest
<1>2. Added(dir, qos) \in {0, 1}
  BY DEF Added
<1>3. ASSUME limits.queued > 0, limits.inflight > 0, Added(dir, qos) = 1
      PROVE  msg_count12 + 1 <= Bound
  <2>1. Admit(dir, qos, msg_count12) # "dropped"
    BY <1>3 DEF Added
  <2>2. CASE sock
    BY <1>1, <1>3, <2>1, <2>2 DEF Admit, Bound, In, Out, QoS
  <2>3. CASE ~sock
    BY <1>1, <1>3, <2>1, <2>3 DEF Admit, Bound, QoS
  <2> QED
    BY <1>1, <2>2, <2>3
<1> QED
  BY <1>2, <1>3

\* What is taken out of a list is a number of its messages.
LEMMA GoneCounts ==
  ASSUME NEW l \in Lists, NEW S
  PROVE  Cardinality(S \cap Acked(l)) \in Nat
<1>1. S \cap Acked(l) \in SUBSET Acked(l)
  OBVIOUS
<1> QED
  BY <1>1, ListFinite, FS_Subset, FS_CardinalityType

\* The counters after a hangup.
LEMMA HangupBounded ==
  ASSUME Inv, NEW k, NEW n, NEW n12 \in Int, Hangup(k, n, n12),
         limits.queued > 0 /\ limits.inflight > 0 /\ n12 > msg_count12 => n12 <= Bound
  PROVE  Bounded
<1>1. msg_count12 \in Nat
  BY InvFacts
<1>2. msg_count12' = 0 \/ msg_count12' = n12
  BY DEF Hangup
<1> QED
  BY <1>1, <1>2 DEF Bounded

\* An insertion.
LEMMA InsertBounded ==
  ASSUME Inv, NEW at, NEW dir \in {In, Out}, NEW mid, NEW qos \in QoS, NEW m,
         Insert(at, dir, mid, qos, m)
  PROVE  Bounded
<1>1. msg_count12 \in Nat /\ qos \in 0..2
  BY InvFacts DEF QoS
<1>2. CASE qos > 0
  BY <1>1, <1>2, AddedBounded DEF Insert, Bounded
<1>3. CASE ~(qos > 0)
  BY <1>1, <1>3 DEF Insert, Bounded
<1> QED
  BY <1>2, <1>3

\* A step that adds nothing.
LEMMA LessBounded ==
  ASSUME msg_count12 \in Int, msg_count12' \in Int, msg_count12' <= msg_count12
  PROVE  Bounded
  BY DEF Bounded

\* PUBREL, with or without the client's own copy.
LEMMA PubRelBounded ==
  ASSUME Inv, NEW mid \in Mids, NEW own \in QoS \cup {NoSub}, PubRel(mid, own)
  PROVE  Bounded
<1> DEFINE match == Match(msgs, mid, In)
           live  == {a \in match : msgs[a].msg # NoMsg}
<1>0. msg_count12 \in Nat /\ msgs \in Lists
  BY InvFacts
<1>1. CASE own = NoSub
  <2> DEFINE gone == Unlinked(msgs, match, {}, limits.inflight)
  <2>1. msg_count12' = msg_count12 - Cardinality(gone \cap Acked(msgs))
    BY <1>1 DEF PubRel, Unlink
  <2> HIDE DEF gone
  <2>2. Cardinality(gone \cap Acked(msgs)) \in Nat
    BY <1>0, GoneCounts
  <2> QED
    BY <1>0, <2>1, <2>2, LessBounded
<1>2. CASE own # NoSub
  <2> DEFINE next    == IF own > 0 THEN NextMid(last_mid) ELSE 0
             n12     == IF own > 0 THEN msg_count12 + Added(Out, own) ELSE msg_count12
             L(b, t) == Inserted(msgs, t, Out, next, own, msgs[b].msg)
             G(b, t) == Unlinked(L(b, t), match, {}, limits.inflight)
  <2>1. PICK a \in live, at \in Stamps :
          /\ IsNext(msgs, at)
          /\ msg_count12' = n12 - Cardinality(G(a, at) \cap Acked(L(a, at)))
    BY <1>2 DEF PubRel
  <2> DEFINE l == L(a, at)
             gone == G(a, at)
  <2>2. own \in QoS
    BY <1>2
  <2>3. a \in DOMAIN msgs
    BY <2>1 DEF Match
  <2>4. msgs[a].msg \in Msgs \cup {NoMsg}
    <3>1. msgs[a] \in Entry
      BY <1>0, <2>3, EntryType
    <3> QED
      BY <3>1 DEF Entry
  <2>5. next \in 0..MidMax
    BY InvFacts, MidTypes DEF Rest
  <2>6. l \in Lists
    <3>1. Out \in {In, Out} /\ Out # In
      BY DEF In, Out
    <3>2. IsNext(msgs, at)
      BY <2>1
    <3> HIDE DEF next, match
    <3>3. l = Inserted(msgs, at, Out, next, own, msgs[a].msg)
      OBVIOUS
    <3> HIDE DEF l
    <3>4. Good(l)
      BY <3>1, <3>2, <3>3, <2>2, <2>4, <2>5, InsertGood
    <3> QED
      BY <3>4 DEF Good
  <2>7. msg_count12' = n12 - Cardinality(gone \cap Acked(l))
    BY <2>1
  <2> HIDE DEF gone, l
  <2>8. Cardinality(gone \cap Acked(l)) \in Nat
    BY <2>6, GoneCounts
  <2>9. CASE own > 0
    <3>1. /\ Added(Out, own) \in {0, 1}
          /\ limits.queued > 0 /\ limits.inflight > 0 /\ Added(Out, own) = 1
               => msg_count12 + 1 <= Bound
      BY <2>2, <2>9, AddedBounded
    <3>2. msg_count12' = (msg_count12 + Added(Out, own)) - Cardinality(gone \cap Acked(l))
      BY <2>7, <2>9
    <3>3. Bound \in Int
      BY InvFacts, LimitTypes DEF Bound, Rest
    <3> QED
      BY <1>0, <2>8, <3>1, <3>2, <3>3 DEF Bounded
  <2>10. CASE ~(own > 0)
    <3>1. msg_count12' = msg_count12 - Cardinality(gone \cap Acked(l))
      BY <2>7, <2>10
    <3> QED
      BY <1>0, <2>8, <3>1, LessBounded
  <2> QED
    BY <2>9, <2>10
<1> QED
  BY <1>1, <1>2

\* Every other packet of the client.
LEMMA FromClientBounded ==
  ASSUME Inv, FromClient
  PROVE  Bounded
<1>0. msg_count12 \in Nat /\ msgs \in Lists
  BY InvFacts
<1>1. In \in {In, Out} /\ 2 \in QoS /\ 2 > 0
  BY DEF QoS
<1>2. ASSUME NEW mid \in Mids, NEW m \in Msgs, PublishQos2(mid, m)
      PROVE  Bounded
  <2>1. CASE Match(msgs, mid, In) # {}
    BY <1>0, <1>2, <2>1, LessBounded DEF PublishQos2, list
  <2>2. CASE Match(msgs, mid, In) = {}
    <3>1. PICK at \in Stamps : Insert(at, In, mid, 2, m)
      BY <1>2, <2>2 DEF PublishQos2
    <3> QED
      BY <1>1, <3>1, InsertBounded
  <2> QED
    BY <2>1, <2>2
<1>3. ASSUME NEW mid \in Mids, PublishDenied(mid)
      PROVE  Bounded
  <2>1. CASE Match(msgs, mid, In) # {}
    BY <1>0, <1>3, <2>1, LessBounded DEF PublishDenied, list
  <2>2. CASE Match(msgs, mid, In) = {} /\ Admit(In, 2, msg_count12) = "wait_for_pubrel"
    <3>1. PICK at \in Stamps : Insert(at, In, mid, 2, NoMsg)
      BY <1>3, <2>2 DEF PublishDenied
    <3> QED
      BY <1>1, <3>1, InsertBounded
  <2>3. CASE Match(msgs, mid, In) = {} /\ Admit(In, 2, msg_count12) # "wait_for_pubrel"
    <3>1. PICK at \in Stamps :
            Hangup(Inserted(msgs, at, In, mid, 2, NoMsg),
                   msg_count + Added(In, 2), msg_count12 + Added(In, 2))
      BY <1>3, <2>3 DEF PublishDenied
    <3>2. /\ Added(In, 2) \in {0, 1}
          /\ limits.queued > 0 /\ limits.inflight > 0 /\ Added(In, 2) = 1
               => msg_count12 + 1 <= Bound
      BY <1>1, AddedBounded
    <3>3. /\ msg_count12 + Added(In, 2) \in Int
          /\ limits.queued > 0 /\ limits.inflight > 0
             /\ msg_count12 + Added(In, 2) > msg_count12
               => msg_count12 + Added(In, 2) <= Bound
      BY <1>0, <3>2
    <3> QED
      BY <3>1, <3>3, HangupBounded
  <2> QED
    BY <2>1, <2>2, <2>3
<1>4. ASSUME NEW mid \in Mids, PubAckComp(mid)
      PROVE  Bounded
  <2> DEFINE match == Match(msgs, mid, Out)
             gone  == Unlinked(msgs, match, match, limits.inflight)
  <2>1. msg_count12' = msg_count12 - Cardinality(gone \cap Acked(msgs))
    BY <1>4 DEF PubAckComp, Unlink
  <2> HIDE DEF gone
  <2>2. Cardinality(gone \cap Acked(msgs)) \in Nat
    BY <1>0, GoneCounts
  <2> QED
    BY <1>0, <2>1, <2>2, LessBounded
<1>5. ASSUME NEW mid \in Mids, PubRec(mid)
      PROVE  Bounded
  BY <1>0, <1>5, HangupBounded, LessBounded DEF PubRec
<1> QED
  BY <1>2, <1>3, <1>4, <1>5, PubRelBounded DEF FromClient

\* The main loop only takes out.
LEMMA MainLoopBounded ==
  ASSUME Inv, MainLoop
  PROVE  Bounded
<1>0. msg_count12 \in Nat /\ msgs \in Lists
  BY InvFacts
<1>1. CASE WritePass
  <2> DEFINE gone == Written(msgs, PastEnd, limits.inflight)
  <2>1. \/ msg_count12' = msg_count12 - Cardinality(gone \cap Acked(msgs))
        \/ msg_count12' = msg_count12
    BY <1>1 DEF WritePass, Unlink, list
  <2> HIDE DEF gone
  <2>2. Cardinality(gone \cap Acked(msgs)) \in Nat
    BY <1>0, GoneCounts
  <2> QED
    BY <1>0, <2>1, <2>2, LessBounded
<1>2. ASSUME NEW stop \in Stamps, WriteFails(stop)
      PROVE  Bounded
  <2> DEFINE gone == Written(msgs, stop, limits.inflight)
             n12  == msg_count12 - Cardinality(gone \cap Acked(msgs))
  <2>1. Hangup(AfterWrite(msgs, stop, limits.inflight), msg_count - Cardinality(gone), n12)
    BY <1>2 DEF WriteFails
  <2> HIDE DEF gone
  <2>2. Cardinality(gone \cap Acked(msgs)) \in Nat
    BY <1>0, GoneCounts
  <2>3. n12 \in Int /\ ~(n12 > msg_count12)
    BY <1>0, <2>2
  <2> HIDE DEF n12
  <2> QED
    BY <2>1, <2>3, HangupBounded
<1>3. ASSUME NEW S \in SUBSET Waiting(msgs), TimeoutCheck(S)
      PROVE  Bounded
  BY <1>0, <1>3, LessBounded DEF TimeoutCheck
<1> QED
  BY <1>1, <1>2, <1>3 DEF MainLoop

\* A new connection counts what it inherits, which is not more than there was.
LEMMA SessionsBounded ==
  ASSUME Inv, Sessions
  PROVE  Bounded
<1>0. msg_count12 \in Nat /\ msg_count12 = Cardinality(Acked(msgs))
  BY InvFacts DEF Counted
<1>1. CASE Disconnect
  BY <1>0, <1>1, HangupBounded DEF Disconnect
<1>2. ASSUME NEW c \in BOOLEAN, Connect(c)
      PROVE  Bounded
  <2>1. CASE clean \/ c
    <3>1. msg_count12' = Cardinality(Acked(NoEntries))
      BY <1>2, <2>1 DEF Connect
    <3>2. msg_count12' = 0
      BY <3>1, GoodEmpty DEF Counted
    <3> QED
      BY <1>0, <3>2, LessBounded
  <2>2. CASE ~(clean \/ c)
    BY <1>0, <1>2, <2>2, LessBounded DEF Connect
  <2> QED
    BY <2>1, <2>2
<1>3. CASE Expire
  BY <1>0, <1>3, LessBounded DEF Expire
<1>4. ASSUME NEW new \in Limits, Reload(new)
      PROVE  Bounded
  BY <1>0, <1>4, LessBounded DEF Reload, list
<1> QED
  BY <1>1, <1>2, <1>3, <1>4 DEF Sessions

\* Every step.
LEMMA StepBounded ==
  ASSUME Inv, [Next]_vars
  PROVE  Bounded
<1>0. msg_count12 \in Nat
  BY InvFacts
<1>1. CASE FromClient
  BY <1>1, FromClientBounded
<1>2. CASE \E qos \in QoS, m \in Msgs : Route(qos, m)
  <2>1. PICK qos \in QoS, m \in Msgs : Route(qos, m)
    BY <1>2
  <2>2. PICK at \in Stamps, mid \in {NextMid(last_mid), 0} : Insert(at, Out, mid, qos, m)
    BY <2>1 DEF Route
  <2> QED
    BY <2>2, InsertBounded
<1>3. CASE MainLoop
  BY <1>3, MainLoopBounded
<1>4. CASE Sessions
  BY <1>4, SessionsBounded
<1>5. CASE UNCHANGED vars
  BY <1>0, <1>5, LessBounded DEF vars
<1> QED
  BY <1>1, <1>2, <1>3, <1>4, <1>5 DEF Next

\* No step that lets in a QoS 1 or 2 message leaves more than max_inflight +
\* max_queued of them (database.c:366, 383), whatever the packets, the limits and
\* the reloads: what the counters say is what is in the list.
THEOREM AdmissionsBounded == Spec => AdmissionBounded
<1> DEFINE Within == limits.queued > 0 /\ limits.inflight > 0
                     /\ Cardinality(Acked(msgs')) > Cardinality(Acked(msgs))
                     => Cardinality(Acked(msgs')) <= limits.inflight + limits.queued
<1>1. Inv /\ Inv' /\ [Next]_vars => [Within]_vars
  <2> SUFFICES ASSUME Inv, Inv', [Next]_vars
               PROVE  Within
    OBVIOUS
  <2>1. msg_count12 = Cardinality(Acked(msgs))
    BY DEF Inv, Counted
  <2>2. msg_count12' = Cardinality(Acked(msgs'))
    BY DEF Inv, Counted, Acked
  <2>3. Bounded
    BY StepBounded
  <2> QED
    BY <2>1, <2>2, <2>3 DEF Bounded, Bound
<1> QED
  BY <1>1, InvAlways, PTL DEF Spec, AdmissionBounded

------------------------------------------------------------------------------
\* What PUBREC promises.

Wire == [type : {"CONNACK", "PUBACK", "PUBREC", "PUBREL", "PUBCOMP"}, mid : 0..MidMax]
        \cup [type : {"PUBLISH"}, mid : 0..MidMax, qos : QoS, msg : Msgs \cup {NoMsg}]

\* A packet without a message, as it goes over the wire.
LEMMA PacketType ==
  ASSUME NEW type \in {"CONNACK", "PUBACK", "PUBREC", "PUBREL", "PUBCOMP"},
         NEW mid \in 0..MidMax
  PROVE  /\ Packet(type, mid) \in Wire
         /\ Packet(type, mid).type = type /\ Packet(type, mid).mid = mid
  BY DEF Packet, Wire

\* The messages of a list that a step of the write pass finds as such.
LEMMA FoundReceiving ==
  ASSUME NEW l \in Lists, Fits(l), NEW stop, NEW max, NEW a \in DOMAIN l,
         FoundState(l, stop, max, a) \in Receiving
  PROVE  l[a].dir = In
<1>1. l[a] \in Entry
  BY EntryType
<1>2. a \in InboundPromoted(l, stop, max) => l[a].dir = In
  BY DEF InboundPromoted
<1>3. l[a].state \in Receiving => l[a].dir = In
  BY DEF Fits
<1> QED
  BY <1>1, <1>2, <1>3, StateTypes DEF FoundState

\* The packets of a write pass are for messages of the list in its order: a PUBREC
\* is for an inbound message, which the pass keeps (database.c:700-741, 870-890).
LEMMA WritePacketFacts ==
  ASSUME NEW l \in Lists, Fits(l), Received(l), NEW stop, NEW max
  PROVE  /\ WritePackets(l, stop, max) \in Seq(Wire)
         /\ \A i \in DOMAIN WritePackets(l, stop, max) :
              LET p == WritePackets(l, stop, max)[i]
              IN  /\ p.type \in {"PUBLISH", "PUBREC", "PUBREL"}
                  /\ p.type = "PUBREC" =>
                       \E a \in DOMAIN l \ Written(l, stop, max) :
                         l[a].dir = In /\ l[a].mid = p.mid
                  /\ p.type = "PUBLISH" => \E a \in DOMAIN l : l[a].qos = p.qos
<1> DEFINE found(a) == FoundState(l, stop, max, a)
           S        == {a \in DOMAIN l : a < stop /\ Sends(found(a))}
           order    == InOrder(S)
           ps       == WritePackets(l, stop, max)
<1>1. S \in SUBSET Int /\ IsFiniteSet(S)
  <2>1. S \subseteq DOMAIN l
    OBVIOUS
  <2> QED
    BY <2>1, EntryType, ListFinite, FS_Subset
<1>2. ps = [i \in DOMAIN order |-> PacketFor(l[order[i]], found(order[i]))]
  BY DEF WritePackets
<1> HIDE DEF S, ps, found
<1>3. DOMAIN order = 1..Cardinality(S) /\ Cardinality(S) \in Nat
      /\ \A i \in DOMAIN order : order[i] \in S
  BY <1>1, InOrderFacts, FS_CardinalityType
<1>4. ASSUME NEW a \in DOMAIN l
      PROVE  /\ PacketFor(l[a], found(a)) \in Wire
             /\ PacketFor(l[a], found(a)).type \in {"PUBLISH", "PUBREC", "PUBREL"}
             /\ PacketFor(l[a], found(a)).type = "PUBREC" => found(a) = "send_pubrec"
             /\ PacketFor(l[a], found(a)).mid = l[a].mid
             /\ PacketFor(l[a], found(a)).type = "PUBLISH"
                  => PacketFor(l[a], found(a)).qos = l[a].qos
  <2>1. l[a] \in Entry
    BY EntryType
  <2>2. l[a].mid \in 0..MidMax /\ l[a].qos \in QoS /\ l[a].msg \in Msgs \cup {NoMsg}
    BY <2>1 DEF Entry
  <2>3. CASE found(a) = "send_pubrec"
    <3>1. PacketFor(l[a], found(a)) = Packet("PUBREC", l[a].mid)
      BY <2>3 DEF PacketFor
    <3> QED
      BY <2>2, <2>3, <3>1, PacketType
  <2>4. CASE found(a) = "resend_pubrel"
    <3>1. PacketFor(l[a], found(a)) = Packet("PUBREL", l[a].mid)
      BY <2>4 DEF PacketFor
    <3> QED
      BY <2>2, <3>1, PacketType
  <2>5. CASE found(a) \notin {"send_pubrec", "resend_pubrel"}
    <3>1. PacketFor(l[a], found(a)) = Publish(l[a])
      BY <2>5 DEF PacketFor
    <3>2. /\ Publish(l[a]) \in Wire /\ Publish(l[a]).type = "PUBLISH"
          /\ Publish(l[a]).mid = l[a].mid /\ Publish(l[a]).qos = l[a].qos
      BY <2>2 DEF Publish, Wire
    <3> QED
      BY <3>1, <3>2
  <2> QED
    BY <2>3, <2>4, <2>5
<1>5. \A a \in S : a \in DOMAIN l
  BY DEF S
<1>6. ps \in [1..Cardinality(S) -> Wire]
  BY <1>2, <1>3, <1>4, <1>5
<1>7. ps \in Seq(Wire)
  BY <1>3, <1>6
<1>8. ASSUME NEW i \in DOMAIN ps
      PROVE  /\ ps[i].type \in {"PUBLISH", "PUBREC", "PUBREL"}
             /\ ps[i].type = "PUBREC" =>
                  \E a \in DOMAIN l \ Written(l, stop, max) :
                    l[a].dir = In /\ l[a].mid = ps[i].mid
             /\ ps[i].type = "PUBLISH" => \E a \in DOMAIN l : l[a].qos = ps[i].qos
  <2> DEFINE a == order[i]
  <2>1. a \in DOMAIN l /\ ps[i] = PacketFor(l[a], found(a))
    BY <1>2, <1>3, <1>5
  <2> HIDE DEF a
  <2>2. ASSUME ps[i].type = "PUBREC"
        PROVE  a \notin Written(l, stop, max) /\ l[a].dir = In /\ l[a].mid = ps[i].mid
    <3>1. found(a) \in Receiving
      BY <1>4, <2>1, <2>2 DEF Receiving
    <3>2. l[a].dir = In /\ l[a].qos = 2
      BY <2>1, <3>1, FoundReceiving DEF found, Received
    <3> QED
      BY <1>4, <2>1, <3>2, WrittenQos0
  <2> QED
    BY <1>4, <2>1, <2>2
<1> QED
  BY <1>7, <1>8 DEF ps

\* What a PUBREL is answered with: PUBREC for messages that are being received,
\* then PUBCOMP (database.c:774, read_handle_shared.c:262).
LEMMA ReleasedFacts ==
  ASSUME NEW l \in Lists, NEW mid \in 0..MidMax, Released(l, mid)
  PROVE  /\ sent' \in Seq(Wire) /\ Len(sent') > 0
         /\ sent'[Len(sent')] = Packet("PUBCOMP", mid)
         /\ \A i \in 1..Len(sent') - 1 :
              /\ sent'[i].type = "PUBREC"
              /\ \E a \in DOMAIN l : l[a].dir = In /\ l[a].mid = sent'[i].mid
<1> DEFINE match == Match(l, mid, In)
           S     == {a \in WalkPromoted(l, match, {}, limits.inflight) : l[a].dir = In}
           order == InOrder(S)
           recs  == [i \in DOMAIN order |-> Packet("PUBREC", l[order[i]].mid)]
<1>1. S \subseteq DOMAIN l /\ S \in SUBSET Int /\ IsFiniteSet(S)
  <2>1. S \subseteq DOMAIN l
    BY DEF WalkPromoted, Visited
  <2> QED
    BY <2>1, EntryType, ListFinite, FS_Subset
<1>2. sent' = recs \o <<Packet("PUBCOMP", mid)>>
  BY DEF Released
<1>3. \A a \in S : l[a].dir = In
  OBVIOUS
<1> HIDE DEF S
<1>4. DOMAIN order = 1..Cardinality(S) /\ Cardinality(S) \in Nat
      /\ \A i \in DOMAIN order : order[i] \in S
  BY <1>1, InOrderFacts, FS_CardinalityType
<1>5. ASSUME NEW i \in DOMAIN order
      PROVE  /\ Packet("PUBREC", l[order[i]].mid) \in Wire
             /\ Packet("PUBREC", l[order[i]].mid).type = "PUBREC"
             /\ Packet("PUBREC", l[order[i]].mid).mid = l[order[i]].mid
             /\ order[i] \in DOMAIN l /\ l[order[i]].dir = In
  <2>1. order[i] \in DOMAIN l /\ l[order[i]].dir = In
    BY <1>1, <1>3, <1>4
  <2>2. l[order[i]].mid \in 0..MidMax
    BY <2>1, EntryType DEF Entry
  <2> QED
    BY <2>1, <2>2, PacketType
<1>6. recs \in [1..Cardinality(S) -> Wire]
  BY <1>4, <1>5
<1>7. recs \in Seq(Wire) /\ Len(recs) = Cardinality(S)
  BY <1>4, <1>6
<1>8. \A i \in 1..Len(recs) : /\ recs[i].type = "PUBREC"
                               /\ \E a \in DOMAIN l : l[a].dir = In /\ l[a].mid = recs[i].mid
  BY <1>4, <1>5, <1>7
<1>9. Packet("PUBCOMP", mid) \in Wire
  BY PacketType
<1> HIDE DEF recs
<1>10. /\ sent' \in Seq(Wire) /\ Len(sent') = Len(recs) + 1
       /\ sent'[Len(recs) + 1] = Packet("PUBCOMP", mid)
       /\ \A i \in 1..Len(recs) : sent'[i] = recs[i]
  BY <1>2, <1>7, <1>9
<1> QED
  BY <1>7, <1>8, <1>10

\* A promise of a step of the broker is kept.
Promised ==
  \A i \in DOMAIN sent' : sent'[i].type = "PUBREC" /\ sock' =>
    \/ Match(msgs', sent'[i].mid, In) # {}
    \/ sent'[Len(sent')] = Packet("PUBCOMP", sent'[i].mid)

\* What is stored is in the list.
LEMMA InsertStored ==
  ASSUME Inv, NEW at \in Stamps, NEW mid, NEW m, Insert(at, In, mid, 2, m),
         Admit(In, 2, msg_count12) = "wait_for_pubrel"
  PROVE  Match(msgs', mid, In) # {}
<1> DEFINE e == [mid |-> mid, dir |-> In, qos |-> 2, state |-> "wait_for_pubrel", msg |-> m]
<1>1. msgs' = Append1(msgs, at, e)
  BY DEF Insert, Inserted
<1>2. e.mid = mid /\ e.dir = In
  OBVIOUS
<1> HIDE DEF e
<1>3. at \in DOMAIN msgs' /\ msgs'[at] = e
  BY <1>1 DEF Append1
<1> QED
  BY <1>2, <1>3 DEF Match

\* One PUBREC, or none.
LEMMA OnePromised ==
  ASSUME NEW mid \in 0..MidMax,
         \/ sent' = <<>>
         \/ \E type \in {"CONNACK", "PUBREL"} : sent' = <<Packet(type, mid)>>
         \/ sent' = <<Packet("PUBREC", mid)>> /\ Match(msgs', mid, In) # {}
  PROVE  Promised
<1>1. CASE sent' = <<>>
  BY <1>1 DEF Promised
<1>2. ASSUME NEW type \in {"CONNACK", "PUBREL"}, sent' = <<Packet(type, mid)>>
      PROVE  Promised
  BY <1>2, PacketType DEF Promised
<1>3. CASE sent' = <<Packet("PUBREC", mid)>> /\ Match(msgs', mid, In) # {}
  BY <1>3, PacketType DEF Promised
<1> QED
  BY <1>1, <1>2, <1>3

\* A packet of the client, PUBREL apart.
LEMMA FromClientPromised ==
  ASSUME Inv, FromClient, ~ \E mid \in Mids, own \in QoS \cup {NoSub} : PubRel(mid, own)
  PROVE  Promised
<1>1. ASSUME NEW mid \in Mids, NEW m \in Msgs, PublishQos2(mid, m)
      PROVE  Promised
  <2>1. CASE Match(msgs, mid, In) # {}
    <3>1. sent' = <<Packet("PUBREC", mid)>> /\ msgs' = msgs
      BY <1>1, <2>1 DEF PublishQos2, Outputs, list
    <3> QED
      BY <2>1, <3>1, MidTypes, OnePromised
  <2>2. CASE Match(msgs, mid, In) = {}
    <3>1. PICK at \in Stamps : Insert(at, In, mid, 2, m)
      BY <1>1, <2>2 DEF PublishQos2
    <3>2. sent' = IF Admit(In, 2, msg_count12) = "wait_for_pubrel"
                  THEN <<Packet("PUBREC", mid)>> ELSE <<>>
      BY <1>1, <2>2 DEF PublishQos2, Outputs
    <3> QED
      BY <3>1, <3>2, MidTypes, InsertStored, OnePromised
  <2> QED
    BY <2>1, <2>2
<1>2. ASSUME NEW mid \in Mids, PublishDenied(mid)
      PROVE  Promised
  <2>1. CASE Match(msgs, mid, In) # {}
    <3>1. sent' = <<Packet("PUBREC", mid)>> /\ msgs' = msgs
      BY <1>2, <2>1 DEF PublishDenied, Outputs, list
    <3> QED
      BY <2>1, <3>1, MidTypes, OnePromised
  <2>2. CASE Match(msgs, mid, In) = {} /\ Admit(In, 2, msg_count12) = "wait_for_pubrel"
    <3>1. PICK at \in Stamps : Insert(at, In, mid, 2, NoMsg)
      BY <1>2, <2>2 DEF PublishDenied
    <3>2. sent' = <<Packet("PUBREC", mid)>>
      BY <1>2, <2>2 DEF PublishDenied, Outputs
    <3> QED
      BY <2>2, <3>1, <3>2, MidTypes, InsertStored, OnePromised
  <2>3. CASE Match(msgs, mid, In) = {} /\ Admit(In, 2, msg_count12) # "wait_for_pubrel"
    <3>1. sent' = <<>>
      BY <1>2, <2>3 DEF PublishDenied, Outputs
    <3> QED
      BY <3>1, MidTypes, OnePromised
  <2> QED
    BY <2>1, <2>2, <2>3
<1>3. ASSUME NEW mid \in Mids, PubAckComp(mid)
      PROVE  Promised
  BY <1>3, MidTypes, OnePromised DEF PubAckComp, Outputs
<1>4. ASSUME NEW mid \in Mids, PubRec(mid)
      PROVE  Promised
  <2>1. sent' = <<Packet("PUBREL", mid)>> \/ sent' = <<>>
    BY <1>4 DEF PubRec, Outputs
  <2> QED
    BY <2>1, MidTypes, OnePromised
<1> QED
  BY <1>1, <1>2, <1>3, <1>4 DEF FromClient

\* The list a PUBREL works on: what the client has published, and the copy it gets
\* itself if it subscribes to it.
LEMMA ReleasedPromised ==
  ASSUME NEW l \in Lists, Fits(l), NEW mid \in 0..MidMax, Released(l, mid)
  PROVE  Promised
<1> DEFINE match == Match(l, mid, In)
           gone  == Unlinked(l, match, {}, limits.inflight)
<1>1. Keeps(l, msgs', gone) /\ gone \subseteq match
  <2>1. msgs' = AfterWalk(l, match, {}, limits.inflight)
    BY DEF Released
  <2> QED
    BY <2>1, WalkKeeps DEF Unlinked
<1>2. SUFFICES ASSUME NEW i \in DOMAIN sent', sent'[i].type = "PUBREC",
                      sent'[Len(sent')] # Packet("PUBCOMP", sent'[i].mid)
               PROVE  Match(msgs', sent'[i].mid, In) # {}
  BY DEF Promised
<1>3. sent' \in Seq(Wire) /\ sent'[Len(sent')] = Packet("PUBCOMP", mid)
  BY ReleasedFacts
<1>4. sent'[i].mid # mid
  BY <1>2, <1>3
<1>5. Packet("PUBCOMP", mid).type = "PUBCOMP"
  BY PacketType
<1>6. i \in 1..Len(sent') - 1
  BY <1>2, <1>3, <1>5
<1>7. PICK a \in DOMAIN l : l[a].dir = In /\ l[a].mid = sent'[i].mid
  BY <1>6, ReleasedFacts
<1>8. a \notin gone
  BY <1>1, <1>4, <1>7 DEF Match
<1> HIDE DEF gone
<1>9. a \in DOMAIN msgs' /\ msgs'[a].dir = In /\ msgs'[a].mid = sent'[i].mid
  BY <1>1, <1>7, <1>8 DEF Keeps
<1> QED
  BY <1>9 DEF Match

LEMMA PubRelOn ==
  ASSUME Inv, NEW mid \in Mids, NEW own \in QoS \cup {NoSub}, PubRel(mid, own)
  PROVE  \E l : Good(l) /\ Released(l, mid)
<1> DEFINE live == {a \in Match(msgs, mid, In) : msgs[a].msg # NoMsg}
<1>1. CASE own = NoSub
  <2>1. Released(msgs, mid)
    BY <1>1 DEF PubRel
  <2> QED
    BY <2>1, InvFacts
<1>2. CASE own # NoSub
  <2> DEFINE next == IF own > 0 THEN NextMid(last_mid) ELSE 0
  <2>1. PICK a \in live, at \in Stamps :
          /\ IsNext(msgs, at)
          /\ Released(Inserted(msgs, at, Out, next, own, msgs[a].msg), mid)
    BY <1>2 DEF PubRel
  <2>2. msgs[a].msg \in Msgs \cup {NoMsg}
    BY <2>1, InvFacts, EntryType DEF Entry, Match
  <2>3. next \in 0..MidMax /\ Out \in {In, Out} /\ Out # In /\ own \in QoS
    BY <1>2, InvFacts, MidTypes DEF Rest, In, Out
  <2> HIDE DEF next
  <2>4. Good(Inserted(msgs, at, Out, next, own, msgs[a].msg))
    BY <2>1, <2>2, <2>3, InsertGood
  <2> QED
    BY <2>1, <2>4
<1> QED
  BY <1>1, <1>2

\* Every step.
LEMMA StepPromised ==
  ASSUME Inv, Next
  PROVE  Promised
<1>0. 0 \in 0..MidMax
  BY MidTypes
<1>1. ASSUME NEW mid \in Mids, NEW own \in QoS \cup {NoSub}, PubRel(mid, own)
      PROVE  Promised
  <2>1. PICK l : Good(l) /\ Released(l, mid)
    BY <1>1, PubRelOn
  <2> QED
    BY <2>1, MidTypes, ReleasedPromised DEF Good
<1>2. CASE FromClient
  BY <1>1, <1>2, FromClientPromised
<1>3. ASSUME NEW qos \in QoS, NEW m \in Msgs, Route(qos, m)
      PROVE  Promised
  <2>1. sent' = <<>>
    BY <1>3 DEF Route, Outputs
  <2> QED
    BY <1>0, <2>1, OnePromised
<1>4. CASE WritePass
  <2>1. CASE ~sock
    <3>1. sent' = <<>>
      BY <1>4, <2>1 DEF WritePass, Outputs
    <3> QED
      BY <1>0, <3>1, OnePromised
  <2>2. CASE sock
    <3> DEFINE max == limits.inflight
    <3>1. /\ msgs' = AfterWrite(msgs, PastEnd, max)
          /\ sent' = WritePackets(msgs, PastEnd, max)
      BY <1>4, <2>2 DEF WritePass, Outputs
    <3>2. msgs \in Lists /\ Fits(msgs) /\ Received(msgs)
      BY InvFacts DEF Good
    <3>3. Keeps(msgs, msgs', Written(msgs, PastEnd, max))
      BY <3>1, <3>2, WriteKeeps
    <3>4. \A i \in DOMAIN sent' : sent'[i].type = "PUBREC" =>
            \E a \in DOMAIN msgs \ Written(msgs, PastEnd, max) :
              msgs[a].dir = In /\ msgs[a].mid = sent'[i].mid
      BY <3>1, <3>2, WritePacketFacts
    <3>5. \A i \in DOMAIN sent' : sent'[i].type = "PUBREC" =>
            \E a \in DOMAIN msgs' : msgs'[a].dir = In /\ msgs'[a].mid = sent'[i].mid
      BY <3>3, <3>4 DEF Keeps
    <3> QED
      BY <3>5 DEF Promised, Match
  <2> QED
    BY <2>1, <2>2
<1>5. ASSUME NEW stop \in Stamps, WriteFails(stop)
      PROVE  Promised
  BY <1>5 DEF WriteFails, Hangup, Promised
<1>6. ASSUME NEW S, TimeoutCheck(S)
      PROVE  Promised
  <2>1. sent' = <<>>
    BY <1>6 DEF TimeoutCheck, Outputs
  <2> QED
    BY <1>0, <2>1, OnePromised
<1>7. CASE Sessions
  <2>1. sent' = <<>> \/ sent' = <<Packet("CONNACK", 0)>>
    BY <1>7 DEF Sessions, Disconnect, Connect, Expire, Reload, Outputs
  <2> QED
    BY <1>0, <2>1, OnePromised
<1> QED
  BY <1>2, <1>3, <1>4, <1>5, <1>6, <1>7 DEF Next, MainLoop

\* No PUBREC is sent for an identifier under which nothing is stored
\* (read_handle.c:247, database.c:774, database.c:883), unless the PUBCOMP that
\* completes it comes with it: the client never gives up its only copy.
THEOREM PubrecsTrue == Spec => PubrecMeansStored
<1> DEFINE True == \A i \in DOMAIN sent' : sent'[i].type = "PUBREC" /\ sock' =>
                     \/ Match(msgs', sent'[i].mid, In) # {}
                     \/ sent'[Len(sent')] = Packet("PUBCOMP", sent'[i].mid)
<1>1. Inv /\ [Next]_vars => [True]_vars
  <2> SUFFICES ASSUME Inv, Next
               PROVE  True
    OBVIOUS
  <2> QED
    BY StepPromised DEF Promised
<1> QED
  BY <1>1, InvAlways, PTL DEF Spec, PubrecMeansStored
==============================================================================

------------------------------ MODULE PublicData ------------------------------
(***************************************************************************)
(* The data collector PD (PD/pdCollector.js): a client of the broker that  *)
(* keeps a list of public data to collect in MongoDB and a schedule of     *)
(* collections in Agenda, a library whose jobs are in MongoDB as well.     *)
(* The two are changed by separate calls: nothing makes them agree but the *)
(* order of the calls and the start of the process, which makes the        *)
(* schedule anew from the list.                                            *)
(*                                                                         *)
(* As in SmartCloud: one event loop, calls of the database answered in any *)
(* order, and an exception in a callback ends the process, which forever   *)
(* (PD/runPD.sh) starts again.                                             *)
(***************************************************************************)
EXTENDS Calls

CONSTANTS
  MaxImports,    \* bound: imports that the dashboard asks for
  MaxRemoves,    \* bound: removals that the dashboard asks for
  MaxRuns,       \* bound: collections
  MaxPdConnects, \* bound: times that the broker is connected to
  MaxPdFaults    \* bound: messages that are not JSON, pages in pieces and crashes of another reason

VARIABLES pd,      \* the process, its schedule and its list
          pdNoted  \* what happened to them

pdVars == <<pd, pdNoted>>

Every == 0   \* the subject of a call that is about all data
PdCall(op, id) == [op |-> op, id |-> id, live |-> TRUE]
Subjects(calls) == {c.id : c \in BagToSet(calls)}
Docs(p, id) == {i \in DOMAIN p.list : p.list[i].id = id}
Ids(p) == {p.list[i].id : i \in DOMAIN p.list}
Collected(p) == {p.list[i].id : i \in {j \in DOMAIN p.list : p.list[j].isCollected}}

PdStart(p, calls) == [p EXCEPT !.calls = @ (+) calls]

PdDie(p) ==
  [p EXCEPT !.phase = "down", !.listeners = 0, !.inbox = <<>>, !.defined = {},
            !.calls = Orphaned(@)]

------------------------------------------------------------------------------
(* What the database does with a call, and what the callback does then. *)

\* the definitions and the jobs of what the list says is collected; then the broker
Reschedule(p) ==
  PdStart([p EXCEPT !.phase = "offline", !.defined = @ \cup Collected(p)],
          SetToBag({PdCall("every", id) : id \in Collected(p)}))

\* the first document that has the identifier
Unlist(p, id) ==
  IF Docs(p, id) = {} THEN p
  ELSE [p EXCEPT !.list[CHOOSE i \in Docs(p, id) : \A j \in Docs(p, id) : i <= j].isCollected = FALSE]

\* Mutant of PdExecute: the job is cancelled and the list is left as it is
CancelOnly(p, c) ==
  CASE c.op = "purge" -> [p EXCEPT !.jobs = {}]
    [] c.op = "every" -> [p EXCEPT !.jobs = @ \cup {c.id}]
    [] c.op = "insert" -> [p EXCEPT !.list = Append(@, [id |-> c.id, isCollected |-> TRUE])]
    [] c.op = "cancel" -> [p EXCEPT !.jobs = @ \ {c.id}]
    [] c.op = "findAll" /\ c.live -> Reschedule(p)
    [] OTHER -> p

PdExecute(p, c) ==
  CASE c.op = "purge" -> [p EXCEPT !.jobs = {}]    \* nothing is defined when it is called
    [] c.op = "every" -> [p EXCEPT !.jobs = @ \cup {c.id}]
    [] c.op = "insert" -> [p EXCEPT !.list = Append(@, [id |-> c.id, isCollected |-> TRUE])]
    [] c.op = "cancel" ->
         LET q == [p EXCEPT !.jobs = @ \ {c.id}]
         IN  IF c.live THEN PdStart(q, Once(PdCall("flag", c.id))) ELSE q
    [] c.op = "flag" -> Unlist(p, c.id)
    [] c.op = "findAll" /\ c.live -> Reschedule(p)
    [] OTHER -> p                                   \* collected data

------------------------------------------------------------------------------
PDInit ==
  /\ pd = [phase |-> "down", listeners |-> 0, inbox |-> <<>>, clock |-> 1,
           defined |-> {}, calls |-> EmptyBag, jobs |-> {}, list |-> <<>>]
  /\ pdNoted = [imports |-> 0, removes |-> 0, runs |-> 0,
                connects |-> 0, faults |-> 0, overtaken |-> {}]

\* Those that calls are under way for when another call for them is made: the order in which
\* the database executes the two decides.
Overtaken(p, q) ==
  LET new == {c \in BagToSet(q.calls) : Copies(c, q.calls) > Copies(c, p.calls)}
  IN  IF Every \in Subjects(p.calls) THEN Subjects(q.calls)
      ELSE Subjects(p.calls) \cap {c.id : c \in new}

\* Mutant of PdBoot: the jobs of the last process are kept
BootKeepsJobs ==
  /\ pd.phase = "down"
  /\ pd' = PdStart([pd EXCEPT !.phase = "starting"], Once(PdCall("findAll", Every)))
  /\ pdNoted' = [pdNoted EXCEPT !.overtaken = Subjects(pd.calls)]

\* the databases are connected to and Agenda is ready: its jobs are purged, which nothing
\* waits for, and the list is read
PdBoot ==
  /\ pd.phase = "down"
  /\ pd' = PdStart([pd EXCEPT !.phase = "starting"], SetToBag({PdCall("purge", Every), PdCall("findAll", Every)}))
  /\ pdNoted' = [pdNoted EXCEPT !.overtaken = Subjects(pd.calls)]

\* every connection adds a listener to those that are there
PdOnConnect ==
  /\ pd.phase = "offline" /\ pdNoted.connects < MaxPdConnects
  /\ pd' = [pd EXCEPT !.phase = "online", !.listeners = @ + 1]
  /\ pdNoted' = [pdNoted EXCEPT !.connects = @ + 1]

\* bound: only as often as the broker can be connected to again
PdOnOffline ==
  /\ pd.phase = "online" /\ pdNoted.connects < MaxPdConnects
  /\ pd' = [pd EXCEPT !.phase = "offline", !.inbox = <<>>]
  /\ UNCHANGED pdNoted

\* the dashboard publishes at QoS 0: what is to be collected, and the identifier of what is not any more
Ask(m, counter, bound) ==
  /\ pd.phase = "online" /\ pdNoted[counter] < bound /\ pd.inbox = <<>>
  /\ pd' = [pd EXCEPT !.inbox = Append(@, m)]
  /\ pdNoted' = [pdNoted EXCEPT ![counter] = @ + 1]

AskImport == Ask([type |-> "import", id |-> Every], "imports", MaxImports)
AskRemove == \E id \in Ids(pd) : Ask([type |-> "remove", id |-> id], "removes", MaxRemoves)
AskMalformed == Ask([type |-> "malformed", id |-> Every], "faults", MaxPdFaults)

\* All listeners are called in turn.  An import has the time in milliseconds as its identifier,
\* and the clock may advance or not before each of them.
Import(p, ids) ==
  PdStart([p EXCEPT !.clock = ids[Len(ids)], !.defined = @ \cup Range(ids)],
          [c \in {PdCall(op, id) : op \in {"every", "insert"}, id \in Range(ids)} |->
             Cardinality({i \in DOMAIN ids : ids[i] = c.id})])

Times(p) ==
  {f \in [1..p.listeners -> {p.clock, p.clock + 1}] : \A i, j \in 1..p.listeners : i <= j => f[i] <= f[j]}

PdReceive ==
  /\ pd.phase = "online" /\ pd.inbox # <<>>
  /\ LET m == Head(pd.inbox)
         p == [pd EXCEPT !.inbox = Tail(@)]
     IN  \/ m.type = "import" /\ \E ids \in Times(p) : pd' = Import(p, ids)
         \/ m.type = "remove" /\ pd' = PdStart(p, ByEach(p.listeners, {PdCall("cancel", m.id)}))
         \/ m.type = "malformed" /\ pd' = PdDie(p)
  /\ pdNoted' = [pdNoted EXCEPT !.overtaken = @ \cup Overtaken(pd, pd')]

\* the database answers any of the calls that are under way
PdAnswer(c) ==
  /\ LET p == [pd EXCEPT !.calls = BagRemove(@, c)]
     IN  /\ pd' = PdExecute(p, c)
         /\ pdNoted' = [pdNoted EXCEPT !.overtaken = @ \cup Overtaken(p, pd')]

\* the call of a process that has ended never reached the database
PdForgotten(c) ==
  /\ ~c.live
  /\ pd' = [pd EXCEPT !.calls = BagRemove(@, c)]
  /\ UNCHANGED pdNoted

\* A job that this process has defined runs: its page comes in one piece and is stored (unless a
\* value is missing), or in pieces, of which the first is not the document that the callback expects.
Collect(id) ==
  /\ id \in pd.jobs \cap pd.defined /\ pdNoted.runs < MaxRuns
  /\ \/ /\ pd' = PdStart(pd, Once(PdCall("store", id)))
        /\ pdNoted' = [pdNoted EXCEPT !.runs = @ + 1]
     \/ /\ pd' = PdDie(pd) /\ pdNoted.faults < MaxPdFaults
        /\ pdNoted' = [pdNoted EXCEPT !.runs = @ + 1, !.faults = @ + 1]

PdCrash ==
  /\ pd.phase # "down" /\ pdNoted.faults < MaxPdFaults
  /\ pd' = PdDie(pd)
  /\ pdNoted' = [pdNoted EXCEPT !.faults = @ + 1]

PDNext ==
  \/ PdBoot \/ PdOnConnect \/ PdOnOffline \/ AskImport \/ AskRemove \/ AskMalformed
  \/ PdReceive \/ PdCrash
  \/ \E c \in BagToSet(pd.calls) : PdAnswer(c) \/ PdForgotten(c)
  \/ \E id \in pd.jobs : Collect(id)

\* forever starts the process again, the event loop runs and the database answers
PDFairness ==
  /\ WF_pdVars(PdBoot) /\ WF_pdVars(PdOnConnect) /\ WF_pdVars(PdReceive)
  /\ WF_pdVars(\E c \in BagToSet(pd.calls) : PdAnswer(c))

------------------------------------------------------------------------------
(* Properties. *)

\* When nothing is under way, what is scheduled is what the list says is collected, whatever the
\* crashes before: an import of which only the job or only the document was made, and a removal of
\* which only the job was cancelled, are repaired by the next start (PD/pdCollector.js:269).
\* Excepted are data whose identifier several documents share (PD/pdCollector.js:105), and since
\* the last start those that a second call was made for while one was under way
\* (PD/pdCollector.js:125, 136).
Consistent ==
  pd.phase \in {"offline", "online"} /\ pd.calls = EmptyBag =>
    \A id \in (pd.jobs \cup Ids(pd)) \ pdNoted.overtaken :
      Cardinality(Docs(pd, id)) <= 1 => (id \in pd.jobs <=> id \in Collected(pd))

\* what the collector comes to in the end: nothing is under way, the process is up, and what is
\* scheduled is defined, so that its collection runs
Up == /\ pd.calls = EmptyBag /\ pd.inbox = <<>> /\ pd.phase \in {"offline", "online"}
      /\ pd.jobs \subseteq pd.defined \cup pdNoted.overtaken
==============================================================================

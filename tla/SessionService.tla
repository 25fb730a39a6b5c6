---------------------------- MODULE SessionService ----------------------------
(***************************************************************************)
(* What the broker promises each client identifier, without contexts,      *)
(* sockets or lists: at most one session; a will that is published if its  *)
(* connection fails and forgotten if it is given up; a durable session     *)
(* that outlives its connection until it is replaced or expires; rights    *)
(* that are those of the files last loaded.  Which of these steps an event *)
(* must be is AsPromised of module Sessions.  Clients with other           *)
(* identifiers (Other) only show by the wills they publish.                *)
(***************************************************************************)
EXTENDS Lists

CONSTANTS
  Id, Files,
  MaxConn    \* bound: connections, each with a will of its own

VARIABLES
  session,    \* id -> [online, durable, subscribed, will, inbox, deaf]
  published,  \* the wills published, in order
  file        \* what is in force: [unpwd |-> the ids let in, list |-> the rights of some ids,
              \* patterns |-> those of all]

abstract == <<session, published, file>>

Only(f, xs) == [x \in DOMAIN f \cap xs |-> f[x]]

\* the rights of a list are those of who is let in
May(id, right) ==
  \/ DOMAIN file.list = {} /\ file.patterns = {}
  \/ right \in file.patterns
  \/ id \in file.unpwd /\ id \in DOMAIN file.list /\ right \in file.list[id]

Init == session = <<>> /\ published = <<>> /\ file \in Files

\* A connection of an identifier gives up the former one's will.  What its rights no
\* longer let it read is taken from its inbox, and with that its queue loses its end:
\* what is published until the next connection does not reach it (read_handle_server.c:522).
Arrive(id, clean, will) ==
  /\ id \in file.unpwd
  /\ LET kept == id \in DOMAIN session /\ session[id].durable /\ ~clean
         old == IF kept THEN session[id].inbox ELSE <<>>
         inbox == IF May(id, "read") THEN old ELSE <<>>
     IN  session' = Put(session, id, [online |-> TRUE, durable |-> ~clean, will |-> will, inbox |-> inbox,
                                      deaf |-> inbox # old,
                                      subscribed |-> kept /\ session[id].subscribed])
  /\ UNCHANGED <<published, file>>

End(id, s) == IF s[id].durable THEN [s EXCEPT ![id].online = FALSE, ![id].will = 0]
              ELSE Only(s, DOMAIN s \ {id})

\* a connection that is given up, and one that fails, with a will that may be published or not
Left(id) == session[id].online /\ session' = End(id, session) /\ UNCHANGED <<published, file>>

Heard(w) ==
  LET ears == {j \in DOMAIN session : session[j].subscribed /\ ~session[j].deaf /\ May(j, "read")}
  IN  [j \in DOMAIN session |->
         IF j \in ears THEN [session[j] EXCEPT !.inbox = Append(@, w)] ELSE session[j]]

Failed(id) ==
  LET w == session[id].will
  IN  /\ session[id].online
      /\ w # 0 /\ May(id, "write")
      /\ published' = Append(published, w)
      /\ session' = End(id, Heard(w))
      /\ UNCHANGED file

Other ==
  /\ \E w \in 1..MaxConn :
       /\ \A id \in DOMAIN session : session[id].will # w
       /\ published' = Append(published, w)
       /\ session' = Heard(w)
  /\ UNCHANGED file

FailedSilently(id) ==
  /\ session[id].online
  /\ session[id].will = 0 \/ ~May(id, "write")
  /\ session' = End(id, session)
  /\ UNCHANGED <<published, file>>

Subscription(id, subscribed) ==
  /\ session[id].online
  /\ session' = [session EXCEPT ![id].subscribed = subscribed]
  /\ UNCHANGED <<published, file>>

Take(id) ==
  /\ session[id].online /\ session[id].inbox # <<>>
  /\ session' = [session EXCEPT ![id].inbox = Tail(@)]
  /\ UNCHANGED <<published, file>>

\* sessions without a connection are given up
Expire ==
  /\ \E ids \in SUBSET {j \in DOMAIN session : ~session[j].online} :
       session' = Only(session, DOMAIN session \ ids)
  /\ UNCHANGED <<published, file>>

\* The files are read again: whoever is no longer let in leaves, without a will.  The rights of
\* all stay where there were none of some ids (security_default.c:463).
Reload(f) ==
  /\ file' = [f EXCEPT !.patterns = @ \cup IF DOMAIN file.list = {} THEN file.patterns ELSE {}]
  /\ LET out == {j \in DOMAIN session : session[j].online /\ j \notin file'.unpwd}
     IN  session' = [j \in DOMAIN session \ {i \in out : ~session[i].durable} |->
                       IF j \in out THEN [session[j] EXCEPT !.online = FALSE, !.will = 0] ELSE session[j]]
  /\ UNCHANGED published

Next ==
  \/ \E id \in Id, clean \in BOOLEAN, will \in 0..MaxConn : Arrive(id, clean, will)
  \/ \E id \in DOMAIN session :
       \/ Left(id) \/ Failed(id) \/ FailedSilently(id) \/ Take(id)
       \/ \E b \in BOOLEAN : Subscription(id, b)
  \/ Other \/ Expire
  \/ \E f \in Files : Reload(f)

Spec == Init /\ [][Next]_abstract
===============================================================================

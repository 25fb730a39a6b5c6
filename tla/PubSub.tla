-------------------------------- MODULE PubSub --------------------------------
(***************************************************************************)
(* What a broker promises its clients, without a tree, a store or counts:  *)
(* a published message is put once into the inbox of each client that has  *)
(* a matching subscription and room; the last retained message of a topic  *)
(* is kept and sent to new subscriptions; and what was saved of the        *)
(* durable sessions is what a restart begins with.                         *)
(***************************************************************************)
EXTENDS Integers, Sequences, SequencesExt

CONSTANTS
  Client, Topics, AllFilters, DollarLevels, MaxId,
  Denied          \* <<client, topic>>: no read access

VARIABLES
  subs,     \* subscriptions <<client, filter>>
  kept,     \* topic -> id of its retained message
  inbox,    \* client -> sequence of [id, topic]
  durable,  \* the clients with a session that outlives their connection
  room,     \* the clients that are connected and whose queue is not full
  saved, up

abstract == <<subs, kept, inbox, durable, room, saved, up>>

\* the matching of MQTT 3.1.1, section 4.7
Matches(f, t) ==
  LET Level(i) == f[i] \in {t[i], "+"}
  IN  /\ f[1] \in {"+", "#"} => t[1] \notin DollarLevels
      /\ \/ Len(f) = Len(t) /\ \A i \in 1..Len(f) : Level(i)
         \/ Last(f) = "#" /\ Len(t) >= Len(f) - 1 /\ \A i \in 1..(Len(f) - 1) : Level(i)

\* "foo/#" also matches "foo"; a new subscription may not get what is kept there
ViaParent(f, t) == Last(f) = "#" /\ Len(t) = Len(f) - 1

\* filters whose text survives in the file: not those with an empty or '$' first level
Plain(f) == f[1] # "" /\ f[1] \notin DollarLevels

Only(f, xs) == [x \in DOMAIN f \cap xs |-> f[x]]
Message(id, t) == [id |-> id, topic |-> t]

Empty == subs = {} /\ kept = <<>> /\ inbox = <<>> /\ durable = {}

Init ==
  /\ Empty
  /\ room = {}
  /\ saved = [kind |-> "none"] /\ up = TRUE

\* each client's copy is put once, by one of its subscriptions, and nobody with room is left out
Publish(id, t, retain, empty) ==
  LET readers == {c \in DOMAIN inbox : /\ <<c, t>> \notin Denied
                                       /\ \E s \in subs : s[1] = c /\ Matches(s[2], t)}
  IN  /\ \E takers \in SUBSET readers :
           /\ readers \cap room \subseteq takers
           /\ inbox' = [c \in DOMAIN inbox |->
                          IF c \in takers THEN Append(inbox[c], Message(id, t)) ELSE inbox[c]]
      /\ kept' = IF ~retain THEN kept
                 ELSE IF empty THEN Only(kept, DOMAIN kept \ {t})
                 ELSE (t :> id) @@ kept
      /\ UNCHANGED <<subs, durable, saved, up>>

Subscribe(c, f) ==
  LET readable == {t \in DOMAIN kept : <<c, t>> \notin Denied}
      may == {Message(kept[t], t) : t \in {x \in readable : Matches(f, x)}}
      must == {Message(kept[t], t) : t \in {x \in readable : Matches(f, x) /\ ~ViaParent(f, x)}}
  IN  /\ c \in DOMAIN inbox
      /\ subs' = subs \cup {<<c, f>>}
      /\ \E got \in SUBSET may :
           /\ must \subseteq got \/ c \notin room'
           /\ \E order \in SetToSeqs(got) : inbox' = [inbox EXCEPT ![c] = @ \o order]
      /\ UNCHANGED <<kept, durable, saved, up>>

Unsubscribe(c, f) == subs' = subs \ {<<c, f>>} /\ UNCHANGED <<kept, inbox, durable, saved, up>>

Connect(c) ==
  \/ c \in durable /\ UNCHANGED <<subs, kept, inbox, durable, saved, up>>
  \/ /\ subs' = {s \in subs : s[1] # c}
     /\ inbox' = (c :> <<>>) @@ inbox
     /\ durable' \in {durable \cup {c}, durable \ {c}}
     /\ UNCHANGED <<kept, saved, up>>

Disconnect(c) ==
  \/ c \in durable /\ UNCHANGED <<subs, kept, inbox, durable, saved, up>>
  \/ /\ c \in DOMAIN inbox \ durable
     /\ subs' = {s \in subs : s[1] # c}
     /\ inbox' = Only(inbox, DOMAIN inbox \ {c})
     /\ UNCHANGED <<kept, durable, saved, up>>

Take(c) ==
  /\ c \in DOMAIN inbox
  /\ \/ \E i \in DOMAIN inbox[c] : inbox' = [inbox EXCEPT ![c] = RemoveAt(@, i)]
     \/ UNCHANGED inbox    \* the client's own message, not one for it
  /\ UNCHANGED <<subs, kept, durable, saved, up>>

\* what is saved of the durable sessions of clients is theirs and the retained messages of topics
Save(clients, topics, whole) ==
  LET mine == {s \in subs : s[1] \in durable \cap clients}
      mangled == {s \in mine : ~Plain(s[2])}
  IN  /\ saved'.kind = "usable"
      /\ saved'.inbox = Only(inbox, durable \cap clients)
      /\ saved'.kept = Only(kept, topics)
      /\ IF whole
         THEN /\ mine \ mangled \subseteq saved'.subs
              /\ \A s \in saved'.subs \ mine : \E m \in mangled : m[1] = s[1]
         ELSE saved'.subs = {}

Saving ==
  \/ Save(Client, {t \in Topics : t[1] \notin DollarLevels}, TRUE)
  \/ \E part \in SUBSET Client : Save(part, {}, FALSE)
  \/ saved' = [kind |-> "torn"]

Backup == Saving /\ UNCHANGED <<subs, kept, inbox, durable, up>>

Down == up /\ ~up' /\ Empty' /\ (Saving \/ UNCHANGED saved)

Restart ==
  /\ ~up /\ up'
  /\ IF saved.kind = "none"
     THEN Empty'
     ELSE /\ saved.kind = "usable"
          /\ subs' = saved.subs
          /\ kept' = saved.kept
          /\ inbox' = saved.inbox
          /\ durable' = DOMAIN saved.inbox
  /\ UNCHANGED saved

Next ==
  \/ \E id \in 1..MaxId, t \in Topics, retain, empty \in BOOLEAN : Publish(id, t, retain, empty)
  \/ \E c \in Client :
       \/ \E f \in AllFilters : Subscribe(c, f) \/ Unsubscribe(c, f)
       \/ Connect(c) \/ Disconnect(c) \/ Take(c)
  \/ Backup \/ Down \/ Restart

Spec == Init /\ [][Next]_abstract
==============================================================================

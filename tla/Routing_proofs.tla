---------------------------- MODULE Routing_proofs ----------------------------
(***************************************************************************)
(* What is proved about the broker's database.                             *)
(*                                                                         *)
(* The rights of a reader: the ACL is matched by a scan of its own         *)
(* (lib/util_mosq.c), not by the tree that routes.  Measured against the   *)
(* matching of MQTT, which PubSub states, it never grants more, and what   *)
(* it refuses wrongly is of two kinds.                                     *)
(*                                                                         *)
(* The data structures: the types, the exact reference counts, the index   *)
(* of the tree in the contexts and the pruned tree are invariants of Spec. *)
(* They follow from DatabaseTrue, which is inductive: Good(db, Zero) says  *)
(* it of the database and FileGood(file) of what it is restored from.      *)
(* Good(d, x) is Good while x[id] references of a message are held by the  *)
(* step that runs: each function of the code takes a good database to a    *)
(* good one, and the lemmas below follow the functions.  The loops of the  *)
(* code are handled by LoopExists and LoopKeeps of Lists_proofs, with one  *)
(* invariant of its own for each.                                          *)
(***************************************************************************)
EXTENDS Routing, Lists_proofs, SequenceTheorems

------------------------------------------------------------------------------
(* The scan of the ACL.                                                    *)

\* Topics and patterns, as the scan of the ACL takes them.
Levels == Seq(STRING) \ {<<>>}

\* The gaps of mosquitto_topic_matches_sub: "#" before nothing, and "+" for the parent of "#".
EmptyRest(sub, topic) ==
  Len(sub) = Len(topic) /\ sub[Len(sub)] = "#" /\ topic[Len(topic)] = ""
ParentByPlus(sub, topic) ==
  Len(sub) = Len(topic) + 1 /\ sub[Len(sub)] = "#" /\ sub[Len(topic)] # topic[Len(topic)]

\* Both matchings without their abbreviations.
LEMMA MatchesMeaning ==
  ASSUME NEW f, NEW t
  PROVE  Promise!Matches(f, t) <=>
           /\ f[1] \in {"+", "#"} => t[1] \notin DollarLevels
           /\ \/ Len(f) = Len(t) /\ \A i \in 1..Len(f) : f[i] \in {t[i], "+"}
              \/ /\ f[Len(f)] = "#" /\ Len(t) >= Len(f) - 1
                 /\ \A i \in 1..(Len(f) - 1) : f[i] \in {t[i], "+"}
BY DEF Promise!Matches, Promise!Last

\* The scan of the ACL: the same length, a '#' for the rest, or '#' for the parent.
LEMMA ScanMeaning ==
  ASSUME NEW f, NEW t
  PROVE  TopicMatchesSub(f, t) <=>
           /\ (f[1] \in DollarLevels) = (t[1] \in DollarLevels)
           /\ \/ Len(f) = Len(t) /\ f[Len(f)] # "#" /\ \A i \in 1..Len(f) : f[i] \in {t[i], "+"}
              \/ /\ Len(f) <= Len(t) /\ f[Len(f)] = "#"
                 /\ \A i \in 1..(Len(f) - 1) : f[i] \in {t[i], "+"}
                 /\ Len(f) = Len(t) => t[Len(t)] # ""
              \/ /\ Len(f) = Len(t) + 1 /\ f[Len(f)] = "#" /\ f[Len(t)] = t[Len(t)]
                 /\ \A i \in 1..Len(t) : f[i] \in {t[i], "+"}
BY DEF TopicMatchesSub

\* No right too many (util_mosq.c:229): what the scan accepts, MQTT's matching
\* accepts, so that a pattern of the ACL opens no topic it does not cover.
THEOREM ScanSound ==
  ASSUME NEW sub \in Levels, NEW topic \in Levels, PubTopicCheck(topic),
         TopicMatchesSub(sub, topic)
  PROVE  Promise!Matches(sub, topic)
<1>1. /\ Len(sub) \in Nat /\ Len(topic) \in Nat /\ Len(sub) >= 1 /\ Len(topic) >= 1
          /\ DOMAIN topic = 1..Len(topic) /\ DOMAIN sub = 1..Len(sub)
  BY DEF Levels
<1>2. sub[1] \in {"+", "#"} => topic[1] \notin DollarLevels
  BY WildcardsAssumption, ScanMeaning
<1>3. CASE /\ Len(sub) = Len(topic)
          /\ \A i \in 1..Len(sub) : sub[i] \in {topic[i], "+"}
  BY <1>1, <1>2, <1>3, MatchesMeaning
<1>4. CASE /\ Len(sub) <= Len(topic) /\ sub[Len(sub)] = "#"
          /\ \A i \in 1..(Len(sub) - 1) : sub[i] \in {topic[i], "+"}
  BY <1>1, <1>2, <1>4, MatchesMeaning
<1>5. CASE /\ Len(sub) = Len(topic) + 1 /\ sub[Len(sub)] = "#"
          /\ \A i \in 1..Len(topic) : sub[i] \in {topic[i], "+"}
  BY <1>1, <1>2, <1>5, MatchesMeaning
<1>q. QED
  BY <1>3, <1>4, <1>5, ScanMeaning

\* No right too few but for the two gaps (util_mosq.c:256, util_mosq.c:299): a topic
\* that MQTT's matching gives to the pattern is refused only there.
THEOREM ScanComplete ==
  ASSUME NEW sub \in Levels, NEW topic \in Levels, PubTopicCheck(topic),
         Promise!Matches(sub, topic), ~EmptyRest(sub, topic), ~ParentByPlus(sub, topic)
  PROVE  TopicMatchesSub(sub, topic)
<1>1. /\ Len(sub) \in Nat /\ Len(topic) \in Nat /\ Len(sub) >= 1 /\ Len(topic) >= 1
          /\ DOMAIN topic = 1..Len(topic) /\ DOMAIN sub = 1..Len(sub)
  BY DEF Levels
<1>2. topic[Len(topic)] # "#"
  BY <1>1 DEF PubTopicCheck
<1>3. (sub[1] \in DollarLevels) = (topic[1] \in DollarLevels)
  <2>1. CASE sub[1] \in {"+", "#"}
    BY <2>1, WildcardsAssumption, MatchesMeaning
  <2>2. CASE sub[1] \notin {"+", "#"}
    <3>1. sub[1] = topic[1]
      BY <1>1, <2>2, MatchesMeaning
    <3>q. QED BY <3>1
  <2>q. QED BY <2>1, <2>2
<1>4. CASE /\ Len(sub) = Len(topic)
          /\ \A i \in 1..Len(sub) : sub[i] \in {topic[i], "+"}
  <2>1. sub[Len(sub)] \in {topic[Len(topic)], "+"}
    BY <1>1, <1>4
  <2>2. sub[Len(sub)] # "#"
    BY <1>2, <2>1
  <2>q. QED BY <1>3, <1>4, <2>2, ScanMeaning
<1>5. CASE /\ sub[Len(sub)] = "#" /\ Len(topic) >= Len(sub) - 1
          /\ \A i \in 1..(Len(sub) - 1) : sub[i] \in {topic[i], "+"}
  <2>1. CASE Len(sub) <= Len(topic)
    BY <1>1, <1>3, <1>5, <2>1, ScanMeaning DEF EmptyRest
  <2>2. CASE Len(sub) = Len(topic) + 1
    <3>1. \A i \in 1..Len(topic) : sub[i] \in {topic[i], "+"}
      BY <1>1, <1>5, <2>2
    <3>2. sub[Len(topic)] = topic[Len(topic)]
      BY <1>5, <2>2 DEF ParentByPlus
    <3>q. QED BY <1>3, <1>5, <2>2, <3>1, <3>2, ScanMeaning
  <2>3. Len(sub) <= Len(topic) \/ Len(sub) = Len(topic) + 1
    <3>1. Len(sub) \in Nat /\ Len(topic) \in Nat
      BY <1>1
    <3>2. Len(topic) >= Len(sub) - 1
      BY <1>5
    <3>q. QED BY <3>1, <3>2
  <2>q. QED BY <2>1, <2>2, <2>3
<1>q. QED
  BY <1>1, <1>4, <1>5, MatchesMeaning

\* Rights (security_default.c:224): where there is an ACL, a client that is not
\* denied a topic has an entry whose pattern covers the topic in MQTT's sense.
THEOREM RightsCover ==
  ASSUME NEW c \in Client, NEW t \in Topics, t \in Levels, PubTopicCheck(t),
         ReadAcl \subseteq Client \X Levels, ReadAcl # {}, <<c, t>> \notin Denied
  PROVE  \E g \in ReadAcl : g[1] = c /\ Promise!Matches(g[2], t)
<1>1. PICK g \in ReadAcl : g[1] = c /\ TopicMatchesSub(g[2], t)
  BY DEF Denied
<1>2. g[2] \in Levels
  OBVIOUS
<1>q. QED
  BY <1>1, <1>2, ScanSound

------------------------------------------------------------------------------
(* The subscription tree: its shape, and what making, pruning and cleaning *)
(* nodes leaves of it.                                                     *)

\* The levels of a topic (STRING, and two names that are strings, which the provers do not know),
\* the paths of the tree, maps into a set, the leaves of a node and the nodes.
Level  == STRING \cup {"", "$SYS"}
Path   == Seq(Level) \ {<<>>}
Maps(X, Y) == UNION {[D -> Y] : D \in SUBSET X}
Leaves == Maps(Client, 0..2)
Node   == [children : Seq(Level), subs : Leaves, retained : Nat]

\* A function from a part of X into Y.
LEMMA MapsFacts ==
  ASSUME NEW X, NEW Y, NEW f
  PROVE  /\ f \in Maps(X, Y) => DOMAIN f \in SUBSET X /\ f = [x \in DOMAIN f |-> f[x]] /\ \A x \in DOMAIN f : f[x] \in Y
         /\ DOMAIN f \in SUBSET X /\ f \in [DOMAIN f -> Y] => f \in Maps(X, Y)
         /\ f \in Maps(X, Y) => f \in [DOMAIN f -> Y]
BY DEF Maps

\* The empty function is one, and the only one without a domain.
LEMMA EmptyMap ==
  ASSUME NEW X, NEW Y
  PROVE  /\ <<>> \in Maps(X, Y)
         /\ \A f \in Maps(X, Y) : f = <<>> <=> DOMAIN f = {}
<1>1. <<>> \in [{} -> Y] /\ DOMAIN <<>> = {}
  OBVIOUS
<1>2. <<>> \in Maps(X, Y)
  BY <1>1 DEF Maps
<1>3. ASSUME NEW f \in Maps(X, Y), DOMAIN f = {}
      PROVE  f = <<>>
  BY <1>3 DEF Maps
<1> QED
  BY <1>1, <1>2, <1>3

------------------------------------------------------------------------------
\* The prefixes of a path.
LEMMA AboveFacts ==
  ASSUME NEW path \in Path
  PROVE  /\ Above(path) \in SUBSET Path /\ IsFiniteSet(Above(path)) /\ path \in Above(path)
         /\ Len(path) \in Nat /\ Len(path) >= 1
         /\ \A q \in Above(path) : Len(q) \in 1..Len(path) /\ \A i \in 1..Len(q) : q[i] = path[i]
         /\ \A q, r \in Above(path) : Len(q) = Len(r) => q = r
         /\ \A n \in 1..Len(path) : SubSeq(path, 1, n) \in Above(path) /\ Len(SubSeq(path, 1, n)) = n
<1>1. path \in Seq(Level) /\ path # <<>> /\ Len(path) \in Nat /\ Len(path) >= 1
  BY DEF Path
<1>2. ASSUME NEW k \in 1..Len(path)
      PROVE  /\ SubSeq(path, 1, k) \in Seq(Level) /\ Len(SubSeq(path, 1, k)) = k
             /\ \A i \in 1..k : SubSeq(path, 1, k)[i] = path[i]
  <2>1. \A i \in 1..k : path[i] \in Level
    BY <1>1, <1>2
  <2> QED
    BY <1>1, <1>2, <2>1
<1>3. IsFiniteSet(Above(path))
  <2>1. IsFiniteSet(1..Len(path))
    BY <1>1, FS_Interval
  <2> DEFINE f == [k \in 1..Len(path) |-> SubSeq(path, 1, k)]
  <2>2. Above(path) = {f[k] : k \in 1..Len(path)}
    BY DEF Above
  <2>3. f \in Surjection(1..Len(path), Above(path))
    BY <2>2 DEF Surjection
  <2> QED
    BY <2>1, <2>3, FS_Surjection
<1>4. Above(path) \in SUBSET Path
  BY <1>2 DEF Above, Path
<1>5. path \in Above(path)
  <2> DEFINE s == SubSeq(path, 1, Len(path))
  <2>1. Len(path) \in 1..Len(path)
    BY <1>1
  <2>2. s \in Seq(Level) /\ Len(s) = Len(path) /\ \A i \in 1..Len(path) : s[i] = path[i]
    BY <1>2, <2>1
  <2> HIDE DEF s
  <2>3. s = path
    BY <1>1, <2>2
  <2> QED
    BY <2>1, <2>3 DEF Above, s
<1>6. ASSUME NEW q \in Above(path)
      PROVE  /\ Len(q) \in 1..Len(path) /\ \A i \in 1..Len(q) : q[i] = path[i]
             /\ q = SubSeq(path, 1, Len(q))
  BY <1>2 DEF Above
<1>7. \A q, r \in Above(path) : Len(q) = Len(r) => q = r
  BY <1>6
<1>8. \A n \in 1..Len(path) : SubSeq(path, 1, n) \in Above(path) /\ Len(SubSeq(path, 1, n)) = n
  BY <1>2 DEF Above
<1> QED
  BY <1>1, <1>3, <1>4, <1>5, <1>6, <1>7, <1>8

\* A path, its parent and its last level.
LEMMA FrontFacts ==
  ASSUME NEW p \in Path
  PROVE  /\ Len(p) \in Nat /\ Len(p) >= 1
         /\ Len(p) > 1 => /\ Front(p) \in Path /\ Len(Front(p)) = Len(p) - 1 /\ p[Len(p)] \in Level
                          /\ p = Append(Front(p), p[Len(p)])
                          /\ \A i \in 1..Len(p) - 1 : Front(p)[i] = p[i]
         /\ \A a \in Level : /\ Append(p, a) \in Path /\ Front(Append(p, a)) = p
                              /\ Len(Append(p, a)) = Len(p) + 1 /\ Append(p, a)[Len(p) + 1] = a
<1>1. p \in Seq(Level) /\ p # <<>> /\ Len(p) \in Nat /\ Len(p) >= 1
  BY DEF Path
<1>2. ASSUME Len(p) > 1
      PROVE  /\ Front(p) \in Path /\ Len(Front(p)) = Len(p) - 1 /\ p[Len(p)] \in Level
             /\ p = Append(Front(p), p[Len(p)])
             /\ \A i \in 1..Len(p) - 1 : Front(p)[i] = p[i]
  <2> DEFINE f == SubSeq(p, 1, Len(p) - 1)
  <2>1. \A i \in 1..Len(p) : p[i] \in Level
    BY <1>1
  <2>2. Len(p) \in 1..Len(p)
    BY <1>1
  <2>3. f \in Seq(Level) /\ Len(f) = Len(p) - 1 /\ \A i \in 1..Len(p) - 1 : f[i] = p[i]
    BY <1>1, <1>2, <2>1
  <2> HIDE DEF f
  <2>4. f # <<>>
    BY <1>2, <1>1, <2>3
  <2>5. Append(f, p[Len(p)]) \in Seq(Level) /\ Len(Append(f, p[Len(p)])) = Len(p)
        /\ \A i \in 1..Len(p) : Append(f, p[Len(p)])[i] = p[i]
    <3>1. p[Len(p)] \in Level
      BY <2>1, <2>2
    <3>2. /\ Append(f, p[Len(p)]) \in Seq(Level) /\ Len(Append(f, p[Len(p)])) = Len(f) + 1
          /\ Append(f, p[Len(p)])[Len(f) + 1] = p[Len(p)]
          /\ \A i \in 1..Len(f) : Append(f, p[Len(p)])[i] = f[i]
      BY <2>3, <3>1, AppendProperties
    <3> QED
      BY <1>1, <1>2, <2>3, <3>2
  <2>6. p = Append(f, p[Len(p)])
    BY <1>1, <2>5
  <2> QED
    BY <2>1, <2>2, <2>3, <2>4, <2>6 DEF Front, Path, f
<1>3. ASSUME NEW a \in Level
      PROVE  /\ Append(p, a) \in Path /\ Front(Append(p, a)) = p
             /\ Len(Append(p, a)) = Len(p) + 1 /\ Append(p, a)[Len(p) + 1] = a
  <2>1. /\ Append(p, a) \in Seq(Level) /\ Len(Append(p, a)) = Len(p) + 1
        /\ Append(p, a)[Len(p) + 1] = a /\ \A i \in 1..Len(p) : Append(p, a)[i] = p[i]
    BY <1>1, AppendProperties
  <2> DEFINE s == Append(p, a)
             f == SubSeq(s, 1, Len(p))
  <2>2. s # <<>> /\ \A i \in 1..Len(p) + 1 : s[i] \in Level
    <3>1. s \in Seq(Level) /\ Len(s) = Len(p) + 1
      BY <2>1
    <3> HIDE DEF s
    <3> QED
      BY <1>1, <3>1
  <2>3. f \in Seq(Level) /\ Len(f) = Len(p) /\ \A i \in 1..Len(p) : f[i] = s[i]
    BY <1>1, <2>1, <2>2
  <2> HIDE DEF f
  <2>4. f = p
    BY <1>1, <2>1, <2>3
  <2>5. Front(s) = f
    <3>1. Len(s) - 1 = Len(p)
      BY <1>1, <2>1
    <3> QED
      BY <3>1 DEF Front, f
  <2> QED
    BY <2>1, <2>2, <2>4, <2>5 DEF Path
<1> QED
  BY <1>1, <1>2, <1>3

\* A prefix of a path and the one before it.
LEMMA AboveFront ==
  ASSUME NEW path \in Path, NEW q \in Above(path), Len(q) > 1
  PROVE  /\ Front(q) \in Above(path) /\ q = Append(Front(q), path[Len(Front(q)) + 1])
         /\ path[Len(Front(q)) + 1] \in Level
         /\ q[Len(q)] = path[Len(Front(q)) + 1] /\ Len(Front(q)) = Len(q) - 1
<1>0. /\ Above(path) \in SUBSET Path /\ path \in Above(path)
      /\ Len(path) \in Nat /\ Len(path) >= 1
      /\ \A r \in Above(path) : Len(r) \in 1..Len(path) /\ \A i \in 1..Len(r) : r[i] = path[i]
      /\ \A r, s \in Above(path) : Len(r) = Len(s) => r = s
      /\ \A n \in 1..Len(path) : SubSeq(path, 1, n) \in Above(path) /\ Len(SubSeq(path, 1, n)) = n
  BY AboveFacts
<1>1. q \in Path /\ Len(q) \in 1..Len(path)
  BY <1>0
<1>2. /\ Front(q) \in Path /\ Len(Front(q)) = Len(q) - 1 /\ q[Len(q)] \in Level
      /\ q = Append(Front(q), q[Len(q)])
  BY <1>1, FrontFacts
<1>3. q[Len(q)] = path[Len(q)] /\ Len(Front(q)) + 1 = Len(q)
  BY <1>0, <1>1, <1>2, SMTT(40)
<1>4. Front(q) \in Above(path)
  <2>1. q = SubSeq(path, 1, Len(q))
    BY <1>0, <1>1
  <2>2. Len(q) - 1 \in 1..Len(path) /\ Len(q) - 1 \in Nat
    BY <1>1
  <2> DEFINE r == SubSeq(path, 1, Len(q) - 1)
  <2>3. r \in Above(path) /\ Len(r) = Len(q) - 1
    BY <1>0, <2>2
  <2> HIDE DEF r
  <2>4. \A i \in 1..Len(q) - 1 : Front(q)[i] = q[i]
    BY <1>1, FrontFacts
  <2>5. \A i \in 1..Len(q) - 1 : Front(q)[i] = r[i]
    <3>1. \A i \in 1..Len(q) - 1 : i \in 1..Len(q)
      BY <1>1
    <3>2. \A i \in 1..Len(q) : q[i] = path[i]
      BY <1>0
    <3>3. \A i \in 1..Len(q) - 1 : r[i] = path[i]
      BY <1>0, <2>3
    <3> QED
      BY <2>4, <3>1, <3>2, <3>3
  <2>6. r \in Seq(Level) /\ Front(q) \in Seq(Level)
    BY <1>0, <1>2, <2>3 DEF Path
  <2>7. r = Front(q)
    BY <1>2, <2>3, <2>5, <2>6
  <2> QED
    BY <2>3, <2>7
<1> QED
  BY <1>2, <1>3, <1>4

------------------------------------------------------------------------------
\* A tree: a node is there with its parent, which names each of its children once.
Linked(t) ==
  \A p \in DOMAIN t :
    /\ \A i, j \in DOMAIN t[p].children : t[p].children[i] = t[p].children[j] => i = j
    /\ \A i \in DOMAIN t[p].children : Append(p, t[p].children[i]) \in DOMAIN t
    /\ Len(p) > 1 => /\ Front(p) \in DOMAIN t
                     /\ \E i \in DOMAIN t[Front(p)].children : t[Front(p)].children[i] = p[Len(p)]
\* A tree as subs.c keeps it: finite, and linked both ways.
Tree(t) == t \in Maps(Path, Node) /\ IsFiniteSet(DOMAIN t) /\ Linked(t)

\* Nodes that nothing hangs on, but the roots.
Idle(t) == {p \in DOMAIN t : Len(p) > 1 /\ Bare(t[p]) /\ t[p].children = <<>>}

\* The parts of a tree have their types.
LEMMA TreeFacts ==
  ASSUME NEW t, Tree(t)
  PROVE  /\ DOMAIN t \in SUBSET Path /\ t = [p \in DOMAIN t |-> t[p]]
         /\ \A p \in DOMAIN t : /\ t[p] \in Node /\ t[p].children \in Seq(Level) /\ t[p].subs \in Leaves
                                /\ t[p].retained \in Nat /\ DOMAIN t[p].children = 1..Len(t[p].children)
                                /\ Len(t[p].children) \in Nat
                                /\ \A i \in DOMAIN t[p].children : t[p].children[i] \in Level
<1>1. DOMAIN t \in SUBSET Path /\ t = [p \in DOMAIN t |-> t[p]] /\ \A p \in DOMAIN t : t[p] \in Node
  BY MapsFacts DEF Tree
<1> QED
  BY <1>1 DEF Node

\* The nodes on the way to a path are made, without leaves and retained messages.
LEMMA AddPathKeeps ==
  ASSUME NEW t, Tree(t), NEW path \in Path
  PROVE  /\ Tree(AddPath(t, path)) /\ DOMAIN AddPath(t, path) = DOMAIN t \cup Above(path)
         /\ \A p \in DOMAIN t : /\ AddPath(t, path)[p].subs = t[p].subs
                                /\ AddPath(t, path)[p].retained = t[p].retained
         /\ \A p \in Above(path) \ DOMAIN t : Bare(AddPath(t, path)[p])
         /\ Idle(AddPath(t, path)) \subseteq Idle(t) \cup {path}
<1> DEFINE m == Above(path) \ DOMAIN t
           N(p) == IF p \in m THEN EmptyNode ELSE t[p]
           New(p) == \E q \in m : Len(q) > 1 /\ Front(q) = p
           u == AddPath(t, path)
           a(p) == path[Len(p) + 1]
<1>1. /\ Above(path) \in SUBSET Path /\ IsFiniteSet(Above(path)) /\ path \in Above(path)
      /\ Len(path) \in Nat /\ Len(path) >= 1
      /\ \A q \in Above(path) : Len(q) \in 1..Len(path) /\ \A i \in 1..Len(q) : q[i] = path[i]
      /\ \A q, r \in Above(path) : Len(q) = Len(r) => q = r
      /\ \A n \in 1..Len(path) : SubSeq(path, 1, n) \in Above(path) /\ Len(SubSeq(path, 1, n)) = n
  BY AboveFacts
<1>2. DOMAIN t \in SUBSET Path
  BY TreeFacts
<1>3. u = [p \in DOMAIN t \cup m |-> IF New(p) THEN [N(p) EXCEPT !.children = Append(@, a(p))] ELSE N(p)]
  BY DEF AddPath
<1>4. EmptyNode \in Node /\ EmptyNode.children = <<>> /\ Bare(EmptyNode)
  BY EmptyMap DEF EmptyNode, Node, Leaves, Bare, NoMsg
<1>5. \A p \in DOMAIN t \cup m : N(p) \in Node /\ p \in Path
  BY <1>1, <1>2, <1>4, TreeFacts
<1>6. ASSUME NEW q \in Above(path), Len(q) > 1
      PROVE  /\ Front(q) \in Above(path) /\ q = Append(Front(q), a(Front(q))) /\ a(Front(q)) \in Level
             /\ q[Len(q)] = a(Front(q)) /\ Len(Front(q)) = Len(q) - 1
  BY <1>6, AboveFront
<1>7. ASSUME NEW p \in Path, New(p)
      PROVE  /\ p \in Above(path) /\ a(p) \in Level /\ Append(p, a(p)) \in m
  <2>1. PICK q \in m : Len(q) > 1 /\ Front(q) = p
    BY <1>7
  <2> QED
    BY <2>1, <1>6
<1> HIDE DEF m, New, a
<1>8. ASSUME NEW p \in DOMAIN t \cup m
      PROVE  /\ u[p].subs = N(p).subs /\ u[p].retained = N(p).retained /\ u[p] \in Node
             /\ u[p].children = IF New(p) THEN Append(N(p).children, a(p)) ELSE N(p).children
             /\ N(p).children \in Seq(Level)
  <2>1. N(p) \in Node /\ p \in Path /\ u[p] = IF New(p) THEN [N(p) EXCEPT !.children = Append(@, a(p))] ELSE N(p)
    BY <1>3, <1>5
  <2> HIDE DEF N, u
  <2>2. N(p).children \in Seq(Level)
    BY <2>1 DEF Node
  <2>3. CASE ~New(p)
    BY <2>1, <2>2, <2>3
  <2>4. CASE New(p)
    <3>1. a(p) \in Level
      BY <1>7, <2>1, <2>4
    <3>2. Append(N(p).children, a(p)) \in Seq(Level)
      BY <2>2, <3>1, AppendProperties
    <3>3. u[p] = [N(p) EXCEPT !.children = Append(N(p).children, a(p))]
      BY <2>1, <2>4
    <3> QED
      BY <2>1, <2>2, <2>4, <3>2, <3>3 DEF Node
  <2> QED
    BY <2>3, <2>4
<1>9. DOMAIN u = DOMAIN t \cup Above(path)
  BY <1>3 DEF m
<1>10. u \in Maps(Path, Node)
  <2>1. DOMAIN u \in SUBSET Path /\ \A p \in DOMAIN u : u[p] \in Node
    BY <1>1, <1>2, <1>8, <1>9 DEF m
  <2>2. u = [p \in DOMAIN u |-> u[p]]
    BY <1>3
  <2> HIDE DEF u
  <2>3. u \in [DOMAIN u -> Node]
    BY <2>1, <2>2
  <2> QED
    BY <2>1, <2>3, MapsFacts
<1>11. \A p \in m : N(p) = EmptyNode
  OBVIOUS
<1>12. \A p \in DOMAIN t : N(p) = t[p]
  BY DEF m
<1>13. \A p \in Above(path) \ DOMAIN t : Bare(u[p])
  BY <1>4, <1>8, <1>11 DEF m, Bare
<1>14. \A p \in DOMAIN t : u[p].subs = t[p].subs /\ u[p].retained = t[p].retained
  BY <1>8, <1>12
<1>15. ASSUME NEW p \in DOMAIN t \cup m
       PROVE  /\ New(p) => \A i \in DOMAIN N(p).children : N(p).children[i] # a(p)
              /\ \A i, j \in DOMAIN N(p).children : N(p).children[i] = N(p).children[j] => i = j
              /\ \A i \in DOMAIN N(p).children : Append(p, N(p).children[i]) \in DOMAIN t
  <2>1. CASE p \in m
    <3>1. DOMAIN N(p).children = {}
      BY <1>4, <1>11, <2>1
    <3> QED
      BY <3>1
  <2>2. CASE p \in DOMAIN t
    <3>1. N(p) = t[p] /\ p \in Path
      BY <1>2, <1>12, <2>2
    <3>2. New(p) => Append(p, a(p)) \notin DOMAIN t
      BY <1>7, <3>1 DEF m
    <3> QED
      BY <2>2, <3>1, <3>2 DEF Tree, Linked
  <2> QED
    BY <2>1, <2>2
<1>16. ASSUME NEW p \in DOMAIN u
       PROVE  /\ \A i, j \in DOMAIN u[p].children : u[p].children[i] = u[p].children[j] => i = j
              /\ \A i \in DOMAIN u[p].children : Append(p, u[p].children[i]) \in DOMAIN u
              /\ \A i \in DOMAIN N(p).children : i \in DOMAIN u[p].children /\ u[p].children[i] = N(p).children[i]
              /\ New(p) => \E i \in DOMAIN u[p].children : u[p].children[i] = a(p)
  <2>1. p \in DOMAIN t \cup m /\ p \in Path
    BY <1>1, <1>2, <1>9 DEF m
  <2> DEFINE k == N(p).children
             n == u[p].children
  <2>2. k \in Seq(Level) /\ n = IF New(p) THEN Append(k, a(p)) ELSE k
    BY <1>8, <2>1
  <2>3. /\ New(p) => \A i \in DOMAIN k : k[i] # a(p)
        /\ \A i, j \in DOMAIN k : k[i] = k[j] => i = j
        /\ \A i \in DOMAIN k : Append(p, k[i]) \in DOMAIN u
    BY <1>9, <1>15, <2>1
  <2>4. New(p) => a(p) \in Level /\ Append(p, a(p)) \in DOMAIN u
    BY <1>7, <1>9, <2>1 DEF m
  <2> HIDE DEF k, n
  <2>5. CASE ~New(p)
    BY <2>2, <2>3, <2>5 DEF k, n
  <2>6. CASE New(p)
    <3>1. /\ DOMAIN n = 1..Len(k) + 1 /\ DOMAIN k = 1..Len(k) /\ Len(k) \in Nat
          /\ n[Len(k) + 1] = a(p) /\ \A i \in 1..Len(k) : n[i] = k[i]
      <4>1. n \in Seq(Level) /\ Len(n) = Len(k) + 1 /\ n[Len(k) + 1] = a(p) /\ \A i \in 1..Len(k) : n[i] = k[i]
        BY <2>2, <2>4, <2>6, AppendProperties
      <4> QED
        BY <2>2, <4>1
    <3>2. \A i \in DOMAIN n : i = Len(k) + 1 \/ i \in DOMAIN k
      BY <3>1
    <3>3. \A i \in DOMAIN k : i \in DOMAIN n /\ n[i] = k[i]
      BY <3>1
    <3>4. Len(k) + 1 \in DOMAIN n
      BY <3>1
    <3>5. n[Len(k) + 1] = a(p)
      BY <3>1
    <3>6. ASSUME NEW i \in DOMAIN n
          PROVE  Append(p, n[i]) \in DOMAIN u
      BY <2>3, <2>4, <2>6, <3>2, <3>3, <3>5, <3>6
    <3>7. ASSUME NEW i \in DOMAIN n, NEW j \in DOMAIN n, n[i] = n[j]
          PROVE  i = j
      BY <2>3, <2>6, <3>2, <3>3, <3>5, <3>7
    <3>8. \E i \in DOMAIN n : n[i] = a(p)
      BY <3>4, <3>5
    <3>9. \A i, j \in DOMAIN n : n[i] = n[j] => i = j
      BY <3>7
    <3>10. \A i \in DOMAIN n : Append(p, n[i]) \in DOMAIN u
      BY <3>6
    <3> QED
      BY <3>3, <3>8, <3>9, <3>10 DEF k, n
  <2> QED
    BY <2>5, <2>6
<1>17. ASSUME NEW q \in DOMAIN u, Len(q) > 1
       PROVE  Front(q) \in DOMAIN u /\ \E i \in DOMAIN u[Front(q)].children : u[Front(q)].children[i] = q[Len(q)]
  <2>1. CASE q \in m
    <3>1. q \in Above(path)
      BY <2>1 DEF m
    <3>2. Front(q) \in Above(path) /\ q[Len(q)] = a(Front(q))
      BY <1>6, <1>17, <3>1 DEF a
    <3>3. New(Front(q))
      BY <1>17, <2>1 DEF New
    <3>4. Front(q) \in DOMAIN u
      BY <1>9, <3>2
    <3> QED
      BY <1>16, <3>2, <3>3, <3>4
  <2>2. CASE q \notin m
    <3>1. q \in DOMAIN t
      BY <1>9, <2>2 DEF m
    <3>2. Front(q) \in DOMAIN t /\ \E i \in DOMAIN t[Front(q)].children : t[Front(q)].children[i] = q[Len(q)]
      BY <1>17, <3>1 DEF Tree, Linked
    <3>3. Front(q) \in DOMAIN u /\ N(Front(q)) = t[Front(q)]
      BY <1>9, <1>12, <3>2
    <3> QED
      BY <1>16, <3>2, <3>3
  <2> QED
    BY <2>1, <2>2
<1>18. Tree(u)
  <2>1. IsFiniteSet(DOMAIN u)
    <3>1. IsFiniteSet(DOMAIN t)
      BY DEF Tree
    <3>2. IsFiniteSet(DOMAIN t \cup Above(path))
      BY <1>1, <3>1, FS_Union
    <3> QED
      BY <1>9, <3>2
  <2>2. Linked(u)
    BY <1>16, <1>17 DEF Linked
  <2> QED
    BY <1>10, <2>1, <2>2 DEF Tree
<1>19. ASSUME NEW p \in Idle(u)
       PROVE  p \in Idle(t) \cup {path}
  <2>1. p \in DOMAIN u /\ Len(p) > 1 /\ Bare(u[p]) /\ u[p].children = <<>>
    BY DEF Idle
  <2>2. ~New(p) /\ N(p).children = <<>>
    <3>1. DOMAIN u[p].children = {}
      BY <2>1
    <3>2. ~New(p)
      BY <1>16, <2>1, <3>1
    <3>3. p \in DOMAIN t \cup m
      BY <1>9, <2>1 DEF m
    <3> QED
      BY <1>8, <2>1, <3>2, <3>3
  <2>3. CASE p \in DOMAIN t
    <3>1. Bare(t[p]) /\ t[p].children = <<>>
      BY <1>12, <1>14, <2>1, <2>2, <2>3 DEF Bare
    <3> QED
      BY <2>1, <2>3, <3>1 DEF Idle
  <2>4. CASE p \notin DOMAIN t
    <3>1. p \in Above(path) /\ p \in m /\ p \in Path
      BY <1>1, <1>9, <2>1, <2>4 DEF m
    <3>2. CASE Len(p) = Len(path)
      BY <1>1, <3>1, <3>2
    <3>3. CASE Len(p) # Len(path)
      <4> DEFINE q == SubSeq(path, 1, Len(p) + 1)
      <4>1. Len(p) + 1 \in 1..Len(path) /\ Len(p) \in Nat /\ Len(p) >= 1
        BY <1>1, <3>1, <3>3
      <4>2. q \in Above(path) /\ Len(q) = Len(p) + 1
        BY <1>1, <4>1
      <4> HIDE DEF q
      <4>3. Len(q) > 1
        BY <4>1, <4>2
      <4>4. Front(q) \in Above(path) /\ Len(Front(q)) = Len(q) - 1
        BY <1>6, <4>2, <4>3
      <4>5. Front(q) = p
        <5>1. Len(Front(q)) = Len(p)
          BY <4>1, <4>2, <4>4
        <5> QED
          BY <1>1, <3>1, <4>4, <5>1
      <4>6. q \notin DOMAIN t
        BY <2>4, <4>3, <4>5 DEF Tree, Linked
      <4>7. New(p)
        BY <4>2, <4>3, <4>5, <4>6 DEF New, m
      <4> QED
        BY <2>2, <4>7
    <3> QED
      BY <3>2, <3>3
  <2> QED
    BY <2>3, <2>4
<1> QED
  BY <1>9, <1>13, <1>14, <1>18, <1>19

\* What Prune takes away are nodes without leaves and messages, with all that is below them;
\* it goes up as far as it finds such nodes.
LEMMA PruneKeeps ==
  ASSUME NEW t, Tree(t), NEW path \in Path, NEW top \in 1..2
  PROVE  \E gone \in SUBSET DOMAIN t :
           /\ Tree(Prune(t, path, top)) /\ DOMAIN Prune(t, path, top) = DOMAIN t \ gone
           /\ \A p \in DOMAIN t \ gone : /\ Prune(t, path, top)[p].subs = t[p].subs
                                         /\ Prune(t, path, top)[p].retained = t[p].retained
           /\ \A p \in gone : Bare(t[p])
           /\ Idle(Prune(t, path, top)) \subseteq Idle(t) \ {path}
<1> DEFINE line == Above(path) \cap DOMAIN t
           Alone(p) == \A q \in line : Len(q) >= Len(p) =>
                         /\ Bare(t[q])
                         /\ t[q].children = IF \E r \in line : Len(r) = Len(q) + 1
                                            THEN <<path[Len(q) + 1]>> ELSE <<>>
           gone == {p \in line : Len(p) >= top /\ Alone(p)}
           u == Prune(t, path, top)
           kids(p) == t[p].children
           rest(p) == {i \in DOMAIN kids(p) : Append(p, kids(p)[i]) \notin gone}
<1>1. u = [p \in DOMAIN t \ gone |-> [t[p] EXCEPT !.children = Those(kids(p), rest(p))]]
  BY DEF Prune
<1>2. DOMAIN t \in SUBSET Path /\ line \in SUBSET DOMAIN t /\ gone \in SUBSET line
  BY TreeFacts
<1>3. /\ \A q \in line : Len(q) \in 1..Len(path)
      /\ \A q, r \in line : Len(q) = Len(r) => q = r
      /\ Len(path) \in Nat /\ Len(path) >= 1
  BY AboveFacts
<1>4. ASSUME NEW p \in line, NEW r \in line, Len(r) = Len(p) + 1
      PROVE  r = Append(p, path[Len(p) + 1])
  <2>1. Len(r) > 1 /\ Len(p) \in Nat
    BY <1>3, <1>4
  <2>2. Front(r) \in Above(path) /\ r = Append(Front(r), path[Len(Front(r)) + 1]) /\ Len(Front(r)) = Len(r) - 1
    BY <2>1, AboveFront
  <2>3. Front(r) = p
    <3>1. Len(Front(r)) = Len(p)
      BY <1>4, <2>1, <2>2
    <3>2. \A x, y \in Above(path) : Len(x) = Len(y) => x = y
      BY AboveFacts
    <3> QED
      BY <2>2, <3>1, <3>2
  <2> QED
    BY <2>2, <2>3
<1>5. ASSUME NEW p \in gone
      PROVE  Bare(t[p]) /\ \A i \in DOMAIN kids(p) : Append(p, kids(p)[i]) \in gone
  <2>1. p \in line /\ Len(p) >= top /\ Alone(p) /\ Len(p) \in Nat
    BY <1>3
  <2>2. /\ Bare(t[p])
        /\ kids(p) = IF \E r \in line : Len(r) = Len(p) + 1 THEN <<path[Len(p) + 1]>> ELSE <<>>
    BY <2>1
  <2>3. CASE ~\E r \in line : Len(r) = Len(p) + 1
    <3>1. kids(p) = <<>>
      BY <2>2, <2>3
    <3>2. DOMAIN kids(p) = {}
      BY <3>1
    <3> HIDE DEF kids, gone
    <3> QED
      BY <2>2, <3>2
  <2>4. CASE \E r \in line : Len(r) = Len(p) + 1
    <3>1. PICK r \in line : Len(r) = Len(p) + 1
      BY <2>4
    <3>2. r = Append(p, path[Len(p) + 1]) /\ Len(r) \in Nat /\ Len(r) >= top
      BY <1>3, <1>4, <2>1, <3>1
    <3>3. Alone(r)
      <4>1. \A q \in line : Len(q) >= Len(r) => Len(q) >= Len(p)
        BY <1>3, <2>1, <3>1
      <4> QED
        BY <2>1, <4>1
    <3>4. r \in gone
      BY <3>1, <3>2, <3>3
    <3>5. kids(p) = <<path[Len(p) + 1]>>
      BY <2>2, <2>4
    <3>6. \A i \in DOMAIN kids(p) : kids(p)[i] = path[Len(p) + 1]
      BY <3>5
    <3> QED
      BY <2>2, <3>2, <3>4, <3>6
  <2> QED
    BY <2>3, <2>4
<1>6. ASSUME NEW p \in DOMAIN t
      PROVE  /\ kids(p) \in Seq(Level) /\ rest(p) \in SUBSET DOMAIN kids(p) /\ DOMAIN kids(p) = 1..Len(kids(p))
             /\ \A i, j \in DOMAIN kids(p) : kids(p)[i] = kids(p)[j] => i = j
             /\ \A i \in DOMAIN kids(p) : Append(p, kids(p)[i]) \in DOMAIN t
  BY TreeFacts DEF Tree, Linked
<1> HIDE DEF gone, u, line, Alone
<1>7. ASSUME NEW p \in DOMAIN t \ gone
      PROVE  /\ u[p].subs = t[p].subs /\ u[p].retained = t[p].retained /\ u[p] \in Node
             /\ \A i, j \in DOMAIN u[p].children : u[p].children[i] = u[p].children[j] => i = j
             /\ \A x : (\E i \in DOMAIN u[p].children : u[p].children[i] = x) <=> \E i \in rest(p) : kids(p)[i] = x
             /\ u[p].children = <<>> <=> rest(p) = {}
  <2>1. u[p] = [t[p] EXCEPT !.children = Those(kids(p), rest(p))] /\ t[p] \in Node
    BY <1>1, TreeFacts
  <2> DEFINE n == Those(kids(p), rest(p))
  <2>2. /\ n \in Seq(Level)
        /\ \A x : (\E i \in DOMAIN n : n[i] = x) <=> \E i \in rest(p) : kids(p)[i] = x
        /\ (\A i, j \in DOMAIN kids(p) : kids(p)[i] = kids(p)[j] => i = j) =>
             \A i, j \in DOMAIN n : n[i] = n[j] => i = j
        /\ n = <<>> <=> rest(p) = {}
    <3> HIDE DEF kids, rest
    <3> QED
      BY <1>6, ThoseFacts
  <2> HIDE DEF n
  <2>3. u[p].children = n /\ u[p].subs = t[p].subs /\ u[p].retained = t[p].retained /\ u[p] \in Node
    BY <2>1, <2>2 DEF Node, n
  <2> QED
    BY <1>6, <2>2, <2>3
<1>8. DOMAIN u = DOMAIN t \ gone
  BY <1>1
<1>9. u \in Maps(Path, Node)
  <2>1. u = [p \in DOMAIN u |-> u[p]] /\ \A p \in DOMAIN u : u[p] \in Node
    BY <1>1, <1>7, <1>8
  <2>2. u \in [DOMAIN u -> Node]
    BY <2>1
  <2> QED
    BY <1>2, <1>8, <2>2, MapsFacts
<1>10. Linked(u)
  <2>1. ASSUME NEW p \in DOMAIN u, NEW i \in DOMAIN u[p].children
        PROVE  Append(p, u[p].children[i]) \in DOMAIN u
    <3>1. PICK j \in rest(p) : kids(p)[j] = u[p].children[i]
      BY <1>7, <1>8, <2>1
    <3> QED
      BY <1>6, <1>8, <3>1
  <2>2. ASSUME NEW q \in DOMAIN u, Len(q) > 1
        PROVE  Front(q) \in DOMAIN u /\ \E i \in DOMAIN u[Front(q)].children : u[Front(q)].children[i] = q[Len(q)]
    <3>1. q \in DOMAIN t /\ q \notin gone /\ q \in Path
      BY <1>2, <1>8
    <3>2. Front(q) \in DOMAIN t /\ \E i \in DOMAIN kids(Front(q)) : kids(Front(q))[i] = q[Len(q)]
      BY <2>2, <3>1 DEF Tree, Linked
    <3>3. q = Append(Front(q), q[Len(q)])
      BY <2>2, <3>1, FrontFacts
    <3>4. PICK i \in DOMAIN kids(Front(q)) : kids(Front(q))[i] = q[Len(q)]
      BY <3>2
    <3>5. Front(q) \notin gone
      BY <1>5, <3>1, <3>3, <3>4
    <3>6. i \in rest(Front(q))
      BY <3>1, <3>3, <3>4
    <3> QED
      BY <1>7, <1>8, <3>2, <3>4, <3>5, <3>6
  <2> QED
    BY <1>7, <1>8, <2>1, <2>2 DEF Linked
<1>11. Tree(u)
  <2>1. IsFiniteSet(DOMAIN t)
    BY DEF Tree
  <2>2. IsFiniteSet(DOMAIN u)
    BY <1>8, <2>1, FS_Subset
  <2> QED
    BY <1>9, <1>10, <2>2 DEF Tree
<1>12. ASSUME NEW p \in Idle(u)
       PROVE  p \in Idle(t) /\ p # path
  <2>1. /\ p \in DOMAIN t /\ p \notin gone /\ Len(p) > 1 /\ p \in Path /\ Len(p) \in Nat
        /\ Bare(t[p]) /\ u[p].children = <<>>
    <3>1. p \in DOMAIN u /\ Len(p) > 1 /\ Bare(u[p]) /\ u[p].children = <<>>
      BY DEF Idle
    <3>2. p \in DOMAIN t \ gone /\ p \in Path
      BY <1>2, <1>8, <3>1
    <3>3. u[p].subs = t[p].subs /\ u[p].retained = t[p].retained
      BY <1>7, <3>2
    <3> QED
      BY <3>1, <3>2, <3>3, FrontFacts DEF Bare
  <2>2. rest(p) = {}
    BY <1>7, <2>1
  <2>3. kids(p) = <<>>
    <3>1. SUFFICES ASSUME kids(p) # <<>> PROVE FALSE
      OBVIOUS
    <3> DEFINE c == Append(p, kids(p)[1])
    <3>2. kids(p) \in Seq(Level) /\ 1 \in DOMAIN kids(p)
      BY <1>6, <2>1, <3>1
    <3>3. \A i \in DOMAIN kids(p) : Append(p, kids(p)[i]) \in gone
      BY <2>2
    <3>4. \A i \in DOMAIN kids(p) : /\ kids(p)[i] \in Level /\ Len(Append(p, kids(p)[i])) = Len(p) + 1
                                    /\ Front(Append(p, kids(p)[i])) = p
                                    /\ Append(p, kids(p)[i])[Len(p) + 1] = kids(p)[i]
      <4>1. \A i \in DOMAIN kids(p) : kids(p)[i] \in Level
        BY <1>6, <2>1, <3>2
      <4> QED
        BY <2>1, <4>1, FrontFacts
    <3>5. c \in line /\ c \in gone /\ Len(c) = Len(p) + 1 /\ Front(c) = p /\ Len(c) > 1
      BY <1>2, <2>1, <3>2, <3>3, <3>4
    <3>6. p \in line
      BY <2>1, <3>5, AboveFront DEF line
    <3>7. c = Append(p, path[Len(p) + 1])
      BY <1>4, <3>5, <3>6
    <3>8. \A i \in DOMAIN kids(p) : kids(p)[i] = kids(p)[1]
      <4>1. ASSUME NEW i \in DOMAIN kids(p)
            PROVE  kids(p)[i] = kids(p)[1]
        <5> DEFINE e == Append(p, kids(p)[i])
        <5>1. e \in line /\ Len(e) = Len(c)
          BY <1>2, <3>3, <3>4, <3>5
        <5>2. e = c
          BY <1>3, <3>5, <5>1
        <5> QED
          BY <3>2, <3>4, <5>2
      <4> QED
        BY <4>1
    <3>9. kids(p)[1] = path[Len(p) + 1]
      <4>1. c[Len(p) + 1] = kids(p)[1]
        BY <3>2, <3>4
      <4>2. path[Len(p) + 1] \in Level
        <5>1. Len(p) + 1 \in 1..Len(path)
          BY <1>3, <3>5
        <5> QED
          BY <5>1 DEF Path
      <4>3. Append(p, path[Len(p) + 1])[Len(p) + 1] = path[Len(p) + 1]
        BY <2>1, <4>2, FrontFacts
      <4> QED
        BY <3>7, <4>1, <4>3
    <3>10. kids(p) = <<path[Len(p) + 1]>>
      <4>1. Len(kids(p)) \in Nat /\ DOMAIN kids(p) = 1..Len(kids(p))
        BY <3>2
      <4>2. Len(kids(p)) = 1
        <5>1. \A i \in DOMAIN kids(p) : i = 1
          BY <1>6, <2>1, <3>2, <3>8
        <5>2. Len(kids(p)) \in DOMAIN kids(p)
          BY <3>2, <4>1
        <5> QED
          BY <5>1, <5>2
      <4> HIDE DEF kids
      <4> QED
        BY <3>2, <3>9, <4>1, <4>2
    <3>11. Alone(p)
      <4>1. SUFFICES ASSUME NEW q \in line, Len(q) >= Len(p)
                     PROVE  /\ Bare(t[q])
                            /\ t[q].children = IF \E r \in line : Len(r) = Len(q) + 1
                                               THEN <<path[Len(q) + 1]>> ELSE <<>>
        BY DEF Alone
      <4>2. CASE Len(q) = Len(p)
        <5>1. q = p
          BY <1>3, <3>6, <4>2
        <5>2. \E r \in line : Len(r) = Len(q) + 1
          BY <3>5, <5>1
        <5> QED
          BY <2>1, <3>10, <5>1, <5>2
      <4>3. CASE Len(q) # Len(p)
        <5>1. Len(q) >= Len(c)
          BY <1>3, <2>1, <3>5, <4>1, <4>3
        <5>2. Alone(c)
          BY <3>5 DEF gone
        <5> QED
          BY <5>1, <5>2 DEF Alone
      <4> QED
        BY <4>2, <4>3
    <3>12. Len(p) >= top
      BY <2>1
    <3> QED
      BY <2>1, <3>6, <3>11, <3>12 DEF gone
  <2>4. p # path
    <3>1. SUFFICES ASSUME p = path PROVE FALSE
      OBVIOUS
    <3>2. p \in line
      BY <2>1, <3>1, AboveFacts DEF line
    <3>3. Alone(p)
      <4>1. SUFFICES ASSUME NEW q \in line, Len(q) >= Len(p)
                     PROVE  /\ Bare(t[q])
                            /\ t[q].children = IF \E r \in line : Len(r) = Len(q) + 1
                                               THEN <<path[Len(q) + 1]>> ELSE <<>>
        BY DEF Alone
      <4>2. Len(q) = Len(p)
        BY <1>3, <3>1, <4>1
      <4>3. q = p
        BY <1>3, <3>2, <4>2
      <4>4. ~\E r \in line : Len(r) = Len(q) + 1
        BY <1>3, <3>1, <4>3
      <4> QED
        BY <2>1, <2>3, <4>3, <4>4
    <3>4. Len(p) >= top
      BY <2>1
    <3> QED
      BY <2>1, <3>2, <3>3, <3>4 DEF gone
  <2> QED
    BY <2>1, <2>3, <2>4 DEF Idle
<1>13. gone \in SUBSET DOMAIN t
  BY <1>2
<1> QED
  BY <1>5, <1>7, <1>8, <1>11, <1>12, <1>13 DEF u

------------------------------------------------------------------------------
\* What is left of a tree when client c's leaf at path is gone: the nodes that vanish
\* have no message, and no leaf but this one.
Cleared(t, u, path, c) ==
  /\ DOMAIN u \subseteq DOMAIN t
  /\ \A p \in DOMAIN u : /\ u[p].retained = t[p].retained
                         /\ u[p].subs = IF p = path THEN WithoutLeaf(t[p], c).subs ELSE t[p].subs
  /\ \A p \in DOMAIN t \ DOMAIN u : t[p].retained = NoMsg /\ DOMAIN t[p].subs \subseteq IF p = path THEN {c} ELSE {}

\* A leaf is taken from a node.
LEMMA WithoutLeafKeeps ==
  ASSUME NEW t, Tree(t), NEW path \in DOMAIN t, NEW c
  PROVE  LET u == [t EXCEPT ![path] = WithoutLeaf(@, c)]
         IN  /\ Tree(u) /\ Cleared(t, u, path, c) /\ DOMAIN u = DOMAIN t
             /\ Idle(u) \subseteq Idle(t) \cup {path}
             /\ DOMAIN WithoutLeaf(t[path], c).subs = DOMAIN t[path].subs \ {c}
<1> DEFINE n == WithoutLeaf(t[path], c)
           u == [t EXCEPT ![path] = n]
           s == [d \in DOMAIN t[path].subs \ {c} |-> t[path].subs[d]]
<1>1. t[path] \in Node /\ DOMAIN t \in SUBSET Path /\ t[path].subs \in Leaves
  BY TreeFacts
<1>2. s \in Leaves /\ DOMAIN s = DOMAIN t[path].subs \ {c}
  <2>1. DOMAIN t[path].subs \in SUBSET Client /\ \A d \in DOMAIN t[path].subs : t[path].subs[d] \in 0..2
    BY <1>1, MapsFacts DEF Leaves
  <2>2. DOMAIN s \in SUBSET Client /\ s \in [DOMAIN s -> 0..2]
    BY <2>1
  <2> QED
    BY <2>2, MapsFacts DEF Leaves
<1>3. n = [t[path] EXCEPT !.subs = s]
  BY DEF WithoutLeaf
<1> HIDE DEF s
<1>4. n \in Node /\ n.subs = s /\ n.children = t[path].children /\ n.retained = t[path].retained
  BY <1>1, <1>2, <1>3 DEF Node
<1> HIDE DEF n
<1>5. DOMAIN u = DOMAIN t /\ u[path] = n /\ \A p \in DOMAIN t : p # path => u[p] = t[p]
  OBVIOUS
<1>6. \A p \in DOMAIN t : u[p] \in Node /\ u[p].children = t[p].children /\ u[p].retained = t[p].retained
  BY <1>4, <1>5, TreeFacts
<1>7. u \in Maps(Path, Node)
  <2>1. u = [p \in DOMAIN u |-> u[p]]
    BY <1>1
  <2> HIDE DEF u
  <2>2. u \in [DOMAIN u -> Node]
    BY <1>5, <1>6, <2>1
  <2> QED
    BY <1>1, <1>5, <2>2, MapsFacts
<1> HIDE DEF u
<1>8. Tree(u)
  BY <1>5, <1>6, <1>7 DEF Tree, Linked
<1>9. Cleared(t, u, path, c)
  BY <1>4, <1>5, <1>6 DEF Cleared, n
<1>10. Idle(u) \subseteq Idle(t) \cup {path}
  BY <1>5 DEF Idle
<1> QED
  BY <1>2, <1>4, <1>5, <1>8, <1>9, <1>10 DEF u, n

\* Pruning takes nothing that clearing has not.
LEMMA PruneCleared ==
  ASSUME NEW t, Tree(t), NEW path \in Path, NEW top \in 1..2, NEW v, NEW c,
         Cleared(v, t, path, c), DOMAIN t = DOMAIN v
  PROVE  /\ Tree(Prune(t, path, top)) /\ Cleared(v, Prune(t, path, top), path, c)
         /\ Idle(Prune(t, path, top)) \subseteq Idle(t) \ {path}
<1> DEFINE u == Prune(t, path, top)
<1>1. PICK gone \in SUBSET DOMAIN t :
        /\ Tree(u) /\ DOMAIN u = DOMAIN t \ gone
        /\ \A p \in DOMAIN t \ gone : u[p].subs = t[p].subs /\ u[p].retained = t[p].retained
        /\ \A p \in gone : Bare(t[p])
        /\ Idle(u) \subseteq Idle(t) \ {path}
  BY PruneKeeps
<1> HIDE DEF u
<1>2. ASSUME NEW p \in gone
      PROVE  v[p].retained = NoMsg /\ DOMAIN v[p].subs \subseteq IF p = path THEN {c} ELSE {}
  <2>1. t[p].subs = <<>> /\ t[p].retained = NoMsg /\ p \in DOMAIN t
    BY <1>1 DEF Bare
  <2>2. v[p].retained = NoMsg /\ <<>> = IF p = path THEN WithoutLeaf(v[p], c).subs ELSE v[p].subs
    BY <2>1 DEF Cleared
  <2>3. DOMAIN <<>> = {}
    OBVIOUS
  <2>4. CASE p = path
    BY <2>2, <2>3, <2>4 DEF WithoutLeaf
  <2>5. CASE p # path
    BY <2>2, <2>3, <2>5
  <2> QED
    BY <2>4, <2>5
<1>3. Cleared(v, u, path, c)
  BY <1>1, <1>2 DEF Cleared
<1> QED
  BY <1>1, <1>3 DEF u

\* _sub_remove (subs.c:335) takes the client's leaf at path and nothing else.
LEMMA RemoveLeafKeeps ==
  ASSUME NEW t, Tree(t), NEW path \in Path, NEW c
  PROVE  /\ Tree(RemoveLeaf(t, path, c)) /\ Cleared(t, RemoveLeaf(t, path, c), path, c)
         /\ Idle(RemoveLeaf(t, path, c)) \subseteq Idle(t)
<1> DEFINE v == [t EXCEPT ![path] = WithoutLeaf(@, c)]
<1>1. CASE path \in DOMAIN t
  <2>1. RemoveLeaf(t, path, c) = Prune(v, path, 2)
    BY <1>1 DEF RemoveLeaf
  <2>2. /\ Tree(v) /\ Cleared(t, v, path, c) /\ DOMAIN v = DOMAIN t
        /\ Idle(v) \subseteq Idle(t) \cup {path}
    BY <1>1, WithoutLeafKeeps
  <2> HIDE DEF v
  <2>3. /\ Tree(Prune(v, path, 2)) /\ Cleared(t, Prune(v, path, 2), path, c)
        /\ Idle(Prune(v, path, 2)) \subseteq Idle(v) \ {path}
    <3>1. 2 \in 1..2
      OBVIOUS
    <3> QED
      BY <2>2, <3>1, PruneCleared
  <2> QED
    BY <2>1, <2>2, <2>3
<1>2. CASE path \notin DOMAIN t
  <2>1. RemoveLeaf(t, path, c) = Prune(t, path, 2)
    BY <1>2 DEF RemoveLeaf
  <2>2. Cleared(t, t, path, c)
    BY <1>2 DEF Cleared
  <2>3. 2 \in 1..2
    OBVIOUS
  <2>4. /\ Tree(Prune(t, path, 2)) /\ Cleared(t, Prune(t, path, 2), path, c)
        /\ Idle(Prune(t, path, 2)) \subseteq Idle(t) \ {path}
    BY <2>2, <2>3, PruneCleared
  <2> QED
    BY <2>1, <2>4
<1> QED
  BY <1>1, <1>2

\* A step of mqtt3_subs_clean_session (subs.c:595) takes the client's leaf at path and nothing
\* else.
LEMMA CleanLeafKeeps ==
  ASSUME NEW t, Tree(t), NEW path \in DOMAIN t, NEW c
  PROVE  /\ Tree(CleanLeaf(t, path, c)) /\ Cleared(t, CleanLeaf(t, path, c), path, c)
         /\ Idle(CleanLeaf(t, path, c)) \subseteq Idle(t)
<1> DEFINE v == [t EXCEPT ![path] = WithoutLeaf(@, c)]
           top == IF <<path[1]>> \in DOMAIN EmptyTree THEN 2 ELSE 1
<1>1. /\ Tree(v) /\ Cleared(t, v, path, c) /\ DOMAIN v = DOMAIN t
      /\ Idle(v) \subseteq Idle(t) \cup {path} /\ path \in Path
  BY WithoutLeafKeeps, TreeFacts
<1>2. top \in 1..2
  OBVIOUS
<1>3. CleanLeaf(t, path, c) = IF Bare(v[path]) /\ v[path].children = <<>> THEN Prune(v, path, top) ELSE v
  BY DEF CleanLeaf
<1> HIDE DEF v, top
<1>4. CASE Bare(v[path]) /\ v[path].children = <<>>
  <2>1. /\ Tree(Prune(v, path, top)) /\ Cleared(t, Prune(v, path, top), path, c)
        /\ Idle(Prune(v, path, top)) \subseteq Idle(v) \ {path}
    BY <1>1, <1>2, PruneCleared
  <2> QED
    BY <1>1, <1>3, <1>4, <2>1
<1>5. CASE ~(Bare(v[path]) /\ v[path].children = <<>>)
  <2>1. path \notin Idle(v)
    BY <1>5 DEF Idle
  <2> QED
    BY <1>1, <1>3, <1>5, <2>1
<1> QED
  BY <1>4, <1>5

------------------------------------------------------------------------------
\* The database.
Stored  == [topic : Topics \cup {NoTopic}, qos : 0..2, retain : BOOLEAN, empty : BOOLEAN,
            ref_count : Int, dest_ids : SUBSET Client]
Context == [clean_session : BOOLEAN, sock : BOOLEAN, subs : SUBSET Path, msgs : Seq(Message), msg_count12 : Nat]
DbType  == [subs : Maps(Path, Node), msg_store : Maps(1..MaxId, Stored), contexts : Maps(Client, Context),
            last_db_id : 0..MaxId]

\* The nodes on the way to a topic: a retained message may have made them.
OfTopics == UNION {Above(PathOf(t)) : t \in Topics}

\* The database has the shape its structures declare, and only topics leave idle nodes.
Shape(d) ==
  /\ d \in DbType
  /\ DOMAIN d.msg_store \subseteq 1..d.last_db_id /\ IsFiniteSet(DOMAIN d.contexts)
  /\ Tree(d.subs) /\ Idle(d.subs) \subseteq OfTopics

\* context->subs and the leaves of the tree say the same, and leaves are of contexts that exist.
Indexed(d) ==
  /\ \A p \in DOMAIN d.subs : DOMAIN d.subs[p].subs \subseteq DOMAIN d.contexts
  /\ \A c \in DOMAIN d.contexts : d.contexts[c].subs = {p \in DOMAIN d.subs : c \in DOMAIN d.subs[p].subs}

\* The positions of a sequence whose elements are in P.
Hits(s, P) == {i \in DOMAIN s : s[i] \in P}

\* The messages that are copies of one, and those that count for the limits.
Of(id) == {m \in Message : m.id = id}
Counts == {m \in Message : m.qos > 0}

\* msg_count12 never exceeds the QoS 1 and 2 messages of a queue, and is their number while the
\* client is connected.
CountTrue(ctx) ==
  LET n == Cardinality(Hits(ctx.msgs, Counts))
  IN  ctx.msg_count12 <= n /\ (ctx.sock => ctx.msg_count12 = n)
Counted(d) == \A c \in DOMAIN d.contexts : CountTrue(d.contexts[c])

\* The queues of the contexts, the nodes that retain a message, and the references to it.
Queues(d) == [c \in DOMAIN d.contexts |-> d.contexts[c].msgs]
KeptAt(t, id) == {p \in DOMAIN t : t[p].retained = id}
Held(d, id) == Cardinality(KeptAt(d.subs, id)) + Cardinality(InQueues(Queues(d), id))

\* References are as counted, but for those of x, which a step has taken or not yet returned.
Exact(d, x) ==
  /\ \A id \in DOMAIN d.msg_store : d.msg_store[id].ref_count = Held(d, id) + x[id]
  /\ \A p \in DOMAIN d.subs : d.subs[p].retained # NoMsg => d.subs[p].retained \in DOMAIN d.msg_store
  /\ \A c \in DOMAIN d.contexts : \A i \in DOMAIN d.contexts[c].msgs :
       d.contexts[c].msgs[i].id \in DOMAIN d.msg_store
  /\ \A id \in 1..MaxId : x[id] # 0 => id \in DOMAIN d.msg_store

\* A message is retained at the node of its own topic.
KeptTrue(d) ==
  \A p \in DOMAIN d.subs : d.subs[p].retained # NoMsg =>
    /\ d.msg_store[d.subs[p].retained].topic # NoTopic
    /\ PathOf(d.msg_store[d.subs[p].retained].topic) = p

\* References that the step that runs holds; between steps there are none.
Extra == [1..MaxId -> Nat]
Zero == [id \in 1..MaxId |-> 0]

\* The database is good, but for the references that the step holds.
Good(d, x) == Shape(d) /\ Indexed(d) /\ Counted(d) /\ Exact(d, x) /\ KeptTrue(d)

\* A file that can be restored.
Saved == [topic : Topics, qos : 0..2, retain : BOOLEAN, empty : BOOLEAN]
IsKept(ch) == "retain" \in DOMAIN ch
FileGood(f) ==
  f.kind \notin {"none", "torn"} =>
    /\ f.last \in 0..MaxId
    /\ f.store \in Maps(1..f.last, Saved) /\ f.clients \in Maps(Client, Seq(Message)) /\ IsFiniteSet(DOMAIN f.clients)
    /\ \A c \in DOMAIN f.clients : \A i \in DOMAIN f.clients[c] : f.clients[c][i].id \in DOMAIN f.store
    /\ DOMAIN f.tree = 1..Len(f.tree) /\ Len(f.tree) \in Nat
    /\ \A i \in DOMAIN f.tree :
         IF IsKept(f.tree[i]) THEN f.tree[i].retain \in DOMAIN f.store
         ELSE /\ f.tree[i].client \in DOMAIN f.clients /\ f.tree[i].topic \in Path /\ f.tree[i].qos \in 0..2
    /\ \A i, j \in DOMAIN f.tree :
         IsKept(f.tree[i]) /\ IsKept(f.tree[j]) /\ f.tree[i].retain = f.tree[j].retain => i = j

------------------------------------------------------------------------------
(* The queues of the contexts: how many of their entries point to a        *)
(* message.                                                                *)

\* Queues.
QueuesGood(Q) == IsFiniteSet(DOMAIN Q) /\ \A c \in DOMAIN Q : Q[c] \in Seq(Message)

\* The entries that point to a message are finitely many.
LEMMA InQueuesFacts ==
  ASSUME NEW Q, QueuesGood(Q), NEW id
  PROVE  /\ \A e : e \in InQueues(Q, id) <=> \E c \in DOMAIN Q : \E i \in DOMAIN Q[c] : Q[c][i].id = id /\ e = <<c, i>>
         /\ IsFiniteSet(InQueues(Q, id)) /\ Cardinality(InQueues(Q, id)) \in Nat
<1> DEFINE f == [c \in DOMAIN Q |-> {c} \X {i \in DOMAIN Q[c] : Q[c][i].id = id}]
           U == {f[c] : c \in DOMAIN Q}
<1>1. InQueues(Q, id) = UNION U
  BY DEF InQueues
<1>2. ASSUME NEW e
      PROVE  e \in InQueues(Q, id) <=> \E c \in DOMAIN Q : \E i \in DOMAIN Q[c] : Q[c][i].id = id /\ e = <<c, i>>
  BY <1>1
<1>3. \A c \in DOMAIN Q : IsFiniteSet(f[c])
  <2>1. SUFFICES ASSUME NEW c \in DOMAIN Q PROVE IsFiniteSet(f[c])
    OBVIOUS
  <2> DEFINE I == {i \in DOMAIN Q[c] : Q[c][i].id = id}
  <2>2. Q[c] \in Seq(Message)
    BY DEF QueuesGood
  <2>3. DOMAIN Q[c] = 1..Len(Q[c]) /\ Len(Q[c]) \in Nat
    BY <2>2
  <2>4. IsFiniteSet(DOMAIN Q[c])
    BY <2>3, FS_Interval
  <2>5. I \in SUBSET DOMAIN Q[c]
    OBVIOUS
  <2>6. IsFiniteSet(I)
    BY <2>4, <2>5, FS_Subset
  <2>7. IsFiniteSet({c})
    BY FS_Singleton
  <2>8. f[c] = {c} \X I
    OBVIOUS
  <2> HIDE DEF I, f
  <2> QED
    BY <2>6, <2>7, <2>8, FS_Product
<1>4. IsFiniteSet(U)
  <2>1. f \in Surjection(DOMAIN Q, U)
    BY DEF Surjection
  <2>2. IsFiniteSet(DOMAIN Q)
    BY DEF QueuesGood
  <2> HIDE DEF U, f
  <2> QED
    BY <2>1, <2>2, FS_Surjection
<1>5. IsFiniteSet(UNION U)
  <2>1. \A T \in U : IsFiniteSet(T)
    BY <1>3
  <2> HIDE DEF U
  <2> QED
    BY <1>4, <2>1, FS_UNION
<1> QED
  BY <1>1, <1>2, <1>5, FS_CardinalityType

\* A copy m[c] of message id is appended to the queue of every client c in S.
Appended(Q, S, m, id, R) ==
  /\ QueuesGood(Q) /\ S \in SUBSET DOMAIN Q
  /\ \A c \in S : m[c] \in Message /\ m[c].id = id
  /\ DOMAIN R = DOMAIN Q /\ \A c \in DOMAIN Q : R[c] = IF c \in S THEN Append(Q[c], m[c]) ELSE Q[c]

\* One more entry for every context in S.
LEMMA QueuesAppend ==
  ASSUME NEW Q, NEW S, NEW m, NEW id, NEW R, Appended(Q, S, m, id, R)
  PROVE  /\ QueuesGood(R) /\ IsFiniteSet(S)
         /\ Cardinality(InQueues(R, id)) = Cardinality(InQueues(Q, id)) + Cardinality(S)
         /\ \A k : k # id => InQueues(R, k) = InQueues(Q, k)
         /\ \A c \in DOMAIN Q : \A i \in DOMAIN R[c] :
              R[c][i].id = id \/ (i \in DOMAIN Q[c] /\ R[c][i] = Q[c][i])
<1>0. /\ QueuesGood(Q) /\ S \in SUBSET DOMAIN Q
      /\ \A c \in S : m[c] \in Message /\ m[c].id = id
      /\ DOMAIN R = DOMAIN Q /\ \A c \in DOMAIN Q : R[c] = IF c \in S THEN Append(Q[c], m[c]) ELSE Q[c]
  BY DEF Appended
<1> USE <1>0
<1>1. ASSUME NEW c \in S
      PROVE  /\ R[c] \in Seq(Message) /\ DOMAIN R[c] = 1..Len(Q[c]) + 1 /\ R[c][Len(Q[c]) + 1] = m[c]
             /\ \A i \in 1..Len(Q[c]) : R[c][i] = Q[c][i]
             /\ Len(Q[c]) \in Nat /\ DOMAIN Q[c] = 1..Len(Q[c])
  <2>1. Q[c] \in Seq(Message) /\ m[c] \in Message /\ R[c] = Append(Q[c], m[c])
    BY <1>0 DEF QueuesGood
  <2> QED
    BY <2>1, AppendProperties
<1>2. \A c \in DOMAIN Q \ S : R[c] = Q[c]
  BY <1>0
<1>3. QueuesGood(R) /\ DOMAIN R = DOMAIN Q
  BY <1>0, <1>1, <1>2 DEF QueuesGood
<1>4. IsFiniteSet(S)
  BY <1>0, FS_Subset DEF QueuesGood
<1> DEFINE new == [c \in S |-> <<c, Len(Q[c]) + 1>>]
           N == {new[c] : c \in S}
<1>5. ASSUME NEW c \in DOMAIN Q, NEW i
      PROVE  i \in DOMAIN R[c] <=> i \in DOMAIN Q[c] \/ (c \in S /\ i = Len(Q[c]) + 1)
  <2>1. CASE c \in S
    BY <1>1, <2>1
  <2>2. CASE c \notin S
    BY <1>2, <2>2
  <2> QED
    BY <2>1, <2>2
<1>6. \A c \in DOMAIN Q : \A i \in DOMAIN Q[c] : i \in DOMAIN R[c] /\ R[c][i] = Q[c][i]
  BY <1>1, <1>2
<1>7. \A c \in S : R[c][Len(Q[c]) + 1].id = id /\ Len(Q[c]) + 1 \notin DOMAIN Q[c]
  BY <1>1
<1>8. InQueues(R, id) = InQueues(Q, id) \cup N
  <2>1. \A e : e \in InQueues(R, id) <=> e \in InQueues(Q, id) \cup N
    <3>1. \A e : e \in N <=> \E c \in S : e = <<c, Len(Q[c]) + 1>>
      OBVIOUS
    <3>2. \A e : e \in InQueues(Q, id) <=> \E c \in DOMAIN Q : \E i \in DOMAIN Q[c] : Q[c][i].id = id /\ e = <<c, i>>
      BY InQueuesFacts
    <3>3. \A e : e \in InQueues(R, id) <=> \E c \in DOMAIN R : \E i \in DOMAIN R[c] : R[c][i].id = id /\ e = <<c, i>>
      BY <1>3, InQueuesFacts
    <3> HIDE DEF N
    <3>4. ASSUME NEW e, e \in InQueues(R, id)
          PROVE  e \in InQueues(Q, id) \cup N
      <4>1. PICK c \in DOMAIN Q : \E i \in DOMAIN R[c] : R[c][i].id = id /\ e = <<c, i>>
        BY <1>3, <3>3, <3>4
      <4>2. PICK i \in DOMAIN R[c] : R[c][i].id = id /\ e = <<c, i>>
        BY <4>1
      <4>3. i \in DOMAIN Q[c] \/ (c \in S /\ i = Len(Q[c]) + 1)
        BY <1>5
      <4> QED
        BY <1>6, <3>1, <3>2, <4>2, <4>3
    <3>5. ASSUME NEW e, e \in InQueues(Q, id) \cup N
          PROVE  e \in InQueues(R, id)
      <4>1. CASE e \in N
        <5>1. PICK c \in S : e = <<c, Len(Q[c]) + 1>>
          BY <3>1, <4>1
        <5>2. Len(Q[c]) + 1 \in DOMAIN R[c]
          BY <1>5
        <5> QED
          BY <1>3, <1>7, <3>3, <5>1, <5>2
      <4>2. CASE e \in InQueues(Q, id)
        <5>1. PICK c \in DOMAIN Q : \E i \in DOMAIN Q[c] : Q[c][i].id = id /\ e = <<c, i>>
          BY <3>2, <4>2
        <5> QED
          BY <1>3, <1>6, <3>3, <5>1
      <4> QED
        BY <3>5, <4>1, <4>2
    <3> QED
      BY <3>4, <3>5
  <2> QED
    BY <2>1
<1>9. InQueues(Q, id) \cap N = {}
  <2>1. SUFFICES ASSUME NEW c \in S, <<c, Len(Q[c]) + 1>> \in InQueues(Q, id) PROVE FALSE
    OBVIOUS
  <2>2. PICK d \in DOMAIN Q : \E i \in DOMAIN Q[d] : <<c, Len(Q[c]) + 1>> = <<d, i>>
    BY <2>1, InQueuesFacts
  <2> QED
    BY <1>7, <2>2
<1>10. IsFiniteSet(N) /\ Cardinality(N) = Cardinality(S)
  <2>1. new \in Bijection(S, N)
    <3>1. \A c, d \in S : new[c] = new[d] => c = d
      OBVIOUS
    <3> QED
      BY <3>1 DEF Bijection, Injection, Surjection, IsInjective
  <2>2. ExistsBijection(S, N)
    BY <2>1 DEF ExistsBijection
  <2> HIDE DEF N, new
  <2> QED
    BY <1>4, <2>2, FS_Bijection
<1> HIDE DEF N, new
<1>11. Cardinality(InQueues(R, id)) = Cardinality(InQueues(Q, id)) + Cardinality(S)
  <2>1. IsFiniteSet(InQueues(Q, id)) /\ Cardinality(InQueues(Q, id)) \in Nat
    BY InQueuesFacts
  <2>2. Cardinality(InQueues(Q, id) \cup N) = Cardinality(InQueues(Q, id)) + Cardinality(N) - Cardinality(InQueues(Q, id) \cap N)
    BY <1>10, <2>1, FS_Union
  <2>3. Cardinality({}) = 0 /\ Cardinality(N) \in Nat
    BY <1>10, FS_EmptySet, FS_CardinalityType
  <2>4. Cardinality(InQueues(R, id)) = Cardinality(InQueues(Q, id) \cup N)
    BY <1>8
  <2>5. Cardinality(InQueues(Q, id) \cap N) = 0
    BY <1>9, <2>3
  <2>6. Cardinality(N) = Cardinality(S)
    BY <1>10
  <2> QED
    BY <2>1, <2>2, <2>3, <2>4, <2>5, <2>6
<1>12. ASSUME NEW k, k # id
       PROVE  InQueues(R, k) = InQueues(Q, k)
  <2>1. \A e : e \in InQueues(R, k) <=> e \in InQueues(Q, k)
    <3>1. \A e : e \in InQueues(Q, k) <=> \E c \in DOMAIN Q : \E i \in DOMAIN Q[c] : Q[c][i].id = k /\ e = <<c, i>>
      BY InQueuesFacts
    <3>2. \A e : e \in InQueues(R, k) <=> \E c \in DOMAIN R : \E i \in DOMAIN R[c] : R[c][i].id = k /\ e = <<c, i>>
      BY <1>3, InQueuesFacts
    <3>3. \A c \in DOMAIN Q : \A i : i \in DOMAIN R[c] /\ R[c][i].id = k <=> i \in DOMAIN Q[c] /\ Q[c][i].id = k
      BY <1>5, <1>6, <1>7, <1>12
    <3> QED
      BY <1>3, <3>1, <3>2, <3>3
  <2> QED
    BY <2>1
<1>13. ASSUME NEW c \in DOMAIN Q, NEW i \in DOMAIN R[c]
       PROVE  R[c][i].id = id \/ (i \in DOMAIN Q[c] /\ R[c][i] = Q[c][i])
  BY <1>5, <1>6, <1>7
<1> QED
  BY <1>3, <1>4, <1>11, <1>12, <1>13

------------------------------------------------------------------------------
\* The hits in a sequence can be counted.
LEMMA HitsFacts ==
  ASSUME NEW A, NEW s \in Seq(A), NEW P
  PROVE  /\ IsFiniteSet(DOMAIN s) /\ IsFiniteSet(Hits(s, P)) /\ Cardinality(Hits(s, P)) \in Nat
         /\ Cardinality(Hits(s, P)) <= Len(s)
         /\ Cardinality(Hits(<<>>, P)) = 0
<1>1. DOMAIN s = 1..Len(s) /\ Len(s) \in Nat
  OBVIOUS
<1>2. IsFiniteSet(DOMAIN s) /\ Cardinality(DOMAIN s) = Len(s)
  BY <1>1, FS_Interval
<1>3. Hits(s, P) \in SUBSET DOMAIN s
  BY DEF Hits
<1>4. IsFiniteSet(Hits(s, P)) /\ Cardinality(Hits(s, P)) <= Cardinality(DOMAIN s)
  BY <1>2, <1>3, FS_Subset
<1>5. Hits(<<>>, P) = {}
  BY DEF Hits
<1> QED
  BY <1>2, <1>4, <1>5, FS_CardinalityType, FS_EmptySet

\* An element appended may be one hit more.
LEMMA HitsAppend ==
  ASSUME NEW A, NEW s \in Seq(A), NEW m \in A, NEW P
  PROVE  Cardinality(Hits(Append(s, m), P)) = Cardinality(Hits(s, P)) + IF m \in P THEN 1 ELSE 0
<1> DEFINE t == Append(s, m)
           n == Len(s)
<1>1. /\ t \in Seq(A) /\ Len(t) = n + 1 /\ t[n + 1] = m /\ \A i \in 1..n : t[i] = s[i]
      /\ DOMAIN s = 1..n /\ n \in Nat
  BY AppendProperties
<1>2. DOMAIN t = 1..n + 1
  <2> HIDE DEF t
  <2> QED
    BY <1>1
<1> HIDE DEF t, n
<1>3. Hits(t, P) = Hits(s, P) \cup IF m \in P THEN {n + 1} ELSE {}
  BY <1>1, <1>2 DEF Hits
<1>4. n + 1 \notin Hits(s, P)
  BY <1>1 DEF Hits
<1>5. IsFiniteSet(Hits(s, P)) /\ Cardinality(Hits(s, P)) \in Nat
  BY HitsFacts
<1>6. Cardinality(Hits(s, P) \cup {n + 1}) = Cardinality(Hits(s, P)) + 1
  BY <1>4, <1>5, FS_AddElement
<1>7. CASE m \in P
  <2>1. Cardinality(Hits(t, P)) = Cardinality(Hits(s, P) \cup {n + 1})
    BY <1>3, <1>7
  <2> QED
    BY <1>6, <1>7, <2>1 DEF t
<1>8. CASE m \notin P
  <2>1. Hits(t, P) = Hits(s, P)
    BY <1>3, <1>8
  <2> QED
    BY <1>5, <1>8, <2>1 DEF t
<1> QED
  BY <1>7, <1>8

\* What is left when the element at one position goes.
LEMMA HitsWithout ==
  ASSUME NEW A, NEW s \in Seq(A), NEW i \in DOMAIN s, NEW P
  PROVE  /\ Those(s, DOMAIN s \ {i}) \in Seq(A)
         /\ \A j \in DOMAIN Those(s, DOMAIN s \ {i}) : \E k \in DOMAIN s : Those(s, DOMAIN s \ {i})[j] = s[k]
         /\ Cardinality(Hits(Those(s, DOMAIN s \ {i}), P)) = Cardinality(Hits(s, P)) - IF s[i] \in P THEN 1 ELSE 0
<1> DEFINE S == DOMAIN s \ {i}
           o == InOrder(S)
           t == Those(s, S)
           f == [j \in Hits(t, P) |-> o[j]]
<1>0. S \in SUBSET DOMAIN s /\ S \in SUBSET Int
  OBVIOUS
<1>1. IsFiniteSet(S)
  <2>1. IsFiniteSet(DOMAIN s)
    BY HitsFacts
  <2> QED
    BY <1>0, <2>1, FS_Subset
<1> HIDE DEF S
<1>2. t \in Seq(A) /\ \A x : (\E j \in DOMAIN t : t[j] = x) <=> \E j \in S : s[j] = x
  BY <1>0, ThoseFacts
<1>3. /\ \A j \in DOMAIN o : o[j] \in S
      /\ \A a \in S : \E j \in DOMAIN o : o[j] = a
      /\ \A j, k \in DOMAIN o : j < k => o[j] < o[k]
      /\ DOMAIN o = 1..Cardinality(S)
  BY <1>0, <1>1, InOrderFacts
<1>4. DOMAIN t = DOMAIN o /\ \A j \in DOMAIN t : t[j] = s[o[j]]
  BY DEF Those
<1>5. \A j, k \in DOMAIN o : o[j] = o[k] => j = k
  <2>1. Cardinality(S) \in Nat
    BY <1>1, FS_CardinalityType
  <2>2. SUFFICES ASSUME NEW j \in DOMAIN o, NEW k \in DOMAIN o, o[j] = o[k] PROVE j = k
    OBVIOUS
  <2>3. j \in Int /\ k \in Int /\ o[j] \in Int /\ o[k] \in Int
    BY <1>0, <1>3, <2>1
  <2> HIDE DEF o
  <2> QED
    BY <1>3, <2>2, <2>3
<1> HIDE DEF o, t
<1>6. f \in Bijection(Hits(t, P), Hits(s, P) \ {i})
  <2>1. \A j \in Hits(t, P) : f[j] \in Hits(s, P) \ {i}
    BY <1>0, <1>3, <1>4 DEF Hits, S
  <2>2. \A j, k \in Hits(t, P) : f[j] = f[k] => j = k
    BY <1>4, <1>5 DEF Hits
  <2>3. ASSUME NEW a \in Hits(s, P) \ {i}
        PROVE  \E j \in Hits(t, P) : f[j] = a
    <3>1. a \in S
      BY DEF Hits, S
    <3>2. PICK j \in DOMAIN o : o[j] = a
      BY <1>3, <3>1
    <3>3. j \in Hits(t, P)
      BY <1>4, <3>2 DEF Hits
    <3> QED
      BY <3>2, <3>3
  <2> QED
    BY <2>1, <2>2, <2>3 DEF Bijection, Injection, Surjection, IsInjective
<1>7. IsFiniteSet(Hits(t, P)) /\ IsFiniteSet(Hits(s, P)) /\ Cardinality(Hits(s, P)) \in Nat
  BY <1>2, HitsFacts
<1>8. Cardinality(Hits(t, P)) = Cardinality(Hits(s, P) \ {i})
  <2>1. ExistsBijection(Hits(t, P), Hits(s, P) \ {i})
    BY <1>6 DEF ExistsBijection
  <2> QED
    BY <1>7, <2>1, FS_Bijection
<1>9. Cardinality(Hits(s, P) \ {i}) = Cardinality(Hits(s, P)) - IF s[i] \in P THEN 1 ELSE 0
  <2>1. CASE i \in Hits(s, P)
    <3>1. s[i] \in P
      BY <2>1 DEF Hits
    <3>2. Cardinality(Hits(s, P) \ {i}) = Cardinality(Hits(s, P)) - 1
      BY <1>7, <2>1, FS_RemoveElement
    <3> QED
      BY <3>1, <3>2
  <2>2. CASE i \notin Hits(s, P)
    <3>1. s[i] \notin P /\ Hits(s, P) \ {i} = Hits(s, P)
      BY <2>2 DEF Hits
    <3>2. Cardinality(Hits(s, P) \ {i}) = Cardinality(Hits(s, P))
      BY <3>1
    <3> QED
      BY <1>7, <3>1, <3>2
  <2> QED
    BY <2>1, <2>2
<1>10. \A j \in DOMAIN t : \E k \in DOMAIN s : t[j] = s[k]
  BY <1>0, <1>3, <1>4
<1> QED
  BY <1>2, <1>8, <1>9, <1>10 DEF t, S


\* The entries of a message and those that count, as the model writes them.
LEMMA HitsMessages ==
  ASSUME NEW q \in Seq(Message)
  PROVE  /\ \A id : {i \in DOMAIN q : q[i].id = id} = Hits(q, Of(id))
         /\ {i \in DOMAIN q : q[i].qos > 0} = Hits(q, Counts)
<1>1. \A i \in DOMAIN q : q[i] \in Message
  OBVIOUS
<1> QED
  BY <1>1 DEF Hits, Of, Counts

\* One queue is replaced by another.
LEMMA QueueReplaced ==
  ASSUME NEW Q, QueuesGood(Q), NEW c \in DOMAIN Q, NEW r \in Seq(Message), NEW R,
         DOMAIN R = DOMAIN Q, R[c] = r, \A d \in DOMAIN Q : d # c => R[d] = Q[d]
  PROVE  /\ QueuesGood(R) /\ DOMAIN R = DOMAIN Q
         /\ \A id : Cardinality(InQueues(R, id)) =
                      Cardinality(InQueues(Q, id)) - Cardinality(Hits(Q[c], Of(id))) + Cardinality(Hits(r, Of(id)))
<1>1. QueuesGood(R) /\ DOMAIN R = DOMAIN Q /\ R[c] = r /\ \A d \in DOMAIN Q : d # c => R[d] = Q[d]
  BY DEF QueuesGood
<1>2. SUFFICES ASSUME NEW id
               PROVE  Cardinality(InQueues(R, id)) =
                        Cardinality(InQueues(Q, id)) - Cardinality(Hits(Q[c], Of(id))) + Cardinality(Hits(r, Of(id)))
  BY <1>1
<1> DEFINE rest == {e \in InQueues(Q, id) : e[1] # c}
           here(s) == {c} \X Hits(s, Of(id))
<1>3. \A e : e \in InQueues(Q, id) <=> \E d \in DOMAIN Q : \E i \in DOMAIN Q[d] : Q[d][i].id = id /\ e = <<d, i>>
  BY InQueuesFacts
<1>4. \A e : e \in InQueues(R, id) <=> \E d \in DOMAIN R : \E i \in DOMAIN R[d] : R[d][i].id = id /\ e = <<d, i>>
  <2>1. QueuesGood(R)
    BY <1>1
  <2> QED
    BY ONLY <2>1, InQueuesFacts
<1>5. Q[c] \in Seq(Message)
  BY DEF QueuesGood
<1>6. ASSUME NEW e
      PROVE  e \in here(Q[c]) <=> \E i \in DOMAIN Q[c] : Q[c][i].id = id /\ e = <<c, i>>
  <2>1. {i \in DOMAIN Q[c] : Q[c][i].id = id} = Hits(Q[c], Of(id))
    BY <1>5, HitsMessages
  <2> QED
    BY <2>1
<1>7. ASSUME NEW e
      PROVE  e \in here(r) <=> \E i \in DOMAIN r : r[i].id = id /\ e = <<c, i>>
  <2>1. {i \in DOMAIN r : r[i].id = id} = Hits(r, Of(id))
    BY HitsMessages
  <2> QED
    BY <2>1
<1>8. \A e : e \in rest <=> \E d \in DOMAIN Q : d # c /\ \E i \in DOMAIN Q[d] : Q[d][i].id = id /\ e = <<d, i>>
  BY <1>3
<1>9. \A s : rest \cap here(s) = {}
  OBVIOUS
<1>10. \A s \in Seq(Message) : IsFiniteSet(here(s)) /\ Cardinality(here(s)) = Cardinality(Hits(s, Of(id)))
  <2>1. SUFFICES ASSUME NEW s \in Seq(Message)
                 PROVE  IsFiniteSet(here(s)) /\ Cardinality(here(s)) = Cardinality(Hits(s, Of(id)))
    OBVIOUS
  <2>2. IsFiniteSet(Hits(s, Of(id))) /\ Cardinality(Hits(s, Of(id))) \in Nat
    BY HitsFacts
  <2>3. IsFiniteSet({c}) /\ Cardinality({c}) = 1
    BY FS_Singleton
  <2>4. IsFiniteSet({c} \X Hits(s, Of(id))) /\ Cardinality({c} \X Hits(s, Of(id))) = Cardinality({c}) * Cardinality(Hits(s, Of(id)))
    BY <2>2, <2>3, FS_Product
  <2> QED
    BY <2>2, <2>3, <2>4
<1>11. IsFiniteSet(rest) /\ Cardinality(rest) \in Nat
  <2>1. IsFiniteSet(InQueues(Q, id))
    BY InQueuesFacts
  <2>2. rest \in SUBSET InQueues(Q, id)
    OBVIOUS
  <2> HIDE DEF rest
  <2> QED
    BY <2>1, <2>2, FS_Subset, FS_CardinalityType
<1> HIDE DEF rest, here
<1>12. InQueues(Q, id) = rest \cup here(Q[c])
  <2>1. \A e : e \in InQueues(Q, id) <=> e \in rest \cup here(Q[c])
    BY <1>3, <1>6, <1>8
  <2> QED
    BY <2>1
<1>13. InQueues(R, id) = rest \cup here(r)
  <2>1. \A e : e \in InQueues(R, id) <=> e \in rest \cup here(r)
    <3>1. \A e : e \in InQueues(R, id) <=>
            \/ \E i \in DOMAIN r : r[i].id = id /\ e = <<c, i>>
            \/ \E d \in DOMAIN Q : d # c /\ \E i \in DOMAIN Q[d] : Q[d][i].id = id /\ e = <<d, i>>
      <4>1. DOMAIN R = DOMAIN Q /\ R[c] = r /\ \A d \in DOMAIN Q : d # c => R[d] = Q[d]
        BY <1>1
      <4>2. c \in DOMAIN Q
        OBVIOUS
      <4> QED
        BY ONLY <1>4, <4>1, <4>2
    <3> QED
      BY <1>7, <1>8, <3>1
  <2> QED
    BY <2>1
<1>14. \A s \in Seq(Message) : Cardinality(rest \cup here(s)) = Cardinality(rest) + Cardinality(Hits(s, Of(id)))
  <2>1. SUFFICES ASSUME NEW s \in Seq(Message)
                 PROVE  Cardinality(rest \cup here(s)) = Cardinality(rest) + Cardinality(Hits(s, Of(id)))
    OBVIOUS
  <2>2. IsFiniteSet(here(s)) /\ Cardinality(here(s)) = Cardinality(Hits(s, Of(id))) /\ Cardinality(Hits(s, Of(id))) \in Nat
    BY <1>10, HitsFacts
  <2>3. Cardinality(rest \cup here(s)) = Cardinality(rest) + Cardinality(here(s)) - Cardinality(rest \cap here(s))
    BY <1>11, <2>2, FS_Union
  <2>4. Cardinality(rest \cap here(s)) = 0
    BY <1>9, FS_EmptySet
  <2> QED
    BY <1>11, <2>2, <2>3, <2>4
<1>15. Cardinality(Hits(Q[c], Of(id))) \in Nat /\ Cardinality(Hits(r, Of(id))) \in Nat
  BY <1>5, HitsFacts
<1>16. Cardinality(InQueues(Q, id)) = Cardinality(rest) + Cardinality(Hits(Q[c], Of(id)))
  BY <1>5, <1>12, <1>14
<1>17. Cardinality(InQueues(R, id)) = Cardinality(rest) + Cardinality(Hits(r, Of(id)))
  BY <1>13, <1>14
<1> QED
  BY <1>11, <1>15, <1>16, <1>17

\* Clients without a message come and go.
LEMMA QueuesAlike ==
  ASSUME NEW Q, QueuesGood(Q), NEW R, QueuesGood(R),
         \A c \in DOMAIN Q : IF c \in DOMAIN R THEN R[c] = Q[c] ELSE Q[c] = <<>>,
         \A c \in DOMAIN R : c \notin DOMAIN Q => R[c] = <<>>
  PROVE  \A id : InQueues(R, id) = InQueues(Q, id)
<1>1. SUFFICES ASSUME NEW id PROVE InQueues(R, id) = InQueues(Q, id)
  OBVIOUS
<1>0. SUFFICES ASSUME NEW e PROVE e \in InQueues(R, id) <=> e \in InQueues(Q, id)
  OBVIOUS
<1>2. e \in InQueues(Q, id) <=> \E d \in DOMAIN Q : \E i \in DOMAIN Q[d] : Q[d][i].id = id /\ e = <<d, i>>
  BY InQueuesFacts
<1>3. e \in InQueues(R, id) <=> \E d \in DOMAIN R : \E i \in DOMAIN R[d] : R[d][i].id = id /\ e = <<d, i>>
  BY InQueuesFacts
<1>4. DOMAIN <<>> = {}
  OBVIOUS
<1>5. \A c \in DOMAIN Q : \A i \in DOMAIN Q[c] : c \in DOMAIN R /\ R[c] = Q[c]
  BY <1>4
<1>6. \A c \in DOMAIN R : \A i \in DOMAIN R[c] : c \in DOMAIN Q /\ R[c] = Q[c]
  BY <1>4
<1> QED
  BY <1>2, <1>3, <1>5, <1>6

------------------------------------------------------------------------------
(* The database as a record, and what a reference taken or returned does to*)
(* it.                                                                     *)

\* The database is a record of functions.
Msgs == Maps(1..MaxId, Stored)
Contexts == Maps(Client, Context)

\* The fields of the database have their types.
LEMMA DbParts ==
  ASSUME NEW d \in DbType
  PROVE  /\ d.subs \in Maps(Path, Node) /\ d.msg_store \in Msgs /\ d.contexts \in Contexts
         /\ d.last_db_id \in 0..MaxId
         /\ DOMAIN d.msg_store \in SUBSET (1..MaxId) /\ DOMAIN d.contexts \in SUBSET Client
         /\ \A k \in DOMAIN d.msg_store : d.msg_store[k] \in Stored
         /\ \A c \in DOMAIN d.contexts : d.contexts[c] \in Context /\ d.contexts[c].msgs \in Seq(Message)
<1>1. /\ d.subs \in Maps(Path, Node) /\ d.msg_store \in Msgs /\ d.contexts \in Contexts
      /\ d.last_db_id \in 0..MaxId
  BY DEF DbType, Msgs, Contexts
<1>2. DOMAIN d.msg_store \in SUBSET (1..MaxId) /\ \A k \in DOMAIN d.msg_store : d.msg_store[k] \in Stored
  <2> DEFINE s == d.msg_store
  <2>1. s \in Maps(1..MaxId, Stored)
    BY <1>1 DEF Msgs
  <2> HIDE DEF s
  <2>2. DOMAIN s \in SUBSET (1..MaxId) /\ \A k \in DOMAIN s : s[k] \in Stored
    BY ONLY <2>1 DEF Maps
  <2> QED
    BY <2>2 DEF s
<1>3. DOMAIN d.contexts \in SUBSET Client /\ \A c \in DOMAIN d.contexts : d.contexts[c] \in Context
  BY <1>1, MapsFacts DEF Contexts
<1> QED
  BY <1>1, <1>2, <1>3 DEF Context

\* One field of the database is replaced.
LEMMA DbWith ==
  ASSUME NEW d \in DbType
  PROVE  /\ \A t \in Maps(Path, Node) : LET e == [d EXCEPT !.subs = t] IN
              e \in DbType /\ e.subs = t /\ e.msg_store = d.msg_store /\ e.contexts = d.contexts /\ e.last_db_id = d.last_db_id
         /\ \A s \in Msgs : LET e == [d EXCEPT !.msg_store = s] IN
              e \in DbType /\ e.subs = d.subs /\ e.msg_store = s /\ e.contexts = d.contexts /\ e.last_db_id = d.last_db_id
         /\ \A c \in Contexts : LET e == [d EXCEPT !.contexts = c] IN
              e \in DbType /\ e.subs = d.subs /\ e.msg_store = d.msg_store /\ e.contexts = c /\ e.last_db_id = d.last_db_id
<1> USE DEF DbType, Msgs, Contexts
<1>1. \A t \in Maps(Path, Node) : LET e == [d EXCEPT !.subs = t] IN
        e \in DbType /\ e.subs = t /\ e.msg_store = d.msg_store /\ e.contexts = d.contexts /\ e.last_db_id = d.last_db_id
  OBVIOUS
<1>2. \A s \in Msgs : LET e == [d EXCEPT !.msg_store = s] IN
        e \in DbType /\ e.subs = d.subs /\ e.msg_store = s /\ e.contexts = d.contexts /\ e.last_db_id = d.last_db_id
  OBVIOUS
<1>3. \A c \in Contexts : LET e == [d EXCEPT !.contexts = c] IN
        e \in DbType /\ e.subs = d.subs /\ e.msg_store = d.msg_store /\ e.contexts = c /\ e.last_db_id = d.last_db_id
  OBVIOUS
<1> QED
  BY <1>1, <1>2, <1>3

\* Two databases with the same parts are the same.
LEMMA DbSame ==
  ASSUME NEW d \in DbType, NEW e \in DbType,
         d.subs = e.subs, d.msg_store = e.msg_store, d.contexts = e.contexts, d.last_db_id = e.last_db_id
  PROVE  d = e
BY DEF DbType

\* What points to a message can be counted.
LEMMA HeldFacts ==
  ASSUME NEW d, Shape(d)
  PROVE  /\ QueuesGood(Queues(d)) /\ DOMAIN Queues(d) = DOMAIN d.contexts
         /\ \A id : /\ IsFiniteSet(KeptAt(d.subs, id)) /\ Cardinality(KeptAt(d.subs, id)) \in Nat
                    /\ Cardinality(InQueues(Queues(d), id)) \in Nat
                    /\ Held(d, id) \in Nat
                    /\ Held(d, id) = 0 =>
                         /\ \A p \in DOMAIN d.subs : d.subs[p].retained # id
                         /\ \A c \in DOMAIN d.contexts : \A i \in DOMAIN d.contexts[c].msgs :
                              d.contexts[c].msgs[i].id # id
<1>0. d \in DbType /\ IsFiniteSet(DOMAIN d.contexts) /\ IsFiniteSet(DOMAIN d.subs)
  BY DEF Shape, Tree
<1>1. QueuesGood(Queues(d)) /\ DOMAIN Queues(d) = DOMAIN d.contexts
  BY <1>0, DbParts DEF QueuesGood, Queues
<1>2. SUFFICES ASSUME NEW id
               PROVE  /\ IsFiniteSet(KeptAt(d.subs, id)) /\ Cardinality(KeptAt(d.subs, id)) \in Nat
                      /\ Cardinality(InQueues(Queues(d), id)) \in Nat
                      /\ Held(d, id) \in Nat
                      /\ Held(d, id) = 0 =>
                           /\ \A p \in DOMAIN d.subs : d.subs[p].retained # id
                           /\ \A c \in DOMAIN d.contexts : \A i \in DOMAIN d.contexts[c].msgs :
                                d.contexts[c].msgs[i].id # id
  BY <1>1
<1>3. IsFiniteSet(KeptAt(d.subs, id)) /\ Cardinality(KeptAt(d.subs, id)) \in Nat
  <2>1. KeptAt(d.subs, id) \in SUBSET DOMAIN d.subs
    BY DEF KeptAt
  <2> QED
    BY <1>0, <2>1, FS_Subset, FS_CardinalityType
<1>4. /\ IsFiniteSet(InQueues(Queues(d), id)) /\ Cardinality(InQueues(Queues(d), id)) \in Nat
      /\ \A e : e \in InQueues(Queues(d), id) <=>
           \E c \in DOMAIN Queues(d) : \E i \in DOMAIN Queues(d)[c] : Queues(d)[c][i].id = id /\ e = <<c, i>>
  BY <1>1, InQueuesFacts
<1>5. Held(d, id) \in Nat
  BY <1>3, <1>4 DEF Held
<1>6. ASSUME Held(d, id) = 0
      PROVE  /\ \A p \in DOMAIN d.subs : d.subs[p].retained # id
             /\ \A c \in DOMAIN d.contexts : \A i \in DOMAIN d.contexts[c].msgs :
                  d.contexts[c].msgs[i].id # id
  <2>1. Cardinality(KeptAt(d.subs, id)) = 0 /\ Cardinality(InQueues(Queues(d), id)) = 0
    BY <1>3, <1>4, <1>6 DEF Held
  <2>2. KeptAt(d.subs, id) = {} /\ InQueues(Queues(d), id) = {}
    BY <1>3, <1>4, <2>1, FS_EmptySet
  <2>3. \A c \in DOMAIN d.contexts : Queues(d)[c] = d.contexts[c].msgs
    BY DEF Queues
  <2>4. \A c \in DOMAIN Queues(d) : \A i \in DOMAIN Queues(d)[c] : Queues(d)[c][i].id # id
    BY <1>4, <2>2
  <2> QED
    BY <1>1, <2>2, <2>3, <2>4 DEF KeptAt
<1> QED
  BY <1>3, <1>4, <1>5, <1>6

------------------------------------------------------------------------------
\* The message store.

\* The messages of e are those of d, or some of them.
Fewer(d, e) ==
  /\ DOMAIN e.msg_store \subseteq DOMAIN d.msg_store
  /\ \A k \in DOMAIN e.msg_store :
       LET m == d.msg_store[k]
           n == e.msg_store[k]
       IN  n.topic = m.topic /\ n.qos = m.qos /\ n.retain = m.retain /\ n.empty = m.empty

\* Counts change together with what has been taken or not returned, and what goes has no reference.
LEMMA StoreChanged ==
  ASSUME NEW d, NEW x \in Extra, Good(d, x), NEW e \in DbType, NEW y \in Extra,
         e.subs = d.subs, e.contexts = d.contexts, e.last_db_id = d.last_db_id,
         Fewer(d, e),
         \A k \in DOMAIN e.msg_store : e.msg_store[k].ref_count = d.msg_store[k].ref_count - x[k] + y[k],
         \A k \in DOMAIN d.msg_store \ DOMAIN e.msg_store : Held(d, k) = 0,
         \A k \in 1..MaxId : y[k] # 0 => k \in DOMAIN e.msg_store
  PROVE  Good(e, y)
<1>1. Shape(e) /\ Indexed(e) /\ Counted(e)
  BY DEF Good, Shape, Indexed, Counted, Fewer
<1>2. Shape(d) /\ d \in DbType
  BY DEF Good, Shape
<1>3. \A k : Held(e, k) = Held(d, k)
  BY DEF Held, Queues
<1>4. \A k \in DOMAIN e.msg_store : e.msg_store[k].ref_count = Held(e, k) + y[k]
  <2>1. SUFFICES ASSUME NEW k \in DOMAIN e.msg_store PROVE e.msg_store[k].ref_count = Held(e, k) + y[k]
    OBVIOUS
  <2>2. d.msg_store[k].ref_count = Held(d, k) + x[k] /\ Held(d, k) \in Nat /\ k \in DOMAIN d.msg_store
    BY <1>2, HeldFacts DEF Good, Exact, Fewer
  <2>3. x[k] \in Nat /\ y[k] \in Nat
    BY <1>2, <2>2, DbParts DEF Extra
  <2> QED
    BY <1>3, <2>2, <2>3
<1>5. \A p \in DOMAIN e.subs : e.subs[p].retained # NoMsg => e.subs[p].retained \in DOMAIN e.msg_store
  BY <1>2, HeldFacts DEF Good, Exact
<1>6. \A c \in DOMAIN e.contexts : \A i \in DOMAIN e.contexts[c].msgs :
        e.contexts[c].msgs[i].id \in DOMAIN e.msg_store
  BY <1>2, HeldFacts DEF Good, Exact
<1>7. KeptTrue(e)
  BY <1>5 DEF KeptTrue, Fewer, Good
<1> QED
  BY <1>1, <1>4, <1>5, <1>6, <1>7 DEF Good, Exact

\* n references more of message id are held.
Plus(x, id, n) == [x EXCEPT ![id] = @ + n]

\* That is again a count for every message.
LEMMA PlusFacts ==
  ASSUME NEW x \in Extra, NEW id \in 1..MaxId, NEW n \in Int, x[id] + n \in Nat
  PROVE  /\ Plus(x, id, n) \in Extra /\ Plus(x, id, n)[id] = x[id] + n
         /\ \A k \in 1..MaxId : k # id => Plus(x, id, n)[k] = x[k]
BY DEF Plus, Extra

\* Database e is d with n more references to message id.
RefOf(d, id, n, e) ==
  /\ e \in DbType /\ e.subs = d.subs /\ e.contexts = d.contexts /\ e.last_db_id = d.last_db_id
  /\ DOMAIN e.msg_store = DOMAIN d.msg_store
  /\ \A k \in DOMAIN d.msg_store : k # id => e.msg_store[k] = d.msg_store[k]
  /\ Fewer(d, e) /\ e.msg_store[id].ref_count = d.msg_store[id].ref_count + n

\* A reference taken can be returned.
LEMMA PlusBack ==
  ASSUME NEW x \in Extra, NEW id \in 1..MaxId
  PROVE  /\ Plus(x, id, 1) \in Extra /\ Plus(x, id, 1)[id] >= 1
         /\ Plus(Plus(x, id, 1), id, -1) = x
<1> DEFINE y == Plus(x, id, 1)
<1>1. x[id] \in Nat /\ x[id] + 1 \in Nat
  BY DEF Extra
<1>2. y \in Extra /\ y[id] = x[id] + 1 /\ \A k \in 1..MaxId : k # id => y[k] = x[k]
  BY <1>1, PlusFacts
<1> HIDE DEF y
<1>3. y[id] >= 1 /\ y[id] + (-1) = x[id]
  BY <1>1, <1>2
<1> DEFINE z == Plus(y, id, -1)
<1>4. z \in Extra /\ z[id] = x[id] /\ \A k \in 1..MaxId : k # id => z[k] = x[k]
  BY <1>1, <1>2, <1>3, PlusFacts
<1> HIDE DEF z
<1>5. \A k \in 1..MaxId : z[k] = x[k]
  BY <1>4
<1>6. z = x
  <2>1. z = [k \in 1..MaxId |-> z[k]] /\ x = [k \in 1..MaxId |-> x[k]]
    BY <1>4 DEF Extra
  <2>2. [k \in 1..MaxId |-> z[k]] = [k \in 1..MaxId |-> x[k]]
    BY <1>5
  <2> QED
    BY <2>1, <2>2
<1> QED
  BY <1>2, <1>3, <1>6 DEF y, z

\* A reference returned can be taken again.
LEMMA PlusAgain ==
  ASSUME NEW x \in Extra, NEW id \in 1..MaxId, x[id] >= 1
  PROVE  Plus(x, id, -1) \in Extra /\ Plus(Plus(x, id, -1), id, 1) = x
<1> DEFINE y == Plus(x, id, -1)
<1>1. x[id] \in Nat /\ x[id] + (-1) \in Nat /\ x[id] + (-1) + 1 = x[id]
  BY DEF Extra
<1>2. y \in Extra /\ y[id] = x[id] + (-1) /\ \A k \in 1..MaxId : k # id => y[k] = x[k]
  BY <1>1, PlusFacts
<1> HIDE DEF y
<1>3. y[id] + 1 = x[id] /\ y[id] + 1 \in Nat /\ 1 \in Int
  BY <1>1, <1>2
<1> DEFINE z == Plus(y, id, 1)
<1>4. z \in Extra /\ z[id] = x[id] /\ \A k \in 1..MaxId : k # id => z[k] = x[k]
  BY <1>2, <1>3, PlusFacts
<1> HIDE DEF z
<1>5. \A k \in 1..MaxId : z[k] = x[k]
  BY <1>4
<1>6. z = x
  <2>1. z = [k \in 1..MaxId |-> z[k]] /\ x = [k \in 1..MaxId |-> x[k]]
    BY <1>4 DEF Extra
  <2>2. [k \in 1..MaxId |-> z[k]] = [k \in 1..MaxId |-> x[k]]
    BY <1>5
  <2> QED
    BY <2>1, <2>2
<1> QED
  BY <1>2, <1>6 DEF y, z

\* Ref changes the count of one message.
LEMMA RefParts ==
  ASSUME NEW d \in DbType, NEW id \in DOMAIN d.msg_store, NEW n \in Int
  PROVE  RefOf(d, id, n, Ref(d, id, n))
<1> DEFINE m == [d.msg_store[id] EXCEPT !.ref_count = @ + n]
           s == [d.msg_store EXCEPT ![id] = m]
           e == Ref(d, id, n)
<1>1. d.msg_store \in Msgs /\ \A k \in DOMAIN d.msg_store : d.msg_store[k] \in Stored
  BY DbParts
<1>2. /\ m \in Stored /\ m.ref_count = d.msg_store[id].ref_count + n
      /\ m.topic = d.msg_store[id].topic /\ m.qos = d.msg_store[id].qos
      /\ m.retain = d.msg_store[id].retain /\ m.empty = d.msg_store[id].empty
  BY <1>1 DEF Stored
<1>3. e = [d EXCEPT !.msg_store = s]
  BY DEF Ref
<1> HIDE DEF m
<1>4. /\ DOMAIN s = DOMAIN d.msg_store /\ s[id] = m
      /\ \A k \in DOMAIN d.msg_store : k # id => s[k] = d.msg_store[k]
  OBVIOUS
<1>5. s \in Msgs
  <2>1. DOMAIN s \in SUBSET (1..MaxId)
    BY <1>4, DbParts
  <2>2. \A k \in DOMAIN s : s[k] \in Stored
    BY <1>1, <1>2, <1>4
  <2>3. s \in [DOMAIN s -> Stored]
    BY <2>2
  <2> HIDE DEF s
  <2> QED
    BY <2>1, <2>3, MapsFacts DEF Msgs
<1> HIDE DEF s, e
<1>6. e \in DbType /\ e.subs = d.subs /\ e.msg_store = s /\ e.contexts = d.contexts /\ e.last_db_id = d.last_db_id
  BY <1>3, <1>5, DbWith
<1>7. Fewer(d, e)
  BY <1>2, <1>4, <1>6 DEF Fewer
<1> QED
  BY <1>2, <1>4, <1>6, <1>7 DEF e, RefOf

\* References are taken.
LEMMA RefGood ==
  ASSUME NEW d, NEW x \in Extra, Good(d, x), NEW id \in DOMAIN d.msg_store, NEW n \in Nat
  PROVE  /\ Good(Ref(d, id, n), Plus(x, id, n)) /\ Plus(x, id, n) \in Extra
<1> DEFINE e == Ref(d, id, n)
           y == Plus(x, id, n)
<1>1. d \in DbType
  BY DEF Good, Shape
<1>2. id \in 1..MaxId /\ x[id] \in Nat /\ x[id] + n \in Nat /\ n \in Int
  BY <1>1, DbParts DEF Extra
<1>3. y \in Extra /\ y[id] = x[id] + n /\ \A k \in 1..MaxId : k # id => y[k] = x[k]
  BY <1>2, PlusFacts
<1>4. /\ e \in DbType /\ e.subs = d.subs /\ e.contexts = d.contexts /\ e.last_db_id = d.last_db_id
      /\ DOMAIN e.msg_store = DOMAIN d.msg_store
      /\ \A k \in DOMAIN d.msg_store : k # id => e.msg_store[k] = d.msg_store[k]
      /\ Fewer(d, e) /\ e.msg_store[id].ref_count = d.msg_store[id].ref_count + n
  BY <1>1, <1>2, RefParts DEF RefOf
<1> HIDE DEF e, y
<1>5. \A k \in DOMAIN e.msg_store : e.msg_store[k].ref_count = d.msg_store[k].ref_count - x[k] + y[k]
  <2>1. SUFFICES ASSUME NEW k \in DOMAIN e.msg_store
                 PROVE  e.msg_store[k].ref_count = d.msg_store[k].ref_count - x[k] + y[k]
    OBVIOUS
  <2>2. k \in 1..MaxId /\ d.msg_store[k].ref_count \in Int /\ x[k] \in Nat
    BY <1>1, <1>4, DbParts DEF Extra, Stored
  <2> QED
    BY <1>2, <1>3, <1>4, <2>2
<1>6. \A k \in 1..MaxId : y[k] # 0 => k \in DOMAIN e.msg_store
  BY <1>3, <1>4 DEF Good, Exact
<1>7. Good(e, y)
  BY <1>3, <1>4, <1>5, <1>6, StoreChanged
<1> QED
  BY <1>3, <1>7 DEF e, y

\* Database e is d with one reference to message id less.
DerefOf(d, id, e) ==
  /\ e \in DbType /\ e.subs = d.subs /\ e.contexts = d.contexts /\ e.last_db_id = d.last_db_id
  /\ DOMAIN e.msg_store \subseteq DOMAIN d.msg_store /\ DOMAIN d.msg_store \subseteq DOMAIN e.msg_store \cup {id}
  /\ \A k \in DOMAIN e.msg_store : k # id => e.msg_store[k] = d.msg_store[k]
  /\ Fewer(d, e)
  /\ id \in DOMAIN e.msg_store => e.msg_store[id].ref_count = d.msg_store[id].ref_count - 1
  /\ id \notin DOMAIN e.msg_store => d.msg_store[id].ref_count = 1

\* Deref changes the count of one message, or frees it.
LEMMA DerefParts ==
  ASSUME NEW d \in DbType, NEW id \in DOMAIN d.msg_store
  PROVE  DerefOf(d, id, Deref(d, id))
<1> DEFINE e == Deref(d, id)
           s == Drop(d.msg_store, {id})
<1> SUFFICES DerefOf(d, id, e)
  OBVIOUS
<1>1. CASE d.msg_store[id].ref_count = 1
  <2>1. /\ DOMAIN s = DOMAIN d.msg_store \ {id} /\ \A k \in DOMAIN s : s[k] = d.msg_store[k]
        /\ s \in [DOMAIN s -> Stored] /\ DOMAIN s \in SUBSET (1..MaxId)
    <3>1. DOMAIN s = DOMAIN d.msg_store \ {id} /\ \A k \in DOMAIN s : s[k] = d.msg_store[k]
      BY DEF Drop
    <3>2. \A k \in DOMAIN d.msg_store : k \in 1..MaxId /\ d.msg_store[k] \in Stored
      BY DbParts
    <3>3. s = [k \in DOMAIN s |-> s[k]]
      BY DEF Drop
    <3> HIDE DEF s
    <3>4. \A k \in DOMAIN s : s[k] \in Stored
      BY <3>1, <3>2
    <3>5. s \in [DOMAIN s -> Stored]
      BY <3>3, <3>4
    <3> QED
      BY <3>1, <3>2, <3>5
  <2> HIDE DEF s
  <2>2. s \in Msgs
    BY <2>1, MapsFacts DEF Msgs
  <2>3. e = [d EXCEPT !.msg_store = s]
    BY <1>1 DEF Deref, s
  <2> HIDE DEF e
  <2>4. e \in DbType /\ e.subs = d.subs /\ e.msg_store = s /\ e.contexts = d.contexts /\ e.last_db_id = d.last_db_id
    BY <2>2, <2>3, DbWith
  <2> QED
    BY <1>1, <2>1, <2>4 DEF Fewer, DerefOf
<1>2. CASE d.msg_store[id].ref_count # 1
  <2>0. PICK n \in Int : n = -1
    OBVIOUS
  <2>1. e = Ref(d, id, n)
    BY <1>2, <2>0 DEF Deref
  <2>2. d.msg_store[id].ref_count \in Int
    BY DbParts DEF Stored
  <2> DEFINE r == Ref(d, id, n)
  <2>3. /\ r \in DbType /\ r.subs = d.subs /\ r.contexts = d.contexts /\ r.last_db_id = d.last_db_id
        /\ DOMAIN r.msg_store = DOMAIN d.msg_store
        /\ \A k \in DOMAIN d.msg_store : k # id => r.msg_store[k] = d.msg_store[k]
        /\ Fewer(d, r) /\ r.msg_store[id].ref_count = d.msg_store[id].ref_count + n
    BY RefParts DEF RefOf
  <2> HIDE DEF e, r
  <2> QED
    BY <2>0, <2>1, <2>2, <2>3 DEF r, DerefOf
<1> QED
  BY <1>1, <1>2

\* A reference is returned; the message goes with its last one.
LEMMA DerefGood ==
  ASSUME NEW d, NEW x \in Extra, Good(d, x), NEW id \in 1..MaxId, x[id] >= 1
  PROVE  LET e == Deref(d, id)
         IN  /\ Good(e, Plus(x, id, -1)) /\ Plus(x, id, -1) \in Extra
             /\ e \in DbType /\ e.subs = d.subs /\ e.contexts = d.contexts /\ e.last_db_id = d.last_db_id
             /\ Fewer(d, e) /\ DOMAIN d.msg_store \subseteq DOMAIN e.msg_store \cup {id}
<1> DEFINE e == Deref(d, id)
           y == Plus(x, id, -1)
           s == Drop(d.msg_store, {id})
<1>1. d \in DbType /\ Shape(d) /\ Exact(d, x)
  BY DEF Good, Shape
<1>2. id \in DOMAIN d.msg_store /\ x[id] \in Nat /\ x[id] + (-1) \in Nat
  BY <1>1 DEF Exact, Extra
<1>3. y \in Extra /\ y[id] = x[id] - 1 /\ \A k \in 1..MaxId : k # id => y[k] = x[k]
  BY <1>2, PlusFacts
<1>4. d.msg_store[id].ref_count = Held(d, id) + x[id] /\ Held(d, id) \in Nat
  BY <1>1, <1>2, HeldFacts DEF Exact
<1>5. /\ e \in DbType /\ e.subs = d.subs /\ e.contexts = d.contexts /\ e.last_db_id = d.last_db_id
      /\ DOMAIN e.msg_store \subseteq DOMAIN d.msg_store /\ DOMAIN d.msg_store \subseteq DOMAIN e.msg_store \cup {id}
      /\ \A k \in DOMAIN e.msg_store : k # id => e.msg_store[k] = d.msg_store[k]
      /\ Fewer(d, e)
      /\ id \in DOMAIN e.msg_store => e.msg_store[id].ref_count = d.msg_store[id].ref_count - 1
      /\ id \notin DOMAIN e.msg_store => d.msg_store[id].ref_count = 1
  <2>1. DerefOf(d, id, e)
    BY <1>1, <1>2, DerefParts
  <2> HIDE DEF e
  <2> QED
    BY <2>1 DEF DerefOf
<1> HIDE DEF e, y
<1>6. \A k \in DOMAIN e.msg_store : e.msg_store[k].ref_count = d.msg_store[k].ref_count - x[k] + y[k]
  <2>1. SUFFICES ASSUME NEW k \in DOMAIN e.msg_store
                 PROVE  e.msg_store[k].ref_count = d.msg_store[k].ref_count - x[k] + y[k]
    OBVIOUS
  <2>2. k \in 1..MaxId /\ d.msg_store[k].ref_count \in Int /\ x[k] \in Nat
    BY <1>1, <1>5, DbParts DEF Extra, Stored
  <2> QED
    BY <1>2, <1>3, <1>5, <2>2
<1>7. id \notin DOMAIN e.msg_store => Held(d, id) = 0 /\ y[id] = 0
  BY <1>2, <1>3, <1>4, <1>5
<1>8. \A k \in 1..MaxId : y[k] # 0 => k \in DOMAIN e.msg_store
  BY <1>1, <1>3, <1>5, <1>7 DEF Exact
<1>9. Good(e, y)
  BY <1>3, <1>5, <1>6, <1>7, <1>8, StoreChanged
<1> QED
  BY <1>3, <1>5, <1>9 DEF e, y

------------------------------------------------------------------------------
(* Changes of the contexts: insertion, removal, the deletion of a queue.   *)

\* The contexts.

\* What a step leaves of d: every client with all its messages.
Onward(d, e) ==
  /\ e.last_db_id = d.last_db_id /\ DOMAIN e.contexts = DOMAIN d.contexts
  /\ \A c \in DOMAIN d.contexts : /\ DOMAIN d.contexts[c].msgs \subseteq DOMAIN e.contexts[c].msgs
                                  /\ e.contexts[c].sock = d.contexts[c].sock

\* Queues change, and references with them.
LEMMA QueuesChanged ==
  ASSUME NEW d, NEW x \in Extra, Good(d, x), NEW e \in DbType, NEW y \in Extra,
         e.subs = d.subs, e.last_db_id = d.last_db_id, Fewer(d, e), DOMAIN e.msg_store = DOMAIN d.msg_store,
         DOMAIN e.contexts = DOMAIN d.contexts,
         \A c \in DOMAIN d.contexts : e.contexts[c].subs = d.contexts[c].subs,
         Counted(e),
         \A c \in DOMAIN e.contexts : \A i \in DOMAIN e.contexts[c].msgs :
           e.contexts[c].msgs[i].id \in DOMAIN e.msg_store,
         \A k \in DOMAIN d.msg_store :
           e.msg_store[k].ref_count - Cardinality(InQueues(Queues(e), k)) - y[k]
             = d.msg_store[k].ref_count - Cardinality(InQueues(Queues(d), k)) - x[k],
         \A k \in 1..MaxId : y[k] # 0 => k \in DOMAIN e.msg_store
  PROVE  Good(e, y)
<1>1. Shape(d) /\ d \in DbType /\ Exact(d, x)
  BY DEF Good, Shape
<1>2. Shape(e) /\ Indexed(e)
  BY DEF Good, Shape, Indexed, Fewer
<1>3. ASSUME NEW k \in DOMAIN e.msg_store
      PROVE  e.msg_store[k].ref_count = Held(e, k) + y[k]
  <2>1. d.msg_store[k].ref_count = Held(d, k) + x[k] /\ k \in DOMAIN d.msg_store
    BY <1>1, <1>3 DEF Exact
  <2>2. /\ Cardinality(KeptAt(d.subs, k)) \in Nat /\ Cardinality(InQueues(Queues(d), k)) \in Nat
        /\ Cardinality(InQueues(Queues(e), k)) \in Nat
    BY <1>1, <1>2, HeldFacts
  <2>3. x[k] \in Nat /\ y[k] \in Nat /\ e.msg_store[k].ref_count \in Int /\ d.msg_store[k].ref_count \in Int
    BY <1>1, <1>3, <2>1, DbParts DEF Extra, Stored
  <2>4. /\ Held(d, k) = Cardinality(KeptAt(d.subs, k)) + Cardinality(InQueues(Queues(d), k))
        /\ Held(e, k) = Cardinality(KeptAt(d.subs, k)) + Cardinality(InQueues(Queues(e), k))
    BY DEF Held
  <2>5. e.msg_store[k].ref_count - Cardinality(InQueues(Queues(e), k)) - y[k]
          = d.msg_store[k].ref_count - Cardinality(InQueues(Queues(d), k)) - x[k]
    BY <2>1
  <2> QED
    BY <2>1, <2>2, <2>3, <2>4, <2>5
<1>4. \A p \in DOMAIN e.subs : e.subs[p].retained # NoMsg => e.subs[p].retained \in DOMAIN e.msg_store
  BY <1>1 DEF Exact
<1>5. KeptTrue(e)
  BY <1>4 DEF KeptTrue, Fewer, Good
<1> QED
  BY <1>2, <1>3, <1>4, <1>5 DEF Good, Exact

\* Messages are appended to the queues of clients that are connected or remembered.
Inserted(d, x, e) ==
  /\ Good(e, x) /\ e \in DbType /\ e.subs = d.subs /\ Onward(d, e)
  /\ Fewer(d, e) /\ DOMAIN e.msg_store = DOMAIN d.msg_store
\* mqtt3_db_message_insert (database.c:303) takes a reference for every queue it appends to.
LEMMA InsertGood ==
  ASSUME NEW d, NEW x \in Extra, Good(d, x), NEW id \in DOMAIN d.msg_store,
         NEW S \in SUBSET DOMAIN d.contexts, NEW qosOf \in [S -> 0..2],
         NEW dir \in {"in", "out"}, NEW retain \in BOOLEAN
  PROVE  Inserted(d, x, Insert(d, qosOf, dir, retain, id))
<1> DEFINE in == {c \in DOMAIN qosOf : Admitted(d, c, dir, qosOf[c], retain, id)}
           msg == [c \in in |-> [id |-> id, dir |-> dir, qos |-> qosOf[c], retain |-> retain]]
           ctx == [c \in in |-> [d.contexts[c] EXCEPT !.msgs = Append(@, msg[c]),
                                                      !.msg_count12 = @ + IF qosOf[c] > 0 THEN 1 ELSE 0]]
           K == [c \in DOMAIN d.contexts |-> IF c \in in THEN ctx[c] ELSE d.contexts[c]]
           m1 == [d.msg_store[id] EXCEPT !.dest_ids = @ \cup IF dir = "out" /\ ~retain THEN in ELSE {}]
           s == [d.msg_store EXCEPT ![id] = m1]
           d1 == [d EXCEPT !.contexts = K, !.msg_store = s]
           n == Cardinality(in)
           e == Insert(d, qosOf, dir, retain, id)
<1>1. e = Ref(d1, id, n)
  BY DEF Insert
<1>2. in \in SUBSET S /\ \A c \in in : qosOf[c] \in 0..2 /\ c \in DOMAIN d.contexts /\ c \in Client
  BY DbParts DEF Good, Shape
<1>3. d \in DbType /\ Shape(d) /\ id \in 1..MaxId
  BY DbParts DEF Good, Shape
<1>4. \A c \in in : msg[c] \in Message /\ msg[c].id = id /\ msg[c].qos = qosOf[c]
  BY <1>2, <1>3 DEF Message
<1>5. ASSUME NEW c \in in
      PROVE  /\ ctx[c] \in Context /\ ctx[c].subs = d.contexts[c].subs /\ ctx[c].sock = d.contexts[c].sock
             /\ ctx[c].msgs = Append(d.contexts[c].msgs, msg[c])
             /\ ctx[c].msg_count12 = d.contexts[c].msg_count12 + IF qosOf[c] > 0 THEN 1 ELSE 0
  <2>1. d.contexts[c] \in Context /\ d.contexts[c].msgs \in Seq(Message)
    BY <1>2, <1>3, DbParts
  <2>2. msg[c] \in Message
    BY <1>4
  <2>3. Append(d.contexts[c].msgs, msg[c]) \in Seq(Message)
    BY <2>1, <2>2, AppendProperties
  <2> DEFINE v == d.contexts[c]
             a == Append(v.msgs, msg[c])
             k == v.msg_count12 + IF qosOf[c] > 0 THEN 1 ELSE 0
  <2>4. v \in Context /\ a \in Seq(Message) /\ k \in Nat
    BY <1>2, <2>1, <2>3 DEF Context
  <2>5. ctx[c] = [v EXCEPT !.msgs = a, !.msg_count12 = k]
    BY <1>5
  <2> HIDE DEF ctx, v, a, k
  <2>6. /\ ctx[c] \in Context /\ ctx[c].subs = v.subs /\ ctx[c].sock = v.sock
        /\ ctx[c].msgs = a /\ ctx[c].msg_count12 = k
    BY <2>4, <2>5 DEF Context
  <2> QED
    BY <2>6 DEF v, a, k
<1> HIDE DEF in, msg, ctx
<1>6. K \in Contexts /\ DOMAIN K = DOMAIN d.contexts
  <2>1. \A c \in DOMAIN K : K[c] \in Context /\ c \in Client
    BY <1>3, <1>5, DbParts
  <2>2. K \in [DOMAIN K -> Context] /\ DOMAIN K \in SUBSET Client /\ DOMAIN K = DOMAIN d.contexts
    BY <2>1
  <2> HIDE DEF K
  <2> QED
    BY <2>2, MapsFacts DEF Contexts
<1>7. /\ m1 \in Stored /\ m1.topic = d.msg_store[id].topic /\ m1.qos = d.msg_store[id].qos
      /\ m1.retain = d.msg_store[id].retain /\ m1.empty = d.msg_store[id].empty
      /\ m1.ref_count = d.msg_store[id].ref_count
  <2>1. d.msg_store[id] \in Stored
    BY <1>3, DbParts
  <2>2. in \in SUBSET Client
    BY <1>2
  <2> QED
    BY <2>1, <2>2 DEF Stored
<1> HIDE DEF m1
<1>8. s \in Msgs /\ DOMAIN s = DOMAIN d.msg_store /\ s[id] = m1 /\ \A k \in DOMAIN d.msg_store : k # id => s[k] = d.msg_store[k]
  <2>1. DOMAIN s = DOMAIN d.msg_store /\ s[id] = m1 /\ \A k \in DOMAIN d.msg_store : k # id => s[k] = d.msg_store[k]
    OBVIOUS
  <2>2. \A k \in DOMAIN s : s[k] \in Stored /\ k \in 1..MaxId
    BY <1>3, <1>7, <2>1, DbParts
  <2>3. s \in [DOMAIN s -> Stored] /\ DOMAIN s \in SUBSET (1..MaxId)
    BY <2>2
  <2> HIDE DEF s
  <2> QED
    BY <2>1, <2>3, MapsFacts DEF Msgs
<1> HIDE DEF s
<1>9. /\ d1 \in DbType /\ d1.subs = d.subs /\ d1.contexts = K /\ d1.msg_store = s /\ d1.last_db_id = d.last_db_id
  BY <1>3, <1>6, <1>8 DEF DbType, Contexts, Msgs
<1>10. /\ QueuesGood(Queues(d)) /\ DOMAIN Queues(d) = DOMAIN d.contexts
  BY <1>3, HeldFacts
<1> HIDE DEF d1, K
<1>11. IsFiniteSet(in) /\ n \in Nat
  BY <1>2, <1>3, FS_Subset, FS_CardinalityType DEF Shape
<1> HIDE DEF n
<1> DEFINE r == Ref(d1, id, n)
<1>12. /\ r \in DbType /\ r.subs = d1.subs /\ r.contexts = d1.contexts /\ r.last_db_id = d1.last_db_id
       /\ DOMAIN r.msg_store = DOMAIN d1.msg_store
       /\ \A k \in DOMAIN d1.msg_store : k # id => r.msg_store[k] = d1.msg_store[k]
       /\ Fewer(d1, r) /\ r.msg_store[id].ref_count = d1.msg_store[id].ref_count + n
  <2>1. id \in DOMAIN d1.msg_store /\ n \in Int
    BY <1>8, <1>9, <1>11
  <2> QED
    <3>1. RefOf(d1, id, n, r)
      BY <1>9, <2>1, RefParts
    <3> HIDE DEF r
    <3> QED
      BY <3>1 DEF RefOf
<1> HIDE DEF e, r
<1>13. /\ e \in DbType /\ e.subs = d.subs /\ e.contexts = K /\ e.last_db_id = d.last_db_id
       /\ DOMAIN e.msg_store = DOMAIN d.msg_store /\ Fewer(d, e)
       /\ \A k \in DOMAIN d.msg_store : k # id => e.msg_store[k].ref_count = d.msg_store[k].ref_count
       /\ e.msg_store[id].ref_count = d.msg_store[id].ref_count + n
  <2>1. e = r
    BY <1>1 DEF r
  <2>2. Fewer(d, e)
    BY <1>7, <1>8, <1>9, <1>12, <2>1 DEF Fewer
  <2> QED
    BY <1>7, <1>8, <1>9, <1>12, <2>1, <2>2
<1>14. \A c \in DOMAIN d.contexts : K[c] = IF c \in in THEN ctx[c] ELSE d.contexts[c]
  BY DEF K
<1>15. Queues(e) = [c \in DOMAIN Queues(d) |-> IF c \in in THEN Append(Queues(d)[c], msg[c]) ELSE Queues(d)[c]]
  BY <1>2, <1>5, <1>6, <1>10, <1>13, <1>14 DEF Queues
<1> DEFINE Q == Queues(d)
           R == Queues(e)
<1>16. /\ Cardinality(InQueues(R, id)) = Cardinality(InQueues(Q, id)) + n
       /\ \A k : k # id => InQueues(R, k) = InQueues(Q, k)
       /\ \A c \in DOMAIN Q : \A i \in DOMAIN R[c] : R[c][i].id = id \/ (i \in DOMAIN Q[c] /\ R[c][i] = Q[c][i])
  <2>1. QueuesGood(Q) /\ in \in SUBSET DOMAIN Q
    BY <1>2, <1>10
  <2>2. DOMAIN R = DOMAIN Q /\ \A c \in DOMAIN Q : R[c] = IF c \in in THEN Append(Q[c], msg[c]) ELSE Q[c]
    BY <1>15
  <2>3. \A c \in in : msg[c] \in Message /\ msg[c].id = id
    BY <1>4
  <2> HIDE DEF Q, R
  <2>4. Appended(Q, in, msg, id, R)
    BY <2>1, <2>2, <2>3 DEF Appended
  <2> QED
    BY <2>4, QueuesAppend DEF n
<1>17. \A c \in DOMAIN d.contexts : Q[c] = d.contexts[c].msgs /\ R[c] = e.contexts[c].msgs
  BY <1>6, <1>13 DEF Queues
<1> HIDE DEF Q, R
<1>18. \A k \in DOMAIN d.msg_store :
         e.msg_store[k].ref_count - Cardinality(InQueues(Queues(e), k)) - x[k]
           = d.msg_store[k].ref_count - Cardinality(InQueues(Queues(d), k)) - x[k]
  <2>1. SUFFICES ASSUME NEW k \in DOMAIN d.msg_store
                 PROVE  e.msg_store[k].ref_count - Cardinality(InQueues(R, k)) - x[k]
                          = d.msg_store[k].ref_count - Cardinality(InQueues(Q, k)) - x[k]
    BY DEF Q, R
  <2>2. Cardinality(InQueues(Q, k)) \in Nat /\ x[k] \in Nat /\ d.msg_store[k].ref_count \in Int
    BY <1>3, HeldFacts, DbParts DEF Extra, Stored, Q
  <2>3. CASE k = id
    <3>1. Cardinality(InQueues(R, k)) = Cardinality(InQueues(Q, k)) + n
      BY <1>16, <2>3
    <3>2. e.msg_store[k].ref_count = d.msg_store[k].ref_count + n
      BY <1>13, <2>3
    <3> QED
      BY <1>11, <2>2, <3>1, <3>2
  <2>4. CASE k # id
    <3>1. InQueues(R, k) = InQueues(Q, k)
      BY <1>16, <2>4
    <3>2. e.msg_store[k].ref_count = d.msg_store[k].ref_count
      BY <1>13, <2>4
    <3> QED
      BY <3>1, <3>2
  <2> QED
    BY <2>3, <2>4
<1>19. Counted(e)
  <2>1. SUFFICES ASSUME NEW c \in DOMAIN d.contexts PROVE CountTrue(K[c])
    BY <1>6, <1>13 DEF Counted
  <2>2. CountTrue(d.contexts[c])
    BY DEF Good, Counted
  <2>3. CASE c \in in
    <3> DEFINE q == d.contexts[c].msgs
    <3>1. q \in Seq(Message) /\ msg[c] \in Message /\ d.contexts[c].msg_count12 \in Nat
      BY <1>3, <1>4, <2>3, DbParts DEF Context
    <3>2. Cardinality(Hits(Append(q, msg[c]), Counts)) = Cardinality(Hits(q, Counts)) + IF msg[c] \in Counts THEN 1 ELSE 0
      BY <3>1, HitsAppend
    <3>3. msg[c] \in Counts <=> qosOf[c] > 0
      BY <1>4, <2>3 DEF Counts
    <3>4. Cardinality(Hits(q, Counts)) \in Nat
      BY <3>1, HitsFacts
    <3>5. K[c] = ctx[c]
      BY <1>14, <2>3
    <3>6. ctx[c].msgs = Append(q, msg[c]) /\ ctx[c].sock = d.contexts[c].sock
          /\ ctx[c].msg_count12 = d.contexts[c].msg_count12 + IF qosOf[c] > 0 THEN 1 ELSE 0
      BY <1>5, <2>3
    <3> QED
      BY <2>2, <3>1, <3>2, <3>3, <3>4, <3>5, <3>6 DEF CountTrue
  <2>4. CASE c \notin in
    BY <1>14, <2>2, <2>4
  <2> QED
    BY <2>3, <2>4
<1>20. \A c \in DOMAIN e.contexts : \A i \in DOMAIN e.contexts[c].msgs :
         e.contexts[c].msgs[i].id \in DOMAIN e.msg_store
  BY <1>6, <1>10, <1>13, <1>16, <1>17 DEF Good, Exact, Q
<1>21. \A c \in DOMAIN d.contexts : e.contexts[c].subs = d.contexts[c].subs
  BY <1>5, <1>13, <1>14
<1>22. Good(e, x)
  <2>1. \A k \in 1..MaxId : x[k] # 0 => k \in DOMAIN e.msg_store
    BY <1>13 DEF Good, Exact
  <2> QED
    BY <1>6, <1>13, <1>18, <1>19, <1>20, <1>21, <2>1, QueuesChanged
<1>23. Onward(d, e)
  <2>1. ASSUME NEW c \in DOMAIN d.contexts
        PROVE  /\ DOMAIN d.contexts[c].msgs \subseteq DOMAIN e.contexts[c].msgs
               /\ e.contexts[c].sock = d.contexts[c].sock
    <3>1. CASE c \in in
      <4>1. d.contexts[c].msgs \in Seq(Message) /\ msg[c] \in Message
        BY <1>3, <1>4, <3>1, DbParts
      <4>2. e.contexts[c].msgs = Append(d.contexts[c].msgs, msg[c]) /\ e.contexts[c].sock = d.contexts[c].sock
        BY <1>5, <1>13, <1>14, <3>1
      <4> QED
        BY <4>1, <4>2, AppendProperties
    <3>2. CASE c \notin in
      BY <1>13, <1>14, <3>2
    <3> QED
      BY <3>1, <3>2
  <2> QED
    BY <1>6, <1>13, <2>1 DEF Onward
<1> QED
  BY <1>13, <1>22, <1>23 DEF e, Inserted

------------------------------------------------------------------------------
\* One client's context changes, its index does not.
LEMMA ContextChanged ==
  ASSUME NEW d, NEW x \in Extra, Good(d, x), NEW c \in DOMAIN d.contexts, NEW v \in Context,
         v.subs = d.contexts[c].subs, CountTrue(v),
         \A i \in DOMAIN v.msgs : v.msgs[i].id \in DOMAIN d.msg_store,
         NEW y \in Extra,
         \A k \in 1..MaxId : y[k] = x[k] + Cardinality(Hits(d.contexts[c].msgs, Of(k))) - Cardinality(Hits(v.msgs, Of(k)))
  PROVE  LET e == [d EXCEPT !.contexts[c] = v]
         IN  /\ Good(e, y) /\ e \in DbType /\ e.subs = d.subs /\ e.msg_store = d.msg_store
             /\ e.contexts = [d.contexts EXCEPT ![c] = v] /\ e.last_db_id = d.last_db_id
<1> DEFINE K == [d.contexts EXCEPT ![c] = v]
           e == [d EXCEPT !.contexts[c] = v]
           q == d.contexts[c].msgs
<1>1. d \in DbType /\ Shape(d) /\ Exact(d, x) /\ c \in Client /\ q \in Seq(Message) /\ v.msgs \in Seq(Message)
  BY DbParts DEF Good, Shape, Context
<1>2. K \in Contexts /\ DOMAIN K = DOMAIN d.contexts /\ K[c] = v /\ \A b \in DOMAIN d.contexts : b # c => K[b] = d.contexts[b]
  <2>1. DOMAIN K = DOMAIN d.contexts /\ K[c] = v /\ \A b \in DOMAIN d.contexts : b # c => K[b] = d.contexts[b]
    OBVIOUS
  <2>2. \A b \in DOMAIN K : K[b] \in Context /\ b \in Client
    BY <1>1, <2>1, DbParts
  <2>3. K \in [DOMAIN K -> Context] /\ DOMAIN K \in SUBSET Client
    BY <2>2
  <2> HIDE DEF K
  <2> QED
    BY <2>1, <2>3, MapsFacts DEF Contexts
<1>3. e = [d EXCEPT !.contexts = K]
  OBVIOUS
<1> HIDE DEF K, e
<1>4. e \in DbType /\ e.subs = d.subs /\ e.msg_store = d.msg_store /\ e.contexts = K /\ e.last_db_id = d.last_db_id
  BY <1>1, <1>2, <1>3, DbWith
<1> DEFINE Q == Queues(d)
           R == Queues(e)
<1>5. QueuesGood(Q) /\ DOMAIN Q = DOMAIN d.contexts /\ Q[c] = q
  BY <1>1, HeldFacts DEF Queues
<1>6. DOMAIN R = DOMAIN Q /\ R[c] = v.msgs /\ \A b \in DOMAIN Q : b # c => R[b] = Q[b]
  BY <1>2, <1>4, <1>5 DEF Queues
<1> HIDE DEF Q, R
<1>7. \A k : Cardinality(InQueues(R, k)) =
               Cardinality(InQueues(Q, k)) - Cardinality(Hits(Q[c], Of(k))) + Cardinality(Hits(v.msgs, Of(k)))
  BY <1>1, <1>5, <1>6, QueueReplaced
<1>8. ASSUME NEW k \in DOMAIN d.msg_store
      PROVE  e.msg_store[k].ref_count - Cardinality(InQueues(R, k)) - y[k]
               = d.msg_store[k].ref_count - Cardinality(InQueues(Q, k)) - x[k]
  <2>1. Cardinality(InQueues(Q, k)) \in Nat
    BY <1>1, HeldFacts DEF Q
  <2>2. Cardinality(Hits(q, Of(k))) \in Nat /\ Cardinality(Hits(v.msgs, Of(k))) \in Nat
    BY <1>1, HitsFacts
  <2>3. k \in 1..MaxId /\ x[k] \in Nat /\ y[k] \in Nat /\ d.msg_store[k].ref_count \in Int
    BY <1>1, DbParts DEF Extra, Stored
  <2>4. Cardinality(InQueues(R, k)) = Cardinality(InQueues(Q, k)) - Cardinality(Hits(q, Of(k))) + Cardinality(Hits(v.msgs, Of(k)))
    BY <1>5, <1>7
  <2>5. y[k] = x[k] + Cardinality(Hits(q, Of(k))) - Cardinality(Hits(v.msgs, Of(k)))
    BY <2>3
  <2> QED
    BY <1>4, <2>1, <2>2, <2>3, <2>4, <2>5
<1>9. Counted(e)
  BY <1>2, <1>4 DEF Counted, Good
<1>10. \A b \in DOMAIN e.contexts : e.contexts[b].subs = d.contexts[b].subs
  BY <1>2, <1>4
<1>11. \A b \in DOMAIN e.contexts : \A i \in DOMAIN e.contexts[b].msgs :
         e.contexts[b].msgs[i].id \in DOMAIN e.msg_store
  BY <1>1, <1>2, <1>4 DEF Exact
<1>12. \A k \in 1..MaxId : y[k] # 0 => k \in DOMAIN e.msg_store
  <2>1. SUFFICES ASSUME NEW k \in 1..MaxId, k \notin DOMAIN d.msg_store PROVE y[k] = 0
    BY <1>4
  <2>2. x[k] = 0
    BY <1>1, <2>1 DEF Exact
  <2>3. \A i \in DOMAIN q : q[i] \notin Of(k)
    BY <1>1, <2>1 DEF Exact, Of
  <2>4. \A i \in DOMAIN v.msgs : v.msgs[i] \notin Of(k)
    BY <2>1 DEF Of
  <2>5. Hits(q, Of(k)) = {} /\ Hits(v.msgs, Of(k)) = {}
    BY <2>3, <2>4 DEF Hits
  <2>6. Cardinality(Hits(q, Of(k))) = 0 /\ Cardinality(Hits(v.msgs, Of(k))) = 0
    BY <2>5, FS_EmptySet
  <2> QED
    BY <2>2, <2>6
<1>13. Fewer(d, e)
  BY <1>4 DEF Fewer
<1>14. \A k \in DOMAIN d.msg_store :
         e.msg_store[k].ref_count - Cardinality(InQueues(Queues(e), k)) - y[k]
           = d.msg_store[k].ref_count - Cardinality(InQueues(Queues(d), k)) - x[k]
  BY <1>8 DEF Q, R
<1>15. DOMAIN e.contexts = DOMAIN d.contexts /\ DOMAIN e.msg_store = DOMAIN d.msg_store
  BY <1>2, <1>4
<1>16. Good(e, y)
  BY <1>4, <1>9, <1>10, <1>11, <1>12, <1>13, <1>14, <1>15, QueuesChanged
<1> QED
  BY <1>4, <1>16 DEF e, K

\* _message_remove
LEMMA UnlinkGood ==
  ASSUME NEW d, NEW x \in Extra, Good(d, x), NEW c \in DOMAIN d.contexts, d.contexts[c].sock,
         NEW i \in DOMAIN d.contexts[c].msgs
  PROVE  Good(Unlink(d, c, i), x)
<1> DEFINE q == d.contexts[c].msgs
           m == q[i]
           r == Those(q, DOMAIN q \ {i})
           n == d.contexts[c].msg_count12 - IF m.qos > 0 THEN 1 ELSE 0
           v == [d.contexts[c] EXCEPT !.msgs = r, !.msg_count12 = n]
           e == [d EXCEPT !.contexts[c] = v]
           y == Plus(x, m.id, 1)
<1>1. d \in DbType /\ Exact(d, x) /\ d.contexts[c] \in Context /\ q \in Seq(Message) /\ m \in Message
  BY DbParts DEF Good, Shape
<1>2. Unlink(d, c, i) = Deref(e, m.id)
  BY DEF Unlink
<1>3. /\ r \in Seq(Message) /\ \A j \in DOMAIN r : \E k \in DOMAIN q : r[j] = q[k]
      /\ \A P : Cardinality(Hits(r, P)) = Cardinality(Hits(q, P)) - IF q[i] \in P THEN 1 ELSE 0
  <2> HIDE DEF q
  <2>1. \A P : /\ Those(q, DOMAIN q \ {i}) \in Seq(Message)
               /\ \A j \in DOMAIN Those(q, DOMAIN q \ {i}) : \E k \in DOMAIN q : Those(q, DOMAIN q \ {i})[j] = q[k]
               /\ Cardinality(Hits(Those(q, DOMAIN q \ {i}), P)) = Cardinality(Hits(q, P)) - IF q[i] \in P THEN 1 ELSE 0
    <3>1. q \in Seq(Message) /\ i \in DOMAIN q
      BY <1>1 DEF q
    <3> QED
      BY ONLY <3>1, HitsWithout
  <2> QED
    BY <2>1
<1>4. CountTrue(d.contexts[c]) /\ d.contexts[c].msg_count12 = Cardinality(Hits(q, Counts))
  BY DEF Good, Counted, CountTrue
<1>5. (m \in Counts <=> m.qos > 0) /\ \A k : m \in Of(k) <=> m.id = k
  BY <1>1 DEF Counts, Of
<1>6. Cardinality(Hits(r, Counts)) \in Nat /\ Cardinality(Hits(q, Counts)) \in Nat
  BY <1>1, <1>3, HitsFacts
<1>7. n = Cardinality(Hits(r, Counts)) /\ n \in Nat
  <2>1. Cardinality(Hits(r, Counts)) = Cardinality(Hits(q, Counts)) - IF m \in Counts THEN 1 ELSE 0
    BY <1>3
  <2> QED
    BY <1>4, <1>5, <1>6, <2>1
<1>8. m.id \in 1..MaxId /\ m.id \in DOMAIN d.msg_store
  BY <1>1 DEF Message, Exact
<1>9. y \in Extra /\ y[m.id] = x[m.id] + 1 /\ \A k \in 1..MaxId : k # m.id => y[k] = x[k]
  <2>1. x[m.id] \in Nat /\ x[m.id] + 1 \in Nat /\ 1 \in Int
    BY <1>8 DEF Extra
  <2> QED
    BY <1>8, <2>1, PlusFacts
<1>10. Good(e, y)
  <2> HIDE DEF r, n, y
  <2>1. v \in Context /\ v.subs = d.contexts[c].subs /\ v.msgs = r /\ v.msg_count12 = n
    BY <1>1, <1>3, <1>7 DEF Context
  <2> HIDE DEF v
  <2>2. CountTrue(v)
    BY <1>7, <2>1 DEF CountTrue
  <2>3. \A j \in DOMAIN v.msgs : v.msgs[j].id \in DOMAIN d.msg_store
    BY <1>1, <1>3, <2>1 DEF Exact
  <2>4. \A k \in 1..MaxId : y[k] = x[k] + Cardinality(Hits(q, Of(k))) - Cardinality(Hits(v.msgs, Of(k)))
    <3>1. SUFFICES ASSUME NEW k \in 1..MaxId
                   PROVE  y[k] = x[k] + Cardinality(Hits(q, Of(k))) - Cardinality(Hits(r, Of(k)))
      BY <2>1
    <3>2. Cardinality(Hits(q, Of(k))) \in Nat /\ x[k] \in Nat
      BY <1>1, HitsFacts DEF Extra
    <3>3. Cardinality(Hits(r, Of(k))) = Cardinality(Hits(q, Of(k))) - IF m.id = k THEN 1 ELSE 0
      BY <1>3, <1>5
    <3> QED
      BY <1>9, <3>2, <3>3
  <2> HIDE DEF e, q
  <2>5. Good([d EXCEPT !.contexts[c] = v], y)
    BY <1>9, <2>1, <2>2, <2>3, <2>4, ContextChanged DEF q
  <2> QED
    BY <2>5 DEF e
<1> HIDE DEF e, y
<1>11. Good(Deref(e, m.id), Plus(y, m.id, -1))
  <2>1. y[m.id] >= 1
    BY <1>8, <1>9 DEF Extra
  <2> QED
    BY <1>8, <1>9, <1>10, <2>1, DerefGood
<1>12. Plus(y, m.id, -1) = x
  BY <1>8, PlusBack DEF y
<1> QED
  BY <1>2, <1>11, <1>12

------------------------------------------------------------------------------
\* mqtt3_db_messages_delete: the references of one queue are returned, entry by entry.

Loosened(e, m) == Deref(e, m.id)

\* The loop of mqtt3_db_messages_delete stays in the sets J.
LEMMA EachLoosened ==
  ASSUME NEW s \in Seq(Message), NEW d, NEW J, d \in J[0], NEW D,
         \A i \in 0..Len(s) : J[i] \subseteq D,
         \A i \in 1..Len(s) : \A x \in J[i - 1] : Loosened(x, s[i]) \in J[i]
  PROVE  Each(Loosened, d, s) \in J[Len(s)]
<1> DEFINE n == Len(s)
           F == [p \in (1..n) \X D |-> Loosened(p[2], s[p[1]])]
           P(h) == h = [i \in 0..n |-> IF i = 0 THEN d ELSE Loosened(h[i - 1], s[i])]
           f == CHOOSE h : P(h)
<1>1. Each(Loosened, d, s) = f[n]
  BY DEF Each
<1>2. n \in Nat /\ n \in 0..n /\ \A i \in 1..n : i \in 0..n /\ i - 1 \in 0..n /\ i # 0
  OBVIOUS
<1>3. \A i \in 1..n : \A x \in J[i - 1] : F[<<i, x>>] = Loosened(x, s[i])
  BY <1>2
<1>4. \A i \in 1..n : \A x \in J[i - 1] : F[<<i, x>>] \in J[i]
  BY <1>3, ZenonT(40)
<1> HIDE DEF F
<1>5. PICK g : Loop(g, n, d, F) /\ \A i \in 0..n : g[i] \in J[i]
  <2> HIDE DEF P, f, n
  <2>1. n \in Nat /\ d \in J[0]
    BY <1>2
  <2> QED
    BY ONLY <1>4, <2>1, LoopExists
<1>6. P(g)
  <2>1. \A i \in 0..n : i # 0 => i \in 1..n
    BY <1>2
  <2> QED
    BY <1>2, <1>3, <1>5, <2>1 DEF Loop
<1>7. P(f)
  BY <1>6
<1> HIDE DEF f
<1>8. f[0] = d /\ \A i \in 1..n : f[i] = Loosened(f[i - 1], s[i])
  BY <1>2, <1>7
<1> HIDE DEF P
<1>9. \A i \in 0..n : f[i] \in J[i]
  BY <1>2, <1>8, LoopKeeps
<1> QED
  BY <1>1, <1>2, <1>9

\* Returning a reference does not touch the contexts.
LEMMA DerefElsewhere ==
  ASSUME NEW d \in DbType, NEW K \in Contexts, NEW id
  PROVE  [Deref(d, id) EXCEPT !.contexts = K] = Deref([d EXCEPT !.contexts = K], id)
<1>1. [d EXCEPT !.contexts = K].msg_store = d.msg_store
  BY DEF DbType
<1>2. CASE d.msg_store[id].ref_count = 1
  BY <1>1, <1>2 DEF Deref, DbType
<1>3. CASE d.msg_store[id].ref_count # 1
  <2>1. Deref(d, id) = Ref(d, id, -1) /\ Deref([d EXCEPT !.contexts = K], id) = Ref([d EXCEPT !.contexts = K], id, -1)
    BY <1>1, <1>3 DEF Deref
  <2> DEFINE s == [d.msg_store EXCEPT ![id].ref_count = @ + (-1)]
  <2>2. Ref(d, id, -1) = [d EXCEPT !.msg_store = s]
    BY DEF Ref
  <2>3. Ref([d EXCEPT !.contexts = K], id, -1) = [[d EXCEPT !.contexts = K] EXCEPT !.msg_store = s]
    BY <1>1 DEF Ref
  <2> HIDE DEF s
  <2> QED
    BY <2>1, <2>2, <2>3 DEF DbType
<1> QED
  BY <1>2, <1>3

\* The entries behind position i that are copies of one message.
Left(q, i, id) == {j \in i + 1..Len(q) : q[j].id = id}

\* The entries of a message that the loop has not come to yet.
LEMMA LeftFacts ==
  ASSUME NEW q \in Seq(Message), NEW id
  PROVE  /\ \A i \in 0..Len(q) : Cardinality(Left(q, i, id)) \in Nat
         /\ \A i \in 1..Len(q) : Cardinality(Left(q, i - 1, id)) = Cardinality(Left(q, i, id)) + IF q[i].id = id THEN 1 ELSE 0
         /\ Left(q, 0, id) = Hits(q, Of(id)) /\ Cardinality(Left(q, Len(q), id)) = 0
<1> DEFINE n == Len(q)
<1>1. n \in Nat /\ DOMAIN q = 1..n /\ \A i \in 1..n : q[i] \in Message
  OBVIOUS
<1>2. ASSUME NEW i \in 0..n
      PROVE  IsFiniteSet(Left(q, i, id)) /\ Cardinality(Left(q, i, id)) \in Nat
  <2>1. Left(q, i, id) \in SUBSET (1..n)
    BY <1>1 DEF Left
  <2>2. IsFiniteSet(1..n)
    BY <1>1, FS_Interval
  <2> QED
    BY <2>1, <2>2, FS_Subset, FS_CardinalityType
<1>3. ASSUME NEW i \in 1..n
      PROVE  Cardinality(Left(q, i - 1, id)) = Cardinality(Left(q, i, id)) + IF q[i].id = id THEN 1 ELSE 0
  <2>0. i \in 0..n /\ i \in Nat /\ (i - 1) + 1 = i
    BY <1>1
  <2>1. i \notin Left(q, i, id)
    BY <2>0 DEF Left
  <2>2. \A j : j \in i..n <=> j = i \/ j \in i + 1..n
    BY <1>1, <2>0
  <2>3. Left(q, i - 1, id) = {j \in i..n : q[j].id = id}
    BY <2>0 DEF Left
  <2>4. CASE q[i].id = id
    <3>1. Left(q, i - 1, id) = Left(q, i, id) \cup {i}
      BY <2>2, <2>3, <2>4 DEF Left
    <3>2. Cardinality(Left(q, i, id) \cup {i}) = Cardinality(Left(q, i, id)) + 1
      BY <1>2, <2>0, <2>1, FS_AddElement
    <3> QED
      BY <2>4, <3>1, <3>2
  <2>5. CASE q[i].id # id
    <3>1. Left(q, i - 1, id) = Left(q, i, id)
      BY <2>2, <2>3, <2>5 DEF Left
    <3> QED
      BY <1>2, <2>0, <2>5, <3>1
  <2> QED
    BY <2>4, <2>5
<1>4. Left(q, 0, id) = Hits(q, Of(id))
  BY <1>1 DEF Left, Hits, Of
<1>5. Cardinality(Left(q, n, id)) = 0
  <2>1. Left(q, n, id) = {}
    BY <1>1 DEF Left
  <2> QED
    BY <2>1, FS_EmptySet
<1> QED
  BY <1>2, <1>3, <1>4, <1>5

\* The context of a client without its messages.
Emptied(ctx) == [ctx EXCEPT !.msgs = <<>>, !.msg_count12 = 0]

\* mqtt3_db_messages_delete (database.c:486) returns the references of a queue and empties it.
LEMMA MessagesDeleteGood ==
  ASSUME NEW d, NEW x \in Extra, Good(d, x), NEW c \in DOMAIN d.contexts
  PROVE  LET e == MessagesDelete(d, c)
         IN  /\ Good(e, x) /\ e.subs = d.subs /\ e.last_db_id = d.last_db_id
             /\ e.contexts = [d.contexts EXCEPT ![c] = Emptied(@)]
<1> DEFINE q == d.contexts[c].msgs
           n == Len(q)
           v == Emptied(d.contexts[c])
           K == [d.contexts EXCEPT ![c] = v]
           y(i) == [k \in 1..MaxId |-> x[k] + Cardinality(Left(q, i, k))]
           D == {e \in DbType : e.subs = d.subs /\ e.contexts = d.contexts /\ e.last_db_id = d.last_db_id}
           J == [i \in 0..n |-> {e \in D : Good([e EXCEPT !.contexts = K], y(i))}]
           z == Each(Loosened, d, q)
           e == MessagesDelete(d, c)
<1>1. d \in DbType /\ Exact(d, x) /\ d.contexts[c] \in Context /\ q \in Seq(Message) /\ n \in Nat
  BY DbParts DEF Good, Shape
<1>2. v \in Context /\ v.subs = d.contexts[c].subs /\ v.msgs = <<>> /\ v.msg_count12 = 0 /\ CountTrue(v)
  <2>1. v \in Context /\ v.subs = d.contexts[c].subs /\ v.msgs = <<>> /\ v.msg_count12 = 0
    <3> DEFINE o == d.contexts[c]
    <3>1. <<>> \in Seq(Message) /\ o \in Context
      BY <1>1
    <3> HIDE DEF o
    <3>2. LET w == [o EXCEPT !.msgs = <<>>, !.msg_count12 = 0]
          IN  w \in Context /\ w.subs = o.subs /\ w.msgs = <<>> /\ w.msg_count12 = 0
      BY <3>1 DEF Context
    <3> QED
      BY <3>2 DEF Emptied, o
  <2>2. Cardinality(Hits(<<>>, Counts)) = 0
    BY <1>1, HitsFacts
  <2> HIDE DEF v
  <2> QED
    BY <2>1, <2>2 DEF CountTrue
<1> HIDE DEF v
<1>3. K \in Contexts
  <2>1. DOMAIN K = DOMAIN d.contexts /\ \A b \in DOMAIN K : K[b] = IF b = c THEN v ELSE d.contexts[b]
    OBVIOUS
  <2>2. \A b \in DOMAIN K : K[b] \in Context /\ b \in Client
    BY <1>1, <1>2, <2>1, DbParts
  <2>3. K \in [DOMAIN K -> Context] /\ DOMAIN K \in SUBSET Client
    BY <2>2
  <2> HIDE DEF K
  <2> QED
    BY <2>3, MapsFacts DEF Contexts
<1>4. ASSUME NEW i \in 0..n
      PROVE  y(i) \in Extra /\ \A k \in 1..MaxId : y(i)[k] = x[k] + Cardinality(Left(q, i, k))
  <2>1. \A k \in 1..MaxId : Cardinality(Left(q, i, k)) \in Nat
    <3> HIDE DEF q
    <3> QED
      BY <1>1, LeftFacts
  <2>2. \A k \in 1..MaxId : x[k] \in Nat
    BY DEF Extra
  <2>3. \A k \in 1..MaxId : x[k] + Cardinality(Left(q, i, k)) \in Nat
    BY <2>1, <2>2
  <2> HIDE DEF q
  <2> QED
    BY <2>3 DEF Extra
<1>5. y(n) = x
  <2>1. y(n) = [k \in 1..MaxId |-> x[k]]
    <3>1. \A k \in 1..MaxId : x[k] + Cardinality(Left(q, n, k)) = x[k]
      BY <1>1, LeftFacts DEF Extra
    <3> QED
      BY <3>1
  <2>2. x = [k \in 1..MaxId |-> x[k]]
    BY DEF Extra
  <2> QED
    BY <2>1, <2>2
<1>6. ASSUME NEW i \in 1..n
      PROVE  /\ y(i - 1) = Plus(y(i), q[i].id, 1) /\ q[i].id \in 1..MaxId /\ i \in 0..n /\ i - 1 \in 0..n
             /\ y(i) \in Extra
  <2>1. i \in 0..n /\ i - 1 \in 0..n /\ q[i].id \in 1..MaxId
    <3>1. q[i] \in Message
      BY <1>1
    <3>2. q[i].id \in 1..MaxId
      BY <3>1 DEF Message
    <3> HIDE DEF q, n
    <3> QED
      BY <1>1, <3>2
  <2>2. \A k \in 1..MaxId : y(i - 1)[k] = y(i)[k] + IF q[i].id = k THEN 1 ELSE 0
    <3>1. SUFFICES ASSUME NEW k \in 1..MaxId
                   PROVE  y(i - 1)[k] = y(i)[k] + IF q[i].id = k THEN 1 ELSE 0
      OBVIOUS
    <3>2. Cardinality(Left(q, i - 1, k)) = Cardinality(Left(q, i, k)) + IF q[i].id = k THEN 1 ELSE 0
      BY <1>1, LeftFacts
    <3>3. Cardinality(Left(q, i, k)) \in Nat /\ x[k] \in Nat
      BY <1>1, <2>1, LeftFacts DEF Extra
    <3> QED
      BY <3>2, <3>3
  <2>3. y(i) \in Extra /\ y(i - 1) \in Extra
    BY <1>4, <2>1
  <2>4. y(i)[q[i].id] \in Nat
    BY <2>1, <2>3 DEF Extra
  <2> DEFINE a == y(i)
             b == y(i - 1)
             h == q[i].id
             w == Plus(a, h, 1)
  <2>5. w \in Extra /\ w[h] = a[h] + 1 /\ \A k \in 1..MaxId : k # h => w[k] = a[k]
    <3>1. a \in Extra /\ h \in 1..MaxId /\ a[h] + 1 \in Nat /\ 1 \in Int
      BY <2>1, <2>3, <2>4
    <3> HIDE DEF a, h
    <3> QED
      BY <3>1, PlusFacts
  <2> HIDE DEF y, a, b, q
  <2>6. \A k \in 1..MaxId : w[k] = b[k]
    <3>1. \A k \in 1..MaxId : b[k] = a[k] + IF q[i].id = k THEN 1 ELSE 0
      BY <2>2 DEF a, b
    <3>2. \A k \in 1..MaxId : a[k] \in Nat
      BY <2>3 DEF Extra, a
    <3> QED
      BY <2>5, <3>1, <3>2
  <2> HIDE DEF w
  <2>7. w = b
    <3>1. w = [k \in 1..MaxId |-> w[k]] /\ b = [k \in 1..MaxId |-> b[k]]
      BY <2>3, <2>5 DEF Extra, b
    <3>2. [k \in 1..MaxId |-> w[k]] = [k \in 1..MaxId |-> b[k]]
      BY <2>6
    <3> QED
      BY <3>1, <3>2
  <2> QED
    BY <2>1, <2>3, <2>7 DEF a, b, w
<1>7. Good([d EXCEPT !.contexts = K], y(0))
  <2>1. \A k \in 1..MaxId : y(0)[k] = x[k] + Cardinality(Hits(q, Of(k))) - Cardinality(Hits(v.msgs, Of(k)))
    <3>1. SUFFICES ASSUME NEW k \in 1..MaxId
                   PROVE  y(0)[k] = x[k] + Cardinality(Hits(q, Of(k))) - Cardinality(Hits(v.msgs, Of(k)))
      OBVIOUS
    <3>2. Left(q, 0, k) = Hits(q, Of(k)) /\ Cardinality(Left(q, 0, k)) \in Nat
      BY <1>1, LeftFacts
    <3>3. Cardinality(Hits(v.msgs, Of(k))) = 0
      BY <1>1, <1>2, HitsFacts
    <3>4. x[k] \in Nat
      BY DEF Extra
    <3> QED
      BY <3>2, <3>3, <3>4
  <2>2. y(0) \in Extra
    BY <1>1, <1>4
  <2>3. \A i \in DOMAIN v.msgs : v.msgs[i].id \in DOMAIN d.msg_store
    BY <1>2
  <2> HIDE DEF y
  <2>4. Good([d EXCEPT !.contexts[c] = v], y(0))
    BY <1>2, <2>1, <2>2, <2>3, ContextChanged
  <2> QED
    BY <2>4
<1> HIDE DEF K, y
<1>8. d \in J[0]
  BY <1>1, <1>7
<1>9. ASSUME NEW i \in 1..n, NEW a \in J[i - 1]
      PROVE  Loosened(a, q[i]) \in J[i]
  <2> DEFINE id == q[i].id
             b == Deref(a, id)
             a1 == [a EXCEPT !.contexts = K]
             b1 == Deref(a1, id)
  <2>1. /\ a \in D /\ Good(a1, y(i - 1)) /\ i \in 0..n
        /\ y(i) \in Extra /\ y(i - 1) = Plus(y(i), id, 1) /\ id \in 1..MaxId
    BY <1>6
  <2>2. /\ Plus(y(i), id, 1) \in Extra /\ Plus(y(i), id, 1)[id] >= 1
        /\ Plus(Plus(y(i), id, 1), id, -1) = y(i)
    BY <2>1, PlusBack
  <2>3. Good(b1, y(i)) /\ b1.subs = a1.subs /\ b1.last_db_id = a1.last_db_id /\ b1 \in DbType
    <3> DEFINE w == y(i - 1)
    <3>1. w \in Extra /\ w[id] >= 1 /\ Good(a1, w) /\ Plus(w, id, -1) = y(i)
      BY <2>1, <2>2
    <3> HIDE DEF w, a1, id
    <3> QED
      BY <2>1, <3>1, DerefGood
  <2>4. b1 = [b EXCEPT !.contexts = K]
    BY <1>3, <2>1, DerefElsewhere
  <2>5. b \in D
    <3>1. b.subs = a.subs /\ b.contexts = a.contexts /\ b.last_db_id = a.last_db_id
      BY <2>1 DEF Deref, Ref, DbType
    <3>2. b = [[b EXCEPT !.contexts = K] EXCEPT !.contexts = a.contexts]
      BY <2>1 DEF Deref, Ref, DbType
    <3>3. a.contexts \in Contexts
      BY <2>1, DbParts
    <3> HIDE DEF b, b1
    <3>4. [b1 EXCEPT !.contexts = a.contexts] \in DbType
      BY <2>3, <3>3, DbWith
    <3> QED
      BY <2>1, <2>4, <3>1, <3>2, <3>4
  <2> HIDE DEF b, b1
  <2>6. b \in J[i]
    BY <2>1, <2>3, <2>4, <2>5
  <2> QED
    BY <2>6 DEF Loosened, b
<1>10. z \in J[n]
  <2>1. \A i \in 0..n : J[i] \subseteq D
    OBVIOUS
  <2> HIDE DEF J, D
  <2> QED
    BY <1>1, <1>8, <1>9, <2>1, EachLoosened
<1>11. z \in D /\ Good([z EXCEPT !.contexts = K], x)
  BY <1>1, <1>5, <1>10
<1>12. e = [z EXCEPT !.contexts[c].msgs = <<>>, !.contexts[c].msg_count12 = 0]
  BY DEF MessagesDelete, Loosened, Each
<1> HIDE DEF z, e
<1>13. e = [z EXCEPT !.contexts = K]
  <2>1. z.contexts = d.contexts
    BY <1>11
  <2>2. [z.contexts EXCEPT ![c].msgs = <<>>, ![c].msg_count12 = 0] = K
    BY <2>1 DEF K, v, Emptied
  <2>3. e = [z EXCEPT !.contexts = [z.contexts EXCEPT ![c].msgs = <<>>, ![c].msg_count12 = 0]]
    BY <1>11, <1>12 DEF DbType
  <2> QED
    BY <2>2, <2>3
<1> QED
  <2>1. e.subs = z.subs /\ e.contexts = K /\ e.last_db_id = z.last_db_id
    BY <1>11, <1>13 DEF DbType
  <2> QED
    BY <1>11, <1>13, <2>1 DEF e, K, v

------------------------------------------------------------------------------
(* Changes of the tree beside the store: topics, the retained message of a *)
(* node.                                                                   *)

\* Topics and paths.
Topic == Seq(Level) \ {<<>>}

\* Topics and filters are not empty, and their levels are levels.
LEMMA TopicTypes == Topics \cup Filters \in SUBSET Topic
<1>1. \A s \in Seq(STRING) : s \in Seq(Level)
  <2>1. SUFFICES ASSUME NEW s \in Seq(STRING) PROVE s \in Seq(Level)
    OBVIOUS
  <2>2. \A i \in 1..Len(s) : s[i] \in STRING
    OBVIOUS
  <2>3. \A i \in 1..Len(s) : s[i] \in Level
    BY <2>2 DEF Level
  <2> QED
    BY <2>3
<1> QED
  BY <1>1, RoutingAssumption DEF Topic

\* A single level is a path.
LEMMA OneLevel ==
  ASSUME NEW a \in Level
  PROVE  <<a>> \in Seq(Level) /\ Len(<<a>>) = 1 /\ <<a>>[1] = a /\ <<a>> # <<>> /\ <<a>> \in Path
<1>1. <<a>> \in Seq(Level) /\ Len(<<a>>) = 1 /\ <<a>>[1] = a /\ <<a>> # <<>>
  OBVIOUS
<1> QED
  BY <1>1 DEF Path

\* The path of a topic.
LEMMA PathOfType ==
  ASSUME NEW t \in Topic
  PROVE  /\ PathOf(t) \in Path /\ Len(PathOf(t)) \in Nat /\ Len(PathOf(t)) >= 2
         /\ Tokenise(t) \in Seq(Level) /\ Len(Tokenise(t)) >= 1 /\ Len(Tokenise(t)) \in Nat
         /\ Tokenise(t)[1] \in Level /\ PathOf(t)[1] = Tokenise(t)[1] /\ <<Tokenise(t)[1]>> \in Path
         /\ t # <<>>
<1> DEFINE k == Tokenise(t)
<1>0. "" \in Level
  BY DEF Level
<1>1. <<"">> \in Seq(Level) /\ Len(<<"">>) = 1 /\ <<"">>[1] = ""
  BY <1>0, OneLevel
<1>2. t \in Seq(Level) /\ t # <<>> /\ Len(t) \in Nat /\ Len(t) >= 1
  BY DEF Topic
<1>3. k \in Seq(Level) /\ Len(k) >= 1 /\ Len(k) \in Nat
  <2>1. CASE t[1] \in DollarLevels
    BY <1>2, <2>1 DEF Tokenise
  <2>2. CASE t[1] \notin DollarLevels
    <3>1. k = <<"">> \o t
      BY <2>2 DEF Tokenise
    <3> DEFINE o == <<"">>
               s == o \o t
    <3>2. o \in Seq(Level) /\ Len(o) = 1
      BY <1>1
    <3>3. s \in Seq(Level) /\ Len(s) = Len(o) + Len(t)
      <4> HIDE DEF o
      <4> QED
        BY <1>2, <3>2, ConcatProperties
    <3>4. k = s
      BY <3>1
    <3> HIDE DEF s, o, k
    <3> QED
      BY <1>2, <3>2, <3>3, <3>4
  <2> QED
    BY <2>1, <2>2
<1> HIDE DEF k
<1>4. k[1] \in Level
  BY <1>3
<1>5. <<k[1]>> \in Seq(Level) /\ Len(<<k[1]>>) = 1 /\ <<k[1]>>[1] = k[1]
  BY <1>4
<1> DEFINE r == <<k[1]>>
<1>6. PathOf(t) = r \o k
  BY DEF PathOf, k
<1>7. r \o k \in Seq(Level) /\ Len(r \o k) = 1 + Len(k) /\ (r \o k)[1] = k[1]
  <2>1. r \in Seq(Level) /\ Len(r) = 1 /\ r[1] = k[1] /\ 1 \in 1..Len(r)
    BY <1>5
  <2> HIDE DEF r
  <2> QED
    BY <1>3, <2>1, ConcatProperties
<1> HIDE DEF r
<1>8. r \o k # <<>> /\ r # <<>>
  BY <1>3, <1>5, <1>7 DEF r
<1>9. <<k[1]>> \in Path
  BY <1>5, <1>8 DEF Path, r
<1> QED
  BY <1>2, <1>3, <1>4, <1>6, <1>7, <1>8, <1>9 DEF Path, k

\* The tree that mqtt3_db_open makes.
LEMMA EmptyTreeGood ==
  /\ Tree(EmptyTree) /\ Idle(EmptyTree) = {} /\ EmptyTree \in Maps(Path, Node)
  /\ \A p \in DOMAIN EmptyTree : Bare(EmptyTree[p]) /\ Len(p) = 1 /\ EmptyTree[p].subs = <<>>
<1> DEFINE R == {<<"">>, <<"$SYS">>}
<1>1. DOMAIN EmptyTree = R /\ \A p \in R : EmptyTree[p] = EmptyNode
  BY DEF EmptyTree
<1>2. \A p \in R : p \in Path /\ Len(p) = 1
  <2>1. "" \in Level /\ "$SYS" \in Level
    BY DEF Level
  <2> QED
    BY <2>1, OneLevel
<1>3. EmptyNode \in Node /\ Bare(EmptyNode) /\ EmptyNode.children = <<>> /\ EmptyNode.subs = <<>>
  <2>1. <<>> \in Leaves
    BY EmptyMap DEF Leaves
  <2>2. <<>> \in Seq(Level) /\ NoMsg \in Nat
    BY DEF NoMsg
  <2> HIDE DEF Leaves
  <2> QED
    BY <2>1, <2>2 DEF EmptyNode, Node, Bare
<1>4. EmptyTree \in Maps(Path, Node)
  <2>1. EmptyTree \in [R -> Node]
    BY <1>3 DEF EmptyTree
  <2>2. R \in SUBSET Path
    BY <1>2
  <2> HIDE DEF R
  <2> QED
    BY <1>1, <2>1, <2>2, MapsFacts
<1>5. IsFiniteSet(R)
  <2>1. IsFiniteSet({<<"">>})
    BY FS_Singleton
  <2>2. IsFiniteSet({<<"">>} \cup {<<"$SYS">>})
    BY <2>1, FS_AddElement
  <2> QED
    BY <2>2
<1> HIDE DEF R
<1>6. Linked(EmptyTree)
  <2>1. ASSUME NEW p \in R
        PROVE  EmptyTree[p].children = <<>> /\ DOMAIN EmptyTree[p].children = {} /\ ~(Len(p) > 1)
    <3>1. EmptyTree[p].children = <<>> /\ Len(p) = 1
      BY <1>1, <1>2, <1>3
    <3>2. DOMAIN <<>> = {}
      OBVIOUS
    <3> QED
      BY <3>1, <3>2
  <2> QED
    BY <1>1, <2>1 DEF Linked
<1>7. Idle(EmptyTree) = {}
  <2>1. ASSUME NEW p \in R PROVE ~(Len(p) > 1)
    <3>1. Len(p) = 1
      BY <1>2
    <3> QED
      BY <3>1
  <2> QED
    BY <1>1, <2>1 DEF Idle
<1> QED
  BY <1>1, <1>2, <1>3, <1>4, <1>5, <1>6, <1>7 DEF Tree

------------------------------------------------------------------------------
\* The tree changes, and the index with it, but no retained message.

Retains(t, p) == IF p \in DOMAIN t THEN t[p].retained ELSE NoMsg

\* The tree changes, but for its retained messages, together with the index in the contexts.
LEMMA TreeChanged ==
  ASSUME NEW d, NEW x \in Extra, Good(d, x), NEW e \in DbType,
         e.msg_store = d.msg_store, e.last_db_id = d.last_db_id,
         Tree(e.subs), Idle(e.subs) \subseteq OfTopics, \A p \in Path : Retains(e.subs, p) = Retains(d.subs, p),
         DOMAIN e.contexts = DOMAIN d.contexts,
         \A c \in DOMAIN d.contexts : /\ e.contexts[c].msgs = d.contexts[c].msgs
                                      /\ e.contexts[c].msg_count12 = d.contexts[c].msg_count12
                                      /\ e.contexts[c].sock = d.contexts[c].sock,
         Indexed(e)
  PROVE  Good(e, x) /\ Onward(d, e)
<1>1. Shape(e)
  BY DEF Good, Shape
<1>2. Counted(e)
  BY DEF Good, Counted, CountTrue
<1>3. d \in DbType /\ Tree(d.subs)
  BY DEF Good, Shape
<1>4. DOMAIN d.subs \in SUBSET Path /\ DOMAIN e.subs \in SUBSET Path
  BY <1>3, TreeFacts
<1>5. \A p \in DOMAIN e.subs : e.subs[p].retained # NoMsg => p \in DOMAIN d.subs /\ d.subs[p].retained = e.subs[p].retained
  BY <1>4 DEF Retains
<1>6. \A p \in DOMAIN d.subs : d.subs[p].retained # NoMsg => p \in DOMAIN e.subs /\ d.subs[p].retained = e.subs[p].retained
  BY <1>4 DEF Retains
<1>7. \A id : id # NoMsg => KeptAt(e.subs, id) = KeptAt(d.subs, id)
  BY <1>5, <1>6 DEF KeptAt
<1>8. Queues(e) = Queues(d)
  BY DEF Queues
<1>9. \A id \in DOMAIN e.msg_store : Held(e, id) = Held(d, id)
  <2>1. \A id \in DOMAIN d.msg_store : id # NoMsg
    BY <1>3, DbParts DEF NoMsg
  <2> QED
    BY <1>7, <1>8, <2>1 DEF Held
<1>10. Exact(e, x)
  BY <1>5, <1>9 DEF Exact, Good
<1>11. KeptTrue(e)
  BY <1>5 DEF KeptTrue, Good
<1> QED
  BY <1>1, <1>2, <1>10, <1>11 DEF Good, Onward

\* One node's retained message changes.
LEMMA RetainedChanged ==
  ASSUME NEW d, NEW x \in Extra, Good(d, x), NEW path \in DOMAIN d.subs, NEW k \in DOMAIN d.msg_store \cup {NoMsg},
         k # NoMsg => d.msg_store[k].topic # NoTopic /\ PathOf(d.msg_store[k].topic) = path,
         path \in OfTopics,
         NEW y \in Extra,
         \A j \in 1..MaxId : y[j] = x[j] + (IF d.subs[path].retained = j THEN 1 ELSE 0) - (IF k = j THEN 1 ELSE 0)
  PROVE  LET e == [d EXCEPT !.subs[path].retained = k]
         IN  /\ Good(e, y) /\ e \in DbType /\ DOMAIN e.subs = DOMAIN d.subs /\ e.subs[path].retained = k
             /\ \A p \in DOMAIN d.subs : /\ e.subs[p].subs = d.subs[p].subs
                                         /\ p # path => e.subs[p] = d.subs[p]
             /\ e.subs = [d.subs EXCEPT ![path].retained = k]
             /\ e.msg_store = d.msg_store /\ e.contexts = d.contexts /\ e.last_db_id = d.last_db_id
<1> DEFINE u == [d.subs[path] EXCEPT !.retained = k]
           t == [d.subs EXCEPT ![path] = u]
           e == [d EXCEPT !.subs[path].retained = k]
           old == d.subs[path].retained
<1>1. d \in DbType /\ Tree(d.subs) /\ Exact(d, x) /\ Shape(d)
  BY DEF Good, Shape
<1>2. /\ DOMAIN d.subs \in SUBSET Path /\ \A p \in DOMAIN d.subs : d.subs[p] \in Node
      /\ d.subs \in Maps(Path, Node)
  BY <1>1, TreeFacts DEF Tree
<1>3. k \in Nat /\ old \in Nat
  BY <1>1, <1>2, DbParts DEF NoMsg, Node
<1>4. u \in Node /\ u.subs = d.subs[path].subs /\ u.children = d.subs[path].children /\ u.retained = k
  BY <1>2, <1>3 DEF Node
<1> HIDE DEF u
<1>5. /\ DOMAIN t = DOMAIN d.subs /\ t[path] = u /\ \A p \in DOMAIN d.subs : p # path => t[p] = d.subs[p]
  OBVIOUS
<1>6. t \in Maps(Path, Node)
  <2>1. \A p \in DOMAIN t : t[p] \in Node
    BY <1>2, <1>4, <1>5
  <2>2. t \in [DOMAIN t -> Node] /\ DOMAIN t \in SUBSET Path
    BY <1>2, <1>5, <2>1
  <2> HIDE DEF t
  <2> QED
    BY <2>2, MapsFacts
<1>7. e = [d EXCEPT !.subs = t] /\ t = [d.subs EXCEPT ![path].retained = k]
  BY DEF u
<1> HIDE DEF t, e
<1>8. e \in DbType /\ e.subs = t /\ e.msg_store = d.msg_store /\ e.contexts = d.contexts /\ e.last_db_id = d.last_db_id
  BY <1>1, <1>6, <1>7, DbWith
<1>9. \A p \in DOMAIN d.subs : t[p].subs = d.subs[p].subs /\ t[p].children = d.subs[p].children
  BY <1>4, <1>5
<1>10. Tree(t)
  <2>1. DOMAIN t = DOMAIN d.subs
    BY <1>5
  <2>2. ASSUME NEW p \in DOMAIN t
        PROVE  /\ \A i, j \in DOMAIN t[p].children : t[p].children[i] = t[p].children[j] => i = j
               /\ \A i \in DOMAIN t[p].children : Append(p, t[p].children[i]) \in DOMAIN t
               /\ Len(p) > 1 => /\ Front(p) \in DOMAIN t
                                /\ \E i \in DOMAIN t[Front(p)].children : t[Front(p)].children[i] = p[Len(p)]
    <3>1. \A q \in DOMAIN t : t[q].children = d.subs[q].children
      BY <1>9, <2>1
    <3>2. /\ \A i, j \in DOMAIN d.subs[p].children : d.subs[p].children[i] = d.subs[p].children[j] => i = j
          /\ \A i \in DOMAIN d.subs[p].children : Append(p, d.subs[p].children[i]) \in DOMAIN t
          /\ Len(p) > 1 => /\ Front(p) \in DOMAIN t
                           /\ \E i \in DOMAIN d.subs[Front(p)].children : d.subs[Front(p)].children[i] = p[Len(p)]
      BY <1>1, <2>1 DEF Tree, Linked
    <3> QED
      BY <3>1, <3>2
  <2>3. IsFiniteSet(DOMAIN t)
    BY <1>1, <2>1 DEF Tree
  <2> QED
    BY <1>6, <2>2, <2>3 DEF Tree, Linked
<1>11. Idle(t) \subseteq OfTopics
  <2>1. \A p \in Idle(t) : p = path \/ p \in Idle(d.subs)
    BY <1>5 DEF Idle
  <2> QED
    BY <1>1, <2>1 DEF Shape
<1>12. Shape(e) /\ Indexed(e) /\ Counted(e)
  BY <1>1, <1>5, <1>8, <1>9, <1>10, <1>11 DEF Good, Shape, Indexed, Counted
<1>13. \A j \in 1..MaxId : y[j] # 0 => j \in DOMAIN e.msg_store
  <2>1. SUFFICES ASSUME NEW j \in 1..MaxId, j \notin DOMAIN d.msg_store PROVE y[j] = 0
    BY <1>8
  <2>2. x[j] = 0 /\ j # NoMsg
    BY <1>1, <2>1 DEF Exact, NoMsg
  <2>3. old # j /\ k # j
    BY <1>1, <2>1, <2>2 DEF Exact
  <2> QED
    BY <2>2, <2>3
<1>14. \A p \in DOMAIN e.subs : e.subs[p].retained # NoMsg => e.subs[p].retained \in DOMAIN e.msg_store
  BY <1>1, <1>4, <1>5, <1>8 DEF Exact
<1>15. KeptTrue(e)
  BY <1>4, <1>5, <1>8 DEF Good, KeptTrue
<1>16. ASSUME NEW j \in DOMAIN e.msg_store
       PROVE  e.msg_store[j].ref_count = Held(e, j) + y[j]
  <2>1. d.msg_store[j].ref_count = Held(d, j) + x[j]
    BY <1>1, <1>8, <1>16 DEF Exact
  <2> DEFINE A == KeptAt(d.subs, j)
             B == KeptAt(t, j)
             rest == A \ {path}
  <2>2. IsFiniteSet(A) /\ Cardinality(A) \in Nat /\ Cardinality(InQueues(Queues(d), j)) \in Nat
    BY <1>1, HeldFacts
  <2>3. A = rest \cup IF old = j THEN {path} ELSE {}
    BY DEF KeptAt
  <2>4. B = rest \cup IF k = j THEN {path} ELSE {}
    BY <1>4, <1>5 DEF KeptAt
  <2>5. IsFiniteSet(rest) /\ Cardinality(rest) \in Nat /\ path \notin rest
    <3>1. rest \in SUBSET A
      OBVIOUS
    <3> HIDE DEF A
    <3> QED
      BY <2>2, <3>1, FS_Subset, FS_CardinalityType
  <2> HIDE DEF A, B, rest
  <2>6. Cardinality(rest \cup {path}) = Cardinality(rest) + 1
    BY <2>5, FS_AddElement
  <2>7. Cardinality(A) = Cardinality(rest) + IF old = j THEN 1 ELSE 0
    <3>1. CASE old = j
      <4>1. A = rest \cup {path}
        BY <2>3, <3>1
      <4> QED
        BY <2>6, <3>1, <4>1
    <3>2. CASE old # j
      <4>1. A = rest
        BY <2>3, <3>2
      <4> QED
        BY <2>5, <3>2, <4>1
    <3> QED
      BY <3>1, <3>2
  <2>8. Cardinality(B) = Cardinality(rest) + IF k = j THEN 1 ELSE 0
    <3>1. CASE k = j
      <4>1. B = rest \cup {path}
        BY <2>4, <3>1
      <4> QED
        BY <2>6, <3>1, <4>1
    <3>2. CASE k # j
      <4>1. B = rest
        BY <2>4, <3>2
      <4> QED
        BY <2>5, <3>2, <4>1
    <3> QED
      BY <3>1, <3>2
  <2>9. j \in 1..MaxId /\ x[j] \in Nat /\ y[j] \in Nat
    BY <1>1, <1>8, <1>16, DbParts DEF Extra
  <2>10. Held(d, j) = Cardinality(A) + Cardinality(InQueues(Queues(d), j)) /\ Held(e, j) = Cardinality(B) + Cardinality(InQueues(Queues(d), j))
    BY <1>8 DEF Held, A, B, Queues
  <2>11. y[j] = x[j] + (IF old = j THEN 1 ELSE 0) - (IF k = j THEN 1 ELSE 0)
    BY <2>9
  <2>12. e.msg_store[j].ref_count = d.msg_store[j].ref_count
    BY <1>8
  <2> QED
    BY <2>1, <2>2, <2>5, <2>7, <2>8, <2>9, <2>10, <2>11, <2>12
<1>17. \A c \in DOMAIN e.contexts : \A i \in DOMAIN e.contexts[c].msgs : e.contexts[c].msgs[i].id \in DOMAIN e.msg_store
  BY <1>1, <1>8 DEF Exact
<1>18. Good(e, y)
  BY <1>12, <1>13, <1>14, <1>15, <1>16, <1>17 DEF Good, Exact
<1> QED
  BY <1>4, <1>5, <1>7, <1>8, <1>9, <1>18 DEF e

------------------------------------------------------------------------------
\* A node's retained message is replaced.

\* Returning a reference does not touch the tree.
LEMMA DerefBesideTree ==
  ASSUME NEW d \in DbType, NEW t \in Maps(Path, Node), NEW id
  PROVE  [Deref(d, id) EXCEPT !.subs = t] = Deref([d EXCEPT !.subs = t], id)
<1>1. [d EXCEPT !.subs = t].msg_store = d.msg_store
  BY DEF DbType
<1>2. CASE d.msg_store[id].ref_count = 1
  BY <1>1, <1>2 DEF Deref, DbType
<1>3. CASE d.msg_store[id].ref_count # 1
  <2>1. Deref(d, id) = Ref(d, id, -1) /\ Deref([d EXCEPT !.subs = t], id) = Ref([d EXCEPT !.subs = t], id, -1)
    BY <1>1, <1>3 DEF Deref
  <2> DEFINE s == [d.msg_store EXCEPT ![id].ref_count = @ + (-1)]
  <2>2. Ref(d, id, -1) = [d EXCEPT !.msg_store = s]
    BY DEF Ref
  <2>3. Ref([d EXCEPT !.subs = t], id, -1) = [[d EXCEPT !.subs = t] EXCEPT !.msg_store = s]
    BY <1>1 DEF Ref
  <2> HIDE DEF s
  <2> QED
    BY <2>1, <2>2, <2>3 DEF DbType
<1> QED
  BY <1>2, <1>3

\* What the routing of message id leaves of d: every client with its messages, every node
\* with its leaves, and every stored message but id and those that were retained.
RetainedOf(t) == {t[p].retained : p \in DOMAIN t}
\* What the callback at one node leaves of d: contexts, leaves and the tree's nodes stay, queues
\* grow, and freed is only a message that was retained.
Routed(d, e, id) ==
  /\ Onward(d, e) /\ Fewer(d, e)
  /\ DOMAIN e.subs = DOMAIN d.subs /\ \A p \in DOMAIN d.subs : e.subs[p].subs = d.subs[p].subs
  /\ RetainedOf(e.subs) \subseteq RetainedOf(d.subs) \cup {NoMsg, id}
  /\ \A k \in DOMAIN d.msg_store \ DOMAIN e.msg_store : k = id \/ k \in RetainedOf(d.subs)

\* One node after another.
LEMMA RoutedTwice ==
  ASSUME NEW a, NEW b, NEW c, NEW id, Routed(a, b, id), Routed(b, c, id), DOMAIN a.msg_store \subseteq Nat \ {NoMsg}
  PROVE  Routed(a, c, id)
<1>1. Onward(a, c)
  BY DEF Routed, Onward
<1>2. Fewer(a, c)
  BY DEF Routed, Fewer
<1>3. RetainedOf(c.subs) \subseteq RetainedOf(a.subs) \cup {NoMsg, id}
  BY DEF Routed
<1>4. \A k \in DOMAIN a.msg_store \ DOMAIN c.msg_store : k = id \/ k \in RetainedOf(a.subs)
  BY DEF Routed
<1> QED
  BY <1>1, <1>2, <1>3, <1>4 DEF Routed

\* The retained message of a node is replaced (subs.c:63): the old one is returned, the new one is
\* held.
LEMMA SetRetainedGood ==
  ASSUME NEW d, NEW x \in Extra, Good(d, x), NEW path \in DOMAIN d.subs, NEW id \in 1..MaxId, x[id] >= 1,
         path \in OfTopics, d.msg_store[id].topic # NoTopic, PathOf(d.msg_store[id].topic) = path
  PROVE  LET e == SetRetained(d, path, id)
         IN  Good(e, x) /\ e \in DbType /\ Routed(d, e, id)
<1> DEFINE old == d.subs[path].retained
           t == [d.subs EXCEPT ![path].retained = NoMsg]
           a == [d EXCEPT !.subs[path].retained = NoMsg]
           d1 == IF old # NoMsg THEN Deref(d, old) ELSE d
           b == [d1 EXCEPT !.subs[path].retained = NoMsg]
           e == SetRetained(d, path, id)
<1>1. d \in DbType /\ Exact(d, x) /\ Tree(d.subs)
  BY DEF Good, Shape
<1>2. d.subs[path] \in Node /\ d.subs \in Maps(Path, Node)
  BY <1>1, TreeFacts DEF Tree
<1>3. NoMsg \notin 1..MaxId /\ NoMsg \in DOMAIN d.msg_store \cup {NoMsg} /\ id \in DOMAIN d.msg_store /\ x[id] \in Nat
  BY <1>1 DEF Exact, Extra, NoMsg
<1>4. old # NoMsg => old \in 1..MaxId /\ old \in DOMAIN d.msg_store
  BY <1>1, DbParts DEF Exact
<1>5. /\ b.subs = t /\ d1.contexts = d.contexts /\ d1.last_db_id = d.last_db_id
      /\ b \in DbType /\ Good(b, x) /\ Fewer(d, b) /\ DOMAIN d.msg_store \subseteq DOMAIN b.msg_store \cup {old}
      /\ d1 \in DbType /\ d1.subs = d.subs /\ b.msg_store = d1.msg_store
      /\ b.contexts = d.contexts /\ b.last_db_id = d.last_db_id
      /\ DOMAIN t = DOMAIN d.subs /\ t[path].retained = NoMsg
      /\ \A p \in DOMAIN d.subs : t[p].subs = d.subs[p].subs /\ (p # path => t[p] = d.subs[p])
  <2>1. CASE old # NoMsg
    <3> DEFINE y == Plus(x, old, 1)
    <3>1. y \in Extra /\ y[old] >= 1 /\ Plus(y, old, -1) = x
      BY <1>4, <2>1, PlusBack
    <3>2. \A j \in 1..MaxId : y[j] = x[j] + (IF old = j THEN 1 ELSE 0) - (IF NoMsg = j THEN 1 ELSE 0)
      <4>1. x[old] \in Nat /\ x[old] + 1 \in Nat /\ 1 \in Int /\ old \in 1..MaxId
        BY <1>4, <2>1 DEF Extra
      <4>2. y[old] = x[old] + 1 /\ \A j \in 1..MaxId : j # old => y[j] = x[j]
        BY <4>1, PlusFacts
      <4>3. \A j \in 1..MaxId : NoMsg # j /\ x[j] \in Nat
        BY <1>3 DEF Extra
      <4> HIDE DEF old, y
      <4> QED
        BY <4>1, <4>2, <4>3
    <3> HIDE DEF y
    <3>3. /\ Good(a, y) /\ a \in DbType /\ a.subs = t /\ DOMAIN a.subs = DOMAIN d.subs /\ a.subs[path].retained = NoMsg
          /\ \A p \in DOMAIN d.subs : a.subs[p].subs = d.subs[p].subs /\ (p # path => a.subs[p] = d.subs[p])
          /\ a.msg_store = d.msg_store /\ a.contexts = d.contexts /\ a.last_db_id = d.last_db_id
      BY <1>3, <3>1, <3>2, RetainedChanged
    <3> DEFINE w == Deref(a, old)
    <3>4. /\ Good(w, x) /\ w \in DbType /\ w.subs = a.subs /\ w.contexts = a.contexts /\ w.last_db_id = a.last_db_id
          /\ Fewer(a, w) /\ DOMAIN a.msg_store \subseteq DOMAIN w.msg_store \cup {old}
      <4> HIDE DEF a, old
      <4> QED
        BY <1>4, <2>1, <3>1, <3>3, DerefGood
    <3>5. DerefOf(d, old, d1)
      BY <1>1, <1>4, <2>1, DerefParts
    <3>6. d1 \in DbType /\ d1.subs = d.subs /\ d1.contexts = d.contexts /\ d1.last_db_id = d.last_db_id
      BY <3>5 DEF DerefOf
    <3>7. b = w
      <4>1. t \in Maps(Path, Node)
        BY <3>3, DbParts
      <4>2. a = [d EXCEPT !.subs = t]
        OBVIOUS
      <4>3. [Deref(d, old) EXCEPT !.subs = t] = Deref([d EXCEPT !.subs = t], old)
        BY <1>1, <4>1, DerefBesideTree
      <4>4. b = [d1 EXCEPT !.subs = t]
        BY <3>6
      <4> HIDE DEF t, old, a, b
      <4> QED
        BY <2>1, <4>2, <4>3, <4>4
    <3>8. b.msg_store = d1.msg_store
      BY <3>6 DEF DbType
    <3>9. Fewer(d, w)
      <4> HIDE DEF w, a
      <4> QED
        BY <3>3, <3>4 DEF Fewer
    <3> HIDE DEF b, w, a, d1, t, old
    <3> QED
      BY <3>3, <3>4, <3>6, <3>7, <3>8, <3>9
  <2>2. CASE old = NoMsg
    <3>1. d1 = d /\ b = a
      BY <2>2
    <3>2. \A j \in 1..MaxId : x[j] = x[j] + (IF old = j THEN 1 ELSE 0) - (IF NoMsg = j THEN 1 ELSE 0)
      BY <1>3, <2>2 DEF Extra
    <3>3. /\ Good(a, x) /\ a \in DbType /\ a.subs = t /\ DOMAIN a.subs = DOMAIN d.subs /\ a.subs[path].retained = NoMsg
          /\ \A p \in DOMAIN d.subs : a.subs[p].subs = d.subs[p].subs /\ (p # path => a.subs[p] = d.subs[p])
          /\ a.msg_store = d.msg_store /\ a.contexts = d.contexts /\ a.last_db_id = d.last_db_id
      <4>1. PICK y \in Extra : y = x
        OBVIOUS
      <4>2. \A j \in 1..MaxId : y[j] = x[j] + (IF d.subs[path].retained = j THEN 1 ELSE 0) - (IF NoMsg = j THEN 1 ELSE 0)
        BY <3>2, <4>1
      <4> QED
        BY <1>3, <4>1, <4>2, RetainedChanged
    <3>4. Fewer(d, a)
      BY <3>3 DEF Fewer
    <3> HIDE DEF b, a, d1, t, old
    <3> QED
      BY <1>1, <3>1, <3>3, <3>4
  <2> QED
    BY <2>1, <2>2
<1>6. e = IF d1.msg_store[id].empty THEN b ELSE Ref([d1 EXCEPT !.subs[path].retained = id], id, 1)
  BY DEF SetRetained
<1>7. old \in RetainedOf(d.subs)
  BY DEF RetainedOf
<1>8. id \in DOMAIN b.msg_store /\ b.msg_store[id].topic # NoTopic /\ PathOf(b.msg_store[id].topic) = path
  <2> HIDE DEF b, t, d1, old
  <2>1. id \in DOMAIN b.msg_store
    <3>1. Exact(b, x)
      BY <1>5 DEF Good
    <3>2. x[id] # 0
      BY <1>3
    <3> QED
      BY <3>1, <3>2 DEF Exact
  <2> QED
    BY <1>5, <2>1 DEF Fewer
<1> DEFINE g == [b EXCEPT !.subs[path].retained = id]
           y == Plus(x, id, -1)
<1>9. g = [d1 EXCEPT !.subs[path].retained = id]
  <2> DEFINE s == [d.subs EXCEPT ![path].retained = id]
  <2>1. [t EXCEPT ![path].retained = id] = s
    <3>1. [[d.subs[path] EXCEPT !.retained = NoMsg] EXCEPT !.retained = id] = [d.subs[path] EXCEPT !.retained = id]
      BY <1>2 DEF Node
    <3>2. d.subs = [p \in DOMAIN d.subs |-> d.subs[p]]
      BY <1>2, MapsFacts
    <3> QED
      BY <3>1, <3>2
  <2>2. g = [b EXCEPT !.subs = s]
    <3> HIDE DEF b, t
    <3>1. g = [b EXCEPT !.subs = [b.subs EXCEPT ![path].retained = id]]
      OBVIOUS
    <3> QED
      BY <1>5, <2>1, <3>1
  <2>3. [d1 EXCEPT !.subs[path].retained = id] = [d1 EXCEPT !.subs = s]
    <3> HIDE DEF d1
    <3> QED
      BY <1>5
  <2> HIDE DEF s, t
  <2>4. b = [d1 EXCEPT !.subs = t]
    <3> HIDE DEF d1
    <3> QED
      BY <1>5 DEF t
  <2> HIDE DEF b, d1, g
  <2>5. [b EXCEPT !.subs = s] = [d1 EXCEPT !.subs = s]
    BY <1>5, <2>4 DEF DbType
  <2> QED
    BY <2>2, <2>3, <2>5
<1>10. /\ Good(g, y) /\ y \in Extra /\ g \in DbType /\ DOMAIN g.subs = DOMAIN d.subs /\ g.subs[path].retained = id
       /\ \A p \in DOMAIN d.subs : g.subs[p].subs = t[p].subs /\ (p # path => g.subs[p] = t[p])
       /\ g.msg_store = b.msg_store /\ g.contexts = b.contexts /\ g.last_db_id = b.last_db_id
  <2>1. y \in Extra
    BY PlusAgain
  <2>2. y[id] = x[id] - 1 /\ \A j \in 1..MaxId : j # id => y[j] = x[j]
    <3>1. -1 \in Int /\ x[id] + (-1) \in Nat /\ x[id] + (-1) = x[id] - 1
      BY <1>3
    <3> QED
      BY <3>1, PlusFacts
  <2> HIDE DEF y, b, t
  <2>3. b.subs[path].retained = NoMsg /\ path \in DOMAIN b.subs
    BY <1>5
  <2>4. \A j \in 1..MaxId : y[j] = x[j] + (IF b.subs[path].retained = j THEN 1 ELSE 0) - (IF id = j THEN 1 ELSE 0)
    <3>1. \A j \in 1..MaxId : NoMsg # j /\ x[j] \in Nat
      BY <1>3 DEF Extra
    <3> QED
      BY <2>2, <2>3, <3>1
  <2>5. /\ Good(g, y) /\ g \in DbType /\ DOMAIN g.subs = DOMAIN b.subs /\ g.subs[path].retained = id
        /\ \A p \in DOMAIN b.subs : g.subs[p].subs = b.subs[p].subs /\ (p # path => g.subs[p] = b.subs[p])
        /\ g.msg_store = b.msg_store /\ g.contexts = b.contexts /\ g.last_db_id = b.last_db_id
    <3>1. id \in DOMAIN b.msg_store \cup {NoMsg}
      BY <1>8
    <3>2. b.msg_store[id].topic # NoTopic /\ PathOf(b.msg_store[id].topic) = path /\ Good(b, x)
      BY <1>5, <1>8
    <3> QED
      BY <2>1, <2>3, <2>4, <3>1, <3>2, RetainedChanged
  <2> HIDE DEF g
  <2> QED
    BY <1>5, <2>1, <2>5
<1> DEFINE h == Ref(g, id, 1)
<1>11. Good(h, x) /\ h \in DbType /\ h.subs = g.subs /\ h.contexts = g.contexts /\ h.last_db_id = g.last_db_id
       /\ DOMAIN h.msg_store = DOMAIN g.msg_store /\ Fewer(g, h)
  <2>1. id \in DOMAIN g.msg_store /\ 1 \in Nat /\ 1 \in Int
    <3> HIDE DEF g, b, y, t
    <3> QED
      BY <1>8, <1>10
  <2>2. Plus(y, id, 1) = x
    BY PlusAgain
  <2> HIDE DEF g, y
  <2>3. Good(h, Plus(y, id, 1))
    BY <1>10, <2>1, RefGood
  <2>4. RefOf(g, id, 1, h)
    BY <1>10, <2>1, RefParts
  <2> HIDE DEF h
  <2> QED
    BY <2>2, <2>3, <2>4 DEF RefOf
<1>12. CASE d1.msg_store[id].empty
  <2>1. e = b
    BY <1>6, <1>12
  <2>2. Onward(d, b)
    BY <1>5 DEF Onward
  <2>3. RetainedOf(b.subs) \subseteq RetainedOf(d.subs) \cup {NoMsg, id}
    <3> HIDE DEF b, t
    <3>1. ASSUME NEW p \in DOMAIN d.subs
          PROVE  b.subs[p].retained \in RetainedOf(d.subs) \cup {NoMsg, id}
      BY <1>5 DEF RetainedOf
    <3> QED
      BY <1>5, <3>1 DEF RetainedOf
  <2> HIDE DEF e, b, d1, t, old
  <2> QED
    BY <1>5, <1>7, <2>1, <2>2, <2>3 DEF Routed, e
<1>13. CASE ~d1.msg_store[id].empty
  <2>1. e = h
    BY <1>6, <1>9, <1>13
  <2> HIDE DEF e, b, d1, t, old, g, h
  <2>2. Onward(d, h)
    BY <1>5, <1>10, <1>11 DEF Onward
  <2>3. RetainedOf(h.subs) \subseteq RetainedOf(d.subs) \cup {NoMsg, id}
    <3>1. ASSUME NEW p \in DOMAIN d.subs
          PROVE  h.subs[p].retained \in RetainedOf(d.subs) \cup {NoMsg, id}
      BY <1>5, <1>10, <1>11 DEF RetainedOf
    <3> QED
      BY <1>10, <1>11, <3>1 DEF RetainedOf
  <2>4. Fewer(d, h)
    BY <1>5, <1>10, <1>11 DEF Fewer
  <2> QED
    BY <1>5, <1>7, <1>10, <1>11, <2>1, <2>2, <2>3, <2>4 DEF Routed, e
<1> QED
  BY <1>12, <1>13

------------------------------------------------------------------------------
\* Recursion over a tree, from a node to its children.
Kid(t, p, i) == Append(p, t[p].children[i])
Kids(t, p) == 1..Len(t[p].children)

\* The children of a node are nodes, each of a name of its own.
LEMMA KidFacts ==
  ASSUME NEW t, Tree(t), NEW p \in DOMAIN t
  PROVE  /\ p \in Path /\ Len(p) \in Nat /\ Len(p) >= 1 /\ Len(t[p].children) \in Nat
         /\ \A i \in Kids(t, p) : /\ Kid(t, p, i) \in DOMAIN t /\ Len(Kid(t, p, i)) = Len(p) + 1
                                  /\ t[p].children[i] \in Level
         /\ \A i, j \in Kids(t, p) : Kid(t, p, i) = Kid(t, p, j) => i = j
<1>1. /\ p \in Path /\ t[p].children \in Seq(Level) /\ DOMAIN t[p].children = Kids(t, p)
      /\ Len(t[p].children) \in Nat /\ \A i \in Kids(t, p) : t[p].children[i] \in Level
  BY TreeFacts DEF Kids
<1>2. /\ \A i \in Kids(t, p) : Kid(t, p, i) \in DOMAIN t
      /\ \A i, j \in Kids(t, p) : t[p].children[i] = t[p].children[j] => i = j
  BY <1>1 DEF Tree, Linked, Kid
<1>3. \A i \in Kids(t, p) : Len(Kid(t, p, i)) = Len(p) + 1 /\ Kid(t, p, i)[Len(p) + 1] = t[p].children[i]
  BY <1>1, FrontFacts DEF Kid
<1>4. Len(p) \in Nat /\ Len(p) >= 1
  BY <1>1, FrontFacts
<1>5. ASSUME NEW i \in Kids(t, p), NEW j \in Kids(t, p), Kid(t, p, i) = Kid(t, p, j) PROVE i = j
  <2>1. t[p].children[i] = t[p].children[j]
    BY <1>3, <1>5
  <2> QED
    BY <1>2, <2>1
<1> QED
  BY <1>1, <1>2, <1>3, <1>4, <1>5

\* No path of a tree is longer than some number.
LEMMA Depth ==
  ASSUME NEW t, Tree(t)
  PROVE  \E n \in Nat : \A p \in DOMAIN t : Len(p) <= n
<1> DEFINE f == [p \in DOMAIN t |-> Len(p)]
           S == {f[p] : p \in DOMAIN t}
<1>1. \A p \in DOMAIN t : f[p] = Len(p) /\ f[p] \in Nat /\ f[p] \in S
  BY KidFacts
<1>2. IsFiniteSet(S)
  <2>1. f \in Surjection(DOMAIN t, S)
    BY DEF Surjection
  <2>2. IsFiniteSet(DOMAIN t)
    BY DEF Tree
  <2> HIDE DEF f, S
  <2> QED
    BY <2>1, <2>2, FS_Surjection
<1>3. S \in SUBSET Int /\ S \in SUBSET Nat
  BY <1>1
<1> HIDE DEF f, S
<1> DEFINE n == Cardinality(S)
<1>4. n \in Nat
  BY <1>2, FS_CardinalityType
<1>5. /\ DOMAIN InOrder(S) = 1..n /\ \A i \in 1..n : InOrder(S)[i] \in S
      /\ \A a \in S : \E i \in 1..n : InOrder(S)[i] = a
      /\ \A i, j \in 1..n : i < j => InOrder(S)[i] < InOrder(S)[j]
  BY <1>2, <1>3, InOrderFacts
<1> HIDE DEF n
<1>6. CASE n = 0
  <2>1. \A p \in DOMAIN t : FALSE
    BY <1>1, <1>5, <1>6
  <2> QED
    BY <2>1
<1>7. CASE n # 0
  <2>0. n \in 1..n
    BY <1>4, <1>7
  <2>1. n \in 1..n /\ InOrder(S)[n] \in Nat
    BY <1>3, <1>5, <2>0
  <2>2. ASSUME NEW a \in S PROVE a <= InOrder(S)[n]
    <3>1. PICK i \in 1..n : InOrder(S)[i] = a
      BY <1>5
    <3>2. i = n \/ i < n
      BY <1>4
    <3>3. a \in Nat
      BY <1>3
    <3> QED
      BY <1>5, <2>1, <3>1, <3>2, <3>3
  <2> QED
    BY <1>1, <2>1, <2>2
<1> QED
  BY <1>6, <1>7

\* The values g at the children of a node.
AtKids(t, g, p) == [i \in Kids(t, p) |-> g[Kid(t, p, i)]]

\* F makes a value of W of a node and its children's values.
FoldsTo(t, W, F) == \A p \in DOMAIN t : \A h \in [Kids(t, p) -> W] : F[<<p, h>>] \in W
Folded(t, F, g) == \A p \in DOMAIN t : g[p] = F[<<p, AtKids(t, g, p)>>]

\* A function may be defined by what a node makes of its children's values.
LEMMA TreeRecursion ==
  ASSUME NEW t, Tree(t), NEW W, NEW w \in W, NEW F, FoldsTo(t, W, F)
  PROVE  \E g \in [DOMAIN t -> W] : Folded(t, F, g)
<1> DEFINE D == DOMAIN t
           B == [D -> W]
           Next1(g) == [p \in D |-> F[<<p, AtKids(t, g, p)>>]]
<1>0. \A p \in D : \A h \in [Kids(t, p) -> W] : F[<<p, h>>] \in W
  BY DEF FoldsTo
<1>1. PICK n \in Nat : \A p \in D : Len(p) <= n
  BY Depth
<1> DEFINE True(g, p) == g[p] = F[<<p, AtKids(t, g, p)>>]
           J == [i \in 0..n |-> {g \in B : \A p \in D : Len(p) > n - i => True(g, p)}]
           a == [p \in D |-> w]
           G == [q \in (1..n) \X B |-> Next1(q[2])]
<1>2. \A p \in D : /\ Len(p) \in Nat /\ Len(p) >= 1
                   /\ \A i \in Kids(t, p) : Kid(t, p, i) \in D /\ Len(Kid(t, p, i)) = Len(p) + 1
  BY KidFacts
<1>3. ASSUME NEW g \in B PROVE Next1(g) \in B /\ \A p \in D : Next1(g)[p] = F[<<p, AtKids(t, g, p)>>]
  <2>1. \A p \in D : AtKids(t, g, p) \in [Kids(t, p) -> W]
    BY <1>2 DEF AtKids
  <2> QED
    BY <1>0, <2>1
<1>4. a \in J[0]
  <2>1. a \in B /\ 0 \in 0..n
    OBVIOUS
  <2>2. \A p \in D : ~(Len(p) > n - 0)
    BY <1>1, <1>2
  <2> HIDE DEF a
  <2> QED
    BY <2>1, <2>2
<1>5. ASSUME NEW i \in 1..n, NEW g \in J[i - 1] PROVE G[<<i, g>>] \in J[i]
  <2>1. i \in 0..n /\ i - 1 \in 0..n
    OBVIOUS
  <2>2. g \in B /\ \A p \in D : Len(p) > n - (i - 1) => True(g, p)
    BY <2>1
  <2> DEFINE h == Next1(g)
  <2>3. G[<<i, g>>] = h
    BY <2>2
  <2>4. h \in B /\ \A p \in D : h[p] = F[<<p, AtKids(t, g, p)>>]
    BY <1>3, <2>2
  <2> HIDE DEF h, G
  <2>5. ASSUME NEW p \in D, Len(p) > n - i PROVE True(h, p)
    <3>1. \A k \in Kids(t, p) : Kid(t, p, k) \in D /\ Len(Kid(t, p, k)) > n - (i - 1)
      BY <1>2, <2>5
    <3>2. \A k \in Kids(t, p) : g[Kid(t, p, k)] = h[Kid(t, p, k)]
      BY <2>2, <2>4, <3>1
    <3>3. AtKids(t, g, p) = AtKids(t, h, p)
      BY <3>2 DEF AtKids
    <3> QED
      BY <2>4, <3>3
  <2> HIDE DEF True
  <2> QED
    BY <2>1, <2>3, <2>4, <2>5
<1> HIDE DEF G, a
<1>6. \A g \in J[n] : g \in B /\ \A p \in D : True(g, p)
  <2>1. n \in 0..n /\ \A p \in D : Len(p) > n - n
    BY <1>2
  <2> HIDE DEF True
  <2> QED
    BY <2>1
<1> HIDE DEF J
<1>7. \A i \in 1..n : \A g \in J[i - 1] : G[<<i, g>>] \in J[i]
  BY <1>5
<1>8. PICK g : Loop(g, n, a, G) /\ \A i \in 0..n : g[i] \in J[i]
  BY ONLY n \in Nat, <1>4, <1>7, LoopExists
<1>9. g[n] \in B /\ \A p \in D : True(g[n], p)
  BY <1>6, <1>8
<1> QED
  BY <1>9 DEF Folded

\* What every node has if it has it whenever its children have, every node has.
LEMMA TreeInduction ==
  ASSUME NEW t, Tree(t), NEW P,
         \A p \in DOMAIN t : (\A i \in Kids(t, p) : Kid(t, p, i) \in P) => p \in P
  PROVE  \A p \in DOMAIN t : p \in P
<1>1. PICK n \in Nat : \A p \in DOMAIN t : Len(p) <= n
  BY Depth
<1>2. \A p \in DOMAIN t : /\ Len(p) \in Nat /\ Len(p) >= 1
                          /\ \A i \in Kids(t, p) : Kid(t, p, i) \in DOMAIN t /\ Len(Kid(t, p, i)) = Len(p) + 1
  BY KidFacts
<1>3. SUFFICES ASSUME NEW q \in DOMAIN t, q \notin P PROVE FALSE
  OBVIOUS
<1> DEFINE T == {m \in Nat : \E p \in DOMAIN t : p \notin P /\ n - Len(p) = m}
<1>4. T \in SUBSET Nat /\ T # {}
  <2>1. n - Len(q) \in Nat
    BY <1>1, <1>2
  <2> QED
    BY <1>3, <2>1
<1>5. PICK m \in T : \A k \in T : m <= k
  <2> HIDE DEF T
  <2> QED
    BY <1>4, Least
<1>6. PICK p \in DOMAIN t : p \notin P /\ n - Len(p) = m
  BY <1>5
<1>7. ASSUME NEW i \in Kids(t, p) PROVE Kid(t, p, i) \in P
  <2>1. Kid(t, p, i) \in DOMAIN t /\ Len(Kid(t, p, i)) = Len(p) + 1 /\ Len(p) \in Nat
    BY <1>2
  <2>2. n - Len(Kid(t, p, i)) \in Nat /\ n - Len(Kid(t, p, i)) < m
    BY <1>1, <1>6, <2>1
  <2>3. Kid(t, p, i) \notin P => n - Len(Kid(t, p, i)) \in T
    BY <2>1, <2>2
  <2>4. m \in Nat
    BY <1>4, <1>5
  <2> HIDE DEF T
  <2> QED
    BY <1>5, <2>2, <2>3, <2>4
<1> QED
  BY <1>6, <1>7

------------------------------------------------------------------------------
(* The two walks of the tree come to nodes that exist.                     *)

\* The walks of the tree come to nodes of the tree only.
LEMMA VisitType ==
  ASSUME NEW t, Tree(t), NEW topic \in Topic
  PROVE  Visit(t, topic) \in Seq(DOMAIN t)
<1> DEFINE D == DOMAIN t
           W == Seq(D)
           tokens == Tokenise(topic)
           n == Len(tokens)
           Part(p, i, v) == IF Len(p) <= n /\ t[p].children[i] \in {tokens[Len(p)], "+"}
                            THEN v \o IF Len(p) = n THEN <<Kid(t, p, i)>> ELSE <<>>
                            ELSE IF t[p].children[i] = "#" /\ t[Kid(t, p, i)].children = <<>> THEN <<Kid(t, p, i)>> ELSE <<>>
           Of1(g, p) == FlattenSeq([i \in Kids(t, p) |-> Part(p, i, g[Kid(t, p, i)])])
           P(h) == h = [p \in D |-> Of1(h, p)]
           f == CHOOSE h : P(h)
<1>1. Visit(t, topic) = IF <<tokens[1]>> \in D THEN f[<<tokens[1]>>] ELSE <<>>
  BY DEF Visit, Kids, Kid
<1>2. \A p \in D : /\ \A i \in Kids(t, p) : Kid(t, p, i) \in D
                   /\ Len(t[p].children) \in Nat /\ Kids(t, p) = 1..Len(t[p].children)
  BY KidFacts DEF Kids
<1>3. ASSUME NEW p \in D, NEW i \in Kids(t, p), NEW v \in W PROVE Part(p, i, v) \in W
  <2>1. <<Kid(t, p, i)>> \in W /\ <<>> \in W
    BY <1>2
  <2>2. \A u \in W : v \o u \in W
    BY ConcatProperties
  <2> HIDE DEF W, n
  <2> QED
    BY <2>1, <2>2
<1> HIDE DEF Part, f
<1>4. ASSUME NEW p \in D, NEW h \in [Kids(t, p) -> W]
      PROVE  FlattenSeq([i \in Kids(t, p) |-> Part(p, i, h[i])]) \in W
  <2> DEFINE s == [i \in Kids(t, p) |-> Part(p, i, h[i])]
  <2>1. s \in [1..Len(t[p].children) -> W] /\ Len(t[p].children) \in Nat
    BY <1>2, <1>3
  <2> HIDE DEF s, D
  <2>2. FlattenSeq(s) \in W
    BY <2>1, FlattenFacts
  <2> QED
    BY <2>2 DEF s
<1> DEFINE F == [q \in UNION {{p} \X [Kids(t, p) -> W] : p \in D} |->
                   FlattenSeq([i \in Kids(t, q[1]) |-> Part(q[1], i, q[2][i])])]
<1>5. \A p \in D : \A h \in [Kids(t, p) -> W] :
        F[<<p, h>>] = FlattenSeq([i \in Kids(t, p) |-> Part(p, i, h[i])]) /\ F[<<p, h>>] \in W
  <2>1. SUFFICES ASSUME NEW p \in D, NEW h \in [Kids(t, p) -> W]
                 PROVE  F[<<p, h>>] = FlattenSeq([i \in Kids(t, p) |-> Part(p, i, h[i])]) /\ F[<<p, h>>] \in W
    OBVIOUS
  <2>2. <<p, h>> \in UNION {{x} \X [Kids(t, x) -> W] : x \in D}
    <3>1. <<p, h>> \in {p} \X [Kids(t, p) -> W]
      OBVIOUS
    <3> QED
      BY <3>1
  <2>3. F[<<p, h>>] = FlattenSeq([i \in Kids(t, p) |-> Part(p, i, h[i])])
    BY <2>2
  <2> QED
    BY <1>4, <2>3
<1> HIDE DEF F
<1>6. PICK g \in [D -> W] : \A p \in D : g[p] = F[<<p, AtKids(t, g, p)>>]
  <2>1. <<>> \in W
    OBVIOUS
  <2> HIDE DEF D, W
  <2>2. FoldsTo(t, W, F)
    BY <1>5 DEF D, FoldsTo
  <2>3. PICK g \in [DOMAIN t -> W] : Folded(t, F, g)
    BY <2>1, <2>2, TreeRecursion
  <2> QED
    BY <2>3 DEF D, Folded
<1>7. P(g)
  <2>1. ASSUME NEW p \in D PROVE g[p] = Of1(g, p)
    <3>1. AtKids(t, g, p) \in [Kids(t, p) -> W] /\ \A i \in Kids(t, p) : AtKids(t, g, p)[i] = g[Kid(t, p, i)]
      BY <1>2, <1>6 DEF AtKids
    <3>2. [i \in Kids(t, p) |-> Part(p, i, AtKids(t, g, p)[i])] = [i \in Kids(t, p) |-> Part(p, i, g[Kid(t, p, i)])]
      BY <3>1
    <3> QED
      BY <1>5, <1>6, <3>1, <3>2
  <2> HIDE DEF Of1
  <2>2. g = [p \in D |-> g[p]]
    OBVIOUS
  <2> QED
    BY <2>1, <2>2
<1>8. P(f)
  <2> HIDE DEF P
  <2> QED
    BY <1>7 DEF f
<1>9. \A p \in D : f[p] = Of1(f, p)
  <2> HIDE DEF Of1
  <2> QED
    BY <1>8
<1> HIDE DEF P
<1> DEFINE S == {p \in D : f[p] \in W}
<1>10. ASSUME NEW p \in D, \A i \in Kids(t, p) : Kid(t, p, i) \in S PROVE p \in S
  <2> DEFINE h == [i \in Kids(t, p) |-> f[Kid(t, p, i)]]
  <2>1. h \in [Kids(t, p) -> W] /\ \A i \in Kids(t, p) : h[i] = f[Kid(t, p, i)]
    BY <1>10
  <2> HIDE DEF h, W
  <2>2. [i \in Kids(t, p) |-> Part(p, i, h[i])] = [i \in Kids(t, p) |-> Part(p, i, f[Kid(t, p, i)])]
    BY <2>1
  <2>3. Of1(f, p) \in W
    BY <1>4, <2>1, <2>2
  <2> HIDE DEF Of1
  <2> QED
    BY <1>9, <2>3
<1>11. \A p \in D : p \in S
  <2> HIDE DEF S
  <2> QED
    BY <1>10, TreeInduction
<1>12. <<>> \in W
  OBVIOUS
<1> HIDE DEF Of1
<1> QED
  BY <1>1, <1>11, <1>12

\* The walk of mqtt3_retain_queue comes to nodes that exist.
LEMMA RetainVisitType ==
  ASSUME NEW t, Tree(t), NEW filter \in Topic
  PROVE  RetainVisit(t, filter) \in Seq(DOMAIN t)
<1> DEFINE D == DOMAIN t
           W == Seq(D)
           tokens == Tokenise(filter)
           n == Len(tokens)
           Hash(k) == k = n /\ tokens[k] = "#"
           One(p, i, v) == <<Kid(t, p, i)>> \o v
           All(g, p) == FlattenSeq([i \in Kids(t, p) |-> One(p, i, g[Kid(t, p, i)])])
           PB(h) == h = [p \in D |-> All(h, p)]
           below == CHOOSE h : PB(h)
           Part(p, i, v) ==
             IF t[p].children[i] = "+" \/ tokens[Len(p)] \notin {t[p].children[i], "+"} THEN <<>>
             ELSE IF Len(p) = n THEN <<Kid(t, p, i)>>
             ELSE v \o IF \/ Hash(Len(p) + 1) /\ t[Kid(t, p, i)].children # <<>>
                          \/ i = Len(t[p].children) /\ tokens[Len(p) + 1] = "#" /\ Len(p) > 1
                       THEN <<Kid(t, p, i)>> ELSE <<>>
           Of1(g, p) == IF Hash(Len(p)) THEN below[p]
                        ELSE FlattenSeq([i \in Kids(t, p) |-> Part(p, i, g[Kid(t, p, i)])])
           P(h) == h = [p \in D |-> Of1(h, p)]
           f == CHOOSE h : P(h)
<1>1. RetainVisit(t, filter) = IF <<tokens[1]>> \in D THEN f[<<tokens[1]>>] ELSE <<>>
  BY DEF RetainVisit, Kids, Kid
<1>2. \A p \in D : /\ \A i \in Kids(t, p) : Kid(t, p, i) \in D
                   /\ Len(t[p].children) \in Nat /\ Kids(t, p) = 1..Len(t[p].children)
  BY KidFacts DEF Kids
<1>3. ASSUME NEW p \in D, NEW i \in Kids(t, p), NEW v \in W
      PROVE  Part(p, i, v) \in W /\ One(p, i, v) \in W
  <2>1. <<Kid(t, p, i)>> \in W /\ <<>> \in W
    BY <1>2
  <2>2. \A u, x \in W : x \o u \in W
    BY ConcatProperties
  <2> HIDE DEF W, n, Hash
  <2> QED
    BY <2>1, <2>2
<1> HIDE DEF Part, One, f, below, Hash
<1>4. ASSUME NEW p \in D, NEW h \in [Kids(t, p) -> W]
      PROVE  /\ FlattenSeq([i \in Kids(t, p) |-> Part(p, i, h[i])]) \in W
             /\ FlattenSeq([i \in Kids(t, p) |-> One(p, i, h[i])]) \in W
  <2> DEFINE s == [i \in Kids(t, p) |-> Part(p, i, h[i])]
             r == [i \in Kids(t, p) |-> One(p, i, h[i])]
  <2>1. s \in [1..Len(t[p].children) -> W] /\ r \in [1..Len(t[p].children) -> W] /\ Len(t[p].children) \in Nat
    BY <1>2, <1>3
  <2> HIDE DEF s, r, D
  <2>2. FlattenSeq(s) \in W /\ FlattenSeq(r) \in W
    BY <2>1, FlattenFacts
  <2> QED
    BY <2>2 DEF s, r
<1>12. <<>> \in W
  OBVIOUS
<1>b. \A p \in D : below[p] \in W
  <2> DEFINE F == [q \in UNION {{p} \X [Kids(t, p) -> W] : p \in D} |->
                     FlattenSeq([i \in Kids(t, q[1]) |-> One(q[1], i, q[2][i])])]
  <2>1. \A p \in D : \A h \in [Kids(t, p) -> W] :
          F[<<p, h>>] = FlattenSeq([i \in Kids(t, p) |-> One(p, i, h[i])]) /\ F[<<p, h>>] \in W
    <3>1. SUFFICES ASSUME NEW p \in D, NEW h \in [Kids(t, p) -> W]
                   PROVE  F[<<p, h>>] = FlattenSeq([i \in Kids(t, p) |-> One(p, i, h[i])]) /\ F[<<p, h>>] \in W
      OBVIOUS
    <3>2. <<p, h>> \in UNION {{x} \X [Kids(t, x) -> W] : x \in D}
      <4>1. <<p, h>> \in {p} \X [Kids(t, p) -> W]
        OBVIOUS
      <4> QED
        BY <4>1
    <3>3. F[<<p, h>>] = FlattenSeq([i \in Kids(t, p) |-> One(p, i, h[i])])
      BY <3>2
    <3> QED
      BY <1>4, <3>3
  <2> HIDE DEF F
  <2>2. PICK g \in [D -> W] : \A p \in D : g[p] = F[<<p, AtKids(t, g, p)>>]
    <3> HIDE DEF D, W
    <3>1. FoldsTo(t, W, F)
      BY <2>1 DEF D, FoldsTo
    <3>2. PICK g \in [DOMAIN t -> W] : Folded(t, F, g)
      BY <1>12, <3>1, TreeRecursion
    <3> QED
      BY <3>2 DEF D, Folded
  <2>3. PB(g)
    <3>1. ASSUME NEW p \in D PROVE g[p] = All(g, p)
      <4>1. AtKids(t, g, p) \in [Kids(t, p) -> W] /\ \A i \in Kids(t, p) : AtKids(t, g, p)[i] = g[Kid(t, p, i)]
        BY <1>2, <2>2 DEF AtKids
      <4>2. [i \in Kids(t, p) |-> One(p, i, AtKids(t, g, p)[i])] = [i \in Kids(t, p) |-> One(p, i, g[Kid(t, p, i)])]
        BY <4>1
      <4> QED
        BY <2>1, <2>2, <4>1, <4>2
    <3> HIDE DEF All
    <3>2. g = [p \in D |-> g[p]]
      OBVIOUS
    <3> QED
      BY <3>1, <3>2
  <2>4. PB(below)
    <3> HIDE DEF PB
    <3> QED
      BY <2>3 DEF below
  <2>5. \A p \in D : below[p] = All(below, p)
    <3> HIDE DEF All
    <3> QED
      BY <2>4
  <2> HIDE DEF PB
  <2> DEFINE S == {p \in D : below[p] \in W}
  <2>6. ASSUME NEW p \in D, \A i \in Kids(t, p) : Kid(t, p, i) \in S PROVE p \in S
    <3> DEFINE h == [i \in Kids(t, p) |-> below[Kid(t, p, i)]]
    <3>1. h \in [Kids(t, p) -> W] /\ \A i \in Kids(t, p) : h[i] = below[Kid(t, p, i)]
      BY <2>6
    <3> HIDE DEF h, W
    <3>2. [i \in Kids(t, p) |-> One(p, i, h[i])] = [i \in Kids(t, p) |-> One(p, i, below[Kid(t, p, i)])]
      BY <3>1
    <3>3. All(below, p) \in W
      BY <1>4, <3>1, <3>2
    <3> HIDE DEF All
    <3> QED
      BY <2>5, <3>3
  <2>7. \A p \in D : p \in S
    <3> HIDE DEF S
    <3> QED
      BY <2>6, TreeInduction
  <2> QED
    BY <2>7
<1> DEFINE F == [q \in UNION {{p} \X [Kids(t, p) -> W] : p \in D} |->
                   IF Hash(Len(q[1])) THEN below[q[1]] ELSE FlattenSeq([i \in Kids(t, q[1]) |-> Part(q[1], i, q[2][i])])]
<1>5. \A p \in D : \A h \in [Kids(t, p) -> W] :
        /\ F[<<p, h>>] = IF Hash(Len(p)) THEN below[p] ELSE FlattenSeq([i \in Kids(t, p) |-> Part(p, i, h[i])])
        /\ F[<<p, h>>] \in W
  <2>1. SUFFICES ASSUME NEW p \in D, NEW h \in [Kids(t, p) -> W]
                 PROVE  /\ F[<<p, h>>] = IF Hash(Len(p)) THEN below[p]
                                         ELSE FlattenSeq([i \in Kids(t, p) |-> Part(p, i, h[i])])
                        /\ F[<<p, h>>] \in W
    OBVIOUS
  <2>2. <<p, h>> \in UNION {{x} \X [Kids(t, x) -> W] : x \in D}
    <3>1. <<p, h>> \in {p} \X [Kids(t, p) -> W]
      OBVIOUS
    <3> QED
      BY <3>1
  <2>3. F[<<p, h>>] = IF Hash(Len(p)) THEN below[p] ELSE FlattenSeq([i \in Kids(t, p) |-> Part(p, i, h[i])])
    BY <2>2
  <2> HIDE DEF F
  <2> QED
    BY <1>b, <1>4, <2>3
<1> HIDE DEF F
<1>6. PICK g \in [D -> W] : \A p \in D : g[p] = F[<<p, AtKids(t, g, p)>>]
  <2> HIDE DEF D, W
  <2>2. FoldsTo(t, W, F)
    BY <1>5 DEF D, FoldsTo
  <2>3. PICK g \in [DOMAIN t -> W] : Folded(t, F, g)
    BY <1>12, <2>2, TreeRecursion
  <2> QED
    BY <2>3 DEF D, Folded
<1>7. P(g)
  <2>1. ASSUME NEW p \in D PROVE g[p] = Of1(g, p)
    <3>1. AtKids(t, g, p) \in [Kids(t, p) -> W] /\ \A i \in Kids(t, p) : AtKids(t, g, p)[i] = g[Kid(t, p, i)]
      BY <1>2, <1>6 DEF AtKids
    <3>2. [i \in Kids(t, p) |-> Part(p, i, AtKids(t, g, p)[i])] = [i \in Kids(t, p) |-> Part(p, i, g[Kid(t, p, i)])]
      BY <3>1
    <3> QED
      BY <1>5, <1>6, <3>1, <3>2
  <2> HIDE DEF Of1
  <2>2. g = [p \in D |-> g[p]]
    OBVIOUS
  <2> QED
    BY <2>1, <2>2
<1>8. P(f)
  <2> HIDE DEF P
  <2> QED
    BY <1>7 DEF f
<1>9. \A p \in D : f[p] = Of1(f, p)
  <2> HIDE DEF Of1
  <2> QED
    BY <1>8
<1> HIDE DEF P
<1> DEFINE S == {p \in D : f[p] \in W}
<1>10. ASSUME NEW p \in D, \A i \in Kids(t, p) : Kid(t, p, i) \in S PROVE p \in S
  <2> DEFINE h == [i \in Kids(t, p) |-> f[Kid(t, p, i)]]
  <2>1. h \in [Kids(t, p) -> W] /\ \A i \in Kids(t, p) : h[i] = f[Kid(t, p, i)]
    BY <1>10
  <2> HIDE DEF h, W
  <2>2. [i \in Kids(t, p) |-> Part(p, i, h[i])] = [i \in Kids(t, p) |-> Part(p, i, f[Kid(t, p, i)])]
    BY <2>1
  <2>3. FlattenSeq([i \in Kids(t, p) |-> Part(p, i, f[Kid(t, p, i)])]) \in W
    BY <1>4, <2>1, <2>2
  <2>4. Of1(f, p) \in W
    BY <1>b, <2>3
  <2> HIDE DEF Of1
  <2> QED
    BY <1>9, <2>4
<1>11. \A p \in D : p \in S
  <2> HIDE DEF S
  <2> QED
    BY <1>10, TreeInduction
<1> HIDE DEF Of1
<1> QED
  BY <1>1, <1>11, <1>12

------------------------------------------------------------------------------
(* The walk that writes the file comes to every node once at most.         *)

\* Sequences without repetition, no two of them with a common element, in one.
Distinct(q) == \A k, l \in 1..Len(q) : q[k] = q[l] => k = l
\* Sequences without repetition that have no element in common, and what they are joined to.
Apart(s, n) ==
  /\ \A i \in 1..n : Distinct(s[i])
  /\ \A i, j \in 1..n : \A k \in 1..Len(s[i]) : \A l \in 1..Len(s[j]) : s[i][k] = s[j][l] => i = j
Joined(q, s, n) ==
  Distinct(q) /\ \A m \in 1..Len(q) : \E i \in 1..n : \E k \in 1..Len(s[i]) : q[m] = s[i][k]

\* Joined, such sequences have no repetition.
LEMMA FlattenDistinct ==
  ASSUME NEW A, NEW n \in Nat, NEW s \in [1..n -> Seq(A)], Apart(s, n)
  PROVE  FlattenSeq(s) \in Seq(A) /\ Joined(FlattenSeq(s), s, n)
<1> DEFINE q == FlattenSeq(s)
<1>1. q \in Seq(A)
  BY FlattenFacts
<1>2. PICK u, w : Placed(q, s, n, u, w)
  BY FlattenFacts
<1> HIDE DEF q
<1>3. \A m \in 1..Len(q) : u[m] \in 1..n /\ w[m] \in 1..Len(s[u[m]]) /\ q[m] = s[u[m]][w[m]]
  BY <1>2 DEF Placed
<1>4. ASSUME NEW k \in 1..Len(q), NEW l \in 1..Len(q), q[k] = q[l] PROVE k = l
  <2>0. /\ u[k] \in 1..n /\ w[k] \in 1..Len(s[u[k]]) /\ q[k] = s[u[k]][w[k]]
        /\ u[l] \in 1..n /\ w[l] \in 1..Len(s[u[l]]) /\ q[l] = s[u[l]][w[l]]
    BY <1>3
  <2>1. u[k] = u[l]
    BY <1>4, <2>0 DEF Apart
  <2>2. w[k] = w[l]
    <3>1. Distinct(s[u[k]])
      BY <2>0 DEF Apart
    <3>2. s[u[k]][w[k]] = s[u[k]][w[l]]
      BY <1>4, <2>0, <2>1
    <3> QED
      BY <2>0, <2>1, <3>1, <3>2 DEF Distinct
  <2> QED
    BY <1>2, <2>1, <2>2 DEF Placed
<1> QED
  BY <1>1, <1>3, <1>4 DEF Distinct, Joined, q

\* The nodes at and below a path.
Under(t, p) == {q \in DOMAIN t : Len(q) >= Len(p) /\ \A j \in 1..Len(p) : q[j] = p[j]}

\* A node and what is below it, if all that is below its children comes without repetition.
LEMMA WalkNext ==
  ASSUME NEW t, Tree(t), NEW p \in DOMAIN t, NEW h,
         \A i \in Kids(t, p) : h[i] \in Seq(Under(t, Kid(t, p, i))) /\ Distinct(h[i])
  PROVE  LET q == <<p>> \o FlattenSeq([i \in Kids(t, p) |-> h[i]])
         IN  q \in Seq(Under(t, p)) /\ Distinct(q)
<1> DEFINE U == Under(t, p)
           n == Len(t[p].children)
           s == [i \in Kids(t, p) |-> h[i]]
           f == FlattenSeq(s)
           q == <<p>> \o f
<1>1. /\ p \in Path /\ Len(p) \in Nat /\ n \in Nat /\ Kids(t, p) = 1..n
      /\ \A i \in Kids(t, p) : Kid(t, p, i) \in DOMAIN t /\ Len(Kid(t, p, i)) = Len(p) + 1 /\ t[p].children[i] \in Level
      /\ \A i, j \in Kids(t, p) : t[p].children[i] = t[p].children[j] => i = j
  <2>1. DOMAIN t[p].children = Kids(t, p)
    BY TreeFacts DEF Kids
  <2>2. \A i, j \in Kids(t, p) : t[p].children[i] = t[p].children[j] => i = j
    BY <2>1 DEF Tree, Linked
  <2>3. Kids(t, p) = 1..n
    BY DEF Kids
  <2> QED
    BY <2>2, <2>3, KidFacts
<1>2. \A i \in Kids(t, p) : \A j \in 1..Len(p) : Kid(t, p, i)[j] = p[j]
  <2>1. p \in Seq(Level)
    BY <1>1 DEF Path
  <2> QED
    BY <1>1, <2>1, AppendProperties DEF Kid
<1>3. \A i \in Kids(t, p) : Kid(t, p, i)[Len(p) + 1] = t[p].children[i]
  BY <1>1, FrontFacts DEF Kid
<1>4. ASSUME NEW i \in Kids(t, p), NEW x \in Under(t, Kid(t, p, i))
      PROVE  x \in U /\ x[Len(p) + 1] = t[p].children[i] /\ x # p
  <2>1. x \in DOMAIN t /\ Len(x) \in Nat /\ Len(x) >= Len(p) + 1 /\ \A j \in 1..Len(p) + 1 : x[j] = Kid(t, p, i)[j]
    BY <1>1, KidFacts DEF Under
  <2>2. \A j \in 1..Len(p) : j \in 1..Len(p) + 1
    BY <1>1
  <2>3. \A j \in 1..Len(p) : x[j] = p[j]
    BY <1>2, <2>1, <2>2
  <2>4. Len(p) + 1 \in 1..Len(p) + 1
    BY <1>1
  <2>5. Len(x) >= Len(p) /\ Len(x) # Len(p)
    BY <1>1, <2>1
  <2> QED
    BY <1>3, <2>1, <2>3, <2>4, <2>5 DEF Under
<1>5. ASSUME NEW i \in Kids(t, p), NEW k \in 1..Len(h[i])
      PROVE  h[i][k] \in U /\ h[i][k][Len(p) + 1] = t[p].children[i] /\ h[i][k] # p
  <2>1. h[i][k] \in Under(t, Kid(t, p, i))
    OBVIOUS
  <2> QED
    BY <1>4, <2>1
<1>6. s \in [1..n -> Seq(U)]
  <2>1. ASSUME NEW i \in Kids(t, p) PROVE h[i] \in Seq(U)
    <3>1. h[i] \in Seq(Under(t, Kid(t, p, i)))
      OBVIOUS
    <3>2. \A k \in 1..Len(h[i]) : h[i][k] \in U
      BY <1>5
    <3> HIDE DEF U
    <3> QED
      BY <3>1, <3>2
  <2> HIDE DEF U
  <2> QED
    BY <1>1, <2>1
<1>7. \A i \in 1..n : s[i] = h[i] /\ Distinct(s[i])
  BY <1>1
<1>8. ASSUME NEW i \in 1..n, NEW j \in 1..n, NEW k \in 1..Len(s[i]), NEW l \in 1..Len(s[j]), s[i][k] = s[j][l]
      PROVE  i = j
  <2>1. t[p].children[i] = t[p].children[j]
    <3> HIDE DEF s, U
    <3>1. s[i] = h[i] /\ s[j] = h[j] /\ i \in Kids(t, p) /\ j \in Kids(t, p)
      BY <1>1, <1>7
    <3>2. k \in 1..Len(h[i]) /\ l \in 1..Len(h[j]) /\ h[i][k] = h[j][l]
      BY <1>8, <3>1
    <3>3. h[i][k][Len(p) + 1] = t[p].children[i] /\ h[j][l][Len(p) + 1] = t[p].children[j]
      BY <1>5, <3>1, <3>2
    <3> QED
      BY <3>2, <3>3
  <2> QED
    BY <1>1, <2>1
<1>9. /\ f \in Seq(U) /\ Distinct(f)
      /\ \A m \in 1..Len(f) : \E i \in 1..n : \E k \in 1..Len(s[i]) : f[m] = s[i][k]
  <2>1. n \in Nat
    BY <1>1
  <2> HIDE DEF s, U, n, f
  <2>2. Apart(s, n)
    BY <1>7, <1>8 DEF Apart
  <2>3. FlattenSeq(s) \in Seq(U) /\ Joined(FlattenSeq(s), s, n)
    BY <1>6, <2>1, <2>2, FlattenDistinct
  <2> QED
    BY <2>3 DEF f, Joined
<1> HIDE DEF f
<1>10. \A m \in 1..Len(f) : f[m] # p
  <2> HIDE DEF s, U
  <2> QED
    BY <1>1, <1>5, <1>7, <1>9, SMTT(40)
<1>11. p \in U
  BY <1>1 DEF Under
<1>12. /\ q \in Seq(U) /\ Len(q) = 1 + Len(f) /\ q[1] = p
       /\ \A m \in 2..1 + Len(f) : q[m] = f[m - 1] /\ m - 1 \in 1..Len(f)
  <2>1. <<p>> \in Seq(U) /\ Len(<<p>>) = 1 /\ <<p>>[1] = p /\ Len(f) \in Nat
    BY <1>9, <1>11
  <2> DEFINE one == <<p>>
  <2> HIDE DEF one, U, q
  <2>0. f \in Seq(U)
    BY <1>9
  <2>2. one \in Seq(U) /\ Len(one) = 1 /\ one[1] = p
    BY <2>1 DEF one
  <2>3. /\ one \o f \in Seq(U) /\ Len(one \o f) = Len(one) + Len(f)
        /\ \A i \in 1..Len(one) + Len(f) : (one \o f)[i] = IF i <= Len(one) THEN one[i] ELSE f[i - Len(one)]
    BY <2>0, <2>2, ConcatProperties
  <2>4. q = one \o f
    BY DEF one, q
  <2> QED
    BY <2>1, <2>2, <2>3, <2>4
<1> HIDE DEF q, U
<1>13. ASSUME NEW k \in 1..Len(q), NEW l \in 1..Len(q), q[k] = q[l] PROVE k = l
  <2>1. Len(f) \in Nat
    BY <1>9
  <2>2. (k = 1 \/ k \in 2..1 + Len(f)) /\ (l = 1 \/ l \in 2..1 + Len(f))
    BY <1>12, <2>1
  <2>3. CASE k = 1 \/ l = 1
    BY <1>10, <1>12, <1>13, <2>2, <2>3
  <2>4. CASE k \in 2..1 + Len(f) /\ l \in 2..1 + Len(f)
    <3>1. f[k - 1] = f[l - 1] /\ k - 1 \in 1..Len(f) /\ l - 1 \in 1..Len(f)
      BY <1>12, <1>13, <2>4
    <3>2. k - 1 = l - 1
      BY <1>9, <3>1 DEF Distinct
    <3> QED
      BY <2>4, <3>2
  <2> QED
    BY <2>2, <2>3, <2>4
<1> QED
  BY <1>12, <1>13 DEF Distinct, q, U, f

\* A finite set can be listed.
LEMMA SetToSeqExists ==
  ASSUME NEW S, IsFiniteSet(S)
  PROVE  \E b : b \in [1..Cardinality(S) -> S] /\ IsInjective(b)
<1>1. Cardinality(S) \in Nat
  BY FS_CardinalityType
<1>2. PICK b \in Bijection(1..Cardinality(S), S) : TRUE
  BY FS_CardinalityType DEF ExistsBijection
<1> QED
  BY <1>2 DEF Bijection, Injection, IsInjective

\* The walk for the file comes to every node at most once.
LEMMA WriteOrderFacts ==
  ASSUME NEW t, Tree(t)
  PROVE  WriteOrder(t) \in Seq(DOMAIN t) /\ Distinct(WriteOrder(t))
<1> DEFINE D == DOMAIN t
           W == Seq(D)
           Of1(g, p) == <<p>> \o FlattenSeq([i \in Kids(t, p) |-> g[Kid(t, p, i)]])
           P(h) == h = [p \in D |-> Of1(h, p)]
           f == CHOOSE h : P(h)
           roots == {p \in D : Len(p) = 1}
           n == Cardinality(roots)
           r == SetToSeq(roots)
           s == [i \in 1..n |-> f[r[i]]]
<1>1. WriteOrder(t) = FlattenSeq(s)
  BY DEF WriteOrder, Kids, Kid
<1>2. \A p \in D : /\ \A i \in Kids(t, p) : Kid(t, p, i) \in D
                   /\ Len(t[p].children) \in Nat /\ Kids(t, p) = 1..Len(t[p].children)
  BY KidFacts DEF Kids
<1> HIDE DEF f
<1>4. ASSUME NEW p \in D, NEW h \in [Kids(t, p) -> W]
      PROVE  <<p>> \o FlattenSeq([i \in Kids(t, p) |-> h[i]]) \in W
  <2> DEFINE q == [i \in Kids(t, p) |-> h[i]]
  <2>1. q \in [1..Len(t[p].children) -> W] /\ Len(t[p].children) \in Nat
    BY <1>2
  <2>2. <<p>> \in W
    OBVIOUS
  <2> HIDE DEF q, D
  <2>3. FlattenSeq(q) \in W
    BY <2>1, FlattenFacts
  <2>4. <<p>> \o FlattenSeq(q) \in W
    BY <2>2, <2>3, ConcatProperties
  <2> QED
    BY <2>4 DEF q
<1> DEFINE F == [q \in UNION {{p} \X [Kids(t, p) -> W] : p \in D} |->
                   <<q[1]>> \o FlattenSeq([i \in Kids(t, q[1]) |-> q[2][i]])]
<1>5. \A p \in D : \A h \in [Kids(t, p) -> W] :
        F[<<p, h>>] = <<p>> \o FlattenSeq([i \in Kids(t, p) |-> h[i]]) /\ F[<<p, h>>] \in W
  <2>1. SUFFICES ASSUME NEW p \in D, NEW h \in [Kids(t, p) -> W]
                 PROVE  F[<<p, h>>] = <<p>> \o FlattenSeq([i \in Kids(t, p) |-> h[i]]) /\ F[<<p, h>>] \in W
    OBVIOUS
  <2>2. <<p, h>> \in UNION {{x} \X [Kids(t, x) -> W] : x \in D}
    <3>1. <<p, h>> \in {p} \X [Kids(t, p) -> W]
      OBVIOUS
    <3> QED
      BY <3>1
  <2>3. F[<<p, h>>] = <<p>> \o FlattenSeq([i \in Kids(t, p) |-> h[i]])
    BY <2>2
  <2> QED
    BY <1>4, <2>3
<1> HIDE DEF F
<1>6. PICK g \in [D -> W] : \A p \in D : g[p] = F[<<p, AtKids(t, g, p)>>]
  <2>1. <<>> \in W
    OBVIOUS
  <2> HIDE DEF D, W
  <2>2. FoldsTo(t, W, F)
    BY <1>5 DEF D, FoldsTo
  <2>3. PICK g \in [DOMAIN t -> W] : Folded(t, F, g)
    BY <2>1, <2>2, TreeRecursion
  <2> QED
    BY <2>3 DEF D, Folded
<1>7. P(g)
  <2>1. ASSUME NEW p \in D PROVE g[p] = Of1(g, p)
    <3>1. AtKids(t, g, p) \in [Kids(t, p) -> W] /\ \A i \in Kids(t, p) : AtKids(t, g, p)[i] = g[Kid(t, p, i)]
      BY <1>2, <1>6 DEF AtKids
    <3>2. [i \in Kids(t, p) |-> AtKids(t, g, p)[i]] = [i \in Kids(t, p) |-> g[Kid(t, p, i)]]
      BY <3>1
    <3> QED
      BY <1>5, <1>6, <3>1, <3>2
  <2> HIDE DEF Of1
  <2>2. g = [p \in D |-> g[p]]
    OBVIOUS
  <2> QED
    BY <2>1, <2>2
<1>8. P(f)
  <2> HIDE DEF P
  <2> QED
    BY <1>7 DEF f
<1>9. \A p \in D : f[p] = Of1(f, p)
  <2> HIDE DEF Of1
  <2> QED
    BY <1>8
<1> HIDE DEF P
<1> DEFINE S == {p \in D : f[p] \in Seq(Under(t, p)) /\ Distinct(f[p])}
<1>10. ASSUME NEW p \in D, \A i \in Kids(t, p) : Kid(t, p, i) \in S PROVE p \in S
  <2> DEFINE h == [i \in Kids(t, p) |-> f[Kid(t, p, i)]]
  <2>1. \A i \in Kids(t, p) : h[i] \in Seq(Under(t, Kid(t, p, i))) /\ Distinct(h[i])
    BY <1>10
  <2>2. h = [i \in Kids(t, p) |-> h[i]]
    OBVIOUS
  <2> HIDE DEF h
  <2>3. LET q == <<p>> \o FlattenSeq([i \in Kids(t, p) |-> h[i]]) IN q \in Seq(Under(t, p)) /\ Distinct(q)
    BY <2>1, WalkNext
  <2>4. f[p] = <<p>> \o FlattenSeq(h)
    BY <1>9 DEF h
  <2>5. f[p] \in Seq(Under(t, p)) /\ Distinct(f[p])
    BY <2>2, <2>3, <2>4
  <2> QED
    BY <2>5
<1>11. \A p \in D : p \in S
  <2> HIDE DEF S
  <2> QED
    BY <1>10, TreeInduction
<1> HIDE DEF Of1
<1>12. IsFiniteSet(roots) /\ n \in Nat /\ r \in [1..n -> roots] /\ \A i, j \in 1..n : r[i] = r[j] => i = j
  <2>1. IsFiniteSet(roots)
    <3>1. IsFiniteSet(D) /\ roots \in SUBSET D
      BY DEF Tree
    <3> HIDE DEF D, roots
    <3> QED
      BY <3>1, FS_Subset
  <2> HIDE DEF roots
  <2>2. \E b : b \in [1..n -> roots] /\ IsInjective(b)
    BY <2>1, SetToSeqExists
  <2>3. r \in [1..n -> roots] /\ IsInjective(r)
    BY <2>2 DEF SetToSeq
  <2>4. n \in Nat
    BY <2>1, FS_CardinalityType
  <2> HIDE DEF r, n
  <2> QED
    BY <2>1, <2>3, <2>4 DEF IsInjective
<1> HIDE DEF r, n
<1>13. \A i \in 1..n : r[i] \in D /\ Len(r[i]) = 1 /\ f[r[i]] \in Seq(Under(t, r[i])) /\ Distinct(f[r[i]])
  BY <1>11, <1>12
<1>14. s \in [1..n -> Seq(D)]
  <2>1. ASSUME NEW i \in 1..n PROVE f[r[i]] \in Seq(D)
    <3>1. Under(t, r[i]) \in SUBSET D /\ f[r[i]] \in Seq(Under(t, r[i]))
      BY <1>13 DEF Under
    <3> QED
      BY <3>1
  <2> QED
    BY <2>1
<1>15. Apart(s, n)
  <2>1. ASSUME NEW i \in 1..n, NEW j \in 1..n, NEW k \in 1..Len(s[i]), NEW l \in 1..Len(s[j]), s[i][k] = s[j][l]
        PROVE  i = j
    <3>1. s[i] = f[r[i]] /\ s[j] = f[r[j]] /\ s[i] \in Seq(Under(t, r[i])) /\ s[j] \in Seq(Under(t, r[j]))
      BY <1>13
    <3> HIDE DEF s
    <3>2. s[i][k] \in Under(t, r[i]) /\ s[j][l] \in Under(t, r[j])
      BY <3>1
    <3>3. 1 \in 1..Len(r[i]) /\ 1 \in 1..Len(r[j])
      <4>1. Len(r[i]) = 1 /\ Len(r[j]) = 1 /\ 1 \in 1..1
        BY <1>13
      <4> QED
        BY ONLY <4>1
    <3>4. s[i][k][1] = r[i][1] /\ s[j][l][1] = r[j][1]
      BY <3>2, <3>3 DEF Under
    <3>5. r[i] = r[j]
      <4>1. r[i] \in Seq(Level) /\ r[j] \in Seq(Level) /\ Len(r[i]) = 1 /\ Len(r[j]) = 1 /\ r[i][1] = r[j][1]
        BY <1>13, <2>1, <3>4, TreeFacts DEF Path
      <4> QED
        BY <4>1
    <3> QED
      BY <1>12, <3>5
  <2>2. \A i \in 1..n : Distinct(s[i])
    BY <1>13
  <2> HIDE DEF s
  <2> QED
    BY <2>1, <2>2 DEF Apart
<1> HIDE DEF s, D
<1> QED
  BY <1>1, <1>12, <1>14, <1>15, FlattenDistinct DEF Joined, D

------------------------------------------------------------------------------
(* mqtt3_db_messages_queue: the loop over the nodes a message comes to.    *)

\* The nodes on the way to a topic are made, and nothing else changes.
LEMMA AddPathGood ==
  ASSUME NEW d, NEW x \in Extra, Good(d, x), NEW path \in Path, path \in OfTopics
  PROVE  LET e == [d EXCEPT !.subs = AddPath(@, path)]
         IN  /\ Good(e, x) /\ e \in DbType /\ Onward(d, e) /\ e.msg_store = d.msg_store
             /\ e.subs = AddPath(d.subs, path) /\ RetainedOf(e.subs) \subseteq RetainedOf(d.subs) \cup {NoMsg}
<1> DEFINE t == d.subs
           u == AddPath(t, path)
           e == [d EXCEPT !.subs = u]
<1>1. d \in DbType /\ Tree(t) /\ Idle(t) \subseteq OfTopics /\ Indexed(d)
  BY DEF Good, Shape
<1>2. /\ Tree(u) /\ DOMAIN u = DOMAIN t \cup Above(path)
      /\ \A p \in DOMAIN t : u[p].subs = t[p].subs /\ u[p].retained = t[p].retained
      /\ \A p \in Above(path) \ DOMAIN t : Bare(u[p])
      /\ Idle(u) \subseteq Idle(t) \cup {path}
  BY <1>1, AddPathKeeps
<1> HIDE DEF u
<1>3. u \in Maps(Path, Node)
  BY <1>2 DEF Tree
<1>4. e \in DbType /\ e.subs = u /\ e.msg_store = d.msg_store /\ e.contexts = d.contexts /\ e.last_db_id = d.last_db_id
  BY <1>1, <1>3, DbWith
<1>5. \A p \in Path : Retains(u, p) = Retains(t, p)
  BY <1>2 DEF Retains, Bare
<1>6. \A p \in DOMAIN u \ DOMAIN t : DOMAIN u[p].subs = {}
  <2>1. DOMAIN <<>> = {}
    OBVIOUS
  <2> QED
    BY <1>2, <2>1 DEF Bare
<1> HIDE DEF e
<1>7. Indexed(e)
  <2>1. \A p \in DOMAIN u : DOMAIN u[p].subs \subseteq DOMAIN d.contexts
    BY <1>1, <1>2, <1>6 DEF Indexed
  <2>2. ASSUME NEW c \in DOMAIN d.contexts
        PROVE  d.contexts[c].subs = {p \in DOMAIN u : c \in DOMAIN u[p].subs}
    <3>1. d.contexts[c].subs = {p \in DOMAIN t : c \in DOMAIN t[p].subs}
      BY <1>1 DEF Indexed
    <3> QED
      BY <1>2, <1>6, <3>1
  <2> QED
    BY <1>4, <2>1, <2>2 DEF Indexed
<1>8. Good(e, x) /\ Onward(d, e)
  <2>1. Tree(e.subs) /\ Idle(e.subs) \subseteq OfTopics /\ \A p \in Path : Retains(e.subs, p) = Retains(d.subs, p)
    BY <1>1, <1>2, <1>4, <1>5
  <2>2. DOMAIN e.contexts = DOMAIN d.contexts
    BY <1>4
  <2>3. \A c \in DOMAIN d.contexts : /\ e.contexts[c].msgs = d.contexts[c].msgs
                                     /\ e.contexts[c].msg_count12 = d.contexts[c].msg_count12
                                     /\ e.contexts[c].sock = d.contexts[c].sock
    BY <1>4
  <2> QED
    BY <1>4, <1>7, <2>1, <2>2, <2>3, TreeChanged
<1>9. RetainedOf(u) \subseteq RetainedOf(t) \cup {NoMsg}
  BY <1>2 DEF RetainedOf, Bare
<1> QED
  BY <1>4, <1>8, <1>9 DEF e, u

\* One node is come to on the way of message id: mqtt3_db_messages_queue's callback.
Processed(e, node, id, path, topic, qos, retain, deliver) ==
  LET e1 == IF retain /\ node = path THEN SetRetained(e, node, id) ELSE e
      leaves == e1.subs[node].subs
      readers == {c \in DOMAIN leaves : <<c, topic>> \notin Denied}
  IN  IF deliver THEN Insert(e1, [c \in readers |-> Lesser(qos, leaves[c])], "out", FALSE, id) ELSE e1

\* A good database stays good at every node.
LEMMA ProcessedGood ==
  ASSUME NEW e, NEW x \in Extra, Good(e, x), NEW node \in DOMAIN e.subs, NEW id \in 1..MaxId, x[id] >= 1,
         NEW topic \in Topics, e.msg_store[id].topic = topic, topic # NoTopic,
         NEW qos \in 0..2, NEW retain \in BOOLEAN, NEW deliver \in BOOLEAN
  PROVE  LET w == Processed(e, node, id, PathOf(topic), topic, qos, retain, deliver)
         IN  Good(w, x) /\ w \in DbType /\ Routed(e, w, id)
<1> DEFINE path == PathOf(topic)
           e1 == IF retain /\ node = path THEN SetRetained(e, node, id) ELSE e
           leaves == e1.subs[node].subs
           readers == {c \in DOMAIN leaves : <<c, topic>> \notin Denied}
           qosOf == [c \in readers |-> Lesser(qos, leaves[c])]
           w == Processed(e, node, id, path, topic, qos, retain, deliver)
<1>1. w = IF deliver THEN Insert(e1, qosOf, "out", FALSE, id) ELSE e1
  BY DEF Processed
<1>2. path \in OfTopics
  <2>1. path \in Path
    BY TopicTypes, PathOfType
  <2>2. path \in Above(path)
    BY <2>1, AboveFacts
  <2> QED
    BY <2>2 DEF OfTopics
<1>3. e \in DbType
  BY DEF Good, Shape
<1>4. Routed(e, e, id)
  BY DEF Routed, Onward, Fewer
<1>5. Good(e1, x) /\ e1 \in DbType /\ Routed(e, e1, id)
  <2>1. CASE retain /\ node = path
    <3>1. LET a == SetRetained(e, node, id) IN Good(a, x) /\ a \in DbType /\ Routed(e, a, id)
      BY <1>2, <2>1, SetRetainedGood
    <3> QED
      BY <2>1, <3>1
  <2>2. CASE ~(retain /\ node = path)
    BY <1>3, <1>4, <2>2
  <2> QED
    BY <2>1, <2>2
<1> HIDE DEF e1, w
<1>6. node \in DOMAIN e1.subs
  BY <1>5 DEF Routed
<1>7. leaves \in Leaves /\ readers \in SUBSET DOMAIN e1.contexts /\ readers \in SUBSET DOMAIN leaves
  <2>1. Tree(e1.subs) /\ Indexed(e1)
    BY <1>5 DEF Good, Shape
  <2>2. leaves \in Leaves
    BY <1>6, <2>1, TreeFacts
  <2>3. DOMAIN leaves \subseteq DOMAIN e1.contexts
    BY <1>6, <2>1 DEF Indexed
  <2> QED
    BY <2>2, <2>3
<1>8. qosOf \in [readers -> 0..2]
  <2>1. \A c \in DOMAIN leaves : leaves[c] \in 0..2
    BY <1>7, MapsFacts DEF Leaves
  <2> HIDE DEF leaves, readers
  <2>2. \A c \in readers : Lesser(qos, leaves[c]) \in 0..2
    BY <1>7, <2>1 DEF Lesser
  <2> QED
    BY <2>2
<1>9. id \in DOMAIN e1.msg_store
  BY <1>5 DEF Good, Exact
<1> HIDE DEF readers, qosOf
<1> DEFINE v == Insert(e1, qosOf, "out", FALSE, id)
<1>10. /\ Good(v, x) /\ v \in DbType /\ v.subs = e1.subs /\ Onward(e1, v)
       /\ Fewer(e1, v) /\ DOMAIN v.msg_store = DOMAIN e1.msg_store
  <2>1. PICK dir \in {"in", "out"} : dir = "out"
    OBVIOUS
  <2>2. PICK no \in BOOLEAN : no = FALSE
    OBVIOUS
  <2> DEFINE z == Insert(e1, qosOf, dir, no, id)
  <2>3. Inserted(e1, x, z)
    BY <1>5, <1>7, <1>8, <1>9, InsertGood
  <2>4. v = z
    BY <2>1, <2>2
  <2> HIDE DEF z, v
  <2> QED
    BY <2>3, <2>4 DEF Inserted
<1> HIDE DEF v
<1>11. Routed(e1, v, id)
  BY <1>10 DEF Routed
<1>12. Routed(e, v, id)
  <2>1. DOMAIN e.msg_store \subseteq Nat \ {NoMsg}
    <3>1. DOMAIN e.msg_store \subseteq 1..MaxId
      BY <1>3, DbParts
    <3>2. \A k \in 1..MaxId : k \in Nat /\ k # NoMsg
      BY DEF NoMsg
    <3> QED
      BY <3>1, <3>2
  <2> QED
    BY <1>5, <1>11, <2>1, RoutedTwice
<1> HIDE DEF path
<1>13. Good(w, x) /\ w \in DbType /\ Routed(e, w, id)
  <2>1. w = IF deliver THEN v ELSE e1
    BY <1>1 DEF v
  <2> QED
    BY <1>5, <1>10, <1>12, <2>1
<1> QED
  BY <1>13 DEF w, path

\* What mqtt3_db_messages_queue leaves of d.
Delivered(d, e, id) ==
  /\ Onward(d, e) /\ Fewer(d, e)
  /\ RetainedOf(e.subs) \subseteq RetainedOf(d.subs) \cup {NoMsg, id}
  /\ \A k \in DOMAIN d.msg_store \ DOMAIN e.msg_store : k = id \/ k \in RetainedOf(d.subs)

\* The numbers of stored messages are not NoMsg.
LEMMA StoredNumbers ==
  ASSUME NEW d \in DbType
  PROVE  DOMAIN d.msg_store \subseteq 1..MaxId /\ DOMAIN d.msg_store \subseteq Nat \ {NoMsg} /\ NoMsg \notin 1..MaxId
<1>1. DOMAIN d.msg_store \subseteq 1..MaxId
  BY DbParts
<1>2. \A k \in 1..MaxId : k \in Nat /\ k # NoMsg
  BY DEF NoMsg
<1> QED
  BY <1>1, <1>2

\* Routing takes no reference but those that stay.
LEMMA MessagesQueueGood ==
  ASSUME NEW d, NEW x \in Extra, Good(d, x), NEW id \in DOMAIN d.msg_store, d.msg_store[id].topic # NoTopic,
         NEW qos \in 0..2, NEW retain \in BOOLEAN, NEW deliver \in BOOLEAN
  PROVE  LET e == MessagesQueue(d, id, qos, retain, deliver)
         IN  Good(e, x) /\ e \in DbType /\ Delivered(d, e, id)
<1> DEFINE topic == d.msg_store[id].topic
           path == PathOf(topic)
           known == <<path[1]>> \in DOMAIN d.subs
           y == Plus(x, id, 1)
           d0 == Ref(d, id, 1)
           d1 == IF retain /\ known THEN [d0 EXCEPT !.subs = AddPath(@, path)] ELSE d0
           s == Visit(d1.subs, topic)
           n == Len(s)
           Proc(e, node) == Processed(e, node, id, path, topic, qos, retain, deliver)
           P(h) == h = [i \in 0..n |-> IF i = 0 THEN d1 ELSE Proc(h[i - 1], s[i])]
           f == CHOOSE h : P(h)
           w == f[n]
<1>1. MessagesQueue(d, id, qos, retain, deliver) = Deref(w, id)
  BY DEF MessagesQueue, Each, Processed
<1>2. d \in DbType /\ id \in 1..MaxId /\ topic \in Topics /\ topic # NoTopic
  <2>1. d \in DbType
    BY DEF Good, Shape
  <2>2. d.msg_store[id] \in Stored
    BY <2>1, DbParts
  <2> QED
    BY <2>1, <2>2, StoredNumbers DEF Stored
<1>3. topic \in Topic /\ path \in Path /\ path \in OfTopics
  <2>1. topic \in Topic /\ path \in Path
    BY <1>2, TopicTypes, PathOfType
  <2>2. path \in Above(path)
    BY <2>1, AboveFacts
  <2> QED
    BY <1>2, <2>1, <2>2 DEF OfTopics
<1>4. y \in Extra /\ y[id] >= 1 /\ Plus(y, id, -1) = x
  BY <1>2, PlusBack
<1>5. Good(d0, y) /\ d0 \in DbType /\ d0.subs = d.subs /\ d0.contexts = d.contexts /\ d0.last_db_id = d.last_db_id
      /\ DOMAIN d0.msg_store = DOMAIN d.msg_store /\ Fewer(d, d0)
  <2>1. 1 \in Nat /\ 1 \in Int
    OBVIOUS
  <2>2. Good(Ref(d, id, 1), Plus(x, id, 1))
    BY <2>1, RefGood
  <2>3. RefOf(d, id, 1, Ref(d, id, 1))
    BY <1>2, <2>1, RefParts
  <2> HIDE DEF y
  <2> QED
    BY <2>2, <2>3 DEF RefOf, y
<1> HIDE DEF topic, path, y, d0, f
<1>6. Good(d1, y) /\ d1 \in DbType /\ Onward(d, d1) /\ Fewer(d, d1)
      /\ DOMAIN d1.msg_store = DOMAIN d.msg_store /\ RetainedOf(d1.subs) \subseteq RetainedOf(d.subs) \cup {NoMsg}
  <2>1. CASE retain /\ known
    <3> DEFINE a == [d0 EXCEPT !.subs = AddPath(@, path)]
    <3>1. /\ Good(a, y) /\ a \in DbType /\ Onward(d0, a) /\ a.msg_store = d0.msg_store
          /\ RetainedOf(a.subs) \subseteq RetainedOf(d0.subs) \cup {NoMsg}
      BY <1>3, <1>4, <1>5, AddPathGood
    <3>2. d1 = a
      BY <2>1
    <3> HIDE DEF a, d1
    <3>3. Onward(d, a)
      BY <1>5, <3>1 DEF Onward
    <3>4. Fewer(d, a)
      BY <1>5, <3>1 DEF Fewer
    <3> QED
      BY <1>5, <3>1, <3>2, <3>3, <3>4
  <2>2. CASE ~(retain /\ known)
    <3>1. d1 = d0
      BY <2>2
    <3> HIDE DEF d1
    <3>2. Onward(d, d0)
      BY <1>5 DEF Onward
    <3> QED
      BY <1>5, <3>1, <3>2
  <2> QED
    BY <2>1, <2>2
<1> HIDE DEF d1
<1>7. s \in Seq(DOMAIN d1.subs) /\ n \in Nat
  <2>1. Tree(d1.subs)
    BY <1>6 DEF Good, Shape
  <2>2. s \in Seq(DOMAIN d1.subs)
    BY <1>3, <2>1, VisitType
  <2> QED
    BY <2>2
<1> HIDE DEF s
<1> DEFINE K == {e \in DbType : Good(e, y) /\ Routed(d1, e, id)}
<1>8. d1 \in K
  <2>1. Routed(d1, d1, id)
    BY DEF Routed, Onward, Fewer
  <2> QED
    BY <1>6, <2>1
<1>9. ASSUME NEW e \in K, NEW node \in DOMAIN d1.subs PROVE Proc(e, node) \in K
  <2>1. e \in DbType /\ Good(e, y) /\ Routed(d1, e, id)
    OBVIOUS
  <2>2. node \in DOMAIN e.subs
    BY <2>1 DEF Routed
  <2>3. id \in DOMAIN e.msg_store
    BY <1>2, <1>4, <2>1 DEF Good, Exact
  <2>4. e.msg_store[id].topic = topic
    <3>1. e.msg_store[id].topic = d1.msg_store[id].topic
      BY <2>1, <2>3 DEF Routed, Fewer
    <3>2. d1.msg_store[id].topic = d.msg_store[id].topic
      BY <1>6 DEF Fewer
    <3> QED
      BY <3>1, <3>2 DEF topic
  <2> DEFINE v == Processed(e, node, id, PathOf(topic), topic, qos, retain, deliver)
  <2>5. Good(v, y) /\ v \in DbType /\ Routed(e, v, id)
    BY <1>2, <1>4, <2>1, <2>2, <2>4, ProcessedGood
  <2>6. Proc(e, node) = v
    BY DEF path
  <2> HIDE DEF v
  <2>7. DOMAIN d1.msg_store \subseteq Nat \ {NoMsg}
    BY <1>6, StoredNumbers
  <2>8. Routed(d1, v, id)
    BY <2>1, <2>5, <2>7, RoutedTwice
  <2> QED
    BY <2>5, <2>6, <2>8
<1> HIDE DEF K, Proc
<1>10. \A i \in 1..n : s[i] \in DOMAIN d1.subs
  BY <1>7
<1> HIDE DEF n
<1> DEFINE F == [p \in (1..n) \X K |-> Proc(p[2], s[p[1]])]
           J == [i \in 0..n |-> K]
<1>11. \A i \in 1..n : i \in 0..n /\ i - 1 \in 0..n /\ i # 0
  BY <1>7
<1>12. 0 \in 0..n /\ n \in 0..n /\ \A i \in 0..n : J[i] = K
  BY <1>7
<1>13. \A i \in 1..n : \A e \in K : F[<<i, e>>] = Proc(e, s[i]) /\ F[<<i, e>>] \in K
  <2>1. SUFFICES ASSUME NEW i \in 1..n, NEW e \in K PROVE F[<<i, e>>] = Proc(e, s[i]) /\ F[<<i, e>>] \in K
    OBVIOUS
  <2>2. F[<<i, e>>] = Proc(e, s[i])
    OBVIOUS
  <2> HIDE DEF F
  <2> QED
    BY <1>9, <1>10, <2>2
<1> HIDE DEF F, J
<1>14. PICK g : Loop(g, n, d1, F) /\ \A i \in 0..n : g[i] \in J[i]
  <2>1. d1 \in J[0]
    BY <1>8, <1>12
  <2>2. \A i \in 1..n : \A e \in J[i - 1] : F[<<i, e>>] \in J[i]
    BY <1>11, <1>12, <1>13
  <2> QED
    BY ONLY <1>7, <2>1, <2>2, LoopExists
<1>15. P(g)
  <2>1. \A i \in 0..n : i # 0 => i \in 1..n /\ g[i - 1] \in K
    BY <1>7, <1>11, <1>12, <1>14
  <2>2. g = [i \in 0..n |-> IF i = 0 THEN d1 ELSE F[<<i, g[i - 1]>>]]
    BY <1>14 DEF Loop
  <2> QED
    BY <1>13, <2>1, <2>2
<1>16. P(f)
  <2> HIDE DEF P
  <2> QED
    BY <1>15 DEF f
<1>17. f[0] = d1 /\ \A i \in 1..n : f[i] = Proc(f[i - 1], s[i])
  BY <1>11, <1>12, <1>16
<1> HIDE DEF P
<1>18. f[n] \in J[n]
  <2>1. f[0] \in J[0]
    BY <1>8, <1>12, <1>17
  <2>2. \A i \in 1..n : f[i - 1] \in J[i - 1] => f[i] \in J[i]
    BY <1>9, <1>10, <1>11, <1>12, <1>17
  <2>3. \A i \in 0..n : f[i] \in J[i]
    BY ONLY <1>7, <2>1, <2>2, LoopKeeps
  <2> QED
    BY <1>12, <2>3
<1>19. w \in DbType /\ Good(w, y) /\ Routed(d1, w, id)
  BY <1>12, <1>18 DEF K
<1> HIDE DEF w
<1> DEFINE e == Deref(w, id)
<1>20. /\ Good(e, x) /\ e \in DbType /\ e.subs = w.subs /\ e.contexts = w.contexts /\ e.last_db_id = w.last_db_id
       /\ Fewer(w, e) /\ DOMAIN w.msg_store \subseteq DOMAIN e.msg_store \cup {id}
  BY <1>2, <1>4, <1>19, DerefGood
<1> HIDE DEF e
<1>21. Delivered(d, e, id)
  <2>1. Onward(d, e)
    BY <1>6, <1>19, <1>20 DEF Routed, Onward
  <2>2. Fewer(d, e)
    BY <1>6, <1>19, <1>20 DEF Routed, Fewer
  <2>3. RetainedOf(e.subs) \subseteq RetainedOf(d.subs) \cup {NoMsg, id}
    BY <1>6, <1>19, <1>20 DEF Routed
  <2>4. ASSUME NEW k \in DOMAIN d.msg_store \ DOMAIN e.msg_store PROVE k = id \/ k \in RetainedOf(d.subs)
    <3>1. k \in DOMAIN d1.msg_store /\ k # NoMsg
      BY <1>2, <1>6, StoredNumbers
    <3>2. k \notin DOMAIN w.msg_store => k = id \/ k \in RetainedOf(d1.subs)
      BY <1>19, <3>1 DEF Routed
    <3> QED
      BY <1>6, <1>20, <3>1, <3>2
  <2> QED
    BY <2>1, <2>2, <2>3, <2>4 DEF Delivered
<1> QED
  BY <1>1, <1>20, <1>21 DEF e

------------------------------------------------------------------------------
(* Subscriptions made and removed.                                         *)

\* Contexts come, go and are continued; their messages and leaves stay.
LEMMA ContextsChanged ==
  ASSUME NEW d, NEW x \in Extra, Good(d, x), NEW K \in Contexts, IsFiniteSet(DOMAIN K),
         \A c \in DOMAIN d.contexts :
           IF c \in DOMAIN K THEN K[c].msgs = d.contexts[c].msgs /\ K[c].subs = d.contexts[c].subs
           ELSE d.contexts[c].msgs = <<>> /\ d.contexts[c].subs = {},
         \A c \in DOMAIN K : CountTrue(K[c]) /\ (c \notin DOMAIN d.contexts => K[c].msgs = <<>> /\ K[c].subs = {})
  PROVE  LET e == [d EXCEPT !.contexts = K]
         IN  Good(e, x) /\ e \in DbType
<1> DEFINE e == [d EXCEPT !.contexts = K]
           Q == Queues(d)
           R == Queues(e)
<1>1. d \in DbType /\ Shape(d) /\ Indexed(d) /\ Exact(d, x)
  BY DEF Good, Shape
<1>2. e \in DbType /\ e.subs = d.subs /\ e.msg_store = d.msg_store /\ e.contexts = K /\ e.last_db_id = d.last_db_id
  BY <1>1, DbWith
<1> HIDE DEF e
<1>3. \A c \in DOMAIN K : K[c] \in Context /\ K[c].msgs \in Seq(Message)
  BY <1>2, DbParts
<1>4. Shape(e)
  BY <1>1, <1>2 DEF Shape
<1>5. Counted(e)
  BY <1>2 DEF Counted
<1>6. DOMAIN <<>> = {}
  OBVIOUS
<1>7. Indexed(e)
  <2>1. ASSUME NEW p \in DOMAIN d.subs, NEW c \in DOMAIN d.subs[p].subs PROVE c \in DOMAIN K
    <3>1. c \in DOMAIN d.contexts /\ p \in d.contexts[c].subs
      BY <1>1 DEF Indexed
    <3> QED
      BY <3>1
  <2>2. ASSUME NEW c \in DOMAIN K PROVE K[c].subs = {p \in DOMAIN d.subs : c \in DOMAIN d.subs[p].subs}
    <3>1. CASE c \in DOMAIN d.contexts
      BY <1>1, <3>1 DEF Indexed
    <3>2. CASE c \notin DOMAIN d.contexts
      <4>1. \A p \in DOMAIN d.subs : c \notin DOMAIN d.subs[p].subs
        BY <1>1, <3>2 DEF Indexed
      <4> QED
        BY <3>2, <4>1
    <3> QED
      BY <3>1, <3>2
  <2> QED
    BY <1>2, <2>1, <2>2 DEF Indexed
<1>8. /\ QueuesGood(Q) /\ DOMAIN Q = DOMAIN d.contexts /\ \A c \in DOMAIN d.contexts : Q[c] = d.contexts[c].msgs
      /\ QueuesGood(R) /\ DOMAIN R = DOMAIN K /\ \A c \in DOMAIN K : R[c] = K[c].msgs
  BY <1>1, <1>2, <1>4, HeldFacts DEF Queues
<1>9. \A id : InQueues(R, id) = InQueues(Q, id)
  <2> HIDE DEF Q, R
  <2>1. \A c \in DOMAIN Q : IF c \in DOMAIN R THEN R[c] = Q[c] ELSE Q[c] = <<>>
    BY <1>8
  <2>2. \A c \in DOMAIN R : c \notin DOMAIN Q => R[c] = <<>>
    BY <1>8
  <2> QED
    BY <1>8, <2>1, <2>2, QueuesAlike
<1>10. \A id : Held(e, id) = Held(d, id)
  BY <1>2, <1>9 DEF Held
<1>11. ASSUME NEW c \in DOMAIN K, NEW i \in DOMAIN K[c].msgs PROVE K[c].msgs[i].id \in DOMAIN d.msg_store
  <2>1. c \in DOMAIN d.contexts
    BY <1>6
  <2> QED
    BY <1>1, <2>1 DEF Exact
<1>12. Exact(e, x)
  <2>1. \A id \in DOMAIN e.msg_store : e.msg_store[id].ref_count = Held(e, id) + x[id]
    BY <1>1, <1>2, <1>10 DEF Exact
  <2> QED
    BY <1>1, <1>2, <1>11, <2>1 DEF Exact
<1>13. KeptTrue(e)
  BY <1>2 DEF Good, KeptTrue
<1> QED
  BY <1>2, <1>4, <1>5, <1>7, <1>12, <1>13 DEF Good, e

\* A message is stored, and nothing points to it yet.
LEMMA StoreGood ==
  ASSUME NEW d, NEW x \in Extra, Good(d, x), d.last_db_id < MaxId,
         NEW topic \in Topics \cup {NoTopic}, NEW qos \in 0..2, NEW retain \in BOOLEAN, NEW empty \in BOOLEAN
  PROVE  LET e == Store(d, topic, qos, retain, empty)
         IN  /\ Good(e, x) /\ e \in DbType /\ e.last_db_id \in DOMAIN e.msg_store
             /\ e.subs = d.subs /\ e.contexts = d.contexts /\ e.msg_store[e.last_db_id].topic = topic
<1> DEFINE id == d.last_db_id + 1
           m == [topic |-> topic, qos |-> qos, retain |-> retain, empty |-> empty, ref_count |-> 0, dest_ids |-> {}]
           s == Put(d.msg_store, id, m)
           e == Store(d, topic, qos, retain, empty)
<1>1. d \in DbType /\ Shape(d) /\ Indexed(d) /\ Exact(d, x) /\ d.last_db_id \in 0..MaxId /\ MaxId \in Nat
  BY DbParts, RoutingAssumption DEF Good, Shape
<1>2. id \in 1..MaxId /\ id \notin DOMAIN d.msg_store /\ DOMAIN d.msg_store \subseteq 1..id
  <2>1. id \in 1..MaxId
    BY <1>1
  <2>2. DOMAIN d.msg_store \subseteq 1..d.last_db_id
    BY <1>1 DEF Shape
  <2>3. \A k \in 1..d.last_db_id : k \in 1..id /\ k # id
    BY <1>1
  <2> QED
    BY <2>1, <2>2, <2>3
<1>3. m \in Stored
  BY DEF Stored
<1>4. e = [d EXCEPT !.last_db_id = id, !.msg_store = s]
  BY DEF Store
<1>5. DOMAIN s = DOMAIN d.msg_store \cup {id} /\ s[id] = m /\ \A k \in DOMAIN d.msg_store : s[k] = d.msg_store[k]
  BY <1>2 DEF Put
<1>6. s \in Msgs
  <2>1. DOMAIN s \in SUBSET (1..MaxId) /\ \A k \in DOMAIN s : s[k] \in Stored
    <3> HIDE DEF s, m, id
    <3> QED
      BY <1>1, <1>2, <1>3, <1>5, DbParts
  <2>2. s \in [DOMAIN s -> Stored]
    <3>1. s = [k \in DOMAIN s |-> s[k]]
      BY DEF Put
    <3> HIDE DEF s
    <3> QED
      BY <2>1, <3>1
  <2> HIDE DEF s
  <2> QED
    BY <2>1, <2>2, MapsFacts DEF Msgs
<1>7. m.topic = topic /\ m.ref_count = 0
  OBVIOUS
<1> HIDE DEF s, m
<1>8. e \in DbType /\ e.subs = d.subs /\ e.msg_store = s /\ e.contexts = d.contexts /\ e.last_db_id = id
  <2>1. id \in 0..MaxId
    BY <1>2
  <2> QED
    BY <1>1, <1>4, <1>6, <2>1 DEF DbType, Msgs
<1> HIDE DEF e, id
<1>9. Shape(e)
  <2>1. DOMAIN s \subseteq 1..id
    BY <1>2, <1>5
  <2> QED
    BY <1>1, <1>8, <2>1 DEF Shape
<1>10. Indexed(e) /\ Counted(e)
  BY <1>8 DEF Good, Indexed, Counted
<1>11. Queues(e) = Queues(d)
  BY <1>8 DEF Queues
<1>12. \A k : Held(e, k) = Held(d, k)
  BY <1>8, <1>11 DEF Held
<1>13. Held(d, id) = 0 /\ x[id] = 0
  <2>1. x[id] = 0
    BY <1>1, <1>2 DEF Exact
  <2>2. KeptAt(d.subs, id) = {}
    BY <1>1, <1>2, StoredNumbers DEF KeptAt, Exact
  <2>3. InQueues(Queues(d), id) = {}
    <3>1. QueuesGood(Queues(d))
      BY <1>1, HeldFacts
    <3>2. ASSUME NEW q \in InQueues(Queues(d), id) PROVE FALSE
      <4>1. PICK c \in DOMAIN Queues(d) : \E i \in DOMAIN Queues(d)[c] : Queues(d)[c][i].id = id
        BY <3>1, <3>2, InQueuesFacts
      <4>2. PICK i \in DOMAIN Queues(d)[c] : Queues(d)[c][i].id = id
        BY <4>1
      <4>3. c \in DOMAIN d.contexts /\ Queues(d)[c] = d.contexts[c].msgs
        BY DEF Queues
      <4> QED
        BY <1>1, <1>2, <4>2, <4>3 DEF Exact
    <3> QED
      BY <3>2
  <2>4. Cardinality(KeptAt(d.subs, id)) = 0 /\ Cardinality(InQueues(Queues(d), id)) = 0
    <3>1. Cardinality({}) = 0
      BY FS_EmptySet
    <3> QED
      BY <2>2, <2>3, <3>1
  <2> QED
    BY <2>1, <2>4 DEF Held
<1>14. Exact(e, x)
  <2>1. ASSUME NEW k \in DOMAIN s PROVE s[k].ref_count = Held(e, k) + x[k]
    <3>1. CASE k = id
      <4>1. s[k].ref_count = 0
        BY <1>5, <1>7, <3>1
      <4>2. Held(e, k) = 0 /\ x[k] = 0
        BY <1>12, <1>13, <3>1
      <4> QED
        BY <4>1, <4>2
    <3>2. CASE k # id
      BY <1>1, <1>5, <1>12, <3>2 DEF Exact
    <3> QED
      BY <3>1, <3>2
  <2> QED
    BY <1>1, <1>5, <1>8, <2>1 DEF Exact
<1>15. KeptTrue(e)
  BY <1>1, <1>5, <1>8 DEF Good, KeptTrue, Exact
<1>16. id \in DOMAIN s /\ s[id].topic = topic
  BY <1>5, <1>7
<1> QED
  BY <1>8, <1>9, <1>10, <1>14, <1>15, <1>16 DEF Good, e

------------------------------------------------------------------------------
\* A leaf is put on a path and in the index of its context.
LEMMA SubAddGood ==
  ASSUME NEW d, NEW x \in Extra, Good(d, x), NEW c \in DOMAIN d.contexts, NEW filter \in Topic, NEW qos \in 0..2
  PROVE  LET e == SubAdd(d, c, filter, qos)
         IN  /\ Good(e, x) /\ e \in DbType /\ Onward(d, e) /\ e.msg_store = d.msg_store
             /\ RetainedOf(e.subs) \subseteq RetainedOf(d.subs) \cup {NoMsg}
<1> DEFINE path == PathOf(filter)
           t0 == d.subs
           t == AddPath(t0, path)
           l == Put(t[path].subs, c, qos)
           nd == [t[path] EXCEPT !.subs = l]
           u == [t EXCEPT ![path] = nd]
           o == d.contexts[c]
           v == [o EXCEPT !.subs = @ \cup {path}]
           K == [d.contexts EXCEPT ![c] = v]
           e == SubAdd(d, c, filter, qos)
<1>1. d \in DbType /\ Tree(t0) /\ Idle(t0) \subseteq OfTopics /\ Indexed(d) /\ path \in Path /\ o \in Context /\ c \in Client
  BY DbParts, PathOfType DEF Good, Shape
<1>2. e = [d EXCEPT !.subs = u, !.contexts = K]
  BY DEF SubAdd
<1>3. /\ Tree(t) /\ DOMAIN t = DOMAIN t0 \cup Above(path)
      /\ \A p \in DOMAIN t0 : t[p].subs = t0[p].subs /\ t[p].retained = t0[p].retained
      /\ \A p \in Above(path) \ DOMAIN t0 : Bare(t[p])
      /\ Idle(t) \subseteq Idle(t0) \cup {path}
  BY <1>1, AddPathKeeps
<1>4. path \in DOMAIN t
  BY <1>1, <1>3, AboveFacts
<1> HIDE DEF t, path
<1>5. t[path] \in Node /\ t[path].subs \in Leaves /\ DOMAIN t \in SUBSET Path /\ t = [p \in DOMAIN t |-> t[p]]
  BY <1>3, <1>4, TreeFacts
<1>6. l \in Leaves /\ DOMAIN l = DOMAIN t[path].subs \cup {c}
  <2>1. DOMAIN t[path].subs \in SUBSET Client /\ \A a \in DOMAIN t[path].subs : t[path].subs[a] \in 0..2
    BY <1>5, MapsFacts DEF Leaves
  <2>2. DOMAIN l = DOMAIN t[path].subs \cup {c} /\ l = [a \in DOMAIN l |-> l[a]]
        /\ \A a \in DOMAIN l : l[a] = IF a = c THEN qos ELSE t[path].subs[a]
    BY DEF Put
  <2> HIDE DEF l
  <2>3. l \in [DOMAIN l -> 0..2] /\ DOMAIN l \in SUBSET Client
    BY <1>1, <2>1, <2>2
  <2> QED
    BY <2>2, <2>3, MapsFacts DEF Leaves
<1> HIDE DEF l
<1>7. nd \in Node /\ nd.children = t[path].children /\ nd.subs = l /\ nd.retained = t[path].retained
  BY <1>5, <1>6 DEF Node
<1> HIDE DEF nd
<1>8. DOMAIN u = DOMAIN t /\ \A p \in DOMAIN t : u[p] = IF p = path THEN nd ELSE t[p]
  BY <1>4, <1>5
<1>9. u = [p \in DOMAIN u |-> u[p]]
  BY <1>5
<1> HIDE DEF u
<1>10. Tree(u)
  <2>1. \A p \in DOMAIN t : u[p].children = t[p].children
    BY <1>7, <1>8
  <2>2. Linked(u)
    <3>1. ASSUME NEW p \in DOMAIN u, Len(p) > 1
          PROVE  Front(p) \in DOMAIN u /\ \E i \in DOMAIN u[Front(p)].children : u[Front(p)].children[i] = p[Len(p)]
      <4>1. Front(p) \in DOMAIN t /\ \E i \in DOMAIN t[Front(p)].children : t[Front(p)].children[i] = p[Len(p)]
        BY <1>3, <1>8, <3>1 DEF Tree, Linked
      <4> QED
        BY <1>8, <2>1, <4>1
    <3>2. ASSUME NEW p \in DOMAIN u
          PROVE  /\ \A i, j \in DOMAIN u[p].children : u[p].children[i] = u[p].children[j] => i = j
                 /\ \A i \in DOMAIN u[p].children : Append(p, u[p].children[i]) \in DOMAIN u
      <4>1. u[p].children = t[p].children /\ p \in DOMAIN t /\ DOMAIN u = DOMAIN t
        BY <1>8, <2>1
      <4>2. /\ \A i, j \in DOMAIN t[p].children : t[p].children[i] = t[p].children[j] => i = j
            /\ \A i \in DOMAIN t[p].children : Append(p, t[p].children[i]) \in DOMAIN t
        BY <1>3, <4>1 DEF Tree, Linked
      <4> QED
        BY ONLY <4>1, <4>2
    <3> QED
      BY <3>1, <3>2 DEF Linked
  <2>3. u \in Maps(Path, Node)
    <3>1. \A p \in DOMAIN u : u[p] \in Node /\ p \in Path
      BY <1>3, <1>5, <1>7, <1>8, TreeFacts
    <3>2. u \in [DOMAIN u -> Node] /\ DOMAIN u \in SUBSET Path
      BY <1>9, <3>1
    <3> QED
      BY <3>2, MapsFacts
  <2>4. IsFiniteSet(DOMAIN u)
    BY <1>3, <1>8 DEF Tree
  <2> QED
    BY <2>2, <2>3, <2>4 DEF Tree
<1>11. Idle(u) \subseteq OfTopics
  <2>1. ASSUME NEW p \in Idle(u) PROVE p \in Idle(t0)
    <3>1. p # path
      <4>1. u[path].subs # <<>>
        <5>1. c \in DOMAIN l /\ DOMAIN <<>> = {}
          BY <1>6
        <5> QED
          BY <1>4, <1>7, <1>8, <5>1
      <4> QED
        BY <4>1 DEF Idle, Bare
    <3>2. p \in Idle(t)
      BY <1>8, <3>1 DEF Idle
    <3> QED
      BY <1>3, <3>1, <3>2
  <2> QED
    BY <1>1, <2>1
<1>12. v \in Context /\ v.subs = o.subs \cup {path} /\ v.msgs = o.msgs /\ v.msg_count12 = o.msg_count12 /\ v.sock = o.sock
  BY <1>1 DEF Context, path
<1> HIDE DEF v
<1>13. DOMAIN K = DOMAIN d.contexts /\ \A b \in DOMAIN K : K[b] = IF b = c THEN v ELSE d.contexts[b]
  OBVIOUS
<1>14. K \in Contexts
  <2>1. \A b \in DOMAIN K : K[b] \in Context /\ b \in Client
    BY <1>1, <1>12, <1>13, DbParts
  <2>2. K \in [DOMAIN K -> Context] /\ DOMAIN K \in SUBSET Client
    BY <2>1
  <2> HIDE DEF K
  <2> QED
    BY <2>2, MapsFacts DEF Contexts
<1> HIDE DEF K
<1>15. e \in DbType /\ e.subs = u /\ e.contexts = K /\ e.msg_store = d.msg_store /\ e.last_db_id = d.last_db_id
  <2>1. u \in Maps(Path, Node)
    BY <1>10 DEF Tree
  <2> QED
    BY <1>1, <1>2, <1>14, <2>1 DEF DbType, Contexts
<1> HIDE DEF e
<1>16. \A p \in Path : Retains(u, p) = Retains(t0, p)
  <2>1. \A p \in DOMAIN t : u[p].retained = t[p].retained
    BY <1>7, <1>8
  <2> QED
    BY <1>3, <1>8, <2>1 DEF Retains, Bare
<1>17. \A p \in DOMAIN u : DOMAIN u[p].subs = (IF p \in DOMAIN t0 THEN DOMAIN t0[p].subs ELSE {}) \cup (IF p = path THEN {c} ELSE {})
  <2>1. \A p \in DOMAIN t : DOMAIN t[p].subs = IF p \in DOMAIN t0 THEN DOMAIN t0[p].subs ELSE {}
    <3>1. DOMAIN <<>> = {}
      OBVIOUS
    <3> QED
      BY <1>3, <3>1 DEF Bare
  <2> QED
    BY <1>4, <1>6, <1>7, <1>8, <2>1
<1>18. Indexed(e)
  <2>1. \A p \in DOMAIN u : DOMAIN u[p].subs \subseteq DOMAIN K
    BY <1>1, <1>13, <1>17 DEF Indexed
  <2>2. ASSUME NEW b \in DOMAIN K PROVE K[b].subs = {p \in DOMAIN u : b \in DOMAIN u[p].subs}
    <3>1. d.contexts[b].subs = {p \in DOMAIN t0 : b \in DOMAIN t0[p].subs}
      BY <1>1, <1>13 DEF Indexed
    <3>2. CASE b = c
      <4>1. K[b].subs = d.contexts[b].subs \cup {path}
        BY <1>12, <1>13, <3>2
      <4> QED
        BY <1>3, <1>4, <1>8, <1>17, <3>1, <3>2, <4>1
    <3>3. CASE b # c
      <4>1. K[b].subs = d.contexts[b].subs
        BY <1>13, <3>3
      <4> QED
        BY <1>3, <1>8, <1>17, <3>1, <3>3, <4>1
    <3> QED
      BY <3>2, <3>3
  <2> QED
    BY <1>15, <2>1, <2>2 DEF Indexed
<1>19. Good(e, x) /\ Onward(d, e)
  <2>1. \A b \in DOMAIN d.contexts : /\ e.contexts[b].msgs = d.contexts[b].msgs
                                     /\ e.contexts[b].msg_count12 = d.contexts[b].msg_count12
                                     /\ e.contexts[b].sock = d.contexts[b].sock
    BY <1>12, <1>13, <1>15
  <2>2. Tree(e.subs) /\ Idle(e.subs) \subseteq OfTopics /\ \A p \in Path : Retains(e.subs, p) = Retains(d.subs, p)
    BY <1>10, <1>11, <1>15, <1>16
  <2>3. DOMAIN e.contexts = DOMAIN d.contexts
    BY <1>13, <1>15
  <2> QED
    BY <1>15, <1>18, <2>1, <2>2, <2>3, TreeChanged
<1>20. RetainedOf(u) \subseteq RetainedOf(t0) \cup {NoMsg}
  <2>1. ASSUME NEW p \in DOMAIN u PROVE u[p].retained \in RetainedOf(t0) \cup {NoMsg}
    <3>1. p \in Path /\ Retains(u, p) = Retains(t0, p)
      BY <1>5, <1>8, <1>16
    <3> QED
      BY <3>1 DEF Retains, RetainedOf
  <2> QED
    BY <2>1 DEF RetainedOf
<1> QED
  BY <1>15, <1>19, <1>20 DEF e

\* What is left of a tree when client c's leaves at the paths in S are gone.
Cleaned(t, u, S, c) ==
  /\ DOMAIN u \subseteq DOMAIN t
  /\ \A p \in DOMAIN u : /\ u[p].retained = t[p].retained
                         /\ u[p].subs = IF p \in S THEN WithoutLeaf(t[p], c).subs ELSE t[p].subs
  /\ \A p \in DOMAIN t \ DOMAIN u : t[p].retained = NoMsg /\ DOMAIN t[p].subs \subseteq IF p \in S THEN {c} ELSE {}

\* A first leaf is cleaned away,
LEMMA CleanedFirst ==
  ASSUME NEW t, NEW u, NEW path, NEW c, Cleared(t, u, path, c)
  PROVE  Cleaned(t, u, {path}, c)
BY DEF Cleared, Cleaned

\* which leaves the others,
LEMMA WithoutLeafSubs ==
  ASSUME NEW nd \in Node, NEW c
  PROVE  WithoutLeaf(nd, c).subs = [b \in DOMAIN nd.subs \ {c} |-> nd.subs[b]]
BY DEF WithoutLeaf, Node

\* and then the next one.
LEMMA CleanedNext ==
  ASSUME NEW t, Tree(t), NEW u, Tree(u), NEW S, NEW c, Cleaned(t, u, S, c), NEW path, path \notin S, NEW v, Cleared(u, v, path, c)
  PROVE  Cleaned(t, v, S \cup {path}, c)
<1>1. DOMAIN v \subseteq DOMAIN t
  BY DEF Cleared, Cleaned
<1>2. ASSUME NEW p \in DOMAIN v
      PROVE  /\ v[p].retained = t[p].retained
             /\ v[p].subs = IF p \in S \cup {path} THEN WithoutLeaf(t[p], c).subs ELSE t[p].subs
  <2>1. p \in DOMAIN u
    BY DEF Cleared
  <2>2. u[p].retained = t[p].retained /\ u[p].subs = IF p \in S THEN WithoutLeaf(t[p], c).subs ELSE t[p].subs
    BY <2>1 DEF Cleaned
  <2>3. v[p].retained = u[p].retained /\ v[p].subs = IF p = path THEN WithoutLeaf(u[p], c).subs ELSE u[p].subs
    BY DEF Cleared
  <2>4. CASE p = path
    <3>1. u[p].subs = t[p].subs /\ v[p].subs = WithoutLeaf(u[p], c).subs
      BY <2>2, <2>3, <2>4
    <3>0. u[p] \in Node /\ t[p] \in Node
      BY <1>1, <2>1, TreeFacts DEF Cleaned
    <3>2. WithoutLeaf(u[p], c).subs = [b \in DOMAIN u[p].subs \ {c} |-> u[p].subs[b]]
      BY <3>0, WithoutLeafSubs
    <3>3. WithoutLeaf(t[p], c).subs = [b \in DOMAIN t[p].subs \ {c} |-> t[p].subs[b]]
      BY <3>0, WithoutLeafSubs
    <3>4. WithoutLeaf(u[p], c).subs = WithoutLeaf(t[p], c).subs
      BY <3>1, <3>2, <3>3
    <3> QED
      BY <2>2, <2>3, <2>4, <3>1, <3>4
  <2>5. CASE p # path
    BY <2>2, <2>3, <2>5
  <2> QED
    BY <2>4, <2>5
<1>3. ASSUME NEW p \in DOMAIN t \ DOMAIN v
      PROVE  t[p].retained = NoMsg /\ DOMAIN t[p].subs \subseteq IF p \in S \cup {path} THEN {c} ELSE {}
  <2>1. CASE p \notin DOMAIN u
    BY <2>1 DEF Cleaned
  <2>2. CASE p \in DOMAIN u
    <3>1. u[p].retained = NoMsg /\ DOMAIN u[p].subs \subseteq IF p = path THEN {c} ELSE {}
      BY <2>2 DEF Cleared
    <3>2. u[p].retained = t[p].retained /\ u[p].subs = IF p \in S THEN WithoutLeaf(t[p], c).subs ELSE t[p].subs
      BY <2>2 DEF Cleaned
    <3>3. CASE p \in S
      <4>1. WithoutLeaf(t[p], c).subs = [b \in DOMAIN t[p].subs \ {c} |-> t[p].subs[b]]
        <5>1. t[p] \in Node
          BY TreeFacts
        <5> QED
          BY <5>1, WithoutLeafSubs
      <4>2. DOMAIN u[p].subs = DOMAIN t[p].subs \ {c}
        BY <3>2, <3>3, <4>1
      <4> QED
        BY <3>1, <3>2, <3>3, <4>2
    <3>4. CASE p \notin S
      BY <3>1, <3>2, <3>4
    <3> QED
      BY <3>3, <3>4
  <2> QED
    BY <2>1, <2>2
<1> QED
  BY <1>1, <1>2, <1>3 DEF Cleaned

\* The leaves of one client go, and the index of its context with them.
CleanedOf(d, x, c, S, e) ==
  /\ Good(e, x) /\ e \in DbType /\ Onward(d, e)
  /\ e.contexts = [d.contexts EXCEPT ![c] = [d.contexts[c] EXCEPT !.subs = d.contexts[c].subs \ S]]
\* The leaves of a client at the paths S go together with the entries of its index.
LEMMA CleanedGood ==
  ASSUME NEW d, NEW x \in Extra, Good(d, x), NEW c \in DOMAIN d.contexts, NEW u, Tree(u), Idle(u) \subseteq OfTopics,
         NEW S \in SUBSET Path, Cleaned(d.subs, u, S, c)
  PROVE  CleanedOf(d, x, c, S, [d EXCEPT !.subs = u, !.contexts[c].subs = @ \ S])
<1> DEFINE t == d.subs
           o == d.contexts[c]
           v == [o EXCEPT !.subs = @ \ S]
           K == [d.contexts EXCEPT ![c] = v]
           e == [d EXCEPT !.subs = u, !.contexts = K]
<1>1. d \in DbType /\ Tree(t) /\ Indexed(d) /\ o \in Context /\ c \in Client
  BY DbParts DEF Good, Shape
<1>2. v \in Context /\ v.subs = o.subs \ S /\ v.msgs = o.msgs /\ v.msg_count12 = o.msg_count12 /\ v.sock = o.sock
  BY <1>1 DEF Context
<1> HIDE DEF v
<1>3. DOMAIN K = DOMAIN d.contexts /\ \A b \in DOMAIN K : K[b] = IF b = c THEN v ELSE d.contexts[b]
  OBVIOUS
<1>4. K \in Contexts
  <2>1. \A b \in DOMAIN K : K[b] \in Context /\ b \in Client
    BY <1>1, <1>2, <1>3, DbParts
  <2>2. K \in [DOMAIN K -> Context] /\ DOMAIN K \in SUBSET Client
    BY <2>1
  <2> HIDE DEF K
  <2> QED
    BY <2>2, MapsFacts DEF Contexts
<1> HIDE DEF K
<1>5. e \in DbType /\ e.subs = u /\ e.contexts = K /\ e.msg_store = d.msg_store /\ e.last_db_id = d.last_db_id
  <2>1. u \in Maps(Path, Node)
    BY DEF Tree
  <2> QED
    BY <1>1, <1>4, <2>1 DEF DbType, Contexts
<1> HIDE DEF e
<1>6. \A p \in Path : Retains(u, p) = Retains(t, p)
  BY DEF Retains, Cleaned
<1>7. \A p \in DOMAIN u : p \in DOMAIN t /\ DOMAIN u[p].subs = DOMAIN t[p].subs \ IF p \in S THEN {c} ELSE {}
  <2>1. ASSUME NEW p \in DOMAIN u
        PROVE  p \in DOMAIN t /\ DOMAIN u[p].subs = DOMAIN t[p].subs \ IF p \in S THEN {c} ELSE {}
    <3>1. p \in DOMAIN t /\ u[p].subs = IF p \in S THEN WithoutLeaf(t[p], c).subs ELSE t[p].subs
      BY DEF Cleaned
    <3>2. WithoutLeaf(t[p], c).subs = [b \in DOMAIN t[p].subs \ {c} |-> t[p].subs[b]]
      BY <1>1, <3>1, TreeFacts, WithoutLeafSubs, ZenonT(40)
    <3> QED
      BY <3>1, <3>2
  <2> QED
    BY <2>1
<1>8. Indexed(e)
  <2>1. \A p \in DOMAIN u : DOMAIN u[p].subs \subseteq DOMAIN K
    BY <1>1, <1>3, <1>7 DEF Indexed
  <2>2. ASSUME NEW b \in DOMAIN K PROVE K[b].subs = {p \in DOMAIN u : b \in DOMAIN u[p].subs}
    <3>1. d.contexts[b].subs = {p \in DOMAIN t : b \in DOMAIN t[p].subs}
      BY <1>1, <1>3 DEF Indexed
    <3>2. \A p \in DOMAIN t \ DOMAIN u : DOMAIN t[p].subs \subseteq IF p \in S THEN {c} ELSE {}
      BY DEF Cleaned
    <3>3. CASE b = c
      <4>1. K[b].subs = d.contexts[b].subs \ S
        BY <1>2, <1>3, <3>3
      <4>2. \A p \in DOMAIN t \ DOMAIN u : c \in DOMAIN t[p].subs => p \in S
        BY <3>2
      <4> QED
        BY <1>7, <3>1, <3>3, <4>1, <4>2
    <3>4. CASE b # c
      <4>1. K[b].subs = d.contexts[b].subs
        BY <1>3, <3>4
      <4> QED
        BY <1>7, <3>1, <3>2, <3>4, <4>1
    <3> QED
      BY <3>3, <3>4
  <2> QED
    BY <1>5, <2>1, <2>2 DEF Indexed
<1>9. Good(e, x) /\ Onward(d, e)
  <2>1. \A b \in DOMAIN d.contexts : /\ e.contexts[b].msgs = d.contexts[b].msgs
                                     /\ e.contexts[b].msg_count12 = d.contexts[b].msg_count12
                                     /\ e.contexts[b].sock = d.contexts[b].sock
    BY <1>2, <1>3, <1>5
  <2>2. Tree(e.subs) /\ Idle(e.subs) \subseteq OfTopics /\ \A p \in Path : Retains(e.subs, p) = Retains(d.subs, p)
    BY <1>5, <1>6
  <2>3. DOMAIN e.contexts = DOMAIN d.contexts
    BY <1>3, <1>5
  <2> QED
    BY <1>5, <1>8, <2>1, <2>2, <2>3, TreeChanged
<1>10. e = [d EXCEPT !.subs = u, !.contexts[c].subs = @ \ S]
  BY DEF e, K, v
<1> QED
  BY <1>5, <1>9, <1>10 DEF K, v, CleanedOf

\* _sub_remove
LEMMA SubRemoveGood ==
  ASSUME NEW d, NEW x \in Extra, Good(d, x), NEW c \in DOMAIN d.contexts, NEW filter \in Topic
  PROVE  Good(SubRemove(d, c, filter), x)
<1> DEFINE path == PathOf(filter)
           u == RemoveLeaf(d.subs, path, c)
           e == [d EXCEPT !.subs = u, !.contexts[c].subs = @ \ {path}]
<1>1. SubRemove(d, c, filter) = IF <<path[1]>> \notin DOMAIN d.subs THEN d ELSE e
  BY DEF SubRemove
<1>2. Tree(d.subs) /\ Idle(d.subs) \subseteq OfTopics /\ path \in Path
  BY PathOfType DEF Good, Shape
<1>3. Tree(u) /\ Cleared(d.subs, u, path, c) /\ Idle(u) \subseteq Idle(d.subs)
  BY <1>2, RemoveLeafKeeps
<1>4. Cleaned(d.subs, u, {path}, c) /\ Idle(u) \subseteq OfTopics /\ {path} \in SUBSET Path
  BY <1>2, <1>3, CleanedFirst
<1> HIDE DEF u, path
<1>5. CleanedOf(d, x, c, {path}, e)
  BY <1>3, <1>4, CleanedGood
<1>6. Good(e, x)
  BY <1>5 DEF CleanedOf
<1> HIDE DEF e
<1> QED
  BY <1>1, <1>6

------------------------------------------------------------------------------
(* The end of a session, and the making of one.                            *)

\* mqtt3_subs_clean_session: every node that has a leaf of the client loses it.
LEMMA SubsCleanSessionGood ==
  ASSUME NEW d, NEW x \in Extra, Good(d, x), NEW c \in DOMAIN d.contexts
  PROVE  LET e == SubsCleanSession(d, c)
         IN  /\ Good(e, x) /\ e \in DbType /\ Onward(d, e)
             /\ e.contexts[c].subs = {}
<1> DEFINE t == d.subs
           S == d.contexts[c].subs
           s == SetToSeq(S)
           n == Len(s)
           Clean(a, p) == CleanLeaf(a, p, c)
           P(h) == h = [i \in 0..n |-> IF i = 0 THEN t ELSE Clean(h[i - 1], s[i])]
           f == CHOOSE h : P(h)
           u == f[n]
           e == SubsCleanSession(d, c)
<1>1. e = [d EXCEPT !.subs = u, !.contexts[c].subs = {}]
  BY DEF SubsCleanSession, Each
<1>2. d \in DbType /\ Tree(t) /\ Idle(t) \subseteq OfTopics /\ S = {p \in DOMAIN t : c \in DOMAIN t[p].subs}
  BY DEF Good, Shape, Indexed
<1>3. S \in SUBSET DOMAIN t /\ S \in SUBSET Path /\ IsFiniteSet(S)
  <2>1. IsFiniteSet(DOMAIN t) /\ DOMAIN t \in SUBSET Path /\ S \in SUBSET DOMAIN t
    BY <1>2, TreeFacts DEF Tree
  <2> HIDE DEF t, S
  <2> QED
    BY <2>1, FS_Subset
<1> HIDE DEF S, f
<1>4. /\ n \in Nat /\ \A i \in 1..n : s[i] \in S
      /\ \A i, j \in 1..n : s[i] = s[j] => i = j
      /\ \A p \in S : \E i \in 1..n : s[i] = p
  <2> DEFINE m == Cardinality(S)
  <2>1. m \in Nat
    BY <1>3, FS_CardinalityType
  <2>2. \E b : b \in [1..m -> S] /\ IsInjective(b)
    BY <1>3, SetToSeqExists
  <2>3. s \in [1..m -> S] /\ IsInjective(s)
    BY <2>2 DEF SetToSeq
  <2> HIDE DEF s, m
  <2>4. n = m
    BY <2>1, <2>3
  <2>5. s \in Surjection(1..m, S)
    <3>1. s \in Injection(1..m, S)
      BY <2>3 DEF Injection
    <3>2. IsFiniteSet(1..m) /\ Cardinality(1..m) = m
      BY <2>1, FS_Interval
    <3>3. Cardinality(1..m) = Cardinality(S)
      BY <3>2 DEF m
    <3> QED
      BY <1>3, <3>1, <3>2, <3>3, FS_Injection
  <2> QED
    BY <2>1, <2>3, <2>4, <2>5 DEF IsInjective, Surjection
<1> HIDE DEF s
<1> DEFINE Done(i) == {s[j] : j \in 1..i}
           D == {a \in Maps(Path, Node) : Tree(a)}
           J == [i \in 0..n |-> {a \in D : Idle(a) \subseteq OfTopics /\ Cleaned(t, a, Done(i), c)}]
<1>5. \A i \in 1..n : i \in 0..n /\ i - 1 \in 0..n /\ i # 0 /\ Done(i) = Done(i - 1) \cup {s[i]} /\ s[i] \notin Done(i - 1)
  <2>1. SUFFICES ASSUME NEW i \in 1..n
                 PROVE  i \in 0..n /\ i - 1 \in 0..n /\ i # 0 /\ Done(i) = Done(i - 1) \cup {s[i]} /\ s[i] \notin Done(i - 1)
    OBVIOUS
  <2>2. 1..i = (1..i - 1) \cup {i} /\ \A j \in 1..i - 1 : j # i /\ j \in 1..n
    BY <1>4
  <2>3. i \in 0..n /\ i - 1 \in 0..n /\ i # 0
    BY <1>4
  <2> QED
    BY <1>4, <2>2, <2>3
<1>6. 0 \in 0..n /\ n \in 0..n /\ Done(0) = {} /\ Done(n) = S
  <2>1. 1..0 = {}
    OBVIOUS
  <2> QED
    BY <1>4, <2>1
<1> HIDE DEF Done
<1>7. t \in J[0]
  <2>1. t \in D
    BY <1>2 DEF Tree
  <2>2. Cleaned(t, t, {}, c)
    BY DEF Cleaned
  <2> QED
    BY <1>2, <1>6, <2>1, <2>2
<1>8. \A i \in 0..n : J[i] \subseteq D
  OBVIOUS
<1>9. ASSUME NEW i \in 1..n, NEW a \in J[i - 1] PROVE Clean(a, s[i]) \in J[i]
  <2>1. Tree(a) /\ Idle(a) \subseteq OfTopics /\ Cleaned(t, a, Done(i - 1), c)
    BY <1>5
  <2>2. s[i] \in DOMAIN a
    <3>1. s[i] \in DOMAIN t /\ c \in DOMAIN t[s[i]].subs
      BY <1>2, <1>4
    <3>2. s[i] \notin Done(i - 1)
      BY <1>5
    <3> QED
      BY <2>1, <3>1, <3>2 DEF Cleaned
  <2> DEFINE b == CleanLeaf(a, s[i], c)
  <2>3. Tree(b) /\ Cleared(a, b, s[i], c) /\ Idle(b) \subseteq Idle(a)
    BY <2>1, <2>2, CleanLeafKeeps
  <2> HIDE DEF b
  <2>4. Cleaned(t, b, Done(i - 1) \cup {s[i]}, c)
    BY <1>2, <1>5, <2>1, <2>3, CleanedNext
  <2>5. b \in D /\ Idle(b) \subseteq OfTopics /\ Cleaned(t, b, Done(i), c)
    BY <1>5, <2>1, <2>3, <2>4 DEF Tree
  <2>6. b \in J[i]
    BY <1>5, <2>5
  <2> HIDE DEF J
  <2> QED
    BY <2>6 DEF b
<1> DEFINE F == [p \in (1..n) \X D |-> Clean(p[2], s[p[1]])]
<1>10. \A i \in 1..n : \A a \in J[i - 1] : F[<<i, a>>] = Clean(a, s[i]) /\ F[<<i, a>>] \in J[i]
  <2>1. SUFFICES ASSUME NEW i \in 1..n, NEW a \in J[i - 1] PROVE F[<<i, a>>] = Clean(a, s[i]) /\ F[<<i, a>>] \in J[i]
    OBVIOUS
  <2>2. a \in D
    BY <1>5
  <2> HIDE DEF D, J
  <2>3. F[<<i, a>>] = Clean(a, s[i])
    BY <2>2
  <2> HIDE DEF F, Clean
  <2> QED
    BY <1>9, <2>3
<1>11. \A a \in J[n] : Tree(a) /\ Idle(a) \subseteq OfTopics /\ Cleaned(t, a, S, c)
  BY <1>6
<1> HIDE DEF F, J, D, Clean, n
<1>12. PICK g : Loop(g, n, t, F) /\ \A i \in 0..n : g[i] \in J[i]
  <2>1. \A i \in 1..n : \A a \in J[i - 1] : F[<<i, a>>] \in J[i]
    BY <1>10
  <2> QED
    BY ONLY <1>4, <1>7, <2>1, LoopExists
<1>13. P(g)
  <2>1. \A i \in 0..n : i # 0 => i \in 1..n /\ g[i - 1] \in J[i - 1]
    BY <1>4, <1>5, <1>12
  <2>2. g = [i \in 0..n |-> IF i = 0 THEN t ELSE F[<<i, g[i - 1]>>]]
    BY <1>12 DEF Loop
  <2> HIDE DEF t
  <2> QED
    BY <1>10, <2>1, <2>2
<1>14. P(f)
  <2> HIDE DEF P
  <2> QED
    BY <1>13 DEF f
<1> HIDE DEF t
<1>15. f[0] = t /\ \A i \in 1..n : f[i] = Clean(f[i - 1], s[i])
  BY <1>5, <1>6, <1>14
<1> HIDE DEF P
<1>16. f[n] \in J[n]
  <2>1. f[0] \in J[0]
    BY <1>7, <1>15
  <2>2. \A i \in 1..n : f[i - 1] \in J[i - 1] => f[i] \in J[i]
    BY <1>9, <1>15
  <2>3. \A i \in 0..n : f[i] \in J[i]
    BY ONLY <1>4, <2>1, <2>2, LoopKeeps
  <2> QED
    BY <1>6, <2>3
<1>17. Tree(u) /\ Idle(u) \subseteq OfTopics /\ Cleaned(t, u, S, c)
  BY <1>11, <1>16
<1> HIDE DEF u
<1> DEFINE w == [d EXCEPT !.subs = u, !.contexts[c].subs = @ \ S]
<1>18. /\ Good(w, x) /\ w \in DbType /\ Onward(d, w)
       /\ w.contexts = [d.contexts EXCEPT ![c] = [d.contexts[c] EXCEPT !.subs = d.contexts[c].subs \ S]]
  <2>1. Cleaned(d.subs, u, S, c)
    BY <1>17 DEF t
  <2>2. CleanedOf(d, x, c, S, w)
    BY <1>3, <1>17, <2>1, CleanedGood
  <2> HIDE DEF w
  <2> QED
    BY <2>2 DEF CleanedOf
<1>19. e = w
  <2>1. d.contexts[c].subs \ S = {}
    BY DEF S
  <2> QED
    BY <1>1, <2>1
<1>20. w.contexts[c].subs = {}
  <2>1. d.contexts[c] \in Context
    BY <1>2, DbParts
  <2>2. d.contexts[c].subs \ S = {}
    BY DEF S
  <2> HIDE DEF w
  <2> QED
    BY <1>18, <2>1, <2>2 DEF Context
<1> HIDE DEF w, e
<1> QED
  BY <1>18, <1>19, <1>20 DEF e

\* mqtt3_context_cleanup of a clean session
LEMMA ForgetGood ==
  ASSUME NEW d, NEW x \in Extra, Good(d, x), NEW c \in DOMAIN d.contexts
  PROVE  Good(Forget(d, c), x) /\ Forget(d, c) \in DbType /\ DOMAIN Forget(d, c).contexts = DOMAIN d.contexts \ {c}
<1> DEFINE a == SubsCleanSession(d, c)
           b == MessagesDelete(a, c)
           K == Drop(b.contexts, {c})
           e == [b EXCEPT !.contexts = K]
<1>1. Forget(d, c) = e
  BY DEF Forget
<1>2. Good(a, x) /\ a \in DbType /\ Onward(d, a) /\ a.contexts[c].subs = {}
  BY SubsCleanSessionGood
<1> HIDE DEF a
<1>3. c \in DOMAIN a.contexts /\ DOMAIN a.contexts = DOMAIN d.contexts
  BY <1>2 DEF Onward
<1>4. Good(b, x) /\ b.contexts = [a.contexts EXCEPT ![c] = Emptied(@)]
  BY <1>2, <1>3, MessagesDeleteGood
<1> HIDE DEF b
<1>5. b \in DbType /\ Shape(b)
  BY <1>4 DEF Good, Shape
<1>6. b.contexts[c].msgs = <<>> /\ b.contexts[c].subs = {} /\ DOMAIN b.contexts = DOMAIN d.contexts
  <2>1. a.contexts[c] \in Context
    BY <1>2, <1>3, DbParts
  <2>2. b.contexts[c] = Emptied(a.contexts[c])
    BY <1>3, <1>4
  <2>3. Emptied(a.contexts[c]).msgs = <<>> /\ Emptied(a.contexts[c]).subs = a.contexts[c].subs
    <3> DEFINE o == a.contexts[c]
    <3> HIDE DEF o
    <3>1. o \in Context => Emptied(o).msgs = <<>> /\ Emptied(o).subs = o.subs
      BY DEF Emptied, Context
    <3> QED
      BY <2>1, <3>1 DEF o
  <2> QED
    BY <1>2, <1>3, <1>4, <2>2, <2>3
<1>7. DOMAIN K = DOMAIN b.contexts \ {c} /\ \A j \in DOMAIN K : K[j] = b.contexts[j]
  BY DEF Drop
<1>8. K \in Contexts
  <2>1. \A j \in DOMAIN K : K[j] \in Context /\ j \in Client
    BY <1>5, <1>7, DbParts
  <2>2. K = [j \in DOMAIN K |-> K[j]]
    BY DEF Drop
  <2> HIDE DEF K
  <2>3. K \in [DOMAIN K -> Context] /\ DOMAIN K \in SUBSET Client
    BY <2>1, <2>2
  <2> QED
    BY <2>3, MapsFacts DEF Contexts
<1> HIDE DEF K
<1>9. IsFiniteSet(DOMAIN K)
  <2>1. IsFiniteSet(DOMAIN b.contexts) /\ DOMAIN K \in SUBSET DOMAIN b.contexts
    BY <1>5, <1>7 DEF Shape
  <2> QED
    BY <2>1, FS_Subset
<1>10. \A j \in DOMAIN b.contexts :
         IF j \in DOMAIN K THEN K[j].msgs = b.contexts[j].msgs /\ K[j].subs = b.contexts[j].subs
         ELSE b.contexts[j].msgs = <<>> /\ b.contexts[j].subs = {}
  BY <1>6, <1>7
<1>11. \A j \in DOMAIN K : CountTrue(K[j]) /\ (j \notin DOMAIN b.contexts => K[j].msgs = <<>> /\ K[j].subs = {})
  BY <1>4, <1>7 DEF Good, Counted
<1>12. Good(e, x) /\ e \in DbType
  BY <1>4, <1>8, <1>9, <1>10, <1>11, ContextsChanged
<1>13. e.contexts = K
  BY <1>5 DEF DbType
<1> QED
  BY <1>1, <1>6, <1>7, <1>12, <1>13

\* A context stays or is replaced, with its messages and the index of its leaves.
LEMMA OneContextChanged ==
  ASSUME NEW d, NEW x \in Extra, Good(d, x), NEW c \in DOMAIN d.contexts, NEW v \in Context,
         v.msgs = d.contexts[c].msgs, v.subs = d.contexts[c].subs, CountTrue(v)
  PROVE  Good([d EXCEPT !.contexts = [d.contexts EXCEPT ![c] = v]], x)
<1> DEFINE K == [d.contexts EXCEPT ![c] = v]
<1>1. d \in DbType /\ Shape(d) /\ Counted(d) /\ c \in Client
  BY DbParts DEF Good, Shape
<1>2. DOMAIN K = DOMAIN d.contexts /\ \A b \in DOMAIN K : K[b] = IF b = c THEN v ELSE d.contexts[b]
  OBVIOUS
<1>3. K \in Contexts
  <2>1. \A b \in DOMAIN K : K[b] \in Context /\ b \in Client
    BY <1>1, <1>2, DbParts
  <2>2. K \in [DOMAIN K -> Context] /\ DOMAIN K \in SUBSET Client
    BY <2>1
  <2> HIDE DEF K
  <2> QED
    BY <2>2, MapsFacts DEF Contexts
<1> HIDE DEF K
<1>4. IsFiniteSet(DOMAIN K)
  BY <1>1, <1>2 DEF Shape
<1>5. \A b \in DOMAIN d.contexts :
         IF b \in DOMAIN K THEN K[b].msgs = d.contexts[b].msgs /\ K[b].subs = d.contexts[b].subs
         ELSE d.contexts[b].msgs = <<>> /\ d.contexts[b].subs = {}
  BY <1>2
<1>6. \A b \in DOMAIN K : CountTrue(K[b]) /\ (b \notin DOMAIN d.contexts => K[b].msgs = <<>> /\ K[b].subs = {})
  BY <1>1, <1>2 DEF Counted
<1>7. Good([d EXCEPT !.contexts = K], x)
  BY <1>3, <1>4, <1>5, <1>6, ContextsChanged
<1> QED
  BY <1>7 DEF K

\* do_disconnect
LEMMA DisconnectedGood ==
  ASSUME NEW d, NEW x \in Extra, Good(d, x), NEW c \in DOMAIN d.contexts
  PROVE  Good(Disconnected(d, c), x)
<1> DEFINE o == d.contexts[c]
           v == [o EXCEPT !.sock = FALSE]
           e == [d EXCEPT !.contexts[c].sock = FALSE]
<1>1. d \in DbType /\ o \in Context /\ CountTrue(o)
  BY DbParts DEF Good, Shape, Counted
<1>2. e = [d EXCEPT !.contexts = [d.contexts EXCEPT ![c] = v]]
  OBVIOUS
<1> HIDE DEF o
<1>3. v \in Context /\ v.msgs = o.msgs /\ v.subs = o.subs /\ v.msg_count12 = o.msg_count12 /\ v.sock = FALSE
  BY <1>1 DEF Context
<1> HIDE DEF v
<1>4. CountTrue(v)
  BY <1>1, <1>3 DEF CountTrue
<1>5. Good([d EXCEPT !.contexts = [d.contexts EXCEPT ![c] = v]], x)
  BY <1>3, <1>4, OneContextChanged DEF o
<1>6. Good(Forget(d, c), x)
  BY ForgetGood
<1> HIDE DEF e
<1> QED
  BY <1>2, <1>5, <1>6 DEF Disconnected, e

\* A session is continued.
Continued(d, c) ==
  [d EXCEPT !.contexts[c].sock = TRUE,
            !.contexts[c].msg_count12 = Cardinality({i \in DOMAIN d.contexts[c].msgs : d.contexts[c].msgs[i].qos > 0})]
\* A session that is continued counts its queue anew.
LEMMA ContinuedGood ==
  ASSUME NEW d, NEW x \in Extra, Good(d, x), NEW c \in DOMAIN d.contexts
  PROVE  Good(Continued(d, c), x)
<1> DEFINE o == d.contexts[c]
           n == Cardinality({i \in DOMAIN o.msgs : o.msgs[i].qos > 0})
           v == [o EXCEPT !.sock = TRUE, !.msg_count12 = n]
<1>1. d \in DbType /\ o \in Context /\ o.msgs \in Seq(Message)
  BY DbParts DEF Good, Shape
<1>2. Continued(d, c) = [d EXCEPT !.contexts = [d.contexts EXCEPT ![c] = v]]
  BY DEF Continued
<1> HIDE DEF o
<1>3. n = Cardinality(Hits(o.msgs, Counts)) /\ n \in Nat
  BY <1>1, HitsMessages, HitsFacts
<1> HIDE DEF n
<1>4. v \in Context /\ v.msgs = o.msgs /\ v.subs = o.subs /\ v.msg_count12 = n
  BY <1>1, <1>3 DEF Context
<1> HIDE DEF v
<1>5. CountTrue(v)
  BY <1>3, <1>4 DEF CountTrue
<1>6. Good([d EXCEPT !.contexts = [d.contexts EXCEPT ![c] = v]], x)
  BY <1>4, <1>5, OneContextChanged DEF o
<1> QED
  BY <1>2, <1>6

\* A new session.
LEMMA NewContextGood ==
  ASSUME NEW d, NEW x \in Extra, Good(d, x), NEW c \in Client, c \notin DOMAIN d.contexts, NEW clean \in BOOLEAN
  PROVE  Good([d EXCEPT !.contexts = Put(@, c, NewContext(clean))], x)
<1> DEFINE v == NewContext(clean)
           K == Put(d.contexts, c, v)
<1>1. d \in DbType /\ Shape(d) /\ Counted(d)
  BY DEF Good, Shape
<1>2. DOMAIN K = DOMAIN d.contexts \cup {c} /\ K[c] = v /\ \A b \in DOMAIN d.contexts : K[b] = d.contexts[b]
  BY DEF Put
<1>3. v \in Context /\ v.msgs = <<>> /\ v.subs = {} /\ CountTrue(v)
  <2>1. <<>> \in Seq(Message) /\ {} \in SUBSET Path
    OBVIOUS
  <2>2. v \in Context /\ v.msgs = <<>> /\ v.subs = {} /\ v.msg_count12 = 0
    BY <2>1 DEF NewContext, Context
  <2>3. Cardinality(Hits(<<>>, Counts)) = 0
    BY <2>1, HitsFacts
  <2> HIDE DEF v
  <2> QED
    BY <2>2, <2>3 DEF CountTrue
<1> HIDE DEF v
<1>4. K \in Contexts
  <2>1. \A j \in DOMAIN K : K[j] \in Context /\ j \in Client
    BY <1>1, <1>2, <1>3, DbParts
  <2>2. K = [j \in DOMAIN K |-> K[j]]
    BY DEF Put
  <2> HIDE DEF K
  <2>3. K \in [DOMAIN K -> Context] /\ DOMAIN K \in SUBSET Client
    BY <2>1, <2>2
  <2> QED
    BY <2>3, MapsFacts DEF Contexts
<1> HIDE DEF K
<1>5. IsFiniteSet(DOMAIN K)
  BY <1>1, <1>2, FS_AddElement DEF Shape
<1>6. \A b \in DOMAIN d.contexts :
         IF b \in DOMAIN K THEN K[b].msgs = d.contexts[b].msgs /\ K[b].subs = d.contexts[b].subs
         ELSE d.contexts[b].msgs = <<>> /\ d.contexts[b].subs = {}
  BY <1>2
<1>7. \A b \in DOMAIN K : CountTrue(K[b]) /\ (b \notin DOMAIN d.contexts => K[b].msgs = <<>> /\ K[b].subs = {})
  BY <1>1, <1>2, <1>3 DEF Counted
<1>8. Good([d EXCEPT !.contexts = K], x)
  BY <1>4, <1>5, <1>6, <1>7, ContextsChanged
<1> QED
  BY <1>8 DEF K, v

------------------------------------------------------------------------------
(* The retained messages of a new subscription.                            *)

\* One node of the walk for a new subscription: _retain_process.
RetainProcess(e, node, c, sub_qos) ==
  LET id == e.subs[node].retained
  IN  IF id = NoMsg \/ <<c, e.msg_store[id].topic>> \in Denied THEN e
      ELSE Insert(e, [x \in {c} |-> Lesser(e.msg_store[id].qos, sub_qos)], "out", TRUE, id)

\* A retained message is queued, or it is not.
LEMMA RetainProcessGood ==
  ASSUME NEW e, NEW x \in Extra, Good(e, x), NEW node \in DOMAIN e.subs, NEW c \in DOMAIN e.contexts, NEW sub_qos \in 0..2
  PROVE  LET w == RetainProcess(e, node, c, sub_qos)
         IN  Good(w, x) /\ w \in DbType /\ w.subs = e.subs /\ Onward(e, w)
<1> DEFINE id == e.subs[node].retained
           w == RetainProcess(e, node, c, sub_qos)
           qosOf == [y \in {c} |-> Lesser(e.msg_store[id].qos, sub_qos)]
<1>1. e \in DbType
  BY DEF Good, Shape
<1>2. CASE id = NoMsg \/ <<c, e.msg_store[id].topic>> \in Denied
  <2>1. w = e
    BY <1>2 DEF RetainProcess
  <2>2. Onward(e, e)
    BY DEF Onward
  <2> QED
    BY <1>1, <2>1, <2>2
<1>3. CASE ~(id = NoMsg \/ <<c, e.msg_store[id].topic>> \in Denied)
  <2>1. w = Insert(e, qosOf, "out", TRUE, id)
    BY <1>3 DEF RetainProcess
  <2>2. id \in DOMAIN e.msg_store
    BY <1>3 DEF Good, Exact
  <2>3. qosOf \in [{c} -> 0..2]
    <3>1. e.msg_store[id] \in Stored
      BY <1>1, <2>2, DbParts
    <3>2. Lesser(e.msg_store[id].qos, sub_qos) \in 0..2
      BY <3>1 DEF Stored, Lesser
    <3> QED
      BY <3>2
  <2> HIDE DEF id, w, qosOf
  <2>4. PICK dir \in {"in", "out"} : dir = "out"
    OBVIOUS
  <2>5. PICK yes \in BOOLEAN : yes = TRUE
    OBVIOUS
  <2>6. PICK S \in SUBSET DOMAIN e.contexts : S = {c}
    OBVIOUS
  <2>7. qosOf \in [S -> 0..2]
    BY <2>3, <2>6
  <2>8. Inserted(e, x, Insert(e, qosOf, dir, yes, id))
    BY <2>2, <2>7, InsertGood
  <2>9. w = Insert(e, qosOf, dir, yes, id)
    BY <2>1, <2>4, <2>5
  <2>10. Inserted(e, x, w)
    BY <2>8, <2>9
  <2>11. Good(w, x) /\ w \in DbType /\ w.subs = e.subs /\ Onward(e, w)
    BY <2>10 DEF Inserted
  <2> QED
    BY <2>11 DEF w
<1> QED
  BY <1>2, <1>3

\* The retained messages of a new subscription are queued: mqtt3_retain_queue.
LEMMA RetainQueueGood ==
  ASSUME NEW d, NEW x \in Extra, Good(d, x), NEW c \in DOMAIN d.contexts, NEW filter \in Topic, NEW sub_qos \in 0..2
  PROVE  Good(RetainQueue(d, c, filter, sub_qos), x)
<1> DEFINE s == RetainVisit(d.subs, filter)
           n == Len(s)
           Proc(e, node) == RetainProcess(e, node, c, sub_qos)
           P(h) == h = [i \in 0..n |-> IF i = 0 THEN d ELSE Proc(h[i - 1], s[i])]
           f == CHOOSE h : P(h)
<1>1. RetainQueue(d, c, filter, sub_qos) = f[n]
  BY DEF RetainQueue, Each, RetainProcess
<1> HIDE DEF f
<1>2. d \in DbType /\ Tree(d.subs)
  BY DEF Good, Shape
<1>3. s \in Seq(DOMAIN d.subs) /\ n \in Nat
  <2>1. s \in Seq(DOMAIN d.subs)
    BY <1>2, RetainVisitType
  <2> QED
    BY <2>1
<1> HIDE DEF s
<1> DEFINE K == {e \in DbType : Good(e, x) /\ e.subs = d.subs /\ DOMAIN e.contexts = DOMAIN d.contexts}
<1>4. d \in K
  BY <1>2
<1>5. ASSUME NEW e \in K, NEW node \in DOMAIN d.subs PROVE Proc(e, node) \in K
  <2>1. e \in DbType /\ Good(e, x) /\ e.subs = d.subs /\ DOMAIN e.contexts = DOMAIN d.contexts
    OBVIOUS
  <2> HIDE DEF K
  <2> DEFINE v == RetainProcess(e, node, c, sub_qos)
  <2>2. Good(v, x) /\ v \in DbType /\ v.subs = e.subs /\ Onward(e, v)
    BY <2>1, RetainProcessGood
  <2> HIDE DEF v
  <2>3. v \in K
    BY <2>1, <2>2 DEF Onward, K
  <2> QED
    BY <2>3 DEF v
<1> HIDE DEF K, Proc
<1>6. \A i \in 1..n : s[i] \in DOMAIN d.subs
  BY <1>3
<1> HIDE DEF n
<1> DEFINE F == [p \in (1..n) \X K |-> Proc(p[2], s[p[1]])]
           J == [i \in 0..n |-> K]
<1>7. \A i \in 1..n : i \in 0..n /\ i - 1 \in 0..n /\ i # 0
  BY <1>3
<1>8. 0 \in 0..n /\ n \in 0..n /\ \A i \in 0..n : J[i] = K
  BY <1>3
<1>9. \A i \in 1..n : \A e \in K : F[<<i, e>>] = Proc(e, s[i]) /\ F[<<i, e>>] \in K
  <2>1. SUFFICES ASSUME NEW i \in 1..n, NEW e \in K PROVE F[<<i, e>>] = Proc(e, s[i]) /\ F[<<i, e>>] \in K
    OBVIOUS
  <2>2. F[<<i, e>>] = Proc(e, s[i])
    OBVIOUS
  <2> HIDE DEF F
  <2> QED
    BY <1>5, <1>6, <2>2
<1> HIDE DEF F, J
<1>10. PICK g : Loop(g, n, d, F) /\ \A i \in 0..n : g[i] \in J[i]
  <2>1. d \in J[0]
    BY <1>4, <1>8
  <2>2. \A i \in 1..n : \A e \in J[i - 1] : F[<<i, e>>] \in J[i]
    BY <1>7, <1>8, <1>9
  <2> QED
    BY ONLY <1>3, <2>1, <2>2, LoopExists
<1>11. P(g)
  <2>1. \A i \in 0..n : i # 0 => i \in 1..n /\ g[i - 1] \in K
    BY <1>3, <1>7, <1>8, <1>10
  <2>2. g = [i \in 0..n |-> IF i = 0 THEN d ELSE F[<<i, g[i - 1]>>]]
    BY <1>10 DEF Loop
  <2> QED
    BY <1>9, <2>1, <2>2
<1>12. P(f)
  <2> HIDE DEF P
  <2> QED
    BY <1>11 DEF f
<1>13. f[0] = d /\ \A i \in 1..n : f[i] = Proc(f[i - 1], s[i])
  BY <1>7, <1>8, <1>12
<1> HIDE DEF P
<1>14. f[n] \in K
  <2>1. f[0] \in J[0]
    BY <1>4, <1>8, <1>13
  <2>2. \A i \in 1..n : f[i - 1] \in J[i - 1] => f[i] \in J[i]
    BY <1>5, <1>6, <1>7, <1>8, <1>13
  <2>3. \A i \in 0..n : f[i] \in J[i]
    BY ONLY <1>3, <2>1, <2>2, LoopKeeps
  <2> QED
    BY <1>8, <2>3
<1> QED
  BY <1>1, <1>14 DEF K

------------------------------------------------------------------------------
(* The file: the chunks of a node.                                         *)

\* The text written for a node is a topic.
LEMMA TopicTextType ==
  ASSUME NEW path \in Path
  PROVE  TopicText(path) \in Path
<1> DEFINE full == {k \in 1..Len(path) : path[k] # ""}
<1>1. Len(path) \in Nat /\ path \in Seq(Level) /\ Len(path) >= 1
  BY AboveFacts DEF Path
<1>2. CASE full = {}
  <2>1. TopicText(path) = <<"">>
    BY <1>2 DEF TopicText
  <2>2. "" \in Level
    BY DEF Level
  <2> QED
    BY <2>1, <2>2, OneLevel
<1>3. CASE full # {}
  <2> DEFINE k == CHOOSE i \in full : \A j \in full : i <= j
  <2>1. TopicText(path) = SubSeq(path, k, Len(path))
    BY <1>3 DEF TopicText
  <2>2. \E a \in full : \A j \in full : a <= j
    <3>1. full \in SUBSET Nat
      <4>1. \A j \in 1..Len(path) : j \in Nat
        BY <1>1
      <4> QED
        BY <4>1
    <3> HIDE DEF full
    <3> QED
      BY <1>3, <3>1, Least
  <2>3. k \in full
    BY <2>2
  <2>4. k \in 1..Len(path)
    BY <2>3
  <2> HIDE DEF k, full
  <2>5. SubSeq(path, k, Len(path)) \in Seq(Level) /\ Len(SubSeq(path, k, Len(path))) = Len(path) - k + 1
    BY <1>1, <2>4, SubSeqProperties
  <2>6. SubSeq(path, k, Len(path)) # <<>>
    <3> DEFINE l == SubSeq(path, k, Len(path))
    <3>1. Len(<<>>) = 0
      OBVIOUS
    <3>2. Len(l) >= 1
      BY <1>1, <2>4, <2>5
    <3> HIDE DEF l
    <3>3. l # <<>>
      BY <3>1, <3>2
    <3> QED
      BY <3>3 DEF l
  <2> QED
    BY <2>1, <2>5, <2>6 DEF Path
<1> QED
  BY <1>2, <1>3

------------------------------------------------------------------------------
\* The chunks that may be written for d, but for those of the store and of the clients.
SubChunks(d) == [client : DOMAIN SavedClients(d), topic : Path, qos : 0..2]
KeptChunks(d) == [retain : DOMAIN d.msg_store]
Chunks(d) == SubChunks(d) \cup KeptChunks(d)

\* The two kinds of chunk can be told apart.
LEMMA ChunkFacts ==
  ASSUME NEW d, NEW ch \in Chunks(d)
  PROVE  /\ ch \in SubChunks(d) => ~IsKept(ch) /\ ch.client \in DOMAIN SavedClients(d) /\ ch.topic \in Path /\ ch.qos \in 0..2
         /\ ch \in KeptChunks(d) => IsKept(ch) /\ ch.retain \in DOMAIN d.msg_store
<1>1. ASSUME ch \in SubChunks(d)
      PROVE  ~IsKept(ch) /\ ch.client \in DOMAIN SavedClients(d) /\ ch.topic \in Path /\ ch.qos \in 0..2
  BY <1>1 DEF SubChunks, IsKept
<1>2. ASSUME ch \in KeptChunks(d)
      PROVE  IsKept(ch) /\ ch.retain \in DOMAIN d.msg_store
  BY <1>2 DEF KeptChunks, IsKept
<1> QED
  BY <1>1, <1>2

\* A node is written as the leaves of its durable subscribers and, at the end, its retained message.
NodeWritten(d, path, q) ==
  /\ q \in Seq(Chunks(d))
  /\ \A i \in 1..Len(q) : IsKept(q[i]) =>
       i = Len(q) /\ q[i].retain = d.subs[path].retained /\ d.subs[path].retained # NoMsg

\* _db_subs_retain_write (persist.c:246) at one node.
LEMMA NodeChunksGood ==
  ASSUME NEW d, NEW x, Good(d, x), NEW path \in DOMAIN d.subs
  PROVE  NodeWritten(d, path, NodeChunks(d, path))
<1> DEFINE leaves == d.subs[path].subs
           durable == {c \in DOMAIN leaves : ~d.contexts[c].clean_session}
           kept == d.subs[path].retained
           Sub(c) == [client |-> c, topic |-> TopicText(path), qos |-> leaves[c]]
           a == [i \in 1..Cardinality(durable) |-> Sub(SetToSeq(durable)[i])]
           b == IF kept # NoMsg /\ d.msg_store[kept].topic[1] # "$SYS" THEN <<[retain |-> kept]>> ELSE <<>>
<1>1. NodeChunks(d, path) = a \o b
  BY DEF NodeChunks
<1>2. Tree(d.subs) /\ Indexed(d) /\ IsFiniteSet(DOMAIN d.contexts)
  BY DEF Good, Shape
<1>3. leaves \in Leaves /\ path \in Path /\ DOMAIN leaves \subseteq DOMAIN d.contexts
  BY <1>2, TreeFacts DEF Indexed
<1>4. durable \subseteq DOMAIN SavedClients(d) /\ durable \subseteq DOMAIN leaves
  BY <1>3 DEF SavedClients
<1>5. IsFiniteSet(durable)
  BY <1>2, <1>3, FS_Subset
<1>6. \A c \in DOMAIN leaves : leaves[c] \in 0..2
  BY <1>3, MapsFacts DEF Leaves
<1>7. TopicText(path) \in Path
  BY <1>3, TopicTextType
<1>8. \A c \in durable : Sub(c) \in SubChunks(d) /\ Sub(c) \in Chunks(d)
  <2> HIDE DEF durable, leaves
  <2> QED
    BY <1>4, <1>6, <1>7 DEF SubChunks, Chunks
<1> HIDE DEF durable, leaves, Sub
<1>9. SetToSeq(durable) \in [1..Cardinality(durable) -> durable] /\ Cardinality(durable) \in Nat
  <2>1. PICK g : g \in [1..Cardinality(durable) -> durable] /\ IsInjective(g)
    BY <1>5, SetToSeqExists
  <2>2. Cardinality(durable) \in Nat
    BY <1>5, FS_CardinalityType
  <2> QED
    BY <2>1, <2>2 DEF SetToSeq
<1>10. a \in Seq(Chunks(d)) /\ \A i \in 1..Len(a) : ~IsKept(a[i])
  <2> DEFINE n == Cardinality(durable)
             g == SetToSeq(durable)
  <2>1. n \in Nat /\ \A i \in 1..n : g[i] \in durable
    BY <1>9
  <2> HIDE DEF n, g
  <2>2. a = [i \in 1..n |-> Sub(g[i])]
    BY DEF n, g
  <2>3. \A i \in 1..n : Sub(g[i]) \in Chunks(d) /\ Sub(g[i]) \in SubChunks(d)
    BY <1>8, <2>1
  <2>4. [i \in 1..n |-> Sub(g[i])] \in Seq(Chunks(d)) /\ Len([i \in 1..n |-> Sub(g[i])]) = n
    BY <2>1, <2>3
  <2>5. \A i \in 1..n : ~IsKept(Sub(g[i]))
    BY <2>3, ChunkFacts
  <2> HIDE DEF a
  <2> QED
    BY <2>2, <2>4, <2>5
<1>11. b \in Seq(Chunks(d)) /\ Len(b) \in 0..1
       /\ \A i \in 1..Len(b) : b[i] = [retain |-> kept] /\ kept # NoMsg /\ kept \in DOMAIN d.msg_store
  <2>1. CASE kept # NoMsg /\ d.msg_store[kept].topic[1] # "$SYS"
    <3>1. kept \in DOMAIN d.msg_store
      BY <2>1 DEF Good, Exact
    <3>2. [retain |-> kept] \in Chunks(d)
      BY <3>1 DEF Chunks, KeptChunks
    <3>3. b = <<[retain |-> kept]>>
      BY <2>1
    <3> DEFINE ch == [retain |-> kept]
    <3> HIDE DEF ch, kept, b
    <3>4. <<ch>> \in Seq(Chunks(d)) /\ Len(<<ch>>) = 1 /\ <<ch>>[1] = ch
      BY <3>2 DEF ch
    <3>5. b = <<ch>>
      BY <3>3 DEF ch
    <3>6. \A i \in 1..1 : i = 1
      OBVIOUS
    <3> QED
      BY <2>1, <3>1, <3>4, <3>5, <3>6 DEF ch
  <2>2. CASE ~(kept # NoMsg /\ d.msg_store[kept].topic[1] # "$SYS")
    <3>1. b = <<>>
      BY <2>2
    <3>2. <<>> \in Seq(Chunks(d)) /\ Len(<<>>) = 0
      OBVIOUS
    <3> HIDE DEF b
    <3> QED
      BY <3>1, <3>2
  <2> QED
    BY <2>1, <2>2
<1> HIDE DEF a, b
<1> DEFINE q == a \o b
<1>12. q \in Seq(Chunks(d)) /\ Len(q) = Len(a) + Len(b) /\ Len(a) \in Nat
       /\ \A i \in 1..Len(q) : q[i] = IF i <= Len(a) THEN a[i] ELSE b[i - Len(a)]
  BY <1>10, <1>11, ConcatProperties
<1> HIDE DEF q
<1>13. ASSUME NEW i \in 1..Len(q), IsKept(q[i])
       PROVE  i = Len(q) /\ q[i].retain = kept /\ kept # NoMsg
  <2>1. ~(i <= Len(a))
    BY <1>10, <1>12, <1>13
  <2>2. q[i] = b[i - Len(a)] /\ i - Len(a) \in 1..Len(b)
    BY <1>11, <1>12, <2>1
  <2>3. i = Len(q)
    BY <1>11, <1>12, <2>1
  <2>4. q[i] = [retain |-> kept] /\ kept # NoMsg
    BY <1>11, <2>2
  <2> QED
    BY <2>3, <2>4
<1> QED
  BY <1>1, <1>12, <1>13 DEF NodeWritten, q

------------------------------------------------------------------------------
(* The file: what mqtt3_db_backup writes.                                  *)

\* The tree of the file: every chunk is one that may be written, and no message is kept by two.
TreeWritten(d, q) ==
  /\ q \in Seq(Chunks(d))
  /\ \A i, j \in 1..Len(q) : IsKept(q[i]) /\ IsKept(q[j]) /\ q[i].retain = q[j].retain => i = j

\* It writes every message that is kept once: nodes are visited once, and a message is kept at the
\* node of its topic only.
LEMMA TreeWrittenGood ==
  ASSUME NEW d, NEW x, Good(d, x)
  PROVE  LET order == WriteOrder(d.subs)
         IN  TreeWritten(d, FlattenSeq([i \in 1..Len(order) |-> NodeChunks(d, order[i])]))
<1> DEFINE order == WriteOrder(d.subs)
           n == Len(order)
           s == [i \in 1..n |-> NodeChunks(d, order[i])]
           q == FlattenSeq(s)
<1>1. Tree(d.subs)
  BY DEF Good, Shape
<1>2. order \in Seq(DOMAIN d.subs) /\ Distinct(order)
  BY <1>1, WriteOrderFacts
<1> HIDE DEF order
<1>3. n \in Nat /\ \A i \in 1..n : order[i] \in DOMAIN d.subs
  BY <1>2
<1>4. \A i \in 1..n : NodeWritten(d, order[i], NodeChunks(d, order[i]))
  BY <1>3, NodeChunksGood
<1> HIDE DEF n
<1>5. \A i \in 1..n : s[i] = NodeChunks(d, order[i]) /\ s[i] \in Seq(Chunks(d))
  BY <1>4 DEF NodeWritten
<1>6. s \in [1..n -> Seq(Chunks(d))]
  BY <1>5
<1> HIDE DEF s
<1>7. q \in Seq(Chunks(d)) /\ \E u, w : Placed(q, s, n, u, w)
  BY <1>3, <1>6, FlattenFacts
<1> HIDE DEF q
<1>8. PICK u, w : Placed(q, s, n, u, w)
  BY <1>7
<1>9. \A m \in 1..Len(q) : u[m] \in 1..n /\ w[m] \in 1..Len(s[u[m]]) /\ q[m] = s[u[m]][w[m]]
  BY <1>8 DEF Placed
<1>10. \A m \in 1..Len(q) : IsKept(q[m]) =>
         /\ w[m] = Len(s[u[m]]) /\ q[m].retain = d.subs[order[u[m]]].retained
         /\ d.subs[order[u[m]]].retained # NoMsg
  <2>1. SUFFICES ASSUME NEW m \in 1..Len(q), IsKept(q[m])
                 PROVE  /\ w[m] = Len(s[u[m]]) /\ q[m].retain = d.subs[order[u[m]]].retained
                        /\ d.subs[order[u[m]]].retained # NoMsg
    OBVIOUS
  <2> DEFINE i == u[m]
             k == w[m]
  <2>2. i \in 1..n /\ k \in 1..Len(s[i]) /\ q[m] = s[i][k]
    BY <1>9
  <2> HIDE DEF i, k
  <2>3. NodeWritten(d, order[i], s[i])
    BY <1>4, <1>5, <2>2
  <2>4. k = Len(s[i]) /\ s[i][k].retain = d.subs[order[i]].retained /\ d.subs[order[i]].retained # NoMsg
    BY <2>1, <2>2, <2>3 DEF NodeWritten
  <2> QED
    BY <2>2, <2>4 DEF i, k
<1>11. ASSUME NEW i \in 1..Len(q), NEW j \in 1..Len(q), IsKept(q[i]), IsKept(q[j]), q[i].retain = q[j].retain
       PROVE  i = j
  <2> DEFINE a == order[u[i]]
             b == order[u[j]]
  <2>1. /\ a \in DOMAIN d.subs /\ d.subs[a].retained # NoMsg /\ q[i].retain = d.subs[a].retained
        /\ b \in DOMAIN d.subs /\ d.subs[b].retained # NoMsg /\ q[j].retain = d.subs[b].retained
    BY <1>3, <1>9, <1>10, <1>11
  <2> HIDE DEF a, b
  <2>2. a = b
    BY <1>11, <2>1 DEF Good, KeptTrue
  <2>3. u[i] = u[j]
    BY <1>2, <1>9, <2>2 DEF a, b, Distinct, n
  <2>4. w[i] = w[j]
    BY <1>10, <1>11, <2>3
  <2> QED
    BY <1>8, <2>3, <2>4 DEF Placed
<1> QED
  BY <1>7, <1>11 DEF TreeWritten, q, s, n, order

------------------------------------------------------------------------------
\* What the file says of the store and of the clients.
RestWritten(d, f) ==
  /\ f.last \in 0..MaxId /\ f.store \in Maps(1..f.last, Saved)
  /\ DOMAIN f.store = DOMAIN d.msg_store /\ f.clients = SavedClients(d)
  /\ f.clients \in Maps(Client, Seq(Message)) /\ IsFiniteSet(DOMAIN f.clients)
  /\ \A c \in DOMAIN f.clients : \A i \in DOMAIN f.clients[c] : f.clients[c][i].id \in DOMAIN f.store

\* mqtt3_db_message_store_write and mqtt3_db_client_write write what is referred to.
LEMMA RestWrittenGood ==
  ASSUME NEW d, NEW x, Good(d, x), Writable(d)
  PROVE  RestWritten(d, Snapshot(d))
<1> DEFINE f == Snapshot(d)
           Write(m) == [topic |-> m.topic, qos |-> m.qos, empty |-> m.empty,
                        retain |-> m.retain /\ m.topic[1] # "$SYS"]
           D == {c \in DOMAIN d.contexts : ~d.contexts[c].clean_session}
<1>1. /\ f.last = d.last_db_id /\ f.clients = SavedClients(d)
      /\ f.store = [id \in DOMAIN d.msg_store |-> Write(d.msg_store[id])]
  BY DEF Snapshot
<1>2. SavedClients(d) = [c \in D |-> d.contexts[c].msgs]
  BY DEF SavedClients
<1> HIDE DEF f
<1>3. d \in DbType /\ DOMAIN d.msg_store \subseteq 1..d.last_db_id /\ IsFiniteSet(DOMAIN d.contexts)
  BY DEF Good, Shape
<1>4. \A id \in DOMAIN d.msg_store : d.msg_store[id] \in Stored /\ d.msg_store[id].topic \in Topics
  <2>1. \A id \in DOMAIN d.msg_store : d.msg_store[id] \in Stored
    BY <1>3, DbParts
  <2> QED
    BY <2>1 DEF Stored, Writable
<1>5. \A id \in DOMAIN d.msg_store : Write(d.msg_store[id]) \in Saved
  BY <1>4 DEF Stored, Saved
<1>6. \A c \in DOMAIN d.contexts : d.contexts[c].msgs \in Seq(Message) /\ c \in Client
  BY <1>3, DbParts
<1>7. f.last \in 0..MaxId
  BY <1>1, <1>3, DbParts
<1>8. f.store \in Maps(1..f.last, Saved) /\ DOMAIN f.store = DOMAIN d.msg_store
  <2>1. DOMAIN f.store = DOMAIN d.msg_store /\ \A id \in DOMAIN f.store : f.store[id] \in Saved
    BY <1>1, <1>5
  <2>2. f.store \in [DOMAIN f.store -> Saved]
    BY <1>1, <1>5
  <2>3. DOMAIN f.store \in SUBSET (1..f.last)
    BY <1>1, <1>3, <2>1
  <2> HIDE DEF Write
  <2> QED
    BY <2>1, <2>2, <2>3, MapsFacts
<1> HIDE DEF Write
<1>9. f.clients \in Maps(Client, Seq(Message)) /\ IsFiniteSet(DOMAIN f.clients)
  <2>1. DOMAIN f.clients = D /\ f.clients \in [D -> Seq(Message)]
    BY <1>1, <1>2, <1>6
  <2>2. D \in SUBSET Client /\ D \subseteq DOMAIN d.contexts
    BY <1>6
  <2> HIDE DEF D
  <2>3. IsFiniteSet(D)
    BY <1>3, <2>2, FS_Subset
  <2> QED
    BY <2>1, <2>2, <2>3, MapsFacts
<1>10. \A c \in DOMAIN f.clients : \A i \in DOMAIN f.clients[c] : f.clients[c][i].id \in DOMAIN f.store
  <2>1. \A c \in D : \A i \in DOMAIN d.contexts[c].msgs : d.contexts[c].msgs[i].id \in DOMAIN d.msg_store
    BY DEF Good, Exact
  <2> HIDE DEF D
  <2> QED
    BY <1>1, <1>2, <1>8, <2>1
<1> QED
  BY <1>1, <1>7, <1>8, <1>9, <1>10 DEF RestWritten, f

\* A file that holds the parts of d, whichever clients were written and with or without its tree.
LEMMA PartsGood ==
  ASSUME NEW d, NEW f, NEW g, RestWritten(d, f), NEW kept \in SUBSET DOMAIN f.clients,
         g.last = f.last, g.store = f.store, g.clients = [c \in kept |-> f.clients[c]],
         TreeWritten(d, g.tree), kept = DOMAIN f.clients \/ g.tree = <<>>
  PROVE  FileGood(g)
<1>1. /\ f.last \in 0..MaxId /\ f.store \in Maps(1..f.last, Saved)
      /\ f.clients \in Maps(Client, Seq(Message)) /\ IsFiniteSet(DOMAIN f.clients)
      /\ DOMAIN f.store = DOMAIN d.msg_store /\ f.clients = SavedClients(d)
      /\ \A c \in DOMAIN f.clients : \A i \in DOMAIN f.clients[c] : f.clients[c][i].id \in DOMAIN f.store
  BY DEF RestWritten
<1>2. DOMAIN g.clients = kept /\ \A c \in kept : g.clients[c] = f.clients[c]
  OBVIOUS
<1>3. g.clients \in Maps(Client, Seq(Message)) /\ IsFiniteSet(DOMAIN g.clients)
  <2>1. DOMAIN f.clients \in SUBSET Client /\ \A c \in DOMAIN f.clients : f.clients[c] \in Seq(Message)
    BY <1>1, MapsFacts
  <2>2. g.clients \in [kept -> Seq(Message)] /\ kept \in SUBSET Client
    BY <2>1
  <2>3. IsFiniteSet(kept)
    BY <1>1, FS_Subset
  <2> QED
    BY <1>2, <2>2, <2>3, MapsFacts
<1>4. g.tree \in Seq(Chunks(d)) /\ DOMAIN g.tree = 1..Len(g.tree) /\ Len(g.tree) \in Nat
      /\ \A i \in 1..Len(g.tree) : g.tree[i] \in Chunks(d)
  BY DEF TreeWritten
<1>5. ASSUME NEW i \in DOMAIN g.tree
      PROVE  IF IsKept(g.tree[i]) THEN g.tree[i].retain \in DOMAIN g.store
             ELSE g.tree[i].client \in DOMAIN g.clients /\ g.tree[i].topic \in Path /\ g.tree[i].qos \in 0..2
  <2>1. g.tree # <<>>
    <3>1. DOMAIN <<>> = {}
      OBVIOUS
    <3> QED
      BY <3>1
  <2>2. DOMAIN g.clients = DOMAIN SavedClients(d) /\ DOMAIN g.store = DOMAIN d.msg_store
    BY <1>1, <1>2, <2>1
  <2> DEFINE ch == g.tree[i]
  <2>3. ch \in Chunks(d)
    BY <1>4
  <2> HIDE DEF ch
  <2>4. /\ ch \in SubChunks(d) => ~IsKept(ch) /\ ch.client \in DOMAIN SavedClients(d) /\ ch.topic \in Path /\ ch.qos \in 0..2
        /\ ch \in KeptChunks(d) => IsKept(ch) /\ ch.retain \in DOMAIN d.msg_store
    BY <2>3, ChunkFacts
  <2>5. ch \in SubChunks(d) \/ ch \in KeptChunks(d)
    BY <2>3 DEF Chunks
  <2>6. IF IsKept(ch) THEN ch.retain \in DOMAIN g.store
        ELSE ch.client \in DOMAIN g.clients /\ ch.topic \in Path /\ ch.qos \in 0..2
    BY <2>2, <2>4, <2>5
  <2> QED
    BY <2>6 DEF ch
<1>6. \A i, j \in DOMAIN g.tree :
        IsKept(g.tree[i]) /\ IsKept(g.tree[j]) /\ g.tree[i].retain = g.tree[j].retain => i = j
  BY <1>4 DEF TreeWritten
<1>7. \A c \in DOMAIN g.clients : \A i \in DOMAIN g.clients[c] : g.clients[c][i].id \in DOMAIN g.store
  BY <1>1, <1>2
<1> QED
  BY <1>1, <1>3, <1>4, <1>5, <1>6, <1>7 DEF FileGood

\* mqtt3_db_backup writes a file that can be restored.
LEMMA SnapshotGood ==
  ASSUME NEW d, NEW x, Good(d, x), Writable(d)
  PROVE  FileGood(Snapshot(d))
<1> DEFINE f == Snapshot(d)
           order == WriteOrder(d.subs)
           q == FlattenSeq([i \in 1..Len(order) |-> NodeChunks(d, order[i])])
<1>1. f.tree = q
  BY DEF Snapshot
<1>2. TreeWritten(d, q)
  BY TreeWrittenGood
<1>3. RestWritten(d, f)
  BY RestWrittenGood
<1> HIDE DEF f, q
<1>4. PICK kept \in SUBSET DOMAIN f.clients : kept = DOMAIN f.clients
  OBVIOUS
<1>5. f.clients = [c \in kept |-> f.clients[c]]
  BY <1>3, <1>4, MapsFacts DEF RestWritten
<1>6. FileGood(f)
  BY <1>1, <1>2, <1>3, <1>4, <1>5, PartsGood
<1> QED
  BY <1>6 DEF f

\* So does one that finds the disk full: some of the clients, and no tree.
LEMMA DiskFullGood ==
  ASSUME NEW d, NEW x, Good(d, x), Writable(d), NEW kept \in SUBSET DOMAIN Snapshot(d).clients
  PROVE  FileGood([Snapshot(d) EXCEPT !.clients = [c \in kept |-> @[c]], !.tree = <<>>])
<1> DEFINE f == Snapshot(d)
           g == [f EXCEPT !.clients = [c \in kept |-> @[c]], !.tree = <<>>]
<1>1. /\ g.last = f.last /\ g.store = f.store /\ g.tree = <<>>
      /\ g.clients = [c \in kept |-> f.clients[c]]
  BY DEF Snapshot
<1>2. RestWritten(d, f)
  BY RestWrittenGood
<1>3. TreeWritten(d, <<>>)
  <2>1. <<>> \in Seq(Chunks(d)) /\ Len(<<>>) = 0
    OBVIOUS
  <2> QED
    BY <2>1 DEF TreeWritten
<1> HIDE DEF f, g
<1>4. kept \in SUBSET DOMAIN f.clients
  BY DEF f
<1>5. FileGood(g)
  BY <1>1, <1>2, <1>3, <1>4, PartsGood
<1> QED
  BY <1>5 DEF g, f

------------------------------------------------------------------------------
(* The file: its store and its clients restored.                           *)

\* Nothing has been taken.
LEMMA ZeroFacts == Zero \in Extra /\ \A k \in 1..MaxId : Zero[k] = 0
  BY DEF Zero, Extra

\* A database whose tree has nothing but its two roots.
LEMMA FreshGood ==
  ASSUME NEW d \in DbType, d.subs = EmptyTree, DOMAIN d.msg_store \subseteq 1..d.last_db_id, IsFiniteSet(DOMAIN d.contexts),
         \A c \in DOMAIN d.contexts : /\ d.contexts[c].subs = {} /\ CountTrue(d.contexts[c])
                                      /\ \A i \in DOMAIN d.contexts[c].msgs :
                                           d.contexts[c].msgs[i].id \in DOMAIN d.msg_store,
         \A id \in DOMAIN d.msg_store : d.msg_store[id].ref_count = Cardinality(InQueues(Queues(d), id))
  PROVE  Good(d, Zero)
<1>1. /\ Tree(d.subs) /\ Idle(d.subs) \subseteq OfTopics
      /\ \A p \in DOMAIN d.subs : d.subs[p].subs = <<>> /\ d.subs[p].retained = NoMsg
  BY EmptyTreeGood DEF Bare
<1>2. DOMAIN <<>> = {}
  OBVIOUS
<1>3. Shape(d)
  BY <1>1 DEF Shape
<1>4. Indexed(d)
  BY <1>1, <1>2 DEF Indexed
<1>5. Counted(d) /\ KeptTrue(d)
  BY <1>1 DEF Counted, KeptTrue
<1>6. ASSUME NEW id \in DOMAIN d.msg_store
      PROVE  d.msg_store[id].ref_count = Held(d, id) + Zero[id]
  <2>1. id \in 1..MaxId /\ id # NoMsg
    BY StoredNumbers
  <2>2. KeptAt(d.subs, id) = {}
    BY <1>1, <2>1 DEF KeptAt
  <2>3. Cardinality(KeptAt(d.subs, id)) = 0
    BY <2>2, FS_EmptySet
  <2>4. Zero[id] = 0
    BY <2>1, ZeroFacts
  <2>5. Cardinality(InQueues(Queues(d), id)) \in Nat
    BY <1>3, HeldFacts
  <2> QED
    BY <2>3, <2>4, <2>5 DEF Held
<1>7. Exact(d, Zero)
  BY <1>1, <1>6, ZeroFacts DEF Exact
<1> QED
  BY <1>3, <1>4, <1>5, <1>7 DEF Good

\* mqtt3_db_open without a file.
LEMMA EmptyDbGood == Good(EmptyDb, Zero)
<1> DEFINE d == EmptyDb
<1>1. d.subs = EmptyTree /\ d.msg_store = <<>> /\ d.contexts = <<>> /\ d.last_db_id = 0
  BY DEF EmptyDb
<1>2. d \in DbType
  <2>1. <<>> \in Maps(1..MaxId, Stored) /\ <<>> \in Maps(Client, Context)
    BY EmptyMap
  <2>2. 0 \in 0..MaxId
    BY RoutingAssumption
  <2> QED
    BY <2>1, <2>2, EmptyTreeGood DEF EmptyDb, DbType
<1> HIDE DEF d
<1>3. DOMAIN d.msg_store = {} /\ DOMAIN d.contexts = {}
  <2>1. DOMAIN <<>> = {}
    OBVIOUS
  <2> QED
    BY <1>1, <2>1
<1>4. IsFiniteSet(DOMAIN d.contexts)
  BY <1>3, FS_EmptySet
<1>5. Good(d, Zero)
  BY <1>1, <1>2, <1>3, <1>4, FreshGood
<1> QED
  BY <1>5 DEF d

------------------------------------------------------------------------------
\* The store and the clients of a file, before its tree is read.
Loaded(f) ==
  [EmptyDb EXCEPT !.last_db_id = f.last,
                  !.msg_store = [id \in DOMAIN f.store |-> LoadedMsg(f, id)],
                  !.contexts = [c \in DOMAIN f.clients |-> Offline(f.clients[c])]]

\* With the store and the clients read, references are as many as queue entries, and the tree is
\* empty.
LEMMA LoadedGood ==
  ASSUME NEW f, FileGood(f), f.kind \notin {"none", "torn"}
  PROVE  LET d == Loaded(f)
         IN  /\ d \in DbType /\ Good(d, Zero) /\ DOMAIN d.msg_store = DOMAIN f.store
             /\ DOMAIN d.contexts = DOMAIN f.clients /\ RetainedOf(d.subs) \subseteq {NoMsg}
             /\ \A k \in DOMAIN d.msg_store : d.msg_store[k].topic # NoTopic
<1> DEFINE d == Loaded(f)
           S == [id \in DOMAIN f.store |-> LoadedMsg(f, id)]
           C == [c \in DOMAIN f.clients |-> Offline(f.clients[c])]
<1>1. /\ f.last \in 0..MaxId /\ f.store \in Maps(1..f.last, Saved)
      /\ f.clients \in Maps(Client, Seq(Message)) /\ IsFiniteSet(DOMAIN f.clients)
      /\ \A c \in DOMAIN f.clients : \A i \in DOMAIN f.clients[c] : f.clients[c][i].id \in DOMAIN f.store
  BY DEF FileGood
<1>2. /\ d.subs = EmptyTree /\ d.last_db_id = f.last
      /\ d.msg_store = [id \in DOMAIN f.store |-> LoadedMsg(f, id)]
      /\ d.contexts = [c \in DOMAIN f.clients |-> Offline(f.clients[c])]
  BY DEF Loaded, EmptyDb
<1> HIDE DEF d
<1>3. /\ DOMAIN f.store \in SUBSET (1..f.last) /\ \A id \in DOMAIN f.store : f.store[id] \in Saved
      /\ DOMAIN f.clients \in SUBSET Client /\ \A c \in DOMAIN f.clients : f.clients[c] \in Seq(Message)
  BY <1>1, MapsFacts
<1>4. QueuesGood(f.clients)
  BY <1>1, <1>3 DEF QueuesGood
<1>5. \A id \in DOMAIN f.store : References(f, id) \in Nat /\ References(f, id) = Cardinality(InQueues(f.clients, id))
  BY <1>4, InQueuesFacts DEF References
<1>6. \A id \in DOMAIN f.store : LoadedMsg(f, id) \in Stored /\ LoadedMsg(f, id).topic = f.store[id].topic
                                 /\ LoadedMsg(f, id).ref_count = References(f, id)
  BY <1>3, <1>5 DEF LoadedMsg, Stored, Saved
<1>7. \A c \in DOMAIN f.clients : LET x == Offline(f.clients[c]) IN
        /\ x \in Context /\ x.sock = FALSE /\ x.subs = {} /\ x.msgs = f.clients[c] /\ x.msg_count12 = 0
  <2>1. SUFFICES ASSUME NEW c \in DOMAIN f.clients
                 PROVE  LET x == Offline(f.clients[c]) IN
                        /\ x \in Context /\ x.sock = FALSE /\ x.subs = {} /\ x.msgs = f.clients[c] /\ x.msg_count12 = 0
    OBVIOUS
  <2> DEFINE q == f.clients[c]
  <2>2. q \in Seq(Message)
    BY <1>3
  <2> HIDE DEF q
  <2>3. Offline(q) \in Context
    BY <2>2 DEF Offline, NewContext, Context
  <2>4. Offline(q).sock = FALSE /\ Offline(q).subs = {} /\ Offline(q).msgs = q /\ Offline(q).msg_count12 = 0
    BY DEF Offline, NewContext
  <2> QED
    BY <2>3, <2>4 DEF q
<1>8. d.last_db_id \in 0..MaxId /\ DOMAIN f.store \in SUBSET (1..MaxId)
  BY <1>1, <1>2, <1>3, RoutingAssumption
<1>9. d.msg_store \in Msgs
  <2>1. DOMAIN d.msg_store = DOMAIN f.store /\ d.msg_store \in [DOMAIN f.store -> Stored]
    BY <1>2, <1>6
  <2> QED
    BY <1>8, <2>1, MapsFacts DEF Msgs
<1>10. d.contexts \in Contexts
  <2>1. DOMAIN d.contexts = DOMAIN f.clients /\ d.contexts \in [DOMAIN f.clients -> Context]
    BY <1>2, <1>7
  <2> QED
    BY <1>3, <2>1, MapsFacts DEF Contexts
<1>11. d \in DbType
  <2>1. S \in Msgs /\ C \in Contexts /\ f.last \in 0..MaxId
    BY <1>2, <1>8, <1>9, <1>10
  <2>2. d = [EmptyDb EXCEPT !.last_db_id = f.last, !.msg_store = S, !.contexts = C]
    BY DEF d, Loaded
  <2> HIDE DEF S, C
  <2>3. [EmptyDb EXCEPT !.last_db_id = f.last, !.msg_store = S, !.contexts = C] \in DbType
    BY <2>1, EmptyTreeGood DEF EmptyDb, DbType, Msgs, Contexts
  <2> QED
    BY <2>2, <2>3
<1>12. \A c \in DOMAIN d.contexts : /\ d.contexts[c].subs = {} /\ CountTrue(d.contexts[c])
                                    /\ \A i \in DOMAIN d.contexts[c].msgs : d.contexts[c].msgs[i].id \in DOMAIN d.msg_store
  <2>1. SUFFICES ASSUME NEW c \in DOMAIN f.clients
                 PROVE  /\ d.contexts[c].subs = {} /\ CountTrue(d.contexts[c])
                        /\ \A i \in DOMAIN d.contexts[c].msgs : d.contexts[c].msgs[i].id \in DOMAIN d.msg_store
    BY <1>2
  <2> DEFINE v == d.contexts[c]
  <2>2. v.sock = FALSE /\ v.subs = {} /\ v.msgs = f.clients[c] /\ v.msg_count12 = 0
    BY <1>2, <1>7
  <2> HIDE DEF v
  <2>3. v.msgs \in Seq(Message)
    BY <1>3, <2>2
  <2>4. Cardinality(Hits(v.msgs, Counts)) \in Nat
    BY <2>3, HitsFacts
  <2>5. CountTrue(v)
    BY <2>2, <2>4 DEF CountTrue
  <2>6. \A i \in DOMAIN v.msgs : v.msgs[i].id \in DOMAIN d.msg_store
    BY <1>1, <1>2, <2>2
  <2> QED
    BY <2>2, <2>5, <2>6 DEF v
<1>13. Queues(d) = f.clients
  <2>1. DOMAIN Queues(d) = DOMAIN f.clients /\ \A c \in DOMAIN f.clients : Queues(d)[c] = f.clients[c]
    BY <1>2, <1>7 DEF Queues
  <2>2. Queues(d) = [c \in DOMAIN f.clients |-> Queues(d)[c]]
    BY <2>1 DEF Queues
  <2>3. f.clients = [c \in DOMAIN f.clients |-> f.clients[c]]
    BY <1>1, MapsFacts
  <2> QED
    BY <2>1, <2>2, <2>3
<1>14. Good(d, Zero)
  <2>1. \A id \in DOMAIN d.msg_store : d.msg_store[id].ref_count = Cardinality(InQueues(Queues(d), id))
    BY <1>2, <1>5, <1>6, <1>13
  <2>2. DOMAIN d.msg_store \subseteq 1..d.last_db_id /\ IsFiniteSet(DOMAIN d.contexts)
    BY <1>1, <1>2, <1>3
  <2> QED
    BY <1>2, <1>11, <1>12, <2>1, <2>2, FreshGood
<1>15. RetainedOf(d.subs) \subseteq {NoMsg}
  BY <1>2, EmptyTreeGood DEF RetainedOf, Bare
<1>16. \A k \in DOMAIN d.msg_store : d.msg_store[k].topic # NoTopic
  <2>1. \A t \in Topics : t # NoTopic
    BY RoutingAssumption DEF NoTopic
  <2>2. \A k \in DOMAIN f.store : f.store[k].topic \in Topics
    BY <1>3 DEF Saved
  <2> QED
    BY <1>2, <1>6, <2>1, <2>2
<1> QED
  BY <1>2, <1>11, <1>14, <1>15, <1>16 DEF d

------------------------------------------------------------------------------
(* The file: the loop over its tree.                                       *)

\* One chunk of the tree is read.
ReadChunk(d, ch) ==
  IF IsKept(ch)
  THEN MessagesQueue(d, ch.retain, d.msg_store[ch.retain].qos, d.msg_store[ch.retain].retain, FALSE)
  ELSE SubAdd(d, ch.client, ch.topic, ch.qos)

\* What holds before chunk i + 1 of the tree is read: the retained messages that are read later
\* are still stored, for only a message that was retained in the tree is freed.
HalfRead(f, i) ==
  {e \in DbType :
     /\ Good(e, Zero) /\ DOMAIN e.contexts = DOMAIN f.clients
     /\ \A k \in DOMAIN e.msg_store : e.msg_store[k].topic # NoTopic
     /\ RetainedOf(e.subs) \subseteq {NoMsg} \cup {f.tree[j].retain : j \in {l \in 1..i : IsKept(f.tree[l])}}
     /\ \A j \in i + 1..Len(f.tree) : IsKept(f.tree[j]) => f.tree[j].retain \in DOMAIN e.msg_store}

\* A retained message is read: it is routed to its own node, without subscribers.
LEMMA KeptChunkGood ==
  ASSUME NEW f, FileGood(f), f.kind \notin {"none", "torn"}, NEW i \in 1..Len(f.tree), NEW e \in HalfRead(f, i - 1),
         IsKept(f.tree[i])
  PROVE  ReadChunk(e, f.tree[i]) \in HalfRead(f, i)
<1> DEFINE ch == f.tree[i]
           id == ch.retain
           qos == e.msg_store[id].qos
           retain == e.msg_store[id].retain
           w == ReadChunk(e, ch)
           n == Len(f.tree)
           Kept(m) == {f.tree[j].retain : j \in {l \in 1..m : IsKept(f.tree[l])}}
<1>1. /\ n \in Nat /\ DOMAIN f.tree = 1..n
      /\ \A j, l \in DOMAIN f.tree : IsKept(f.tree[j]) /\ IsKept(f.tree[l]) /\ f.tree[j].retain = f.tree[l].retain => j = l
  BY DEF FileGood
<1>2. /\ e \in DbType /\ Good(e, Zero) /\ DOMAIN e.contexts = DOMAIN f.clients
      /\ \A k \in DOMAIN e.msg_store : e.msg_store[k].topic # NoTopic
      /\ RetainedOf(e.subs) \subseteq {NoMsg} \cup Kept(i - 1)
      /\ \A j \in (i - 1) + 1..n : IsKept(f.tree[j]) => f.tree[j].retain \in DOMAIN e.msg_store
  BY DEF HalfRead
<1>3. i \in (i - 1) + 1..n /\ i \in Nat /\ i \in 1..n
  BY <1>1
<1>4. id \in DOMAIN e.msg_store /\ e.msg_store[id] \in Stored
  BY <1>2, <1>3, DbParts
<1>5. qos \in 0..2 /\ retain \in BOOLEAN
  BY <1>4 DEF Stored
<1>6. w = MessagesQueue(e, id, qos, retain, FALSE)
  BY DEF ReadChunk
<1> HIDE DEF qos, retain, w
<1>7. w \in DbType /\ Good(w, Zero) /\ Delivered(e, w, id)
  <2>1. PICK no \in BOOLEAN : no = FALSE
    OBVIOUS
  <2> DEFINE v == MessagesQueue(e, id, qos, retain, no)
  <2>2. Good(v, Zero) /\ v \in DbType /\ Delivered(e, v, id)
    BY <1>2, <1>4, <1>5, ZeroFacts, MessagesQueueGood
  <2>3. v = w
    BY <1>6, <2>1
  <2> QED
    BY <2>2, <2>3
<1>8. DOMAIN w.contexts = DOMAIN f.clients
  BY <1>2, <1>7 DEF Delivered, Onward
<1>9. \A k \in DOMAIN w.msg_store : w.msg_store[k].topic # NoTopic
  BY <1>2, <1>7 DEF Delivered, Fewer
<1>10. Kept(i) = Kept(i - 1) \cup {id}
  <2>1. {l \in 1..i : IsKept(f.tree[l])} = {l \in 1..(i - 1) : IsKept(f.tree[l])} \cup {i}
    BY <1>3
  <2> QED
    BY <2>1
<1>11. RetainedOf(w.subs) \subseteq {NoMsg} \cup Kept(i)
  BY <1>2, <1>7, <1>10 DEF Delivered
<1>12. ASSUME NEW j \in i + 1..n, IsKept(f.tree[j])
       PROVE  f.tree[j].retain \in DOMAIN w.msg_store
  <2> DEFINE k == f.tree[j].retain
  <2>1. j \in (i - 1) + 1..n /\ j \in DOMAIN f.tree /\ j \notin 1..i
    BY <1>1, <1>3
  <2>2. k \in DOMAIN e.msg_store
    BY <1>2, <1>12, <2>1
  <2>3. \A l \in 1..i : IsKept(f.tree[l]) => f.tree[l].retain # k
    <3>1. \A l \in 1..i : l \in DOMAIN f.tree
      BY <1>1, <1>3
    <3> QED
      BY <1>1, <1>12, <2>1, <3>1
  <2>4. k \notin Kept(i)
    BY <2>3
  <2>5. k # NoMsg
    BY <1>2, <2>2, StoredNumbers
  <2> HIDE DEF k, Kept
  <2>6. k # id /\ k \notin RetainedOf(e.subs)
    BY <1>2, <1>10, <2>4, <2>5
  <2>7. k \in DOMAIN w.msg_store
    BY <1>7, <2>2, <2>6 DEF Delivered
  <2> QED
    BY <2>7 DEF k
<1> QED
  BY <1>7, <1>8, <1>9, <1>11, <1>12 DEF HalfRead, w

\* A subscription is read.
LEMMA SubChunkGood ==
  ASSUME NEW f, FileGood(f), f.kind \notin {"none", "torn"}, NEW i \in 1..Len(f.tree), NEW e \in HalfRead(f, i - 1),
         ~IsKept(f.tree[i])
  PROVE  ReadChunk(e, f.tree[i]) \in HalfRead(f, i)
<1> DEFINE ch == f.tree[i]
           c == ch.client
           topic == ch.topic
           qos == ch.qos
           w == ReadChunk(e, ch)
           n == Len(f.tree)
           Kept(m) == {f.tree[j].retain : j \in {l \in 1..m : IsKept(f.tree[l])}}
<1>1. /\ n \in Nat /\ DOMAIN f.tree = 1..n
      /\ c \in DOMAIN f.clients /\ topic \in Path /\ qos \in 0..2
  BY DEF FileGood
<1>2. /\ e \in DbType /\ Good(e, Zero) /\ DOMAIN e.contexts = DOMAIN f.clients
      /\ \A k \in DOMAIN e.msg_store : e.msg_store[k].topic # NoTopic
      /\ RetainedOf(e.subs) \subseteq {NoMsg} \cup Kept(i - 1)
      /\ \A j \in (i - 1) + 1..n : IsKept(f.tree[j]) => f.tree[j].retain \in DOMAIN e.msg_store
  BY DEF HalfRead
<1>3. w = SubAdd(e, c, topic, qos)
  BY DEF ReadChunk
<1>4. topic \in Topic
  BY <1>1 DEF Topic, Path
<1> HIDE DEF c, topic, qos, w
<1>5. w \in DbType /\ Good(w, Zero) /\ Onward(e, w) /\ w.msg_store = e.msg_store
      /\ RetainedOf(w.subs) \subseteq RetainedOf(e.subs) \cup {NoMsg}
  BY <1>1, <1>2, <1>3, <1>4, ZeroFacts, SubAddGood, ZenonT(40)
<1>6. DOMAIN w.contexts = DOMAIN f.clients
  BY <1>2, <1>5 DEF Onward
<1>7. Kept(i - 1) \subseteq Kept(i)
  <2>1. \A l \in 1..(i - 1) : l \in 1..i
    BY <1>1
  <2> QED
    BY <2>1
<1>8. RetainedOf(w.subs) \subseteq {NoMsg} \cup Kept(i)
  BY <1>2, <1>5, <1>7
<1>9. \A j \in i + 1..n : j \in (i - 1) + 1..n
  BY <1>1
<1> QED
  BY <1>2, <1>5, <1>6, <1>8, <1>9 DEF HalfRead, w

\* mqtt3_db_restore: what a good file is restored to is good.
LEMMA RestoredGood ==
  ASSUME NEW f, FileGood(f), f.kind \notin {"none", "torn"}
  PROVE  Good(Restored(f), Zero)
<1> DEFINE d == Loaded(f)
           s == f.tree
           n == Len(s)
           P(h) == h = [i \in 0..n |-> IF i = 0 THEN d ELSE ReadChunk(h[i - 1], s[i])]
           g == CHOOSE h : P(h)
           J == [i \in 0..n |-> HalfRead(f, i)]
           F == [p \in (1..n) \X DbType |-> ReadChunk(p[2], s[p[1]])]
<1>1. Restored(f) = g[n]
  BY DEF Restored, Each, ReadChunk, IsKept, Loaded
<1> HIDE DEF g
<1>2. n \in Nat /\ DOMAIN s = 1..n
  BY DEF FileGood
<1>3. d \in HalfRead(f, 0)
  <2>1. /\ d \in DbType /\ Good(d, Zero) /\ DOMAIN d.msg_store = DOMAIN f.store
        /\ DOMAIN d.contexts = DOMAIN f.clients /\ RetainedOf(d.subs) \subseteq {NoMsg}
        /\ \A k \in DOMAIN d.msg_store : d.msg_store[k].topic # NoTopic
    BY LoadedGood
  <2> HIDE DEF d
  <2>2. \A j \in 0 + 1..n : IsKept(s[j]) => s[j].retain \in DOMAIN d.msg_store
    BY <1>2, <2>1 DEF FileGood
  <2> QED
    BY <2>1, <2>2 DEF HalfRead
<1>4. ASSUME NEW i \in 1..n, NEW e \in HalfRead(f, i - 1) PROVE ReadChunk(e, s[i]) \in HalfRead(f, i)
  BY KeptChunkGood, SubChunkGood
<1> HIDE DEF d, s
<1> HIDE DEF n
<1>5. \A i \in 1..n : i \in 0..n /\ i - 1 \in 0..n /\ i # 0
  BY <1>2
<1>6. 0 \in 0..n /\ n \in 0..n /\ \A i \in 0..n : J[i] = HalfRead(f, i) /\ J[i] \subseteq DbType
  BY <1>2 DEF HalfRead
<1> HIDE DEF J
<1>7. \A i \in 1..n : \A e \in J[i - 1] : F[<<i, e>>] = ReadChunk(e, s[i]) /\ F[<<i, e>>] \in J[i]
  <2>1. SUFFICES ASSUME NEW i \in 1..n, NEW e \in J[i - 1]
                 PROVE  F[<<i, e>>] = ReadChunk(e, s[i]) /\ F[<<i, e>>] \in J[i]
    OBVIOUS
  <2>2. e \in DbType /\ e \in HalfRead(f, i - 1)
    BY <1>5, <1>6
  <2>3. F[<<i, e>>] = ReadChunk(e, s[i])
    BY <2>2
  <2> HIDE DEF F
  <2> QED
    BY <1>4, <1>5, <1>6, <2>2, <2>3
<1> HIDE DEF F
<1>8. PICK h : Loop(h, n, d, F) /\ \A i \in 0..n : h[i] \in J[i]
  <2>1. d \in J[0]
    BY <1>3, <1>6
  <2>2. \A i \in 1..n : \A e \in J[i - 1] : F[<<i, e>>] \in J[i]
    BY <1>7
  <2> QED
    BY ONLY <1>2, <2>1, <2>2, LoopExists
<1>9. P(h)
  <2>1. \A i \in 0..n : i # 0 => i \in 1..n /\ h[i - 1] \in J[i - 1]
    BY <1>2, <1>5, <1>8
  <2>2. h = [i \in 0..n |-> IF i = 0 THEN d ELSE F[<<i, h[i - 1]>>]]
    BY <1>8 DEF Loop
  <2> QED
    BY <1>7, <2>1, <2>2
<1>10. P(g)
  <2> HIDE DEF P
  <2> QED
    BY <1>9 DEF g
<1>11. g[0] = d /\ \A i \in 1..n : g[i] = ReadChunk(g[i - 1], s[i])
  BY <1>5, <1>6, <1>10
<1> HIDE DEF P
<1>12. g[n] \in J[n]
  <2>1. g[0] \in J[0]
    BY <1>3, <1>6, <1>11
  <2>2. \A i \in 1..n : g[i - 1] \in J[i - 1] => g[i] \in J[i]
    BY <1>4, <1>5, <1>6, <1>11
  <2>3. \A i \in 0..n : g[i] \in J[i]
    BY ONLY <1>2, <2>1, <2>2, LoopKeeps
  <2> QED
    BY <1>6, <2>3
<1>13. g[n] \in HalfRead(f, n)
  BY <1>6, <1>12
<1> QED
  BY <1>1, <1>13 DEF HalfRead

------------------------------------------------------------------------------
(* The actions, and the theorems.                                          *)

\* The inductive invariant.
DatabaseTrue == Good(db, Zero) /\ FileGood(file)

\* CONNECT: a session is continued, or cleaned and made.
LEMMA ConnectGood ==
  ASSUME Good(db, Zero), NEW c \in Client, NEW clean \in BOOLEAN, Connect(c, clean)
  PROVE  Good(db', Zero) /\ file' = file
<1>1. file' = file
  BY DEF Connect, Step
<1>2. CASE Known(c) /\ ~clean
  <2>1. db' = Continued(db, c)
    BY <1>2 DEF Connect, Step, Continued
  <2>2. Good(Continued(db, c), Zero)
    BY <1>2, ZeroFacts, ContinuedGood DEF Known
  <2> QED
    BY <1>1, <2>1, <2>2
<1>3. CASE ~(Known(c) /\ ~clean)
  <2> DEFINE d == IF Known(c) THEN Forget(db, c) ELSE db
  <2>1. db' = [d EXCEPT !.contexts = Put(@, c, NewContext(clean))]
    BY <1>3 DEF Connect, Step
  <2>2. Good(d, Zero) /\ c \notin DOMAIN d.contexts
    <3>1. CASE Known(c)
      <4>1. Good(Forget(db, c), Zero) /\ DOMAIN Forget(db, c).contexts = DOMAIN db.contexts \ {c}
        BY <3>1, ZeroFacts, ForgetGood DEF Known
      <4> QED
        BY <3>1, <4>1
    <3>2. CASE ~Known(c)
      BY <3>2 DEF Known
    <3> QED
      BY <3>1, <3>2
  <2> HIDE DEF d
  <2>3. Good([d EXCEPT !.contexts = Put(@, c, NewContext(clean))], Zero)
    BY <2>2, ZeroFacts, NewContextGood
  <2> QED
    BY <1>1, <2>1, <2>3
<1> QED
  BY <1>2, <1>3

\* The end of a connection.
LEMMA DisconnectGood ==
  ASSUME Good(db, Zero), NEW c \in Client, Disconnect(c)
  PROVE  Good(db', Zero) /\ file' = file
<1>1. file' = file /\ db' = Disconnected(db, c) /\ c \in DOMAIN db.contexts
  BY DEF Disconnect, Step, Online, Known
<1> QED
  BY <1>1, ZeroFacts, DisconnectedGood

\* SUBSCRIBE and UNSUBSCRIBE, or the end of the connection with a filter that is refused.
LEMMA SubscribeGood ==
  ASSUME Good(db, Zero), NEW c \in Client, NEW filter \in Filters, NEW qos \in 0..2,
         Subscribe(c, filter, qos) \/ Unsubscribe(c, filter)
  PROVE  Good(db', Zero) /\ file' = file
<1>1. file' = file /\ c \in DOMAIN db.contexts
  BY DEF Subscribe, Unsubscribe, Step, Online, Known
<1>2. filter \in Topic
  BY TopicTypes
<1>3. Good(Disconnected(db, c), Zero)
  BY <1>1, ZeroFacts, DisconnectedGood
<1>4. ASSUME Subscribe(c, filter, qos) PROVE Good(db', Zero)
  <2> DEFINE d == SubAdd(db, c, filter, qos)
  <2>1. db' = IF SubTopicCheck(filter) THEN RetainQueue(d, c, filter, qos) ELSE Disconnected(db, c)
    BY <1>4 DEF Subscribe, Step
  <2>2. Good(d, Zero) /\ Onward(db, d)
    BY <1>1, <1>2, ZeroFacts, SubAddGood
  <2> HIDE DEF d
  <2>3. c \in DOMAIN d.contexts
    BY <1>1, <2>2 DEF Onward
  <2>4. Good(RetainQueue(d, c, filter, qos), Zero)
    BY <1>2, <2>2, <2>3, ZeroFacts, RetainQueueGood
  <2> QED
    BY <1>3, <2>1, <2>4
<1>5. ASSUME Unsubscribe(c, filter) PROVE Good(db', Zero)
  <2>1. db' = IF SubTopicCheck(filter) THEN SubRemove(db, c, filter) ELSE Disconnected(db, c)
    BY <1>5 DEF Unsubscribe, Step
  <2>2. Good(SubRemove(db, c, filter), Zero)
    BY <1>1, <1>2, ZeroFacts, SubRemoveGood
  <2> QED
    BY <1>3, <2>1, <2>2
<1> QED
  BY <1>1, <1>4, <1>5

\* PUBLISH with QoS 0 and 1: the message is stored and routed.
LEMMA PublishGood ==
  ASSUME Good(db, Zero), NEW topic \in Topics, NEW qos \in 0..1, NEW retain \in BOOLEAN, NEW empty \in BOOLEAN,
         Publish(topic, qos, retain, empty)
  PROVE  Good(db', Zero) /\ file' = file
<1> DEFINE d == Store(db, topic, qos, retain, empty)
<1>1. file' = file /\ db.last_db_id < MaxId /\ db' = MessagesQueue(d, d.last_db_id, qos, retain, TRUE)
  BY DEF Publish, Step
<1>2. qos \in 0..2 /\ topic # NoTopic /\ topic \in Topics \cup {NoTopic}
  BY RoutingAssumption DEF NoTopic
<1>3. Good(d, Zero) /\ d.last_db_id \in DOMAIN d.msg_store /\ d.msg_store[d.last_db_id].topic = topic
  BY <1>1, <1>2, ZeroFacts, StoreGood
<1> HIDE DEF d
<1>4. PICK yes \in BOOLEAN : yes = TRUE
  OBVIOUS
<1> DEFINE id == d.last_db_id
           e == MessagesQueue(d, id, qos, retain, yes)
<1>5. id \in DOMAIN d.msg_store /\ d.msg_store[id].topic # NoTopic
  BY <1>2, <1>3
<1> HIDE DEF id
<1>6. Good(e, Zero)
  BY <1>2, <1>3, <1>5, ZeroFacts, MessagesQueueGood
<1>7. db' = e
  BY <1>1, <1>4 DEF id
<1> QED
  BY <1>1, <1>6, <1>7

\* PUBLISH with QoS 2: the message is stored and queued for its publisher.
LEMMA PublishQos2Good ==
  ASSUME Good(db, Zero), NEW c \in Client, NEW topic \in Topics \cup {NoTopic}, NEW retain \in BOOLEAN,
         PublishQos2(c, topic, retain)
  PROVE  Good(db', Zero) /\ file' = file
<1> DEFINE empty == topic = NoTopic
           d == Store(db, topic, 2, retain, empty)
           qosOf == [x \in {c} |-> 2]
<1>1. /\ file' = file /\ db.last_db_id < MaxId /\ c \in DOMAIN db.contexts
      /\ db' = Insert(d, qosOf, "in", retain, d.last_db_id)
  BY DEF PublishQos2, Step, Online, Known
<1>2. empty \in BOOLEAN
  OBVIOUS
<1> HIDE DEF empty
<1>3. PICK qos \in 0..2 : qos = 2
  OBVIOUS
<1>4. /\ Good(d, Zero) /\ d.last_db_id \in DOMAIN d.msg_store
      /\ d.contexts = db.contexts
  <2> DEFINE e == Store(db, topic, qos, retain, empty)
  <2>1. Good(e, Zero) /\ e.last_db_id \in DOMAIN e.msg_store /\ e.contexts = db.contexts
    BY <1>1, <1>2, ZeroFacts, StoreGood
  <2>2. e = d
    BY <1>3
  <2> HIDE DEF e, d
  <2> QED
    BY <2>1, <2>2
<1> HIDE DEF d
<1>5. PICK S \in SUBSET DOMAIN d.contexts : S = {c}
  BY <1>1, <1>4
<1>6. qosOf \in [S -> 0..2]
  BY <1>5
<1> HIDE DEF qosOf
<1>7. PICK dir \in {"in", "out"} : dir = "in"
  OBVIOUS
<1> DEFINE id == d.last_db_id
<1>8. id \in DOMAIN d.msg_store
  BY <1>4
<1> HIDE DEF id
<1>9. Inserted(d, Zero, Insert(d, qosOf, dir, retain, id))
  BY <1>4, <1>6, <1>8, ZeroFacts, InsertGood
<1>10. db' = Insert(d, qosOf, dir, retain, id)
  BY <1>1, <1>7 DEF id
<1>11. Inserted(d, Zero, db')
  BY <1>9, <1>10
<1> QED
  BY <1>1, <1>11 DEF Inserted

\* PUBREL: the message is routed and leaves the publisher's queue.
LEMMA ReleaseGood ==
  ASSUME Good(db, Zero), NEW c \in Client, NEW i, Release(c, i)
  PROVE  Good(db', Zero) /\ file' = file
<1> DEFINE m == db.contexts[c].msgs[i]
           id == m.id
           qos == db.msg_store[id].qos
           retain == m.retain
           d == IF db.msg_store[id].topic = NoTopic THEN db ELSE MessagesQueue(db, id, qos, retain, TRUE)
<1>1. /\ file' = file /\ c \in DOMAIN db.contexts /\ db.contexts[c].sock /\ i \in DOMAIN db.contexts[c].msgs
      /\ db' = Unlink(d, c, i)
  BY DEF Release, Step, Online, Known
<1>2. db \in DbType
  BY DEF Good, Shape
<1>3. id \in DOMAIN db.msg_store /\ m \in Message
  <2>1. db.contexts[c].msgs \in Seq(Message)
    BY <1>1, <1>2, DbParts
  <2>2. \A b \in DOMAIN db.contexts : \A j \in DOMAIN db.contexts[b].msgs :
          db.contexts[b].msgs[j].id \in DOMAIN db.msg_store
    BY DEF Good, Exact
  <2>3. id \in DOMAIN db.msg_store
    BY <1>1, <2>2
  <2>4. m \in Message
    BY <1>1, <2>1
  <2> QED
    BY <2>3, <2>4
<1>4. qos \in 0..2 /\ retain \in BOOLEAN
  <2>1. db.msg_store[id] \in Stored
    BY <1>2, <1>3, DbParts
  <2> QED
    BY <1>3, <2>1 DEF Stored, Message
<1> HIDE DEF id, qos, retain, m
<1>5. Good(d, Zero) /\ Onward(db, d)
  <2>1. CASE db.msg_store[id].topic = NoTopic
    <3>1. d = db /\ Onward(db, db)
      BY <2>1 DEF Onward
    <3> QED
      BY <3>1
  <2>2. CASE db.msg_store[id].topic # NoTopic
    <3>1. PICK yes \in BOOLEAN : yes = TRUE
      OBVIOUS
    <3> DEFINE e == MessagesQueue(db, id, qos, retain, yes)
    <3>2. Good(e, Zero) /\ Delivered(db, e, id)
      BY <1>3, <1>4, <2>2, ZeroFacts, MessagesQueueGood
    <3>3. d = e
      BY <2>2, <3>1
    <3> HIDE DEF d, e
    <3> QED
      BY <3>2, <3>3 DEF Delivered
  <2> QED
    BY <2>1, <2>2
<1> HIDE DEF d
<1>6. c \in DOMAIN d.contexts /\ d.contexts[c].sock /\ i \in DOMAIN d.contexts[c].msgs
  BY <1>1, <1>5 DEF Onward
<1>7. Good(Unlink(d, c, i), Zero)
  BY <1>5, <1>6, ZeroFacts, UnlinkGood
<1> QED
  BY <1>1, <1>7

\* An outbound message leaves its queue.
LEMMA SentGood ==
  ASSUME Good(db, Zero), NEW c \in Client, NEW i, Sent(c, i)
  PROVE  Good(db', Zero) /\ file' = file
<1>1. /\ file' = file /\ c \in DOMAIN db.contexts /\ db.contexts[c].sock /\ i \in DOMAIN db.contexts[c].msgs
      /\ db' = Unlink(db, c, i)
  BY DEF Sent, Step, Online, Known
<1> QED
  BY <1>1, ZeroFacts, UnlinkGood

\* The file is written, whole, in part or torn.
LEMMA BackupGood ==
  ASSUME DatabaseTrue, Backup \/ \E kept \in SUBSET Client : BackupDiskFull(kept, TRUE) \/ BackupDiskFull(kept, FALSE)
  PROVE  DatabaseTrue'
<1>1. CASE Backup
  <2>1. db' = db /\ file' = Snapshot(db) /\ Writable(db)
    BY <1>1 DEF Backup
  <2>2. FileGood(Snapshot(db))
    BY <2>1, SnapshotGood DEF DatabaseTrue
  <2> QED
    BY <2>1, <2>2 DEF DatabaseTrue
<1>2. ASSUME NEW kept \in SUBSET Client, NEW torn \in BOOLEAN, BackupDiskFull(kept, torn)
      PROVE  DatabaseTrue'
  <2> DEFINE g == [Snapshot(db) EXCEPT !.clients = [c \in kept |-> @[c]], !.tree = <<>>]
  <2>1. /\ db' = db /\ Writable(db) /\ kept \in SUBSET DOMAIN Snapshot(db).clients
        /\ file' = IF torn THEN [kind |-> "torn"] ELSE g
    BY <1>2 DEF BackupDiskFull
  <2>2. FileGood(g)
    BY <2>1, DiskFullGood DEF DatabaseTrue
  <2>3. FileGood([kind |-> "torn"])
    BY DEF FileGood
  <2> HIDE DEF g
  <2>4. FileGood(file')
    BY <2>1, <2>2, <2>3
  <2> QED
    BY <2>1, <2>4 DEF DatabaseTrue
<1> QED
  BY <1>1, <1>2

\* The broker stops or crashes.
LEMMA DownGood ==
  ASSUME DatabaseTrue, Crash \/ BackupCrash \/ Stop
  PROVE  DatabaseTrue'
<1>1. db' = EmptyDb
  BY DEF Crash, BackupCrash, Stop, Down
<1>2. FileGood(file')
  <2>1. CASE Stop
    BY <2>1, SnapshotGood DEF Stop, DatabaseTrue
  <2>2. CASE Crash \/ BackupCrash
    BY <2>2 DEF Crash, BackupCrash, DatabaseTrue
  <2> QED
    BY <2>1, <2>2
<1> QED
  BY <1>1, <1>2, EmptyDbGood DEF DatabaseTrue

\* The broker starts again with what it finds.
LEMMA RestartGood ==
  ASSUME DatabaseTrue, Restart
  PROVE  DatabaseTrue'
<1>1. file' = file /\ file.kind # "torn" /\ db' = IF file.kind = "none" THEN EmptyDb ELSE Restored(file)
  BY DEF Restart
<1>2. CASE file.kind = "none"
  BY <1>1, <1>2, EmptyDbGood DEF DatabaseTrue
<1>3. CASE file.kind # "none"
  <2>1. Good(Restored(file), Zero)
    BY <1>1, <1>3, RestoredGood DEF DatabaseTrue
  <2> QED
    BY <1>1, <1>3, <2>1 DEF DatabaseTrue
<1> QED
  BY <1>2, <1>3

\* The invariant holds at first,
LEMMA InitTrue == Init => DatabaseTrue
  BY EmptyDbGood DEF Init, NoFile, FileGood, DatabaseTrue

\* and every step keeps it,
LEMMA NextTrue == DatabaseTrue /\ [Next]_vars => DatabaseTrue'
<1> SUFFICES ASSUME DatabaseTrue, [Next]_vars PROVE DatabaseTrue'
  OBVIOUS
<1>1. Good(db, Zero) /\ FileGood(file)
  BY DEF DatabaseTrue
<1>2. ASSUME Good(db', Zero) /\ file' = file PROVE DatabaseTrue'
  BY <1>1, <1>2 DEF DatabaseTrue
<1>3. ASSUME NEW s \in Session, Connect(s[1], s[2]) PROVE DatabaseTrue'
  <2>1. s[1] \in Client /\ s[2] \in BOOLEAN
    BY RoutingAssumption
  <2> QED
    BY <1>1, <1>2, <1>3, <2>1, ConnectGood
<1>4. ASSUME NEW w \in Wanted, Subscribe(w[1], w[2], w[3]) \/ Unsubscribe(w[1], w[2]) PROVE DatabaseTrue'
  <2>1. w[1] \in Client /\ w[2] \in Filters /\ w[3] \in 0..2
    BY RoutingAssumption
  <2> QED
    BY <1>1, <1>2, <1>4, <2>1, SubscribeGood
<1>5. ASSUME NEW m \in Published, Publish(m[1], m[2], m[3], m[4]) PROVE DatabaseTrue'
  <2>1. m[1] \in Topics /\ m[2] \in 0..1 /\ m[3] \in BOOLEAN /\ m[4] \in BOOLEAN
    BY RoutingAssumption
  <2> QED
    BY <1>1, <1>2, <1>5, <2>1, PublishGood
<1>6. ASSUME NEW m \in Published2, PublishQos2(m[1], m[2], m[3]) PROVE DatabaseTrue'
  <2>1. m[1] \in Client /\ m[2] \in Topics \cup {NoTopic} /\ m[3] \in BOOLEAN
    BY RoutingAssumption
  <2> QED
    BY <1>1, <1>2, <1>6, <2>1, PublishQos2Good
<1>7. ASSUME NEW c \in Client, Disconnect(c) \/ \E i : Release(c, i) \/ Sent(c, i) PROVE DatabaseTrue'
  BY <1>1, <1>2, <1>7, DisconnectGood, ReleaseGood, SentGood
<1>8. ASSUME Backup \/ \E kept \in SUBSET Client : BackupDiskFull(kept, TRUE) \/ BackupDiskFull(kept, FALSE)
      PROVE  DatabaseTrue'
  BY <1>8, BackupGood
<1>9. ASSUME UNCHANGED vars PROVE DatabaseTrue'
  BY <1>1, <1>9 DEF vars, DatabaseTrue
<1> QED
  BY <1>3, <1>4, <1>5, <1>6, <1>7, <1>8, <1>9, DownGood, RestartGood DEF Next

------------------------------------------------------------------------------
\* The invariant gives the types,
LEMMA TrueTyped == DatabaseTrue => TypeOK
<1> SUFFICES ASSUME DatabaseTrue PROVE TypeOK
  OBVIOUS
<1>1. db \in DbType /\ Tree(db.subs) /\ Indexed(db) /\ Counted(db) /\ DOMAIN db.msg_store \subseteq 1..db.last_db_id
  BY DEF DatabaseTrue, Good, Shape
<1>2. ASSUME NEW c \in DOMAIN db.contexts
      PROVE  db.contexts[c].msgs \in Seq(Message) /\ db.contexts[c].msg_count12 \in 0..Len(db.contexts[c].msgs)
  <2> DEFINE v == db.contexts[c]
  <2>1. v \in Context /\ v.msgs \in Seq(Message) /\ CountTrue(v)
    BY <1>1, DbParts DEF Counted
  <2> HIDE DEF v
  <2>2. v.msg_count12 \in Nat
    BY <2>1 DEF Context
  <2>3. Cardinality(Hits(v.msgs, Counts)) \in Nat /\ Cardinality(Hits(v.msgs, Counts)) <= Len(v.msgs)
    BY <2>1, HitsFacts
  <2>4. v.msg_count12 <= Cardinality(Hits(v.msgs, Counts))
    BY <2>1 DEF CountTrue
  <2>5. Len(v.msgs) \in Nat
    BY <2>1
  <2>6. v.msg_count12 \in 0..Len(v.msgs)
    BY <2>2, <2>3, <2>4, <2>5
  <2> QED
    BY <2>1, <2>6 DEF v
<1>3. DOMAIN db.contexts \subseteq Client
  BY <1>1, DbParts
<1>4. \A p \in DOMAIN db.subs :
        /\ DOMAIN db.subs[p].subs \subseteq DOMAIN db.contexts
        /\ \A i \in DOMAIN db.subs[p].children : Append(p, db.subs[p].children[i]) \in DOMAIN db.subs
        /\ Len(p) > 1 => Front(p) \in DOMAIN db.subs
  BY <1>1 DEF Tree, Linked, Indexed
<1> QED
  BY <1>1, <1>2, <1>3, <1>4 DEF TypeOK

\* the reference counts,
LEMMA TrueCounts == DatabaseTrue => RefCountsExact
<1> SUFFICES ASSUME DatabaseTrue PROVE RefCountsExact
  OBVIOUS
<1> DEFINE kept == {p \in DOMAIN db.subs : db.subs[p].retained # NoMsg}
<1>1. db \in DbType /\ Exact(db, Zero) /\ Shape(db)
  BY DEF DatabaseTrue, Good, Shape
<1>2. ASSUME NEW id \in DOMAIN db.msg_store
      PROVE  db.msg_store[id].ref_count =
               Cardinality({p \in kept : db.subs[p].retained = id})
                 + Cardinality(InQueues([c \in DOMAIN db.contexts |-> db.contexts[c].msgs], id))
  <2>1. id \in 1..MaxId /\ id # NoMsg
    BY <1>1, StoredNumbers
  <2>2. {p \in kept : db.subs[p].retained = id} = KeptAt(db.subs, id)
    BY <2>1 DEF KeptAt
  <2>3. Zero[id] = 0 /\ Held(db, id) \in Nat
    BY <1>1, <2>1, ZeroFacts, HeldFacts
  <2>4. db.msg_store[id].ref_count = Held(db, id) + Zero[id]
    BY <1>1 DEF Exact
  <2>5. db.msg_store[id].ref_count = Held(db, id)
    BY <2>3, <2>4
  <2> QED
    BY <2>2, <2>5 DEF Held, Queues
<1>3. \A p \in kept : db.subs[p].retained \in DOMAIN db.msg_store
  BY <1>1 DEF Exact
<1>4. \A c \in DOMAIN db.contexts : \A i \in DOMAIN db.contexts[c].msgs : db.contexts[c].msgs[i].id \in DOMAIN db.msg_store
  BY <1>1 DEF Exact
<1> QED
  BY <1>2, <1>3, <1>4 DEF RefCountsExact

\* the index,
LEMMA TrueIndex == DatabaseTrue => IndexAgrees
  BY DEF DatabaseTrue, Good, Indexed, IndexAgrees

\* and the pruned tree.
LEMMA TruePruned == DatabaseTrue => FiltersPruned
  BY DEF DatabaseTrue, Good, Shape, Idle, OfTopics, FiltersPruned

\* The database and the file are good whatever clients do and whenever the broker stops.
LEMMA Invariant == Spec => []DatabaseTrue
  BY InitTrue, NextTrue, PTL DEF Spec

\* Types (mosquitto_broker.h): for all clients, topics, filters and limits the database keeps its
\* shape; in particular msg_count12 is between 0 and the length of the queue, and children and
\* parents of nodes are nodes.
THEOREM RoutingTyped == Spec => []TypeOK
  BY Invariant, TrueTyped, PTL

\* Reference counts (database.c:188): after every sequence of subscriptions, publications, releases,
\* lost connections, backups, crashes and restarts a stored message counts exactly the queue entries
\* and the retained topics that point to it, and nothing points to a message that was freed.
THEOREM ReferencesExact == Spec => []RefCountsExact
  BY Invariant, TrueCounts, PTL

\* The index (subs.c:280): context->subs names exactly the nodes that have a leaf of the context, so
\* that no cleaned session leaves a leaf behind and no freed node is named.
THEOREM IndexTrue == Spec => []IndexAgrees
  BY Invariant, TrueIndex, PTL

\* Pruning (subs.c:375, subs.c:550): a node without children, subscribers and retained message is on
\* the way to a topic; none is left behind by a filter alone.
THEOREM NoIdleNodes == Spec => []FiltersPruned
  BY Invariant, TruePruned, PTL
===============================================================================

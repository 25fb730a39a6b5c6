------------------------------ MODULE TopicTree ------------------------------
(***************************************************************************)
(* The subscription tree of the broker (src/subs.c): how a topic becomes a *)
(* path, how nodes are made and pruned, and in which order the two walks   *)
(* of the tree, the one for a message and the one for the retained         *)
(* messages of a new subscription, come to its nodes.                      *)
(*                                                                         *)
(* A topic is the sequence of its levels.  A tree is a function from the   *)
(* paths that exist to nodes; a node has the sequence of its children's    *)
(* names in sibling order, the leaf (a QoS) of each subscribed client, and *)
(* the identifier of its retained message, 0 when there is none.           *)
(***************************************************************************)
EXTENDS Lists, SequencesExt

\* the levels that begin with '$'
CONSTANT DollarLevels
ASSUME WildcardsAssumption == {"+", "#"} \cap DollarLevels = {}

NoMsg == 0
EmptyNode == [children |-> <<>>, subs |-> <<>>, retained |-> NoMsg]
EmptyTree == [p \in {<<"">>, <<"$SYS">>} |-> EmptyNode]

Tokenise(topic) == IF topic[1] \in DollarLevels THEN topic ELSE <<"">> \o topic

\* mqtt3_sub_add enters the root's child named by the first token with all tokens
PathOf(topic) == LET tokens == Tokenise(topic) IN <<tokens[1]>> \o tokens

Above(path) == {SubSeq(path, 1, k) : k \in 1..Len(path)}

\* the nodes missing on the way to path are made, each the last of its siblings
AddPath(tree, path) ==
  LET missing == Above(path) \ DOMAIN tree
      Node(p) == IF p \in missing THEN EmptyNode ELSE tree[p]
  IN  [p \in DOMAIN tree \cup missing |->
         IF \E q \in missing : Len(q) > 1 /\ Front(q) = p
         THEN [Node(p) EXCEPT !.children = Append(@, path[Len(p) + 1])]
         ELSE Node(p)]

Bare(node) == node.subs = <<>> /\ node.retained = NoMsg

\* Mutant of Prune: the parent keeps its pointer to a freed node
PruneDangling(tree, path, top) ==
  [p \in {q \in DOMAIN tree : q # path \/ Len(q) < top \/ ~Bare(tree[q]) \/ tree[q].children # <<>>} |-> tree[p]]

\* path and its parents are removed as long as nothing hangs on them,
\* but never a node nearer to the root than top
Prune(tree, path, top) ==
  LET line == Above(path) \cap DOMAIN tree
      Alone(p) == \A q \in line : Len(q) >= Len(p) =>
                    /\ Bare(tree[q])
                    /\ tree[q].children = IF \E r \in line : Len(r) = Len(q) + 1
                                          THEN <<path[Len(q) + 1]>> ELSE <<>>
      gone == {p \in line : Len(p) >= top /\ Alone(p)}
  IN  [p \in DOMAIN tree \ gone |->
         [tree[p] EXCEPT !.children = Those(@, {i \in DOMAIN @ : Append(p, @[i]) \notin gone})]]

WithoutLeaf(node, c) == [node EXCEPT !.subs = [d \in DOMAIN node.subs \ {c} |-> node.subs[d]]]

\* Mutant of RemoveLeaf: nothing is pruned
LeafOnly(tree, path, c) ==
  IF path \in DOMAIN tree THEN [tree EXCEPT ![path] = WithoutLeaf(@, c)] ELSE tree

\* _sub_remove prunes on its way back, whether or not there was a leaf to remove
RemoveLeaf(tree, path, c) ==
  Prune(IF path \in DOMAIN tree THEN [tree EXCEPT ![path] = WithoutLeaf(@, c)] ELSE tree, path, 2)

\* the two roots that mqtt3_db_open makes have no parent and stay
CleanLeaf(tree, path, c) ==
  LET t == [tree EXCEPT ![path] = WithoutLeaf(@, c)]
  IN  IF Bare(t[path]) /\ t[path].children = <<>>
      THEN Prune(t, path, IF <<path[1]>> \in DOMAIN EmptyTree THEN 2 ELSE 1)
      ELSE t

------------------------------------------------------------------------------
(* The checks of a topic and the matching without a tree (lib/util_mosq.c).   *)
(* A level is a wildcard or has no wildcard character in it.                  *)

\* the whole of "+" and a leading "+/" are refused, and "#" alone or before another level
SubTopicCheck(filter) ==
  /\ filter[1] # "+"
  /\ \A i \in DOMAIN filter : filter[i] = "#" => i > 1 /\ i = Len(filter)

PubTopicCheck(topic) == \A i \in DOMAIN topic : topic[i] \notin {"+", "#"}

\* In front of "#" the last level of the topic is matched only by itself, not by
\* "+", and an empty last level is not matched by "#" at all.
TopicMatchesSub(sub, topic) ==
  LET n == Len(sub)
      m == Len(topic)
      SameTo(k) == \A i \in 1..k : sub[i] \in {topic[i], "+"}
  IN  /\ (sub[1] \in DollarLevels) = (topic[1] \in DollarLevels)
      /\ \/ n = m /\ sub[n] # "#" /\ SameTo(n)
         \/ n <= m /\ sub[n] = "#" /\ SameTo(n - 1) /\ (n = m => topic[m] # "")
         \/ n = m + 1 /\ sub[n] = "#" /\ SameTo(m) /\ sub[m] = topic[m]

------------------------------------------------------------------------------
\* The nodes whose subscribers a message with this topic goes to, in order:
\* what is below a node before the node itself.
Visit(tree, topic) ==
  LET tokens == Tokenise(topic)
      Search[p \in DOMAIN tree] ==
        LET k == Len(p)
            Branch(t) ==
              LET b == Append(p, t)
              IN  IF k <= Len(tokens) /\ t \in {tokens[k], "+"}
                  THEN Search[b] \o IF k = Len(tokens) THEN <<b>> ELSE <<>>
                  ELSE IF t = "#" /\ tree[b].children = <<>> THEN <<b>> ELSE <<>>
        IN  FlattenSeq([i \in 1..Len(tree[p].children) |-> Branch(tree[p].children[i])])
  IN  IF <<tokens[1]>> \in DOMAIN tree THEN Search[<<tokens[1]>>] ELSE <<>>

\* The nodes whose retained messages a new subscription is sent, in order.
RetainVisit(tree, filter) ==
  LET tokens == Tokenise(filter)
      Hash(k) == k = Len(tokens) /\ tokens[k] = "#"
      Below[p \in DOMAIN tree] ==
        FlattenSeq([i \in 1..Len(tree[p].children) |->
                      LET b == Append(p, tree[p].children[i]) IN <<b>> \o Below[b]])
      Search[p \in DOMAIN tree] ==
        LET k == Len(p)
            kids == tree[p].children
            Branch(i) ==
              LET b == Append(p, kids[i])
                  parentToo == \/ Hash(k + 1) /\ tree[b].children # <<>>
                               \/ i = Len(kids) /\ tokens[k + 1] = "#" /\ k > 1
              IN  IF kids[i] = "+" \/ tokens[k] \notin {kids[i], "+"} THEN <<>>
                  ELSE IF k = Len(tokens) THEN <<b>>
                  ELSE Search[b] \o IF parentToo THEN <<b>> ELSE <<>>
        IN  IF Hash(k) THEN Below[p] ELSE FlattenSeq([i \in 1..Len(kids) |-> Branch(i)])
  IN  IF <<tokens[1]>> \in DOMAIN tree THEN Search[<<tokens[1]>>] ELSE <<>>

------------------------------------------------------------------------------
\* _db_subs_retain_write puts a '/' only behind a text that is not empty, so
\* the empty levels in front are lost
TopicText(path) ==
  LET full == {k \in 1..Len(path) : path[k] # ""}
  IN  IF full = {} THEN <<"">>
      ELSE SubSeq(path, CHOOSE k \in full : \A j \in full : k <= j, Len(path))

\* the order in which it walks: a node before its children
WriteOrder(tree) ==
  LET Walk[p \in DOMAIN tree] ==
        <<p>> \o FlattenSeq([i \in 1..Len(tree[p].children) |-> Walk[Append(p, tree[p].children[i])]])
      roots == {p \in DOMAIN tree : Len(p) = 1}
  IN  FlattenSeq([i \in 1..Cardinality(roots) |-> Walk[SetToSeq(roots)[i]]])
==============================================================================

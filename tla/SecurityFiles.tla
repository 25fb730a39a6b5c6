---------------------------- MODULE SecurityFiles ----------------------------
(***************************************************************************)
(* The password and ACL files of the broker: what mosquitto_passwd does to *)
(* the first (src/mosquitto_passwd.c), and what the broker makes of both   *)
(* (src/security_default.c).  A file that is in error is not refused as a  *)
(* whole: what was read before the line in error stays in force.           *)
(*                                                                         *)
(* A line is what strtok finds in it.  There is one topic that matters, so *)
(* a rule is about that topic or another, and a pattern has neither %c nor *)
(* %u.  Blank lines of the password file are left out.                     *)
(***************************************************************************)
EXTENDS Lists

CONSTANT Id    \* names of users: those of their clients

NoId == "none"
Right == {"read", "write"}

\* The password of a line: none, the hash of what the client sends, that of something else,
\* or what cannot be decoded to a hash.
PwLine == [username : Id, password : {"none", "theirs", "other", "unreadable"}]

AclLine ==
  [word : {"topic", "pattern"}, access : {"unsaid", "read", "write", "readwrite", "misspelt"},
   topic : {"theirs", "another", "missing"}]
  \cup [word : {"user"}, name : Id \cup {NoId}] \cup [word : {"comment"}]

FileType == [passwords : Seq(PwLine), acl : Seq(AclLine)]

------------------------------------------------------------------------------
(* mosquitto_passwd. *)

DeletePwuser(lines, id) == Those(lines, {i \in DOMAIN lines : lines[i].username # id})

UpdatePwuser(lines, id, new) ==
  LET line == [username |-> id, password |-> new]
      old  == {i \in DOMAIN lines : lines[i].username = id}
  IN  IF old = {} THEN Append(lines, line)
      ELSE [i \in DOMAIN lines |-> IF i \in old THEN line ELSE lines[i]]

------------------------------------------------------------------------------
(* The password file: db->unpwd is the list of its lines, decoded up to the *)
(* first that cannot be; a password that is not decoded fits nothing.       *)

Undecoded(lines, i) == \E j \in 1..i : lines[j].password = "unreadable"

UnpwdFileParse(lines) ==
  [i \in DOMAIN lines |-> IF lines[i].password = "theirs" /\ Undecoded(lines, i)
                          THEN [lines[i] EXCEPT !.password = "unreadable"] ELSE lines[i]]

UnpwdFileError(lines) == \E i \in DOMAIN lines : Undecoded(lines, i)

\* An empty list lets everybody in; of two lines for one user the first counts.
UnpwdCheck(unpwd, id) ==
  LET mine == Those(unpwd, {i \in DOMAIN unpwd : unpwd[i].username = id})
  IN  unpwd = <<>> \/ (mine # <<>> /\ mine[1].password \in {"none", "theirs"})

------------------------------------------------------------------------------
(* The ACL file: rules are for the user named last. *)

Torn(line) ==
  \/ line.word \in {"topic", "pattern"} /\ (line.topic = "missing" \/ line.access = "misspelt")
  \/ line.word = "user" /\ line.name = NoId

Granted(line) ==
  CASE line.topic # "theirs"   -> {}
    [] line.access \in Right   -> {line.access}
    [] OTHER                   -> Right

AddAcl(p, rights) ==
  [p EXCEPT !.list = Put(@, p.user, rights \cup IF p.user \in DOMAIN @ THEN @[p.user] ELSE {})]

AddAclPattern(p, rights) == [p EXCEPT !.patterns = @ \cup rights]

ParseLine(p, line) ==
  CASE p.error \/ line.word = "comment" -> p
    [] ~p.error /\ Torn(line)           -> [p EXCEPT !.error = TRUE]
    [] OTHER -> CASE line.word = "user"    -> [p EXCEPT !.user = line.name]
                  [] line.word = "topic"   -> AddAcl(p, Granted(line))
                  [] line.word = "pattern" -> AddAclPattern(p, Granted(line))

AclfileParse(list, patterns, lines) ==
  Each(ParseLine, [list |-> list, patterns |-> patterns, user |-> NoId, error |-> FALSE], lines)
==============================================================================

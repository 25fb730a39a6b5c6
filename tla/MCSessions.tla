------------------------------ MODULE MCSessions ------------------------------
(* One client that uses TCP and one that uses websockets too; a reload takes   *)
(* rights from one and the way in from the other, either way round, or finds a *)
(* password file in error, after which all rights are everybody's, or a file   *)
(* with nothing but rights for all, which the next one does not take away.     *)
EXTENDS Sessions
CONSTANTS ida, idw

User(id) == [word |-> "user", name |-> id]
Rule(word, access, topic) == [word |-> word, access |-> access, topic |-> topic]

Both == UpdatePwuser(UpdatePwuser(<<>>, ida, "theirs"), idw, "theirs")

MCFiles ==
  {[passwords |-> Both,
    acl |-> <<Rule("pattern", "read", "theirs"), Rule("topic", "write", "another"),
              User(idw), Rule("topic", "unsaid", "theirs")>>],
   [passwords |-> DeletePwuser(Both, idw),
    acl |-> <<User(ida), Rule("topic", "write", "theirs"), Rule("topic", "misspelt", "theirs"),
              Rule("pattern", "readwrite", "theirs")>>],
   [passwords |-> <<[username |-> ida, password |-> "none"],
                    [username |-> idw, password |-> "unreadable"]>>,
    acl |-> <<User(ida), Rule("topic", "write", "theirs")>>],
   [passwords |-> DeletePwuser(Both, ida),
    acl |-> <<Rule("pattern", "write", "theirs"), User(ida), Rule("topic", "read", "theirs")>>],
   [passwords |-> Both, acl |-> <<Rule("pattern", "read", "theirs")>>]}

MCVisits == {<<ida, FALSE, TRUE>>, <<ida, TRUE, FALSE>>, <<idw, FALSE, TRUE>>}
==============================================================================

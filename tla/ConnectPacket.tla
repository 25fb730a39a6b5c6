---------------------------- MODULE ConnectPacket ----------------------------
(***************************************************************************)
(* What mqtt3_handle_connect (src/read_handle_server.c) asks of a CONNECT  *)
(* before it looks at who the client is.  The rules differ between the     *)
(* two versions of the protocol: what 3.1 lets pass, 3.1.1 may refuse.     *)
(***************************************************************************)

CONSTANTS
  AllowZeroLengthClientid,  \* allow_zero_length_clientid
  PrefixRequired            \* whether clientid_prefixes is set

\* version "unknown": another protocol name, or another number or reserved flags with a known name;
\* username_there, password_there: whether the packet holds the string that its flag announces
Connects ==
  [version : {"3.1", "3.1.1", "unknown"}, clean_session : BOOLEAN,
   client_id : {"empty", "prefixed", "other"},
   will : BOOLEAN, will_qos : {0, 2, 3}, will_retain : BOOLEAN, will_topic : {"topic", "empty", "wildcard"},
   username_flag : BOOLEAN, username_there : BOOLEAN, password_flag : BOOLEAN, password_there : BOOLEAN]

VersionAccepted(p) == p.version # "unknown"

\* The server makes an identifier only for a 3.1.1 client without a session to come back to, and
\* that one has to have the prefix as well (auto_id_prefix is another setting).
IdentifierAccepted(p) ==
  /\ p.client_id = "empty" => p.version = "3.1.1" /\ p.clean_session /\ AllowZeroLengthClientid
  /\ PrefixRequired => p.client_id = "prefixed"

WillAccepted(p) ==
  /\ p.will_qos # 3
  /\ p.will => p.will_topic = "topic"
  /\ p.version = "3.1.1" /\ ~p.will => p.will_qos = 0 /\ ~p.will_retain

UserAccepted(p) ==
  p.version = "3.1.1" =>
    /\ p.password_flag => p.username_flag
    /\ p.username_flag => p.username_there /\ (p.password_flag => p.password_there)

ConnectAccepted(p) ==
  VersionAccepted(p) /\ IdentifierAccepted(p) /\ WillAccepted(p) /\ UserAccepted(p)

\* what a client with an identifier of its own may ask for: a clean session or not, a will or not
AcceptedShapes ==
  {<<p.clean_session, p.will>> : p \in {q \in Connects : q.client_id # "empty" /\ ConnectAccepted(q)}}
\* and what one may ask for whose packet is refused all the same
RefusedShapes ==
  {<<p.clean_session, p.will>> : p \in {q \in Connects : ~ConnectAccepted(q)}}
==============================================================================

------------------------------ MODULE MCServices ------------------------------
(* An instance of Services: the console with two devices, a datum, registrations, and requests of *)
(* the application; the collector with one import and a removal.                                  *)
EXTENDS Services

From(topic, to, type, dev, val) == [topic |-> topic, to |-> to, type |-> type, dev |-> dev, val |-> val]
MCScMsg == {
  From("TGdata", "TG_01", "data", "none", 0),
  From("SERV", "TG_01", "register", "light", 1),
  From("SERV", "TG_01", "register", "light", 2),
  From("SERV", "TG_01", "register", "heating", 1),
  From("THR", "USER_01", "requestThr", "light", 0),
  From("THR", "USER_01", "changeThrReq", "light", 0)}
MCTgcfgInit == {Nothing, <<>>}
==============================================================================

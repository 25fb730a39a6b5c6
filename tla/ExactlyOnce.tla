----------------------------- MODULE ExactlyOnce -----------------------------
(***************************************************************************)
(* What QoS 2 promises a publisher (man/mqtt.7.xml: "exactly once by using *)
(* a four step handshake"): a message it sends is handed to the            *)
(* subscribers once, and the publisher is told so only afterwards.         *)
(***************************************************************************)
CONSTANT Pubs       \* the messages a client publishes

VARIABLES offered,   \* the messages it has asked the broker to publish
          passed,    \* passed[p]: how often it has passed p on to the subscribers
          confirmed  \* those the client knows to have been passed on

Init == offered = {} /\ passed = [p \in Pubs |-> 0] /\ confirmed = {}

Offer(p) == /\ p \notin offered
            /\ offered' = offered \cup {p}
            /\ UNCHANGED <<passed, confirmed>>

Pass(p) == /\ p \in offered /\ passed[p] = 0
           /\ passed' = [passed EXCEPT ![p] = 1]
           /\ UNCHANGED <<offered, confirmed>>

Confirm(p) == /\ passed[p] = 1 /\ p \notin confirmed
              /\ confirmed' = confirmed \cup {p}
              /\ UNCHANGED <<offered, passed>>

Next == \E p \in Pubs : Offer(p) \/ Pass(p) \/ Confirm(p)

vars == <<offered, passed, confirmed>>

Spec == /\ Init /\ [][Next]_vars
        /\ \A p \in Pubs : WF_vars(Pass(p)) /\ WF_vars(Confirm(p))
==============================================================================

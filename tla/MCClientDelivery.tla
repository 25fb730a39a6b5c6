--------------------------- MODULE MCClientDelivery ---------------------------
(* The instances of ClientDelivery that TLC checks. *)
EXTENDS ClientDelivery
CONSTANTS s1, s2, p1, p2
MCPubs == {p1}
MCSubs == {s1, s2}
MCMsgs == MCPubs \cup MCSubs
MCLimits == {[inflight |-> 1, queued |-> 2]}
\* With two messages in flight a message of the client can be left in the queue
\* within the window.
MCPubs2 == {p1, p2}
MCMsgs2 == MCPubs2 \cup MCSubs
MCLimits2 == {[inflight |-> 2, queued |-> 2]}
MCSymmetry == Permutations(MCPubs2) \cup Permutations(MCSubs)
==============================================================================

---------------------------- MODULE MCClientMsgs -----------------------------
(* The instance of ClientMsgs that TLC checks. *)
EXTENDS ClientMsgs

MCLimits == {[inflight |-> 1, queued |-> 1], [inflight |-> 2, queued |-> 1]}
MCOneInFlight == {[inflight |-> 1, queued |-> 2]}
==============================================================================

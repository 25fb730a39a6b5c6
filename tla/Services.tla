------------------------------- MODULE Services -------------------------------
(***************************************************************************)
(* The two services beside the broker.  They share neither topics nor      *)
(* collections, and run in processes of their own: an instance looks at    *)
(* one of them, and the other takes no step.                               *)
(***************************************************************************)
EXTENDS SmartCloud, PublicData

VARIABLE service   \* the one that is looked at

vars == <<scVars, pdVars, service>>

Init ==
  /\ service \in {"SC", "PD"}
  /\ SCInit /\ PDInit
  \* one initial state for the service that is not looked at
  /\ service = "PD" => sc.tgcfg = Nothing

Next ==
  /\ UNCHANGED service
  /\ \/ service = "SC" /\ SCNext /\ UNCHANGED pdVars
     \/ service = "PD" /\ PDNext /\ UNCHANGED scVars

Fairness == (service = "SC" => SCFairness) /\ (service = "PD" => PDFairness)
Spec == Init /\ [][Next]_vars /\ Fairness

------------------------------------------------------------------------------
(* Properties. *)

\* Each service comes to rest, up and able to do its work: the console does not answer itself
\* for ever (SC/server.js:44, 262), no call is left, and what the collector has scheduled is
\* defined (PD/pdCollector.js:276).
ComesToRest == <>[](service = "SC" => Quiet) /\ <>[](service = "PD" => Up)
==============================================================================

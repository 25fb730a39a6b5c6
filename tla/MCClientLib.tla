----------------------------- MODULE MCClientLib -----------------------------
(* Messages of QoS 1, 2 and 1 behind a window of two, so that a reconnection   *)
(* may find more messages than the window holds, and one from the broker.      *)
EXTENDS ClientLib
CONSTANTS m1, m2, m3, i1

MCOrder == <<m1, m2, m3>>
MCQos == (m1 :> 1) @@ (m2 :> 2) @@ (m3 :> 1)
MCInMid == i1 :> 1
==============================================================================

SPECIFICATION Spec
CONSTANTS
  m1 = m1
  m2 = m2
  m3 = m3
  i1 = i1
  Msg = {m1, m2, m3}
  MsgOrder <- MCOrder
  Qos <- MCQos
  Inbound = {i1}
  InMid <- MCInMid
  max_inflight_messages = 2
  MaxFaults = 2
INVARIANTS TypeOK NeverForgotten WindowHolds TwiceOnlyIfRedone PassedOnce GivesUpOnlyIfLate
CHECK_DEADLOCK FALSE
PROPERTIES Delivered DisconnectEnds

SPECIFICATION Spec
CONSTANTS
  Msgs = {m}
  NoMsg = NoMsg
  MidMax = 2
  MaxStamp = 3
  Limits <- MCOneInFlight
  QueueQos0 = TRUE
INVARIANT InflightWindow

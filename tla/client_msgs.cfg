SPECIFICATION Spec
CONSTANTS
  Msgs = {m}
  NoMsg = NoMsg
  MidMax = 2
  MaxStamp = 3
  Limits <- MCLimits
  QueueQos0 = TRUE
INVARIANTS TypeOK CountsExact HeadInFlight InboundUnique
PROPERTIES PubrecMeansStored AdmissionBounded

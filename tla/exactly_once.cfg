SPECIFICATION DSpec
CONSTANTS
  s1 = s1
  s2 = s2
  p1 = p1
  p2 = p2
  Pubs <- MCPubs
  Subs <- MCSubs
  Msgs <- MCMsgs
  NoMsg = NoMsg
  MidMax = 2
  MaxStamp = 3
  Limits <- MCLimits
  QueueQos0 = FALSE
  InTransit = 2
  MaxLosses = 1
INVARIANT AtMostOnce

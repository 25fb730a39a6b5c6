SPECIFICATION DSpec
CONSTANTS
  s1 = s1
  s2 = s2
  p1 = p1
  p2 = p2
  Pubs <- MCPubs2
  Subs <- MCSubs
  Msgs <- MCMsgs2
  NoMsg = NoMsg
  MidMax = 2
  MaxStamp = 4
  Limits <- MCLimits2
  QueueQos0 = FALSE
  InTransit = 1
  MaxLosses = 2
INVARIANTS LostOnlyIfShared TwiceOnlyIfRedone PassedOnce
SYMMETRY MCSymmetry

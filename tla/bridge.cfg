SPECIFICATION Spec
CONSTANTS
  tin = tin
  tout = tout
  tboth = tboth
  Topic = {tin, tout, tboth}
  In = {tin, tboth}
  Out = {tout, tboth}
  Earlier <- MCEarlier
  AddressCount = 3
  Configs <- MCConfigs
  Threshold = 1
  MaxFaults = 2
  MaxMessages = 1
INVARIANT
  FlowsAsConfigured
PROPERTIES
  NotificationTrue
  Reconnects
CHECK_DEADLOCK FALSE

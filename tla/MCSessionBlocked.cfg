SPECIFICATION FairSpec
CONSTANTS
  ServerVersions <- OnlyV42
  UserVersions <- NoUserVersions
  Unicast = TRUE
  Option = "d"
  CloseWakes = FALSE
  NulTerminated = FALSE
  PlainDescriptions = FALSE
  Unreliable = TRUE
  RequestCap = 1
  PacketCap = 1
  MaxRestarts = 0
PROPERTY
  ShutdownReturns
CHECK_DEADLOCK FALSE

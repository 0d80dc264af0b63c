SPECIFICATION ServedSpec
CONSTANTS
  ServerVersions <- OnlyV42
  UserVersions <- NoUserVersions
  Unicast = FALSE
  Option = "d"
  CloseWakes = TRUE
  NulTerminated = TRUE
  PlainDescriptions = FALSE
  Unreliable = FALSE
  RequestCap = 3
  PacketCap = 3
  MaxRestarts = 0
PROPERTIES
  GetsConnected
  ThreadsEndForCause

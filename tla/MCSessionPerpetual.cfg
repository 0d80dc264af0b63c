SPECIFICATION Spec
CONSTANTS
  ServerVersions <- OnlyV31
  UserVersions <- NoUserVersions
  Unicast = FALSE
  Option = "d"
  CloseWakes = TRUE
  NulTerminated = FALSE
  PlainDescriptions = FALSE
  Unreliable = FALSE
  RequestCap = 1
  PacketCap = 1
  MaxRestarts = 0
INVARIANT
  RunsPerpetually

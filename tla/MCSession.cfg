SPECIFICATION FairSpec
CONSTANTS
  ServerVersions <- OnlyV42
  UserVersions <- OnlyV31
  Unicast = TRUE
  Option = "d"
  CloseWakes = TRUE
  NulTerminated = FALSE
  PlainDescriptions = FALSE
  Unreliable = TRUE
  RequestCap = 1
  PacketCap = 2
  MaxRestarts = 1
INVARIANTS
  SessionInv
  SingleVersionWriter
  ChangeRequestsAreNegotiated
  DivergesOnlyByRequest
PROPERTIES
  ImplementsNegotiatedVersion
  ShutdownReturns
  KeepsAlive

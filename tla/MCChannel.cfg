SPECIFICATION FairSpec
CONSTANTS
  Versions <- ThreeVersions
  ServerVersion <- V41
  UserVersions <- KeyVersions
  Editing = FALSE
  Lengths <- FrameLengths
  BaseDataBytes = 49152
  MaxPacketSize = 100000
  MaxCommands = 4
  MaxMulticastCommands = 2
  MaxUnordered = 3
  InCap <- TwoAndOne
INVARIANTS
  ChannelInv
  AnswersAreOwn
  StaleTextHarmless
  VersionFollowsServer
  WrongVersionOnlyInChange
  FewFramesTooLong
PROPERTIES
  NegotiatesUntilLate
  SkippingEndsForCause
  SkippingEnds

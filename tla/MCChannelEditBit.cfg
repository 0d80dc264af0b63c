SPECIFICATION Spec
CONSTANTS
  Versions <- ThreeVersions
  ServerVersion <- V41
  UserVersions <- KeyVersions
  Editing = TRUE
  Lengths <- FrameLengths
  BaseDataBytes = 49152
  MaxPacketSize = 100000
  MaxCommands = 3
  MaxMulticastCommands = 2
  MaxUnordered = 0
  InCap <- TwoAndOne
PROPERTY
  OnlyAnnouncedChangeEndsSkipping

SPECIFICATION FairSpec
CONSTANTS
  Versions = {v30, v41}
  ServerVersion = v41
  NoVersion = NoVersion
  Application = Application
  Nothing = Nothing
  MaxFrames = 4
  SocketCap = 2
INVARIANT
  ReaderInv
PROPERTIES
  OnlyKnownMisreadings
  ImplementsFeed
  GetsToFrames
  ReadsOn
CHECK_DEADLOCK FALSE

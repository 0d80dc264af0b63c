SPECIFICATION Spec
CONSTANTS
  multicaster = multicaster
  unicaster = unicaster
  third = third
  legacy = legacy
  None = None
  Nowhere = Nowhere
  Servers <- AllServers
  Legacy <- OneLegacy
  Multicasting <- OneMulticasting
  HotkeyCount = 2
INVARIANTS
  KeyConnectsToThatServer

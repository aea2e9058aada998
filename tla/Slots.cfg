CONSTANTS
  SlotCount = 2
  Racks <- MCRacks
  Settings <- MCSettings
  Maps <- MCMaps
  Unknown = Unknown
  CmdCap = 2
  LateCmds = 0
SPECIFICATION Spec
INVARIANTS MutedOnlyByLoss
PROPERTIES SetUnderMute EnabledReceive ImplementsFollower RetryEnds

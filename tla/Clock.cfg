SPECIFICATION Spec
CONSTANTS
  PPQ = 3
  Song = 3
  Tempo = {40, 60}
  Threshold = 1
  BufferMs = 3000
  BufferTicks = 2
  ChannelCap = 2
INVARIANT StopRewinds
PROPERTIES PulsesUnbroken NewTempoHasGap ClockRuns

CONSTANTS
  Inputs = {p1}
  Outputs = {o1}
  EventOutputs = {e1}
  Values = {v0, v1}
  Default = v0
  SafeRestore = TRUE
  HasControlIn = TRUE
  PluginUi = TRUE
  Backend = "portaudio"
  RingBytes = 36
  EvbufSlots = 1
  UpdateFrames = 1
  MaxSysEvents = 0
  MaxOps = 2
SPECIFICATION Spec
INVARIANTS LastValueWins ReadsWithinRings

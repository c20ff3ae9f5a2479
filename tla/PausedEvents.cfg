CONSTANTS
  Inputs = {p1}
  Outputs = {}
  EventOutputs = {}
  Values = {v0, v1}
  Default = v0
  SafeRestore = FALSE
  HasControlIn = TRUE
  PluginUi = FALSE
  Backend = "portaudio"
  RingBytes = 200
  EvbufSlots = 2
  UpdateFrames = 0
  MaxSysEvents = 0
  MaxOps = 4
SPECIFICATION Spec
INVARIANT EventsConserved

CONSTANTS
  Inputs = {p1}
  Outputs = {}
  EventOutputs = {}
  Values = {v0, v1}
  Default = v0
  SafeRestore = FALSE
  HasControlIn = TRUE
  PluginUi = FALSE
  Backend = "jack"
  RingBytes = 200
  EvbufSlots = 2
  UpdateFrames = 0
  MaxSysEvents = 0
  MaxOps = 2
SPECIFICATION Spec
INVARIANT RestoreExcludesRun

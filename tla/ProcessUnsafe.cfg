CONSTANTS
  Inputs = {p1}
  Outputs = {}
  EventOutputs = {}
  Values = {v0, v1}
  Default = v0
  SafeRestore = FALSE
  HasControlIn = TRUE
  PluginUi = TRUE
  Backend = "jack"
  RingBytes = 44
  EvbufSlots = 2
  UpdateFrames = 0
  MaxSysEvents = 0
  MaxOps = 4
SPECIFICATION Spec
INVARIANTS TypeOK PauseHeld PausedIsFresh OneRunStateChange Interlock EventsConserved
PROPERTIES GateSpec PauseAnswered ResumeHonoured

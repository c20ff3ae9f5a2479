\* Every plugin of MCPanel in every frontend.
SPECIFICATION Spec
CONSTANTS
  Plugins <- AllPlugins
  Frontends = {"console", "gtk", "qt"}
  Symbol = {1, 2, 3, 4}
  Lengths = {0, 7, 9, 12}
  MaxLost = 1
INVARIANTS
  TypeOK
  IndexSorted
  ControlsMatch
  InSync
  StorageKept
  WindowTellsPreset
PROPERTIES
  IdsStable
  WritesMeant
\* A plugin with a port of unknown kind is not opened, and what is undefined
\* ends the run.
CHECK_DEADLOCK FALSE

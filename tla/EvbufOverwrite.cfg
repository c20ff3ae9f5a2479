CONSTANTS
  Capacity = 96
  Sizes = {8}
  Types = {t1, t2}
  MayOverwrite = TRUE
  SizeMod = 1000000
SPECIFICATION Spec
INVARIANT ReadsWhatWasWritten

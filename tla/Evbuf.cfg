CONSTANTS
  Capacity = 72
  Sizes = {0, 3, 20}
  Types = {t1, t2}
  MayOverwrite = FALSE
  SizeMod = 1000000
SPECIFICATION Spec
INVARIANTS TypeOK ReadsWhatWasWritten WithinCapacity

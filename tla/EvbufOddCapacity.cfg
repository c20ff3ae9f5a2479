CONSTANTS
  Capacity = 44
  Sizes = {0, 12}
  Types = {t1, t2}
  MayOverwrite = FALSE
  SizeMod = 1000000
SPECIFICATION Spec
INVARIANT WithinCapacity

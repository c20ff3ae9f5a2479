\* Every frontend, backend and plugin with one size change at a time.
SPECIFICATION Spec
CONSTANTS
  Frontends = {"console", "gtk", "qt", "internal"}
  Backends = {"jack", "portaudio"}
  Sizes = {1, 2}
  MaxPosts = 2
INVARIANTS
  TypeOK
  KnownMisuse
  ThreadsHaveMemory
  BuffersFit
  NothingLeft
PROPERTIES
  QuietRelease
  MadeAndFreedInOrder
  EndsWhenAsked
\* A program that has ended, or misused memory, stops.
CHECK_DEADLOCK FALSE

CONSTANTS
  PAGE = 2097152
  SMALL_CUTOFF = 65536
  OS_PAGE = 4096
  WORD_BITS = 30
  Sizes <- MCSizesWrap
  Bases <- MCBases
  MaxLive = 3
SPECIFICATION Spec
INVARIANT ClientBytesMapped
\* The process stops only when carve fails and expect() panics.
CHECK_DEADLOCK FALSE

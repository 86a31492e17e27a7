CONSTANTS
  MULTIPLE = 16
  SMALL_CUTOFF = 65536
  SMALL_PAGE = 262144
  PAGE = 2097152
  START = 8
  N_CLASSES = 25
  WORD_CLASS = TRUE
  WORD_BITS = 30
  NONE = NONE
  OS_PAGE = 4096
  Handles = {h1, h2}
  Root = h1
  ObjsPerClass = 2
  NLarge = 1
  ReqSizes <- MCReqSizesWrap
  Aligns = {64}
  LARGE = LARGE
SPECIFICATION Spec
INVARIANT LiveObjectFits
\* The program stops using the family once it has dropped every handle.
CHECK_DEADLOCK FALSE

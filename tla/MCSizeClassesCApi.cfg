CONSTANTS
  MULTIPLE = 16
  SMALL_CUTOFF = 65536
  SMALL_PAGE = 262144
  PAGE = 2097152
  START = 8
  N_CLASSES = 25
  WORD_CLASS = FALSE
  WORD_BITS = 30
  Requests <- MCRequests
  NONE = NONE
SPECIFICATION Spec

INVARIANT GetIsSmallestFit


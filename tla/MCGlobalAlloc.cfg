CONSTANTS
  MULTIPLE = 16
  SMALL_CUTOFF = 65536
  SMALL_PAGE = 262144
  PAGE = 2097152
  START = 8
  N_CLASSES = 25
  WORD_CLASS = TRUE
  WORD_BITS = 30
  NONE = NONE
  OS_PAGE = 4096
  Handles = {r, w, g1, g2, g3}
  Root = r
  ObjsPerClass = 1
  NLarge = 1
  ReqSizes <- MCReqSizes
  Aligns = {8, 64}
  LARGE = LARGE
  Threads = {t1, t2}
  MaxDtorRuns = 2
  WorkerHandle = w
SPECIFICATION GSpec
SYMMETRY MCSymmetry
INVARIANT GTypeOK
INVARIANT ObjectsExclusiveG
INVARIANT RetiredOnce
INVARIANT NoUseAfterDrop
PROPERTY ImplementsMalloc

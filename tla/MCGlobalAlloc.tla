--------------------------- MODULE MCGlobalAlloc ---------------------------
EXTENDS GlobalAlloc, TLC

\* A Multiples class reached by rounding (24 -> 32) and one size past
\* max_size, so that both the slab and the large_alloc paths are taken.
MCReqSizes == {24, 1048577}

\* The handles other than ELF_HEAP's and the worker's are interchangeable identities.
MCSymmetry == Permutations(Handles \ {Root, WorkerHandle}) \cup Permutations(Threads)
=============================================================================

---------------------------- MODULE MCLargeAlloc ----------------------------
EXTENDS LargeAlloc

KiB == 1024
MiB == 1024 * KiB

\* Just above max_size (1 MiB), a size that is no multiple of the carve
\* unit, and the 4 MiB request of the layout_lookup test.
MCSizesAll == {MiB + 1, 4 * MiB}
\* Sizes whose region is a whole number of SMALL_CUTOFF pages.
MCSizesWhole == {MiB, 4 * MiB}

\* With a request just below usize::MAX - ELFMALLOC_PAGE_SIZE + 1, the
\* region size wraps to 1 byte.
MCSizesWrap == {MiB + 1, 2^WORD_BITS - PAGE + 1}

\* Map addresses: 2 MiB-aligned, one carve unit past it, one just below the
\* next 2 MiB boundary, spread over a 16 MiB address space.
MCBases == {1 * MiB, 2 * MiB, 2 * MiB + 64 * KiB, 8 * MiB - 64 * KiB, 10 * MiB}
=============================================================================

---------------------------- MODULE MCElfMalloc ----------------------------
EXTENDS ElfMalloc

\* A Multiples class reached by rounding (24 -> 32), the first BigSlag
\* class (64 KiB, 2 MiB pages) and one size past max_size (large_alloc).
MCReqSizes == {24, 65536, 1048577}

\* A request just above half the usize range: next_power_of_two overflows.
MCReqSizesWrap == {24, 2^(WORD_BITS - 1) + 1}
=============================================================================

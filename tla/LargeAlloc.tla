----------------------------- MODULE LargeAlloc -----------------------------
(***************************************************************************)
(* elfmalloc's large_alloc module (src/elfmalloc/src/general.rs): objects  *)
(* above the largest size class are mapped directly, with one extra       *)
(* ELFMALLOC_PAGE_SIZE of padding below the returned pointer that holds   *)
(* an AllocInfo header at round_to_page(ptr - 1).  The state is the       *)
(* process address space as the OS sees it (mapped intervals), the        *)
(* headers written in it, and the pointers the clients hold.              *)
(***************************************************************************)
EXTENDS Integers, FiniteSets

CONSTANTS
  PAGE,           \* ELFMALLOC_PAGE_SIZE (2 MiB)
  SMALL_CUTOFF,   \* ELFMALLOC_SMALL_CUTOFF (64 KiB), MmapSource page size
  OS_PAGE,        \* mmap::page_size(): munmap works in these units
  WORD_BITS,      \* width of usize: size + PAGE and get_size wrap at 2^WORD_BITS
  Sizes,          \* request sizes (all above the largest size class)
  Bases,          \* SMALL_CUTOFF-aligned addresses the OS may map at
  MaxLive         \* bound on simultaneously live large objects

ASSUME /\ \A s \in Sizes : 0 <= s /\ s < 2^WORD_BITS
       /\ \A b \in Bases : b % SMALL_CUTOFF = 0
       /\ PAGE % SMALL_CUTOFF = 0 /\ SMALL_CUTOFF % OS_PAGE = 0

VARIABLES
  mapped,   \* set of [lo, hi) address intervals currently mapped
  headers,  \* AllocInfo records in memory: [at, ty, base, region_size]
  live,     \* pointers returned to clients: [ptr, size]
  aborted   \* the process panicked: "[lage_alloc::alloc] mmap failed"

vars == <<mapped, headers, live, aborted>>

Interval(lo, hi) == [lo |-> lo, hi |-> hi]
Overlaps(i, j) == i.lo < j.hi /\ j.lo < i.hi
InMapped(a) == \E i \in mapped : i.lo <= a /\ a < i.hi

\* Faulty variant of round_to_page: masks with the small page size.
RoundToSmallPage(a) == a - (a % SMALL_CUTOFF)

\* round_to_page: clear the low bits of an address.
RoundToPage(a) == a - (a % PAGE)

\* Faulty variant of get_commitment_mut: round_to_page(item), without - 1.
GetCommitmentMutNoDec(item) == RoundToPage(item)

\* get_commitment_mut / get_type: the slot of a pointer's AllocInfo.
GetCommitmentMut(item) == RoundToPage(item - 1)

\* The header at an address; memory the OS maps fresh reads as zeros.
HeaderAt(a) ==
  IF \E h \in headers : h.at = a
  THEN CHOOSE h \in headers : h.at = a
  ELSE [at |-> a, ty |-> "Zero", base |-> 0, region_size |-> 0]

\* get_commitment: (region_size, base) read through the header slot.
GetCommitment(item) ==
  LET h == HeaderAt(GetCommitmentMut(item)) IN <<h.region_size, h.base>>

\* usize arithmetic (overflow wraps in release builds).
Usize(x) == x % 2^WORD_BITS

\* get_size: the request size, recovered from the header.
GetSize(item) == Usize(GetCommitment(item)[1] - PAGE)

\* Faulty variant of n_pages: the partial last page dropped.
NPagesFloor(region_size) == region_size \div SMALL_CUTOFF

\* The number of SMALL_CUTOFF pages carved for a region (ceil division).
NPages(region_size) ==
  region_size \div SMALL_CUTOFF + (IF region_size % SMALL_CUTOFF = 0 THEN 0 ELSE 1)

\* munmap(base, len) releases whole OS pages: [base, base + ceil(len)).
\* Each mapped interval keeps its parts below and above the cut.
Unmap(base, len) ==
  LET hi == base + ((len + OS_PAGE - 1) \div OS_PAGE) * OS_PAGE
      Below(i) == Interval(i.lo, IF i.hi < base THEN i.hi ELSE base)
      Above(i) == Interval(IF i.lo > hi THEN i.lo ELSE hi, i.hi)
  IN /\ mapped' = { p \in UNION { {Below(i), Above(i)} : i \in mapped } : p.lo < p.hi }
     /\ headers' = { h \in headers : h.at < base \/ h.at >= hi }

\* large_alloc::alloc: carve ceil(region / SMALL_CUTOFF) pages at some free
\* SMALL_CUTOFF-aligned base, write the AllocInfo at get_commitment_mut(res)
\* and return res = base + PAGE.  When the OS has no room, carve fails and
\* expect() panics; when the AllocInfo slot is not mapped (a wrapped, tiny
\* region), the write faults.  Both end the process.
Alloc(size) ==
  LET region_size == Usize(size + PAGE)
      len == NPages(region_size) * SMALL_CUTOFF
      Fits(mem) == \A i \in mapped : ~Overlaps(i, Interval(mem, mem + len))
  IN /\ ~aborted
     /\ Cardinality(live) < MaxLive
     /\ \/ \E mem \in Bases :
          LET res == mem + PAGE
              at == GetCommitmentMut(res)
              carved == mapped \cup {Interval(mem, mem + len)}
          IN /\ Fits(mem)
             /\ mapped' = carved
             /\ IF \E i \in carved : i.lo <= at /\ at < i.hi
                THEN /\ headers' = { h \in headers : h.at # at }
                                   \cup {[at |-> at, ty |-> "Large",
                                          base |-> mem, region_size |-> region_size]}
                     /\ live' = live \cup {[ptr |-> res, size |-> size]}
                     /\ UNCHANGED aborted
                ELSE /\ aborted' = TRUE
                     /\ UNCHANGED <<headers, live>>
        \/ /\ \A mem \in Bases : ~Fits(mem)
           /\ aborted' = TRUE
           /\ UNCHANGED <<mapped, headers, live>>

\* large_alloc::free of a live pointer: read the header, skip an all-zero
\* one, unmap [base, base + region_size).
Free(p) ==
  LET c == GetCommitment(p.ptr) IN
  /\ ~aborted
  /\ live' = live \ {p}
  /\ UNCHANGED aborted
  /\ IF c[1] = 0 /\ c[2] = 0
     THEN UNCHANGED <<mapped, headers>>
     ELSE Unmap(c[2], c[1])

Init == mapped = {} /\ headers = {} /\ live = {} /\ aborted = FALSE

Next ==
  \/ \E s \in Sizes : Alloc(s)
  \/ \E p \in live : Free(p)

Spec == Init /\ [][Next]_vars

-----------------------------------------------------------------------------
TypeOK ==
  /\ \A i \in mapped : i.lo < i.hi
  /\ \A h \in headers : h.ty = "Large" /\ h.at % PAGE = 0
  /\ \A p \in live : p.size \in Sizes /\ p.ptr % SMALL_CUTOFF = 0

(* Every live large pointer leads back to its own mapping: the slot at     *)
(* round_to_page(p - 1) is mapped, holds a Large AllocInfo whose base and  *)
(* region_size describe p's mapping, lies in the padding below p (so the   *)
(* client's writes never touch it) and get_size(p) is the request size.    *)
(* free, layout_of and the tag dispatch of free all read this slot.        *)
HeaderRecoverable ==
  \A p \in live :
    LET at == GetCommitmentMut(p.ptr)
        h == HeaderAt(at)
    IN /\ h.ty = "Large" /\ InMapped(at)
       /\ h.base <= at /\ at < p.ptr
       /\ h.base + PAGE = p.ptr
       /\ GetSize(p.ptr) = p.size

(* The bytes a client may use lie in one mapping: alloc(size) carves at    *)
(* least the header page and size bytes above its base.  Depends on       *)
(* n_pages rounding up and on size + ELFMALLOC_PAGE_SIZE not wrapping, and *)
(* on no free of another pointer unmapping part of this one.              *)
ClientBytesMapped ==
  \A p \in live : \E i \in mapped : i.lo <= p.ptr /\ p.ptr + p.size <= i.hi

(* free gives back everything alloc mapped: every mapped address belongs  *)
(* to the mapping of a live large object.                                 *)
NoLeakedMapping ==
  \A i \in mapped : \A a \in {i.lo, i.hi - 1} :
    \E p \in live : p.ptr - PAGE <= a /\ a < p.ptr - PAGE + NPages(p.size + PAGE) * SMALL_CUTOFF
=============================================================================

------------------------------ MODULE ElfMalloc ------------------------------
(***************************************************************************)
(* One allocator family of elfmalloc (src/elfmalloc/src/general.rs): an   *)
(* ElfMalloc / DynamicAllocator and its clones.  Clones share the page     *)
(* sources (the pool of free slab objects and large mappings) and each    *)
(* owns one cache per size class.  alloc picks the class with the         *)
(* size-class map (module SizeClasses, as built by init); free finds the  *)
(* object's slag through get_page_size and the 2 MiB tag and returns the  *)
(* object to the cache of the slag's object_size; realloc composes        *)
(* layout, alloc and free.  Objects are abstract: a class, an index and   *)
(* whether the object happens to sit on a SMALL_CUTOFF boundary.  Large   *)
(* objects stand for the mappings of module LargeAlloc.                   *)
(***************************************************************************)
EXTENDS Integers, FiniteSets

CONSTANTS
  MULTIPLE, SMALL_CUTOFF, SMALL_PAGE, PAGE, START, N_CLASSES, WORD_CLASS,
  WORD_BITS, NONE,
  OS_PAGE,        \* mmap::page_size(), the alignment layout_of reports for Large
  Handles,        \* identities of the family's ElfMalloc values (clones)
  Root,           \* the handle ElfMalloc::new() created
  ObjsPerClass,   \* slab objects per size class in the model
  NLarge,         \* large mappings in the model
  ReqSizes,       \* sizes passed to alloc and realloc
  Aligns,         \* alignments passed to aligned_realloc
  LARGE           \* model value: the class of a large_alloc mapping

ASSUME Root \in Handles /\ ObjsPerClass >= 1 /\ NLarge >= 1

\* The map as TieredSizeClasses::init builds it.
LOCAL Shape == INSTANCE SizeClasses WITH
  small_objs <- <<>>, medium_objs <- <<>>, word_objs <- NONE,
  metadata <- <<>>, query <- NONE, Requests <- ReqSizes
SmallArr == [i \in 1..Shape!NSmall |-> Shape!MultStart + (i - 1) * MULTIPLE]
MediumArr == [i \in 1..Shape!NMedium |-> Shape!PowStart * 2^(i - 1)]
WordObj == IF WORD_CLASS THEN Shape!WORD_SIZE ELSE NONE
Map == INSTANCE SizeClasses WITH
  small_objs <- SmallArr, medium_objs <- MediumArr, word_objs <- WordObj,
  metadata <- <<>>, query <- NONE, Requests <- ReqSizes

WORD == Map!WORD_SIZE          \* mem::size_of::<usize>()
MaxSize == Map!MaxKey          \* ElfMalloc.max_size = am.max_key()
NextPow2(n) == Map!NextPowerOfTwo(n)
IsPow2(n) == n > 0 /\ NextPow2(n) = n

\* allocs.get(n): the class of a request up to max_size.
ClassFor(n) == Map!ClassIn(Map!GetRaw(n), SmallArr, MediumArr, WordObj)

\* Every size alloc can be asked for here, realloc's rounding included.
AllocSizes == {n \in ReqSizes \cup {NextPow2(m) : m \in ReqSizes} : n <= MaxSize}
Classes == {ClassFor(n) : n \in AllocSizes}

\* Slab objects: objects of classes at or above SMALL_CUTOFF sit on their
\* size (I3); a smaller object may or may not fall on a SMALL_CUTOFF boundary.
SlabObjs == {[cls |-> c, k |-> k, aligned |-> (c >= SMALL_CUTOFF \/ k = 1)] :
               c \in Classes, k \in 1..ObjsPerClass}
LargeObjs == {[cls |-> LARGE, k |-> k, aligned |-> TRUE] : k \in 1..NLarge}
Objs == SlabObjs \cup LargeObjs

\* The AllocType stamped at round_to_page(p - 1), and the slag's page size,
\* as new_internal's Metadata gives them (size < SMALL_CUTOFF: small pages).
GetType(o) == IF o.cls = LARGE THEN "Large" ELSE Map!ClassMeta(o.cls).ty
SlagPage(o) == Map!ClassMeta(o.cls).page

VARIABLES
  alive,   \* handles not yet dropped
  used,    \* handles ever created (a clone gets a fresh identity)
  cache,   \* cache[h][c]: free objects held by h's ObjectAlloc of class c
  pool,    \* free objects in the shared page sources / unmapped large ids
  live     \* allocations held by clients: [obj, cap, req, align]

vars == <<alive, used, cache, pool, live>>

\* A fresh ObjectAlloc per class (new_internal's callback, and clone's).
EmptyCaches == [c \in Classes |-> {}]

\* allocs.foreach: every class of h's map, word class, multiples and powers.
Cached(h) == UNION {cache[h][c] : c \in Classes}

\* Faulty variant of get_page_size: every slag taken to use 2 MiB pages.
GetPageSizeBig(o) == IF GetType(o) = "Large" THEN NONE ELSE PAGE

\* get_page_size: not SMALL_CUTOFF-aligned means a small slag; otherwise
\* the tag decides, and Large means "no page size".
GetPageSize(o) ==
  IF ~o.aligned THEN SMALL_PAGE
  ELSE CASE GetType(o) = "SmallSlag" -> SMALL_PAGE
         [] GetType(o) = "BigSlag"   -> PAGE
         [] GetType(o) = "Large"     -> NONE

\* Slag::find(item, page_size).get_metadata().object_size: the object's own
\* class when the page size is its slag's; a header read from the wrong
\* page yields any class.
SlagObjectSizes(o, ps) == IF ps = SlagPage(o) THEN {o.cls} ELSE Classes

\* Where free sends an object: the cache of allocs.get(object_size), or
\* large_alloc::free.
FreeTargets(o) ==
  IF GetPageSize(o) = NONE THEN {LARGE}
  ELSE {ClassFor(s) : s \in SlagObjectSizes(o, GetPageSize(o))}

\* The objects allocs.get(n).alloc() / large_alloc::alloc can hand out to h:
\* the class cache first, a refill from the page source when it is empty.
AllocChoices(h, n) ==
  IF n <= MaxSize
  THEN IF cache[h][ClassFor(n)] # {} THEN cache[h][ClassFor(n)]
       ELSE {o \in pool : o.cls = ClassFor(n)}
  ELSE {o \in pool : o.cls = LARGE}

\* The cache and pool once h has handed out o.
TakeCache(cch, h, o) == [cch EXCEPT ![h] = [c \in Classes |-> cch[h][c] \ {o}]]

\* Faulty variant of free's dispatch: a Large object kept in the caches.
FreeCacheLargeToSlab(cch, h, o, t) ==
  IF t = LARGE THEN [cch EXCEPT ![h] = [c \in Classes |-> cch[h][c] \cup {o}]]
  ELSE [cch EXCEPT ![h][t] = @ \cup {o}]

\* The cache and pool once h's free has sent o to target t.
FreeCache(cch, h, o, t) == IF t = LARGE THEN cch ELSE [cch EXCEPT ![h][t] = @ \cup {o}]
FreePool(pl, o, t) == IF t = LARGE THEN pl \cup {o} ELSE pl

\* A new live allocation: cap is the class, or for Large the size that
\* get_size reads back from the AllocInfo.
Allocation(o, n, req, align) ==
  [obj |-> o, cap |-> IF o.cls = LARGE THEN n ELSE o.cls, req |-> req, align |-> align]

\* elfmalloc_get_layout: (object_size, object_size if a power of two else
\* word) for slags, (get_size, page size) for Large.
Layout(p) ==
  IF p.obj.cls = LARGE THEN <<p.cap, OS_PAGE>>
  ELSE <<p.obj.cls, IF IsPow2(p.obj.cls) THEN p.obj.cls ELSE WORD>>

-----------------------------------------------------------------------------
\* ElfMalloc::alloc on handle h (the handle's caches, the sources, live).
AllocOp(h, n) ==
  \E o \in AllocChoices(h, n) :
    /\ cache' = TakeCache(cache, h, o)
    /\ pool' = pool \ {o}
    /\ live' = live \cup {Allocation(o, n, n, WORD)}

\* ElfMalloc::free of the object o by handle h.
FreeObjOp(h, o) ==
  \E t \in FreeTargets(o) :
    /\ cache' = FreeCache(cache, h, o, t)
    /\ pool' = FreePool(pool, o, t)

\* Faulty variant of free: the object goes back but the pointer stays live.
FreeOpKeepLive(h, p) == FreeObjOp(h, p.obj) /\ UNCHANGED live

FreeOp(h, p) == FreeObjOp(h, p.obj) /\ live' = live \ {p}

\* ElfMalloc::realloc on a null pointer: alloc, rounded to a power of two
\* when the alignment is above the word size.
ReallocNullOp(h, n, a) ==
  LET alloc_size == IF a <= WORD THEN n ELSE NextPow2(n) IN
  \E o \in AllocChoices(h, alloc_size) :
    /\ cache' = TakeCache(cache, h, o)
    /\ pool' = pool \ {o}
    /\ live' = live \cup {Allocation(o, alloc_size, n, a)}

\* ElfMalloc::realloc on a live pointer: size 0 frees; a layout that already
\* fits returns the pointer; otherwise alloc, copy, free the old object.
ReallocOp(h, p, n, a) ==
  LET old == Layout(p)
      new_size == IF a > WORD THEN NextPow2(n) ELSE n
  IN
  \/ /\ n = 0
     /\ FreeOp(h, p)
  \/ /\ n # 0
     /\ old[2] >= a /\ old[1] >= n
     /\ live' = (live \ {p}) \cup {[p EXCEPT !.req = n, !.align = a]}
     /\ UNCHANGED <<cache, pool>>
  \/ /\ n # 0
     /\ ~(old[2] >= a /\ old[1] >= n)
     /\ \E o \in AllocChoices(h, new_size), t \in FreeTargets(p.obj) :
          /\ cache' = FreeCache(TakeCache(cache, h, o), h, p.obj, t)
          /\ pool' = FreePool(pool \ {o}, p.obj, t)
          /\ live' = (live \ {p}) \cup {Allocation(o, new_size, n, a)}

\* Faulty variant of drop: the caches' objects are returned but the caches
\* still hold them.
DropOpKeepCache(h) ==
  /\ pool' = pool \cup Cached(h)
  /\ UNCHANGED cache

\* DynamicAllocator::drop: drop_in_place every class cache, which returns
\* its objects to the page sources; live objects are untouched.
DropOp(h) ==
  /\ pool' = pool \cup Cached(h)
  /\ cache' = [cache EXCEPT ![h] = EmptyCaches]

\* The operations on a handle of the family that has not been dropped.
Alloc(h, n) == h \in alive /\ AllocOp(h, n) /\ UNCHANGED <<alive, used>>
Free(h, p) == h \in alive /\ FreeOp(h, p) /\ UNCHANGED <<alive, used>>
ReallocNull(h, n, a) == h \in alive /\ ReallocNullOp(h, n, a) /\ UNCHANGED <<alive, used>>
Realloc(h, p, n, a) == h \in alive /\ ReallocOp(h, p, n, a) /\ UNCHANGED <<alive, used>>

\* ElfMalloc::clone: a fresh map of empty caches over the shared sources.
Clone(h, g) ==
  /\ h \in alive
  /\ g \notin used
  /\ alive' = alive \cup {g}
  /\ used' = used \cup {g}
  /\ cache' = [cache EXCEPT ![g] = EmptyCaches]
  /\ UNCHANGED <<pool, live>>

\* Dropping a handle of the family.
Drop(h) ==
  /\ h \in alive
  /\ alive' = alive \ {h}
  /\ DropOp(h)
  /\ UNCHANGED <<used, live>>

Init ==
  /\ alive = {Root} /\ used = {Root}
  /\ cache = [h \in Handles |-> EmptyCaches]
  /\ pool = Objs
  /\ live = {}

Next ==
  \/ \E h \in Handles, n \in ReqSizes : Alloc(h, n)
  \/ \E h \in Handles, p \in live : Free(h, p)
  \/ \E h \in Handles, n \in ReqSizes, a \in Aligns : ReallocNull(h, n, a)
  \/ \E h \in Handles, p \in live, n \in ReqSizes \cup {0}, a \in Aligns : Realloc(h, p, n, a)
  \/ \E h, g \in Handles : Clone(h, g)
  \/ \E h \in Handles : Drop(h)

Spec == Init /\ [][Next]_vars

-----------------------------------------------------------------------------
TypeOK ==
  /\ alive \subseteq used /\ used \subseteq Handles
  /\ cache \in [Handles -> [Classes -> SUBSET SlabObjs]]
  /\ pool \subseteq Objs
  /\ \A p \in live : p.obj \in Objs /\ p.req \in ReqSizes /\ p.align \in Aligns \cup {WORD}

\* In how many places an object is: handed out, cached by a handle, or in
\* the page sources.
Holders(o) ==
  Cardinality({p \in live : p.obj = o})
    + Cardinality({hc \in Handles \X Classes : o \in cache[hc[1]][hc[2]]})
    + (IF o \in pool THEN 1 ELSE 0)

(* Every object is in exactly one place: no object is handed out twice,   *)
(* nor handed out while a cache or the page source still holds it, and a  *)
(* drop or clone never loses or duplicates a cached object.               *)
ObjectsExclusive == \A o \in Objs : Holders(o) = 1

(* A pointer a client holds has at least the bytes it asked for, whatever  *)
(* the handles its object went through: alloc's class lookup, free's       *)
(* route through get_page_size, the tag and the slag's object_size back    *)
(* into a class cache, and realloc's in-place check.                      *)
LiveObjectFits == \A p \in live : Layout(p)[1] >= p.req

(* free returns every object to a cache of its own size class: the route  *)
(* through get_page_size (alignment shortcut, then the 2 MiB tag), the     *)
(* slag header read with that page size, and allocs.get(object_size) lands *)
(* on the object's class on every handle, so a later alloc from that cache *)
(* never hands out an object of another size (larger or smaller).         *)
CachesByClass == \A h \in Handles, c \in Classes : \A o \in cache[h][c] : o.cls = c

(* aligned_realloc(p, n, a) returns memory whose layout has an alignment   *)
(* of at least a.                                                         *)
ReallocAligned == \A p \in live : Layout(p)[2] >= p.align
-----------------------------------------------------------------------------
\* The refinement mapping: the blocks clients hold are the live pointers,
\* with the size their layout reports.
Held == {[blk |-> p.obj, cap |-> Layout(p)[1], req |-> p.req] : p \in live}
BlockCaps == Classes \cup ReqSizes \cup {NextPow2(m) : m \in ReqSizes}
ABS == INSTANCE Malloc WITH Blocks <- Objs, Caps <- BlockCaps, Sizes <- ReqSizes, held <- Held

(* The family implements the abstract allocator: each client-visible step  *)
(* (alloc, free, realloc on any handle) is one abstract alloc, free,       *)
(* resize-in-place or move, never handing out a block a client still      *)
(* holds and always with room; cache refills, frees into another handle's  *)
(* cache, clones and drops are invisible to clients.                      *)
ImplementsMalloc == ABS!Spec
=============================================================================

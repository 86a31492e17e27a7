---------------------------- MODULE SizeClasses ----------------------------
(***************************************************************************)
(* The size-class map of elfmalloc (src/elfmalloc/src/general.rs):        *)
(* TieredSizeClasses = an optional 8-byte word class, a Multiples array   *)
(* (step MULTIPLE) and a PowersOfTwo array.  The state is the map as it   *)
(* is built by AllocMap::init, one class per call of the make callback,   *)
(* together with the Metadata records that ElfMalloc::new_internal's      *)
(* callback writes through its advancing meta_pointer.  Get models        *)
(* get_raw: the index arithmetic that finds the class of a request.       *)
(***************************************************************************)
EXTENDS Integers, Sequences, FiniteSets

CONSTANTS
  MULTIPLE,       \* step of the Multiples classes (16)
  SMALL_CUTOFF,   \* ELFMALLOC_SMALL_CUTOFF (64 KiB)
  SMALL_PAGE,     \* ELFMALLOC_SMALL_PAGE_SIZE (256 KiB)
  PAGE,           \* ELFMALLOC_PAGE_SIZE (2 MiB)
  START,          \* start_from passed by ElfMalloc::new (8)
  N_CLASSES,      \* n_classes passed by ElfMalloc::new (25)
  WORD_CLASS,     \* TRUE unless built with c-api on macOS / 64-bit Windows
  WORD_BITS,      \* width of usize in the model (wrapping arithmetic)
  Requests,       \* request sizes handed to get
  NONE            \* model value: Option::None, no query yet

ASSUME /\ MULTIPLE \in {2^k : k \in 1..8}
       /\ START \in Nat /\ N_CLASSES \in 2..40 /\ WORD_CLASS \in BOOLEAN
       /\ Requests \subseteq Nat

USIZE == 2^WORD_BITS

\* Unsigned subtraction as usize computes it in a release build.
USizeSub(a, b) == (a - b) % USIZE

RECURSIVE NextPow2Up(_, _)
NextPow2Up(n, p) == IF p >= n THEN p ELSE NextPow2Up(n, 2 * p)

\* usize::next_power_of_two (next_power_of_two(0) = 1); above the largest
\* power of two it overflows, which a release build wraps to 0.
NextPowerOfTwo(n) == NextPow2Up(n, 1) % USIZE

RECURSIVE TrailingZeros(_)
\* trailing_zeros of a non-zero value.
TrailingZeros(n) == IF n % 2 = 1 THEN 0 ELSE 1 + TrailingZeros(n \div 2)

MinOf(a, b) == IF a <= b THEN a ELSE b

\* Faulty variant of round_up: adds MULTIPLE instead of MULTIPLE - 1.
RoundUpOffByOne(n) == (((n + MULTIPLE) % USIZE) \div MULTIPLE) * MULTIPLE

\* round_up: (n + (MULTIPLE - 1)) & !(MULTIPLE - 1), MULTIPLE a power of two.
RoundUp(n) == (((n + (MULTIPLE - 1)) % USIZE) \div MULTIPLE) * MULTIPLE

\* Shape of the map, as TieredSizeClasses::init_conserve computes it.
NSmall   == MinOf(SMALL_CUTOFF \div MULTIPLE - START \div MULTIPLE, N_CLASSES \div 2)
NMedium  == N_CLASSES - NSmall
MultStart == RoundUp(START)
MultMax  == NSmall * MULTIPLE + MultStart - MULTIPLE
PowStart == NextPowerOfTwo(MultMax + 1)
PowMax   == PowStart * 2^(NMedium - 1)
WORD_SIZE == 8

VARIABLES
  small_objs,    \* Multiples.classes: class sizes, in array order
  medium_objs,   \* PowersOfTwo.classes
  word_objs,     \* word_objs: Some(8) or NONE
  metadata,      \* Metadata records written by new_internal's callback
  query          \* last get: the request and the slot get_raw returned

vars == <<small_objs, medium_objs, word_objs, metadata, query>>

Slot == [arr : {"word", "small", "medium"}, idx : Nat]

\* Faulty variant of the callback: medium classes tagged Large, as if the
\* size test of large_alloc were applied to slab classes.
ClassMetaLargeTag(size) ==
  IF size < SMALL_CUTOFF
  THEN [size |-> size, page |-> SMALL_PAGE, ty |-> "SmallSlag"]
  ELSE [size |-> size, page |-> PAGE, ty |-> "Large"]

\* The Metadata that new_internal's callback computes for a class.
ClassMeta(size) ==
  IF size < SMALL_CUTOFF
  THEN [size |-> size, page |-> SMALL_PAGE, ty |-> "SmallSlag"]
  ELSE [size |-> size, page |-> PAGE, ty |-> "BigSlag"]

\* One call of the make callback: writes *meta_pointer, advances it.
MakeClass(size) == metadata' = Append(metadata, ClassMeta(size))

\* Multiples::init_conserve: one iteration of the loop over classes.
MultiplesInitStep ==
  /\ Len(small_objs) < NSmall
  /\ small_objs' = Append(small_objs, MultStart + Len(small_objs) * MULTIPLE)
  /\ MakeClass(MultStart + Len(small_objs) * MULTIPLE)
  /\ UNCHANGED <<medium_objs, word_objs, query>>

\* PowersOfTwo::init_conserve: cur_size doubles from starting_size.
PowersInitStep ==
  /\ Len(small_objs) = NSmall
  /\ Len(medium_objs) < NMedium
  /\ medium_objs' = Append(medium_objs, PowStart * 2^Len(medium_objs))
  /\ MakeClass(PowStart * 2^Len(medium_objs))
  /\ UNCHANGED <<small_objs, word_objs, query>>

\* `let word_objs = f3(8)`: the word class is made after both arrays.
WordInitStep ==
  /\ WORD_CLASS
  /\ Len(medium_objs) = NMedium
  /\ word_objs = NONE
  /\ word_objs' = WORD_SIZE
  /\ MakeClass(WORD_SIZE)
  /\ UNCHANGED <<small_objs, medium_objs, query>>

Built ==
  /\ Len(small_objs) = NSmall /\ Len(medium_objs) = NMedium
  /\ WORD_CLASS => word_objs # NONE

\* Multiples::get_raw
MultiplesGetRaw(n) == [arr |-> "small", idx |-> USizeSub(RoundUp(n), MultStart) \div MULTIPLE]

\* PowersOfTwo::get_raw
PowersGetRaw(k) ==
  [arr |-> "medium", idx |-> TrailingZeros(NextPowerOfTwo(k)) - TrailingZeros(PowStart)]

\* TieredSizeClasses::get_raw
GetRaw(n) ==
  IF WORD_CLASS /\ n <= WORD_SIZE THEN [arr |-> "word", idx |-> 0]
  ELSE IF n <= MultMax THEN MultiplesGetRaw(n)
  ELSE PowersGetRaw(n)

\* max_key: the medium array's max_size.
MaxKey == PowMax

\* The class a slot refers to in the given arrays (TypedArray::get), or
\* NONE when the index is outside the array.
ClassIn(slot, small, medium, word) ==
  CASE slot.arr = "word"   -> word
    [] slot.arr = "small"  -> IF slot.idx < Len(small) THEN small[slot.idx + 1] ELSE NONE
    [] slot.arr = "medium" -> IF slot.idx < Len(medium) THEN medium[slot.idx + 1] ELSE NONE

ClassAt(slot) == ClassIn(slot, small_objs, medium_objs, word_objs)

AllClasses ==
  {small_objs[i] : i \in DOMAIN small_objs} \cup {medium_objs[i] : i \in DOMAIN medium_objs}
    \cup (IF word_objs = NONE THEN {} ELSE {word_objs})

\* A lookup through the built map (ElfMalloc::alloc calls it for n <= max_size,
\* ElfMalloc::free for the object_size of the slag's Metadata).
Get(n) ==
  /\ Built
  /\ n <= MaxKey
  /\ query' = [req |-> n, slot |-> GetRaw(n)]
  /\ UNCHANGED <<small_objs, medium_objs, word_objs, metadata>>

Init ==
  /\ small_objs = <<>> /\ medium_objs = <<>> /\ word_objs = NONE
  /\ metadata = <<>>
  /\ query = NONE

Next ==
  \/ MultiplesInitStep
  \/ PowersInitStep
  \/ WordInitStep
  \/ \E n \in Requests : Get(n)

Spec == Init /\ [][Next]_vars

-----------------------------------------------------------------------------
TypeOK ==
  /\ small_objs \in Seq(Nat) /\ medium_objs \in Seq(Nat)
  /\ word_objs \in {NONE, WORD_SIZE}
  /\ \A i \in DOMAIN metadata : metadata[i].ty \in {"SmallSlag", "BigSlag"}
  /\ query = NONE \/ (query.req \in Requests /\ query.slot \in Slot)

(* get(n) returns the smallest class that holds n bytes: the slot lies     *)
(* inside its array, its class is at least n and no class in between is   *)
(* skipped.  alloc relies on "at least n" and free, which looks up the     *)
(* slag's object_size, relies on get(c) being class c itself.              *)
GetIsSmallestFit ==
  query # NONE =>
    LET c == ClassAt(query.slot) IN
    /\ c # NONE
    /\ c >= query.req
    /\ \A d \in AllClasses : d >= query.req => d >= c

(* new_internal maps room for n_classes Metadata records and the make      *)
(* callback writes one per call: it never writes past that buffer.         *)
MetadataWithinBuffer == Len(metadata) <= N_CLASSES

=============================================================================

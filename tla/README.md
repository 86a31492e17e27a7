# TLA+ models of elfmalloc's core

These modules model the allocator core in `src/elfmalloc/src/general.rs`:
- the size-class map;
- the allocator instance and its clones;
- the pointer-type tag;
- the large-object path;
- the global `malloc` front-end with its per-thread handles and reclamation worker;
- an abstract allocator (`Malloc`) that the family and the front-end are shown to implement.

They are checked with TLC. `PROJECT.json` lists:
- the components;
- the runs and what each one checks;
- one mutant per checked property;
- the map from each definition to the source lines it translates;
- the findings;
- the hazards.

## 1. Inventory

### Components, state and operations

| Part | Code | State | Operations |
|------|------|-------|------------|
| A. Tag | `round_to_page`, `get_type`, `get_page_size` | an `AllocType` at `round_to_page(p-1)` | read only |
| B. Large path | `mod large_alloc` | OS mappings, `AllocInfo` headers | `alloc`, `free`, `get_size` |
| C. Size-class map | `TieredSizeClasses`, `Multiples`, `PowersOfTwo`, `round_up` | class arrays, `Metadata` buffer | `init_conserve` (one make-callback per class), `get_raw`, `max_key` |
| D. Instance | `ElfMalloc`, `DynamicAllocator` | per-handle class caches, shared page sources | `alloc`, `free`, `realloc`, `clone`, `drop` |
| E. Global front-end | `mod global` | per-thread `LOCAL_ELF_HEAP` slot, `GlobalAllocator.dropped`, the `DESTRUCTOR_CHAN` queue, the worker's `local_alloc` | `alloc`, `free`, `realloc`, `get_layout`, slot destructor, worker loop |

### How they interact

`global::alloc` uses the thread's handle (D). D looks up the class through C, or calls B above
`max_size`.

`free` runs `get_page_size` (A):
- a pointer not aligned to SMALL_CUTOFF is on a small slag;
- otherwise the tag decides.

With the page size, `Slag::find` gives the object size, and C gives the cache. A Large tag sends the pointer to B.

`realloc` composes `get_layout`, `alloc` and `free`. In E, `get_layout` goes through
`with_local_or_clone` again.

When a thread's slot is being initialised or has been destroyed:
- `alloc` goes to B;
- `free` of a slab object is sent to the worker as `Husk::Ptr`;
- `realloc` and `get_layout` run on a transient clone, which is retired to the worker as `Husk::Array`.

The slot's destructor also retires its handle as `Husk::Array`. It is guarded by `dropped`, because the platform has been seen to run it twice.

### What is hard

- Interleavings of thread life cycles with the fallback paths.
- The spurious second destructor.
- Nested transient clones in a fallback `realloc`.
- The worker applying messages after the handle is gone.
- Off-by-one and wrap-around arithmetic in `get_raw` and `round_up`.
- The count of make-callback calls against the `Metadata` buffer.
- The 2 MiB header slot arithmetic of B, and the lengths that `carve` and `unmap` use.

### Properties each component needs

- C: `get` returns the smallest class that fits. `init` writes no more than it mapped.
- B: every live pointer's header is recoverable, and its bytes lie in its mapping, even at the top of the `usize` range. Free releases what alloc mapped.
- D: every object is in exactly one place (client, some cache, page source). Free returns every object to a cache of its own class. Every live pointer fits its request (`LiveObjectFits`, implied by the refinement and checked on its own in `em_wrap`), and realloc honours the alignment. The family implements the abstract allocator.
- E: no handle is retired twice. No handle is used after it is dropped. A live slot's handle is not retired. Every retirement and every Ptr is eventually handled. Small allocations take the slab path. The front-end implements the abstract allocator too.

## 2. Modules

| Module | Models | State | Actions |
|--------|--------|-------|---------|
| `SizeClasses` | C | `small_objs`, `medium_objs`, `word_objs` (class arrays), `metadata` (records written through `meta_pointer`), `query` (last `get_raw`) | `MultiplesInitStep`, `PowersInitStep`, `WordInitStep` (one per callback call, in the code's order), `Get` |
| `LargeAlloc` | B, A's `round_to_page` | `mapped` (address intervals), `headers`, `live`, `aborted` (carve panic, or a fault when the `AllocInfo` write misses every mapping) | `Alloc`, `Free` |
| `ElfMalloc` | D, A | `alive`/`used` handles, `cache[h][class]`, `pool` (page sources and unmapped large ids), `live` | `Alloc`, `Free`, `ReallocNull`, `Realloc`, `Clone`, `Drop` |
| `Malloc` | spec §6, what D and E promise | `held` (blocks clients hold: block, capacity, request) | `Alloc`, `Free`, `Resize`, `Move` |
| `GlobalAlloc` (extends `ElfMalloc`) | E | `tls[t]`, `slot[t]` (= `[inst, dropped]`), `dtor_runs`, `chanq`, `worker`, `spawned` | `TlsInitBegin`, `TlsInitEnd`, `HeapDtor`, `SpuriousHeapDtor`, `TlsAlloc`/`FallbackAlloc`, `TlsFree`/`FallbackFree`, `TlsRealloc`/`FallbackRealloc`, `FallbackGetLayout`, `WorkerStart`, `WorkerRecv` |

`ElfMalloc` instantiates `SizeClasses` with a built map (`Map == INSTANCE SizeClasses WITH ...`), so it uses the same `get_raw` arithmetic. Its operations are written as guard-free fragments (`AllocOp`, `FreeOp`, `ReallocOp`, `DropOp`, ...). `GlobalAlloc` applies them to a thread's slot handle, to a transient clone, and to the worker's handle.

Objects are abstract: a class, an index, and whether the object sits on a SMALL_CUTOFF boundary (always for classes of at least 64 KiB, by I3). A large object in D and E stands for one mapping of B. Where the code would read a slag header with the wrong page size, the model lets the result be any class.

### Refinement

`ElfMalloc` defines `ABS == INSTANCE Malloc WITH held <- Held`, where `Held` is the set of live pointers with the size their layout reports. `ImplementsMalloc == ABS!Spec` is checked as a temporal property:
- every client-visible step is one abstract step: `alloc` is `Alloc`, `free` is `Free`, an in-place `realloc` is `Resize`, and a moving one is `Move`;
- cache refills, frees into another handle's cache, clones, drops, retirement and the worker's steps leave `Held` unchanged, so they are stuttering steps.

`Alloc` and `Move` require a block that no client holds and that has room for the request. So the refinement fails if a pointer is handed out twice, or if any path, including the fallbacks of `GlobalAlloc`, returns less than was asked for. `GlobalAlloc` extends `ElfMalloc`, so `ga_safety` checks the same property over the whole front-end.

`Malloc`'s `Next` draws the witnesses of `Alloc`, `Resize` and `Move` from `held'`. This is equivalent to quantifying over all blocks, capacities and sizes, and it keeps the check fast.

### Word width

`SizeClasses` and `LargeAlloc` compute `usize` arithmetic modulo `2^WORD_BITS` (30 in every cfg), as a release build does:
- `round_up(n) - starting_size` and `next_power_of_two` in `SizeClasses`;
- `size + ELFMALLOC_PAGE_SIZE` and `get_size` in `LargeAlloc`.

The wrap-around runs use sizes at the top of that range.

The thread-local slot semantics of the `alloc-tls` crate are not under `src/`. They are modelled from spec §4.E and §5 (`Available`, `Unavailable`, `TlsInitBegin`), where a call during initialisation takes the fallback.

## 3. Runs

| Run | Checks | Result |
|-----|--------|--------|
| `sc_map` | `TypeOK`, `GetIsSmallestFit` for requests 0..1100 and 2^k-1, 2^k, 2^k+1 (k = 11..20), with the default map (25 classes, start 8, word class) | pass |
| `sc_metadata` | `MetadataWithinBuffer` | violated: 26 writes into a buffer for 25 |
| `sc_capi` | `GetIsSmallestFit` without the word class | violated: `get(0)` gives index 2^26-1 (usize wrap, modelled at 30 bits) |
| `la_header` | `TypeOK`, `HeaderRecoverable`, `ClientBytesMapped` over sizes 1 MiB+1 and 4 MiB at bases aligned and unaligned to 2 MiB, up to 3 live | pass |
| `la_leak` | `NoLeakedMapping` | violated: after freeing 1 MiB+1, 60 KiB stay mapped |
| `la_wrap` | `ClientBytesMapped` with a request of 2^30 - 2 MiB + 1 | violated: `region_size` wraps to 1 and one 64 KiB page is carved. At a 2 MiB-aligned base the `AllocInfo` write lands in that page, and the returned pointer lies 2 MiB past it. At other bases the header write faults (`aborted`). |
| `em_family` | `TypeOK`, `ObjectsExclusive`, `CachesByClass`, `ImplementsMalloc`: two handles, sizes 24, 64 KiB, 1 MiB+1, 2 objects per class, 1 large mapping | pass |
| `em_align` | `ReallocAligned` with alignments 8 and 64 | violated: `realloc(null, 24, 64)` yields a 32-byte class |
| `em_wrap` | `LiveObjectFits` with a request of 2^29 + 1 at alignment 64 | violated: `next_power_of_two` wraps to 0 and `realloc(null, ...)` returns an 8-byte object |
| `ga_safety` | `GTypeOK`, `ObjectsExclusiveG`, `RetiredOnce`, `NoUseAfterDrop`, `ImplementsMalloc`: two threads, three clone identities plus the root and the worker, sizes 24 and 1 MiB+1, alignments 8 and 64, destructor run up to twice; symmetry over threads and clone identities | pass |
| `ga_live` | `RetiredEventuallyDropped`, and `PtrEventuallyFreed` (every object sent as `Husk::Ptr` ends up in a cache of the worker's `local_alloc`). No symmetry; two clone identities. | pass |
| `ga_path` | `AllocPathBySize` | violated: `alloc(24)` while the slot is initialising returns a large mapping |

### Bounds

The size sets hit each branch of `get_raw`, including the rounding case (24 -> 32), the SmallSlag/BigSlag boundary, and the large path. Two objects per class make both cache reuse and pool refill possible. Two threads are enough for one thread to be in its fallback while the other uses its slot. In `GlobalAlloc`, a fallback `realloc` of a live pointer needs two fresh identities, so three clone identities allow, in one behaviour, either both threads' initialisation plus a fallback `get_layout` or `realloc(null)`, or one initialisation plus a nested fallback `realloc`.

In `la_wrap` and `em_wrap`, the request is defined from `WORD_BITS`, at the top of the range. It is the first size past the point where `size + 2 MiB` or `next_power_of_two` overflows, so the wrap shows at any width.

The worker's handle has its own identity (`WorkerHandle`). That way, running out of model identities never blocks the worker, which would be an artifact of the bound and not a liveness failure. In `LargeAlloc`, the bases include a 2 MiB-aligned one (the case where `round_to_page(res - 1)` matters) and an unaligned one. They also include neighbours close enough that a leaked tail blocks a later carve.

### Fairness

Only the worker is fair (`WF` on `WorkerStart` and `WorkerRecv`): it blocks in `recv` and runs whenever a message is queued. Application threads get no fairness, because a thread may stop at any point.

`ga_safety` checks deadlock. `sc_*`, `la_*` and `em_*` set `CHECK_DEADLOCK FALSE`:
- the map stops changing once it is built;
- the large path stops once the OS has no room (the `expect` panic) or a header write faults;
- a family stops once every handle is dropped.

## 4. Plan

Done:
- the four component modules, their passing runs and their mutants;
- the abstract `Malloc` spec, with the refinement checked for `ElfMalloc` and `GlobalAlloc`;
- `usize` wrap-around in `large_alloc::alloc` and in realloc's `next_power_of_two`;
- seven violation runs that record code bugs and divergences from the spec.

Open work, in order:
1. A bounded class cache with a flush to the page source. This would bound the objects the worker's `local_alloc` strands (the hazard at line 261). It needs the front-end cache code, which is not under `src/`.
2. A run for a stale large `free`, once the contract for it is decided (spec §9 open question).

## 5. Not modelled

Every state-changing operation of `general.rs` outside the tests is an action of some module: the size-class map, the large path, an allocator family, and the global front-end with its worker. This includes a standalone fallback `global::get_layout` (`FallbackGetLayout`). There is one exception: `ElfMalloc`'s `ReallocOp`, used on a plain `DynamicAllocator`, leaves out the global side effect of its `global::get_layout` call (line 879). That call may initialise the calling thread's slot or make and retire a transient clone. `GlobalAlloc` models that effect for the front-end's own `realloc`. The alloc-tls slot semantics are modelled from the spec. The rest of the system is either not under `src/` or not reachable by TLC:

- Larger instances. Adding the `max_size` request (1 MiB, the last slab class) to `em_family` adds a class and two objects, and the run then did not finish within 30 minutes. The boundary is still checked at the map level: `sc_map` covers 2^20 - 1, 2^20 and 2^20 + 1.

- `object_alloc` (`src/object_alloc/src/lib.rs`). It holds trait declarations and two stateless adapters: `UntypedObjectAlloc` forwards to `ObjectAlloc`, and `ObjectAlloc` for any `Alloc` maps `AllocErr::Exhausted` to `Exhausted` and panics on `Unsupported`. Nothing in `general.rs` uses these traits; its `ObjectAlloc` is a type alias for the front-end cache. Any property of the adapters would restate one `match` arm.
- A double `free` of a large pointer (hazard at line 976). The second `free` reads its `AllocInfo` from memory that the first one unmapped. Spec §7 leaves this undefined, and spec §9 lists it as an open question. The checked runs keep to the contract, so no run exercises it.
- The slag page allocator, the front-end caches and `mmap`. They are out of the spec's scope and not under `src/`. They are abstracted as the shared pool, the per-handle cache sets, and mapped intervals.
- `Husk::Slag` and `dirty_slag`. They are only used by the `BackgroundDirty` policy, which is not the configured `PA` type.
- `LOCAL_DESTRUCTOR_CHAN` versus the locked `DESTRUCTOR_CHAN` clone. Both send on the same channel, so the model has one FIFO.
- The `DESTRUCTOR_CHAN` mutex. Its lock and the channel's internals are std code, so the model treats each send as atomic.
- Byte contents (P5, payload preservation) and the debug assertions. This includes the `cfg(debug_assertions)` call to `global::get_layout(new_mem)` at the end of `realloc` (line 891), which would make a third transient handle in a fallback `realloc`. The model is of a release build.

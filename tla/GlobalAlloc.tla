----------------------------- MODULE GlobalAlloc -----------------------------
(***************************************************************************)
(* elfmalloc's global malloc front-end (mod global in                     *)
(* src/elfmalloc/src/general.rs).  ELF_HEAP is the family's Root handle;  *)
(* every thread clones it into its LOCAL_ELF_HEAP slot on first use; the  *)
(* slot's destructor (GlobalAllocator::drop) hands the handle to a        *)
(* background worker as Husk::Array instead of dropping it; while the     *)
(* slot is unavailable (being initialised, or already destroyed) alloc    *)
(* goes straight to large_alloc, free either unmaps a Large object or     *)
(* sends Husk::Ptr to the worker, and realloc works on a transient clone. *)
(* The worker drops retired handles and frees Ptr objects with its own    *)
(* handle.  The object and cache state is that of module ElfMalloc.       *)
(***************************************************************************)
EXTENDS ElfMalloc, Sequences

CONSTANTS
  Threads,        \* application threads
  MaxDtorRuns,    \* how often a slot destructor may run (2: spurious rerun)
  WorkerHandle    \* the identity of the worker thread's local_alloc

ASSUME MaxDtorRuns \in 1..2 /\ WorkerHandle \in Handles \ {Root}

VARIABLES
  tls,        \* tls[t]: LOCAL_ELF_HEAP slot state of alloc-tls
  slot,       \* slot[t]: the GlobalAllocator in the slot: [inst, dropped]
  dtor_runs,  \* times the slot destructor has run on t
  chanq,      \* Husk messages sent to DESTRUCTOR_CHAN, not yet received
  worker,     \* the worker's local_alloc handle, NONE before it runs
  spawned     \* DESTRUCTOR_CHAN initialised: the worker thread exists

gvars == <<tls, slot, dtor_runs, chanq, worker, spawned>>
allvars == <<alive, used, cache, pool, live, tls, slot, dtor_runs, chanq, worker, spawned>>

TlsStates == {"Uninitialized", "Initializing", "Initialized", "Dropped"}
NULLP == [obj |-> NONE]

Array(g) == [kind |-> "Array", inst |-> g]
Ptr(o) == [kind |-> "Ptr", obj |-> o]

\* Faulty variant: the slot still yielded after its destructor has run.
AvailableAfterDrop(t) == tls[t] \in {"Initialized", "Dropped"}

\* alloc_tls_fast_with! yields the slot only once it is initialised.
Available(t) == tls[t] = "Initialized"
\* Slot unavailable: the call takes the fallback branch (unwrap_or_else).
Unavailable(t) == tls[t] \in {"Initializing", "Dropped"}
Handle(t) == slot[t].inst

\* Sending on a clone of DESTRUCTOR_CHAN: the first use initialises the
\* lazy_static, which spawns the worker thread.
Send(msgs) == chanq' = chanq \o msgs /\ spawned' = TRUE

\* new_handle(): ELF_HEAP.inner.clone(), a fresh handle of the family.
\* The model keeps one identity apart for the worker's own handle.
Fresh == Handles \ (used \cup {WorkerHandle})
NewHandle(g) == alive' = alive \cup {g} /\ used' = used \cup {g}

-----------------------------------------------------------------------------
\* The first call of a thread: alloc-tls starts initialising the slot and
\* registers its destructor (which itself allocates, re-entering malloc).
TlsInitBegin(t) ==
  /\ tls[t] = "Uninitialized"
  /\ tls' = [tls EXCEPT ![t] = "Initializing"]
  /\ UNCHANGED <<alive, used, cache, pool, live, slot, dtor_runs, chanq, worker, spawned>>

\* The slot's value, new_handle(), is stored and the slot is initialised.
TlsInitEnd(t) ==
  /\ tls[t] = "Initializing"
  /\ \E g \in Fresh :
       /\ NewHandle(g)
       /\ slot' = [slot EXCEPT ![t] = [inst |-> g, dropped |-> FALSE]]
  /\ tls' = [tls EXCEPT ![t] = "Initialized"]
  /\ UNCHANGED <<cache, pool, live, dtor_runs, chanq, worker, spawned>>

\* Faulty variant of GlobalAllocator::drop without the dropped check.
GlobalAllocatorDropNoFlag(t) ==
  /\ Send(<<Array(Handle(t))>>)
  /\ slot' = [slot EXCEPT ![t].dropped = TRUE]

\* GlobalAllocator::drop: a second call returns at once; the first sends the
\* handle as Husk::Array and sets dropped.
GlobalAllocatorDrop(t) ==
  IF slot[t].dropped
  THEN UNCHANGED <<slot, chanq, spawned>>
  ELSE /\ Send(<<Array(Handle(t))>>)
       /\ slot' = [slot EXCEPT ![t].dropped = TRUE]

\* Thread exit: the TLS destructor of LOCAL_ELF_HEAP.
HeapDtor(t) ==
  /\ tls[t] = "Initialized"
  /\ tls' = [tls EXCEPT ![t] = "Dropped"]
  /\ dtor_runs' = [dtor_runs EXCEPT ![t] = @ + 1]
  /\ GlobalAllocatorDrop(t)
  /\ UNCHANGED <<alive, used, cache, pool, live, worker>>

\* The destructor observed to run a second time on the same value.
SpuriousHeapDtor(t) ==
  /\ tls[t] = "Dropped"
  /\ dtor_runs[t] < MaxDtorRuns
  /\ dtor_runs' = [dtor_runs EXCEPT ![t] = @ + 1]
  /\ GlobalAllocatorDrop(t)
  /\ UNCHANGED <<alive, used, cache, pool, live, tls, worker>>

-----------------------------------------------------------------------------
\* global::alloc, fast path: the thread's handle.
TlsAlloc(t, n) ==
  /\ Available(t)
  /\ AllocOp(Handle(t), n)
  /\ UNCHANGED <<alive, used>> /\ UNCHANGED gvars

\* Faulty variant of the fallback alloc: any free object of the sources.
FallbackAllocAnyObj(t, n) ==
  /\ Unavailable(t)
  /\ \E o \in pool :
       /\ pool' = pool \ {o}
       /\ live' = live \cup {Allocation(o, n, n, WORD)}
  /\ UNCHANGED <<alive, used, cache>> /\ UNCHANGED gvars

\* global::alloc, fallback: large_alloc::alloc whatever the size.
FallbackAlloc(t, n) ==
  /\ Unavailable(t)
  /\ \E o \in pool :
       /\ o.cls = LARGE
       /\ pool' = pool \ {o}
       /\ live' = live \cup {Allocation(o, n, n, WORD)}
  /\ UNCHANGED <<alive, used, cache>> /\ UNCHANGED gvars

\* global::free, fast path.
TlsFree(t, p) ==
  /\ Available(t)
  /\ FreeOp(Handle(t), p)
  /\ UNCHANGED <<alive, used>> /\ UNCHANGED gvars

\* Faulty variant of the fallback free: every object sent as Husk::Ptr.
FallbackFreeNoTag(t, p) ==
  /\ Unavailable(t)
  /\ live' = live \ {p}
  /\ Send(<<Ptr(p.obj)>>)
  /\ UNCHANGED <<alive, used, cache, pool, tls, slot, dtor_runs, worker>>

\* global::free, fallback: get_type decides; Large is unmapped here, slab
\* objects go to the worker as Husk::Ptr.
FallbackFree(t, p) ==
  /\ Unavailable(t)
  /\ live' = live \ {p}
  /\ IF GetType(p.obj) = "Large"
     THEN pool' = pool \cup {p.obj} /\ UNCHANGED <<chanq, spawned>>
     ELSE Send(<<Ptr(p.obj)>>) /\ UNCHANGED pool
  /\ UNCHANGED <<alive, used, cache, tls, slot, dtor_runs, worker>>

\* global::aligned_realloc through with_local_or_clone, fast path.
TlsRealloc(t, p, n, a) ==
  /\ Available(t)
  /\ IF p = NULLP THEN ReallocNullOp(Handle(t), n, a) ELSE ReallocOp(Handle(t), p, n, a)
  /\ UNCHANGED <<alive, used>> /\ UNCHANGED gvars

\* with_local_or_clone's fallback: realloc on a transient new_handle() g,
\* dropped (retired to the worker) when the call returns.  realloc of a
\* live pointer to a non-zero size first calls global::get_layout, whose
\* own with_local_or_clone makes and retires a second transient handle g2.
FallbackRealloc(t, p, n, a) ==
  /\ Unavailable(t)
  /\ \E g \in Fresh :
       /\ IF p = NULLP THEN ReallocNullOp(g, n, a) ELSE ReallocOp(g, p, n, a)
       /\ IF p # NULLP /\ n # 0
          THEN \E g2 \in Fresh \ {g} :
                 /\ alive' = alive \cup {g, g2} /\ used' = used \cup {g, g2}
                 /\ Send(<<Array(g2), Array(g)>>)
          ELSE /\ NewHandle(g)
               /\ Send(<<Array(g)>>)
  /\ UNCHANGED <<tls, slot, dtor_runs, worker>>

\* global::get_layout on an unavailable slot: with_local_or_clone reads the
\* backing memory of a fresh new_handle(), whose drop sends it to the worker.
FallbackGetLayout(t, p) ==
  /\ Unavailable(t)
  /\ \E g \in Fresh : NewHandle(g) /\ Send(<<Array(g)>>)
  /\ UNCHANGED <<cache, pool, live, tls, slot, dtor_runs, worker>>

-----------------------------------------------------------------------------
\* The worker thread starts and makes its local_alloc with new_handle().
WorkerStart ==
  /\ spawned /\ worker = NONE
  /\ NewHandle(WorkerHandle) /\ worker' = WorkerHandle
  /\ UNCHANGED <<cache, pool, live, tls, slot, dtor_runs, chanq, spawned>>

\* Faulty variant of the loop: the message is handled but left queued.
WorkerRecvNoPop ==
  /\ worker # NONE /\ chanq # <<>>
  /\ LET m == Head(chanq) IN
       IF m.kind = "Array"
       THEN alive' = alive \ {m.inst} /\ DropOp(m.inst)
       ELSE FreeObjOp(worker, m.obj) /\ UNCHANGED alive
  /\ UNCHANGED <<chanq, used, live, tls, slot, dtor_runs, worker, spawned>>

\* Faulty variant of the loop: Husk::Array received and forgotten.
WorkerRecvLeakArray ==
  /\ worker # NONE /\ chanq # <<>>
  /\ chanq' = Tail(chanq)
  /\ LET m == Head(chanq) IN
       IF m.kind = "Array"
       THEN UNCHANGED <<alive, cache, pool>>
       ELSE FreeObjOp(worker, m.obj) /\ UNCHANGED alive
  /\ UNCHANGED <<used, live, tls, slot, dtor_runs, worker, spawned>>

\* Faulty variant of the loop: Husk::Ptr received and forgotten.
WorkerRecvLeakPtr ==
  /\ worker # NONE /\ chanq # <<>>
  /\ chanq' = Tail(chanq)
  /\ LET m == Head(chanq) IN
       IF m.kind = "Array"
       THEN alive' = alive \ {m.inst} /\ DropOp(m.inst)
       ELSE UNCHANGED <<alive, cache, pool>>
  /\ UNCHANGED <<used, live, tls, slot, dtor_runs, worker, spawned>>

\* One turn of the worker's loop: Husk::Array drops the DynamicAllocator,
\* Husk::Ptr is freed through local_alloc.
WorkerRecv ==
  /\ worker # NONE /\ chanq # <<>>
  /\ chanq' = Tail(chanq)
  /\ LET m == Head(chanq) IN
       IF m.kind = "Array"
       THEN alive' = alive \ {m.inst} /\ DropOp(m.inst)
       ELSE FreeObjOp(worker, m.obj) /\ UNCHANGED alive
  /\ UNCHANGED <<used, live, tls, slot, dtor_runs, worker, spawned>>

-----------------------------------------------------------------------------
GInit ==
  /\ Init
  /\ tls = [t \in Threads |-> "Uninitialized"]
  /\ slot = [t \in Threads |-> NONE]
  /\ dtor_runs = [t \in Threads |-> 0]
  /\ chanq = <<>>
  /\ worker = NONE
  /\ spawned = FALSE

GNext ==
  \/ \E t \in Threads :
       \/ TlsInitBegin(t) \/ TlsInitEnd(t) \/ HeapDtor(t) \/ SpuriousHeapDtor(t)
       \/ \E n \in ReqSizes : TlsAlloc(t, n) \/ FallbackAlloc(t, n)
       \/ \E p \in live : TlsFree(t, p) \/ FallbackFree(t, p) \/ FallbackGetLayout(t, p)
       \/ \E n \in ReqSizes, a \in Aligns : TlsRealloc(t, NULLP, n, a) \/ FallbackRealloc(t, NULLP, n, a)
       \/ \E p \in live, n \in ReqSizes \cup {0}, a \in Aligns :
            TlsRealloc(t, p, n, a) \/ FallbackRealloc(t, p, n, a)
  \/ WorkerStart
  \/ WorkerRecv

\* The worker blocks in recv and is scheduled whenever a message is there;
\* application threads get no fairness: they may stop at any point.
GSpec == GInit /\ [][GNext]_allvars /\ WF_allvars(WorkerStart) /\ WF_allvars(WorkerRecv)

-----------------------------------------------------------------------------
GTypeOK ==
  /\ TypeOK
  /\ tls \in [Threads -> TlsStates]
  /\ \A t \in Threads : tls[t] \in {"Initialized", "Dropped"} =>
        slot[t].inst \in used /\ slot[t].dropped \in BOOLEAN
  /\ dtor_runs \in [Threads -> 0..MaxDtorRuns]
  /\ \A i \in DOMAIN chanq :
        chanq[i] \in [kind : {"Array"}, inst : Handles] \cup [kind : {"Ptr"}, obj : SlabObjs]
  /\ worker \in {WorkerHandle, NONE}
  /\ spawned \in BOOLEAN

\* Husk::Ptr messages for o still in the channel.
InFlight(o) == Cardinality({i \in DOMAIN chanq : chanq[i] = Ptr(o)})

\* Husk::Array messages for g still in the channel.
Retiring(g) == Cardinality({i \in DOMAIN chanq : chanq[i] = Array(g)})

(* Every object is in exactly one place, counting the objects a fallback   *)
(* free has put into the channel: a Ptr is neither freed twice by the      *)
(* worker nor reachable from a client or a cache while it waits.           *)
ObjectsExclusiveG == \A o \in Objs : Holders(o) + InFlight(o) = 1

(* Each handle is retired at most once: a spurious second run of the slot  *)
(* destructor (GlobalAllocator::drop guarded by its dropped flag) or a     *)
(* transient clone never sends a handle the worker has already dropped or *)
(* will drop again, so no DynamicAllocator is dropped twice.              *)
RetiredOnce ==
  \A g \in Handles : Retiring(g) + (IF g \in used \ alive THEN 1 ELSE 0) <= 1

(* No object is freed into a dropped handle: after the worker has dropped  *)
(* a handle its caches stay empty, so the slot of a thread whose           *)
(* destructor has run is never used by the fast path again.               *)
NoUseAfterDrop == \A g \in used \ alive : \A c \in Classes : cache[g][c] = {}

(* Every retired handle is eventually dropped by the worker, returning its *)
(* cached objects to the page sources (worker fairness only).             *)
RetiredEventuallyDropped == \A g \in Handles : (Retiring(g) > 0) ~> (g \notin alive)

(* Every object a fallback free sends as Husk::Ptr is eventually freed by  *)
(* the worker's local_alloc: the Ptr arm of the loop (line 261) puts it    *)
(* into one of the worker handle's class caches (worker fairness only).   *)
PtrEventuallyFreed ==
  \A o \in SlabObjs : (InFlight(o) > 0) ~> (o \in Cached(WorkerHandle))

(* alloc(n) with n up to max_size returns a slab object (the global       *)
(* front-end falls back to large_alloc only above the cutoff): every       *)
(* object newly handed out for such a request is not a large mapping.     *)
AllocPathBySize ==
  [][\A p \in live' : (p.obj \notin {q.obj : q \in live} /\ p.req <= MaxSize)
                        => p.obj.cls # LARGE]_allvars
=============================================================================

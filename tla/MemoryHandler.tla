---------------------------- MODULE MemoryHandler ----------------------------
(***************************************************************************)
(* The allocation tracker of libmsr (src/src/memhdlr.c): libmsr_malloc,    *)
(* libmsr_calloc and libmsr_realloc record every block in the array        *)
(* "arrays" so that memhdlr_finalize can free all of them; libmsr_free     *)
(* frees a block only when the array holds it.                             *)
(*                                                                         *)
(* The C allocator is external: it returns any address not in use, so an   *)
(* address comes back after it was freed.  The pointers of the library     *)
(* (batch, size, ops, rapl, ...) are the variables in Pointer; as in       *)
(* free_batch they keep the address of a block that was freed, and as in   *)
(* allocate_batch they may be overwritten while their block is live.       *)
(* Nothing is called after memhdlr_finalize, the last thing finalize_msr   *)
(* does: the tracker itself is freed then.                                 *)
(***************************************************************************)
EXTENDS Naturals, Sequences, FiniteSets

CONSTANTS
    Addr,         \* addresses malloc may return
    NULL,         \* the null pointer
    Pointer,      \* the library's pointer variables
    InitialSize,  \* first capacity of the tracker (16 in the code)
    MaxLast       \* bound on the number of tracked allocations

ASSUME MemoryAssumption == /\ NULL \notin Addr
                           /\ InitialSize \in Nat \ {0}
                           /\ MaxLast \in Nat

VARIABLES
    heap,       \* addresses of the live blocks
    arrays,     \* the tracker's entries; its length is "last"
    size,       \* capacity of the tracker
    finalized,  \* memhdlr_finalize has run
    held,       \* the address in each pointer variable
    stale       \* history: pointers whose block was freed

trackerVars == <<heap, arrays, size, finalized, held, stale>>

Entries(s) == {s[i] : i \in DOMAIN s}

TrackerInit ==
    /\ heap = {}
    /\ arrays = << >>
    /\ size = InitialSize
    /\ finalized = FALSE
    /\ held = [p \in Pointer |-> NULL]
    /\ stale = {}

-----------------------------------------------------------------------------
(* memory_handler.                                                         *)

\* Mutants: only the last entry is searched; the capacity test is off by one,
\* or the capacity is halved.
ReplacedLast(old, new) ==
    [i \in DOMAIN arrays |-> IF i = Len(arrays) /\ arrays[i] = old
                             THEN new ELSE arrays[i]]
GrownLate == IF Len(arrays) > size THEN 2 * size ELSE size
GrownHalf == IF Len(arrays) >= size THEN size \div 2 ELSE size

\* Entries equal to old are replaced by new: LIBMSR_REALLOC, and LIBMSR_FREE
\* with new = NULL.
Replaced(old, new) ==
    [i \in DOMAIN arrays |-> IF arrays[i] = old THEN new ELSE arrays[i]]

\* Capacity after making room for one more entry.
Grown == IF Len(arrays) >= size THEN 2 * size ELSE size

\* LIBMSR_MALLOC and LIBMSR_CALLOC.
Track(a) == arrays' = Append(arrays, a) /\ size' = Grown

-----------------------------------------------------------------------------
(* The operations of the library.                                          *)

\* libmsr_malloc, libmsr_calloc: the result is stored in p.
Malloc(p) ==
    /\ ~finalized
    /\ Len(arrays) < MaxLast
    /\ \E a \in Addr \ heap :
          /\ heap' = heap \cup {a}
          /\ held' = [held EXCEPT ![p] = a]
          /\ Track(a)
    /\ stale' = stale \ {p}
    /\ UNCHANGED finalized

\* libmsr_realloc of a live block: it stays in place or moves.
Realloc(p) ==
    /\ ~finalized
    /\ held[p] # NULL /\ p \notin stale
    /\ \E a \in (Addr \ heap) \cup {held[p]} :
          /\ heap' = (heap \ {held[p]}) \cup {a}
          /\ arrays' = Replaced(held[p], a)
          /\ held' = [held EXCEPT ![p] = a]
    /\ UNCHANGED <<size, finalized, stale>>

\* libmsr_free: the caller keeps the address; a block that is not tracked is
\* not freed.  As in the library, no pointer is freed twice.
Free(p) ==
    /\ ~finalized
    /\ held[p] # NULL
    /\ p \notin stale
    /\ heap' = heap \ ({held[p]} \cap Entries(arrays))
    /\ arrays' = Replaced(held[p], NULL)
    /\ stale' = stale \cup {p}
    /\ UNCHANGED <<size, finalized, held>>

\* Mutant: the loop stops at the first entry that was freed.
FinalizeUpToNull ==
    /\ ~finalized
    /\ heap' = heap \ {arrays[i] : i \in {j \in DOMAIN arrays :
                                   \A k \in 1 .. j : arrays[k] # NULL}}
    /\ finalized' = TRUE
    /\ UNCHANGED <<arrays, size, held, stale>>

\* memhdlr_finalize: frees every entry that is not NULL, then the tracker.
Finalize ==
    /\ ~finalized
    /\ heap' = heap \ Entries(arrays)
    /\ finalized' = TRUE
    /\ UNCHANGED <<arrays, size, held, stale>>

TrackerNext ==
    \/ \E p \in Pointer : Malloc(p) \/ Realloc(p) \/ Free(p)
    \/ Finalize

TrackerSpec == TrackerInit /\ [][TrackerNext]_trackerVars

-----------------------------------------------------------------------------
(* Properties.                                                             *)

TrackerTypeOK ==
    /\ heap \subseteq Addr
    /\ arrays \in Seq(Addr \cup {NULL})
    /\ size \in Nat \ {0}
    /\ finalized \in BOOLEAN
    /\ held \in [Pointer -> Addr \cup {NULL}]
    /\ stale \subseteq Pointer

\* Until finalization the tracker lists every live block, only live blocks, and
\* each of them once, whatever blocks moved, were freed, had their address
\* reused or lost their pointer (memory_handler): memhdlr_finalize then frees
\* each block exactly once.
ExactTracking ==
    ~finalized =>
        /\ Entries(arrays) \ {NULL} = heap
        /\ \A i, j \in DOMAIN arrays :
              (arrays[i] = arrays[j] /\ arrays[i] # NULL) => i = j

\* memory_handler never writes past the capacity it allocated for the tracker.
TrackerInBounds == Len(arrays) <= size

\* memhdlr_finalize leaves no block of the library allocated, also those whose
\* pointer was overwritten (allocate_batch on an allocated batch).
NothingLeftAfterFinalize == finalized => heap = {}
=============================================================================

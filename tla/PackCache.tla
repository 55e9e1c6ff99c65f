----------------------------- MODULE PackCache -----------------------------
(***************************************************************************)
(* Reading objects of a pack that are stored as chains of deltas:          *)
(* git_packfile_unpack() of src/src/pack.c and the delta base cache that   *)
(* all the threads reading one pack share.                                 *)
(*                                                                         *)
(* An object is named by its offset.  What a buffer contains is named by   *)
(* the object whose content it is.  The entries of the cache are counted;  *)
(* the count is taken under the lock of the cache and dropped without it.  *)
(* A reader that puts its base into the cache shares the buffer with it.   *)
(***************************************************************************)
EXTENDS Integers, Sequences, FiniteSets

CONSTANTS
    Unpacker,    \* the threads that read the pack
    Offset,      \* the objects of the pack
    Base,        \* Base[o]: the base that o is a delta against, or None
    Size,        \* Size[o]: the length of object o
    Broken,      \* the objects whose stream does not inflate
    SizeLimit,   \* GIT_PACK_CACHE_SIZE_LIMIT
    MemoryLimit, \* cache->memory_limit
    None

Entry == [raw : Offset, refcount : Nat]

PackAssumption ==
    /\ IsFiniteSet(Unpacker) /\ IsFiniteSet(Offset) /\ Broken \subseteq Offset
    /\ Base \in [Offset -> Offset \cup {None}] /\ Size \in [Offset -> Nat]
    /\ SizeLimit \in Nat /\ MemoryLimit \in Nat
    /\ None \notin Unpacker /\ None \notin Offset /\ None \notin Entry

(* A delta that does not inflate has a base too large for the cache: the    *)
(* code frees the base of such a delta, also when the cache owns it.        *)
BrokenAssumption ==
    \A d \in Broken : Base[d] # None => Size[Base[d]] > SizeLimit

VARIABLES
    entries,     \* entries[o]: the entry of o in the cache, or None
    memory_used, \* cache->memory_used
    lock,        \* who keeps cache->lock from one step to the next, or None
    freed,       \* the entries whose buffer a reader has freed
    u            \* u[t]: the local variables of git_packfile_unpack()

pack_vars == <<entries, memory_used, lock, freed, u>>

Idle == [pc |-> "idle",       \* where the thread is
         want |-> None,       \* the object asked for
         obj_offset |-> None, \* the object that the chain has got to
         stack |-> <<>>,      \* the chain, the next element to apply last
         obj |-> None,        \* what the buffer of the thread contains
         elem |-> None,       \* the element whose content that is
         cached |-> None,     \* the entry that the thread has counted
         free_base |-> FALSE] \* the base is not in the cache: free it

PackInit ==
    /\ entries = [o \in Offset |-> None]
    /\ memory_used = 0 /\ lock = None /\ freed = {}
    /\ u = [t \in Unpacker |-> Idle]

Known == {o \in Offset : entries[o] # None}

(* The bytes that the entries of S occupy, and their number.               *)
Memory(S) == {b \in S \X (1 .. SizeLimit) : b[2] <= Size[b[1]]}
Bytes(S) == Cardinality(Memory(S))

(* The element of a chain to apply next, and the chain without it.         *)
Top(s) == s[Len(s)]
Below(s) == SubSeq(s, 1, Len(s) - 1)

Counted(o, n) == [entries EXCEPT ![o].refcount = @ + n]

Unpack(t, o) ==
    /\ u[t].pc = "idle"
    /\ u' = [u EXCEPT ![t] = [Idle EXCEPT !.pc = "chain", !.want = o,
                                          !.obj_offset = o]]
    /\ UNCHANGED <<entries, memory_used, lock, freed>>

(* A bug: cache_get() does not count the reader.                            *)
MutCacheGet(o) == UNCHANGED entries

(* cache_get() when the entry is there                                     *)
CacheGet(o) == entries' = Counted(o, 1)

(* One round of pack_dependency_chain(): a base in the cache ends the      *)
(* chain, and so does an object that is stored whole.                      *)
DependencyChain(t) ==
    LET o == u[t].obj_offset
    IN  /\ u[t].pc = "chain" /\ lock = None
        /\ \/ /\ entries[o] # None
              /\ CacheGet(o)
              /\ u' = [u EXCEPT ![t].pc = "base", ![t].cached = o]
           \/ /\ entries[o] = None
              /\ u' = [u EXCEPT ![t].stack = Append(@, o),
                                ![t].pc = IF Base[o] = None THEN "base" ELSE @,
                                ![t].obj_offset = Base[o]]
              /\ UNCHANGED entries
        /\ UNCHANGED <<memory_used, lock, freed>>

(* The base: from the cache, copied and released at once when it is the    *)
(* object asked for, or inflated from the pack.                            *)
BaseFromCache(t) ==
    LET o == u[t].cached
    IN  /\ u[t].pc = "base" /\ o # None
        /\ IF u[t].stack = <<>>
           THEN /\ u' = [u EXCEPT ![t].pc = "done", ![t].obj = entries[o].raw,
                                  ![t].cached = None]
                /\ entries' = Counted(o, -1)
           ELSE /\ u' = [u EXCEPT ![t].pc = "apply", ![t].obj = entries[o].raw]
                /\ UNCHANGED entries
        /\ UNCHANGED <<memory_used, lock, freed>>

(* The thread after inflating the base o, which is the last of its chain.   *)
Inflated(r, o) ==
    IF o \in Broken THEN [r EXCEPT !.pc = "failed"]
    ELSE [r EXCEPT !.pc = IF Len(r.stack) = 1 THEN "done" ELSE "add",
                   !.stack = Below(r.stack), !.obj = o, !.elem = o]

BaseFromPack(t) ==
    /\ u[t].pc = "base" /\ u[t].cached = None
    /\ u' = [u EXCEPT ![t] = Inflated(u[t], Top(u[t].stack))]
    /\ UNCHANGED <<entries, memory_used, lock, freed>>

(* What free_lowest_entry() frees                                          *)
Evictable == {o \in Known : entries[o].refcount = 0}

MakeRoom(S) == /\ entries' = [o \in Offset |-> IF o \in S THEN None ELSE entries[o]]
               /\ memory_used' = memory_used - Bytes(S)

(* cache_add(): the base is too large, or somebody has already added it.   *)
CacheDecline(t) ==
    LET o == u[t].elem
    IN  /\ u[t].pc = "add"
        /\ \/ Size[o] > SizeLimit
           \/ lock = None /\ entries[o] # None
        /\ u' = [u EXCEPT ![t].pc = "apply", ![t].free_base = TRUE]
        /\ UNCHANGED <<entries, memory_used, lock, freed>>

(* cache_add() with the lock: one round of the loop that makes room, and   *)
(* the entry when there is room.  The lock is kept from round to round.    *)
CacheAdd(t) ==
    LET o == u[t].elem
        fits == memory_used + Size[o] <= MemoryLimit
    IN  /\ u[t].pc = "add" /\ Size[o] <= SizeLimit
        /\ lock = t \/ (lock = None /\ entries[o] = None)
        /\ \/ /\ fits
              /\ entries' = [entries EXCEPT ![o] = [raw |-> u[t].obj, refcount |-> 1]]
              /\ memory_used' = memory_used + Size[o]
              /\ lock' = None
              /\ u' = [u EXCEPT ![t].pc = "apply", ![t].cached = o]
           \/ /\ ~fits
              /\ MakeRoom(Evictable)
              /\ lock' = t
              /\ UNCHANGED u
        /\ UNCHANGED freed

(* A bug: the count that cache_add() started with is never dropped.         *)
MutRelease(t) == UNCHANGED entries

(* git_atomic_dec(&cached->refcount)                                       *)
Release(t) == IF u[t].cached # None THEN entries' = Counted(u[t].cached, -1)
              ELSE UNCHANGED entries

(* The thread after a delta.  What applying it gives is an object only when *)
(* the buffer holds the base that the delta was made against.              *)
Applied(r, d, rest) ==
    [r EXCEPT !.pc = IF rest = <<>> THEN "done" ELSE "add",
              !.stack = rest, !.elem = d, !.cached = None, !.free_base = FALSE,
              !.obj = IF @ = Base[d] THEN d ELSE None]

(* Inflate the next delta and apply it.                                    *)
ApplyDelta(t) ==
    LET d == Top(u[t].stack)
        rest == Below(u[t].stack)
    IN  /\ u[t].pc = "apply" /\ d \notin Broken
        /\ Release(t)
        /\ u' = [u EXCEPT ![t] = Applied(@, d, rest)]
        /\ UNCHANGED <<memory_used, lock, freed>>

(* The delta does not inflate: the loop breaks and the cleanup frees the   *)
(* buffer, whoever it belongs to.                                          *)
ApplyFails(t) ==
    /\ u[t].pc = "apply" /\ Top(u[t].stack) \in Broken
    /\ freed' = IF u[t].cached # None THEN freed \cup {u[t].cached} ELSE freed
    /\ u' = [u EXCEPT ![t].pc = "failed"]
    /\ UNCHANGED <<entries, memory_used, lock>>

Return(t) ==
    /\ u[t].pc \in {"done", "failed"}
    /\ u' = [u EXCEPT ![t] = Idle]
    /\ UNCHANGED <<entries, memory_used, lock, freed>>

Step(t) ==
    \/ DependencyChain(t) \/ BaseFromCache(t) \/ BaseFromPack(t)
    \/ CacheDecline(t) \/ CacheAdd(t)
    \/ ApplyDelta(t) \/ ApplyFails(t) \/ Return(t)

PackNext == \E t \in Unpacker : Step(t) \/ \E o \in Offset : Unpack(t, o)

Fairness == \A t \in Unpacker : WF_pack_vars(Step(t))
PackSpec == PackInit /\ [][PackNext]_pack_vars /\ Fairness

-----------------------------------------------------------------------------
(* Properties                                                              *)

(* An entry is neither freed nor evicted while a thread uses its buffer as *)
(* a base: the count of an entry is the number of the threads that do, and *)
(* nobody but the cache frees it.  This, and that calls return, is stated  *)
(* for packs in which a delta that does not inflate has a base too large   *)
(* for the cache (see ApplyFails).                                         *)
EntriesInUseStay ==
    /\ freed \cap Known = {}
    /\ \A t \in Unpacker : u[t].cached # None => entries[u[t].cached] # None
    /\ \A o \in Known :
        entries[o].refcount = Cardinality({t \in Unpacker : u[t].cached = o})

(* Whatever bases other threads add and evict meanwhile, the object that   *)
(* git_packfile_unpack() returns is the one asked for, and the cache has   *)
(* every base under its own offset.                                        *)
RightObject ==
    /\ \A t \in Unpacker : u[t].pc = "done" => u[t].obj = u[t].want
    /\ \A o \in Known : entries[o].raw = o

(* The cache never exceeds its limit, and memory_used, which the loop of   *)
(* cache_add() depends on, is what its entries occupy.                     *)
MemoryIsBounded == memory_used = Bytes(Known) /\ memory_used <= MemoryLimit

(* The cache of bases keeps what is in use, has nothing under a wrong       *)
(* offset and stays within its limit, whatever threads unpack through it.   *)
BasesAreKept == EntriesInUseStay /\ RightObject /\ MemoryIsBounded

(* A call of git_packfile_unpack() returns: the loop of cache_add(), which *)
(* spins with the lock held, ends because nobody who holds an entry waits   *)
(* for that lock.                                                          *)
UnpackReturns == \A t \in Unpacker : (u[t].pc # "idle") ~> (u[t].pc = "idle")
=============================================================================

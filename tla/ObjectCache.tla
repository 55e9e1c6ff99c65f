---------------------------- MODULE ObjectCache ----------------------------
(***************************************************************************)
(* The object caches of src/src/cache.c as the threads of a process use    *)
(* them: git_object_lookup(), git_odb_read(), the frees of what those      *)
(* return, git_cache_clear() and GIT_OPT_ENABLE_CACHING.                   *)
(*                                                                         *)
(* A pointer to an object is a member of Object: the id and the form of    *)
(* the git_cached_obj there, and a number that tells apart the blocks of   *)
(* memory that hold the same ones.  ref[p] is the reference count; a block *)
(* with count 0 is free.  A cache maps an id to a key and a value, both    *)
(* pointers: the key of an entry is the address of the oid INSIDE the      *)
(* object, so it dangles when its object is freed, as the value does.  A    *)
(* parsed tree or blob keeps a reference to the raw object it points into. *)
(***************************************************************************)
EXTENDS Integers, FiniteSets, FiniteSetsExt

CONSTANTS
    Thread,         \* the threads
    Cache,          \* the caches: one for each repository or free-standing odb
    Oid,            \* the ids of the objects in the database
    Keeps,          \* the ids of trees and blobs, which keep their raw object
    Asked,          \* the calls that the program makes
    MaxCopies,      \* bound on the live objects with the same id and form
    Nil,            \* the null pointer; also "no thread"
    Size,           \* Size[o]: the size of object o
    MaxObjectSize,  \* git_cache__max_object_size, one type only
    MaxStorage,     \* git_cache__max_storage
    EvictCount      \* how many entries cache_evict_entries() drops: 8 in the code

Forms == {"RAW", "PARSED"}     \* GIT_CACHE_STORE_*: a git_odb_object or a git_object
Object == [oid : Oid, flags : Forms, n : 1 .. MaxCopies]
Pointer == Object \cup {Nil}
Calls == [do : {"none", "lookup", "read", "clear"}, c : Cache, o : Oid]

ASSUME CacheAssumption ==
    /\ IsFiniteSet(Thread) /\ IsFiniteSet(Cache) /\ IsFiniteSet(Oid)
    /\ Cache # {} /\ Oid # {} /\ Keeps \subseteq Oid /\ Asked \subseteq Calls
    /\ Nil \notin Thread /\ Nil \notin Object
    /\ Size \in [Oid -> Nat]
    /\ MaxCopies \in Nat
    /\ MaxObjectSize \in Nat /\ MaxStorage \in Nat /\ EvictCount \in Nat \ {0}

VARIABLES
    ref,                \* ref[p]: the reference count of the object at p
    inner,              \* inner[p]: the raw object that the parsed one at p keeps
    key, val,           \* key[c][o], val[c][o]: the entry of o in the map of c
    used,               \* used[c]: used_memory
    storage,            \* git_cache__current_storage
    rd, wr,             \* rd[c]: the readers, wr[c]: the writer of the rwlock of c
    enabled,            \* git_cache__enabled
    pc, call,           \* where a thread is; its call, with cache and id
    odb_obj, object,    \* the references that a thread holds
    peek,               \* cache_get(): entry, found but not yet counted
    mem                 \* what the thread has yet to add to the two counters

memory == <<ref, inner>>
cached == <<key, val>>
counters == <<used, storage, mem>>
locks == <<rd, wr>>
hands == <<odb_obj, object, peek>>
vars == <<memory, cached, counters, locks, enabled, pc, call, hands>>

NoCall == CHOOSE k \in Calls : k.do = "none"
Waiting == {"get_any", "get_raw", "store_lock", "clear_lock"}
Reading == {"any_ref", "raw_ref"}
Writing == {"evict", "evicted", "put", "stored", "clear", "cleared"}
Pc == {"idle", "backend", "check", "should_store", "parse", "drop", "have"}
      \cup Waiting \cup Reading \cup Writing

(* The counters used, storage and mem are left to Accounting.               *)
TypeOK ==
    /\ ref \in [Object -> Nat] /\ inner \in [Object -> Pointer]
    /\ key \in [Cache -> [Oid -> Pointer]] /\ val \in [Cache -> [Oid -> Pointer]]
    /\ rd \in [Cache -> SUBSET Thread] /\ wr \in [Cache -> Thread \cup {Nil}]
    /\ enabled \in BOOLEAN
    /\ pc \in [Thread -> Pc] /\ call \in [Thread -> Calls]
    /\ odb_obj \in [Thread -> Pointer] /\ object \in [Thread -> Pointer]
    /\ peek \in [Thread -> Pointer]

Init ==
    /\ ref = [p \in Object |-> 0] /\ inner = [p \in Object |-> Nil]
    /\ key = [c \in Cache |-> [o \in Oid |-> Nil]]
    /\ val = [c \in Cache |-> [o \in Oid |-> Nil]]
    /\ used = [c \in Cache |-> 0] /\ storage = 0 /\ mem = [t \in Thread |-> 0]
    /\ rd = [c \in Cache |-> {}] /\ wr = [c \in Cache |-> Nil]
    /\ enabled = TRUE
    /\ pc = [t \in Thread |-> "idle"] /\ call = [t \in Thread |-> NoCall]
    /\ odb_obj = [t \in Thread |-> Nil] /\ object = [t \in Thread |-> Nil]
    /\ peek = [t \in Thread |-> Nil]

-----------------------------------------------------------------------------

(* What thread t works on: the cache, the id, and in cache_store() the      *)
(* entry, which is the parsed object once there is one.                     *)
C(t) == call[t].c
O(t) == call[t].o
Entry(t) == IF object[t] # Nil THEN object[t] ELSE odb_obj[t]

Goto(t, where) == pc' = [pc EXCEPT ![t] = where]
Finish(t) == Goto(t, "idle") /\ call' = [call EXCEPT ![t] = NoCall]

(* A call enters the library.                                               *)
Invoke(t) ==
    /\ pc[t] = "idle"
    /\ \E k \in Asked :
          /\ k.do # "none"
          /\ call' = [call EXCEPT ![t] = k]
          /\ Goto(t, CASE k.do = "lookup" -> "get_any"
                       [] k.do = "read" -> "get_raw"
                       [] k.do = "clear" -> "clear_lock")
    /\ UNCHANGED <<memory, cached, counters, locks, enabled, hands>>

(* kh_get() on the map of c: an entry is found through its key.             *)
Find(c, o) == IF key[c][o] # Nil /\ key[c][o].oid = o THEN val[c][o] ELSE Nil

(* A bug: cache_get() without the rdlock.                                   *)
MutCacheGetUnlocked(t) ==
    /\ pc[t] \in {"get_any", "get_raw"}
    /\ enabled
    /\ peek' = [peek EXCEPT ![t] = Find(C(t), O(t))]
    /\ Goto(t, IF pc[t] = "get_any" THEN "any_ref" ELSE "raw_ref")
    /\ UNCHANGED <<memory, cached, counters, locks, enabled, call, odb_obj, object>>

(* A bug: cache_get() without the test of the form.                         *)
MutCacheGetAnyForm(t) ==
    /\ pc[t] \in {"get_any", "get_raw"}
    /\ enabled /\ wr[C(t)] = Nil
    /\ rd' = [rd EXCEPT ![C(t)] = @ \cup {t}]
    /\ peek' = [peek EXCEPT ![t] = Find(C(t), O(t))]
    /\ Goto(t, IF pc[t] = "get_any" THEN "any_ref" ELSE "raw_ref")
    /\ UNCHANGED <<memory, cached, counters, wr, enabled, call, odb_obj, object>>

(* cache_get() up to the increment: for git_cache_get_any(), flags is 0 and *)
(* any form will do.  A disabled cache is not looked into.                  *)
CacheGet(t) ==
    /\ pc[t] \in {"get_any", "get_raw"}
    /\ \/ /\ ~enabled
          /\ Goto(t, IF pc[t] = "get_any" THEN "get_raw" ELSE "backend")
          /\ UNCHANGED <<peek, locks>>
       \/ /\ enabled
          /\ wr[C(t)] = Nil
          /\ rd' = [rd EXCEPT ![C(t)] = @ \cup {t}]
          /\ LET entry == Find(C(t), O(t)) IN
             peek' = [peek EXCEPT ![t] =
                        IF entry # Nil /\ pc[t] = "get_raw" /\ entry.flags # "RAW"
                        THEN Nil ELSE entry]
          /\ Goto(t, IF pc[t] = "get_any" THEN "any_ref" ELSE "raw_ref")
          /\ UNCHANGED wr
    /\ UNCHANGED <<memory, cached, counters, enabled, call, odb_obj, object>>

(* git_cached_obj_incref().                                                 *)
Incref(r, p) == [r EXCEPT ![p] = @ + 1]

(* git_cached_obj_decref() of every object of P: the last reference frees   *)
(* the object, and with a tree or a blob its reference to the raw object.   *)
Freed(P) == {p \in P : ref[p] = 1}
Decref(P) ==
    [p \in Object |-> ref[p] - (IF p \in P THEN 1 ELSE 0)
                       - Cardinality({q \in Freed(P) : inner[q] = p})]
Forget(P) == [p \in Object |-> IF p \in Freed(P) THEN Nil ELSE inner[p]]

(* cache_get(): the increment, and the unlock after it.  Then what the      *)
(* caller does with the result: git_object_lookup() has its object, or      *)
(* parses a raw one, or goes on to git_odb_read(), which on a miss asks the *)
(* backends.                                                                *)
CacheRef(t) ==
    /\ pc[t] \in Reading
    /\ ref' = IF peek[t] # Nil THEN Incref(ref, peek[t]) ELSE ref
    /\ rd' = [rd EXCEPT ![C(t)] = @ \ {t}]
    /\ peek' = [peek EXCEPT ![t] = Nil]
    /\ \/ /\ peek[t] = Nil
          /\ Goto(t, IF pc[t] = "any_ref" THEN "get_raw" ELSE "backend")
          /\ UNCHANGED <<odb_obj, object>>
       \/ /\ peek[t] # Nil /\ peek[t].flags = "PARSED"
          /\ object' = [object EXCEPT ![t] = peek[t]]
          /\ Goto(t, "have")
          /\ UNCHANGED odb_obj
       \/ /\ peek[t] # Nil /\ peek[t].flags = "RAW"
          /\ odb_obj' = [odb_obj EXCEPT ![t] = peek[t]]
          /\ Goto(t, IF call[t].do = "lookup" THEN "parse" ELSE "have")
          /\ UNCHANGED object
    /\ UNCHANGED <<inner, cached, counters, wr, enabled, call>>

(* A block of memory for a new object, if malloc() has one.                 *)
Blocks(o, form) == {p \in Object : p.oid = o /\ p.flags = form /\ ref[p] = 0}
Malloc(o, form) == CHOOSE p \in Blocks(o, form) : TRUE

(* odb_read_1(): no backend has the object, or the read or the allocation   *)
(* fails, and the call returns; or the object is there and enters           *)
(* cache_store() with the reference that the caller will get.               *)
Backend(t) ==
    /\ pc[t] = "backend"
    /\ \/ Finish(t) /\ UNCHANGED <<ref, odb_obj>>
       \/ /\ Blocks(O(t), "RAW") # {}
          /\ LET p == Malloc(O(t), "RAW") IN
             /\ ref' = Incref(ref, p)
             /\ odb_obj' = [odb_obj EXCEPT ![t] = p]
          /\ Goto(t, "check") /\ UNCHANGED call
    /\ UNCHANGED <<inner, cached, counters, locks, enabled, object, peek>>

(* git_object__from_odb_object(): the type does not match, or the parser or *)
(* the allocation fails; or the parsed object enters cache_store().         *)
(* git_tree__parse() and git_blob__parse() take a reference.                *)
Parse(t) ==
    /\ pc[t] = "parse"
    /\ \/ Goto(t, "drop") /\ UNCHANGED <<memory, object>>
       \/ /\ Blocks(odb_obj[t].oid, "PARSED") # {}
          /\ LET p == Malloc(odb_obj[t].oid, "PARSED") IN
             /\ IF p.oid \in Keeps
                THEN /\ ref' = Incref(Incref(ref, p), odb_obj[t])
                     /\ inner' = [inner EXCEPT ![p] = odb_obj[t]]
                ELSE ref' = Incref(ref, p) /\ UNCHANGED inner
             /\ object' = [object EXCEPT ![t] = p]
          /\ Goto(t, "check")
    /\ UNCHANGED <<cached, counters, locks, enabled, call, odb_obj, peek>>

(* Where a return from cache_store() or git_cache_clear() leads.            *)
Return(t) ==
    IF call[t].do = "clear" THEN Finish(t)
    ELSE /\ Goto(t, CASE object[t] # Nil -> "drop"
                      [] object[t] = Nil /\ call[t].do = "lookup" -> "parse"
                      [] OTHER -> "have")
         /\ UNCHANGED call

(* cache_store(): a store into a cache that was disabled clears it.         *)
(* used_memory is read without the lock.                                    *)
Check(t) ==
    /\ pc[t] = "check"
    /\ Goto(t, IF ~enabled /\ used[C(t)] > 0 THEN "clear_lock" ELSE "should_store")
    /\ UNCHANGED <<memory, cached, counters, locks, enabled, call, hands>>

ShouldStore(t) ==
    /\ pc[t] = "should_store"
    /\ IF enabled /\ Size[Entry(t).oid] < MaxObjectSize
       THEN Goto(t, "store_lock") /\ UNCHANGED call
       ELSE Return(t)
    /\ UNCHANGED <<memory, cached, counters, locks, enabled, hands>>

(* The wrlock of cache_store() and of git_cache_clear().                    *)
WrLock(t) ==
    /\ pc[t] \in {"store_lock", "clear_lock"}
    /\ wr[C(t)] = Nil /\ rd[C(t)] = {}
    /\ wr' = [wr EXCEPT ![C(t)] = t]
    /\ Goto(t, CASE pc[t] = "clear_lock" -> "clear"
                 [] pc[t] = "store_lock" /\ storage > MaxStorage -> "evict"
                 [] OTHER -> "put")
    /\ UNCHANGED <<memory, cached, counters, rd, enabled, call, hands>>

Cached(c) == {o \in Oid : val[c][o] # Nil}

(* The entries for E leave the map of c, and their references with them.    *)
Dropped(c, E) ==
    /\ ref' = Decref({val[c][o] : o \in E}) /\ inner' = Forget({val[c][o] : o \in E})
    /\ val' = [val EXCEPT ![c] = [o \in Oid |-> IF o \in E THEN Nil ELSE val[c][o]]]
    /\ key' = [key EXCEPT ![c] = [o \in Oid |-> IF o \in E THEN Nil ELSE key[c][o]]]

(* A bug: a clear that forgets the counters.                                *)
MutClearCache(t) == Dropped(C(t), Cached(C(t))) /\ mem' = [mem EXCEPT ![t] = 0]

(* clear_cache(): what it takes from the counters is used_memory.           *)
ClearCache(t) ==
    /\ Dropped(C(t), Cached(C(t)))
    /\ mem' = [mem EXCEPT ![t] = IF Cached(C(t)) = {} THEN 0 ELSE -used[C(t)]]

(* cache_evict_entries(): with fewer than EvictCount entries it clears the  *)
(* cache; else it drops EvictCount of them.  It takes them from consecutive *)
(* places of the hash map after a random one, so any of them.               *)
CacheEvictEntries(t) ==
    /\ pc[t] = "evict"
    /\ \/ EvictCount > Cardinality(Cached(C(t))) /\ ClearCache(t)
       \/ \E E \in kSubset(EvictCount, Cached(C(t))) :
             /\ Dropped(C(t), E)
             /\ mem' = [mem EXCEPT ![t] = -MapThenSumSet(LAMBDA o : Size[val[C(t)][o].oid], E)]
    /\ Goto(t, "evicted")
    /\ UNCHANGED <<used, storage, locks, enabled, call, hands>>

Clear(t) ==
    /\ pc[t] = "clear"
    /\ ClearCache(t)
    /\ Goto(t, "cleared")
    /\ UNCHANGED <<used, storage, locks, enabled, call, hands>>

(* used_memory and git_cache__current_storage follow the map.  They are two *)
(* assignments, but no thread reads both.  A store goes on after an         *)
(* eviction; everything else unlocks and returns.                           *)
Account(t) ==
    /\ pc[t] \in {"evicted", "stored", "cleared"}
    /\ used' = [used EXCEPT ![C(t)] = @ + mem[t]]
    /\ storage' = storage + mem[t]
    /\ mem' = [mem EXCEPT ![t] = 0]
    /\ IF pc[t] = "evicted"
       THEN Goto(t, "put") /\ UNCHANGED <<wr, call>>
       ELSE wr' = [wr EXCEPT ![C(t)] = Nil] /\ Return(t)
    /\ UNCHANGED <<memory, cached, rd, enabled, hands>>

(* cache_store(), not found: kh_put() makes a place, or fails.              *)
Insert(t) ==
    /\ \/ /\ key' = [key EXCEPT ![C(t)][Entry(t).oid] = Entry(t)]
          /\ val' = [val EXCEPT ![C(t)][Entry(t).oid] = Entry(t)]
          /\ ref' = Incref(ref, Entry(t)) /\ UNCHANGED inner
          /\ mem' = [mem EXCEPT ![t] = Size[Entry(t).oid]]
       \/ UNCHANGED <<memory, cached, mem>>
    /\ UNCHANGED <<odb_obj, object>>

(* cache_store(), found in the same form: the caller gets that one instead. *)
Adopt(t, stored) ==
    /\ ref' = Incref(Decref({Entry(t)}), stored) /\ inner' = Forget({Entry(t)})
    /\ IF object[t] # Nil
       THEN object' = [object EXCEPT ![t] = stored] /\ UNCHANGED odb_obj
       ELSE odb_obj' = [odb_obj EXCEPT ![t] = stored] /\ UNCHANGED object
    /\ UNCHANGED <<cached, mem>>

(* A bug: the replaced object keeps the reference of the cache.             *)
MutReplace(t, stored) ==
    /\ ref' = Incref(ref, Entry(t)) /\ UNCHANGED inner
    /\ key' = [key EXCEPT ![C(t)][Entry(t).oid] = Entry(t)]
    /\ val' = [val EXCEPT ![C(t)][Entry(t).oid] = Entry(t)]
    /\ UNCHANGED <<mem, odb_obj, object>>

(* cache_store(), found raw: the parsed object takes its place.             *)
Replace(t, stored) ==
    /\ ref' = Incref(Decref({stored}), Entry(t)) /\ inner' = Forget({stored})
    /\ key' = [key EXCEPT ![C(t)][Entry(t).oid] = Entry(t)]
    /\ val' = [val EXCEPT ![C(t)][Entry(t).oid] = Entry(t)]
    /\ UNCHANGED <<mem, odb_obj, object>>

Put(t) ==
    /\ pc[t] = "put"
    /\ LET stored == Find(C(t), Entry(t).oid) IN
       \/ stored = Nil /\ Insert(t)
       \/ stored # Nil /\ stored.flags = Entry(t).flags /\ Adopt(t, stored)
       \/ stored # Nil /\ stored.flags = "RAW" /\ Entry(t).flags = "PARSED" /\ Replace(t, stored)
       \/ /\ stored # Nil /\ stored.flags = "PARSED" /\ Entry(t).flags = "RAW"
          /\ UNCHANGED <<memory, cached, mem, odb_obj, object>>
    /\ Goto(t, "stored")
    /\ UNCHANGED <<used, storage, locks, enabled, call, peek>>

(* git_object_lookup() frees the raw object.                                *)
Drop(t) ==
    /\ pc[t] = "drop"
    /\ ref' = Decref({odb_obj[t]}) /\ inner' = Forget({odb_obj[t]})
    /\ odb_obj' = [odb_obj EXCEPT ![t] = Nil]
    /\ IF object[t] = Nil THEN Finish(t) ELSE Goto(t, "have") /\ UNCHANGED call
    /\ UNCHANGED <<cached, counters, locks, enabled, object, peek>>

(* The caller frees what it was given.                                      *)
Free(t) ==
    /\ pc[t] = "have"
    /\ ref' = Decref({Entry(t)}) /\ inner' = Forget({Entry(t)})
    /\ odb_obj' = [odb_obj EXCEPT ![t] = Nil]
    /\ object' = [object EXCEPT ![t] = Nil]
    /\ Finish(t)
    /\ UNCHANGED <<cached, counters, locks, enabled, peek>>

(* git_libgit2_opts(GIT_OPT_ENABLE_CACHING).                                *)
EnableCaching ==
    /\ enabled' = ~enabled
    /\ UNCHANGED <<memory, cached, counters, locks, pc, call, hands>>

(* git_object_dup() and git_odb_object_dup(): u hands a reference to t.     *)
Dup(t, u) ==
    /\ pc[t] = "idle" /\ pc[u] = "have"
    /\ ref' = Incref(ref, Entry(u))
    /\ odb_obj' = [odb_obj EXCEPT ![t] = odb_obj[u]]
    /\ object' = [object EXCEPT ![t] = object[u]]
    /\ call' = [call EXCEPT ![t] = call[u]]
    /\ Goto(t, "have")
    /\ UNCHANGED <<inner, cached, counters, locks, enabled, peek>>

(* A thread goes on with the call it is in.                                 *)
Work(t) ==
    \/ CacheGet(t) \/ CacheRef(t) \/ Backend(t) \/ Parse(t) \/ Check(t) \/ ShouldStore(t)
    \/ WrLock(t) \/ CacheEvictEntries(t) \/ Clear(t) \/ Account(t) \/ Put(t) \/ Drop(t)

Next ==
    \/ \E t \in Thread : Invoke(t) \/ Work(t) \/ Free(t) \/ (\E u \in Thread : Dup(t, u))
    \/ EnableCaching

Spec == Init /\ [][Next]_vars

-----------------------------------------------------------------------------

(* The references to the object at p: those that the threads hold in a      *)
(* variable, those of the cache entries, and those of parsed objects.       *)
Holding(hand, p) == {t \in Thread : hand[t] = p}
Caching(p) == {c \in Cache : val[c][p.oid] = p}
Keepers(p) == {q \in Object : inner[q] = p}

(* The reference count of an object is the number of references to it,      *)
(* through every eviction, replacement and clear, so that an object is      *)
(* freed exactly when the last reference to it goes.                        *)
RefCounts ==
    \A p \in Object :
        ref[p] = Cardinality(Holding(odb_obj, p)) + Cardinality(Holding(object, p))
                 + Cardinality(Caching(p)) + Cardinality(Keepers(p))

(* No pointer that a thread, a cache or an object may follow leads to a     *)
(* freed object: not the keys, which point into the objects, not the raw    *)
(* object of a tree, and not the entry that cache_get() has found and has   *)
(* not counted yet.                                                         *)
NoDangling ==
    /\ \A c \in Cache, o \in Oid :
          /\ key[c][o] = val[c][o]
          /\ val[c][o] # Nil => val[c][o].oid = o /\ ref[val[c][o]] > 0
    /\ \A t \in Thread : \A p \in {odb_obj[t], object[t], peek[t]} \ {Nil} : ref[p] > 0
    /\ \A p \in Object : inner[p] # Nil => ref[p] > 0 /\ ref[inner[p]] > 0

(* A lookup returns the parsed object of the id it was asked for, a read    *)
(* the raw one, whatever the other threads stored and replaced meanwhile.   *)
RightObject ==
    \A t \in Thread : pc[t] = "have" =>
        /\ Entry(t) # Nil /\ Entry(t).oid = O(t)
        /\ Entry(t).flags = IF call[t].do = "lookup" THEN "PARSED" ELSE "RAW"

(* While nobody writes to a cache, its used_memory is the size of what it   *)
(* holds; and what GIT_OPT_GET_CACHED_MEMORY reports, and evictions depend  *)
(* on, is the sum over all the caches.                                      *)
Accounting ==
    /\ \A c \in Cache : wr[c] = Nil =>
          used[c] = MapThenSumSet(LAMBDA o : Size[val[c][o].oid], Cached(c))
    /\ storage = MapThenSumSet(LAMBDA c : used[c], Cache)

(* The rwlock of a cache works: one writer and no reader, or readers only;  *)
(* and a thread never asks for a lock it has, as cache_store() would if it  *)
(* called git_cache_clear() after its wrlock.                               *)
LocksWork ==
    \A c \in Cache :
        /\ wr[c] # Nil => rd[c] = {} /\ pc[wr[c]] \in Writing /\ C(wr[c]) = c
        /\ \A t \in rd[c] : pc[t] \in Reading /\ C(t) = c

=============================================================================

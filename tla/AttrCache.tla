----------------------------- MODULE AttrCache -----------------------------
(***************************************************************************)
(* The cache of parsed .gitattributes and .gitignore files                 *)
(* (src/src/attrcache.c, src/src/attr_file.c), used by several threads     *)
(* while the one file in question is edited and removed.                    *)
(*                                                                         *)
(* What a thread does under cache->lock is one step.  The check whether a    *)
(* parsed file is out of date reads, and writes, the stamp in the shared     *)
(* object without a lock.  Stamps tell the versions of the file apart.       *)
(***************************************************************************)
EXTENDS Integers, FiniteSets

CONSTANTS
    Thread,
    Handle,      \* memory for git_attr_file objects, 1 .. n; freed memory is used again
    MaxVersion,  \* bound on the edits of the file
    MaxFailures, \* bound on the parses that fail
    NoAttr

AttrAssumption ==
    IsFiniteSet(Thread) /\ Thread # {} /\ NoAttr \notin Thread /\ NoAttr \notin Handle

VARIABLES
    attr_disk,  \* the version of the file, 0 when there is none
    attr_edits, \* the last version that was written
    attrcache,  \* repo->attrcache: the thread that allocated it, or NoAttr
    allocated,  \* the caches that are allocated
    cached,     \* entry->file[source]
    f,          \* f[h]: the git_attr_file at h
    th,         \* th[t]: the local variables of thread t
    failures

attr_vars == <<attr_disk, attr_edits, attrcache, allocated, cached, f, th, failures>>

Free == [refcount |-> 0, version |-> 0, stamp |-> 0, nonexistent |-> FALSE, session |-> NoAttr]
AtRest == [pc |-> "idle", file |-> NoAttr, updated |-> NoAttr, stat |-> 0]

AttrInit ==
    /\ attr_disk = 1 /\ attr_edits = 1
    /\ attrcache = NoAttr /\ allocated = {}
    /\ cached = NoAttr
    /\ f = [h \in Handle |-> Free]
    /\ th = [t \in Thread |-> [AtRest EXCEPT !.pc = "init"]]
    /\ failures = 0

Goto(t, pc) == th' = [th EXCEPT ![t].pc = pc]

(* GIT_REFCOUNT_INC, and git_attr_file__free(), which frees with the last    *)
Incref(g, h) == IF h = NoAttr THEN g ELSE [g EXCEPT ![h].refcount = @ + 1]
Decref(g, h) == IF h = NoAttr THEN g
                ELSE IF g[h].refcount = 1 THEN [g EXCEPT ![h] = Free]
                ELSE [g EXCEPT ![h].refcount = @ - 1]

-----------------------------------------------------------------------------
(* git_attr_cache__do_init()                                               *)

InitCheck(t) ==
    /\ th[t].pc = "init"
    /\ Goto(t, IF attrcache # NoAttr THEN "idle" ELSE "swap")
    /\ allocated' = IF attrcache # NoAttr THEN allocated ELSE allocated \cup {t}
    /\ UNCHANGED <<attr_disk, attr_edits, attrcache, cached, f, failures>>

Raced(t) == allocated' = allocated \ {t}

InitSwap(t) ==
    /\ th[t].pc = "swap"
    /\ IF attrcache = NoAttr
       THEN attrcache' = t /\ UNCHANGED allocated
       ELSE Raced(t) /\ UNCHANGED attrcache
    /\ Goto(t, "idle")
    /\ UNCHANGED <<attr_disk, attr_edits, cached, f, failures>>

-----------------------------------------------------------------------------
(* git_attr_cache__get()                                                   *)

Keep(h) == f' = Incref(f, h)

Lookup(t) ==
    /\ th[t].pc = "idle"
    /\ th' = [th EXCEPT ![t].pc = IF cached = NoAttr THEN "stat" ELSE "check",
                        ![t].file = cached]
    /\ Keep(cached)
    /\ UNCHANGED <<attr_disk, attr_edits, attrcache, allocated, cached, failures>>

(* git_attr_file__out_of_date(): it also brings the stamp up to date        *)
OutOfDate(t) ==
    LET h == th[t].file
        fresh == f[h].session = t \/ (~f[h].nonexistent /\ f[h].stamp = attr_disk)
        gone == ~fresh /\ ~f[h].nonexistent /\ attr_disk = 0
    IN  /\ th[t].pc = "check"
        /\ Goto(t, IF fresh THEN "use" ELSE IF gone THEN "remove" ELSE "stat")
        /\ f' = IF fresh \/ gone \/ f[h].nonexistent THEN f
                ELSE [f EXCEPT ![h].stamp = attr_disk]
        /\ UNCHANGED <<attr_disk, attr_edits, attrcache, allocated, cached, failures>>

(* git_attr_file__load(): the stamp is taken before the file is read        *)
AttrStat(t) ==
    /\ th[t].pc = "stat"
    /\ th' = [th EXCEPT ![t].pc = "read", ![t].stat = attr_disk]
    /\ UNCHANGED <<attr_disk, attr_edits, attrcache, allocated, cached, f, failures>>

(* A bug: the stamp is taken after the file was read.                       *)
MutStamp(t) == attr_disk

Stamp(t) == th[t].stat

Load(t, h) ==
    /\ th[t].pc = "read" /\ f[h] = Free
    /\ \A g \in Handle : g < h => f[g] # Free
    /\ f' = [f EXCEPT ![h] = [refcount |-> 1,
                              version |-> IF th[t].stat = 0 THEN 0 ELSE attr_disk,
                              stamp |-> 0, nonexistent |-> attr_disk = 0 \/ th[t].stat = 0,
                              session |-> t]]
    /\ th' = [th EXCEPT ![t].pc = "stamp", ![t].updated = h]
    /\ UNCHANGED <<attr_disk, attr_edits, attrcache, allocated, cached, failures>>

(* ... parsed, and stamped                                                  *)
SetStamp(t) ==
    /\ th[t].pc = "stamp"
    /\ f' = IF f[th[t].updated].nonexistent THEN f
            ELSE [f EXCEPT ![th[t].updated].stamp = Stamp(t)]
    /\ Goto(t, "upsert")
    /\ UNCHANGED <<attr_disk, attr_edits, attrcache, allocated, cached, failures>>

(* ... or the parser, or memory, fails: the object is freed again           *)
LoadFails(t) ==
    /\ th[t].pc = "stamp" /\ failures < MaxFailures
    /\ f' = Decref(f, th[t].updated)
    /\ th' = [th EXCEPT ![t].pc = IF th[t].file = NoAttr THEN "idle" ELSE "remove",
                        ![t].updated = NoAttr]
    /\ failures' = failures + 1
    /\ UNCHANGED <<attr_disk, attr_edits, attrcache, allocated, cached>>

Upsert(t) ==
    /\ th[t].pc = "upsert"
    /\ f' = Decref(Incref(f, th[t].updated), cached)
    /\ cached' = th[t].updated
    /\ Goto(t, "drop")
    /\ UNCHANGED <<attr_disk, attr_edits, attrcache, allocated, failures>>

(* the reference that the lookup took is given back                         *)
DropOld(t) ==
    /\ th[t].pc = "drop"
    /\ f' = Decref(f, th[t].file)
    /\ th' = [th EXCEPT ![t].pc = "use", ![t].file = th[t].updated, ![t].updated = NoAttr]
    /\ UNCHANGED <<attr_disk, attr_edits, attrcache, allocated, cached, failures>>

Removes(h) == cached = h

(* attr_cache_remove() compares and swaps: it drops the reference of the     *)
(* cache only when the cache still refers to this object.                   *)
AttrRemove(t) ==
    LET h == th[t].file
    IN  /\ th[t].pc = "remove"
        /\ cached' = IF cached = h THEN NoAttr ELSE cached
        /\ f' = IF Removes(h) THEN Decref(f, h) ELSE f
        /\ Goto(t, "release")
        /\ UNCHANGED <<attr_disk, attr_edits, attrcache, allocated, failures>>

(* The caller is done with the rules.                                      *)
Use(t) ==
    /\ th[t].pc = "use"
    /\ Goto(t, "release")
    /\ UNCHANGED <<attr_disk, attr_edits, attrcache, allocated, cached, f, failures>>

Release(t) ==
    /\ th[t].pc = "release"
    /\ f' = Decref(f, th[t].file)
    /\ th' = [th EXCEPT ![t] = AtRest]
    /\ UNCHANGED <<attr_disk, attr_edits, attrcache, allocated, cached, failures>>

(* git_attr_session__init(): the thread begins another operation, with a     *)
(* key that no parsed file has.                                            *)
NewSession(t) ==
    /\ th[t].pc = "idle"
    /\ f' = [h \in Handle |-> IF f[h].session = t THEN [f[h] EXCEPT !.session = NoAttr]
                              ELSE f[h]]
    /\ UNCHANGED <<attr_disk, attr_edits, attrcache, allocated, cached, th, failures>>

(* Somebody edits, or removes, the file.                                   *)
EditAttr ==
    /\ attr_edits < MaxVersion
    /\ attr_edits' = attr_edits + 1
    /\ attr_disk' \in {0, attr_edits + 1}
    /\ UNCHANGED <<attrcache, allocated, cached, f, th, failures>>

AttrNext ==
    \/ \E t \in Thread :
          \/ InitCheck(t) \/ InitSwap(t) \/ Lookup(t) \/ OutOfDate(t) \/ AttrStat(t)
          \/ SetStamp(t) \/ LoadFails(t) \/ Upsert(t) \/ DropOld(t) \/ AttrRemove(t)
          \/ Use(t) \/ Release(t) \/ NewSession(t)
          \/ \E h \in Handle : Load(t, h)
    \/ EditAttr

AttrSpec == AttrInit /\ [][AttrNext]_attr_vars

-----------------------------------------------------------------------------
(* Properties                                                              *)

Pointers(h) ==
    Cardinality({t \in Thread : th[t].file = h})
    + Cardinality({t \in Thread : th[t].updated = h})
    + (IF cached = h THEN 1 ELSE 0)

(* The count of a parsed file is the number of pointers to it, of the cache  *)
(* and of every thread that uses or replaces it; so nobody points to freed   *)
(* memory, and memory nobody points to is freed.                            *)
AttrRefCounts == \A h \in Handle : f[h].refcount = Pointers(h)

(* When no thread is inside git_attr_cache__get(), a cached file that would  *)
(* pass for up to date has the contents of the file: a stamp that a thread   *)
(* moved forward, or took while the file was edited, never outlives the      *)
(* calls that overlap.                                                      *)
RestIsHonest ==
    (cached # NoAttr /\ \A t \in Thread : th[t].pc \in {"idle", "init", "use", "release"})
        => (~f[cached].nonexistent /\ f[cached].stamp = attr_disk => f[cached].version = attr_disk)

(* Two threads that set the cache up at the same time leave one cache, the   *)
(* one that the repository refers to.                                       *)
OneCache ==
    (\A t \in Thread : th[t].pc \notin {"init", "swap"}) => allocated = {attrcache}

(* What git_attr_cache__get() and its callers share lives exactly as long as  *)
(* it is used, one cache and every parsed file, and is not taken for current   *)
(* when it is not.                                                            *)
SharedIsSound == AttrRefCounts /\ OneCache /\ RestIsHonest
=============================================================================

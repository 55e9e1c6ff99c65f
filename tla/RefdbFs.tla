------------------------------ MODULE RefdbFs ------------------------------
(***************************************************************************)
(* The filesystem reference database of src/src/refdb_fs.c, at the grain   *)
(* of its system calls: loose files and their ".lock" files, packed-refs   *)
(* and packed-refs.lock, the reflogs, and per handle the sorted cache of   *)
(* packed-refs (src/src/sortedcache.c).                                    *)
(*                                                                         *)
(* A process is one git_repository handle with one thread.  A call is a    *)
(* straight-line program of steps; a step is one system call, or one       *)
(* computation between two of them.  An error drops the rest of the        *)
(* program but for the cleanup of the lock files; a jump to the end of a   *)
(* tail ("not really error", "continue") skips to the release of its lock. *)
(*                                                                         *)
(* A reference name is a number, so that "sorted by name" means something. *)
(* References are direct; HEAD is a symbolic reference to HeadRef.         *)
(*                                                                         *)
(* The stamp of packed-refs is its time, size and inode number             *)
(* (git_futils_filestamp_check).  An inode number comes back only after    *)
(* two replacements of the file, so that a stamp cannot be equal by chance *)
(* before a handle has loaded the file, two calls have replaced it and the *)
(* handle looks again: four calls.  No instance has that many of two       *)
(* handles, and within them a stamp names one file (fresh).                *)
(***************************************************************************)
EXTENDS Naturals, FiniteSets, Sequences, SequencesExt, TLC

CONSTANTS
    Proc,       \* repository handles
    NRefs,      \* how many reference names there are
    Oid,        \* object ids
    Broken,     \* the ids whose object is missing, so that it cannot be peeled
    Beneath,    \* <<r, s>>: the name of r is the name of s, "/" and more
    Logged,     \* the names under refs/heads, refs/remotes, refs/notes
    HeadRef,    \* the branch HEAD points at, or 0
    NoRef,      \* no such reference
    Corrupt,    \* the value of a loose file that does not parse
    NoFile,     \* no such file
    Free,       \* nobody's lock
    Stale,      \* a lock file whose process died
    NoCall,     \* a handle that is not in a call
    Calls,      \* Calls[p]: the calls that p may make
    MaxCalls,   \* bound on the number of calls of a behaviour
    MaxCrashes  \* bound on its crashes

Ref == 1 .. NRefs
HEAD == 0
Values == Oid \cup {NoRef}
WAS_LOOSE == "was loose"
SHADOWED == "shadowed"

VARIABLES
    loose,      \* loose[r]: the inode at refs/..., or NoFile
    lockf,      \* lockf[r]: the inode at its ".lock" path, or NoFile
    packed,     \* what packed-refs says of each name, or NoFile
    plock,      \* packed-refs.lock: Free, the process that holds it, or Stale
    log,        \* log[r]: the reflog, a sequence of <<old, new>>, or NoFile
    fresh,      \* the handles whose stamp of packed-refs is that of the file
    h,          \* h[p]: the state of handle p
    ncalls, crashes,
    before      \* history: the references when each handle's call began, and
                \* what has been true of them since

disk == <<loose, lockf, packed, plock, log>>
vars == <<loose, lockf, packed, plock, log, fresh, h, ncalls, crashes, before>>

NoEntry == [oid |-> NoRef, flags |-> {}]
EmptyCache == [r \in Ref |-> NoEntry]

(* What a reader of the two places finds for r.                             *)
Value(l, pk, r) ==
    IF l[r] # NoFile THEN l[r].val ELSE IF pk # NoFile THEN pk[r] ELSE NoRef
Visible(r) == Value(loose, packed, r)
AllVisible == [r \in Ref |-> Visible(r)]

Conflict(r, s) == <<r, s>> \in Beneath \/ <<s, r>> \in Beneath

-----------------------------------------------------------------------------
(* Programs.                                                               *)

Do(label, r, k) == <<[do |-> label, ref |-> r, fb |-> k]>>

Lookup(r) == Do("loose_lookup", r, 1) \o Do("packed_lookup", r, 1)
Lock(r, k) == Do("probe", r, k) \o Do("create", r, k)
CmpOld(r, old) == IF old = NoRef THEN <<>> ELSE Lookup(r) \o Do("cmp_old", r, 1)
Commit(r) == Do("flush", r, 1) \o Do("rename", r, 1) \o Do("release", r, 1)

(* refdb_fs_backend__write_tail()                                           *)
WriteTail(r, old) ==
    CmpOld(r, old) \o Lookup(r) \o Do("cmp_new", r, 1)
        \o Lookup(r) \o Do("reflog_append", r, 1) \o Commit(r)

(* refdb_fs_backend__delete_tail(); "unpack" goes on with packed_write().    *)
DeleteTail(r, old) ==
    CmpOld(r, old) \o Do("unlink", r, 1) \o Do("unpack", r, 1) \o Do("release", r, 1)

DeleteBody(r, old) == Lock(r, 1) \o Do("reflog_delete", r, 1) \o DeleteTail(r, old)

(* packed_write(); "packed_commit" goes on with packed_remove_loose().       *)
PackedWrite == Do("packed_lock", HEAD, 1) \o Do("packed_commit", HEAD, 1)

RemoveLoose(rs) ==
    FlattenSeq([i \in 1 .. Cardinality(rs) |->
        LET r == SetToSortSeq(rs, <)[i] IN
        Lock(r, 2) \o Do("reread", r, 2) \o Do("unlink_packed", r, 2)
                   \o Do("release", r, 2)])

(* A call is a record.  upd gives every name that a write, a delete or a    *)
(* transaction names the value it is to have; a rename goes from "from" to  *)
(* ref; "old" is the value the caller expects, NoRef for any.               *)
WriteBody(c) == Do("available", c.ref, 1) \o Lock(c.ref, 1) \o WriteTail(c.ref, c.old)

RenameBody(c) ==
    Do("available", c.ref, 1) \o Lookup(c.from) \o Do("carry", c.ref, 1)
        \o DeleteBody(c.from, NoRef) \o Lock(c.ref, 1)
        \o Do("reflog_rename", c.ref, 1) \o Commit(c.ref)

CompressBody ==
    Do("reload", HEAD, 1) \o FlattenSeq([r \in Ref |-> Do("load_loose", r, 1)]) \o PackedWrite

(* refdb_fs_backend__iterator() and its _next(): "list" goes on with         *)
(* loose_lookup() of what it lists.                                         *)
IterateBody ==
    Do("reload", HEAD, 1) \o FlattenSeq([r \in Ref |-> Do("list", r, 1)]) \o Do("next_packed", HEAD, 1)

(* A transaction locks its references and then commits them one by one, in  *)
(* the order in which its hash map holds them.                              *)
TransactionLock(c) == FlattenSeq([i \in 1 .. Len(c.order) |-> Lock(c.order[i], 1)])
TransactionCommit(c) ==
    FlattenSeq([i \in 1 .. Len(c.order) |->
        LET r == c.order[i] IN
        IF c.upd[r] = NoRef THEN DeleteTail(r, NoRef) ELSE WriteTail(r, NoRef)])

Program(c) ==
    CASE c.kind = "write" -> WriteBody(c)
      [] c.kind = "delete" -> DeleteBody(c.ref, c.old)
      [] c.kind = "rename" -> RenameBody(c)
      [] c.kind = "transaction" -> TransactionLock(c) \o TransactionCommit(c)
      [] c.kind = "compress" -> CompressBody
      [] c.kind = "lookup" -> Lookup(c.ref)
      [] c.kind = "iterate" -> IterateBody

-----------------------------------------------------------------------------
(* Handles.                                                                *)

(* spoiled is history: the names that a failed delete, rename or transaction *)
(* was about, or any call during which the process died; and HEAD once a    *)
(* compress has failed.                                                     *)
Idle(c, names) ==
    [call |-> NoCall, todo |-> <<>>, got |-> NoRef, held |-> {}, out |-> "ok",
     names |-> {}, carried |-> NoRef, cache |-> c, spoiled |-> names]

Named(c) == IF c.kind = "rename" THEN {c.from, c.ref} ELSE DOMAIN c.upd
Spoils(c) ==
    CASE c.kind = "write" -> {}
      [] c.kind = "compress" -> {HEAD}
      [] OTHER -> Named(c)

At(p, label) == h[p].todo # <<>> /\ Head(h[p].todo).do = label
R(p) == Head(h[p].todo).ref
K(p) == Head(h[p].todo).fb
New(p, r) == IF h[p].call.kind = "rename" THEN h[p].carried ELSE h[p].call.upd[r]

Become(p, x) == h' = [h EXCEPT ![p] = x]

Step(x) == [x EXCEPT !.todo = Tail(@)]

(* A bug: the error path returns without git_filebuf_cleanup().              *)
MutFailed(x) == [x EXCEPT !.out = "error", !.todo = <<>>, !.held = {}]

(* goto on_error / cleanup with an error: only the lock files are released. *)
Failed(x) ==
    [x EXCEPT !.out = "error",
              !.todo = FlattenSeq([i \in 1 .. Cardinality(x.held) |->
                           LET f == SetToSeq(x.held)[i] IN Do("release", f[1], f[2])])]

(* goto on_error without an error, or continue: on to the release.          *)
SkipTail(x) ==
    LET r == Head(x.todo).ref  k == Head(x.todo).fb
        i == CHOOSE j \in 1 .. Len(x.todo) :
                /\ SubSeq(x.todo, j, j) = Do("release", r, k)
                /\ \A n \in 1 .. j - 1 : SubSeq(x.todo, n, n) # Do("release", r, k)
    IN  [x EXCEPT !.todo = SubSeq(@, i, Len(@))]

(* packed_reload(): the cache is filled anew when the stamp differs, and    *)
(* cleared when there is no packed-refs.                                    *)
Reloaded(p) ==
    IF packed = NoFile THEN EmptyCache
    ELSE IF p \in fresh THEN h[p].cache
    ELSE [r \in Ref |-> [oid |-> packed[r], flags |-> {}]]
Stamped(p) == IF packed = NoFile THEN fresh ELSE fresh \cup {p}

Closed(v) == [val |-> v, by |-> Free]

(* A repository some git wrote: any references, loose, packed or both, a    *)
(* reflog for those that have one, and perhaps a packed-refs.lock of a      *)
(* process that died.                                                       *)
Init ==
    /\ loose \in [Ref -> {NoFile} \cup {Closed(v) : v \in Oid}]
    /\ packed \in [Ref -> Values] \cup {NoFile}
    /\ \A r, s \in Ref : Conflict(r, s) => Visible(r) = NoRef \/ Visible(s) = NoRef
    /\ lockf = [r \in Ref |-> NoFile]
    /\ plock \in {Free, Stale}
    /\ log = [r \in Ref \cup {HEAD} |->
                 IF r \in Logged /\ Visible(r) # NoRef
                 THEN << <<NoRef, Visible(r)>> >> ELSE NoFile]
    /\ fresh = {}
    /\ h = [p \in Proc |-> Idle(EmptyCache, {})]
    /\ ncalls = 0 /\ crashes = 0
    /\ before = [p \in Proc |-> NoCall]

-----------------------------------------------------------------------------
(* Calls.                                                                  *)

Invoke(p) ==
    /\ h[p].call = NoCall /\ ncalls < MaxCalls
    /\ \E c \in Calls[p] :
          Become(p, [Idle(h[p].cache, h[p].spoiled) EXCEPT !.call = c, !.todo = Program(c)])
    /\ ncalls' = ncalls + 1
    /\ UNCHANGED <<disk, fresh, crashes>>

Return(p) ==
    /\ h[p].call # NoCall /\ h[p].todo = <<>>
    /\ LET failures == IF h[p].out = "error" THEN Spoils(h[p].call) ELSE {}
       IN Become(p, Idle(h[p].cache, h[p].spoiled \cup failures))
    /\ UNCHANGED <<disk, fresh, ncalls, crashes>>

-----------------------------------------------------------------------------
(* Reading references.                                                     *)

(* packed_reload() as a step of its own.                                    *)
Reload(p) ==
    /\ At(p, "reload")
    /\ Become(p, Step([h[p] EXCEPT !.cache = Reloaded(p)]))
    /\ fresh' = Stamped(p)
    /\ UNCHANGED <<disk, ncalls, crashes>>

(* loose_lookup(): found, or not there and packed_lookup() is next.          *)
LooseLookup(p) ==
    /\ At(p, "loose_lookup")
    /\ LET f == loose[R(p)] IN
       Become(p, IF f = NoFile THEN Step(h[p])
                 ELSE Step(Step([h[p] EXCEPT !.got = f.val])))
    /\ UNCHANGED <<disk, fresh, ncalls, crashes>>

(* A bug: the cache is searched without packed_reload().                     *)
MutPackedLookup(p) ==
    /\ At(p, "packed_lookup")
    /\ Become(p, Step([h[p] EXCEPT !.got = h[p].cache[R(p)].oid]))
    /\ UNCHANGED <<disk, fresh, ncalls, crashes>>

(* packed_lookup()                                                           *)
PackedLookup(p) ==
    /\ At(p, "packed_lookup")
    /\ Become(p, Step([h[p] EXCEPT !.cache = Reloaded(p), !.got = Reloaded(p)[R(p)].oid]))
    /\ fresh' = Stamped(p)
    /\ UNCHANGED <<disk, ncalls, crashes>>

(* iter_load_loose_paths(), one name of the directory walk: it is kept for   *)
(* later, and its entry in the cache marked shadowed.                       *)
List(p) ==
    /\ At(p, "list")
    /\ LET r == R(p)
           rest == Tail(h[p].todo)
           mark(e) == IF e.oid # NoRef THEN [e EXCEPT !.flags = @ \cup {SHADOWED}] ELSE e
       IN Become(p, IF loose[r] = NoFile THEN Step(h[p])
                    ELSE [h[p] EXCEPT !.cache[r] = mark(@),
                                      !.todo = Front(rest) \o Do("next_loose", r, 1) \o <<Last(rest)>>])
    /\ UNCHANGED <<disk, fresh, ncalls, crashes>>

(* refdb_fs_backend__iterator_next(): the loose names that still load ...    *)
NextLoose(p) ==
    /\ At(p, "next_loose")
    /\ LET f == loose[R(p)] IN
       Become(p, Step(IF f = NoFile \/ f.val = Corrupt THEN h[p]
                      ELSE [h[p] EXCEPT !.names = @ \cup {R(p)}]))
    /\ UNCHANGED <<disk, fresh, ncalls, crashes>>

(* ... then the entries of a copy of the cache that are not shadowed.        *)
NextPacked(p) ==
    /\ At(p, "next_packed")
    /\ LET c == h[p].cache
           rs == {r \in Ref : c[r].oid # NoRef /\ SHADOWED \notin c[r].flags}
       IN Become(p, Step([h[p] EXCEPT !.names = @ \cup rs]))
    /\ UNCHANGED <<disk, fresh, ncalls, crashes>>

-----------------------------------------------------------------------------
(* Locking and writing a loose reference.                                  *)

(* A bug: the packed names are not compared.                                *)
MutAvailableClash(p) ==
    /\ At(p, "available")
    /\ LET c == Reloaded(p)
           x == [h[p] EXCEPT !.cache = c]
           exists == loose[R(p)] # NoFile \/ c[R(p)].oid # NoRef
       IN Become(p, IF ~h[p].call.force /\ exists THEN Failed(x) ELSE Step(x))
    /\ fresh' = Stamped(p)
    /\ UNCHANGED <<disk, ncalls, crashes>>

(* reference_path_available()                                               *)
Available(p) ==
    /\ At(p, "available")
    /\ LET c == Reloaded(p)
           x == [h[p] EXCEPT !.cache = c]
           exists == loose[R(p)] # NoFile \/ c[R(p)].oid # NoRef
           clash == \E s \in Ref \ {h[p].call.from} :
                        c[s].oid # NoRef /\ Conflict(R(p), s)
       IN Become(p, IF (~h[p].call.force /\ exists) \/ clash THEN Failed(x) ELSE Step(x))
    /\ fresh' = Stamped(p)
    /\ UNCHANGED <<disk, ncalls, crashes>>

(* A bug: the lock file of a dead process is left where it is.              *)
MutProbe(p) ==
    /\ At(p, "probe")
    /\ Become(p, Step(h[p]))
    /\ UNCHANGED <<disk, fresh, ncalls, crashes>>

(* loose_lock(), lock_file() with GIT_FILEBUF_FORCE: a lock file that is     *)
(* there is removed, whoever wrote it ...                                   *)
Probe(p) ==
    /\ At(p, "probe")
    /\ lockf' = [lockf EXCEPT ![R(p)] = NoFile]
    /\ Become(p, Step(h[p]))
    /\ UNCHANGED <<loose, packed, plock, log, fresh, ncalls, crashes>>

(* A directory stands where the file r, or a file where its directory, goes.*)
Blocked(r) ==
    \E s \in Ref : \/ <<s, r>> \in Beneath /\ (loose[s] # NoFile \/ lockf[s] # NoFile)
                   \/ <<r, s>> \in Beneath /\ loose[s] # NoFile

(* ... and the new one is created with O_EXCL.                              *)
Create(p) ==
    /\ At(p, "create")
    /\ LET r == R(p) IN
       IF lockf[r] # NoFile \/ Blocked(r)
       THEN Become(p, Failed(h[p])) /\ UNCHANGED lockf
       ELSE /\ Become(p, Step([h[p] EXCEPT !.held = @ \cup {<<r, K(p)>>}]))
            /\ lockf' = [lockf EXCEPT ![r] = [val |-> Corrupt, by |-> <<p, K(p)>>]]
    /\ UNCHANGED <<loose, packed, plock, log, fresh, ncalls, crashes>>

(* A bug: the outcome of the comparison is not looked at.                   *)
MutCmpOldRef(p) ==
    /\ At(p, "cmp_old")
    /\ Become(p, Step(h[p]))
    /\ UNCHANGED <<disk, fresh, ncalls, crashes>>

(* The old value check: cmp_old_ref() with the caller's old id.             *)
CmpOldRef(p) ==
    /\ At(p, "cmp_old")
    /\ Become(p, IF h[p].got = h[p].call.old THEN Step(h[p]) ELSE Failed(h[p]))
    /\ UNCHANGED <<disk, fresh, ncalls, crashes>>

(* The same with the new value: nothing to do if the reference has it.      *)
CmpNewRef(p) ==
    /\ At(p, "cmp_new")
    /\ Become(p, CASE h[p].got = Corrupt -> Failed(h[p])
                   [] h[p].got = New(p, R(p)) -> SkipTail(h[p])
                   [] OTHER -> Step(h[p]))
    /\ UNCHANGED <<disk, fresh, ncalls, crashes>>

Entries(r) == IF log[r] = NoFile THEN <<>> ELSE log[r]

(* The reflogs that tell of a write of r: HEAD's too, if HEAD points to r.   *)
Logs(r) == IF r = HeadRef THEN {r, HEAD} ELSE {r}

(* A reflog stands where the directory of r's reflog goes, or beneath it.    *)
LogBlocked(r) == \E s \in Ref : Conflict(r, s) /\ log[s] # NoFile

(* A bug: only a new reflog gets an entry.                                  *)
MutReflogAppend(p) ==
    /\ At(p, "reflog_append")
    /\ IF R(p) \in Logged /\ log[R(p)] = NoFile /\ h[p].got # Corrupt
       THEN log' = [log EXCEPT ![R(p)] = << <<h[p].got, New(p, R(p))>> >>]
       ELSE UNCHANGED log
    /\ Become(p, Step(h[p]))
    /\ UNCHANGED <<loose, lockf, packed, plock, fresh, ncalls, crashes>>

(* should_write_reflog(), reflog_append() and maybe_append_head().           *)
ReflogAppend(p) ==
    /\ At(p, "reflog_append")
    /\ LET r == R(p)
           entry == <<h[p].got, New(p, r)>>
       IN IF r \notin Logged /\ log[r] = NoFile
          THEN Become(p, Step(h[p])) /\ UNCHANGED log
          ELSE IF h[p].got = Corrupt \/ LogBlocked(r)
          THEN Become(p, Failed(h[p])) /\ UNCHANGED log
          ELSE /\ log' = [l \in DOMAIN log |->
                             IF l \in Logs(r) THEN Append(Entries(l), entry) ELSE log[l]]
               /\ Become(p, Step(h[p]))
    /\ UNCHANGED <<loose, lockf, packed, plock, fresh, ncalls, crashes>>

(* git_filebuf_commit() in loose_commit(): the value goes through the       *)
(* descriptor, which is closed, to its inode wherever that is linked now;   *)
Flush(p) ==
    /\ At(p, "flush")
    /\ LET r == R(p)
           written(f) == IF f # NoFile /\ f.by = <<p, 1>> THEN Closed(New(p, r)) ELSE f
       IN /\ lockf' = [lockf EXCEPT ![r] = written(@)]
          /\ loose' = [loose EXCEPT ![r] = written(@)]
    /\ Become(p, Step(h[p]))
    /\ UNCHANGED <<packed, plock, log, fresh, ncalls, crashes>>

(* then whatever is at the lock path is renamed over the reference.         *)
Rename(p) ==
    /\ At(p, "rename")
    /\ LET r == R(p) IN
       IF lockf[r] = NoFile \/ Blocked(r)
       THEN Become(p, Failed(h[p])) /\ UNCHANGED <<loose, lockf>>
       ELSE /\ loose' = [loose EXCEPT ![r] = lockf[r]]
            /\ lockf' = [lockf EXCEPT ![r] = NoFile]
            /\ Become(p, Step([h[p] EXCEPT !.held = @ \ {<<r, 1>>}]))
    /\ UNCHANGED <<packed, plock, log, fresh, ncalls, crashes>>

(* git_filebuf_cleanup(): close, and unlink the lock path unless renamed.   *)
Release(p) ==
    /\ At(p, "release")
    /\ LET r == R(p)
           closed(f) == IF f # NoFile /\ f.by = <<p, K(p)>> THEN [f EXCEPT !.by = Free] ELSE f
       IN /\ lockf' = IF <<r, K(p)>> \in h[p].held
                      THEN [lockf EXCEPT ![r] = NoFile] ELSE lockf
          /\ loose' = [loose EXCEPT ![r] = closed(@)]
          /\ Become(p, Step([h[p] EXCEPT !.held = @ \ {<<r, K(p)>>}]))
    /\ UNCHANGED <<packed, plock, log, fresh, ncalls, crashes>>

-----------------------------------------------------------------------------
(* Deleting a reference.                                                   *)

(* refdb_reflog_fs__delete()                                                *)
ReflogDelete(p) ==
    /\ At(p, "reflog_delete")
    /\ log' = [log EXCEPT ![R(p)] = NoFile]
    /\ Become(p, Step(h[p]))
    /\ UNCHANGED <<loose, lockf, packed, plock, fresh, ncalls, crashes>>

(* p_unlink() of the loose file; got then says whether there was one.        *)
Unlink(p) ==
    /\ At(p, "unlink")
    /\ loose' = [loose EXCEPT ![R(p)] = NoFile]
    /\ Become(p, Step([h[p] EXCEPT !.got = Value(loose, NoFile, R(p))]))
    /\ UNCHANGED <<lockf, packed, plock, log, fresh, ncalls, crashes>>

(* A bug: packed-refs is not written when a loose file was removed.         *)
MutUnpack(p) ==
    /\ At(p, "unpack")
    /\ LET c == Reloaded(p)
           x == Step([h[p] EXCEPT !.cache = [c EXCEPT ![R(p)] = NoEntry]])
       IN Become(p, CASE h[p].got # NoRef -> x
                      [] h[p].got = NoRef /\ c[R(p)].oid # NoRef ->
                            [x EXCEPT !.todo = PackedWrite \o @]
                      [] OTHER -> Failed(x))
    /\ fresh' = Stamped(p)
    /\ UNCHANGED <<disk, ncalls, crashes>>

(* The entry leaves the reloaded cache, which is then written.              *)
Unpack(p) ==
    /\ At(p, "unpack")
    /\ LET r == R(p)
           c == Reloaded(p)
           x == Step([h[p] EXCEPT !.cache = [c EXCEPT ![r] = NoEntry]])
       IN Become(p, CASE c[r].oid # NoRef -> [x EXCEPT !.todo = PackedWrite \o @]
                      [] c[r].oid = NoRef /\ h[p].got # NoRef -> x
                      [] OTHER -> Failed(x))
    /\ fresh' = Stamped(p)
    /\ UNCHANGED <<disk, ncalls, crashes>>

-----------------------------------------------------------------------------
(* Writing packed-refs.                                                    *)

(* packed_loadloose(), the file of one reference.                            *)
LoadLoose(p) ==
    /\ At(p, "load_loose")
    /\ LET r == R(p)
           f == loose[r]
       IN Become(p, CASE f = NoFile -> Step(h[p])
                      [] f # NoFile /\ f.val = Corrupt -> Failed(h[p])
                      [] OTHER -> Step([h[p] EXCEPT !.cache[r] =
                                           [oid |-> f.val, flags |-> {WAS_LOOSE}]]))
    /\ UNCHANGED <<disk, fresh, ncalls, crashes>>

(* git_filebuf_open() of packed-refs, without FORCE: exclusive, see Filebuf. *)
PackedLock(p) ==
    /\ At(p, "packed_lock")
    /\ IF plock = Free THEN plock' = p /\ Become(p, Step(h[p]))
                       ELSE Become(p, Failed(h[p])) /\ UNCHANGED plock
    /\ UNCHANGED <<loose, lockf, packed, log, fresh, ncalls, crashes>>

(* A bug: only the references that were loose are written.                  *)
MutPackedCommit(p) ==
    /\ At(p, "packed_commit")
    /\ LET c == h[p].cache
           packs == {r \in Ref : WAS_LOOSE \in c[r].flags}
       IN /\ packed' = [r \in Ref |-> IF r \in packs THEN c[r].oid ELSE NoRef]
          /\ fresh' = {}
          /\ Become(p, [h[p] EXCEPT !.todo =
                           RemoveLoose(packs) \o Do("updated", HEAD, 1) \o Tail(@)])
    /\ plock' = Free
    /\ UNCHANGED <<loose, lockf, log, ncalls, crashes>>

(* packed_find_peel() and packed_write_ref() of every entry, and the commit.  *)
(* An object that cannot be loaded fails the call; entries read from a      *)
(* fully-peeled packed-refs are not looked up again.                        *)
PackedCommit(p) ==
    /\ At(p, "packed_commit")
    /\ LET c == h[p].cache
           packs == {r \in Ref : WAS_LOOSE \in c[r].flags}
       IN IF \E r \in packs : c[r].oid \in Broken
          THEN Become(p, Failed(h[p])) /\ UNCHANGED <<packed, fresh>>
          ELSE /\ packed' = [r \in Ref |-> c[r].oid]
               /\ fresh' = {}
               /\ Become(p, [h[p] EXCEPT !.todo =
                                RemoveLoose(packs) \o Do("updated", HEAD, 1) \o Tail(@)])
    /\ plock' = Free
    /\ UNCHANGED <<loose, lockf, log, ncalls, crashes>>

(* packed_remove_loose(): under the reference's lock the file is read again, *)
(* and it is removed if it holds what was packed.                           *)
Reread(p) ==
    /\ At(p, "reread")
    /\ LET f == loose[R(p)] IN
       Become(p, IF f # NoFile /\ f.val = h[p].cache[R(p)].oid
                 THEN Step(h[p]) ELSE SkipTail(h[p]))
    /\ UNCHANGED <<disk, fresh, ncalls, crashes>>

UnlinkPacked(p) ==
    /\ At(p, "unlink_packed")
    /\ loose' = [loose EXCEPT ![R(p)] = NoFile]
    /\ Become(p, Step(h[p]))
    /\ UNCHANGED <<lockf, packed, plock, log, fresh, ncalls, crashes>>

(* git_sortedcache_updated(): the stamp of the file that is there now.       *)
Updated(p) ==
    /\ At(p, "updated")
    /\ fresh' = fresh \cup {p}
    /\ Become(p, Step(h[p]))
    /\ UNCHANGED <<disk, ncalls, crashes>>

-----------------------------------------------------------------------------
(* Renaming a reference: refdb_fs_backend__rename().                        *)

(* The value looked up is the one to be written under the new name.         *)
Carry(p) ==
    /\ At(p, "carry")
    /\ Become(p, IF h[p].got \in Oid THEN Step([h[p] EXCEPT !.carried = h[p].got])
                                     ELSE Failed(h[p]))
    /\ UNCHANGED <<disk, fresh, ncalls, crashes>>

(* refdb_reflog_fs__rename(), which may find no log to move, and the entry   *)
(* that reflog_append() adds.                                               *)
ReflogRename(p) ==
    /\ At(p, "reflog_rename")
    /\ LET from == h[p].call.from
           moved == IF log[from] # NoFile THEN log[from] ELSE Entries(R(p))
           left == [log EXCEPT ![from] = NoFile]
       IN IF \E s \in Ref : Conflict(R(p), s) /\ left[s] # NoFile
          THEN Become(p, Failed(h[p])) /\ UNCHANGED log
          ELSE /\ log' = [left EXCEPT ![R(p)] = Append(moved, <<h[p].carried, h[p].carried>>)]
               /\ Become(p, Step(h[p]))
    /\ UNCHANGED <<loose, lockf, packed, plock, fresh, ncalls, crashes>>

-----------------------------------------------------------------------------

(* The process dies: its memory goes, its descriptors close, files stay.    *)
Crash(p) ==
    /\ h[p].call # NoCall /\ crashes < MaxCrashes
    /\ LET closed(f) == IF f # NoFile /\ f.by \in {p} \X {1, 2}
                        THEN [f EXCEPT !.by = Free] ELSE f
       IN /\ lockf' = [r \in Ref |-> closed(lockf[r])]
          /\ loose' = [r \in Ref |-> closed(loose[r])]
    /\ plock' = IF plock = p THEN Stale ELSE plock
    /\ Become(p, Idle(EmptyCache, h[p].spoiled \cup Named(h[p].call)))
    /\ fresh' = fresh \ {p}
    /\ crashes' = crashes + 1
    /\ UNCHANGED <<packed, log, ncalls>>

(* What a call has seen of the references: the values of the one it looks   *)
(* up, the names that were there all along and at any time, or how it found *)
(* everything.                                                              *)
History(c, old, now) ==
    LET existing == {r \in Ref : now[r] # NoRef}
        o == IF old # NoCall THEN old
             ELSE CASE c.kind = "lookup" -> {}
                    [] c.kind = "iterate" -> [all |-> existing, some |-> {}]
                    [] OTHER -> now
    IN CASE c.kind = "lookup" -> o \cup {now[c.ref]}
         [] c.kind = "iterate" -> [all |-> o.all \cap existing, some |-> o.some \cup existing]
         [] OTHER -> o

Observe ==
    before' = [p \in Proc |-> IF h'[p].call = NoCall THEN NoCall
                              ELSE History(h'[p].call, before[p], AllVisible')]

Handle(p) ==
    \/ Invoke(p) \/ Return(p)
    \/ Reload(p) \/ LooseLookup(p) \/ PackedLookup(p)
    \/ List(p) \/ NextLoose(p) \/ NextPacked(p)
    \/ Available(p) \/ Probe(p) \/ Create(p) \/ CmpOldRef(p) \/ CmpNewRef(p)
    \/ ReflogAppend(p) \/ Flush(p) \/ Rename(p) \/ Release(p)
    \/ ReflogDelete(p) \/ Unlink(p) \/ Unpack(p)
    \/ LoadLoose(p) \/ PackedLock(p) \/ PackedCommit(p)
    \/ Reread(p) \/ UnlinkPacked(p) \/ Updated(p)
    \/ Carry(p) \/ ReflogRename(p)

Next == \E p \in Proc : (Handle(p) \/ Crash(p)) /\ Observe

Spec == Init /\ [][Next]_vars

-----------------------------------------------------------------------------
(* Properties of one writer among any number of readers.                   *)

IsRead(c) == c.kind \in {"lookup", "iterate"}
Writers == {p \in Proc : \E c \in Calls[p] : ~IsRead(c)}
Writer == CHOOSE p \in Writers : TRUE

Store == INSTANCE RefStore WITH
    Calls <- Calls[Writer],
    val <- AllVisible,
    call <- h[Writer].call,
    failed <- (h[Writer].out = "error"),
    spoiled <- h[Writer].spoiled \cap Ref,
    pre <- before[Writer]

(* The files, as a reader of the disk sees them, implement RefStore: a call *)
(* changes only the names it gives, to the values it gives, under its old   *)
(* value and force conditions; a failed write or compress has changed       *)
(* nothing at all, and compress never shows (all of refdb_fs.c).  What a    *)
(* failed delete or the death of the process may leave, and what the former *)
(* does to later calls for the same name, is said in RefStore.              *)
ImplementsStore == Store!Spec

Returned(p) == h[p].call # NoCall /\ h[p].todo = <<>>

(* A lookup by any handle, with its cache of packed-refs however old and    *)
(* its two reads a while apart, returns a value the reference had at some   *)
(* moment of the lookup (refdb_fs_backend__lookup, packed_reload).          *)
LookupSeen ==
    \A p \in Proc : Returned(p) /\ h[p].call.kind = "lookup" => h[p].got \in before[p]

(* A reference's reflog ends with the value the reference has, whenever no  *)
(* call is in progress (reflog_append before loose_commit), but for the     *)
(* names of a call that died, or of a delete or transaction that failed:    *)
(* the former may show the packed value, the latter fail in loose_commit()  *)
(* after the append, when packed_remove_loose() took the transaction's lock. *)
ReflogMatches ==
    (\A p \in Writers : h[p].call = NoCall) =>
        \A r \in Ref \ h[Writer].spoiled :
            Visible(r) # NoRef /\ log[r] # NoFile => Last(log[r])[2] = Visible(r)

(* Between calls a handle whose stamp is that of packed-refs has in its     *)
(* cache exactly what the file holds, although delete and compress change   *)
(* the cache before the file (packed_write, git_sortedcache_updated): for   *)
(* every name but those that a failed delete, rename or transaction of this *)
(* handle has taken out, and, once a compress has failed, those that it had *)
(* put in.                                                                  *)
CacheHonest ==
    \A p \in fresh : h[p].call = NoCall =>
        \A r \in Ref : \/ h[p].cache[r].oid = packed[r]
                       \/ r \in h[p].spoiled /\ h[p].cache[r] = NoEntry
                       \/ HEAD \in h[p].spoiled /\ WAS_LOOSE \in h[p].cache[r].flags

(* Two names of which one is a directory of the other never both exist      *)
(* (reference_path_available and the directories themselves), unless a      *)
(* delete of one of them failed and the writer does not see it any more.    *)
NoDirectoryConflict ==
    \A r, s \in Ref \ h[Writer].spoiled : Conflict(r, s) => Visible(r) = NoRef \/ Visible(s) = NoRef


(* An iteration shows no reference that did not exist at some moment of it, *)
(* although the packed ones come from a cache that is not looked at again   *)
(* (refdb_fs_backend__iterator_next).                                       *)
IterationSeen ==
    \A p \in Proc :
        Returned(p) /\ h[p].call.kind = "iterate" => h[p].names \subseteq before[p].some

(* A read returns what was there at some moment of it, although it looks at *)
(* two places one after the other (refdb_fs_backend__lookup and the          *)
(* iterator).                                                                *)
ReadsSeen == LookupSeen /\ IterationSeen

(* The names that no call in progress writes.                               *)
Quiet == {r \in Ref : \A p \in Proc : h[p].call = NoCall \/ r \notin Named(h[p].call)}

(* Packing, deleting others and crashing at any point of either never       *)
(* change the value of a reference nobody writes (packed_write before       *)
(* packed_remove_loose, and the second look the latter takes).              *)
Untouched == [][\A r \in Quiet : Visible(r)' = Visible(r)]_vars

(* Nobody finds a torn loose file, also after a crash at any point of       *)
(* loose_commit().                                                          *)
NeverTorn == \A r \in Ref : Visible(r) # Corrupt

(* The lock files of dead processes do not keep an unconditional write of a *)
(* loose reference, with no name above or beneath its own, from succeeding: *)
(* loose_lock() takes them over.                                            *)
ForcedWriteSucceeds ==
    \A p \in Proc :
        Returned(p) /\ h[p].call.kind = "write" /\ h[p].call.force /\ h[p].call.old = NoRef
                /\ (\A s \in Ref : ~Conflict(h[p].call.ref, s))
            => h[p].out = "ok"

(* What a dead process leaves behind harms nobody: no torn file, and no     *)
(* lock file that loose_lock() would wait for.                              *)
CrashIsHarmless == NeverTorn /\ ForcedWriteSucceeds

(* With any number of writers that steal each other's locks and fail half   *)
(* way: once no call is in progress and if none of them died, all their     *)
(* lock files are gone (git_filebuf_cleanup on every path of refdb_fs.c).   *)
NoLocksLeft ==
    crashes = 0 /\ (\A p \in Proc : h[p].call = NoCall) =>
        plock \notin Proc /\ \A r \in Ref : lockf[r] = NoFile

Moves(p) == h[p].todo # h'[p].todo

(* "It will return GIT_EMODIFIED if the reference's value at the time of    *)
(* updating does not match": a write with an old value replaces that value  *)
(* and no other (cmp_old_ref under loose_lock).                             *)
MatchingWriteMatches ==
    [][\A p \in Proc :
          At(p, "rename") /\ Moves(p) /\ h[p].call.old # NoRef
              /\ Visible(R(p))' # Visible(R(p))
                  => Visible(R(p)) = h[p].call.old]_vars

=============================================================================

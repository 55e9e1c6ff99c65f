# libgit2 in TLA+

A verification project for the library under `src/src` (libgit2 0.25 with a few
batch tools beside it): TLA+ modules that model its stateful parts, TLC
configurations that check them on small instances, and TLAPS proofs that hold
for every value of the constants. Paths below are relative to the repository's
parent, so the library's `cache.c` is `src/src/cache.c`.

## 1. The system

libgit2 is a library: it has no process of its own. Its state is (a) files in a
repository that any number of processes share, coordinated only by lock files
and atomic renames, and (b) memory that the threads of one process share:
caches, reference counts, mapped windows. What makes it hard is the same in both
halves: a value is looked up, something else happens, and the value is used.

| Part | Code | State | Operations | Modules |
| --- | --- | --- | --- | --- |
| lock files | `filebuf.c` | a file, its `.lock`, a descriptor, a sticky error | open, write, commit, cleanup | `Filebuf`, `AtomicFile`, `FileProofs` |
| reference database | `refdb_fs.c`, `sortedcache.c` | loose files, `packed-refs`, their locks, reflogs; per handle a cache of `packed-refs` and its stamp | lookup, iterate, write, delete, rename, compress, lock/unlock, reflog append/delete/rename | `RefdbFs` |
| reference API | `refdb.c`, `refs.c` | a map from names to values | the same, as a caller sees them | `RefStore` |
| transactions | `transaction.c` | a hash map of locked references | lock, set, remove, commit, free | in `RefdbFs` |
| object cache | `cache.c`, `object.c`, part of `odb.c` | maps from id to object, an rwlock each, reference counts, two memory counters | lookup, read, dup, free, store, evict, clear, switch off | `ObjectCache`, `ObjectCacheProofs` |
| memory windows | `mwindow.c`, `pack.c`, `odb_pack.c` | windows and their use counts, packs and theirs, the mapped total | open, close, get/put pack, register | `MWindow`, `MWindowProofs` |
| object database | `odb.c`, `odb_pack.c`, `odb_loose.c` | loose files, packs on disk, packs known, the object cache | read, write, exists, freshen, refresh, foreach | `Odb`, `FileProofs` |
| pack reading | `pack.c` | the cache of delta bases with counts and a limit | unpack | `PackCache`, `PackProofs` |
| pack writing | `pack-objects.c` | a segment of the list per thread, flags and condition variables | search, steal, join | `PackBuilder`, `PackProofs` |
| index | `index.c`, `tree-cache.c`, `diff_generate.c` | sorted entries, a map of them, cached trees, timestamps | add, remove, conflicts, clear, read, read tree, write, write tree; diff | `Index`, `IndexProofs`, `RacyIndex`, `FileProofs` |
| configuration | `config_file.c` | a file, the values read from it, a lock | refresh, get, set, delete, lock, unlock | `ConfigFile`, `ConfigText` |
| attribute cache | `attrcache.c`, `attr_file.c` | parsed files with counts and stamps | get, reload, replace, remove | `AttrCache`, `AttrCacheProofs` |
| revision walk, merge bases | `revwalk.c`, `merge.c`, `graph.c`, `commit_list.c` | flags on commits, lists, a queue | push, hide, next; bases, ahead/behind, descendant | `CommitGraph`, `RevWalk`, `MergeBase` |
| merge of trees | `merge.c`, `merge.h`, `merge_driver.c` | differences, similarities | `git_merge_trees` | `MergeTrees` |
| checkout | `checkout.c`, `fileops.c`, part of `iterator.c` and `diff_generate.c` | the working directory | `git_checkout_tree` | `Checkout` |
| rebase | `rebase.c`, `reset.c` | branches, HEAD, index, working directory, `rebase-merge/` | init, open, next, commit, finish, abort | `Rebase`, `RebaseProofs` |
| stash | `stash.c`, parts of `checkout.c`, `diff_tform.c` and `transaction.c` | index in memory and on disk, working directory, `refs/stash` and its reflog | save, apply, pop, drop | `Stash`, `StashProofs` |
| diff, formats, parsing, transports, bundled code | see `PROJECT.json` | | | not modelled: sequential data or I/O |

How they meet: reference writes, configuration and the index all go through the
lock files of `filebuf.c` (`RefdbFs` models the lock file steps again, because
the reference database opens them with `GIT_FILEBUF_FORCE` and unlinks and
renames files around them); reflogs are written under the reference's lock;
transactions hold several such locks; a parsed object comes out of the cache or
out of the object database, whose result is cached first.

## 2. The models

Each action is one step that others can observe: a system call, a critical
section, a load or a store outside of one. The comment above a definition names
the function; `PROJECT.json` gives its lines.

### Filebuf

One path, any set of processes. A file is an inode: the records it holds, how
many of its `NChunks` buffer-fulls are on disk, who wrote it and whether that
descriptor is still open. `orig` and `lock` are the inodes at the two names; a
writer writes to the inode it created even when the name has moved on. `Probe`
and `Create` are the two halves of the creation in `lock_file()` (the test of
the lock file and the `O_EXCL` create), `Load`/`LoadFail` read the old content, `Flush` is
`flush_buffer()` with its sticky error, `CloseFd`, `Rename`, `RenameFail` and
`Cleanup` are `git_filebuf_commit()` and `git_filebuf_cleanup()`, `Crash` is the
death of a process between any two steps. The flags are chosen initially, so one
run covers all four combinations.

`AtomicFile` is what a reader of the path is promised: a file that is one record longer
after each acknowledged update, and an update is one step (`Replace`). `ImplementsFile` says that
`Filebuf` implements it for every path that is opened without `GIT_FILEBUF_FORCE`: what is at the path
is the records of the inode there, and a writer is acknowledged when its rename is done.

### RefStore

What a caller with the only writing handle is promised: a map from names to
values; a call writes the names it gives and no others, under the old-value and
force conditions it states; a failed write changes nothing; packing
is invisible, also when it fails. What the code does not give is not promised. The older packed value of a
reference shows while it is being deleted (`Resurface`). A delete that fails, because
`packed-refs.lock` is taken or an object cannot be peeled, may have removed the loose value: the
reference is as it was, has the older value, or is gone. A call for several names (rename,
transaction) may fail with some of them done. A handle may not see a reference of which a delete
has failed (`spoiled`), since the entry is out of its cache and the file is as old as its stamp: it
may then create the name over the one that is there, and a second delete may succeed and leave the
packed value. A process that dies has done some of its call (`Die`).

### RefdbFs

The files and any number of handles (processes). A call is compiled into the
sequence of steps its function takes (`Program`, `WriteTail`, `DeleteTail`,
`PackedWrite`, ...), and each step is an action guarded by `At(p, label)`; the
error paths cut the sequence short (`Failed`) and release what `git_filebuf_cleanup`
releases. Modelled in full: the two-place lookup; the cache of `packed-refs` with
its stamp and the `WAS_LOOSE`/`SHADOWED` flags that iteration and packing leave in
it; the takeover of lock files by `GIT_FILEBUF_FORCE`; the second lock and second
look of `packed_remove_loose()`; directory/file conflicts (`Beneath`); objects
that cannot be peeled (`Broken`); reflogs with their directory conflicts; the
reflog of HEAD only in so far as the branch it points to is written; crashes.
`before` is a history variable for the properties of lookups and iterations, `spoiled` one of the
names whose call failed or died. A stamp stands for the file it was taken of; that another `packed-refs` has
the same time, size and inode number takes more calls than the instances make (see the
module's header). `IterateBody` lists the loose names one by one (`List`), so that another
handle may act between two of them.
Not modelled: symbolic references other than HEAD, globs, rewriting of reflogs,
and threads that share one handle.

### ObjectCache

Threads of one process that call `git_object_lookup()`, `git_odb_read()`, the
frees and dups of what these return, `git_cache_clear()` and
`GIT_OPT_ENABLE_CACHING`. A pointer is the id and the form (raw or parsed) of the
object in that block plus a number that tells equal ones apart; a block with
reference count 0 is free and may be handed out again. A map entry has a key and
a value, both pointers, since the key of an entry is the address of the id inside
the object. `cache_get()` is two steps, finding (`CacheGet`) and counting
(`CacheRef`); `cache_store()` is `Check` (which reads the two globals without
lock), `ShouldStore`, `WrLock`, `CacheEvictEntries`, `Put` with its four outcomes
and `Account`. A parsed tree or blob keeps its raw object (`inner`), so freeing
one may free the other (`Decref`, `Forget`).
Not modelled: lookups by prefix, failing locks, per-type size limits (one limit),
`git_cache_free()`; a cached object of the wrong type is returned and then freed
by the caller rather than inside the lookup.

### MWindow

The packs of a process, each opened once and counted (`GetPack`, `PutPack`), and
the windows through which they are read. A reader is a packed backend with its
thread. A function that takes `git__mwindow_mutex` is one step; `packfile_open()` is
three, since `p->mwf.fd` is read without a lock. `NewWindow` counts the bytes before
it maps them, closes idle windows while the total is above the limit, and tries
once more after a failed map. The choice of the windows is the code's loops, as recursive functions: `ScanLru` goes through
the windows with the test `Older`, `CloseLru` closes what it finds, one window at a time. The bytes counted
for maps that failed twice are never taken off again (`lost`), which `MappedIsAccounted` says.

### PackCache

`git_packfile_unpack()`: the chain of deltas is followed to its base or to an
entry of the delta base cache, then the deltas are applied. The count of an entry is
taken under the lock of the cache and dropped without it; a reader that adds its
base to the cache shares the buffer with it; an object too large is declined.

### PackBuilder

`ll_find_deltas()` and its threads: the division of the list (no segment starts
within a run of equal name hashes), the threads that count `remaining` down, the coordinator
that takes half of the largest rest, wakes the idle thread, and joins a thread that gets
nothing. A wait on a condition variable is a state that only a signal leaves, and a
signal nobody waits for is lost. A search may fail, and so may creating a thread (`CreateFails`): the function
returns an error at once, and the threads it has started go on.

### Odb

A handle that knows some packs, a directory of loose objects and packs that other
processes repack, loosen and prune, and the handle's object cache. A read asks the
packs it knows, then the loose files, then lists the packs again and asks them once more. A write of
an object that exists only freshens its file or pack, not more often than every
`FRESHEN_FREQUENCY`; a prune removes what is older than `Expire`. Others may also remove the
youngest of several copies, as `git prune-packed` and `git repack -d` do without looking at
times; what a write relied on is then older than it saw (`aged`).

### AttrCache

Threads that ask for one parsed attribute file while it is edited: the cache's
creation by compare-and-swap, lookup under the lock, the check of the stamp
without it, the reload, the replacement of the entry, a parse that fails.

### ConfigText and ConfigFile

`ConfigText` has the two passes over a text as functions on sequences of lines: the
one that reads values, and the one of `config_write()` that changes one variable
and copies the rest. `ConfigFile` is the backend around it: the texts as last read (one
file and one that it includes), the values, the lock, with or without
a transaction (`config_lock()`), while another process writes and a user edits. `doubled` remembers that a write
of the transaction was put behind text that a refresh had left in the buffer.

### Index and RacyIndex

`Index` has the entries with their stages, the map from paths, and the tree cache as a
function from directories to ids. Each call is one action with every invalidation it makes.
The id of a tree stands for what the tree holds, as a function from full paths to blobs.
`Subtree` is the body of `write_tree()`, given the subtrees of its directory, and `WriteDir` its
recursion, with the cached ids it takes without a look.
`RacyIndex` has one file and its entry with a clock so coarse that several
changes share a tick: adding, diffing, `truncate_racily_clean()` and the write of the
index are separate steps, between which the file may change.

### CommitGraph, MergeBase, RevWalk

A history is given by the parents and the times of its commits; times may
disagree with the order of the history. The algorithms are functions, with the order of the
lists and of the priority queue (a stable heap) as in the code, since what they return
depends on it.

### MergeTrees

`git_merge_trees()`: the three-way differences in path order, the directory/file
marks, exact and inexact rename detection with its best pairs, coalescing, the four
ways to resolve a difference, and the index with its stages. Content is a set of
lines; the similarity metric and the merge of contents stand for what is external to
`merge.c`. Flags that stop at the first conflict, favour a side or choose a merge driver, and modes, are left out.

### Checkout

The deltas of baseline and target with type changes, the walk along the unexpanded
working directory, the action of each delta as `checkout_action_*()` picks it, the removals with
`git_futils_rmdir_r()` and its blockers and empty parents, and the updates. Flags of
`GIT_CHECKOUT_` are a set. A file may have the mtime and size of its index entry, or be unreadable, so that the
checkout does not hash it (`unhashed`), and the update of an index entry may fail, which ends the checkout after
the file was written (`unindexed`). Submodules, symbolic links, filters, pathspecs,
conflicts in the index, and names that sort between a file and the directory of its name
(`a.c` between `a` and `a/b`) are left out.

### Rebase

Branches, HEAD, index, working directory and the state files, with one step per file
or reference that is written. The process may die between two steps, or while it writes
`rebase-merge/`, the message number or the working directory (`Torn*`); any write may fail, up to a bound.
Others may commit to the branch, and the user resolves or drops a conflict.
A tree is a base and the patches applied to it. Rebases in memory and of a detached
HEAD are left out.

### Stash

`git_stash_save()`, `apply`, `pop` and `drop` in the order of their writes: the scratch use
of the index in memory, the reflog before `refs/stash`, then the forced checkout file by file;
in an apply the three merges, the two checkouts with their refusals and conflict files, the
index and the drop. The content of a file is the set of versions it carries, so that "what the
user wrote is still somewhere" can be said of merged files and of files with conflict markers. Each
step may fail and the process may die at each. Between the calls a user edits, stages and commits.
What a stash carries of a file (`Carries`) is what it changed since the commit it was made on, and the
untracked files: a version that the commit has is no work of the user. `Outcome` is what is left of a call that
has returned, for the properties. `given_way` has what a checkout may write over by the code's own rules: an ignored
file that is not in the index, an untracked file where the stash changes a file that HEAD no longer has, and an
edit that the stamps of the index entry hide (`blind`). The merges are of one path each: renames are left out.

### MCStorage and MCWorkers

Two compositions. Each extends its components, whose variables and actions have
names of their own, so that the properties of a run are the definitions that the theorems of section 4
are about; only `ConfigFile` is instantiated, as `C`. The variable `part` picks the component that
runs; those that do not run keep one initial state.

## 3. The runs

| Run | Instance | What it asks |
| --- | --- | --- |
| `filebuf` | 3 writers, 2 buffer-fulls, 2 failing system calls, 1 crash, all flags | the protocol implements `AtomicFile`, no partly written file, every lock file eventually released |
| `refdb_store` | one handle, 3 names of which one is beneath another, 2 values of which one cannot be peeled, a `packed-refs.lock` that may be held; 2 calls of any kind, or up to 3 with 2 crashes | the files implement `RefStore`, with renames and transactions in both orders of the hash map; the cache and the reflogs agree with the files; no directory/file conflict; no torn reference; names nobody writes keep their value; stale lock files do not block forced writes |
| `refdb_handles` | two handles, 2 names, 2 values; 3 calls when the second reads, 2 when it writes | lookups and iterations return what was true at some moment of the call; no lock file is left, whoever fails where |
| `object_cache` | 2 threads, 2 caches, a commit and a tree, 2 blocks per object and form | exact reference counts, no dangling pointer, the right object, exact memory counters |
| `storage` | `MWindow` with 2 readers, 2 files, 3 windows; `Odb` with 1 object, 2 packs, 1 move, 4 ticks; `AttrCache` with 2 threads; `ConfigFile` with 2 calls, 2 changes by others; `RacyIndex` with 3 ticks, 2 changes; `Index` with 4 paths, 4 calls; `Rebase` with 3 patches (one conflicts, one is already applied), 2 crashes, 1 error; `Stash` with 2 files, one of them new or ignored, 3 edits, 2 calls, 1 crash or error | windows in use stay and the total is right; an object that moves once is found, one that was written stays; counts, stamps and the cache of attributes; writes of the configuration take effect and keep the rest; changed files are seen; cached trees and the map agree with the entries; a rebase goes on, ends or is given up correctly after any crash; a stash loses nothing the user wrote, and an apply restores what was saved or refuses and changes nothing |
| `workers` | `PackBuilder` with 8 objects, 3 threads, 1 failure; `PackCache` with 2 threads, chains of 3, one object too large and one broken; and all inputs of the algorithms described below | every object searched once, the search ends; the right object, no base freed in use, the limit kept, every read returns; the results of the algorithms |
| `refdb_v_matching`, `refdb_v_iterate`, `refdb_v_lost`, `checkout_v_safe`, `rebase_v_abort`, `stash_v_conflict` | see section 5 | what the documentation promises and the code does not keep |

The bounds are small but let the interesting cases happen, and every action
fires. Three writers are needed to have one hold the lock file while two probe; two
buffer-fulls so that a file can be half written; two errors so that a cleanup can
fail after a write. Two values and two names tell a stale value from a fresh one
and a touched name from an untouched one. Initial states have loose and packed values that agree, differ or are
missing, so that two calls of one handle suffice for a failed delete, a failed pack or a transaction and the
call that meets what it left; a crash is followed by a call of the next process, which may crash too. With a reader
a third call lets it load `packed-refs`, miss a change and look again. In `object_cache` the storage limit (1) lies below the size of the commit
(2) and at that of the tree (1) with `EvictCount` 1, so that stores with, without
and right after an eviction all happen, and a parsed tree can replace its raw
object in the map; two blocks per object and form are what two threads can need
at once.

The parts of `storage` and of `workers` share no variables: `part` says which one a
behaviour belongs to, and the other variables stay as they are, so that the run is
the union of the runs of its parts. In `storage`, one move during a lookup is what
`git_odb_read()` can cope with, and four ticks let a touch expire after it was relied upon; two crashes let one hit the
recovery from another; windows of 4 bytes in files of 7 and 3, under a limit of 8 and with requests of
2 bytes, make every request near an edge and force evictions of one and of two windows; three edits and two calls are enough for a conflict
between a stash and a later commit. A pop of an older stash takes more,
which the theorems of section 4 cover. In `workers`, eight objects with runs of
equal hashes over three threads give segments that are empty, stolen from, and stolen again.

The algorithms are checked on every input of these sets, chosen in two steps:
configuration texts of up to four lines from seven, with six kinds of write; all histories of four
commits with at most two parents under seven orders of times, and some of five in which
painting alone leaves a redundant base; walks with up to three pushes or hides and five
sortings, also of histories of eight commits most of which are hidden, where limiting stops before it has seen
all of them; checkouts between trees with a file or directory of one name and two files in it,
over every such working directory, under eight strategies, with a file that is not hashed, ignored, or whose index
entry cannot be updated; merges of trees with up
to two of the paths `a`, a name sorting right after it, and `a/b`, with and without
renames, with contents that merge and that do not.
Ids differ only where the properties tell them apart.
The results of `MergeTrees`, `Checkout`, `MergeBase` and `RevWalk` were also compared with those of
the library built from this source, on inputs of these kinds, and agree.

Deadlock is checked for `object_cache`, where a thread must always be able to go
on. It is not for the other runs, where the program stops when its bounded calls
are made, or the algorithm has its result; that the threads of `workers` do not block
each other is part of its liveness properties.

Fairness: `filebuf` assumes that a process inside a
filebuf call is scheduled until it returns (weak fairness of `Work`, which does
not include starting a new open, or crashing); in a library that is what "the call
returns" means. No fairness is assumed between processes. `workers` assumes the same of
threads: weak fairness of the coordinator and of each search thread
(`SearchAlwaysEnds`), and of each thread inside `git_packfile_unpack()` (`UnpackReturns`).
Nothing is assumed of condition variables beyond their definition: a signal wakes a
waiter if there is one.

Symmetry is used over values where no call or constant tells them apart (`refdb_handles`; not in
`refdb_store`, where one value cannot be peeled), over threads in
`object_cache`, and over the packs of `Odb` and the readers of `MWindow` in `storage`; no run with symmetry checks liveness.

Each property of a passing run has a mutant in `PROJECT.json`: a definition with a
plausible slip (a test of a count forgotten, a reference dropped twice, an error path
without cleanup) under which TLC finds the property violated. They stand before
the definitions they vary, with a comment that begins "A bug:". A property that is a
conjunction (`WindowsAreSafe`, `RebaseIsExact`, ...) names its parts in the component's
module, each with its own comment.

## 4. What is proved

Each theorem holds for every value of the constants that satisfies the assumptions
named with it; the bounds on calls, faults, crashes and clocks that the runs need are
constants too, so that the theorems hold for any of them. Every one has the same
shape: an inductive invariant, which was first checked by TLC on the instance of the
run, one step per action, and a last step that the invariant implies the property.

| Module | Theorems | Property of a run |
| --- | --- | --- |
| `FileProofs` | `ReplaceIsAtomic`, `FileIsAtomic`, `ModificationsAreSeen`, `WrittenObjectsStay`, `StoredObjectsAreFound`; `TypeCorrect`, `LockExcludes`, `LockNotLeaked`, `UpdatesAreKept` | `AlwaysComplete`, `ImplementsFile`, `ChangesAreSeen`, `WrittenStays`, `ObjectsAreFound` |
| `ObjectCacheProofs` | `CountsAreExact`, `NothingDangles`, `LookupsAreRight`; `TypeCorrect`, `LocksAreKept` | `RefCounts`, `NoDangling`, `RightObject` |
| `MWindowProofs` | `ReadersAreSafe`, `EvictionsAreLeastRecent` | `WindowsAreSafe`, `EvictsLeastRecent` |
| `PackProofs` | `SearchIsCorrect`, `BasesStayRightUntilFreed`, `BasesStayRight`; `TypeCorrect`, `NoObjectSearchedTwice`, `NoObjectLeftOut`, `EveryThreadJoined` | `SearchIsExact`, `BasesAreKept` |
| `AttrCacheProofs` | `SharedFilesAreSound` | `SharedIsSound` |
| `RebaseProofs` | `RebasesAreExact`, `RebasesCanBeAborted` | `RebaseIsExact`, `CanBeAborted` |
| `StashProofs` | `StashKeepsWork`, `StashAppliesOrRefuses` | `WorkIsKept`, `AppliesOrRefuses` |
| `IndexProofs` | `IndexDerives`; `IndexInvariant` | `DerivedAgrees` |

**Filebuf.** The theorems about paths opened without `GIT_FILEBUF_FORCE` rest on one
inductive invariant, `PlainInv`: while p is between create and commit, the inode at the
lock path is the one p created, it holds exactly what p flushed, and what p will
commit is the present content plus p's record. Exclusion is not inductive
alone: that two holders are the same process follows from "the lock file is mine".
`LockHasHolder` is the inductive form of `LockNotLeaked`.
`FileIsAtomic` is the refinement of `AtomicFile`: under `PlainInv` a successful `Rename` is the step `Replace`
of its writer, since what it puts in place is the content that is there with one record more, and
every other step leaves the path as it was. Fairness is not part of it. That no update is lost
(`UpdatesAreKept`) is now a consequence that the abstract specification shows by its shape.

**RacyIndex** (in `FileProofs`). `RacyInv`
says of an entry that a diff would pass by although the contents differ (`Unnoticed`)
that the index file it is compared with is not newer than the file, and that it does
not get that far in a write: `truncate_racily_clean()` has taken its size by then. The same
has to be said of the entry on disk, since a reload makes it the one in memory.

**ObjectCache.** `IInv` adds to `TypeOK` and `RefCounts`: who holds a
rwlock is at a place of its program where it does (`Locked`); entries are filed
under the id of their object, and the key is the value's own (`Filed`); what
`cache_get()` found stays in the map until it is counted (`Peeked`), which is
where the rwlock is needed; which references a thread has at each place of its
program (`Hands`), without which a free could drop a reference the thread does
not have; and that only live parsed objects keep a raw one (`Kept`).
A reference count is a sum of four cardinalities. `CountChange`, `OuterIncref`,
`OuterDecref`, `OuterSwap` and `CountStep` say once how each of them moves when
one thread's hand, one map entry or one `inner` pointer changes; `RefStep` then
goes through the actions. That nothing dangles follows from exact counts: who is
pointed to is counted (`ReferencedIsLive`).

**Odb** (in `FileProofs`). `WrittenStays` needs to know what a touch bought: an object of a pack touched
at time t has, until t + `Expire`, a copy no older than t (`TouchedStay`), in that pack or
wherever others have moved it, as long as nobody removed the youngest copy and left an older one (`aged`); and a write that finds the pack too young to touch may
rely on the touch before, which is why the promise is shorter by
`FRESHEN_FREQUENCY` (`WriteStays`). `ObjectsAreFound` needs to say, at each place of a
lookup, where the object still is among what the lookup has yet to ask (`Ahead`): before
the first move in the packs left or the loose file, after it in a pack that the one
refresh will list. For `git_odb_foreach()` it is the same with no move (`ForeachAhead`).

**MWindow.** `WindowInv` adds to the property that `packfile_open()` works on a pack
its backend holds, one thread at a time (`OpeningOK`), and that windows begin within their
files, and that two windows never have the same `last_used` (`Stamped`), so that the order of a list does not
matter. The mapped total is a number of bytes, so that what closing a set of windows takes off
is a fact about finite sets (`MemoryParts`, `MemoryFinite`) and not a sum to do induction
over. The two loops are recursive functions over sets of windows. What they compute is shown from their one-step
equations (`ScanStepIs`, `CloseStepIs`) by looking at a smallest set for which it would be wrong
(`Smallest`, `Fewer`): `ScanIs` says that the scan finds the least recently used idle window, `CloseIs` that the
windows closed are the oldest ones, no more than needed. `EvictStep` puts
this together with `BytesGrow` (more windows take at least as many bytes) and `LeastRecent`.

**PackCache.** `CacheInv` follows a reader: its stack is a chain of bases from the object asked
for (`Linked`), its buffer is the base of the element to apply next (`OnChain`), what it has
counted is in the cache; a base is filed under its own offset and small enough
(`Filed`); whoever keeps the lock is making room for a base that is not there
(`LockHeld`). A delta that does not inflate makes the code free a buffer that the cache may
own. `BasesStayRightUntilFreed` says for every pack that until this has happened all is
well, `BasesStayRight` that it does not happen when the base of a broken delta is too
large for the cache (in particular when no delta is broken), which is the pack of the run.

**PackBuilder.** The inductive invariant says that what is left to two threads lies apart (`Apart`), is
not searched yet (`Fresh`) and is where the thread's own pointer is (`InStep`); that
a thread that waits has nothing left (`Waiting`) and one not started has its whole
segment (`Begun`); that `active_threads` is the number of threads alive (`AliveCounted`);
and that each object is searched or left to somebody (`Covered`). None of these is
inductive alone: stealing half of a segment is safe only because the thief has
nothing left, and the end is the end only because the count is exact. `TypeCorrect`
says in particular that `remaining` does not wrap around.

**AttrCache.** `AttrInv` has which pointers a thread holds at each step (`PointersOK`),
that a file just parsed is its thread's own until the upsert (`Own`), that what was parsed is not
older than the stamp taken before (`ParsedOK`), and the reason why a stamp moved forward too
early does no lasting harm: somebody who is about to replace or remove that file (`CachedOK`).

**Rebase.** `RebaseInv` has what is on disk at each place of a call (`CallOK`), that `msgnum` is written
before an operation takes effect (`NumberOK`), that the picks of HEAD and of the index are in order
and not beyond `msgnum` (`DetachedOK`), and, for a rebase that began well and that nobody has begun to
abort (`strayed` is false), that what was reported as
committed is on the detached HEAD or on the branch (`Course`). Of the others `RebaseIsExact` says only that patches
are applied in order: after an init that failed or died half way a finish may succeed without any commit. An abort
is about the branch that was rebased: where HEAD was before is not recorded (section 5). Looking for this invariant
showed three places where the model was wrong, now as in the code: a conflict belongs to one
patch, a rebase of what a rebase made would have another `orig_head_id` (left out by the guard of `RebaseInit`),
and a crash leaves `msgnum` on disk.

**Stash.** `StashInv` follows a call through its writes. During a save the stash under
construction has what the files and the index had when the call began (`SaveInv`), and during its
reset each file is still as it was, or is in the stash that `refs/stash` lists (`ResetInv`,
`SavedInv`). During an apply the targets are merges of HEAD and the stash (`TargetsOK`), a file
that is not yet written is untouched (`Untouched`), and one that is written carries what the user
had there and what the stash brings (`ComesOut`, in `ApplyInv`); so a drop finds all of it out
(`DropInv`). All of this is said of the work that has not given way to a checkout (`Owed`). `TripInv` is about the apply that follows a save: file by file, what the working directory has at
each point of the two checkouts. Looking for the invariant showed that a stash must not be said to carry
the versions of its parent commit: a drop would have discarded work that was never in the stash alone
(`Carries` now has only what a stash adds).

**Index.** `CacheIsTrue` is not inductive, because it says nothing of an index in which a path is a file and a
directory at once, and a removal turns such an index into one without a collision while it
invalidates only the directories above the removed path. `IndexInv` says what a valid cached id is in every index: the tree
that `write_tree()` makes of the entries when nothing is cached (`Written`), in which a directory
replaces the file of its name (`Live`). It says the same of the index file, since a read puts that in
place. Each operation is shown to drop every directory above a path whose entry it changes
(`Drops`, `CacheKeeps`). That the tree writer, with whatever it takes from the cache, writes `Written` is
`WriteDirIs`: its recursion has one solution, since a directory where two solutions differ and that is
as deep as possible has no subtree where they differ; the depth is a number, so that this needs
the least element of a set of numbers and no induction over trees.

The assumptions on constants are weak: sets whose members are counted are finite, sizes and
bounds are numbers, null values are no members (`FilebufAssumption`, `NoFileAssumption`,
`CacheAssumption`, `BuilderAssumption`, `WindowAssumption`, `AttrAssumption`, `PackAssumption`,
`SizeAssumption`, `RebaseAssumption`, `StashAssumption`, `IndexAssumption`). Some say more.
`IndexAssumption`: the trees an index is read from have no file in place of a directory, as no tree object has,
and no path has more than `MaxDepth` components. `FreshenAssumption`: the expiry time
is not shorter than `FRESHEN_FREQUENCY` (2 seconds against two weeks). `WindowAssumption` also
has that a window is at least twice the bytes a caller reads at once. The theorems of
`MWindowProofs` are for packs that match their index (`Damaged = {}`): a pack that
`packfile_open()` gives up after registering its windows stays in the list (section 5).
TLC evaluates all of them in the `filebuf`, `object_cache`, `workers` and `storage` runs.

Leaves that need no arithmetic name Zenon, which proves them faster than the SMT solver;
the few that take longer than the provers' default time allow for it (`ZenonT`, `SMTT`).

Only model-checked:

* liveness (`LockReleased`, `SearchAlwaysEnds`, `UnpackReturns`): the prover has no rule for
  fairness and ENABLED that works here;
* `Accounting` of `ObjectCache`: sums over sets of sizes, whose induction is out of the prover's reach;
* `RefdbFs` and that it implements `RefStore`: the rest of a call is a sequence of
  steps, and what the remaining ones will do is an induction over that sequence;
* `ConfigText`, `MergeBase`, `RevWalk`, `MergeTrees`, `Checkout`: recursive functions of their input,
  compared with reference definitions on all small inputs. `ConfigFile` rests on `ConfigText`,
  whose folds over lines are such functions.

## 5. Findings

Each has a run whose one property states what the repository says; TLC's
counterexample is the behaviour of the code.

* `refdb_v_matching`: two handles update one reference from the same old value and
  both succeed. `loose_lock()` opens its lock file with `GIT_FILEBUF_FORCE`
  (`src/src/refdb_fs.c:738`), which removes the lock file of a handle that is between
  its old-value check and its rename. `src/include/git2/refs.h:211-213` promises
  `GIT_EMODIFIED`.
* `refdb_v_iterate`: an iteration skips a reference. `PACKREF_SHADOWED` marks that one
  iteration leaves in the shared cache (`src/src/refdb_fs.c:516`) outlive it, and hide
  the packed entry once the loose file is gone.
* `refdb_v_lost`: two handles that pack at the same time lose a reference neither of
  them writes. `packed-refs` is read before `packed-refs.lock` is taken
  (`src/src/refdb_fs.c:1396`) and written back from that copy.
* `checkout_v_safe`: a safe checkout removes files the user wrote. When the baseline has a
  file where the target has a directory, and the user made that directory too,
  `checkout_action_with_wd()` (`src/src/checkout.c:517`) takes the directory for an
  unmodified file and removes it with all that is in it.
  `src/include/git2/checkout.h:43-44` says that `GIT_CHECKOUT_SAFE` "will only make
  modifications that will not lose changes", and `src/docs/checkout-internals.md:153`
  (case 24) that this one needs force.
* `rebase_v_abort`: a rebase of a branch that HEAD does not name, aborted, leaves HEAD on that branch. Only the
  branch is recorded (`src/src/rebase.c:633-645`), and `git_rebase_abort()` makes HEAD name it
  (`src/src/rebase.c:1108-1113`). `src/include/git2/rebase.h:290-291` promises "their state before rebase began".
* `stash_v_conflict`: an apply writes over an untracked file and succeeds. When HEAD has deleted a file that
  the stash changes, the path is a conflict in the target index, which the checkout does not compare with the
  working directory, and `checkout_create_conflicts()` (`src/src/checkout.c:2181`) writes the stash's version.
  `src/include/git2/stash.h:158-161` says that `GIT_EMERGECONFLICT` is returned and the files remain unmodified.

Observations made while modelling, which the models show or contain but no run is
devoted to:

* `packed_remove_loose()` takes over a held lock file although its comment
  (`src/src/refdb_fs.c:925`) says that a locked reference is left alone: it asks for a
  lock with FORCE, and tests for `GIT_EEXISTS` where `lock_file()` would return
  `GIT_ELOCKED`.
* A rename deletes the old reference, and with it the reflog, before it moves the
  reflog (`src/src/refdb_fs.c:1255` against `src/include/git2/refs.h:368-369`), and
  before it locks the new name: if that fails, as it does when the new name is a
  directory of a loose one, the reference is gone.
* A delete with an old value that does not match has already removed the reflog.
* A delete that cannot get `packed-refs.lock` has already removed the loose file and changed the cache; stamp
  and file still agree, so the entry stays hidden from this handle (`spoiled`).
* A compress that fails has put loose values into the cache, which this handle's lookups return once the
  loose file is gone, whatever `packed-refs` says (the last disjunct of `CacheHonest`).
* A transaction that deletes one reference and then updates another, which the same handle has packed before, fails half
  way: `packed_remove_loose()` of the delete takes over and removes the lock file of the other,
  whose reflog is appended before its rename fails.
* `git_transaction_lock_ref()` does not check for directory conflicts with packed
  names; a transaction can create what `git_reference_create()` refuses.
* A failed copy for `GIT_FILEBUF_APPEND` leaves the lock file behind, since
  `created_lock` is set only after it (hence the exceptions in `NoLeakedLock` and
  `LockReleased`).
* `cache_store()` clears a cache that was switched off only if `used_memory > 0`
  (`src/src/cache.c:181`), so one that holds only objects of size 0 (the empty tree
  or blob) is kept; `src/include/git2/common.h:227-229` says each cache is cleared on
  the next attempt to update it.
* The storage limit is global, but a store evicts only from the cache it stores into.

Reading packs and objects:

* `new_window()` counts the bytes of a window before it maps them and does not take them
  back when both maps fail (`lost` in `MWindow`).
* `packfile_open()` that fails after registering its windows leaves its entry in the list
  of files (`Damaged` in `MWindow`).
* A delta that does not inflate makes `git_packfile_unpack()` free its base, also when
  the cache owns it, and leaves the entry counted. The `workers` run has such a delta with a base
  too large for the cache; section 4 says what is proved of other packs.
* `git_odb_read()` can answer `GIT_ENOTFOUND` for an object that is always on disk, when it
  moves twice during the read; `git_odb_foreach()` misses an object that is packed between its two parts.
* When a thread cannot be created, `ll_find_deltas()` returns while those started before
  it still run, and its caller frees the list they work on (`src/src/pack-objects.c:1348`). `SearchIsExact` is about
  a return with success.
* `git prune-packed` may remove a loose copy that a write has just touched and leave an older packed one, which can
  then be repacked and pruned as old (`aged`).

Files with a cache in front of them:

* A file that is emptied in the tick in which it was added is not noticed, since
  `truncate_racily_clean()` (`src/src/index.c:705`) marks an entry by the size 0; neither is a change between an
  add and the write of the index when the size and the tick stay.
* `git_index_add()` of a path that collides with a directory or file returns -1 after it has
  removed the colliding entries (`src/src/index.c:1339`).
* The stamp of a cached attribute file is moved forward by the check, before the
  file is parsed again; a failed parse or a second thread may then use the old contents once.
* `config_set()` compares with the values in memory and writes nothing when they are equal, also
  when the file has changed. A refresh of a file with includes parses the last file
  read only, so that `SetTakesEffect` and `ServesWhatItRead` are about files without; and it leaves the text of the first in
  its buffer, behind which a write in a transaction puts the new text (`doubled`, which `WriteKeepsOthers`
  exempts). After a refresh that failed, the checksum is already the new one, so that
  the next refresh finds nothing to do.

Histories:

* `git_graph_ahead_behind()` miscounts when times are equal or reversed.
* With `GIT_SORT_TIME` alone a walk may show a hidden commit (`src/include/git2/revwalk.h:141-142`).
* A topological walk with nothing to show reverses an empty vector (`src/src/revwalk.c:506`), which
  `RevWalk` gives the value `Crash`.

Merge and checkout:

* A directory/file conflict is not seen by `git_merge_trees()` when another name sorts between the two
  paths or when one of them is renamed; when both sides rename one file to different names, a file
  added at one of them is dropped (`MergeIsSound` is about merges without such names and, for directories,
  without renames). The default rename threshold of 50 holds
  only when no options are given (`src/src/merge.c:1715-1724`): in options that leave it 0, it is 0.
* A forced checkout that replaces a directory by a file returns success without that file when
  the working directory had neither; a safe one that replaces a missing file by a
  directory returns an error; a forced one fails when an untracked file stays in a
  directory that becomes a file.
* A safe checkout loses the user's files in two places (`Misplaced`, which `KeepsWork` exempts): files in a directory that
  the user made where the baseline has a file and the target a directory (the finding above); and a file
  that the user put in the place of a directory of the baseline, when the target removes a file of that directory:
  `GIT_RMDIR_REMOVE_BLOCKERS` removes what is in the way.
* A file with the mtime and the size of its index entry, or one that cannot be read, counts as unmodified
  (`src/src/checkout.c:203-220`), and is written over.

Stash (what `WorkIsKept` and `AppliesOrRefuses` leave out, each found as a counterexample):

* `commit_untracked()` and `commit_worktree()` use the repository's index in memory as scratch
  space and do not restore it when a later step fails. The index file still has the same checksum, so
  a second call of the same process goes on with the scratch contents: a second save then stores
  them as the index, and its reset, which does read the file, removes staged files that
  neither stash has (`leftover` in `Stash`).
* The reset is a checkout against HEAD: the index entry of a file that the working directory has as
  HEAD has it is not reset, and `git_stash_apply()` then refuses with `GIT_EUNCOMMITTED`. A file that was
  deleted from the index and is still there is saved twice with `GIT_STASH_INCLUDE_UNTRACKED`, and an
  apply makes a conflict of it (`Ordinary`).
* An ignored file is overwritten without notice by an apply that brings a file of that name, and by
  the reset of a save when HEAD has one.
* An untracked file in the way of a conflict is written over (`stash_v_conflict`), and so is an edited file whose
  stamps agree with its index entry.

Rebase:

* `git_rebase_init()` drops the error of `rebase_init_merge()` (`src/src/rebase.c:734`): after a failed
  checkout HEAD still names a branch, and the commits of the rebase move that one (`strayed`).
* `git_rebase_next()` writes `msgnum` before it merges, and a failed merge is not done again;
  a message number that is half written keeps `git_rebase_open()` from succeeding.
* `git_rebase_finish()` that is repeated after the branch was moved fails with `GIT_EMODIFIED`.
* `git_rebase_abort()` overwrites what somebody committed to the branch meanwhile.

## 6. What is not modelled, and why

`PROJECT.json` lists every part. Text and object formats, diffing, path matching
and containers are sequential data processing: what could be said of them is what
they compute, and only the algorithms among them are candidates. Sockets, TLS,
compression and the bundled libraries are I/O or other people's code. The command
line tools are straight-line programs over the library.

Within the modelled parts: symbolic links, submodules, filters and pathspecs in
`Checkout`; recursive merges and the merge of file contents in `MergeTrees`; walks with a
callback that hides, and pushes of globs and ranges, in `RevWalk`; rebases in memory and
of a detached HEAD, and a lock file of the index left by a crash, in `Rebase`; writing
the pack and the search for a delta itself in `PackBuilder`; in `Stash` renames, binary files (of
which a conflict writes one side only), directories in the way of files, and a second process that changes
the list between the two halves of a pop, which drops by position.

## 7. Plan

1. Proofs: type correctness and lock-file hygiene of `RefdbFs` for any number of handles,
   which needs its programs as places and not as sequences.
2. `Odb` composed with `ObjectCache` (whose `Backend` step becomes its read), and an
   abstract store of immutable objects that both implement.
3. `Smart`: the negotiation of a fetch; `Indexer`: the incremental index of a pack that
   arrives in pieces; `Global`: initialisation and shutdown counting.
4. `Delta` and `PQueue`: algorithms against reference definitions.

------------------------------- MODULE Index -------------------------------
(****************************************************************************)
(* The entries of a git_index with its path map and its tree cache: index.c,  *)
(* tree-cache.c and the tree writer of tree.c.  A path is the sequence of its *)
(* components and a component a number, so that byte order is lexicographic   *)
(* order; no name is the beginning of another.  An id stands for a blob and   *)
(* its mode, and the id of a tree for what the tree holds: the function from  *)
(* the paths below it to their ids.  Stat data, flags, case folding and the   *)
(* NAME and REUC lists are left out: RacyIndex.tla has the stat data.         *)
(****************************************************************************)
EXTENDS Integers, Sequences

CONSTANTS
    IndexPath,      \* the paths of files
    MaxDepth,       \* the most components that a path has
    Id,             \* the blobs
    Stages,         \* 0 and the stages 1 to 3 of a conflict
    NoTree,         \* index->tree == NULL
    Sources,        \* the contents that read_tree and read_index are called with
    MaxIndexCalls   \* bound on the number of calls

VARIABLES
    entries,      \* index->entries: (path, stage) to id
    map,          \* index->entries_map: the keys that git_index_get_bypath finds
    tree,         \* index->tree: directory to [valid: entry_count >= 0, id]
    index_file,   \* the index file: entries and the TREE extension
    index_calls

index_vars == <<entries, map, tree, index_file, index_calls>>

----------------------------------------------------------------------------
Nothing == [k \in {} |-> 0]

(* path lies in the directory dir, at any depth.                                *)
Under(dir, path) == Len(dir) < Len(path) /\ \A i \in 1..Len(dir) : dir[i] = path[i]

(* The directories of a path; the root is left out.                              *)
Parents(path) == {SubSeq(path, 1, n) : n \in 1..(Len(path) - 1)}

(* The directories of a set of files, with the root.                             *)
Dirs(paths) == {<<>>} \cup UNION {Parents(p) : p \in paths}

(* The files have names and lie in directories; a tree holds no name that is a   *)
(* file and a directory at once.                                                 *)
ASSUME IndexAssumption ==
    /\ MaxDepth \in Nat
    /\ IndexPath \subseteq Seq(Nat)
    /\ \A p \in IndexPath : Len(p) \in 1..MaxDepth
    /\ Stages \subseteq 0..3 /\ 0 \in Stages
    /\ \A c \in Sources : /\ DOMAIN c \subseteq IndexPath
                          /\ \A p, q \in DOMAIN c : ~Under(p, q)

(* strcmp on paths.                                                              *)
Before(p, q) ==
    \/ Under(p, q)
    \/ \E i \in 1..Len(p) :
         i <= Len(q) /\ p[i] < q[i] /\ \A j \in 1..(i - 1) : p[j] = q[j]

(* What the tree of directory dir has to hold: the stage 0 entries below it.      *)
Content(e, dir) ==
    LET below == {k \in DOMAIN e : k[2] = 0 /\ Under(dir, k[1])}
    IN  [p \in {k[1] : k \in below} |-> e[<<p, 0>>]]

----------------------------------------------------------------------------
(* The tree cache.                                                               *)

(* A bug: only the directory of the path itself is invalidated, not the ones above. *)
MutInvalidatePath(t, path) ==
    IF t = NoTree THEN NoTree
    ELSE [d \in DOMAIN t |->
            IF d = SubSeq(path, 1, Len(path) - 1) THEN [t[d] EXCEPT !.valid = FALSE] ELSE t[d]]

(* git_tree_cache_invalidate_path(): the root and the cached directories of path.  *)
InvalidatePath(t, path) ==
    IF t = NoTree THEN NoTree
    ELSE [d \in DOMAIN t |-> IF Under(d, path) THEN [t[d] EXCEPT !.valid = FALSE] ELSE t[d]]

InvalidateAll(t, paths) ==
    IF t = NoTree THEN NoTree
    ELSE [d \in DOMAIN t |->
            IF \E p \in paths : InvalidatePath(t, p)[d] # t[d]
            THEN [t[d] EXCEPT !.valid = FALSE] ELSE t[d]]

(* git_tree_cache_read_tree(): a valid node for every directory of the tree.        *)
CacheReadTree(content) ==
    [d \in Dirs(DOMAIN content) |->
       [valid |-> TRUE,
        id |-> [p \in {r \in DOMAIN content : Under(d, r)} |-> content[p]]]]

(* git_tree_cache_get() and the test of write_tree(): a directory whose cached id    *)
(* is used; the root has no name, so it is not found here.                            *)
Cached(t, dir) == t # NoTree /\ dir # <<>> /\ dir \in DOMAIN t /\ t[dir].valid

(* write_tree() in tree.c: the names of directory d in order; a name with entries      *)
(* below it becomes a subtree, which replaces a file of the same name.                *)
Subtree(e, t, sub, d) ==
    LET subs == {s \in DOMAIN sub : Under(d, s) /\ Len(s) = Len(d) + 1}
        here == {k \in DOMAIN e : k[2] = 0 /\ Under(d, k[1]) /\ Len(k[1]) = Len(d) + 1}
        files == {k[1] : k \in here} \ subs
    IN  IF Cached(t, d) THEN t[d].id
        ELSE [p \in files \cup UNION {DOMAIN sub[s] : s \in subs} |->
                IF p \in files THEN e[<<p, 0>>] ELSE sub[SubSeq(p, 1, Len(d) + 1)][p]]

WriteDir(e, t) ==
    LET Sub[d \in Dirs({k[1] : k \in {l \in DOMAIN e : l[2] = 0}})] == Subtree(e, t, Sub, d)
    IN  Sub[<<>>]

----------------------------------------------------------------------------
(* Operations on an index s = [e: entries, m: map, t: tree].                        *)

(* index_remove_entry(), for each of the keys.                                        *)
RemoveEntries(s, keys) ==
    [e |-> [k \in DOMAIN s.e \ keys |-> s.e[k]], m |-> s.m \ keys,
     t |-> InvalidateAll(s.t, {k[1] : k \in keys})]

(* has_file_name(): the entries below path, of the same stage.  The scan starts at     *)
(* the first entry of the index and ends at the first entry that does not begin with    *)
(* path; when the path is in the index already it starts, and ends, at that entry.       *)
HasFileName(s, path, stage) ==
    LET keys == {k \in DOMAIN s.e : Under(path, k[1])}
        scanned == /\ <<path, stage>> \notin DOMAIN s.e
                   /\ \A k \in DOMAIN s.e \ keys : \A l \in keys : Before(l[1], k[1])
    IN  IF scanned THEN {k \in keys : k[2] = stage} ELSE {}

(* has_dir_name(): the entries, of the same stage, at a directory of path.  The search   *)
(* goes up from the deepest directory and ends at one with an entry of this stage below   *)
(* it, unless another stage of the directory's own name is in between.                     *)
HasDirName(s, path, stage) ==
    LET Ends(dir) ==
          /\ <<dir, stage>> \notin DOMAIN s.e
          /\ \A k \in DOMAIN s.e : k[1] = dir => k[2] < stage
          /\ \E k \in DOMAIN s.e : Under(dir, k[1]) /\ k[2] = stage /\ ~Under(k[1], path)
    IN  {k \in DOMAIN s.e :
           /\ k[2] = stage /\ k[1] \in Parents(path)
           /\ \A dir \in Parents(path) : Under(k[1], dir) => ~Ends(dir)}

(* check_file_directory_collision(): the colliding entries are removed, and the call     *)
(* fails all the same.                                                                     *)
Collide(s, path, stage) ==
    LET s1 == RemoveEntries(s, HasFileName(s, path, stage))
    IN  RemoveEntries(s1, HasDirName(s1, path, stage))

(* index_insert() with replace.                                                           *)
Insert(s, path, stage, id) ==
    LET s1 == Collide(s, path, stage)
        key == <<path, stage>>
    IN  IF s1.e # s.e THEN [s |-> s1, ok |-> FALSE]
        ELSE [s |-> [e |-> [k \in DOMAIN s.e \cup {key} |-> IF k = key THEN id ELSE s.e[k]],
                     m |-> s.m \cup {key}, t |-> s.t], ok |-> TRUE]

(* index_conflict_remove(): the entries of path, or of every path, with a stage.           *)
ConflictRemove(s, paths) == RemoveEntries(s, {k \in DOMAIN s.e : k[1] \in paths /\ k[2] > 0})

State == [e |-> entries, m |-> map, t |-> tree]

Put(s) == entries' = s.e /\ map' = s.m /\ tree' = s.t

IndexCall == index_calls < MaxIndexCalls /\ index_calls' = index_calls + 1

----------------------------------------------------------------------------
(* git_index_add(): an entry of any stage; the cache hears of it when it is in.             *)
IndexAdd(path, stage, id) ==
    /\ IndexCall
    /\ LET r == Insert(State, path, stage, id)
       IN  Put(IF r.ok THEN [r.s EXCEPT !.t = InvalidatePath(@, path)] ELSE r.s)
    /\ UNCHANGED index_file

(* git_index_add_bypath() and git_index_add_frombuffer(): the conflict of the path is        *)
(* resolved as well.                                                                          *)
AddBypath(path, id) ==
    /\ IndexCall
    /\ LET r == Insert(State, path, 0, id)
           s == ConflictRemove(r.s, {path})
       IN  Put(IF r.ok THEN [s EXCEPT !.t = InvalidatePath(@, path)] ELSE r.s)
    /\ UNCHANGED index_file

(* git_index_remove(): the map loses the key before the entry is looked for.                  *)
RemoveStage(path, stage) ==
    /\ IndexCall
    /\ Put(RemoveEntries([State EXCEPT !.m = @ \ {<<path, stage>>}],
                         {<<path, stage>>} \cap DOMAIN entries))
    /\ UNCHANGED index_file

(* git_index_remove_bypath(): stage 0, and the conflict of the path.                           *)
RemoveBypath(path) ==
    /\ IndexCall
    /\ Put(ConflictRemove(RemoveEntries(State, {<<path, 0>>} \cap DOMAIN entries), {path}))
    /\ UNCHANGED index_file

RemoveDirectory(dir, stage) ==
    /\ IndexCall
    /\ Put(RemoveEntries(State, {k \in DOMAIN entries : Under(dir, k[1]) /\ k[2] = stage}))
    /\ UNCHANGED index_file

(* git_index_conflict_add(): stage 0 goes, then the given sides come in; one that collides      *)
(* ends the call with what was done before it.                                                  *)
ConflictAdd(path, sides, id) ==
    LET Side(acc, stage) ==
          IF acc.ok /\ stage \in sides THEN Insert(acc.s, path, stage, id) ELSE acc
        s0 == RemoveEntries(State, {<<path, 0>>} \cap DOMAIN entries)
    IN  /\ IndexCall
        /\ Put(Side(Side(Side([s |-> s0, ok |-> TRUE], 1), 2), 3).s)
        /\ UNCHANGED index_file

(* git_index_conflict_remove() and git_index_conflict_cleanup().                                *)
ConflictCleanup(paths) ==
    /\ IndexCall
    /\ Put(ConflictRemove(State, paths))
    /\ UNCHANGED index_file

(* git_index_clear(): the cache goes first, then every entry.                                   *)
Clear ==
    /\ IndexCall
    /\ Put([e |-> Nothing, m |-> {}, t |-> NoTree])
    /\ UNCHANGED index_file

(* git_index_read_tree(): the entries and the cache of a tree.                                    *)
ReadTree(content) ==
    /\ IndexCall
    /\ LET e == [k \in (DOMAIN content) \X {0} |-> content[k[1]]]
       IN  Put([e |-> e, m |-> DOMAIN e, t |-> CacheReadTree(content)])
    /\ UNCHANGED index_file

(* git_index_read_iterator(): the entries that are new, changed or gone.                         *)
Changed(e, new) ==
    (DOMAIN e \ DOMAIN new) \cup {k \in DOMAIN new : k \notin DOMAIN e \/ e[k] # new[k]}

(* git_index_read_index(): the entries of another index; the cache keeps the directories in     *)
(* which nothing changes.                                                                        *)
ReadIndex(content, stage) ==
    /\ IndexCall
    /\ LET new == [k \in (DOMAIN content) \X {stage} |-> content[k[1]]]
       IN  Put([e |-> new, m |-> DOMAIN new,
                t |-> InvalidateAll(tree, {k[1] : k \in Changed(entries, new)})])
    /\ UNCHANGED index_file

(* git_tree__write_index(): nothing to do when the root is cached; otherwise the cache is        *)
(* read anew from the tree that was written.  An index with conflicts is refused.                  *)
WriteTree ==
    /\ IndexCall
    /\ \A k \in DOMAIN entries : k[2] = 0
    /\ tree' = IF tree # NoTree /\ tree[<<>>].valid THEN tree
               ELSE CacheReadTree(WriteDir(entries, tree))
    /\ UNCHANGED <<entries, map, index_file>>

(* write_index() with write_tree_extension(): an invalid directory is written without an id.       *)
IndexWrite ==
    /\ IndexCall
    /\ index_file' = [e |-> entries, t |-> tree]
    /\ UNCHANGED <<entries, map, tree>>

(* git_index_read(): the index is cleared and parsed from the file.                                 *)
IndexRead ==
    /\ IndexCall
    /\ Put([e |-> index_file.e, m |-> DOMAIN index_file.e, t |-> index_file.t])
    /\ UNCHANGED index_file

IndexInit ==
    /\ entries = Nothing /\ map = {} /\ tree = NoTree
    /\ index_file = [e |-> Nothing, t |-> NoTree]
    /\ index_calls = 0

Directories == UNION {Parents(p) : p \in IndexPath}

IndexNext ==
    \/ \E p \in IndexPath, id \in Id : AddBypath(p, id) \/ \E i \in Stages : IndexAdd(p, i, id)
    \/ \E p \in IndexPath : RemoveBypath(p) \/ \E i \in Stages : RemoveStage(p, i)
    \/ \E d \in Directories, i \in Stages : RemoveDirectory(d, i)
    \/ \E p \in IndexPath, sides \in SUBSET (Stages \ {0}) \ {{}}, id \in Id : ConflictAdd(p, sides, id)
    \/ ConflictCleanup(IndexPath) \/ \E p \in IndexPath : ConflictCleanup({p})
    \/ \E c \in Sources : ReadTree(c) \/ \E i \in Stages : ReadIndex(c, i)
    \/ Clear \/ WriteTree \/ IndexWrite \/ IndexRead

IndexSpec == IndexInit /\ [][IndexNext]_index_vars

----------------------------------------------------------------------------
(* A path that is a file and a directory at stage 0 at once.                                         *)
Colliding(e) == \E k, l \in DOMAIN e : k[2] = 0 /\ l[2] = 0 /\ Under(k[1], l[1])

(* The ids of the tree cache are never stale.  After any sequence of adds, removals, conflicts,     *)
(* reads and writes, a directory that the cache calls valid has the id of the tree that the          *)
(* stage 0 entries below it make, so that git_index_write_tree(), which uses cached ids without        *)
(* a look at the entries, writes the tree of the entries.  (A path that is both a file and a           *)
(* directory has no such tree.)                                                                        *)
CacheIsTrue ==
    tree # NoTree /\ ~Colliding(entries)
      => \A d \in DOMAIN tree : tree[d].valid => tree[d].id = Content(entries, d)

(* git_index_get_bypath(), which looks into the map, finds exactly the entries of the sorted            *)
(* vector: every insertion, removal and replacement keeps the two together.                            *)
MapAgrees == map = DOMAIN entries

(* What the index derives from its entries, the cached trees and the map, agrees with them after         *)
(* every call.                                                                                         *)
DerivedAgrees == CacheIsTrue /\ MapAgrees
=============================================================================

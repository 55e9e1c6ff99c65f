------------------------------ MODULE Checkout ------------------------------
(***************************************************************************)
(* Checkout of a tree (src/checkout.c): the differences between the        *)
(* baseline and the target are walked together with the working directory, *)
(* one action is picked for each difference, and the actions are applied,  *)
(* removals before updates.                                                *)
(*                                                                         *)
(* A path is a sequence of names.  A tree is a function from the paths of  *)
(* its files to blobs; the working directory has files and a set of        *)
(* directories.  An input is a record of base, target, work, the paths in  *)
(* the index (which has the baseline's content), the files that are not    *)
(* hashed, those whose index entry cannot be updated, the ignored paths,   *)
(* and the strategy, a set of the flags of GIT_CHECKOUT_.  Submodules,     *)
(* symbolic links, executable bits, filters, pathspecs, the conflicts of   *)
(* the index and its contents afterwards are left out.  The baseline is a  *)
(* tree, whose entries have no size, and the file system is case sensitive. *)
(***************************************************************************)
EXTENDS Integers, Sequences, SequencesExt, TLC

CONSTANTS NoBlob            (* the id of the side of a delta that is absent *)

Under(d, p) == IsStrictPrefix(d, p)

Before(p, q) ==
  \/ Under(p, q)
  \/ \E i \in DOMAIN p \cap DOMAIN q :
       p[i] < q[i] /\ SubSeq(p, 1, i - 1) = SubSeq(q, 1, i - 1)

(* What a tree has at a path. *)
Kind(tree, p) ==
  IF p \in DOMAIN tree THEN "file"
  ELSE IF \E q \in DOMAIN tree : Under(p, q) THEN "dir" ELSE "none"

Blob(tree, p) == IF p \in DOMAIN tree THEN tree[p] ELSE NoBlob

Ancestors(p) == { SubSeq(p, 1, n) : n \in 1 .. (Len(p) - 1) }

-----------------------------------------------------------------------------
(* The diff of two trees that checkout asks for, with unmodified entries   *)
(* and with type changes between a file and a directory.  The code takes a *)
(* file for a type change when the next item of the other tree is below    *)
(* it, which is when any is: no name here sorts between a file and what    *)
(* would be below a directory of its name.                                 *)
Delta(in, p) ==
  LET old == Kind(in.base, p)
      new == Kind(in.target, p)
  IN  [ path   |-> p,
        old    |-> old,
        new    |-> new,
        ids    |-> { Blob(in.base, p), Blob(in.target, p) },
        blob   |-> Blob(in.target, p),
        status |-> IF "dir" \in {old, new} THEN "TYPECHANGE"
                   ELSE IF new = "none" THEN "DELETED"
                   ELSE IF old = "none" THEN "ADDED"
                   ELSE IF in.base[p] = in.target[p] THEN "UNMODIFIED"
                   ELSE "MODIFIED" ]

Deltas(in) ==
  LET paths == SetToSortSeq(DOMAIN in.base \cup DOMAIN in.target, Before)
  IN  [ i \in DOMAIN paths |-> Delta(in, paths[i]) ]

-----------------------------------------------------------------------------
(* The working directory iterator does not expand directories: what is     *)
(* left of it is a sequence of paths, a directory standing for everything  *)
(* under it until it is advanced into.                                     *)
Children(in, d) ==
  SetToSortSeq({ p \in DOMAIN in.work.files \cup in.work.dirs :
                   Len(p) = Len(d) + 1 /\ IsPrefix(d, p) }, Before)

IsDir(in, p) == p \in in.work.dirs

Ignored(in, wd) == \E q \in in.ignored : IsPrefix(q, wd)

(* git_iterator_advance_over: whether the item is ignored. *)
OverIgnored(in, wd) ==
  LET within == { p \in DOMAIN in.work.files : IsPrefix(wd, p) }
  IN  \/ Ignored(in, wd)
      \/ IsDir(in, wd) /\ within # {} /\ \A p \in within : Ignored(in, p)

(* The item is removed although no delta mentions it. *)
WdOnlyRemoves(in, wd) ==
  LET tracked == \E p \in in.index :
                   IF IsDir(in, wd) THEN Under(wd, p) ELSE wd = p
  IN  IF tracked THEN "FORCE" \in in.strategy
      ELSE IF OverIgnored(in, wd) THEN "REMOVE_IGNORED" \in in.strategy
      ELSE "REMOVE_UNTRACKED" \in in.strategy

-----------------------------------------------------------------------------
(* Picking the action of a delta. *)
REMOVE      == {"REMOVE"}
UPDATE_BLOB == {"UPDATE_BLOB"}
CONFLICT    == {"CONFLICT"}

If(in, flag, yes, no) == IF flag \in in.strategy THEN yes ELSE no

(* A bug: the file is compared with the target only. *)
MutModified(in, d, wd) ==
  ~IsDir(in, wd) /\ wd \notin in.unhashed /\ in.work.files[wd] # d.blob

(* A file that has the mtime and the size of its index entry, or that       *)
(* cannot be hashed, is not modified, whatever it holds.                    *)
Modified(in, d, wd) ==
  ~IsDir(in, wd) /\ wd \notin in.unhashed /\ in.work.files[wd] \notin d.ids

Common(in, act) == IF "UPDATE_ONLY" \in in.strategy THEN act \ REMOVE ELSE act

NoWd(in, d) ==
  CASE d.status = "UNMODIFIED" -> If(in, "RECREATE_MISSING", UPDATE_BLOB, {})
    [] d.status = "ADDED"      -> If(in, "SAFE", UPDATE_BLOB, {})
    [] d.status = "MODIFIED"   -> If(in, "RECREATE_MISSING", UPDATE_BLOB, CONFLICT)
    [] d.status = "DELETED"    -> If(in, "SAFE", REMOVE, {})
    [] d.status = "TYPECHANGE" ->
         IF d.new = "dir" THEN If(in, "SAFE", UPDATE_BLOB, {}) ELSE {}

WithWdType(in, d, wd) ==
  LET both == REMOVE \cup UPDATE_BLOB
      act  == IF d.old = "dir"
              THEN IF IsDir(in, wd) THEN If(in, "SAFE", UPDATE_BLOB, {})
                                    ELSE If(in, "FORCE", REMOVE, CONFLICT)
              ELSE IF Modified(in, d, wd) THEN If(in, "FORCE", both, CONFLICT)
                                          ELSE If(in, "SAFE", both, {})
  IN  IF d.new = "dir" THEN act \ UPDATE_BLOB ELSE act

WithWd(in, d, wd) ==
  CASE d.status = "UNMODIFIED" ->
         IF Modified(in, d, wd) THEN If(in, "FORCE", UPDATE_BLOB, {}) ELSE {}
    [] d.status = "ADDED" ->
         IF Ignored(in, wd) THEN If(in, "DONT_OVERWRITE_IGNORED", CONFLICT, UPDATE_BLOB)
                            ELSE If(in, "FORCE", UPDATE_BLOB, CONFLICT)
    [] d.status = "DELETED" ->
         IF Modified(in, d, wd) THEN If(in, "FORCE", REMOVE, CONFLICT)
                                ELSE If(in, "SAFE", REMOVE, {})
    [] d.status = "MODIFIED" ->
         IF Modified(in, d, wd) THEN If(in, "FORCE", UPDATE_BLOB, CONFLICT)
                                ELSE If(in, "SAFE", UPDATE_BLOB, {})
    [] d.status = "TYPECHANGE" -> WithWdType(in, d, wd)

(* A bug: a file in the way of a directory may go in a safe checkout. *)
MutWithWdBlocker(in, d) == If(in, "SAFE", REMOVE \cup UPDATE_BLOB, CONFLICT)

WithWdBlocker(in, d) ==
  CASE d.status = "UNMODIFIED" -> If(in, "FORCE", REMOVE \cup UPDATE_BLOB, {})
    [] d.status = "DELETED"    -> If(in, "FORCE", REMOVE, CONFLICT)
    [] OTHER                   -> If(in, "FORCE", REMOVE \cup UPDATE_BLOB, CONFLICT)

WithWdDir(in, d, wd) ==
  LET both == REMOVE \cup UPDATE_BLOB
  IN  CASE d.status = "UNMODIFIED" -> If(in, "FORCE", both, {})
        [] d.status = "DELETED"    -> {}
        [] OTHER -> IF Ignored(in, wd)
                    THEN If(in, "DONT_OVERWRITE_IGNORED", CONFLICT, both)
                    ELSE If(in, "FORCE", both, CONFLICT)

WithWdDirEmpty(in, d) ==
  LET act == Common(in, NoWd(in, d)) IN IF act = {} THEN {} ELSE act \cup REMOVE

-----------------------------------------------------------------------------
(* The walk: ds is what is left of the deltas, wds of the working          *)
(* directory; the result has the actions of the deltas and the paths to    *)
(* remove besides.                                                         *)
Picked(act, rest) == [rest EXCEPT !.acts = <<act>> \o @]

RECURSIVE GetActions(_, _, _)
GetActions(in, ds, wds) ==
  IF ds = <<>>
  THEN [acts |-> <<>>, removes |-> SelectSeq(wds, LAMBDA w : WdOnlyRemoves(in, w))]
  ELSE
  LET d    == Head(ds)
      wd   == Head(wds)
      pick(act, left) == Picked(act, GetActions(in, Tail(ds), left))
      into == Children(in, wd) \o Tail(wds)
      noWd == pick(Common(in, NoWd(in, d)), wds)
  IN  IF wds = <<>> THEN noWd
      ELSE IF Before(wd, d.path) THEN
        IF Under(wd, d.path)
        THEN IF IsDir(in, wd) THEN GetActions(in, ds, into)
             ELSE pick(Common(in, WithWdBlocker(in, d)), Tail(wds))
        ELSE LET rest == GetActions(in, ds, Tail(wds))
             IN  IF WdOnlyRemoves(in, wd)
                 THEN [rest EXCEPT !.removes = <<wd>> \o @] ELSE rest
      ELSE IF wd = d.path /\ ~IsDir(in, wd)
        THEN pick(Common(in, WithWd(in, d, wd)), Tail(wds))
      ELSE IF IsPrefix(d.path, wd)
        THEN IF d.status = "TYPECHANGE"
             THEN pick(Common(in, WithWd(in, d, wd)),
                       IF d.old = "dir" THEN into ELSE Tail(wds))
             ELSE IF IsDir(in, wd) /\ Children(in, wd) = <<>>
             THEN pick(WithWdDirEmpty(in, d), wds)
             ELSE pick(Common(in, WithWdDir(in, d, wd)), wds)
      ELSE noWd

-----------------------------------------------------------------------------
(* Applying the actions. *)
EmptyDir(w, d) == ~\E p \in DOMAIN w.files \cup w.dirs : Under(d, p)

RECURSIVE RemoveEmptyParents(_, _)
RemoveEmptyParents(w, p) ==
  IF p = <<>> THEN w
  ELSE IF p \notin w.dirs THEN RemoveEmptyParents(w, Front(p))
  ELSE IF ~EmptyDir(w, p) THEN w
  ELSE RemoveEmptyParents([w EXCEPT !.dirs = @ \ {p}], Front(p))

Delete(w, gone) ==
  [ files |-> [ q \in DOMAIN w.files \ gone |-> w.files[q] ],
    dirs  |-> w.dirs \ gone ]

(* git_futils_rmdir_r with the flags of checkout: everything at the path   *)
(* goes, or the file that stands where a directory of it should be, and    *)
(* then every parent that is left empty.                                   *)
RmdirR(w, p) ==
  LET blocker == Ancestors(p) \cap DOMAIN w.files
      all     == { q \in DOMAIN w.files \cup w.dirs : IsPrefix(p, q) }
  IN  RemoveEmptyParents(Delete(w, IF blocker # {} THEN blocker ELSE all), p)

(* A blob is written unless something stands in the way, and its index     *)
(* entry is updated, which may fail.  The state of the checkout is the     *)
(* working directory and whether an error ended it.                        *)
CheckoutBlob(in, st, d) ==
  LET w       == st.work
      blocked == Ancestors(d.path) \cap DOMAIN w.files # {}
  IN  IF st.failed \/ ("UPDATE_ONLY" \in in.strategy /\ d.path \notin DOMAIN w.files)
      THEN st
      ELSE IF d.blob = NoBlob \/ d.path \in w.dirs THEN [st EXCEPT !.failed = TRUE]
      ELSE IF blocked THEN [st EXCEPT !.failed = "ALLOW_CONFLICTS" \notin in.strategy]
      ELSE [st EXCEPT !.work = [ files |-> (d.path :> d.blob) @@ w.files,
                                 dirs  |-> w.dirs \cup Ancestors(d.path) ],
                       !.failed = d.path \in in.unindexed]

RemoveTheOld(in, ds, got) ==
  LET queue == [ i \in DOMAIN ds |-> ds[i].path ]
      old   == SelectSeq([ i \in DOMAIN ds |-> i ],
                         LAMBDA i : "REMOVE" \in got.acts[i])
      gone  == [ i \in DOMAIN old |-> queue[old[i]] ] \o got.removes
  IN  FoldLeft(RmdirR, in.work, gone)

CreateTheNew(in, ds, got, w) ==
  LET new == SelectSeq([ i \in DOMAIN ds |-> i ],
                       LAMBDA i : "UPDATE_BLOB" \in got.acts[i])
      write(st, i) == CheckoutBlob(in, st, ds[i])
  IN  FoldLeft(write, [work |-> w, failed |-> FALSE, conflict |-> FALSE], new)

Iterator(in) ==
  LET ds  == Deltas(in)
      got == GetActions(in, ds, Children(in, <<>>))
      stopped == \E i \in DOMAIN got.acts : "CONFLICT" \in got.acts[i]
  IN  IF stopped /\ "ALLOW_CONFLICTS" \notin in.strategy
      THEN [work |-> in.work, failed |-> FALSE, conflict |-> TRUE]
      ELSE CreateTheNew(in, ds, got, RemoveTheOld(in, ds, got))

-----------------------------------------------------------------------------
(* The user's work: a file that is not the baseline's.  Not one that is     *)
(* ignored, which gives way, nor one that the checkout does not hash.       *)
Precious(in) ==
  { p \in DOMAIN in.work.files \ in.unhashed :
      in.work.files[p] # Blob(in.base, p) /\ ~Ignored(in, p) }

Asks(in, flags) == in.strategy \cap flags # {}

WorkKind(in, p) ==
  IF p \in DOMAIN in.work.files THEN "file"
  ELSE IF p \in in.work.dirs THEN "dir" ELSE "none"

Dirs(files) == UNION { Ancestors(p) : p \in DOMAIN files }

(* A file of the user is in the place of a directory of the baseline from   *)
(* which the target removes a file, or in a directory in the place of a     *)
(* file that becomes a directory.                                           *)
Misplaced(in, p) ==
  \/ \E q \in DOMAIN in.base \ DOMAIN in.target : Under(p, q)
  \/ \E q \in Ancestors(p) : Kind(in.base, q) = "file" /\ Kind(in.target, q) = "dir"

Survive(in, paths) ==
  LET after == Iterator(in).work.files
  IN  \A p \in paths : p \in DOMAIN after /\ after[p] = in.work.files[p]

(* A checkout that is asked neither to force nor to remove untracked files *)
(* loses no file that the user changed or added: it is still there, with   *)
(* its contents, whatever the target has at its path, and whether or not   *)
(* the checkout ends with a conflict or an error.  Exempt are ignored      *)
(* files, files that the checkout does not hash, and the misplaced ones:   *)
(* checkout_action_with_wd() takes a directory for an unmodified file, and *)
(* checkout_remove_the_old() removes a file that is in the way of the path *)
(* it is to remove, after the blocker was looked at for another delta.     *)
KeepsWork(in) ==
  Asks(in, {"FORCE", "REMOVE_UNTRACKED"}) \/
  Survive(in, { p \in Precious(in) : ~Misplaced(in, p) })

(* A safe checkout over a working directory that is exactly the baseline   *)
(* makes it exactly the target, files that became directories and          *)
(* directories that became files included, and leaves no empty directory.  *)
CleanReachesTarget(in) ==
  LET done == Iterator(in)
  IN  "SAFE" \in in.strategy /\ "UPDATE_ONLY" \notin in.strategy /\ in.unindexed = {} /\
      in.work = [files |-> in.base, dirs |-> Dirs(in.base)] =>
        done = [ work |-> [files |-> in.target, dirs |-> Dirs(in.target)],
                 failed |-> FALSE, conflict |-> FALSE ]

(* A forced checkout makes every file of the target and removes every file *)
(* that only the baseline has, whatever the user did to them, provided     *)
(* that a path that changes its type still has the baseline's type in the  *)
(* working directory, with no untracked file below it, that the files that *)
(* the checkout does not hash are the baseline's, and that the index can   *)
(* be updated.                                                             *)
ForceReachesTarget(in) ==
  LET done    == Iterator(in)
      changes == { p \in DOMAIN in.base \cup DOMAIN in.target :
                     "dir" \in {Kind(in.base, p), Kind(in.target, p)} }
  IN  "FORCE" \in in.strategy /\ ~Asks(in, {"UPDATE_ONLY", "DONT_OVERWRITE_IGNORED"}) /\
      in.unindexed = {} /\
      (\A p \in in.unhashed : in.work.files[p] = Blob(in.base, p)) /\
      (\A p \in changes : /\ WorkKind(in, p) = Kind(in.base, p)
                          /\ \A q \in DOMAIN in.work.files :
                               Under(p, q) => q \in DOMAIN in.base) =>
        /\ ~done.failed /\ ~done.conflict
        /\ \A p \in DOMAIN in.base \cup DOMAIN in.target :
             Blob(done.work.files, p) = Blob(in.target, p)

(* A checkout that nothing stands in the way of reaches its target.         *)
ReachesTarget(in) == CleanReachesTarget(in) /\ ForceReachesTarget(in)
=============================================================================

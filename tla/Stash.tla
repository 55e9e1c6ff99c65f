------------------------------- MODULE Stash -------------------------------
(***************************************************************************)
(* The stash (src/stash.c): git_stash_save, apply, drop and pop, in the    *)
(* order in which they touch the index in memory, the index file, the      *)
(* working directory, the reflog of refs/stash and refs/stash itself.      *)
(*                                                                         *)
(* The content of a file is the set of the versions it carries: the empty  *)
(* set is no file, a version the user wrote is a singleton, and a merge    *)
(* carries both sides.  A tree, an index or the working directory is a     *)
(* function from paths to contents.  An index entry with "unmerged" stands *)
(* for the stages of a conflict, and a file with "markers" for a file with *)
(* conflict markers.  Paths are files side by side, so no file is in the   *)
(* way of a directory, and no merge finds a rename: the merges are of one   *)
(* path each.  git_stash_save() sees every edit of a tracked file (that is  *)
(* RacyIndex's matter), a checkout of git_stash_apply() may miss some.  The *)
(* process may die between two steps, and a step that writes may fail.      *)
(***************************************************************************)
EXTENDS Integers, Sequences, Functions

CONSTANTS
    Path,         (* the files *)
    Version,      (* what the user may write into each *)
    Heads,        (* the trees HEAD may have at first *)
    Ignores,      (* the sets of paths .gitignore may name *)
    SaveFlags,    (* sets of "KEEP_INDEX", "INCLUDE_UNTRACKED", "INCLUDE_IGNORED" *)
    MaxEdits, MaxCalls, MaxFaults, MaxStashes

VARIABLES
    head,         (* the tree of HEAD *)
    index,        (* the index of the repository, in memory *)
    disk,         (* the index file *)
    workdir,      (* the files *)
    ignored,      (* the paths .gitignore names *)
    ref,          (* refs/stash exists *)
    log,          (* its reflog, the newest entry first *)
    pc,           (* the step of the call that runs, or "idle" *)
    op,           (* its arguments and local variables *)
    work,         (* <<p, v>>: the user wrote v into p and did not discard it *)
    given_way,    (* those of work that a checkout wrote over, as it may: see GivesWay *)
    leftover,     (* the index in memory that a failed call left was used *)
    edits, calls, faults

user_work == <<work, given_way>>
stash_vars ==
    <<head, index, disk, workdir, ignored, ref, log, pc, op, user_work, leftover, edits, calls, faults>>

Absent == {}
Empty == [p \in Path |-> Absent]
NoOp == [call |-> "none"]

(* What a file may carry.  "unmerged" is an index entry's, never a file's.   *)
Text == {"markers"} \cup UNION {Version[p] : p \in Path} \cup UNION {h[p] : h \in Heads, p \in Path}

ASSUME StashAssumption ==
    /\ MaxStashes \in Nat
    /\ \A h \in Heads : h \in [Path -> SUBSET Text]
    /\ "unmerged" \notin Text

Unmerged(idx) == \E p \in Path : "unmerged" \in idx[p]

(* The stash list that git_stash_foreach() shows.                           *)
Listed == IF ref THEN Range(log) ELSE {}

-----------------------------------------------------------------------------
(* Checkout of a target with a baseline, on files only: the action of a     *)
(* path.  same: the file has the size of the baseline's entry, which an     *)
(* index knows; a tree does not, so that only contents are compared.        *)
(* blind: they are not, as the file has the mtime and the size of its index *)
(* entry, which is the baseline's here, or cannot be read.                  *)
WdModified(base, target, wd, same, blind) ==
    ~blind /\ (wd \notin {base, target} \/ (wd # base /\ ~same))

SafeAction(base, target, wd, ign, same, blind) ==
    IF base = target THEN "none"
    ELSE IF base = Absent
    THEN IF wd = Absent \/ ign THEN "update" ELSE "conflict"
    ELSE IF wd = Absent
    THEN IF target = Absent THEN "remove" ELSE "conflict"
    ELSE IF WdModified(base, target, wd, same, blind) THEN "conflict"
    ELSE IF target = Absent THEN "remove" ELSE "update"

(* A forced checkout; tracked: the index has an entry for the path.         *)
ForceAction(base, target, wd, ign, tracked, flags) ==
    IF base = Absent /\ target = Absent
    THEN IF wd = Absent THEN "none"
         ELSE IF \/ tracked
                 \/ ign /\ "INCLUDE_IGNORED" \in flags
                 \/ ~ign /\ "INCLUDE_UNTRACKED" \in flags
              THEN "remove" ELSE "none"
    ELSE IF target = Absent THEN "remove"
    ELSE IF base = target /\ wd = base THEN "none"
    ELSE "update"

(* The three-way merge of one file; clean: the changes do not overlap.      *)
Merge(a, o, t, clean) ==
    IF o = t THEN o
    ELSE IF a = o THEN t
    ELSE IF a = t THEN o
    ELSE IF Absent \notin {a, o, t} /\ clean THEN o \cup t
    ELSE o \cup t \cup {"unmerged"}

MergeAll(a, o, t, clean) == [p \in Path |-> Merge(a[p], o[p], t[p], clean)]

-----------------------------------------------------------------------------
(* git_stash_save                                                           *)

Untracked(p) == index[p] = Absent /\ workdir[p] # Absent

HasChanges(flags) ==
    \E p \in Path :
        \/ head[p] # index[p]
        \/ index[p] # Absent /\ index[p] # workdir[p]
        \/ Untracked(p) /\ p \notin ignored /\ "INCLUDE_UNTRACKED" \in flags
        \/ Untracked(p) /\ p \in ignored /\ "INCLUDE_IGNORED" \in flags

(* git_stash_save() up to commit_index(): nothing to stash, or conflicts in *)
(* the index, is an error, and the index is written as a tree.              *)
Save(flags) ==
    /\ pc = "idle" /\ calls < MaxCalls /\ Len(log) < MaxStashes
    /\ calls' = calls + 1
    /\ IF HasChanges(flags) /\ ~Unmerged(index)
       THEN /\ pc' = "untracked"
            /\ op' = [call |-> "save", flags |-> flags, b |-> head, i |-> index,
                      u |-> Empty, w |-> Empty, before |-> workdir]
       ELSE UNCHANGED <<pc, op>>
    /\ leftover' = (leftover \/ index # disk)
    /\ UNCHANGED <<head, index, disk, workdir, ignored, ref, log, user_work, edits, faults>>

(* build_untracked_tree(): the index is cleared and used as scratch space.  *)
UntrackedTree ==
    [p \in Path |->
        IF /\ op.i[p] = Absent /\ workdir[p] # Absent
           /\ IF p \in ignored THEN "INCLUDE_IGNORED" \in op.flags
                               ELSE "INCLUDE_UNTRACKED" \in op.flags
        THEN workdir[p] ELSE Absent]

CommitUntracked ==
    /\ pc = "untracked"
    /\ IF op.flags \cap {"INCLUDE_UNTRACKED", "INCLUDE_IGNORED"} # {}
       THEN index' = UntrackedTree /\ op' = [op EXCEPT !.u = UntrackedTree]
       ELSE UNCHANGED <<index, op>>
    /\ pc' = "worktree"
    /\ UNCHANGED <<head, disk, workdir, ignored, ref, log, user_work, leftover, edits, calls, faults>>

Status(old, new) ==
    IF old = new THEN "UNMODIFIED"
    ELSE IF old = Absent THEN "ADDED" ELSE IF new = Absent THEN "DELETED" ELSE "MODIFIED"

(* The diff of the index and the working directory does not list ignored    *)
(* files, and calls the others that have no entry untracked.                *)
WdStatus(p, idx) ==
    IF idx[p] = Absent /\ workdir[p] # Absent
    THEN IF p \in ignored THEN "UNMODIFIED" ELSE "UNTRACKED"
    ELSE Status(idx[p], workdir[p])

(* The merge of two deltas as git diff does it: a is the change of the      *)
(* index, b that of the working directory, UNMODIFIED for no delta.         *)
MergeLikeCgit(a, b) ==
    IF b = "UNMODIFIED" \/ a = "DELETED" THEN a
    ELSE IF a = "UNMODIFIED" THEN b
    ELSE IF b = "DELETED" THEN IF a = "ADDED" THEN "UNMODIFIED" ELSE "DELETED"
    ELSE a

(* A bug: a file deleted from the index is taken to be deleted.             *)
MutDeltaMerge(a, b) == MergeLikeCgit(a, b)

(* stash_delta_merge(): a file deleted from the index may still be there.   *)
DeltaMerge(a, b) ==
    IF a = "DELETED" /\ b = "UNTRACKED" THEN "MODIFIED" ELSE MergeLikeCgit(a, b)

(* build_workdir_tree(): the index starts from the index's tree.            *)
WorktreeTree ==
    [p \in Path |->
        LET d == DeltaMerge(Status(op.b[p], op.i[p]), WdStatus(p, op.i))
        IN  CASE d \in {"ADDED", "MODIFIED"} -> workdir[p]
              [] d = "DELETED" -> Absent
              [] OTHER -> op.i[p]]

CommitWorktree ==
    /\ pc = "worktree"
    /\ index' = WorktreeTree
    /\ op' = [op EXCEPT !.w = WorktreeTree]
    /\ pc' = "reflog"
    /\ UNCHANGED <<head, disk, workdir, ignored, ref, log, user_work, leftover, edits, calls, faults>>

(* update_reflog(): git_reference_create() appends to the reflog before it  *)
(* renames the new reference into place.                                    *)
AppendReflog ==
    /\ pc = "reflog"
    /\ log' = <<[b |-> op.b, i |-> op.i, u |-> op.u, w |-> op.w]>> \o log
    /\ pc' = "ref"
    /\ UNCHANGED <<head, index, disk, workdir, ignored, ref, op, user_work, leftover, edits, calls, faults>>

(* The rest of it, and the start of reset_index_and_workdir(), which reads  *)
(* the index file again and picks the action of every path.                 *)
CreateRef ==
    LET target == IF "KEEP_INDEX" \in op.flags THEN op.i ELSE op.b
    IN  /\ pc = "ref"
        /\ ref' = TRUE
        /\ index' = disk
        /\ op' = [call |-> "save", flags |-> op.flags, i |-> op.i, before |-> op.before,
                  target |-> target,
                  todo |-> [p \in Path |->
                     ForceAction(head[p], target[p], workdir[p], p \in ignored,
                                 disk[p] # Absent, op.flags)]]
        /\ pc' = "reset"
        /\ UNCHANGED <<head, disk, workdir, ignored, log, user_work, leftover, edits, calls, faults>>

-----------------------------------------------------------------------------
(* The files of a checkout, one at a time, removals first.                  *)
Pending(todo) ==
    LET removals == {p \in Path : todo[p] = "remove"}
        writes == {p \in Path : todo[p] = "update"}
    IN  IF removals # {} THEN removals ELSE writes

(* The work of the user that the file at p carries.                         *)
Carried(p) == { x \in work : x[1] = p /\ x[2] \in workdir[p] }

(* An ignored file that the index does not have gives way to one of HEAD.   *)
Expendable(p) == p \in ignored /\ op.i[p] = Absent /\ "INCLUDE_IGNORED" \notin op.flags

ResetFile(p) ==
    /\ pc = "reset" /\ p \in Pending(op.todo)
    /\ workdir' = [workdir EXCEPT ![p] = op.target[p]]
    /\ index' = [index EXCEPT ![p] = op.target[p]]
    /\ op' = [op EXCEPT !.todo[p] = "none"]
    /\ given_way' = IF Expendable(p) THEN given_way \cup Carried(p) ELSE given_way
    /\ UNCHANGED <<head, disk, ignored, ref, log, pc, work, leftover, edits, calls, faults>>

(* The checkout writes the index file, and git_stash_save() returns.        *)
ResetDone ==
    /\ pc = "reset" /\ Pending(op.todo) = {}
    /\ disk' = index
    /\ pc' = "idle"
    /\ op' = [call |-> "saved", i |-> op.i, before |-> op.before, flags |-> op.flags]
    /\ UNCHANGED <<head, index, workdir, ignored, ref, log, user_work, leftover, edits, calls, faults>>

-----------------------------------------------------------------------------
(* git_stash_apply                                                          *)

StashCommit(pos) == log[pos + 1]

CleanIndex == index = head

(* The files of the parent, and those that only the stash has.              *)
StageNewFiles(e) == [p \in Path |-> IF e.b[p] = Absent THEN e.w[p] ELSE e.b[p]]

(* A bug: the tree of the working directory is taken for that of the index. *)
MutUnstashedIndex(e, reinstate, clean) == MergeAll(e.b, index, e.w, clean)

(* The indexes it merges: the one to reinstate, or the new files to stage,  *)
(* the modified files, and the untracked ones.                              *)
UnstashedIndex(e, reinstate, clean) ==
    MergeAll(e.b, index, IF reinstate THEN e.i ELSE StageNewFiles(e), clean)
ModifiedIndex(e, clean) == MergeAll(e.b, index, e.w, clean)
UntrackedIndex(e, clean) == MergeAll(Empty, index, e.u, clean)

(* What is left of a call that has returned.                                *)
Outcome(call, o) ==
    [call |-> call, pos |-> o.pos, reinstate |-> o.reinstate, of |-> o.of,
     before |-> o.before, staged |-> o.staged, after |-> o.after]

(* Up to the first checkout nothing is changed: no such stash, an index     *)
(* with changes, or conflicts in the index to reinstate are errors.  blind: *)
(* the edited files that its checkouts take for unmodified                  *)
Apply(pos, reinstate, pop, clean, same, blind) ==
    LET e == StashCommit(pos)
        args == [call |-> "apply", pos |-> pos, reinstate |-> reinstate, of |-> e,
                 before |-> workdir, staged |-> disk,
                 after |-> IF op.call = "saved" THEN op ELSE NoOp,
                 pop |-> pop, same |-> same, blind |-> blind, phase |-> "untracked",
                 restage |-> ~reinstate \/ e.b # e.i,
                 unstashed |-> UnstashedIndex(e, reinstate, clean),
                 modified |-> ModifiedIndex(e, clean),
                 target |-> UntrackedIndex(e, clean),
                 todo |-> [p \in Path |-> "none"]]
    IN  /\ pc = "idle" /\ calls < MaxCalls
        /\ ref /\ pos < Len(log)
        /\ \A p \in blind : Absent \notin {disk[p], workdir[p]} /\ workdir[p] # disk[p]
        /\ calls' = calls + 1
        /\ IF CleanIndex /\ ~(reinstate /\ Unmerged(args.unstashed))
           THEN pc' = "checkout" /\ op' = args
           ELSE UNCHANGED pc /\ op' = Outcome("refused", args)
        /\ leftover' = (leftover \/ index # disk)
        /\ UNCHANGED <<head, index, disk, workdir, ignored, ref, log, user_work, edits, faults>>

(* git_checkout_index of the untracked files, against HEAD, and then of the *)
(* modified ones, against the index.  It reads the index file first, and    *)
(* refuses before it changes a file.  The iteration of an index leaves out  *)
(* its conflicts.  For a stash without untracked files the code leaves the  *)
(* first checkout out, which here has nothing to do.                        *)
Stage0(c) == IF "unmerged" \in c THEN Absent ELSE c

Baseline == IF op.phase = "untracked" THEN head ELSE disk

CheckoutStart ==
    LET todo == [p \in Path |->
                   SafeAction(Baseline[p], Stage0(op.target[p]), workdir[p], p \in ignored,
                              op.phase = "untracked" \/ op.same, p \in op.blind)]
    IN  /\ pc = "checkout"
        /\ index' = disk
        /\ IF Unmerged(disk) \/ \E p \in Path : todo[p] = "conflict"
           THEN pc' = "idle" /\ op' = Outcome("refused", op)
           ELSE pc' = "files" /\ op' = [op EXCEPT !.todo = todo]
        /\ UNCHANGED <<head, disk, workdir, ignored, ref, log, user_work, leftover, edits, calls, faults>>

(* The index is updated only when the modified files are in conflict.       *)
UpdatesIndex == op.phase = "modified" /\ Unmerged(op.target)

(* An ignored file that is not tracked is written over, and so is an edited *)
(* one that is taken for unmodified.                                        *)
GivesWay(p) == p \in op.blind \/ (p \in ignored /\ Baseline[p] = Absent)

CheckoutFile(p) ==
    LET new == Stage0(op.target[p])
    IN  /\ pc = "files" /\ p \in Pending(op.todo)
        /\ workdir' = [workdir EXCEPT ![p] = new]
        /\ index' = IF UpdatesIndex THEN [index EXCEPT ![p] = new] ELSE index
        /\ op' = [op EXCEPT !.todo[p] = "none"]
        /\ given_way' = IF GivesWay(p) THEN given_way \cup Carried(p) ELSE given_way
        /\ UNCHANGED <<head, disk, ignored, ref, log, pc, work, leftover, edits, calls, faults>>

(* checkout_create_conflicts(): the side that is there, or a file with both *)
(* sides between markers, is written whatever the working directory has.    *)
ConflictFile(p) ==
    LET theirs == IF op.phase = "untracked" THEN op.of.u[p] ELSE op.of.w[p]
    IN  IF Absent \in {head[p], theirs} THEN head[p] \cup theirs
        ELSE head[p] \cup theirs \cup {"markers"}

CheckoutConflict(p) ==
    /\ pc = "files" /\ Pending(op.todo) = {}
    /\ "unmerged" \in op.target[p] /\ op.todo[p] = "none"
    /\ workdir' = [workdir EXCEPT ![p] = ConflictFile(p)]
    /\ index' = IF UpdatesIndex THEN [index EXCEPT ![p] = op.target[p]] ELSE index
    /\ op' = [op EXCEPT !.todo[p] = "written"]
    /\ given_way' = IF head[p] = Absent THEN given_way \cup Carried(p) ELSE given_way
    /\ UNCHANGED <<head, disk, ignored, ref, log, pc, work, leftover, edits, calls, faults>>

(* The checkout is done: the second one follows the first, and the index to *)
(* reinstate, or the new files, replace the index in memory.                *)
CheckoutDone ==
    /\ pc = "files" /\ Pending(op.todo) = {}
    /\ \A p \in Path : "unmerged" \in op.target[p] => op.todo[p] = "written"
    /\ IF op.phase = "untracked"
       THEN /\ pc' = "checkout"
            /\ op' = [op EXCEPT !.phase = "modified", !.target = op.modified]
            /\ UNCHANGED <<index, disk>>
       ELSE /\ pc' = "write"
            /\ index' = IF op.restage /\ ~Unmerged(op.target) THEN op.unstashed ELSE index
            /\ disk' = IF UpdatesIndex THEN index ELSE disk
            /\ UNCHANGED op
    /\ UNCHANGED <<head, workdir, ignored, ref, log, user_work, leftover, edits, calls, faults>>

(* git_index_write(), and git_stash_pop() goes on to drop the position.     *)
WriteIndex ==
    /\ pc = "write"
    /\ disk' = index
    /\ pc' = IF op.pop THEN "drop" ELSE "idle"
    /\ op' = Outcome("applied", op)
    /\ UNCHANGED <<head, index, workdir, ignored, ref, log, user_work, leftover, edits, calls, faults>>

-----------------------------------------------------------------------------
(* git_stash_drop under the lock of refs/stash: the reflog is written       *)
(* first, and refs/stash goes with the last entry.                          *)
DropReflog ==
    /\ pc = "drop"
    /\ LET at == op.pos + 1
       IN  log' = SubSeq(log, 1, at - 1) \o SubSeq(log, at + 1, Len(log))
    /\ pc' = IF Len(log) = 1 THEN "drop_ref" ELSE "idle"
    /\ UNCHANGED <<head, index, disk, workdir, ignored, ref, op, user_work, leftover, edits, calls, faults>>

DropRef ==
    /\ pc = "drop_ref"
    /\ ref' = FALSE
    /\ pc' = "idle"
    /\ UNCHANGED <<head, index, disk, workdir, ignored, log, op, user_work, leftover, edits, calls, faults>>

(* What a stash carries of the file at p: the changes since its parent.      *)
Carries(e, p) == (e.w[p] \ e.b[p]) \cup e.u[p]

(* The user drops a stash: what only that stash carried is discarded.  A    *)
(* position that is not in the list is an error and changes nothing.        *)
Drop(pos) ==
    /\ pc = "idle" /\ calls < MaxCalls /\ ref /\ pos < Len(log)
    /\ calls' = calls + 1
    /\ pc' = "drop"
    /\ op' = [call |-> "drop", pos |-> pos]
    /\ work' = { x \in work : \/ x[2] \in workdir[x[1]]
                              \/ \E i \in DOMAIN log \ {pos + 1} : x[2] \in Carries(log[i], x[1]) }
    /\ UNCHANGED <<head, index, disk, workdir, ignored, ref, log, given_way, leftover, edits, faults>>

-----------------------------------------------------------------------------
(* The user edits, stages (git_index_add_bypath, git_index_write) and       *)
(* commits the index.                                                       *)
Edit(p, c) ==
    LET new == { <<p, v>> : v \in c \ head[p] }
    IN
    /\ pc = "idle" /\ edits < MaxEdits /\ workdir[p] # c
    /\ edits' = edits + 1
    /\ workdir' = [workdir EXCEPT ![p] = c]
    /\ work' = (work \ Carried(p)) \cup new
    /\ given_way' = given_way \ new
    /\ op' = NoOp
    /\ UNCHANGED <<head, index, disk, ignored, ref, log, pc, leftover, calls, faults>>

Stage(p) ==
    /\ pc = "idle" /\ edits < MaxEdits /\ index[p] # workdir[p]
    /\ edits' = edits + 1
    /\ index' = [index EXCEPT ![p] = workdir[p]]
    /\ disk' = index'
    /\ op' = NoOp
    /\ leftover' = (leftover \/ index # disk)
    /\ UNCHANGED <<head, workdir, ignored, ref, log, pc, user_work, calls, faults>>

CommitIndex ==
    /\ pc = "idle" /\ edits < MaxEdits /\ index # head /\ ~Unmerged(index)
    /\ edits' = edits + 1
    /\ head' = index
    /\ work' = { x \in work : x[2] \notin index[x[1]] }
    /\ op' = NoOp
    /\ leftover' = (leftover \/ index # disk)
    /\ UNCHANGED <<index, disk, workdir, ignored, ref, log, pc, given_way, calls, faults>>

(* A step fails and the call returns: the index in memory stays as it is.   *)
Fail ==
    /\ pc # "idle" /\ faults < MaxFaults
    /\ faults' = faults + 1
    /\ pc' = "idle" /\ op' = NoOp
    /\ UNCHANGED <<head, index, disk, workdir, ignored, ref, log, user_work, leftover, edits, calls>>

(* The process dies, and the next one reads the index file.                 *)
Crash ==
    /\ faults < MaxFaults /\ (pc # "idle" \/ index # disk)
    /\ faults' = faults + 1
    /\ pc' = "idle" /\ op' = NoOp
    /\ index' = disk
    /\ UNCHANGED <<head, disk, workdir, ignored, ref, log, user_work, leftover, edits, calls>>

StashInit ==
    /\ head \in Heads /\ index = head /\ disk = head /\ workdir = head
    /\ ignored \in Ignores
    /\ ref = FALSE /\ log = <<>> /\ pc = "idle" /\ op = NoOp
    /\ work = {} /\ given_way = {} /\ leftover = FALSE /\ edits = 0 /\ calls = 0 /\ faults = 0

StashNext ==
    \/ \E flags \in SaveFlags : Save(flags)
    \/ CommitUntracked \/ CommitWorktree \/ AppendReflog \/ CreateRef
    \/ \E p \in Path : ResetFile(p)
    \/ ResetDone
    \/ \E pos \in 0 .. (MaxStashes - 1), reinstate, pop, clean, same \in BOOLEAN,
          blind \in SUBSET Path :
          Apply(pos, reinstate, pop, clean, same, blind)
    \/ CheckoutStart
    \/ \E p \in Path : CheckoutFile(p) \/ CheckoutConflict(p)
    \/ CheckoutDone \/ WriteIndex
    \/ \E pos \in 0 .. (MaxStashes - 1) : Drop(pos)
    \/ DropReflog \/ DropRef
    \/ \E p \in Path : Stage(p) \/ \E c \in {Absent} \cup {{v} : v \in Version[p]} : Edit(p, c)
    \/ CommitIndex \/ Fail \/ Crash

StashSpec == StashInit /\ [][StashNext]_stash_vars

-----------------------------------------------------------------------------
(* What the user wrote is in the working directory, or in a stash that      *)
(* git_stash_foreach() lists, at every moment of git_stash_save(), apply,   *)
(* pop and drop, also when a step fails or the process dies: the reset of   *)
(* the working directory comes after refs/stash, and a pop drops only what  *)
(* it has written out.  Not so once a call went on with the index in memory *)
(* that a failed git_stash_save() had used as scratch space (leftover), and *)
(* not so of what gave way to a checkout (given_way), which is: an ignored  *)
(* file without an index entry, where HEAD or the stash has a file (unless  *)
(* the save was asked to include ignored files); an untracked file where    *)
(* the stash changes a file that HEAD no longer has, which                  *)
(* checkout_create_conflicts() writes over; an edited file that a checkout  *)
(* takes for unmodified, by the mtime and size of its index entry or        *)
(* because it cannot be read.                                               *)
WorkIsKept ==
    ~leftover => \A x \in work \ given_way :
        \/ x[2] \in workdir[x[1]]
        \/ \E e \in Listed : x[2] \in Carries(e, x[1])

(* When git_stash_apply() refuses, the index file is as it was, and so are  *)
(* the files, but for the untracked ones of the stash (stash.h: "those      *)
(* files will remain in the working directory"); the stash is not dropped.  *)
RefusedIsUntouched ==
    op.call = "refused" =>
        /\ disk = op.staged /\ op.of \in Range(log)
        /\ \A p \in Path : workdir[p] = op.before[p] \/ op.of.u[p] # Absent

(* What a stash does not bring back: the index entry of a file that the     *)
(* working directory has as HEAD has it is not reset, and the next apply is *)
(* refused; a file deleted from the index that is there becomes untracked.  *)
Ordinary(s, p) ==
    /\ s.before[p] = head[p] => s.i[p] = head[p]
    /\ s.i[p] = Absent /\ head[p] # Absent => s.before[p] = Absent

(* A git_stash_save() and a git_stash_apply() of it with REINSTATE_INDEX    *)
(* and nothing in between give back the working directory and the index.    *)
RoundTrip ==
    LET s == op.after
    IN  ~leftover /\ op.call \in {"applied", "refused"} /\ op.pos = 0 /\ op.reinstate =>
          (s.call = "saved" /\ "KEEP_INDEX" \notin s.flags /\ (\A p \in Path : Ordinary(s, p))
             => op.call = "applied" /\ workdir = s.before /\ index = s.i)

(* git_stash_apply() restores what was saved, or refuses and changes        *)
(* nothing.                                                                 *)
AppliesOrRefuses == RefusedIsUntouched /\ RoundTrip
=============================================================================

------------------------------- MODULE Rebase -------------------------------
(***************************************************************************)
(* A rebase of a branch in a working directory (src/src/rebase.c): init,     *)
(* next, commit, finish and abort, the state directory rebase-merge/ from     *)
(* which git_rebase_open() goes on in another process, and a process that     *)
(* may die in the middle of a call.                                          *)
(*                                                                         *)
(* A tree is the commit it starts from and the sequence of the patches        *)
(* applied to it; a commit is named by its tree.  Patch k is the k-th         *)
(* operation.  A stale index.lock is assumed to be removed after a crash.     *)
(***************************************************************************)
EXTENDS Integers, Sequences, Functions

CONSTANTS
    N,              \* the number of operations
    Conflicting,    \* those that conflict, for the user to resolve
    Applied,        \* those whose changes are in onto already
    MaxCrashes,     \* bound on the crashes
    MaxRebaseFaults \* bound on the calls that fail for a reason not modelled

RebaseAssumption == N \in Nat

Torn == -1

VARIABLES
    rb_head,    \* what HEAD names: "branch", "other", or "detached"
    rb_ref,     \* the commits of the two branches and of a detached HEAD
    rb_index,   \* the tree of the index, and the patch whose conflicts it holds, or 0
    rb_workdir, \* the tree of the working directory
    setup,      \* the files init writes to rebase-merge/: "none", "partial", "full"
    msgnum,     \* the file msgnum (and current): 0 if absent, Torn while written
    rb,         \* the handle: -1 none, 0 not started, else rebase->current + 1
    rb_pc,      \* the step the call in progress is at, or "idle"
    committed,  \* history: the patches of a commit that was reported as made
    strayed,    \* history: init failed half way, with an error that it does not report, or died
                \* half way, or an abort began
    foreign,    \* history: someone else moved the branch
    outcome,    \* history: "none", "finished" or "aborted"
    crashes, rb_faults

rb_disk == <<rb_head, rb_ref, rb_index, rb_workdir, setup, msgnum>>
history == <<committed, strayed, foreign, outcome>>
rebase_vars == <<rb_disk, rb, rb_pc, history, crashes, rb_faults>>

Tree(on) == [on |-> on, picks |-> <<>>]
Orig == Tree("orig")
Onto == Tree("onto")
Clean(tree) == [tree |-> tree, conflict |-> 0]

RepoInit ==
    /\ rb_head \in {"branch", "other"}
    /\ rb_ref = [branch |-> Orig, other |-> Tree("other"), detached |-> Onto]
    /\ rb_index = Clean(rb_ref[rb_head]) /\ rb_workdir = rb_ref[rb_head]
    /\ setup = "none" /\ msgnum = 0 /\ rb = -1 /\ rb_pc = "idle"
    /\ committed = {} /\ strayed = FALSE /\ foreign = FALSE /\ outcome = "none"
    /\ crashes = 0 /\ rb_faults = 0

NotCalled == rb_pc = "idle"
Called == NotCalled /\ rb >= 0 /\ outcome = "none"
Fault == rb_faults < MaxRebaseFaults /\ rb_faults' = rb_faults + 1
Dirty == rb_index.tree # rb_ref[rb_head] \/ rb_index.conflict # 0 \/ rb_workdir # rb_index.tree

-----------------------------------------------------------------------------
(* git_rebase_init(); rebase_ensure_not_in_progress(), _not_dirty().  What a    *)
(* rebase made is not rebased again: orig_head_id would be another commit.      *)
RebaseInit ==
    /\ NotCalled /\ rb = -1 /\ setup = "none" /\ ~Dirty /\ outcome = "none" /\ rb_ref.branch = Orig
    /\ rb' = 0 /\ rb_pc' = "setup"
    /\ UNCHANGED <<rb_disk, history, crashes, rb_faults>>

(* rebase_setupfiles(), and what rebase_init_merge() does when it fails: the   *)
(* error is dropped by git_rebase_init(), which returns the handle.            *)
SetupFiles ==
    /\ rb_pc = "setup"
    /\ \/ /\ setup' = "full" /\ rb_pc' = "checkout"
          /\ UNCHANGED <<strayed, rb_faults>>
       \/ /\ Fault /\ setup' \in {"none", "partial"} /\ rb_pc' = "idle" /\ strayed' = TRUE
    /\ UNCHANGED <<rb_head, rb_ref, rb_index, rb_workdir, msgnum, rb, committed, foreign, outcome, crashes>>

(* git_checkout_tree() of rebase_init_merge(), which may fail half way        *)
InitCheckout ==
    /\ rb_pc = "checkout"
    /\ \/ /\ rb_index' = Clean(Onto) /\ rb_workdir' = Onto /\ rb_pc' = "sethead"
          /\ UNCHANGED <<strayed, rb_faults>>
       \/ /\ Fault /\ rb_pc' = "idle" /\ strayed' = TRUE
          /\ rb_workdir' \in {rb_workdir, Onto} /\ UNCHANGED rb_index
    /\ UNCHANGED <<rb_head, rb_ref, setup, msgnum, rb, committed, foreign, outcome, crashes>>

(* git_reference_create(HEAD, onto) of rebase_init_merge()                   *)
InitHead ==
    /\ rb_pc = "sethead" /\ rb_pc' = "idle"
    /\ \/ /\ rb_head' = "detached" /\ rb_ref' = [rb_ref EXCEPT !.detached = Onto]
          /\ UNCHANGED <<strayed, rb_faults>>
       \/ Fault /\ strayed' = TRUE /\ UNCHANGED <<rb_head, rb_ref>>
    /\ UNCHANGED <<rb_index, rb_workdir, setup, msgnum, rb, committed, foreign, outcome, crashes>>

(* git_rebase_open(), rebase_open_merge()                                   *)
RebaseOpen ==
    /\ NotCalled /\ rb = -1 /\ outcome = "none" /\ setup = "full" /\ msgnum # Torn
    /\ rb' = msgnum
    /\ UNCHANGED <<rb_disk, rb_pc, history, crashes, rb_faults>>

-----------------------------------------------------------------------------
(* rebase_movenext() of git_rebase_next(): the handle advances even if what    *)
(* follows fails, as taking the index lock may.                              *)
MoveNext ==
    /\ Called /\ rb < N
    /\ rb' = rb + 1
    /\ \/ rb_pc' = "msgnum" /\ UNCHANGED rb_faults
       \/ rb_pc' = "idle" /\ Fault
    /\ UNCHANGED <<rb_disk, history, crashes>>

(* rebase_setupfile(MSGNUM_FILE), (CURRENT_FILE) of rebase_next_merge()        *)
WriteMsgnum ==
    /\ rb_pc = "msgnum"
    /\ IF setup = "none"
         THEN rb_pc' = "idle" /\ UNCHANGED msgnum
         ELSE rb_pc' = "merge" /\ msgnum' = rb
    /\ UNCHANGED <<rb_head, rb_ref, rb_index, rb_workdir, setup, rb, history, crashes, rb_faults>>

Has(tree, k) ==
    \/ tree.on = "onto" /\ k \in Applied
    \/ tree.on \in {"orig", "moved"}
    \/ k \in Range(tree.picks)
Add(tree, k) == IF Has(tree, k) THEN tree ELSE [tree EXCEPT !.picks = Append(@, k)]

(* git_merge_trees(), git_merge__check_result(), git_checkout_index(),         *)
(* git_indexwriter_commit(): uncommitted changes of paths that the patch       *)
(* changes make it fail, others stay.  A patch that conflicts changes a path    *)
(* that all of them change.                                                  *)
MergePick ==
    /\ rb_pc = "merge" /\ rb_pc' = "idle"
    /\ \/ /\ Has(rb_ref[rb_head], rb) \/ Dirty
          /\ UNCHANGED <<rb_index, rb_workdir>>
       \/ /\ ~Has(rb_ref[rb_head], rb) /\ rb \in Conflicting /\ ~Dirty
          /\ rb_index' = [rb_index EXCEPT !.conflict = rb] /\ UNCHANGED rb_workdir
       \/ /\ ~Has(rb_ref[rb_head], rb) /\ rb \notin Conflicting /\ rb_index.conflict = 0
          /\ rb_index' = Clean(Add(rb_index.tree, rb)) /\ rb_workdir' = Add(rb_workdir, rb)
    /\ UNCHANGED <<rb_head, rb_ref, setup, msgnum, rb, history, crashes, rb_faults>>

(* git_rebase_commit(): rebase_commit_merge() and rebase_commit__create() up   *)
(* to git_reference__update_for_commit(HEAD)                                 *)
CommitUpdate ==
    /\ Called
    /\ rb_workdir = rb_index.tree /\ rb_index.conflict = 0 /\ rb_index.tree # rb_ref[rb_head]
    /\ rb_ref' = [rb_ref EXCEPT ![rb_head] = rb_index.tree] /\ rb_pc' = "rewritten"
    /\ UNCHANGED <<rb_head, rb_index, rb_workdir, setup, msgnum, rb, history, crashes, rb_faults>>

(* rebase_setupfile(REWRITTEN_FILE)                                         *)
CommitRewritten ==
    /\ rb_pc = "rewritten" /\ rb_pc' = "idle"
    /\ committed' = IF setup = "none" THEN committed ELSE committed \cup Range(rb_ref[rb_head].picks)
    /\ UNCHANGED <<rb_disk, rb, strayed, foreign, outcome, crashes, rb_faults>>

-----------------------------------------------------------------------------
(* A bug: the branch is written whatever it names by now.                     *)
MutFinishBranch ==
    /\ Called
    /\ rb_ref' = [rb_ref EXCEPT !.branch = rb_ref[rb_head]] /\ rb_pc' = "finish_head"
    /\ UNCHANGED <<rb_head, rb_index, rb_workdir, setup, msgnum, rb, history, crashes, rb_faults>>

(* git_rebase_finish(); git_reference_create_matching() of                    *)
(* return_to_orig_head(): the branch must still name orig_head_id.             *)
FinishBranch ==
    /\ Called
    /\ rb_ref.branch = Orig
    /\ rb_ref' = [rb_ref EXCEPT !.branch = rb_ref[rb_head]] /\ rb_pc' = "finish_head"
    /\ UNCHANGED <<rb_head, rb_index, rb_workdir, setup, msgnum, rb, history, crashes, rb_faults>>

(* A bug: HEAD is left where it is.                                          *)
MutFinishHead ==
    /\ rb_pc = "finish_head"
    /\ rb_pc' = "notes"
    /\ UNCHANGED <<rb_disk, rb, history, crashes, rb_faults>>

(* git_reference_symbolic_create(HEAD) of return_to_orig_head()               *)
FinishHead ==
    /\ rb_pc = "finish_head"
    /\ \/ rb_head' = "branch" /\ rb_pc' = "notes" /\ UNCHANGED rb_faults
       \/ rb_pc' = "idle" /\ Fault /\ UNCHANGED rb_head
    /\ UNCHANGED <<rb_ref, rb_index, rb_workdir, setup, msgnum, rb, history, crashes>>

(* rebase_copy_notes(), which fails without the file rewritten, for one        *)
CopyNotes ==
    /\ rb_pc = "notes"
    /\ \/ rb_pc' = "finish_cleanup" /\ UNCHANGED rb_faults
       \/ rb_pc' = "idle" /\ Fault
    /\ UNCHANGED <<rb_disk, rb, history, crashes>>

(* git_rebase_abort(): HEAD names the branch again                           *)
AbortHead ==
    /\ Called
    /\ rb_head' = "branch" /\ rb_pc' = "abort_checkout" /\ strayed' = TRUE
    /\ UNCHANGED <<rb_ref, rb_index, rb_workdir, setup, msgnum, rb, committed, foreign, outcome, crashes, rb_faults>>

(* The forced checkout of git_reset(), which may fail half way                *)
AbortCheckout ==
    /\ rb_pc = "abort_checkout"
    /\ \/ rb_index' = Clean(Orig) /\ rb_workdir' = Orig /\ rb_pc' = "abort_ref" /\ UNCHANGED rb_faults
       \/ rb_pc' = "idle" /\ Fault /\ rb_workdir' \in {rb_workdir, Orig} /\ UNCHANGED rb_index
    /\ UNCHANGED <<rb_head, rb_ref, setup, msgnum, rb, history, crashes>>

(* git_reference__update_terminal(HEAD) of git_reset(), whatever the branch   *)
(* names by now                                                              *)
AbortRef ==
    /\ rb_pc = "abort_ref"
    /\ \/ rb_ref' = [rb_ref EXCEPT !.branch = Orig] /\ rb_pc' = "abort_cleanup" /\ UNCHANGED rb_faults
       \/ rb_pc' = "idle" /\ Fault /\ UNCHANGED rb_ref
    /\ UNCHANGED <<rb_head, rb_index, rb_workdir, setup, msgnum, rb, history, crashes>>

(* rebase_cleanup(), and git_repository_state_cleanup() of git_reset()        *)
Cleanup ==
    /\ rb_pc \in {"finish_cleanup", "abort_cleanup"}
    /\ setup' = "none" /\ msgnum' = 0 /\ rb' = -1 /\ rb_pc' = "idle"
    /\ outcome' = IF rb_pc = "finish_cleanup" THEN "finished" ELSE "aborted"
    /\ UNCHANGED <<rb_head, rb_ref, rb_index, rb_workdir, committed, strayed, foreign, crashes, rb_faults>>

-----------------------------------------------------------------------------
(* What a write that the crash cuts short leaves behind                       *)
TornSetup ==
    CASE rb_pc = "setup" -> {"none", "partial", "full"}
      [] rb_pc \in {"finish_cleanup", "abort_cleanup"} -> {"none", "partial", setup}
      [] OTHER -> {setup}
TornMsgnum ==
    CASE rb_pc = "msgnum" /\ setup # "none" -> {msgnum, Torn, rb}
      [] rb_pc \in {"finish_cleanup", "abort_cleanup"} -> {0, msgnum}
      [] OTHER -> {msgnum}
TornWorkdir ==
    CASE rb_pc = "checkout" -> {rb_workdir, Onto}
      [] rb_pc = "abort_checkout" -> {rb_workdir, Orig}
      [] rb_pc = "merge" /\ ~Dirty -> {rb_workdir, Add(rb_workdir, rb)}
      [] OTHER -> {rb_workdir}

(* The process ends, in a call or between two                                *)
RebaseCrash ==
    /\ rb >= 0 /\ crashes < MaxCrashes /\ crashes' = crashes + 1
    /\ setup' \in TornSetup /\ rb_workdir' \in TornWorkdir
    /\ msgnum' \in IF setup' = "none" THEN {0} ELSE TornMsgnum
    /\ strayed' = (strayed \/ rb_pc \in {"setup", "checkout", "sethead"})
    /\ rb' = -1 /\ rb_pc' = "idle"
    /\ UNCHANGED <<rb_head, rb_ref, rb_index, committed, foreign, outcome, rb_faults>>

(* The user resolves the conflicts of a patch, one way or the other, or drops   *)
(* what is not committed (a forced checkout of HEAD).                          *)
UserResolves ==
    /\ NotCalled /\ rb_index.conflict # 0
    /\ \E t \in {rb_index.tree, Add(rb_index.tree, rb_index.conflict)} : rb_index' = Clean(t) /\ rb_workdir' = t
    /\ UNCHANGED <<rb_head, rb_ref, setup, msgnum, rb, rb_pc, history, crashes, rb_faults>>

UserDrops ==
    /\ NotCalled /\ Dirty
    /\ rb_index' = Clean(rb_ref[rb_head]) /\ rb_workdir' = rb_ref[rb_head]
    /\ UNCHANGED <<rb_head, rb_ref, setup, msgnum, rb, rb_pc, history, crashes, rb_faults>>

(* Another process commits to the branch                                     *)
ForeignCommit ==
    /\ rb_ref.branch = Orig /\ rb_head = "detached" /\ outcome = "none" /\ ~foreign
    /\ rb_ref' = [rb_ref EXCEPT !.branch = Tree("moved")] /\ foreign' = TRUE
    /\ UNCHANGED <<rb_head, rb_index, rb_workdir, setup, msgnum, rb, rb_pc, committed, strayed, outcome,
                   crashes, rb_faults>>

RebaseNext ==
    \/ RebaseInit \/ SetupFiles \/ InitCheckout \/ InitHead \/ RebaseOpen
    \/ MoveNext \/ WriteMsgnum \/ MergePick \/ CommitUpdate \/ CommitRewritten
    \/ FinishBranch \/ FinishHead \/ CopyNotes
    \/ AbortHead \/ AbortCheckout \/ AbortRef \/ Cleanup
    \/ RebaseCrash \/ UserResolves \/ UserDrops \/ ForeignCommit

RebaseSpec == RepoInit /\ [][RebaseNext]_rebase_vars

-----------------------------------------------------------------------------
InOrder(tree) == \A i, j \in DOMAIN tree.picks : i < j => tree.picks[i] < tree.picks[j]

(* The rebased commits are applied in the order of the operations, none       *)
(* twice, over any number of crashes, reopenings and failed calls: msgnum is    *)
(* written before an operation takes effect, and the handle only advances.     *)
(* This is of the detached HEAD, on which they are made.                       *)
PicksInOrder == InOrder(rb_ref.detached)

(* While HEAD is detached, rebase-merge/ holds what git_rebase_open() needs to  *)
(* find the branch again: init writes it before it moves HEAD, and finish and   *)
(* abort remove it only when HEAD names the branch.                           *)
WayBackIsRecorded ==
    rb_head = "detached" => setup = "full"

(* A rebase that finished has HEAD on the branch and the branch on the new      *)
(* commits, in order, with every patch whose commit was reported as made, and   *)
(* has not overwritten what someone else committed to the branch meanwhile;     *)
(* unless its init failed or died half way (git_rebase_init() drops the error   *)
(* of rebase_init_merge(), and a finish then succeeds without any new commit)   *)
(* or an abort of it had begun.                                                *)
FinishedIsComplete ==
    outcome = "finished" /\ ~strayed =>
        /\ rb_head = "branch" /\ setup = "none"
        /\ ~foreign
        /\ rb_ref.branch.on = "onto" /\ InOrder(rb_ref.branch)
        /\ committed \subseteq Range(rb_ref.branch.picks)

(* An abort that returned success has put back the branch, and left HEAD on it  *)
(* with its index and working directory, also when it was made after a finish   *)
(* that died or failed on its way, or by another process than the one that      *)
(* began it.  HEAD is left on the branch that was rebased even when it named    *)
(* another one before.                                                         *)
AbortRestores ==
    outcome = "aborted" =>
        /\ rb_head = "branch" /\ rb_ref.branch = Orig
        /\ rb_index = Clean(Orig) /\ rb_workdir = Orig /\ setup = "none"

(* A rebase whose init did not fail or die half way never moves the branch that  *)
(* HEAD was on, if that is not the one being rebased: commits go to the         *)
(* detached HEAD.                                                              *)
OtherUntouched ==
    rb_ref.other = Tree("other") \/ strayed

(* What a rebase makes is what was asked for: the patches in their order and,   *)
(* when init reported the truth, at its end all of them on the branch, and no   *)
(* other branch moved.                                                         *)
RebaseIsExact == PicksInOrder /\ FinishedIsComplete /\ OtherUntouched

(* A rebase can be given up, from the first moment on that HEAD is detached,    *)
(* and git_rebase_abort() then leaves HEAD on the branch and that as it was.    *)
CanBeAborted == WayBackIsRecorded /\ AbortRestores
=============================================================================

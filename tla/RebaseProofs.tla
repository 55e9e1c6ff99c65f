---------------------------- MODULE RebaseProofs ----------------------------
(* Proofs about a rebase, for any number of operations, of which any may        *)
(* conflict or be applied already, of crashes and of calls that fail.           *)
EXTENDS Rebase, TLAPS

Branches == {"branch", "other", "detached"}
Trees == [on : {"orig", "onto", "other", "moved"}, picks : Seq(1 .. N)]
Starting == {"setup", "checkout", "sethead"}
Finishing == {"notes", "finish_cleanup"}
Aborting == {"abort_checkout", "abort_ref", "abort_cleanup"}

TypeOK ==
    /\ rb_head \in Branches /\ rb_ref \in [Branches -> Trees] /\ rb_workdir \in Trees
    /\ rb_index \in [tree : Trees, conflict : 0 .. N]
    /\ msgnum \in -1 .. N /\ rb \in -1 .. N

(* Where a call is, and what is on disk by then                                 *)
CallOK ==
    /\ rb_pc \in Starting => rb_head # "detached" /\ rb_ref.branch = Orig /\ rb = 0
    /\ rb_pc \in {"checkout", "sethead"} => setup = "full"
    /\ rb_pc = "sethead" => rb_index = Clean(Onto)
    /\ rb_pc \in Finishing \cup Aborting => rb_head = "branch"
    /\ rb_pc \in {"abort_ref", "abort_cleanup"} => rb_index = Clean(Orig) /\ rb_workdir = Orig
    /\ rb_pc = "abort_cleanup" => rb_ref.branch = Orig
    /\ rb_pc \in {"msgnum", "merge"} => rb >= 1
    /\ rb_pc # "idle" => rb >= 0
    /\ outcome # "none" => rb = -1

(* msgnum is written before the operation takes effect, and not after it        *)
NumberOK ==
    /\ setup = "none" => msgnum = 0
    /\ rb >= 0 => msgnum \in 0 .. rb
    /\ rb_pc = "merge" => msgnum = rb

Ordered(s) == \A i, j \in DOMAIN s : i < j => s[i] < s[j]
Upto(s, k) == \A i \in DOMAIN s : s[i] <= k

(* What the index, and the commits, of a detached HEAD hold: patches in their    *)
(* order, none of them after the one that msgnum names                          *)
DetachedOK ==
    /\ rb_ref.detached.on = "onto" /\ Ordered(rb_ref.detached.picks)
    /\ rb_head = "detached" =>
          /\ rb_index.tree.on = "onto" /\ Ordered(rb_index.tree.picks)
          /\ Range(rb_ref.detached.picks) \subseteq Range(rb_index.tree.picks)
          /\ msgnum # Torn => Upto(rb_index.tree.picks, msgnum) /\ rb_index.conflict <= msgnum
          /\ rb_index.conflict # 0 => Upto(rb_index.tree.picks, rb_index.conflict - 1)

(* A rebase that began well and that nobody has given up: HEAD is detached, or   *)
(* on the branch with the new commits, and the index has what is committed.      *)
Course ==
    ~strayed =>
        /\ rb_pc \notin Aborting
        /\ rb_ref.other = Tree("other")
        /\ rb_pc \notin Starting /\ (rb >= 0 \/ setup = "full") =>
              rb_head = "detached" \/ (rb_head = "branch" /\ rb_ref.branch.on = "onto")
        /\ rb_head = "detached" => committed \subseteq Range(rb_ref.detached.picks)
        /\ rb_head # "detached" /\ rb_ref.branch.on # "onto" => committed = {}
        /\ rb_head = "branch" /\ rb_ref.branch.on = "onto" =>
              /\ committed \subseteq Range(rb_ref.branch.picks)
              /\ rb_index.tree.on = "onto"
              /\ Range(rb_ref.branch.picks) \subseteq Range(rb_index.tree.picks)
        /\ foreign => rb_ref.branch.on = "moved"
        /\ rb_pc = "finish_head" => rb_head = "detached" /\ rb_ref.branch = rb_ref.detached
        /\ rb_pc \in Finishing => rb_ref.branch.on = "onto" /\ Ordered(rb_ref.branch.picks)
        /\ outcome = "finished" =>
              /\ rb_head = "branch" /\ setup = "none"
              /\ rb_ref.branch.on = "onto" /\ Ordered(rb_ref.branch.picks)

RebaseInv == TypeOK /\ CallOK /\ NumberOK /\ CanBeAborted /\ DetachedOK /\ Course

-----------------------------------------------------------------------------
(* A commit with nothing picked on it is a tree.                           *)
LEMMA TreesAre ==
    ASSUME NEW on \in {"orig", "onto", "other", "moved"}
    PROVE  Tree(on) \in Trees /\ Tree(on).on = on /\ Tree(on).picks = <<>>
BY DEF Tree, Trees

(* So are the two that a rebase starts from.                               *)
LEMMA NamedTrees ==
    /\ Orig \in Trees /\ Orig.on = "orig" /\ Orig.picks = <<>>
    /\ Onto \in Trees /\ Onto.on = "onto" /\ Onto.picks = <<>>
BY TreesAre, Zenon DEF Orig, Onto

(* What a patch adds to a tree: at most itself, at the end                       *)
LEMMA AddedPick ==
    ASSUME RebaseAssumption, NEW t \in Trees, NEW k \in 1 .. N
    PROVE  /\ Add(t, k) \in Trees /\ Add(t, k).on = t.on
           /\ Range(t.picks) \subseteq Range(Add(t, k).picks)
           /\ Ordered(t.picks) /\ Upto(t.picks, k) => Ordered(Add(t, k).picks)
           /\ \A m \in Int : Upto(t.picks, m) /\ k <= m => Upto(Add(t, k).picks, m)
<1>1. CASE Has(t, k)
  BY <1>1, Zenon DEF Add
<1>2. CASE ~Has(t, k)
  <2>1. t.picks \in Seq(1 .. N) /\ t = [on |-> t.on, picks |-> t.picks]
    BY Zenon DEF Trees
  <2>2. PICK s \in Seq(1 .. N) : s = t.picks
    BY <2>1, Zenon
  <2>3. Add(t, k) = [on |-> t.on, picks |-> Append(s, k)]
    BY <1>2, <2>1, <2>2, Zenon DEF Add
  <2>4. /\ Append(s, k) \in Seq(1 .. N) /\ Len(Append(s, k)) = Len(s) + 1
        /\ \A i \in 1 .. Len(s) : Append(s, k)[i] = s[i]
        /\ Append(s, k)[Len(s) + 1] = k
        /\ DOMAIN s = 1 .. Len(s) /\ DOMAIN Append(s, k) = 1 .. Len(s) + 1
        /\ Len(s) \in Nat /\ \A i \in 1 .. Len(s) : s[i] \in 1 .. N
    BY DEF RebaseAssumption
  <2>5. \A i \in 1 .. Len(s) : s[i] # k
    BY <1>2, <2>2 DEF Has, Range
  <2>6. PICK a : a = Append(s, k)
    BY Zenon
  <2>7. Add(t, k) \in Trees /\ Add(t, k).on = t.on /\ Add(t, k).picks = a
    BY <2>1, <2>3, <2>4, <2>6 DEF Trees
  <2>8. Range(s) \subseteq Range(a)
    BY <2>4, <2>6 DEF Range
  <2>9. Ordered(s) /\ Upto(s, k) => Ordered(a)
    BY <2>4, <2>5, <2>6 DEF Ordered, Upto, RebaseAssumption
  <2>10. \A m \in Int : Upto(s, m) /\ k <= m => Upto(a, m)
    BY <2>4, <2>6 DEF Upto
  <2>11. QED
    BY <2>2, <2>7, <2>8, <2>9, <2>10, Zenon
<1>3. QED
  BY <1>1, <1>2, Zenon

(* The branches, the index and the working directory hold trees.                *)
LEMMA TypeStep == RebaseAssumption /\ TypeOK /\ CallOK /\ NumberOK /\ [RebaseNext]_rebase_vars => TypeOK'
<1> SUFFICES ASSUME RebaseAssumption, TypeOK, CallOK, NumberOK, [RebaseNext]_rebase_vars PROVE TypeOK'
  BY Zenon
<1> USE DEF TypeOK, Branches, RebaseAssumption, rb_disk, history
<1>1. CASE RebaseInit
  BY <1>1, NamedTrees DEF RebaseInit, NotCalled, Dirty, Clean
<1>2. CASE SetupFiles
  BY <1>2, NamedTrees, Zenon DEF SetupFiles, Clean
<1>3. CASE InitCheckout
  BY <1>3, NamedTrees DEF InitCheckout, Clean
<1>4. CASE InitHead
  BY <1>4, NamedTrees, Zenon DEF InitHead, Clean
<1>5. CASE RebaseOpen
  BY <1>5, NamedTrees, Zenon DEF RebaseOpen, NotCalled, Clean
<1>6. CASE MoveNext
  BY <1>6, NamedTrees DEF MoveNext, Called, NotCalled, Clean
<1>7. CASE WriteMsgnum
  BY <1>7, NamedTrees, Zenon DEF WriteMsgnum, Clean
<1>8. CASE MergePick
  <2>1. rb \in 1 .. N /\ rb_index.tree \in Trees
    BY <1>8 DEF MergePick, CallOK
  <2>2. Add(rb_index.tree, rb) \in Trees /\ Add(rb_workdir, rb) \in Trees
    BY <2>1, AddedPick, Zenon
  <2>3. rb_index' \in [tree : Trees, conflict : 0 .. N] /\ rb_workdir' \in Trees
    BY <1>8, <2>1, <2>2 DEF MergePick, Clean
  <2>4. QED
    BY <1>8, <2>3, Zenon DEF MergePick
<1>9. CASE CommitUpdate
  BY <1>9, NamedTrees, Zenon DEF CommitUpdate, Called, NotCalled, Clean
<1>10. CASE CommitRewritten
  BY <1>10, NamedTrees, Zenon DEF CommitRewritten, Clean
<1>11. CASE FinishBranch
  BY <1>11, NamedTrees, Zenon DEF FinishBranch, Called, NotCalled, Clean
<1>12. CASE FinishHead
  BY <1>12, NamedTrees, Zenon DEF FinishHead, Clean
<1>13. CASE CopyNotes
  BY <1>13, NamedTrees, Zenon DEF CopyNotes, Clean
<1>14. CASE AbortHead
  BY <1>14, NamedTrees, Zenon DEF AbortHead, Called, NotCalled, Clean
<1>15. CASE AbortCheckout
  BY <1>15, NamedTrees DEF AbortCheckout, Clean
<1>16. CASE AbortRef
  BY <1>16, NamedTrees, Zenon DEF AbortRef, Clean
<1>17. CASE Cleanup
  BY <1>17, NamedTrees DEF Cleanup, Clean
<1>18. CASE RebaseCrash
  <2>1. rb_workdir' \in Trees
    <3>1. rb_pc = "merge" => Add(rb_workdir, rb) \in Trees
      BY AddedPick DEF CallOK
    <3>2. QED
      BY <1>18, <3>1, NamedTrees, Zenon DEF RebaseCrash, TornWorkdir
  <2>2. msgnum' \in -1 .. N
    BY <1>18 DEF RebaseCrash, TornMsgnum, Torn
  <2>3. QED
    BY <1>18, <2>1, <2>2 DEF RebaseCrash
<1>19. CASE UserResolves
  <2>1. rb_index.conflict \in 1 .. N /\ rb_index.tree \in Trees
    BY <1>19 DEF UserResolves
  <2>2. Add(rb_index.tree, rb_index.conflict) \in Trees
    BY <2>1, AddedPick, Zenon
  <2>3. QED
    BY <1>19, <2>1, <2>2 DEF UserResolves, Clean
<1>20. CASE UserDrops
  BY <1>20, NamedTrees DEF UserDrops, NotCalled, Dirty, Clean
<1>21. CASE ForeignCommit
  BY <1>21, TreesAre, Zenon DEF ForeignCommit
<1>22. CASE UNCHANGED rebase_vars
  BY <1>22, Zenon DEF rebase_vars
<1>23. QED
  BY <1>1, <1>2, <1>3, <1>4, <1>5, <1>6, <1>7, <1>8, <1>9, <1>10, <1>11,
     <1>12, <1>13, <1>14, <1>15, <1>16, <1>17, <1>18, <1>19, <1>20, <1>21, <1>22, Zenon DEF RebaseNext

(* The steps of a call come in their order.                                     *)
LEMMA CallStep == RebaseAssumption /\ TypeOK /\ CallOK /\ NumberOK /\ CanBeAborted /\ [RebaseNext]_rebase_vars => CallOK'
<1> SUFFICES ASSUME RebaseAssumption, TypeOK, CallOK, NumberOK, CanBeAborted, [RebaseNext]_rebase_vars PROVE CallOK'
  BY Zenon
<1> USE DEF rb_disk, history, TypeOK, Branches, CallOK, Starting, Finishing, Aborting, RebaseAssumption, CanBeAborted, WayBackIsRecorded
<1>1. CASE RebaseInit
  BY <1>1 DEF RebaseInit, NotCalled, Dirty
<1>2. CASE SetupFiles
  BY <1>2, Zenon DEF SetupFiles
<1>3. CASE InitCheckout
  BY <1>3, Zenon DEF InitCheckout
<1>4. CASE InitHead
  BY <1>4, Zenon DEF InitHead
<1>5. CASE RebaseOpen
  BY <1>5, Zenon DEF RebaseOpen, NotCalled
<1>6. CASE MoveNext
  BY <1>6 DEF MoveNext, Called, NotCalled
<1>7. CASE WriteMsgnum
  BY <1>7, Zenon DEF WriteMsgnum
<1>8. CASE MergePick
  BY <1>8, Zenon DEF MergePick, Dirty
<1>9. CASE CommitUpdate
  BY <1>9, Zenon DEF CommitUpdate, Called, NotCalled
<1>10. CASE CommitRewritten
  BY <1>10, Zenon DEF CommitRewritten
<1>11. CASE FinishBranch
  BY <1>11, Zenon DEF FinishBranch, Called, NotCalled
<1>12. CASE FinishHead
  BY <1>12, Zenon DEF FinishHead
<1>13. CASE CopyNotes
  BY <1>13, Zenon DEF CopyNotes
<1>14. CASE AbortHead
  BY <1>14, Zenon DEF AbortHead, Called, NotCalled
<1>15. CASE AbortCheckout
  BY <1>15, Zenon DEF AbortCheckout
<1>16. CASE AbortRef
  BY <1>16, Zenon DEF AbortRef
<1>17. CASE Cleanup
  BY <1>17, Zenon DEF Cleanup
<1>18. CASE RebaseCrash
  BY <1>18, Zenon DEF RebaseCrash, TornSetup, TornMsgnum, TornWorkdir
<1>19. CASE UserResolves
  BY <1>19, Zenon DEF UserResolves, NotCalled
<1>20. CASE UserDrops
  BY <1>20, Zenon DEF UserDrops, NotCalled, Dirty
<1>21. CASE ForeignCommit
  BY <1>21, Zenon DEF ForeignCommit
<1>22. CASE UNCHANGED rebase_vars
  BY <1>22, Zenon DEF rebase_vars
<1>23. QED
  BY <1>1, <1>2, <1>3, <1>4, <1>5, <1>6, <1>7, <1>8, <1>9, <1>10, <1>11,
     <1>12, <1>13, <1>14, <1>15, <1>16, <1>17, <1>18, <1>19, <1>20, <1>21, <1>22, Zenon DEF RebaseNext

(* The number of the operation is on disk before its effects.                   *)
LEMMA NumberStep == RebaseAssumption /\ TypeOK /\ CallOK /\ NumberOK /\ [RebaseNext]_rebase_vars => NumberOK'
<1> SUFFICES ASSUME RebaseAssumption, TypeOK, CallOK, NumberOK, [RebaseNext]_rebase_vars PROVE NumberOK'
  BY Zenon
<1> USE DEF rb_disk, history, TypeOK, Branches, CallOK, Starting, Finishing, Aborting, RebaseAssumption, NumberOK, Torn
<1>1. CASE RebaseInit
  BY <1>1 DEF RebaseInit, NotCalled, Dirty
<1>2. CASE SetupFiles
  BY <1>2 DEF SetupFiles
<1>3. CASE InitCheckout
  BY <1>3, Zenon DEF InitCheckout
<1>4. CASE InitHead
  BY <1>4, Zenon DEF InitHead
<1>5. CASE RebaseOpen
  BY <1>5 DEF RebaseOpen, NotCalled
<1>6. CASE MoveNext
  BY <1>6 DEF MoveNext, Called, NotCalled
<1>7. CASE WriteMsgnum
  BY <1>7 DEF WriteMsgnum
<1>8. CASE MergePick
  BY <1>8, Zenon DEF MergePick, Dirty
<1>9. CASE CommitUpdate
  BY <1>9, Zenon DEF CommitUpdate, Called, NotCalled
<1>10. CASE CommitRewritten
  BY <1>10, Zenon DEF CommitRewritten
<1>11. CASE FinishBranch
  BY <1>11, Zenon DEF FinishBranch, Called, NotCalled
<1>12. CASE FinishHead
  BY <1>12, Zenon DEF FinishHead
<1>13. CASE CopyNotes
  BY <1>13, Zenon DEF CopyNotes
<1>14. CASE AbortHead
  BY <1>14, Zenon DEF AbortHead, Called, NotCalled
<1>15. CASE AbortCheckout
  BY <1>15, Zenon DEF AbortCheckout
<1>16. CASE AbortRef
  BY <1>16, Zenon DEF AbortRef
<1>17. CASE Cleanup
  BY <1>17 DEF Cleanup
<1>18. CASE RebaseCrash
  BY <1>18 DEF RebaseCrash, TornSetup, TornMsgnum, TornWorkdir
<1>19. CASE UserResolves
  BY <1>19, Zenon DEF UserResolves, NotCalled
<1>20. CASE UserDrops
  BY <1>20, Zenon DEF UserDrops, NotCalled, Dirty
<1>21. CASE ForeignCommit
  BY <1>21, Zenon DEF ForeignCommit
<1>22. CASE UNCHANGED rebase_vars
  BY <1>22, Zenon DEF rebase_vars
<1>23. QED
  BY <1>1, <1>2, <1>3, <1>4, <1>5, <1>6, <1>7, <1>8, <1>9, <1>10, <1>11,
     <1>12, <1>13, <1>14, <1>15, <1>16, <1>17, <1>18, <1>19, <1>20, <1>21, <1>22, Zenon DEF RebaseNext

(* HEAD is detached after the state directory is written, and attached again     *)
(* before it is removed; an abort has put back the branch before it ends.        *)
LEMMA AbortStep == RebaseAssumption /\ TypeOK /\ CallOK /\ CanBeAborted /\ [RebaseNext]_rebase_vars => CanBeAborted'
<1> SUFFICES ASSUME RebaseAssumption, TypeOK, CallOK, CanBeAborted, [RebaseNext]_rebase_vars PROVE CanBeAborted'
  BY Zenon
<1> USE DEF rb_disk, history, TypeOK, Branches, CallOK, Starting, Finishing, Aborting, RebaseAssumption, CanBeAborted, WayBackIsRecorded, AbortRestores
<1>1. CASE RebaseInit
  BY <1>1, Zenon DEF RebaseInit, NotCalled, Dirty
<1>2. CASE SetupFiles
  BY <1>2 DEF SetupFiles
<1>3. CASE InitCheckout
  BY <1>3, Zenon DEF InitCheckout
<1>4. CASE InitHead
  BY <1>4, Zenon DEF InitHead
<1>5. CASE RebaseOpen
  BY <1>5, Zenon DEF RebaseOpen, NotCalled
<1>6. CASE MoveNext
  BY <1>6, Zenon DEF MoveNext, Called, NotCalled
<1>7. CASE WriteMsgnum
  BY <1>7, Zenon DEF WriteMsgnum
<1>8. CASE MergePick
  BY <1>8 DEF MergePick, Dirty
<1>9. CASE CommitUpdate
  BY <1>9, Zenon DEF CommitUpdate, Called, NotCalled
<1>10. CASE CommitRewritten
  BY <1>10, Zenon DEF CommitRewritten
<1>11. CASE FinishBranch
  BY <1>11, Zenon DEF FinishBranch, Called, NotCalled
<1>12. CASE FinishHead
  BY <1>12, Zenon DEF FinishHead
<1>13. CASE CopyNotes
  BY <1>13, Zenon DEF CopyNotes
<1>14. CASE AbortHead
  BY <1>14, Zenon DEF AbortHead, Called, NotCalled
<1>15. CASE AbortCheckout
  BY <1>15, Zenon DEF AbortCheckout
<1>16. CASE AbortRef
  BY <1>16, Zenon DEF AbortRef
<1>17. CASE Cleanup
  BY <1>17, Zenon DEF Cleanup
<1>18. CASE RebaseCrash
  BY <1>18 DEF RebaseCrash, TornSetup, TornMsgnum, TornWorkdir
<1>19. CASE UserResolves
  BY <1>19 DEF UserResolves, NotCalled, Clean
<1>20. CASE UserDrops
  BY <1>20, Zenon DEF UserDrops, NotCalled, Dirty, Clean
<1>21. CASE ForeignCommit
  BY <1>21, Zenon DEF ForeignCommit
<1>22. CASE UNCHANGED rebase_vars
  BY <1>22, Zenon DEF rebase_vars
<1>23. QED
  BY <1>1, <1>2, <1>3, <1>4, <1>5, <1>6, <1>7, <1>8, <1>9, <1>10, <1>11,
     <1>12, <1>13, <1>14, <1>15, <1>16, <1>17, <1>18, <1>19, <1>20, <1>21, <1>22, Zenon DEF RebaseNext

(* Nothing picked is in order and below every patch.                       *)
LEMMA NoPicks ==
    Ordered(<<>>) /\ Range(<<>>) = {} /\ \A m \in Int : Upto(<<>>, m)
BY DEF Ordered, Range, Upto

(* A bound on the picked patches may be raised,                            *)
LEMMA UptoMore ==
    ASSUME RebaseAssumption, NEW t \in Trees, NEW k \in Int, NEW m \in Int, k <= m,
           Upto(t.picks, k)
    PROVE  Upto(t.picks, m)
<1>1. t.picks \in Seq(1 .. N)
  BY Zenon DEF Trees
<1>2. QED
  BY <1>1 DEF Upto, RebaseAssumption

(* lowered by one when the last patch is not among them,                   *)
LEMMA UptoLess ==
    ASSUME RebaseAssumption, NEW t \in Trees, NEW k \in 1 .. N, ~Has(t, k), Upto(t.picks, k)
    PROVE  Upto(t.picks, k - 1)
<1>1. t.picks \in Seq(1 .. N)
  BY Zenon DEF Trees
<1>2. \A i \in DOMAIN t.picks : t.picks[i] # k
  BY <1>1, Zenon DEF Has, Range
<1>3. QED
  BY <1>1, <1>2 DEF Upto, RebaseAssumption

(* and holds of fewer patches.                                             *)
LEMMA UptoSubset ==
    ASSUME NEW s \in Seq(1 .. N), NEW r \in Seq(1 .. N), NEW m \in Int,
           Range(s) \subseteq Range(r), Upto(r, m)
    PROVE  Upto(s, m)
BY Zenon DEF Upto, Range

(* The patches stay in their order: only the one that msgnum names, or that       *)
(* conflicts, is added, and the tree has none after it.                          *)
LEMMA DetachedStep == RebaseAssumption /\ TypeOK /\ TypeOK' /\ CallOK /\ NumberOK /\ CanBeAborted /\ DetachedOK /\ [RebaseNext]_rebase_vars => DetachedOK'
<1> SUFFICES ASSUME RebaseAssumption, TypeOK, TypeOK', CallOK, NumberOK, CanBeAborted, DetachedOK, [RebaseNext]_rebase_vars PROVE DetachedOK'
  BY Zenon
<1> USE DEF rb_disk, history, TypeOK, Branches, Torn
<1>1. CASE RebaseInit
  BY <1>1, Zenon DEF RebaseInit, NotCalled, Dirty, DetachedOK
<1>2. CASE SetupFiles
  BY <1>2, Zenon DEF SetupFiles, DetachedOK
<1>3. CASE InitCheckout
  BY <1>3, Zenon DEF InitCheckout, DetachedOK, CallOK, Starting
<1>4. CASE InitHead
  <2> SUFFICES ASSUME rb_ref' = [rb_ref EXCEPT !.detached = Onto] PROVE DetachedOK'
    BY <1>4, Zenon DEF InitHead, DetachedOK
  <2>1. UNCHANGED <<rb_index, msgnum>> /\ rb_index = Clean(Onto)
    BY <1>4, Zenon DEF InitHead, CallOK
  <2>2. rb_ref'.detached = Onto /\ rb_index.tree = Onto /\ rb_index.conflict = 0
    BY <2>1, Zenon DEF Clean
  <2>3. msgnum # Torn => msgnum >= 0
    OBVIOUS
  <2>4. QED
    BY <2>1, <2>2, <2>3, NamedTrees, NoPicks DEF DetachedOK
<1>5. CASE RebaseOpen
  BY <1>5, Zenon DEF RebaseOpen, NotCalled, DetachedOK
<1>6. CASE MoveNext
  BY <1>6, Zenon DEF MoveNext, Called, NotCalled, DetachedOK
<1>7. CASE WriteMsgnum
  <2>1. UNCHANGED <<rb_head, rb_ref, rb_index>> /\ rb \in 1 .. N /\ msgnum \in 0 .. rb
    BY <1>7 DEF WriteMsgnum, CallOK, NumberOK
  <2>2. msgnum' \in {msgnum, rb}
    BY <1>7, Zenon DEF WriteMsgnum
  <2>3. Upto(rb_index.tree.picks, msgnum) => Upto(rb_index.tree.picks, rb)
    BY <2>1, UptoMore
  <2>4. QED
    BY <2>1, <2>2, <2>3 DEF DetachedOK
<1>8. CASE MergePick
  <2>1. UNCHANGED <<rb_head, rb_ref, msgnum>> /\ rb \in 1 .. N /\ msgnum = rb /\ rb_index.tree \in Trees
    BY <1>8 DEF MergePick, CallOK, NumberOK
  <2> SUFFICES ASSUME rb_head = "detached" PROVE DetachedOK'
    BY <2>1, Zenon DEF DetachedOK
  <2>2. CASE UNCHANGED rb_index
    BY <2>1, <2>2, Zenon DEF DetachedOK
  <2>3. CASE ~Has(rb_ref[rb_head], rb) /\ ~Dirty /\ rb_index' = [rb_index EXCEPT !.conflict = rb]
    <3>1. rb_index.tree = rb_ref[rb_head]
      BY <2>3, Zenon DEF Dirty
    <3>2. Upto(rb_index.tree.picks, rb - 1)
      BY <2>1, <2>3, <3>1, UptoLess DEF DetachedOK
    <3>3. rb_index'.tree = rb_index.tree /\ rb_index'.conflict = rb
      BY <2>3, Zenon
    <3>4. QED
      BY <2>1, <3>2, <3>3 DEF DetachedOK
  <2>4. CASE rb_index' = Clean(Add(rb_index.tree, rb))
    <3>1. rb_index'.tree = Add(rb_index.tree, rb) /\ rb_index'.conflict = 0
      BY <2>4, Zenon DEF Clean
    <3>2. Upto(rb_index.tree.picks, rb) /\ Ordered(rb_index.tree.picks) /\ rb_index.tree.on = "onto"
      BY <2>1 DEF DetachedOK
    <3>3. PICK new : new = Add(rb_index.tree, rb)
      BY Zenon
    <3>4. rb \in Int /\ rb <= rb
      BY <2>1 DEF RebaseAssumption
    <3>5. /\ new.on = "onto" /\ Ordered(new.picks) /\ Upto(new.picks, rb)
          /\ Range(rb_index.tree.picks) \subseteq Range(new.picks)
      BY <2>1, <3>2, <3>3, <3>4, AddedPick, Zenon
    <3>6. QED
      BY <2>1, <3>1, <3>3, <3>5 DEF DetachedOK
  <2>5. QED
    BY <1>8, <2>2, <2>3, <2>4, Zenon DEF MergePick
<1>9. CASE CommitUpdate
  <2>1. UNCHANGED <<rb_head, rb_index, msgnum>> /\ rb_ref' = [rb_ref EXCEPT ![rb_head] = rb_index.tree]
    BY <1>9, Zenon DEF CommitUpdate
  <2>2. /\ rb_head = "detached" => rb_ref'.detached = rb_index.tree
        /\ rb_head # "detached" => rb_ref'.detached = rb_ref.detached
    BY <2>1, Zenon
  <2>3. QED
    BY <2>1, <2>2, Zenon DEF DetachedOK
<1>10. CASE CommitRewritten
  BY <1>10, Zenon DEF CommitRewritten, DetachedOK
<1>11. CASE FinishBranch
  BY <1>11, Zenon DEF FinishBranch, Called, NotCalled, DetachedOK
<1>12. CASE FinishHead
  BY <1>12, Zenon DEF FinishHead, DetachedOK
<1>13. CASE CopyNotes
  BY <1>13, Zenon DEF CopyNotes, DetachedOK
<1>14. CASE AbortHead
  BY <1>14, Zenon DEF AbortHead, Called, NotCalled, DetachedOK
<1>15. CASE AbortCheckout
  BY <1>15, Zenon DEF AbortCheckout, DetachedOK, CallOK, Aborting
<1>16. CASE AbortRef
  BY <1>16, Zenon DEF AbortRef, DetachedOK
<1>17. CASE Cleanup
  BY <1>17, Zenon DEF Cleanup, DetachedOK, CallOK, Finishing, Aborting
<1>18. CASE RebaseCrash
  <2>1. UNCHANGED <<rb_head, rb_ref, rb_index>>
    BY <1>18, Zenon DEF RebaseCrash
  <2> SUFFICES ASSUME rb_head = "detached" PROVE DetachedOK'
    BY <2>1, Zenon DEF DetachedOK
  <2>2. setup = "full" /\ rb_pc \notin {"setup", "finish_cleanup", "abort_cleanup"} /\ rb \in Nat
    BY <1>18 DEF CanBeAborted, WayBackIsRecorded, CallOK, Starting, Finishing, Aborting, RebaseCrash
  <2>3. msgnum \in 0 .. rb /\ msgnum' \in {msgnum, Torn, rb}
    BY <1>18, <2>2, Zenon DEF RebaseCrash, TornSetup, TornMsgnum, NumberOK
  <2>4. Upto(rb_index.tree.picks, msgnum) => Upto(rb_index.tree.picks, rb)
    BY <2>2, <2>3, UptoMore
  <2>5. QED
    BY <2>1, <2>2, <2>3, <2>4 DEF DetachedOK
<1>19. CASE UserResolves
  <2>1. UNCHANGED <<rb_head, rb_ref, msgnum>> /\ rb_index.conflict \in 1 .. N /\ rb_index.tree \in Trees
    BY <1>19 DEF UserResolves
  <2> SUFFICES ASSUME rb_head = "detached" PROVE DetachedOK'
    BY <2>1, Zenon DEF DetachedOK
  <2>2. /\ rb_index.tree.on = "onto" /\ Ordered(rb_index.tree.picks)
        /\ Upto(rb_index.tree.picks, rb_index.conflict - 1)
    BY <2>1 DEF DetachedOK
  <2>3. Upto(rb_index.tree.picks, rb_index.conflict)
    BY <2>1, <2>2, UptoMore DEF RebaseAssumption
  <2>4. PICK t \in {rb_index.tree, Add(rb_index.tree, rb_index.conflict)} : rb_index' = Clean(t)
    BY <1>19, Zenon DEF UserResolves
  <2>5. rb_index'.tree = t /\ rb_index'.conflict = 0
    BY <2>4, Zenon DEF Clean
  <2>6. /\ t.on = "onto" /\ Ordered(t.picks) /\ Range(rb_index.tree.picks) \subseteq Range(t.picks)
        /\ msgnum # Torn => Upto(t.picks, msgnum)
    <3>1. msgnum \in Int /\ (msgnum # Torn => Upto(rb_index.tree.picks, msgnum) /\ rb_index.conflict <= msgnum)
      BY DEF DetachedOK, RebaseAssumption
    <3>2. CASE t = rb_index.tree
      BY <2>2, <3>1, <3>2, Zenon
    <3>3. CASE t = Add(rb_index.tree, rb_index.conflict)
      BY <2>1, <2>2, <2>3, <3>1, <3>3, AddedPick, Zenon
    <3>4. QED
      BY <2>4, <3>2, <3>3, Zenon
  <2>7. QED
    BY <2>1, <2>5, <2>6 DEF DetachedOK
<1>20. CASE UserDrops
  <2>1. UNCHANGED <<rb_head, rb_ref, msgnum>> /\ rb_index' = Clean(rb_ref[rb_head])
    BY <1>20, Zenon DEF UserDrops
  <2> SUFFICES ASSUME rb_head = "detached" PROVE DetachedOK'
    BY <2>1, Zenon DEF DetachedOK
  <2>2. rb_index'.tree = rb_ref.detached /\ rb_index'.conflict = 0
    BY <2>1, Zenon DEF Clean
  <2>3. rb_ref.detached.picks \in Seq(1 .. N) /\ rb_index.tree.picks \in Seq(1 .. N)
    BY Zenon DEF Trees
  <2>4. msgnum # Torn => Upto(rb_ref.detached.picks, msgnum)
    BY <2>3, UptoSubset DEF DetachedOK
  <2>5. QED
    BY <2>1, <2>2, <2>4 DEF DetachedOK
<1>21. CASE ForeignCommit
  BY <1>21, Zenon DEF ForeignCommit, DetachedOK
<1>22. CASE UNCHANGED rebase_vars
  BY <1>22, Zenon DEF rebase_vars, DetachedOK
<1>23. QED
  BY <1>1, <1>2, <1>3, <1>4, <1>5, <1>6, <1>7, <1>8, <1>9, <1>10, <1>11,
     <1>12, <1>13, <1>14, <1>15, <1>16, <1>17, <1>18, <1>19, <1>20, <1>21, <1>22, Zenon DEF RebaseNext

(* A rebase that nobody gave up, and whose init succeeded, keeps every commit     *)
(* that was reported, moves the branch from where it was, and no other.          *)
LEMMA CourseStep == RebaseAssumption /\ TypeOK /\ TypeOK' /\ CallOK /\ CanBeAborted /\ DetachedOK /\ Course /\ [RebaseNext]_rebase_vars => Course'
<1> SUFFICES ASSUME RebaseAssumption, TypeOK, TypeOK', CallOK, CanBeAborted, DetachedOK, Course, [RebaseNext]_rebase_vars PROVE Course'
  BY Zenon
<1> USE DEF rb_disk, history, TypeOK, Branches, Starting, Finishing, Aborting
<1>1. CASE RebaseInit
  BY <1>1, NamedTrees, TreesAre, NoPicks, Zenon
  DEF RebaseInit, NotCalled, Dirty, Course, CanBeAborted, WayBackIsRecorded
<1>2. CASE SetupFiles
  BY <1>2, NamedTrees, TreesAre, NoPicks, Zenon DEF SetupFiles, Course, CallOK
<1>3. CASE InitCheckout
  BY <1>3, NamedTrees, TreesAre, NoPicks, Zenon DEF InitCheckout, Course, Clean, CallOK
<1>4. CASE InitHead
  BY <1>4, NamedTrees, TreesAre, NoPicks, Zenon DEF InitHead, Course, CallOK
<1>5. CASE RebaseOpen
  BY <1>5, NamedTrees, TreesAre, NoPicks, Zenon DEF RebaseOpen, NotCalled, Course
<1>6. CASE MoveNext
  BY <1>6, NamedTrees, TreesAre, NoPicks, Zenon DEF MoveNext, Called, NotCalled, Course
<1>7. CASE WriteMsgnum
  BY <1>7, NamedTrees, TreesAre, NoPicks, Zenon DEF WriteMsgnum, Course
<1>8. CASE MergePick
  <2>1. /\ UNCHANGED <<rb_head, rb_ref, setup, rb, history>> /\ rb \in 1 .. N /\ rb_index.tree \in Trees
        /\ rb_pc = "merge" /\ rb_pc' = "idle"
    BY <1>8 DEF MergePick, CallOK
  <2>2. PICK new : new = Add(rb_index.tree, rb)
    BY Zenon
  <2>3. new.on = rb_index.tree.on /\ Range(rb_index.tree.picks) \subseteq Range(new.picks)
    BY <2>1, <2>2, AddedPick, Zenon
  <2>4. rb_index'.tree \in {rb_index.tree, new}
    BY <1>8, <2>2 DEF MergePick, Clean
  <2>5. rb_index'.tree.on = rb_index.tree.on /\ Range(rb_index.tree.picks) \subseteq Range(rb_index'.tree.picks)
    BY <2>3, <2>4, Zenon
  <2>6. QED
    BY <2>1, <2>5, Zenon DEF Course
<1>9. CASE CommitUpdate
  <2>1. /\ UNCHANGED <<rb_head, rb_index, setup, rb, history>> /\ rb >= 0 /\ outcome = "none"
        /\ rb_ref' = [rb_ref EXCEPT ![rb_head] = rb_index.tree] /\ rb_pc = "idle" /\ rb_pc' = "rewritten"
    BY <1>9, Zenon DEF CommitUpdate, Called, NotCalled
  <2> SUFFICES ASSUME ~strayed PROVE Course'
    BY <2>1, Zenon DEF Course
  <2>2. CASE rb_head = "detached"
    <3>1. rb_ref'.detached = rb_index.tree /\ rb_ref'.branch = rb_ref.branch /\ rb_ref'.other = rb_ref.other
      BY <2>1, <2>2, Zenon
    <3>2. Range(rb_ref.detached.picks) \subseteq Range(rb_index.tree.picks)
      BY <2>2, Zenon DEF DetachedOK
    <3>3. QED
      BY <2>1, <2>2, <3>1, <3>2, Zenon DEF Course
  <2>3. CASE rb_head = "branch" /\ rb_ref.branch.on = "onto"
    <3>1. rb_ref'.branch = rb_index.tree /\ rb_ref'.detached = rb_ref.detached /\ rb_ref'.other = rb_ref.other
      BY <2>1, <2>3, Zenon
    <3>2. QED
      BY <2>1, <2>3, <3>1, Zenon DEF Course
  <2>4. QED
    BY <2>1, <2>2, <2>3, Zenon DEF Course
<1>10. CASE CommitRewritten
  <2>1. /\ UNCHANGED <<rb_head, rb_ref, rb_index, setup, rb, strayed, foreign, outcome>> /\ rb >= 0
        /\ rb_pc = "rewritten" /\ rb_pc' = "idle" /\ outcome = "none"
        /\ committed' \subseteq committed \cup Range(rb_ref[rb_head].picks)
    BY <1>10 DEF CommitRewritten, CallOK
  <2> SUFFICES ASSUME ~strayed PROVE Course'
    BY <2>1, Zenon DEF Course
  <2>2. CASE rb_head = "detached"
    BY <2>1, <2>2, Zenon DEF Course
  <2>3. CASE rb_head = "branch" /\ rb_ref.branch.on = "onto"
    BY <2>1, <2>3, Zenon DEF Course
  <2>4. QED
    BY <2>1, <2>2, <2>3, Zenon DEF Course
<1>11. CASE FinishBranch
  BY <1>11, NamedTrees, TreesAre, NoPicks, Zenon
  DEF FinishBranch, Called, NotCalled, Course, DetachedOK
<1>12. CASE FinishHead
  BY <1>12, NamedTrees, TreesAre, NoPicks, Zenon DEF FinishHead, Course, DetachedOK
<1>13. CASE CopyNotes
  BY <1>13, NamedTrees, TreesAre, NoPicks, Zenon DEF CopyNotes, Course
<1>14. CASE AbortHead
  BY <1>14, NamedTrees, TreesAre, NoPicks, Zenon DEF AbortHead, Called, NotCalled, Course
<1>15. CASE AbortCheckout
  BY <1>15, NamedTrees, TreesAre, NoPicks, Zenon DEF AbortCheckout, Course, CallOK
<1>16. CASE AbortRef
  BY <1>16, NamedTrees, TreesAre, NoPicks, Zenon DEF AbortRef, Course
<1>17. CASE Cleanup
  BY <1>17, NamedTrees, TreesAre, NoPicks, Zenon DEF Cleanup, Course, CallOK
<1>18. CASE RebaseCrash
  <2>1. /\ UNCHANGED <<rb_head, rb_ref, rb_index, committed, foreign, outcome>> /\ rb' = -1 /\ rb_pc' = "idle"
        /\ strayed' = (strayed \/ rb_pc \in Starting) /\ rb >= 0
    BY <1>18, Zenon DEF RebaseCrash
  <2> SUFFICES ASSUME ~strayed, rb_pc \notin Starting PROVE Course'
    BY <2>1, Zenon DEF Course
  <2>2. outcome = "none"
    BY <2>1 DEF CallOK
  <2>3. QED
    BY <2>1, <2>2, Zenon DEF Course
<1>19. CASE UserResolves
  <2>1. /\ UNCHANGED <<rb_head, rb_ref, setup, rb, rb_pc, history>>
        /\ rb_index.conflict \in 1 .. N /\ rb_index.tree \in Trees
    BY <1>19 DEF UserResolves
  <2>2. PICK new : new = Add(rb_index.tree, rb_index.conflict)
    BY Zenon
  <2>3. new.on = rb_index.tree.on /\ Range(rb_index.tree.picks) \subseteq Range(new.picks)
    BY <2>1, <2>2, AddedPick, Zenon
  <2>4. rb_index'.tree \in {rb_index.tree, new}
    BY <1>19, <2>2 DEF UserResolves, Clean
  <2>5. rb_index'.tree.on = rb_index.tree.on /\ Range(rb_index.tree.picks) \subseteq Range(rb_index'.tree.picks)
    BY <2>3, <2>4, Zenon
  <2>6. QED
    BY <2>1, <2>5, Zenon DEF Course
<1>20. CASE UserDrops
  BY <1>20, NamedTrees, TreesAre, NoPicks, Zenon DEF UserDrops, NotCalled, Dirty, Course, Clean
<1>21. CASE ForeignCommit
  <2>1. /\ UNCHANGED <<rb_head, rb_index, setup, rb, rb_pc, committed, strayed, outcome>>
        /\ rb_ref.branch = Orig /\ rb_head = "detached" /\ outcome = "none"
        /\ rb_ref' = [rb_ref EXCEPT !.branch = Tree("moved")]
    BY <1>21, Zenon DEF ForeignCommit
  <2>2. rb_ref'.branch.on = "moved" /\ rb_ref'.detached = rb_ref.detached /\ rb_ref'.other = rb_ref.other
    BY <2>1, TreesAre, Zenon
  <2>3. QED
    BY <2>1, <2>2, NamedTrees DEF Course, DetachedOK, CallOK
<1>22. CASE UNCHANGED rebase_vars
  BY <1>22, Zenon DEF rebase_vars, Course
<1>23. QED
  BY <1>1, <1>2, <1>3, <1>4, <1>5, <1>6, <1>7, <1>8, <1>9, <1>10, <1>11,
     <1>12, <1>13, <1>14, <1>15, <1>16, <1>17, <1>18, <1>19, <1>20, <1>21, <1>22, Zenon DEF RebaseNext

-----------------------------------------------------------------------------
(* The invariant holds before the rebase.                                  *)
LEMMA RebaseInit0 == RebaseAssumption /\ RepoInit => RebaseInv
<1> SUFFICES ASSUME RebaseAssumption, RepoInit PROVE RebaseInv
  BY Zenon
<1> USE DEF Branches
<1>1. /\ rb_ref = [branch |-> Orig, other |-> Tree("other"), detached |-> Onto]
      /\ rb_ref.branch = Orig /\ rb_ref.other = Tree("other") /\ rb_ref.detached = Onto
  BY Zenon DEF RepoInit
<1>2. rb_ref \in [Branches -> Trees] /\ rb_head \in Branches /\ rb_ref[rb_head] \in Trees
  BY <1>1, NamedTrees, TreesAre, Zenon DEF RepoInit
<1>3. TypeOK
  BY <1>2 DEF RepoInit, TypeOK, Clean, RebaseAssumption
<1>4. CallOK /\ NumberOK /\ CanBeAborted
  BY DEF RepoInit, CallOK, NumberOK, CanBeAborted, WayBackIsRecorded, AbortRestores, Starting,
         Finishing, Aborting
<1>5. DetachedOK
  BY <1>1, NamedTrees, NoPicks, Zenon DEF RepoInit, DetachedOK
<1>6. Course
  BY <1>1, NamedTrees DEF RepoInit, Course, Starting, Finishing, Aborting
<1>7. QED
  BY <1>3, <1>4, <1>5, <1>6, Zenon DEF RebaseInv

(* Every step of rebase.c, every crash and every step of a user preserves  *)
(* the invariant.                                                          *)
LEMMA RebaseStep == RebaseAssumption /\ RebaseInv /\ [RebaseNext]_rebase_vars => RebaseInv'
<1> SUFFICES ASSUME RebaseAssumption, RebaseInv, [RebaseNext]_rebase_vars PROVE RebaseInv'
  BY Zenon
<1>1. TypeOK /\ CallOK /\ NumberOK /\ CanBeAborted /\ DetachedOK /\ Course
  BY Zenon DEF RebaseInv
<1>2. TypeOK'
  BY <1>1, TypeStep, Zenon
<1>3. CallOK' /\ NumberOK' /\ CanBeAborted'
  BY <1>1, CallStep, NumberStep, AbortStep, Zenon
<1>4. DetachedOK' /\ Course'
  BY <1>1, <1>2, DetachedStep, CourseStep, Zenon
<1>5. QED
  BY <1>2, <1>3, <1>4, Zenon DEF RebaseInv

(* The invariant implies what the run checks.                              *)
LEMMA RebaseInvIsExact == RebaseInv => RebaseIsExact
<1> SUFFICES ASSUME RebaseInv PROVE RebaseIsExact
  BY Zenon
<1>1. PicksInOrder
  BY Zenon DEF RebaseInv, DetachedOK, Ordered, PicksInOrder, InOrder
<1>2. FinishedIsComplete /\ OtherUntouched
  BY Zenon DEF RebaseInv, Course, Ordered, FinishedIsComplete, InOrder, OtherUntouched
<1>3. QED
  BY <1>1, <1>2, Zenon DEF RebaseIsExact

(* A rebase of any number of patches, over any number of crashes, reopenings,    *)
(* failed calls and conflicts, applies them in the order of the operations and    *)
(* none twice.  If its init did not fail or die half way, and no abort of it was   *)
(* begun, then when git_rebase_finish() ends it the branch has every commit that   *)
(* git_rebase_commit() reported, in order, nobody else's commit is lost, and no    *)
(* other branch has moved.                                                       *)
THEOREM RebasesAreExact == ASSUME RebaseAssumption PROVE RebaseSpec => []RebaseIsExact
<1>1. RepoInit => RebaseInv
  BY RebaseInit0, Zenon
<1>2. RebaseInv /\ [RebaseNext]_rebase_vars => RebaseInv'
  BY RebaseStep, Zenon
<1>3. RebaseInv => RebaseIsExact
  BY RebaseInvIsExact, Zenon
<1>4. QED
  BY <1>1, <1>2, <1>3, PTL DEF RebaseSpec

(* From the moment that HEAD leaves the branch, rebase-merge/ holds what          *)
(* git_rebase_open() needs, and a git_rebase_abort() that succeeds has put the     *)
(* branch back, with HEAD on it and its index and working directory, wherever      *)
(* HEAD was before the rebase.                                                    *)
THEOREM RebasesCanBeAborted == ASSUME RebaseAssumption PROVE RebaseSpec => []CanBeAborted
<1>1. RepoInit => RebaseInv
  BY RebaseInit0
<1>2. RebaseInv /\ [RebaseNext]_rebase_vars => RebaseInv'
  BY RebaseStep, Zenon
<1>3. RebaseInv => CanBeAborted
  BY Zenon DEF RebaseInv
<1>4. QED
  BY <1>1, <1>2, <1>3, PTL DEF RebaseSpec
=============================================================================

---------------------------- MODULE StashProofs ----------------------------
(* Proofs about the stash, for any files, contents, flags and .gitignore, and *)
(* any number of stashes, edits, calls, errors and crashes.                   *)
EXTENDS Stash, TLAPS

Tree == [Path -> SUBSET Text]
IndexTree == [Path -> SUBSET (Text \cup {"unmerged"})]
Entry == [b : Tree, i : Tree, u : Tree, w : Tree]

Saving == {"untracked", "worktree", "reflog", "ref"}
Applying == {"checkout", "files", "write"}

SaveOp == [call : {"save"}, flags : SaveFlags, b : Tree, i : Tree, u : Tree, w : Tree,
           before : Tree]
ResetOp == [call : {"save"}, flags : SaveFlags, i : Tree, before : Tree, target : Tree,
            todo : [Path -> {"none", "remove", "update"}]]
SavedOp == [call : {"saved"}, i : Tree, before : Tree, flags : SaveFlags]
ApplyOp == [call : {"apply"}, pos : Nat, reinstate : BOOLEAN, of : Entry, before : Tree,
            staged : IndexTree, after : SavedOp \cup {NoOp}, pop : BOOLEAN, same : BOOLEAN,
            blind : SUBSET Path, phase : {"untracked", "modified"}, restage : BOOLEAN, unstashed : IndexTree,
            modified : IndexTree, target : IndexTree,
            todo : [Path -> {"none", "remove", "update", "written"}]]
OutcomeOp(call) == [call : {call}, pos : Nat, reinstate : BOOLEAN, of : Entry, before : Tree,
                    staged : IndexTree, after : SavedOp \cup {NoOp}]
DropOp == [call : {"drop"}, pos : Nat]

(* What the call that runs, or the last one, keeps at each step               *)
OpOK ==
    \/ pc \in Saving /\ op \in SaveOp
    \/ pc = "reset" /\ op \in ResetOp
    \/ pc \in Applying /\ op \in ApplyOp
    \/ pc \in {"drop", "drop_ref"} /\ op \in OutcomeOp("applied") \cup DropOp
    \/ /\ pc = "idle"
       /\ op \in SavedOp \cup OutcomeOp("applied") \cup OutcomeOp("refused") \cup DropOp \cup {NoOp}

TreesOK ==
    /\ head \in Tree /\ workdir \in Tree /\ index \in IndexTree /\ disk \in IndexTree
    /\ log \in Seq(Entry)
    /\ \A x \in work : x[1] \in Path /\ x[2] \notin head[x[1]]

StashTypeOK == TreesOK /\ ref \in BOOLEAN /\ leftover \in BOOLEAN /\ OpOK

USE DEF user_work

(* The two trees of a stash, of one file: what the untracked files and the    *)
(* working directory contribute.                                              *)
KeptU(i, wd, ign, flags) ==
    IF i = Absent /\ wd # Absent /\ (IF ign THEN "INCLUDE_IGNORED" \in flags
                                            ELSE "INCLUDE_UNTRACKED" \in flags)
    THEN wd ELSE Absent
KeptW(h, i, wd, ign) ==
    LET s == IF i = Absent /\ wd # Absent
             THEN IF ign THEN "UNMODIFIED" ELSE "UNTRACKED" ELSE Status(i, wd)
        d == DeltaMerge(Status(h, i), s)
    IN  CASE d \in {"ADDED", "MODIFIED"} -> wd
          [] d = "DELETED" -> Absent
          [] OTHER -> i

(* e is the stash that a git_stash_save() s made on top of HEAD.              *)
IsStashOf(e, s) ==
    /\ e.b = head /\ e.i = s.i
    /\ \A p \in Path :
          /\ e.u[p] = KeptU(s.i[p], s.before[p], p \in ignored, s.flags)
          /\ e.w[p] = KeptW(head[p], s.i[p], s.before[p], p \in ignored)

SaveInv ==
    pc \in Saving =>
        /\ op.b = head /\ op.before = workdir /\ (~leftover => op.i = disk)
        /\ pc = "untracked" => op.u = Empty
        /\ pc # "untracked" =>
              \A p \in Path : op.u[p] = KeptU(op.i[p], workdir[p], p \in ignored, op.flags)
        /\ pc \in {"reflog", "ref"} =>
              \A p \in Path : op.w[p] = KeptW(head[p], op.i[p], workdir[p], p \in ignored)
        /\ pc = "ref" =>
              log # <<>> /\ log[1] = [b |-> op.b, i |-> op.i, u |-> op.u, w |-> op.w]

(* The reset of one file, given what the checkout has to do with it           *)
ResetAction(t, s, p) ==
    ForceAction(head[p], t, s.before[p], p \in ignored, s.i[p] # Absent, s.flags)
ResetAt(p) ==
    LET act == ResetAction(op.target[p], op, p)
    IN  IF op.todo[p] = "none"
        THEN IF act = "none"
             THEN workdir[p] = op.before[p] /\ index[p] = op.i[p]
             ELSE workdir[p] = op.target[p] /\ index[p] = op.target[p]
        ELSE op.todo[p] = act /\ workdir[p] = op.before[p] /\ index[p] = op.i[p]
ResetInv ==
    pc = "reset" =>
        /\ ref /\ log # <<>> /\ IsStashOf(log[1], op)
        /\ op.target = IF "KEEP_INDEX" \in op.flags THEN op.i ELSE head
        /\ ~leftover => \A p \in Path : ResetAt(p)

(* What git_stash_save() leaves of one file                                   *)
AfterReset(s, p) == IF ResetAction(head[p], s, p) = "none" THEN s.before[p] ELSE head[p]
StagedAfterReset(s, p) == IF ResetAction(head[p], s, p) = "none" THEN s.i[p] ELSE head[p]
SavedInv ==
    op.call = "saved" /\ ~leftover =>
        /\ ref /\ log # <<>> /\ IsStashOf(log[1], op)
        /\ "KEEP_INDEX" \notin op.flags =>
              \A p \in Path : workdir[p] = AfterReset(op, p) /\ index[p] = StagedAfterReset(op, p)

-----------------------------------------------------------------------------
(* git_stash_apply(): the merged indexes are made from HEAD and the stash.    *)
Merges(a, o, t) == {Merge(a, o, t, clean) : clean \in BOOLEAN}
TargetsOK ==
    /\ \A p \in Path : op.modified[p] \in Merges(op.of.b[p], head[p], op.of.w[p])
    /\ IF op.phase = "untracked"
       THEN \A p \in Path : op.target[p] \in Merges(Absent, head[p], op.of.u[p])
       ELSE op.target = op.modified

(* One file of a checkout whose baseline is HEAD                              *)
FileAt(p) ==
    LET new == Stage0(op.target[p])
    IN  /\ op.todo[p] \in {"update", "remove"} =>
              new # head[p] /\ (GivesWay(p) \/ workdir[p] \in {Absent, head[p], new})
        /\ op.todo[p] = "none" /\ new # head[p] => workdir[p] = new
        /\ op.todo[p] = "written" => "unmerged" \in op.target[p] /\ workdir[p] = ConflictFile(p)

(* What the user wrote that gave way to no checkout                            *)
Owed == work \ given_way

(* What the user wrote and the stash carries is written out: the untracked     *)
(* files, and all of it                                                       *)
UntrackedOut == \A x \in Owed : x[2] \in op.of.u[x[1]] => x[2] \in workdir[x[1]]
AllOut == \A x \in Owed : x[2] \in Carries(op.of, x[1]) => x[2] \in workdir[x[1]]

(* A refusal leaves the files: until the modified files are checked out, only *)
(* files that the stash has as untracked may differ.                          *)
Untouched ==
    /\ pc = "checkout" \/ op.phase = "untracked" =>
          \A p \in Path : workdir[p] = op.before[p] \/ op.of.u[p] # Absent
    /\ pc = "files" /\ op.phase = "untracked" =>
          \A p \in Path : op.todo[p] # "none" => op.of.u[p] # Absent

(* The progress of the call                                                   *)
ComesOut ==
    ~leftover =>
        /\ pc = "files" => \A p \in Path : FileAt(p)
        /\ op.phase = "modified" => UntrackedOut
        /\ pc = "write" => AllOut

ApplyInv ==
    pc \in Applying =>
        /\ ref /\ op.pos < Len(log) /\ op.of = log[op.pos + 1]
        /\ TargetsOK
        /\ pc = "write" => op.phase = "modified"
        /\ pc # "write" => disk = op.staged /\ (~leftover => disk = head)
        /\ Untouched
        /\ ComesOut

DropInv ==
    /\ pc = "drop" =>
          /\ ref /\ op.pos < Len(log)
          /\ ~leftover => \A x \in Owed :
                \/ x[2] \in workdir[x[1]]
                \/ \E i \in DOMAIN log \ {op.pos + 1} : x[2] \in Carries(log[i], x[1])
    /\ pc = "drop_ref" => log = <<>>

-----------------------------------------------------------------------------
(* The call applies the stash that the call before it made.                   *)
BringsBack ==
    LET s == op.after
    IN  /\ ~leftover /\ op.pos = 0 /\ op.reinstate /\ s.call = "saved"
        /\ "KEEP_INDEX" \notin s.flags /\ \A p \in Path : Ordinary(s, p)

(* The working directory when the untracked files are back                    *)
AfterUntracked(p) == IF op.of.u[p] # Absent THEN op.of.u[p] ELSE AfterReset(op.after, p)

TripAt(p) ==
    LET s == op.after
    IN  IF op.phase = "untracked"
        THEN IF pc = "checkout" \/ op.todo[p] # "none"
             THEN workdir[p] = AfterReset(s, p) ELSE workdir[p] = AfterUntracked(p)
        ELSE IF pc = "checkout" \/ (pc = "files" /\ op.todo[p] # "none")
             THEN workdir[p] = AfterUntracked(p) ELSE workdir[p] = s.before[p]

TripInv ==
    pc \in Applying /\ BringsBack =>
        /\ IsStashOf(op.of, op.after) /\ op.unstashed = op.after.i
        /\ op.restage = (op.of.b # op.of.i)
        /\ \A p \in Path : TripAt(p)
        /\ pc = "files" => index = head
        /\ pc = "write" => index = op.after.i

StashInv ==
    /\ StashTypeOK /\ SaveInv /\ ResetInv /\ SavedInv /\ ApplyInv /\ DropInv /\ TripInv
    /\ WorkIsKept /\ AppliesOrRefuses

-----------------------------------------------------------------------------
(* One file, by cases.  What git_stash_save() is about to overwrite is in the  *)
(* stash, in HEAD, or in an ignored file that it need not keep.               *)
LEMMA ResetKeeps ==
    ASSUME NEW h, NEW i, NEW wd, NEW ign \in BOOLEAN, NEW flags, NEW v \in wd, v \notin h,
           NEW t \in {h, i},
           ForceAction(h, t, wd, ign, i # Absent, flags) # "none"
    PROVE  \/ v \in KeptU(i, wd, ign, flags)
           \/ v \in KeptW(h, i, wd, ign)
           \/ ign /\ i = Absent /\ "INCLUDE_IGNORED" \notin flags
<1>1. wd # Absent /\ wd # h
  BY Zenon DEF Absent
<1>2. CASE i = Absent /\ h = Absent
  BY <1>1, <1>2, Zenon DEF ForceAction, KeptU
<1>3. CASE i = Absent /\ h # Absent
  BY <1>1, <1>3, Zenon DEF KeptU, KeptW, Status, DeltaMerge, MergeLikeCgit
<1>4. CASE i # Absent
  BY <1>1, <1>4, Zenon DEF KeptW, Status, DeltaMerge, MergeLikeCgit
<1> QED
  BY <1>2, <1>3, <1>4, Zenon

(* A checkout of a merged index brings out what the other side changed.       *)
LEMMA MergeBrings ==
    ASSUME NEW a, NEW o \in SUBSET Text, NEW t \in SUBSET Text, NEW m \in Merges(a, o, t),
           NEW v \in t, v \notin a, v \notin o, StashAssumption
    PROVE  \/ "unmerged" \in m
           \/ Stage0(m) # o /\ v \in Stage0(m)
<1>1. "unmerged" \notin o /\ "unmerged" \notin t
  BY Zenon DEF StashAssumption
<1>2. PICK clean \in BOOLEAN : m = Merge(a, o, t, clean)
  BY Zenon DEF Merges
<1> QED
  BY <1>1, <1>2, Zenon DEF Merge, Stage0

(* A merge with no ancestor and nothing on the other side leaves our side. *)
LEMMA MergeOfNothing ==
    ASSUME NEW o \in SUBSET Text, NEW m \in Merges(Absent, o, Absent), StashAssumption
    PROVE  m = o /\ Stage0(m) = o
<1>1. "unmerged" \notin o
  BY Zenon DEF StashAssumption
<1> QED
  BY <1>1, Zenon DEF Merge, Merges, Stage0

(* A merge on top of the ancestor gives the other side. *)
LEMMA MergeOnParent ==
    ASSUME NEW o, NEW t, NEW m \in Merges(o, o, t)
    PROVE  m = t
BY Zenon DEF Merge, Merges

(* A file that is stashed and brought back.  r is what the reset leaves, and x *)
(* what is there once the untracked files are back.                           *)
Left(h, i, wd, ign, flags) ==
    IF ForceAction(h, h, wd, ign, i # Absent, flags) = "none" THEN wd ELSE h
Back(h, i, wd, ign, flags) ==
    IF KeptU(i, wd, ign, flags) # Absent THEN KeptU(i, wd, ign, flags)
    ELSE Left(h, i, wd, ign, flags)

(* The untracked files come back where the reset removed them.                *)
LEMMA UntrackedBack ==
    ASSUME NEW h \in SUBSET Text, NEW i, NEW wd \in SUBSET Text, NEW ign \in BOOLEAN, NEW flags,
           wd = h => i = h, i = Absent /\ h # Absent => wd = Absent, StashAssumption,
           NEW m \in Merges(Absent, h, KeptU(i, wd, ign, flags)), NEW same \in BOOLEAN,
           NEW blind \in BOOLEAN, NEW act,
           act = SafeAction(h, Stage0(m), Left(h, i, wd, ign, flags), ign, same, blind)
    PROVE  /\ "unmerged" \notin m /\ act # "conflict"
           /\ act = "none" => Left(h, i, wd, ign, flags) = Back(h, i, wd, ign, flags)
           /\ act # "none" => Stage0(m) = Back(h, i, wd, ign, flags)
<1> DEFINE u == KeptU(i, wd, ign, flags)
<1>1. "unmerged" \notin h /\ "unmerged" \notin wd
  BY Zenon DEF StashAssumption
<1>2. CASE u = Absent
  <2>1. m = h /\ Stage0(m) = h
    BY <1>2, MergeOfNothing, Zenon
  <2> QED
    BY <1>1, <1>2, <2>1, Zenon DEF SafeAction, Back
<1>3. CASE u # Absent
  <2>1. /\ u = wd /\ i = Absent /\ wd # Absent /\ h = Absent
        /\ IF ign THEN "INCLUDE_IGNORED" \in flags ELSE "INCLUDE_UNTRACKED" \in flags
    BY <1>3, Zenon DEF KeptU
  <2>2. m = wd
    BY <2>1, Zenon DEF Merge, Merges
  <2>3. Left(h, i, wd, ign, flags) = Absent
    BY <2>1, Zenon DEF Left, ForceAction
  <2>4. Stage0(m) = wd
    BY <1>1, <2>2, Zenon DEF Stage0
  <2> QED
    BY <1>1, <1>3, <2>1, <2>2, <2>3, <2>4, Zenon DEF SafeAction, Back
<1> QED
  BY <1>2, <1>3, Zenon

(* The tree of the working directory brings back the others.                  *)
LEMMA WorktreeBack ==
    ASSUME NEW h \in SUBSET Text, NEW i \in SUBSET Text, NEW wd \in SUBSET Text,
           NEW ign \in BOOLEAN, NEW flags,
           wd = h => i = h, i = Absent /\ h # Absent => wd = Absent, StashAssumption,
           NEW m \in Merges(h, h, KeptW(h, i, wd, ign)), NEW same \in BOOLEAN,
           NEW blind \in BOOLEAN, NEW act,
           act = SafeAction(h, Stage0(m), Back(h, i, wd, ign, flags), ign, same, blind)
    PROVE  /\ "unmerged" \notin m /\ act # "conflict"
           /\ act = "none" => Back(h, i, wd, ign, flags) = wd
           /\ act # "none" => Stage0(m) = wd
<1> DEFINE w == KeptW(h, i, wd, ign)
           r == Left(h, i, wd, ign, flags)
           x == Back(h, i, wd, ign, flags)
<1>1. "unmerged" \notin h /\ "unmerged" \notin wd /\ "unmerged" \notin i
  BY Zenon DEF StashAssumption
<1>2. m = w
  BY MergeOnParent, Zenon
<1>3. CASE i = Absent /\ wd # Absent
  <2>1. h = Absent
    BY <1>3, Zenon
  <2>2. w = Absent
    BY <1>3, <2>1, Zenon DEF KeptW, Status, DeltaMerge, MergeLikeCgit
  <2>3. x = wd
    BY <1>3, <2>1, Zenon DEF Back, Left, KeptU, ForceAction
  <2> QED
    BY <1>1, <1>2, <2>1, <2>2, <2>3, Zenon DEF SafeAction, Stage0
<1>4. CASE ~(i = Absent /\ wd # Absent)
  <2>1. x = r
    BY <1>4, Zenon DEF Back, KeptU
  <2>2. w = wd
    BY <1>4, Zenon DEF KeptW, Status, DeltaMerge, MergeLikeCgit
  <2>3. Stage0(m) = wd
    BY <1>1, <1>2, <2>2, Zenon DEF Stage0
  <2>4. CASE wd = h
    BY <1>1, <1>2, <2>1, <2>2, <2>3, <2>4, Zenon DEF SafeAction, Left
  <2>5. CASE wd # h
    <3>1. r = h
      BY <1>4, <2>5, Zenon DEF Left, ForceAction
    <3> QED
      BY <1>1, <1>2, <2>1, <2>2, <2>3, <2>5, <3>1, Zenon DEF SafeAction, WdModified
  <2> QED
    BY <2>4, <2>5, Zenon
<1> QED
  BY <1>3, <1>4, Zenon

(* The list of the stashes, the newest first                                  *)
LEMMA PushLog ==
    ASSUME NEW S, NEW s \in Seq(S), NEW e \in S
    PROVE  /\ <<e>> \o s \in Seq(S) /\ <<e>> \o s # <<>> /\ (<<e>> \o s)[1] = e
           /\ Range(s) \subseteq Range(<<e>> \o s)
<1> DEFINE r == <<e>> \o s
<1>1. <<e>> \in Seq(S) /\ Len(<<e>>) = 1 /\ <<e>>[1] = e
  OBVIOUS
<1>2. r \in Seq(S) /\ Len(r) = Len(s) + 1 /\ Len(s) \in Nat
  BY <1>1
<1>3. r[1] = e /\ \A k \in 1 .. Len(s) : r[k + 1] = s[k]
  BY <1>1, <1>2
<1>4. \A k \in DOMAIN s : k + 1 \in DOMAIN r /\ r[k + 1] = s[k]
  BY <1>2, <1>3
<1>5. r # <<>>
  BY <1>2
<1>6. Range(s) \subseteq Range(r)
  BY <1>4, Zenon DEF Range
<1> QED
  BY <1>2, <1>3, <1>5, <1>6, Zenon

(* The list without its entry number k.                                      *)
Removed(s, k) == SubSeq(s, 1, k - 1) \o SubSeq(s, k + 1, Len(s))

(* A reflog that loses one entry keeps the others. *)
LEMMA RemoveLog ==
    ASSUME NEW S, NEW s \in Seq(S), NEW k \in 1 .. Len(s)
    PROVE  /\ Removed(s, k) \in Seq(S) /\ Len(Removed(s, k)) = Len(s) - 1
           /\ \A j \in DOMAIN s \ {k} : s[j] \in Range(Removed(s, k))
<1> DEFINE a == SubSeq(s, 1, k - 1)
           b == SubSeq(s, k + 1, Len(s))
           r == a \o b
<1>0. Len(s) \in Nat /\ DOMAIN s = 1 .. Len(s)
  OBVIOUS
<1>10. ASSUME NEW m \in Int, NEW n \in Int, \A i \in m .. n : s[i] \in S
       PROVE  /\ SubSeq(s, m, n) \in Seq(S)
              /\ Len(SubSeq(s, m, n)) = IF m <= n THEN n - m + 1 ELSE 0
              /\ \A i \in 1 .. n - m + 1 : SubSeq(s, m, n)[i] = s[m + i - 1]
  BY <1>10
<1>1. a \in Seq(S) /\ Len(a) = k - 1 /\ \A j \in 1 .. (k - 1) : a[j] = s[j]
  BY <1>0
<1>2. b \in Seq(S) /\ Len(b) = Len(s) - k /\ \A j \in 1 .. (Len(s) - k) : b[j] = s[k + j]
  <2>1. \A j \in (k + 1) .. Len(s) : s[j] \in S
    BY <1>0
  <2>2. k + 1 \in Int /\ Len(s) \in Int
    BY <1>0
  <2> DEFINE m == k + 1
  <2>3. m \in Int /\ m = k + 1 /\ b = SubSeq(s, m, Len(s)) /\ \A j \in m .. Len(s) : s[j] \in S
    BY <2>1, <2>2, Zenon
  <2> HIDE DEF m, b
  <2>6. /\ b \in Seq(S) /\ Len(b) = IF m <= Len(s) THEN Len(s) - m + 1 ELSE 0
        /\ \A j \in 1 .. Len(s) - m + 1 : b[j] = s[m + j - 1]
    BY <1>10, <2>2, <2>3, Zenon
  <2>7. m = k + 1
    BY Zenon DEF m
  <2>8. Len(b) = IF m <= Len(s) THEN Len(s) - m + 1 ELSE 0
    BY <2>6, Zenon
  <2>9. k \in Nat /\ k <= Len(s)
    BY <1>0
  <2> DEFINE n == Len(b)
             l == Len(s)
  <2>4. n = l - k
    <3> l \in Nat /\ k <= l /\ n = IF m <= l THEN l - m + 1 ELSE 0
      BY <1>0, <2>8, <2>9, Zenon
    <3> HIDE DEF n, l
    <3> QED
      BY <2>7, <2>9
  <2>5. ASSUME NEW j \in 1 .. (Len(s) - k) PROVE b[j] = s[k + j]
    <3>1. j \in 1 .. Len(s) - m + 1 /\ m + j - 1 = k + j
      BY <1>0, <2>7
    <3> QED
      BY <2>6, <3>1, Zenon
  <2> QED
    BY <2>6, <2>4, <2>5, Zenon
<1> HIDE DEF a, b
<1>3. r \in Seq(S) /\ Len(r) = Len(s) - 1
  <2>0. a \in Seq(S) /\ b \in Seq(S)
    BY <1>1, <1>2, Zenon
  <2>1. r \in Seq(S) /\ Len(r) = Len(a) + Len(b)
    BY <2>0
  <2> QED
    BY <1>0, <1>1, <1>2, <2>1
<1>8. \A n \in 1 .. (Len(s) - 1) : r[n] = IF n <= k - 1 THEN a[n] ELSE b[n - (k - 1)]
  BY <1>0, <1>1, <1>2
<1>9. DOMAIN r = 1 .. (Len(s) - 1)
  BY <1>3
<1> HIDE DEF r
<1>4. ASSUME NEW j \in 1 .. (k - 1) PROVE j \in DOMAIN r /\ r[j] = s[j]
  BY <1>0, <1>1, <1>8, <1>9
<1>5. ASSUME NEW j \in (k + 1) .. Len(s) PROVE j - 1 \in DOMAIN r /\ r[j - 1] = s[j]
  <2>1. j - 1 \in 1 .. (Len(s) - 1) /\ ~(j - 1 <= k - 1) /\ j - k \in 1 .. (Len(s) - k)
    BY <1>0
  <2>2. r[j - 1] = b[(j - 1) - (k - 1)] /\ (j - 1) - (k - 1) = j - k /\ k + (j - k) = j
    BY <1>0, <1>8, <2>1
  <2> QED
    BY <1>2, <1>9, <2>1, <2>2, Zenon
<1>6. ASSUME NEW j \in DOMAIN s \ {k} PROVE \E n \in DOMAIN r : r[n] = s[j]
  <2>1. j \in 1 .. (k - 1) \/ j \in (k + 1) .. Len(s)
    BY <1>0
  <2> QED
    BY <1>4, <1>5, <2>1, Zenon
<1>7. Removed(s, k) = r
  BY Zenon DEF Removed, r, a, b
<1> QED
  BY <1>3, <1>6, <1>7, Zenon DEF Range

-----------------------------------------------------------------------------
(* Types                                                                      *)

(* Which call is under way is known from where it is. *)
LEMMA OpTypes ==
    ASSUME OpOK
    PROVE  /\ pc \in Saving => op \in SaveOp
           /\ pc = "reset" => op \in ResetOp
           /\ pc \in Applying => op \in ApplyOp
           /\ pc \in {"drop", "drop_ref"} => op \in OutcomeOp("applied") \cup DropOp
           /\ pc = "idle" => op \in SavedOp \cup OutcomeOp("applied") \cup OutcomeOp("refused")
                                       \cup DropOp \cup {NoOp}
           /\ op.call = "saved" => pc = "idle" /\ op \in SavedOp
           /\ op.call = "refused" => pc = "idle" /\ op \in OutcomeOp("refused")
           /\ op.call = "applied" =>
                 pc \in {"idle", "drop", "drop_ref"} /\ op \in OutcomeOp("applied")
<1>1. /\ pc \in Saving => op \in SaveOp
      /\ pc = "reset" => op \in ResetOp
      /\ pc \in Applying => op \in ApplyOp
      /\ pc \in {"drop", "drop_ref"} => op \in OutcomeOp("applied") \cup DropOp
      /\ pc = "idle" => op \in SavedOp \cup OutcomeOp("applied") \cup OutcomeOp("refused")
                                  \cup DropOp \cup {NoOp}
  BY Zenon DEF OpOK, Saving, Applying
<1>2. /\ op \in SaveOp => op.call = "save"
      /\ op \in ResetOp => op.call = "save"
      /\ op \in ApplyOp => op.call = "apply"
      /\ op \in SavedOp => op.call = "saved"
      /\ op \in OutcomeOp("applied") => op.call = "applied"
      /\ op \in OutcomeOp("refused") => op.call = "refused"
      /\ op \in DropOp => op.call = "drop"
      /\ op = NoOp => op.call = "none"
  BY DEF SaveOp, ResetOp, ApplyOp, SavedOp, OutcomeOp, DropOp, NoOp
<1> QED
  BY <1>1, <1>2, Zenon DEF OpOK

(* The parts of a state that an edit, a call or a step of it changes are of   *)
(* their types, action by action.                                             *)
LEMMA SavingTypes ==
    ASSUME StashAssumption, StashTypeOK,
           \/ \E flags \in SaveFlags : Save(flags)
           \/ CommitUntracked \/ CommitWorktree \/ AppendReflog \/ CreateRef
           \/ \E p \in Path : ResetFile(p)
           \/ ResetDone
    PROVE  StashTypeOK'
<1> USE DEF StashTypeOK, TreesOK
<1>0. \A t \in Tree : t \in IndexTree
  BY Zenon DEF Tree, IndexTree
<1>1. ASSUME NEW flags \in SaveFlags, Save(flags) PROVE StashTypeOK'
  <2>1. CASE HasChanges(flags) /\ ~Unmerged(index)
    <3>1. index \in Tree /\ Empty \in Tree
      BY <2>1 DEF Unmerged, Tree, IndexTree, Empty, Absent
    <3>2. op' \in SaveOp
      BY <1>1, <2>1, <3>1 DEF Save, SaveOp
    <3> QED
      BY <1>1, <2>1, <3>2, Zenon DEF Save, OpOK, Saving
  <2>2. CASE ~(HasChanges(flags) /\ ~Unmerged(index))
    BY <1>1, <2>2, Zenon DEF Save, OpOK
  <2> QED
    BY <2>1, <2>2, Zenon
<1>2. ASSUME CommitUntracked PROVE StashTypeOK'
  <2>1. op \in SaveOp
    BY <1>2, OpTypes, Zenon DEF CommitUntracked, Saving
  <2>2. UntrackedTree \in Tree
    BY <2>1, Zenon DEF UntrackedTree, Tree, Absent
  <2>3. op' \in SaveOp /\ index' \in IndexTree
    BY <1>0, <1>2, <2>1, <2>2, Zenon DEF CommitUntracked, SaveOp
  <2> QED
    BY <1>2, <2>3, Zenon DEF CommitUntracked, OpOK, Saving
<1>3. ASSUME CommitWorktree PROVE StashTypeOK'
  <2>1. op \in SaveOp
    BY <1>3, OpTypes, Zenon DEF CommitWorktree, Saving
  <2>2. WorktreeTree \in Tree
    BY <2>1, Zenon DEF WorktreeTree, Tree, Absent, SaveOp
  <2>3. op' \in SaveOp /\ index' \in IndexTree
    BY <1>0, <1>3, <2>1, <2>2, Zenon DEF CommitWorktree, SaveOp
  <2> QED
    BY <1>3, <2>3, Zenon DEF CommitWorktree, OpOK, Saving
<1>4. ASSUME AppendReflog PROVE StashTypeOK'
  <2>1. op \in SaveOp
    BY <1>4, OpTypes, Zenon DEF AppendReflog, Saving
  <2>2. [b |-> op.b, i |-> op.i, u |-> op.u, w |-> op.w] \in Entry
    BY <2>1, Zenon DEF Entry, SaveOp
  <2>3. log' \in Seq(Entry)
    BY <1>4, <2>2, PushLog, Zenon DEF AppendReflog
  <2> QED
    BY <1>4, <2>1, <2>3, Zenon DEF AppendReflog, OpOK, Saving
<1>5. ASSUME CreateRef PROVE StashTypeOK'
  <2>1. op \in SaveOp
    BY <1>5, OpTypes, Zenon DEF CreateRef, Saving
  <2>2. op' \in ResetOp
    BY <1>5, <2>1, Zenon DEF CreateRef, SaveOp, ResetOp, ForceAction
  <2> QED
    BY <1>5, <2>2, Zenon DEF CreateRef, OpOK
<1>6. ASSUME NEW p \in Path, ResetFile(p) PROVE StashTypeOK'
  <2>1. op \in ResetOp
    BY <1>6, OpTypes, Zenon DEF ResetFile
  <2>2. op' \in ResetOp
    BY <1>6, <2>1, Zenon DEF ResetFile, ResetOp
  <2>3. workdir' \in Tree /\ index' \in IndexTree
    BY <1>6, <2>1, Zenon DEF ResetFile, ResetOp, Tree, IndexTree
  <2> QED
    BY <1>6, <2>2, <2>3, Zenon DEF ResetFile, OpOK
<1>7. ASSUME ResetDone PROVE StashTypeOK'
  <2>1. op \in ResetOp
    BY <1>7, OpTypes, Zenon DEF ResetDone
  <2>2. op' \in SavedOp
    BY <1>7, <2>1, Zenon DEF ResetDone, ResetOp, SavedOp
  <2> QED
    BY <1>7, <2>2, Zenon DEF ResetDone, OpOK
<1> QED
  BY <1>1, <1>2, <1>3, <1>4, <1>5, <1>6, <1>7, Zenon

(* The steps of git_stash_apply() keep the types. *)
LEMMA ApplyingTypes ==
    ASSUME StashAssumption, StashTypeOK,
           \/ \E pos \in 0 .. (MaxStashes - 1), reinstate, pop, clean, same \in BOOLEAN,
                 blind \in SUBSET Path :
                 Apply(pos, reinstate, pop, clean, same, blind)
           \/ CheckoutStart
           \/ \E p \in Path : CheckoutFile(p) \/ CheckoutConflict(p)
           \/ CheckoutDone \/ WriteIndex
    PROVE  StashTypeOK'
<1> USE DEF StashTypeOK, TreesOK
<1>0. \A t \in Tree : t \in IndexTree
  BY Zenon DEF Tree, IndexTree
<1>1. ASSUME NEW pos \in 0 .. (MaxStashes - 1), NEW reinstate \in BOOLEAN, NEW pop \in BOOLEAN,
             NEW clean \in BOOLEAN, NEW same \in BOOLEAN, NEW blind \in SUBSET Path,
             Apply(pos, reinstate, pop, clean, same, blind)
      PROVE  StashTypeOK'
  <2> DEFINE e == log[pos + 1]
             after == IF op.call = "saved" THEN op ELSE NoOp
             uns == UnstashedIndex(e, reinstate, clean)
  <2>1. pos \in Nat /\ e \in Entry
    <3>1. pos \in Nat /\ pos < Len(log) /\ Len(log) \in Nat
      BY <1>1 DEF Apply, StashAssumption
    <3> QED
      BY <3>1
  <2>2. e.b \in Tree /\ e.i \in Tree /\ e.u \in Tree /\ e.w \in Tree
    BY <2>1, Zenon DEF Entry
  <2>3. \A a, t \in Tree : MergeAll(a, index, t, clean) \in IndexTree
    <3> SUFFICES ASSUME NEW a \in Tree, NEW t \in Tree, NEW p \in Path
                 PROVE  Merge(a[p], index[p], t[p], clean) \in SUBSET (Text \cup {"unmerged"})
      BY Zenon DEF MergeAll, IndexTree
    <3>1. /\ index[p] \in SUBSET (Text \cup {"unmerged"})
          /\ t[p] \in SUBSET (Text \cup {"unmerged"})
      BY Zenon DEF Tree, IndexTree
    <3> QED
      BY <3>1, Zenon DEF Merge
  <2>4. Empty \in Tree /\ StageNewFiles(e) \in Tree
    BY <2>2, Zenon DEF Empty, Absent, StageNewFiles, Tree
  <2>5. uns \in IndexTree /\ ModifiedIndex(e, clean) \in IndexTree
        /\ UntrackedIndex(e, clean) \in IndexTree
    BY <2>2, <2>3, <2>4, Zenon DEF UnstashedIndex, ModifiedIndex, UntrackedIndex
  <2>6. after \in SavedOp \cup {NoOp}
    BY <1>1, OpTypes, Zenon DEF Apply
  <2> HIDE DEF e, after, uns
  <2>7. CASE CleanIndex /\ ~(reinstate /\ Unmerged(uns))
    <3>3. op' = [call |-> "apply", pos |-> pos, reinstate |-> reinstate, of |-> e,
                 before |-> workdir, staged |-> disk, after |-> after,
                 pop |-> pop, same |-> same, blind |-> blind, phase |-> "untracked",
                 restage |-> ~reinstate \/ e.b # e.i, unstashed |-> uns,
                 modified |-> ModifiedIndex(e, clean), target |-> UntrackedIndex(e, clean),
                 todo |-> [p \in Path |-> "none"]]
      BY <1>1, <2>7, Zenon DEF Apply, StashCommit, e, after, uns
    <3>4. [p \in Path |-> "none"] \in [Path -> {"none", "remove", "update", "written"}]
      BY Zenon
    <3>1. op' \in ApplyOp
      BY <2>1, <2>5, <2>6, <3>3, <3>4, Zenon DEF ApplyOp
    <3>2. pc' = "checkout"
      BY <1>1, <2>7, Zenon DEF Apply, StashCommit, e, uns
    <3> QED
      BY <1>1, <3>1, <3>2, Zenon DEF Apply, OpOK, Applying
  <2>8. CASE ~(CleanIndex /\ ~(reinstate /\ Unmerged(uns)))
    <3>3. op' = [call |-> "refused", pos |-> pos, reinstate |-> reinstate, of |-> e,
                 before |-> workdir, staged |-> disk, after |-> after]
      BY <1>1, <2>8, Zenon DEF Apply, Outcome, StashCommit, e, after, uns
    <3>1. op' \in OutcomeOp("refused")
      BY <2>1, <2>6, <3>3, Zenon DEF OutcomeOp
    <3>2. pc' = "idle"
      BY <1>1, <2>8, Zenon DEF Apply, StashCommit, e, uns
    <3> QED
      BY <1>1, <3>1, <3>2, Zenon DEF Apply, OpOK
  <2> QED
    BY <2>7, <2>8, Zenon
<1>2. ASSUME NEW c \in {"applied", "refused"}, op \in ApplyOp PROVE Outcome(c, op) \in OutcomeOp(c)
  BY <1>2, Zenon DEF Outcome, OutcomeOp, ApplyOp
<1>3. ASSUME CheckoutStart PROVE StashTypeOK'
  <2>1. op \in ApplyOp
    BY <1>3, OpTypes, Zenon DEF CheckoutStart, Applying
  <2> DEFINE todo == [p \in Path |->
                        SafeAction(Baseline[p], Stage0(op.target[p]), workdir[p], p \in ignored,
                                   op.phase = "untracked" \/ op.same, p \in op.blind)]
  <2>2. CASE Unmerged(disk) \/ \E p \in Path : todo[p] = "conflict"
    BY <1>2, <1>3, <2>1, <2>2, Zenon DEF CheckoutStart, OpOK
  <2>3. CASE ~(Unmerged(disk) \/ \E p \in Path : todo[p] = "conflict")
    <3>1. todo \in [Path -> {"none", "remove", "update", "written"}]
      BY <2>3, Zenon DEF SafeAction
    <3>2. pc' = "files" /\ op' = [op EXCEPT !.todo = todo]
      BY <1>3, <2>3, Zenon DEF CheckoutStart
    <3> HIDE DEF todo
    <3>3. op' \in ApplyOp
      BY <2>1, <3>1, <3>2, Zenon DEF ApplyOp
    <3> QED
      BY <1>3, <3>2, <3>3, Zenon DEF CheckoutStart, OpOK, Applying
  <2> QED
    BY <2>2, <2>3, Zenon
<1>4. ASSUME NEW p \in Path, CheckoutFile(p) PROVE StashTypeOK'
  <2>1. op \in ApplyOp
    BY <1>4, OpTypes, Zenon DEF CheckoutFile, Applying
  <2>2. op' \in ApplyOp
    BY <1>4, <2>1, Zenon DEF CheckoutFile, ApplyOp
  <2>3. Stage0(op.target[p]) \in SUBSET Text
    BY <2>1 DEF Stage0, Absent, ApplyOp, IndexTree
  <2>4. workdir' \in Tree /\ index' \in IndexTree
    BY <1>4, <2>3, Zenon DEF CheckoutFile, Tree, IndexTree
  <2> QED
    BY <1>4, <2>2, <2>4, Zenon DEF CheckoutFile, OpOK, Applying
<1>5. ASSUME NEW p \in Path, CheckoutConflict(p) PROVE StashTypeOK'
  <2>1. op \in ApplyOp
    BY <1>5, OpTypes, Zenon DEF CheckoutConflict, Applying
  <2>2. op' \in ApplyOp
    BY <1>5, <2>1, Zenon DEF CheckoutConflict, ApplyOp
  <2>3. op.of.u \in Tree /\ op.of.w \in Tree /\ op.target \in IndexTree
    BY <2>1, Zenon DEF ApplyOp, Entry
  <2>4. ConflictFile(p) \in SUBSET Text
    <3>1. "markers" \in Text
      BY DEF Text
    <3> QED
      BY <2>3, <3>1, Zenon DEF ConflictFile, Tree
  <2>5. workdir' \in Tree /\ index' \in IndexTree
    BY <1>5, <2>3, <2>4, Zenon DEF CheckoutConflict, Tree, IndexTree
  <2> QED
    BY <1>5, <2>2, <2>5, Zenon DEF CheckoutConflict, OpOK, Applying
<1>6. ASSUME CheckoutDone PROVE StashTypeOK'
  <2>1. op \in ApplyOp
    BY <1>6, OpTypes, Zenon DEF CheckoutDone, Applying
  <2>2. op' \in ApplyOp /\ pc' \in Applying
    <3>1. CASE op.phase = "untracked"
      <4> DEFINE m == op.modified
      <4>1. m \in IndexTree
        BY <2>1, Zenon DEF ApplyOp
      <4>2. op' = [op EXCEPT !.phase = "modified", !.target = m] /\ pc' = "checkout"
        BY <1>6, <3>1, Zenon DEF CheckoutDone
      <4> HIDE DEF m
      <4>3. [op EXCEPT !.phase = "modified"] \in ApplyOp
        BY <2>1, Zenon DEF ApplyOp
      <4>4. op' = [[op EXCEPT !.phase = "modified"] EXCEPT !.target = m]
        BY <4>2, Zenon
      <4> DEFINE o == [op EXCEPT !.phase = "modified"]
      <4> HIDE DEF o
      <4>5. [o EXCEPT !.target = m] \in ApplyOp
        BY <4>1, <4>3, Zenon DEF ApplyOp, o
      <4> QED
        BY <4>2, <4>4, <4>5, Zenon DEF Applying, o
    <3>2. CASE op.phase # "untracked"
      BY <1>6, <2>1, <3>2, Zenon DEF CheckoutDone, Applying
    <3> QED
      BY <3>1, <3>2, Zenon
  <2>3. index' \in IndexTree /\ disk' \in IndexTree
    BY <1>6, <2>1 DEF CheckoutDone, ApplyOp
  <2> QED
    BY <1>6, <2>2, <2>3, Zenon DEF CheckoutDone, OpOK
<1>7. ASSUME WriteIndex PROVE StashTypeOK'
  <2>1. op \in ApplyOp
    BY <1>7, OpTypes, Zenon DEF WriteIndex, Applying
  <2>2. op' \in OutcomeOp("applied")
    BY <1>2, <1>7, <2>1, Zenon DEF WriteIndex
  <2> QED
    BY <1>7, <2>2, Zenon DEF WriteIndex, OpOK
<1> HIDE DEF StashTypeOK, TreesOK
<1>8. ASSUME \E pos \in 0 .. (MaxStashes - 1), reinstate, pop, clean, same \in BOOLEAN,
                blind \in SUBSET Path : Apply(pos, reinstate, pop, clean, same, blind)
      PROVE  StashTypeOK'
  BY <1>1, <1>8
<1>9. ASSUME \E p \in Path : CheckoutFile(p) \/ CheckoutConflict(p)
      PROVE  StashTypeOK'
  BY <1>4, <1>5, <1>9, Zenon
<1> QED
  BY <1>3, <1>6, <1>7, <1>8, <1>9, Zenon

(* So do git_stash_drop(), the user, errors and crashes. *)
LEMMA OtherTypes ==
    ASSUME StashAssumption, StashTypeOK, DropInv,
           \/ \E pos \in 0 .. (MaxStashes - 1) : Drop(pos)
           \/ DropReflog \/ DropRef
           \/ \E p \in Path : Stage(p) \/ \E c \in {Absent} \cup {{v} : v \in Version[p]} : Edit(p, c)
           \/ CommitIndex \/ Fail \/ Crash
    PROVE  StashTypeOK'
<1> USE DEF StashTypeOK, TreesOK
<1>0. \A t \in Tree : t \in IndexTree
  BY Zenon DEF Tree, IndexTree
<1>1. ASSUME NEW pos \in 0 .. (MaxStashes - 1), Drop(pos) PROVE StashTypeOK'
  <2>1. pos \in Nat
    BY DEF StashAssumption
  <2>2. op' \in DropOp
    BY <1>1, <2>1, Zenon DEF Drop, DropOp
  <2>3. work' \subseteq work
    BY <1>1, Zenon DEF Drop
  <2> QED
    BY <1>1, <2>2, <2>3, Zenon DEF Drop, OpOK
<1>2. ASSUME DropReflog PROVE StashTypeOK'
  <2>1. op \in OutcomeOp("applied") \cup DropOp
    BY <1>2, OpTypes, Zenon DEF DropReflog
  <2>2. op.pos \in Nat
    BY <2>1, Zenon DEF OutcomeOp, DropOp
  <2>3. op.pos + 1 \in 1 .. Len(log)
    <3>1. op.pos < Len(log)
      BY <1>2, Zenon DEF DropReflog, DropInv
    <3>2. Len(log) \in Nat
      OBVIOUS
    <3> QED
      BY <2>2, <3>1, <3>2
  <2>4. log' \in Seq(Entry)
    <3>1. log' = Removed(log, op.pos + 1)
      BY <1>2, Zenon DEF DropReflog, Removed
    <3> QED
      BY <2>3, <3>1, RemoveLog, Zenon
  <2> QED
    BY <1>2, <2>1, <2>4, Zenon DEF DropReflog, OpOK
<1>3. ASSUME DropRef PROVE StashTypeOK'
  <2>1. op \in OutcomeOp("applied") \cup DropOp
    BY <1>3, OpTypes, Zenon DEF DropRef
  <2> QED
    BY <1>3, <2>1, Zenon DEF DropRef, OpOK
<1>4. ASSUME NEW p \in Path, Stage(p) PROVE StashTypeOK'
  <2>1. index' \in IndexTree
    BY <1>4, Zenon DEF Stage, Tree, IndexTree
  <2> QED
    BY <1>4, <2>1, Zenon DEF Stage, OpOK
<1>5. ASSUME NEW p \in Path, NEW c \in {Absent} \cup {{v} : v \in Version[p]}, Edit(p, c)
      PROVE  StashTypeOK'
  <2>1. c \in SUBSET Text
    BY DEF Text, Absent
  <2>2. workdir' \in Tree
    BY <1>5, <2>1, Zenon DEF Edit, Tree
  <2>3. \A x \in work' : x[1] \in Path /\ x[2] \notin head[x[1]]
    BY <1>5 DEF Edit, Carried
  <2> QED
    BY <1>5, <2>2, <2>3, Zenon DEF Edit, OpOK
<1>6. ASSUME CommitIndex PROVE StashTypeOK'
  <2>1. head' \in Tree
    BY <1>6, Zenon DEF CommitIndex, Unmerged, Tree, IndexTree
  <2> QED
    BY <1>6, <2>1, Zenon DEF CommitIndex, OpOK
<1>7. ASSUME Fail \/ Crash PROVE StashTypeOK'
  BY <1>7, Zenon DEF Fail, Crash, OpOK
<1> QED
  BY <1>1, <1>2, <1>3, <1>4, <1>5, <1>6, <1>7, Zenon

(* Every step keeps the types. *)
LEMMA StashTypeStep ==
    ASSUME StashAssumption, StashTypeOK, DropInv, StashNext
    PROVE  StashTypeOK'
BY SavingTypes, ApplyingTypes, OtherTypes, Zenon DEF StashNext

-----------------------------------------------------------------------------
(* The steps of a call, by where they lead                                    *)
SaveStep == (\E flags \in SaveFlags : Save(flags)) \/ CommitUntracked \/ CommitWorktree \/ AppendReflog
ResetStep == CreateRef \/ \E p \in Path : ResetFile(p)
ApplyStep ==
    \/ \E pos \in 0 .. (MaxStashes - 1), reinstate, pop, clean, same \in BOOLEAN,
          blind \in SUBSET Path :
          Apply(pos, reinstate, pop, clean, same, blind)
    \/ CheckoutStart
    \/ \E p \in Path : CheckoutFile(p) \/ CheckoutConflict(p)
    \/ CheckoutDone
DropStep == \E pos \in 0 .. (MaxStashes - 1) : Drop(pos)

(* Which steps lead to each place of a call. *)
LEMMA PcSteps ==
    ASSUME StashNext
    PROVE  /\ pc' \in Saving => SaveStep
           /\ pc' = "reset" => ResetStep
           /\ pc' \in Applying => ApplyStep
           /\ pc' = "drop" => WriteIndex \/ DropStep
           /\ pc' = "drop_ref" => DropReflog
<1>1. ASSUME NEW flags \in SaveFlags, Save(flags) PROVE pc' \in {"idle", "untracked"}
  BY <1>1, Zenon DEF Save
<1>2. ASSUME CommitUntracked \/ CommitWorktree \/ AppendReflog PROVE pc' \in Saving
  BY <1>2, Zenon DEF CommitUntracked, CommitWorktree, AppendReflog, Saving
<1>3. ASSUME ResetStep PROVE pc' = "reset"
  BY <1>3, Zenon DEF ResetStep, CreateRef, ResetFile
<1>4. ASSUME NEW pos, NEW reinstate, NEW pop, NEW clean, NEW same, NEW blind,
             Apply(pos, reinstate, pop, clean, same, blind)
      PROVE  pc' \in {"idle", "checkout"}
  BY <1>4, Zenon DEF Apply
<1>5. ASSUME CheckoutStart \/ CheckoutDone \/ \E p \in Path : CheckoutFile(p) \/ CheckoutConflict(p)
      PROVE  pc' \in Applying \cup {"idle"}
  BY <1>5, Zenon DEF CheckoutStart, CheckoutDone, CheckoutFile, CheckoutConflict, Applying
<1>6. ASSUME WriteIndex \/ DropStep PROVE pc' \in {"idle", "drop"}
  BY <1>6, Zenon DEF WriteIndex, DropStep, Drop
<1>7. ASSUME DropReflog PROVE pc' \in {"idle", "drop_ref"}
  BY <1>7, Zenon DEF DropReflog
<1>8. ASSUME \/ ResetDone \/ DropRef \/ CommitIndex \/ Fail \/ Crash
             \/ \E p \in Path : Stage(p) \/ \E c \in {Absent} \cup {{v} : v \in Version[p]} : Edit(p, c)
      PROVE  pc' = "idle"
  BY <1>8, Zenon DEF ResetDone, DropRef, CommitIndex, Fail, Crash, Stage, Edit
<1>9. \/ SaveStep \/ ResetStep \/ ApplyStep \/ WriteIndex \/ DropStep \/ DropReflog
      \/ ResetDone \/ DropRef \/ CommitIndex \/ Fail \/ Crash
      \/ \E p \in Path : Stage(p) \/ \E c \in {Absent} \cup {{v} : v \in Version[p]} : Edit(p, c)
  BY Zenon DEF StashNext, SaveStep, ResetStep, ApplyStep, DropStep
<1>10. SaveStep => pc' \in Saving \cup {"idle"}
  BY <1>1, <1>2, Zenon DEF SaveStep, Saving
<1>11. ApplyStep => pc' \in Applying \cup {"idle"}
  BY <1>4, <1>5, Zenon DEF ApplyStep, Applying
<1> QED
  BY <1>3, <1>6, <1>7, <1>8, <1>9, <1>10, <1>11, Zenon DEF Saving, Applying

-----------------------------------------------------------------------------
(* git_stash_save()                                                           *)
LEMMA SaveInvStep ==
    ASSUME StashTypeOK, SaveInv, StashNext
    PROVE  SaveInv'
<1> SUFFICES ASSUME pc' \in Saving PROVE SaveInv'
  BY Zenon DEF SaveInv
<1>0. SaveStep
  BY PcSteps, Zenon
<1>1. ASSUME NEW flags \in SaveFlags, Save(flags) PROVE SaveInv'
  <2>1. /\ pc' = "untracked" /\ op'.b = head /\ op'.before = workdir /\ op'.i = index
        /\ op'.u = Empty
    BY <1>1 DEF Save, Saving
  <2>2. Empty' = Empty
    BY Zenon DEF Empty
  <2> QED
    BY <1>1, <2>1, <2>2, Zenon DEF Save, SaveInv
<1>2. ASSUME CommitUntracked PROVE SaveInv'
  <2>1. op \in SaveOp /\ pc = "untracked" /\ pc' = "worktree"
    BY <1>2, OpTypes, Zenon DEF CommitUntracked, Saving, StashTypeOK
  <2>2. op'.b = op.b /\ op'.before = op.before /\ op'.i = op.i /\ op'.flags = op.flags
    BY <1>2, <2>1, Zenon DEF CommitUntracked, SaveOp
  <2>3. ASSUME NEW p \in Path
        PROVE  op'.u[p] = KeptU(op.i[p], workdir[p], p \in ignored, op.flags)
    <3>1. CASE op.flags \cap {"INCLUDE_UNTRACKED", "INCLUDE_IGNORED"} # {}
      <4>1. op'.u = UntrackedTree
        BY <1>2, <2>1, <3>1, Zenon DEF CommitUntracked, SaveOp
      <4> QED
        BY <4>1, Zenon DEF UntrackedTree, KeptU
    <3>2. CASE op.flags \cap {"INCLUDE_UNTRACKED", "INCLUDE_IGNORED"} = {}
      <4>1. op'.u[p] = Absent
        BY <1>2, <2>1, <3>2, Zenon DEF CommitUntracked, SaveInv, Saving, Empty
      <4> QED
        BY <3>2, <4>1, Zenon DEF KeptU
    <3> QED
      BY <3>1, <3>2, Zenon
  <2> QED
    BY <1>2, <2>1, <2>2, <2>3, Zenon DEF CommitUntracked, SaveInv, Saving
<1>3. ASSUME CommitWorktree PROVE SaveInv'
  <2>1. op \in SaveOp /\ pc = "worktree" /\ pc' = "reflog"
    BY <1>3, OpTypes, Zenon DEF CommitWorktree, Saving, StashTypeOK
  <2>2. /\ op'.b = op.b /\ op'.before = op.before /\ op'.i = op.i /\ op'.flags = op.flags
        /\ op'.u = op.u /\ op'.w = WorktreeTree
    BY <1>3, <2>1, Zenon DEF CommitWorktree, SaveOp
  <2>3. op.b = head
    BY <2>1, Zenon DEF SaveInv, Saving
  <2>4. ASSUME NEW p \in Path
        PROVE  op'.w[p] = KeptW(head[p], op.i[p], workdir[p], p \in ignored)
    BY <2>2, <2>3, Zenon DEF WorktreeTree, WdStatus, KeptW
  <2> QED
    BY <1>3, <2>1, <2>2, <2>4, Zenon DEF CommitWorktree, SaveInv, Saving
<1>4. ASSUME AppendReflog PROVE SaveInv'
  <2>1. op \in SaveOp /\ pc = "reflog" /\ pc' = "ref"
    BY <1>4, OpTypes, Zenon DEF AppendReflog, Saving, StashTypeOK
  <2>2. [b |-> op.b, i |-> op.i, u |-> op.u, w |-> op.w] \in Entry
    BY <2>1, Zenon DEF Entry, SaveOp
  <2>3. log' # <<>> /\ log'[1] = [b |-> op.b, i |-> op.i, u |-> op.u, w |-> op.w]
    BY <1>4, <2>2, PushLog DEF AppendReflog, StashTypeOK, TreesOK
  <2> QED
    BY <1>4, <2>1, <2>3, Zenon DEF AppendReflog, SaveInv, Saving
<1> QED
  BY <1>0, <1>1, <1>2, <1>3, <1>4, Zenon DEF SaveStep

(* What the reset of a save may remove is in the stash, at every step. *)
LEMMA ResetInvStep ==
    ASSUME StashTypeOK, SaveInv, ResetInv, StashNext
    PROVE  ResetInv'
<1> SUFFICES ASSUME pc' = "reset" PROVE ResetInv'
  BY Zenon DEF ResetInv
<1>0. ResetStep
  BY PcSteps, Zenon
<1>1. ASSUME CreateRef PROVE ResetInv'
  <2> DEFINE target == IF "KEEP_INDEX" \in op.flags THEN op.i ELSE op.b
             todo == [p \in Path |->
                        ForceAction(head[p], target[p], workdir[p], p \in ignored,
                                    disk[p] # Absent, op.flags)]
  <2>1. op \in SaveOp /\ pc = "ref"
    BY <1>1, OpTypes, Zenon DEF CreateRef, Saving, StashTypeOK
  <2>2. /\ op'.flags = op.flags /\ op'.i = op.i /\ op'.before = op.before
        /\ op'.target = target /\ op'.todo = todo
    BY <1>1, Zenon DEF CreateRef
  <2>3. /\ ref' /\ index' = disk
        /\ UNCHANGED <<head, workdir, ignored, log, leftover>>
    BY <1>1, Zenon DEF CreateRef
  <2>4. /\ op.b = head /\ op.before = workdir /\ (~leftover => op.i = disk)
        /\ log # <<>> /\ log[1].b = op.b /\ log[1].i = op.i /\ log[1].u = op.u /\ log[1].w = op.w
    BY <2>1 DEF SaveInv, Saving
  <2>5. \A p \in Path : /\ op.u[p] = KeptU(op.i[p], workdir[p], p \in ignored, op.flags)
                        /\ op.w[p] = KeptW(head[p], op.i[p], workdir[p], p \in ignored)
    BY <2>1, Zenon DEF SaveInv, Saving
  <2>6. IsStashOf(log[1], op)'
    BY <2>2, <2>3, <2>4, <2>5, Zenon DEF IsStashOf
  <2>7. ASSUME NEW p \in Path, ~leftover PROVE ResetAt(p)'
    <3>1. todo[p] = ForceAction(head[p], target[p], workdir[p], p \in ignored,
                                op.i[p] # Absent, op.flags)
      BY <2>4, <2>7, Zenon
    <3>2. todo[p] = ResetAction(op.target[p], op, p)'
      BY <2>2, <2>3, <2>4, <3>1, Zenon DEF ResetAction
    <3>3. workdir'[p] = op'.before[p] /\ index'[p] = op'.i[p]
      BY <2>2, <2>3, <2>4, <2>7, Zenon
    <3> HIDE DEF todo, target
    <3> QED
      BY <2>2, <3>2, <3>3, Zenon DEF ResetAt
  <2> HIDE DEF todo
  <2> QED
    BY <2>2, <2>3, <2>4, <2>6, <2>7, Zenon DEF ResetInv
<1>2. ASSUME NEW p \in Path, ResetFile(p) PROVE ResetInv'
  <2>1. op \in ResetOp /\ pc = "reset"
    BY <1>2, OpTypes, Zenon DEF ResetFile, StashTypeOK
  <2>2. /\ op'.flags = op.flags /\ op'.i = op.i /\ op'.before = op.before
        /\ op'.target = op.target /\ op'.todo = [op.todo EXCEPT ![p] = "none"]
    BY <1>2, <2>1, Zenon DEF ResetFile, ResetOp
  <2>3. UNCHANGED <<head, ignored, ref, log, leftover>>
    BY <1>2, Zenon DEF ResetFile
  <2>4. IsStashOf(log[1], op)'
    BY <2>1, <2>2, <2>3, Zenon DEF ResetInv, IsStashOf
  <2>5. ASSUME NEW q \in Path, ~leftover PROVE ResetAt(q)'
    <3>1. ResetAt(q)
      BY <2>1, <2>5, Zenon DEF ResetInv
    <3>2. ResetAction(op.target[q], op, q)' = ResetAction(op.target[q], op, q)
      BY <2>2, <2>3, Zenon DEF ResetAction
    <3>3. CASE q = p
      <4>1. op.todo[p] # "none"
        BY <1>2, Zenon DEF ResetFile, Pending
      <4>2. workdir'[p] = op.target[p] /\ index'[p] = op.target[p] /\ op'.todo[p] = "none"
        BY <1>2, <2>1, <2>2, Zenon DEF ResetFile, ResetOp, StashTypeOK, TreesOK, Tree, IndexTree
      <4> QED
        BY <2>2, <3>1, <3>2, <3>3, <4>1, <4>2, Zenon DEF ResetAt
    <3>4. CASE q # p
      <4>1. workdir'[q] = workdir[q] /\ index'[q] = index[q] /\ op'.todo[q] = op.todo[q]
        BY <1>2, <2>1, <2>2, <3>4, Zenon DEF ResetFile, ResetOp, StashTypeOK, TreesOK, Tree, IndexTree
      <4> QED
        BY <2>2, <3>1, <3>2, <4>1, Zenon DEF ResetAt
    <3> QED
      BY <3>3, <3>4, Zenon
  <2> QED
    BY <2>1, <2>2, <2>3, <2>4, <2>5, Zenon DEF ResetInv
<1> QED
  BY <1>0, <1>1, <1>2, Zenon DEF ResetStep

(* A step that ends with a saved stash is the last one of git_stash_save(),    *)
(* or a git_stash_save() that has nothing to do.                              *)
LEMMA SavedStep ==
    ASSUME StashTypeOK, StashTypeOK', StashNext, op'.call = "saved"
    PROVE  ResetDone \/ (op' = op /\ \E flags \in SaveFlags : Save(flags))
<1>0. pc' = "idle"
  BY Zenon DEF StashTypeOK, OpOK, OutcomeOp, DropOp, NoOp, SaveOp, ResetOp, ApplyOp
<1>1. ASSUME NEW flags \in SaveFlags, Save(flags) PROVE op' = op
  BY <1>0, <1>1, Zenon DEF Save
<1>2. ASSUME \/ CommitUntracked \/ CommitWorktree \/ AppendReflog \/ CreateRef \/ CheckoutDone
             \/ \E p \in Path : ResetFile(p) \/ CheckoutFile(p) \/ CheckoutConflict(p)
             \/ \E pos \in 0 .. (MaxStashes - 1) : Drop(pos)
      PROVE  FALSE
  BY <1>0, <1>2, Zenon DEF CommitUntracked, CommitWorktree, AppendReflog, CreateRef, CheckoutDone,
                    ResetFile, CheckoutFile, CheckoutConflict, Drop
<1>3. ASSUME NEW pos, NEW reinstate, NEW pop, NEW clean, NEW same, NEW blind,
             Apply(pos, reinstate, pop, clean, same, blind)
      PROVE  FALSE
  <2>1. \E args : op' = Outcome("refused", args)
    BY <1>0, <1>3, Zenon DEF Apply
  <2>2. op'.call = "refused"
    BY <2>1 DEF Outcome
  <2> QED
    BY <2>2
<1>4. ASSUME CheckoutStart \/ WriteIndex PROVE FALSE
  BY <1>0, <1>4 DEF CheckoutStart, WriteIndex, Outcome
<1>5. ASSUME DropReflog \/ DropRef PROVE FALSE
  <2>1. pc # "idle" /\ op' = op
    BY <1>5, Zenon DEF DropReflog, DropRef
  <2> QED
    BY <2>1, OpTypes, Zenon DEF StashTypeOK
<1>6. ASSUME \/ CommitIndex \/ Fail \/ Crash
             \/ \E p \in Path : Stage(p) \/ \E c \in {Absent} \cup {{v} : v \in Version[p]} : Edit(p, c)
      PROVE  FALSE
  BY <1>6 DEF CommitIndex, Fail, Crash, Stage, Edit, NoOp
<1> QED
  BY <1>1, <1>2, <1>3, <1>4, <1>5, <1>6, Zenon DEF StashNext

(* A save that returned made the first stash of the list, and left the files as the reset does. *)
LEMMA SavedInvStep ==
    ASSUME StashTypeOK, ResetInv, SavedInv,
           ResetDone \/ (op' = op /\ \E flags \in SaveFlags : Save(flags))
    PROVE  SavedInv'
<1>1. ASSUME ResetDone, ~leftover PROVE SavedInv'
  <2>1. op \in ResetOp /\ pc = "reset"
    BY <1>1, OpTypes, Zenon DEF ResetDone, StashTypeOK
  <2>2. op'.i = op.i /\ op'.before = op.before /\ op'.flags = op.flags
    BY <1>1, Zenon DEF ResetDone
  <2>3. UNCHANGED <<head, index, workdir, ignored, ref, log, leftover>>
    BY <1>1, Zenon DEF ResetDone
  <2>4. IsStashOf(log[1], op)'
    BY <2>1, <2>2, <2>3, Zenon DEF ResetInv, IsStashOf
  <2>5. ASSUME NEW p \in Path, "KEEP_INDEX" \notin op.flags
        PROVE  workdir'[p] = AfterReset(op, p)' /\ index'[p] = StagedAfterReset(op, p)'
    <3>1. op.todo[p] = "none"
      BY <1>1, <2>1, Zenon DEF ResetDone, Pending, ResetOp
    <3>2. ResetAt(p) /\ op.target = head
      BY <1>1, <2>1, <2>5, Zenon DEF ResetInv
    <3>3. ResetAction(head[p], op, p)' = ResetAction(head[p], op, p)
      BY <2>2, <2>3, Zenon DEF ResetAction
    <3> QED
      BY <2>2, <2>3, <3>1, <3>2, <3>3, Zenon DEF ResetAt, AfterReset, StagedAfterReset
  <2> QED
    BY <2>1, <2>2, <2>3, <2>4, <2>5, Zenon DEF ResetInv, SavedInv
<1>2. ASSUME op' = op, NEW flags \in SaveFlags, Save(flags) PROVE SavedInv'
  <2>1. UNCHANGED <<head, index, workdir, ignored, ref, log>> /\ (leftover => leftover')
    BY <1>2, Zenon DEF Save
  <2> QED
    BY <1>2, <2>1, Zenon DEF SavedInv, IsStashOf, AfterReset, StagedAfterReset, ResetAction
<1>3. ASSUME ResetDone, leftover PROVE SavedInv'
  BY <1>3, Zenon DEF ResetDone, SavedInv
<1> QED
  BY <1>1, <1>2, <1>3, Zenon

-----------------------------------------------------------------------------
(* git_stash_apply()                                                          *)

(* The fields of a call to apply that a step of a checkout keeps              *)
SameCall ==
    /\ op'.pos = op.pos /\ op'.of = op.of /\ op'.before = op.before /\ op'.staged = op.staged
    /\ op'.modified = op.modified /\ op'.reinstate = op.reinstate /\ op'.after = op.after
    /\ op'.restage = op.restage /\ op'.unstashed = op.unstashed /\ op'.same = op.same
    /\ op'.blind = op.blind
SameCheckout == SameCall /\ op'.phase = op.phase /\ op'.target = op.target

(* The steps of a checkout stay within their call. *)
LEMMA StepsOfACall ==
    ASSUME op \in ApplyOp
    PROVE  /\ CheckoutStart /\ pc' # "idle" => SameCheckout
           /\ \A p \in Path : CheckoutFile(p) \/ CheckoutConflict(p) => SameCheckout
           /\ CheckoutDone => SameCall
<1>1. ASSUME NEW t, op' = [op EXCEPT !.todo = t] PROVE SameCheckout /\ op'.todo = t
  BY <1>1, Zenon DEF ApplyOp, SameCheckout, SameCall
<1>2. ASSUME CheckoutStart, pc' # "idle" PROVE SameCheckout
  BY <1>1, <1>2, Zenon DEF CheckoutStart
<1>3. ASSUME NEW p \in Path, CheckoutFile(p) \/ CheckoutConflict(p) PROVE SameCheckout
  <2>1. PICK t : op' = [op EXCEPT !.todo = t]
    BY <1>3, Zenon DEF CheckoutFile, CheckoutConflict
  <2> QED
    BY <1>1, <2>1, Zenon
<1>4. ASSUME CheckoutDone PROVE SameCall
  <2>1. CASE op' = op
    BY <2>1, Zenon DEF SameCall
  <2>2. CASE op' = [op EXCEPT !.phase = "modified", !.target = op.modified]
    BY <2>2, Zenon DEF SameCall, ApplyOp
  <2> QED
    BY <1>4, <2>1, <2>2, Zenon DEF CheckoutDone
<1> QED
  BY <1>2, <1>3, <1>4, Zenon

(* When a checkout is done, what the stash changed in one of its files is out.*)
LEMMA CheckedOut ==
    ASSUME StashAssumption, StashTypeOK, pc = "files", NEW p \in Path, FileAt(p),
           Pending(op.todo) = {}, "unmerged" \in op.target[p] => op.todo[p] = "written",
           NEW t, t = IF op.phase = "untracked" THEN op.of.u[p] ELSE op.of.w[p],
           NEW a, op.target[p] \in Merges(a, head[p], t),
           NEW v \in t, v \notin a, v \notin head[p]
    PROVE  v \in workdir[p]
<1>1. op \in ApplyOp
  BY OpTypes, Zenon DEF Applying, StashTypeOK
<1>2. head[p] \in SUBSET Text /\ t \in SUBSET Text
  BY <1>1, Zenon DEF ApplyOp, Entry, Tree, StashTypeOK, TreesOK
<1>3. CASE "unmerged" \in op.target[p]
  <2>1. workdir[p] = ConflictFile(p)
    BY <1>3, Zenon DEF FileAt
  <2> QED
    BY <2>1, Zenon DEF ConflictFile
<1>4. CASE "unmerged" \notin op.target[p]
  <2>1. Stage0(op.target[p]) # head[p] /\ v \in Stage0(op.target[p])
    BY <1>2, <1>4, MergeBrings
  <2>2. op.todo[p] = "none"
    <3>1. op.todo[p] \in {"none", "remove", "update", "written"}
      BY <1>1, Zenon DEF ApplyOp
    <3> QED
      BY <1>4, <3>1, Zenon DEF Pending, FileAt
  <2> QED
    BY <2>1, <2>2, Zenon DEF FileAt
<1> QED
  BY <1>3, <1>4, Zenon

(* What a git_stash_apply() remembers, also when it is refused at once         *)
LEMMA ApplyArgs ==
    ASSUME NEW pos, NEW reinstate, NEW pop, NEW clean, NEW same, NEW blind,
           Apply(pos, reinstate, pop, clean, same, blind)
    PROVE  /\ op'.pos = pos /\ op'.reinstate = reinstate /\ op'.of = log[pos + 1]
           /\ op'.before = workdir /\ op'.staged = disk
           /\ op'.after = IF op.call = "saved" THEN op ELSE NoOp
           /\ ref /\ pos < Len(log) /\ pc = "idle"
           /\ leftover' = (leftover \/ index # disk)
           /\ UNCHANGED <<head, index, disk, workdir, ignored, ref, log, user_work>>
<1> DEFINE e == log[pos + 1]
           args == [call |-> "apply", pos |-> pos, reinstate |-> reinstate, of |-> e,
                    before |-> workdir, staged |-> disk,
                    after |-> IF op.call = "saved" THEN op ELSE NoOp,
                    pop |-> pop, same |-> same, blind |-> blind, phase |-> "untracked",
                    restage |-> ~reinstate \/ e.b # e.i,
                    unstashed |-> UnstashedIndex(e, reinstate, clean),
                    modified |-> ModifiedIndex(e, clean),
                    target |-> UntrackedIndex(e, clean),
                    todo |-> [p \in Path |-> "none"]]
<1>1. /\ op' = args \/ op' = Outcome("refused", args)
      /\ ref /\ pos < Len(log) /\ pc = "idle"
      /\ leftover' = (leftover \/ index # disk)
      /\ UNCHANGED <<head, index, disk, workdir, ignored, ref, log, user_work>>
  BY Zenon DEF Apply, StashCommit
<1>2. /\ args.pos = pos /\ args.reinstate = reinstate /\ args.of = e
      /\ args.before = workdir /\ args.staged = disk
      /\ args.after = IF op.call = "saved" THEN op ELSE NoOp
  BY Zenon
<1> HIDE DEF args
<1>3. ASSUME NEW o, o = args \/ o = Outcome("refused", args)
      PROVE  /\ o.pos = args.pos /\ o.reinstate = args.reinstate /\ o.of = args.of
             /\ o.before = args.before /\ o.staged = args.staged /\ o.after = args.after
  <2>1. CASE o = args
    BY <2>1, Zenon
  <2>2. CASE o = Outcome("refused", args)
    BY <2>2 DEF Outcome
  <2> QED
    BY <1>3, <2>1, <2>2, Zenon
<1> QED
  BY <1>1, <1>2, <1>3, Zenon

(* What git_stash_apply() sets up before its first checkout                   *)
LEMMA ApplyBegins ==
    ASSUME NEW pos, NEW reinstate, NEW pop, NEW clean \in BOOLEAN, NEW same, NEW blind,
           Apply(pos, reinstate, pop, clean, same, blind), pc' # "idle"
    PROVE  /\ pc' = "checkout" /\ CleanIndex
           /\ op'.pos = pos /\ op'.of = log[pos + 1] /\ op'.before = workdir /\ op'.staged = disk
           /\ op'.phase = "untracked" /\ op'.reinstate = reinstate
           /\ op'.after = IF op.call = "saved" THEN op ELSE NoOp
           /\ op'.restage = (~reinstate \/ log[pos + 1].b # log[pos + 1].i)
           /\ op'.unstashed = UnstashedIndex(log[pos + 1], reinstate, clean)
           /\ op'.modified = ModifiedIndex(log[pos + 1], clean)
           /\ op'.target = UntrackedIndex(log[pos + 1], clean)
           /\ ref /\ pos < Len(log) /\ pc = "idle"
           /\ leftover' = (leftover \/ index # disk)
           /\ UNCHANGED <<head, index, disk, workdir, ignored, ref, log, user_work>>
BY DEF Apply, StashCommit

(* git_stash_apply() begins with targets that are merges. *)
LEMMA ApplyInvBegins ==
    ASSUME StashTypeOK, NEW pos, NEW reinstate, NEW pop, NEW clean \in BOOLEAN, NEW same, NEW blind,
           Apply(pos, reinstate, pop, clean, same, blind), pc' # "idle"
    PROVE  ApplyInv'
<1> DEFINE e == log[pos + 1]
<1>1. /\ pc' = "checkout" /\ index = head
      /\ op'.pos = pos /\ op'.of = e /\ op'.before = workdir /\ op'.staged = disk
      /\ op'.phase = "untracked"
      /\ op'.modified = ModifiedIndex(e, clean) /\ op'.target = UntrackedIndex(e, clean)
      /\ ref /\ pos < Len(log)
      /\ leftover' = (leftover \/ index # disk)
      /\ UNCHANGED <<head, index, disk, workdir, ignored, ref, log, user_work>>
  BY ApplyBegins DEF CleanIndex
<1> HIDE DEF e
<1>2. ASSUME NEW p \in Path
      PROVE  /\ op'.modified[p] \in Merges(e.b[p], head[p], e.w[p])
             /\ op'.target[p] \in Merges(Absent, head[p], e.u[p])
  BY <1>1 DEF ModifiedIndex, UntrackedIndex, MergeAll, Merges, Empty
<1>3. TargetsOK'
  BY <1>1, <1>2, Zenon DEF TargetsOK, Absent, Merges
<1>4. Untouched'
  BY <1>1, Zenon DEF Untouched
<1>5. ComesOut'
  BY <1>1, Zenon DEF ComesOut
<1> QED
  BY <1>1, <1>3, <1>4, <1>5, Zenon DEF ApplyInv, e, StashTypeOK

(* A checkout that starts was not refused. *)
LEMMA ApplyInvStarts ==
    ASSUME StashAssumption, StashTypeOK, ApplyInv, CheckoutStart, pc' # "idle"
    PROVE  ApplyInv'
<1> DEFINE todo == [p \in Path |->
                      SafeAction(Baseline[p], Stage0(op.target[p]), workdir[p], p \in ignored,
                                 op.phase = "untracked" \/ op.same, p \in op.blind)]
<1>1. op \in ApplyOp /\ pc = "checkout" /\ pc \in Applying
  BY OpTypes, Zenon DEF CheckoutStart, Applying, StashTypeOK
<1>2. SameCheckout
  BY <1>1, StepsOfACall, Zenon
<1>3. /\ pc' = "files" /\ op'.todo = todo /\ \A p \in Path : todo[p] # "conflict"
      /\ UNCHANGED <<head, disk, workdir, ignored, ref, log, user_work, leftover>>
  BY <1>1, Zenon DEF CheckoutStart, ApplyOp
<1>4. TargetsOK'
  BY <1>1, <1>2, <1>3, Zenon DEF TargetsOK, ApplyInv, SameCheckout, SameCall
<1>5. ASSUME NEW p \in Path, op.phase = "untracked", todo[p] # "none" PROVE op.of.u[p] # Absent
  <2> SUFFICES ASSUME op.of.u[p] = Absent PROVE FALSE
    BY Zenon
  <2>1. head[p] \in SUBSET Text
    BY Zenon DEF StashTypeOK, TreesOK, Tree
  <2>2. op.target[p] \in Merges(Absent, head[p], Absent)
    BY <1>1, <1>5, Zenon DEF ApplyInv, TargetsOK
  <2>3. Stage0(op.target[p]) = head[p]
    BY <2>1, <2>2, MergeOfNothing, Zenon
  <2> QED
    BY <1>5, <2>3, Zenon DEF SafeAction, Baseline
<1>6. ASSUME ~leftover, NEW p \in Path PROVE FileAt(p)'
  <2> DEFINE new == Stage0(op.target[p])
  <2>1. Baseline = head
    BY <1>1, <1>6, Zenon DEF ApplyInv, Baseline
  <2>2. todo[p] = SafeAction(head[p], new, workdir[p], p \in ignored,
                             op.phase = "untracked" \/ op.same, p \in op.blind)
    BY <2>1, Zenon
  <2>3. \/ todo[p] = "none" /\ new = head[p]
        \/ /\ todo[p] \in {"remove", "update"} /\ new # head[p]
           /\ GivesWay(p) \/ workdir[p] \in {Absent, head[p], new}
    <3>1. todo[p] # "conflict"
      BY <1>3, Zenon
    <3> HIDE DEF todo, new
    <3> QED
      BY <2>1, <2>2, <3>1, Zenon DEF SafeAction, WdModified, GivesWay
  <2>4. new' = new /\ Absent' = Absent /\ GivesWay(p)' = GivesWay(p)
    BY <1>2, <1>3, Zenon DEF SameCheckout, SameCall, Stage0, Absent, GivesWay, Baseline
  <2> HIDE DEF todo, new
  <2> QED
    BY <1>3, <2>3, <2>4, Zenon DEF FileAt, new
<1> HIDE DEF todo
<1>7. Untouched'
  BY <1>1, <1>2, <1>3, <1>5, Zenon DEF ApplyInv, Untouched, SameCheckout, SameCall
<1>8. ComesOut'
  BY <1>1, <1>2, <1>3, <1>6, Zenon DEF ApplyInv, ComesOut, UntrackedOut, Owed, SameCheckout, SameCall
<1> QED
  BY <1>1, <1>2, <1>3, <1>4, <1>7, <1>8, Zenon DEF ApplyInv, SameCheckout, SameCall

(* A file that is checked out. *)
LEMMA ApplyInvFile ==
    ASSUME StashAssumption, StashTypeOK, ApplyInv, NEW p \in Path, CheckoutFile(p)
    PROVE  ApplyInv'
<1> DEFINE new == Stage0(op.target[p])
<1>1. op \in ApplyOp /\ pc = "files" /\ pc \in Applying
  BY OpTypes, Zenon DEF CheckoutFile, Applying, StashTypeOK
<1>2. SameCheckout /\ op'.todo = [op.todo EXCEPT ![p] = "none"]
  BY <1>1, StepsOfACall, Zenon DEF CheckoutFile, ApplyOp
<1>3. /\ pc' = "files" /\ op.todo[p] \in {"remove", "update"}
      /\ workdir' = [workdir EXCEPT ![p] = new]
      /\ given_way' = IF GivesWay(p) THEN given_way \cup Carried(p) ELSE given_way
      /\ UNCHANGED <<head, disk, ignored, ref, log, work, leftover>>
  BY <1>1, Zenon DEF CheckoutFile, Pending
<1>4. /\ workdir'[p] = new /\ op'.todo[p] = "none"
      /\ \A q \in Path \ {p} : workdir'[q] = workdir[q] /\ op'.todo[q] = op.todo[q]
  BY <1>1, <1>2, <1>3, Zenon DEF StashTypeOK, TreesOK, Tree, ApplyOp
<1>5. TargetsOK'
  BY <1>1, <1>2, <1>3, Zenon DEF TargetsOK, ApplyInv, SameCheckout, SameCall
<1>6. Untouched'
  <2>1. op.phase = "untracked" => op.of.u[p] # Absent
    BY <1>1, <1>3, Zenon DEF ApplyInv, Untouched
  <2> QED
    BY <1>1, <1>2, <1>3, <1>4, <2>1 DEF ApplyInv, Untouched, SameCheckout, SameCall
<1>7. ASSUME ~leftover, NEW q \in Path PROVE FileAt(q)'
  <2>1. FileAt(q)
    BY <1>1, <1>7, Zenon DEF ApplyInv, ComesOut
  <2>2. /\ Stage0(op.target[q])' = Stage0(op.target[q]) /\ ConflictFile(q)' = ConflictFile(q)
        /\ op'.target[q] = op.target[q]
    BY <1>2, <1>3, Zenon DEF SameCheckout, SameCall, Stage0, ConflictFile, Absent
  <2>5. GivesWay(q)' = GivesWay(q)
    BY <1>2, <1>3, Zenon DEF SameCheckout, SameCall, Absent, GivesWay, Baseline
  <2>3. CASE q = p
    BY <1>4, <2>2, <2>3, Zenon DEF FileAt
  <2>4. CASE q # p
    BY <1>3, <1>4, <2>1, <2>2, <2>4, <2>5, Zenon DEF FileAt, Absent
  <2> QED
    BY <2>3, <2>4, Zenon
<1>8. ASSUME ~leftover, op.phase = "modified", NEW x \in Owed', x[2] \in op.of.u[x[1]]
      PROVE  x[2] \in workdir'[x[1]]
  <2>1. x \in Owed /\ x \in work /\ x[1] \in Path /\ x[2] \notin head[x[1]]
    BY <1>3, Zenon DEF Owed, StashTypeOK, TreesOK
  <2>2. x[2] \in workdir[x[1]]
    BY <1>1, <1>8, <2>1, Zenon DEF ApplyInv, ComesOut, UntrackedOut
  <2>3. CASE x[1] = p
    <3>1. ~GivesWay(p)
      BY <1>3, <1>8, <2>1, <2>2, <2>3, Zenon DEF Carried, Owed
    <3>2. workdir[p] \in {Absent, head[p], new}
      BY <1>1, <1>3, <1>8, <3>1, Zenon DEF ApplyInv, ComesOut, FileAt
    <3> QED
      BY <1>4, <2>1, <2>2, <2>3, <3>2, Zenon DEF Absent
  <2>4. CASE x[1] # p
    BY <1>4, <2>1, <2>2, <2>4, Zenon
  <2> QED
    BY <2>3, <2>4, Zenon
<1>9. ComesOut'
  BY <1>2, <1>3, <1>7, <1>8, Zenon DEF ComesOut, UntrackedOut, SameCheckout, SameCall
<1> QED
  BY <1>1, <1>2, <1>3, <1>5, <1>6, <1>9, Zenon DEF ApplyInv, SameCheckout, SameCall

(* A file that is written with its conflict. *)
LEMMA ApplyInvConflict ==
    ASSUME StashAssumption, StashTypeOK, ApplyInv, NEW p \in Path, CheckoutConflict(p)
    PROVE  ApplyInv'
<1>1. op \in ApplyOp /\ pc = "files" /\ pc \in Applying
  BY OpTypes, Zenon DEF CheckoutConflict, Applying, StashTypeOK
<1>2. SameCheckout /\ op'.todo = [op.todo EXCEPT ![p] = "written"]
  BY <1>1, StepsOfACall, Zenon DEF CheckoutConflict, ApplyOp
<1>3. /\ pc' = "files" /\ op.todo[p] = "none" /\ "unmerged" \in op.target[p]
      /\ workdir' = [workdir EXCEPT ![p] = ConflictFile(p)]
      /\ given_way' = IF head[p] = Absent THEN given_way \cup Carried(p) ELSE given_way
      /\ UNCHANGED <<head, disk, ignored, ref, log, work, leftover>>
  BY <1>1, Zenon DEF CheckoutConflict
<1>4. /\ workdir'[p] = ConflictFile(p) /\ op'.todo[p] = "written"
      /\ \A q \in Path \ {p} : workdir'[q] = workdir[q] /\ op'.todo[q] = op.todo[q]
  BY <1>1, <1>2, <1>3 DEF StashTypeOK, TreesOK, Tree, ApplyOp
<1>5. TargetsOK'
  BY <1>1, <1>2, <1>3, Zenon DEF TargetsOK, ApplyInv, SameCheckout, SameCall
<1>6. Untouched'
  <2>1. ASSUME op.phase = "untracked", op.of.u[p] = Absent PROVE FALSE
    <3>1. head[p] \in SUBSET Text
      BY Zenon DEF StashTypeOK, TreesOK, Tree
    <3>2. op.target[p] \in Merges(Absent, head[p], Absent)
      BY <1>1, <2>1, Zenon DEF ApplyInv, TargetsOK
    <3> QED
      BY <1>3, <3>1, <3>2, MergeOfNothing, Zenon DEF StashAssumption
  <2> QED
    BY <1>1, <1>2, <1>3, <1>4, <2>1 DEF ApplyInv, Untouched, SameCheckout, SameCall
<1>7. ASSUME ~leftover, NEW q \in Path PROVE FileAt(q)'
  <2>1. FileAt(q)
    BY <1>1, <1>7, Zenon DEF ApplyInv, ComesOut
  <2>2. /\ Stage0(op.target[q])' = Stage0(op.target[q]) /\ ConflictFile(q)' = ConflictFile(q)
        /\ op'.target[q] = op.target[q]
    BY <1>2, <1>3, Zenon DEF SameCheckout, SameCall, Stage0, ConflictFile, Absent
  <2>5. GivesWay(q)' = GivesWay(q)
    BY <1>2, <1>3, Zenon DEF SameCheckout, SameCall, Absent, GivesWay, Baseline
  <2>3. CASE q = p
    BY <1>3, <1>4, <2>2, <2>3, Zenon DEF FileAt
  <2>4. CASE q # p
    BY <1>3, <1>4, <2>1, <2>2, <2>4, <2>5, Zenon DEF FileAt, Absent
  <2> QED
    BY <2>3, <2>4, Zenon
<1>8. ASSUME ~leftover, op.phase = "modified", NEW x \in Owed', x[2] \in op.of.u[x[1]]
      PROVE  x[2] \in workdir'[x[1]]
  <2>1. x \in Owed /\ x \in work /\ x[1] \in Path
    BY <1>3, Zenon DEF Owed, StashTypeOK, TreesOK
  <2>2. x[2] \in workdir[x[1]]
    BY <1>1, <1>8, <2>1, Zenon DEF ApplyInv, ComesOut, UntrackedOut
  <2>3. CASE x[1] = p
    <3>1. head[p] # Absent
      BY <1>3, <1>8, <2>1, <2>2, <2>3, Zenon DEF Carried, Owed
    <3>2. workdir[p] = Absent
      BY <1>1, <1>3, <1>8, <3>1, Zenon DEF ApplyInv, ComesOut, FileAt, Stage0
    <3> QED
      BY <2>2, <2>3, <3>2, Zenon DEF Absent
  <2>4. CASE x[1] # p
    BY <1>4, <2>1, <2>2, <2>4, Zenon
  <2> QED
    BY <2>3, <2>4, Zenon
<1>9. ComesOut'
  BY <1>2, <1>3, <1>7, <1>8, Zenon DEF ComesOut, UntrackedOut, SameCheckout, SameCall
<1> QED
  BY <1>1, <1>2, <1>3, <1>5, <1>6, <1>9, Zenon DEF ApplyInv, SameCheckout, SameCall

(* The end of a checkout, and the beginning of the second. *)
LEMMA ApplyInvDone ==
    ASSUME StashAssumption, StashTypeOK, ApplyInv, CheckoutDone
    PROVE  ApplyInv'
<1>1. op \in ApplyOp /\ pc = "files" /\ pc \in Applying
  BY OpTypes, Zenon DEF CheckoutDone, Applying, StashTypeOK
<1>2. SameCall
  BY <1>1, StepsOfACall, Zenon
<1>3. /\ Pending(op.todo) = {}
      /\ \A p \in Path : "unmerged" \in op.target[p] => op.todo[p] = "written"
      /\ UNCHANGED <<head, workdir, ignored, ref, log, user_work, leftover>>
  BY Zenon DEF CheckoutDone
<1>4. Owed' = Owed /\ \A x \in Owed : x[1] \in Path /\ x[2] \notin head[x[1]]
  BY <1>3, Zenon DEF StashTypeOK, TreesOK, Owed
<1>5. CASE op.phase = "untracked"
  <2>1. pc' = "checkout" /\ op'.phase = "modified" /\ op'.target = op.modified /\ disk' = disk
    BY <1>1, <1>5, Zenon DEF CheckoutDone, ApplyOp
  <2>2. TargetsOK'
    BY <1>1, <1>2, <1>3, <2>1, Zenon DEF TargetsOK, ApplyInv, SameCall
  <2>3. Untouched'
    BY <1>1, <1>2, <1>3, <1>5, <2>1, Zenon DEF ApplyInv, Untouched, SameCall
  <2>4. ASSUME ~leftover, NEW x \in Owed, x[2] \in op.of.u[x[1]] PROVE x[2] \in workdir[x[1]]
    <3>1. FileAt(x[1]) /\ op.target[x[1]] \in Merges(Absent, head[x[1]], op.of.u[x[1]])
      BY <1>1, <1>4, <1>5, <2>4, Zenon DEF ApplyInv, ComesOut, TargetsOK
    <3>2. x[2] \notin Absent
      BY Zenon DEF Absent
    <3> QED
      BY <1>1, <1>3, <1>4, <1>5, <2>4, <3>1, <3>2, CheckedOut
  <2>5. ComesOut'
    BY <1>2, <1>3, <1>4, <2>1, <2>4, Zenon DEF ComesOut, UntrackedOut, SameCall
  <2> QED
    BY <1>1, <1>2, <1>3, <2>1, <2>2, <2>3, <2>5, Zenon DEF ApplyInv, SameCall
<1>6. CASE op.phase # "untracked"
  <2>1. pc' = "write" /\ op' = op /\ op.phase = "modified"
    BY <1>1, <1>6, Zenon DEF CheckoutDone, ApplyOp
  <2>2. TargetsOK'
    BY <1>1, <1>3, <2>1, Zenon DEF TargetsOK, ApplyInv
  <2>3. Untouched'
    BY <2>1, Zenon DEF Untouched
  <2>4. ASSUME ~leftover, NEW x \in Owed, x[2] \in Carries(op.of, x[1])
        PROVE  x[2] \in workdir[x[1]]
    <3>1. CASE x[2] \in op.of.u[x[1]]
      BY <1>1, <2>1, <2>4, <3>1, Zenon DEF ApplyInv, ComesOut, UntrackedOut
    <3>2. CASE x[2] \in op.of.w[x[1]] /\ x[2] \notin op.of.b[x[1]]
      <4>1. /\ FileAt(x[1])
            /\ op.target[x[1]] \in Merges(op.of.b[x[1]], head[x[1]], op.of.w[x[1]])
        BY <1>1, <1>4, <1>6, <2>4, Zenon DEF ApplyInv, ComesOut, TargetsOK
      <4> QED
        BY <1>1, <1>3, <1>4, <1>6, <2>4, <3>2, <4>1, CheckedOut
    <3> QED
      BY <2>4, <3>1, <3>2, Zenon DEF Carries
  <2>5. ComesOut'
    BY <1>1, <1>3, <1>4, <2>1, <2>4, Zenon DEF ApplyInv, ComesOut, UntrackedOut, AllOut, Carries
  <2> QED
    BY <1>1, <1>3, <2>1, <2>2, <2>3, <2>5, Zenon DEF ApplyInv
<1> QED
  BY <1>5, <1>6, Zenon

(* Every step keeps what is known of an apply. *)
LEMMA ApplyInvStep ==
    ASSUME StashAssumption, StashTypeOK, ApplyInv, StashNext
    PROVE  ApplyInv'
<1> SUFFICES ASSUME pc' \in Applying PROVE ApplyInv'
  BY Zenon DEF ApplyInv
<1>1. ApplyStep /\ pc' # "idle"
  BY PcSteps, Zenon DEF Applying
<1> QED
  BY <1>1, ApplyInvBegins, ApplyInvStarts, ApplyInvFile, ApplyInvConflict, ApplyInvDone, Zenon
     DEF ApplyStep

-----------------------------------------------------------------------------
(* git_stash_drop(), and that of git_stash_pop()                              *)
LEMMA DropInvStep ==
    ASSUME StashAssumption, StashTypeOK, ApplyInv, DropInv, WorkIsKept, StashNext
    PROVE  DropInv'
<1>1. ASSUME WriteIndex, pc' = "drop" PROVE DropInv'
  <2>1. op \in ApplyOp /\ pc = "write" /\ pc \in Applying
    BY <1>1, OpTypes, Zenon DEF WriteIndex, Applying, StashTypeOK
  <2>2. op'.pos = op.pos /\ UNCHANGED <<workdir, ref, log, user_work, leftover>>
    BY <1>1, Zenon DEF WriteIndex, Outcome
  <2>3. ref /\ op.pos < Len(log) /\ op.of = log[op.pos + 1] /\ (~leftover => AllOut)
    BY <2>1, Zenon DEF ApplyInv, ComesOut
  <2>4. ASSUME ~leftover, NEW x \in Owed
        PROVE  \/ x[2] \in workdir[x[1]]
               \/ \E i \in DOMAIN log \ {op.pos + 1} : x[2] \in Carries(log[i], x[1])
    <3>1. CASE x[2] \in workdir[x[1]]
      BY <3>1, Zenon
    <3>2. CASE \E e \in Listed : x[2] \in Carries(e, x[1])
      <4>1. PICK i \in DOMAIN log : x[2] \in Carries(log[i], x[1])
        BY <2>3, <3>2, Zenon DEF Listed, Range
      <4> QED
        BY <2>3, <2>4, <4>1, Zenon DEF AllOut
    <3> QED
      BY <2>4, <3>1, <3>2, Zenon DEF WorkIsKept, Owed
  <2> QED
    BY <1>1, <2>2, <2>3, <2>4, Zenon DEF DropInv, Carries, Owed
<1>2. ASSUME NEW pos \in 0 .. (MaxStashes - 1), Drop(pos) PROVE DropInv'
  BY <1>2, Zenon DEF Drop, DropInv, Carries, Owed
<1>3. ASSUME DropReflog, pc' = "drop_ref" PROVE DropInv'
  <2>1. op.pos \in Nat
    BY <1>3, OpTypes, Zenon DEF DropReflog, StashTypeOK, OutcomeOp, DropOp
  <2>2. op.pos + 1 \in 1 .. Len(log) /\ Len(log) = 1 /\ log \in Seq(Entry)
    <3>1. op.pos < Len(log) /\ Len(log) = 1
      BY <1>3, Zenon DEF DropReflog, DropInv
    <3>2. log \in Seq(Entry)
      BY Zenon DEF StashTypeOK, TreesOK
    <3> QED
      BY <2>1, <3>1, <3>2
  <2>3. log' \in Seq(Entry) /\ Len(log') = 0
    <3>1. log' = Removed(log, op.pos + 1)
      BY <1>3, Zenon DEF DropReflog, Removed
    <3>2. log' \in Seq(Entry) /\ Len(log') = Len(log) - 1
      BY <2>2, <3>1, RemoveLog, Zenon
    <3> QED
      BY <2>2, <3>2
  <2> QED
    BY <1>3, <2>3 DEF DropInv
<1> QED
  BY <1>1, <1>2, <1>3, PcSteps, Zenon DEF DropInv, DropStep

-----------------------------------------------------------------------------
(* Nothing that the user wrote is lost.                                       *)

(* A step that touches no file and drops no stash loses nothing. *)
LEMMA KeptWhenLeft ==
    ASSUME WorkIsKept, leftover => leftover', workdir' = workdir, Owed' \subseteq Owed,
           Listed \subseteq Listed'
    PROVE  WorkIsKept'
BY Zenon DEF WorkIsKept, Carries, Owed

(* The reset of git_stash_save() removes only what the stash has. *)
LEMMA ResetLosesNothing ==
    ASSUME StashTypeOK, ResetInv, WorkIsKept, NEW p \in Path, ResetFile(p)
    PROVE  WorkIsKept'
<1>1. op \in ResetOp /\ pc = "reset"
  BY OpTypes, Zenon DEF ResetFile, StashTypeOK
<1>2. /\ UNCHANGED <<head, ref, log, leftover>> /\ op.todo[p] # "none"
      /\ \A q \in Path \ {p} : workdir'[q] = workdir[q]
      /\ work' = work /\ given_way' = IF Expendable(p) THEN given_way \cup Carried(p) ELSE given_way
  BY <1>1, Zenon DEF ResetFile, Pending, StashTypeOK, TreesOK, Tree
<1>3. ref /\ log # <<>> /\ log[1] \in Listed /\ Listed' = Listed
  BY <1>1, <1>2 DEF ResetInv, Listed, Range, StashTypeOK, TreesOK
<1> SUFFICES ASSUME ~leftover, NEW x \in Owed'
             PROVE  \/ x[2] \in workdir'[x[1]]
                    \/ \E e \in Listed : x[2] \in Carries(e, x[1])
  BY <1>2, <1>3, Zenon DEF WorkIsKept, Carries, Owed
<1>4. x \in Owed /\ x \in work /\ x[1] \in Path /\ x[2] \notin head[x[1]]
  BY <1>2, Zenon DEF Owed, StashTypeOK, TreesOK
<1>5. CASE x[1] # p
  BY <1>2, <1>4, <1>5, Zenon DEF WorkIsKept, Owed
<1>6. CASE x[1] = p /\ x[2] \notin workdir[p]
  BY <1>4, <1>6, Zenon DEF WorkIsKept, Owed
<1>7. CASE x[1] = p /\ x[2] \in workdir[p]
  <2>1. ~Expendable(p)
    BY <1>2, <1>4, <1>7, Zenon DEF Carried, Owed
  <2>2. ResetAt(p) /\ IsStashOf(log[1], op)
    BY <1>1, Zenon DEF ResetInv
  <2>3. ResetAction(op.target[p], op, p) # "none" /\ workdir[p] = op.before[p]
    BY <1>2, <2>2, Zenon DEF ResetAt
  <2>4. op.target[p] \in {head[p], op.i[p]}
    BY <1>1, Zenon DEF ResetInv
  <2>5. \/ x[2] \in log[1].u[p] \/ x[2] \in log[1].w[p]
    <3> DEFINE ign == p \in ignored
               wd == op.before[p]
    <3>1. ign \in BOOLEAN /\ x[2] \in wd
      BY <1>7, <2>3
    <3>2. ForceAction(head[p], op.target[p], wd, ign, op.i[p] # Absent, op.flags) # "none"
      BY <2>3, Zenon DEF ResetAction
    <3>3. \/ x[2] \in KeptU(op.i[p], wd, ign, op.flags)
          \/ x[2] \in KeptW(head[p], op.i[p], wd, ign)
          \/ ign /\ op.i[p] = Absent /\ "INCLUDE_IGNORED" \notin op.flags
      <4> HIDE DEF ign, wd
      <4> QED
        BY <1>4, <1>7, <2>4, <3>1, <3>2, ResetKeeps
    <3> QED
      BY <2>1, <2>2, <3>3, Zenon DEF IsStashOf, Expendable
  <2>6. x[2] \in Carries(log[1], x[1])
    BY <1>4, <1>7, <2>2, <2>5, Zenon DEF Carries, IsStashOf
  <2> QED
    BY <1>3, <2>6, Zenon
<1> QED
  BY <1>5, <1>6, <1>7, Zenon

(* A checkout of git_stash_apply() writes over no work but what the target carries on. *)
LEMMA CheckoutLosesNothing ==
    ASSUME StashTypeOK, ApplyInv, WorkIsKept, NEW p \in Path,
           CheckoutFile(p) \/ CheckoutConflict(p)
    PROVE  WorkIsKept'
<1> DEFINE new == Stage0(op.target[p])
<1>1. op \in ApplyOp /\ pc = "files" /\ pc \in Applying
  BY OpTypes, Zenon DEF CheckoutFile, CheckoutConflict, Applying, StashTypeOK
<1>2. /\ UNCHANGED <<head, ref, log, leftover>>
      /\ \A q \in Path \ {p} : workdir'[q] = workdir[q]
      /\ work' = work /\ given_way' \in {given_way, given_way \cup Carried(p)}
  BY Zenon DEF CheckoutFile, CheckoutConflict, StashTypeOK, TreesOK, Tree
<1>3. Listed' = Listed
  BY <1>2, Zenon DEF Listed
<1> SUFFICES ASSUME ~leftover, NEW x \in Owed'
             PROVE  \/ x[2] \in workdir'[x[1]]
                    \/ \E e \in Listed : x[2] \in Carries(e, x[1])
  BY <1>2, <1>3, Zenon DEF WorkIsKept, Carries, Owed
<1>4. x \in Owed /\ x \in work /\ x[1] \in Path /\ x[2] \notin head[x[1]]
  BY <1>2, Zenon DEF Owed, StashTypeOK, TreesOK
<1>5. CASE x[1] # p
  BY <1>2, <1>4, <1>5, Zenon DEF WorkIsKept, Owed
<1>6. CASE x[1] = p /\ x[2] \notin workdir[p]
  BY <1>4, <1>6, Zenon DEF WorkIsKept, Owed
<1>7. CASE x[1] = p /\ x[2] \in workdir[p]
  <2>1. FileAt(p) /\ x \in Carried(p) /\ x \notin given_way'
    BY <1>1, <1>4, <1>7, Zenon DEF Carried, Owed, ApplyInv, ComesOut
  <2>2. CASE CheckoutFile(p)
    <3>1. ~GivesWay(p) /\ op.todo[p] \in {"remove", "update"} /\ workdir'[p] = new
      BY <1>4, <1>7, <2>1, <2>2, Zenon DEF CheckoutFile, Pending, StashTypeOK, TreesOK, Tree
    <3>2. workdir[p] \in {Absent, head[p], new}
      BY <2>1, <3>1, Zenon DEF FileAt
    <3> QED
      BY <1>4, <1>7, <3>1, <3>2, Zenon DEF Absent
  <2>3. CASE CheckoutConflict(p)
    <3>1. head[p] # Absent /\ op.todo[p] = "none" /\ "unmerged" \in op.target[p]
      BY <1>7, <2>1, <2>3, Zenon DEF CheckoutConflict
    <3>2. workdir[p] = Absent
      BY <2>1, <3>1, Zenon DEF FileAt, Stage0
    <3> QED
      BY <1>7, <3>2, Zenon DEF Absent
  <2> QED
    BY <2>2, <2>3, Zenon
<1> QED
  BY <1>5, <1>6, <1>7, Zenon

(* A stash is dropped when no work is in it alone. *)
LEMMA DropLosesNothing ==
    ASSUME StashTypeOK, DropInv, WorkIsKept, DropReflog
    PROVE  WorkIsKept'
<1>1. op.pos \in Nat /\ pc = "drop"
  BY OpTypes, Zenon DEF DropReflog, StashTypeOK, OutcomeOp, DropOp
<1>2. op.pos + 1 \in 1 .. Len(log) /\ log \in Seq(Entry) /\ ref
  BY <1>1 DEF DropInv, StashTypeOK, TreesOK
<1>3. \A j \in DOMAIN log \ {op.pos + 1} : log[j] \in Range(log')
  BY <1>2, RemoveLog, Zenon DEF DropReflog, Removed
<1>4. UNCHANGED <<workdir, ref, user_work, leftover>>
  BY Zenon DEF DropReflog
<1> SUFFICES ASSUME ~leftover, NEW x \in Owed
             PROVE  \/ x[2] \in workdir[x[1]]
                    \/ \E e \in Range(log') : x[2] \in Carries(e, x[1])
  BY <1>2, <1>4, Zenon DEF WorkIsKept, Carries, Listed, Owed
<1> QED
  BY <1>1, <1>3, Zenon DEF DropInv

(* What the user overwrites is no longer work. *)
LEMMA EditLosesNothing ==
    ASSUME StashTypeOK, WorkIsKept, NEW p \in Path, NEW c, Edit(p, c)
    PROVE  WorkIsKept'
<1> DEFINE new == { <<p, v>> : v \in c \ head[p] }
<1>1. /\ UNCHANGED <<ref, log, leftover>> /\ workdir'[p] = c
      /\ \A q \in Path \ {p} : workdir'[q] = workdir[q]
      /\ work' = (work \ Carried(p)) \cup new /\ given_way' = given_way \ new
  BY Zenon DEF Edit, StashTypeOK, TreesOK, Tree
<1> SUFFICES ASSUME ~leftover, NEW x \in Owed'
             PROVE  \/ x[2] \in workdir'[x[1]]
                    \/ \E e \in Listed : x[2] \in Carries(e, x[1])
  BY <1>1, Zenon DEF WorkIsKept, Carries, Listed, Owed
<1>2. CASE x \notin new
  <2>1. x \in work /\ x \notin Carried(p) /\ x \notin given_way
    BY <1>1, <1>2, Zenon DEF Owed
  <2>2. x[1] \in Path /\ (x[1] = p => x[2] \notin workdir[p])
    BY <2>1, Zenon DEF Carried, StashTypeOK, TreesOK
  <2> QED
    BY <1>1, <2>1, <2>2, Zenon DEF WorkIsKept
<1>3. CASE x \in new
  BY <1>1, <1>3
<1> QED
  BY <1>2, <1>3, Zenon

(* Every step keeps what the user wrote. *)
LEMMA WorkIsKeptStep ==
    ASSUME StashAssumption, StashTypeOK, ResetInv, ApplyInv, DropInv, WorkIsKept, StashNext
    PROVE  WorkIsKept'
<1>1. ASSUME leftover => leftover', workdir' = workdir, work' \subseteq work, given_way' = given_way,
             ref' = ref, log' = log
      PROVE  WorkIsKept'
  BY <1>1, KeptWhenLeft, Zenon DEF Listed, Owed
<1>2. ASSUME \E flags \in SaveFlags : Save(flags) PROVE WorkIsKept'
  BY <1>1, <1>2, Zenon DEF Save
<1>3. ASSUME CommitUntracked \/ CommitWorktree \/ ResetDone PROVE WorkIsKept'
  BY <1>1, <1>3, Zenon DEF CommitUntracked, CommitWorktree, ResetDone
<1>4. ASSUME AppendReflog PROVE WorkIsKept'
  <2>1. op \in SaveOp
    BY <1>4, OpTypes, Zenon DEF AppendReflog, Saving, StashTypeOK
  <2>2. [b |-> op.b, i |-> op.i, u |-> op.u, w |-> op.w] \in Entry
    BY <2>1, Zenon DEF Entry, SaveOp
  <2>3. Range(log) \subseteq Range(log')
    BY <1>4, <2>2, PushLog DEF AppendReflog, StashTypeOK, TreesOK
  <2> QED
    BY <1>4, <2>3, KeptWhenLeft, Zenon DEF AppendReflog, Listed, Owed
<1>5. ASSUME CreateRef PROVE WorkIsKept'
  BY <1>5, KeptWhenLeft, Zenon DEF CreateRef, Listed, Owed
<1>6. ASSUME NEW pos, NEW reinstate, NEW pop, NEW clean, NEW same, NEW blind,
             Apply(pos, reinstate, pop, clean, same, blind)
      PROVE  WorkIsKept'
  BY <1>1, <1>6, Zenon DEF Apply
<1>7. ASSUME CheckoutStart \/ CheckoutDone \/ WriteIndex PROVE WorkIsKept'
  BY <1>1, <1>7, Zenon DEF CheckoutStart, CheckoutDone, WriteIndex
<1>8. ASSUME NEW pos, Drop(pos) PROVE WorkIsKept'
  BY <1>1, <1>8, Zenon DEF Drop
<1>9. ASSUME DropRef PROVE WorkIsKept'
  <2>1. Listed = {}
    BY <1>9 DEF DropRef, DropInv, Listed, Range
  <2> QED
    BY <1>9, <2>1, KeptWhenLeft, Zenon DEF DropRef, Owed
<1>10. ASSUME CommitIndex \/ Fail \/ Crash \/ \E p \in Path : Stage(p) PROVE WorkIsKept'
  BY <1>1, <1>10, Zenon DEF CommitIndex, Fail, Crash, Stage
<1> QED
  BY <1>2, <1>3, <1>4, <1>5, <1>6, <1>7, <1>8, <1>9, <1>10, ResetLosesNothing,
     CheckoutLosesNothing, DropLosesNothing, EditLosesNothing, Zenon DEF StashNext

-----------------------------------------------------------------------------
(* A refusal changes nothing else.                                            *)
LEMMA RefusedStep ==
    ASSUME StashAssumption, StashTypeOK, StashTypeOK', ApplyInv, RefusedIsUntouched, StashNext
    PROVE  RefusedIsUntouched'
<1> SUFFICES ASSUME op'.call = "refused" PROVE RefusedIsUntouched'
  BY Zenon DEF RefusedIsUntouched
<1>0. pc' = "idle"
  BY Zenon DEF StashTypeOK, OpOK, OutcomeOp, DropOp, NoOp, SaveOp, ResetOp, ApplyOp
<1>1. ASSUME NEW flags \in SaveFlags, Save(flags) PROVE RefusedIsUntouched'
  <2>1. op' = op /\ UNCHANGED <<disk, workdir, log>>
    BY <1>0, <1>1, Zenon DEF Save
  <2> QED
    BY <2>1, Zenon DEF RefusedIsUntouched, Range, Absent
<1>2. ASSUME \/ CommitUntracked \/ CommitWorktree \/ AppendReflog \/ CreateRef \/ CheckoutDone
             \/ \E p \in Path : ResetFile(p) \/ CheckoutFile(p) \/ CheckoutConflict(p)
             \/ \E pos \in 0 .. (MaxStashes - 1) : Drop(pos)
      PROVE  FALSE
  BY <1>0, <1>2, Zenon DEF CommitUntracked, CommitWorktree, AppendReflog, CreateRef, CheckoutDone,
                    ResetFile, CheckoutFile, CheckoutConflict, Drop
<1>3. ASSUME NEW pos \in 0 .. (MaxStashes - 1), NEW reinstate, NEW pop, NEW clean, NEW same, NEW blind,
             Apply(pos, reinstate, pop, clean, same, blind)
      PROVE  RefusedIsUntouched'
  <2>1. /\ op'.of = log[pos + 1] /\ op'.before = workdir /\ op'.staged = disk
        /\ UNCHANGED <<disk, workdir, log>> /\ pos < Len(log)
    BY <1>3, ApplyArgs, Zenon
  <2>2. pos + 1 \in DOMAIN log
    BY <2>1 DEF StashTypeOK, TreesOK, StashAssumption
  <2> QED
    BY <2>1, <2>2, Zenon DEF RefusedIsUntouched, Range
<1>4. ASSUME CheckoutStart PROVE RefusedIsUntouched'
  <2>1. op \in ApplyOp /\ pc = "checkout" /\ pc \in Applying
    BY <1>4, OpTypes, Zenon DEF CheckoutStart, Applying, StashTypeOK
  <2>2. /\ op'.of = op.of /\ op'.before = op.before /\ op'.staged = op.staged
        /\ UNCHANGED <<disk, workdir, log>>
    BY <1>0, <1>4 DEF CheckoutStart, Outcome
  <2>3. /\ disk = op.staged /\ op.of = log[op.pos + 1] /\ op.pos < Len(log) /\ op.pos \in Nat
        /\ \A p \in Path : workdir[p] = op.before[p] \/ op.of.u[p] # Absent
    BY <2>1, Zenon DEF ApplyInv, Untouched, ApplyOp
  <2>4. op.pos + 1 \in DOMAIN log
    BY <2>3 DEF StashTypeOK, TreesOK
  <2> QED
    BY <2>2, <2>3, <2>4, Zenon DEF RefusedIsUntouched, Range, Absent
<1>5. ASSUME ResetDone \/ WriteIndex PROVE FALSE
  BY <1>5 DEF ResetDone, WriteIndex, Outcome
<1>6. ASSUME DropReflog \/ DropRef PROVE FALSE
  <2>1. pc # "idle" /\ op' = op
    BY <1>6, Zenon DEF DropReflog, DropRef
  <2> QED
    BY <2>1, OpTypes, Zenon DEF StashTypeOK
<1>7. ASSUME \/ CommitIndex \/ Fail \/ Crash
             \/ \E p \in Path : Stage(p) \/ \E c \in {Absent} \cup {{v} : v \in Version[p]} : Edit(p, c)
      PROVE  FALSE
  BY <1>7 DEF CommitIndex, Fail, Crash, Stage, Edit, NoOp
<1> QED
  BY <1>1, <1>2, <1>3, <1>4, <1>5, <1>6, <1>7, Zenon DEF StashNext

-----------------------------------------------------------------------------
(* What a stash brings back                                                   *)

(* One file of a checkout, of the untracked and of the modified files: it is  *)
(* not in conflict, and comes out as it should.                               *)
LEMMA TripFile ==
    ASSUME StashAssumption, StashTypeOK, ApplyInv, TripInv, pc \in Applying, BringsBack,
           NEW p \in Path
    PROVE  /\ "unmerged" \notin op.target[p]
           /\ op.phase = "untracked" => \A same \in BOOLEAN :
                LET act == SafeAction(head[p], Stage0(op.target[p]), AfterReset(op.after, p),
                                      p \in ignored, same, p \in op.blind)
                IN  /\ act # "conflict"
                    /\ act = "none" => AfterReset(op.after, p) = AfterUntracked(p)
                    /\ act # "none" => Stage0(op.target[p]) = AfterUntracked(p)
           /\ op.phase = "modified" => \A same \in BOOLEAN :
                LET act == SafeAction(head[p], Stage0(op.target[p]), AfterUntracked(p),
                                      p \in ignored, same, p \in op.blind)
                IN  /\ act # "conflict"
                    /\ act = "none" => AfterUntracked(p) = op.after.before[p]
                    /\ act # "none" => Stage0(op.target[p]) = op.after.before[p]
<1> DEFINE h == head[p]
           i == op.after.i[p]
           wd == op.after.before[p]
           ign == p \in ignored
           flags == op.after.flags
           m == op.target[p]
           blind == p \in op.blind
<1>1. op \in ApplyOp /\ op.after \in SavedOp
  BY OpTypes DEF StashTypeOK, ApplyOp, BringsBack, NoOp
<1>2. /\ h \in SUBSET Text /\ i \in SUBSET Text /\ wd \in SUBSET Text /\ ign \in BOOLEAN
      /\ blind \in BOOLEAN
  BY <1>1 DEF SavedOp, Tree, StashTypeOK, TreesOK
<1>3. (wd = h => i = h) /\ (i = Absent /\ h # Absent => wd = Absent)
  BY Zenon DEF BringsBack, Ordinary
<1>4. op.of.b = head /\ op.of.u[p] = KeptU(i, wd, ign, flags) /\ op.of.w[p] = KeptW(h, i, wd, ign)
  BY Zenon DEF TripInv, IsStashOf
<1>5. AfterReset(op.after, p) = Left(h, i, wd, ign, flags)
  BY Zenon DEF AfterReset, Left, ResetAction
<1>6. AfterUntracked(p) = Back(h, i, wd, ign, flags)
  BY <1>4, <1>5, Zenon DEF AfterUntracked, Back
<1>7. /\ op.phase = "untracked" => m \in Merges(Absent, h, KeptU(i, wd, ign, flags))
      /\ op.phase = "modified" => m \in Merges(h, h, KeptW(h, i, wd, ign))
      /\ op.phase \in {"untracked", "modified"}
  BY <1>1, <1>4, Zenon DEF ApplyInv, TargetsOK, ApplyOp
<1> HIDE DEF h, i, wd, ign, flags, m, blind
<1>8. CASE op.phase = "untracked"
  <2>1. m \in Merges(Absent, h, KeptU(i, wd, ign, flags))
    BY <1>7, <1>8, Zenon
  <2>2. ASSUME NEW same \in BOOLEAN, NEW act,
               act = SafeAction(h, Stage0(m), Left(h, i, wd, ign, flags), ign, same, blind)
        PROVE  /\ "unmerged" \notin m /\ act # "conflict"
               /\ act = "none" => Left(h, i, wd, ign, flags) = Back(h, i, wd, ign, flags)
               /\ act # "none" => Stage0(m) = Back(h, i, wd, ign, flags)
    BY <1>2, <1>3, <2>1, <2>2, UntrackedBack
  <2> QED
    BY <1>5, <1>6, <1>8, <2>2, Zenon DEF h, ign, m, blind
<1>9. CASE op.phase = "modified"
  <2>1. m \in Merges(h, h, KeptW(h, i, wd, ign))
    BY <1>7, <1>9, Zenon
  <2>2. ASSUME NEW same \in BOOLEAN, NEW act,
               act = SafeAction(h, Stage0(m), Back(h, i, wd, ign, flags), ign, same, blind)
        PROVE  /\ "unmerged" \notin m /\ act # "conflict"
               /\ act = "none" => Back(h, i, wd, ign, flags) = wd
               /\ act # "none" => Stage0(m) = wd
    BY <1>2, <1>3, <2>1, <2>2, WorktreeBack
  <2> QED
    BY <1>6, <1>9, <2>2, Zenon DEF h, wd, ign, m, blind
<1> QED
  BY <1>7, <1>8, <1>9, Zenon

(* The call is the same, and so are HEAD and the ignored files.               *)
LEMMA SameTrip ==
    ASSUME SameCall, UNCHANGED <<head, ignored, leftover>>
    PROVE  /\ BringsBack' => BringsBack
           /\ IsStashOf(op.of, op.after) => IsStashOf(op.of, op.after)'
           /\ \A p \in Path : /\ AfterReset(op.after, p)' = AfterReset(op.after, p)
                              /\ AfterUntracked(p)' = AfterUntracked(p)
BY Zenon DEF SameCall, BringsBack, Ordinary, IsStashOf, AfterReset, ResetAction, AfterUntracked, Absent

(* An apply right after a save starts a round trip that is not refused. *)
LEMMA TripBegins ==
    ASSUME StashAssumption, StashTypeOK, SavedInv,
           NEW pos, NEW reinstate \in BOOLEAN, NEW pop, NEW clean \in BOOLEAN, NEW same, NEW blind,
           Apply(pos, reinstate, pop, clean, same, blind), BringsBack'
    PROVE  pc' = "checkout" /\ TripInv'
<1>1. /\ op'.pos = pos /\ op'.reinstate = reinstate
      /\ op'.after = IF op.call = "saved" THEN op ELSE NoOp
      /\ leftover' = (leftover \/ index # disk)
      /\ UNCHANGED <<head, index, workdir, ignored>> /\ pc = "idle"
  BY ApplyArgs, Zenon
<1>2. /\ op.call = "saved" /\ op'.after = op /\ ~leftover /\ index = disk /\ ~leftover'
      /\ pos = 0 /\ reinstate /\ pos + 1 = 1
      /\ "KEEP_INDEX" \notin op.flags /\ \A p \in Path : Ordinary(op, p)
  <2>1. ~leftover' /\ op'.pos = 0 /\ op'.reinstate /\ op'.after.call = "saved"
    BY Zenon DEF BringsBack
  <2>2. op.call = "saved" /\ op'.after = op
    BY <1>1, <2>1 DEF NoOp
  <2>3. "KEEP_INDEX" \notin op.flags /\ \A p \in Path : Ordinary(op, p)
    BY <1>1, <2>2, Zenon DEF BringsBack, Ordinary, Absent
  <2>4. ~leftover /\ index = disk
    BY <1>1, <2>1, Zenon DEF StashTypeOK
  <2>5. pos = 0 /\ reinstate /\ pos + 1 = 1
    BY <1>1, <2>1
  <2> QED
    BY <2>1, <2>2, <2>3, <2>4, <2>5, Zenon
<1>3. op \in SavedOp
  BY <1>2, OpTypes, Zenon DEF StashTypeOK
<1>4. /\ IsStashOf(log[1], op)
      /\ \A p \in Path : workdir[p] = AfterReset(op, p) /\ index[p] = StagedAfterReset(op, p)
  BY <1>2, Zenon DEF SavedInv
<1>5. index = head
  <2>1. ASSUME NEW p \in Path PROVE index[p] = head[p]
    <3>2. /\ op.before[p] = head[p] => op.i[p] = head[p]
          /\ op.i[p] = Absent /\ head[p] # Absent => op.before[p] = Absent
      BY <1>2, Zenon DEF Ordinary
    <3>3. index[p] = IF ForceAction(head[p], head[p], op.before[p], p \in ignored,
                                      op.i[p] # Absent, op.flags) = "none"
                     THEN op.i[p] ELSE head[p]
      BY <1>4, Zenon DEF StagedAfterReset, ResetAction
    <3> QED
      BY <3>2, <3>3, Zenon DEF ForceAction
  <2> QED
    BY <2>1 DEF StashTypeOK, TreesOK, Tree, IndexTree
<1>6. UnstashedIndex(log[1], reinstate, clean) = op.i
  <2>1. log[1].b = head /\ log[1].i = op.i /\ op.i \in Tree
    BY <1>3, <1>4, Zenon DEF IsStashOf, SavedOp
  <2>2. \A p \in Path : Merge(head[p], head[p], op.i[p], clean) = op.i[p]
    BY Zenon DEF Merge
  <2> QED
    BY <1>2, <1>5, <2>1, <2>2, Zenon DEF UnstashedIndex, MergeAll, Tree
<1>7. ~Unmerged(op.i)
  BY <1>3, Zenon DEF Unmerged, SavedOp, Tree, StashAssumption
<1>8. pc' = "checkout"
  <2>1. index = head /\ ~Unmerged(UnstashedIndex(log[pos + 1], reinstate, clean))
    BY <1>2, <1>5, <1>6, <1>7, Zenon
  <2> QED
    BY <2>1, Zenon DEF Apply, StashCommit, CleanIndex
<1>9. /\ op'.of = log[1] /\ op'.phase = "untracked" /\ op'.unstashed = op.i
      /\ op'.restage = (log[1].b # log[1].i)
  <2>1. pc' # "idle" /\ log[pos + 1] = log[1]
    BY <1>2, <1>8, Zenon
  <2>2. /\ op'.of = log[pos + 1] /\ op'.phase = "untracked"
        /\ op'.restage = (~reinstate \/ log[pos + 1].b # log[pos + 1].i)
        /\ op'.unstashed = UnstashedIndex(log[pos + 1], reinstate, clean)
    BY <2>1, ApplyBegins
  <2> QED
    BY <1>2, <1>6, <2>1, <2>2, Zenon
<1>10. IsStashOf(op.of, op.after)'
  BY <1>1, <1>2, <1>4, <1>9 DEF IsStashOf
<1>11. ASSUME NEW p \in Path PROVE TripAt(p)'
  <2>1. AfterReset(op.after, p)' = AfterReset(op, p)
    BY <1>1, <1>2, Zenon DEF AfterReset, ResetAction
  <2> QED
    BY <1>1, <1>4, <1>8, <1>9, <2>1, Zenon DEF TripAt
<1> QED
  BY <1>2, <1>8, <1>9, <1>10, <1>11, Zenon DEF TripInv

(* Neither of its checkouts is refused. *)
LEMMA TripStarts ==
    ASSUME StashAssumption, StashTypeOK, ApplyInv, TripInv, CheckoutStart, BringsBack
    PROVE  pc' = "files" /\ (BringsBack' => TripInv')
<1> DEFINE same == op.phase = "untracked" \/ op.same
           todo == [p \in Path |->
                      SafeAction(Baseline[p], Stage0(op.target[p]), workdir[p], p \in ignored, same,
                                 p \in op.blind)]
<1>1. op \in ApplyOp /\ pc = "checkout" /\ pc \in Applying
  BY OpTypes, Zenon DEF CheckoutStart, Applying, StashTypeOK
<1>2. Baseline = head /\ disk = head /\ ~leftover /\ same \in BOOLEAN
  BY <1>1, Zenon DEF ApplyInv, BringsBack, ApplyOp, Baseline
<1>3. /\ index' = disk /\ UNCHANGED <<head, workdir, ignored, leftover>>
      /\ IF Unmerged(disk) \/ \E p \in Path : todo[p] = "conflict"
         THEN pc' = "idle" ELSE pc' = "files" /\ op' = [op EXCEPT !.todo = todo]
  BY Zenon DEF CheckoutStart
<1> HIDE DEF same
<1>4. ASSUME NEW p \in Path
      PROVE  /\ op.phase = "untracked" =>
                  /\ workdir[p] = AfterReset(op.after, p) /\ todo[p] # "conflict"
                  /\ todo[p] = "none" => workdir[p] = AfterUntracked(p)
             /\ op.phase = "modified" =>
                  /\ workdir[p] = AfterUntracked(p) /\ todo[p] # "conflict"
                  /\ todo[p] = "none" => workdir[p] = op.after.before[p]
  <2>1. TripAt(p)
    BY <1>1, Zenon DEF TripInv
  <2>2. todo[p] = SafeAction(head[p], Stage0(op.target[p]), workdir[p], p \in ignored, same,
                             p \in op.blind)
    BY <1>2, Zenon
  <2> HIDE DEF todo
  <2>3. CASE op.phase = "untracked"
    <3>1. workdir[p] = AfterReset(op.after, p)
      BY <1>1, <2>1, <2>3, Zenon DEF TripAt
    <3> QED
      BY <1>1, <1>2, <2>2, <2>3, <3>1, TripFile, Zenon
  <2>4. CASE op.phase = "modified"
    <3>1. workdir[p] = AfterUntracked(p)
      BY <1>1, <2>1, <2>4, Zenon DEF TripAt
    <3> QED
      BY <1>1, <1>2, <2>2, <2>4, <3>1, TripFile, Zenon
  <2> QED
    BY <2>3, <2>4, Zenon
<1>5. op.phase \in {"untracked", "modified"}
  BY <1>1, Zenon DEF ApplyOp
<1>6. ~Unmerged(disk)
  BY <1>2, Zenon DEF Unmerged, StashTypeOK, TreesOK, Tree, StashAssumption
<1> HIDE DEF todo
<1>7. pc' = "files" /\ op' = [op EXCEPT !.todo = todo]
  BY <1>3, <1>4, <1>5, <1>6, Zenon
<1>8. SameCheckout /\ op'.todo = todo
  BY <1>1, <1>7, StepsOfACall, Zenon DEF ApplyOp
<1>9. ASSUME NEW p \in Path PROVE TripAt(p)'
  <2>1. AfterReset(op.after, p)' = AfterReset(op.after, p) /\ AfterUntracked(p)' = AfterUntracked(p)
    BY <1>3, <1>8, SameTrip, Zenon DEF SameCheckout
  <2> QED
    BY <1>3, <1>4, <1>5, <1>7, <1>8, <2>1, Zenon DEF TripAt, SameCheckout, SameCall
<1>10. IsStashOf(op.of, op.after)'
  BY <1>1, <1>3, <1>8, SameTrip, Zenon DEF SameCheckout, TripInv
<1> QED
  BY <1>1, <1>2, <1>3, <1>7, <1>8, <1>9, <1>10, Zenon DEF TripInv, SameCheckout, SameCall

(* Each of its files comes out as it was saved. *)
LEMMA TripFileOut ==
    ASSUME StashAssumption, StashTypeOK, ApplyInv, TripInv, NEW p \in Path, CheckoutFile(p),
           BringsBack
    PROVE  BringsBack' => TripInv'
<1> DEFINE new == Stage0(op.target[p])
<1>1. op \in ApplyOp /\ pc = "files" /\ pc \in Applying
  BY OpTypes, Zenon DEF CheckoutFile, Applying, StashTypeOK
<1>2. SameCheckout /\ op'.todo = [op.todo EXCEPT ![p] = "none"]
  BY <1>1, StepsOfACall, Zenon DEF CheckoutFile, ApplyOp
<1>3. /\ pc' = "files" /\ op.todo[p] \in {"remove", "update"}
      /\ workdir' = [workdir EXCEPT ![p] = new]
      /\ index' = IF UpdatesIndex THEN [index EXCEPT ![p] = new] ELSE index
      /\ UNCHANGED <<head, ignored, leftover>>
  BY <1>1, Zenon DEF CheckoutFile, Pending
<1>4. /\ workdir'[p] = new /\ op'.todo[p] = "none"
      /\ \A q \in Path \ {p} : workdir'[q] = workdir[q] /\ op'.todo[q] = op.todo[q]
  BY <1>1, <1>2, <1>3, Zenon DEF StashTypeOK, TreesOK, Tree, ApplyOp
<1>5. ~UpdatesIndex
  BY <1>1, TripFile, Zenon DEF UpdatesIndex, Unmerged
<1>6. new # head[p]
  BY <1>1, <1>3, Zenon DEF ApplyInv, ComesOut, FileAt, BringsBack
<1>7. /\ op.phase = "untracked" => new = AfterUntracked(p)
      /\ op.phase = "modified" => new = op.after.before[p]
  <2>1. \A x, same : SafeAction(head[p], new, x, p \in ignored, same, p \in op.blind) # "none"
    BY <1>6, Zenon DEF SafeAction
  <2> HIDE DEF new
  <2>2. new = Stage0(op.target[p]) /\ TRUE \in BOOLEAN
    BY Zenon DEF new
  <2> QED
    BY <1>1, <2>1, <2>2, TripFile, Zenon
<1>8. ASSUME NEW q \in Path PROVE TripAt(q)'
  <2>1. AfterReset(op.after, q)' = AfterReset(op.after, q) /\ AfterUntracked(q)' = AfterUntracked(q)
    BY <1>2, <1>3, SameTrip, Zenon DEF SameCheckout
  <2>2. TripAt(q) /\ op.phase \in {"untracked", "modified"}
    BY <1>1, Zenon DEF TripInv, ApplyOp
  <2>3. CASE q = p
    BY <1>2, <1>3, <1>4, <1>7, <2>1, <2>2, <2>3 DEF TripAt, SameCheckout, SameCall
  <2>4. CASE q # p
    BY <1>1, <1>2, <1>3, <1>4, <2>1, <2>2, <2>4, Zenon DEF TripAt, SameCheckout, SameCall
  <2> QED
    BY <2>3, <2>4, Zenon
<1>9. IsStashOf(op.of, op.after)'
  BY <1>1, <1>2, <1>3, SameTrip, Zenon DEF SameCheckout, TripInv
<1> QED
  BY <1>1, <1>2, <1>3, <1>5, <1>8, <1>9, Zenon DEF TripInv, SameCheckout, SameCall

(* Its checkouts end with the index that was saved. *)
LEMMA TripDone ==
    ASSUME StashAssumption, StashTypeOK, ApplyInv, TripInv, CheckoutDone, BringsBack
    PROVE  BringsBack' => TripInv'
<1>1. op \in ApplyOp /\ pc = "files" /\ pc \in Applying
  BY OpTypes, Zenon DEF CheckoutDone, Applying, StashTypeOK
<1>2. SameCall /\ Pending(op.todo) = {} /\ UNCHANGED <<head, workdir, ignored, leftover>>
  BY <1>1, StepsOfACall, Zenon DEF CheckoutDone
<1>3. ASSUME NEW p \in Path
      PROVE  op.todo[p] = "none" /\ "unmerged" \notin op.target[p] /\ TripAt(p)
  <2>1. op.todo[p] \in {"none", "remove", "update", "written"}
    BY <1>1, Zenon DEF ApplyOp
  <2>2. "unmerged" \notin op.target[p]
    BY <1>1, TripFile, Zenon
  <2>3. FileAt(p)
    BY <1>1, Zenon DEF ApplyInv, ComesOut, BringsBack
  <2> QED
    BY <1>1, <1>2, <2>1, <2>2, <2>3, Zenon DEF Pending, FileAt, TripInv
<1>4. \A p \in Path : AfterUntracked(p)' = AfterUntracked(p)
  BY <1>2, SameTrip, Zenon
<1>5. IsStashOf(op.of, op.after)'
  BY <1>1, <1>2, SameTrip, Zenon DEF TripInv
<1>6. CASE op.phase = "untracked"
  <2>1. pc' = "checkout" /\ op'.phase = "modified"
    BY <1>1, <1>6, Zenon DEF CheckoutDone, ApplyOp
  <2>2. \A p \in Path : TripAt(p)'
    BY <1>1, <1>2, <1>3, <1>4, <1>6, <2>1, Zenon DEF TripAt
  <2> QED
    BY <1>1, <1>2, <1>5, <2>1, <2>2, Zenon DEF TripInv, SameCall
<1>7. CASE op.phase # "untracked"
  <2>1. /\ pc' = "write" /\ op' = op /\ op.phase = "modified"
        /\ index' = IF op.restage /\ ~Unmerged(op.target) THEN op.unstashed ELSE index
    BY <1>1, <1>7, Zenon DEF CheckoutDone, ApplyOp
  <2>2. \A p \in Path : TripAt(p)'
    BY <1>1, <1>2, <1>3, <2>1, Zenon DEF TripAt
  <2>3. ~Unmerged(op.target)
    BY <1>3, Zenon DEF Unmerged
  <2>4. /\ op.unstashed = op.after.i /\ op.restage = (op.of.b # op.of.i) /\ index = head
        /\ op.of.b = head /\ op.of.i = op.after.i
    BY <1>1, Zenon DEF TripInv, IsStashOf
  <2>5. index' = op.after.i
    BY <2>1, <2>3, <2>4, Zenon
  <2> QED
    BY <1>1, <1>5, <2>1, <2>2, <2>4, <2>5, Zenon DEF TripInv
<1> QED
  BY <1>6, <1>7, Zenon

(* Every step keeps a round trip on its way. *)
LEMMA TripInvStep ==
    ASSUME StashAssumption, StashTypeOK, SavedInv, ApplyInv, TripInv, StashNext
    PROVE  TripInv'
<1> SUFFICES ASSUME pc' \in Applying, BringsBack' PROVE TripInv'
  BY Zenon DEF TripInv
<1>1. ApplyStep /\ pc' # "idle"
  BY PcSteps, Zenon DEF Applying
<1>2. ASSUME CheckoutStart \/ CheckoutDone \/ \E p \in Path : CheckoutFile(p) \/ CheckoutConflict(p)
      PROVE  op \in ApplyOp /\ pc \in Applying /\ BringsBack
  <2>1. pc \in Applying
    BY <1>2, Zenon DEF CheckoutStart, CheckoutDone, CheckoutFile, CheckoutConflict, Applying
  <2>2. op \in ApplyOp
    BY <2>1, OpTypes, Zenon DEF StashTypeOK
  <2>3. SameCall /\ UNCHANGED <<head, ignored, leftover>>
    BY <1>1, <1>2, <2>2, StepsOfACall, Zenon
       DEF SameCheckout, CheckoutStart, CheckoutDone, CheckoutFile, CheckoutConflict
  <2> QED
    BY <2>1, <2>2, <2>3, SameTrip, Zenon
<1>3. ASSUME NEW p \in Path, CheckoutConflict(p) PROVE FALSE
  BY <1>2, <1>3, TripFile, Zenon DEF CheckoutConflict
<1> QED
  BY <1>1, <1>2, <1>3, TripBegins, TripStarts, TripFileOut, TripDone, Zenon DEF ApplyStep

(* A round trip that has ended has brought everything back. *)
LEMMA RoundTripStep ==
    ASSUME StashAssumption, StashTypeOK, StashTypeOK', SavedInv, ApplyInv, TripInv, RoundTrip,
           StashNext
    PROVE  RoundTrip'
<1> SUFFICES ASSUME op'.call \in {"applied", "refused"}, BringsBack'
             PROVE  op'.call = "applied" /\ workdir' = op'.after.before /\ index' = op'.after.i
  BY Zenon DEF RoundTrip, BringsBack, Ordinary
<1>0. pc' \in {"idle", "drop", "drop_ref"}
  BY Zenon DEF StashTypeOK, OpOK, OutcomeOp, DropOp, NoOp, SaveOp, ResetOp, ApplyOp
<1>1. ASSUME op' = op, UNCHANGED <<head, workdir, index>>, leftover => leftover'
      PROVE  op'.call = "applied" /\ workdir' = op'.after.before /\ index' = op'.after.i
  <2>1. BringsBack
    BY <1>1, Zenon DEF BringsBack, Ordinary, Absent
  <2> QED
    BY <1>1, <2>1, Zenon DEF RoundTrip, BringsBack
<1>2. ASSUME NEW flags \in SaveFlags, Save(flags)
      PROVE  op' = op /\ UNCHANGED <<head, workdir, index>> /\ (leftover => leftover')
  BY <1>0, <1>2, Zenon DEF Save
<1>3. ASSUME DropReflog \/ DropRef
      PROVE  op' = op /\ UNCHANGED <<head, workdir, index>> /\ (leftover => leftover')
  BY <1>3 DEF DropReflog, DropRef
<1>4. ASSUME \/ CommitUntracked \/ CommitWorktree \/ AppendReflog \/ CreateRef \/ CheckoutDone
             \/ \E p \in Path : ResetFile(p) \/ CheckoutFile(p) \/ CheckoutConflict(p)
      PROVE  FALSE
  BY <1>0, <1>4, Zenon DEF CommitUntracked, CommitWorktree, AppendReflog, CreateRef, CheckoutDone,
                    ResetFile, CheckoutFile, CheckoutConflict
<1>5. ASSUME \/ ResetDone \/ CommitIndex \/ Fail \/ Crash
             \/ \E pos \in 0 .. (MaxStashes - 1) : Drop(pos)
             \/ \E p \in Path : Stage(p) \/ \E c \in {Absent} \cup {{v} : v \in Version[p]} : Edit(p, c)
      PROVE  FALSE
  BY <1>5 DEF ResetDone, CommitIndex, Fail, Crash, Drop, Stage, Edit, NoOp
<1>6. ASSUME NEW pos, NEW reinstate \in BOOLEAN, NEW pop, NEW clean \in BOOLEAN, NEW same, NEW blind,
             Apply(pos, reinstate, pop, clean, same, blind)
      PROVE  FALSE
  BY <1>0, <1>6, TripBegins
<1>7. ASSUME CheckoutStart PROVE FALSE
  <2>1. op \in ApplyOp /\ pc \in Applying
    BY <1>7, OpTypes, Zenon DEF CheckoutStart, Applying, StashTypeOK
  <2>2. pc' = "idle"
    BY <1>0, <1>7, Zenon DEF CheckoutStart
  <2>3. /\ op'.pos = op.pos /\ op'.reinstate = op.reinstate /\ op'.after = op.after
        /\ UNCHANGED <<head, leftover>>
    BY <1>7, <2>2 DEF CheckoutStart, Outcome
  <2>4. BringsBack
    BY <2>3, Zenon DEF BringsBack, Ordinary, Absent
  <2> QED
    BY <1>7, <2>2, <2>4, TripStarts, Zenon
<1>8. ASSUME WriteIndex
      PROVE  op'.call = "applied" /\ workdir' = op'.after.before /\ index' = op'.after.i
  <2>1. op \in ApplyOp /\ pc = "write" /\ pc \in Applying
    BY <1>8, OpTypes, Zenon DEF WriteIndex, Applying, StashTypeOK
  <2>2. /\ op'.call = "applied" /\ op'.pos = op.pos /\ op'.reinstate = op.reinstate
        /\ op'.after = op.after /\ UNCHANGED <<head, workdir, index, leftover>>
    BY <1>8, Zenon DEF WriteIndex, Outcome
  <2>3. BringsBack
    BY <2>2, Zenon DEF BringsBack, Ordinary, Absent
  <2>4. op.phase = "modified" /\ index = op.after.i /\ \A p \in Path : workdir[p] = op.after.before[p]
    BY <2>1, <2>3, Zenon DEF TripInv, TripAt, ApplyInv
  <2>5. op.after.before \in Tree /\ workdir \in Tree
    BY <2>1, <2>3 DEF ApplyOp, SavedOp, NoOp, BringsBack, StashTypeOK, TreesOK
  <2>6. workdir = op.after.before
    BY <2>4, <2>5 DEF Tree
  <2> QED
    BY <2>2, <2>4, <2>6, Zenon
<1> QED
  BY <1>1, <1>2, <1>3, <1>4, <1>5, <1>6, <1>7, <1>8 DEF StashNext

-----------------------------------------------------------------------------
(* The invariant holds before any call. *)
LEMMA StashInitially ==
    ASSUME StashInit
    PROVE  StashInv
<1> USE StashAssumption DEF StashInit
<1>1. StashTypeOK
  <2>1. head \in Tree /\ head \in IndexTree
    BY Zenon DEF StashAssumption, Tree, IndexTree
  <2>2. TreesOK
    BY <2>1 DEF TreesOK
  <2>3. OpOK
    BY Zenon DEF OpOK
  <2> QED
    BY <2>2, <2>3, Zenon DEF StashTypeOK
<1>2. SaveInv /\ ResetInv /\ ApplyInv /\ DropInv /\ TripInv
  BY Zenon DEF SaveInv, ResetInv, ApplyInv, DropInv, TripInv, Saving, Applying
<1>3. SavedInv /\ WorkIsKept /\ AppliesOrRefuses
  BY Zenon DEF SavedInv, WorkIsKept, AppliesOrRefuses, RefusedIsUntouched, RoundTrip, NoOp
<1> QED
  BY <1>1, <1>2, <1>3, Zenon DEF StashInv

(* Every step keeps the invariant. *)
LEMMA StashStep ==
    ASSUME StashInv, StashNext
    PROVE  StashInv'
<1> USE StashAssumption
<1>0. /\ StashTypeOK /\ SaveInv /\ ResetInv /\ SavedInv /\ ApplyInv /\ DropInv /\ TripInv
      /\ WorkIsKept /\ RefusedIsUntouched /\ RoundTrip
  BY Zenon DEF StashInv, AppliesOrRefuses
<1>1. StashTypeOK'
  BY <1>0, StashTypeStep, Zenon
<1>2. SaveInv' /\ ResetInv'
  BY <1>0, SaveInvStep, ResetInvStep, Zenon
<1>3. SavedInv'
  <2>1. CASE op'.call = "saved"
    BY <1>0, <1>1, <2>1, SavedStep, SavedInvStep, Zenon
  <2>2. CASE op'.call # "saved"
    BY <2>2, Zenon DEF SavedInv
  <2> QED
    BY <2>1, <2>2, Zenon
<1>4. ApplyInv' /\ TripInv'
  BY <1>0, ApplyInvStep, TripInvStep, Zenon
<1>5. DropInv' /\ WorkIsKept'
  BY <1>0, DropInvStep, WorkIsKeptStep, Zenon
<1>6. RefusedIsUntouched' /\ RoundTrip'
  BY <1>0, <1>1, RefusedStep, RoundTripStep, Zenon
<1> QED
  BY <1>1, <1>2, <1>3, <1>4, <1>5, <1>6, Zenon DEF StashInv, AppliesOrRefuses

(* So does a step of other components. *)
LEMMA StashStutters ==
    ASSUME StashInv, UNCHANGED stash_vars
    PROVE  StashInv'
<1> USE DEF stash_vars
<1>1. StashTypeOK'
  BY Zenon DEF StashInv, StashTypeOK, TreesOK, OpOK
<1>2. SaveInv' /\ ResetInv' /\ SavedInv'
  BY Zenon DEF StashInv, SaveInv, ResetInv, SavedInv, IsStashOf, ResetAt, ResetAction, AfterReset,
         StagedAfterReset, Empty
<1>3. ApplyInv' /\ DropInv'
  BY Zenon DEF StashInv, ApplyInv, DropInv, TargetsOK, Untouched, ComesOut, FileAt, ConflictFile,
         UntrackedOut, AllOut, Carries, Owed, GivesWay, Baseline
<1>4. TripInv'
  <2>1. SameCall /\ UNCHANGED <<head, ignored, leftover>>
    BY Zenon DEF SameCall
  <2>2. ASSUME BringsBack', NEW p \in Path, TripAt(p) PROVE TripAt(p)'
    BY <2>1, <2>2, SameTrip, Zenon DEF TripAt
  <2> QED
    BY <2>1, <2>2, SameTrip, Zenon DEF StashInv, TripInv
<1>5. WorkIsKept' /\ AppliesOrRefuses'
  BY Zenon DEF StashInv, WorkIsKept, AppliesOrRefuses, RefusedIsUntouched, RoundTrip, Ordinary, Listed,
         Carries
<1> QED
  BY <1>1, <1>2, <1>3, <1>4, <1>5, Zenon DEF StashInv

(* The inductive invariant of the stash                                       *)
THEOREM StashInvariant == StashSpec => []StashInv
<1>1. StashInit => StashInv
  BY StashInitially, Zenon
<1>2. StashInv /\ [StashNext]_stash_vars => StashInv'
  BY StashStep, StashStutters, Zenon
<1> QED
  BY <1>1, <1>2, PTL DEF StashSpec

(* What the user wrote is in the working directory or in a stash that is      *)
(* listed, at every step of git_stash_save(), apply, pop and drop, whichever   *)
(* step fails or the process dies at.  Exempt is what gave way to a checkout   *)
(* (ignored files in its way, untracked files in the way of a conflict, files  *)
(* it did not hash), and every file once a call went on with an index that a   *)
(* failed git_stash_save() left in memory.                                     *)
THEOREM StashKeepsWork == StashSpec => []WorkIsKept
<1>1. StashInv => WorkIsKept
  BY Zenon DEF StashInv
<1> QED
  BY <1>1, StashInvariant, PTL

(* git_stash_apply() gives back the working directory and the index that       *)
(* git_stash_save() took, or refuses and leaves the index file, the stash and  *)
(* the files, but for the untracked ones of the stash.                         *)
THEOREM StashAppliesOrRefuses == StashSpec => []AppliesOrRefuses
<1>1. StashInv => AppliesOrRefuses
  BY Zenon DEF StashInv
<1> QED
  BY <1>1, StashInvariant, PTL
=============================================================================

----------------------------- MODULE MergeTrees -----------------------------
(***************************************************************************)
(* The merge of two trees with a common ancestor (git_merge_trees() of      *)
(* src/src/merge.c): the differences, the renames found among them, what    *)
(* is resolved, and the index that is made of it.                           *)
(*                                                                         *)
(* An input has the trees ancestor, our and their, each a function from     *)
(* paths to contents, and the flags renames (GIT_MERGE_FIND_RENAMES) and    *)
(* clean (whether two changes of one file merge without a conflict).  A     *)
(* content is a set of lines, a path a sequence of characters.  All files   *)
(* have one mode.  Left out are the limits on the rename search, the parts  *)
(* of the index that record names and resolved conflicts, merge drivers and *)
(* the options that favor a side, and GIT_MERGE_FAIL_ON_CONFLICT, with      *)
(* which there is no index when a difference is not resolved.               *)
(***************************************************************************)
EXTENDS Integers, Sequences, SequencesExt, FiniteSets

CONSTANTS SLASH, None, Threshold

Before(p, q) ==
  \/ IsStrictPrefix(p, q)
  \/ \E i \in DOMAIN p \cap DOMAIN q :
       p[i] < q[i] /\ SubSeq(p, 1, i - 1) = SubSeq(q, 1, i - 1)

(* path_is_prefixed() *)
Inside(dir, p) == IsPrefix(Append(dir, SLASH), p)

Entry(tree, p) == IF p \in DOMAIN tree THEN [path |-> p, id |-> tree[p]] ELSE None

-----------------------------------------------------------------------------
(* The differences *)

Status(ancestor, other) ==
  CASE ancestor = None /\ other = None -> "UNMODIFIED"
    [] ancestor = None -> "ADDED"
    [] other = None    -> "DELETED"
    [] OTHER           -> IF ancestor.id = other.id THEN "UNMODIFIED" ELSE "MODIFIED"

DetectType(our, their) ==
  CASE our = their /\ our = "ADDED"    -> "BOTH_ADDED"
    [] our = their /\ our = "MODIFIED" -> "BOTH_MODIFIED"
    [] our = their /\ our = "DELETED"  -> "BOTH_DELETED"
    [] {our, their} = {"MODIFIED", "DELETED"} -> "MODIFIED_DELETED"
    [] OTHER -> "NONE"

Diff(in, p) ==
  LET a == Entry(in.ancestor, p)
      o == Entry(in.our, p)
      t == Entry(in.their, p)
  IN  [ ancestor |-> a, our |-> o, their |-> t,
        our_status |-> Status(a, o), their_status |-> Status(a, t),
        type |-> DetectType(Status(a, o), Status(a, t)) ]

Paths(in) == DOMAIN in.ancestor \cup DOMAIN in.our \cup DOMAIN in.their

Unmodified(in) ==
  { p \in Paths(in) : Entry(in.ancestor, p) = Entry(in.our, p)
                      /\ Entry(in.our, p) = Entry(in.their, p) }

DiffPath(d) ==
  CASE d.ancestor # None -> d.ancestor.path
    [] d.ancestor = None /\ d.our # None -> d.our.path
    [] OTHER -> d.their.path

AnySideAddedOrModified(d) == {d.our_status, d.their_status} \cap {"ADDED", "MODIFIED"} # {}

(* A bug: the children are marked and the file is not. *)
MutDetectDf(st, i) ==
  LET prev == st.diffs[i - 1]
  IN  IF i > 1 /\ Inside(DiffPath(prev), DiffPath(st.diffs[i]))
      THEN [st EXCEPT !.diffs[i].type = "DF_CHILD"] ELSE st

(* merge_diff_detect_df_conflict(): only with the difference before it. *)
DetectDf(st, i) ==
  LET d    == st.diffs[i]
      prev == st.diffs[i - 1]
  IN  IF st.df_path # None
      THEN IF Inside(st.df_path, DiffPath(d))
           THEN [st EXCEPT !.diffs[i].type = "DF_CHILD"]
           ELSE [st EXCEPT !.df_path = None]
      ELSE IF /\ i > 1 /\ AnySideAddedOrModified(prev) /\ AnySideAddedOrModified(d)
              /\ Inside(DiffPath(prev), DiffPath(d))
      THEN [diffs   |-> [st.diffs EXCEPT ![i].type = "DF_CHILD",
                                         ![i - 1].type = "DIRECTORY_FILE"],
            df_path |-> DiffPath(prev)]
      ELSE st

Indices(s) == [i \in DOMAIN s |-> i]

FindDifferences(in) ==
  LET paths == SetToSortSeq(Paths(in) \ Unmodified(in), Before)
      diffs == FoldLeft(LAMBDA ds, p : Append(ds, Diff(in, p)), <<>>, paths)
  IN  FoldLeft(DetectDf, [diffs |-> diffs, df_path |-> None], Indices(diffs)).diffs

-----------------------------------------------------------------------------
(* Renames.  side is "our" or "their".                                      *)

(* The similarity metric is external: here, the share of common lines. *)
Similarity(a, b) == (100 * Cardinality(a \cap b)) \div Cardinality(a \cup b)

Source(d, side) == d.ancestor # None /\ d[side] = None
Target(d, side) == d.ancestor = None /\ d[side] # None

Best(sim, i, j, score) ==
  LET clear(s, k) == IF s[k].score > 0 THEN [s EXCEPT ![s[k].other].score = 0] ELSE s
  IN  [clear(clear(sim, i), j) EXCEPT ![i] = [score |-> score, other |-> j],
                                      ![j] = [score |-> score, other |-> i]]

(* merge_diff_mark_similarity() for one side, with the exact scores or all. *)
MarkSimilarity(diffs, side, exact, sim) ==
  LET n     == Len(diffs)
      pairs == [k \in 1 .. n * n |-> <<1 + ((k - 1) \div n), 1 + ((k - 1) % n)>>]
      mark(s, ij) ==
        LET src   == diffs[ij[1]]
            tgt   == diffs[ij[2]]
            score == IF exact THEN IF src.ancestor.id = tgt[side].id THEN 100 ELSE 0
                     ELSE Similarity(src.ancestor.id, tgt[side].id)
        IN  IF Source(src, side) /\ Target(tgt, side)
               /\ score > s[ij[1]].score /\ score > s[ij[2]].score
            THEN Best(s, ij[1], ij[2], score) ELSE s
  IN  FoldLeft(mark, sim, pairs)

Similar(diffs, side) ==
  LET none == [i \in DOMAIN diffs |-> [score |-> 0, other |-> 0]]
  IN  MarkSimilarity(diffs, side, FALSE, MarkSimilarity(diffs, side, TRUE, none))

(* merge_diff_coalesce_rename(): the new name becomes the side of the old. *)
Coalesce(st, i, side, status) ==
  LET s == st[side][i].other
  IN  [st EXCEPT !.diffs = [@ EXCEPT ![s] = [@ EXCEPT ![side] = st.diffs[i][side],
                                                      ![status] = "RENAMED"],
                                     ![i] = [@ EXCEPT ![side] = None,
                                                      ![status] = "UNMODIFIED"]],
                 ![side] = [@ EXCEPT ![s].score = 0, ![i].score = 0]]

(* merge_diff_mark_rename_conflict() for a rename on one side only. *)
MarkOneRename(st, i, src, other) ==
  LET d == st.diffs[src]
  IN  CASE st[other][src].score >= Threshold ->
             [st.diffs EXCEPT ![src].type = "BOTH_RENAMED_1_TO_2"]
        [] OTHER ->
             IF st.diffs[i][other] # None
             THEN [st.diffs EXCEPT ![src].type = "RENAMED_ADDED", ![i].type = "RENAMED_ADDED"]
             ELSE IF d[other] = None THEN [st.diffs EXCEPT ![src].type = "RENAMED_DELETED"]
             ELSE IF d.type = "MODIFIED_DELETED"
             THEN [st.diffs EXCEPT ![src].type = "RENAMED_MODIFIED"]
             ELSE st.diffs

CoalesceTarget(st, i) ==
  LET renamed(s, side) == s.diffs[i][side] # None /\ s[side][i].score >= Threshold
      ours   == renamed(st, "our")
      src    == st.our[i].other
      one    == IF ours THEN Coalesce(st, i, "our", "our_status") ELSE st
      theirs == renamed(one, "their")
      tsrc   == one.their[i].other
      two    == IF theirs THEN Coalesce(one, i, "their", "their_status") ELSE one
  IN  [two EXCEPT !.diffs =
         IF ours /\ theirs
         THEN IF src = tsrc THEN [@ EXCEPT ![src].type = "BOTH_RENAMED"]
              ELSE [@ EXCEPT ![src].type = "BOTH_RENAMED_2_TO_1",
                             ![tsrc].type = "BOTH_RENAMED_2_TO_1"]
         ELSE IF ours THEN MarkOneRename(two, i, src, "their")
         ELSE IF theirs THEN MarkOneRename(two, i, tsrc, "our")
         ELSE @]

FindRenames(in, diffs) ==
  LET found == FoldLeft(CoalesceTarget,
                        [diffs |-> diffs, our |-> Similar(diffs, "our"),
                         their |-> Similar(diffs, "their")], Indices(diffs)).diffs
      full(d) == d.ancestor # None \/ d.our # None \/ d.their # None
  IN  IF in.renames THEN SelectSeq(found, full) ELSE diffs

-----------------------------------------------------------------------------
(* Resolution.  Each of the four gives the entries that it stages, or       *)
(* Unresolved.                                                              *)

Unresolved == [resolved |-> FALSE, staged |-> {}]
Resolved(staged) == [resolved |-> TRUE, staged |-> staged]

Renamed(d) == "RENAMED" \in {d.our_status, d.their_status}

ResolveTrivial(d) ==
  LET ours   == d.our_status # "UNMODIFIED"
      theirs == d.their_status # "UNMODIFIED"
  IN  IF d.type \in {"DIRECTORY_FILE", "RENAMED_ADDED"} \/ Renamed(d) THEN Unresolved
      ELSE IF ours /\ d.our # None /\ ~(theirs /\ d.our # d.their) THEN Resolved({d.our})
      ELSE IF ~ours /\ theirs /\ d.their # None THEN Resolved({d.their})
      ELSE Unresolved

(* A bug: a file that one side removed is resolved whatever the other did. *)
MutResolveOneRemoved(d) ==
  IF d.type \notin {"DIRECTORY_FILE", "RENAMED_ADDED"} /\ (d.our = None \/ d.their = None)
  THEN Resolved({}) ELSE Unresolved

ResolveOneRemoved(d) ==
  LET ours   == d.our_status # "UNMODIFIED"
      theirs == d.their_status # "UNMODIFIED"
  IN  IF /\ d.type \notin {"DIRECTORY_FILE", "RENAMED_ADDED"}
         /\ \/ ours /\ d.our = None /\ d.their = None
            \/ d.our = None /\ ~theirs
            \/ ~ours /\ d.their = None
      THEN Resolved({}) ELSE Unresolved

ResolveOneRenamed(d) ==
  LET ours   == d.ancestor.id # d.our.id
      theirs == d.ancestor.id # d.their.id
      merged == IF ours THEN d.our.id ELSE d.their.id
      path   == IF d.our_status = "RENAMED" THEN d.our.path ELSE d.their.path
  IN  IF \/ d.our = None \/ d.their = None \/ ~Renamed(d)
         \/ d.type \in {"BOTH_RENAMED_2_TO_1", "BOTH_RENAMED_1_TO_2", "RENAMED_ADDED"}
         \/ ours /\ theirs /\ d.our.id # d.their.id
      THEN Unresolved ELSE Resolved({[path |-> path, id |-> merged]})

BestPath(d) ==
  IF d.ancestor = None \/ d.ancestor.path # d.our.path THEN d.our.path ELSE d.their.path

(* The merge of contents is external: the lines of both. *)
MergeFile(ancestor, our, their) ==
  IF our = ancestor THEN their ELSE IF their = ancestor THEN our ELSE our \cup their

ResolveContents(in, d) ==
  LET ancestor == IF d.ancestor = None THEN {} ELSE d.ancestor.id
  IN  IF \/ d.our = None \/ d.their = None \/ ~in.clean
         \/ d.type \in {"DIRECTORY_FILE", "BOTH_RENAMED_2_TO_1", "RENAMED_ADDED"}
         \/ /\ d.our_status = "RENAMED" /\ d.their_status = "RENAMED"
            /\ d.ancestor.path # d.their.path
      THEN Unresolved
      ELSE Resolved({[path |-> BestPath(d),
                      id   |-> MergeFile(ancestor, d.our.id, d.their.id)]})

Resolve(in, d) ==
  IF ResolveTrivial(d).resolved THEN ResolveTrivial(d)
  ELSE IF ResolveOneRemoved(d).resolved THEN ResolveOneRemoved(d)
  ELSE IF ResolveOneRenamed(d).resolved THEN ResolveOneRenamed(d)
  ELSE ResolveContents(in, d)

-----------------------------------------------------------------------------
(* The index: entries with their stage.  A conflict takes the place of what *)
(* is staged at its paths.                                                  *)

At(e, stage) == [path |-> e.path, id |-> e.id, stage |-> stage]

ConflictAdd(index, d) ==
  LET sides == << d.ancestor, d.our, d.their >>
      has   == { s \in 1 .. 3 : sides[s] # None }
      gone(e) == \E s \in has : sides[s].path = e.path /\ e.stage \in {0, s}
  IN  { e \in index : ~gone(e) } \cup { At(sides[s], s) : s \in has }

Staged(in, diffs) ==
  { Entry(in.ancestor, p) : p \in Unmodified(in) } \cup
  UNION { Resolve(in, diffs[i]).staged : i \in DOMAIN diffs }

Merge(in) ==
  LET diffs     == FindRenames(in, FindDifferences(in))
      conflicts == SelectSeq(diffs, LAMBDA d : ~Resolve(in, d).resolved)
      staged    == { At(e, 0) : e \in Staged(in, diffs) }
  IN  FoldLeft(ConflictAdd, staged, conflicts)

-----------------------------------------------------------------------------
(* Properties                                                              *)

(* Which side is ours does not matter: merging with the sides exchanged     *)
(* gives the same index with stages 2 and 3 exchanged.  The code treats the *)
(* sides one after the other, in the search for renames and in each of the  *)
(* four ways to resolve a difference.                                       *)
MergeIsSymmetric(in) ==
  LET mirror(e) == [e EXCEPT !.stage = CASE e.stage = 2 -> 3 [] e.stage = 3 -> 2 [] OTHER -> @]
  IN  Merge([in EXCEPT !.our = in.their, !.their = in.our]) = { mirror(e) : e \in Merge(in) }

(* No merge drops what a side has written: a content that the ancestor did  *)
(* not have is in the index, merged or as a stage of a conflict, whatever   *)
(* the other side removed, renamed or put in its place.  Only when the      *)
(* sides gave one file two new names may a file added under one of them     *)
(* give way to the conflict, so those merges are left out.                  *)
NoChangeLost(in) ==
  (\A d \in Range(FindRenames(in, FindDifferences(in))) :
     {d.our_status, d.their_status} = {"RENAMED"} => d.our.path = d.their.path) =>
  \A side \in {in.our, in.their} : \A p \in DOMAIN side :
    side[p] \in Range(in.ancestor) \/ \E e \in Merge(in) : side[p] \subseteq e.id

(* A path is merged or in conflict, never both, and has one entry at each   *)
(* stage, although the index is filled without looking at what is there     *)
(* (git_index__fill) and renames bring two differences to one path.         *)
OneEntryAPath(in) ==
  \A e, f \in Merge(in) :
    e.path = f.path /\ (e.stage = f.stage \/ 0 \in {e.stage, f.stage}) => e = f

(* No name sorts between a file and what is in the directory of its name. *)
NothingBetween(in) ==
  \A p, q, r \in Paths(in) : Inside(p, r) /\ Before(p, q) /\ Before(q, r) => Inside(p, q)

(* A merge without conflicts is a tree: no merged path is both a file and a *)
(* directory.  The code compares a difference only with the one before it,  *)
(* and a rename takes the mark of the conflict away, so this is stated for  *)
(* merges without renames in which no name comes in between.                *)
MergedIsATree(in) ==
  ~in.renames /\ NothingBetween(in) =>
    \A e, f \in Merge(in) : e.stage = 0 /\ f.stage = 0 => ~Inside(e.path, f.path)

(* git_merge_trees() fills an index from which a tree can be written, and   *)
(* the same one when the sides change places.                               *)
MergeIsSound(in) == MergeIsSymmetric(in) /\ OneEntryAPath(in) /\ MergedIsATree(in)
=============================================================================

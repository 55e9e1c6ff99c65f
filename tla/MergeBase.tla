----------------------------- MODULE MergeBase -----------------------------
(***************************************************************************)
(* Merge bases (src/src/merge.c) and the counts of git_graph_ahead_behind()  *)
(* (src/src/graph.c), as functions of a history.                            *)
(*                                                                         *)
(* flags gives each commit its subset of {"p1", "p2", "stale", "result"}.     *)
(***************************************************************************)
EXTENDS CommitGraph

NoFlags(g) == [c \in Commits(g) |-> {}]

-----------------------------------------------------------------------------
(* Painting: each tip with its colour, then every commit that has both, until *)
(* there is none on the list that is not stale                              *)

Mark(flags, C, f) == [c \in DOMAIN flags |-> IF c \in C THEN flags[c] \cup {f} ELSE flags[c]]

Interesting(st) == \E i \in DOMAIN st.list : "stale" \notin st.flags[st.list[i]]

(* One turn of the loop.  roots is used by mark_parents() only.               *)
PaintNext(g, st) ==
    LET commit == PQTop(st.list)
        own == st.flags[commit] \cap {"p1", "p2", "stale"}
        common == own = {"p1", "p2"}
        flags == IF common THEN own \cup {"stale"} ELSE own
        found == common /\ "result" \notin st.flags[commit]
        Parent(s, p) ==
            IF flags \subseteq s.flags[p] THEN s
            ELSE [s EXCEPT !.flags[p] = @ \cup flags, !.list = PQInsert(g, @, p)]
    IN  FoldLeft(Parent,
                 [st EXCEPT !.list = PQPop(g, @),
                            !.flags[commit] = IF common THEN @ \cup {"result"} ELSE @,
                            !.result = IF found THEN <<commit>> \o @ ELSE @,
                            !.roots = IF g.parents[commit] = <<>> THEN @ \cup {commit} ELSE @],
                 g.parents[commit])

RECURSIVE Paint(_, _)
Paint(g, st) == IF Interesting(st) THEN Paint(g, PaintNext(g, st)) ELSE st

PaintStart(g, flags, one, twos) ==
    [list |-> FoldLeft(LAMBDA pq, c : PQInsert(g, pq, c), <<>>, <<one>> \o twos),
     flags |-> Mark(Mark(flags, {one}, "p1"), Range(twos), "p2"),
     result |-> <<>>, roots |-> {}]

PaintDownToCommon(g, flags, one, twos) == Paint(g, PaintStart(g, flags, one, twos))

-----------------------------------------------------------------------------
(* clear_commit_marks(): from the commits that are listed, for as long as a   *)
(* commit has a mark                                                        *)
RECURSIVE ClearMarks(_, _, _)
ClearMarks(g, flags, C) ==
    LET marked == {c \in C : flags[c] # {}}
    IN  IF marked = {} THEN flags
        ELSE ClearMarks(g, [c \in DOMAIN flags |-> IF c \in marked THEN {} ELSE flags[c]],
                        UNION {ParentSet(g, c) : c \in marked})

(* A bug: what painting leaves is taken as it is.                             *)
MutRedundant(painted, commit, work) == {}

Redundant(painted, commit, work) ==
    {c \in {commit} : "p2" \in painted[c]} \cup {c \in Range(work) : "p1" \in painted[c]}

RECURSIVE RemoveRedundant(_, _, _, _, _)
RemoveRedundant(g, flags, commits, i, redundant) ==
    IF i > Len(commits) THEN SelectSeq(commits, LAMBDA c : c \notin redundant)
    ELSE IF commits[i] \in redundant
    THEN RemoveRedundant(g, flags, commits, i + 1, redundant)
    ELSE LET work == SelectSeq(commits, LAMBDA c : c # commits[i] /\ c \notin redundant)
             painted == PaintDownToCommon(g, flags, commits[i], work).flags
         IN  RemoveRedundant(g, ClearMarks(g, painted, {commits[i]} \cup Range(work)),
                             commits, i + 1,
                             redundant \cup Redundant(painted, commits[i], work))

ByDate(g, list) == FoldLeft(LAMBDA l, c : InsertByDate(g, l, c), <<>>, list)

(* git_merge__bases_many(): the commits that are returned, the newest first.  *)
BasesMany(g, one, twos) ==
    LET painted == PaintDownToCommon(g, NoFlags(g), one, twos)
        fresh == SelectSeq(painted.result, LAMBDA c : "stale" \notin painted.flags[c])
        result == ByDate(g, fresh)
        cleared == ClearMarks(g, painted.flags, {one} \cup Range(twos))
    IN  IF one \in Range(twos) THEN <<one>>
        ELSE IF Len(result) > 1
        THEN ByDate(g, RemoveRedundant(g, cleared, result, 1, {}))
        ELSE result

-----------------------------------------------------------------------------
(* git_graph_ahead_behind(): mark_parents() paints as above, and goes on       *)
(* until the roots are stale too, or the list is empty.                       *)

RECURSIVE PaintRoots(_, _)
PaintRoots(g, st) ==
    IF st.list # <<>> /\ (Interesting(st) \/ \E c \in st.roots : "stale" \notin st.flags[c])
    THEN PaintRoots(g, PaintNext(g, st)) ELSE st

MarkParents(g, one, two) ==
    IF one = two THEN [NoFlags(g) EXCEPT ![one] = {"p1", "p2", "result"}]
    ELSE PaintRoots(g, PaintStart(g, NoFlags(g), one, <<two>>)).flags

Seen(flags) == "result" \in flags \/ {"p1", "p2"} \subseteq flags

RECURSIVE Count(_, _)
Count(g, st) ==
    IF st.pq = <<>> THEN <<st.ahead, st.behind>>
    ELSE LET c == PQTop(st.pq)
             popped == [st EXCEPT !.pq = PQPop(g, @)]
         IN  IF Seen(st.flags[c]) THEN Count(g, popped)
             ELSE Count(g, [popped EXCEPT
                      !.ahead = IF "p1" \in st.flags[c] THEN @ + 1 ELSE @,
                      !.behind = IF "p2" \in st.flags[c] /\ "p1" \notin st.flags[c]
                                 THEN @ + 1 ELSE @,
                      !.pq = FoldLeft(LAMBDA pq, p : PQInsert(g, pq, p), @, g.parents[c]),
                      !.flags[c] = @ \cup {"result"}])

AheadBehind(g, one, two) ==
    Count(g, [pq |-> PQInsert(g, PQInsert(g, <<>>, one), two),
              flags |-> MarkParents(g, one, two), ahead |-> 0, behind |-> 0])

(* git_merge_base() gives the first, git_graph_descendant_of() compares it.    *)
DescendantOf(g, commit, ancestor) ==
    LET bases == BasesMany(g, commit, <<ancestor>>)
    IN  commit # ancestor /\ bases # <<>> /\ bases[1] = ancestor

-----------------------------------------------------------------------------
(* Properties                                                              *)

(* Whatever the commit times, git_merge_bases_many() returns each best common  *)
(* ancestor of the first commit and the others once: those that are not an     *)
(* ancestor of another common ancestor.                                      *)
BasesAreBest(g, one, twos) ==
    LET common == Reachable(g, {one}) \cap Reachable(g, Range(twos))
        bases == BasesMany(g, one, twos)
    IN  /\ Range(bases) = {c \in common : \A d \in common \ {c} : c \notin Reachable(g, {d})}
        /\ Cardinality(Range(bases)) = Len(bases)

(* When every commit is newer than its parents, git_graph_ahead_behind()       *)
(* counts the commits that only one side has.  With equal times a commit may    *)
(* leave the list before all its children have painted it, and is counted on.   *)
CountsAreExact(g, one, two) ==
    LET r1 == Reachable(g, {one})
        r2 == Reachable(g, {two})
    IN  Newer(g) => AheadBehind(g, one, two) = <<Cardinality(r1 \ r2), Cardinality(r2 \ r1)>>

(* git_graph_descendant_of() tells a proper ancestor, whatever the times.       *)
DescentIsExact(g, one, two) ==
    DescendantOf(g, one, two) <=> (two \in Reachable(g, {one}) /\ one # two)

(* The answers about two places in a history are those of the graph.          *)
HistoryIsExact(g, one, twos) ==
    /\ BasesAreBest(g, one, twos)
    /\ CountsAreExact(g, one, twos[1])
    /\ DescentIsExact(g, one, twos[1])
=============================================================================

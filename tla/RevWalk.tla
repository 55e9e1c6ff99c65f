------------------------------ MODULE RevWalk ------------------------------
(***************************************************************************)
(* A revision walk (src/src/revwalk.c) as a function of the history, of the  *)
(* commits pushed and hidden, and of the sorting: what git_revwalk_next()    *)
(* returns, in order.                                                      *)
(*                                                                         *)
(* An input is [g, input, topo, bytime, reverse, first_parent], where input  *)
(* is the sequence of calls [c, hide].  The state of the walk is a record of *)
(* the sets of commits with each flag, and of the list that is worked on.     *)
(***************************************************************************)
EXTENDS CommitGraph

CONSTANT Crash

SLOP == 5
NoTime == -1

Fresh == [uninteresting |-> {}, seen |-> {}, added |-> {}, parsed |-> {},
          user_input |-> <<>>, did_push |-> FALSE,
          list |-> <<>>, newlist |-> <<>>, slop |-> SLOP, time |-> NoTime]

(* push_commit(): a commit that was hidden stays so.                         *)
PushCommit(w, call) ==
    IF call.c \in w.uninteresting THEN w
    ELSE [w EXCEPT !.did_push = @ \/ ~call.hide,
                   !.uninteresting = IF call.hide THEN @ \cup {call.c} ELSE @,
                   !.user_input = <<call.c>> \o @]

-----------------------------------------------------------------------------
(* mark_parents_uninteresting(): down to commits that have the mark, or that  *)
(* were not parsed yet                                                      *)
RECURSIVE MarkDown(_, _, _)
MarkDown(g, w, C) ==
    LET new == C \ w.uninteresting
    IN  IF new = {} THEN w
        ELSE MarkDown(g, [w EXCEPT !.uninteresting = @ \cup new],
                      UNION {ParentSet(g, c) : c \in new \cap w.parsed})

MarkParentsUninteresting(g, w, c) == MarkDown(g, w, ParentSet(g, c))

(* add_parents_to_list()                                                   *)
AddHidden(g, w, p) ==
    LET m == MarkParentsUninteresting(g, [w EXCEPT !.uninteresting = @ \cup {p},
                                                   !.parsed = @ \cup {p}], p)
    IN  [m EXCEPT !.seen = @ \cup {p}, !.list = InsertByDate(g, @, p)]

(* A bug: a parent is listed for each of its children.                       *)
MutAddShown(g, w, p) ==
    [w EXCEPT !.parsed = @ \cup {p}, !.seen = @ \cup {p}, !.list = InsertByDate(g, @, p)]

AddShown(g, w, p) ==
    IF p \in w.seen THEN [w EXCEPT !.parsed = @ \cup {p}]
    ELSE [w EXCEPT !.parsed = @ \cup {p}, !.seen = @ \cup {p},
                   !.list = InsertByDate(g, @, p)]

AddParents(in, w, c) ==
    LET g == in.g
        a == [w EXCEPT !.added = @ \cup {c}]
        first == SubSeq(g.parents[c], 1, IF g.parents[c] = <<>> THEN 0 ELSE 1)
    IN  IF c \in w.added THEN w
        ELSE IF c \in w.uninteresting
        THEN FoldLeft(LAMBDA x, p : AddHidden(g, x, p), a, g.parents[c])
        ELSE FoldLeft(LAMBDA x, p : AddShown(g, x, p), a,
                      IF in.first_parent THEN first ELSE g.parents[c])

StillInteresting(g, w) ==
    IF w.list = <<>> THEN 0
    ELSE IF w.time <= g.time[w.list[1]] \/ ~(Range(w.list) \subseteq w.uninteresting)
    THEN SLOP ELSE w.slop - 1

RECURSIVE LimitList(_, _)
LimitList(in, w) ==
    IF w.list = <<>> THEN w
    ELSE LET c == Head(w.list)
             a == AddParents(in, [w EXCEPT !.list = Tail(@)], c)
             m == MarkParentsUninteresting(in.g, a, c)
             slop == StillInteresting(in.g, m)
         IN  IF c \notin a.uninteresting
             THEN LimitList(in, [a EXCEPT !.time = in.g.time[c], !.newlist = Append(@, c)])
             ELSE IF slop = 0 THEN m
             ELSE LimitList(in, [m EXCEPT !.slop = slop])

-----------------------------------------------------------------------------
(* sort_in_topological_order(): commits whose children in the list are all    *)
(* out, the newest first, or the last that was queued.  git_vector_reverse()  *)
(* takes 1 from the length of the queue: an empty one has it swap pointers     *)
(* from both ends of the address space.                                      *)

QueueInsert(in, q, c) == IF in.bytime THEN PQInsert(in.g, q, c) ELSE Append(q, c)
QueueTop(in, q) == IF in.bytime THEN PQTop(q) ELSE Last(q)
QueuePop(in, q) == IF in.bytime THEN PQPop(in.g, q) ELSE Front(q)

Ready(in, degree, p) == degree[p] = 1

RECURSIVE TopoSort(_, _, _, _)
TopoSort(in, degree, queue, out) ==
    IF queue = <<>> THEN out
    ELSE LET next == QueueTop(in, queue)
             Parent(st, p) ==
                 LET d == [st.degree EXCEPT ![p] = @ - 1]
                 IN  IF st.degree[p] = 0 THEN st
                     ELSE [degree |-> d,
                           queue |-> IF Ready(in, d, p) THEN QueueInsert(in, st.queue, p)
                                     ELSE st.queue]
             st == FoldLeft(Parent, [degree |-> degree, queue |-> QueuePop(in, queue)],
                            in.g.parents[next])
         IN  TopoSort(in, [st.degree EXCEPT ![next] = 0], st.queue, Append(out, next))

SortInTopologicalOrder(in, list) ==
    LET parents(i) == in.g.parents[list[i]]
        Children(p) == Cardinality(UNION { { <<i, j>> : j \in { j \in DOMAIN parents(i) :
                                                                 parents(i)[j] = p } } :
                                           i \in DOMAIN list })
        degree == [c \in Commits(in.g) |-> IF c \in Range(list) THEN 1 + Children(c) ELSE 0]
        tips == SelectSeq(list, LAMBDA c : degree[c] = 1)
        queue == FoldLeft(LAMBDA q, c : QueueInsert(in, q, c), <<>>, tips)
    IN  IF in.bytime THEN TopoSort(in, degree, queue, <<>>)
        ELSE IF queue = <<>> THEN Crash
        ELSE TopoSort(in, degree, Reverse(queue), <<>>)

-----------------------------------------------------------------------------
RECURSIVE PopAll(_, _)
PopAll(g, pq) == IF pq = <<>> THEN <<>> ELSE <<PQTop(pq)>> \o PopAll(g, PQPop(g, pq))

(* prepare_walk()                                                          *)
Start(in, w, c) ==
    LET p == [w EXCEPT !.parsed = @ \cup {c}]
        m == IF c \in w.uninteresting THEN MarkParentsUninteresting(in.g, p, c) ELSE p
    IN  IF c \in w.seen THEN m ELSE [m EXCEPT !.seen = @ \cup {c}, !.list = <<c>> \o @]

(* What revwalk_next_*() gives: only revwalk_next_timesort() does not skip     *)
(* a commit that became uninteresting after it was listed.                    *)
Given(in, w) ==
    LET Shown(list) == IF list = Crash THEN Crash
                       ELSE SelectSeq(list, LAMBDA c : c \notin w.uninteresting)
    IN  IF in.topo THEN Shown(SortInTopologicalOrder(in, w.newlist))
        ELSE IF in.bytime
        THEN PopAll(in.g, FoldLeft(LAMBDA q, c : PQInsert(in.g, q, c), <<>>, w.newlist))
        ELSE Shown(w.newlist)

Pushed(in) == FoldLeft(PushCommit, Fresh, in.input)

Limited(in) ==
    LimitList(in, FoldLeft(LAMBDA w, c : Start(in, w, c), Pushed(in), Pushed(in).user_input))

Walk(in) ==
    LET given == Given(in, Limited(in))
    IN  IF ~Pushed(in).did_push THEN <<>>
        ELSE IF given # Crash /\ in.reverse THEN Reverse(given) ELSE given

-----------------------------------------------------------------------------
(* Properties                                                              *)

Called(in, hide) == {in.input[i].c : i \in {j \in DOMAIN in.input : in.input[j].hide = hide}}
Wanted(in) == Reachable(in.g, Called(in, FALSE)) \ Reachable(in.g, Called(in, TRUE))

(* A walk that does not only sort by time gives exactly the commits that can   *)
(* be reached from those pushed and not from those hidden, each once, when no  *)
(* commit is older than its parent, and when there is one to give.             *)
WalkIsExact(in) ==
    LET walk == Walk(in)
    IN  (in.topo \/ ~in.bytime) /\ NotOlder(in.g) /\ Wanted(in) # {} =>
        /\ ~in.first_parent => Range(walk) = Wanted(in)
        /\ Range(walk) \subseteq Wanted(in)
        /\ Cardinality(Range(walk)) = Len(walk)

(* With GIT_SORT_TOPOLOGICAL no commit comes before a child of its, and the     *)
(* other way around with GIT_SORT_REVERSE, whatever the commit times.          *)
ParentsComeLater(in) ==
    LET walk == Walk(in)
    IN  in.topo /\ Wanted(in) # {} => \A i, j \in DOMAIN walk :
            walk[j] \in ParentSet(in.g, walk[i]) => IF in.reverse THEN j < i ELSE i < j

(* git_revwalk_next() gives the right commits, in an order it promises.        *)
WalkIsRight(in) == WalkIsExact(in) /\ ParentsComeLater(in)
=============================================================================

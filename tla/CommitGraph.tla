---------------------------- MODULE CommitGraph ----------------------------
(***************************************************************************)
(* Commits as a revision walk holds them (src/src/commit_list.c), and the   *)
(* lists and priority queues (src/src/pqueue.c) that order them by time.    *)
(*                                                                         *)
(* A history g is [parents, time]: for each commit the sequence of its       *)
(* parents, and its commit time.  Clocks differ: a commit may be older than   *)
(* its parent.                                                             *)
(***************************************************************************)
EXTENDS Integers, Sequences, SequencesExt, FiniteSets

Commits(g) == DOMAIN g.parents
ParentSet(g, c) == Range(g.parents[c])

(* Every commit of C and every ancestor of one                              *)
RECURSIVE Reachable(_, _)
Reachable(g, C) ==
    LET more == C \cup UNION {ParentSet(g, c) : c \in C}
    IN  IF more = C THEN C ELSE Reachable(g, more)

(* No commit is older than its parent, or every commit is newer               *)
NotOlder(g) == \A c \in Commits(g) : \A p \in ParentSet(g, c) : g.time[p] <= g.time[c]
Newer(g) == \A c \in Commits(g) : \A p \in ParentSet(g, c) : g.time[p] < g.time[c]

(* git_commit_list_time_cmp() > 0: a comes after b, the newest first.         *)
After(g, a, b) == g.time[a] < g.time[b]

(* git_commit_list_insert_by_date(): behind all that are not older            *)
InsertByDate(g, list, c) ==
    LET i == SelectInSeq(list, LAMBDA p : After(g, p, c))
    IN  IF i = 0 THEN Append(list, c) ELSE InsertAt(list, i, c)

-----------------------------------------------------------------------------
(* git_pqueue: a heap in a vector, that is indexed from 0 in the code         *)

Swap(pq, i, j) == [pq EXCEPT ![i] = pq[j], ![j] = pq[i]]

RECURSIVE Up(_, _, _)
Up(g, pq, el) ==
    IF el > 1 /\ After(g, pq[el \div 2], pq[el])
    THEN Up(g, Swap(pq, el, el \div 2), el \div 2) ELSE pq

RECURSIVE Down(_, _, _)
Down(g, pq, el) ==
    LET l == 2 * el
        kid == IF l + 1 <= Len(pq) /\ After(g, pq[l], pq[l + 1]) THEN l + 1 ELSE l
    IN  IF l <= Len(pq) /\ After(g, pq[el], pq[kid])
        THEN Down(g, Swap(pq, el, kid), kid) ELSE pq

PQInsert(g, pq, c) == Up(g, Append(pq, c), Len(pq) + 1)
PQTop(pq) == pq[1]
PQPop(g, pq) ==
    IF Len(pq) = 1 THEN <<>> ELSE Down(g, Front([pq EXCEPT ![1] = Last(pq)]), 1)
=============================================================================

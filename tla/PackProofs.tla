------------------------------ MODULE PackProofs ------------------------------
(***************************************************************************)
(* Proofs about PackBuilder and PackCache, the threads that write a pack   *)
(* and the threads that read one.                                          *)
(*                                                                         *)
(* The search for deltas, for every number of objects, threads and names:  *)
(* no object is searched twice, none is left out, and no thread is left    *)
(* behind.                                                                 *)
(* What a thread has left is the end of its segment, of length remaining.  *)
(* The proof is that these ends are disjoint and untouched (Apart, Fresh), *)
(* that the pointer of a thread that searches is at the beginning of its   *)
(* own (InStep) although main moves its bounds, and that every object was  *)
(* taken or is in one of them unless a search failed (Covered).            *)
(*                                                                         *)
(* The cache of delta bases, for every pack, number of threads and limit:  *)
(* reads return what was asked for, and no base in use is freed.           *)
(***************************************************************************)
EXTENDS PackBuilder, PackCache, FiniteSetTheorems, TLAPS

Lo(t) == End(t) - remaining[t]
Left(t, o) == Lo(t) <= o /\ o < End(t)

(* The segments lie in the list; while it is cut, below what is left of it.  *)
Segments ==
    /\ \A t \in Thread : /\ remaining[t] <= list_size[t]
                         /\ 1 <= list[t] /\ End(t) <= N + 1
    /\ mpc = "partition" => \A t \in Thread : /\ End(t) <= rest
                                              /\ t >= i => list_size[t] = 0

Apart == \A t, s \in Thread : \A o \in Object : Left(t, o) /\ Left(s, o) => t = s

Fresh ==
    /\ \A o \in Object : taken[o] <= 1
    /\ \A t \in Thread, o \in Object : Left(t, o) => taken[o] = 0
    /\ mpc = "partition" => \A o \in Object : taken[o] = 0

InStep == \A t \in Thread : tpc[t] = "search" => pos[t] = Lo(t)

(* The threads that have not been started                                  *)
Begun ==
    /\ mpc = "partition" => \A t \in Thread : tpc[t] = "none"
    /\ mpc \in {"start", "failed"} => \A t \in Thread : t >= i => tpc[t] = "none"
    /\ \A t \in Thread : tpc[t] = "none" =>
          /\ remaining[t] = list_size[t] /\ working[t]
          /\ mpc = "partition" \/ (mpc \in {"start", "failed"} /\ t >= i) \/ list_size[t] = 0

(* The threads that wait, and those that got a segment they have not begun  *)
Waiting ==
    /\ \A t \in Thread : ~working[t] => tpc[t] \in {"wait", "asleep"} /\ ~data_ready[t]
    /\ \A t \in Thread : data_ready[t] => tpc[t] = "wait"
    /\ \A t \in Thread : data_ready[t] \/ tpc[t] = "check" =>
          /\ remaining[t] = list_size[t]
          /\ remaining[t] = 0 => mpc = "join" /\ target = t
    /\ mpc = "hand" =>
          /\ working[target] /\ tpc[target] \in {"wait", "asleep"}
          /\ ~data_ready[target] /\ remaining[target] = list_size[target]
    /\ mpc = "join" =>
          /\ remaining[target] = 0 /\ list_size[target] = 0
          /\ data_ready[target] \/ tpc[target] \in {"check", "exited"}
    /\ \A t \in Thread : tpc[t] = "exited" => remaining[t] = 0

(* The threads that main has not joined                                    *)
Alive == {t \in Thread : tpc[t] \notin {"none", "exited"} \/ (mpc = "join" /\ t = target)}
AliveCounted == active_threads = Cardinality(Alive) /\ (mpc = "done" => active_threads = 0)

Covered ==
    /\ mpc = "partition" => \A o \in Object : o < rest => \E t \in Thread : Left(t, o)
    /\ mpc # "partition" /\ failures = 0 =>
          /\ \A o \in Object : taken[o] = 1 \/ \E t \in Thread : Left(t, o)
          /\ \A t \in Thread : tpc[t] \in {"finish", "wait", "asleep"} /\ ~data_ready[t]
                               /\ ~(mpc = "hand" /\ target = t) => remaining[t] = 0

IInv == /\ TypeOK /\ Segments /\ Apart /\ Fresh /\ InStep /\ Begun /\ Waiting
        /\ AliveCounted /\ Covered

-----------------------------------------------------------------------------
(* Lemmas                                                                  *)

(* Any set of threads is finite, and has at most NrThreads of them.          *)
LEMMA ThreadsAreFinite ==
    ASSUME BuilderAssumption, NEW A \in SUBSET Thread
    PROVE  IsFiniteSet(A) /\ Cardinality(A) \in 0 .. NrThreads
<1>1. IsFiniteSet(Thread) /\ Cardinality(Thread) = NrThreads
  BY FS_Interval, BuilderAssumption DEF BuilderAssumption, Thread
<1>2. IsFiniteSet(A) /\ Cardinality(A) \in Nat /\ Cardinality(A) <= Cardinality(Thread)
  BY <1>1, FS_Subset, FS_CardinalityType, Zenon
<1> QED
  BY <1>1, <1>2, BuilderAssumption DEF BuilderAssumption

(* A step that moves no segment and takes no object keeps what is said of   *)
(* the segments alone.                                                     *)
LEMMA Frame ==
    ASSUME Segments, Apart, Fresh, UNCHANGED <<segments, taken>>,
           mpc' = "partition" => mpc = "partition" /\ rest' = rest /\ i' = i
    PROVE  Segments' /\ Apart' /\ Fresh'
<1>1. \A t \in Thread : End(t)' = End(t) /\ Lo(t)' = Lo(t)
  BY Zenon DEF segments, End, Lo
<1>2. Segments'
  BY <1>1, Zenon DEF Segments, segments
<1>3. Apart'
  BY <1>1, Zenon DEF Apart, Left
<1>4. Fresh'
  BY <1>1, Zenon DEF Fresh, Left
<1> QED
  BY <1>2, <1>3, <1>4, Zenon

(* The same for what is said of the objects that are taken or left.         *)
LEMMA FrameCovered ==
    ASSUME Covered, UNCHANGED <<segments, taken>>, mpc # "partition", mpc' # "partition",
           failures' = 0 => failures = 0,
           \A t \in Thread : tpc'[t] \in {"finish", "wait", "asleep"} /\ ~data_ready'[t]
                             /\ ~(mpc' = "hand" /\ target' = t)
               => \/ remaining[t] = 0
                  \/ /\ tpc[t] \in {"finish", "wait", "asleep"} /\ ~data_ready[t]
                     /\ ~(mpc = "hand" /\ target = t)
                  \/ failures' # 0
    PROVE  Covered'
<1>1. \A t \in Thread, o \in Object : Left(t, o)' <=> Left(t, o)
  BY Zenon DEF segments, End, Lo, Left
<1> QED
  BY <1>1, Zenon DEF Covered, segments

-----------------------------------------------------------------------------
(* The initial states                                                      *)

(* The invariant holds when ll_find_deltas() is called.                    *)
LEMMA InitInv == ASSUME BuilderAssumption, Init PROVE IInv
<1>1. TypeOK
  BY DEF Init, TypeOK, BuilderAssumption, Thread, Object
<1>2. \A t \in Thread : End(t) = 1 /\ Lo(t) = 1
  BY DEF Init, End, Lo
<1>3. Segments /\ Apart /\ Fresh /\ InStep /\ Begun /\ Waiting
  BY <1>2 DEF Init, Segments, Apart, Fresh, InStep, Begun, Waiting, Left, BuilderAssumption,
              Thread, Object
<1>4. AliveCounted
  <2>1. Alive = {}
    BY Zenon DEF Alive, Init
  <2> QED
    BY <2>1, FS_EmptySet, Zenon DEF AliveCounted, Init
<1>5. Covered
  BY DEF Init, Covered, Object
<1> QED
  BY <1>1, <1>3, <1>4, <1>5, Zenon DEF IInv

-----------------------------------------------------------------------------
(* The main thread                                                         *)

(* Dividing the list preserves the invariant.                              *)
LEMMA PartitionInv == ASSUME BuilderAssumption, IInv, Partition PROVE IInv'
<1> USE DEF IInv
<1>1. PICK size \in 0 .. N - rest + 1 :
          /\ SubSize(size)
          /\ list_size' = [list_size EXCEPT ![i] = size]
          /\ remaining' = [remaining EXCEPT ![i] = size]
          /\ rest' = rest + size
  BY Zenon DEF Partition
<1>2. /\ mpc = "partition"
      /\ list' = [list EXCEPT ![i] = rest]
      /\ i' = IF i = NrThreads THEN 1 ELSE i + 1
      /\ mpc' = IF i = NrThreads THEN "start" ELSE mpc
      /\ UNCHANGED <<working, data_ready, tpc, pos, active_threads, target, taken, failures>>
  BY Zenon DEF Partition, flags
<1>3. i \in Thread /\ rest \in 1 .. N + 1 /\ N \in Nat /\ NrThreads \in Nat
  BY Zenon DEF TypeOK, BuilderAssumption
<1>4. i = NrThreads => size = N - rest + 1
  <2> SUFFICES ASSUME i = NrThreads PROVE size = N - rest + 1
    BY Zenon
  <2>1. (N - rest + 1) \div (NrThreads - i + 1) = N - rest + 1
    BY <1>3
  <2> QED
    BY <1>1, <1>3, <2>1 DEF SubSize
<1>5. TypeOK'
  BY <1>1, <1>2, <1>3, SMTT(30) DEF TypeOK, Thread
<1>15. PICK j \in Thread : j = i
  BY <1>3, Zenon
<1>6. \A t \in Thread : /\ End(t)' = IF t = j THEN rest + size ELSE End(t)
                        /\ Lo(t)' = IF t = j THEN rest ELSE Lo(t)
  BY <1>1, <1>2, <1>3, <1>15 DEF TypeOK, End, Lo
<1>7. \A t \in Thread : End(t) <= rest /\ End(t) \in Int /\ Lo(t) \in Int
  BY <1>2 DEF Segments, TypeOK, End, Lo
<1>8. list_size[j] = 0 /\ remaining[j] = 0
  BY <1>2, <1>3, <1>15, SMTT(30) DEF Segments, TypeOK, Thread
<1>16. Segments'
  <2>1. ASSUME NEW t \in Thread
        PROVE  remaining'[t] <= list_size'[t] /\ 1 <= list'[t]
    BY <1>1, <1>2, <1>3, <1>15 DEF Segments, TypeOK
  <2>2. ASSUME NEW t \in Thread
        PROVE  End(t)' <= N + 1 /\ End(t)' <= rest'
    BY <1>1, <1>3, <1>6, <1>7
  <2>3. ASSUME NEW t \in Thread, mpc' = "partition", t >= i' PROVE list_size'[t] = 0
    <3>1. t > i
      BY <1>2, <1>3, <2>3 DEF Thread
    <3>2. list_size[t] = 0 /\ t # i
      BY <1>2, <1>3, <3>1 DEF Segments, Thread
    <3> QED
      BY <1>1, <1>3, <3>2, Zenon DEF TypeOK
  <2> QED
    BY <2>1, <2>2, <2>3, Zenon DEF Segments
<1>9. Apart'
  <2> SUFFICES ASSUME NEW t \in Thread, NEW s \in Thread, NEW o \in Object,
                      Left(t, o)', Left(s, o)'
               PROVE  t = s
    BY Zenon DEF Apart
  <2>1. ASSUME NEW r \in Thread, r # j, Left(r, o)' PROVE Left(r, o) /\ o < rest
    BY <1>3, <1>6, <1>7, <2>1, SMTT(30) DEF Left, Object
  <2>2. Left(j, o)' => o >= rest
    BY <1>3, <1>6, Zenon DEF Left, Object
  <2> QED
    BY <1>3, <2>1, <2>2 DEF Apart, Object
<1>10. Fresh'
  BY <1>2, Zenon DEF Fresh
<1>11. InStep' /\ Begun'
  <2>1. Begun'
    BY <1>1, <1>2, <1>3, SMTT(30) DEF Begun, TypeOK, Thread
  <2>2. InStep'
    BY <1>1, <1>2, <1>3, SMTT(30) DEF InStep, Begun, TypeOK, Thread
  <2> QED
    BY <2>1, <2>2, Zenon
<1>12. Waiting'
  BY <1>1, <1>2, <1>3, Zenon DEF Waiting, Begun, TypeOK
<1>13. AliveCounted'
  <2>1. Alive' = Alive
    BY <1>2, Zenon DEF Alive, Begun
  <2> QED
    BY <1>2, <2>1, Zenon DEF AliveCounted
<1>14. Covered'
  <2>1. \A o \in Object : o < rest' => \E t \in Thread : Left(t, o)'
    <3> SUFFICES ASSUME NEW o \in Object, o < rest' PROVE \E t \in Thread : Left(t, o)'
      BY Zenon
    <3>1. CASE o < rest
      <4>1. PICK t \in Thread : Left(t, o)
        BY <1>2, <3>1, Zenon DEF Covered
      <4>2. t # j
        BY <1>7, <1>8, <4>1 DEF Left, Lo, Object
      <4> QED
        BY <1>6, <4>1, <4>2, Zenon DEF Left
    <3>2. CASE ~(o < rest)
      BY <1>1, <1>3, <1>6, <3>2 DEF Left, Object
    <3> QED
      BY <3>1, <3>2, Zenon
  <2>2. mpc' # "partition" => rest' = N + 1
    BY <1>1, <1>2, <1>3, <1>4
  <2>3. \A t \in Thread : tpc'[t] = "none"
    BY <1>2, Zenon DEF Begun
  <2> QED
    BY <1>2, <1>3, <2>1, <2>2, <2>3 DEF Covered, Object
<1> QED
  BY <1>5, <1>16, <1>9, <1>10, <1>11, <1>12, <1>13, <1>14, Zenon

(* Creating a thread preserves the invariant.                              *)
LEMMA StartThreadInv == ASSUME BuilderAssumption, IInv, StartThread PROVE IInv'
<1> USE DEF IInv
<1>1. /\ mpc = "start" /\ i \in Thread
      /\ i' = IF i = NrThreads THEN 1 ELSE i + 1
      /\ mpc' = IF i = NrThreads THEN "find" ELSE "start"
      /\ UNCHANGED <<segments, working, data_ready, pos, rest, target, taken, failures>>
  BY Zenon DEF StartThread, flags, TypeOK
<1>2. tpc[i] = "none" /\ remaining[i] = list_size[i]
  BY <1>1 DEF Begun, TypeOK, Thread
<1>3. Segments' /\ Apart' /\ Fresh'
  BY <1>1, Frame, Zenon
<1>6. i' \in Thread
  BY <1>1 DEF Thread, BuilderAssumption
<1>4. CASE list_size[i] > 0 /\ tpc' = [tpc EXCEPT ![i] = "check"]
           /\ active_threads' = active_threads + 1
  <2>1. Alive' = Alive \cup {i} /\ i \notin Alive
    BY <1>1, <1>2, <1>4, Zenon DEF Alive, TypeOK
  <2>2. Alive \in SUBSET Thread /\ Alive' \in SUBSET Thread
    BY Zenon DEF Alive
  <2>3. AliveCounted' /\ active_threads' \in 0 .. NrThreads
    BY <1>1, <1>4, <2>1, <2>2, ThreadsAreFinite, FS_AddElement DEF AliveCounted
  <2>4. TypeOK'
    BY <1>1, <1>4, <1>6, <2>3, Zenon DEF TypeOK, segments
  <2>5. InStep'
    BY <1>1, <1>4, Zenon DEF InStep, TypeOK, segments, Lo, End
  <2>7. Begun'
    BY <1>1, <1>2, <1>4, SMTT(30) DEF Begun, TypeOK, Thread, segments, BuilderAssumption
  <2>8. Waiting'
    BY <1>1, <1>2, <1>4 DEF Waiting, TypeOK, segments
  <2>6. Covered'
    BY <1>1, <1>4, FrameCovered, Zenon DEF TypeOK
  <2> QED
    BY <1>3, <2>3, <2>4, <2>5, <2>6, <2>7, <2>8, Zenon
<1>5. CASE list_size[i] = 0 /\ UNCHANGED <<tpc, active_threads>>
  <2>1. TypeOK'
    BY <1>1, <1>5, <1>6, Zenon DEF TypeOK, segments
  <2>4. Alive' = Alive
    BY <1>1, <1>5, Zenon DEF Alive
  <2>2. InStep' /\ Begun' /\ Waiting' /\ AliveCounted'
    BY <1>1, <1>2, <1>5, <2>4, SMTT(30) DEF InStep, Begun, Waiting, TypeOK, Thread, segments, Lo, End,
                                  AliveCounted, BuilderAssumption
  <2>3. Covered'
    BY <1>1, <1>5, FrameCovered, Zenon
  <2> QED
    BY <1>3, <2>1, <2>2, <2>3, Zenon
<1> QED
  BY <1>4, <1>5, Zenon DEF StartThread

(* So does failing to create one.                                          *)
LEMMA CreateFailsInv == ASSUME BuilderAssumption, IInv, CreateFails PROVE IInv'
<1> USE DEF IInv
<1>1. /\ mpc = "start" /\ mpc' = "failed" /\ failures' = failures + 1
      /\ UNCHANGED <<segments, working, data_ready, tpc, pos, i, rest, active_threads, target, taken>>
  BY Zenon DEF CreateFails, flags
<1>2. failures' \in Nat /\ failures' # 0
  BY <1>1 DEF TypeOK
<1>3. Segments' /\ Apart' /\ Fresh'
  BY <1>1, Frame, Zenon
<1>4. TypeOK'
  BY <1>1, <1>2, Zenon DEF TypeOK, segments
<1>5. InStep' /\ Begun' /\ Waiting'
  BY <1>1, Zenon DEF InStep, Begun, Waiting, segments, Lo, End
<1>6. AliveCounted'
  BY <1>1, Zenon DEF AliveCounted, Alive
<1>7. Covered'
  BY <1>1, <1>2, Zenon DEF Covered
<1> QED
  BY <1>3, <1>4, <1>5, <1>6, <1>7, Zenon

(* The steps of main that move no segment: the end, the waits, the hand-over  *)
(* and the join                                                            *)
LEMMA MainQuietInv ==
    ASSUME BuilderAssumption, IInv, AllJoined \/ WaitForThread \/ HandOver
    PROVE  IInv'
<1> USE DEF IInv
<1>1. /\ mpc \in {"find", "hand"} /\ mpc' \in {"done", "asleep", "join", "find"}
      /\ UNCHANGED <<segments, working, pos, i, rest, active_threads, target, taken, failures>>
  BY Zenon DEF AllJoined, WaitForThread, HandOver, flags
<1>2. Segments' /\ Apart' /\ Fresh'
  BY <1>1, Frame, Zenon
<1>3. CASE AllJoined \/ WaitForThread
  <2>1. /\ mpc = "find" /\ UNCHANGED <<tpc, data_ready>> /\ mpc' \in {"done", "asleep"}
        /\ mpc' = "done" => active_threads = 0
    BY <1>3, Zenon DEF AllJoined, WaitForThread, flags
  <2>2. TypeOK'
    BY <1>1, <2>1, Zenon DEF TypeOK, segments
  <2>3. InStep' /\ Begun' /\ Waiting'
    BY <1>1, <2>1, Zenon DEF InStep, Begun, Waiting, segments, Lo, End
  <2>4. AliveCounted'
    BY <1>1, <2>1, Zenon DEF AliveCounted, Alive
  <2>5. Covered'
    BY <1>1, <2>1, FrameCovered, Zenon
  <2> QED
    BY <1>2, <2>2, <2>3, <2>4, <2>5, Zenon
<1>4. CASE HandOver
  <2>1. /\ mpc = "hand" /\ target \in Thread
        /\ data_ready' = [data_ready EXCEPT ![target] = TRUE]
        /\ tpc' = [tpc EXCEPT ![target] = "wait"]
        /\ mpc' = IF remaining[target] = 0 THEN "join" ELSE "find"
    BY <1>4, Zenon DEF HandOver, Ready, Waiting, TypeOK
  <2>2. TypeOK'
    BY <1>1, <2>1, Zenon DEF TypeOK, segments
  <2>3. tpc[target] \in {"wait", "asleep"} /\ remaining[target] = list_size[target]
        /\ working[target]
    BY <2>1, Zenon DEF Waiting
  <2>4. InStep' /\ Begun'
    BY <1>1, <2>1, <2>3, Zenon DEF InStep, Begun, TypeOK, segments, Lo, End
  <2>5. Waiting'
    BY <1>1, <2>1, <2>3 DEF Waiting, TypeOK, segments
  <2>6. Alive' = Alive
    BY <1>1, <2>1, <2>3, Zenon DEF Alive, TypeOK
  <2>7. AliveCounted'
    BY <1>1, <2>1, <2>6, Zenon DEF AliveCounted
  <2>8. Covered'
    BY <1>1, <2>1, FrameCovered, Zenon DEF TypeOK
  <2> QED
    BY <1>2, <2>2, <2>4, <2>5, <2>7, <2>8, Zenon
<1> QED
  BY <1>3, <1>4, Zenon

(* Joining a thread that got nothing preserves the invariant.              *)
LEMMA JoinInv == ASSUME BuilderAssumption, IInv, Join PROVE IInv'
<1> USE DEF IInv
<1>1. /\ mpc = "join" /\ tpc[target] = "exited" /\ target \in Thread
      /\ active_threads' = active_threads - 1
      /\ mpc' = "find"
      /\ UNCHANGED <<segments, working, data_ready, tpc, pos, i, rest, target, taken, failures>>
  BY Zenon DEF Join, flags, TypeOK
<1>2. Segments' /\ Apart' /\ Fresh'
  BY <1>1, Frame, Zenon
<1>3. Alive' = Alive \ {target} /\ target \in Alive
  BY <1>1, Zenon DEF Alive
<1>4. Alive \in SUBSET Thread /\ Alive' \in SUBSET Thread
  BY Zenon DEF Alive
<1>5. AliveCounted' /\ active_threads' \in 0 .. NrThreads
  BY <1>1, <1>3, <1>4, ThreadsAreFinite, FS_RemoveElement DEF AliveCounted
<1>6. TypeOK'
  BY <1>1, <1>5, Zenon DEF TypeOK, segments
<1>7. InStep' /\ Begun' /\ Waiting'
  BY <1>1, Zenon DEF InStep, Begun, Waiting, segments, Lo, End
<1>8. Covered'
  BY <1>1, FrameCovered, Zenon
<1> QED
  BY <1>2, <1>5, <1>6, <1>7, <1>8, Zenon

(* Taking half of the largest rest for an idle thread preserves the        *)
(* invariant.                                                              *)
LEMMA FindWorkInv == ASSUME BuilderAssumption, IInv, FindWork PROVE IInv'
<1> USE DEF IInv
<1>1. /\ mpc = "find" /\ mpc' = "hand"
      /\ UNCHANGED <<data_ready, tpc, pos, i, rest, active_threads, taken, failures>>
  BY Zenon DEF FindWork
<1>2. PICK t \in Thread :
        /\ FirstIdle(t)
        /\ \/ \E v \in Thread : /\ Victim(v)
                               /\ \E s \in 1 .. remaining[v] \div 2 :
                                     StolenSize(v, s) /\ Steal(t, v, s)
           \/ NoWork(t)
        /\ working' = [working EXCEPT ![t] = TRUE]
        /\ target' = t
  BY Zenon DEF FindWork
<1>3. ~working[t] /\ tpc[t] \in {"wait", "asleep"} /\ ~data_ready[t]
  BY <1>2, Zenon DEF FirstIdle, Waiting
<1>4. AliveCounted'
  BY <1>1, Zenon DEF AliveCounted, Alive
<1>5. failures = 0 => remaining[t] = 0
  BY <1>1, <1>3, Zenon DEF Covered
<1>6. \A r \in Thread : /\ list[r] \in Nat /\ list_size[r] \in Nat /\ remaining[r] \in Nat
                        /\ remaining[r] <= list_size[r] /\ 1 <= list[r] /\ End(r) <= N + 1
                        /\ End(r) \in Int /\ Lo(r) \in Int
  BY DEF Segments, TypeOK, End, Lo
<1>7. ASSUME NEW v \in Thread, Victim(v), NEW s \in 1 .. remaining[v] \div 2, Steal(t, v, s)
      PROVE  IInv'
  <2>1. remaining[v] > 2 /\ s \in Nat /\ 1 <= s /\ s < remaining[v]
    BY <1>6, <1>7 DEF Victim, BuilderAssumption
  <2>2. /\ list' = [list EXCEPT ![t] = End(v) - s]
        /\ list_size' = [list_size EXCEPT ![v] = @ - s, ![t] = s]
        /\ remaining' = [remaining EXCEPT ![v] = @ - s, ![t] = s]
    BY <1>7, Zenon DEF Steal
  <2>3. /\ list'[t] = End(v) - s /\ list_size'[t] = s /\ remaining'[t] = s
        /\ v # t => /\ list'[v] = list[v] /\ list_size'[v] = list_size[v] - s
                    /\ remaining'[v] = remaining[v] - s
        /\ \A r \in Thread \ {t, v} : /\ list'[r] = list[r] /\ list_size'[r] = list_size[r]
                                      /\ remaining'[r] = remaining[r]
    BY <2>2, Zenon DEF TypeOK
  <2>4. TypeOK'
    <3>1. End(v) - s \in Nat /\ list_size[v] - s \in Nat /\ remaining[v] - s \in Nat
      BY <1>6, <2>1 DEF End
    <3>2. list' \in [Thread -> Nat] /\ list_size' \in [Thread -> Nat]
          /\ remaining' \in [Thread -> Nat]
      BY <2>1, <2>2, <3>1, Zenon DEF TypeOK
    <3> QED
      BY <1>1, <1>2, <3>2, Zenon DEF TypeOK
  <2>5. /\ End(t)' = End(v) /\ Lo(t)' = End(v) - s
        /\ v # t => End(v)' = End(v) - s /\ Lo(v)' = Lo(v)
        /\ \A r \in Thread \ {t, v} : End(r)' = End(r) /\ Lo(r)' = Lo(r)
    BY <1>6, <2>1, <2>3, SMTT(30) DEF End, Lo
  <2>6. Segments'
    <3> SUFFICES ASSUME NEW r \in Thread
                 PROVE  /\ remaining'[r] <= list_size'[r] /\ 1 <= list'[r]
                        /\ End(r)' <= N + 1
      BY <1>1, Zenon DEF Segments
    <3>1. 1 <= End(v) - s /\ End(v) - s <= N + 1
      BY <1>6, <2>1 DEF End
    <3>2. N \in Nat
      BY Zenon DEF BuilderAssumption
    <3> QED
      BY <1>6, <2>1, <2>3, <2>5, <3>1, <3>2
  <2>7. ASSUME NEW r \in Thread, NEW o \in Object, Left(r, o)'
        PROVE  IF r = t THEN Left(v, o) /\ o >= End(v) - s
               ELSE Left(r, o) /\ (r = v => o < End(v) - s)
    <3>1. o \in Int
      BY DEF Object
    <3>2. Lo(v) <= End(v) - s
      BY <1>6, <2>1 DEF Lo
    <3> QED
      BY <1>6, <2>1, <2>5, <2>7, <3>1, <3>2 DEF Left
  <2>8. Apart'
    <3> SUFFICES ASSUME NEW r \in Thread, NEW q \in Thread, NEW o \in Object,
                        Left(r, o)', Left(q, o)'
                 PROVE  r = q
      BY Zenon DEF Apart
    <3>1. o \in Int /\ End(v) - s \in Int
      BY <1>6, <2>1, SMTT(30) DEF Object
    <3> QED
      BY <2>7, <3>1 DEF Apart
  <2>9. Fresh'
    BY <1>1, <2>7, Zenon DEF Fresh
  <2>10. InStep'
    BY <1>1, <1>3, <2>5, Zenon DEF InStep
  <2>11. Begun'
    <3>1. \A r \in Thread : tpc[r] = "none" => r # t /\ r # v
      BY <1>1, <1>3, <1>6, <2>1, SMTT(30) DEF Begun
    <3> QED
      BY <1>1, <1>2, <2>3, <3>1, SMTT(30) DEF Begun, TypeOK
  <2>12. Waiting'
    <3>1. \A r \in Thread : data_ready[r] \/ tpc[r] = "check" =>
             r # t /\ remaining[r] = list_size[r] /\ remaining[r] # 0
      BY <1>1, <1>3, Zenon DEF Waiting
    <3>2. \A r \in Thread : data_ready'[r] \/ tpc'[r] = "check" =>
             remaining'[r] = list_size'[r] /\ remaining'[r] # 0
      BY <1>1, <1>6, <2>1, <2>3, <3>1, SMTT(30)
    <3>3. \A r \in Thread : tpc'[r] = "exited" => remaining'[r] = 0
      BY <1>1, <1>3, <2>1, <2>3 DEF Waiting
    <3>4. \A r \in Thread : ~working'[r] => tpc'[r] \in {"wait", "asleep"} /\ ~data_ready'[r]
      BY <1>1, <1>2, SMTT(30) DEF Waiting, TypeOK
    <3>5. working'[t] /\ remaining'[t] = list_size'[t]
      BY <1>2, <2>3, SMTT(30) DEF TypeOK
    <3> QED
      BY <1>1, <1>2, <1>3, <3>2, <3>3, <3>4, <3>5 DEF Waiting
  <2>13. Covered'
    <3> SUFFICES ASSUME failures = 0
                 PROVE  /\ \A o \in Object : taken[o] = 1 \/ \E r \in Thread : Left(r, o)'
                        /\ \A r \in Thread : tpc[r] \in {"finish", "wait", "asleep"}
                              /\ ~data_ready[r] /\ r # t => remaining'[r] = 0
      BY <1>1, <1>2, Zenon DEF Covered
    <3>1. v # t
      BY <1>5, <2>1, SMTT(30)
    <3>2. ASSUME NEW r \in Thread, tpc[r] \in {"finish", "wait", "asleep"}, ~data_ready[r], r # t
          PROVE  remaining'[r] = 0
      <4>1. remaining[r] = 0
        BY <1>1, <3>2, SMTT(30) DEF Covered
      <4> QED
        BY <2>1, <2>3, <3>2, <4>1, SMTT(30)
    <3>3. ASSUME NEW o \in Object, NEW r \in Thread, Left(r, o)
          PROVE  \E q \in Thread : Left(q, o)'
      <4>1. o \in Int
        BY DEF Object
      <4>2. r # t
        BY <1>5, <1>6, <3>3, <4>1 DEF Left, Lo
      <4>3. CASE r = v
        BY <1>6, <2>1, <2>5, <3>1, <3>3, <4>1, <4>3 DEF Left
      <4>4. CASE r # v
        BY <2>5, <3>3, <4>2, <4>4, Zenon DEF Left
      <4> QED
        BY <4>3, <4>4, Zenon
    <3>4. \A o \in Object : taken[o] = 1 \/ \E r \in Thread : Left(r, o)
      BY <1>1, Zenon DEF Covered
    <3>5. \A o \in Object : taken[o] = 1 \/ \E r \in Thread : Left(r, o)'
      BY <3>3, <3>4, Zenon
    <3> QED
      BY <3>2, <3>5, Zenon
  <2> QED
    BY <1>4, <2>4, <2>6, <2>8, <2>9, <2>10, <2>11, <2>12, <2>13, Zenon
<1>8. ASSUME NoWork(t)
      PROVE  IInv'
  <2>1. /\ list' = list
        /\ list_size' = [list_size EXCEPT ![t] = 0]
        /\ remaining' = [remaining EXCEPT ![t] = 0]
    BY <1>8, Zenon DEF NoWork
  <2>2. TypeOK'
    BY <1>1, <1>2, <2>1, Zenon DEF TypeOK
  <2>3. /\ Lo(t)' = End(t)' /\ End(t)' = list[t]
        /\ \A r \in Thread \ {t} : End(r)' = End(r) /\ Lo(r)' = Lo(r)
    BY <1>6, <2>1 DEF End, Lo, TypeOK
  <2>4. Segments'
    BY <1>1, <1>6, <2>1, <2>3 DEF Segments, TypeOK, End
  <2>5. \A r \in Thread, o \in Object : Left(r, o)' => Left(r, o)
    BY <1>6, <2>3 DEF Left, Object
  <2>6. Apart' /\ Fresh'
    BY <1>1, <2>5, Zenon DEF Apart, Fresh
  <2>7. InStep'
    BY <1>1, <1>3, <2>3, Zenon DEF InStep
  <2>8. Begun'
    BY <1>1, <1>2, <1>3, <2>1, SMTT(30) DEF Begun, TypeOK
  <2>9. Waiting'
    BY <1>1, <1>2, <1>3, <2>1 DEF Waiting, TypeOK
  <2>10. Covered'
    <3>1. failures = 0 => Lo(t) = End(t)
      BY <1>5, <1>6 DEF Lo
    <3>2. failures = 0 => \A r \in Thread, o \in Object : Left(r, o) => Left(r, o)'
      BY <1>6, <2>3, <3>1, SMTT(30) DEF Left, Object
    <3> QED
      BY <1>1, <1>2, <2>1, <3>2, Zenon DEF Covered, TypeOK
  <2> QED
    BY <1>4, <2>2, <2>4, <2>6, <2>7, <2>8, <2>9, <2>10
<1> QED
  BY <1>2, <1>7, <1>8, Zenon

-----------------------------------------------------------------------------
(* The threads                                                             *)

(* Where main is when a thread runs, and which thread it is not dealing with *)
LEMMA Running ==
    ASSUME IInv, NEW t \in Thread, tpc[t] # "none"
    PROVE  /\ mpc # "partition"
           /\ mpc \in {"start", "failed"} => t < i
           /\ tpc[t] \in {"search", "finish"} =>
                working[t] /\ ~data_ready[t] /\ (mpc \in {"hand", "join"} => target # t)
<1>1. mpc # "partition" /\ (mpc \in {"start", "failed"} => ~(t >= i))
  BY Zenon DEF IInv, Begun
<1>2. mpc \in {"start", "failed"} => t < i
  BY <1>1 DEF IInv, TypeOK, Thread
<1> QED
  BY <1>1, <1>2, Zenon DEF IInv, Waiting, TypeOK

(* A look of a thread at its remaining objects preserves the invariant.    *)
LEMMA CheckInv ==
    ASSUME BuilderAssumption, IInv, NEW t \in Thread, Check(t) PROVE IInv'
<1> USE DEF IInv
<1>1. /\ tpc[t] = "check"
      /\ tpc' = [tpc EXCEPT ![t] = IF remaining[t] > 0 THEN "search" ELSE "exited"]
      /\ pos' = [pos EXCEPT ![t] = list[t]]
      /\ UNCHANGED <<segments, working, data_ready, mpc, i, rest, active_threads, target, taken,
                     failures>>
  BY Zenon DEF Check, flags, main
<1>2. Segments' /\ Apart' /\ Fresh'
  BY <1>1, Frame, Zenon
<1>3. TypeOK'
  BY <1>1, Zenon DEF TypeOK, segments
<1>4. remaining[t] = list_size[t] /\ remaining[t] \in Nat /\ list[t] \in Nat /\ ~data_ready[t]
  BY <1>1, Zenon DEF Waiting, TypeOK
<1>5. InStep'
  <2>1. list[t] = Lo(t)
    BY <1>4 DEF Lo, End
  <2>2. \A r \in Thread : Lo(r)' = Lo(r)
    BY <1>1, Zenon DEF segments, Lo, End
  <2> QED
    BY <1>1, <2>1, <2>2, Zenon DEF InStep, TypeOK
<1>6. Begun'
  BY <1>1, Zenon DEF Begun, TypeOK, segments
<1>7. ~(remaining[t] > 0) => remaining[t] = 0 /\ mpc = "join" /\ target = t
  BY <1>1, <1>4, SMTT(30) DEF Waiting
<1>8. Waiting'
  BY <1>1, <1>4, <1>7 DEF Waiting, TypeOK, segments
<1>9. AliveCounted'
  <2>1. Alive' = Alive
    BY <1>1, <1>7, Zenon DEF Alive, TypeOK
  <2> QED
    BY <1>1, <2>1, Zenon DEF AliveCounted
<1>10. Covered'
  <2>1. mpc # "partition"
    BY <1>1, Running, Zenon
  <2> QED
    BY <1>1, <2>1, FrameCovered, Zenon DEF TypeOK
<1> QED
  BY <1>2, <1>3, <1>5, <1>6, <1>8, <1>9, <1>10, Zenon

(* Taking the next object preserves the invariant.                         *)
LEMMA TakeObjectInv ==
    ASSUME BuilderAssumption, IInv, NEW t \in Thread, TakeObject(t) PROVE IInv'
<1> USE DEF IInv
<1>1. /\ tpc[t] = "search" /\ remaining[t] # 0
      /\ taken' = [taken EXCEPT ![pos[t]] = @ + 1]
      /\ pos' = [pos EXCEPT ![t] = @ + 1]
      /\ remaining' = [remaining EXCEPT ![t] = @ - 1]
      /\ UNCHANGED <<list, list_size, working, data_ready, tpc, mpc, i, rest, active_threads,
                     target, failures>>
  BY Zenon DEF TakeObject, ListEmpty, flags, main
<1>2. \A r \in Thread : /\ list[r] \in Nat /\ list_size[r] \in Nat /\ remaining[r] \in Nat
                        /\ remaining[r] <= list_size[r] /\ 1 <= list[r] /\ End(r) <= N + 1
                        /\ End(r) \in Int /\ Lo(r) \in Int
  BY DEF Segments, TypeOK, End, Lo
<1>3. mpc # "partition" /\ working[t] /\ ~data_ready[t] /\ (mpc \in {"hand", "join"} => target # t)
  BY <1>1, Running, Zenon
<1>4. pos[t] = Lo(t) /\ pos[t] \in Object /\ Left(t, pos[t])
  <2>1. pos[t] = Lo(t)
    BY <1>1, Zenon DEF InStep
  <2>2. 1 <= Lo(t) /\ Lo(t) <= N /\ Lo(t) < End(t)
    BY <1>1, <1>2 DEF Lo, End, BuilderAssumption
  <2> QED
    BY <1>2, <2>1, <2>2 DEF Object, Left, BuilderAssumption
<1>5. TypeOK'
  BY <1>1, <1>2, <1>4, SMTT(30) DEF TypeOK
<1>6. /\ \A r \in Thread : End(r)' = End(r)
      /\ Lo(t)' = Lo(t) + 1
      /\ \A r \in Thread \ {t} : Lo(r)' = Lo(r)
  BY <1>1, <1>2, SMTT(30) DEF End, Lo, TypeOK
<1>7. Segments'
  BY <1>1, <1>2, <1>3, <1>6 DEF Segments, TypeOK
<1>8. ASSUME NEW r \in Thread, NEW o \in Object
      PROVE  Left(r, o)' <=> Left(r, o) /\ o # pos[t]
  <2>1. o \in Int
    BY DEF Object
  <2>2. CASE r = t
    <3>1. Left(t, o)' <=> Lo(t) + 1 <= o /\ o < End(t)
      BY <1>6, Zenon DEF Left
    <3>2. Left(t, o) /\ o # Lo(t) <=> Lo(t) + 1 <= o /\ o < End(t)
      BY <1>2, <2>1 DEF Left
    <3> QED
      BY <1>4, <2>2, <3>1, <3>2, Zenon
  <2>3. CASE r # t
    <3>1. Left(r, o)' <=> Left(r, o)
      BY <1>6, <2>3, Zenon DEF Left
    <3>2. Left(r, o) => o # pos[t]
      BY <1>4, <2>3, Zenon DEF Apart
    <3> QED
      BY <3>1, <3>2, Zenon
  <2> QED
    BY <2>2, <2>3, Zenon
<1>9. Apart'
  BY <1>8, Zenon DEF Apart
<1>10. Fresh'
  <2>1. taken[pos[t]] = 0
    BY <1>4, Zenon DEF Fresh
  <2> QED
    BY <1>1, <1>3, <1>4, <1>8, <2>1 DEF Fresh, TypeOK
<1>11. InStep'
  BY <1>1, <1>4, <1>6, ZenonT(40) DEF InStep, TypeOK
<1>12. Begun' /\ Waiting'
  BY <1>1, <1>3 DEF Begun, Waiting, TypeOK
<1>13. AliveCounted'
  BY <1>1, Zenon DEF AliveCounted, Alive
<1>14. Covered'
  <2>1. taken'[pos[t]] = 1
    BY <1>1, <1>4 DEF Fresh, TypeOK
  <2>2. \A o \in Object : o # pos[t] => taken'[o] = taken[o]
    BY <1>1, <1>4, Zenon DEF TypeOK
  <2> QED
    BY <1>1, <1>3, <1>8, <2>1, <2>2, Zenon DEF Covered, TypeOK
<1> QED
  BY <1>5, <1>7, <1>9, <1>10, <1>11, <1>12, <1>13, <1>14, Zenon

(* find_deltas() returns, with or without an error.                         *)
LEMMA SearchEndsInv ==
    ASSUME BuilderAssumption, IInv, NEW t \in Thread, SearchReturns(t) \/ SearchFails(t)
    PROVE  IInv'
<1> USE DEF IInv
<1>1. /\ tpc[t] = "search"
      /\ tpc' = [tpc EXCEPT ![t] = "finish"]
      /\ failures' \in Nat /\ (failures' = 0 => failures = 0 /\ remaining[t] = 0)
      /\ UNCHANGED <<segments, working, data_ready, pos, mpc, i, rest, active_threads, target,
                     taken>>
  BY DEF SearchReturns, SearchFails, ListEmpty, flags, main, TypeOK
<1>2. Segments' /\ Apart' /\ Fresh'
  BY <1>1, Frame, Zenon
<1>3. TypeOK'
  BY <1>1, Zenon DEF TypeOK, segments
<1>4. mpc # "partition" /\ working[t] /\ ~data_ready[t] /\ (mpc \in {"hand", "join"} => target # t)
  BY <1>1, Running, ZenonT(40)
<1>5. InStep' /\ Begun' /\ Waiting'
  BY <1>1, <1>4 DEF InStep, Begun, Waiting, TypeOK, segments, Lo, End
<1>6. AliveCounted'
  <2>1. Alive' = Alive
    BY <1>1, Zenon DEF Alive, TypeOK
  <2> QED
    BY <1>1, <2>1, Zenon DEF AliveCounted
<1>7. Covered'
  BY <1>1, <1>4, FrameCovered, Zenon DEF TypeOK
<1> QED
  BY <1>2, <1>3, <1>5, <1>6, <1>7, Zenon

(* Finishing a segment preserves the invariant.                            *)
LEMMA FinishInv ==
    ASSUME BuilderAssumption, IInv, NEW t \in Thread, Finish(t) PROVE IInv'
<1> USE DEF IInv
<1>1. /\ tpc[t] = "finish"
      /\ tpc' = [tpc EXCEPT ![t] = "wait"]
      /\ working' = [working EXCEPT ![t] = FALSE]
      /\ mpc' = IF mpc = "asleep" THEN "find" ELSE mpc
      /\ UNCHANGED <<segments, data_ready, pos, i, rest, active_threads, target, taken, failures>>
  BY Zenon DEF Finish, Signal
<1>2. Segments' /\ Apart' /\ Fresh'
  BY <1>1, Frame, Zenon
<1>3. TypeOK'
  BY <1>1, Zenon DEF TypeOK, segments
<1>4. mpc # "partition" /\ working[t] /\ ~data_ready[t] /\ (mpc \in {"hand", "join"} => target # t)
  BY <1>1, Running, Zenon
<1>5. InStep' /\ Begun'
  BY <1>1, <1>4, SMTT(30) DEF InStep, Begun, TypeOK, segments, Lo, End
<1>6. Waiting'
  BY <1>1, <1>4 DEF Waiting, TypeOK, segments
<1>7. AliveCounted'
  <2>1. Alive' = Alive
    BY <1>1, Zenon DEF Alive, TypeOK
  <2> QED
    BY <1>1, <2>1, Zenon DEF AliveCounted
<1>8. Covered'
  BY <1>1, <1>4, FrameCovered, Zenon DEF TypeOK
<1> QED
  BY <1>2, <1>3, <1>5, <1>6, <1>7, <1>8, Zenon

(* Waiting for work and being woken preserves the invariant.               *)
LEMMA WaitForWorkInv ==
    ASSUME BuilderAssumption, IInv, NEW t \in Thread, WaitForWork(t) PROVE IInv'
<1> USE DEF IInv
<1>1. /\ tpc[t] = "wait"
      /\ tpc' = [tpc EXCEPT ![t] = IF data_ready[t] THEN "check" ELSE "asleep"]
      /\ data_ready' = [data_ready EXCEPT ![t] = FALSE]
      /\ UNCHANGED <<segments, working, pos, mpc, i, rest, active_threads, target, taken,
                     failures>>
  BY Zenon DEF WaitForWork, main
<1>2. Segments' /\ Apart' /\ Fresh'
  BY <1>1, Frame, Zenon
<1>3. TypeOK'
  BY <1>1, Zenon DEF TypeOK, segments
<1>4. mpc # "partition"
  BY <1>1, Running, ZenonT(40)
<1>5. InStep' /\ Begun'
  BY <1>1, <1>4, SMTT(30) DEF InStep, Begun, TypeOK, segments, Lo, End
<1>6. Waiting'
  BY <1>1, <1>4 DEF Waiting, TypeOK, segments
<1>7. AliveCounted'
  <2>1. Alive' = Alive
    BY <1>1, Zenon DEF Alive, TypeOK
  <2> QED
    BY <1>1, <2>1, Zenon DEF AliveCounted
<1>8. Covered'
  BY <1>1, <1>4, FrameCovered, Zenon DEF TypeOK
<1> QED
  BY <1>2, <1>3, <1>5, <1>6, <1>7, <1>8, Zenon

-----------------------------------------------------------------------------
(* The theorems                                                            *)

(* The invariant is inductive.                                             *)
LEMMA NextInv == ASSUME BuilderAssumption, IInv, [Next]_vars PROVE IInv'
<1>1. CASE MainStep
  BY <1>1, PartitionInv, StartThreadInv, CreateFailsInv, MainQuietInv, JoinInv, FindWorkInv,
     Zenon DEF MainStep
<1>2. ASSUME NEW t \in Thread, ThreadStep(t) PROVE IInv'
  BY <1>2, CheckInv, TakeObjectInv, SearchEndsInv, FinishInv, WaitForWorkInv, Zenon
  DEF ThreadStep
<1>3. CASE UNCHANGED vars
  <2>1. /\ UNCHANGED <<list, list_size, remaining, working, data_ready, tpc, pos>>
        /\ UNCHANGED <<mpc, i, rest, active_threads, target, taken, failures>>
    BY <1>3, Zenon DEF vars, segments, flags, main
  <2>2. Segments' /\ Apart' /\ Fresh'
    BY <2>1, Frame, ZenonT(40) DEF IInv, segments
  <2>3. TypeOK' /\ InStep' /\ Begun' /\ Waiting'
    BY <2>1 DEF IInv, TypeOK, InStep, Begun, Waiting, Lo, End
  <2>4. AliveCounted' /\ Covered'
    BY <2>1, Zenon DEF IInv, AliveCounted, Alive, Covered, Left, Lo, End
  <2> QED
    BY <2>2, <2>3, <2>4, Zenon DEF IInv
<1> QED
  BY <1>1, <1>2, <1>3, Zenon DEF Next, Done

(* The inductive invariant holds in every reachable state of the search.     *)
THEOREM InductiveInvariant == Spec => []IInv
<1>1. Init => IInv
  BY InitInv, BuilderAssumption, Zenon
<1>2. IInv /\ [Next]_vars => IInv'
  BY NextInv, BuilderAssumption, Zenon
<1> QED
  BY <1>1, <1>2, PTL DEF Spec

(* Every variable keeps its type: in particular remaining never wraps around, *)
(* and active_threads never exceeds the number of threads.                   *)
THEOREM TypeCorrect == Spec => []TypeOK
<1>1. IInv => TypeOK
  BY Zenon DEF IInv
<1> QED
  BY <1>1, InductiveInvariant, PTL

(* However ll_find_deltas() cuts and steals, no object is searched by two     *)
(* threads, for any number of objects, threads and names.                    *)
THEOREM NoObjectSearchedTwice == Spec => []SearchedOnce
<1>1. IInv => SearchedOnce
  BY Zenon DEF IInv, Fresh, SearchedOnce
<1> QED
  BY <1>1, InductiveInvariant, PTL

(* When ll_find_deltas() returns success, every thread it started has exited,  *)
(* so nobody uses what it and its caller free.                                *)
THEOREM EveryThreadJoined == Spec => []NoThreadLeft
<1>1. IInv => NoThreadLeft
  <2> SUFFICES ASSUME IInv, mpc = "done" PROVE \A t \in Thread : tpc[t] \in {"none", "exited"}
    BY Zenon DEF NoThreadLeft
  <2>1. Alive \in SUBSET Thread /\ Cardinality(Alive) = 0
    BY Zenon DEF IInv, AliveCounted, Alive
  <2>2. Alive = {}
    BY <2>1, ThreadsAreFinite, FS_EmptySet, BuilderAssumption, Zenon
  <2> QED
    BY <2>2, Zenon DEF Alive
<1> QED
  BY <1>1, InductiveInvariant, PTL

(* When ll_find_deltas() returns success and no search failed, every object   *)
(* of the list was searched.                                                  *)
THEOREM NoObjectLeftOut == Spec => []AllSearched
<1>1. IInv => AllSearched
  <2> SUFFICES ASSUME IInv, mpc = "done", failures = 0, NEW o \in Object PROVE taken[o] = 1
    BY Zenon DEF AllSearched
  <2>1. Alive \in SUBSET Thread /\ Cardinality(Alive) = 0
    BY Zenon DEF IInv, AliveCounted, Alive
  <2>2. Alive = {}
    BY <2>1, ThreadsAreFinite, FS_EmptySet, BuilderAssumption, Zenon
  <2>3. ASSUME NEW t \in Thread PROVE ~Left(t, o)
    <3>1. remaining[t] = 0
      BY <2>2 DEF Alive, IInv, Begun, Waiting
    <3>2. End(t) \in Int /\ o \in Int
      BY SMTT(30) DEF IInv, TypeOK, End, Object
    <3> QED
      BY <3>1, <3>2 DEF Left, Lo
  <2> QED
    BY <2>3, Zenon DEF IInv, Covered
<1> QED
  BY <1>1, InductiveInvariant, PTL

(* The threaded search of ll_find_deltas() is exact, for any number of objects *)
(* and threads: each object once, and when it returns success none left out   *)
(* and nobody left running.                                                   *)
THEOREM SearchIsCorrect == Spec => []SearchIsExact
<1>1. SearchedOnce /\ AllSearched /\ NoThreadLeft => SearchIsExact
  BY Zenon DEF SearchIsExact
<1> QED
  BY <1>1, NoObjectSearchedTwice, NoObjectLeftOut, EveryThreadJoined, PTL

------------------------------------------------------------------------------
(* The cache of delta bases.  A thread that unpacks has a chain of deltas, and  *)
(* the object it holds is what the last element of the chain is applied to.    *)

Maybe == Offset \cup {None}

Local == [pc : {"idle", "chain", "base", "add", "apply", "done", "failed"},
          want : Maybe, obj_offset : Maybe, stack : Seq(Offset), obj : Maybe,
          elem : Maybe, cached : Maybe, free_base : BOOLEAN]

(* Every element of the chain is the base of the one before it.            *)
Linked(s) == \A n \in 1 .. Len(s) - 1 : Base[s[n]] = s[n + 1]

(* What the next element of the chain is applied to: the object asked for   *)
(* when there is no element.                                               *)
NextOf(r) == IF r.stack = <<>> THEN r.want ELSE Base[Top(r.stack)]

(* A thread with the local variables r is on its way from the object asked  *)
(* for down to a base, or back up with the right buffer.                   *)
OnChain(r) ==
    /\ r.pc # "idle" => r.want \in Offset
    /\ Linked(r.stack) /\ (r.stack # <<>> => r.stack[1] = r.want)
    /\ r.pc = "chain" => r.obj_offset = NextOf(r) /\ r.obj_offset \in Offset
    /\ r.pc = "base" => IF r.cached # None THEN r.cached = NextOf(r) ELSE r.stack # <<>>
    /\ r.pc = "add" => r.stack # <<>> /\ r.obj = NextOf(r) /\ r.elem = r.obj /\ r.elem \in Offset
    /\ r.pc = "apply" => r.stack # <<>> /\ r.obj = NextOf(r) /\ r.obj \in Offset
                         /\ (r.cached # None => r.cached = r.obj)
    /\ r.pc = "done" => r.obj = r.want
    /\ r.pc \notin {"base", "apply"} => r.cached = None

Types == u \in [Unpacker -> Local] /\ entries \in [Offset -> Entry \cup {None}]

Chains == \A t \in Unpacker : OnChain(u[t])

(* A base in the cache is under its own offset and small enough.           *)
Filed == \A o \in Known : entries[o].raw = o /\ Size[o] <= SizeLimit

(* Whoever keeps cache->lock is making room for a base that is not there.  *)
LockHeld ==
    lock # None => /\ lock \in Unpacker /\ u[lock].pc = "add"
                   /\ entries[u[lock].elem] = None /\ Size[u[lock].elem] <= SizeLimit

CacheInv ==
    /\ Types /\ Chains /\ Filed /\ LockHeld /\ freed = {}
    /\ EntriesInUseStay /\ MemoryIsBounded

-----------------------------------------------------------------------------
(* Chains                                                                  *)

(* Taking the last element off a chain                                     *)
LEMMA ChainPop ==
    ASSUME NEW s \in Seq(Offset), s # <<>>
    PROVE  /\ Top(s) \in Offset /\ Top(s) = s[Len(s)]
           /\ Below(s) \in Seq(Offset) /\ Len(Below(s)) = Len(s) - 1
           /\ \A n \in 1 .. Len(s) - 1 : Below(s)[n] = s[n]
           /\ Below(s) = <<>> <=> Len(s) = 1
           /\ s[1] \in Offset /\ (Len(s) = 1 => Top(s) = s[1])
           /\ Below(s) # <<>> => Below(s)[1] = s[1]
           /\ Linked(s) => Linked(Below(s))
           /\ Linked(s) /\ Below(s) # <<>> => Base[Top(Below(s))] = Top(s)
<1>1. Len(s) \in Nat /\ Len(s) # 0
  OBVIOUS
<1>2. Top(s) \in Offset /\ Top(s) = s[Len(s)] /\ s[1] \in Offset
  BY <1>1 DEF Top
<1>3. /\ Below(s) \in Seq(Offset) /\ Len(Below(s)) = Len(s) - 1
      /\ \A n \in 1 .. Len(s) - 1 : Below(s)[n] = s[n]
  <2>1. PICK k \in Nat : k = Len(s) - 1
    BY <1>1
  <2>2. SubSeq(s, 1, k) \in Seq(Offset)
    BY <1>1, <2>1
  <2>3. SubSeq(s, 1, k) = [n \in 1 .. k |-> s[n]]
    BY <1>1, <2>1
  <2> QED
    BY <2>1, <2>2, <2>3 DEF Below
<1>4. Below(s) = <<>> <=> Len(s) = 1
  BY <1>1, <1>3
<1>5. Linked(s) => Linked(Below(s))
  BY <1>1, <1>3 DEF Linked
<1>6. ASSUME Linked(s), Below(s) # <<>>
      PROVE  Base[Top(Below(s))] = Top(s)
  <2>1. PICK k \in Nat : Len(s) = k + 1
    BY <1>1
  <2>2. k \in 1 .. Len(s) - 1
    BY <1>4, <1>6, <2>1
  <2>3. Top(Below(s)) = s[k]
    BY <1>3, <2>1, <2>2 DEF Top
  <2> QED
    BY <1>2, <1>6, <2>1, <2>2, <2>3, Zenon DEF Linked
<1> QED
  BY <1>1, <1>2, <1>3, <1>4, <1>5, <1>6

(* Adding the base of the last element to a chain                          *)
LEMMA ChainPush ==
    ASSUME NEW s \in Seq(Offset), NEW o \in Offset, Linked(s),
           s # <<>> => Base[Top(s)] = o
    PROVE  /\ Append(s, o) \in Seq(Offset) /\ Append(s, o) # <<>>
           /\ Top(Append(s, o)) = o /\ Linked(Append(s, o))
           /\ Append(s, o)[1] = IF s = <<>> THEN o ELSE s[1]
<1>1. Len(s) \in Nat /\ (s = <<>> <=> Len(s) = 0)
  OBVIOUS
<1>2. Top(Append(s, o)) = o
  BY <1>1 DEF Top
<1>3. Linked(Append(s, o))
  BY <1>1 DEF Linked, Top
<1>4. Append(s, o) \in Seq(Offset) /\ Append(s, o) # <<>>
  OBVIOUS
<1>5. s = <<>> => Append(s, o)[1] = o
  OBVIOUS
<1>6. s # <<>> => Append(s, o)[1] = s[1]
  BY <1>1
<1> QED
  BY <1>2, <1>3, <1>4, <1>5, <1>6

-----------------------------------------------------------------------------
(* The threads                                                             *)

(* What a step of t does to the local variables of all threads: r is what   *)
(* it makes of its own.                                                     *)
Becomes(t, r) == r \in Local /\ OnChain(r) /\ u' = [u EXCEPT ![t] = r]

(* Facts about the local variables of a thread                             *)
LEMMA LocalIs ==
    ASSUME CacheInv, NEW t \in Unpacker
    PROVE  /\ u[t] \in Local /\ OnChain(u[t])
           /\ u[t].stack \in Seq(Offset) /\ u[t].want \in Maybe /\ u[t].obj_offset \in Maybe
           /\ u[t].obj \in Maybe /\ u[t].elem \in Maybe /\ u[t].cached \in Maybe
           /\ u[t].free_base \in BOOLEAN
BY Zenon DEF CacheInv, Types, Chains, Local

(* The start of git_packfile_unpack() leaves the thread at the object asked*)
(* for.                                                                    *)
LEMMA UnpackLocal ==
    ASSUME PackAssumption, CacheInv, NEW t \in Unpacker, NEW o \in Offset, Unpack(t, o)
    PROVE  \E r : Becomes(t, r)
<1> DEFINE r == [Idle EXCEPT !.pc = "chain", !.want = o, !.obj_offset = o]
<1>1. r \in Local
  <2> <<>> \in Seq(Offset)
    OBVIOUS
  <2> QED
    BY Zenon DEF Local, Idle, Maybe
<1>2. OnChain(r)
  BY DEF OnChain, Idle, NextOf, Linked
<1> QED
  BY <1>1, <1>2, Zenon DEF Unpack, Becomes

(* A round of pack_dependency_chain() leaves the thread on its chain.      *)
LEMMA ChainLocal ==
    ASSUME PackAssumption, CacheInv, NEW t \in Unpacker, DependencyChain(t)
    PROVE  \E r : Becomes(t, r)
<1> DEFINE o == u[t].obj_offset
<1>0. u \in [Unpacker -> Local] /\ u[t].pc = "chain"
  BY Zenon DEF CacheInv, Types, DependencyChain
<1>1. o \in Offset /\ o = NextOf(u[t]) /\ u[t].want \in Offset
  BY <1>0, LocalIs, Zenon DEF OnChain
<1>2. CASE entries[o] # None
  <2> DEFINE r == [u[t] EXCEPT !.pc = "base", !.cached = o]
  <2>1. r \in Local /\ r.stack = u[t].stack /\ r.want = u[t].want /\ r.pc = "base" /\ r.cached = o
    BY <1>0, <1>1, LocalIs, ZenonT(40) DEF Local, Maybe
  <2>2. OnChain(r)
    BY <1>1, <2>1, LocalIs, ZenonT(40) DEF OnChain, NextOf, PackAssumption
  <2>3. u' = [u EXCEPT ![t] = r]
    BY <1>0, <1>2, Zenon DEF DependencyChain
  <2> QED
    BY <2>1, <2>2, <2>3, Zenon DEF Becomes
<1>3. CASE entries[o] = None
  <2> DEFINE s == Append(u[t].stack, o)
             r == [u[t] EXCEPT !.stack = s, !.pc = IF Base[o] = None THEN "base" ELSE @,
                               !.obj_offset = Base[o]]
  <2>1. /\ s \in Seq(Offset) /\ s # <<>> /\ Top(s) = o /\ Linked(s)
        /\ s[1] = IF u[t].stack = <<>> THEN o ELSE u[t].stack[1]
    <3>1. u[t].stack \in Seq(Offset) /\ Linked(u[t].stack)
      BY LocalIs, Zenon DEF OnChain
    <3>2. u[t].stack # <<>> => Base[Top(u[t].stack)] = o
      BY <1>1, Zenon DEF NextOf
    <3> QED
      BY <1>1, <3>1, <3>2, ChainPush, Zenon
  <2>2. s[1] = u[t].want
    BY <1>1, <2>1, LocalIs, Zenon DEF OnChain, NextOf
  <2>3. Base[o] \in Maybe
    BY <1>1, Zenon DEF PackAssumption, Maybe
  <2> HIDE DEF s
  <2>4. /\ r \in Local /\ r.stack = s /\ r.want = u[t].want /\ r.obj_offset = Base[o]
        /\ r.pc = (IF Base[o] = None THEN "base" ELSE "chain") /\ r.cached = u[t].cached
    BY <1>0, <2>1, <2>3, LocalIs, ZenonT(40) DEF Local
  <2>5. u[t].cached = None
    BY <1>0, LocalIs, Zenon DEF OnChain
  <2>6. OnChain(r)
    BY <1>1, <2>1, <2>2, <2>3, <2>4, <2>5 DEF OnChain, NextOf, Maybe
  <2>7. u' = [u EXCEPT ![t] = r]
    BY <1>0, <1>3, Zenon DEF DependencyChain, s
  <2> QED
    BY <2>4, <2>6, <2>7, Zenon DEF Becomes
<1> QED
  BY <1>2, <1>3, Zenon

(* A base from the cache is the base that the chain ends at.               *)
LEMMA CachedBaseLocal ==
    ASSUME PackAssumption, CacheInv, NEW t \in Unpacker, BaseFromCache(t)
    PROVE  \E r : Becomes(t, r)
<1> DEFINE o == u[t].cached
<1>0. u \in [Unpacker -> Local] /\ u[t].pc = "base" /\ o # None
  BY Zenon DEF CacheInv, Types, BaseFromCache
<1>1. o \in Offset /\ o = NextOf(u[t]) /\ u[t].want \in Offset
  BY <1>0, LocalIs, Zenon DEF OnChain, Maybe
<1>2. entries[o].raw = o
  BY <1>0, <1>1, Zenon DEF CacheInv, EntriesInUseStay, Filed, Known
<1>3. CASE u[t].stack = <<>>
  <2> DEFINE r == [u[t] EXCEPT !.pc = "done", !.obj = o, !.cached = None]
  <2>1. /\ r \in Local /\ r.stack = u[t].stack /\ r.want = u[t].want /\ r.pc = "done"
        /\ r.obj = o /\ r.cached = None
    BY <1>1, LocalIs, Zenon DEF Local, Maybe
  <2>2. OnChain(r)
    BY <1>1, <1>3, <2>1, LocalIs, Zenon DEF OnChain, NextOf
  <2>3. u' = [u EXCEPT ![t] = r]
    BY <1>0, <1>2, <1>3, Zenon DEF BaseFromCache
  <2> QED
    BY <2>1, <2>2, <2>3, Zenon DEF Becomes
<1>4. CASE u[t].stack # <<>>
  <2> DEFINE r == [u[t] EXCEPT !.pc = "apply", !.obj = o]
  <2>1. /\ r \in Local /\ r.stack = u[t].stack /\ r.want = u[t].want /\ r.pc = "apply"
        /\ r.obj = o /\ r.cached = o
    BY <1>1, LocalIs, Zenon DEF Local, Maybe
  <2>2. OnChain(r)
    BY <1>1, <1>4, <2>1, LocalIs, Zenon DEF OnChain, NextOf
  <2>3. u' = [u EXCEPT ![t] = r]
    BY <1>0, <1>2, <1>4, Zenon DEF BaseFromCache
  <2> QED
    BY <2>1, <2>2, <2>3, Zenon DEF Becomes
<1> QED
  BY <1>3, <1>4, Zenon

(* So is a base inflated from the pack.                                    *)
LEMMA PackBaseLocal ==
    ASSUME PackAssumption, CacheInv, NEW t \in Unpacker, BaseFromPack(t)
    PROVE  \E r : Becomes(t, r)
<1> DEFINE s == u[t].stack
           o == Top(s)
<1>0. u \in [Unpacker -> Local] /\ u[t].pc = "base" /\ u[t].cached = None
  BY Zenon DEF CacheInv, Types, BaseFromPack
<1>1. s \in Seq(Offset) /\ s # <<>> /\ Linked(s) /\ s[1] = u[t].want /\ u[t].want \in Offset
  BY <1>0, LocalIs, Zenon DEF OnChain
<1>2. /\ o \in Offset /\ Below(s) \in Seq(Offset)
      /\ Below(s) = <<>> <=> Len(s) = 1
      /\ Len(s) = 1 => o = s[1]
      /\ Below(s) # <<>> => Below(s)[1] = s[1]
      /\ Linked(Below(s))
      /\ Below(s) # <<>> => Base[Top(Below(s))] = o
  BY <1>1, ChainPop, Zenon
<1> HIDE DEF s, o
<1> DEFINE r == Inflated(u[t], o)
<1>3. u' = [u EXCEPT ![t] = r]
  BY Zenon DEF BaseFromPack, o, s
<1>4. CASE o \in Broken
  <2>1. /\ r \in Local /\ r.stack = s /\ r.want = u[t].want /\ r.pc = "failed"
        /\ r.cached = None
    BY <1>0, <1>4, LocalIs, Zenon DEF Local, Inflated, s
  <2>2. OnChain(r)
    BY <1>1, <2>1, Zenon DEF OnChain
  <2> QED
    BY <1>3, <2>1, <2>2, Zenon DEF Becomes
<1>5. CASE o \notin Broken
  <2>1. /\ r \in Local /\ r.stack = Below(s) /\ r.want = u[t].want
        /\ r.pc = (IF Len(s) = 1 THEN "done" ELSE "add")
        /\ r.obj = o /\ r.elem = o /\ r.cached = None
    <3>1. r = [u[t] EXCEPT !.pc = IF Len(s) = 1 THEN "done" ELSE "add",
                           !.stack = Below(s), !.obj = o, !.elem = o]
      BY <1>5, Zenon DEF Inflated, s
    <3>2. u[t] \in Local /\ o \in Maybe
      BY <1>2, LocalIs, Zenon DEF Maybe
    <3> HIDE DEF r
    <3> QED
      BY <1>0, <1>2, <3>1, <3>2, Zenon DEF Local
  <2> HIDE DEF r
  <2>2. OnChain(r)
    BY <1>1, <1>2, <2>1, Zenon DEF OnChain, NextOf
  <2> QED
    BY <1>3, <2>1, <2>2, Zenon DEF Becomes
<1> QED
  BY <1>4, <1>5, Zenon

(* cache_add() leaves the thread on its chain, with or without the entry.  *)
LEMMA AddLocal ==
    ASSUME PackAssumption, CacheInv, NEW t \in Unpacker, CacheDecline(t) \/ CacheAdd(t)
    PROVE  (\E r : Becomes(t, r)) \/ u' = u
<1>0. u \in [Unpacker -> Local] /\ u[t].pc = "add"
  BY Zenon DEF CacheInv, Types, CacheDecline, CacheAdd
<1>1. /\ u[t].stack # <<>> /\ u[t].obj = NextOf(u[t]) /\ u[t].elem = u[t].obj
      /\ u[t].elem \in Offset /\ u[t].cached = None
  BY <1>0, LocalIs, Zenon DEF OnChain
<1>2. CASE CacheDecline(t)
  <2> DEFINE r == [u[t] EXCEPT !.pc = "apply", !.free_base = TRUE]
  <2>1. /\ r \in Local /\ r.stack = u[t].stack /\ r.want = u[t].want /\ r.pc = "apply"
        /\ r.obj = u[t].obj /\ r.cached = None
    BY <1>1, LocalIs, Zenon DEF Local
  <2>2. OnChain(r)
    BY <1>0, <1>1, <2>1, LocalIs, Zenon DEF OnChain, NextOf
  <2>3. u' = [u EXCEPT ![t] = r]
    BY <1>0, <1>2, Zenon DEF CacheDecline
  <2> QED
    BY <2>1, <2>2, <2>3, Zenon DEF Becomes
<1>3. CASE CacheAdd(t) /\ u' # u
  <2> DEFINE r == [u[t] EXCEPT !.pc = "apply", !.cached = u[t].elem]
  <2>1. /\ r \in Local /\ r.stack = u[t].stack /\ r.want = u[t].want /\ r.pc = "apply"
        /\ r.obj = u[t].obj /\ r.cached = u[t].elem
    BY <1>1, LocalIs, ZenonT(40) DEF Local, Maybe
  <2>2. OnChain(r)
    BY <1>0, <1>1, <2>1, LocalIs, Zenon DEF OnChain, NextOf
  <2>3. u' = [u EXCEPT ![t] = r]
    BY <1>0, <1>3, Zenon DEF CacheAdd
  <2> QED
    BY <2>1, <2>2, <2>3, Zenon DEF Becomes
<1> QED
  BY <1>2, <1>3, Zenon

(* A delta applied to its base gives the next object of the chain.         *)
LEMMA ApplyLocal ==
    ASSUME PackAssumption, CacheInv, NEW t \in Unpacker, ApplyDelta(t)
    PROVE  \E r : Becomes(t, r)
<1> DEFINE s == u[t].stack
           d == Top(s)
           r == Applied(u[t], d, Below(s))
<1>0. u \in [Unpacker -> Local] /\ u[t].pc = "apply"
  BY Zenon DEF CacheInv, Types, ApplyDelta
<1>1. /\ s \in Seq(Offset) /\ s # <<>> /\ Linked(s) /\ s[1] = u[t].want /\ u[t].want \in Offset
      /\ u[t].obj = Base[d]
  BY <1>0, LocalIs, Zenon DEF OnChain, NextOf
<1>2. /\ d \in Offset /\ Below(s) \in Seq(Offset)
      /\ Below(s) = <<>> <=> Len(s) = 1
      /\ Len(s) = 1 => d = s[1]
      /\ Below(s) # <<>> => Below(s)[1] = s[1]
      /\ Linked(Below(s))
      /\ Below(s) # <<>> => Base[Top(Below(s))] = d
  BY <1>1, ChainPop, Zenon
<1>3. u' = [u EXCEPT ![t] = r]
  BY <1>0, Zenon DEF ApplyDelta
<1> HIDE DEF s, d
<1>4. /\ r \in Local /\ r.stack = Below(s) /\ r.want = u[t].want
      /\ r.pc = (IF Below(s) = <<>> THEN "done" ELSE "add")
      /\ r.obj = d /\ r.elem = d /\ r.cached = None
  BY <1>0, <1>1, <1>2, LocalIs, ZenonT(40) DEF Local, Maybe, Applied
<1> HIDE DEF r
<1>5. OnChain(r)
  BY <1>1, <1>2, <1>4, Zenon DEF OnChain, NextOf
<1> QED
  BY <1>3, <1>4, <1>5, Zenon DEF Becomes

(* A call that ends, and frees no buffer of the cache, has no entry        *)
(* counted.                                                                *)
LEMMA EndLocal ==
    ASSUME PackAssumption, CacheInv, NEW t \in Unpacker, ApplyFails(t) \/ Return(t),
           freed' = {}
    PROVE  (\E r : Becomes(t, r)) /\ u[t].cached = None
<1>0. u \in [Unpacker -> Local]
  BY Zenon DEF CacheInv, Types
<1>1. CASE ApplyFails(t)
  <2> DEFINE s == u[t].stack
             r == [u[t] EXCEPT !.pc = "failed"]
  <2>1. u[t].pc = "apply" /\ s # <<>> /\ s \in Seq(Offset)
    BY <1>1, LocalIs, Zenon DEF ApplyFails, OnChain, NextOf
  <2>2. u[t].cached = None
    BY <1>1, Zenon DEF ApplyFails
  <2>3. r \in Local /\ r.stack = s /\ r.want = u[t].want /\ r.pc = "failed" /\ r.cached = None
    BY <2>2, LocalIs, Zenon DEF Local
  <2>4. OnChain(r)
    BY <2>1, <2>3, LocalIs, Zenon DEF OnChain
  <2>5. u' = [u EXCEPT ![t] = r]
    BY <1>0, <1>1, Zenon DEF ApplyFails
  <2> QED
    BY <2>2, <2>3, <2>4, <2>5, Zenon DEF Becomes
<1>2. CASE Return(t)
  <2>1. Idle \in Local
    <3> <<>> \in Seq(Offset)
      OBVIOUS
    <3> QED
      BY Zenon DEF Local, Idle, Maybe
  <2>2. OnChain(Idle)
    BY DEF OnChain, Idle, Linked
  <2>3. u[t].cached = None
    BY <1>2, LocalIs, Zenon DEF Return, OnChain
  <2> QED
    BY <1>2, <2>1, <2>2, <2>3, Zenon DEF Return, Becomes
<1> QED
  BY <1>1, <1>2, Zenon

(* Every step leaves each thread on its chain.                             *)
LEMMA LocalStep ==
    ASSUME PackAssumption, CacheInv, [PackNext]_pack_vars, freed' = {}
    PROVE  u' \in [Unpacker -> Local] /\ Chains'
<1>1. u \in [Unpacker -> Local] /\ Chains
  BY Zenon DEF CacheInv, Types
<1>2. ASSUME NEW t \in Unpacker, NEW r, Becomes(t, r)
      PROVE  u' \in [Unpacker -> Local] /\ Chains'
  BY <1>1, <1>2, Zenon DEF Becomes, Chains
<1>3. ASSUME u' = u
      PROVE  u' \in [Unpacker -> Local] /\ Chains'
  BY <1>1, <1>3, Zenon DEF Chains
<1>4. ASSUME NEW t \in Unpacker, Step(t) \/ \E o \in Offset : Unpack(t, o)
      PROVE  (\E r : Becomes(t, r)) \/ u' = u
  BY <1>4, UnpackLocal, ChainLocal, CachedBaseLocal, PackBaseLocal, AddLocal, ApplyLocal,
     EndLocal, Zenon
  DEF Step
<1> QED
  BY <1>2, <1>3, <1>4, Zenon DEF PackNext, pack_vars

-----------------------------------------------------------------------------
(* The entries                                                             *)

Others(t) == \A q \in Unpacker \ {t} : u'[q].cached = u[q].cached

(* What a step of t does to the cache: nothing; count the entry of o, or    *)
(* drop the count; add the base o; or evict what nobody uses.              *)
Leaves(t) ==
    UNCHANGED <<entries, memory_used>> /\ Others(t) /\ u'[t].cached = u[t].cached
Takes(t, o) ==
    /\ entries[o] # None /\ u[t].cached = None
    /\ entries' = Counted(o, 1) /\ memory_used' = memory_used
    /\ Others(t) /\ u'[t].cached = o
Drops(t, o) ==
    /\ u[t].cached = o
    /\ entries' = Counted(o, -1) /\ memory_used' = memory_used
    /\ Others(t) /\ u'[t].cached = None
Adds(t, o) ==
    /\ entries[o] = None /\ u[t].cached = None
    /\ Size[o] <= SizeLimit /\ memory_used + Size[o] <= MemoryLimit
    /\ entries' = [entries EXCEPT ![o] = [raw |-> o, refcount |-> 1]]
    /\ memory_used' = memory_used + Size[o]
    /\ Others(t) /\ u'[t].cached = o
Evicts(t) == MakeRoom(Evictable) /\ Others(t) /\ u'[t].cached = u[t].cached

Changes(t) ==
    \/ Leaves(t) \/ Evicts(t)
    \/ \E o \in Offset : Takes(t, o) \/ Drops(t, o) \/ Adds(t, o)

(* Every step changes the cache in one of these ways.                      *)
LEMMA CacheChanges ==
    ASSUME PackAssumption, CacheInv, freed' = {}, NEW t \in Unpacker,
           Step(t) \/ \E o \in Offset : Unpack(t, o)
    PROVE  Changes(t) /\ freed' = {}
<1>0. u \in [Unpacker -> Local] /\ freed = {}
  BY Zenon DEF CacheInv, Types
<1>1. /\ u[t].pc \notin {"base", "apply"} => u[t].cached = None
      /\ u[t].cached \in Maybe /\ u[t] \in Local /\ u[t].elem \in Maybe
  BY LocalIs, Zenon DEF OnChain
<1>2. ASSUME NEW o \in Offset, Unpack(t, o) PROVE Changes(t) /\ freed' = {}
  <2>1. u'[t].cached = None
    BY <1>0, <1>2, Zenon DEF Unpack, Idle
  <2> QED
    BY <1>0, <1>1, <1>2, <2>1, Zenon DEF Unpack, Changes, Leaves, Others
<1>3. CASE DependencyChain(t)
  <2> DEFINE o == u[t].obj_offset
  <2>1. u[t].pc = "chain" /\ u[t].cached = None /\ freed' = {}
    BY <1>0, <1>1, <1>3, Zenon DEF DependencyChain
  <2>2. o \in Offset
    BY <2>1, LocalIs, Zenon DEF OnChain
  <2>3. CASE entries[o] # None
    <3>1. Takes(t, o)
      BY <1>0, <1>1, <1>3, <2>1, <2>3 DEF DependencyChain, CacheGet, Takes, Others, Local
    <3> QED
      BY <2>1, <2>2, <3>1, Zenon DEF Changes
  <2>4. CASE entries[o] = None
    <3>1. Leaves(t)
      BY <1>0, <1>1, <1>3, <2>1, <2>4 DEF DependencyChain, Leaves, Others, Local
    <3> QED
      BY <2>1, <3>1, Zenon DEF Changes
  <2> QED
    BY <2>3, <2>4, Zenon
<1>4. CASE BaseFromCache(t)
  <2> DEFINE o == u[t].cached
  <2>1. o \in Offset /\ freed' = {}
    BY <1>0, <1>1, <1>4, Zenon DEF BaseFromCache, Maybe
  <2>2. CASE u[t].stack = <<>>
    <3>1. Drops(t, o)
      BY <1>0, <1>1, <1>4, <2>2 DEF BaseFromCache, Drops, Others, Local
    <3> QED
      BY <2>1, <3>1, Zenon DEF Changes
  <2>3. CASE u[t].stack # <<>>
    <3>1. Leaves(t)
      BY <1>0, <1>1, <1>4, <2>3 DEF BaseFromCache, Leaves, Others, Local
    <3> QED
      BY <2>1, <3>1, Zenon DEF Changes
  <2> QED
    BY <2>2, <2>3, Zenon
<1>5. CASE BaseFromPack(t)
  <2>1. Inflated(u[t], Top(u[t].stack)).cached = u[t].cached
    BY <1>1, Zenon DEF Inflated, Local
  <2>2. Leaves(t) /\ freed' = {}
    BY <1>0, <1>5, <2>1, Zenon DEF BaseFromPack, Leaves, Others
  <2> QED
    BY <2>2, Zenon DEF Changes
<1>6. CASE CacheDecline(t)
  <2>1. Leaves(t) /\ freed' = {}
    BY <1>0, <1>1, <1>6, Zenon DEF CacheDecline, Leaves, Others, Local
  <2> QED
    BY <2>1, Zenon DEF Changes
<1>7. CASE CacheAdd(t)
  <2> DEFINE o == u[t].elem
  <2>1. /\ u[t].pc = "add" /\ u[t].cached = None /\ freed' = {} /\ Size[o] <= SizeLimit
    BY <1>0, <1>1, <1>7, Zenon DEF CacheAdd
  <2>2. o \in Offset /\ u[t].obj = o
    BY <2>1, LocalIs, Zenon DEF OnChain
  <2>3. entries[o] = None
    <3>1. lock = t => entries[o] = None
      BY Zenon DEF CacheInv, LockHeld, PackAssumption
    <3> QED
      BY <1>7, <3>1, Zenon DEF CacheAdd
  <2>4. CASE memory_used + Size[o] <= MemoryLimit
    <3>1. Adds(t, o)
      BY <1>0, <1>1, <1>7, <2>1, <2>2, <2>3, <2>4 DEF CacheAdd, Adds, Others, Local
    <3> QED
      BY <2>1, <2>2, <3>1, Zenon DEF Changes
  <2>5. CASE ~(memory_used + Size[o] <= MemoryLimit)
    <3>1. Evicts(t)
      BY <1>7, <2>5, Zenon DEF CacheAdd, Evicts, Others
    <3> QED
      BY <2>1, <3>1, Zenon DEF Changes
  <2> QED
    BY <2>4, <2>5, Zenon
<1>8. CASE ApplyDelta(t)
  <2> DEFINE o == u[t].cached
             r == Applied(u[t], Top(u[t].stack), Below(u[t].stack))
  <2>1. u' = [u EXCEPT ![t] = r] /\ freed' = {} /\ memory_used' = memory_used
    BY <1>0, <1>8, Zenon DEF ApplyDelta
  <2>2. r.cached = None
    BY <1>1, Zenon DEF Applied, Local
  <2>3. Others(t) /\ u'[t].cached = None
    BY <1>0, <2>1, <2>2, Zenon DEF Others
  <2>4. CASE o = None
    <3>1. Leaves(t)
      BY <1>8, <2>1, <2>3, <2>4, Zenon DEF ApplyDelta, Release, Leaves
    <3> QED
      BY <2>1, <3>1, Zenon DEF Changes
  <2>5. CASE o # None
    <3>1. Drops(t, o) /\ o \in Offset
      BY <1>1, <1>8, <2>1, <2>3, <2>5, Zenon DEF ApplyDelta, Release, Drops, Maybe
    <3> QED
      BY <2>1, <3>1, Zenon DEF Changes
  <2> QED
    BY <2>4, <2>5, Zenon
<1>9. CASE ApplyFails(t) \/ Return(t)
  <2>1. u[t].cached = None
    BY <1>9, EndLocal, Zenon
  <2>2. Idle.cached = None
    BY Zenon DEF Idle
  <2>3. Leaves(t) /\ freed' = {}
    BY <1>0, <1>1, <1>9, <2>1, <2>2 DEF ApplyFails, Return, Leaves, Others, Local
  <2> QED
    BY <2>3, Zenon DEF Changes
<1> QED
  BY <1>2, <1>3, <1>4, <1>5, <1>6, <1>7, <1>8, <1>9, Zenon DEF Step

(* Counting an entry changes its count and nothing else.                   *)
LEMMA CountedIs ==
    ASSUME PackAssumption, entries \in [Offset -> Entry \cup {None}],
           NEW o \in Offset, NEW n \in {1, -1}, entries[o] # None,
           entries[o].refcount + n \in Nat, entries' = Counted(o, n)
    PROVE  /\ entries' \in [Offset -> Entry \cup {None}]
           /\ \A p \in Offset : entries'[p] # None <=> entries[p] # None
           /\ \A p \in Offset \ {o} : entries'[p] = entries[p]
           /\ entries'[o].raw = entries[o].raw
           /\ entries'[o].refcount = entries[o].refcount + n
<1> DEFINE e == [entries[o] EXCEPT !.refcount = @ + n]
<1>1. entries[o] \in Entry
  BY Zenon
<1>2. e \in Entry /\ e.raw = entries[o].raw /\ e.refcount = entries[o].refcount + n
  BY <1>1, Zenon DEF Entry
<1>3. entries' = [entries EXCEPT ![o] = e]
  BY Zenon DEF Counted
<1>4. e # None
  BY <1>2, Zenon DEF PackAssumption
<1> HIDE DEF e
<1> QED
  BY <1>2, <1>3, <1>4, Zenon

(* The entry that a reader counts is there, and so is the count.           *)
LEMMA CountOfReader ==
    ASSUME PackAssumption, CacheInv, NEW t \in Unpacker, NEW o \in Offset, u[t].cached = o
    PROVE  entries[o] # None /\ entries[o].refcount + (-1) \in Nat
<1> DEFINE Q == {q \in Unpacker : u[q].cached = o}
<1>1. entries[o] # None
  BY Zenon DEF CacheInv, EntriesInUseStay, PackAssumption
<1>2. entries[o].refcount = Cardinality(Q)
  BY <1>1 DEF CacheInv, EntriesInUseStay, Known
<1>3. t \in Q /\ IsFiniteSet(Q)
  BY FS_Subset, Zenon DEF PackAssumption
<1> HIDE DEF Q
<1>4. Cardinality(Q) \in Nat /\ Cardinality(Q) # 0
  BY <1>3, FS_EmptySet, FS_CardinalityType, Zenon
<1> QED
  BY <1>1, <1>2, <1>4

(* An entry keeps its type, its place and its size.                        *)
LEMMA FiledStep ==
    ASSUME PackAssumption, CacheInv, NEW t \in Unpacker, Changes(t)
    PROVE  entries' \in [Offset -> Entry \cup {None}] /\ Filed'
<1>1. entries \in [Offset -> Entry \cup {None}] /\ Filed
  BY Zenon DEF CacheInv, Types
<1>2. CASE Leaves(t)
  BY <1>1, <1>2, Zenon DEF Leaves, Filed, Known
<1>3. CASE Evicts(t)
  BY <1>1, <1>3, Zenon DEF Evicts, MakeRoom, Filed, Known
<1>4. ASSUME NEW o \in Offset, NEW n \in {1, -1}, entries[o] # None,
             entries[o].refcount + n \in Nat, entries' = Counted(o, n)
      PROVE  entries' \in [Offset -> Entry \cup {None}] /\ Filed'
  BY <1>1, <1>4, CountedIs, ZenonT(40) DEF Filed, Known
<1>5. ASSUME NEW o \in Offset, Takes(t, o)
      PROVE  entries' \in [Offset -> Entry \cup {None}] /\ Filed'
  <2>1. entries[o] # None /\ entries[o].refcount + 1 \in Nat
    BY <1>1, <1>5 DEF Takes, Entry
  <2> QED
    BY <1>4, <1>5, <2>1, Zenon DEF Takes
<1>6. ASSUME NEW o \in Offset, Drops(t, o)
      PROVE  entries' \in [Offset -> Entry \cup {None}] /\ Filed'
  <2>1. entries[o] # None /\ entries[o].refcount + (-1) \in Nat
    BY <1>6, CountOfReader, Zenon DEF Drops
  <2> QED
    BY <1>4, <1>6, <2>1, Zenon DEF Drops
<1>7. ASSUME NEW o \in Offset, Adds(t, o)
      PROVE  entries' \in [Offset -> Entry \cup {None}] /\ Filed'
  <2> DEFINE e == [raw |-> o, refcount |-> 1]
  <2>1. e \in Entry /\ e.raw = o
    BY Zenon DEF Entry
  <2>2. entries' = [entries EXCEPT ![o] = e]
    BY <1>7, Zenon DEF Adds
  <2> HIDE DEF e
  <2> QED
    BY <1>1, <1>7, <2>1, <2>2, Zenon DEF Adds, Filed, Known
<1> QED
  BY <1>2, <1>3, <1>5, <1>6, <1>7, Zenon DEF Changes

(* The lock is kept for a base that is not there.                          *)
LEMMA LockStep ==
    ASSUME PackAssumption, CacheInv, NEW t \in Unpacker,
           Step(t) \/ \E o \in Offset : Unpack(t, o)
    PROVE  LockHeld'
<1>0. /\ u \in [Unpacker -> Local] /\ entries \in [Offset -> Entry \cup {None}]
      /\ LockHeld /\ EntriesInUseStay
  BY Zenon DEF CacheInv, Types
<1>1. CASE CacheAdd(t)
  <2>1. CASE lock' = None
    BY <2>1, Zenon DEF LockHeld
  <2>2. CASE lock' # None
    <3>1. /\ lock' = t /\ UNCHANGED u /\ u[t].pc = "add" /\ Size[u[t].elem] <= SizeLimit
          /\ MakeRoom(Evictable) /\ (lock = t \/ entries[u[t].elem] = None)
      BY <1>1, <2>2, Zenon DEF CacheAdd
    <3>2. entries[u[t].elem] = None
      BY <1>0, <3>1, Zenon DEF LockHeld, PackAssumption
    <3>3. u[t].elem \in Offset
      BY <3>1, LocalIs, Zenon DEF OnChain
    <3>4. entries'[u[t].elem] = None
      BY <3>1, <3>2, <3>3, Zenon DEF MakeRoom
    <3> QED
      BY <3>1, <3>4, Zenon DEF LockHeld
  <2> QED
    BY <2>1, <2>2, Zenon
<1>2. CASE ~CacheAdd(t)
  <2>1. lock' = lock
    BY <1>2, Zenon DEF Step, DependencyChain, BaseFromCache, BaseFromPack, CacheDecline,
                ApplyDelta, ApplyFails, Return, Unpack
  <2>2. SUFFICES ASSUME lock # None
                 PROVE  /\ u'[lock] = u[lock] /\ entries'[u[lock].elem] = None
    BY <1>0, <2>1, Zenon DEF LockHeld
  <2> DEFINE p == u[lock].elem
  <2>3. /\ lock \in Unpacker /\ u[lock].pc = "add" /\ entries[p] = None /\ Size[p] <= SizeLimit
    BY <1>0, <2>2, Zenon DEF LockHeld
  <2>4. p \in Offset /\ Size[p] \in Nat /\ SizeLimit \in Nat
    BY <2>3, LocalIs, Zenon DEF OnChain, PackAssumption
  <2>5. lock # t
    <3>1. SUFFICES ASSUME lock = t PROVE FALSE
      BY Zenon
    <3>2. CacheDecline(t)
      BY <1>2, <2>3, <3>1, Zenon DEF Step, DependencyChain, BaseFromCache, BaseFromPack,
                CacheDecline, ApplyDelta, ApplyFails, Return, Unpack
    <3> QED
      BY <2>2, <2>3, <2>4, <3>1, <3>2 DEF CacheDecline
  <2>6. u'[lock] = u[lock]
    BY <1>0, <1>2, <2>3, <2>5, Zenon DEF Step, DependencyChain, BaseFromCache, BaseFromPack,
                CacheDecline, ApplyDelta, ApplyFails, Return, Unpack
  <2>7. \/ entries' = entries
        \/ \E o \in Offset, n \in Int : entries[o] # None /\ entries' = Counted(o, n)
    <3>1. u[t].cached # None => u[t].cached \in Offset /\ entries[u[t].cached] # None
      BY <1>0, LocalIs, Zenon DEF EntriesInUseStay, Local, Maybe
    <3>2. ~DependencyChain(t)
      BY <2>2, Zenon DEF DependencyChain
    <3>3. \/ entries' = entries
          \/ u[t].cached # None /\ entries' = Counted(u[t].cached, -1)
      BY <1>2, <3>2, Zenon DEF Step, BaseFromCache, BaseFromPack, Release,
                CacheDecline, ApplyDelta, ApplyFails, Return, Unpack
    <3> QED
      BY <3>1, <3>3
  <2>8. entries'[p] = None
    BY <1>0, <2>3, <2>4, <2>7, Zenon DEF Counted
  <2> QED
    BY <2>6, <2>8, Zenon
<1> QED
  BY <1>1, <1>2, Zenon

(* The count of an entry is the number of its readers.                     *)
LEMMA InUseStep ==
    ASSUME PackAssumption, CacheInv, NEW t \in Unpacker, Changes(t), freed' = {},
           u' \in [Unpacker -> Local], entries' \in [Offset -> Entry \cup {None}]
    PROVE  EntriesInUseStay'
<1> DEFINE Q(p) == {q \in Unpacker : u[q].cached = p}
           R(p) == {q \in Unpacker : u'[q].cached = p}
<1>0. /\ u \in [Unpacker -> Local] /\ entries \in [Offset -> Entry \cup {None}]
      /\ \A q \in Unpacker : u[q].cached # None => entries[u[q].cached] # None
      /\ \A q \in Unpacker : u[q].cached \in Maybe /\ u'[q].cached \in Maybe
      /\ \A p \in Offset : entries[p] # None => entries[p].refcount = Cardinality(Q(p))
      /\ None \notin Offset /\ None \notin Entry
  BY ZenonT(40) DEF CacheInv, Types, EntriesInUseStay, Known, PackAssumption, Local
<1>1. \A p : IsFiniteSet(Q(p)) /\ Cardinality(Q(p)) \in Nat
  <2>1. \A p : Q(p) \in SUBSET Unpacker
    BY Zenon
  <2> QED
    BY <2>1, FS_Subset, FS_CardinalityType, Zenon DEF PackAssumption
<1>2. SUFFICES /\ \A q \in Unpacker : u'[q].cached # None => entries'[u'[q].cached] # None
               /\ \A p \in Offset : entries'[p] # None =>
                     entries'[p].refcount = Cardinality(R(p))
  BY Zenon DEF EntriesInUseStay, Known
<1>3. CASE Leaves(t)
  <2>1. \A q \in Unpacker : u'[q].cached = u[q].cached
    BY <1>3, Zenon DEF Leaves, Others
  <2>2. \A p : R(p) = Q(p)
    BY <2>1, Zenon
  <2> QED
    BY <1>0, <1>3, <2>1, <2>2, Zenon DEF Leaves
<1>4. CASE Evicts(t)
  <2>1. \A q \in Unpacker : u'[q].cached = u[q].cached
    BY <1>4, Zenon DEF Evicts, Others
  <2>2. \A p : R(p) = Q(p)
    BY <2>1, Zenon
  <2>3. \A p \in Offset : entries'[p] = IF p \in Evictable THEN None ELSE entries[p]
    BY <1>4, Zenon DEF Evicts, MakeRoom
  <2>4. ASSUME NEW q \in Unpacker, u[q].cached # None
        PROVE  u[q].cached \notin Evictable
    <3>1. SUFFICES ASSUME u[q].cached \in Evictable PROVE FALSE
      BY Zenon
    <3>2. Cardinality(Q(u[q].cached)) = 0 /\ q \in Q(u[q].cached)
      BY <1>0, <3>1, Zenon DEF Evictable, Known
    <3> HIDE DEF Q
    <3> QED
      BY <1>1, <3>2, FS_EmptySet, Zenon
  <2> QED
    BY <1>0, <2>1, <2>2, <2>3, <2>4 DEF Maybe
<1>6. ASSUME NEW o \in Offset, Others(t), u[t].cached # o
      PROVE  /\ u'[t].cached = o => R(o) = Q(o) \cup {t}
             /\ \A p \in Offset : p # u[t].cached /\ p # u'[t].cached => R(p) = Q(p)
  BY <1>6, Zenon DEF Others
<1>7. ASSUME NEW o \in Offset, Takes(t, o)
      PROVE  /\ \A q \in Unpacker : u'[q].cached # None => entries'[u'[q].cached] # None
             /\ \A p \in Offset : entries'[p] # None =>
                   entries'[p].refcount = Cardinality(R(p))
  <2>1. /\ entries[o] # None /\ u[t].cached = None /\ entries' = Counted(o, 1)
        /\ Others(t) /\ u'[t].cached = o
    BY <1>7, Zenon DEF Takes
  <2>2. R(o) = Q(o) \cup {t} /\ t \notin Q(o)
    BY <1>0, <1>6, <2>1, Zenon
  <2>3. \A p \in Offset \ {o} : R(p) = Q(p)
    BY <1>0, <1>6, <2>1, Zenon
  <2>4. Cardinality(R(o)) = Cardinality(Q(o)) + 1
    <3> HIDE DEF Q, R
    <3> QED
      BY <1>1, <2>2, FS_AddElement, Zenon
  <2>5. /\ \A p \in Offset : entries'[p] # None <=> entries[p] # None
        /\ \A p \in Offset \ {o} : entries'[p] = entries[p]
        /\ entries'[o].refcount = entries[o].refcount + 1
    <3>1. entries[o].refcount + 1 \in Nat
      BY <1>0, <2>1 DEF Entry
    <3> QED
      BY <1>0, <2>1, <3>1, CountedIs, Zenon
  <2>6. \A q \in Unpacker : u'[q].cached # None => entries'[u'[q].cached] # None
    BY <1>0, <2>1, <2>5 DEF Others, Maybe
  <2>7. entries'[o].refcount = Cardinality(R(o))
    BY <1>0, <2>1, <2>4, <2>5, Zenon
  <2> HIDE DEF Q, R
  <2> QED
    BY <1>0, <2>3, <2>5, <2>6, <2>7
<1>8. ASSUME NEW o \in Offset, Drops(t, o)
      PROVE  /\ \A q \in Unpacker : u'[q].cached # None => entries'[u'[q].cached] # None
             /\ \A p \in Offset : entries'[p] # None =>
                   entries'[p].refcount = Cardinality(R(p))
  <2>1. /\ u[t].cached = o /\ entries' = Counted(o, -1)
        /\ Others(t) /\ u'[t].cached = None
    BY <1>8, Zenon DEF Drops
  <2>2. entries[o] # None /\ entries[o].refcount + (-1) \in Nat
    BY <2>1, CountOfReader, Zenon
  <2>3. R(o) = Q(o) \ {t} /\ t \in Q(o)
    BY <1>0, <2>1, Zenon DEF Others
  <2>4. \A p \in Offset \ {o} : R(p) = Q(p)
    BY <1>0, <2>1 DEF Others
  <2>5. Cardinality(R(o)) = Cardinality(Q(o)) - 1
    <3> HIDE DEF Q, R
    <3> QED
      BY <1>1, <2>3, FS_RemoveElement, ZenonT(40)
  <2>6. /\ \A p \in Offset : entries'[p] # None <=> entries[p] # None
        /\ \A p \in Offset \ {o} : entries'[p] = entries[p]
        /\ entries'[o].refcount = entries[o].refcount + (-1)
    BY <1>0, <2>1, <2>2, CountedIs, Zenon
  <2>7. \A q \in Unpacker : u'[q].cached # None => entries'[u'[q].cached] # None
    BY <1>0, <2>1, <2>6 DEF Others, Maybe
  <2>8. entries'[o].refcount = Cardinality(R(o))
    <3>1. entries[o].refcount = Cardinality(Q(o)) /\ Cardinality(Q(o)) \in Nat
      BY <1>0, <1>1, <2>2, Zenon
    <3> HIDE DEF Q, R
    <3> QED
      BY <2>5, <2>6, <3>1, Zenon
  <2> HIDE DEF Q, R
  <2> QED
    BY <1>0, <2>4, <2>6, <2>7, <2>8
<1>9. ASSUME NEW o \in Offset, Adds(t, o)
      PROVE  /\ \A q \in Unpacker : u'[q].cached # None => entries'[u'[q].cached] # None
             /\ \A p \in Offset : entries'[p] # None =>
                   entries'[p].refcount = Cardinality(R(p))
  <2> DEFINE e == [raw |-> o, refcount |-> 1]
  <2>1. /\ entries[o] = None /\ u[t].cached = None /\ entries' = [entries EXCEPT ![o] = e]
        /\ Others(t) /\ u'[t].cached = o
    BY <1>9, Zenon DEF Adds
  <2>2. e.refcount = 1 /\ e # None
    BY <1>0 DEF Entry
  <2> HIDE DEF e
  <2>3. R(o) = {t}
    <3>1. \A q \in Unpacker : u[q].cached # o
      BY <1>0, <2>1, Zenon
    <3>2. \A q \in Unpacker : u'[q].cached = o <=> q = t
      BY <2>1, <3>1, Zenon DEF Others
    <3> QED
      BY <3>2, Zenon
  <2>4. \A p \in Offset \ {o} : R(p) = Q(p)
    BY <1>0, <1>6, <2>1, Zenon
  <2>5. Cardinality(R(o)) = 1
    BY <2>3, FS_Singleton, Zenon
  <2>6. \A q \in Unpacker : u'[q].cached # None => entries'[u'[q].cached] # None
    BY <1>0, <2>1, <2>2, Zenon DEF Others, Maybe
  <2> HIDE DEF Q, R
  <2>7. \A p \in Offset \ {o} : entries'[p] = entries[p]
    BY <2>1, Zenon
  <2>8. entries'[o].refcount = 1
    BY <1>0, <2>1, <2>2, Zenon
  <2> QED
    BY <1>0, <2>4, <2>5, <2>6, <2>7, <2>8, ZenonT(40)
<1> QED
  BY <1>3, <1>4, <1>7, <1>8, <1>9, Zenon DEF Changes

-----------------------------------------------------------------------------
(* The memory                                                              *)

(* The bytes of a set of entries can be counted.                           *)
LEMMA BytesFinite ==
    ASSUME PackAssumption, NEW S, IsFiniteSet(S)
    PROVE  IsFiniteSet(Memory(S)) /\ Bytes(S) \in Nat
<1>1. IsFiniteSet(1 .. SizeLimit)
  BY FS_Interval DEF PackAssumption
<1>2. IsFiniteSet(S \X (1 .. SizeLimit))
  BY <1>1, FS_Product, Zenon
<1>3. Memory(S) \in SUBSET (S \X (1 .. SizeLimit))
  BY Zenon DEF Memory
<1>4. IsFiniteSet(Memory(S))
  BY <1>2, <1>3, FS_Subset, Zenon
<1> QED
  BY <1>4, FS_CardinalityType, Zenon DEF Bytes

(* The bytes of disjoint sets add up.                                      *)
LEMMA BytesAdd ==
    ASSUME PackAssumption, NEW S, NEW T, IsFiniteSet(S), IsFiniteSet(T), S \cap T = {}
    PROVE  Bytes(S \cup T) = Bytes(S) + Bytes(T)
<1>1. Memory(S \cup T) = Memory(S) \cup Memory(T)
  BY Zenon DEF Memory
<1>2. Memory(S) \cap Memory(T) = {}
  BY Zenon DEF Memory
<1>3. /\ IsFiniteSet(Memory(S)) /\ Cardinality(Memory(S)) \in Nat
      /\ IsFiniteSet(Memory(T)) /\ Cardinality(Memory(T)) \in Nat
  BY BytesFinite, Zenon DEF Bytes
<1> DEFINE A == Memory(S)
           B == Memory(T)
<1> HIDE DEF A, B
<1>4. IsFiniteSet(A) /\ IsFiniteSet(B) /\ A \cap B = {}
  BY <1>2, <1>3, Zenon DEF A, B
<1>5. Cardinality(A \cup B) = Cardinality(A) + Cardinality(B) - Cardinality(A \cap B)
  BY <1>4, FS_Union, Zenon
<1>6. Cardinality(A \cap B) = 0 /\ Cardinality(A) \in Nat /\ Cardinality(B) \in Nat
  BY <1>4, FS_EmptySet, FS_CardinalityType, Zenon
<1>7. Cardinality(A \cup B) = Cardinality(A) + Cardinality(B)
  BY <1>5, <1>6
<1> QED
  BY <1>1, <1>7, Zenon DEF Bytes, A, B

(* An entry occupies its size.                                             *)
LEMMA BytesOne ==
    ASSUME PackAssumption, NEW o \in Offset, Size[o] <= SizeLimit
    PROVE  Bytes({o}) = Size[o]
<1>1. PICK n \in Nat : n = Size[o]
  BY Zenon DEF PackAssumption
<1>2. n <= SizeLimit /\ SizeLimit \in Nat
  BY <1>1, Zenon DEF PackAssumption
<1>3. Memory({o}) = {o} \X (1 .. n)
  BY <1>1, <1>2 DEF Memory
<1>4. IsFiniteSet({o}) /\ Cardinality({o}) = 1
  BY FS_Singleton, Zenon
<1>5. IsFiniteSet(1 .. n) /\ Cardinality(1 .. n) = IF 1 > n THEN 0 ELSE (n - 1) + 1
  <2> 1 \in Int /\ n \in Int
    BY <1>1
  <2> QED
    BY FS_Interval, Zenon
<1>6. Cardinality(1 .. n) = n
  BY <1>1, <1>5
<1>7. Cardinality({o} \X (1 .. n)) = Cardinality({o}) * Cardinality(1 .. n)
  BY <1>4, <1>5, FS_Product, Zenon
<1>8. Cardinality({o} \X (1 .. n)) = 1 * n
  BY <1>4, <1>6, <1>7, Zenon
<1>9. 1 * n = n
  BY <1>1
<1> QED
  BY <1>1, <1>3, <1>8, <1>9, Zenon DEF Bytes

(* memory_used is what the entries occupy, and within the limit.           *)
LEMMA MemoryStep ==
    ASSUME PackAssumption, CacheInv, NEW t \in Unpacker, Changes(t)
    PROVE  MemoryIsBounded'
<1>0. /\ entries \in [Offset -> Entry \cup {None}]
      /\ memory_used = Bytes(Known) /\ memory_used <= MemoryLimit
      /\ None \notin Offset /\ None \notin Entry /\ MemoryLimit \in Nat
      /\ Size \in [Offset -> Nat]
  BY Zenon DEF CacheInv, Types, MemoryIsBounded, PackAssumption
<1>1. IsFiniteSet(Known) /\ IsFiniteSet(Evictable) /\ Bytes(Known) \in Nat
  <2>1. Known \in SUBSET Offset /\ Evictable \in SUBSET Offset
    BY Zenon DEF Known, Evictable
  <2> QED
    BY <2>1, FS_Subset, BytesFinite, Zenon DEF PackAssumption
<1>2. Bytes(Known)' = Bytes(Known')
  BY Zenon DEF Bytes, Memory
<1>3. ASSUME Known' = Known, memory_used' = memory_used
      PROVE  MemoryIsBounded'
  BY <1>0, <1>2, <1>3, Zenon DEF MemoryIsBounded
<1>4. CASE Leaves(t)
  BY <1>3, <1>4, Zenon DEF Leaves, Known
<1>5. ASSUME NEW o \in Offset, Takes(t, o) PROVE MemoryIsBounded'
  <2>1. entries[o] # None /\ entries[o].refcount + 1 \in Nat
    BY <1>0, <1>5 DEF Takes, Entry
  <2>2. Known' = Known
    BY <1>0, <1>5, <2>1, CountedIs, Zenon DEF Takes, Known
  <2> QED
    BY <1>3, <1>5, <2>2, Zenon DEF Takes
<1>7. ASSUME NEW o \in Offset, Drops(t, o) PROVE MemoryIsBounded'
  <2>1. entries[o] # None /\ entries[o].refcount + (-1) \in Nat
    BY <1>7, CountOfReader, Zenon DEF Drops
  <2>2. Known' = Known
    BY <1>0, <1>7, <2>1, CountedIs, Zenon DEF Drops, Known
  <2> QED
    BY <1>3, <1>7, <2>2, Zenon DEF Drops
<1>8. ASSUME NEW o \in Offset, Adds(t, o) PROVE MemoryIsBounded'
  <2> DEFINE e == [raw |-> o, refcount |-> 1]
  <2>1. /\ entries[o] = None /\ entries' = [entries EXCEPT ![o] = e]
        /\ Size[o] <= SizeLimit /\ memory_used + Size[o] <= MemoryLimit
        /\ memory_used' = memory_used + Size[o]
    BY <1>8, Zenon DEF Adds
  <2>2. e # None
    BY <1>0 DEF Entry
  <2> HIDE DEF e
  <2>3. Known' = Known \cup {o} /\ Known \cap {o} = {}
    BY <1>0, <2>1, <2>2, Zenon DEF Known
  <2>4. Bytes(Known \cup {o}) = Bytes(Known) + Bytes({o})
    BY <1>1, <2>3, BytesAdd, FS_Singleton, Zenon
  <2>5. Bytes({o}) = Size[o]
    BY <2>1, BytesOne, Zenon
  <2> QED
    BY <1>0, <1>2, <2>1, <2>3, <2>4, <2>5, Zenon DEF MemoryIsBounded
<1>9. CASE Evicts(t)
  <2> DEFINE K == Known \ Evictable
  <2>1. /\ entries' = [o \in Offset |-> IF o \in Evictable THEN None ELSE entries[o]]
        /\ memory_used' = memory_used - Bytes(Evictable)
    BY <1>9, Zenon DEF Evicts, MakeRoom
  <2>2. Known' = K
    BY <1>0, <2>1, Zenon DEF Known
  <2>3. K \cap Evictable = {} /\ K \cup Evictable = Known
    BY Zenon DEF Evictable
  <2>4. IsFiniteSet(K)
    BY <1>1, FS_Subset, Zenon
  <2>5. Bytes(Known) = Bytes(K) + Bytes(Evictable)
    BY <1>1, <2>3, <2>4, BytesAdd, Zenon
  <2>6. Bytes(K) \in Nat /\ Bytes(Evictable) \in Nat
    BY <1>1, <2>4, BytesFinite, Zenon
  <2> HIDE DEF K
  <2> QED
    BY <1>0, <1>1, <1>2, <2>1, <2>2, <2>5, <2>6 DEF MemoryIsBounded
<1> QED
  BY <1>4, <1>5, <1>7, <1>8, <1>9, Zenon DEF Changes

-----------------------------------------------------------------------------
(* The invariant                                                           *)

(* An empty cache satisfies the invariant.                                 *)
LEMMA CacheInit == ASSUME PackAssumption, PackInit PROVE CacheInv
<1>1. Types
  <2>1. <<>> \in Seq(Offset)
    OBVIOUS
  <2>2. Idle \in Local
    BY <2>1, Zenon DEF Idle, Local, Maybe
  <2> QED
    BY <2>2, Zenon DEF PackInit, Types
<1>2. Chains
  <2>1. Len(<<>>) = 0
    BY Zenon
  <2>2. Linked(<<>>)
    BY <2>1 DEF Linked
  <2>3. OnChain(Idle)
    BY <2>2, Zenon DEF OnChain, Idle
  <2> QED
    BY <2>3, Zenon DEF PackInit, Chains
<1>3. Known = {}
  BY Zenon DEF PackInit, Known
<1>4. Bytes({}) = 0
  <2>1. Memory({}) = {}
    BY Zenon DEF Memory
  <2> QED
    BY <2>1, FS_EmptySet, Zenon DEF Bytes
<1>5. MemoryIsBounded
  BY <1>3, <1>4 DEF MemoryIsBounded, PackInit, PackAssumption
<1>6. EntriesInUseStay
  <2>1. \A t \in Unpacker : u[t].cached = None
    BY Zenon DEF PackInit, Idle
  <2> QED
    BY <1>3, <2>1, Zenon DEF EntriesInUseStay
<1> QED
  BY <1>1, <1>2, <1>3, <1>5, <1>6, Zenon DEF CacheInv, Filed, LockHeld, PackInit

(* Every step that frees no buffer of the cache preserves the invariant.   *)
LEMMA CacheStep ==
    ASSUME PackAssumption, CacheInv, [PackNext]_pack_vars, freed' = {}
    PROVE  CacheInv'
<1>1. CASE UNCHANGED pack_vars
  <2>1. entries' = entries /\ memory_used' = memory_used /\ lock' = lock
        /\ freed' = freed /\ u' = u
    BY <1>1, Zenon DEF pack_vars
  <2>2. Known' = Known /\ Bytes(Known)' = Bytes(Known)
    BY <2>1, Zenon DEF Known, Bytes, Memory
  <2>3. (Types /\ Chains /\ LockHeld)' <=> (Types /\ Chains /\ LockHeld)
    BY <2>1, Zenon DEF Types, Chains, LockHeld
  <2>4. (Filed /\ EntriesInUseStay /\ MemoryIsBounded)'
            <=> (Filed /\ EntriesInUseStay /\ MemoryIsBounded)
    BY <2>1, <2>2, ZenonT(40) DEF Filed, EntriesInUseStay, MemoryIsBounded
  <2> QED
    BY <2>1, <2>3, <2>4, Zenon DEF CacheInv
<1>2. CASE PackNext
  <2>1. PICK t \in Unpacker : Step(t) \/ \E o \in Offset : Unpack(t, o)
    BY <1>2, Zenon DEF PackNext
  <2>2. u' \in [Unpacker -> Local] /\ Chains'
    BY <2>1, LocalStep, Zenon
  <2>3. Changes(t) /\ freed' = {}
    BY <2>1, CacheChanges, Zenon
  <2>4. entries' \in [Offset -> Entry \cup {None}] /\ Filed'
    BY <2>3, FiledStep, Zenon
  <2>5. LockHeld'
    BY <2>1, LockStep, Zenon
  <2>6. EntriesInUseStay' /\ MemoryIsBounded'
    BY <2>2, <2>3, <2>4, InUseStep, MemoryStep, Zenon
  <2> QED
    BY <2>2, <2>3, <2>4, <2>5, <2>6, Zenon DEF CacheInv, Types
<1> QED
  BY <1>1, <1>2, Zenon

(* What has been freed stays so.                                           *)
LEMMA FreedStays == ASSUME [PackNext]_pack_vars, freed' = {} PROVE freed = {}
<1>1. ASSUME NEW t \in Unpacker, Step(t) \/ \E o \in Offset : Unpack(t, o)
      PROVE  freed = {}
  BY <1>1, Zenon
  DEF Step, Unpack, DependencyChain, BaseFromCache, BaseFromPack, CacheDecline, CacheAdd,
      ApplyDelta, ApplyFails, Return
<1> QED
  BY <1>1, Zenon DEF PackNext, pack_vars

(* A delta that does not inflate frees no buffer of the cache when its base *)
(* is too large to be there.                                               *)
LEMMA FailureIsHarmless ==
    ASSUME PackAssumption, BrokenAssumption, CacheInv, NEW t \in Unpacker, ApplyFails(t)
    PROVE  freed' = {}
<1> DEFINE s == u[t].stack
<1>1. /\ Top(s) \in Broken
      /\ u[t].obj = Base[Top(s)] /\ u[t].obj \in Offset
      /\ u[t].cached # None => u[t].cached = u[t].obj
  BY LocalIs, Zenon DEF ApplyFails, OnChain, NextOf
<1>2. Size[u[t].obj] > SizeLimit
  BY <1>1, Zenon DEF BrokenAssumption, PackAssumption
<1>3. u[t].cached = None
  <2> SUFFICES ASSUME u[t].cached # None PROVE FALSE
    BY Zenon
  <2>1. u[t].obj \in Known
    BY <1>1, Zenon DEF CacheInv, EntriesInUseStay, Known
  <2>2. Size[u[t].obj] <= SizeLimit
    BY <2>1, Zenon DEF CacheInv, Filed
  <2> QED
    BY <1>1, <1>2, <2>2 DEF PackAssumption
<1> QED
  BY <1>3, Zenon DEF ApplyFails, CacheInv

(* So it is with every step.                                               *)
LEMMA NothingFreed ==
    ASSUME PackAssumption, BrokenAssumption, CacheInv, [PackNext]_pack_vars
    PROVE  freed' = {}
<1>0. freed = {}
  BY Zenon DEF CacheInv
<1>1. ASSUME NEW t \in Unpacker, Step(t) \/ \E o \in Offset : Unpack(t, o)
      PROVE  freed' = {}
  BY <1>0, <1>1, FailureIsHarmless, Zenon
  DEF Step, Unpack, DependencyChain, BaseFromCache, BaseFromPack, CacheDecline, CacheAdd,
      ApplyDelta, Return
<1> QED
  BY <1>0, <1>1, Zenon DEF PackNext, pack_vars

-----------------------------------------------------------------------------
(* The theorems                                                            *)

(* Whatever the pack, the number of threads and the limits of the cache    *)
(* are, git_packfile_unpack() returns the object asked for, and no base    *)
(* that a thread uses is evicted or freed by another, as long as no read   *)
(* has failed on a delta whose base the cache owns.                        *)
THEOREM BasesStayRightUntilFreed ==
    ASSUME PackAssumption
    PROVE  PackSpec => [](freed = {} => BasesAreKept)
<1>1. PackInit => (freed = {} => CacheInv)
  BY CacheInit, Zenon
<1>2. (freed = {} => CacheInv) /\ [PackNext]_pack_vars => (freed = {} => CacheInv)'
  BY CacheStep, FreedStays, Zenon
<1>3. CacheInv => BasesAreKept
  BY Zenon DEF CacheInv, Chains, OnChain, Filed, BasesAreKept, RightObject
<1> QED
  BY <1>1, <1>2, <1>3, PTL DEF PackSpec

(* In a pack whose broken deltas have bases too large for the cache, such  *)
(* as a pack without broken deltas, it is always so.                       *)
THEOREM BasesStayRight ==
    ASSUME PackAssumption, BrokenAssumption
    PROVE  PackSpec => []BasesAreKept
<1>1. PackInit => CacheInv
  BY CacheInit, Zenon
<1>2. CacheInv /\ [PackNext]_pack_vars => CacheInv'
  BY CacheStep, NothingFreed, Zenon
<1>3. CacheInv => BasesAreKept
  BY Zenon DEF CacheInv, Chains, OnChain, Filed, BasesAreKept, RightObject
<1> QED
  BY <1>1, <1>2, <1>3, PTL DEF PackSpec
=============================================================================

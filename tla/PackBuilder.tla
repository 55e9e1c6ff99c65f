---------------------------- MODULE PackBuilder ----------------------------
(***************************************************************************)
(* The search for deltas by several threads: ll_find_deltas() of           *)
(* src/src/pack-objects.c cuts the sorted list of objects into segments,    *)
(* starts a thread on each, and gives a thread that has finished half of    *)
(* what the busiest one has left, until nobody has enough.                  *)
(*                                                                         *)
(* The objects are the positions 1 .. N of the list.  A critical section    *)
(* under pb->progress_mutex is one step, and so is one under p[i].mutex.    *)
(* A thread reads me->remaining and me->list without a lock.  A wait on a   *)
(* condition is a state of its own, left only by a signal; a signal that    *)
(* nobody waits for is lost.                                               *)
(***************************************************************************)
EXTENDS Integers

CONSTANTS
    N,           \* how many objects
    NrThreads,   \* pb->nr_threads
    Hash,        \* Hash[o]: the hash of the name of o, 0 when it has none
    Window,      \* window, which is GIT_PACK_WINDOW + 1
    MaxFailures  \* bound on the calls of find_deltas() and git_thread_create()
                 \* that fail

Object == 1 .. N
Thread == 1 .. NrThreads

ASSUME BuilderAssumption ==
    /\ N \in Nat /\ NrThreads \in Nat \ {0, 1} /\ Window \in Nat \ {0}
    /\ Hash \in [Object -> Nat] /\ MaxFailures \in Nat

VARIABLES
    list,         \* list[t]: the first object of the segment of t
    list_size,    \* list_size[t]: the length of that segment
    remaining,    \* remaining[t]: how many at its end t has not taken
    working,      \* working[t]
    data_ready,   \* data_ready[t]
    tpc,          \* where thread t is
    pos,          \* pos[t]: the local variable list of find_deltas()
    mpc, i, rest, \* where the main thread is; its loop; the first object not given
    active_threads, target, \* ... how many threads run; the one that gets work
    taken,        \* history: taken[o]: how often o was taken for a search
    failures      \* history: how many of those calls failed

segments == <<list, list_size, remaining>>
flags == <<working, data_ready>>
main == <<mpc, i, rest, active_threads, target>>
vars == <<segments, flags, tpc, pos, main, taken, failures>>

Init ==
    /\ list = [t \in Thread |-> 1]
    /\ list_size = [t \in Thread |-> 0]
    /\ remaining = [t \in Thread |-> 0]
    /\ working = [t \in Thread |-> TRUE]
    /\ data_ready = [t \in Thread |-> FALSE]
    /\ tpc = [t \in Thread |-> "none"]
    /\ pos = [t \in Thread |-> 1]
    /\ mpc = "partition" /\ i = 1 /\ rest = 1 /\ active_threads = 0 /\ target = 1
    /\ taken = [o \in Object |-> 0]
    /\ failures = 0

(* A segment that begins at o splits the objects of one name.              *)
SamePath(o) == Hash[o] # 0 /\ Hash[o] = Hash[o - 1]

-----------------------------------------------------------------------------
(* The main thread: cut the list, start the threads                        *)

(* sub_size of thread i: an even share, none when that is too small, and as *)
(* much more as the objects of one name need.                              *)
SubSize(size) ==
    LET left == N - rest + 1
        share == left \div (NrThreads - i + 1)
    IN  IF share < 2 * Window /\ i < NrThreads THEN size = 0
        ELSE /\ size >= share
             /\ size < left => ~SamePath(rest + size)
             /\ \A s \in share .. size - 1 : SamePath(rest + s)

Partition ==
    /\ mpc = "partition"
    /\ \E size \in 0 .. N - rest + 1 :
          /\ SubSize(size)
          /\ list_size' = [list_size EXCEPT ![i] = size]
          /\ remaining' = [remaining EXCEPT ![i] = size]
          /\ rest' = rest + size
    /\ list' = [list EXCEPT ![i] = rest]
    /\ i' = IF i = NrThreads THEN 1 ELSE i + 1
    /\ mpc' = IF i = NrThreads THEN "start" ELSE mpc
    /\ UNCHANGED <<flags, tpc, pos, active_threads, target, taken, failures>>

StartThread ==
    /\ mpc = "start"
    /\ \/ /\ list_size[i] > 0
          /\ tpc' = [tpc EXCEPT ![i] = "check"]
          /\ active_threads' = active_threads + 1
       \/ list_size[i] = 0 /\ UNCHANGED <<tpc, active_threads>>
    /\ i' = IF i = NrThreads THEN 1 ELSE i + 1
    /\ mpc' = IF i = NrThreads THEN "find" ELSE mpc
    /\ UNCHANGED <<segments, flags, pos, rest, target, taken, failures>>

(* A thread cannot be created: ll_find_deltas() returns, and the threads that *)
(* it has started go on.                                                     *)
CreateFails ==
    /\ mpc = "start" /\ list_size[i] > 0 /\ failures < MaxFailures
    /\ mpc' = "failed"
    /\ failures' = failures + 1
    /\ UNCHANGED <<segments, flags, tpc, pos, i, rest, active_threads, target, taken>>

-----------------------------------------------------------------------------
(* The main thread: hand out work                                          *)

(* while (active_threads): wait for a thread that has finished             *)
AllJoined ==
    /\ mpc = "find" /\ active_threads = 0
    /\ mpc' = "done"
    /\ UNCHANGED <<segments, flags, tpc, pos, i, rest, active_threads, target, taken, failures>>

WaitForThread ==
    /\ mpc = "find" /\ active_threads > 0
    /\ \A t \in Thread : working[t]
    /\ mpc' = "asleep"
    /\ UNCHANGED <<segments, flags, tpc, pos, i, rest, active_threads, target, taken, failures>>

FirstIdle(t) == ~working[t] /\ \A s \in Thread : s < t => working[s]

(* The thread with most left; of several, the first.                       *)
Victim(v) ==
    /\ remaining[v] > 2 * Window
    /\ \A t \in Thread : remaining[t] <= remaining[v]
    /\ \A t \in Thread : t < v => remaining[t] < remaining[v]

End(v) == list[v] + list_size[v]

(* s objects are stolen from v: half of what it has left, less the ones     *)
(* whose name the victim keeps; exactly half when that leaves none.         *)
StolenSize(v, s) ==
    LET half == remaining[v] \div 2
    IN  \/ ~SamePath(End(v) - s) /\ \A l \in s + 1 .. half : SamePath(End(v) - l)
        \/ s = half /\ \A l \in 1 .. half : SamePath(End(v) - l)

(* A bug: the stolen half begins one object too early.                      *)
MutSteal(t, v, s) ==
    /\ list' = [list EXCEPT ![t] = End(v) - s - 1]
    /\ list_size' = [list_size EXCEPT ![v] = @ - s, ![t] = s]
    /\ remaining' = [remaining EXCEPT ![v] = @ - s, ![t] = s]

(* A thread whose search failed may be both the victim and the target.      *)
Steal(t, v, s) ==
    /\ list' = [list EXCEPT ![t] = End(v) - s]
    /\ list_size' = [list_size EXCEPT ![v] = @ - s, ![t] = s]
    /\ remaining' = [remaining EXCEPT ![v] = @ - s, ![t] = s]

NoWork(t) ==
    /\ \A v \in Thread : ~Victim(v)
    /\ list_size' = [list_size EXCEPT ![t] = 0]
    /\ remaining' = [remaining EXCEPT ![t] = 0]
    /\ UNCHANGED list

FindWork ==
    /\ mpc = "find" /\ active_threads > 0
    /\ \E t \in Thread :
        /\ FirstIdle(t)
        /\ \/ \E v \in Thread : /\ Victim(v)
                               /\ \E s \in 1 .. remaining[v] \div 2 :
                                     StolenSize(v, s) /\ Steal(t, v, s)
           \/ NoWork(t)
        /\ working' = [working EXCEPT ![t] = TRUE]
        /\ target' = t
    /\ mpc' = "hand"
    /\ UNCHANGED <<data_ready, tpc, pos, i, rest, active_threads, taken, failures>>

Ready(t) == data_ready' = [data_ready EXCEPT ![t] = TRUE]

HandOver ==
    /\ mpc = "hand"
    /\ Ready(target)
    /\ tpc' = IF tpc[target] = "asleep" THEN [tpc EXCEPT ![target] = "wait"] ELSE tpc
    /\ mpc' = IF remaining[target] = 0 THEN "join" ELSE "find"
    /\ UNCHANGED <<segments, working, pos, i, rest, active_threads, target, taken, failures>>

Join ==
    /\ mpc = "join" /\ tpc[target] = "exited"
    /\ active_threads' = active_threads - 1
    /\ mpc' = "find"
    /\ UNCHANGED <<segments, flags, tpc, pos, i, rest, target, taken, failures>>

-----------------------------------------------------------------------------
(* threaded_find_deltas() and find_deltas()                                *)

Check(t) ==
    /\ tpc[t] = "check"
    /\ tpc' = [tpc EXCEPT ![t] = IF remaining[t] > 0 THEN "search" ELSE "exited"]
    /\ pos' = [pos EXCEPT ![t] = list[t]]
    /\ UNCHANGED <<segments, flags, main, taken, failures>>

ListEmpty(t) == remaining[t] = 0

TakeObject(t) ==
    /\ tpc[t] = "search" /\ ~ListEmpty(t)
    /\ taken' = [taken EXCEPT ![pos[t]] = @ + 1]
    /\ pos' = [pos EXCEPT ![t] = @ + 1]
    /\ remaining' = [remaining EXCEPT ![t] = @ - 1]
    /\ UNCHANGED <<list, list_size, flags, tpc, main, failures>>

SearchReturns(t) ==
    /\ tpc[t] = "search" /\ ListEmpty(t)
    /\ tpc' = [tpc EXCEPT ![t] = "finish"]
    /\ UNCHANGED <<segments, flags, pos, main, taken, failures>>

(* find_deltas() gives up in the middle; its caller ignores the error.     *)
SearchFails(t) ==
    /\ tpc[t] = "search" /\ failures < MaxFailures
    /\ tpc' = [tpc EXCEPT ![t] = "finish"]
    /\ failures' = failures + 1
    /\ UNCHANGED <<segments, flags, pos, main, taken>>

(* A bug: the thread goes idle without waking the main thread.              *)
MutSignal == UNCHANGED mpc

Signal == mpc' = IF mpc = "asleep" THEN "find" ELSE mpc

Finish(t) ==
    /\ tpc[t] = "finish"
    /\ working' = [working EXCEPT ![t] = FALSE]
    /\ Signal
    /\ tpc' = [tpc EXCEPT ![t] = "wait"]
    /\ UNCHANGED <<segments, data_ready, pos, i, rest, active_threads, target, taken, failures>>

WaitForWork(t) ==
    /\ tpc[t] = "wait"
    /\ tpc' = [tpc EXCEPT ![t] = IF data_ready[t] THEN "check" ELSE "asleep"]
    /\ data_ready' = [data_ready EXCEPT ![t] = FALSE]
    /\ UNCHANGED <<segments, working, pos, main, taken, failures>>

Done == mpc = "done" /\ UNCHANGED vars

MainStep ==
    \/ Partition \/ StartThread \/ CreateFails \/ WaitForThread \/ FindWork
    \/ HandOver \/ Join \/ AllJoined
ThreadStep(t) ==
    \/ Check(t) \/ TakeObject(t) \/ SearchReturns(t) \/ SearchFails(t)
    \/ Finish(t) \/ WaitForWork(t)

Next == MainStep \/ (\E t \in Thread : ThreadStep(t)) \/ Done

Spec == /\ Init /\ [][Next]_vars
        /\ WF_vars(MainStep) /\ \A t \in Thread : WF_vars(ThreadStep(t))

-----------------------------------------------------------------------------
(* Properties                                                              *)

(* Every variable holds a value of its type.                               *)
TypeOK ==
    /\ list \in [Thread -> Nat] /\ list_size \in [Thread -> Nat]
    /\ remaining \in [Thread -> Nat]
    /\ working \in [Thread -> BOOLEAN] /\ data_ready \in [Thread -> BOOLEAN]
    /\ tpc \in [Thread -> {"none", "check", "search", "finish", "wait", "asleep",
                           "exited"}]
    /\ pos \in [Thread -> Nat]
    /\ mpc \in {"partition", "start", "find", "asleep", "hand", "join", "done", "failed"}
    /\ i \in Thread /\ rest \in 1 .. N + 1 /\ target \in Thread
    /\ active_threads \in 0 .. NrThreads
    /\ taken \in [Object -> Nat] /\ failures \in Nat

(* No object is searched by two threads, although the one that works on a  *)
(* segment and the main thread that takes its end away move its bounds     *)
(* with one common lock only, and the thread keeps a pointer of its own.   *)
(* It holds also of the threads that go on when another cannot be created. *)
SearchedOnce == \A o \in Object : taken[o] <= 1

(* When ll_find_deltas() returns success and no search failed, every       *)
(* object was searched: the segments that are cut and stolen cover the list. *)
AllSearched == (mpc = "done" /\ failures = 0) => \A o \in Object : taken[o] = 1

(* ll_find_deltas() frees what the threads work on, and its caller the     *)
(* list: by then every thread that was started has been joined, if it      *)
(* returns success.  When a thread cannot be created, those started before *)
(* still run, and the caller frees the list all the same.                  *)
NoThreadLeft == mpc = "done" => \A t \in Thread : tpc[t] \in {"none", "exited"}

(* The search is complete and over when ll_find_deltas() returns success:   *)
(* every object was searched by one thread, and no thread is left.          *)
SearchIsExact == SearchedOnce /\ AllSearched /\ NoThreadLeft

(* ll_find_deltas() returns: neither a thread that waits for work nor the   *)
(* main thread that waits for an idle one is ever forgotten.               *)
SearchEnds == <>(mpc \in {"done", "failed"})
=============================================================================

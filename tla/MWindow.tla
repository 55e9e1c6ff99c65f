------------------------------ MODULE MWindow ------------------------------
(***************************************************************************)
(* The memory windows of src/src/mwindow.c and the packs that share them.  *)
(* A pack file is opened once in a process, whatever the number of         *)
(* repositories that use it, and counted in git__pack_cache.  Its content  *)
(* is read through windows: stretches of the file mapped into memory, kept  *)
(* mapped while nobody uses them, and closed in the order of their last    *)
(* use when the total exceeds git_mwindow__mapped_limit.                   *)
(*                                                                         *)
(* A Reader is a packed backend (odb_pack.c) with the thread that reads    *)
(* through it.  Each function that takes git__mwindow_mutex is one step;   *)
(* packfile_open() is three, because p->mwf.fd is read without a lock and  *)
(* so others see the pack open before it is registered and checked.  Every *)
(* caller in the library passes git_mwindow_open() an empty cursor.        *)
(***************************************************************************)
EXTENDS Integers, FiniteSets, FiniteSetsExt

CONSTANTS
    Reader,        \* the packed backends, each with its thread
    File,          \* the pack files
    Window,        \* numbers of git_mwindow structures; bounds how many are mapped
    Size,          \* Size[f]: the size of pack file f
    Damaged,       \* the packs that do not match their index or their old size
    WindowSize,    \* git_mwindow__window_size
    MappedLimit,   \* git_mwindow__mapped_limit
    Extra,         \* what a caller needs after the offset: 20 bytes, a hash
    MaxUse,        \* bound on used_ctr
    MaxLost,       \* bound on the bytes counted for maps that failed
    None           \* no file, no cursor

Cursor == [w : Window, at : Nat]

ASSUME WindowAssumption ==
    /\ IsFiniteSet(Reader) /\ IsFiniteSet(File) /\ Window \subseteq Nat
    /\ IsFiniteSet(Window)
    /\ Size \in [File -> Nat] /\ Damaged \subseteq File
    /\ Extra \in Nat \ {0} /\ WindowSize \in Nat /\ WindowSize >= 2 * Extra
    /\ MappedLimit \in Nat /\ MaxUse \in Nat /\ MaxLost \in Nat
    /\ None \notin File /\ None \notin Cursor /\ None \notin Window

VARIABLES
    refcount,   \* refcount[f]: p->refcount; 0: f is not in git__pack_cache
    holds,      \* holds[r]: backend->packs
    fd,         \* fd[f]: "none" (-1), "opened", "registered" or "checked"
    opening,    \* opening[r]: the pack whose p->lock r holds in packfile_open()
    leaving,    \* the backends that pack_backend__free() is taking apart
    listed,     \* listed[f]: how often f is in ctl->windowfiles
    file,       \* file[w]: the file that window w maps, or None
    offset, last_used, inuse_cnt,   \* fields of window w
    cursor,     \* cursor[r]: the window that r uses, and the offset it asked for
    mapped,     \* ctl->mapped
    used_ctr,   \* ctl->used_ctr
    lost        \* history: the bytes of the maps that failed

registry == <<refcount, holds, leaving>>
files == <<fd, opening, listed>>
windows == <<file, offset, last_used, inuse_cnt>>
ctl == <<mapped, used_ctr, lost>>
vars == <<registry, files, windows, cursor, ctl>>

Init ==
    /\ refcount = [f \in File |-> 0]
    /\ holds = [r \in Reader |-> {}]
    /\ fd = [f \in File |-> "none"]
    /\ opening = [r \in Reader |-> None]
    /\ leaving = {}
    /\ listed = [f \in File |-> 0]
    /\ file = [w \in Window |-> None]
    /\ offset = [w \in Window |-> 0]
    /\ last_used = [w \in Window |-> 0]
    /\ inuse_cnt = [w \in Window |-> 0]
    /\ cursor = [r \in Reader |-> None]
    /\ mapped = 0 /\ used_ctr = 0 /\ lost = 0

-----------------------------------------------------------------------------
(* Windows                                                                 *)

MapLength(f, o) == Min({Size[f] - o, WindowSize})
len(w) == MapLength(file[w], offset[w])

(* The bytes of memory that the windows of S occupy, and their number.     *)
Memory(S) == {b \in S \X (1 .. WindowSize) : b[2] <= len(b[1])}
Bytes(S) == Cardinality(Memory(S))

WindowContains(w, o) == offset[w] <= o /\ o <= offset[w] + len(w)

(* The windows of f that git_mwindow_open() would take for offset o.       *)
Suitable(f, o) ==
    {w \in Window : file[w] = f /\ WindowContains(w, o) /\ WindowContains(w, o + Extra)}

(* The windows that git_mwindow_close_lru() goes through for f: its own,   *)
(* and those of every registered file.                                     *)
Scanned(f) == {w \in Window : file[w] # None /\ (file[w] = f \/ listed[file[w]] > 0)}

Idle(f) == {w \in Scanned(f) : inuse_cnt[w] = 0}

(* A bug: the test of inuse_cnt is missing.                                 *)
MutOlderInUse(w, lru_w) == lru_w = None \/ last_used[w] < last_used[lru_w]

(* A bug: the comparison of last_used inverted.                             *)
MutOlder(w, lru_w) == inuse_cnt[w] = 0 /\ (lru_w = None \/ last_used[w] > last_used[lru_w])

(* The test in the loop of git_mwindow_scan_lru()                           *)
Older(w, lru_w) == inuse_cnt[w] = 0 /\ (lru_w = None \/ last_used[w] < last_used[lru_w])

(* git_mwindow_scan_lru(), one window after the other, in the order of the  *)
(* lists; any order does, as no two windows have the same last_used.        *)
ScanStep(lru_w, T) ==
    IF T = {} THEN None
    ELSE LET w == CHOOSE w \in T : TRUE
         IN  IF Older(w, lru_w[T \ {w}]) THEN w ELSE lru_w[T \ {w}]

ScanLru(S) == LET lru_w[T \in SUBSET S] == ScanStep(lru_w, T) IN lru_w[S]

(* The loop of new_window(): the windows that git_mwindow_close_lru() closes *)
(* one by one, until `total' is within the limit or it finds no window.      *)
CloseStep(close, S, total, closed) ==
    LET lru_w == ScanLru(S \ closed)
    IN  IF total - Bytes(closed) <= MappedLimit \/ lru_w = None THEN closed
        ELSE close[closed \cup {lru_w}]

CloseLru(S, total) ==
    LET close[closed \in SUBSET S] == CloseStep(close, S, total, closed) IN close[{}]

(* Unmap the windows of S, map w at o of f when `add', and let r use it.   *)
Remap(S, add, w, f, o) ==
    /\ file' = [v \in Window |-> IF add /\ v = w THEN f
                                 ELSE IF v \in S THEN None ELSE file[v]]
    /\ offset' = [v \in Window |-> IF add /\ v = w THEN o
                                   ELSE IF v \in S THEN 0 ELSE offset[v]]
    /\ last_used' = [v \in Window |-> IF add /\ v = w THEN used_ctr
                                      ELSE IF v \in S THEN 0 ELSE last_used[v]]
    /\ inuse_cnt' = [v \in Window |-> IF add /\ v = w THEN 1
                                      ELSE IF v \in S THEN 0 ELSE inuse_cnt[v]]

-----------------------------------------------------------------------------
(* git_mwindow_get_pack() from packfile_load__cb()                         *)

GetPack(r, f) ==
    /\ r \notin leaving /\ opening[r] = None /\ cursor[r] = None
    /\ f \notin holds[r]
    /\ refcount' = [refcount EXCEPT ![f] = @ + 1]
    /\ holds' = [holds EXCEPT ![r] = @ \cup {f}]
    /\ UNCHANGED <<leaving, files, windows, cursor, ctl>>

(* pack_backend__free()                                                    *)
FreeBackend(r) ==
    /\ r \notin leaving /\ opening[r] = None /\ cursor[r] = None
    /\ holds[r] # {}
    /\ leaving' = leaving \cup {r}
    /\ UNCHANGED <<refcount, holds, files, windows, cursor, ctl>>

(* git_packfile_free(): with an open descriptor, unlist the file and unmap *)
(* all of its windows.                                                     *)
PackfileFree(f) ==
    LET own == {w \in Window : file[w] = f}
    IN  IF fd[f] # "none"
        THEN /\ listed' = [listed EXCEPT ![f] = IF @ > 0 THEN @ - 1 ELSE 0]
             /\ Remap(own, FALSE, 0, None, 0)
             /\ mapped' = mapped - Bytes(own)
             /\ fd' = [fd EXCEPT ![f] = "none"]
        ELSE UNCHANGED <<listed, windows, mapped, fd>>

(* git_mwindow_put_pack()                                                  *)
PutPack(r, f) ==
    /\ r \in leaving /\ f \in holds[r]
    /\ refcount' = [refcount EXCEPT ![f] = @ - 1]
    /\ holds' = [holds EXCEPT ![r] = @ \ {f}]
    /\ leaving' = IF holds[r] = {f} THEN leaving \ {r} ELSE leaving
    /\ IF refcount[f] = 1 THEN PackfileFree(f)
       ELSE UNCHANGED <<listed, windows, mapped, fd>>
    /\ UNCHANGED <<opening, cursor, used_ctr, lost>>

-----------------------------------------------------------------------------
(* packfile_open()                                                         *)

OpenFile(r, f) ==
    /\ r \notin leaving /\ opening[r] = None /\ cursor[r] = None
    /\ f \in holds[r] /\ fd[f] = "none"
    /\ \A q \in Reader : opening[q] # f
    /\ fd' = [fd EXCEPT ![f] = "opened"]
    /\ opening' = [opening EXCEPT ![r] = f]
    /\ UNCHANGED <<registry, listed, windows, cursor, ctl>>

(* git_mwindow_file_register()                                             *)
FileRegister(r) ==
    LET f == opening[r]
    IN  /\ f # None /\ fd[f] = "opened"
        /\ listed' = [listed EXCEPT ![f] = @ + 1]
        /\ fd' = [fd EXCEPT ![f] = "registered"]
        /\ UNCHANGED <<registry, opening, windows, cursor, ctl>>

(* The comparison with the old size, the header and the index; on failure  *)
(* the descriptor is closed.                                               *)
CheckPack(r) ==
    LET f == opening[r]
    IN  /\ f # None /\ fd[f] = "registered"
        /\ fd' = [fd EXCEPT ![f] = IF f \in Damaged THEN "none" ELSE "checked"]
        /\ opening' = [opening EXCEPT ![r] = None]
        /\ UNCHANGED <<registry, listed, windows, cursor, ctl>>

-----------------------------------------------------------------------------
(* git_mwindow_open() and git_mwindow_close()                              *)

UseWindow(r, w, o) ==
    /\ last_used' = [last_used EXCEPT ![w] = used_ctr]
    /\ inuse_cnt' = [inuse_cnt EXCEPT ![w] = @ + 1]
    /\ cursor' = [cursor EXCEPT ![r] = [w |-> w, at |-> o]]
    /\ used_ctr' = used_ctr + 1
    /\ UNCHANGED <<file, offset, mapped, lost>>

(* new_window(): the limit is soft, and a map that fails is tried again    *)
(* after closing every window that nobody uses.                            *)
NewWindow(r, w, f, o) ==
    LET walign == WindowSize \div 2
        start == (o \div walign) * walign
        length == MapLength(f, start)
        idle == Idle(f)
    IN  \E closed \in {CloseLru(Scanned(f), mapped + length), idle}, ok \in BOOLEAN :
            /\ ok \/ closed = idle
            /\ ok \/ lost + length <= MaxLost
            /\ Remap(closed, ok, w, f, start)
            /\ mapped' = mapped + length - Bytes(closed)
            /\ cursor' = IF ok THEN [cursor EXCEPT ![r] = [w |-> w, at |-> o]]
                         ELSE cursor
            /\ used_ctr' = IF ok THEN used_ctr + 1 ELSE used_ctr
            /\ lost' = IF ok THEN lost ELSE lost + length

(* pack_window_open() refuses an offset with less than Extra bytes after it; *)
(* git_packfile_unpack_header() asks for any offset that an index gives it.  *)
WindowOpen(r, f, o) ==
    /\ r \notin leaving /\ opening[r] = None /\ cursor[r] = None
    /\ f \in holds[r] /\ fd[f] # "none"
    /\ o < Size[f] /\ used_ctr < MaxUse
    /\ \/ \E w \in Suitable(f, o) : UseWindow(r, w, o)
       \/ /\ Suitable(f, o) = {}
          /\ \E w \in Window :
                /\ file[w] = None
                /\ \A v \in Window : file[v] = None => w <= v
                /\ NewWindow(r, w, f, o)
    /\ UNCHANGED <<registry, files>>

WindowClose(r) ==
    /\ cursor[r] # None
    /\ inuse_cnt' = [inuse_cnt EXCEPT ![cursor[r].w] = @ - 1]
    /\ cursor' = [cursor EXCEPT ![r] = None]
    /\ UNCHANGED <<registry, files, file, offset, last_used, ctl>>

Next ==
    \E r \in Reader :
        \/ FreeBackend(r) \/ FileRegister(r) \/ CheckPack(r) \/ WindowClose(r)
        \/ \E f \in File :
              \/ GetPack(r, f) \/ PutPack(r, f) \/ OpenFile(r, f)
              \/ \E o \in 0 .. Size[f] : WindowOpen(r, f, o)

Spec == Init /\ [][Next]_vars

-----------------------------------------------------------------------------
(* Properties                                                              *)

(* Every variable holds a value of its type.                               *)
TypeOK ==
    /\ refcount \in [File -> Nat] /\ holds \in [Reader -> SUBSET File]
    /\ fd \in [File -> {"none", "opened", "registered", "checked"}]
    /\ opening \in [Reader -> File \cup {None}] /\ leaving \subseteq Reader
    /\ listed \in [File -> Nat]
    /\ file \in [Window -> File \cup {None}]
    /\ offset \in [Window -> Nat] /\ last_used \in [Window -> Nat]
    /\ inuse_cnt \in [Window -> Nat]
    /\ cursor \in [Reader -> Cursor \cup {None}]
    /\ mapped \in Nat /\ used_ctr \in Nat /\ lost \in Nat

Users(w) == {r \in Reader : cursor[r] # None /\ cursor[r].w = w}

(* A window in use stays mapped, whatever other readers open and free: the *)
(* count that git_mwindow_scan_lru() trusts is the number of the cursors    *)
(* on the window, and the pack of a cursor is one that its reader holds.    *)
UsedWindowsStay ==
    /\ \A w \in Window : inuse_cnt[w] = Cardinality(Users(w))
    /\ \A r \in Reader : cursor[r] # None => file[cursor[r].w] \in holds[r]

(* git_mwindow_open() returns memory in which the Extra bytes that the     *)
(* caller reads after its offset are mapped, or all that the file has.     *)
CoversRequest ==
    \A r \in Reader : cursor[r] # None =>
        LET w == cursor[r].w
        IN  /\ offset[w] <= cursor[r].at
            /\ \/ cursor[r].at + Extra <= offset[w] + len(w)
               \/ Size[file[w]] <= offset[w] + len(w)

(* A pack is open, registered or mapped only while some backend holds it:  *)
(* its count in git__pack_cache is the number of the backends that do, and *)
(* the list that git_mwindow_close_lru() walks has each open pack once.    *)
PacksAreCounted ==
    /\ \A f \in File :
        /\ refcount[f] = Cardinality({r \in Reader : f \in holds[r]})
        /\ fd[f] # "none" => refcount[f] > 0
        /\ listed[f] = IF fd[f] \in {"registered", "checked"} THEN 1 ELSE 0
    /\ \A w \in Window : file[w] # None => fd[file[w]] # "none"

(* ctl->mapped is what the windows occupy, and what the maps that failed   *)
(* would have: new_window() counts before it maps and never takes it back. *)
MappedIsAccounted ==
    mapped = lost + Bytes({w \in Window : file[w] # None})

(* What readers of packs rely on, whatever they and the evictions do at the *)
(* same time: git_mwindow_open() gives mapped memory that stays, of packs    *)
(* that stay, and its counters are right.                                    *)
WindowsAreSafe ==
    TypeOK /\ UsedWindowsStay /\ CoversRequest /\ PacksAreCounted /\ MappedIsAccounted

(* An open that maps a window leaves the total within the soft limit, or   *)
(* no window that it could have closed; and of those it closes the ones    *)
(* used least recently, although they are spread over several files.       *)
LeastRecentGo ==
    \A w \in Window : (file[w] = None /\ file'[w] # None) =>
        LET idle == Idle(file'[w])
            kept == {v \in idle : file'[v] # None}
        IN  /\ \A u \in idle \ kept, v \in kept : last_used[u] < last_used[v]
            /\ mapped' <= MappedLimit \/ kept = {}

(* Every eviction takes the least recently used windows.                   *)
EvictsLeastRecent == [][LeastRecentGo]_vars
=============================================================================

----------------------------- MODULE RacyIndex -----------------------------
(***************************************************************************)
(* How an index tells that a file of the working directory was modified      *)
(* (src/src/index.c, maybe_modified() of src/src/diff_generate.c): by the     *)
(* size and the time that the entry recorded, and by its contents only when   *)
(* the entry is as new as the index file.  Times are those of a clock so      *)
(* coarse that several changes have the same.                               *)
(*                                                                         *)
(* One file and its entry; the handle keeps the entry and the stamp of the    *)
(* index file in memory, and another process may add the file as well.        *)
(***************************************************************************)
EXTENDS Integers

CONSTANTS
    FileContent, \* what the file may hold
    SizeOf,      \* SizeOf[c]: the size of content c
    MaxTime,     \* bound on the clock
    MaxChanges   \* bound on the modifications

SizeAssumption == SizeOf \in [FileContent -> Nat]

VARIABLES
    clock,
    workfile,  \* the file: its content and its mtime
    entry,     \* the entry in memory: id, mtime, file_size, UPTODATE
    checksum,  \* index->checksum: the entry that was last read or written
    stamp,     \* index->stamp.mtime, 0 if the index file was never read
    racy_disk, \* the index file: its mtime, 0 if there is none, the entry, and
               \* the window of the entry
    racy_pc,   \* "idle", "hash" (adding), "check" (diffing) or "commit"
    st,        \* the stat of the file that the call in progress works with
    window,    \* history: the file was modified in the tick that the entry
               \* recorded, after it was hashed and before the index was written
    changes

handle == <<entry, checksum, stamp, racy_pc, st>>
racy_vars == <<clock, workfile, handle, racy_disk, window, changes>>

Entry(id, mtime, size, uptodate) ==
    [id |-> id, mtime |-> mtime, size |-> size, uptodate |-> uptodate]
Stat == [mtime |-> workfile.mtime, size |-> SizeOf[workfile.content]]
NoStat == [mtime |-> 0, size |-> 0]
NoEntry == Entry("none", 0, 0, FALSE)

RacyInit ==
    /\ clock = 1
    /\ \E c \in FileContent : workfile = [content |-> c, mtime |-> 1]
    /\ entry = NoEntry /\ checksum = NoEntry /\ stamp = 0
    /\ racy_disk = [mtime |-> 0, entry |-> NoEntry, window |-> FALSE]
    /\ racy_pc = "idle" /\ st = NoStat
    /\ window = FALSE /\ changes = 0

-----------------------------------------------------------------------------
(* maybe_modified()                                                        *)

(* A bug: only an entry that is newer than the index file is racy.             *)
MutNewer(mtime) == stamp # 0 /\ stamp < mtime

(* git_index_entry_newer_than_index()                                       *)
Newer(mtime) == stamp # 0 /\ stamp <= mtime

(* The stat data differ, and whether that needs the contents to be compared    *)
SizeDiffers(s) == entry.size # s.size
Uncertain(s) ==
    IF SizeDiffers(s) THEN entry.size = 0 ELSE entry.mtime # s.mtime \/ Newer(s.mtime)

(* What git_diff_index_to_workdir() finds if nothing happens meanwhile          *)
Modified ==
    IF Uncertain(Stat) THEN workfile.content # entry.id ELSE SizeDiffers(Stat)

-----------------------------------------------------------------------------
(* git_index_add_bypath(): git_blob__create_from_paths() stats, then reads.     *)

AddStat ==
    /\ racy_pc = "idle"
    /\ racy_pc' = "hash" /\ st' = Stat
    /\ UNCHANGED <<clock, workfile, entry, checksum, stamp, racy_disk, window, changes>>

AddHash ==
    /\ racy_pc = "hash"
    /\ entry' = Entry(workfile.content, st.mtime, st.size, TRUE)
    /\ window' = FALSE
    /\ racy_pc' = "idle" /\ st' = NoStat
    /\ UNCHANGED <<clock, workfile, checksum, stamp, racy_disk, changes>>

(* A diff with GIT_DIFF_UPDATE_INDEX renews an entry whose stat data differ     *)
(* and whose contents do not, and writes the index.                            *)
DiffStat ==
    /\ racy_pc = "idle" /\ entry # NoEntry
    /\ Uncertain(Stat)
    /\ racy_pc' = "check" /\ st' = Stat
    /\ UNCHANGED <<clock, workfile, entry, checksum, stamp, racy_disk, window, changes>>

DiffHash ==
    /\ racy_pc = "check"
    /\ IF workfile.content = entry.id
       THEN /\ entry' = Entry(entry.id, st.mtime, st.size, TRUE)
            /\ window' = FALSE /\ racy_pc' = "commit"
       ELSE racy_pc' = "idle" /\ UNCHANGED <<entry, window>>
    /\ st' = NoStat
    /\ UNCHANGED <<clock, workfile, checksum, stamp, racy_disk, changes>>

(* truncate_racily_clean(): the entry loses its size when the file differs.      *)
Truncated ==
    IF ~entry.uptodate /\ Newer(entry.mtime) /\ Modified
    THEN [entry EXCEPT !.size = 0] ELSE entry

(* git_index_write(): the racy entries first, then the file                     *)
Truncate ==
    /\ racy_pc = "idle" /\ entry # NoEntry
    /\ entry' = Truncated
    /\ racy_pc' = "commit"
    /\ UNCHANGED <<clock, workfile, checksum, stamp, racy_disk, st, window, changes>>

(* write_index() and git_indexwriter_commit()                                  *)
Commit ==
    /\ racy_pc = "commit"
    /\ entry' = [entry EXCEPT !.uptodate = FALSE]
    /\ racy_disk' = [mtime |-> clock, entry |-> entry', window |-> window]
    /\ stamp' = clock /\ checksum' = entry'
    /\ racy_pc' = "idle"
    /\ UNCHANGED <<clock, workfile, st, window, changes>>

(* git_index_read() looks at the checksum of the file, which covers the entry,    *)
(* and keeps its entry and stamp when that is the same, unless it is forced.       *)
(* A forced read that finds no file clears the index.                              *)
Read(force) ==
    /\ racy_pc = "idle"
    /\ \/ /\ racy_disk.mtime = 0 /\ force
          /\ entry' = NoEntry /\ stamp' = 0 /\ window' = FALSE
          /\ UNCHANGED checksum
       \/ /\ racy_disk.mtime # 0 /\ (force \/ racy_disk.entry # checksum)
          /\ entry' = racy_disk.entry /\ stamp' = racy_disk.mtime /\ checksum' = racy_disk.entry
          /\ window' = racy_disk.window
    /\ UNCHANGED <<clock, workfile, racy_disk, racy_pc, st, changes>>

-----------------------------------------------------------------------------
(* The rest of the world                                                   *)

Tick ==
    /\ clock < MaxTime
    /\ clock' = clock + 1
    /\ UNCHANGED <<workfile, handle, racy_disk, window, changes>>

Modify(c) ==
    /\ changes < MaxChanges /\ c # workfile.content
    /\ workfile' = [content |-> c, mtime |-> clock]
    /\ window' = (window \/ (entry.mtime = clock /\ (entry.uptodate \/ racy_pc = "commit")))
    /\ changes' = changes + 1
    /\ UNCHANGED <<clock, handle, racy_disk>>

OtherAdd ==
    /\ racy_disk.mtime # 0 /\ racy_pc # "commit"
    /\ racy_disk' = [mtime |-> clock,
                entry |-> Entry(workfile.content, workfile.mtime, SizeOf[workfile.content], FALSE),
                window |-> FALSE]
    /\ UNCHANGED <<clock, workfile, handle, window, changes>>

RacyNext ==
    \/ AddStat \/ AddHash \/ DiffStat \/ DiffHash \/ Truncate \/ Commit
    \/ \E force \in BOOLEAN : Read(force)
    \/ Tick \/ OtherAdd
    \/ \E c \in FileContent : Modify(c)

RacySpec == RacyInit /\ [][RacyNext]_racy_vars

-----------------------------------------------------------------------------
(* Properties                                                              *)

Differs == racy_pc = "idle" /\ entry # NoEntry /\ workfile.content # entry.id /\ ~window

(* A file that differs from its entry is reported as modified, however the      *)
(* clock ticks between the changes, the adds, the reads and the writes of the    *)
(* index; a change in the tick of the entry, before the index that holds it is   *)
(* written, is the one that can go unnoticed.                                   *)
ChangesAreSeen == Differs /\ SizeOf[workfile.content] > 0 => Modified
=============================================================================

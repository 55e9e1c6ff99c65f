------------------------------ MODULE Filebuf ------------------------------
(***************************************************************************)
(* The lock-file protocol of src/src/filebuf.c for ONE path: a writer       *)
(* creates "<path>.lock", fills it and renames it over <path>.             *)
(*                                                                         *)
(* Writers are read-modify-write clients, as config_write() and the        *)
(* GIT_FILEBUF_APPEND callers are: what they write is what they read at     *)
(* <path> under the lock, plus one record of their own.  A file is          *)
(* abstracted to the set of records it holds and to how many of its        *)
(* NChunks buffer-fulls have reached the disk.                             *)
(*                                                                         *)
(* Both paths name an inode.  A writer writes through its descriptor, so   *)
(* to the inode it created, wherever that inode is linked by now; unlink   *)
(* and rename act on whatever inode the path names at that moment.         *)
(***************************************************************************)
EXTENDS Naturals, FiniteSets

CONSTANTS
    Proc,       \* the processes that write the path
    NoFile,     \* the path names no inode
    NChunks,    \* how many buffer flushes the content takes
    MaxErrors,  \* bound on the failed system calls of a behaviour
    MaxCrashes  \* bound on its crashes

ASSUME FilebufAssumption ==
    /\ NChunks \in Nat \ {0}
    /\ MaxErrors \in Nat
    /\ MaxCrashes \in Nat

VARIABLES
    flags,      \* the flags that the users of this path open it with
    orig,       \* the inode at path_original
    lock,       \* the inode at path_lock, or NoFile
    fb,         \* fb[p]: the git_filebuf of p
    acked,      \* the processes whose git_filebuf_commit() returned 0
    errors,     \* how many system calls have failed
    crashes     \* how many processes have crashed

vars == <<flags, orig, lock, fb, acked, errors, crashes>>

FORCE == "FORCE" \in flags      \* GIT_FILEBUF_FORCE
APPEND == "APPEND" \in flags    \* GIT_FILEBUF_APPEND
Flags == {"FORCE", "APPEND"}

Inode == [recs : SUBSET Proc, n : 0 .. NChunks, by : Proc, open : BOOLEAN]
ASSUME NoFileAssumption == NoFile \notin Inode

(* The file before any of the modelled writers touched it.                  *)
FirstFile == {f \in Inode : f.recs = {} /\ f.n = NChunks /\ ~f.open}

(* closed: not initialised; create: path_lock was seen absent; load: the    *)
(* lock file is there but created_lock is not set yet; open: writable;      *)
(* rename: flushed and closed by git_filebuf_commit().                      *)
Pc == {"closed", "create", "load", "open", "rename"}
Filebufs == [pc : Pc, recs : SUBSET Proc, n : 0 .. NChunks, last_error : BOOLEAN]
ClosedFilebuf == [pc |-> "closed", recs |-> {}, n |-> 0, last_error |-> FALSE]

(* p is between a successful O_EXCL create and its commit or cleanup.       *)
Holds(p) == fb[p].pc \in {"load", "open", "rename"}

(* The inode f after p's descriptor on it was written to, or closed.        *)
WrittenBy(p, f, recs, n) ==
    IF f # NoFile /\ f.by = p /\ f.open THEN [f EXCEPT !.recs = recs, !.n = n] ELSE f
ClosedBy(p, f) ==
    IF f # NoFile /\ f.by = p THEN [f EXCEPT !.open = FALSE] ELSE f

SyscallFails == errors < MaxErrors /\ errors' = errors + 1

TypeOK ==
    /\ flags \subseteq Flags
    /\ orig \in Inode
    /\ lock \in Inode \cup {NoFile}
    /\ fb \in [Proc -> Filebufs]
    /\ acked \subseteq Proc
    /\ errors \in 0 .. MaxErrors
    /\ crashes \in 0 .. MaxCrashes

Init ==
    /\ flags \in SUBSET Flags
    /\ orig \in FirstFile
    /\ lock = NoFile
    /\ fb = [p \in Proc |-> ClosedFilebuf]
    /\ acked = {}
    /\ errors = 0
    /\ crashes = 0

-----------------------------------------------------------------------------

(* lock_file(), the test of path_lock: GIT_FILEBUF_FORCE removes whatever   *)
(* lock file is there; without it the open fails with GIT_ELOCKED, so this  *)
(* step is not taken and the caller is back where it was.                   *)
Probe(p) ==
    /\ fb[p].pc = "closed" /\ p \notin acked
    /\ lock = NoFile \/ FORCE
    /\ lock' = NoFile
    /\ fb' = [fb EXCEPT ![p].pc = "create"]
    /\ UNCHANGED <<orig, acked, errors, crashes>>

(* git_futils_creat_locked(): O_EXCL creates the lock file, or fails with   *)
(* GIT_ELOCKED because another process was faster; created_lock is not set, *)
(* so the cleanup leaves that process's file alone.                         *)
Create(p) ==
    /\ fb[p].pc = "create"
    /\ \/ /\ lock = NoFile
          /\ lock' = [recs |-> {}, n |-> 0, by |-> p, open |-> TRUE]
          /\ fb' = [fb EXCEPT ![p].pc = "load"]
       \/ /\ lock # NoFile
          /\ fb' = [fb EXCEPT ![p] = ClosedFilebuf]
          /\ UNCHANGED lock
    /\ UNCHANGED <<orig, acked, errors, crashes>>

(* A bug: the old content is not carried over.                              *)
MutLoad(p) ==
    /\ fb[p].pc = "load"
    /\ fb' = [fb EXCEPT ![p] = [pc |-> "open", recs |-> {p}, n |-> 0, last_error |-> FALSE]]
    /\ UNCHANGED <<orig, lock, acked, errors, crashes>>

(* The content at path_original is read under the lock: by lock_file() for  *)
(* GIT_FILEBUF_APPEND, by the client after git_filebuf_open() otherwise.    *)
Load(p) ==
    /\ fb[p].pc = "load"
    /\ fb' = [fb EXCEPT ![p] = [pc |-> "open", recs |-> orig.recs \cup {p}, n |-> 0,
                                last_error |-> FALSE]]
    /\ UNCHANGED <<orig, lock, acked, errors, crashes>>

(* git_filebuf_cleanup() with created_lock set: close, and unlink whatever  *)
(* path_lock names.                                                         *)
CleanupOf(p) ==
    /\ fb' = [fb EXCEPT ![p] = ClosedFilebuf]
    /\ lock' = NoFile
    /\ orig' = ClosedBy(p, orig)

(* That read fails.  Inside lock_file() created_lock is not set yet, so the *)
(* cleanup of git_filebuf_open_withsize() leaves the lock file behind; a    *)
(* client that reads after the open cleans up with created_lock set.        *)
LoadFail(p) ==
    /\ fb[p].pc = "load"
    /\ SyscallFails
    /\ \/ /\ APPEND
          /\ fb' = [fb EXCEPT ![p] = ClosedFilebuf]
          /\ lock' = ClosedBy(p, lock)
          /\ orig' = ClosedBy(p, orig)
       \/ ~APPEND /\ CleanupOf(p)
    /\ UNCHANGED <<acked, crashes>>

(* A bug: a failed write is not remembered and counts as done.              *)
MutFlush(p) ==
    /\ fb[p].pc = "open" /\ fb[p].n < NChunks
    /\ fb' = [fb EXCEPT ![p].n = @ + 1]
    /\ \/ /\ lock' = WrittenBy(p, lock, fb[p].recs, fb'[p].n)
          /\ orig' = WrittenBy(p, orig, fb[p].recs, fb'[p].n)
          /\ UNCHANGED errors
       \/ SyscallFails /\ UNCHANGED <<lock, orig>>
    /\ UNCHANGED <<acked, crashes>>

(* flush_buffer(): one more buffer-full goes through the descriptor, unless *)
(* the write fails, which last_error remembers.                             *)
Flush(p) ==
    /\ fb[p].pc = "open" /\ fb[p].n < NChunks /\ ~fb[p].last_error
    /\ \/ /\ fb' = [fb EXCEPT ![p].n = @ + 1]
          /\ lock' = WrittenBy(p, lock, fb[p].recs, fb[p].n + 1)
          /\ orig' = WrittenBy(p, orig, fb[p].recs, fb[p].n + 1)
          /\ UNCHANGED errors
       \/ /\ SyscallFails
          /\ fb' = [fb EXCEPT ![p].last_error = TRUE]
          /\ UNCHANGED <<lock, orig>>
    /\ UNCHANGED <<acked, crashes>>

(* git_filebuf_commit() up to the rename: everything is flushed, no write   *)
(* has failed (verify_last_error) and the descriptor closes.                *)
CloseFd(p) ==
    /\ fb[p].pc = "open" /\ fb[p].n = NChunks /\ ~fb[p].last_error
    /\ fb' = [fb EXCEPT ![p].pc = "rename"]
    /\ lock' = ClosedBy(p, lock)
    /\ orig' = ClosedBy(p, orig)
    /\ UNCHANGED <<acked, errors, crashes>>

(* p_rename(path_lock, path_original).                                      *)
Rename(p) ==
    /\ fb[p].pc = "rename"
    /\ lock # NoFile
    /\ orig' = lock
    /\ lock' = NoFile
    /\ acked' = acked \cup {p}
    /\ fb' = [fb EXCEPT ![p] = ClosedFilebuf]
    /\ UNCHANGED <<errors, crashes>>

(* A bug: a failed write keeps the file from being abandoned.               *)
MutCleanupStuck(p) ==
    /\ fb[p].pc = "open" /\ ~fb[p].last_error
    /\ CleanupOf(p)
    /\ UNCHANGED <<acked, errors, crashes>>

(* The on_error path of git_filebuf_commit(), and git_filebuf_cleanup()     *)
(* called by a client that abandons the file.                               *)
Cleanup(p) ==
    /\ fb[p].pc = "open"
    /\ CleanupOf(p)
    /\ UNCHANGED <<acked, errors, crashes>>

(* The rename (or the close before it) fails; so it does when path_lock is  *)
(* gone.                                                                    *)
RenameFail(p) ==
    /\ fb[p].pc = "rename"
    /\ (lock = NoFile /\ UNCHANGED errors) \/ SyscallFails
    /\ CleanupOf(p)
    /\ UNCHANGED <<acked, crashes>>

(* The process dies and is restarted.  Its lock file stays.                 *)
Crash(p) ==
    /\ fb[p].pc # "closed"
    /\ crashes < MaxCrashes /\ crashes' = crashes + 1
    /\ fb' = [fb EXCEPT ![p] = ClosedFilebuf]
    /\ lock' = ClosedBy(p, lock)
    /\ orig' = ClosedBy(p, orig)
    /\ UNCHANGED <<acked, errors>>

Work(p) ==
    /\ \/ Create(p) \/ Load(p) \/ LoadFail(p) \/ Flush(p)
       \/ CloseFd(p) \/ Rename(p) \/ Cleanup(p) \/ RenameFail(p)
    /\ UNCHANGED flags

Next == \E p \in Proc : Work(p) \/ ((Probe(p) \/ Crash(p)) /\ UNCHANGED flags)

Spec == Init /\ [][Next]_vars

(* A process inside a filebuf call is scheduled until it returns.           *)
FairSpec == Spec /\ \A p \in Proc : WF_vars(Work(p))

-----------------------------------------------------------------------------

(* Without GIT_FILEBUF_FORCE the lock file excludes: no two processes are   *)
(* between their O_EXCL create and their commit or cleanup at once          *)
(* (lock_file, git_filebuf_commit).                                         *)
Exclusive ==
    ~FORCE => \A p, q \in Proc : Holds(p) /\ Holds(q) => p = q

(* Without FORCE a reader that opens the path at any moment, also between   *)
(* failed writes and after a crash, finds a file some process wrote to its  *)
(* end (flush_buffer's sticky last_error, and the rename in                 *)
(* git_filebuf_commit).                                                     *)
AlwaysComplete == ~FORCE => orig.n = NChunks /\ ~orig.open

(* Without FORCE every update whose git_filebuf_commit() returned 0 is in   *)
(* the file for good: nobody commits on top of content read before it.      *)
NoLostUpdate == ~FORCE => acked \subseteq orig.recs

(* The whole protocol is an atomic replacement of the file: without FORCE   *)
(* all that a reader of path_original ever sees of the locking, the         *)
(* buffering, the failed calls and the crashes of its writers is one        *)
(* acknowledged update after another, each on top of the one before it      *)
(* (git_filebuf_open, git_filebuf_commit, git_filebuf_cleanup).             *)
File == INSTANCE AtomicFile WITH
            file <- [recs |-> orig.recs, whole |-> orig.n = NChunks /\ ~orig.open],
            forced <- FORCE
ImplementsFile == File!Spec

(* With or without FORCE, when no process is inside a filebuf call, no lock *)
(* file is left, whatever system calls failed: only a crash leaves one, or  *)
(* the failed copy of GIT_FILEBUF_APPEND (git_filebuf_cleanup).             *)
NoLeakedLock ==
    crashes = 0 /\ ~APPEND /\ (\A p \in Proc : fb[p].pc = "closed") => lock = NoFile

(* With the same two exceptions every lock file goes away again: a writer   *)
(* that holds it commits or cleans up, also when its calls fail.            *)
LockReleased ==
    ~APPEND => ((lock # NoFile) ~> (lock = NoFile \/ crashes > 0))

=============================================================================

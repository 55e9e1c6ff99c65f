----------------------------- MODULE ConfigFile -----------------------------
(***************************************************************************)
(* One handle on a configuration file (src/src/config_file.c): values read  *)
(* into memory, refreshed when the contents of a file that was read have    *)
(* changed, written back under a lock file, alone or in a transaction       *)
(* (git_config_lock()), while another process writes under the same lock     *)
(* and somebody edits the file by hand.                                     *)
(*                                                                         *)
(* A checksum is the text it was computed from.  A backend reads its file,   *)
(* readers[1], and every file that is included, in the order met.            *)
(***************************************************************************)
EXTENDS ConfigText, Integers

CONSTANTS
    NoFile,
    Texts,       \* the texts that the file may have at first
    Included,    \* the text of the file that it may include
    ByHand,      \* what an editor may leave: a text, or no file
    MaxForeign,  \* bound on the changes that others make
    MaxCalls     \* bound on the calls that write

VARIABLES
    disk,        \* the text of the file, or NoFile
    lock,        \* who has the lock file: "me", "other" or "free"
    readers,     \* b->readers: the file each reads, its checksum, its buffer
    values,      \* b->header.values
    locked, locked_content, \* inside config_lock(): TRUE, and its text
    pc, op,      \* where the handle is, and the write it is about
    failed,      \* the last refresh that found a change returned an error
    sets,        \* history: the keys written since the lock was taken
    doubled,     \* history: a write of the transaction found text in its buffer
    done,        \* history: the last write that succeeded, until others change
                 \* the file; none if the handle was not up to date and skipped it
    foreign, calls

handle == <<readers, values, locked, locked_content, failed>>
transaction == <<sets, doubled>>
vars == <<disk, lock, handle, pc, op, transaction, done, foreign, calls>>

NoOp == [key |-> NoValue, multi |-> FALSE, preg |-> {}, value |-> NoValue]

ReaderOf(file, checksum, buffer) == [file |-> file, checksum |-> checksum, buffer |-> buffer]

(* read_on_variable(): an include adds a reader, whose buffer is freed.      *)
IncludeReaders(text) ==
    IF <<"include">> \in Range(text) THEN <<ReaderOf("included", Included, <<>>)>> ELSE <<>>

(* config_open(): the file need not exist.                                   *)
Init ==
    /\ disk \in Texts \cup {NoFile} /\ lock = "free"
    /\ readers = <<ReaderOf("main", disk, <<>>)>>
                 \o (IF disk = NoFile THEN <<>> ELSE IncludeReaders(disk))
    /\ values = IF disk = NoFile THEN NoVars ELSE Values(Expand(disk, Included))
    /\ locked = FALSE /\ locked_content = <<>>
    /\ pc = "idle" /\ op = NoOp
    /\ failed = FALSE /\ sets = {} /\ doubled = FALSE /\ done = NoOp
    /\ foreign = 0 /\ calls = 0

-----------------------------------------------------------------------------
(* Refreshing                                                              *)

(* git_futils_readbuffer_updated(): the buffer and the checksum of a reader   *)
(* whose file is there and has changed                                        *)
Updated(r) == r.file = "main" /\ disk \notin {NoFile, r.checksum}

ReadBuffer(r) == IF Updated(r) THEN ReaderOf(r.file, disk, disk) ELSE r

(* config_refresh() looks at every reader; when one was updated, it parses     *)
(* the buffer of the last and frees it.  An error leaves the values alone.    *)
ConfigRefresh ==
    LET read == [j \in DOMAIN readers |-> ReadBuffer(readers[j])]
        n == Len(readers)
        new == ConfigRead(Expand(read[n].buffer, Included))
    IN  IF read = readers THEN UNCHANGED <<readers, values, failed>>
        ELSE /\ readers' = Front(read) \o << [read[n] EXCEPT !.buffer = <<>>] >>
                           \o IncludeReaders(read[n].buffer)
             /\ values' = IF new.ok THEN new.values ELSE values
             /\ failed' = ~new.ok

(* config_get(), config_iterator_new() and config_readonly_open()            *)
Get ==
    /\ pc = "idle"
    /\ ConfigRefresh
    /\ UNCHANGED <<disk, lock, locked, locked_content, pc, op, transaction, done, foreign, calls>>

-----------------------------------------------------------------------------
(* Writing                                                                 *)

(* config_set() and config_delete() look at the values in memory, as they    *)
(* are, before they write: several values, or none to delete, are an error,  *)
(* and nothing is written when the value is the one that is set.             *)
Refused(w) ==
    \/ ~w.multi /\ Len(values[w.key]) > 1
    \/ w.value = NoValue /\ values[w.key] = <<>>

(* A bug: the values are not compared.                                        *)
MutSame(w) == ~w.multi /\ w.value # NoValue /\ values[w.key] # <<>>

Same(w) == ~w.multi /\ w.value # NoValue /\ values[w.key] = <<w.value>>

Content == IF disk = NoFile THEN <<>> ELSE disk

(* A bug: what is written back is what was read before, not what is there.   *)
MutBasis == IF locked THEN locked_content
            ELSE IF readers[1].checksum = NoFile THEN <<>> ELSE readers[1].checksum

(* The text that config_write() parses: the file as it is, now that it is     *)
(* locked, or behind what the buffer still holds the text of a transaction.   *)
Basis == IF locked THEN readers[1].buffer \o locked_content ELSE Content

UpToDate == readers[1].checksum = disk /\ ~failed

(* A file that somebody else has locked is an error, after which the buffer   *)
(* is freed.                                                                  *)
Call(w) ==
    /\ pc = "idle" /\ calls < MaxCalls
    /\ calls' = calls + 1
    /\ done' = IF ~Refused(w) /\ Same(w) /\ UpToDate THEN w ELSE NoOp
    /\ \/ /\ Refused(w) \/ Same(w)
          /\ UNCHANGED <<lock, pc, op, readers>>
       \/ /\ ~Refused(w) /\ ~Same(w) /\ (locked \/ lock = "free")
          /\ lock' = "me" /\ pc' = "write" /\ op' = w
          /\ UNCHANGED readers
       \/ /\ ~Refused(w) /\ ~Same(w) /\ ~locked /\ lock # "free"
          /\ readers' = [readers EXCEPT ![1].buffer = <<>>]
          /\ UNCHANGED <<lock, pc, op>>
    /\ UNCHANGED <<disk, values, locked, locked_content, failed, transaction, foreign>>

(* config_write() holds the lock, and commits unless in a transaction.        *)
Write ==
    /\ pc = "write"
    /\ LET text == ConfigWrite(Basis, op)
       IN  IF locked THEN /\ locked_content' = text
                          /\ sets' = sets \cup {op.key}
                          /\ doubled' = (doubled \/ readers[1].buffer # <<>>)
                          /\ UNCHANGED <<disk, lock>>
           ELSE disk' = text /\ lock' = "free" /\ UNCHANGED <<locked_content, transaction>>
    /\ readers' = [readers EXCEPT ![1].buffer = <<>>]
    /\ pc' = "refresh" /\ done' = op
    /\ UNCHANGED <<values, locked, failed, op, foreign, calls>>

AfterWrite ==
    /\ pc = "refresh"
    /\ ConfigRefresh
    /\ done' = IF failed' /\ readers' # readers THEN NoOp ELSE done
    /\ pc' = "idle" /\ op' = NoOp
    /\ UNCHANGED <<disk, lock, locked, locked_content, transaction, foreign, calls>>

-----------------------------------------------------------------------------
(* config_lock() and config_unlock()                                       *)

Lock ==
    /\ pc = "idle" /\ ~locked /\ lock = "free" /\ calls < MaxCalls
    /\ lock' = "me" /\ locked' = TRUE /\ locked_content' = Content
    /\ sets' = {} /\ doubled' = FALSE /\ calls' = calls + 1
    /\ UNCHANGED <<disk, readers, values, failed, pc, op, done, foreign>>

Unlock(success) ==
    /\ pc = "idle" /\ locked
    /\ disk' = IF success THEN locked_content ELSE disk
    /\ lock' = "free" /\ locked' = FALSE /\ locked_content' = <<>>
    /\ done' = NoOp
    /\ UNCHANGED <<readers, values, failed, pc, op, transaction, foreign, calls>>

-----------------------------------------------------------------------------
(* The others                                                              *)

OtherLock ==
    /\ lock = "free" /\ foreign < MaxForeign
    /\ lock' = "other"
    /\ UNCHANGED <<disk, handle, pc, op, transaction, done, foreign, calls>>

OtherWrite(w) ==
    /\ lock = "other"
    /\ disk' = ConfigWrite(Content, w)
    /\ lock' = "free" /\ foreign' = foreign + 1
    /\ done' = NoOp
    /\ UNCHANGED <<handle, pc, op, transaction, calls>>

(* An editor does not take the lock, but nobody edits while it is held.      *)
Edit(text) ==
    /\ lock = "free" /\ foreign < MaxForeign
    /\ disk' = text
    /\ foreign' = foreign + 1
    /\ done' = NoOp
    /\ UNCHANGED <<lock, handle, pc, op, transaction, calls>>

Writes ==
    [key : Key, multi : {FALSE}, preg : {{}}, value : Value \cup {NoValue}]
    \cup [key : Key, multi : {TRUE}, preg : {Value}, value : Value \cup {NoValue}]

Next ==
    \/ Get \/ Write \/ AfterWrite \/ Lock \/ OtherLock
    \/ \E w \in Writes : Call(w) \/ OtherWrite(w)
    \/ \E success \in BOOLEAN : Unlock(success)
    \/ \E text \in ByHand \cup {NoFile} : Edit(text)

Spec == Init /\ [][Next]_vars

-----------------------------------------------------------------------------
(* Properties                                                              *)

Committed == lock = "me" /\ lock' = "free" /\ disk' # disk
Touched == IF locked THEN sets ELSE {op.key}

(* A set, a delete or a transaction that is committed leaves every variable   *)
(* alone that it was not called for, also when another process changed the    *)
(* file after it was read, and in a file that includes another, as long as    *)
(* the file parses.  Not so a transaction one of whose writes went behind      *)
(* text that a refresh left in the buffer of readers[1] (doubled): the refresh *)
(* of a file with includes frees the buffer of the last reader only, and       *)
(* config_write() appends to the other.  A file that includes none never        *)
(* meets that case.                                                            *)
WriteKeepsOthers ==
    [][/\ doubled' => Len(readers) > 1
       /\ Committed /\ Parses(Content) /\ ~(locked /\ doubled) =>
             \A k \in Key \ Touched : Values(disk')[k] = Values(Content)[k]]_vars

(* A set or a delete outside of a transaction that returned success, on a     *)
(* handle that had read the file as it is if nothing was written, has taken   *)
(* effect: in the file and for the next get.  Only for a file that includes    *)
(* no other: the refresh after a write to one that does parses the last file   *)
(* that was read, not the one that was written.                                *)
SetTakesEffect ==
    (pc = "idle" /\ done # NoOp /\ ~locked /\ ~done.multi /\ Len(readers) = 1) =>
        /\ Values(Content)[done.key] = Wanted(<<>>, done)
        /\ values[done.key] = Wanted(<<>>, done)

(* Unless the last refresh that found a change returned an error, a handle on *)
(* a file that includes no other serves the values of the text whose checksum *)
(* it keeps.                                                                  *)
ServesWhatItRead ==
    (~failed /\ Len(readers) = 1 /\ readers[1].checksum # NoFile) =>
        values = Values(readers[1].checksum)

(* What git_config_get() serves is what was last read, and what a successful  *)
(* git_config_set() wrote.                                                    *)
ServesTheFile == SetTakesEffect /\ ServesWhatItRead
=============================================================================

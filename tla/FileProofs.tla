----------------------------- MODULE FileProofs -----------------------------
(***************************************************************************)
(* Proofs for the files that processes share without a server: the lock    *)
(* files (Filebuf.tla), the test for modified files by which an index keeps *)
(* up with the working directory (RacyIndex.tla), and the loose objects and *)
(* packs of the object database (Odb.tla).                                 *)
(***************************************************************************)
EXTENDS Filebuf, RacyIndex, Odb, TLAPS

(* What makes Exclusive, AlwaysComplete and NoLostUpdate inductive without  *)
(* FORCE: a holder's lock file is the one at path_lock, it holds exactly    *)
(* what the holder has flushed, and what the holder will commit extends     *)
(* what is at path_original now.                                            *)
Held(p) ==
    Holds(p) =>
        /\ lock # NoFile
        /\ lock.by = p
        /\ fb[p].pc = "rename" => lock.open = FALSE
        /\ fb[p].pc # "rename" => lock.open = TRUE
        /\ lock.n = fb[p].n

Loaded(p) ==
    /\ fb[p].pc \in {"open", "rename"} =>
          /\ fb[p].recs = orig.recs \cup {p}
          /\ fb[p].n > 0 => lock.recs = fb[p].recs
    /\ fb[p].pc = "rename" => fb[p].n = NChunks
    /\ fb[p].pc \notin {"open", "rename"} => fb[p].n = 0

Disk == orig.n = NChunks /\ orig.open = FALSE /\ acked \subseteq orig.recs

PlainInv == ~FORCE => Disk /\ \A p \in Proc : Held(p) /\ Loaded(p)

(* The inductive form of NoLeakedLock.                                      *)
LockHasHolder == crashes = 0 /\ ~APPEND /\ lock # NoFile => \E p \in Proc : Holds(p)

-----------------------------------------------------------------------------

(* The flags of a path never change.                                        *)
LEMMA FlagsStep == [Next]_vars => flags' = flags
BY Zenon DEF Next, Work, vars

(* Writing to an inode, or closing a descriptor on it, leaves an inode.     *)
LEMMA WrittenInode ==
    ASSUME NEW p \in Proc, NEW f \in Inode,
           NEW recs \in SUBSET Proc, NEW n \in 0 .. NChunks
    PROVE  WrittenBy(p, f, recs, n) \in Inode
BY Zenon DEF Inode, WrittenBy

(* Closing the descriptor of a file leaves a file.                         *)
LEMMA ClosedInode ==
    ASSUME NEW p \in Proc, NEW f \in Inode
    PROVE  ClosedBy(p, f) \in Inode
BY Zenon DEF Inode, ClosedBy

(* TypeOK is inductive: every step of filebuf.c keeps the files, the        *)
(* git_filebufs and the counters within their types.                        *)
LEMMA TypeStep == TypeOK /\ [Next]_vars => TypeOK'
<1> SUFFICES ASSUME TypeOK, [Next]_vars PROVE TypeOK'
  BY Zenon
<1> USE FilebufAssumption, NoFileAssumption
<1>f. flags' = flags
  BY FlagsStep, Zenon
<1> USE <1>f
<1>0. ClosedFilebuf \in Filebufs
  BY DEF ClosedFilebuf, Filebufs, Pc
<1>1. ASSUME NEW p \in Proc, Probe(p) PROVE TypeOK'
  BY <1>1 DEF Probe, TypeOK, Filebufs, Pc
<1>2. ASSUME NEW p \in Proc, Create(p) PROVE TypeOK'
  <2>1. [recs |-> {}, n |-> 0, by |-> p, open |-> TRUE] \in Inode
    BY DEF Inode
  <2>2. [fb EXCEPT ![p].pc = "load"] \in [Proc -> Filebufs]
    BY DEF TypeOK, Filebufs, Pc
  <2>3. [fb EXCEPT ![p] = ClosedFilebuf] \in [Proc -> Filebufs]
    BY <1>0, Zenon DEF TypeOK
  <2>4. QED
    BY <1>2, <2>1, <2>2, <2>3, Zenon DEF Create, TypeOK
<1>3. ASSUME NEW p \in Proc, Load(p) PROVE TypeOK'
  <2>1. orig.recs \cup {p} \in SUBSET Proc
    BY Zenon DEF TypeOK, Inode
  <2>2. [pc |-> "open", recs |-> orig.recs \cup {p}, n |-> 0, last_error |-> FALSE]
            \in Filebufs
    BY <2>1 DEF Filebufs, Pc
  <2>3. QED
    BY <1>3, <2>2, Zenon DEF Load, TypeOK
<1>4. ASSUME NEW p \in Proc, LoadFail(p) PROVE TypeOK'
  <2>1. ClosedBy(p, orig) \in Inode /\ ClosedBy(p, lock) \in Inode \cup {NoFile}
    BY Zenon DEF TypeOK, ClosedBy, Inode
  <2>2. [fb EXCEPT ![p] = ClosedFilebuf] \in [Proc -> Filebufs]
    BY <1>0, Zenon DEF TypeOK
  <2>3. fb' = [fb EXCEPT ![p] = ClosedFilebuf] /\ orig' = ClosedBy(p, orig)
    BY <1>4, Zenon DEF LoadFail, CleanupOf
  <2>4. lock' \in Inode \cup {NoFile}
    BY <1>4, <2>1, Zenon DEF LoadFail, CleanupOf
  <2>5. errors' \in 0 .. MaxErrors /\ UNCHANGED <<acked, crashes>>
    BY <1>4 DEF LoadFail, SyscallFails, TypeOK
  <2>6. QED
    BY <2>1, <2>2, <2>3, <2>4, <2>5, Zenon DEF TypeOK
<1>5. ASSUME NEW p \in Proc, Flush(p) PROVE TypeOK'
  <2>1. fb[p] \in Filebufs /\ fb[p].recs \in SUBSET Proc /\ fb[p].n + 1 \in 0 .. NChunks
    BY <1>5 DEF Flush, TypeOK, Filebufs
  <2>2. WrittenBy(p, orig, fb[p].recs, fb[p].n + 1) \in Inode
    BY <2>1, Zenon DEF TypeOK, WrittenBy, Inode
  <2>3. WrittenBy(p, lock, fb[p].recs, fb[p].n + 1) \in Inode \cup {NoFile}
    BY <2>1, Zenon DEF TypeOK, WrittenBy, Inode
  <2>4. /\ [fb EXCEPT ![p].n = @ + 1] \in [Proc -> Filebufs]
        /\ [fb EXCEPT ![p].last_error = TRUE] \in [Proc -> Filebufs]
    BY <2>1, Zenon DEF TypeOK, Filebufs
  <2>5. errors' \in 0 .. MaxErrors /\ UNCHANGED <<acked, crashes>>
    BY <1>5 DEF Flush, SyscallFails, TypeOK
  <2>6. QED
    BY <1>5, <2>2, <2>3, <2>4, <2>5, Zenon DEF Flush, TypeOK
<1>6. ASSUME NEW p \in Proc, CloseFd(p) PROVE TypeOK'
  <2>1. ClosedBy(p, orig) \in Inode /\ ClosedBy(p, lock) \in Inode \cup {NoFile}
    BY Zenon DEF TypeOK, ClosedBy, Inode
  <2>2. QED
    BY <1>6, <2>1 DEF CloseFd, TypeOK, Filebufs, Pc
<1>7. ASSUME NEW p \in Proc, Rename(p) PROVE TypeOK'
  BY <1>0, <1>7, Zenon DEF Rename, TypeOK
<1>8. ASSUME NEW p \in Proc, Cleanup(p) \/ RenameFail(p) PROVE TypeOK'
  <2>1. ClosedBy(p, orig) \in Inode
    BY Zenon DEF TypeOK, ClosedBy, Inode
  <2>2. QED
    BY <1>0, <1>8, <2>1 DEF Cleanup, RenameFail, CleanupOf, SyscallFails, TypeOK
<1>9. ASSUME NEW p \in Proc, Crash(p) PROVE TypeOK'
  <2>1. ClosedBy(p, orig) \in Inode /\ ClosedBy(p, lock) \in Inode \cup {NoFile}
    BY Zenon DEF TypeOK, ClosedBy, Inode
  <2>2. QED
    BY <1>0, <1>9, <2>1 DEF Crash, TypeOK
<1>10. CASE UNCHANGED vars
  BY <1>10, Zenon DEF vars, TypeOK
<1>11. QED
  BY <1>1, <1>2, <1>3, <1>4, <1>5, <1>6, <1>7, <1>8, <1>9, <1>10, Zenon DEF Next, Work

(* The types hold before the first open.                                   *)
LEMMA TypeInit == Init => TypeOK
<1> SUFFICES ASSUME Init PROVE TypeOK
  BY Zenon
<1> USE FilebufAssumption
<1>1. orig \in Inode
  BY Zenon DEF Init, FirstFile
<1>2. fb \in [Proc -> Filebufs]
  BY DEF Init, ClosedFilebuf, Filebufs, Pc
<1>3. QED
  BY <1>1, <1>2 DEF Init, TypeOK

(* The files and the git_filebufs always have their types.                  *)
THEOREM TypeCorrect == Spec => []TypeOK
BY TypeInit, TypeStep, PTL DEF Spec

-----------------------------------------------------------------------------

(* LockHasHolder is inductive: only the steps of a holder, Probe and a      *)
(* crash take a holder away, and each of them unlinks path_lock or crashes. *)
LEMMA HolderStep == TypeOK /\ LockHasHolder /\ [Next]_vars => LockHasHolder'
<1> SUFFICES ASSUME TypeOK, LockHasHolder, [Next]_vars,
                    (crashes = 0 /\ ~APPEND /\ lock # NoFile)'
             PROVE  \E p \in Proc : Holds(p)'
  BY Zenon DEF LockHasHolder
<1> USE FilebufAssumption
<1>f. ~APPEND
  BY FlagsStep, Zenon DEF APPEND
<1> USE <1>f
<1>1. ASSUME NEW p \in Proc, Probe(p) \/ LoadFail(p) \/ Rename(p) \/ Cleanup(p)
                             \/ RenameFail(p) \/ Crash(p)
      PROVE  FALSE
  BY <1>1 DEF Probe, LoadFail, Rename, Cleanup, RenameFail, CleanupOf, Crash, TypeOK
<1>2. ASSUME NEW p \in Proc, Create(p) PROVE \E q \in Proc : Holds(q)'
  <2>1. CASE lock = NoFile
    BY <1>2, <2>1 DEF Create, TypeOK, Holds, Filebufs
  <2>2. CASE lock # NoFile
    <3>1. PICK q \in Proc : Holds(q)
      BY <1>2, <2>2, Zenon DEF Create, LockHasHolder
    <3>2. Holds(q)'
      BY <1>2, <2>2, <3>1, Zenon DEF Create, Holds, TypeOK
    <3>3. QED
      BY <3>2, Zenon
  <2>3. QED
    BY <2>1, <2>2, Zenon
<1>3. ASSUME NEW p \in Proc, Load(p) \/ Flush(p) \/ CloseFd(p)
      PROVE  \E q \in Proc : Holds(q)'
  <2>1. Holds(p)'
    BY <1>3 DEF Load, Flush, CloseFd, Holds, TypeOK, Filebufs
  <2>2. QED
    BY <2>1, Zenon
<1>4. CASE UNCHANGED vars
  BY <1>4, Zenon DEF vars, LockHasHolder, Holds
<1>5. QED
  BY <1>1, <1>2, <1>3, <1>4, Zenon DEF Next, Work

(* Only a crash, or the failed copy of GIT_FILEBUF_APPEND, leaves a lock    *)
(* file behind once every writer is out of filebuf.c.                       *)
THEOREM LockNotLeaked == Spec => []NoLeakedLock
<1>1. Init => LockHasHolder
  BY Zenon DEF Init, LockHasHolder
<1>2. LockHasHolder => NoLeakedLock
  BY Zenon DEF LockHasHolder, NoLeakedLock, Holds
<1>3. QED
  BY <1>1, <1>2, HolderStep, TypeCorrect, PTL DEF Spec

-----------------------------------------------------------------------------

(* PlainInv is inductive: the O_EXCL create makes the lock file's inode the *)
(* holder's own, and nobody but the holder touches the two files until it   *)
(* renames or unlinks.                                                      *)
LEMMA PlainStep == TypeOK /\ PlainInv /\ [Next]_vars => PlainInv'
<1> SUFFICES ASSUME TypeOK, ~FORCE, Disk, \A p \in Proc : Held(p) /\ Loaded(p),
                    [Next]_vars
             PROVE  Disk' /\ \A q \in Proc : Held(q)' /\ Loaded(q)'
  BY FlagsStep, Zenon DEF PlainInv, FORCE
<1> USE FilebufAssumption, NoFileAssumption
<1>1. ASSUME NEW p \in Proc, Probe(p)
      PROVE  Disk' /\ \A q \in Proc : Held(q)' /\ Loaded(q)'
  BY <1>1 DEF Probe, TypeOK, Filebufs, Disk, Held, Loaded, Holds
<1>2. ASSUME NEW p \in Proc, Create(p)
      PROVE  Disk' /\ \A q \in Proc : Held(q)' /\ Loaded(q)'
  <2>1. Disk' /\ \A q \in Proc : q # p => fb'[q] = fb[q]
    BY <1>2, Zenon DEF Create, Disk, TypeOK
  <2>2. CASE lock = NoFile
    <3>1. /\ fb'[p].pc = "load" /\ fb'[p].n = 0
          /\ lock' = [recs |-> {}, n |-> 0, by |-> p, open |-> TRUE]
      BY <1>2, <2>2 DEF Create, TypeOK, Filebufs, Loaded
    <3>2. lock' # NoFile
      <4>1. [recs |-> {}, n |-> 0, by |-> p, open |-> TRUE] \in Inode
        BY DEF Inode
      <4>2. QED
        BY <3>1, <4>1, Zenon
    <3>3. QED
      BY <1>2, <2>1, <2>2, <3>1, <3>2 DEF Create, Held, Loaded, Holds
  <2>3. CASE lock # NoFile
    <3>1. fb'[p] = ClosedFilebuf /\ UNCHANGED <<lock, orig>>
      BY <1>2, <2>3, Zenon DEF Create, TypeOK
    <3>2. QED
      BY <2>1, <3>1 DEF Held, Loaded, Holds, ClosedFilebuf
  <2>4. QED
    BY <2>2, <2>3, Zenon
<1>3. ASSUME NEW p \in Proc, Load(p)
      PROVE  Disk' /\ \A q \in Proc : Held(q)' /\ Loaded(q)'
  BY <1>3 DEF Load, TypeOK, Filebufs, Disk, Held, Loaded, Holds
<1>4. ASSUME NEW p \in Proc, LoadFail(p)
      PROVE  Disk' /\ \A q \in Proc : Held(q)' /\ Loaded(q)'
  BY <1>4 DEF LoadFail, CleanupOf, ClosedBy, TypeOK, Inode, Filebufs, ClosedFilebuf,
              Disk, Held, Loaded, Holds
<1>5. ASSUME NEW p \in Proc, Flush(p)
      PROVE  Disk' /\ \A q \in Proc : Held(q)' /\ Loaded(q)'
  <2>1. /\ lock # NoFile /\ lock \in Inode /\ lock.by = p /\ lock.open
        /\ \A q \in Proc : q # p => ~Holds(q) /\ fb'[q] = fb[q]
    <3>1. Holds(p) /\ fb[p].pc = "open"
      BY <1>5, Zenon DEF Flush, Holds
    <3>2. lock # NoFile /\ lock.by = p /\ lock.open = TRUE
      BY <3>1, Zenon DEF Held
    <3>3. \A q \in Proc : q # p => ~Holds(q)
      BY <3>2, Zenon DEF Held
    <3>4. \A q \in Proc : q # p => fb'[q] = fb[q]
      BY <1>5, Zenon DEF Flush, TypeOK
    <3>5. QED
      BY <3>2, <3>3, <3>4, Zenon DEF TypeOK
  <2>2. orig' = orig /\ Disk'
    BY <1>5, Zenon DEF Flush, WrittenBy, Disk, TypeOK
  <2>3. \A q \in Proc : q # p => Held(q)' /\ Loaded(q)'
    BY <2>1, <2>2 DEF Held, Loaded, Holds
  <2>4. Held(p)' /\ Loaded(p)'
    <3>1. CASE fb' = [fb EXCEPT ![p].last_error = TRUE] /\ UNCHANGED <<lock, orig>>
      BY <1>5, <3>1 DEF Flush, Held, Loaded, Holds, TypeOK, Filebufs
    <3>2. CASE /\ fb' = [fb EXCEPT ![p].n = @ + 1]
               /\ lock' = WrittenBy(p, lock, fb[p].recs, fb[p].n + 1)
      <4>1. /\ fb'[p].pc = "open" /\ fb'[p].n = fb[p].n + 1
            /\ fb'[p].recs = fb[p].recs
        BY <1>5, <3>2 DEF Flush, TypeOK, Filebufs
      <4>2. lock' = [lock EXCEPT !.recs = fb[p].recs, !.n = fb[p].n + 1]
        BY <2>1, <3>2, Zenon DEF WrittenBy
      <4>3. /\ lock'.by = p /\ lock'.open = TRUE /\ lock'.recs = fb[p].recs
            /\ lock'.n = fb[p].n + 1
        BY <2>1, <4>2, Zenon DEF Inode
      <4>4. lock' # NoFile
        <5>1. fb[p].recs \in SUBSET Proc /\ fb[p].n + 1 \in 0 .. NChunks
          BY <1>5 DEF Flush, TypeOK, Filebufs
        <5>2. QED
          BY <2>1, <3>2, <5>1, WrittenInode
      <4>5. QED
        BY <1>5, <2>2, <4>1, <4>3, <4>4, Zenon DEF Flush, Held, Loaded, Holds
    <3>3. QED
      BY <1>5, <3>1, <3>2, Zenon DEF Flush
  <2>5. QED
    BY <2>2, <2>3, <2>4, Zenon
<1>6. ASSUME NEW p \in Proc, CloseFd(p)
      PROVE  Disk' /\ \A q \in Proc : Held(q)' /\ Loaded(q)'
  <2>1. /\ lock # NoFile /\ lock \in Inode /\ lock.by = p
        /\ \A q \in Proc : q # p => ~Holds(q) /\ fb'[q] = fb[q]
    BY <1>6 DEF CloseFd, TypeOK, Held, Holds
  <2>2. orig' = orig /\ Disk'
    BY <1>6 DEF CloseFd, ClosedBy, Disk, TypeOK, Inode
  <2>3. \A q \in Proc : q # p => Held(q)' /\ Loaded(q)'
    BY <2>1, <2>2 DEF Held, Loaded, Holds
  <2>4. /\ fb'[p].pc = "rename" /\ fb'[p].n = NChunks /\ fb[p].n = NChunks
        /\ fb'[p].recs = fb[p].recs /\ fb[p].pc = "open"
    BY <1>6 DEF CloseFd, TypeOK, Filebufs
  <2>5. /\ lock' # NoFile /\ lock'.by = p /\ lock'.open = FALSE
        /\ lock'.recs = lock.recs /\ lock'.n = lock.n
    <3>1. lock' = [lock EXCEPT !.open = FALSE]
      BY <1>6, <2>1, Zenon DEF CloseFd, ClosedBy
    <3>2. lock' # NoFile
      <4>1. ClosedBy(p, lock) \in Inode
        BY <2>1, ClosedInode, Zenon
      <4>2. QED
        BY <1>6, <4>1, Zenon DEF CloseFd
    <3>3. QED
      BY <2>1, <3>1, <3>2, Zenon DEF Inode
  <2>6. /\ fb[p].recs = orig.recs \cup {p} /\ lock.n = fb[p].n
        /\ fb[p].n > 0 => lock.recs = fb[p].recs
    BY <2>4, Zenon DEF Held, Loaded, Holds
  <2>7. Held(p)' /\ Loaded(p)'
    <3>1. Held(p)'
      BY <2>4, <2>5, <2>6 DEF Held
    <3>2. Loaded(p)'
      BY <2>2, <2>4, <2>5, <2>6, Zenon DEF Loaded
    <3>3. QED
      BY <3>1, <3>2, Zenon
  <2>8. QED
    BY <2>2, <2>3, <2>7, Zenon
<1>7. ASSUME NEW p \in Proc, Rename(p)
      PROVE  Disk' /\ \A q \in Proc : Held(q)' /\ Loaded(q)'
  <2>1. /\ lock.by = p /\ lock.open = FALSE /\ lock.n = NChunks
        /\ lock.recs = orig.recs \cup {p}
    BY <1>7 DEF Rename, Held, Loaded, Holds
  <2>2. \A q \in Proc : q # p => ~Holds(q) /\ fb'[q] = fb[q]
    BY <1>7, <2>1, Zenon DEF Rename, Held, TypeOK
  <2>3. fb'[p] = ClosedFilebuf
    BY <1>7, Zenon DEF Rename, TypeOK
  <2>4. Disk'
    BY <1>7, <2>1, Zenon DEF Rename, Disk
  <2>5. QED
    BY <2>2, <2>3, <2>4 DEF Held, Loaded, Holds, ClosedFilebuf
<1>8. ASSUME NEW p \in Proc, Cleanup(p) \/ RenameFail(p)
      PROVE  Disk' /\ \A q \in Proc : Held(q)' /\ Loaded(q)'
  <2>1. Holds(p) /\ CleanupOf(p) /\ acked' = acked
    BY <1>8, Zenon DEF Cleanup, RenameFail, Holds
  <2>2. \A q \in Proc : q # p => ~Holds(q) /\ fb'[q] = fb[q]
    BY <2>1, Zenon DEF CleanupOf, Held, TypeOK
  <2>3. fb'[p] = ClosedFilebuf
    BY <2>1, Zenon DEF CleanupOf, TypeOK
  <2>4. Disk'
    BY <2>1, Zenon DEF CleanupOf, ClosedBy, Disk, TypeOK, Inode
  <2>5. QED
    BY <2>2, <2>3, <2>4 DEF Held, Loaded, Holds, ClosedFilebuf
<1>9. ASSUME NEW p \in Proc, Crash(p)
      PROVE  Disk' /\ \A q \in Proc : Held(q)' /\ Loaded(q)'
  BY <1>9 DEF Crash, ClosedBy, TypeOK, Inode, Filebufs, ClosedFilebuf, Disk, Held,
              Loaded, Holds
<1>10. CASE UNCHANGED vars
  BY <1>10, Zenon DEF vars, Disk, Held, Loaded, Holds
<1>11. QED
  BY <1>1, <1>2, <1>3, <1>4, <1>5, <1>6, <1>7, <1>8, <1>9, <1>10, Zenon DEF Next, Work

(* PlainInv holds in every reachable state.                                *)
LEMMA PlainAlways == Spec => []PlainInv
<1>1. Init => PlainInv
  BY FilebufAssumption
     DEF Init, FirstFile, Inode, PlainInv, Disk, Held, Loaded, Holds, ClosedFilebuf
<1>2. QED
  BY <1>1, PlainStep, TypeCorrect, PTL DEF Spec

(* At most one writer of a path that is never opened with FORCE is between  *)
(* its create and its commit or cleanup.                                    *)
THEOREM LockExcludes == Spec => []Exclusive
<1>1. PlainInv => Exclusive
  BY Zenon DEF PlainInv, Held, Exclusive
<1>2. QED
  BY <1>1, PlainAlways, PTL

(* Nobody ever finds a partly written file at such a path.                  *)
THEOREM ReplaceIsAtomic == Spec => []AlwaysComplete
<1>1. PlainInv => AlwaysComplete
  BY Zenon DEF PlainInv, Disk, AlwaysComplete
<1>2. QED
  BY <1>1, PlainAlways, PTL

(* No committed update of such a path is ever lost.                         *)
THEOREM UpdatesAreKept == Spec => []NoLostUpdate
<1>1. PlainInv => NoLostUpdate
  BY Zenon DEF PlainInv, Disk, NoLostUpdate
<1>2. QED
  BY <1>1, PlainAlways, PTL

(* The refinement, step by step: a reader of path_original sees of a step   *)
(* of filebuf.c either nothing, or the replacement that the holder of the   *)
(* lock prepared on top of what is there.                                   *)
LEMMA FileStep ==
    ASSUME TypeOK, PlainInv, [Next]_vars
    PROVE  [File!Next]_File!vars
<1> DEFINE seen == [recs |-> orig.recs, whole |-> orig.n = NChunks /\ ~orig.open]
<1>1. UNCHANGED FORCE
  BY FlagsStep, Zenon DEF FORCE
<1>2. CASE FORCE
  BY <1>1, <1>2, Zenon DEF File!Next
<1>3. CASE ~FORCE
  <2>1. orig.open = FALSE /\ orig.n = NChunks /\ orig \in Inode
    BY <1>3, Zenon DEF PlainInv, Disk, TypeOK
  <2>2. ASSUME NEW p \in Proc, NEW recs, NEW n
        PROVE  ClosedBy(p, orig) = orig /\ WrittenBy(p, orig, recs, n) = orig
    BY <2>1 DEF ClosedBy, WrittenBy, Inode
  <2>3. ASSUME NEW p \in Proc, Rename(p) PROVE File!Replace(p)
    <3>1. Held(p) /\ Loaded(p)
      BY <1>3, Zenon DEF PlainInv
    <3>2. lock.recs = orig.recs \cup {p} /\ lock.n = NChunks /\ lock.open = FALSE
      BY <2>3, <3>1, FilebufAssumption DEF Rename, Held, Loaded, Holds
    <3>3. orig' = lock /\ acked' = acked \cup {p}
      BY <2>3, Zenon DEF Rename
    <3>4. seen' = [recs |-> seen.recs \cup {p}, whole |-> TRUE]
      BY <3>2, <3>3, ZenonT(40)
    <3>5. QED
      BY <3>3, <3>4, Zenon DEF File!Replace
  <2>4. ASSUME NEW p \in Proc,
               \/ Probe(p) \/ Create(p) \/ Load(p) \/ LoadFail(p) \/ Flush(p)
               \/ CloseFd(p) \/ Cleanup(p) \/ RenameFail(p) \/ Crash(p)
        PROVE  UNCHANGED <<orig, acked>>
    BY <2>2, <2>4, Zenon
       DEF Probe, Create, Load, LoadFail, Flush, CloseFd, Cleanup, RenameFail, Crash,
           CleanupOf
  <2>5. CASE UNCHANGED <<orig, acked>>
    BY <1>1, <2>5, Zenon DEF File!vars
  <2>6. CASE \E p \in Proc : Rename(p)
    BY <1>1, <2>3, <2>6, Zenon DEF File!Next
  <2>7. QED
    BY <2>4, <2>5, <2>6, Zenon DEF Next, Work, vars
<1>4. QED
  BY <1>2, <1>3, Zenon

(* The lock-file protocol implements the atomic file of AtomicFile.tla, for *)
(* any number of writers, failed calls and crashes.                         *)
THEOREM FileIsAtomic == Spec => ImplementsFile
<1>1. Init => File!Init
  <2> SUFFICES ASSUME Init PROVE File!Init
    BY Zenon
  <2>1. orig.recs = {} /\ orig.n = NChunks /\ ~orig.open /\ acked = {}
    BY Zenon DEF Init, FirstFile
  <2>2. [recs |-> orig.recs, whole |-> orig.n = NChunks /\ ~orig.open]
            = [recs |-> {}, whole |-> TRUE]
    BY <2>1, ZenonT(40)
  <2>3. FORCE \in BOOLEAN
    BY DEF FORCE
  <2>4. QED
    BY <2>1, <2>2, <2>3, Zenon DEF File!Init
<1>2. QED
  BY <1>1, FileStep, TypeCorrect, PlainAlways, PTL DEF Spec, ImplementsFile, File!Spec

-----------------------------------------------------------------------------
(* The index and the working directory, for any contents, any length of     *)
(* time and any number of changes of the file and of the index             *)

Stats == [mtime : Nat, size : Nat]
Entries == [id : FileContent \cup {"none"}, mtime : Nat, size : Nat, uptodate : BOOLEAN]

RacyTypes ==
    /\ clock \in Nat /\ workfile \in [content : FileContent, mtime : Nat]
    /\ entry \in Entries /\ checksum \in Entries /\ stamp \in Nat
    /\ racy_disk \in [mtime : Nat, entry : Entries, window : BOOLEAN]
    /\ racy_pc \in {"idle", "hash", "check", "commit"}
    /\ st \in Stats /\ window \in BOOLEAN /\ changes \in Nat

(* Times are in the past; an entry in memory is new, or the index file it     *)
(* came from or went to has been seen; a call works on an entry.              *)
TimeOK ==
    /\ clock >= 1 /\ workfile.mtime \in 1 .. clock
    /\ stamp <= clock /\ racy_disk.mtime <= clock
    /\ racy_pc \in {"hash", "check"} => st.mtime >= 1
    /\ entry = NoEntry \/ (entry.mtime >= 1 /\ (entry.uptodate \/ stamp # 0))
    /\ racy_pc \in {"check", "commit"} => entry # NoEntry
    /\ racy_disk.mtime # 0 => racy_disk.entry.mtime >= 1 /\ ~racy_disk.entry.uptodate

(* The stat data of e do not tell that the file differs from it.              *)
Unnoticed(e) ==
    /\ workfile.content # e.id
    /\ e.mtime = workfile.mtime /\ e.size = SizeOf[workfile.content] /\ e.size # 0

(* Such an entry is as new as the index file it is compared with, unless the   *)
(* file was modified in the window; and it has lost its size when that would   *)
(* no longer be so, that is when the index is about to be written.             *)
RacyOK ==
    /\ entry # NoEntry /\ Unnoticed(entry) /\ ~window =>
           racy_pc # "commit" /\ ~entry.uptodate /\ stamp # 0 /\ stamp <= workfile.mtime
    /\ racy_disk.mtime # 0 /\ Unnoticed(racy_disk.entry) /\ ~racy_disk.window => racy_disk.mtime <= workfile.mtime

RacyInv == RacyTypes /\ TimeOK /\ RacyOK

-----------------------------------------------------------------------------
(* RacyTypes is inductive.                                                   *)
LEMMA RacyTypesStep == SizeAssumption /\ RacyTypes /\ [RacyNext]_racy_vars => RacyTypes'
<1> SUFFICES ASSUME SizeAssumption, RacyTypes, [RacyNext]_racy_vars PROVE RacyTypes'
  BY Zenon
<1> USE DEF SizeAssumption, RacyTypes, Entries, Stats, Entry, NoEntry, NoStat, handle
<1>1. ASSUME AddStat PROVE RacyTypes'
  BY <1>1, Zenon DEF AddStat, Stat
<1>2. ASSUME AddHash PROVE RacyTypes'
  BY <1>2, Zenon DEF AddHash
<1>3. ASSUME DiffStat PROVE RacyTypes'
  BY <1>3, Zenon DEF DiffStat, Stat
<1>4. ASSUME DiffHash PROVE RacyTypes'
  <2>1. window' \in BOOLEAN
    BY <1>4, Zenon DEF DiffHash
  <2>2. entry' \in Entries
    <3>1. Entry(entry.id, st.mtime, st.size, TRUE) \in Entries
      BY Zenon
    <3> HIDE DEF Entries, Entry
    <3>2. QED
      BY <1>4, <3>1, Zenon DEF DiffHash
  <2>3. QED
    BY <1>4, <2>1, <2>2, Zenon DEF DiffHash
<1>5. ASSUME Truncate PROVE RacyTypes'
  BY <1>5, Zenon DEF Truncate, Truncated
<1>6. ASSUME Commit PROVE RacyTypes'
  BY <1>6, Zenon DEF Commit
<1>7. ASSUME NEW force \in BOOLEAN, Read(force) PROVE RacyTypes'
  <2>1. window' \in BOOLEAN
    BY <1>7, Zenon DEF Read
  <2>2. entry' \in Entries /\ checksum' \in Entries
    <3>1. NoEntry \in Entries /\ racy_disk.entry \in Entries
      BY Zenon
    <3> HIDE DEF Entries, Entry, NoEntry
    <3>2. QED
      BY <1>7, <3>1, Zenon DEF Read
  <2>3. QED
    BY <1>7, <2>1, <2>2, ZenonT(40) DEF Read
<1>8. ASSUME Tick PROVE RacyTypes'
  BY <1>8 DEF Tick
<1>9. ASSUME OtherAdd PROVE RacyTypes'
  BY <1>9, Zenon DEF OtherAdd
<1>10. ASSUME NEW c \in FileContent, Modify(c) PROVE RacyTypes'
  BY <1>10 DEF Modify
<1>11. ASSUME UNCHANGED racy_vars PROVE RacyTypes'
  BY <1>11, ZenonT(40) DEF racy_vars
<1>12. QED
  BY <1>1, <1>2, <1>3, <1>4, <1>5, <1>6, <1>7, <1>8, <1>9, <1>10, <1>11, Zenon DEF RacyNext

(* No time is later than the clock.                                           *)
LEMMA TimeStep == SizeAssumption /\ RacyTypes /\ TimeOK /\ [RacyNext]_racy_vars => TimeOK'
<1> SUFFICES ASSUME SizeAssumption, RacyTypes, TimeOK, [RacyNext]_racy_vars PROVE TimeOK'
  BY Zenon
<1> USE DEF SizeAssumption, RacyTypes, TimeOK, Entries, Stats, Entry, NoEntry, NoStat, handle
<1>1. ASSUME AddStat PROVE TimeOK'
  BY <1>1 DEF AddStat, Stat
<1>2. ASSUME AddHash PROVE TimeOK'
  BY <1>2, Zenon DEF AddHash
<1>3. ASSUME DiffStat PROVE TimeOK'
  BY <1>3 DEF DiffStat, Stat
<1>4. ASSUME DiffHash PROVE TimeOK'
  BY <1>4 DEF DiffHash
<1>5. ASSUME Truncate PROVE TimeOK'
  BY <1>5 DEF Truncate, Truncated
<1>6. ASSUME Commit PROVE TimeOK'
  BY <1>6 DEF Commit
<1>7. ASSUME NEW force \in BOOLEAN, Read(force) PROVE TimeOK'
  BY <1>7 DEF Read
<1>8. ASSUME Tick PROVE TimeOK'
  BY <1>8 DEF Tick
<1>9. ASSUME OtherAdd PROVE TimeOK'
  BY <1>9 DEF OtherAdd
<1>10. ASSUME NEW c \in FileContent, Modify(c) PROVE TimeOK'
  BY <1>10 DEF Modify
<1>11. ASSUME UNCHANGED racy_vars PROVE TimeOK'
  BY <1>11, Zenon DEF racy_vars
<1>12. QED
  BY <1>1, <1>2, <1>3, <1>4, <1>5, <1>6, <1>7, <1>8, <1>9, <1>10, <1>11, Zenon DEF RacyNext

(* RacyOK is inductive.                                                      *)
LEMMA RacyStep == SizeAssumption /\ RacyInv /\ [RacyNext]_racy_vars => RacyOK'
<1> SUFFICES ASSUME SizeAssumption, RacyInv, [RacyNext]_racy_vars PROVE RacyOK'
  BY Zenon
<1> USE DEF SizeAssumption, RacyInv, RacyOK, RacyTypes, TimeOK, Unnoticed, Entries, Stats, Entry, NoEntry, NoStat, Stat, handle, Newer, Modified, Uncertain, SizeDiffers
<1>1. ASSUME AddStat PROVE RacyOK'
  BY <1>1, Zenon DEF AddStat, Stat
<1>2. ASSUME AddHash PROVE RacyOK'
  BY <1>2, Zenon DEF AddHash
<1>3. ASSUME DiffStat PROVE RacyOK'
  BY <1>3, Zenon DEF DiffStat, Stat
<1>4. ASSUME DiffHash PROVE RacyOK'
  BY <1>4 DEF DiffHash
<1>5. ASSUME Truncate PROVE RacyOK'
  BY <1>5, Zenon DEF Truncate, Truncated
<1>6. ASSUME Commit PROVE RacyOK'
  BY <1>6, Zenon DEF Commit
<1>7. ASSUME NEW force \in BOOLEAN, Read(force) PROVE RacyOK'
  BY <1>7, Zenon DEF Read
<1>8. ASSUME Tick PROVE RacyOK'
  BY <1>8, Zenon DEF Tick
<1>9. ASSUME OtherAdd PROVE RacyOK'
  BY <1>9, Zenon DEF OtherAdd
<1>10. ASSUME NEW c \in FileContent, Modify(c) PROVE RacyOK'
  BY <1>10, Zenon DEF Modify
<1>11. ASSUME UNCHANGED racy_vars PROVE RacyOK'
  BY <1>11, Zenon DEF racy_vars
<1>12. QED
  BY <1>1, <1>2, <1>3, <1>4, <1>5, <1>6, <1>7, <1>8, <1>9, <1>10, <1>11, Zenon DEF RacyNext

(* A file that differs from its entry is reported as modified, however coarse  *)
(* the clock is: git_index_write() takes the size from an entry that it is      *)
(* about to make look clean, and an entry as new as the index is compared by     *)
(* its contents.                                                                *)
THEOREM ModificationsAreSeen ==
    ASSUME SizeAssumption PROVE RacySpec => []ChangesAreSeen
<1>1. RacyInit => RacyInv
  <2> SUFFICES ASSUME RacyInit PROVE RacyInv
    BY Zenon
  <2>1. NoEntry \in Entries /\ NoStat \in Stats
    BY Zenon DEF Entries, Entry, NoEntry, Stats, NoStat
  <2>2. PICK c \in FileContent : workfile = [content |-> c, mtime |-> 1]
    BY Zenon DEF RacyInit
  <2>3. racy_disk \in [mtime : Nat, entry : Entries, window : BOOLEAN]
    BY <2>1, Zenon DEF RacyInit
  <2>4. RacyTypes
    BY <2>1, <2>2, <2>3, Zenon DEF RacyInit, RacyTypes
  <2>5. QED
    BY <2>2, <2>4 DEF RacyInit, RacyInv, RacyTypes, TimeOK, RacyOK
<1>2. RacyInv /\ [RacyNext]_racy_vars => RacyInv'
  BY RacyTypesStep, TimeStep, RacyStep, Zenon DEF RacyInv
<1>3. RacyInv => ChangesAreSeen
  BY
  DEF RacyInv, RacyOK, Unnoticed, ChangesAreSeen, Differs, Modified, Uncertain,
      SizeDiffers,
         Newer, Stat, RacyTypes, Entries, SizeAssumption
<1>4. QED
  BY <1>1, <1>2, <1>3, PTL DEF RacySpec

-----------------------------------------------------------------------------
(* The lookups and writes of one handle on the object database, for any     *)
(* objects, any packs and any number of moves that other processes make, of *)
(* the handle's own calls and of ticks of the clock                         *)


OdbPc == {"idle", "packed", "loose", "refresh", "list", "store", "return", "failed"}

Op == [kind : Kind, oid : Oid \cup {NoOid}, pc : OdbPc, pass : {1, 2}, todo : SUBSET Pack,
       reported : SUBSET Oid, found : BOOLEAN, since : Nat, known : SUBSET Oid,
       moves : [Oid -> Nat]]

OdbTypeOK ==
    /\ loose \in [Oid -> Nat] /\ packed \in [Pack -> Nat]
    /\ contents \in [Pack -> SUBSET Oid] /\ odb_clock \in Nat
    /\ packs \in SUBSET Pack /\ indexed \in SUBSET Pack /\ opened \in SUBSET Pack
    /\ last_freshen \in [Pack -> Nat] /\ cache \in SUBSET Oid
    /\ odb_op \in Op /\ written \in [Oid -> Nat]

(* Which steps a call of each kind can be at                                *)
ShapeOK ==
    /\ odb_op.kind = "foreach" => odb_op.pc # "store"
    /\ odb_op.pc = "failed" => odb_op.kind = "foreach"
    /\ odb_op.kind # "foreach" /\ odb_op.pc # "idle" => odb_op.oid \in Oid
    /\ odb_op.pc = "store" => odb_op.kind = "write"
    /\ odb_op.kind = "write" /\ odb_op.pc = "return" => odb_op.found

(* Times are in the past, and a pack without a content was never touched.    *)
OdbTimeOK ==
    /\ odb_clock > FRESHEN_FREQUENCY /\ odb_op.since <= odb_clock
    /\ \A o \in Oid : loose[o] <= odb_clock /\ written[o] <= odb_clock
    /\ \A p \in Pack : packed[p] <= odb_clock /\ last_freshen[p] <= odb_clock
    /\ \A p \in Pack : contents[p] = {} => last_freshen[p] = 0 /\ packed[p] = 0

(* There is a copy of o that is no older than t.                             *)
Fresh(o, t) ==
    \/ loose[o] > 0 /\ loose[o] >= t
    \/ \E p \in InPack(o) : packed[p] >= t

(* Until it may be pruned: an object whose pack was touched at t has a copy   *)
(* that is no older, in that pack or not; one whose write was called at t,    *)
(* and has been or is about to be reported as done, has one that is as new    *)
(* as a pack which that write may have found too young to touch.  An object   *)
(* whose youngest copy others have removed has no such claim.                 *)
StaysFresh(o, t) == odb_clock <= t + Expire /\ o \notin aged => Fresh(o, t)

TouchedStay == \A p \in Pack : last_freshen[p] > 0 =>
                   \A o \in contents[p] : StaysFresh(o, last_freshen[p])

WriteStays ==
    /\ \A o \in Oid : written[o] > 0 => StaysFresh(o, written[o] - FRESHEN_FREQUENCY)
    /\ odb_op.kind = "write" /\ odb_op.pc = "return" =>
           StaysFresh(odb_op.oid, odb_op.since - FRESHEN_FREQUENCY)

(* Where a lookup that has not found its object yet will find it, when other  *)
(* processes have removed at most one copy since the call began: before the   *)
(* first removal in what it has not asked yet, and after it in a pack that    *)
(* the refresh has not listed or the second pass not asked yet.               *)
Ahead(o) ==
    /\ odb_op.pc = "packed" /\ odb_op.pass = 1 /\ odb_op.moves[o] = 0 =>
           loose[o] > 0 \/ \E p \in odb_op.todo : p \in InPack(o)
    /\ odb_op.pc = "loose" /\ odb_op.moves[o] = 0 => loose[o] > 0
    /\ odb_op.pc \in {"refresh", "list"} \/ (odb_op.pc = "packed" /\ odb_op.pass = 2) =>
           odb_op.moves[o] > 0
    /\ odb_op.pc = "refresh" => InPack(o) # {}
    /\ odb_op.pc = "list" => \E p \in InPack(o) : p \in odb_op.todo \cup packs
    /\ odb_op.pc = "packed" /\ odb_op.pass = 2 => \E p \in odb_op.todo : p \in InPack(o)
    /\ odb_op.pc # "return"

LookupAhead ==
    odb_op.kind \in {"read", "exists"} /\ odb_op.pc # "idle" /\ ~odb_op.found
    /\ odb_op.oid \in odb_op.known /\ odb_op.moves[odb_op.oid] <= 1 /\ OnDisk(odb_op.oid) => Ahead(odb_op.oid)

(* The same of git_odb_foreach() for an object that stays where it is         *)
ReportAhead(o) ==
    /\ odb_op.pc = "refresh" => OnDisk(o)
    /\ odb_op.pc = "list" => loose[o] > 0 \/ \E p \in InPack(o) : p \in odb_op.todo \cup packs
    /\ odb_op.pc = "packed" =>
           o \in odb_op.reported \/ loose[o] > 0 \/ \E p \in odb_op.todo : p \in InPack(o)
    /\ odb_op.pc = "loose" => o \in odb_op.reported \/ loose[o] > 0
    /\ odb_op.pc = "return" => o \in odb_op.reported

ForeachAhead ==
    odb_op.kind = "foreach" => \A o \in odb_op.known : odb_op.moves[o] = 0 => ReportAhead(o)

Safe == OdbTypeOK /\ ShapeOK /\ OdbTimeOK
WriteInv == Safe /\ TouchedStay /\ WriteStays
LookupInv == Safe /\ LookupAhead /\ ForeachAhead


-----------------------------------------------------------------------------
(* A handle that has just been opened: no call, no pack, every time passed    *)
LEMMA InitSafe == ASSUME FreshenAssumption, OdbInit PROVE Safe
<1>1. odb_op \in Op
  BY DEF OdbInit, Op, OdbPc, Kind, NoCall
<1>2. OdbTypeOK
  BY <1>1 DEF OdbInit, OdbTypeOK, Begin, FreshenAssumption
<1>3. ShapeOK
  BY DEF OdbInit, ShapeOK, NoCall
<1>4. OdbTimeOK
  BY DEF OdbInit, OdbTimeOK, NoCall, Begin, FreshenAssumption
<1>5. QED
  BY <1>2, <1>3, <1>4, Zenon DEF Safe

(* What a call begins with                                                  *)
LEMMA CallOp ==
    ASSUME OdbTypeOK, NEW k \in Kind, NEW o \in Oid \cup {NoOid}, Call(k, o)
    PROVE  /\ odb_op' \in Op
           /\ odb_op'.kind = k /\ odb_op'.oid = o /\ odb_op'.pass = 1 /\ odb_op'.todo = packs
           /\ odb_op'.reported = {} /\ odb_op'.moves = [i \in Oid |-> 0]
           /\ odb_op'.since = IF k = "write" THEN odb_clock ELSE 0
           /\ odb_op'.known = IF k = "write" THEN {} ELSE InPlace(k)
           /\ odb_op'.found = CacheAnswers(k, o)
           /\ odb_op'.pc = IF CacheAnswers(k, o) THEN "return"
                       ELSE IF k = "foreach" THEN "refresh" ELSE "packed"
<1> DEFINE known == IF k = "write" THEN {} ELSE InPlace(k)
           found == CacheAnswers(k, o)
           since == IF k = "write" THEN odb_clock ELSE 0
           pc == IF CacheAnswers(k, o) THEN "return"
                 ELSE IF k = "foreach" THEN "refresh" ELSE "packed"
<1>1. known \in SUBSET Oid /\ found \in BOOLEAN /\ since \in Nat /\ pc \in OdbPc
  BY Zenon DEF InPlace, CacheAnswers, OdbPc, OdbTypeOK
<1>2. odb_op' = [kind |-> k, oid |-> o, pc |-> pc, pass |-> 1, todo |-> packs,
             reported |-> {}, found |-> found, since |-> since, known |-> known,
             moves |-> [i \in Oid |-> 0]]
  <2> HIDE DEF known, found, since, pc
  <2> QED
    BY ZenonT(40) DEF Call, NoCall, known, found, since, pc
<1> HIDE DEF known, found, since, pc
<1>3. odb_op' \in Op
  BY <1>1, <1>2, Zenon DEF Op, OdbTypeOK
<1>4. QED
  BY <1>2, <1>3, Zenon DEF known, found, since, pc

(* TypeOK is inductive.                                                     *)
LEMMA OdbTypeStep == OdbTypeOK /\ ShapeOK /\ [OdbNext]_odb_vars => OdbTypeOK'
<1> SUFFICES ASSUME OdbTypeOK, ShapeOK, [OdbNext]_odb_vars PROVE OdbTypeOK'
  BY Zenon
<1> USE DEF OdbTypeOK, ShapeOK, Op, OdbPc, odb_disk, odb_handle, odb_history
<1>1. ASSUME NEW k \in Kind \ {"foreach"}, NEW o \in Oid, Call(k, o) PROVE OdbTypeOK'
  <2>1. odb_op' \in Op
    BY <1>1, CallOp, Zenon
  <2>2. QED
    BY <1>1, <2>1, Zenon DEF Call
<1>2. ASSUME Call("foreach", NoOid) PROVE OdbTypeOK'
  BY <1>2, ZenonT(40) DEF Call, NoCall, InPlace, CacheAnswers, Kind
<1>3. ASSUME NEW p \in Pack, PackHit(p) PROVE OdbTypeOK'
  BY <1>3, ZenonT(40) DEF PackHit
<1>4. ASSUME NEW p \in Pack, PackMiss(p) PROVE OdbTypeOK'
  BY <1>4, Zenon DEF PackMiss
<1>5. ASSUME NEW p \in Pack, LoadPack(p) PROVE OdbTypeOK'
  BY <1>5, Zenon DEF LoadPack
<1>6. ASSUME NEW p \in Pack, ForeachPack(p) PROVE OdbTypeOK'
  BY <1>6, Zenon DEF ForeachPack
<1>7. ASSUME PackedDone PROVE OdbTypeOK'
  BY <1>7, Zenon DEF PackedDone
<1>8. ASSUME LooseHit PROVE OdbTypeOK'
  BY <1>8, Zenon DEF LooseHit
<1>9. ASSUME LooseMiss PROVE OdbTypeOK'
  BY <1>9, Zenon DEF LooseMiss
<1>10. ASSUME Store PROVE OdbTypeOK'
  BY <1>10, Zenon DEF Store
<1>11. ASSUME Refresh PROVE OdbTypeOK'
  BY <1>11, Zenon DEF Refresh
<1>12. ASSUME ListDone PROVE OdbTypeOK'
  BY <1>12, Zenon DEF ListDone
<1>13. ASSUME ForeachLoose PROVE OdbTypeOK'
  BY <1>13, Zenon DEF ForeachLoose
<1>14. ASSUME Return PROVE OdbTypeOK'
  BY <1>14, Zenon DEF Return, NoCall, Kind
<1>15. ASSUME NEW o \in Oid, Evict(o) PROVE OdbTypeOK'
  BY <1>15, Zenon DEF Evict
<1>16. ASSUME NEW o \in Oid, Loosen(o) PROVE OdbTypeOK'
  BY <1>16, ZenonT(40) DEF Loosen, InPack
<1>17. ASSUME NEW o \in Oid, PrunePacked(o) PROVE OdbTypeOK'
  BY <1>17, SMTT(30) DEF PrunePacked, Moved
<1>18. ASSUME NEW o \in Oid, Prune(o) PROVE OdbTypeOK'
  BY <1>18 DEF Prune, Moved
<1>19. ASSUME NEW p \in Pack, NEW S \in SUBSET Oid, WritePack(p, S) PROVE OdbTypeOK'
  BY <1>19, Zenon DEF WritePack
<1>20. ASSUME NEW p \in Pack, RemovePack(p) PROVE OdbTypeOK'
  BY <1>20, SMTT(30) DEF RemovePack, Moved
<1>21. ASSUME OdbTick PROVE OdbTypeOK'
  BY <1>21 DEF OdbTick
<1>22. ASSUME UNCHANGED odb_vars PROVE OdbTypeOK'
  BY <1>22, Zenon DEF odb_vars, odb_disk, odb_handle, odb_history
<1>23. QED
  BY <1>1, <1>2, <1>3, <1>4, <1>5, <1>6, <1>7, <1>8, <1>9, <1>10, <1>11, <1>12, <1>13, <1>14,
     <1>15, <1>16, <1>17, <1>18, <1>19, <1>20, <1>21, <1>22, Zenon DEF OdbNext

(* Every step of a call leads to one of its kind.                           *)
LEMMA ShapeStep == OdbTypeOK /\ ShapeOK /\ [OdbNext]_odb_vars => ShapeOK'
<1> SUFFICES ASSUME OdbTypeOK, ShapeOK, [OdbNext]_odb_vars PROVE ShapeOK'
  BY Zenon
<1> USE DEF OdbTypeOK, ShapeOK, Op, OdbPc, odb_disk, odb_handle, odb_history
<1>1. ASSUME NEW k \in Kind, NEW o \in Oid \cup {NoOid}, Call(k, o), k # "foreach" => o \in Oid PROVE ShapeOK'
  <2>1. odb_op'.kind = k /\ odb_op'.oid = o /\ odb_op'.since <= odb_clock
        /\ odb_op'.pc \in {"return", "refresh", "packed"}
    BY <1>1, CallOp DEF OdbTypeOK
  <2>2. k = "write" => odb_op'.pc = "packed"
    BY <1>1, CallOp, Zenon DEF CacheAnswers
  <2>3. QED
    BY <1>1, <2>1, <2>2, Zenon
<1>2. ASSUME NEW p \in Pack, PackHit(p) PROVE ShapeOK'
  BY <1>2, Zenon DEF PackHit
<1>3. ASSUME NEW p \in Pack, PackMiss(p) PROVE ShapeOK'
  BY <1>3, Zenon DEF PackMiss
<1>4. ASSUME NEW p \in Pack, LoadPack(p) PROVE ShapeOK'
  BY <1>4, Zenon DEF LoadPack
<1>5. ASSUME NEW p \in Pack, ForeachPack(p) PROVE ShapeOK'
  BY <1>5, Zenon DEF ForeachPack
<1>6. ASSUME PackedDone PROVE ShapeOK'
  BY <1>6, Zenon DEF PackedDone
<1>7. ASSUME LooseHit PROVE ShapeOK'
  BY <1>7, Zenon DEF LooseHit
<1>8. ASSUME LooseMiss PROVE ShapeOK'
  BY <1>8, Zenon DEF LooseMiss
<1>9. ASSUME Store PROVE ShapeOK'
  BY <1>9, Zenon DEF Store
<1>10. ASSUME Refresh PROVE ShapeOK'
  BY <1>10, Zenon DEF Refresh
<1>11. ASSUME ListDone PROVE ShapeOK'
  BY <1>11, Zenon DEF ListDone
<1>12. ASSUME ForeachLoose PROVE ShapeOK'
  BY <1>12, Zenon DEF ForeachLoose
<1>13. ASSUME Return PROVE ShapeOK'
  BY <1>13, Zenon DEF Return, NoCall, Kind
<1>14. ASSUME NEW o \in Oid, Evict(o) PROVE ShapeOK'
  BY <1>14, Zenon DEF Evict
<1>15. ASSUME NEW o \in Oid, Loosen(o) PROVE ShapeOK'
  BY <1>15, Zenon DEF Loosen, InPack
<1>16. ASSUME NEW o \in Oid, PrunePacked(o) PROVE ShapeOK'
  BY <1>16, Zenon DEF PrunePacked, Moved
<1>17. ASSUME NEW o \in Oid, Prune(o) PROVE ShapeOK'
  BY <1>17, Zenon DEF Prune, Moved
<1>18. ASSUME NEW p \in Pack, NEW S \in SUBSET Oid, WritePack(p, S) PROVE ShapeOK'
  BY <1>18, Zenon DEF WritePack
<1>19. ASSUME NEW p \in Pack, RemovePack(p) PROVE ShapeOK'
  BY <1>19, Zenon DEF RemovePack, Moved
<1>20. ASSUME OdbTick PROVE ShapeOK'
  BY <1>20, Zenon DEF OdbTick
<1>21. ASSUME UNCHANGED odb_vars PROVE ShapeOK'
  BY <1>21, Zenon DEF odb_vars, odb_disk, odb_handle, odb_history
<1>22. QED
  BY <1>1, <1>2, <1>3, <1>4, <1>5, <1>6, <1>7, <1>8, <1>9, <1>10, <1>11, <1>12, <1>13, <1>14,
     <1>15, <1>16, <1>17, <1>18, <1>19, <1>20, <1>21, ZenonT(40) DEF OdbNext, Kind

(* No time is set that is later than the clock.                             *)
LEMMA OdbTimeStep == FreshenAssumption /\ OdbTypeOK /\ ShapeOK /\ OdbTimeOK /\ [OdbNext]_odb_vars => OdbTimeOK'
<1> SUFFICES ASSUME FreshenAssumption, OdbTypeOK, ShapeOK, OdbTimeOK, [OdbNext]_odb_vars PROVE OdbTimeOK'
  BY Zenon
<1> USE DEF FreshenAssumption, OdbTypeOK, ShapeOK, OdbTimeOK, Op, OdbPc, odb_disk, odb_handle, odb_history
<1>1. ASSUME NEW k \in Kind, NEW o \in Oid \cup {NoOid}, Call(k, o), k # "foreach" => o \in Oid PROVE OdbTimeOK'
  <2>1. odb_op'.kind = k /\ odb_op'.oid = o /\ odb_op'.since <= odb_clock
        /\ odb_op'.pc \in {"return", "refresh", "packed"}
    BY <1>1, CallOp DEF OdbTypeOK
  <2>2. QED
    BY <1>1, <2>1, Zenon DEF Call
<1>2. ASSUME NEW p \in Pack, PackHit(p) PROVE OdbTimeOK'
  <2>1. odb_op'.since = odb_op.since /\ odb_op.oid \in contents[p] /\ contents[p] # {}
    BY <1>2, Zenon DEF PackHit, PackHasIt
  <2>2. ASSUME NEW q \in Pack
        PROVE  /\ packed'[q] <= odb_clock /\ last_freshen'[q] <= odb_clock
               /\ contents[q] = {} => last_freshen'[q] = 0 /\ packed'[q] = 0
    BY <1>2, <2>1 DEF PackHit
  <2>3. QED
    BY <1>2, <2>1, <2>2, Zenon DEF PackHit
<1>3. ASSUME NEW p \in Pack, PackMiss(p) PROVE OdbTimeOK'
  BY <1>3, Zenon DEF PackMiss
<1>4. ASSUME NEW p \in Pack, LoadPack(p) PROVE OdbTimeOK'
  BY <1>4, Zenon DEF LoadPack
<1>5. ASSUME NEW p \in Pack, ForeachPack(p) PROVE OdbTimeOK'
  BY <1>5, Zenon DEF ForeachPack
<1>6. ASSUME PackedDone PROVE OdbTimeOK'
  BY <1>6, Zenon DEF PackedDone
<1>7. ASSUME LooseHit PROVE OdbTimeOK'
  BY <1>7 DEF LooseHit
<1>8. ASSUME LooseMiss PROVE OdbTimeOK'
  BY <1>8, Zenon DEF LooseMiss
<1>9. ASSUME Store PROVE OdbTimeOK'
  BY <1>9 DEF Store
<1>10. ASSUME Refresh PROVE OdbTimeOK'
  BY <1>10, Zenon DEF Refresh
<1>11. ASSUME ListDone PROVE OdbTimeOK'
  BY <1>11, Zenon DEF ListDone
<1>12. ASSUME ForeachLoose PROVE OdbTimeOK'
  BY <1>12, ZenonT(40) DEF ForeachLoose
<1>13. ASSUME Return PROVE OdbTimeOK'
  BY <1>13 DEF Return, NoCall, Kind
<1>14. ASSUME NEW o \in Oid, Evict(o) PROVE OdbTimeOK'
  BY <1>14, Zenon DEF Evict
<1>15. ASSUME NEW o \in Oid, Loosen(o) PROVE OdbTimeOK'
  BY <1>15, Zenon DEF Loosen, InPack, InPack
<1>16. ASSUME NEW o \in Oid, PrunePacked(o) PROVE OdbTimeOK'
  BY <1>16 DEF PrunePacked, Moved
<1>17. ASSUME NEW o \in Oid, Prune(o) PROVE OdbTimeOK'
  BY <1>17 DEF Prune, Moved
<1>18. ASSUME NEW p \in Pack, NEW S \in SUBSET Oid, WritePack(p, S) PROVE OdbTimeOK'
  BY <1>18 DEF WritePack
<1>19. ASSUME NEW p \in Pack, RemovePack(p) PROVE OdbTimeOK'
  BY <1>19 DEF RemovePack, Moved
<1>20. ASSUME OdbTick PROVE OdbTimeOK'
  BY <1>20 DEF OdbTick
<1>21. ASSUME UNCHANGED odb_vars PROVE OdbTimeOK'
  BY <1>21, Zenon DEF odb_vars, odb_disk, odb_handle, odb_history
<1>22. QED
  BY <1>1, <1>2, <1>3, <1>4, <1>5, <1>6, <1>7, <1>8, <1>9, <1>10, <1>11, <1>12, <1>13, <1>14,
     <1>15, <1>16, <1>17, <1>18, <1>19, <1>20, <1>21, ZenonT(40) DEF OdbNext, Kind

-----------------------------------------------------------------------------
(* A step that leaves every copy of an object there, as new as it was        *)
Grows ==
    /\ \A o \in Oid : loose'[o] >= loose[o]
    /\ \A p \in Pack : packed[p] > 0 => packed'[p] >= packed[p] /\ contents'[p] = contents[p]

Removal ==
    \/ \E p \in Pack : RemovePack(p)
    \/ \E o \in Oid : PrunePacked(o) \/ Prune(o)

OnlyOthersRemove == odb_clock' >= odb_clock /\ (Grows \/ Removal)

(* Time goes on, and only other processes remove copies.                    *)
LEMMA DiskStep == FreshenAssumption /\ OdbTypeOK /\ ShapeOK /\ OdbTimeOK /\ [OdbNext]_odb_vars => OnlyOthersRemove
<1> SUFFICES ASSUME FreshenAssumption, OdbTypeOK, ShapeOK, OdbTimeOK, [OdbNext]_odb_vars PROVE OnlyOthersRemove
  BY Zenon
<1> USE DEF OdbTypeOK, ShapeOK, OdbTimeOK, Op, odb_disk, odb_handle, odb_history, Grows, OnlyOthersRemove
<1>1. ASSUME NEW k \in Kind, NEW o \in Oid \cup {NoOid}, Call(k, o), k # "foreach" => o \in Oid PROVE OnlyOthersRemove
  BY <1>1 DEF Call
<1>2. ASSUME NEW p \in Pack, PackHit(p) PROVE OnlyOthersRemove
  <2>1. \A q \in Pack : packed[q] > 0 => packed'[q] >= packed[q]
    BY <1>2 DEF PackHit, Frozen
  <2>2. QED
    BY <1>2, <2>1 DEF PackHit
<1>3. ASSUME NEW p \in Pack, PackMiss(p) PROVE OnlyOthersRemove
  BY <1>3 DEF PackMiss
<1>4. ASSUME NEW p \in Pack, LoadPack(p) PROVE OnlyOthersRemove
  BY <1>4 DEF LoadPack
<1>5. ASSUME NEW p \in Pack, ForeachPack(p) PROVE OnlyOthersRemove
  BY <1>5 DEF ForeachPack
<1>6. ASSUME PackedDone PROVE OnlyOthersRemove
  BY <1>6 DEF PackedDone
<1>7. ASSUME LooseHit PROVE OnlyOthersRemove
  BY <1>7 DEF LooseHit
<1>8. ASSUME LooseMiss PROVE OnlyOthersRemove
  BY <1>8 DEF LooseMiss
<1>9. ASSUME Store PROVE OnlyOthersRemove
  BY <1>9 DEF Store
<1>10. ASSUME Refresh PROVE OnlyOthersRemove
  BY <1>10 DEF Refresh
<1>11. ASSUME ListDone PROVE OnlyOthersRemove
  BY <1>11 DEF ListDone
<1>12. ASSUME ForeachLoose PROVE OnlyOthersRemove
  BY <1>12 DEF ForeachLoose
<1>13. ASSUME Return PROVE OnlyOthersRemove
  BY <1>13 DEF Return, NoCall, Kind
<1>14. ASSUME NEW o \in Oid, Evict(o) PROVE OnlyOthersRemove
  BY <1>14 DEF Evict
<1>15. ASSUME NEW o \in Oid, Loosen(o) PROVE OnlyOthersRemove
  BY <1>15, SMTT(30) DEF Loosen, InPack
<1>16. ASSUME NEW o \in Oid, PrunePacked(o) PROVE OnlyOthersRemove
  <2>1. odb_clock' = odb_clock
    BY <1>16, Zenon DEF PrunePacked
  <2>2. Removal
    BY <1>16, Zenon DEF Removal
  <2>3. QED
    BY <2>1, <2>2
<1>17. ASSUME NEW o \in Oid, Prune(o) PROVE OnlyOthersRemove
  <2>1. odb_clock' = odb_clock
    BY <1>17, Zenon DEF Prune
  <2>2. Removal
    BY <1>17, Zenon DEF Removal
  <2>3. QED
    BY <2>1, <2>2
<1>18. ASSUME NEW p \in Pack, NEW S \in SUBSET Oid, WritePack(p, S) PROVE OnlyOthersRemove
  BY <1>18 DEF WritePack
<1>19. ASSUME NEW p \in Pack, RemovePack(p) PROVE OnlyOthersRemove
  <2>1. odb_clock' = odb_clock
    BY <1>19, Zenon DEF RemovePack
  <2>2. Removal
    BY <1>19, Zenon DEF Removal
  <2>3. QED
    BY <2>1, <2>2
<1>20. ASSUME OdbTick PROVE OnlyOthersRemove
  BY <1>20 DEF OdbTick
<1>21. ASSUME UNCHANGED odb_vars PROVE OnlyOthersRemove
  BY <1>21 DEF odb_vars, odb_disk, odb_handle, odb_history
<1>22. QED
  BY <1>1, <1>2, <1>3, <1>4, <1>5, <1>6, <1>7, <1>8, <1>9, <1>10, <1>11, <1>12, <1>13, <1>14,
     <1>15, <1>16, <1>17, <1>18, <1>19, <1>20, <1>21, ZenonT(40) DEF OdbNext, Kind

(* A copy that is recent enough stays so when nobody else removes or       *)
(* loosens objects.                                                        *)
LEMMA FreshGrows ==
    ASSUME OdbTypeOK, OdbTypeOK', Grows, NEW o \in Oid, NEW t \in Int, Fresh(o, t)
    PROVE  Fresh(o, t)'
<1>1. CASE loose[o] > 0 /\ loose[o] >= t
  BY <1>1 DEF Fresh, Grows, OdbTypeOK
<1>2. CASE \E p \in InPack(o) : packed[p] >= t
  <2>1. PICK p \in Pack : packed[p] > 0 /\ o \in contents[p] /\ packed[p] >= t
    BY <1>2, Zenon DEF InPack
  <2>2. packed'[p] > 0 /\ o \in contents'[p] /\ packed'[p] >= t
    BY <2>1 DEF Grows, OdbTypeOK
  <2>3. QED
    BY <2>2, Zenon DEF Fresh, InPack
<1>3. QED
  BY <1>1, <1>2, Zenon DEF Fresh

(* An object gets its claim back only from a write, which leaves a copy of   *)
(* it that is as new as can be.                                             *)
Rejuvenates == \A o \in Oid : o \in aged /\ o \notin aged' => Fresh(o, odb_clock)'

LEMMA AgedStep ==
    FreshenAssumption /\ OdbTypeOK /\ ShapeOK /\ OdbTimeOK /\ OdbTypeOK' /\ [OdbNext]_odb_vars
    => Rejuvenates
<1> SUFFICES ASSUME FreshenAssumption, OdbTypeOK, ShapeOK, OdbTimeOK, OdbTypeOK', [OdbNext]_odb_vars
             PROVE  Rejuvenates
  BY Zenon
<1> USE DEF odb_history
<1>c. odb_clock \in Nat /\ odb_clock > 0 /\ odb_clock >= odb_clock
  BY DEF OdbTimeOK, OdbTypeOK, FreshenAssumption
<1>1. ASSUME NEW k \in Kind, NEW o \in Oid \cup {NoOid}, Call(k, o), k # "foreach" => o \in Oid PROVE Rejuvenates
  BY <1>1, Zenon DEF Call, Rejuvenates
<1>2. ASSUME NEW p \in Pack, PackHit(p) PROVE Rejuvenates
  <2> SUFFICES ASSUME NEW o \in Oid, o \in aged, o \notin aged' PROVE Fresh(o, odb_clock)'
    BY Zenon DEF Rejuvenates
  <2>1. odb_op.kind = "write" /\ Touches(p) /\ o \in contents[p]
    BY <1>2, Zenon DEF PackHit
  <2>2. packed'[p] = odb_clock /\ contents' = contents /\ odb_clock' = odb_clock
    BY <1>2, <2>1, Zenon DEF PackHit, OdbTypeOK
  <2>3. QED
    BY <1>c, <2>1, <2>2, Zenon DEF Fresh, InPack
<1>3. ASSUME NEW p \in Pack, PackMiss(p) PROVE Rejuvenates
  BY <1>3, Zenon DEF PackMiss, Rejuvenates
<1>4. ASSUME NEW p \in Pack, LoadPack(p) PROVE Rejuvenates
  BY <1>4, Zenon DEF LoadPack, Rejuvenates
<1>5. ASSUME NEW p \in Pack, ForeachPack(p) PROVE Rejuvenates
  BY <1>5, Zenon DEF ForeachPack, Rejuvenates
<1>6. ASSUME PackedDone PROVE Rejuvenates
  BY <1>6, Zenon DEF PackedDone, Rejuvenates
<1>7. ASSUME LooseHit PROVE Rejuvenates
  <2> SUFFICES ASSUME NEW o \in Oid, o \in aged, o \notin aged' PROVE Fresh(o, odb_clock)'
    BY Zenon DEF Rejuvenates
  <2>1. o = odb_op.oid /\ odb_clock' = odb_clock /\ loose'[o] = odb_clock
    BY <1>7, Zenon DEF LooseHit, OdbTypeOK
  <2>2. QED
    BY <1>c, <2>1, Zenon DEF Fresh
<1>8. ASSUME LooseMiss PROVE Rejuvenates
  BY <1>8, Zenon DEF LooseMiss, Rejuvenates
<1>9. ASSUME Store PROVE Rejuvenates
  <2> SUFFICES ASSUME NEW o \in Oid, o \in aged, o \notin aged' PROVE Fresh(o, odb_clock)'
    BY Zenon DEF Rejuvenates
  <2>1. o = odb_op.oid /\ odb_clock' = odb_clock /\ loose'[o] = odb_clock
    BY <1>9, Zenon DEF Store, OdbTypeOK
  <2>2. QED
    BY <1>c, <2>1, Zenon DEF Fresh
<1>10. ASSUME Refresh PROVE Rejuvenates
  BY <1>10, Zenon DEF Refresh, Rejuvenates
<1>11. ASSUME ListDone PROVE Rejuvenates
  BY <1>11, Zenon DEF ListDone, Rejuvenates
<1>12. ASSUME ForeachLoose PROVE Rejuvenates
  BY <1>12, Zenon DEF ForeachLoose, Rejuvenates
<1>13. ASSUME Return PROVE Rejuvenates
  BY <1>13, Zenon DEF Return, Rejuvenates
<1>14. ASSUME NEW o \in Oid, Evict(o) PROVE Rejuvenates
  BY <1>14, Zenon DEF Evict, Rejuvenates
<1>15. ASSUME NEW o \in Oid, Loosen(o) PROVE Rejuvenates
  BY <1>15, Zenon DEF Loosen, Rejuvenates
<1>16. ASSUME NEW o \in Oid, PrunePacked(o) PROVE Rejuvenates
  BY <1>16, Zenon DEF PrunePacked, Rejuvenates
<1>17. ASSUME NEW o \in Oid, Prune(o) PROVE Rejuvenates
  BY <1>17, Zenon DEF Prune, Rejuvenates
<1>18. ASSUME NEW p \in Pack, NEW S \in SUBSET Oid, WritePack(p, S) PROVE Rejuvenates
  BY <1>18, Zenon DEF WritePack, Rejuvenates
<1>19. ASSUME NEW p \in Pack, RemovePack(p) PROVE Rejuvenates
  BY <1>19, Zenon DEF RemovePack, Rejuvenates
<1>20. ASSUME OdbTick PROVE Rejuvenates
  BY <1>20, Zenon DEF OdbTick, Rejuvenates
<1>21. ASSUME UNCHANGED odb_vars PROVE Rejuvenates
  BY <1>21, Zenon DEF odb_vars, Rejuvenates
<1>22. QED
  BY <1>1, <1>2, <1>3, <1>4, <1>5, <1>6, <1>7, <1>8, <1>9, <1>10, <1>11, <1>12, <1>13, <1>14,
     <1>15, <1>16, <1>17, <1>18, <1>19, <1>20, <1>21, ZenonT(40) DEF OdbNext, Kind

(* What is younger than Expire and not aged keeps a copy that is as new: the  *)
(* others drop one only for another, and prune only what is older.            *)
LEMMA FreshStep ==
    ASSUME FreshenAssumption, OdbTypeOK, ShapeOK, OdbTimeOK, [OdbNext]_odb_vars,
           NEW o \in Oid, NEW t \in Int, t <= odb_clock, StaysFresh(o, t)
    PROVE  StaysFresh(o, t)'
<1> SUFFICES ASSUME odb_clock' <= t + Expire, o \notin aged' PROVE Fresh(o, t)'
  BY Zenon DEF StaysFresh
<1>t. OdbTypeOK'
  BY OdbTypeStep, Zenon
<1>c. odb_clock' >= odb_clock
  BY DiskStep, Zenon DEF OnlyOthersRemove
<1>a. CASE o \in aged
  <2>1. Fresh(o, odb_clock)'
    BY <1>a, <1>t, AgedStep, Zenon DEF Rejuvenates
  <2>2. QED
    BY <1>c, <1>t, <2>1 DEF Fresh, InPack, OdbTypeOK
<1> SUFFICES ASSUME o \notin aged PROVE Fresh(o, t)'
  BY <1>a, Zenon
<1>0. Fresh(o, t)
  BY <1>c, <1>t DEF StaysFresh, OdbTypeOK, FreshenAssumption
<1>1. CASE Grows
  BY <1>0, <1>1, <1>t, FreshGrows, Zenon
<1>2. ASSUME NEW q \in Pack, RemovePack(q) PROVE Fresh(o, t)'
  <2>1. loose' = loose /\ contents' = contents /\ packed[q] > 0
    BY <1>2, Zenon DEF RemovePack
  <2>2. \A p \in Pack \ {q} : packed'[p] = packed[p]
    BY <1>2, Zenon DEF RemovePack, OdbTypeOK
  <2>3. CASE loose[o] > 0 /\ loose[o] >= t
    BY <2>1, <2>3, Zenon DEF Fresh
  <2>4. ASSUME NEW p \in Pack \ {q}, packed[p] > 0, o \in contents[p], packed[p] >= t
        PROVE  Fresh(o, t)'
    BY <2>1, <2>2, <2>4, Zenon DEF Fresh, InPack
  <2>5. CASE o \in contents[q] /\ packed[q] >= t
    <3>1. CASE loose[o] >= packed[q]
      BY <2>1, <2>5, <3>1 DEF Fresh, OdbTypeOK
    <3>2. CASE \E p \in InPack(o) \ {q} : packed[p] >= packed[q]
      <4>1. PICK p \in Pack \ {q} : packed[p] > 0 /\ o \in contents[p] /\ packed[p] >= packed[q]
        BY <3>2, Zenon DEF InPack
      <4>2. packed[p] >= t
        BY <2>5, <4>1 DEF OdbTypeOK
      <4>3. QED
        BY <2>4, <4>1, <4>2, Zenon
    <3>3. QED
      BY <1>2, <2>5, <3>1, <3>2, Zenon DEF RemovePack, AsNew
  <2>6. QED
    BY <1>0, <2>3, <2>4, <2>5, Zenon DEF Fresh, InPack
<1>3. ASSUME NEW q \in Oid, PrunePacked(q) PROVE Fresh(o, t)'
  <2>1. packed' = packed /\ contents' = contents
    BY <1>3, Zenon DEF PrunePacked
  <2>2. CASE \E p \in InPack(o) : packed[p] >= t
    BY <2>1, <2>2, Zenon DEF Fresh, InPack
  <2>3. CASE loose[o] > 0 /\ loose[o] >= t /\ o # q
    BY <1>3, <2>3, Zenon DEF PrunePacked, Fresh, OdbTypeOK
  <2>4. CASE loose[o] > 0 /\ loose[o] >= t /\ o = q
    <3>1. PICK p \in InPack(o) : packed[p] >= loose[o]
      <4>1. AsNew(InPack(o), 0, loose[o])
        BY <1>3, <2>4, Zenon DEF PrunePacked
      <4>2. ~(0 >= loose[o])
        BY <2>4 DEF OdbTypeOK
      <4>3. QED
        BY <4>1, <4>2, Zenon DEF AsNew
    <3>2. packed[p] >= t
      BY <2>4, <3>1 DEF OdbTypeOK, InPack
    <3>3. QED
      BY <2>2, <3>2, Zenon
  <2>5. QED
    BY <1>0, <2>2, <2>3, <2>4, Zenon DEF Fresh
<1>4. ASSUME NEW q \in Oid, Prune(q) PROVE Fresh(o, t)'
  <2>1. packed' = packed /\ contents' = contents /\ odb_clock' = odb_clock
    BY <1>4, Zenon DEF Prune
  <2>2. CASE \E p \in InPack(o) : packed[p] >= t
    BY <2>1, <2>2, Zenon DEF Fresh, InPack
  <2>3. CASE loose[o] > 0 /\ loose[o] >= t
    <3>1. o # q
      BY <1>4, <2>1, <2>3, SMTT(30) DEF Prune, OdbTypeOK, FreshenAssumption
    <3>2. QED
      BY <1>4, <2>3, <3>1, Zenon DEF Prune, Fresh, OdbTypeOK
  <2>4. QED
    BY <1>0, <2>2, <2>3, Zenon DEF Fresh
<1>5. QED
  BY <1>1, <1>2, <1>3, <1>4, DiskStep, Zenon DEF OnlyOthersRemove, Removal

-----------------------------------------------------------------------------
(* A pack is touched at the time that is remembered for it; a write is         *)
(* reported with the time it was called; and it is done with a hit or a store. *)
Touching(p) ==
    \/ last_freshen'[p] = last_freshen[p] /\ (contents'[p] = contents[p] \/ last_freshen[p] = 0)
    \/ last_freshen'[p] = odb_clock' /\ packed'[p] = odb_clock' /\ contents'[p] = contents[p]

Reporting(o) ==
    \/ written'[o] = written[o]
    \/ odb_op.kind = "write" /\ odb_op.pc = "return" /\ odb_op.oid = o /\ written'[o] = odb_op.since

Finishing ==
    odb_op'.kind = "write" /\ odb_op'.pc = "return" =>
        /\ odb_op.kind = "write" /\ odb_op'.oid = odb_op.oid /\ odb_op'.since = odb_op.since
        /\ odb_op.pc = "return" \/ LooseHit \/ Store \/ \E p \in Pack : PackHit(p)

Books == Finishing /\ (\A p \in Pack : Touching(p)) /\ (\A o \in Oid : Reporting(o))

(* What each step of odb.c does to the result and to the timestamps of     *)
(* files.                                                                  *)
LEMMA BooksStep == OdbTypeOK /\ ShapeOK /\ OdbTimeOK /\ [OdbNext]_odb_vars => Books
<1> SUFFICES ASSUME OdbTypeOK, ShapeOK, OdbTimeOK, [OdbNext]_odb_vars PROVE Books
  BY Zenon
<1> USE DEF OdbTypeOK, ShapeOK, OdbTimeOK, Op, odb_disk, odb_handle, odb_history
<1>1. ASSUME NEW k \in Kind, NEW o \in Oid \cup {NoOid}, Call(k, o), k # "foreach" => o \in Oid PROVE Books
  <2>1. odb_op'.kind = "write" => odb_op'.pc # "return"
    BY <1>1, CallOp, Zenon DEF CacheAnswers
  <2>2. QED
    BY <1>1, <2>1, Zenon DEF Call, Finishing, Touching, Reporting, Books
<1>2. ASSUME NEW p \in Pack, PackHit(p) PROVE Books
  <2>1. odb_op'.kind = odb_op.kind /\ odb_op'.oid = odb_op.oid /\ odb_op'.since = odb_op.since
    BY <1>2, Zenon DEF PackHit
  <2>2. \A q \in Pack : Touching(q)
    BY <1>2, Zenon DEF PackHit, Touching
  <2>3. QED
    BY <1>2, <2>1, <2>2, Zenon DEF PackHit, Finishing, Reporting, Books
<1>3. ASSUME NEW p \in Pack, PackMiss(p) PROVE Books
  <2>1. Finishing
    BY <1>3, Zenon DEF PackMiss, Finishing
  <2>2. QED
    BY <1>3, <2>1, Zenon DEF PackMiss, Touching, Reporting, Books
<1>4. ASSUME NEW p \in Pack, LoadPack(p) PROVE Books
  <2>1. Finishing
    BY <1>4, Zenon DEF LoadPack, Finishing
  <2>2. QED
    BY <1>4, <2>1, Zenon DEF LoadPack, Touching, Reporting, Books
<1>5. ASSUME NEW p \in Pack, ForeachPack(p) PROVE Books
  <2>1. Finishing
    BY <1>5, Zenon DEF ForeachPack, Finishing
  <2>2. QED
    BY <1>5, <2>1, Zenon DEF ForeachPack, Touching, Reporting, Books
<1>6. ASSUME PackedDone PROVE Books
  <2>1. Finishing
    BY <1>6, Zenon DEF PackedDone, Finishing
  <2>2. QED
    BY <1>6, <2>1, Zenon DEF PackedDone, Touching, Reporting, Books
<1>7. ASSUME LooseHit PROVE Books
  <2>1. odb_op'.kind = odb_op.kind /\ odb_op'.oid = odb_op.oid /\ odb_op'.since = odb_op.since
    BY <1>7, Zenon DEF LooseHit
  <2>2. Finishing
    BY <1>7, <2>1, Zenon DEF Finishing
  <2>3. QED
    BY <1>7, <2>2, Zenon DEF LooseHit, Touching, Reporting, Books
<1>8. ASSUME LooseMiss PROVE Books
  <2>1. Finishing
    BY <1>8, Zenon DEF LooseMiss, Finishing
  <2>2. QED
    BY <1>8, <2>1, Zenon DEF LooseMiss, Touching, Reporting, Books
<1>9. ASSUME Store PROVE Books
  <2>1. odb_op'.kind = odb_op.kind /\ odb_op'.oid = odb_op.oid /\ odb_op'.since = odb_op.since
    BY <1>9, Zenon DEF Store
  <2>2. Finishing
    BY <1>9, <2>1, Zenon DEF Finishing
  <2>3. QED
    BY <1>9, <2>2, Zenon DEF Store, Touching, Reporting, Books
<1>10. ASSUME Refresh PROVE Books
  <2>1. Finishing
    BY <1>10, Zenon DEF Refresh, Finishing
  <2>2. QED
    BY <1>10, <2>1, Zenon DEF Refresh, Touching, Reporting, Books
<1>11. ASSUME ListDone PROVE Books
  <2>1. Finishing
    BY <1>11, Zenon DEF ListDone, Finishing
  <2>2. QED
    BY <1>11, <2>1, Zenon DEF ListDone, Touching, Reporting, Books
<1>12. ASSUME ForeachLoose PROVE Books
  <2>1. Finishing
    BY <1>12, Zenon DEF ForeachLoose, Finishing
  <2>2. QED
    BY <1>12, <2>1, Zenon DEF ForeachLoose, Touching, Reporting, Books
<1>13. ASSUME Return PROVE Books
  <2>1. Finishing
    BY <1>13, Zenon DEF Return, NoCall, Kind, Finishing
  <2>2. QED
    BY <1>13, <2>1, Zenon DEF Return, NoCall, Kind, Touching, Reporting, Books
<1>14. ASSUME NEW o \in Oid, Evict(o) PROVE Books
  <2>1. Finishing
    BY <1>14, Zenon DEF Evict, Finishing
  <2>2. QED
    BY <1>14, <2>1, Zenon DEF Evict, Touching, Reporting, Books
<1>15. ASSUME NEW o \in Oid, Loosen(o) PROVE Books
  <2>1. Finishing
    BY <1>15, Zenon DEF Loosen, InPack, Finishing
  <2>2. QED
    BY <1>15, <2>1, Zenon DEF Loosen, InPack, Touching, Reporting, Books
<1>16. ASSUME NEW o \in Oid, PrunePacked(o) PROVE Books
  <2>1. Finishing
    BY <1>16, Zenon DEF PrunePacked, Moved, Finishing
  <2>2. QED
    BY <1>16, <2>1, Zenon DEF PrunePacked, Moved, Touching, Reporting, Books
<1>17. ASSUME NEW o \in Oid, Prune(o) PROVE Books
  <2>1. Finishing
    BY <1>17, Zenon DEF Prune, Moved, Finishing
  <2>2. QED
    BY <1>17, <2>1, Zenon DEF Prune, Moved, Touching, Reporting, Books
<1>18. ASSUME NEW p \in Pack, NEW S \in SUBSET Oid, WritePack(p, S) PROVE Books
  <2>1. Finishing
    BY <1>18, Zenon DEF WritePack, Finishing
  <2>2. QED
    BY <1>18, <2>1, Zenon DEF WritePack, Touching, Reporting, Books
<1>19. ASSUME NEW p \in Pack, RemovePack(p) PROVE Books
  <2>1. Finishing
    BY <1>19, Zenon DEF RemovePack, Moved, Finishing
  <2>2. QED
    BY <1>19, <2>1, Zenon DEF RemovePack, Moved, Touching, Reporting, Books
<1>20. ASSUME OdbTick PROVE Books
  <2>1. Finishing
    BY <1>20, Zenon DEF OdbTick, Finishing
  <2>2. QED
    BY <1>20, <2>1, Zenon DEF OdbTick, Touching, Reporting, Books
<1>21. ASSUME UNCHANGED odb_vars PROVE Books
  <2>1. Finishing
    BY <1>21, Zenon DEF odb_vars, odb_disk, odb_handle, odb_history, Finishing
  <2>2. QED
    BY <1>21, <2>1, Zenon DEF odb_vars, odb_disk, odb_handle, odb_history, Touching, Reporting, Books
<1>22. QED
  BY <1>1, <1>2, <1>3, <1>4, <1>5, <1>6, <1>7, <1>8, <1>9, <1>10, <1>11, <1>12, <1>13, <1>14,
     <1>15, <1>16, <1>17, <1>18, <1>19, <1>20, <1>21, SMTT(30) DEF OdbNext, Kind

(* The three ways in which git_odb_write() finishes leave a copy that is as    *)
(* new as promised: it touches a pack that holds the object, unless this       *)
(* handle did so less than FRESHEN_FREQUENCY ago; it touches the loose object; *)
(* or it writes one.                                                           *)
LEMMA FinishStep ==
    ASSUME FreshenAssumption, OdbTypeOK, ShapeOK, OdbTimeOK, TouchedStay, OdbTypeOK',
           NEW o \in Oid, NEW t \in Int, o = odb_op.oid, t = odb_op.since - FRESHEN_FREQUENCY,
           odb_op.kind = "write", LooseHit \/ Store \/ \E p \in Pack : PackHit(p)
    PROVE  StaysFresh(o, t)'
<1>0. t \in Int /\ t <= odb_clock /\ odb_clock > 0
  BY DEF OdbTimeOK, OdbTypeOK, Op, FreshenAssumption
<1>1. CASE LooseHit \/ Store
  <2>1. loose'[o] = odb_clock
    BY <1>1, Zenon DEF LooseHit, Store, OdbTypeOK
  <2>2. QED
    BY <1>0, <2>1, Zenon DEF StaysFresh, Fresh, OdbTypeOK
<1>2. ASSUME NEW p \in Pack, PackHit(p) PROVE StaysFresh(o, t)'
  <2>1. o \in contents[p] /\ contents' = contents /\ odb_clock' = odb_clock /\ loose' = loose
    BY <1>2, Zenon DEF PackHit, PackHasIt
  <2>2. CASE Touches(p)
    <3>1. packed'[p] = odb_clock
      BY <1>2, <2>2, Zenon DEF PackHit, OdbTypeOK
    <3>2. QED
      BY <1>0, <2>1, <3>1, Zenon DEF StaysFresh, Fresh, InPack, OdbTypeOK
  <2>3. CASE ~Touches(p)
    <3>1. packed' = packed /\ aged' = aged
      BY <1>2, <2>3, Zenon DEF PackHit
    <3> SUFFICES ASSUME o \notin aged PROVE StaysFresh(o, t)'
      BY <3>1, Zenon DEF StaysFresh
    <3>2. last_freshen[p] > odb_clock - FRESHEN_FREQUENCY
      BY <2>3, SMTT(30) DEF Touches, OdbTypeOK, FreshenAssumption
    <3>3. last_freshen[p] > 0 /\ odb_clock <= last_freshen[p] + Expire /\ last_freshen[p] >= t
      BY <3>2 DEF OdbTimeOK, OdbTypeOK, Op, FreshenAssumption
    <3>4. Fresh(o, last_freshen[p])
      BY <2>1, <3>3, ZenonT(40) DEF TouchedStay, StaysFresh
    <3>5. Fresh(o, t)
      BY <3>3, <3>4 DEF Fresh, OdbTypeOK, InPack
    <3>6. QED
      BY <2>1, <3>1, <3>5, Zenon DEF StaysFresh, Fresh, InPack
  <2>4. QED
    BY <2>2, <2>3, Zenon
<1>3. QED
  BY <1>1, <1>2, Zenon

(* Every step keeps what a write stored or freshened.                      *)
LEMMA WriteStep ==
    FreshenAssumption /\ WriteInv /\ [OdbNext]_odb_vars => TouchedStay' /\ WriteStays'
<1> SUFFICES ASSUME FreshenAssumption, WriteInv, [OdbNext]_odb_vars
             PROVE  TouchedStay' /\ WriteStays'
  BY Zenon
<1> USE DEF WriteInv, Safe
<1>t. OdbTypeOK' /\ ShapeOK' /\ OdbTimeOK'
  BY OdbTypeStep, ShapeStep, OdbTimeStep, Zenon
<1>b. Books
  BY BooksStep, ZenonT(40)
<1>1. ASSUME NEW p \in Pack, last_freshen'[p] > 0, NEW o \in contents'[p]
      PROVE  StaysFresh(o, last_freshen[p])'
  <2>1. PICK t \in Int : t = last_freshen'[p]
    BY <1>t DEF OdbTypeOK
  <2>2. o \in Oid
    BY <1>t, Zenon DEF OdbTypeOK
  <2>3. CASE last_freshen'[p] = last_freshen[p] /\ contents'[p] = contents[p]
    <3>1. StaysFresh(o, t)
      BY <1>1, <2>1, <2>3, Zenon DEF TouchedStay
    <3>2. t <= odb_clock
      BY <2>1, <2>3, Zenon DEF OdbTimeOK
    <3>3. StaysFresh(o, t)'
      BY <2>2, <3>1, <3>2, FreshStep, ZenonT(40)
    <3>4. QED
      BY <2>1, <3>3, Zenon DEF StaysFresh, Fresh, InPack
  <2>4. CASE packed'[p] = odb_clock' /\ last_freshen'[p] = odb_clock'
    BY <1>1, <2>4, <1>t DEF StaysFresh, Fresh, InPack, OdbTypeOK
  <2>5. QED
    BY <1>1, <1>b, <2>3, <2>4, SMTT(30) DEF Books, Touching
<1>2. ASSUME NEW o \in Oid, written'[o] > 0
      PROVE  StaysFresh(o, written[o] - FRESHEN_FREQUENCY)'
  <2>1. PICK t \in Int : t = written'[o] - FRESHEN_FREQUENCY
    BY <1>t DEF OdbTypeOK, FreshenAssumption
  <2>2. StaysFresh(o, t)
    BY <1>2, <1>b, <2>1, Zenon DEF Books, Reporting, WriteStays
  <2>3. t <= odb_clock
    <3>1. written'[o] <= odb_clock
      BY <1>b, Zenon DEF Books, Reporting, OdbTimeOK
    <3>2. QED
      BY <1>t, <2>1, <3>1 DEF OdbTypeOK, FreshenAssumption
  <2>4. StaysFresh(o, t)'
    BY <2>2, <2>3, FreshStep, Zenon
  <2>5. QED
    BY <2>1, <2>4, Zenon DEF StaysFresh, Fresh, InPack
<1>3. ASSUME odb_op'.kind = "write", odb_op'.pc = "return"
      PROVE  StaysFresh(odb_op.oid, odb_op.since - FRESHEN_FREQUENCY)'
  <2>1. PICK o \in Oid, t \in Int : o = odb_op'.oid /\ t = odb_op'.since - FRESHEN_FREQUENCY
    BY <1>3, <1>t DEF OdbTypeOK, ShapeOK, Op, FreshenAssumption
  <2>2. /\ odb_op.kind = "write" /\ o = odb_op.oid /\ t = odb_op.since - FRESHEN_FREQUENCY
        /\ odb_op.pc = "return" \/ LooseHit \/ Store \/ \E p \in Pack : PackHit(p)
    BY <1>3, <1>b, <2>1, Zenon DEF Books, Finishing
  <2>3. CASE odb_op.pc = "return"
    <3>1. StaysFresh(o, t)
      BY <2>2, <2>3, Zenon DEF WriteStays
    <3>2. t <= odb_clock
      BY <2>2 DEF OdbTimeOK, OdbTypeOK, Op, FreshenAssumption
    <3>3. QED
      BY <3>1, <3>2, <2>1, FreshStep, Zenon DEF StaysFresh, Fresh, InPack
  <2>4. CASE LooseHit \/ Store \/ \E p \in Pack : PackHit(p)
    <3>1. StaysFresh(o, t)'
      BY <2>2, <2>4, <1>t, FinishStep, Zenon
    <3>2. QED
      BY <3>1, <2>1, Zenon DEF StaysFresh, Fresh, InPack
  <2>5. QED
    BY <2>2, <2>3, <2>4, Zenon
<1>4. QED
  BY <1>1, <1>2, <1>3, Zenon DEF TouchedStay, WriteStays

(* An object that git_odb_write() has reported as written is on disk for the   *)
(* time that the touch of an existing copy is meant to buy, however other      *)
(* processes repack, loosen and prune meanwhile, as long as none of them       *)
(* removes its youngest copy and leaves an older one.                          *)
THEOREM WrittenObjectsStay ==
    ASSUME FreshenAssumption PROVE OdbSpec => []WrittenStays
<1>1. OdbInit => WriteInv
  <2> SUFFICES ASSUME OdbInit PROVE WriteInv
    BY Zenon
  <2>1. Safe
    BY InitSafe, Zenon
  <2>2. TouchedStay /\ WriteStays
    BY DEF OdbInit, TouchedStay, WriteStays, NoCall
  <2>3. QED
    BY <2>1, <2>2, Zenon DEF WriteInv
<1>2. WriteInv /\ [OdbNext]_odb_vars => WriteInv'
  BY OdbTypeStep, ShapeStep, OdbTimeStep, WriteStep, Zenon DEF WriteInv, Safe
<1>3. WriteInv => WrittenStays
  <2> SUFFICES ASSUME WriteInv, NEW o \in Oid \ aged, written[o] > 0,
                      odb_clock <= written[o] + Expire - FRESHEN_FREQUENCY
               PROVE  OnDisk(o)
    BY Zenon DEF WrittenStays
  <2>1. Fresh(o, written[o] - FRESHEN_FREQUENCY)
    BY SMTT(20) DEF WriteInv, Safe, WriteStays, StaysFresh, OdbTypeOK, FreshenAssumption
  <2>2. QED
    BY <2>1, Zenon DEF Fresh, OnDisk, InPack
<1>4. QED
  BY <1>1, <1>2, <1>3, PTL DEF OdbSpec

-----------------------------------------------------------------------------
(* A removal of a copy counts as a move, and the first one leaves another     *)
(* copy or none; a miss of the loose object after it therefore has a pack      *)
(* that the directory lists.                                                   *)
LEMMA LookupStep == OdbTypeOK /\ ShapeOK /\ LookupAhead /\ [OdbNext]_odb_vars => LookupAhead'
<1> SUFFICES ASSUME OdbTypeOK, ShapeOK, LookupAhead, [OdbNext]_odb_vars PROVE LookupAhead'
  BY SMTT(30)
<1> USE DEF OdbTypeOK, ShapeOK, Op, OdbPc, odb_disk, odb_handle, odb_history, LookupAhead, Ahead, InPack, OnDisk
<1>1. ASSUME NEW k \in Kind, NEW o \in Oid \cup {NoOid}, Call(k, o), k # "foreach" => o \in Oid PROVE LookupAhead'
  <2>1. /\ odb_op'.kind = k /\ odb_op'.oid = o /\ odb_op'.pass = 1 /\ odb_op'.todo = packs
        /\ odb_op'.known = IF k = "write" THEN {} ELSE InPlace(k)
    BY <1>1, CallOp
  <2>d. loose' = loose /\ packed' = packed /\ contents' = contents
    BY <1>1, ZenonT(40) DEF Call
  <2>2. ASSUME k \in {"read", "exists"}, ~odb_op'.found PROVE odb_op'.pc = "packed"
    BY <1>1, <2>2, CallOp
  <2>3. k # "foreach" /\ o \in InPlace(k) =>
            loose[o] > 0 \/ \E p \in packs : p \in InPack(o)
    BY Zenon DEF InPlace
  <2>4. QED
    BY <1>1, <2>1, <2>d, <2>2, <2>3, SMTT(30)
<1>2. ASSUME NEW p \in Pack, PackHit(p) PROVE LookupAhead'
  BY <1>2, Zenon DEF PackHit
<1>3. ASSUME NEW p \in Pack, PackMiss(p) PROVE LookupAhead'
  BY <1>3 DEF PackMiss, PackHasIt, Readable, Frozen
<1>4. ASSUME NEW p \in Pack, LoadPack(p) PROVE LookupAhead'
  BY <1>4 DEF LoadPack
<1>5. ASSUME NEW p \in Pack, ForeachPack(p) PROVE LookupAhead'
  BY <1>5 DEF ForeachPack
<1>6. ASSUME PackedDone PROVE LookupAhead'
  BY <1>6 DEF PackedDone
<1>7. ASSUME LooseHit PROVE LookupAhead'
  BY <1>7, Zenon DEF LooseHit
<1>8. ASSUME LooseMiss PROVE LookupAhead'
  BY <1>8 DEF LooseMiss
<1>9. ASSUME Store PROVE LookupAhead'
  BY <1>9, Zenon DEF Store
<1>10. ASSUME Refresh PROVE LookupAhead'
  BY <1>10 DEF Refresh
<1>11. ASSUME ListDone PROVE LookupAhead'
  BY <1>11 DEF ListDone
<1>12. ASSUME ForeachLoose PROVE LookupAhead'
  BY <1>12, Zenon DEF ForeachLoose
<1>13. ASSUME Return PROVE LookupAhead'
  BY <1>13, ZenonT(40) DEF Return, NoCall, Kind
<1>14. ASSUME NEW o \in Oid, Evict(o) PROVE LookupAhead'
  BY <1>14, SMTT(30) DEF Evict
<1>15. ASSUME NEW o \in Oid, Loosen(o) PROVE LookupAhead'
  BY <1>15, SMTT(30) DEF Loosen, InPack
<1>16. ASSUME NEW o \in Oid, PrunePacked(o) PROVE LookupAhead'
  BY <1>16 DEF PrunePacked, Moved
<1>17. ASSUME NEW o \in Oid, Prune(o) PROVE LookupAhead'
  BY <1>17, SMTT(30) DEF Prune, Moved
<1>18. ASSUME NEW p \in Pack, NEW S \in SUBSET Oid, WritePack(p, S) PROVE LookupAhead'
  BY <1>18 DEF WritePack
<1>19. ASSUME NEW p \in Pack, RemovePack(p) PROVE LookupAhead'
  BY <1>19, SMTT(30) DEF RemovePack, Moved
<1>20. ASSUME OdbTick PROVE LookupAhead'
  BY <1>20, SMTT(30) DEF OdbTick
<1>21. ASSUME UNCHANGED odb_vars PROVE LookupAhead'
  BY <1>21, SMTT(20) DEF odb_vars, odb_disk, odb_handle, odb_history
<1>22. QED
  BY <1>1, <1>2, <1>3, <1>4, <1>5, <1>6, <1>7, <1>8, <1>9, <1>10, <1>11, <1>12, <1>13, <1>14,
     <1>15, <1>16, <1>17, <1>18, <1>19, <1>20, <1>21, ZenonT(40) DEF OdbNext, Kind

(* git_odb_foreach() lists the directory first: an object that does not move   *)
(* is loose until the loose objects are reported, or in a pack that is         *)
(* listed and then reported.                                                   *)
LEMMA ForeachStep == OdbTypeOK /\ ShapeOK /\ ForeachAhead /\ [OdbNext]_odb_vars => ForeachAhead'
<1> SUFFICES ASSUME OdbTypeOK, ShapeOK, ForeachAhead, [OdbNext]_odb_vars PROVE ForeachAhead'
  BY ZenonT(40)
<1> USE DEF OdbTypeOK, ShapeOK, Op, OdbPc, odb_disk, odb_handle, odb_history, ForeachAhead, ReportAhead, InPack, OnDisk
<1>1. ASSUME NEW k \in Kind, NEW o \in Oid \cup {NoOid}, Call(k, o), k # "foreach" => o \in Oid PROVE ForeachAhead'
  <2>1. /\ odb_op'.kind = k
        /\ k = "foreach" => odb_op'.pc = "refresh" /\ odb_op'.known = InPlace(k)
    BY <1>1, CallOp DEF CacheAnswers
  <2>d. loose' = loose /\ packed' = packed /\ contents' = contents
    BY <1>1, Zenon DEF Call
  <2>2. \A x \in InPlace(k) : OnDisk(x)
    BY Zenon DEF InPlace
  <2>3. QED
    BY <1>1, <2>1, <2>d, <2>2, SMTT(30)
<1>2. ASSUME NEW p \in Pack, PackHit(p) PROVE ForeachAhead'
  BY <1>2, Zenon DEF PackHit
<1>3. ASSUME NEW p \in Pack, PackMiss(p) PROVE ForeachAhead'
  BY <1>3, Zenon DEF PackMiss
<1>4. ASSUME NEW p \in Pack, LoadPack(p) PROVE ForeachAhead'
  BY <1>4 DEF LoadPack
<1>5. ASSUME NEW p \in Pack, ForeachPack(p) PROVE ForeachAhead'
  BY <1>5 DEF ForeachPack, HasIndex
<1>6. ASSUME PackedDone PROVE ForeachAhead'
  BY <1>6 DEF PackedDone
<1>7. ASSUME LooseHit PROVE ForeachAhead'
  BY <1>7, Zenon DEF LooseHit
<1>8. ASSUME LooseMiss PROVE ForeachAhead'
  BY <1>8, Zenon DEF LooseMiss
<1>9. ASSUME Store PROVE ForeachAhead'
  BY <1>9, Zenon DEF Store
<1>10. ASSUME Refresh PROVE ForeachAhead'
  BY <1>10 DEF Refresh
<1>11. ASSUME ListDone PROVE ForeachAhead'
  BY <1>11 DEF ListDone
<1>12. ASSUME ForeachLoose PROVE ForeachAhead'
  BY <1>12 DEF ForeachLoose
<1>13. ASSUME Return PROVE ForeachAhead'
  BY <1>13, ZenonT(40) DEF Return, NoCall, Kind
<1>14. ASSUME NEW o \in Oid, Evict(o) PROVE ForeachAhead'
  BY <1>14, SMTT(30) DEF Evict
<1>15. ASSUME NEW o \in Oid, Loosen(o) PROVE ForeachAhead'
  BY <1>15 DEF Loosen, InPack
<1>16. ASSUME NEW o \in Oid, PrunePacked(o) PROVE ForeachAhead'
  BY <1>16 DEF PrunePacked, Moved
<1>17. ASSUME NEW o \in Oid, Prune(o) PROVE ForeachAhead'
  BY <1>17, SMTT(30) DEF Prune, Moved
<1>18. ASSUME NEW p \in Pack, NEW S \in SUBSET Oid, WritePack(p, S) PROVE ForeachAhead'
  BY <1>18 DEF WritePack
<1>19. ASSUME NEW p \in Pack, RemovePack(p) PROVE ForeachAhead'
  BY <1>19, SMTT(30) DEF RemovePack, Moved
<1>20. ASSUME OdbTick PROVE ForeachAhead'
  BY <1>20, SMTT(30) DEF OdbTick
<1>21. ASSUME UNCHANGED odb_vars PROVE ForeachAhead'
  BY <1>21 DEF odb_vars, odb_disk, odb_handle, odb_history
<1>22. QED
  BY <1>1, <1>2, <1>3, <1>4, <1>5, <1>6, <1>7, <1>8, <1>9, <1>10, <1>11, <1>12, <1>13, <1>14,
     <1>15, <1>16, <1>17, <1>18, <1>19, <1>20, <1>21, ZenonT(40) DEF OdbNext, Kind

(* git_odb_read() and git_odb_exists() find an object that was in place when    *)
(* the call began and that other processes moved at most once since, unless it  *)
(* is gone; git_odb_foreach() reports every object that nobody moves.           *)
THEOREM StoredObjectsAreFound ==
    ASSUME FreshenAssumption PROVE OdbSpec => []ObjectsAreFound
<1>1. OdbInit => LookupInv
  <2> SUFFICES ASSUME OdbInit PROVE LookupInv
    BY Zenon
  <2>1. Safe
    BY InitSafe, Zenon
  <2>2. odb_op.kind = "read" /\ odb_op.pc = "idle"
    BY DEF OdbInit, NoCall
  <2>3. LookupAhead /\ ForeachAhead
    BY <2>2 DEF LookupAhead, ForeachAhead
  <2>4. QED
    BY <2>1, <2>3, Zenon DEF LookupInv
<1>2. LookupInv /\ [OdbNext]_odb_vars => LookupInv'
  BY OdbTypeStep, ShapeStep, OdbTimeStep, LookupStep, ForeachStep, Zenon DEF LookupInv, Safe
<1>3. LookupInv => ObjectsAreFound
  <2> SUFFICES ASSUME LookupInv PROVE ObjectsAreFound
    BY Zenon
  <2> USE DEF LookupInv, Safe, OdbTypeOK, Op
  <2>1. OneMoveIsSafe
    <3>1. odb_op.pc = "return" /\ odb_op.kind \in {"read", "exists"} => odb_op.oid \in Oid
      BY Zenon DEF ShapeOK
    <3>2. QED
      BY <3>1 DEF OneMoveIsSafe, LookupAhead, Ahead
  <2>2. ForeachComplete
    BY Zenon DEF ForeachComplete, ForeachAhead, ReportAhead
  <2>3. QED
    BY <2>1, <2>2, Zenon DEF ObjectsAreFound
<1>4. QED
  BY <1>1, <1>2, <1>3, PTL DEF OdbSpec
=============================================================================

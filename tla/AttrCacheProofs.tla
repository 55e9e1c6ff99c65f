-------------------------- MODULE AttrCacheProofs --------------------------
(* Proofs about the shared cache of attribute files, for any number of        *)
(* threads, of parsed files, of edits and of failures.                        *)
EXTENDS AttrCache, FiniteSetTheorems, TLAPS

Pc == {"init", "swap", "idle", "check", "stat", "read", "stamp", "upsert", "drop", "remove",
       "use", "release"}
Pointer == Handle \cup {NoAttr}
AttrFile == [refcount : Int, version : Nat, stamp : Nat, nonexistent : BOOLEAN,
             session : Thread \cup {NoAttr}]
Locals == [pc : Pc, file : Pointer, updated : Pointer, stat : Nat]

TypeOK ==
    /\ attr_disk \in Nat /\ attr_edits \in Nat /\ failures \in Nat
    /\ attrcache \in Thread \cup {NoAttr} /\ allocated \in SUBSET Thread
    /\ cached \in Pointer /\ f \in [Handle -> AttrFile] /\ th \in [Thread -> Locals]

(* Which pointers a thread has at each step                                   *)
PointersOK(t) ==
    /\ th[t].pc \in {"init", "swap", "idle"} => th[t].file = NoAttr
    /\ th[t].pc \in {"check", "remove", "use", "release"} => th[t].file \in Handle
    /\ th[t].updated \in Handle <=> th[t].pc \in {"stamp", "upsert", "drop"}

(* The caches that are allocated are the one that the repository refers to,    *)
(* and those of the threads that are about to set it.                          *)
AllocatedOK ==
    /\ allocated = {t \in Thread : th[t].pc = "swap"} \cup ({attrcache} \ {NoAttr})
    /\ attrcache # NoAttr => th[attrcache].pc \notin {"init", "swap"}
    /\ attrcache = NoAttr => \A t \in Thread : th[t].pc \in {"init", "swap"}

(* A file that a thread has just parsed is its own until the upsert.           *)
Own(t) ==
    th[t].pc \in {"stamp", "upsert"} =>
        /\ cached # th[t].updated
        /\ \A u \in Thread : /\ th[u].file # th[t].updated
                             /\ u # t => th[u].updated # th[t].updated

(* The versions of the file are numbered, and what a thread parses is not      *)
(* older than the stamp it took before.                                        *)
VersionsOK ==
    /\ attr_disk \in {0, attr_edits}
    /\ \A h \in Handle : f[h].version <= attr_edits /\ f[h].stamp <= attr_edits
    /\ \A t \in Thread : th[t].stat <= attr_edits

ParsedOK(t) ==
    /\ th[t].pc = "stamp" /\ ~f[th[t].updated].nonexistent =>
           th[t].stat \in 1 .. f[th[t].updated].version
    /\ th[t].pc = "upsert" /\ ~f[th[t].updated].nonexistent =>
           f[th[t].updated].stamp \in 1 .. f[th[t].updated].version

(* A stamp that was moved past what was parsed has somebody who is about to    *)
(* replace the file in the cache, or to remove it.                             *)
Replaces(t, h) ==
    th[t].file = h /\ th[t].pc \in {"stat", "read", "stamp", "upsert", "remove"}

CachedOK ==
    cached # NoAttr /\ ~f[cached].nonexistent =>
        /\ f[cached].stamp >= 1
        /\ f[cached].stamp > f[cached].version => \E t \in Thread : Replaces(t, cached)

Counting == TypeOK /\ (\A t \in Thread : PointersOK(t)) /\ AttrRefCounts
Honest == VersionsOK /\ CachedOK /\ \A t \in Thread : Own(t) /\ ParsedOK(t)
AttrInv == Counting /\ AllocatedOK /\ Honest

-----------------------------------------------------------------------------
(* The two operations on a count                                              *)
LEMMA IncrefFile ==
    ASSUME NEW g \in [Handle -> AttrFile], NEW h \in Pointer, AttrAssumption
    PROVE  /\ Incref(g, h) \in [Handle -> AttrFile]
           /\ \A x \in Handle :
                 /\ Incref(g, h)[x].refcount = g[x].refcount + (IF x = h THEN 1 ELSE 0)
                 /\ Incref(g, h)[x].version = g[x].version
                 /\ Incref(g, h)[x].stamp = g[x].stamp
                 /\ Incref(g, h)[x].nonexistent = g[x].nonexistent
BY DEF Incref, AttrFile, AttrAssumption, Pointer

(* Dropping the count of a file changes that file alone, and its contents  *)
(* only when the count was the last.                                       *)
LEMMA DecrefFile ==
    ASSUME NEW g \in [Handle -> AttrFile], NEW h \in Pointer, AttrAssumption
    PROVE  /\ Decref(g, h) \in [Handle -> AttrFile]
           /\ \A x \in Handle :
                 /\ Decref(g, h)[x].refcount = g[x].refcount - (IF x = h THEN 1 ELSE 0)
                 /\ Decref(g, h)[x].version <= g[x].version
                 /\ Decref(g, h)[x].stamp <= g[x].stamp
                 /\ Decref(g, h)[x].refcount # 0 \/ x # h =>
                       /\ Decref(g, h)[x].version = g[x].version
                       /\ Decref(g, h)[x].stamp = g[x].stamp
                       /\ Decref(g, h)[x].nonexistent = g[x].nonexistent
<1>1. CASE h = NoAttr
  BY <1>1 DEF Decref, AttrFile, AttrAssumption
<1>2. CASE h \in Handle /\ g[h].refcount = 1
  <2>1. /\ Decref(g, h) = [g EXCEPT ![h] = Free] /\ Free \in AttrFile
        /\ Free.refcount = 0 /\ Free.version = 0 /\ Free.stamp = 0
    BY <1>2 DEF Decref, Free, AttrFile, AttrAssumption
  <2>2. \A x \in Handle : Decref(g, h)[x] = IF x = h THEN Free ELSE g[x]
    BY <2>1, Zenon
  <2>3. QED
    BY <1>2, <2>1, <2>2 DEF AttrFile
<1>3. CASE h \in Handle /\ g[h].refcount # 1
  <2> DEFINE less == [g[h] EXCEPT !.refcount = g[h].refcount - 1]
  <2>1. /\ less \in AttrFile /\ less.refcount = g[h].refcount - 1 /\ less.stamp = g[h].stamp
        /\ less.version = g[h].version /\ less.nonexistent = g[h].nonexistent
    BY <1>3 DEF AttrFile
  <2>2. Decref(g, h) = [g EXCEPT ![h] = less]
    BY <1>3, Zenon DEF Decref, AttrAssumption
  <2> HIDE DEF less
  <2>3. \A x \in Handle : Decref(g, h)[x] = IF x = h THEN less ELSE g[x]
    BY <2>2, Zenon
  <2>4. QED
    BY <1>3, <2>1, <2>2, <2>3 DEF AttrFile
<1>4. QED
  BY <1>1, <1>2, <1>3, Zenon DEF Pointer

(* The local variables of a thread, and the parsed files, keep their types.    *)
LEMMA LocalsStep == TypeOK /\ [AttrNext]_attr_vars => th' \in [Thread -> Locals]
<1> SUFFICES ASSUME TypeOK, [AttrNext]_attr_vars PROVE th' \in [Thread -> Locals]
  BY Zenon
<1> USE DEF TypeOK, Locals, Pc, Pointer, Goto
<1>1. ASSUME NEW t \in Thread, InitCheck(t) PROVE th' \in [Thread -> Locals]
  BY <1>1 DEF InitCheck
<1>2. ASSUME NEW t \in Thread, InitSwap(t) PROVE th' \in [Thread -> Locals]
  BY <1>2, ZenonT(40) DEF InitSwap
<1>3. ASSUME NEW t \in Thread, Lookup(t) PROVE th' \in [Thread -> Locals]
  <2>1. [th[t] EXCEPT !.pc = IF cached = NoAttr THEN "stat" ELSE "check", !.file = cached] \in Locals
    BY Zenon
  <2>2. QED
    BY <1>3, <2>1 DEF Lookup
<1>4. ASSUME NEW t \in Thread, OutOfDate(t) PROVE th' \in [Thread -> Locals]
  <2>1. PICK q \in Pc : th' = [th EXCEPT ![t].pc = q]
    BY <1>4, Zenon DEF OutOfDate
  <2>2. [th[t] EXCEPT !.pc = q] \in Locals
    BY <2>1, Zenon
  <2>3. QED
    BY <2>1, <2>2, Zenon
<1>5. ASSUME NEW t \in Thread, AttrStat(t) PROVE th' \in [Thread -> Locals]
  BY <1>5, ZenonT(40) DEF AttrStat
<1>6. ASSUME NEW t \in Thread, SetStamp(t) PROVE th' \in [Thread -> Locals]
  BY <1>6 DEF SetStamp
<1>7. ASSUME NEW t \in Thread, LoadFails(t) PROVE th' \in [Thread -> Locals]
  <2>1. [th[t] EXCEPT !.pc = IF th[t].file = NoAttr THEN "idle" ELSE "remove",
                    !.updated = NoAttr] \in Locals
    BY Zenon
  <2>2. QED
    BY <1>7, <2>1, ZenonT(40) DEF LoadFails
<1>8. ASSUME NEW t \in Thread, Upsert(t) PROVE th' \in [Thread -> Locals]
  BY <1>8 DEF Upsert
<1>9. ASSUME NEW t \in Thread, DropOld(t) PROVE th' \in [Thread -> Locals]
  <2>1. [th[t] EXCEPT !.pc = "use", !.file = th[t].updated, !.updated = NoAttr] \in Locals
    BY ZenonT(40)
  <2>2. QED
    BY <1>9, <2>1, Zenon DEF DropOld
<1>10. ASSUME NEW t \in Thread, AttrRemove(t) PROVE th' \in [Thread -> Locals]
  BY <1>10 DEF AttrRemove
<1>11. ASSUME NEW t \in Thread, Use(t) PROVE th' \in [Thread -> Locals]
  BY <1>11 DEF Use
<1>12. ASSUME NEW t \in Thread, Release(t) PROVE th' \in [Thread -> Locals]
  BY <1>12, Zenon DEF Release, AtRest
<1>13. ASSUME NEW t \in Thread, NewSession(t) PROVE th' \in [Thread -> Locals]
  BY <1>13, Zenon DEF NewSession
<1>14. ASSUME NEW t \in Thread, NEW h \in Handle, Load(t, h) PROVE th' \in [Thread -> Locals]
  BY <1>14, ZenonT(40) DEF Load
<1>15. ASSUME EditAttr PROVE th' \in [Thread -> Locals]
  BY <1>15, Zenon DEF EditAttr
<1>16. ASSUME UNCHANGED attr_vars PROVE th' \in [Thread -> Locals]
  BY <1>16, Zenon DEF attr_vars
<1>17. QED
  BY <1>1, <1>2, <1>3, <1>4, <1>5, <1>6, <1>7, <1>8, <1>9, <1>10, <1>11, <1>12, <1>13, <1>14,
     <1>15, <1>16, Zenon DEF AttrNext


(* Every step of attrcache.c keeps the attribute files within their type.  *)
LEMMA FilesStep == AttrAssumption /\ TypeOK /\ [AttrNext]_attr_vars => f' \in [Handle -> AttrFile]
<1> SUFFICES ASSUME AttrAssumption, TypeOK, [AttrNext]_attr_vars PROVE f' \in [Handle -> AttrFile]
  BY Zenon
<1> USE DEF TypeOK
<1>1. ASSUME NEW t \in Thread, InitCheck(t) PROVE f' \in [Handle -> AttrFile]
  BY <1>1, IncrefFile, DecrefFile, Zenon DEF InitCheck
<1>2. ASSUME NEW t \in Thread, InitSwap(t) PROVE f' \in [Handle -> AttrFile]
  BY <1>2, IncrefFile, DecrefFile, Zenon DEF InitSwap
<1>3. ASSUME NEW t \in Thread, Lookup(t) PROVE f' \in [Handle -> AttrFile]
  BY <1>3, IncrefFile, DecrefFile, Zenon DEF Lookup, Keep
<1>4. ASSUME NEW t \in Thread, OutOfDate(t) PROVE f' \in [Handle -> AttrFile]
  <2>1. th[t].file \in Handle => [f[th[t].file] EXCEPT !.stamp = attr_disk] \in AttrFile
    BY ZenonT(40) DEF AttrFile
  <2>2. QED
    BY <1>4, <2>1, Zenon DEF OutOfDate
<1>5. ASSUME NEW t \in Thread, AttrStat(t) PROVE f' \in [Handle -> AttrFile]
  BY <1>5, IncrefFile, DecrefFile, Zenon DEF AttrStat
<1>6. ASSUME NEW t \in Thread, SetStamp(t) PROVE f' \in [Handle -> AttrFile]
  <2>1. th[t].updated \in Handle => [f[th[t].updated] EXCEPT !.stamp = Stamp(t)] \in AttrFile
    BY DEF AttrFile, Stamp, Locals
  <2>2. QED
    BY <1>6, <2>1, Zenon DEF SetStamp
<1>7. ASSUME NEW t \in Thread, LoadFails(t) PROVE f' \in [Handle -> AttrFile]
  BY <1>7, IncrefFile, DecrefFile, Zenon DEF LoadFails, Locals
<1>8. ASSUME NEW t \in Thread, Upsert(t) PROVE f' \in [Handle -> AttrFile]
  <2>1. Incref(f, th[t].updated) \in [Handle -> AttrFile]
    BY IncrefFile, Zenon DEF Locals
  <2>2. QED
    BY <1>8, <2>1, DecrefFile, Zenon DEF Upsert
<1>9. ASSUME NEW t \in Thread, DropOld(t) PROVE f' \in [Handle -> AttrFile]
  BY <1>9, IncrefFile, DecrefFile, Zenon DEF DropOld, Locals
<1>10. ASSUME NEW t \in Thread, AttrRemove(t) PROVE f' \in [Handle -> AttrFile]
  <2>1. th[t].file \in Pointer
    BY Zenon DEF Locals
  <2>2. QED
    BY <1>10, <2>1, DecrefFile, Zenon DEF AttrRemove
<1>11. ASSUME NEW t \in Thread, Use(t) PROVE f' \in [Handle -> AttrFile]
  BY <1>11, IncrefFile, DecrefFile, Zenon DEF Use
<1>12. ASSUME NEW t \in Thread, Release(t) PROVE f' \in [Handle -> AttrFile]
  BY <1>12, IncrefFile, DecrefFile, Zenon DEF Release, Locals
<1>13. ASSUME NEW t \in Thread, NewSession(t) PROVE f' \in [Handle -> AttrFile]
  BY <1>13 DEF NewSession, AttrFile
<1>14. ASSUME NEW t \in Thread, NEW h \in Handle, Load(t, h) PROVE f' \in [Handle -> AttrFile]
  BY <1>14 DEF Load, AttrFile, Locals
<1>15. ASSUME EditAttr PROVE f' \in [Handle -> AttrFile]
  BY <1>15, IncrefFile, DecrefFile, Zenon DEF EditAttr
<1>16. ASSUME UNCHANGED attr_vars PROVE f' \in [Handle -> AttrFile]
  BY <1>16, IncrefFile, DecrefFile, Zenon DEF attr_vars
<1>17. QED
  BY <1>1, <1>2, <1>3, <1>4, <1>5, <1>6, <1>7, <1>8, <1>9, <1>10, <1>11, <1>12, <1>13, <1>14,
     <1>15, <1>16, Zenon DEF AttrNext

(* TypeOK is inductive.                                                    *)
LEMMA TypeStep == AttrAssumption /\ TypeOK /\ [AttrNext]_attr_vars => TypeOK'
<1> SUFFICES ASSUME AttrAssumption, TypeOK, [AttrNext]_attr_vars PROVE TypeOK'
  BY Zenon
<1>1. th' \in [Thread -> Locals] /\ f' \in [Handle -> AttrFile]
  BY LocalsStep, FilesStep, Zenon
<1>2. cached' \in Pointer
  BY ZenonT(40)
  DEF TypeOK, Locals, Pointer, AttrNext, attr_vars, InitCheck, InitSwap, Lookup, OutOfDate, AttrStat,
      SetStamp, LoadFails,
         Upsert, DropOld, AttrRemove, Use, Release, NewSession, Load, EditAttr
<1>3. attrcache' \in Thread \cup {NoAttr} /\ allocated' \in SUBSET Thread
  BY ZenonT(40)
  DEF TypeOK, AttrNext, attr_vars, InitCheck, InitSwap, Lookup, OutOfDate, AttrStat, SetStamp, LoadFails,
         Upsert, DropOld, AttrRemove, Use, Release, NewSession, Load, EditAttr, Raced
<1>4. attr_disk' \in Nat /\ attr_edits' \in Nat /\ failures' \in Nat
  <2>1. CASE EditAttr
    BY <2>1 DEF TypeOK, EditAttr
  <2>2. CASE \E t \in Thread : LoadFails(t)
    BY <2>2 DEF TypeOK, LoadFails
  <2>3. CASE ~EditAttr /\ ~\E t \in Thread : LoadFails(t)
    <3>1. UNCHANGED <<attr_disk, attr_edits, failures>>
      BY <2>3, ZenonT(40) DEF AttrNext, attr_vars, InitCheck, InitSwap, Lookup, OutOfDate, AttrStat, SetStamp, 
             Upsert, DropOld, AttrRemove, Use, Release, NewSession, Load
    <3>2. QED
      BY <3>1, Zenon DEF TypeOK
  <2>4. QED
    BY <2>1, <2>2, <2>3, Zenon
<1>5. QED
  BY <1>1, <1>2, <1>3, <1>4, Zenon DEF TypeOK

(* The pointers of a thread follow its steps: it holds the file that it looked  *)
(* up until it gives it back, and the one that it parsed until that is its      *)
(* result.                                                                      *)
LEMMA PointersStep == AttrAssumption /\ TypeOK /\ (\A u \in Thread : PointersOK(u)) /\ [AttrNext]_attr_vars => \A u \in Thread : PointersOK(u)'
<1> SUFFICES ASSUME AttrAssumption, TypeOK, (\A u \in Thread : PointersOK(u)), [AttrNext]_attr_vars PROVE \A u \in Thread : PointersOK(u)'
  BY Zenon
<1> USE DEF TypeOK, Locals, PointersOK, Pointer, Goto, AttrAssumption
<1>1. ASSUME NEW t \in Thread, InitCheck(t) PROVE \A u \in Thread : PointersOK(u)'
  BY <1>1 DEF InitCheck
<1>2. ASSUME NEW t \in Thread, InitSwap(t) PROVE \A u \in Thread : PointersOK(u)'
  BY <1>2 DEF InitSwap
<1>3. ASSUME NEW t \in Thread, Lookup(t) PROVE \A u \in Thread : PointersOK(u)'
  BY <1>3, SMTT(30) DEF Lookup
<1>4. ASSUME NEW t \in Thread, OutOfDate(t) PROVE \A u \in Thread : PointersOK(u)'
  BY <1>4 DEF OutOfDate
<1>5. ASSUME NEW t \in Thread, AttrStat(t) PROVE \A u \in Thread : PointersOK(u)'
  BY <1>5 DEF AttrStat
<1>6. ASSUME NEW t \in Thread, SetStamp(t) PROVE \A u \in Thread : PointersOK(u)'
  BY <1>6 DEF SetStamp
<1>7. ASSUME NEW t \in Thread, LoadFails(t) PROVE \A u \in Thread : PointersOK(u)'
  BY <1>7 DEF LoadFails
<1>8. ASSUME NEW t \in Thread, Upsert(t) PROVE \A u \in Thread : PointersOK(u)'
  BY <1>8 DEF Upsert
<1>9. ASSUME NEW t \in Thread, DropOld(t) PROVE \A u \in Thread : PointersOK(u)'
  BY <1>9 DEF DropOld
<1>10. ASSUME NEW t \in Thread, AttrRemove(t) PROVE \A u \in Thread : PointersOK(u)'
  BY <1>10 DEF AttrRemove
<1>11. ASSUME NEW t \in Thread, Use(t) PROVE \A u \in Thread : PointersOK(u)'
  BY <1>11 DEF Use
<1>12. ASSUME NEW t \in Thread, Release(t) PROVE \A u \in Thread : PointersOK(u)'
  BY <1>12, Zenon DEF Release, AtRest
<1>13. ASSUME NEW t \in Thread, NewSession(t) PROVE \A u \in Thread : PointersOK(u)'
  BY <1>13, Zenon DEF NewSession
<1>14. ASSUME NEW t \in Thread, NEW h \in Handle, Load(t, h) PROVE \A u \in Thread : PointersOK(u)'
  BY <1>14 DEF Load
<1>15. ASSUME EditAttr PROVE \A u \in Thread : PointersOK(u)'
  BY <1>15, Zenon DEF EditAttr
<1>16. ASSUME UNCHANGED attr_vars PROVE \A u \in Thread : PointersOK(u)'
  BY <1>16, Zenon DEF attr_vars
<1>17. QED
  BY <1>1, <1>2, <1>3, <1>4, <1>5, <1>6, <1>7, <1>8, <1>9, <1>10, <1>11, <1>12, <1>13, <1>14,
     <1>15, <1>16, Zenon DEF AttrNext

(* The thread that loses the race for the cache frees the one that it allocated. *)
LEMMA AllocatedStep == AttrAssumption /\ TypeOK /\ AllocatedOK /\ [AttrNext]_attr_vars => AllocatedOK'
<1> SUFFICES ASSUME AttrAssumption, TypeOK, AllocatedOK, [AttrNext]_attr_vars PROVE AllocatedOK'
  BY Zenon
<1> USE DEF TypeOK, Locals, AllocatedOK, Goto, AttrAssumption
<1>1. ASSUME NEW t \in Thread, InitCheck(t) PROVE AllocatedOK'
  BY <1>1 DEF InitCheck
<1>2. ASSUME NEW t \in Thread, InitSwap(t) PROVE AllocatedOK'
  BY <1>2 DEF InitSwap, Raced
<1>3. ASSUME NEW t \in Thread, Lookup(t) PROVE AllocatedOK'
  BY <1>3, SMTT(30) DEF Lookup
<1>4. ASSUME NEW t \in Thread, OutOfDate(t) PROVE AllocatedOK'
  BY <1>4 DEF OutOfDate
<1>5. ASSUME NEW t \in Thread, AttrStat(t) PROVE AllocatedOK'
  BY <1>5 DEF AttrStat
<1>6. ASSUME NEW t \in Thread, SetStamp(t) PROVE AllocatedOK'
  BY <1>6, Zenon DEF SetStamp
<1>7. ASSUME NEW t \in Thread, LoadFails(t) PROVE AllocatedOK'
  BY <1>7 DEF LoadFails
<1>8. ASSUME NEW t \in Thread, Upsert(t) PROVE AllocatedOK'
  BY <1>8, Zenon DEF Upsert
<1>9. ASSUME NEW t \in Thread, DropOld(t) PROVE AllocatedOK'
  BY <1>9 DEF DropOld
<1>10. ASSUME NEW t \in Thread, AttrRemove(t) PROVE AllocatedOK'
  BY <1>10, Zenon DEF AttrRemove
<1>11. ASSUME NEW t \in Thread, Use(t) PROVE AllocatedOK'
  BY <1>11, Zenon DEF Use
<1>12. ASSUME NEW t \in Thread, Release(t) PROVE AllocatedOK'
  BY <1>12, Zenon DEF Release, AtRest
<1>13. ASSUME NEW t \in Thread, NewSession(t) PROVE AllocatedOK'
  BY <1>13, Zenon DEF NewSession
<1>14. ASSUME NEW t \in Thread, NEW h \in Handle, Load(t, h) PROVE AllocatedOK'
  BY <1>14 DEF Load
<1>15. ASSUME EditAttr PROVE AllocatedOK'
  BY <1>15, Zenon DEF EditAttr
<1>16. ASSUME UNCHANGED attr_vars PROVE AllocatedOK'
  BY <1>16, Zenon DEF attr_vars
<1>17. QED
  BY <1>1, <1>2, <1>3, <1>4, <1>5, <1>6, <1>7, <1>8, <1>9, <1>10, <1>11, <1>12, <1>13, <1>14,
     <1>15, <1>16, Zenon DEF AttrNext

-----------------------------------------------------------------------------
(* The references of a thread, and of the cache, to a parsed file              *)
Bit(b) == IF b THEN 1 ELSE 0
Held(t, h) == Bit(th[t].file = h) + Bit(th[t].updated = h) + Bit(cached = h)

(* Two subsets of a finite set that agree outside t                           *)
LEMMA CountChange ==
    ASSUME NEW S, IsFiniteSet(S), NEW A \in SUBSET S, NEW B \in SUBSET S, NEW t \in S,
           A \ {t} = B \ {t}
    PROVE  /\ Cardinality(A) \in Nat /\ Cardinality(B) \in Nat
           /\ Cardinality(B) = Cardinality(A) + Bit(t \in B) - Bit(t \in A)
           /\ Cardinality(A) >= Bit(t \in A)
<1>1. /\ IsFiniteSet(A) /\ IsFiniteSet(B) /\ IsFiniteSet(A \ {t})
      /\ Cardinality(A) \in Nat /\ Cardinality(B) \in Nat /\ Cardinality(A \ {t}) \in Nat
  BY FS_Subset, FS_CardinalityType, Zenon
<1>2. t \in A => Cardinality(A \ {t}) = Cardinality(A) - 1
  BY <1>1, FS_RemoveElement, Zenon
<1>3. t \in B => Cardinality(A \ {t}) = Cardinality(B) - 1
  BY <1>1, FS_RemoveElement, Zenon
<1>4. /\ t \notin A => Cardinality(A \ {t}) = Cardinality(A)
      /\ t \notin B => Cardinality(A \ {t}) = Cardinality(B)
  <2>1. (t \notin A => A \ {t} = A) /\ (t \notin B => A \ {t} = B)
    BY Zenon
  <2>2. QED
    BY <2>1, Zenon
<1>5. PICK rest \in Nat : rest = Cardinality(A \ {t})
  BY <1>1, Zenon
<1>6. Cardinality(A) = rest + Bit(t \in A) /\ Cardinality(B) = rest + Bit(t \in B)
  BY <1>1, <1>2, <1>3, <1>4, <1>5 DEF Bit
<1>7. QED
  BY <1>1, <1>5, <1>6 DEF Bit

(* How the pointers to a file change in a step of one thread                   *)
LEMMA PointersChange ==
    ASSUME AttrAssumption, TypeOK, TypeOK', NEW t \in Thread, NEW h \in Handle,
           \A u \in Thread \ {t} : th'[u].file = th[u].file /\ th'[u].updated = th[u].updated
    PROVE  /\ Pointers(h) \in Nat /\ Pointers(h) >= Held(t, h)
           /\ Pointers(h)' = Pointers(h) + Held(t, h)' - Held(t, h)
<1> DEFINE A1 == {u \in Thread : th[u].file = h}
           A2 == {u \in Thread : th[u].updated = h}
           B1 == {u \in Thread : th'[u].file = h}
           B2 == {u \in Thread : th'[u].updated = h}
<1>1. A1 \in SUBSET Thread /\ A2 \in SUBSET Thread /\ B1 \in SUBSET Thread /\ B2 \in SUBSET Thread
  BY Zenon
<1>2. A1 \ {t} = B1 \ {t} /\ A2 \ {t} = B2 \ {t}
  BY Zenon
<1>3. /\ t \in A1 <=> th[t].file = h
      /\ t \in A2 <=> th[t].updated = h
      /\ t \in B1 <=> th'[t].file = h
      /\ t \in B2 <=> th'[t].updated = h
  BY Zenon
<1>4. /\ Pointers(h) = Cardinality(A1) + Cardinality(A2) + Bit(cached = h)
      /\ Pointers(h)' = Cardinality(B1) + Cardinality(B2) + Bit(cached' = h)
  BY Zenon DEF Pointers, Bit
<1> HIDE DEF A1, A2, B1, B2
<1>5. PICK a1, a2, b1, b2 : a1 = A1 /\ a2 = A2 /\ b1 = B1 /\ b2 = B2
  BY Zenon
<1>6. /\ Cardinality(a1) \in Nat /\ Cardinality(b1) \in Nat
      /\ Cardinality(b1) = Cardinality(a1) + Bit(t \in b1) - Bit(t \in a1)
      /\ Cardinality(a1) >= Bit(t \in a1)
  BY <1>1, <1>2, <1>5, CountChange DEF AttrAssumption
<1>7. /\ Cardinality(a2) \in Nat /\ Cardinality(b2) \in Nat
      /\ Cardinality(b2) = Cardinality(a2) + Bit(t \in b2) - Bit(t \in a2)
      /\ Cardinality(a2) >= Bit(t \in a2)
  BY <1>1, <1>2, <1>5, CountChange DEF AttrAssumption
<1>8. QED
  BY <1>3, <1>4, <1>5, <1>6, <1>7 DEF Held, Bit

(* A thread that changes a count by as much as its own pointers, and those of   *)
(* the cache, keeps every count right.                                         *)
LEMMA CountBalance ==
    ASSUME AttrAssumption, TypeOK, TypeOK', AttrRefCounts, NEW t \in Thread,
           \A u \in Thread \ {t} : th'[u].file = th[u].file /\ th'[u].updated = th[u].updated,
           \A h \in Handle : f'[h].refcount = f[h].refcount + Held(t, h)' - Held(t, h)
    PROVE  AttrRefCounts'
BY PointersChange, Zenon DEF AttrRefCounts

(* A file with a count of 0 is one that nobody points to.                      *)
LEMMA NobodyPoints ==
    ASSUME AttrAssumption, TypeOK, AttrRefCounts, NEW h \in Handle, f[h].refcount = 0
    PROVE  cached # h /\ \A t \in Thread : th[t].file # h /\ th[t].updated # h
<1>1. ASSUME NEW t \in Thread PROVE cached # h /\ th[t].file # h /\ th[t].updated # h
  <2> DEFINE A1 == {u \in Thread : th[u].file = h}
             A2 == {u \in Thread : th[u].updated = h}
  <2>1. PICK a1, a2 : a1 = A1 /\ a2 = A2
    BY Zenon
  <2>2. Cardinality(a1) \in Nat /\ Cardinality(a1) >= Bit(t \in a1)
    BY <2>1, CountChange, Zenon DEF AttrAssumption
  <2>3. Cardinality(a2) \in Nat /\ Cardinality(a2) >= Bit(t \in a2)
    BY <2>1, CountChange, Zenon DEF AttrAssumption
  <2>4. Cardinality(a1) + Cardinality(a2) + Bit(cached = h) = 0
    BY <2>1, Zenon DEF AttrRefCounts, Pointers, Bit
  <2>5. t \notin a1 /\ t \notin a2 /\ cached # h
    BY <2>2, <2>3, <2>4 DEF Bit
  <2>6. QED
    BY <2>1, <2>5, Zenon
<1>2. QED
  BY <1>1, Zenon DEF AttrAssumption

(* Every step of a thread counts the references that it takes and gives back.    *)
LEMMA CountStep == AttrAssumption /\ Counting /\ TypeOK' /\ [AttrNext]_attr_vars => AttrRefCounts'
<1> SUFFICES ASSUME AttrAssumption, Counting, TypeOK', [AttrNext]_attr_vars PROVE AttrRefCounts'
  BY Zenon
<1> USE DEF Counting, TypeOK
<1>1. ASSUME NEW t \in Thread, InitCheck(t) PROVE AttrRefCounts'
  <2>1. \A u \in Thread \ {t} : th'[u].file = th[u].file /\ th'[u].updated = th[u].updated
    BY <1>1, Zenon DEF InitCheck, Goto, Locals
  <2>2. \A x \in Handle : f'[x].refcount = f[x].refcount + Held(t, x)' - Held(t, x)
    BY <1>1 DEF InitCheck, Goto, Held, Bit, AttrFile, Locals
  <2>3. QED
    BY <2>1, <2>2, CountBalance, Zenon
<1>2. ASSUME NEW t \in Thread, InitSwap(t) PROVE AttrRefCounts'
  <2>1. \A u \in Thread \ {t} : th'[u].file = th[u].file /\ th'[u].updated = th[u].updated
    BY <1>2, Zenon DEF InitSwap, Goto, Locals
  <2>2. \A x \in Handle : f'[x].refcount = f[x].refcount + Held(t, x)' - Held(t, x)
    BY <1>2 DEF InitSwap, Goto, Held, Bit, AttrFile, Locals
  <2>3. QED
    BY <2>1, <2>2, CountBalance, Zenon
<1>3. ASSUME NEW t \in Thread, Lookup(t) PROVE AttrRefCounts'
  <2>1. /\ \A u \in Thread : th'[u].updated = th[u].updated
        /\ \A u \in Thread \ {t} : th'[u].file = th[u].file
        /\ th[t].file = NoAttr /\ th'[t].file = cached /\ cached' = cached
    BY <1>3, Zenon DEF Lookup, Locals, PointersOK
  <2>2. \A x \in Handle : f'[x].refcount = f[x].refcount + Bit(x = cached)
    BY <1>3, IncrefFile DEF Lookup, Keep, Bit
  <2>3. \A x \in Handle : f'[x].refcount = f[x].refcount + Held(t, x)' - Held(t, x)
    BY <2>1, <2>2 DEF Held, Bit, AttrFile, AttrAssumption
  <2>4. QED
    BY <2>1, <2>3, CountBalance, Zenon
<1>4. ASSUME NEW t \in Thread, OutOfDate(t) PROVE AttrRefCounts'
  <2>1. \A u \in Thread \ {t} : th'[u].file = th[u].file /\ th'[u].updated = th[u].updated
    BY <1>4, ZenonT(40) DEF OutOfDate, Goto, Locals
  <2>2. th'[t].file = th[t].file /\ th'[t].updated = th[t].updated /\ cached' = cached
    BY <1>4, SMTT(20) DEF OutOfDate, Goto, Locals
  <2>3. \A x \in Handle : f'[x].refcount = f[x].refcount
    BY <1>4, SMTT(20) DEF OutOfDate, AttrFile
  <2>4. \A x \in Handle : f'[x].refcount = f[x].refcount + Held(t, x)' - Held(t, x)
    <3>1. \A x : Held(t, x)' = Held(t, x)
      BY <2>2, Zenon DEF Held
    <3>2. \A x : Held(t, x) \in Int
      BY DEF Held, Bit
    <3>3. \A x \in Handle : f[x].refcount \in Int
      BY DEF AttrFile
    <3> HIDE DEF Held
    <3>4. QED
      BY <2>3, <3>1, <3>2, <3>3
  <2>5. QED
    BY <2>1, <2>4, CountBalance, Zenon
<1>5. ASSUME NEW t \in Thread, AttrStat(t) PROVE AttrRefCounts'
  <2>1. \A u \in Thread \ {t} : th'[u].file = th[u].file /\ th'[u].updated = th[u].updated
    BY <1>5, Zenon DEF AttrStat, Goto, Locals
  <2>2. \A x \in Handle : f'[x].refcount = f[x].refcount + Held(t, x)' - Held(t, x)
    BY <1>5 DEF AttrStat, Goto, Held, Bit, AttrFile, Locals
  <2>3. QED
    BY <2>1, <2>2, CountBalance, Zenon
<1>6. ASSUME NEW t \in Thread, SetStamp(t) PROVE AttrRefCounts'
  <2>1. \A u \in Thread \ {t} : th'[u].file = th[u].file /\ th'[u].updated = th[u].updated
    BY <1>6, Zenon DEF SetStamp, Goto, Locals
  <2>2. \A x \in Handle : f'[x].refcount = f[x].refcount + Held(t, x)' - Held(t, x)
    BY <1>6 DEF SetStamp, Goto, Held, Bit, AttrFile, Locals
  <2>3. QED
    BY <2>1, <2>2, CountBalance, Zenon
<1>7. ASSUME NEW t \in Thread, LoadFails(t) PROVE AttrRefCounts'
  <2>1. \A u \in Thread \ {t} : th'[u].file = th[u].file /\ th'[u].updated = th[u].updated
    BY <1>7, Zenon DEF LoadFails, Locals
  <2>2. th[t].updated \in Pointer
    BY Zenon DEF Locals
  <2>3. \A x \in Handle : f'[x].refcount = f[x].refcount + Held(t, x)' - Held(t, x)
    <3>1. \A x \in Handle : f'[x].refcount = f[x].refcount - Bit(x = th[t].updated)
      BY <1>7, <2>2, DecrefFile DEF LoadFails, Bit
    <3>2. th'[t].file = th[t].file /\ th'[t].updated = NoAttr /\ cached' = cached
      BY <1>7 DEF LoadFails, Locals
    <3>3. \A x \in Handle : x # NoAttr /\ f[x].refcount \in Int
      BY DEF AttrAssumption, AttrFile
    <3>. QED
      BY <3>1, <3>2, <3>3 DEF Held, Bit
  <2>4. QED
    BY <2>1, <2>3, CountBalance, Zenon
<1>8. ASSUME NEW t \in Thread, Upsert(t) PROVE AttrRefCounts'
  <2>1. \A u \in Thread : th'[u].file = th[u].file /\ th'[u].updated = th[u].updated
    BY <1>8, Zenon DEF Upsert, Goto, Locals
  <2>2. th[t].updated \in Pointer /\ th[t].updated \in Handle /\ cached' = th[t].updated
    BY <1>8, Zenon DEF Locals, Upsert, PointersOK
  <2>3. PICK g \in [Handle -> AttrFile] : g = Incref(f, th[t].updated)
    BY <2>2, IncrefFile, Zenon
  <2>4. \A x \in Handle : g[x].refcount = f[x].refcount + Bit(x = th[t].updated)
    BY <2>2, <2>3, IncrefFile DEF Bit
  <2>5. \A x \in Handle : f'[x].refcount = g[x].refcount - Bit(x = cached)
    BY <1>8, <2>3, DecrefFile DEF Upsert, Bit
  <2>6. \A x \in Handle : f'[x].refcount = f[x].refcount + Held(t, x)' - Held(t, x)
    BY <2>1, <2>2, <2>4, <2>5 DEF Held, Bit, AttrFile
  <2>7. QED
    BY <2>1, <2>6, CountBalance, Zenon
<1>9. ASSUME NEW t \in Thread, DropOld(t) PROVE AttrRefCounts'
  <2>1. \A u \in Thread \ {t} : th'[u].file = th[u].file /\ th'[u].updated = th[u].updated
    BY <1>9, Zenon DEF DropOld, Locals
  <2>2. th[t].file \in Pointer /\ th[t].updated \in Handle
    BY <1>9, Zenon DEF Locals, DropOld, PointersOK
  <2>3. \A x \in Handle : f'[x].refcount = f[x].refcount + Held(t, x)' - Held(t, x)
    <3>1. \A x \in Handle : f'[x].refcount = f[x].refcount - Bit(x = th[t].file)
      BY <1>9, <2>2, DecrefFile, SMTT(30) DEF DropOld, Bit
    <3>2. th'[t].file = th[t].updated /\ th'[t].updated = NoAttr /\ cached' = cached
      BY <1>9 DEF DropOld, Locals
    <3>3. \A x \in Handle : x # NoAttr /\ f[x].refcount \in Int
      BY DEF AttrAssumption, AttrFile
    <3>. QED
      BY <3>1, <3>2, <3>3 DEF Held, Bit
  <2>4. QED
    BY <2>1, <2>3, CountBalance, Zenon
<1>10. ASSUME NEW t \in Thread, AttrRemove(t) PROVE AttrRefCounts'
  <2>1. \A u \in Thread \ {t} : th'[u].file = th[u].file /\ th'[u].updated = th[u].updated
    BY <1>10, Zenon DEF AttrRemove, Goto, Locals
  <2>2. th[t].file \in Pointer /\ th[t].file \in Handle
    BY <1>10, Zenon DEF Locals, AttrRemove, PointersOK
  <2>3. \A x \in Handle : f'[x].refcount = f[x].refcount + Held(t, x)' - Held(t, x)
    <3>1. \A x \in Handle : f'[x].refcount = f[x].refcount - Bit(cached = th[t].file /\ x = cached)
      BY <1>10, <2>2, DecrefFile DEF AttrRemove, Removes, Bit, AttrFile
    <3>2. /\ th'[t].file = th[t].file /\ th'[t].updated = th[t].updated
          /\ cached' = IF cached = th[t].file THEN NoAttr ELSE cached
      BY <1>10 DEF AttrRemove, Goto, Locals
    <3>3. \A x \in Handle : x # NoAttr /\ f[x].refcount \in Int
      BY DEF AttrAssumption, AttrFile
    <3>. QED
      BY <3>1, <3>2, <3>3 DEF Held, Bit
  <2>4. QED
    BY <2>1, <2>3, CountBalance, Zenon
<1>11. ASSUME NEW t \in Thread, Use(t) PROVE AttrRefCounts'
  <2>1. \A u \in Thread \ {t} : th'[u].file = th[u].file /\ th'[u].updated = th[u].updated
    BY <1>11, Zenon DEF Use, Goto, Locals
  <2>2. \A x \in Handle : f'[x].refcount = f[x].refcount + Held(t, x)' - Held(t, x)
    BY <1>11 DEF Use, Goto, Held, Bit, AttrFile, Locals
  <2>3. QED
    BY <2>1, <2>2, CountBalance, Zenon
<1>12. ASSUME NEW t \in Thread, Release(t) PROVE AttrRefCounts'
  <2>1. \A u \in Thread \ {t} : th'[u].file = th[u].file /\ th'[u].updated = th[u].updated
    BY <1>12, Zenon DEF Release, Locals, AtRest
  <2>2. th[t].file \in Pointer /\ th[t].updated \notin Handle
    BY <1>12, Zenon DEF Locals, Release, PointersOK
  <2>3. \A x \in Handle : f'[x].refcount = f[x].refcount + Held(t, x)' - Held(t, x)
    BY <1>12, <2>2, DecrefFile
    DEF Release, AtRest, Held, Bit, AttrFile, Locals, AttrAssumption, PointersOK
  <2>4. QED
    BY <2>1, <2>3, CountBalance, Zenon
<1>13. ASSUME NEW t \in Thread, NewSession(t) PROVE AttrRefCounts'
  <2>1. \A x \in Handle : Pointers(x)' = Pointers(x)
    BY <1>13, Zenon DEF NewSession, Pointers
  <2>2. \A x \in Handle : f'[x].refcount = f[x].refcount
    BY <1>13 DEF NewSession, AttrFile
  <2>3. QED
    BY <2>1, <2>2, Zenon DEF AttrRefCounts
<1>14. ASSUME NEW t \in Thread, NEW h \in Handle, Load(t, h) PROVE AttrRefCounts'
  <2>1. \A u \in Thread \ {t} : th'[u].file = th[u].file /\ th'[u].updated = th[u].updated
    BY <1>14, Zenon DEF Load, Locals
  <2>2. \A x \in Handle : f'[x].refcount = f[x].refcount + Held(t, x)' - Held(t, x)
    BY <1>14 DEF Load, Free, Held, Bit, AttrFile, Locals, PointersOK
  <2>3. QED
    BY <2>1, <2>2, CountBalance, Zenon
<1>15. ASSUME EditAttr PROVE AttrRefCounts'
  <2>1. \A x \in Handle : Pointers(x)' = Pointers(x)
    BY <1>15, Zenon DEF EditAttr, Pointers
  <2>2. \A x \in Handle : f'[x].refcount = f[x].refcount
    BY <1>15, Zenon DEF EditAttr, AttrFile
  <2>3. QED
    BY <2>1, <2>2, Zenon DEF AttrRefCounts
<1>16. ASSUME UNCHANGED attr_vars PROVE AttrRefCounts'
  <2>1. \A x \in Handle : Pointers(x)' = Pointers(x)
    BY <1>16, Zenon DEF attr_vars, Pointers
  <2>2. \A x \in Handle : f'[x].refcount = f[x].refcount
    BY <1>16, ZenonT(40) DEF attr_vars, AttrFile
  <2>3. QED
    BY <2>1, <2>2, Zenon DEF AttrRefCounts
<1>17. QED
  BY <1>1, <1>2, <1>3, <1>4, <1>5, <1>6, <1>7, <1>8, <1>9, <1>10, <1>11, <1>12, <1>13, <1>14,
     <1>15, <1>16, Zenon DEF AttrNext

-----------------------------------------------------------------------------
(* A parsed file is its thread's own until the upsert.                          *)
LEMMA OwnStep == AttrAssumption /\ Counting /\ (\A v \in Thread : Own(v)) /\ [AttrNext]_attr_vars => \A v \in Thread : Own(v)'
<1> SUFFICES ASSUME AttrAssumption, Counting, (\A v \in Thread : Own(v)), [AttrNext]_attr_vars PROVE \A v \in Thread : Own(v)'
  BY Zenon
<1> USE DEF Counting, TypeOK, Locals, Own, PointersOK, Goto
<1>1. ASSUME NEW t \in Thread, InitCheck(t) PROVE \A v \in Thread : Own(v)'
  BY <1>1 DEF InitCheck
<1>2. ASSUME NEW t \in Thread, InitSwap(t) PROVE \A v \in Thread : Own(v)'
  BY <1>2 DEF InitSwap
<1>3. ASSUME NEW t \in Thread, Lookup(t) PROVE \A v \in Thread : Own(v)'
  BY <1>3, SMTT(30) DEF Lookup
<1>4. ASSUME NEW t \in Thread, OutOfDate(t) PROVE \A v \in Thread : Own(v)'
  BY <1>4 DEF OutOfDate
<1>5. ASSUME NEW t \in Thread, AttrStat(t) PROVE \A v \in Thread : Own(v)'
  BY <1>5 DEF AttrStat
<1>6. ASSUME NEW t \in Thread, SetStamp(t) PROVE \A v \in Thread : Own(v)'
  BY <1>6 DEF SetStamp
<1>7. ASSUME NEW t \in Thread, LoadFails(t) PROVE \A v \in Thread : Own(v)'
  BY <1>7 DEF LoadFails
<1>8. ASSUME NEW t \in Thread, Upsert(t) PROVE \A v \in Thread : Own(v)'
  BY <1>8, SMTT(30) DEF Upsert
<1>9. ASSUME NEW t \in Thread, DropOld(t) PROVE \A v \in Thread : Own(v)'
  BY <1>9 DEF DropOld
<1>10. ASSUME NEW t \in Thread, AttrRemove(t) PROVE \A v \in Thread : Own(v)'
  BY <1>10 DEF AttrRemove, AttrAssumption
<1>11. ASSUME NEW t \in Thread, Use(t) PROVE \A v \in Thread : Own(v)'
  BY <1>11 DEF Use
<1>12. ASSUME NEW t \in Thread, Release(t) PROVE \A v \in Thread : Own(v)'
  BY <1>12 DEF Release, AtRest, AttrAssumption
<1>13. ASSUME NEW t \in Thread, NewSession(t) PROVE \A v \in Thread : Own(v)'
  BY <1>13, Zenon DEF NewSession
<1>14. ASSUME NEW t \in Thread, NEW h \in Handle, Load(t, h) PROVE \A v \in Thread : Own(v)'
  <2>1. f[h].refcount = 0
    BY <1>14 DEF Load, Free
  <2>2. cached # h /\ \A u \in Thread : th[u].file # h /\ th[u].updated # h
    BY <2>1, NobodyPoints, Zenon
  <2>3. QED
    BY <1>14, <2>2 DEF Load
<1>15. ASSUME EditAttr PROVE \A v \in Thread : Own(v)'
  BY <1>15, Zenon DEF EditAttr
<1>16. ASSUME UNCHANGED attr_vars PROVE \A v \in Thread : Own(v)'
  BY <1>16, ZenonT(40) DEF attr_vars
<1>17. QED
  BY <1>1, <1>2, <1>3, <1>4, <1>5, <1>6, <1>7, <1>8, <1>9, <1>10, <1>11, <1>12, <1>13, <1>14,
     <1>15, <1>16, SMTT(30) DEF AttrNext

(* No version, and no stamp, is ahead of the edits of the file.                 *)
LEMMA VersionsStep == AttrAssumption /\ TypeOK /\ TypeOK' /\ VersionsOK /\ [AttrNext]_attr_vars => VersionsOK'
<1> SUFFICES ASSUME AttrAssumption, TypeOK, TypeOK', VersionsOK, [AttrNext]_attr_vars PROVE VersionsOK'
  BY Zenon
<1> USE DEF TypeOK, VersionsOK
<1>1. ASSUME NEW t \in Thread, InitCheck(t) PROVE VersionsOK'
  BY <1>1 DEF InitCheck, Goto, AttrFile, Locals
<1>2. ASSUME NEW t \in Thread, InitSwap(t) PROVE VersionsOK'
  BY <1>2, Zenon DEF InitSwap, Goto, AttrFile, Locals
<1>3. ASSUME NEW t \in Thread, Lookup(t) PROVE VersionsOK'
  <2>1. \A x \in Handle : f'[x].version = f[x].version /\ f'[x].stamp = f[x].stamp
    BY <1>3, IncrefFile DEF Lookup, Keep
  <2>2. QED
    BY <1>3, <2>1 DEF Lookup
<1>4. ASSUME NEW t \in Thread, OutOfDate(t) PROVE VersionsOK'
  <2>1. /\ \A x \in Handle : f'[x].version = f[x].version /\ f'[x].stamp \in {f[x].stamp, attr_disk}
        /\ \A u \in Thread : th'[u].stat = th[u].stat
    BY <1>4, ZenonT(40) DEF OutOfDate, Goto, AttrFile, Locals
  <2>2. attr_disk' = attr_disk /\ attr_edits' = attr_edits /\ attr_disk <= attr_edits
    BY <1>4 DEF OutOfDate
  <2>3. \A x \in Handle : f'[x].version <= attr_edits /\ f'[x].stamp <= attr_edits
    BY <2>1, <2>2, Zenon
  <2>4. QED
    BY <2>1, <2>2, <2>3, ZenonT(40)
<1>5. ASSUME NEW t \in Thread, AttrStat(t) PROVE VersionsOK'
  BY <1>5 DEF AttrStat, Goto, AttrFile, Locals
<1>6. ASSUME NEW t \in Thread, SetStamp(t) PROVE VersionsOK'
  BY <1>6 DEF SetStamp, Goto, AttrFile, Locals, Stamp
<1>7. ASSUME NEW t \in Thread, LoadFails(t) PROVE VersionsOK'
  <2>1. th[t].updated \in Pointer
    BY Zenon DEF Locals
  <2>2. \A x \in Handle : f'[x].version <= f[x].version /\ f'[x].stamp <= f[x].stamp
    BY <1>7, <2>1, DecrefFile DEF LoadFails
  <2>3. \A u \in Thread : th'[u].stat <= attr_edits
    BY <1>7, Zenon DEF LoadFails, Locals
  <2>4. QED
    BY <1>7, <2>2, <2>3 DEF LoadFails, AttrFile
<1>8. ASSUME NEW t \in Thread, Upsert(t) PROVE VersionsOK'
  <2>1. th[t].updated \in Pointer
    BY Zenon DEF Locals
  <2>2. PICK g \in [Handle -> AttrFile] : g = Incref(f, th[t].updated)
    BY <2>1, IncrefFile, Zenon
  <2>3. \A x \in Handle : g[x].version = f[x].version /\ g[x].stamp = f[x].stamp
    BY <2>1, <2>2, IncrefFile, SMTT(30)
  <2>4. \A x \in Handle : f'[x].version <= g[x].version /\ f'[x].stamp <= g[x].stamp
    BY <1>8, <2>2, DecrefFile, SMTT(30) DEF Upsert
  <2>5. QED
    BY <1>8, <2>3, <2>4 DEF Upsert, Goto, AttrFile, Locals
<1>9. ASSUME NEW t \in Thread, DropOld(t) PROVE VersionsOK'
  <2>1. th[t].file \in Pointer
    BY Zenon DEF Locals
  <2>2. \A x \in Handle : f'[x].version <= f[x].version /\ f'[x].stamp <= f[x].stamp
    BY <1>9, <2>1, DecrefFile DEF DropOld
  <2>3. \A u \in Thread : th'[u].stat <= attr_edits
    BY <1>9, Zenon DEF DropOld, Locals
  <2>4. QED
    BY <1>9, <2>2, <2>3 DEF DropOld, AttrFile
<1>10. ASSUME NEW t \in Thread, AttrRemove(t) PROVE VersionsOK'
  <2>1. th[t].file \in Pointer
    BY Zenon DEF Locals
  <2>2. \A x \in Handle : f'[x].version <= f[x].version /\ f'[x].stamp <= f[x].stamp
    BY <1>10, <2>1, DecrefFile DEF AttrRemove, AttrFile
  <2>3. QED
    BY <1>10, <2>2 DEF AttrRemove, Goto, AttrFile, Locals
<1>11. ASSUME NEW t \in Thread, Use(t) PROVE VersionsOK'
  BY <1>11 DEF Use, Goto, AttrFile, Locals
<1>12. ASSUME NEW t \in Thread, Release(t) PROVE VersionsOK'
  <2>1. th[t].file \in Pointer
    BY Zenon DEF Locals
  <2>2. \A x \in Handle : f'[x].version <= f[x].version /\ f'[x].stamp <= f[x].stamp
    BY <1>12, <2>1, DecrefFile DEF Release
  <2>3. \A u \in Thread : th'[u].stat <= attr_edits
    BY <1>12 DEF Release, AtRest, Locals
  <2>4. QED
    BY <1>12, <2>2, <2>3 DEF Release, AttrFile
<1>13. ASSUME NEW t \in Thread, NewSession(t) PROVE VersionsOK'
  BY <1>13 DEF NewSession, Goto, AttrFile, Locals
<1>14. ASSUME NEW t \in Thread, NEW h \in Handle, Load(t, h) PROVE VersionsOK'
  BY <1>14 DEF Load, Goto, AttrFile, Locals
<1>15. ASSUME EditAttr PROVE VersionsOK'
  BY <1>15 DEF EditAttr, Goto, AttrFile, Locals
<1>16. ASSUME UNCHANGED attr_vars PROVE VersionsOK'
  BY <1>16, Zenon DEF attr_vars, Goto, AttrFile, Locals
<1>17. QED
  BY <1>1, <1>2, <1>3, <1>4, <1>5, <1>6, <1>7, <1>8, <1>9, <1>10, <1>11, <1>12, <1>13, <1>14,
     <1>15, <1>16, SMTT(30) DEF AttrNext

(* What a thread parses is never older than the stamp that it took before.       *)
LEMMA ParsedStep == AttrAssumption /\ Counting /\ Honest /\ [AttrNext]_attr_vars => \A v \in Thread : ParsedOK(v)'
<1> SUFFICES ASSUME AttrAssumption, Counting, Honest, [AttrNext]_attr_vars PROVE \A v \in Thread : ParsedOK(v)'
  BY Zenon
<1> USE DEF Counting, Honest, TypeOK, PointersOK, ParsedOK
<1>1. ASSUME NEW t \in Thread, InitCheck(t) PROVE \A v \in Thread : ParsedOK(v)'
  BY <1>1, SMTT(30) DEF InitCheck, Goto, AttrFile, Locals
<1>2. ASSUME NEW t \in Thread, InitSwap(t) PROVE \A v \in Thread : ParsedOK(v)'
  BY <1>2, SMTT(30) DEF InitSwap, Goto, AttrFile, Locals
<1>3. ASSUME NEW t \in Thread, Lookup(t) PROVE \A v \in Thread : ParsedOK(v)'
  <2>1. \A x \in Handle :
          /\ f'[x].version = f[x].version
          /\ f'[x].stamp = f[x].stamp
          /\ f'[x].nonexistent = f[x].nonexistent
    BY <1>3, IncrefFile DEF Lookup, Keep
  <2>2. \A v \in Thread : th'[v].pc \in {"stamp", "upsert"} => th'[v] = th[v]
    BY <1>3, SMTT(30) DEF Lookup, Locals
  <2>3. QED
    BY <2>1, <2>2
<1>4. ASSUME NEW t \in Thread, OutOfDate(t) PROVE \A v \in Thread : ParsedOK(v)'
  <2>1. \A x \in Handle : x # th[t].file =>
          /\ f'[x].version = f[x].version
          /\ f'[x].stamp = f[x].stamp
          /\ f'[x].nonexistent = f[x].nonexistent
    BY <1>4, ZenonT(40) DEF OutOfDate
  <2>2. \A v \in Thread : th'[v].pc \in {"stamp", "upsert"} => th'[v] = th[v]
    BY <1>4 DEF OutOfDate, Goto, Locals
  <2>3. \A v \in Thread : th'[v].pc \in {"stamp", "upsert"} => th[v].updated # th[t].file
    BY <2>2, SMTT(30) DEF Own
  <2>4. QED
    BY <2>1, <2>2, <2>3
<1>5. ASSUME NEW t \in Thread, AttrStat(t) PROVE \A v \in Thread : ParsedOK(v)'
  BY <1>5 DEF AttrStat, Goto, AttrFile, Locals
<1>6. ASSUME NEW t \in Thread, SetStamp(t) PROVE \A v \in Thread : ParsedOK(v)'
  <2>1. \A x \in Handle : x # th[t].updated =>
          /\ f'[x].version = f[x].version
          /\ f'[x].stamp = f[x].stamp
          /\ f'[x].nonexistent = f[x].nonexistent
    BY <1>6, Zenon DEF SetStamp
  <2>2. \A v \in Thread \ {t} : th'[v] = th[v]
    BY <1>6, Zenon DEF SetStamp, Goto, Locals
  <2>3. \A v \in Thread \ {t} : th[v].pc \in {"stamp", "upsert"} => th[v].updated # th[t].updated
    BY <1>6, Zenon DEF Own, SetStamp
  <2>4. \A v \in Thread \ {t} : ParsedOK(v)'
    BY <2>1, <2>2, <2>3
  <2>5. /\ th'[t].pc = "upsert" /\ th'[t].updated = th[t].updated
        /\ th[t].updated \in Handle /\ th[t].pc = "stamp"
    BY <1>6 DEF SetStamp, Goto, Locals
  <2>6. /\ f'[th[t].updated].version = f[th[t].updated].version
        /\ f'[th[t].updated].nonexistent = f[th[t].updated].nonexistent
        /\ ~f[th[t].updated].nonexistent => f'[th[t].updated].stamp = th[t].stat
    BY <1>6, <2>5 DEF SetStamp, Stamp, AttrFile
  <2>7. ParsedOK(t)'
    BY <2>5, <2>6, Zenon
  <2>8. QED
    BY <2>4, <2>7, Zenon
<1>7. ASSUME NEW t \in Thread, LoadFails(t) PROVE \A v \in Thread : ParsedOK(v)'
  <2>1. th[t].updated \in Pointer
    BY Zenon DEF Locals
  <2>2. \A x \in Handle : x # th[t].updated =>
          /\ f'[x].version = f[x].version
          /\ f'[x].stamp = f[x].stamp
          /\ f'[x].nonexistent = f[x].nonexistent
    BY <1>7, <2>1, DecrefFile DEF LoadFails
  <2>3. \A v \in Thread : th'[v].pc \in {"stamp", "upsert"} => th'[v] = th[v]
    BY <1>7 DEF LoadFails, Locals
  <2>4. \A v \in Thread : th'[v].pc \in {"stamp", "upsert"} => th[v].updated # th[t].updated
    BY <1>7, <2>3, SMTT(30) DEF Own, LoadFails, Locals
  <2>5. QED
    BY <2>2, <2>3, <2>4
<1>8. ASSUME NEW t \in Thread, Upsert(t) PROVE \A v \in Thread : ParsedOK(v)'
  <2>1. th[t].updated \in Pointer
    BY Zenon DEF Locals
  <2>2. PICK g \in [Handle -> AttrFile] : g = Incref(f, th[t].updated)
    BY <2>1, IncrefFile, Zenon
  <2>3. \A x \in Handle : /\ g[x].version = f[x].version /\ g[x].stamp = f[x].stamp
                          /\ g[x].nonexistent = f[x].nonexistent
    BY <2>1, <2>2, IncrefFile, SMTT(30)
  <2>4. \A x \in Handle : x # cached =>
          /\ f'[x].version = f[x].version
          /\ f'[x].stamp = f[x].stamp
          /\ f'[x].nonexistent = f[x].nonexistent
    BY <1>8, <2>2, <2>3, DecrefFile DEF Upsert
  <2>5. \A v \in Thread : th'[v].pc \in {"stamp", "upsert"} => th'[v] = th[v]
    BY <1>8 DEF Upsert, Goto, Locals
  <2>6. \A v \in Thread : th'[v].pc \in {"stamp", "upsert"} => th[v].updated # cached
    BY <2>5, ZenonT(40) DEF Own
  <2>7. QED
    BY <2>4, <2>5, <2>6
<1>9. ASSUME NEW t \in Thread, DropOld(t) PROVE \A v \in Thread : ParsedOK(v)'
  <2>1. th[t].file \in Pointer
    BY Zenon DEF Locals
  <2>2. \A x \in Handle : x # th[t].file =>
          /\ f'[x].version = f[x].version
          /\ f'[x].stamp = f[x].stamp
          /\ f'[x].nonexistent = f[x].nonexistent
    BY <1>9, <2>1, DecrefFile DEF DropOld
  <2>3. \A v \in Thread : th'[v].pc \in {"stamp", "upsert"} => th'[v] = th[v]
    BY <1>9 DEF DropOld, Locals
  <2>4. \A v \in Thread : th'[v].pc \in {"stamp", "upsert"} => th[v].updated # th[t].file
    BY <1>9, <2>3, SMTT(30) DEF Own, DropOld, Locals
  <2>5. QED
    BY <2>2, <2>3, <2>4
<1>10. ASSUME NEW t \in Thread, AttrRemove(t) PROVE \A v \in Thread : ParsedOK(v)'
  <2>1. th[t].file \in Pointer
    BY Zenon DEF Locals
  <2>2. \A x \in Handle : x # cached =>
          /\ f'[x].version = f[x].version
          /\ f'[x].stamp = f[x].stamp
          /\ f'[x].nonexistent = f[x].nonexistent
    BY <1>10, <2>1, DecrefFile DEF AttrRemove, Removes
  <2>3. \A v \in Thread : th'[v].pc \in {"stamp", "upsert"} => th'[v] = th[v]
    BY <1>10 DEF AttrRemove, Goto, Locals
  <2>4. \A v \in Thread : th'[v].pc \in {"stamp", "upsert"} => th[v].updated # cached
    BY <2>3, Zenon DEF Own
  <2>5. QED
    BY <2>2, <2>3, <2>4
<1>11. ASSUME NEW t \in Thread, Use(t) PROVE \A v \in Thread : ParsedOK(v)'
  BY <1>11, SMTT(30) DEF Use, Goto, AttrFile, Locals
<1>12. ASSUME NEW t \in Thread, Release(t) PROVE \A v \in Thread : ParsedOK(v)'
  <2>1. th[t].file \in Pointer
    BY Zenon DEF Locals
  <2>2. \A x \in Handle : x # th[t].file =>
          /\ f'[x].version = f[x].version
          /\ f'[x].stamp = f[x].stamp
          /\ f'[x].nonexistent = f[x].nonexistent
    BY <1>12, <2>1, DecrefFile DEF Release
  <2>3. \A v \in Thread : th'[v].pc \in {"stamp", "upsert"} => th'[v] = th[v]
    BY <1>12, Zenon DEF Release, AtRest, Locals
  <2>4. \A v \in Thread : th'[v].pc \in {"stamp", "upsert"} => th[v].updated # th[t].file
    BY <1>12, <2>3, SMTT(30) DEF Own, Release, AtRest, Locals
  <2>5. QED
    BY <2>2, <2>3, <2>4
<1>13. ASSUME NEW t \in Thread, NewSession(t) PROVE \A v \in Thread : ParsedOK(v)'
  BY <1>13, SMTT(30) DEF NewSession, Goto, AttrFile, Locals
<1>14. ASSUME NEW t \in Thread, NEW h \in Handle, Load(t, h) PROVE \A v \in Thread : ParsedOK(v)'
  <2>1. f[h].refcount = 0
    BY <1>14 DEF Load, Free
  <2>2. \A u \in Thread : th[u].updated # h
    BY <2>1, NobodyPoints, Zenon
  <2>3. \A x \in Handle : x # h => f'[x] = f[x]
    BY <1>14, Zenon DEF Load
  <2>4. \A v \in Thread \ {t} : th'[v] = th[v]
    BY <1>14, Zenon DEF Load, Locals
  <2>5. \A v \in Thread \ {t} : ParsedOK(v)'
    BY <2>2, <2>3, <2>4
  <2>6. /\ th'[t].pc = "stamp" /\ th'[t].updated = h /\ th'[t].stat = th[t].stat
        /\ ~f'[h].nonexistent => attr_disk # 0 /\ th[t].stat # 0 /\ f'[h].version = attr_disk
    BY <1>14 DEF Load, Locals
  <2>7. th[t].stat \in Nat /\ th[t].stat <= attr_edits /\ (attr_disk # 0 => attr_disk = attr_edits)
    BY SMTT(30) DEF VersionsOK, Locals
  <2>8. ParsedOK(t)'
    BY <2>6, <2>7
  <2>9. QED
    BY <2>5, <2>8
<1>15. ASSUME EditAttr PROVE \A v \in Thread : ParsedOK(v)'
  BY <1>15, Zenon DEF EditAttr, Goto, AttrFile, Locals
<1>16. ASSUME UNCHANGED attr_vars PROVE \A v \in Thread : ParsedOK(v)'
  BY <1>16, Zenon DEF attr_vars, Goto, AttrFile, Locals
<1>17. QED
  BY <1>1, <1>2, <1>3, <1>4, <1>5, <1>6, <1>7, <1>8, <1>9, <1>10, <1>11, <1>12, <1>13, <1>14,
     <1>15, <1>16, ZenonT(40) DEF AttrNext

(* The file in the cache has not been freed.                                    *)
LEMMA CachedIsCounted ==
    ASSUME AttrAssumption, TypeOK, TypeOK', AttrRefCounts', NEW t \in Thread, NEW h \in Handle,
           \A u \in Thread \ {t} : th'[u] = th[u], cached' = h
    PROVE  f'[h].refcount # 0
<1>1. /\ Pointers(h) \in Nat /\ Pointers(h) >= Held(t, h)
      /\ Pointers(h)' = Pointers(h) + Held(t, h)' - Held(t, h)
  BY PointersChange, Zenon
<1>2. Held(t, h) \in Nat /\ Held(t, h)' \in Nat /\ Held(t, h)' >= 1
  BY DEF Held, Bit
<1>3. f'[h].refcount = Pointers(h)'
  BY Zenon DEF AttrRefCounts
<1>4. QED
  BY <1>1, <1>2, <1>3

(* A file in the cache that would pass for newer than it is has a thread that    *)
(* is about to replace it.                                                       *)
LEMMA CachedStep == AttrAssumption /\ Counting /\ Counting' /\ Honest /\ [AttrNext]_attr_vars => CachedOK'
<1> SUFFICES ASSUME AttrAssumption, Counting, Counting', Honest, [AttrNext]_attr_vars PROVE CachedOK'
  BY Zenon
<1> USE DEF Counting, Honest, TypeOK
<1>1. ASSUME NEW t \in Thread, InitCheck(t) PROVE CachedOK'
  <2>1. /\ \A v \in Thread \ {t} : th'[v] = th[v]
        /\ th[t].pc = "init" /\ cached' = cached
    BY <1>1 DEF InitCheck, Goto, Locals
  <2>2. cached # NoAttr =>
          /\ f'[cached].version = f[cached].version
          /\ f'[cached].stamp = f[cached].stamp
          /\ f'[cached].nonexistent = f[cached].nonexistent
    BY <1>1, Zenon DEF InitCheck
  <2>3. \A v \in Thread : Replaces(v, cached) /\ cached # NoAttr => Replaces(v, cached)'
    BY <1>1, <2>1, Zenon DEF InitCheck, Goto, Locals, Replaces
  <2>4. QED
    BY <2>1, <2>2, <2>3, Zenon DEF CachedOK
<1>2. ASSUME NEW t \in Thread, InitSwap(t) PROVE CachedOK'
  <2>1. /\ \A v \in Thread \ {t} : th'[v] = th[v]
        /\ th[t].pc = "swap" /\ cached' = cached
    BY <1>2, Zenon DEF InitSwap, Goto, Locals
  <2>2. cached # NoAttr =>
          /\ f'[cached].version = f[cached].version
          /\ f'[cached].stamp = f[cached].stamp
          /\ f'[cached].nonexistent = f[cached].nonexistent
    BY <1>2, Zenon DEF InitSwap
  <2>3. \A v \in Thread : Replaces(v, cached) /\ cached # NoAttr => Replaces(v, cached)'
    BY <1>2, <2>1, Zenon DEF InitSwap, Goto, Locals, Replaces
  <2>4. QED
    BY <2>1, <2>2, <2>3, Zenon DEF CachedOK
<1>3. ASSUME NEW t \in Thread, Lookup(t) PROVE CachedOK'
  <2>1. /\ \A v \in Thread \ {t} : th'[v] = th[v]
        /\ th[t].pc = "idle" /\ cached' = cached
    BY <1>3, Zenon DEF Lookup, Locals
  <2>2. cached # NoAttr =>
          /\ f'[cached].version = f[cached].version
          /\ f'[cached].stamp = f[cached].stamp
          /\ f'[cached].nonexistent = f[cached].nonexistent
    BY <1>3, IncrefFile DEF Lookup, Keep, Pointer
  <2>3. \A v \in Thread : Replaces(v, cached) /\ cached # NoAttr => Replaces(v, cached)'
    BY <1>3, <2>1 DEF Lookup, Locals, Replaces
  <2>4. QED
    BY <2>1, <2>2, <2>3, Zenon DEF CachedOK
<1>4. ASSUME NEW t \in Thread, OutOfDate(t) PROVE CachedOK'
  <2>1. /\ \A v \in Thread \ {t} : th'[v] = th[v]
        /\ th[t].pc = "check" /\ cached' = cached
    BY <1>4, Zenon DEF OutOfDate, Goto, Locals
  <2>2. \A v \in Thread : Replaces(v, cached) => Replaces(v, cached)'
    BY <2>1, Zenon DEF Replaces
  <2>3. CASE f' = f
    BY <2>1, <2>2, <2>3, Zenon DEF CachedOK
  <2>4. CASE f' # f
    <3>1. /\ f' = [f EXCEPT ![th[t].file].stamp = attr_disk] /\ attr_disk # 0
          /\ th'[t].pc = "stat" /\ th'[t].file = th[t].file
      BY <1>4, <2>4, ZenonT(40) DEF OutOfDate, Goto, Locals
    <3>2. CASE cached = th[t].file
      <4>1. Replaces(t, cached)'
        BY <2>1, <3>1, <3>2 DEF Replaces
      <4>2. cached # NoAttr => f'[cached].stamp = attr_disk
        BY <3>1, <3>2 DEF Pointer, AttrFile
      <4>3. QED
        BY <2>1, <3>1, <4>1, <4>2 DEF CachedOK
    <3>3. CASE cached # th[t].file
      <4>1. cached # NoAttr => f'[cached] = f[cached]
        BY <3>1, <3>3, Zenon DEF Pointer
      <4>2. QED
        BY <2>1, <2>2, <4>1, Zenon DEF CachedOK
    <3>4. QED
      BY <3>2, <3>3, ZenonT(40)
  <2>5. QED
    BY <2>3, <2>4, Zenon
<1>5. ASSUME NEW t \in Thread, AttrStat(t) PROVE CachedOK'
  <2>1. /\ \A v \in Thread \ {t} : th'[v] = th[v]
        /\ th[t].pc = "stat" /\ cached' = cached
    BY <1>5, Zenon DEF AttrStat, Locals
  <2>2. cached # NoAttr =>
          /\ f'[cached].version = f[cached].version
          /\ f'[cached].stamp = f[cached].stamp
          /\ f'[cached].nonexistent = f[cached].nonexistent
    BY <1>5, Zenon DEF AttrStat
  <2>3. \A v \in Thread : Replaces(v, cached) /\ cached # NoAttr => Replaces(v, cached)'
    BY <1>5, <2>1 DEF AttrStat, Locals, Replaces
  <2>4. QED
    BY <2>1, <2>2, <2>3, Zenon DEF CachedOK
<1>6. ASSUME NEW t \in Thread, SetStamp(t) PROVE CachedOK'
  <2>1. th[t].updated # cached
    BY <1>6, Zenon DEF Own, SetStamp
  <2>2. /\ \A v \in Thread \ {t} : th'[v] = th[v]
        /\ th[t].pc = "stamp" /\ cached' = cached
    BY <1>6, Zenon DEF SetStamp, Goto, Locals
  <2>3. cached # NoAttr =>
          /\ f'[cached].version = f[cached].version
          /\ f'[cached].stamp = f[cached].stamp
          /\ f'[cached].nonexistent = f[cached].nonexistent
    BY <1>6, <2>1, Zenon DEF SetStamp, Pointer
  <2>4. \A v \in Thread : Replaces(v, cached) /\ cached # NoAttr => Replaces(v, cached)'
    BY <1>6, <2>2 DEF SetStamp, Goto, Locals, Replaces
  <2>5. QED
    BY <2>2, <2>3, <2>4, Zenon DEF CachedOK
<1>7. ASSUME NEW t \in Thread, LoadFails(t) PROVE CachedOK'
  <2>1. th[t].updated # cached
    BY <1>7 DEF Own, LoadFails
  <2>2. th[t].updated \in Pointer
    BY Zenon DEF Locals
  <2>3. /\ \A v \in Thread \ {t} : th'[v] = th[v]
        /\ th[t].pc = "stamp" /\ cached' = cached
    BY <1>7, Zenon DEF LoadFails, Locals
  <2>4. cached # NoAttr =>
          /\ f'[cached].version = f[cached].version
          /\ f'[cached].stamp = f[cached].stamp
          /\ f'[cached].nonexistent = f[cached].nonexistent
    BY <1>7, <2>1, <2>2, DecrefFile DEF LoadFails, Pointer
  <2>5. \A v \in Thread : Replaces(v, cached) /\ cached # NoAttr => Replaces(v, cached)'
    BY <1>7, <2>3, SMTT(30) DEF LoadFails, Locals, Replaces
  <2>6. QED
    BY <2>3, <2>4, <2>5, Zenon DEF CachedOK
<1>8. ASSUME NEW t \in Thread, Upsert(t) PROVE CachedOK'
  <2>1. th[t].updated \in Handle /\ th[t].updated # cached /\ th[t].updated \in Pointer
    BY <1>8, Zenon DEF Own, Upsert, PointersOK, Pointer
  <2>2. PICK g \in [Handle -> AttrFile] : g = Incref(f, th[t].updated)
    BY <2>1, IncrefFile, Zenon
  <2>3. \A x \in Handle : /\ g[x].version = f[x].version /\ g[x].stamp = f[x].stamp
                          /\ g[x].nonexistent = f[x].nonexistent
    BY <2>1, <2>2, IncrefFile, SMTT(30)
  <2>4. \A x \in Handle : x # cached =>
          /\ f'[x].version = f[x].version
          /\ f'[x].stamp = f[x].stamp
          /\ f'[x].nonexistent = f[x].nonexistent
    BY <1>8, <2>2, <2>3, DecrefFile DEF Upsert
  <2>5. cached' = th[t].updated /\ th[t].pc = "upsert"
    BY <1>8, Zenon DEF Upsert
  <2>6. ~f[th[t].updated].nonexistent =>
            f[th[t].updated].stamp \in 1 .. f[th[t].updated].version
    BY <2>5, Zenon DEF ParsedOK
  <2>7. QED
    BY <2>1, <2>4, <2>5, <2>6 DEF CachedOK, AttrFile
<1>9. ASSUME NEW t \in Thread, DropOld(t) PROVE CachedOK'
  <2>1. th[t].file \in Pointer
    BY Zenon DEF Locals
  <2>2. /\ \A v \in Thread \ {t} : th'[v] = th[v]
        /\ th[t].pc = "drop" /\ cached' = cached
    BY <1>9 DEF DropOld, Locals
  <2>3. cached # NoAttr => f'[cached].refcount # 0
    BY <2>2, CachedIsCounted, Zenon DEF Pointer
  <2>4. cached # NoAttr =>
          /\ f'[cached].version = f[cached].version
          /\ f'[cached].stamp = f[cached].stamp
          /\ f'[cached].nonexistent = f[cached].nonexistent
    BY <1>9, <2>1, <2>3, DecrefFile DEF DropOld, Pointer
  <2>5. \A v \in Thread : Replaces(v, cached) /\ cached # NoAttr => Replaces(v, cached)'
    BY <2>2, Zenon DEF Replaces
  <2>6. QED
    BY <2>2, <2>4, <2>5, Zenon DEF CachedOK
<1>10. ASSUME NEW t \in Thread, AttrRemove(t) PROVE CachedOK'
  <2>1. CASE cached = th[t].file
    BY <1>10, <2>1, Zenon DEF AttrRemove, CachedOK
  <2>2. CASE cached # th[t].file
    <3>1. f' = f /\ cached' = cached /\ \A v \in Thread \ {t} : th'[v] = th[v]
      BY <1>10, <2>2, Zenon DEF AttrRemove, Removes, Goto, Locals
    <3>2. \A v \in Thread : Replaces(v, cached) => Replaces(v, cached)'
      BY <2>2, <3>1, Zenon DEF Replaces
    <3>3. QED
      BY <3>1, <3>2, Zenon DEF CachedOK
  <2>3. QED
    BY <2>1, <2>2, Zenon
<1>11. ASSUME NEW t \in Thread, Use(t) PROVE CachedOK'
  <2>1. /\ \A v \in Thread \ {t} : th'[v] = th[v]
        /\ th[t].pc = "use" /\ cached' = cached
    BY <1>11, Zenon DEF Use, Goto, Locals
  <2>2. cached # NoAttr =>
          /\ f'[cached].version = f[cached].version
          /\ f'[cached].stamp = f[cached].stamp
          /\ f'[cached].nonexistent = f[cached].nonexistent
    BY <1>11, Zenon DEF Use
  <2>3. \A v \in Thread : Replaces(v, cached) /\ cached # NoAttr => Replaces(v, cached)'
    BY <1>11, <2>1, Zenon DEF Use, Goto, Locals, Replaces
  <2>4. QED
    BY <2>1, <2>2, <2>3 DEF CachedOK
<1>12. ASSUME NEW t \in Thread, Release(t) PROVE CachedOK'
  <2>1. th[t].file \in Pointer
    BY Zenon DEF Locals
  <2>2. /\ \A v \in Thread \ {t} : th'[v] = th[v]
        /\ th[t].pc = "release" /\ cached' = cached
    BY <1>12, Zenon DEF Release, AtRest, Locals
  <2>3. cached # NoAttr => f'[cached].refcount # 0
    BY <2>2, CachedIsCounted, Zenon DEF Pointer
  <2>4. cached # NoAttr =>
          /\ f'[cached].version = f[cached].version
          /\ f'[cached].stamp = f[cached].stamp
          /\ f'[cached].nonexistent = f[cached].nonexistent
    BY <1>12, <2>1, <2>3, DecrefFile DEF Release, Pointer
  <2>5. \A v \in Thread : Replaces(v, cached) /\ cached # NoAttr => Replaces(v, cached)'
    BY <2>2, Zenon DEF Replaces
  <2>6. QED
    BY <2>2, <2>4, <2>5, Zenon DEF CachedOK
<1>13. ASSUME NEW t \in Thread, NewSession(t) PROVE CachedOK'
  <2>1. th' = th /\ cached' = cached
    BY <1>13, Zenon DEF NewSession
  <2>2. cached # NoAttr =>
          /\ f'[cached].version = f[cached].version
          /\ f'[cached].stamp = f[cached].stamp
          /\ f'[cached].nonexistent = f[cached].nonexistent
    BY <1>13 DEF NewSession, Pointer, AttrFile
  <2>3. QED
    BY <2>1, <2>2, Zenon DEF CachedOK, Replaces
<1>14. ASSUME NEW t \in Thread, NEW h \in Handle, Load(t, h) PROVE CachedOK'
  <2>1. f[h].refcount = 0
    BY <1>14 DEF Load, Free
  <2>2. h # cached
    BY <2>1, NobodyPoints, Zenon
  <2>3. /\ \A v \in Thread \ {t} : th'[v] = th[v]
        /\ th[t].pc = "read" /\ cached' = cached
    BY <1>14, Zenon DEF Load, Locals
  <2>4. cached # NoAttr =>
          /\ f'[cached].version = f[cached].version
          /\ f'[cached].stamp = f[cached].stamp
          /\ f'[cached].nonexistent = f[cached].nonexistent
    BY <1>14, <2>2 DEF Load
  <2>5. \A v \in Thread : Replaces(v, cached) /\ cached # NoAttr => Replaces(v, cached)'
    BY <1>14, <2>3 DEF Load, Locals, Replaces
  <2>6. QED
    BY <2>3, <2>4, <2>5, Zenon DEF CachedOK
<1>15. ASSUME EditAttr PROVE CachedOK'
  BY <1>15, Zenon DEF EditAttr, CachedOK, Replaces
<1>16. ASSUME UNCHANGED attr_vars PROVE CachedOK'
  BY <1>16, Zenon DEF attr_vars, CachedOK, Replaces
<1>17. QED
  BY <1>1, <1>2, <1>3, <1>4, <1>5, <1>6, <1>7, <1>8, <1>9, <1>10, <1>11, <1>12, <1>13, <1>14,
     <1>15, <1>16, SMTT(30) DEF AttrNext

-----------------------------------------------------------------------------
(* The invariant holds before the first call.                              *)
LEMMA AttrInitially == AttrAssumption /\ AttrInit => AttrInv
<1> SUFFICES ASSUME AttrAssumption, AttrInit PROVE AttrInv
  BY Zenon
<1>1. \A t \in Thread : /\ th[t] = [pc |-> "init", file |-> NoAttr, updated |-> NoAttr, stat |-> 0]
                        /\ th[t] \in Locals
  BY Zenon DEF AttrInit, AtRest, Locals, Pc, Pointer
<1>2. \A h \in Handle : f[h] = Free /\ Free \in AttrFile
  BY DEF AttrInit, Free, AttrFile
<1>3. TypeOK
  BY <1>1, <1>2, Zenon DEF AttrInit, TypeOK, Pointer
<1>4. \A t \in Thread : PointersOK(t)
  BY <1>1 DEF PointersOK, AttrAssumption
<1>5. AttrRefCounts
  <2>1. ASSUME NEW h \in Handle PROVE Pointers(h) = 0
    <3>1. {t \in Thread : th[t].file = h} = {} /\ {t \in Thread : th[t].updated = h} = {}
      BY <1>1 DEF AttrAssumption
    <3>2. cached # h
      BY Zenon DEF AttrInit, AttrAssumption
    <3>3. Cardinality({}) = 0
      BY FS_EmptySet, Zenon
    <3>4. Pointers(h) = Cardinality({}) + Cardinality({}) + 0
      BY <3>1, <3>2, Zenon DEF Pointers
    <3>5. QED
      BY <3>3, <3>4
  <2>2. QED
    BY <1>2, <2>1 DEF AttrRefCounts, Free
<1>6. AllocatedOK
  BY <1>1, Zenon DEF AttrInit, AllocatedOK
<1>7. VersionsOK /\ CachedOK
  BY <1>1, <1>2 DEF AttrInit, VersionsOK, CachedOK, Free
<1>8. \A t \in Thread : Own(t) /\ ParsedOK(t)
  BY <1>1 DEF Own, ParsedOK
<1>9. QED
  BY <1>3, <1>4, <1>5, <1>6, <1>7, <1>8 DEF AttrInv, Counting, Honest

(* Every step of git_attr_cache__get() and its callees preserves the       *)
(* invariant.                                                              *)
LEMMA AttrStep == AttrAssumption /\ AttrInv /\ [AttrNext]_attr_vars => AttrInv'
<1> SUFFICES ASSUME AttrAssumption, AttrInv, [AttrNext]_attr_vars PROVE AttrInv'
  BY Zenon
<1>1. Counting /\ AllocatedOK /\ Honest /\ TypeOK
  BY Zenon DEF AttrInv, Counting
<1>2. TypeOK'
  BY <1>1, TypeStep, Zenon
<1>3. Counting'
  <2>1. \A t \in Thread : PointersOK(t)'
    BY <1>1, PointersStep, Zenon DEF Counting
  <2>2. AttrRefCounts'
    BY <1>1, <1>2, CountStep, Zenon
  <2>3. QED
    BY <1>2, <2>1, <2>2, Zenon DEF Counting
<1>4. AllocatedOK'
  BY <1>1, AllocatedStep, Zenon
<1>5. Honest'
  <2>1. VersionsOK' /\ CachedOK'
    BY <1>1, <1>2, <1>3, VersionsStep, CachedStep, Zenon DEF Honest
  <2>2. \A t \in Thread : Own(t)'
    BY <1>1, OwnStep, Zenon DEF Honest
  <2>3. \A t \in Thread : ParsedOK(t)'
    BY <1>1, ParsedStep, Zenon
  <2>4. QED
    BY <2>1, <2>2, <2>3, Zenon DEF Honest
<1>6. QED
  BY <1>3, <1>4, <1>5, Zenon DEF AttrInv

(* The invariant implies what the run checks.                              *)
LEMMA AttrInvIsSound == AttrAssumption /\ AttrInv => SharedIsSound
<1> SUFFICES ASSUME AttrAssumption, AttrInv PROVE SharedIsSound
  BY Zenon
<1> USE DEF AttrInv, Counting, Honest
<1>1. OneCache
  <2> SUFFICES ASSUME \A t \in Thread : th[t].pc \notin {"init", "swap"}
               PROVE  allocated = {attrcache}
    BY Zenon DEF OneCache
  <2>1. attrcache # NoAttr
    BY Zenon DEF AllocatedOK, AttrAssumption
  <2>2. QED
    BY <2>1, Zenon DEF AllocatedOK
<1>2. RestIsHonest
  <2> SUFFICES ASSUME cached # NoAttr,
                      \A t \in Thread : th[t].pc \in {"idle", "init", "use", "release"},
                      ~f[cached].nonexistent, f[cached].stamp = attr_disk
               PROVE  f[cached].version = attr_disk
    BY Zenon DEF RestIsHonest
  <2>1. cached \in Handle /\ f[cached] \in AttrFile
    BY Zenon DEF TypeOK, Pointer
  <2>2. ~\E t \in Thread : Replaces(t, cached)
    BY Zenon DEF Replaces
  <2>3. f[cached].stamp >= 1 /\ ~(f[cached].stamp > f[cached].version)
    BY <2>2, Zenon DEF CachedOK
  <2>4. attr_disk \in {0, attr_edits} /\ f[cached].version <= attr_edits
    BY <2>1, Zenon DEF VersionsOK
  <2>5. QED
    BY <2>1, <2>3, <2>4 DEF TypeOK, AttrFile
<1>3. QED
  BY <1>1, <1>2, Zenon DEF SharedIsSound

(* Any number of threads that look up, parse, stamp, replace and remove the     *)
(* parsed files of git_attr_cache__get(), while the file is edited and removed   *)
(* any number of times: the count of every parsed file is the number of          *)
(* pointers to it, one cache is left of those that were allocated, and at rest   *)
(* no file in the cache passes for current with the contents of another version. *)
THEOREM SharedFilesAreSound == ASSUME AttrAssumption PROVE AttrSpec => []SharedIsSound
<1>1. AttrInit => AttrInv
  BY AttrInitially, Zenon
<1>2. AttrInv /\ [AttrNext]_attr_vars => AttrInv'
  BY AttrStep, Zenon
<1>3. AttrInv => SharedIsSound
  BY AttrInvIsSound, Zenon
<1>4. QED
  BY <1>1, <1>2, <1>3, PTL DEF AttrSpec
=============================================================================

--------------------------- MODULE MWindowProofs ---------------------------
(***************************************************************************)
(* Proofs for the memory windows (MWindow.tla): for any number of readers, *)
(* packs and windows, what a cursor points into stays mapped and covers    *)
(* what was asked for, the counts are right, and an eviction takes the     *)
(* least recently used windows.                                            *)
(***************************************************************************)
EXTENDS MWindow, FiniteSetTheorems, WellFoundedInduction, TLAPS

(* packfile_open() works on a pack that its backend holds, one thread on a *)
(* pack at a time, and no one closes its descriptor meanwhile; a backend   *)
(* that is taken apart is used by nobody.                                  *)
OpeningOK ==
    /\ \A r \in Reader : opening[r] # None =>
          /\ opening[r] \in holds[r] /\ fd[opening[r]] \in {"opened", "registered"}
          /\ r \notin leaving /\ cursor[r] = None
    /\ \A r, q \in Reader : opening[r] # None /\ opening[r] = opening[q] => r = q
    /\ \A f \in File : fd[f] \in {"opened", "registered"} =>
          \E r \in Reader : opening[r] = f
    /\ \A r \in leaving : cursor[r] = None

(* A window begins within its file.                                        *)
WindowsFit == \A w \in Window : file[w] # None => offset[w] <= Size[file[w]]

(* The counter used_ctr gives every use of a window a number of its own.   *)
Stamped ==
    \A v, w \in Window : file[v] # None /\ file[w] # None =>
        last_used[v] < used_ctr /\ (last_used[v] = last_used[w] => v = w)

WindowInv == WindowsAreSafe /\ OpeningOK /\ WindowsFit /\ Stamped

(* What new_window() does when it closes the windows of S and its map      *)
(* succeeds or not.                                                        *)
Start(o) == (o \div (WindowSize \div 2)) * (WindowSize \div 2)

Maps(r, w, f, o, S, ok) ==
    /\ Remap(S, ok, w, f, Start(o))
    /\ mapped' = mapped + MapLength(f, Start(o)) - Bytes(S)
    /\ cursor' = IF ok THEN [cursor EXCEPT ![r] = [w |-> w, at |-> o]] ELSE cursor
    /\ used_ctr' = IF ok THEN used_ctr + 1 ELSE used_ctr
    /\ lost' = IF ok THEN lost ELSE lost + MapLength(f, Start(o))
    /\ UNCHANGED <<registry, files>>

-----------------------------------------------------------------------------
(* The number of bytes                                                     *)

(* The memory of the windows of S when L is the length of each.            *)
MemoryOf(L, S) == {b \in S \X (1 .. WindowSize) : b[2] <= L[b[1]]}

Lens == [w \in Window |-> len(w)]

(* The bytes of finitely many windows can be counted.                      *)
LEMMA MemoryFinite ==
    ASSUME NEW L, NEW S, IsFiniteSet(S)
    PROVE  IsFiniteSet(MemoryOf(L, S)) /\ Cardinality(MemoryOf(L, S)) \in Nat
<1>1. IsFiniteSet(1 .. WindowSize)
  BY FS_Interval, WindowAssumption
<1>2. IsFiniteSet(S \X (1 .. WindowSize))
  BY <1>1, FS_Product, Zenon
<1>3. MemoryOf(L, S) \in SUBSET (S \X (1 .. WindowSize))
  BY Zenon DEF MemoryOf
<1>4. IsFiniteSet(MemoryOf(L, S))
  BY <1>2, <1>3, FS_Subset, Zenon
<1> QED
  BY <1>4, FS_CardinalityType, Zenon

(* The bytes of a set of windows are those of a part and those of the rest. *)
LEMMA MemoryParts ==
    ASSUME NEW L, NEW S, IsFiniteSet(S), NEW T \in SUBSET S
    PROVE  Cardinality(MemoryOf(L, S)) =
             Cardinality(MemoryOf(L, T)) + Cardinality(MemoryOf(L, S \ T))
<1>1. MemoryOf(L, S) = MemoryOf(L, T) \cup MemoryOf(L, S \ T)
  BY Zenon DEF MemoryOf
<1>2. MemoryOf(L, T) \cap MemoryOf(L, S \ T) = {}
  BY Zenon DEF MemoryOf
<1>3. IsFiniteSet(T) /\ IsFiniteSet(S \ T)
  BY FS_Subset, Zenon
<1>4. /\ IsFiniteSet(MemoryOf(L, T)) /\ Cardinality(MemoryOf(L, T)) \in Nat
      /\ IsFiniteSet(MemoryOf(L, S \ T)) /\ Cardinality(MemoryOf(L, S \ T)) \in Nat
  BY <1>3, MemoryFinite, Zenon
<1>5. Cardinality(MemoryOf(L, S)) = Cardinality(MemoryOf(L, T))
          + Cardinality(MemoryOf(L, S \ T)) - Cardinality({})
  BY <1>1, <1>2, <1>4, FS_Union, ZenonT(40)
<1> QED
  BY <1>4, <1>5, FS_EmptySet

(* A window occupies as many bytes as it is long.                          *)
LEMMA MemoryOne ==
    ASSUME NEW L, NEW w, L[w] \in 0 .. WindowSize
    PROVE  Cardinality(MemoryOf(L, {w})) = L[w]
<1>1. PICK n \in 0 .. WindowSize : n = L[w]
  BY Zenon
<1>2. n \in Nat /\ n <= WindowSize /\ WindowSize \in Nat
  BY WindowAssumption
<1>3. MemoryOf(L, {w}) = {w} \X (1 .. n)
  BY <1>1, <1>2 DEF MemoryOf
<1>4. IsFiniteSet({w}) /\ Cardinality({w}) = 1
  BY FS_Singleton, Zenon
<1>5. IsFiniteSet(1 .. n) /\ Cardinality(1 .. n) = IF 1 > n THEN 0 ELSE (n - 1) + 1
  <2> 1 \in Int /\ n \in Int
    BY <1>2
  <2> QED
    BY FS_Interval, Zenon
<1>6. Cardinality(1 .. n) = n
  BY <1>2, <1>5
<1>7. Cardinality({w} \X (1 .. n)) = Cardinality({w}) * Cardinality(1 .. n)
  BY <1>4, <1>5, FS_Product, Zenon
<1>8. Cardinality({w} \X (1 .. n)) = 1 * n
  BY <1>4, <1>6, <1>7, Zenon
<1>9. 1 * n = n
  BY <1>2
<1> QED
  BY <1>1, <1>3, <1>8, <1>9, Zenon

(* MapLength() is the rest of the file or the size of a window.            *)
LEMMA MapLengthIs ==
    ASSUME NEW f \in File, NEW o \in Nat, o <= Size[f]
    PROVE  /\ MapLength(f, o) \in 0 .. WindowSize
           /\ MapLength(f, o) = IF Size[f] - o <= WindowSize THEN Size[f] - o ELSE WindowSize
<1> DEFINE S == {Size[f] - o, WindowSize}
<1>1. Size[f] \in Nat /\ WindowSize \in Nat
  BY WindowAssumption, Zenon
<1>2. \E x \in S : \A y \in S : x <= y
  BY <1>1
<1>3. MapLength(f, o) \in S /\ \A y \in S : MapLength(f, o) <= y
  BY <1>2, Zenon DEF MapLength, Min
<1> QED
  BY <1>1, <1>3

(* new_window() begins the window at or before the offset, and less than    *)
(* half a window before it.                                                *)
LEMMA StartIs ==
    ASSUME NEW o \in Nat
    PROVE  /\ Start(o) \in Nat /\ Start(o) <= o
           /\ o < Start(o) + WindowSize \div 2
<1> DEFINE h == WindowSize \div 2
<1>1. h \in Nat /\ h > 0
  BY WindowAssumption
<1> HIDE DEF h
<1>2. o = ((o \div h) * h) + (o % h) /\ o % h \in 0 .. h - 1 /\ o \div h \in Nat
  BY <1>1
<1>3. (o \div h) * h \in Nat
  BY <1>2, <1>1
<1>4. Start(o) = (o \div h) * h
  BY Zenon DEF Start, h
<1>5. PICK p \in Nat, m \in 0 .. h - 1 : Start(o) = p /\ o = p + m
  BY <1>2, <1>3, <1>4, Zenon
<1>6. Start(o) \in Nat /\ Start(o) <= o /\ o < Start(o) + h
  BY <1>1, <1>5
<1> QED
  BY <1>6, Zenon DEF h

(* What the windows occupy, now and after a step, by their lengths.         *)
LEMMA BytesAre ==
    ASSUME NEW S \in SUBSET Window
    PROVE  /\ Bytes(S) = Cardinality(MemoryOf(Lens, S))
           /\ Bytes({w \in Window : file[w] # None})' =
                Cardinality(MemoryOf(Lens', {w \in Window : file'[w] # None}))
<1>1. Memory(S) = MemoryOf(Lens, S)
  BY Zenon DEF Memory, MemoryOf, Lens
<1>2. Memory({w \in Window : file[w] # None})' =
        MemoryOf(Lens', {w \in Window : file'[w] # None})
  BY Zenon DEF Memory, MemoryOf, Lens
<1> QED
  BY <1>1, <1>2, Zenon DEF Bytes

(* More windows occupy at least as many bytes.                             *)
LEMMA BytesGrow ==
    ASSUME NEW S \in SUBSET Window, NEW T \in SUBSET S
    PROVE  Bytes(S) \in Nat /\ Bytes(T) \in Nat /\ Bytes(T) <= Bytes(S)
<1>1. IsFiniteSet(S) /\ IsFiniteSet(T) /\ IsFiniteSet(S \ T)
  BY FS_Subset, WindowAssumption, Zenon
<1>2. Bytes(S) = Cardinality(MemoryOf(Lens, S)) /\ Bytes(T) = Cardinality(MemoryOf(Lens, T))
  BY BytesAre, Zenon
<1>3. Cardinality(MemoryOf(Lens, S)) =
        Cardinality(MemoryOf(Lens, T)) + Cardinality(MemoryOf(Lens, S \ T))
  BY <1>1, MemoryParts
<1>4. /\ Cardinality(MemoryOf(Lens, T)) \in Nat
      /\ Cardinality(MemoryOf(Lens, S \ T)) \in Nat
  BY <1>1, MemoryFinite, Zenon
<1> QED
  BY <1>2, <1>3, <1>4

(* Of windows that somebody last used, one was used least recently.         *)
LEMMA LeastRecent ==
    ASSUME NEW K \in SUBSET Window, K # {}, last_used \in [Window -> Nat]
    PROVE  \E v \in K : \A u \in K : last_used[v] <= last_used[u]
<1> DEFINE T == {last_used[v] : v \in K}
<1>1. T \subseteq Nat /\ T # {}
  OBVIOUS
<1>2. IsWellFoundedOn(OpToRel(<, Nat), Nat)
  BY NatLessThanWellFounded, Zenon
<1>3. PICK n \in T : \A m \in T : ~(<<m, n>> \in OpToRel(<, Nat))
  BY <1>1, <1>2, WFMin, Zenon
<1>4. \A m \in T : ~(m < n)
  BY <1>1, <1>3, Zenon DEF OpToRel
<1>5. PICK v \in K : n = last_used[v]
  BY <1>3, Zenon
<1>6. ASSUME NEW u \in K PROVE last_used[v] <= last_used[u]
  <2>1. last_used[u] \in T /\ last_used[u] \in Nat /\ n \in Nat
    BY <1>5
  <2>2. ~(last_used[u] < n)
    BY <1>4, <2>1, Zenon
  <2> QED
    BY <1>5, <2>1, <2>2
<1> QED
  BY <1>6, Zenon

-----------------------------------------------------------------------------
(* The scan and the loop that closes                                       *)

(* No two windows of S were last used at the same time.                    *)
Distinct(S) ==
    /\ S \in SUBSET Window /\ last_used \in [Window -> Nat]
    /\ \A v, w \in S : last_used[v] = last_used[w] => v = w

Free(S) == {w \in S : inuse_cnt[w] = 0}

(* What the scan is to find: of the windows that nobody uses, the one used   *)
(* least recently.                                                          *)
Lru(S) ==
    IF Free(S) = {} THEN None
    ELSE CHOOSE w \in Free(S) : \A v \in Free(S) : last_used[w] <= last_used[v]

(* There is one least recently used window.                                 *)
LEMMA LruIs ==
    ASSUME NEW S, Distinct(S)
    PROVE  /\ Free(S) # {} =>
                /\ Lru(S) \in Free(S) /\ Lru(S) \in S /\ Lru(S) # None
                /\ \A v \in Free(S) : v # Lru(S) => last_used[Lru(S)] < last_used[v]
           /\ \A w \in Free(S) : (\A v \in Free(S) : last_used[w] <= last_used[v]) => Lru(S) = w
<1>1. Free(S) \in SUBSET Window /\ Free(S) \in SUBSET S
  BY Zenon DEF Distinct, Free
<1>2. ASSUME Free(S) # {}
      PROVE  Lru(S) \in Free(S) /\ \A v \in Free(S) : last_used[Lru(S)] <= last_used[v]
  <2>1. \E w \in Free(S) : \A v \in Free(S) : last_used[w] <= last_used[v]
    BY <1>1, <1>2, LeastRecent, Zenon DEF Distinct
  <2> QED
    BY <1>2, <2>1, Zenon DEF Lru
<1>3. ASSUME NEW v \in Free(S), NEW w \in Free(S), last_used[v] <= last_used[w], v # w
      PROVE  last_used[v] < last_used[w]
  BY <1>1, <1>3 DEF Distinct
<1>4. ASSUME NEW v \in Free(S), NEW w \in Free(S), last_used[v] <= last_used[w],
             last_used[w] <= last_used[v]
      PROVE  v = w
  BY <1>1, <1>4 DEF Distinct
<1>5. ASSUME Free(S) # {}
      PROVE  /\ Lru(S) \in Free(S) /\ Lru(S) \in S /\ Lru(S) # None
             /\ \A v \in Free(S) : v # Lru(S) => last_used[Lru(S)] < last_used[v]
  BY <1>1, <1>2, <1>3, <1>5, WindowAssumption, Zenon
<1>6. ASSUME NEW w \in Free(S), \A v \in Free(S) : last_used[w] <= last_used[v]
      PROVE  Lru(S) = w
  BY <1>2, <1>4, <1>6, Zenon
<1> QED
  BY <1>5, <1>6, Zenon

(* One window more, and the loop of git_mwindow_scan_lru() has the least    *)
(* recently used of them all.                                               *)
LEMMA ScanStepIs ==
    ASSUME NEW T, Distinct(T), NEW lru_w, \A w \in T : lru_w[T \ {w}] = Lru(T \ {w})
    PROVE  ScanStep(lru_w, T) = Lru(T)
<1>1. CASE T = {}
  BY <1>1, Zenon DEF ScanStep, Lru, Free
<1>2. CASE T # {}
  <2> DEFINE w == CHOOSE w \in T : TRUE
             U == T \ {w}
  <2>1. w \in T
    BY <1>2, Zenon
  <2>2. ScanStep(lru_w, T) = IF Older(w, Lru(U)) THEN w ELSE Lru(U)
    BY <1>2, <2>1, Zenon DEF ScanStep
  <2> HIDE DEF w
  <2>3. Distinct(U) /\ \A v \in Window : last_used[v] \in Nat
    BY Zenon DEF Distinct
  <2>4. Free(T) = IF inuse_cnt[w] = 0 THEN Free(U) \cup {w} ELSE Free(U)
    BY <2>1, Zenon DEF Free
  <2>5. T \in SUBSET Window /\ Free(T) \in SUBSET T
    BY Zenon DEF Distinct, Free
  <2>6. CASE inuse_cnt[w] # 0
    BY <2>2, <2>4, <2>6, Zenon DEF Older, Lru
  <2>7. CASE inuse_cnt[w] = 0 /\ Free(U) = {}
    <3>1. Free(T) = {w}
      BY <2>4, <2>7, Zenon
    <3>0. last_used[w] \in Nat
      BY <2>1, <2>3, <2>5, Zenon
    <3>4. last_used[w] <= last_used[w]
      BY <3>0
    <3>2. Lru(U) = None
      BY <2>7, Zenon DEF Lru
    <3>3. Lru(T) = w
      BY <3>1, <3>4, LruIs, Zenon
    <3> QED
      BY <2>2, <2>7, <3>2, <3>3, Zenon DEF Older
  <2>8. CASE inuse_cnt[w] = 0 /\ Free(U) # {}
    <3> DEFINE l == Lru(U)
    <3>1. /\ l \in Free(U) /\ l \in U /\ l # None
          /\ \A v \in Free(U) : v # l => last_used[l] < last_used[v]
      BY <2>3, <2>8, LruIs, Zenon
    <3> HIDE DEF l
    <3>2. l \in Window /\ w \in Window /\ Free(T) = Free(U) \cup {w} /\ Free(U) \in SUBSET Window
      BY <2>1, <2>4, <2>5, <2>8, <3>1, Zenon
    <3>0. /\ last_used[w] \in Nat /\ last_used[l] \in Nat
          /\ \A v \in Free(T) : last_used[v] \in Nat /\ (v = w \/ v = l \/ last_used[l] < last_used[v])
      BY <2>3, <3>1, <3>2, Zenon
    <3>3. CASE last_used[w] < last_used[l]
      <4>1. \A v \in Free(T) : last_used[w] <= last_used[v]
        <5> TAKE v \in Free(T)
        <5>1. CASE v = w
          BY <3>0, <5>1
        <5>2. CASE v = l
          BY <3>0, <3>3, <5>2
        <5>3. CASE last_used[l] < last_used[v]
          BY <3>0, <3>3, <5>3
        <5> QED
          BY <3>0, <5>1, <5>2, <5>3, Zenon
      <4>2. w \in Free(T)
        BY <3>2, Zenon
      <4> QED
        BY <2>2, <2>8, <3>3, <4>1, <4>2, LruIs, Zenon DEF Older, l
    <3>4. CASE ~(last_used[w] < last_used[l])
      <4>1. \A v \in Free(T) : last_used[l] <= last_used[v]
        <5> TAKE v \in Free(T)
        <5>1. CASE v = w
          BY <3>0, <3>4, <5>1
        <5>2. CASE v = l
          BY <3>0, <5>2
        <5>3. CASE last_used[l] < last_used[v]
          BY <3>0, <5>3
        <5> QED
          BY <3>0, <5>1, <5>2, <5>3, Zenon
      <4>2. l \in Free(T)
        BY <3>1, <3>2, Zenon
      <4>3. Lru(T) = l
        BY <4>1, <4>2, LruIs, Zenon
      <4> QED
        BY <2>2, <3>1, <3>4, <4>3, Zenon DEF Older, l
    <3> QED
      BY <3>3, <3>4, Zenon
  <2> QED
    BY <2>6, <2>7, <2>8, Zenon
<1> QED
  BY <1>1, <1>2, Zenon

(* Of some sets of windows, one has the fewest.                             *)
LEMMA Smallest ==
    ASSUME NEW B \in SUBSET SUBSET Window, B # {}
    PROVE  \E T \in B : \A U \in B : ~(Cardinality(U) < Cardinality(T))
<1> DEFINE N == {Cardinality(T) : T \in B}
<1>1. \A T \in B : Cardinality(T) \in Nat
  BY FS_Subset, FS_CardinalityType, WindowAssumption, Zenon
<1>2. N \subseteq Nat /\ N # {}
  BY <1>1, Zenon
<1> HIDE DEF N
<1>3. IsWellFoundedOn(OpToRel(<, Nat), Nat)
  BY NatLessThanWellFounded, Zenon
<1>4. PICK n \in N : \A m \in N : ~(<<m, n>> \in OpToRel(<, Nat))
  BY <1>2, <1>3, WFMin, Zenon
<1>5. \A m \in N : ~(m < n)
  BY <1>2, <1>4, Zenon DEF OpToRel
<1>6. PICK T \in B : n = Cardinality(T)
  BY <1>4, Zenon DEF N
<1> QED
  BY <1>5, <1>6, Zenon DEF N

(* A set of windows without one of them has fewer.                          *)
LEMMA Fewer ==
    ASSUME NEW T \in SUBSET Window, NEW w \in T
    PROVE  Cardinality(T \ {w}) < Cardinality(T)
<1>1. IsFiniteSet(T)
  BY FS_Subset, WindowAssumption, Zenon
<1>2. Cardinality(T \ {w}) = Cardinality(T) - 1 /\ Cardinality(T) \in Nat
  BY <1>1, FS_RemoveElement, FS_CardinalityType, Zenon
<1> QED
  BY <1>2

(* git_mwindow_scan_lru() finds the least recently used window.             *)
LEMMA ScanIs ==
    ASSUME NEW S, Distinct(S)
    PROVE  ScanLru(S) = Lru(S)
<1> DEFINE Rec(g) == g = [T \in SUBSET S |-> ScanStep(g, T)]
           scan == CHOOSE g : Rec(g)
           W == [T \in SUBSET S |-> Lru(T)]
<1>1. ScanLru(S) = scan[S]
  BY DEF ScanLru
<1>0. \A T \in SUBSET S : Distinct(T) /\ \A w \in T : T \ {w} \in SUBSET S
  BY Zenon DEF Distinct
<1>2. Rec(W)
  <2>1. DOMAIN W = SUBSET S /\ \A T \in SUBSET S : W[T] = Lru(T)
    BY Zenon
  <2> HIDE DEF W
  <2>2. \A T \in SUBSET S : ScanStep(W, T) = Lru(T)
    BY <1>0, <2>1, ScanStepIs, Zenon
  <2>3. W = [T \in SUBSET S |-> Lru(T)]
    BY Zenon DEF W
  <2> QED
    BY <2>2, <2>3, Zenon
<1>3. Rec(scan)
  BY <1>2, Zenon
<1> HIDE DEF scan, W
<1>4. \A T \in SUBSET S : scan[T] = ScanStep(scan, T)
  BY <1>3, Zenon
<1> HIDE DEF Rec
<1> DEFINE Bad == {T \in SUBSET S : scan[T] # Lru(T)}
<1>5. Bad = {}
  <2>1. SUFFICES ASSUME Bad # {} PROVE FALSE
    BY Zenon
  <2>2. Bad \in SUBSET SUBSET Window
    BY Zenon DEF Distinct
  <2>3. PICK T \in Bad : \A U \in Bad : ~(Cardinality(U) < Cardinality(T))
    BY <2>1, <2>2, Smallest, Zenon
  <2>4. T \in SUBSET S /\ scan[T] # Lru(T) /\ T \in SUBSET Window
    BY <2>2, Zenon
  <2>5. \A w \in T : T \ {w} \notin Bad
    BY <2>3, <2>4, Fewer, Zenon
  <2>6. \A w \in T : scan[T \ {w}] = Lru(T \ {w})
    BY <1>0, <2>4, <2>5, Zenon
  <2>7. ScanStep(scan, T) = Lru(T)
    BY <1>0, <2>4, <2>6, ScanStepIs, Zenon
  <2> QED
    BY <1>4, <2>4, <2>7, Zenon
<1> QED
  BY <1>1, <1>5, Zenon

(* What the loop of new_window() is to close, when it has closed those of C:  *)
(* the windows for which closing all that were used before them is not enough. *)
Before(S, w) == {v \in Free(S) : last_used[v] < last_used[w]}

Evicted(S, total, C) ==
    C \cup {w \in Free(S \ C) : MappedLimit < total - Bytes(C \cup Before(S \ C, w))}

(* One call of git_mwindow_close_lru() leads to the same result.            *)
LEMMA CloseStepIs ==
    ASSUME NEW S, Distinct(S), NEW total \in Nat, NEW C \in SUBSET S, NEW close,
           \A m \in S \ C : close[C \cup {m}] = Evicted(S, total, C \cup {m})
    PROVE  CloseStep(close, S, total, C) = Evicted(S, total, C)
<1> DEFINE R == S \ C
           m == Lru(R)
<1>1. Distinct(R) /\ S \in SUBSET Window /\ Free(R) \in SUBSET R
  BY Zenon DEF Distinct, Free
<1>2. ScanLru(R) = m
  BY <1>1, ScanIs, Zenon
<1>3. Bytes(C) \in Nat /\ MappedLimit \in Nat
  BY <1>1, BytesGrow, WindowAssumption, Zenon
<1>4. \A w \in Free(R) : /\ Bytes(C \cup Before(R, w)) \in Nat
                        /\ Bytes(C) <= Bytes(C \cup Before(R, w))
  <2>1. \A w \in Free(R) : C \cup Before(R, w) \in SUBSET Window /\ C \in SUBSET (C \cup Before(R, w))
    BY <1>1, Zenon DEF Before
  <2> QED
    BY <2>1, BytesGrow, Zenon
<1> HIDE DEF m
<1>5. CASE total - Bytes(C) <= MappedLimit
  <2>1. ASSUME NEW w \in Free(R) PROVE ~(MappedLimit < total - Bytes(C \cup Before(R, w)))
    <3>1. PICK b \in Nat : b = Bytes(C \cup Before(R, w)) /\ Bytes(C) <= b
      BY <1>4, Zenon
    <3>2. ~(MappedLimit < total - b)
      BY <1>3, <1>5, <3>1
    <3> QED
      BY <3>1, <3>2, Zenon
  <2>2. CloseStep(close, S, total, C) = C
    BY <1>5, Zenon DEF CloseStep
  <2> QED
    BY <2>1, <2>2, Zenon DEF Evicted
<1>6. CASE Free(R) = {}
  <2>1. m = None
    BY <1>6, Zenon DEF Lru, m
  <2>2. CloseStep(close, S, total, C) = C
    BY <1>2, <2>1, Zenon DEF CloseStep
  <2> QED
    BY <1>6, <2>2, Zenon DEF Evicted
<1>7. CASE ~(total - Bytes(C) <= MappedLimit) /\ Free(R) # {}
  <2>1. /\ m \in Free(R) /\ m \in R /\ m # None
        /\ \A v \in Free(R) : v # m => last_used[m] < last_used[v]
    BY <1>1, <1>7, LruIs, Zenon DEF m
  <2> DEFINE D == C \cup {m}
             Q == S \ D
  <2>2. CloseStep(close, S, total, C) = Evicted(S, total, D)
    BY <1>2, <1>7, <2>1, Zenon DEF CloseStep
  <2>3. Free(Q) = Free(R) \ {m} /\ D \in SUBSET S
    BY <2>1, Zenon DEF Free
  <2>4. ASSUME NEW w \in Free(R), w # m
        PROVE  C \cup Before(R, w) = D \cup Before(Q, w)
    BY <2>1, <2>3, <2>4, Zenon DEF Before
  <2>5. Before(R, m) = {}
    <3>1. ASSUME NEW v \in Free(R) PROVE ~(last_used[v] < last_used[m])
      <4>1. last_used[v] \in Nat /\ last_used[m] \in Nat
        BY <1>1, <2>1, Zenon DEF Distinct
      <4>2. v = m \/ last_used[m] < last_used[v]
        BY <2>1, Zenon
      <4> HIDE DEF R
      <4> QED
        BY <4>1, <4>2
    <3> QED
      BY <3>1, Zenon DEF Before
  <2>6. MappedLimit < total - Bytes(C \cup Before(R, m))
    <3>1. C \cup Before(R, m) = C
      BY <2>5, Zenon
    <3>2. MappedLimit < total - Bytes(C)
      BY <1>3, <1>7
    <3> QED
      BY <3>1, <3>2, Zenon
  <2>7. Evicted(S, total, C) = Evicted(S, total, D)
    <3>1. \A w \in Evicted(S, total, C) : w \in Evicted(S, total, D)
      BY <2>3, <2>4, Zenon DEF Evicted
    <3>2. \A w \in Evicted(S, total, D) : w \in Evicted(S, total, C)
      BY <2>1, <2>3, <2>4, <2>6, Zenon DEF Evicted
    <3> QED
      BY <3>1, <3>2, Zenon
  <2> QED
    BY <2>2, <2>7, Zenon
<1> QED
  BY <1>5, <1>6, <1>7, Zenon

(* The loop closes the windows for which it is not enough to close all that   *)
(* were used before them.                                                     *)
LEMMA CloseIs ==
    ASSUME NEW S, Distinct(S), NEW total \in Nat
    PROVE  CloseLru(S, total) = Evicted(S, total, {})
<1> DEFINE Rec(g) == g = [C \in SUBSET S |-> CloseStep(g, S, total, C)]
           close == CHOOSE g : Rec(g)
           W == [C \in SUBSET S |-> Evicted(S, total, C)]
<1>1. CloseLru(S, total) = close[{}]
  BY DEF CloseLru
<1>0. \A C \in SUBSET S : \A w \in S \ C : C \cup {w} \in SUBSET S
  BY Zenon
<1>2. Rec(W)
  <2>1. DOMAIN W = SUBSET S /\ \A C \in SUBSET S : W[C] = Evicted(S, total, C)
    BY Zenon
  <2> HIDE DEF W
  <2>2. ASSUME NEW C \in SUBSET S PROVE CloseStep(W, S, total, C) = Evicted(S, total, C)
    <3>1. \A m \in S \ C : W[C \cup {m}] = Evicted(S, total, C \cup {m})
      BY <1>0, <2>1, Zenon
    <3> QED
      BY <3>1, CloseStepIs, Zenon
  <2>3. W = [C \in SUBSET S |-> Evicted(S, total, C)]
    BY Zenon DEF W
  <2> QED
    BY <2>2, <2>3, Zenon
<1>3. Rec(close)
  BY <1>2, Zenon
<1> HIDE DEF close, W
<1>4. \A C \in SUBSET S : close[C] = CloseStep(close, S, total, C)
  BY <1>3, Zenon
<1> HIDE DEF Rec
<1> DEFINE Bad == {C \in SUBSET S : close[C] # Evicted(S, total, C)}
           B == {S \ C : C \in Bad}
<1>5. Bad = {}
  <2>1. SUFFICES ASSUME Bad # {} PROVE FALSE
    BY Zenon
  <2>2. B \in SUBSET SUBSET Window /\ B # {}
    <3>1. S \in SUBSET Window
      BY Zenon DEF Distinct
    <3>3. ASSUME NEW T \in B PROVE T \in SUBSET Window
      <4>1. PICK C \in Bad : T = S \ C
        BY Zenon
      <4> QED
        BY <3>1, <4>1, Zenon
    <3>4. PICK C \in Bad : TRUE
      BY <2>1, Zenon
    <3>5. S \ C \in B
      BY Zenon
    <3> QED
      BY <3>3, <3>5, Zenon
  <2>3. PICK T \in B : \A U \in B : ~(Cardinality(U) < Cardinality(T))
    BY <2>2, Smallest, Zenon
  <2>4. PICK C \in Bad : T = S \ C
    BY Zenon
  <2>5. C \in SUBSET S /\ close[C] # Evicted(S, total, C) /\ T \in SUBSET Window
    BY <2>2, Zenon
  <2>6. ASSUME NEW w \in S \ C PROVE close[C \cup {w}] = Evicted(S, total, C \cup {w})
    <3>1. S \ (C \cup {w}) = T \ {w}
      BY <2>4, Zenon
    <3>2. Cardinality(T \ {w}) < Cardinality(T)
      BY <2>4, <2>5, Fewer, Zenon
    <3>3. C \cup {w} \notin Bad
      BY <2>3, <3>1, <3>2, Zenon
    <3> QED
      BY <1>0, <2>5, <3>3, Zenon
  <2>7. CloseStep(close, S, total, C) = Evicted(S, total, C)
    BY <2>5, <2>6, CloseStepIs, Zenon
  <2> QED
    BY <1>4, <2>5, <2>7, Zenon
<1> QED
  BY <1>1, <1>5, Zenon

(* git_mwindow_close_lru() closes the least recently used of the windows    *)
(* that nobody uses, and new_window() stops calling it only within the limit *)
(* or when none is left.                                                    *)
LEMMA CloseLruIs ==
    ASSUME NEW W, Distinct(W), NEW total \in Nat
    PROVE  LET closed == CloseLru(W, total)
               S == Free(W)
           IN  /\ closed \in SUBSET S
               /\ \A u \in closed, v \in S \ closed : last_used[u] < last_used[v]
               /\ total - Bytes(closed) <= MappedLimit \/ S \ closed = {}
<1> DEFINE closed == CloseLru(W, total)
           S == Free(W)
<1>0. /\ W \ {} = W /\ S \in SUBSET Window /\ last_used \in [Window -> Nat]
      /\ \A w \in S : {} \cup Before(W, w) = Before(W, w)
  BY Zenon DEF Distinct, Free
<1>1. \A w \in S : Before(W, w) \in SUBSET S /\ Bytes(Before(W, w)) \in Nat
  <2>1. \A w \in S : Before(W, w) \in SUBSET S
    BY Zenon DEF Before
  <2> QED
    BY <1>0, <2>1, BytesGrow, Zenon
<1>2. closed \in SUBSET S /\ \A w \in S : w \in closed <=> MappedLimit < total - Bytes(Before(W, w))
  <2>1. closed = Evicted(W, total, {})
    BY CloseIs, Zenon
  <2> HIDE DEF closed
  <2> QED
    BY <1>0, <2>1, Zenon DEF Evicted
<1> HIDE DEF closed
<1>3. ASSUME NEW u \in closed, NEW v \in S \ closed
      PROVE  last_used[u] < last_used[v]
  <2> SUFFICES ASSUME ~(last_used[u] < last_used[v]) PROVE FALSE
    BY Zenon
  <2>1. u \in S /\ v \in S
    BY <1>2, Zenon
  <2>2. last_used[v] <= last_used[u]
    BY <1>0, <2>1
  <2>3. Before(W, v) \in SUBSET Before(W, u) /\ Before(W, u) \in SUBSET Window
    BY <1>0, <2>1, <2>2 DEF Before
  <2>4. Bytes(Before(W, v)) <= Bytes(Before(W, u))
    BY <2>3, BytesGrow, Zenon
  <2>5. MappedLimit < total - Bytes(Before(W, u)) /\ ~(MappedLimit < total - Bytes(Before(W, v)))
    BY <1>2, <2>1, Zenon
  <2> QED
    BY <1>1, <2>1, <2>4, <2>5, WindowAssumption
<1>4. ASSUME S \ closed # {}
      PROVE  total - Bytes(closed) <= MappedLimit
  <2>1. PICK v \in S \ closed : \A u \in S \ closed : last_used[v] <= last_used[u]
    BY <1>0, <1>4, LeastRecent, Zenon
  <2>2. Before(W, v) = closed
    <3>1. \A u \in closed : u \in S /\ last_used[u] < last_used[v]
      BY <1>2, <1>3, <2>1, Zenon
    <3>2. \A u \in S : last_used[u] < last_used[v] => u \in closed
      BY <1>0, <2>1
    <3> QED
      BY <3>1, <3>2, Zenon DEF Before
  <2>3. ~(MappedLimit < total - Bytes(closed)) /\ Bytes(closed) \in Nat
    BY <1>1, <1>2, <2>1, <2>2, Zenon
  <2> QED
    BY <2>3, WindowAssumption
<1> QED
  BY <1>2, <1>3, <1>4, Zenon DEF closed

-----------------------------------------------------------------------------
(* The steps                                                               *)

(* What new_window() closes for an offset in f                              *)
LEMMA CloseLruOf ==
    ASSUME WindowInv, NEW f \in File, NEW o \in 0 .. Size[f]
    PROVE  LET total == mapped + MapLength(f, Start(o))
               closed == CloseLru(Scanned(f), total)
           IN  /\ total \in Nat /\ closed \in SUBSET Idle(f)
               /\ \A u \in closed, v \in Idle(f) \ closed : last_used[u] < last_used[v]
               /\ total - Bytes(closed) <= MappedLimit \/ Idle(f) \ closed = {}
<1> DEFINE total == mapped + MapLength(f, Start(o))
<1>1. Distinct(Scanned(f)) /\ Idle(f) = Free(Scanned(f))
  <2>1. \A w \in Scanned(f) : w \in Window /\ file[w] # None
    BY Zenon DEF Scanned
  <2> QED
    BY <2>1, Zenon DEF WindowInv, WindowsAreSafe, TypeOK, Stamped, Distinct, Free, Idle
<1>2. total \in Nat
  <2>1. Start(o) \in Nat /\ Start(o) <= Size[f]
    BY StartIs, WindowAssumption, SMTT(30)
  <2>2. MapLength(f, Start(o)) \in Nat /\ mapped \in Nat
    BY <2>1, MapLengthIs, WindowAssumption DEF WindowInv, WindowsAreSafe, TypeOK
  <2> QED
    BY <2>2
<1> HIDE DEF total
<1>3. LET closed == CloseLru(Scanned(f), total)
      IN  /\ closed \in SUBSET Idle(f)
          /\ \A u \in closed, v \in Idle(f) \ closed : last_used[u] < last_used[v]
          /\ total - Bytes(closed) <= MappedLimit \/ Idle(f) \ closed = {}
  BY <1>1, <1>2, CloseLruIs, Zenon
<1> QED
  BY <1>2, <1>3, Zenon DEF total

(* git_mwindow_open() on a pack that is open                                *)
Ready(r, f, o) ==
    /\ r \notin leaving /\ opening[r] = None /\ cursor[r] = None
    /\ f \in holds[r] /\ fd[f] # "none"

Uses(r, w, o) == UseWindow(r, w, o) /\ UNCHANGED <<registry, files>>

(* git_mwindow_open() takes a window that suits, or maps another and closes *)
(* only windows that nobody uses.                                          *)
LEMMA OpenCases ==
    ASSUME WindowInv, NEW r \in Reader, NEW f \in File, NEW o \in 0 .. Size[f],
           WindowOpen(r, f, o)
    PROVE  /\ Ready(r, f, o)
           /\ \/ \E w \in Suitable(f, o) : Uses(r, w, o)
              \/ \E w \in Window, S \in SUBSET Idle(f), ok \in BOOLEAN :
                    file[w] = None /\ Maps(r, w, f, o, S, ok)
<1>1. Ready(r, f, o) /\ UNCHANGED <<registry, files>>
  BY Zenon DEF WindowOpen, Ready
<1>2. CASE \E w \in Suitable(f, o) : UseWindow(r, w, o)
  BY <1>1, <1>2, Zenon DEF Uses
<1>3. ASSUME NEW w \in Window, file[w] = None, NewWindow(r, w, f, o)
      PROVE  \E S \in SUBSET Idle(f), ok \in BOOLEAN : Maps(r, w, f, o, S, ok)
  <2>1. CloseLru(Scanned(f), mapped + MapLength(f, Start(o))) \in SUBSET Idle(f)
    BY CloseLruOf, Zenon
  <2> QED
    BY <1>1, <1>3, <2>1, ZenonT(40) DEF NewWindow, Maps, Start
<1> QED
  BY <1>1, <1>2, <1>3, Zenon DEF WindowOpen

(* TypeOK without ctl->mapped, which is shown from what it counts.         *)
Typed ==
    /\ refcount \in [File -> Nat] /\ holds \in [Reader -> SUBSET File]
    /\ fd \in [File -> {"none", "opened", "registered", "checked"}]
    /\ opening \in [Reader -> File \cup {None}] /\ leaving \subseteq Reader
    /\ listed \in [File -> Nat]
    /\ file \in [Window -> File \cup {None}]
    /\ offset \in [Window -> Nat] /\ last_used \in [Window -> Nat]
    /\ inuse_cnt \in [Window -> Nat]
    /\ cursor \in [Reader -> Cursor \cup {None}]
    /\ used_ctr \in Nat /\ lost \in Nat

(* Every step keeps the variables in their types.                          *)
LEMMA TypeStep ==
    ASSUME Damaged = {}, WindowInv, [Next]_vars
    PROVE  Typed'
<1>1. ASSUME UNCHANGED vars
      PROVE  Typed'
  BY <1>1, Zenon
  DEF WindowInv, WindowsAreSafe, TypeOK, Typed, vars, registry, files, windows, ctl
<1>2. ASSUME NEW r \in Reader, FreeBackend(r)
      PROVE  Typed'
  BY <1>2, Zenon
  DEF WindowInv, WindowsAreSafe, TypeOK, Typed, vars, registry, files, windows, ctl,
      FreeBackend
<1>3. ASSUME NEW r \in Reader, FileRegister(r)
      PROVE  Typed'
  BY <1>3
  DEF WindowInv, WindowsAreSafe, TypeOK, Typed, vars, registry, files, windows, ctl,
      FileRegister
<1>4. ASSUME NEW r \in Reader, CheckPack(r)
      PROVE  Typed'
  BY <1>4, Zenon
  DEF WindowInv, WindowsAreSafe, TypeOK, Typed, vars, registry, files, windows, ctl, CheckPack
<1>5. ASSUME NEW r \in Reader, WindowClose(r)
      PROVE  Typed'
  <2>1. cursor[r] # None /\ cursor[r] \in Cursor /\ cursor[r].w \in Window
    BY <1>5, Zenon DEF WindowClose, WindowInv, WindowsAreSafe, TypeOK, Cursor
  <2>2. r \in Users(cursor[r].w)
    BY <2>1, Zenon DEF Users
  <2>3. IsFiniteSet(Users(cursor[r].w))
    BY FS_Subset, WindowAssumption, Zenon DEF Users
  <2>4. inuse_cnt[cursor[r].w] = Cardinality(Users(cursor[r].w))
    BY <2>1, Zenon DEF WindowInv, WindowsAreSafe, UsedWindowsStay
  <2>5. inuse_cnt[cursor[r].w] \in Nat /\ inuse_cnt[cursor[r].w] > 0
    BY <2>2, <2>3, <2>4, FS_CardinalityType, FS_EmptySet
  <2> QED
    BY <2>1, <2>5, <1>5
    DEF WindowInv, WindowsAreSafe, TypeOK, Typed, vars, registry, files, windows, ctl,
        WindowClose
<1>6. ASSUME NEW r \in Reader, NEW f \in File, GetPack(r, f)
      PROVE  Typed'
  BY <1>6
  DEF WindowInv, WindowsAreSafe, TypeOK, Typed, vars, registry, files, windows, ctl, GetPack
<1>7. ASSUME NEW r \in Reader, NEW f \in File, PutPack(r, f)
      PROVE  Typed'
  <2>1. refcount[f] \in Nat /\ refcount[f] > 0
    <3>1. r \in {q \in Reader : f \in holds[q]}
      BY <1>7, Zenon DEF PutPack
    <3>2. IsFiniteSet({q \in Reader : f \in holds[q]})
      BY FS_Subset, WindowAssumption, Zenon
    <3>3. refcount[f] = Cardinality({q \in Reader : f \in holds[q]})
      BY Zenon DEF WindowInv, WindowsAreSafe, PacksAreCounted
    <3>4. Cardinality({q \in Reader : f \in holds[q]}) # 0
      BY <3>1, <3>2, FS_EmptySet, Zenon
    <3> QED
      BY <3>3, <3>4 DEF WindowInv, WindowsAreSafe, TypeOK
  <2>2. /\ refcount' \in [File -> Nat] /\ holds' \in [Reader -> SUBSET File]
        /\ leaving' \subseteq Reader
    BY <2>1, <1>7 DEF PutPack, WindowInv, WindowsAreSafe, TypeOK
  <2> QED
    BY <2>2, <1>7
    DEF WindowInv, WindowsAreSafe, TypeOK, Typed, vars, registry, files, windows, ctl, PutPack,
        PackfileFree, Remap
<1>8. ASSUME NEW r \in Reader, NEW f \in File, OpenFile(r, f)
      PROVE  Typed'
  BY <1>8, Zenon
  DEF WindowInv, WindowsAreSafe, TypeOK, Typed, vars, registry, files, windows, ctl, OpenFile
<1>9. ASSUME NEW r \in Reader, NEW f \in File, NEW o \in 0 .. Size[f], Ready(r, f, o),
             NEW w \in Suitable(f, o), Uses(r, w, o)
      PROVE  Typed'
  <2>1. w \in Window /\ o \in Nat
    BY WindowAssumption DEF Suitable
  <2> QED
    BY <2>1, <1>9
    DEF WindowInv, WindowsAreSafe, TypeOK, Typed, vars, registry, files, windows, ctl, Uses,
        UseWindow, Cursor
<1>10. ASSUME NEW r \in Reader, NEW f \in File, NEW o \in 0 .. Size[f], Ready(r, f, o),
             NEW w \in Window, file[w] = None, NEW S \in SUBSET Idle(f),
             NEW ok \in BOOLEAN, Maps(r, w, f, o, S, ok)
      PROVE  Typed'
  <2>1. o \in Nat /\ Start(o) \in Nat /\ Start(o) <= o /\ o <= Size[f]
    BY StartIs, WindowAssumption
  <2>2. MapLength(f, Start(o)) \in Nat
    BY <2>1, MapLengthIs, WindowAssumption
  <2> QED
    BY <2>1, <2>2, <1>10
    DEF WindowInv, WindowsAreSafe, TypeOK, Typed, vars, registry, files, windows, ctl, Maps,
        Remap, Cursor
<1> QED
  BY <1>1, <1>2, <1>3, <1>4, <1>5, <1>6, <1>7, <1>8, <1>9, <1>10, OpenCases, Zenon DEF Next

(* A window that nobody counts, or that maps nothing, has no cursor on it.  *)
LEMMA NoUsers ==
    ASSUME WindowInv, NEW w \in Window, inuse_cnt[w] = 0 \/ file[w] = None
    PROVE  Users(w) = {} /\ inuse_cnt[w] = 0
<1>1. IsFiniteSet(Users(w))
  BY FS_Subset, WindowAssumption, Zenon DEF Users
<1>2. inuse_cnt[w] = Cardinality(Users(w))
  BY Zenon DEF WindowInv, WindowsAreSafe, UsedWindowsStay
<1>3. CASE inuse_cnt[w] = 0
  BY <1>1, <1>2, <1>3, FS_EmptySet, Zenon
<1>4. CASE file[w] = None
  <2>1. \A r \in Reader : cursor[r] # None => file[cursor[r].w] \in File
    BY Zenon DEF WindowInv, WindowsAreSafe, TypeOK, UsedWindowsStay
  <2>2. Users(w) = {}
    BY <2>1, <1>4, WindowAssumption, Zenon DEF Users
  <2> QED
    BY <2>2, <1>2, FS_EmptySet, Zenon
<1> QED
  BY <1>3, <1>4, Zenon

(* When the last backend puts a pack, no cursor is on a window of it, and   *)
(* nobody is opening it.                                                   *)
LEMMA LastHolder ==
    ASSUME WindowInv, NEW r \in Reader, NEW f \in File, PutPack(r, f), refcount[f] = 1
    PROVE  /\ \A q \in Reader : f \in holds[q] => q = r
           /\ \A w \in Window : file[w] = f => Users(w) = {} /\ inuse_cnt[w] = 0
           /\ fd[f] \in {"none", "checked"}
<1> DEFINE H == {q \in Reader : f \in holds[q]}
<1>1. r \in H /\ r \in leaving
  BY Zenon DEF PutPack
<1>2. IsFiniteSet(H)
  BY FS_Subset, WindowAssumption, Zenon
<1>3. Cardinality(H) = 1
  BY Zenon DEF WindowInv, WindowsAreSafe, PacksAreCounted
<1>4. H = {r}
  BY <1>1, <1>2, <1>3, FS_Singleton
<1>5. \A q \in Reader : f \in holds[q] => q = r
  BY <1>4, Zenon
<1>6. cursor[r] = None /\ opening[r] = None
  BY <1>1, Zenon DEF WindowInv, OpeningOK, WindowsAreSafe, TypeOK
<1>7. ASSUME NEW w \in Window, file[w] = f
      PROVE  Users(w) = {} /\ inuse_cnt[w] = 0
  <2>1. Users(w) = {}
    BY <1>5, <1>6, <1>7, Zenon DEF Users, WindowInv, WindowsAreSafe, UsedWindowsStay
  <2> QED
    BY <2>1, FS_EmptySet, Zenon DEF WindowInv, WindowsAreSafe, UsedWindowsStay
<1>8. fd[f] \notin {"opened", "registered"}
  <2> SUFFICES ASSUME fd[f] \in {"opened", "registered"} PROVE FALSE
    BY Zenon
  <2>1. PICK q \in Reader : opening[q] = f
    BY Zenon DEF WindowInv, OpeningOK
  <2>2. f \in holds[q]
    BY <2>1, WindowAssumption, Zenon DEF WindowInv, OpeningOK
  <2> QED
    BY <1>5, <1>6, <2>1, <2>2, WindowAssumption, Zenon
<1> QED
  BY <1>5, <1>7, <1>8, Zenon DEF WindowInv, WindowsAreSafe, TypeOK

(* Every step keeps the counts of the cursors, and the packs they need.    *)
LEMMA UsedStep ==
    ASSUME Damaged = {}, WindowInv, [Next]_vars
    PROVE  UsedWindowsStay'
<1>1. ASSUME UNCHANGED vars
      PROVE  UsedWindowsStay'
  BY <1>1, Zenon
  DEF WindowInv, WindowsAreSafe, TypeOK, UsedWindowsStay, Users, vars, registry, files,
      windows, ctl
<1>2. ASSUME NEW r \in Reader, FreeBackend(r)
      PROVE  UsedWindowsStay'
  BY <1>2, Zenon
  DEF WindowInv, WindowsAreSafe, TypeOK, UsedWindowsStay, Users, vars, registry, files,
      windows, ctl, FreeBackend
<1>3. ASSUME NEW r \in Reader, FileRegister(r)
      PROVE  UsedWindowsStay'
  BY <1>3
  DEF WindowInv, WindowsAreSafe, TypeOK, UsedWindowsStay, Users, vars, registry, files,
      windows, ctl, FileRegister
<1>4. ASSUME NEW r \in Reader, CheckPack(r)
      PROVE  UsedWindowsStay'
  BY <1>4
  DEF WindowInv, WindowsAreSafe, TypeOK, UsedWindowsStay, Users, vars, registry, files,
      windows, ctl, CheckPack
<1>5. ASSUME NEW r \in Reader, WindowClose(r)
      PROVE  UsedWindowsStay'
  <2>1. cursor[r] # None /\ cursor[r].w \in Window
    BY <1>5, Zenon DEF WindowClose, WindowInv, WindowsAreSafe, TypeOK, Cursor
  <2>2. \A v \in Window : Users(v)' = Users(v) \ {r}
    BY <1>5, Zenon DEF WindowClose, WindowInv, WindowsAreSafe, TypeOK, Users
  <2>3. ASSUME NEW v \in Window
        PROVE  inuse_cnt'[v] = Cardinality(Users(v)')
    <3>1. IsFiniteSet(Users(v))
      BY FS_Subset, WindowAssumption, Zenon DEF Users
    <3>2. Cardinality(Users(v)') = IF r \in Users(v) THEN Cardinality(Users(v)) - 1
                                  ELSE Cardinality(Users(v))
      BY <2>2, <3>1, FS_RemoveElement, Zenon
    <3>3. r \in Users(v) <=> v = cursor[r].w
      BY <2>1, Zenon DEF Users
    <3>4. inuse_cnt[v] = Cardinality(Users(v))
      BY Zenon DEF WindowInv, WindowsAreSafe, UsedWindowsStay
    <3> QED
      BY <2>1, <3>2, <3>3, <3>4, <1>5, Zenon DEF WindowClose, WindowInv, WindowsAreSafe, TypeOK
  <2> QED
    BY <2>3, <1>5, Zenon
    DEF WindowInv, WindowsAreSafe, TypeOK, UsedWindowsStay, WindowClose, vars, registry, files,
        windows, ctl
<1>6. ASSUME NEW r \in Reader, NEW f \in File, GetPack(r, f)
      PROVE  UsedWindowsStay'
  BY <1>6
  DEF WindowInv, WindowsAreSafe, TypeOK, UsedWindowsStay, Users, vars, registry, files,
      windows, ctl, GetPack
<1>7. ASSUME NEW r \in Reader, NEW f \in File, PutPack(r, f)
      PROVE  UsedWindowsStay'
  <2>1. cursor' = cursor /\ cursor[r] = None
    BY <1>7, Zenon DEF PutPack, WindowInv, OpeningOK
  <2>2. \A q \in Reader : q # r => holds'[q] = holds[q]
    BY <1>7, Zenon DEF PutPack, WindowInv, WindowsAreSafe, TypeOK
  <2>3. \A w \in Window : Users(w)' = Users(w)
    BY <2>1, Zenon DEF Users
  <2>4. CASE refcount[f] = 1 /\ fd[f] # "none"
    <3>1. \A w \in Window : file[w] = f => Users(w) = {} /\ inuse_cnt[w] = 0
      BY <2>4, <1>7, LastHolder, Zenon
    <3>2. \A w \in Window : inuse_cnt'[w] = inuse_cnt[w]
      BY <2>4, <3>1, <1>7, SMTT(30) DEF PutPack, PackfileFree, Remap
    <3>3. \A q \in Reader : cursor[q] # None => file'[cursor[q].w] = file[cursor[q].w]
      <4> SUFFICES ASSUME NEW q \in Reader, cursor[q] # None
                   PROVE  file'[cursor[q].w] = file[cursor[q].w]
        BY Zenon
      <4>1. cursor[q].w \in Window
        BY Zenon DEF WindowInv, WindowsAreSafe, TypeOK, Cursor
      <4>2. file[cursor[q].w] # f
        BY <3>1, <4>1, Zenon DEF Users
      <4> QED
        BY <2>4, <4>1, <4>2, <1>7 DEF PutPack, PackfileFree, Remap
    <3> QED
      BY <2>1, <2>2, <2>3, <3>2, <3>3, ZenonT(40) DEF WindowInv, WindowsAreSafe, UsedWindowsStay
  <2>5. CASE ~(refcount[f] = 1 /\ fd[f] # "none")
    <3>1. UNCHANGED windows
      BY <2>5, <1>7, Zenon DEF PutPack, PackfileFree
    <3> QED
      BY <2>1, <2>2, <2>3, <3>1, Zenon DEF windows, WindowInv, WindowsAreSafe, UsedWindowsStay
  <2> QED
    BY <2>4, <2>5, Zenon
<1>8. ASSUME NEW r \in Reader, NEW f \in File, OpenFile(r, f)
      PROVE  UsedWindowsStay'
  BY <1>8
  DEF WindowInv, WindowsAreSafe, TypeOK, UsedWindowsStay, Users, vars, registry, files,
      windows, ctl, OpenFile
<1>9. ASSUME NEW r \in Reader, NEW f \in File, NEW o \in 0 .. Size[f], Ready(r, f, o),
             NEW w \in Suitable(f, o), Uses(r, w, o)
      PROVE  UsedWindowsStay'
  <2>1. w \in Window /\ cursor[r] = None /\ file[w] = f /\ f \in holds[r]
    BY <1>9, Zenon DEF Ready, Suitable
  <2>2. cursor' = [cursor EXCEPT ![r] = [w |-> w, at |-> o]] /\ [w |-> w, at |-> o] # None
    BY <2>1, <1>9, WindowAssumption DEF Uses, UseWindow, Cursor
  <2>3. \A v \in Window : Users(v)' = IF v = w THEN Users(v) \cup {r} ELSE Users(v)
    BY <2>1, <2>2, Zenon DEF WindowInv, WindowsAreSafe, TypeOK, Users
  <2>4. ASSUME NEW v \in Window
        PROVE  inuse_cnt'[v] = Cardinality(Users(v)')
    <3>1. IsFiniteSet(Users(v)) /\ r \notin Users(v)
      BY <2>1, FS_Subset, WindowAssumption, Zenon DEF Users
    <3>2. Cardinality(Users(v) \cup {r}) = Cardinality(Users(v)) + 1
      BY <3>1, FS_AddElement, Zenon
    <3>3. inuse_cnt[v] = Cardinality(Users(v))
      BY Zenon DEF WindowInv, WindowsAreSafe, UsedWindowsStay
    <3> QED
      BY <2>1, <2>3, <3>2, <3>3, <1>9, Zenon
      DEF Uses, UseWindow, WindowInv, WindowsAreSafe, TypeOK
  <2>5. \A q \in Reader : cursor'[q] # None => file'[cursor'[q].w] \in holds'[q]
    BY <2>1, <2>2, <1>9
    DEF Uses, UseWindow, registry, WindowInv, WindowsAreSafe, TypeOK, UsedWindowsStay
  <2> QED
    BY <2>4, <2>5, Zenon DEF UsedWindowsStay
<1>10. ASSUME NEW r \in Reader, NEW f \in File, NEW o \in 0 .. Size[f], Ready(r, f, o),
             NEW w \in Window, file[w] = None, NEW S \in SUBSET Idle(f),
             NEW ok \in BOOLEAN, Maps(r, w, f, o, S, ok)
      PROVE  UsedWindowsStay'
  <2>1. cursor[r] = None /\ f \in holds[r]
    BY <1>10, Zenon DEF Ready
  <2>2. o \in Nat /\ [w |-> w, at |-> o] # None
    BY WindowAssumption DEF Cursor
  <2>3. \A v \in S \cup {w} : v \in Window /\ Users(v) = {} /\ inuse_cnt[v] = 0
    BY <1>10, NoUsers, Zenon DEF Idle, Scanned
  <2>4. \A v \in Window : Users(v)' = IF ok /\ v = w THEN {r} ELSE Users(v)
    BY <2>1, <2>2, <2>3, <1>10 DEF Maps, WindowInv, WindowsAreSafe, TypeOK, Users
  <2>5. ASSUME NEW v \in Window
        PROVE  inuse_cnt'[v] = Cardinality(Users(v)')
    <3>1. inuse_cnt[v] = Cardinality(Users(v))
      BY Zenon DEF WindowInv, WindowsAreSafe, UsedWindowsStay
    <3>2. CASE ok /\ v = w
      BY <2>4, <3>2, <1>10, FS_Singleton, Zenon DEF Maps, Remap
    <3>3. CASE ~(ok /\ v = w)
      BY <2>3, <2>4, <3>1, <3>3, <1>10, Zenon DEF Maps, Remap
    <3> QED
      BY <3>2, <3>3, Zenon
  <2>6. ASSUME NEW q \in Reader, cursor'[q] # None
        PROVE  file'[cursor'[q].w] \in holds'[q]
    <3>1. holds' = holds
      BY <1>10, Zenon DEF Maps, registry
    <3>2. CASE ok /\ q = r
      BY <2>1, <3>1, <3>2, <1>10, Zenon DEF Maps, Remap, WindowInv, WindowsAreSafe, TypeOK
    <3>3. CASE ~(ok /\ q = r)
      <4>1. cursor'[q] = cursor[q]
        BY <3>3, <1>10, Zenon DEF Maps, WindowInv, WindowsAreSafe, TypeOK
      <4>2. cursor[q].w \in Window
        BY <2>6, <4>1, Zenon DEF WindowInv, WindowsAreSafe, TypeOK, Cursor
      <4>3. cursor[q].w \notin S \cup {w}
        BY <2>3, <2>6, <4>1, Zenon DEF Users
      <4>4. file'[cursor[q].w] = file[cursor[q].w]
        BY <4>2, <4>3, <1>10, Zenon DEF Maps, Remap
      <4> QED
        BY <2>6, <3>1, <4>1, <4>4, Zenon DEF WindowInv, WindowsAreSafe, UsedWindowsStay
    <3> QED
      BY <3>2, <3>3, Zenon
  <2> QED
    BY <2>5, <2>6, Zenon DEF UsedWindowsStay
<1> QED
  BY <1>1, <1>2, <1>3, <1>4, <1>5, <1>6, <1>7, <1>8, <1>9, <1>10, OpenCases DEF Next

(* A window that a cursor is on is not closed, so it stays where it is.     *)
LEMMA CursorStays ==
    ASSUME WindowInv, NEW r \in Reader, cursor[r] # None,
           NEW S \in SUBSET Window, \A v \in S : Users(v) = {},
           NEW w, NEW f, NEW o, NEW add \in BOOLEAN, add => w \in Window /\ Users(w) = {},
           Remap(S, add, w, f, o)
    PROVE  /\ cursor[r].w \in Window
           /\ file'[cursor[r].w] = file[cursor[r].w]
           /\ offset'[cursor[r].w] = offset[cursor[r].w]
<1>1. cursor[r].w \in Window
  BY Zenon DEF WindowInv, WindowsAreSafe, TypeOK, Cursor
<1>2. r \in Users(cursor[r].w)
  BY Zenon DEF Users
<1> QED
  BY <1>1, <1>2, Zenon DEF Remap

(* Every step keeps what a cursor asked for within its window.            *)
LEMMA CoversStep ==
    ASSUME Damaged = {}, WindowInv, [Next]_vars
    PROVE  CoversRequest'
<1>1. ASSUME UNCHANGED vars
      PROVE  CoversRequest'
  BY <1>1, Zenon
  DEF WindowInv, WindowsAreSafe, TypeOK, CoversRequest, len, vars, registry, files, windows,
      ctl
<1>2. ASSUME NEW r \in Reader, FreeBackend(r)
      PROVE  CoversRequest'
  BY <1>2, Zenon
  DEF WindowInv, WindowsAreSafe, TypeOK, CoversRequest, len, vars, registry, files, windows,
      ctl, FreeBackend
<1>3. ASSUME NEW r \in Reader, FileRegister(r)
      PROVE  CoversRequest'
  BY <1>3, Zenon
  DEF WindowInv, WindowsAreSafe, TypeOK, CoversRequest, len, vars, registry, files, windows,
      ctl, FileRegister
<1>4. ASSUME NEW r \in Reader, CheckPack(r)
      PROVE  CoversRequest'
  BY <1>4, Zenon
  DEF WindowInv, WindowsAreSafe, TypeOK, CoversRequest, len, vars, registry, files, windows,
      ctl, CheckPack
<1>5. ASSUME NEW r \in Reader, WindowClose(r)
      PROVE  CoversRequest'
  BY <1>5, Zenon
  DEF WindowInv, WindowsAreSafe, TypeOK, CoversRequest, len, vars, registry, files, windows,
      ctl, WindowClose
<1>6. ASSUME NEW r \in Reader, NEW f \in File, GetPack(r, f)
      PROVE  CoversRequest'
  BY <1>6, Zenon
  DEF WindowInv, WindowsAreSafe, TypeOK, CoversRequest, len, vars, registry, files, windows,
      ctl, GetPack
<1>7. ASSUME NEW r \in Reader, NEW f \in File, PutPack(r, f)
      PROVE  CoversRequest'
  <2>1. cursor' = cursor
    BY <1>7, Zenon DEF PutPack
  <2>2. CASE refcount[f] = 1 /\ fd[f] # "none"
    <3> DEFINE own == {w \in Window : file[w] = f}
    <3>1. \A w \in own : Users(w) = {}
      BY <2>2, <1>7, LastHolder, Zenon
    <3>2. Remap(own, FALSE, 0, None, 0)
      BY <2>2, <1>7, Zenon DEF PutPack, PackfileFree
    <3>3. \A q \in Reader : cursor[q] # None =>
             /\ file'[cursor[q].w] = file[cursor[q].w]
             /\ offset'[cursor[q].w] = offset[cursor[q].w]
      BY <3>1, <3>2, CursorStays, Zenon
    <3> QED
      BY <2>1, <3>3, Zenon DEF len, WindowInv, WindowsAreSafe, CoversRequest
  <2>3. CASE ~(refcount[f] = 1 /\ fd[f] # "none")
    <3>1. UNCHANGED windows
      BY <2>3, <1>7, Zenon DEF PutPack, PackfileFree
    <3> QED
      BY <2>1, <3>1, Zenon DEF len, windows, WindowInv, WindowsAreSafe, CoversRequest
  <2> QED
    BY <2>2, <2>3, Zenon
<1>8. ASSUME NEW r \in Reader, NEW f \in File, OpenFile(r, f)
      PROVE  CoversRequest'
  BY <1>8, Zenon
  DEF WindowInv, WindowsAreSafe, TypeOK, CoversRequest, len, vars, registry, files, windows,
      ctl, OpenFile
<1>9. ASSUME NEW r \in Reader, NEW f \in File, NEW o \in 0 .. Size[f], Ready(r, f, o),
             NEW w \in Suitable(f, o), Uses(r, w, o)
      PROVE  CoversRequest'
  <2>1. UNCHANGED <<file, offset>> /\ cursor' = [cursor EXCEPT ![r] = [w |-> w, at |-> o]]
    BY <1>9, Zenon DEF Uses, UseWindow
  <2>2. offset[w] <= o /\ o + Extra <= offset[w] + len(w)
    BY Zenon DEF Suitable, WindowContains
  <2> QED
    BY <2>1, <2>2, Zenon DEF len, WindowInv, WindowsAreSafe, TypeOK, CoversRequest
<1>10. ASSUME NEW r \in Reader, NEW f \in File, NEW o \in 0 .. Size[f], Ready(r, f, o),
             NEW w \in Window, file[w] = None, NEW S \in SUBSET Idle(f),
             NEW ok \in BOOLEAN, Maps(r, w, f, o, S, ok)
      PROVE  CoversRequest'
  <2>1. \A v \in S \cup {w} : v \in Window /\ Users(v) = {}
    BY <1>10, NoUsers, Zenon DEF Idle, Scanned
  <2>2. Remap(S, ok, w, f, Start(o)) /\ S \in SUBSET Window
    BY <2>1, <1>10, Zenon DEF Maps
  <2>3. \A q \in Reader : cursor[q] # None =>
           /\ file'[cursor[q].w] = file[cursor[q].w]
           /\ offset'[cursor[q].w] = offset[cursor[q].w]
    BY <2>1, <2>2, CursorStays
  <2>4. \A q \in Reader : cursor[q] # None /\ cursor'[q] = cursor[q] =>
           LET c == cursor[q].w
           IN  /\ offset'[c] <= cursor[q].at
               /\ \/ cursor[q].at + Extra <= offset'[c] + MapLength(file'[c], offset'[c])
                  \/ Size[file'[c]] <= offset'[c] + MapLength(file'[c], offset'[c])
    BY <2>3, Zenon DEF len, WindowInv, WindowsAreSafe, CoversRequest
  <2>5. CASE ~ok
    BY <2>4, <2>5, <1>10, Zenon DEF Maps, len, CoversRequest
  <2>6. CASE ok
    <3>1. o \in Nat /\ o <= Size[f]
      BY <1>10, WindowAssumption
    <3>2. /\ Start(o) \in Nat /\ Start(o) <= o
          /\ o < Start(o) + WindowSize \div 2
      BY <3>1, StartIs, Zenon
    <3>3. MapLength(f, Start(o)) =
            IF Size[f] - Start(o) <= WindowSize THEN Size[f] - Start(o) ELSE WindowSize
      BY <3>1, <3>2, MapLengthIs, WindowAssumption
    <3>4. \/ o + Extra <= Start(o) + MapLength(f, Start(o))
          \/ Size[f] <= Start(o) + MapLength(f, Start(o))
      BY <3>1, <3>2, <3>3, WindowAssumption
    <3>5. file'[w] = f /\ offset'[w] = Start(o)
      BY <2>6, <1>10, Zenon DEF Maps, Remap
    <3>6. cursor' = [cursor EXCEPT ![r] = [w |-> w, at |-> o]]
      BY <2>6, <1>10, Zenon DEF Maps
    <3>7. cursor'[r].w = w /\ cursor'[r].at = o /\ \A q \in Reader : q # r => cursor'[q] = cursor[q]
      BY <3>6, Zenon DEF WindowInv, WindowsAreSafe, TypeOK
    <3> QED
      BY <2>4, <3>2, <3>4, <3>5, <3>7, Zenon DEF len, CoversRequest
  <2> QED
    BY <2>5, <2>6, Zenon
<1> QED
  BY <1>1, <1>2, <1>3, <1>4, <1>5, <1>6, <1>7, <1>8, <1>9, <1>10, OpenCases, Zenon DEF Next

(* Every step keeps the beginning of each window within its file.         *)
LEMMA FitStep ==
    ASSUME Damaged = {}, WindowInv, [Next]_vars
    PROVE  WindowsFit'
<1>1. ASSUME UNCHANGED vars
      PROVE  WindowsFit'
  BY <1>1, Zenon
  DEF WindowInv, WindowsAreSafe, TypeOK, WindowsFit, vars, registry, files, windows, ctl
<1>2. ASSUME NEW r \in Reader, FreeBackend(r)
      PROVE  WindowsFit'
  BY <1>2, Zenon
  DEF WindowInv, WindowsAreSafe, TypeOK, WindowsFit, vars, registry, files, windows, ctl,
      FreeBackend
<1>3. ASSUME NEW r \in Reader, FileRegister(r)
      PROVE  WindowsFit'
  BY <1>3, Zenon
  DEF WindowInv, WindowsAreSafe, TypeOK, WindowsFit, vars, registry, files, windows, ctl,
      FileRegister
<1>4. ASSUME NEW r \in Reader, CheckPack(r)
      PROVE  WindowsFit'
  BY <1>4, Zenon
  DEF WindowInv, WindowsAreSafe, TypeOK, WindowsFit, vars, registry, files, windows, ctl,
      CheckPack
<1>5. ASSUME NEW r \in Reader, WindowClose(r)
      PROVE  WindowsFit'
  BY <1>5, Zenon
  DEF WindowInv, WindowsAreSafe, TypeOK, WindowsFit, vars, registry, files, windows, ctl,
      WindowClose
<1>6. ASSUME NEW r \in Reader, NEW f \in File, GetPack(r, f)
      PROVE  WindowsFit'
  BY <1>6, Zenon
  DEF WindowInv, WindowsAreSafe, TypeOK, WindowsFit, vars, registry, files, windows, ctl,
      GetPack
<1>7. ASSUME NEW r \in Reader, NEW f \in File, PutPack(r, f)
      PROVE  WindowsFit'
  BY <1>7
  DEF WindowInv, WindowsAreSafe, TypeOK, WindowsFit, vars, registry, files, windows, ctl,
      PutPack, PackfileFree, Remap
<1>8. ASSUME NEW r \in Reader, NEW f \in File, OpenFile(r, f)
      PROVE  WindowsFit'
  BY <1>8, Zenon
  DEF WindowInv, WindowsAreSafe, TypeOK, WindowsFit, vars, registry, files, windows, ctl,
      OpenFile
<1>9. ASSUME NEW r \in Reader, NEW f \in File, NEW o \in 0 .. Size[f], Ready(r, f, o),
             NEW w \in Suitable(f, o), Uses(r, w, o)
      PROVE  WindowsFit'
  BY <1>9, Zenon
  DEF WindowInv, WindowsAreSafe, TypeOK, WindowsFit, vars, registry, files, windows, ctl, Uses,
      UseWindow
<1>10. ASSUME NEW r \in Reader, NEW f \in File, NEW o \in 0 .. Size[f], Ready(r, f, o),
             NEW w \in Window, file[w] = None, NEW S \in SUBSET Idle(f),
             NEW ok \in BOOLEAN, Maps(r, w, f, o, S, ok)
      PROVE  WindowsFit'
  <2>1. o \in Nat /\ o <= Size[f] /\ Start(o) \in Nat /\ Start(o) <= o
    BY StartIs, WindowAssumption
  <2>2. Start(o) <= Size[f]
    BY <2>1, WindowAssumption
  <2> QED
    BY <2>2, <1>10, Zenon DEF WindowInv, WindowsAreSafe, TypeOK, WindowsFit, Maps, Remap
<1> QED
  BY <1>1, <1>2, <1>3, <1>4, <1>5, <1>6, <1>7, <1>8, <1>9, <1>10, OpenCases DEF Next

(* Every step gives a window that it uses a number of its own.             *)
LEMMA StampStep ==
    ASSUME Damaged = {}, WindowInv, [Next]_vars
    PROVE  Stamped'
<1>1. ASSUME UNCHANGED vars
      PROVE  Stamped'
  BY <1>1, Zenon
  DEF WindowInv, WindowsAreSafe, TypeOK, Stamped, vars, registry, files, windows, ctl
<1>2. ASSUME NEW r \in Reader, FreeBackend(r)
      PROVE  Stamped'
  BY <1>2, Zenon
  DEF WindowInv, WindowsAreSafe, TypeOK, Stamped, vars, registry, files, windows, ctl,
      FreeBackend
<1>3. ASSUME NEW r \in Reader, FileRegister(r)
      PROVE  Stamped'
  BY <1>3, Zenon
  DEF WindowInv, WindowsAreSafe, TypeOK, Stamped, vars, registry, files, windows, ctl,
      FileRegister
<1>4. ASSUME NEW r \in Reader, CheckPack(r)
      PROVE  Stamped'
  BY <1>4, Zenon
  DEF WindowInv, WindowsAreSafe, TypeOK, Stamped, vars, registry, files, windows, ctl,
      CheckPack
<1>5. ASSUME NEW r \in Reader, WindowClose(r)
      PROVE  Stamped'
  BY <1>5, Zenon
  DEF WindowInv, WindowsAreSafe, TypeOK, Stamped, vars, registry, files, windows, ctl,
      WindowClose
<1>6. ASSUME NEW r \in Reader, NEW f \in File, GetPack(r, f)
      PROVE  Stamped'
  BY <1>6, Zenon
  DEF WindowInv, WindowsAreSafe, TypeOK, Stamped, vars, registry, files, windows, ctl,
      GetPack
<1>7. ASSUME NEW r \in Reader, NEW f \in File, PutPack(r, f)
      PROVE  Stamped'
  BY <1>7
  DEF WindowInv, WindowsAreSafe, TypeOK, Stamped, vars, registry, files, windows, ctl,
      PutPack, PackfileFree, Remap
<1>8. ASSUME NEW r \in Reader, NEW f \in File, OpenFile(r, f)
      PROVE  Stamped'
  BY <1>8, Zenon
  DEF WindowInv, WindowsAreSafe, TypeOK, Stamped, vars, registry, files, windows, ctl,
      OpenFile
<1>9. ASSUME NEW r \in Reader, NEW f \in File, NEW o \in 0 .. Size[f], Ready(r, f, o),
             NEW w \in Suitable(f, o), Uses(r, w, o)
      PROVE  Stamped'
  <2>1. /\ w \in Window /\ file[w] # None /\ file' = file /\ used_ctr' = used_ctr + 1
        /\ last_used' = [last_used EXCEPT ![w] = used_ctr]
    BY <1>9, WindowAssumption, Zenon DEF Uses, UseWindow, Suitable
  <2> QED
    BY <2>1 DEF WindowInv, WindowsAreSafe, TypeOK, Stamped
<1>10. ASSUME NEW r \in Reader, NEW f \in File, NEW o \in 0 .. Size[f], Ready(r, f, o),
             NEW w \in Window, file[w] = None, NEW S \in SUBSET Idle(f),
             NEW ok \in BOOLEAN, Maps(r, w, f, o, S, ok)
      PROVE  Stamped'
  <2>1. \A v \in Window : (v # w \/ ~ok) /\ file'[v] # None =>
           file[v] # None /\ last_used'[v] = last_used[v]
    BY <1>10, Zenon DEF Maps, Remap
  <2>2. CASE ~ok
    <3>1. used_ctr' = used_ctr
      BY <1>10, <2>2, Zenon DEF Maps
    <3> QED
      BY <2>1, <2>2, <3>1, Zenon DEF WindowInv, Stamped
  <2>3. CASE ok
    <3>1. used_ctr' = used_ctr + 1 /\ last_used'[w] = used_ctr
      BY <1>10, <2>3, Zenon DEF Maps, Remap
    <3> QED
      BY <2>1, <2>3, <3>1 DEF WindowInv, WindowsAreSafe, TypeOK, Stamped
  <2> QED
    BY <2>2, <2>3, Zenon
<1> QED
  BY <1>1, <1>2, <1>3, <1>4, <1>5, <1>6, <1>7, <1>8, <1>9, <1>10, OpenCases DEF Next

(* Every step keeps packfile_open() to itself.                             *)
LEMMA OpeningStep ==
    ASSUME Damaged = {}, WindowInv, [Next]_vars
    PROVE  OpeningOK'
<1>1. ASSUME UNCHANGED vars
      PROVE  OpeningOK'
  BY <1>1, WindowAssumption, Zenon
  DEF WindowInv, WindowsAreSafe, TypeOK, OpeningOK, vars, registry, files, windows, ctl
<1>2. ASSUME NEW r \in Reader, FreeBackend(r)
      PROVE  OpeningOK'
  BY <1>2, WindowAssumption, Zenon
  DEF WindowInv, WindowsAreSafe, TypeOK, OpeningOK, vars, registry, files, windows, ctl,
      FreeBackend
<1>3. ASSUME NEW r \in Reader, FileRegister(r)
      PROVE  OpeningOK'
  BY <1>3, WindowAssumption
  DEF WindowInv, WindowsAreSafe, TypeOK, OpeningOK, vars, registry, files, windows, ctl,
      FileRegister
<1>4. ASSUME NEW r \in Reader, CheckPack(r)
      PROVE  OpeningOK'
  BY <1>4, WindowAssumption
  DEF WindowInv, WindowsAreSafe, TypeOK, OpeningOK, vars, registry, files, windows, ctl,
      CheckPack
<1>5. ASSUME NEW r \in Reader, WindowClose(r)
      PROVE  OpeningOK'
  BY <1>5, WindowAssumption, Zenon
  DEF WindowInv, WindowsAreSafe, TypeOK, OpeningOK, vars, registry, files, windows, ctl,
      WindowClose
<1>6. ASSUME NEW r \in Reader, NEW f \in File, GetPack(r, f)
      PROVE  OpeningOK'
  BY <1>6, WindowAssumption
  DEF WindowInv, WindowsAreSafe, TypeOK, OpeningOK, vars, registry, files, windows, ctl,
      GetPack
<1>7. ASSUME NEW r \in Reader, NEW f \in File, PutPack(r, f)
      PROVE  OpeningOK'
  <2>1. \A q \in Reader : q # r => holds'[q] = holds[q]
    BY <1>7, Zenon DEF PutPack, WindowInv, WindowsAreSafe, TypeOK
  <2>2. opening' = opening /\ cursor' = cursor /\ leaving' \subseteq leaving
    BY <1>7, Zenon DEF PutPack
  <2>3. opening[r] = None
    BY <1>7, Zenon DEF PutPack, WindowInv, OpeningOK, WindowsAreSafe, TypeOK
  <2>4. CASE fd' = fd
    BY <2>1, <2>2, <2>3, <2>4, Zenon DEF WindowInv, WindowsAreSafe, TypeOK, OpeningOK
  <2>5. CASE fd' # fd
    <3>1. refcount[f] = 1 /\ fd' = [fd EXCEPT ![f] = "none"]
      BY <2>5, <1>7, Zenon DEF PutPack, PackfileFree
    <3>2. fd[f] \in {"none", "checked"}
      BY <3>1, <1>7, LastHolder, Zenon
    <3> QED
      BY <2>1, <2>2, <2>3, <3>1, <3>2 DEF WindowInv, WindowsAreSafe, TypeOK, OpeningOK
  <2> QED
    BY <2>4, <2>5, Zenon
<1>8. ASSUME NEW r \in Reader, NEW f \in File, OpenFile(r, f)
      PROVE  OpeningOK'
  BY <1>8, WindowAssumption, SMTT(30)
  DEF WindowInv, WindowsAreSafe, TypeOK, OpeningOK, vars, registry, files, windows, ctl,
      OpenFile
<1>9. ASSUME NEW r \in Reader, NEW f \in File, NEW o \in 0 .. Size[f], Ready(r, f, o),
             NEW w \in Suitable(f, o), Uses(r, w, o)
      PROVE  OpeningOK'
  BY <1>9, WindowAssumption, SMTT(30)
  DEF WindowInv, WindowsAreSafe, TypeOK, OpeningOK, vars, registry, files, windows, ctl, Ready,
      Uses, UseWindow
<1>10. ASSUME NEW r \in Reader, NEW f \in File, NEW o \in 0 .. Size[f], Ready(r, f, o),
             NEW w \in Window, file[w] = None, NEW S \in SUBSET Idle(f),
             NEW ok \in BOOLEAN, Maps(r, w, f, o, S, ok)
      PROVE  OpeningOK'
  BY <1>10, WindowAssumption
  DEF WindowInv, WindowsAreSafe, TypeOK, OpeningOK, vars, registry, files, windows, ctl, Ready,
      Maps
<1> QED
  BY <1>1, <1>2, <1>3, <1>4, <1>5, <1>6, <1>7, <1>8, <1>9, <1>10, OpenCases, Zenon DEF Next

(* git_mwindow_get_pack() and git_mwindow_put_pack() keep the count of the  *)
(* backends that hold each pack.                                           *)
LEMMA HoldersStep ==
    ASSUME WindowInv, NEW r \in Reader, NEW f \in File, GetPack(r, f) \/ PutPack(r, f)
    PROVE  \A g \in File : refcount'[g] = Cardinality({q \in Reader : g \in holds'[q]})
<1> SUFFICES ASSUME NEW g \in File
             PROVE  refcount'[g] = Cardinality({q \in Reader : g \in holds'[q]})
  BY Zenon
<1> DEFINE H == {q \in Reader : g \in holds[q]}
<1>1. IsFiniteSet(H)
  BY FS_Subset, WindowAssumption, Zenon
<1>2. refcount[g] = Cardinality(H)
  BY Zenon DEF WindowInv, WindowsAreSafe, PacksAreCounted
<1>3. CASE g # f
  <2>1. {q \in Reader : g \in holds'[q]} = H
    BY <1>3 DEF GetPack, PutPack, WindowInv, WindowsAreSafe, TypeOK
  <2> QED
    BY <1>2, <1>3, <2>1, Zenon DEF GetPack, PutPack, WindowInv, WindowsAreSafe, TypeOK
<1>4. CASE g = f /\ GetPack(r, f)
  <2>1. {q \in Reader : g \in holds'[q]} = H \cup {r} /\ r \notin H
    BY <1>4 DEF GetPack, WindowInv, WindowsAreSafe, TypeOK
  <2>2. Cardinality(H \cup {r}) = Cardinality(H) + 1
    BY <1>1, <2>1, FS_AddElement, Zenon
  <2> QED
    BY <1>2, <1>4, <2>1, <2>2, Zenon DEF GetPack, WindowInv, WindowsAreSafe, TypeOK
<1>5. CASE g = f /\ PutPack(r, f)
  <2>1. {q \in Reader : g \in holds'[q]} = H \ {r} /\ r \in H
    BY <1>5, Zenon DEF PutPack, WindowInv, WindowsAreSafe, TypeOK
  <2>2. Cardinality(H \ {r}) = Cardinality(H) - 1
    BY <1>1, <2>1, FS_RemoveElement, Zenon
  <2> QED
    BY <1>2, <1>5, <2>1, <2>2, Zenon DEF PutPack, WindowInv, WindowsAreSafe, TypeOK
<1> QED
  BY <1>3, <1>4, <1>5, Zenon

(* PacksAreCounted without the number of the backends that hold a pack      *)
OpenPacks ==
    /\ \A f \in File :
        /\ fd[f] # "none" => refcount[f] > 0
        /\ listed[f] = IF fd[f] \in {"registered", "checked"} THEN 1 ELSE 0
    /\ \A w \in Window : file[w] # None => fd[file[w]] # "none"

(* Every step keeps what is open with its pack, and listed once.           *)
LEMMA OpenPacksStep ==
    ASSUME Damaged = {}, WindowInv, [Next]_vars
    PROVE  OpenPacks'
<1>0. OpenPacks
  BY Zenon DEF WindowInv, WindowsAreSafe, PacksAreCounted, OpenPacks
<1>1. ASSUME UNCHANGED vars
      PROVE  OpenPacks'
  BY <1>0, <1>1, WindowAssumption, Zenon
  DEF WindowInv, WindowsAreSafe, TypeOK, OpenPacks, OpeningOK, vars, registry, files, windows,
      ctl
<1>2. ASSUME NEW r \in Reader, FreeBackend(r)
      PROVE  OpenPacks'
  BY <1>0, <1>2, WindowAssumption, ZenonT(40)
  DEF WindowInv, WindowsAreSafe, TypeOK, OpenPacks, OpeningOK, vars, registry, files, windows,
      ctl, FreeBackend
<1>3. ASSUME NEW r \in Reader, FileRegister(r)
      PROVE  OpenPacks'
  BY <1>0, <1>3, WindowAssumption, SMTT(30)
  DEF WindowInv, WindowsAreSafe, TypeOK, OpenPacks, OpeningOK, vars, registry, files, windows,
      ctl, FileRegister
<1>4. ASSUME NEW r \in Reader, CheckPack(r)
      PROVE  OpenPacks'
  BY <1>0, <1>4, WindowAssumption
  DEF WindowInv, WindowsAreSafe, TypeOK, OpenPacks, OpeningOK, vars, registry, files, windows,
      ctl, CheckPack
<1>5. ASSUME NEW r \in Reader, WindowClose(r)
      PROVE  OpenPacks'
  BY <1>0, <1>5, WindowAssumption, Zenon
  DEF WindowInv, WindowsAreSafe, TypeOK, OpenPacks, OpeningOK, vars, registry, files, windows,
      ctl, WindowClose
<1>6. ASSUME NEW r \in Reader, NEW f \in File, GetPack(r, f)
      PROVE  OpenPacks'
  BY <1>0, <1>6, WindowAssumption
  DEF WindowInv, WindowsAreSafe, TypeOK, OpenPacks, OpeningOK, vars, registry, files, windows,
      ctl, GetPack
<1>7. ASSUME NEW r \in Reader, NEW f \in File, PutPack(r, f)
      PROVE  OpenPacks'
  <2>1. refcount[f] = 1 => fd[f] \in {"none", "checked"}
    BY <1>7, LastHolder, Zenon
  <2>2. refcount[f] \in Nat /\ refcount[f] # 0
    <3>1. r \in {q \in Reader : f \in holds[q]}
      BY <1>7, Zenon DEF PutPack
    <3>2. IsFiniteSet({q \in Reader : f \in holds[q]})
      BY FS_Subset, WindowAssumption, Zenon
    <3>3. Cardinality({q \in Reader : f \in holds[q]}) # 0
      BY <3>1, <3>2, FS_EmptySet, Zenon
    <3> QED
      BY <3>3, Zenon DEF WindowInv, WindowsAreSafe, TypeOK, PacksAreCounted
  <2>3. \A g \in File : /\ fd'[g] # "none" => refcount'[g] > 0
                       /\ listed'[g] = IF fd'[g] \in {"registered", "checked"} THEN 1 ELSE 0
    <3>1. CASE refcount[f] = 1 /\ fd[f] = "checked"
      <4>1. /\ fd' = [fd EXCEPT ![f] = "none"]
            /\ listed' = [listed EXCEPT ![f] = IF @ > 0 THEN @ - 1 ELSE 0]
            /\ refcount' = [refcount EXCEPT ![f] = @ - 1]
        BY <3>1, <1>7, Zenon DEF PutPack, PackfileFree
      <4> QED
        BY <1>0, <3>1, <4>1 DEF WindowInv, WindowsAreSafe, TypeOK, OpenPacks
    <3>2. CASE ~(refcount[f] = 1 /\ fd[f] = "checked")
      <4>1. /\ UNCHANGED <<fd, listed>>
            /\ refcount' = [refcount EXCEPT ![f] = @ - 1]
        BY <2>1, <3>2, <1>7, ZenonT(40) DEF PutPack, PackfileFree
      <4> QED
        BY <1>0, <2>1, <2>2, <3>2, <4>1 DEF WindowInv, WindowsAreSafe, TypeOK, OpenPacks
    <3> QED
      BY <3>1, <3>2, Zenon
  <2>4. \A w \in Window : file'[w] # None => fd'[file'[w]] # "none"
    BY <1>0, <2>1, <1>7
    DEF WindowInv, WindowsAreSafe, TypeOK, OpenPacks, PutPack, PackfileFree, Remap, windows
  <2> QED
    BY <2>3, <2>4, Zenon DEF OpenPacks
<1>8. ASSUME NEW r \in Reader, NEW f \in File, OpenFile(r, f)
      PROVE  OpenPacks'
  <2>1. refcount[f] > 0
    <3>1. r \in {q \in Reader : f \in holds[q]}
      BY <1>8, Zenon DEF OpenFile
    <3>2. IsFiniteSet({q \in Reader : f \in holds[q]})
      BY FS_Subset, WindowAssumption, Zenon
    <3>3. Cardinality({q \in Reader : f \in holds[q]}) # 0
      BY <3>1, <3>2, FS_EmptySet, Zenon
    <3> QED
      BY <3>3 DEF WindowInv, WindowsAreSafe, TypeOK, PacksAreCounted
  <2> QED
    BY <1>0, <2>1, <1>8, Zenon
    DEF WindowInv, WindowsAreSafe, TypeOK, OpenPacks, OpenFile, vars, registry, files, windows,
        ctl
<1>9. ASSUME NEW r \in Reader, NEW f \in File, NEW o \in 0 .. Size[f], Ready(r, f, o),
             NEW w \in Suitable(f, o), Uses(r, w, o)
      PROVE  OpenPacks'
  BY <1>0, <1>9, WindowAssumption, Zenon
  DEF WindowInv, WindowsAreSafe, TypeOK, OpenPacks, OpeningOK, vars, registry, files, windows,
      ctl, Uses, UseWindow
<1>10. ASSUME NEW r \in Reader, NEW f \in File, NEW o \in 0 .. Size[f], Ready(r, f, o),
             NEW w \in Window, file[w] = None, NEW S \in SUBSET Idle(f),
             NEW ok \in BOOLEAN, Maps(r, w, f, o, S, ok)
      PROVE  OpenPacks'
  BY <1>0, <1>10, WindowAssumption, Zenon
  DEF WindowInv, WindowsAreSafe, TypeOK, OpenPacks, OpeningOK, vars, registry, files, windows,
      ctl, Ready, Maps, Remap
<1> QED
  BY <1>1, <1>2, <1>3, <1>4, <1>5, <1>6, <1>7, <1>8, <1>9, <1>10, OpenCases, SMTT(30) DEF Next

(* Every step keeps the counts of packs.                                   *)
LEMMA PacksStep ==
    ASSUME Damaged = {}, WindowInv, [Next]_vars
    PROVE  PacksAreCounted'
<1>0. OpenPacks'
  BY OpenPacksStep, Zenon
<1>1. ASSUME UNCHANGED vars
      PROVE  PacksAreCounted'
  BY <1>0, <1>1, Zenon
  DEF WindowInv, WindowsAreSafe, PacksAreCounted, vars, registry, files, windows, ctl
<1>2. ASSUME NEW r \in Reader, FreeBackend(r)
      PROVE  PacksAreCounted'
  BY <1>0, <1>2, ZenonT(40)
  DEF WindowInv, WindowsAreSafe, PacksAreCounted, vars, registry, files, windows, ctl,
      OpenPacks, FreeBackend
<1>3. ASSUME NEW r \in Reader, FileRegister(r)
      PROVE  PacksAreCounted'
  <2>1. refcount' = refcount /\ holds' = holds
    BY <1>3, Zenon DEF FileRegister, registry
  <2> QED
    BY <1>0, <2>1, Zenon DEF WindowInv, WindowsAreSafe, PacksAreCounted, OpenPacks
<1>4. ASSUME NEW r \in Reader, CheckPack(r)
      PROVE  PacksAreCounted'
  <2>1. refcount' = refcount /\ holds' = holds
    BY <1>4, Zenon DEF CheckPack, registry
  <2> QED
    BY <1>0, <2>1, Zenon DEF WindowInv, WindowsAreSafe, PacksAreCounted, OpenPacks
<1>5. ASSUME NEW r \in Reader, WindowClose(r)
      PROVE  PacksAreCounted'
  BY <1>0, <1>5
  DEF WindowInv, WindowsAreSafe, PacksAreCounted, vars, registry, files, windows, ctl,
      OpenPacks, WindowClose
<1>6. ASSUME NEW r \in Reader, NEW f \in File, GetPack(r, f)
      PROVE  PacksAreCounted'
  BY <1>0, <1>6, HoldersStep, Zenon DEF PacksAreCounted, OpenPacks
<1>7. ASSUME NEW r \in Reader, NEW f \in File, PutPack(r, f)
      PROVE  PacksAreCounted'
  BY <1>0, <1>7, HoldersStep, Zenon DEF PacksAreCounted, OpenPacks
<1>8. ASSUME NEW r \in Reader, NEW f \in File, OpenFile(r, f)
      PROVE  PacksAreCounted'
  BY <1>0, <1>8, SMTT(30)
  DEF WindowInv, WindowsAreSafe, PacksAreCounted, vars, registry, files, windows, ctl,
      OpenPacks, OpenFile
<1>9. ASSUME NEW r \in Reader, NEW f \in File, NEW o \in 0 .. Size[f], Ready(r, f, o),
             NEW w \in Suitable(f, o), Uses(r, w, o)
      PROVE  PacksAreCounted'
  BY <1>0, <1>9
  DEF WindowInv, WindowsAreSafe, PacksAreCounted, vars, registry, files, windows, ctl,
      OpenPacks, Uses, UseWindow
<1>10. ASSUME NEW r \in Reader, NEW f \in File, NEW o \in 0 .. Size[f], Ready(r, f, o),
             NEW w \in Window, file[w] = None, NEW S \in SUBSET Idle(f),
             NEW ok \in BOOLEAN, Maps(r, w, f, o, S, ok)
      PROVE  PacksAreCounted'
  BY <1>0, <1>10, Zenon
  DEF WindowInv, WindowsAreSafe, PacksAreCounted, vars, registry, files, windows, ctl,
      OpenPacks, Maps
<1> QED
  BY <1>1, <1>2, <1>3, <1>4, <1>5, <1>6, <1>7, <1>8, <1>9, <1>10, OpenCases, SMTT(30) DEF Next

(* The windows of S closed, the bytes of the others are what remains.       *)
LEMMA ClosedBytes ==
    ASSUME WindowInv, NEW S \in SUBSET Window, \A w \in S : file[w] # None,
           NEW L, \A w \in Window : file[w] # None /\ w \notin S => L[w] = Lens[w]
    PROVE  /\ mapped - Bytes(S) \in Nat /\ Bytes(S) \in Nat
           /\ mapped - Bytes(S) =
                lost + Cardinality(MemoryOf(L, {w \in Window : file[w] # None} \ S))
<1> DEFINE In == {w \in Window : file[w] # None}
           rest == In \ S
<1>1. In \in SUBSET Window /\ S \in SUBSET In /\ IsFiniteSet(In)
  BY FS_Subset, WindowAssumption, Zenon
<1>2. IsFiniteSet(S) /\ IsFiniteSet(rest)
  BY <1>1, FS_Subset, Zenon
<1>3. Cardinality(MemoryOf(Lens, In)) =
        Cardinality(MemoryOf(Lens, S)) + Cardinality(MemoryOf(Lens, rest))
  BY <1>1, MemoryParts
<1>4. MemoryOf(L, rest) = MemoryOf(Lens, rest)
  BY Zenon DEF MemoryOf
<1>5. mapped = lost + Cardinality(MemoryOf(Lens, In))
  BY <1>1, BytesAre, Zenon DEF WindowInv, WindowsAreSafe, MappedIsAccounted
<1>6. Bytes(S) = Cardinality(MemoryOf(Lens, S))
  BY BytesAre, Zenon
<1>7. /\ Cardinality(MemoryOf(Lens, S)) \in Nat
      /\ Cardinality(MemoryOf(Lens, rest)) \in Nat
  BY <1>2, MemoryFinite, Zenon
<1> HIDE DEF In, rest
<1>8. /\ mapped - Bytes(S) \in Nat /\ Bytes(S) \in Nat
      /\ mapped - Bytes(S) = lost + Cardinality(MemoryOf(L, rest))
  BY <1>3, <1>4, <1>5, <1>6, <1>7, SMTT(30) DEF WindowInv, WindowsAreSafe, TypeOK
<1> QED
  BY <1>8, Zenon DEF In, rest

(* Every step keeps the account of the bytes.                              *)
LEMMA MappedStep ==
    ASSUME Damaged = {}, WindowInv, [Next]_vars
    PROVE  mapped' \in Nat /\ MappedIsAccounted'
<1>1. ASSUME UNCHANGED vars
      PROVE  mapped' \in Nat /\ MappedIsAccounted'
  BY <1>1, Zenon
  DEF WindowInv, WindowsAreSafe, TypeOK, MappedIsAccounted, Bytes, Memory, len, vars, registry,
      files, windows, ctl
<1>2. ASSUME NEW r \in Reader, FreeBackend(r)
      PROVE  mapped' \in Nat /\ MappedIsAccounted'
  BY <1>2, Zenon
  DEF WindowInv, WindowsAreSafe, TypeOK, MappedIsAccounted, Bytes, Memory, len, vars, registry,
      files, windows, ctl, FreeBackend
<1>3. ASSUME NEW r \in Reader, FileRegister(r)
      PROVE  mapped' \in Nat /\ MappedIsAccounted'
  BY <1>3, Zenon
  DEF WindowInv, WindowsAreSafe, TypeOK, MappedIsAccounted, Bytes, Memory, len, vars, registry,
      files, windows, ctl, FileRegister
<1>4. ASSUME NEW r \in Reader, CheckPack(r)
      PROVE  mapped' \in Nat /\ MappedIsAccounted'
  BY <1>4, Zenon
  DEF WindowInv, WindowsAreSafe, TypeOK, MappedIsAccounted, Bytes, Memory, len, vars, registry,
      files, windows, ctl, CheckPack
<1>5. ASSUME NEW r \in Reader, WindowClose(r)
      PROVE  mapped' \in Nat /\ MappedIsAccounted'
  BY <1>5, Zenon
  DEF WindowInv, WindowsAreSafe, TypeOK, MappedIsAccounted, Bytes, Memory, len, vars, registry,
      files, windows, ctl, WindowClose
<1>6. ASSUME NEW r \in Reader, NEW f \in File, GetPack(r, f)
      PROVE  mapped' \in Nat /\ MappedIsAccounted'
  BY <1>6, Zenon
  DEF WindowInv, WindowsAreSafe, TypeOK, MappedIsAccounted, Bytes, Memory, len, vars, registry,
      files, windows, ctl, GetPack
<1>7. ASSUME NEW r \in Reader, NEW f \in File, PutPack(r, f)
      PROVE  mapped' \in Nat /\ MappedIsAccounted'
  <2>1. CASE refcount[f] = 1 /\ fd[f] # "none"
    <3> DEFINE own == {w \in Window : file[w] = f}
    <3>1. Remap(own, FALSE, 0, None, 0) /\ mapped' = mapped - Bytes(own) /\ lost' = lost
      BY <2>1, <1>7, Zenon DEF PutPack, PackfileFree
    <3>2. \A w \in own : file[w] # None
      BY WindowAssumption, Zenon
    <3>3. \A w \in Window : file[w] # None /\ w \notin own => Lens'[w] = Lens[w]
      BY <3>1, Zenon DEF Remap, Lens, len
    <3>4. {w \in Window : file'[w] # None} = {w \in Window : file[w] # None} \ own
      BY <3>1, Zenon DEF Remap
    <3>5. /\ mapped - Bytes(own) \in Nat
          /\ mapped - Bytes(own) =
               lost + Cardinality(MemoryOf(Lens', {w \in Window : file[w] # None} \ own))
      BY <3>2, <3>3, ClosedBytes, Zenon
    <3>6. Bytes({w \in Window : file[w] # None})' =
            Cardinality(MemoryOf(Lens', {w \in Window : file'[w] # None}))
      BY BytesAre, Zenon
    <3> QED
      BY <3>1, <3>4, <3>5, <3>6, Zenon DEF MappedIsAccounted
  <2>2. CASE ~(refcount[f] = 1 /\ fd[f] # "none")
    <3>1. UNCHANGED <<windows, mapped, lost>>
      BY <2>2, <1>7, Zenon DEF PutPack, PackfileFree
    <3> QED
      BY <3>1, Zenon
      DEF windows, WindowInv, WindowsAreSafe, TypeOK, MappedIsAccounted, Bytes, Memory, len
  <2> QED
    BY <2>1, <2>2, Zenon
<1>8. ASSUME NEW r \in Reader, NEW f \in File, OpenFile(r, f)
      PROVE  mapped' \in Nat /\ MappedIsAccounted'
  BY <1>8, Zenon
  DEF WindowInv, WindowsAreSafe, TypeOK, MappedIsAccounted, Bytes, Memory, len, vars, registry,
      files, windows, ctl, OpenFile
<1>9. ASSUME NEW r \in Reader, NEW f \in File, NEW o \in 0 .. Size[f], Ready(r, f, o),
             NEW w \in Suitable(f, o), Uses(r, w, o)
      PROVE  mapped' \in Nat /\ MappedIsAccounted'
  BY <1>9, Zenon
  DEF WindowInv, WindowsAreSafe, TypeOK, MappedIsAccounted, Bytes, Memory, len, vars, registry,
      files, windows, ctl, Uses, UseWindow
<1>10. ASSUME NEW r \in Reader, NEW f \in File, NEW o \in 0 .. Size[f], Ready(r, f, o),
             NEW w \in Window, file[w] = None, NEW S \in SUBSET Idle(f),
             NEW ok \in BOOLEAN, Maps(r, w, f, o, S, ok)
      PROVE  mapped' \in Nat /\ MappedIsAccounted'
  <2> DEFINE n == MapLength(f, Start(o))
  <2>1. Start(o) \in Nat /\ Start(o) <= Size[f]
    BY StartIs, WindowAssumption
  <2>2. n \in 0 .. WindowSize /\ n \in Nat
    BY <2>1, MapLengthIs, WindowAssumption
  <2>3. S \in SUBSET Window /\ w \notin S /\ \A v \in S : file[v] # None
    BY <1>10, Zenon DEF Idle, Scanned
  <2>4. /\ Remap(S, ok, w, f, Start(o)) /\ mapped' = mapped + n - Bytes(S)
        /\ lost' = IF ok THEN lost ELSE lost + n
    BY <1>10, Zenon DEF Maps
  <2>5. \A v \in Window : file[v] # None /\ v \notin S => Lens'[v] = Lens[v]
    BY <2>4, <1>10, Zenon DEF Remap, Lens, len
  <2>6. /\ mapped - Bytes(S) \in Nat /\ Bytes(S) \in Nat
        /\ mapped - Bytes(S) =
             lost + Cardinality(MemoryOf(Lens', {v \in Window : file[v] # None} \ S))
    BY <2>3, <2>5, ClosedBytes, Zenon
  <2>7. Bytes({v \in Window : file[v] # None})' =
          Cardinality(MemoryOf(Lens', {v \in Window : file'[v] # None}))
    BY BytesAre, Zenon
  <2>8. PICK k \in Nat :
          k = Cardinality(MemoryOf(Lens', {v \in Window : file[v] # None} \ S))
    <3>1. IsFiniteSet({v \in Window : file[v] # None} \ S)
      BY FS_Subset, WindowAssumption, Zenon
    <3> QED
      BY <3>1, MemoryFinite, Zenon
  <2>9. lost \in Nat /\ mapped \in Nat /\ mapped - Bytes(S) = lost + k
    BY <2>6, <2>8, Zenon DEF WindowInv, WindowsAreSafe, TypeOK
  <2>10. CASE ~ok
    <3>1. {v \in Window : file'[v] # None} = {v \in Window : file[v] # None} \ S
      BY <2>4, <2>10, Zenon DEF Remap
    <3>2. Bytes({v \in Window : file[v] # None})' = k
      BY <2>7, <2>8, <3>1, ZenonT(40)
    <3> HIDE DEF n
    <3> QED
      BY <2>2, <2>4, <2>6, <2>10, <2>9, <3>2, SMTT(30) DEF MappedIsAccounted
  <2>11. CASE ok
    <3> DEFINE In == {v \in Window : file'[v] # None}
               rest == {v \in Window : file[v] # None} \ S
    <3>1. w \in In /\ In \ {w} = rest
      BY <2>3, <2>4, <2>11, <1>10, WindowAssumption DEF Remap
    <3>2. IsFiniteSet(In) /\ {w} \in SUBSET In /\ IsFiniteSet(rest)
      BY <3>1, FS_Subset, WindowAssumption, Zenon
    <3>3. Lens'[w] = n
      BY <2>4, <2>11, Zenon DEF Remap, Lens, len
    <3>4. Cardinality(MemoryOf(Lens', {w})) = n
      BY <2>2, <3>3, MemoryOne, Zenon
    <3>5. Cardinality(MemoryOf(Lens', In)) =
            Cardinality(MemoryOf(Lens', {w})) + Cardinality(MemoryOf(Lens', In \ {w}))
      BY <3>2, MemoryParts
    <3>6. Cardinality(MemoryOf(Lens', In)) = n + k
      BY <2>8, <3>1, <3>4, <3>5, Zenon
    <3> HIDE DEF n
    <3>7. Bytes({v \in Window : file[v] # None})' = n + k
      BY <2>7, <3>6, Zenon
    <3> QED
      BY <2>2, <2>4, <2>6, <2>11, <2>9, <3>7, SMTT(30) DEF MappedIsAccounted
  <2> QED
    BY <2>10, <2>11, Zenon
<1> QED
  BY <1>1, <1>2, <1>3, <1>4, <1>5, <1>6, <1>7, <1>8, <1>9, <1>10, OpenCases, SMTT(30) DEF Next

-----------------------------------------------------------------------------
(* A process that has opened no pack satisfies the invariant.              *)
LEMMA WindowInit == Init => WindowInv
<1> SUFFICES ASSUME Init PROVE WindowInv
  BY Zenon
<1>1. TypeOK
  BY Zenon DEF Init, TypeOK
<1>2. UsedWindowsStay /\ PacksAreCounted
  <2>1. \A w \in Window : Users(w) = {}
    BY Zenon DEF Init, Users
  <2>2. \A f \in File : {r \in Reader : f \in holds[r]} = {}
    BY Zenon DEF Init
  <2> QED
    BY <2>1, <2>2, FS_EmptySet, Zenon DEF Init, UsedWindowsStay, PacksAreCounted
<1>3. CoversRequest /\ OpeningOK /\ WindowsFit /\ Stamped
  BY Zenon DEF Init, CoversRequest, OpeningOK, WindowsFit, Stamped
<1>4. MappedIsAccounted
  <2>1. {w \in Window : file[w] # None} = {} /\ Memory({}) = {}
    BY Zenon DEF Init, Memory
  <2> QED
    BY <2>1, FS_EmptySet DEF Init, MappedIsAccounted, Bytes
<1> QED
  BY <1>1, <1>2, <1>3, <1>4, Zenon DEF WindowInv, WindowsAreSafe

(* Every step keeps the invariant.                                         *)
LEMMA WindowStep ==
    ASSUME Damaged = {}, WindowInv, [Next]_vars
    PROVE  WindowInv'
<1>1. TypeOK'
  BY TypeStep, MappedStep, Zenon DEF TypeOK, Typed
<1> QED
  BY <1>1, UsedStep, CoversStep, PacksStep, MappedStep, OpeningStep, FitStep, StampStep, Zenon
  DEF WindowInv, WindowsAreSafe

(* git_mwindow_open() gives memory that covers what was asked for and stays *)
(* mapped until git_mwindow_close(), of a pack that stays open, however many *)
(* threads read, map, evict and free packs meanwhile; the counts of cursors, *)
(* of backends and of bytes are exact.  No pack is damaged: the windows of   *)
(* one that packfile_open() gives up after registering it stay listed.       *)
THEOREM ReadersAreSafe ==
    ASSUME Damaged = {}
    PROVE  Spec => []WindowsAreSafe
<1>1. WindowInv => WindowsAreSafe
  BY Zenon DEF WindowInv
<1>2. WindowInv /\ [Next]_vars => WindowInv'
  BY WindowStep, Zenon
<1> QED
  BY <1>1, <1>2, WindowInit, PTL DEF Spec

-----------------------------------------------------------------------------
(* Only new_window() maps a window.                                        *)
LEMMA OnlyOpenMaps ==
    ASSUME WindowInv, Next, NEW w \in Window, file[w] = None, file'[w] # None
    PROVE  \E r \in Reader, f \in File : \E o \in 0 .. Size[f] :
              NewWindow(r, w, f, o) /\ file'[w] = f
<1>1. PICK r \in Reader :
         \/ FreeBackend(r) \/ FileRegister(r) \/ CheckPack(r) \/ WindowClose(r)
         \/ \E f \in File :
               \/ GetPack(r, f) \/ PutPack(r, f) \/ OpenFile(r, f)
               \/ \E o \in 0 .. Size[f] : WindowOpen(r, f, o)
  BY Zenon DEF Next
<1>2. ~FreeBackend(r) /\ ~FileRegister(r) /\ ~CheckPack(r) /\ ~WindowClose(r)
  BY Zenon DEF FreeBackend, FileRegister, CheckPack, WindowClose, windows
<1>3. PICK f \in File :
         \/ GetPack(r, f) \/ PutPack(r, f) \/ OpenFile(r, f)
         \/ \E o \in 0 .. Size[f] : WindowOpen(r, f, o)
  BY <1>1, <1>2, ZenonT(40)
<1>4. ~GetPack(r, f) /\ ~PutPack(r, f) /\ ~OpenFile(r, f)
  BY DEF GetPack, PutPack, OpenFile, PackfileFree, Remap, windows
<1>5. PICK o \in 0 .. Size[f] : WindowOpen(r, f, o)
  BY <1>3, <1>4, Zenon
<1>6. \A v \in Window : ~UseWindow(r, v, o)
  BY Zenon DEF UseWindow
<1>7. PICK v \in Window : file[v] = None /\ NewWindow(r, v, f, o)
  BY <1>5, <1>6, ZenonT(40) DEF WindowOpen, Suitable
<1>8. v = w /\ file'[w] = f
  BY <1>7 DEF NewWindow, Remap
<1> QED
  BY <1>7, <1>8, Zenon

(* A step that maps a window evicts the least recently used.               *)
LEMMA EvictStep ==
    ASSUME WindowInv, Next
    PROVE  LeastRecentGo
<1> SUFFICES ASSUME NEW w \in Window, file[w] = None, file'[w] # None
             PROVE  LET idle == Idle(file'[w])
                        kept == {v \in idle : file'[v] # None}
                    IN  /\ \A u \in idle \ kept, v \in kept : last_used[u] < last_used[v]
                        /\ mapped' <= MappedLimit \/ kept = {}
  BY Zenon DEF LeastRecentGo
<1>1. PICK r \in Reader, f \in File : \E o \in 0 .. Size[f] :
         NewWindow(r, w, f, o) /\ file'[w] = f
  BY OnlyOpenMaps, Zenon
<1>2. PICK o \in 0 .. Size[f] : NewWindow(r, w, f, o) /\ file'[w] = f
  BY <1>1, Zenon
<1> DEFINE n == MapLength(f, Start(o))
           idle == Idle(f)
           total == mapped + n
<1>3. PICK closed \in {CloseLru(Scanned(f), total), idle}, ok \in BOOLEAN :
         Remap(closed, ok, w, f, Start(o)) /\ mapped' = mapped + n - Bytes(closed)
  <2> HIDE DEF n
  <2>1. n = MapLength(f, Start(o))
    BY Zenon DEF n
  <2> QED
    BY <1>2, <2>1, ZenonT(40) DEF NewWindow, Start
<1>4. total \in Nat /\ last_used \in [Window -> Nat] /\ idle \in SUBSET Window
  <2>1. Start(o) \in Nat /\ Start(o) <= Size[f]
    BY StartIs, WindowAssumption, SMTT(30)
  <2>2. n \in Nat
    BY <2>1, MapLengthIs, WindowAssumption
  <2> HIDE DEF n
  <2> QED
    BY <2>2, SMTT(30) DEF WindowInv, WindowsAreSafe, TypeOK, Idle, Scanned
<1>5. closed \in SUBSET idle
  BY CloseLruOf, Zenon
<1>6. mapped' = total - Bytes(closed)
  <2>1. mapped \in Nat /\ n \in Nat
    <3>1. Start(o) \in Nat /\ Start(o) <= Size[f]
      BY StartIs, WindowAssumption
    <3> QED
      BY <3>1, MapLengthIs, WindowAssumption DEF WindowInv, WindowsAreSafe, TypeOK
  <2>2. Bytes(closed) \in Nat
    BY <1>4, <1>5, BytesGrow, Zenon
  <2> HIDE DEF n
  <2> QED
    BY <1>3, <2>1, <2>2, SMTT(30)
<1>7. w \notin idle /\ \A v \in idle : file[v] # None
  BY Zenon DEF Idle, Scanned
<1>8. {v \in idle : file'[v] # None} = idle \ closed
  BY <1>3, <1>4, <1>5, <1>7, Zenon DEF Remap
<1>9. /\ \A u \in closed, v \in idle \ closed : last_used[u] < last_used[v]
      /\ total - Bytes(closed) <= MappedLimit \/ idle \ closed = {}
  <2> HIDE DEF total, idle
  <2>1. CASE closed = idle
    BY <2>1, Zenon
  <2>2. CASE closed = CloseLru(Scanned(f), total)
    BY <2>2, CloseLruOf, Zenon DEF total, idle
  <2> QED
    BY <2>1, <2>2, Zenon
<1>10. idle \ (idle \ closed) = closed
  BY <1>5, Zenon
<1> HIDE DEF total
<1> QED
  BY <1>2, <1>8, <1>9, <1>10, <1>6, Zenon

(* When git_mwindow_open() maps a window, the windows it closes are those    *)
(* used least recently of all that nobody uses, whatever files they are of,  *)
(* and it stops closing only within the limit or when there are no more.     *)
THEOREM EvictionsAreLeastRecent ==
    ASSUME Damaged = {}
    PROVE  Spec => EvictsLeastRecent
<1>1. WindowInv /\ [Next]_vars => WindowInv'
  BY WindowStep, Zenon
<1>2. WindowInv /\ [Next]_vars => [LeastRecentGo]_vars
  BY EvictStep, Zenon
<1> QED
  BY <1>1, <1>2, WindowInit, PTL DEF Spec, EvictsLeastRecent

=============================================================================

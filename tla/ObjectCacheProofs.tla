------------------------- MODULE ObjectCacheProofs --------------------------
(***************************************************************************)
(* For any number of threads, caches and objects: reference counts are     *)
(* exact, and nothing that is still pointed to is ever freed.              *)
(*                                                                         *)
(* That reference counts are exact is not inductive alone.  The argument   *)
(* needs to know which references a thread has at each point of its call   *)
(* (Hands), that the rwlock keeps an entry in the map while a reader that  *)
(* has found it has not counted it yet (Locked, Peeked), that an entry is  *)
(* filed under the id of its object (Filed), and which objects keep others *)
(* (Kept).                                                                 *)
(***************************************************************************)
EXTENDS ObjectCache, FiniteSetTheorems, TLAPS

(* The rwlocks: who holds them is at a place where it does.                 *)
Locked ==
    /\ \A c \in Cache, t \in Thread : wr[c] = t <=> pc[t] \in Writing /\ C(t) = c
    /\ \A c \in Cache, t \in Thread : t \in rd[c] <=> pc[t] \in Reading /\ C(t) = c
    /\ \A c \in Cache : wr[c] # Nil => rd[c] = {}

(* An entry is filed under the id of its object, and its key is its own.    *)
Filed ==
    \A c \in Cache, o \in Oid :
        /\ key[c][o] = val[c][o]
        /\ val[c][o] # Nil => val[c][o].oid = o

(* What cache_get() has found stays in the map until it is counted.         *)
Peeked ==
    \A t \in Thread : peek[t] # Nil =>
        pc[t] \in Reading /\ val[C(t)][O(t)] = peek[t]

Empty == {"idle", "get_any", "get_raw", "any_ref", "raw_ref", "backend"}
Storing == {"check", "should_store", "store_lock", "clear_lock"} \cup Writing

(* Which references a thread has, by where it is.                           *)
Hand(t) ==
    /\ odb_obj[t] # Nil => odb_obj[t].oid = O(t) /\ odb_obj[t].flags = "RAW"
    /\ object[t] # Nil => object[t].oid = O(t) /\ object[t].flags = "PARSED"
    /\ call[t].do = "clear" => pc[t] \in {"clear_lock", "clear", "cleared"}
    /\ call[t].do = "none" => pc[t] = "idle"
    /\ pc[t] \in Empty \/ call[t].do = "clear" => odb_obj[t] = Nil /\ object[t] = Nil
    /\ pc[t] \in Storing /\ call[t].do # "clear" => odb_obj[t] # Nil
    /\ pc[t] \in {"parse", "drop"} => odb_obj[t] # Nil
    /\ pc[t] = "parse" => object[t] = Nil /\ call[t].do = "lookup"
    /\ object[t] # Nil => call[t].do = "lookup"
    /\ pc[t] \in {"get_any", "any_ref"} => call[t].do = "lookup"
    /\ pc[t] = "raw_ref" /\ peek[t] # Nil => peek[t].flags = "RAW"
    /\ pc[t] = "have" /\ call[t].do = "lookup" => object[t] # Nil /\ odb_obj[t] = Nil
    /\ pc[t] = "have" /\ call[t].do = "read" => object[t] = Nil /\ odb_obj[t] # Nil

Hands == \A t \in Thread : Hand(t)

(* Only live parsed objects keep another, and only raw ones are kept.       *)
Kept ==
    \A p \in Object : inner[p] # Nil =>
        ref[p] > 0 /\ p.flags = "PARSED" /\ inner[p].flags = "RAW"

IInv == TypeOK /\ Locked /\ Filed /\ Peeked /\ Hands /\ Kept /\ RefCounts

-----------------------------------------------------------------------------

(* A thread outside of a call is well typed.                               *)
LEMMA NoCallIsACall == NoCall \in Calls /\ NoCall.do = "none"
<1>1. PICK c \in Cache, o \in Oid : TRUE
  BY CacheAssumption, Zenon
<1>2. [do |-> "none", c |-> c, o |-> o] \in Calls
  BY <1>1, Zenon DEF Calls
<1>3. \E k \in Calls : k.do = "none"
  BY <1>2, Zenon
<1> QED
  BY <1>3, Zenon DEF NoCall

(* The block that malloc() returns is one of the free ones.                 *)
LEMMA MallocIsFree ==
  ASSUME NEW o \in Oid, NEW form \in Forms, Blocks(o, form) # {}
  PROVE  /\ Malloc(o, form) \in Object
         /\ Malloc(o, form).oid = o /\ Malloc(o, form).flags = form
         /\ ref[Malloc(o, form)] = 0
<1>1. Malloc(o, form) \in Blocks(o, form)
  BY Zenon DEF Malloc
<1> QED
  BY <1>1, Zenon DEF Blocks

(* What the fields of a call and of a pointer are.                          *)
LEMMA Fields ==
  ASSUME TypeOK, NEW t \in Thread
  PROVE  /\ C(t) \in Cache /\ O(t) \in Oid
         /\ call[t].do \in {"none", "lookup", "read", "clear"}
         /\ Entry(t) \in Pointer
         /\ \A p \in Object : p.oid \in Oid /\ p.flags \in Forms
<1> QED
  BY Zenon DEF TypeOK, C, O, Entry, Calls, Object, Pointer

(* Who parses, stores or drops has a raw object in hand.                    *)
LEMMA RawInHand ==
  ASSUME TypeOK, Hands, NEW t \in Thread, pc[t] \in {"parse", "drop", "put"}
  PROVE  /\ odb_obj[t] # Nil /\ odb_obj[t] \in Object
         /\ odb_obj[t].oid \in Oid /\ odb_obj[t].flags = "RAW"
         /\ pc[t] = "parse" => object[t] = Nil
<1>1. Hand(t)
  BY Zenon DEF Hands
<1>2. odb_obj[t] # Nil /\ (pc[t] = "parse" => object[t] = Nil)
  BY <1>1, Zenon DEF Hand, Storing, Writing
<1>3. odb_obj[t] \in Object
  BY <1>2, Zenon DEF TypeOK, Pointer
<1> QED
  BY <1>1, <1>2, <1>3, Zenon DEF Hand, Object

(* Two subsets of a finite set that agree outside t.                        *)
LEMMA CountChange ==
  ASSUME NEW S, IsFiniteSet(S), NEW A \in SUBSET S, NEW B \in SUBSET S, NEW t \in S,
         A \ {t} = B \ {t}
  PROVE  /\ Cardinality(A) \in Nat /\ Cardinality(B) \in Nat
         /\ (t \in A <=> t \in B) => Cardinality(B) = Cardinality(A)
         /\ t \in A /\ t \notin B => Cardinality(B) = Cardinality(A) - 1
         /\ t \notin A /\ t \in B => Cardinality(B) = Cardinality(A) + 1
<1>1. /\ IsFiniteSet(A) /\ IsFiniteSet(B)
      /\ Cardinality(A) \in Nat /\ Cardinality(B) \in Nat
  BY FS_Subset, FS_CardinalityType, Zenon
<1>2. ASSUME t \in A <=> t \in B PROVE A = B
  BY <1>2
<1>3. ASSUME t \in A, t \notin B PROVE Cardinality(B) = Cardinality(A) - 1
  <2>1. B = A \ {t}
    BY <1>3, Zenon
  <2> QED
    BY <1>1, <1>3, <2>1, FS_RemoveElement, Zenon
<1>4. ASSUME t \notin A, t \in B PROVE Cardinality(B) = Cardinality(A) + 1
  <2>1. B = A \cup {t}
    BY <1>4, Zenon
  <2> QED
    BY <1>1, <1>4, <2>1, FS_AddElement, Zenon
<1> QED
  BY <1>1, <1>2, <1>3, <1>4, Zenon

(* The types hold before the first call.                                   *)
LEMMA TypeInit == Init => TypeOK
<1> QED
  BY NoCallIsACall, CacheAssumption DEF Init, TypeOK, Pointer, Pc

(* How the number of references to p changes when a pointer does.           *)
Delta(old, new, p) ==
    (IF new = p THEN 1 ELSE 0) - (IF old = p THEN 1 ELSE 0)

(* There are finitely many blocks, so that references to them can be       *)
(* counted.                                                                *)
LEMMA ObjectsAreFinite == IsFiniteSet(Object)
<1> DEFINE T == (Oid \X Forms) \X (1 .. MaxCopies)
           f == [p \in Object |-> <<<<p.oid, p.flags>>, p.n>>]
<1>1. IsFiniteSet(Forms)
  <2>1. Forms = {"RAW"} \cup {"PARSED"}
    BY Zenon DEF Forms
  <2>2. IsFiniteSet({"RAW"})
    BY FS_Singleton, Zenon
  <2> QED
    BY <2>1, <2>2, FS_AddElement, Zenon
<1>2. IsFiniteSet(1 .. MaxCopies)
  BY CacheAssumption, FS_Interval
<1>3. IsFiniteSet(T)
  BY <1>1, <1>2, CacheAssumption, FS_Product, Zenon
<1>4. f \in [Object -> T]
  BY Zenon DEF Object
<1>5. ASSUME NEW p \in Object, NEW q \in Object, f[p] = f[q] PROVE p = q
  <2>1. p.oid = q.oid /\ p.flags = q.flags /\ p.n = q.n
    BY <1>5, Zenon
  <2>2. /\ p = [oid |-> p.oid, flags |-> p.flags, n |-> p.n]
        /\ q = [oid |-> q.oid, flags |-> q.flags, n |-> q.n]
    BY Zenon DEF Object
  <2> QED
    BY <2>1, <2>2, Zenon
<1> HIDE DEF f, T
<1>6. f \in Injection(Object, T)
  BY <1>4, <1>5, Zenon DEF Injection, IsInjective
<1> QED
  BY <1>3, <1>6, FS_Injection, Zenon

(* The references to p that are not those of parsed objects.                *)
Outer(p) == ref[p] - Cardinality(Keepers(p))

(* The parsed objects that keep a raw object can be counted.               *)
LEMMA KeepersCount ==
  ASSUME NEW p
  PROVE  /\ IsFiniteSet(Keepers(p)) /\ IsFiniteSet(Keepers(p)')
         /\ Cardinality(Keepers(p)) \in Nat /\ Cardinality(Keepers(p)') \in Nat
<1>1. Keepers(p) \in SUBSET Object /\ Keepers(p)' \in SUBSET Object
  BY Zenon DEF Keepers
<1>2. IsFiniteSet(Keepers(p)) /\ IsFiniteSet(Keepers(p)')
  BY <1>1, ObjectsAreFinite, FS_Subset, Zenon
<1> QED
  BY <1>2, FS_CardinalityType, Zenon

(* What a free does to the references of the freed object is no change in   *)
(* those of the others.                                                     *)
LEMMA DecrefOuter ==
  ASSUME TypeOK, NEW P \in SUBSET Object, inner' = Forget(P), NEW p \in Object
  PROVE  /\ Decref(P)[p] \in Int
         /\ Decref(P)[p] - Cardinality(Keepers(p)') = Outer(p) - (IF p \in P THEN 1 ELSE 0)
<1> DEFINE A == Keepers(p)
           B == {q \in Freed(P) : inner[q] = p}
<1>1. p # Nil
  BY CacheAssumption, Zenon
<1>2. Keepers(p)' = A \ Freed(P) /\ B = A \cap Freed(P)
  BY <1>1, Zenon DEF Keepers, Forget, Freed
<1>3. /\ IsFiniteSet(A) /\ Cardinality(A) \in Nat
      /\ Cardinality(Keepers(p)') \in Nat
  BY KeepersCount, Zenon
<1>4. /\ Cardinality(Keepers(p)') = Cardinality(A) - Cardinality(B)
      /\ IsFiniteSet(B)
  BY <1>2, <1>3, FS_Difference, FS_Intersection, ZenonT(40)
<1>5. Cardinality(B) \in Nat
  BY <1>4, FS_CardinalityType, Zenon
<1>6. Decref(P)[p] = ref[p] - (IF p \in P THEN 1 ELSE 0) - Cardinality(B)
  BY Zenon DEF Decref
<1>7. ref[p] \in Nat /\ Outer(p) = ref[p] - Cardinality(A)
  BY Zenon DEF TypeOK, Outer
<1> HIDE DEF A, B
<1> QED
  BY <1>3, <1>4, <1>5, <1>6, <1>7

(* The three ways in which a step changes the counts.                       *)
LEMMA OuterIncref ==
  ASSUME TypeOK, NEW x \in Object, ref' = Incref(ref, x), inner' = inner, NEW p \in Object
  PROVE  /\ ref'[p] \in Int /\ Outer(p) \in Int
         /\ Outer(p)' = Outer(p) + (IF p = x THEN 1 ELSE 0)
<1>1. Keepers(p)' = Keepers(p)
  BY Zenon DEF Keepers
<1>2. Cardinality(Keepers(p)) \in Nat
  BY KeepersCount, Zenon
<1>3. ref[p] \in Nat /\ ref'[p] = ref[p] + (IF p = x THEN 1 ELSE 0)
  BY DEF TypeOK, Incref
<1>4. ref'[p] \in Int
  BY <1>3
<1> QED
  BY <1>1, <1>2, <1>3, <1>4 DEF Outer

(* git_cached_obj_decref(): dropping the references of a thread to P takes *)
(* one from each, what it frees included.                                  *)
LEMMA OuterDecref ==
  ASSUME TypeOK, NEW P \in SUBSET Object, ref' = Decref(P), inner' = Forget(P), NEW p \in Object
  PROVE  /\ ref'[p] \in Int /\ Outer(p) \in Int
         /\ Outer(p)' = Outer(p) - (IF p \in P THEN 1 ELSE 0)
<1>1. ref[p] \in Nat /\ Cardinality(Keepers(p)) \in Nat
  BY KeepersCount, Zenon DEF TypeOK
<1> QED
  BY <1>1, DecrefOuter DEF Outer

(* cache_store() that replaces an entry: the old object loses a reference  *)
(* and the new one gets one.                                               *)
LEMMA OuterSwap ==
  ASSUME TypeOK, NEW x \in Object, NEW y \in Object, ref' = Incref(Decref({x}), y),
         inner' = Forget({x}), NEW p \in Object
  PROVE  /\ ref'[p] \in Int /\ Outer(p) \in Int
         /\ Outer(p)' = Outer(p) + (IF p = y THEN 1 ELSE 0) - (IF p = x THEN 1 ELSE 0)
<1>1. /\ ref[p] \in Nat /\ Cardinality(Keepers(p)) \in Nat
      /\ Cardinality(Keepers(p)') \in Nat
  BY KeepersCount, Zenon DEF TypeOK
<1>2. {x} \in SUBSET Object
  BY Zenon
<1>3. /\ Decref({x})[p] \in Int
      /\ Decref({x})[p] - Cardinality(Keepers(p)') = Outer(p) - (IF p \in {x} THEN 1 ELSE 0)
  BY <1>2, DecrefOuter, Zenon
<1>4. ref'[p] = Decref({x})[p] + (IF p = y THEN 1 ELSE 0)
  <2> DEFINE D == Decref({x})
  <2>1. D = [q \in Object |-> D[q]] /\ D[p] \in Int
    BY <1>3, Zenon DEF Decref
  <2>2. ref' = [D EXCEPT ![y] = D[y] + 1]
    BY Zenon DEF Incref
  <2> HIDE DEF D
  <2>3. CASE p = y
    BY <2>1, <2>2, <2>3, Zenon DEF D
  <2>4. CASE p # y
    BY <2>1, <2>2, <2>4 DEF D
  <2> QED
    BY <2>3, <2>4, Zenon
<1>5. Outer(p) \in Int /\ Outer(p)' = ref'[p] - Cardinality(Keepers(p)')
  BY <1>1 DEF Outer
<1> QED
  BY <1>1, <1>3, <1>4, <1>5

(* git_tree__parse() and git_blob__parse() keep the raw object: its new    *)
(* count is the one of the parsed object.                                  *)
LEMMA OuterKeep ==
  ASSUME TypeOK, NEW x \in Object, NEW y \in Object, x # y, inner[x] = Nil,
         ref' = Incref(Incref(ref, x), y), inner' = [inner EXCEPT ![x] = y], NEW p \in Object
  PROVE  /\ ref'[p] \in Int /\ Outer(p) \in Int
         /\ Outer(p)' = Outer(p) + (IF p = x THEN 1 ELSE 0)
<1> DEFINE A == Keepers(p)
           B == Keepers(p)'
<1>1. Nil \notin Object
  BY CacheAssumption, Zenon
<1>2. /\ A \in SUBSET Object /\ B \in SUBSET Object /\ A \ {x} = B \ {x}
      /\ x \notin A /\ (x \in B <=> p = y)
  BY <1>1, Zenon DEF Keepers, TypeOK
<1> HIDE DEF A, B
<1>3. /\ Cardinality(A) \in Nat /\ Cardinality(B) \in Nat
      /\ Cardinality(B) = Cardinality(A) + (IF p = y THEN 1 ELSE 0)
  BY <1>2, ObjectsAreFinite, CountChange
<1>4. /\ ref[p] \in Nat
      /\ ref'[p] = ref[p] + (IF p = x THEN 1 ELSE 0) + (IF p = y THEN 1 ELSE 0)
  BY DEF TypeOK, Incref
<1>5. Outer(p) = ref[p] - Cardinality(A) /\ Outer(p)' = ref'[p] - Cardinality(B)
  BY Zenon DEF Outer, A, B
<1> QED
  BY <1>3, <1>4, <1>5

(* How storing or removing one entry changes the number of the maps that   *)
(* have an object.                                                         *)
LEMMA CachingChange ==
  ASSUME NEW p, NEW c \in Cache, \A d \in Cache \ {c} : val'[d][p.oid] = val[d][p.oid]
  PROVE  /\ Cardinality(Caching(p)) \in Nat /\ Cardinality(Caching(p)') \in Nat
         /\ Cardinality(Caching(p)')
               = Cardinality(Caching(p)) + Delta(val[c][p.oid], val'[c][p.oid], p)
<1> DEFINE A == Caching(p)
           B == Caching(p)'
<1>1. /\ A \in SUBSET Cache /\ B \in SUBSET Cache
      /\ A \ {c} = B \ {c}
      /\ c \in A <=> val[c][p.oid] = p
      /\ c \in B <=> val'[c][p.oid] = p
  BY Zenon DEF Caching
<1>2. IsFiniteSet(Cache)
  BY CacheAssumption, Zenon
<1> HIDE DEF A, B
<1>3. /\ Cardinality(A) \in Nat /\ Cardinality(B) \in Nat
      /\ (c \in A <=> c \in B) => Cardinality(B) = Cardinality(A)
      /\ c \in A /\ c \notin B => Cardinality(B) = Cardinality(A) - 1
      /\ c \notin A /\ c \in B => Cardinality(B) = Cardinality(A) + 1
  BY <1>1, <1>2, CountChange, SMTT(30)
<1> QED
  BY <1>1, <1>3 DEF A, B, Delta

(* A step of thread t on cache c changes no other pointers, and adds to     *)
(* every count what the ones it changes make.                               *)
Frame(t, c) ==
    /\ \A u \in Thread \ {t} : odb_obj'[u] = odb_obj[u] /\ object'[u] = object[u]
    /\ \A d \in Cache \ {c}, o \in Oid : val'[d][o] = val[d][o]
    /\ ref' = [p \in Object |-> ref'[p]]
Adds(t, c, p) ==
    /\ ref'[p] \in Int
    /\ Outer(p)' = Outer(p) + Delta(odb_obj[t], odb_obj'[t], p) + Delta(object[t], object'[t], p)
                   + Delta(val[c][p.oid], val'[c][p.oid], p)
Counted(t, c) == Frame(t, c) /\ \A p \in Object : Adds(t, c, p)

(* Such a step keeps the counts exact.                                      *)
LEMMA CountStep ==
  ASSUME RefCounts, ref \in [Object -> Nat], NEW t \in Thread, NEW c \in Cache, Counted(t, c)
  PROVE  RefCounts' /\ ref' \in [Object -> Nat]
<1> USE DEF Counted, Frame, Adds
<1> SUFFICES ASSUME NEW p \in Object
             PROVE  /\ ref'[p] = Cardinality(Holding(odb_obj', p))
                                 + Cardinality(Holding(object', p)) + Cardinality(Caching(p)')
                                 + Cardinality(Keepers(p)')
                    /\ ref'[p] \in Nat
  BY Zenon DEF RefCounts, Holding
<1>1. p.oid \in Oid
  BY Zenon DEF Object
<1>2. /\ Cardinality(Holding(odb_obj, p)) \in Nat /\ Cardinality(Holding(odb_obj', p)) \in Nat
      /\ Cardinality(Holding(odb_obj', p))
            = Cardinality(Holding(odb_obj, p)) + Delta(odb_obj[t], odb_obj'[t], p)
  <2> DEFINE A == Holding(odb_obj, p)
             B == Holding(odb_obj', p)
  <2>1. /\ A \in SUBSET Thread /\ B \in SUBSET Thread
        /\ A \ {t} = B \ {t}
        /\ t \in A <=> odb_obj[t] = p
        /\ t \in B <=> odb_obj'[t] = p
    BY Zenon DEF Holding
  <2>2. IsFiniteSet(Thread)
    BY CacheAssumption, Zenon
  <2> HIDE DEF A, B
  <2>3. /\ Cardinality(A) \in Nat /\ Cardinality(B) \in Nat
        /\ (t \in A <=> t \in B) => Cardinality(B) = Cardinality(A)
        /\ t \in A /\ t \notin B => Cardinality(B) = Cardinality(A) - 1
        /\ t \notin A /\ t \in B => Cardinality(B) = Cardinality(A) + 1
    BY <2>1, <2>2, CountChange
  <2> QED
    BY <2>1, <2>3 DEF A, B, Delta
<1>3. /\ Cardinality(Holding(object, p)) \in Nat /\ Cardinality(Holding(object', p)) \in Nat
      /\ Cardinality(Holding(object', p))
            = Cardinality(Holding(object, p)) + Delta(object[t], object'[t], p)
  <2> DEFINE A == Holding(object, p)
             B == Holding(object', p)
  <2>1. /\ A \in SUBSET Thread /\ B \in SUBSET Thread
        /\ A \ {t} = B \ {t}
        /\ t \in A <=> object[t] = p
        /\ t \in B <=> object'[t] = p
    BY Zenon DEF Holding
  <2>2. IsFiniteSet(Thread)
    BY CacheAssumption, Zenon
  <2> HIDE DEF A, B
  <2>3. /\ Cardinality(A) \in Nat /\ Cardinality(B) \in Nat
        /\ (t \in A <=> t \in B) => Cardinality(B) = Cardinality(A)
        /\ t \in A /\ t \notin B => Cardinality(B) = Cardinality(A) - 1
        /\ t \notin A /\ t \in B => Cardinality(B) = Cardinality(A) + 1
    BY <2>1, <2>2, CountChange
  <2> QED
    BY <2>1, <2>3 DEF A, B, Delta
<1>4. /\ Cardinality(Caching(p)) \in Nat /\ Cardinality(Caching(p)') \in Nat
      /\ Cardinality(Caching(p)')
            = Cardinality(Caching(p)) + Delta(val[c][p.oid], val'[c][p.oid], p)
  BY <1>1, CachingChange, Zenon
<1>5. ref[p] = Cardinality(Holding(odb_obj, p)) + Cardinality(Holding(object, p))
               + Cardinality(Caching(p)) + Cardinality(Keepers(p))
  BY Zenon DEF RefCounts
<1>6. /\ Delta(odb_obj[t], odb_obj'[t], p) \in Int /\ Delta(object[t], object'[t], p) \in Int
      /\ Delta(val[c][p.oid], val'[c][p.oid], p) \in Int
  BY DEF Delta
<1>7. /\ Cardinality(Keepers(p)) \in Nat /\ Cardinality(Keepers(p)') \in Nat
  BY KeepersCount, Zenon
<1>8. /\ ref'[p] - Cardinality(Keepers(p)')
            = ref[p] - Cardinality(Keepers(p)) + Delta(odb_obj[t], odb_obj'[t], p)
              + Delta(object[t], object'[t], p) + Delta(val[c][p.oid], val'[c][p.oid], p)
      /\ ref'[p] \in Int
  BY Zenon DEF Outer
<1> QED
  BY <1>2, <1>3, <1>4, <1>5, <1>6, <1>7, <1>8

(* An object that is left with its raw object is left with a reference.     *)
LEMMA KeptDecref ==
  ASSUME TypeOK, Kept, NEW P \in SUBSET Object, inner' = Forget(P), NEW p \in Object,
         inner'[p] # Nil
  PROVE  inner'[p] = inner[p] /\ Decref(P)[p] \in Nat /\ Decref(P)[p] > 0
<1>1. inner'[p] = inner[p] /\ p \notin Freed(P)
  BY Zenon DEF Forget
<1>2. ref[p] \in Nat /\ ref[p] > 0 /\ p.flags = "PARSED"
  BY <1>1, Zenon DEF Kept, TypeOK
<1>3. p \in P => ref[p] # 1
  BY <1>1, Zenon DEF Freed
<1>4. {q \in Freed(P) : inner[q] = p} = {}
  BY <1>2, CacheAssumption DEF Freed, Kept
<1>5. Cardinality({q \in Freed(P) : inner[q] = p}) = 0
  BY <1>4, FS_EmptySet, Zenon
<1>6. Decref(P)[p] = ref[p] - (IF p \in P THEN 1 ELSE 0) - 0
  BY <1>5, Zenon DEF Decref
<1> QED
  BY <1>1, <1>2, <1>3, <1>6

(* Every step leaves raw objects only with live parsed objects of the same *)
(* id.                                                                     *)
LEMMA KeptStep ==
  ASSUME IInv, [Next]_vars
  PROVE  Kept' /\ inner' \in [Object -> Pointer]
<1> USE DEF IInv
<1>0. /\ ref \in [Object -> Nat] /\ inner \in [Object -> Pointer] /\ Nil \notin Object
      /\ \A t \in Thread : C(t) \in Cache /\ O(t) \in Oid
  BY CacheAssumption, Fields, Zenon DEF TypeOK
<1>1. ASSUME UNCHANGED memory PROVE Kept' /\ inner' \in [Object -> Pointer]
  BY <1>0, <1>1, Zenon DEF Kept, memory
<1>2. ASSUME NEW x \in Object, ref' = Incref(ref, x), inner' = inner
      PROVE  Kept' /\ inner' \in [Object -> Pointer]
  BY <1>0, <1>2 DEF Kept, Incref
<1>3. ASSUME NEW P \in SUBSET Object, ref' = Decref(P), inner' = Forget(P)
      PROVE  Kept' /\ inner' \in [Object -> Pointer]
  <2>1. inner' \in [Object -> Pointer]
    BY <1>0, <1>3, Zenon DEF Forget, Pointer
  <2>2. ASSUME NEW p \in Object, inner'[p] # Nil
        PROVE  ref'[p] > 0 /\ p.flags = "PARSED" /\ inner'[p].flags = "RAW"
    <3>1. inner'[p] = inner[p] /\ ref'[p] > 0
      BY <1>3, <2>2, KeptDecref, Zenon
    <3> QED
      BY <2>2, <3>1, Zenon DEF Kept
  <2> QED
    BY <2>1, <2>2, Zenon DEF Kept
<1>4. ASSUME NEW x \in Object, NEW y \in Object, ref' = Incref(Decref({x}), y),
             inner' = Forget({x})
      PROVE  Kept' /\ inner' \in [Object -> Pointer]
  <2>1. inner' \in [Object -> Pointer]
    BY <1>0, <1>4, Zenon DEF Forget, Pointer
  <2>2. ASSUME NEW p \in Object, inner'[p] # Nil
        PROVE  ref'[p] > 0 /\ p.flags = "PARSED" /\ inner'[p].flags = "RAW"
    <3> DEFINE D == Decref({x})
    <3>1. inner'[p] = inner[p] /\ D[p] \in Nat /\ D[p] > 0
      <4>1. {x} \in SUBSET Object
        BY Zenon
      <4> QED
        BY <1>4, <2>2, <4>1, KeptDecref, Zenon
    <3>2. D = [q \in Object |-> D[q]] /\ ref' = [D EXCEPT ![y] = D[y] + 1]
      BY <1>4, Zenon DEF Incref, Decref
    <3> HIDE DEF D
    <3>3. ref'[p] > 0
      BY <3>1, <3>2
    <3> QED
      BY <2>2, <3>1, <3>3, Zenon DEF Kept
  <2> QED
    BY <2>1, <2>2, Zenon DEF Kept
<1>5. ASSUME NEW t \in Thread, Parse(t) PROVE Kept' /\ inner' \in [Object -> Pointer]
  <2> DEFINE raw == odb_obj[t]
             new == Malloc(raw.oid, "PARSED")
  <2>1. raw \in Object /\ raw.oid \in Oid /\ raw.flags = "RAW"
    BY <1>5, RawInHand, Zenon DEF Parse
  <2>2. CASE UNCHANGED <<memory, object>>
    BY <1>1, <2>2, Zenon
  <2>3. CASE ~UNCHANGED <<memory, object>>
    <3>1. /\ Blocks(raw.oid, "PARSED") # {}
          /\ \/ ref' = Incref(Incref(ref, new), raw) /\ inner' = [inner EXCEPT ![new] = raw]
             \/ ref' = Incref(ref, new) /\ inner' = inner
      BY <1>5, <2>3, Zenon DEF Parse
    <3>2. new \in Object /\ new.flags = "PARSED" /\ ref[new] = 0
      BY <2>1, <3>1, MallocIsFree, Zenon DEF Forms
    <3> HIDE DEF raw, new
    <3>3. CASE ref' = Incref(Incref(ref, new), raw) /\ inner' = [inner EXCEPT ![new] = raw]
      <4>1. inner' \in [Object -> Pointer]
        BY <1>0, <2>1, <3>2, <3>3, Zenon DEF Pointer
      <4>2. \A p \in Object : ref'[p] >= ref[p] /\ (p = new => ref'[p] > 0)
        BY <1>0, <2>1, <3>2, <3>3 DEF Incref
      <4>3. ASSUME NEW p \in Object, inner'[p] # Nil
            PROVE  ref'[p] > 0 /\ p.flags = "PARSED" /\ inner'[p].flags = "RAW"
        <5>1. CASE p = new
          BY <1>0, <2>1, <3>2, <3>3, <4>2, <5>1, Zenon
        <5>2. CASE p # new
          <6>1. inner'[p] = inner[p]
            BY <1>0, <3>3, <5>2, Zenon
          <6>2. ref[p] \in Nat /\ ref'[p] \in Nat
            BY <1>0, <2>1, <3>2, <3>3 DEF Incref
          <6> QED
            BY <4>2, <4>3, <6>1, <6>2 DEF Kept
        <5> QED
          BY <5>1, <5>2, Zenon
      <4> QED
        BY <4>1, <4>3, Zenon DEF Kept
    <3> QED
      BY <1>2, <3>1, <3>2, <3>3, Zenon
  <2> QED
    BY <2>2, <2>3, Zenon
<1>6. ASSUME NEW t \in Thread, Put(t) PROVE Kept' /\ inner' \in [Object -> Pointer]
  <2> DEFINE e == Entry(t)
             stored == Find(C(t), e.oid)
  <2>1. odb_obj[t] # Nil
    BY <1>6, RawInHand, Zenon DEF Put
  <2>2. e \in Object /\ e.oid \in Oid
    BY <2>1, Fields, Zenon DEF TypeOK, Pointer, Entry
  <2>3. stored # Nil => stored \in Object
    BY <1>0, <2>2 DEF Find, TypeOK, Pointer
  <2>4. \/ UNCHANGED memory
        \/ ref' = Incref(ref, e) /\ inner' = inner
        \/ stored # Nil /\ ref' = Incref(Decref({e}), stored) /\ inner' = Forget({e})
        \/ stored # Nil /\ ref' = Incref(Decref({stored}), e) /\ inner' = Forget({stored})
    BY <1>6, Zenon DEF Put, Insert, Adopt, Replace, memory
  <2> HIDE DEF e, stored
  <2> QED
    BY <1>1, <1>2, <1>4, <2>2, <2>3, <2>4, Zenon
<1>7. ASSUME NEW t \in Thread, CacheEvictEntries(t) \/ Clear(t)
      PROVE  Kept' /\ inner' \in [Object -> Pointer]
  <2>1. \A E \in kSubset(EvictCount, Cached(C(t))) : E \in SUBSET Cached(C(t))
    BY Zenon DEF kSubset
  <2>2. Cached(C(t)) \in SUBSET Cached(C(t))
    BY Zenon
  <2>3. PICK E \in SUBSET Cached(C(t)) : Dropped(C(t), E)
    BY <1>7, <2>1, <2>2, Zenon DEF CacheEvictEntries, Clear, ClearCache
  <2> DEFINE P == {val[C(t)][o] : o \in E}
  <2>4. P \in SUBSET Object
    BY <1>0 DEF Cached, TypeOK, Pointer
  <2>5. ref' = Decref(P) /\ inner' = Forget(P)
    BY <2>3, Zenon DEF Dropped
  <2> HIDE DEF P
  <2> QED
    BY <1>3, <2>4, <2>5, Zenon
<1>8. ASSUME NEW t \in Thread, Drop(t) \/ Free(t)
      PROVE  Kept' /\ inner' \in [Object -> Pointer]
  <2>1. \E x \in Object : ref' = Decref({x}) /\ inner' = Forget({x})
    <3>1. CASE Drop(t)
      <4>1. odb_obj[t] \in Object
        BY <3>1, RawInHand, Zenon DEF Drop
      <4> QED
        BY <3>1, <4>1, Zenon DEF Drop
    <3>2. CASE Free(t)
      <4>1. Entry(t) \in Object
        BY <3>2, Fields, Zenon DEF Free, Hand, Hands, TypeOK, Pointer, Entry
      <4> QED
        BY <3>2, <4>1, Zenon DEF Free
    <3> QED
      BY <1>8, <3>1, <3>2, Zenon
  <2>2. PICK x \in Object : ref' = Decref({x}) /\ inner' = Forget({x})
    BY <2>1, Zenon
  <2>3. {x} \in SUBSET Object
    BY Zenon
  <2> QED
    BY <1>3, <2>2, <2>3, Zenon
<1>9. ASSUME NEW t \in Thread, NEW u \in Thread, Dup(t, u)
      PROVE  Kept' /\ inner' \in [Object -> Pointer]
  <2>1. Entry(u) \in Object
    BY <1>9, Fields, ZenonT(40) DEF Dup, Hand, Hands, TypeOK, Pointer, Entry
  <2> QED
    BY <1>2, <1>9, <2>1, ZenonT(40) DEF Dup
<1>10. ASSUME NEW t \in Thread, CacheRef(t) \/ Backend(t)
       PROVE  Kept' /\ inner' \in [Object -> Pointer]
  <2>1. peek[t] # Nil => peek[t] \in Object
    BY Zenon DEF TypeOK, Pointer
  <2>2. Blocks(O(t), "RAW") # {} => Malloc(O(t), "RAW") \in Object
    BY <1>0, MallocIsFree, Zenon DEF Forms
  <2>3. UNCHANGED memory \/ \E x \in Object : ref' = Incref(ref, x) /\ inner' = inner
    BY <1>10, <2>1, <2>2 DEF CacheRef, Backend, memory
  <2> QED
    BY <1>1, <1>2, <2>3, Zenon
<1>11. ASSUME NEW t \in Thread,
              Invoke(t) \/ CacheGet(t) \/ Check(t) \/ ShouldStore(t) \/ WrLock(t) \/ Account(t)
       PROVE  UNCHANGED memory
  BY <1>11, Zenon DEF Invoke, CacheGet, Check, ShouldStore, WrLock, Account
<1>12. CASE EnableCaching \/ UNCHANGED vars
  BY <1>1, <1>12, Zenon DEF EnableCaching, vars
<1> QED
  BY <1>1, <1>5, <1>6, <1>7, <1>8, <1>9, <1>10, <1>11, <1>12, Zenon DEF Next, Work

-----------------------------------------------------------------------------
(* Every step keeps the counts exact and the entries in order.             *)

(* Every step leaves each reference count equal to the number of           *)
(* references.                                                             *)
LEMMA RefStep ==
  ASSUME IInv, [Next]_vars
  PROVE  RefCounts' /\ ref' \in [Object -> Nat]
<1> USE DEF IInv
<1>0. ref \in [Object -> Nat] /\ Nil \notin Object
  BY CacheAssumption, Zenon DEF TypeOK
<1>1. ASSUME UNCHANGED <<memory, odb_obj, object, val>> PROVE RefCounts' /\ ref' \in [Object -> Nat]
  BY <1>0, <1>1, Zenon DEF RefCounts, Holding, Caching, Keepers, memory
<1>2. ASSUME NEW t \in Thread,
             Invoke(t) \/ CacheGet(t) \/ Check(t) \/ ShouldStore(t) \/ WrLock(t) \/ Account(t)
      PROVE  UNCHANGED <<memory, odb_obj, object, val>>
  BY <1>2, Zenon DEF Invoke, CacheGet, Check, ShouldStore, WrLock, Account, hands, cached
<1>3. ASSUME NEW t \in Thread, CacheRef(t)
      PROVE  Counted(t, C(t)) \/ UNCHANGED <<memory, odb_obj, object, val>>
  <2>1. pc[t] \in Empty
    BY <1>3, Zenon DEF CacheRef, Reading, Empty
  <2>2. odb_obj[t] = Nil /\ object[t] = Nil /\ C(t) \in Cache
    BY <2>1, Fields, Zenon DEF Hand, Hands
  <2>3. CASE peek[t] = Nil
    BY <1>3, <2>3, Zenon DEF CacheRef, cached, memory
  <2>4. CASE peek[t] # Nil
    <3>1. peek[t] \in Object /\ peek[t].flags \in Forms
      BY <2>4, Fields, Zenon DEF TypeOK, Pointer
    <3>2. ref' = Incref(ref, peek[t]) /\ inner' = inner /\ val' = val
      BY <1>3, <2>4, Zenon DEF CacheRef, cached
    <3>3. \/ odb_obj' = odb_obj /\ object' = [object EXCEPT ![t] = peek[t]]
          \/ object' = object /\ odb_obj' = [odb_obj EXCEPT ![t] = peek[t]]
      BY <1>3, <2>4, Zenon DEF CacheRef
    <3>4. Frame(t, C(t))
      BY <1>0, <2>2, <3>1, <3>2, <3>3, ZenonT(40) DEF Frame, Incref, TypeOK
    <3>5. ASSUME NEW p \in Object PROVE Adds(t, C(t), p)
      <4>1. /\ ref'[p] \in Int /\ Outer(p) \in Int
            /\ Outer(p)' = Outer(p) + (IF p = peek[t] THEN 1 ELSE 0)
        BY <3>1, <3>2, OuterIncref, Zenon
      <4> QED
        BY <1>0, <2>2, <3>1, <3>2, <3>3, <4>1 DEF Adds, Delta, TypeOK
    <3> QED
      BY <3>4, <3>5, Zenon DEF Counted
  <2> QED
    BY <2>3, <2>4, Zenon
<1>4. ASSUME NEW t \in Thread, Backend(t)
      PROVE  Counted(t, C(t)) \/ UNCHANGED <<memory, odb_obj, object, val>>
  <2>1. odb_obj[t] = Nil /\ O(t) \in Oid
    BY <1>4, Fields, Zenon DEF Backend, Empty, Hand, Hands
  <2>2. CASE UNCHANGED <<ref, odb_obj>>
    BY <1>4, <2>2, Zenon DEF Backend, cached, memory
  <2>3. CASE Blocks(O(t), "RAW") # {} /\ ref' = Incref(ref, Malloc(O(t), "RAW"))
             /\ odb_obj' = [odb_obj EXCEPT ![t] = Malloc(O(t), "RAW")]
    <3>1. Malloc(O(t), "RAW") \in Object
      BY <2>1, <2>3, MallocIsFree, Zenon DEF Forms
    <3>2. object' = object /\ val' = val /\ inner' = inner
      BY <1>4, Zenon DEF Backend, cached
    <3>3. Frame(t, C(t))
      BY <1>0, <2>1, <2>3, <3>1, <3>2, ZenonT(40) DEF Frame, Incref, TypeOK
    <3>4. ASSUME NEW p \in Object PROVE Adds(t, C(t), p)
      <4>1. /\ ref'[p] \in Int /\ Outer(p) \in Int
            /\ Outer(p)' = Outer(p) + (IF p = Malloc(O(t), "RAW") THEN 1 ELSE 0)
        BY <2>3, <3>1, <3>2, OuterIncref, Zenon
      <4> QED
        BY <1>0, <2>1, <2>3, <3>1, <3>2, <4>1, SMTT(30) DEF Adds, Delta, TypeOK
    <3> QED
      BY <3>3, <3>4, Zenon DEF Counted
  <2> QED
    BY <1>4, <2>2, <2>3, Zenon DEF Backend
<1>5. ASSUME NEW t \in Thread, Parse(t)
      PROVE  Counted(t, C(t)) \/ UNCHANGED <<memory, odb_obj, object, val>>
  <2> DEFINE raw == odb_obj[t]
             new == Malloc(raw.oid, "PARSED")
  <2>1. object[t] = Nil /\ raw \in Object /\ raw.oid \in Oid /\ raw.flags = "RAW"
    BY <1>5, RawInHand, Zenon DEF Parse
  <2>2. CASE UNCHANGED <<memory, object>>
    BY <1>5, <2>2, Zenon DEF Parse, cached
  <2>3. CASE ~UNCHANGED <<memory, object>>
    <3>1. /\ Blocks(raw.oid, "PARSED") # {} /\ object' = [object EXCEPT ![t] = new]
          /\ odb_obj' = odb_obj /\ val' = val
          /\ \/ ref' = Incref(Incref(ref, new), raw) /\ inner' = [inner EXCEPT ![new] = raw]
             \/ ref' = Incref(ref, new) /\ inner' = inner
      BY <1>5, <2>3, Zenon DEF Parse, cached
    <3>2. new \in Object /\ new.flags = "PARSED" /\ ref[new] = 0
      BY <2>1, <3>1, MallocIsFree, Zenon DEF Forms
    <3>3. inner[new] = Nil /\ new # raw
      BY <2>1, <3>2 DEF Kept
    <3> HIDE DEF raw, new
    <3>4. Frame(t, C(t))
      BY <1>0, <2>1, <3>1, <3>2, Zenon DEF Frame, Incref, TypeOK
    <3>5. ASSUME NEW p \in Object PROVE Adds(t, C(t), p)
      <4>1. /\ ref'[p] \in Int /\ Outer(p) \in Int
            /\ Outer(p)' = Outer(p) + (IF p = new THEN 1 ELSE 0)
        BY <2>1, <3>1, <3>2, <3>3, OuterIncref, OuterKeep, Zenon
      <4> QED
        BY <1>0, <2>1, <3>1, <3>2, <4>1 DEF Adds, Delta, TypeOK
    <3> QED
      BY <3>4, <3>5, Zenon DEF Counted
  <2> QED
    BY <2>2, <2>3, Zenon
<1>6. ASSUME NEW t \in Thread, Drop(t) PROVE Counted(t, C(t))
  <2>1. odb_obj[t] \in Object
    BY <1>6, RawInHand, Zenon DEF Drop
  <2>2. /\ ref' = Decref({odb_obj[t]}) /\ inner' = Forget({odb_obj[t]})
        /\ odb_obj' = [odb_obj EXCEPT ![t] = Nil] /\ object' = object /\ val' = val
    BY <1>6, Zenon DEF Drop, cached
  <2>3. Frame(t, C(t))
    BY <1>0, <2>1, <2>2, Zenon DEF Frame, Decref, TypeOK
  <2>4. ASSUME NEW p \in Object PROVE Adds(t, C(t), p)
    <3>1. /\ ref'[p] \in Int /\ Outer(p) \in Int
          /\ Outer(p)' = Outer(p) - (IF p = odb_obj[t] THEN 1 ELSE 0)
      <4>1. {odb_obj[t]} \in SUBSET Object
        BY <2>1, Zenon
      <4> QED
        BY <2>2, <4>1, OuterDecref, ZenonT(40)
    <3> QED
      BY <1>0, <2>1, <2>2, <3>1 DEF Adds, Delta, TypeOK
  <2> QED
    BY <2>3, <2>4, Zenon DEF Counted
<1>7. ASSUME NEW t \in Thread, Free(t) PROVE Counted(t, C(t))
  <2>1. \/ object[t] \in Object /\ odb_obj[t] = Nil /\ Entry(t) = object[t]
        \/ odb_obj[t] \in Object /\ object[t] = Nil /\ Entry(t) = odb_obj[t]
    BY <1>7, Fields, Zenon DEF Free, Hand, Hands, TypeOK, Pointer, Entry
  <2>2. /\ ref' = Decref({Entry(t)}) /\ inner' = Forget({Entry(t)}) /\ val' = val
        /\ odb_obj' = [odb_obj EXCEPT ![t] = Nil] /\ object' = [object EXCEPT ![t] = Nil]
    BY <1>7, Zenon DEF Free, cached
  <2>3. Frame(t, C(t))
    BY <1>0, <2>1, <2>2, Zenon DEF Frame, Decref, TypeOK
  <2>4. ASSUME NEW p \in Object PROVE Adds(t, C(t), p)
    <3>1. /\ ref'[p] \in Int /\ Outer(p) \in Int
          /\ Outer(p)' = Outer(p) - (IF p = Entry(t) THEN 1 ELSE 0)
      <4>1. {Entry(t)} \in SUBSET Object
        BY <2>1, Zenon
      <4> QED
        BY <2>2, <4>1, OuterDecref, ZenonT(40)
    <3> QED
      BY <1>0, <2>1, <2>2, <3>1 DEF Adds, Delta, TypeOK
  <2> QED
    BY <2>3, <2>4, Zenon DEF Counted
<1>8. ASSUME NEW t \in Thread, NEW u \in Thread, Dup(t, u) PROVE Counted(t, C(t))
  <2>1. \/ object[u] \in Object /\ odb_obj[u] = Nil /\ Entry(u) = object[u]
        \/ odb_obj[u] \in Object /\ object[u] = Nil /\ Entry(u) = odb_obj[u]
    BY <1>8, Fields, ZenonT(40) DEF Dup, Hand, Hands, TypeOK, Pointer, Entry
  <2>2. odb_obj[t] = Nil /\ object[t] = Nil
    BY <1>8, Zenon DEF Dup, Hand, Hands, Empty
  <2>3. /\ ref' = Incref(ref, Entry(u)) /\ inner' = inner /\ val' = val
        /\ odb_obj' = [odb_obj EXCEPT ![t] = odb_obj[u]]
        /\ object' = [object EXCEPT ![t] = object[u]]
    BY <1>8, Zenon DEF Dup, cached
  <2>4. Frame(t, C(t))
    BY <1>0, <2>1, <2>3, Zenon DEF Frame, Incref, TypeOK
  <2>5. ASSUME NEW p \in Object PROVE Adds(t, C(t), p)
    <3>1. /\ ref'[p] \in Int /\ Outer(p) \in Int
          /\ Outer(p)' = Outer(p) + (IF p = Entry(u) THEN 1 ELSE 0)
      BY <2>1, <2>3, OuterIncref, Zenon
    <3> QED
      BY <1>0, <2>1, <2>2, <2>3, <3>1 DEF Adds, Delta, TypeOK
  <2> QED
    BY <2>4, <2>5, Zenon DEF Counted
<1>9. ASSUME NEW t \in Thread, NEW E \in SUBSET Cached(C(t)), Dropped(C(t), E),
             UNCHANGED <<odb_obj, object>>
      PROVE  Counted(t, C(t))
  <2>1. C(t) \in Cache
    BY Fields, Zenon
  <2>2. Frame(t, C(t))
    BY <1>0, <1>9, <2>1, Zenon DEF Frame, Dropped, Decref, TypeOK
  <2>3. ASSUME NEW p \in Object PROVE Adds(t, C(t), p)
    <3> DEFINE P == {val[C(t)][o] : o \in E}
    <3>1. p.oid \in Oid /\ p # Nil
      BY <1>0, Fields, Zenon
    <3>2. p \in P <=> p.oid \in E /\ val[C(t)][p.oid] = p
      BY <2>1, <3>1 DEF Filed, Cached
    <3>a. P \in SUBSET Object
      BY <2>1 DEF Cached, TypeOK, Pointer
    <3>3. val'[C(t)][p.oid] = IF p.oid \in E THEN Nil ELSE val[C(t)][p.oid]
      BY <1>9, <2>1, <3>1, Zenon DEF Dropped, TypeOK
    <3>4. ref' = Decref(P) /\ inner' = Forget(P)
      BY <1>9, Zenon DEF Dropped
    <3> HIDE DEF P
    <3>5. /\ ref'[p] \in Int /\ Outer(p) \in Int
          /\ Outer(p)' = Outer(p) - (IF p \in P THEN 1 ELSE 0)
      BY <3>4, <3>a, OuterDecref, Zenon
    <3> QED
      BY <1>9, <3>1, <3>2, <3>3, <3>5 DEF Adds, Delta
  <2> QED
    BY <2>2, <2>3, Zenon DEF Counted
<1>10. ASSUME NEW t \in Thread, CacheEvictEntries(t) \/ Clear(t) PROVE Counted(t, C(t))
  <2>1. UNCHANGED <<odb_obj, object>>
    BY <1>10, Zenon DEF CacheEvictEntries, Clear, hands
  <2>2. \A E \in kSubset(EvictCount, Cached(C(t))) : E \in SUBSET Cached(C(t))
    BY Zenon DEF kSubset
  <2>3. Cached(C(t)) \in SUBSET Cached(C(t))
    BY Zenon
  <2>4. \E E \in SUBSET Cached(C(t)) : Dropped(C(t), E)
    BY <1>10, <2>2, <2>3, Zenon DEF CacheEvictEntries, Clear, ClearCache
  <2> QED
    BY <1>9, <2>1, <2>4, Zenon
<1>11. ASSUME NEW t \in Thread, Put(t)
       PROVE  Counted(t, C(t)) \/ UNCHANGED <<memory, odb_obj, object, val>>
  <2> DEFINE e == Entry(t)
             c == C(t)
             stored == Find(c, e.oid)
  <2>1. odb_obj[t] # Nil
    BY <1>11, RawInHand, Zenon DEF Put
  <2>2. /\ e \in Object /\ e.oid \in Oid /\ c \in Cache
        /\ e = IF object[t] # Nil THEN object[t] ELSE odb_obj[t]
    BY <2>1, Fields, Zenon DEF TypeOK, Pointer, Entry
  <2>3. stored = val[c][e.oid] /\ stored \in Pointer /\ (stored # Nil => stored.oid = e.oid)
    <3>1. key[c][e.oid] = val[c][e.oid] /\ val[c][e.oid] \in Pointer
      BY <2>2, Zenon DEF Filed, TypeOK
    <3>2. val[c][e.oid] # Nil => val[c][e.oid].oid = e.oid
      BY <2>2, Zenon DEF Filed
    <3> QED
      BY <3>1, <3>2, Zenon DEF Find
  <2> HIDE DEF e, c, stored
  <2>4. CASE Insert(t) /\ stored = Nil /\ ~UNCHANGED <<memory, cached, mem>>
    <3>1. /\ ref' = Incref(ref, e) /\ inner' = inner /\ UNCHANGED <<odb_obj, object>>
          /\ val' = [val EXCEPT ![c][e.oid] = e]
      BY <2>4, Zenon DEF Insert, e, c
    <3>2. val[c][e.oid] = Nil
      BY <2>3, <2>4, Zenon
    <3>3. Frame(t, c)
      BY <1>0, <2>2, <3>1, ZenonT(40) DEF Frame, Incref, TypeOK
    <3>4. ASSUME NEW p \in Object PROVE Adds(t, c, p)
      <4>1. p.oid \in Oid
        BY Fields, Zenon
      <4>2. val'[c][p.oid] = IF p.oid = e.oid THEN e ELSE val[c][p.oid]
        BY <2>2, <3>1, <4>1, Zenon DEF TypeOK
      <4>3. /\ ref'[p] \in Int /\ Outer(p) \in Int
            /\ Outer(p)' = Outer(p) + (IF p = e THEN 1 ELSE 0)
        BY <2>2, <3>1, OuterIncref, Zenon
      <4> QED
        BY <1>0, <2>2, <3>1, <3>2, <4>2, <4>3 DEF Adds, Delta
    <3> QED
      BY <3>3, <3>4, Zenon DEF Counted, c
  <2>5. CASE Adopt(t, stored) /\ stored # Nil
    <3>1. stored \in Object
      BY <2>3, <2>5, Zenon DEF Pointer
    <3>2. /\ ref' = Incref(Decref({e}), stored) /\ inner' = Forget({e}) /\ val' = val
          /\ \/ /\ object[t] # Nil
                /\ object' = [object EXCEPT ![t] = stored] /\ odb_obj' = odb_obj
             \/ /\ object[t] = Nil
                /\ odb_obj' = [odb_obj EXCEPT ![t] = stored] /\ object' = object
      BY <2>5, Zenon DEF Adopt, e, cached
    <3>3. Frame(t, c)
      BY <1>0, <2>2, <3>1, <3>2, ZenonT(40) DEF Frame, Incref, Decref, TypeOK
    <3>4. ASSUME NEW p \in Object PROVE Adds(t, c, p)
      <4>1. /\ ref'[p] \in Int /\ Outer(p) \in Int
            /\ Outer(p)' = Outer(p) + (IF p = stored THEN 1 ELSE 0) - (IF p = e THEN 1 ELSE 0)
        <5>1. /\ TypeOK /\ e \in Object /\ stored \in Object
              /\ ref' = Incref(Decref({e}), stored) /\ inner' = Forget({e})
          BY <2>2, <3>1, <3>2, Zenon
        <5> QED
          BY ONLY <5>1, p \in Object, OuterSwap, ZenonT(40)
      <4>2. Outer(p) \in Int
        BY <4>1, Zenon
      <4>3. CASE object[t] # Nil
        <5>1. e = object[t] /\ object'[t] = stored /\ odb_obj'[t] = odb_obj[t]
          BY <2>2, <3>2, <4>3, Zenon DEF TypeOK
        <5> QED
          BY <3>2, <4>1, <4>2, <5>1 DEF Adds, Delta
      <4>4. CASE object[t] = Nil
        <5>1. e = odb_obj[t] /\ object'[t] = object[t] /\ odb_obj'[t] = stored
          BY <2>2, <3>2, <4>4, Zenon DEF TypeOK
        <5> QED
          BY <3>2, <4>1, <4>2, <5>1 DEF Adds, Delta
      <4> QED
        BY <4>3, <4>4, Zenon
    <3> QED
      BY <3>3, <3>4, Zenon DEF Counted, c
  <2>6. CASE Replace(t, stored) /\ stored # Nil
    <3>1. stored \in Object
      BY <2>3, <2>6, Zenon DEF Pointer
    <3>2. /\ ref' = Incref(Decref({stored}), e) /\ inner' = Forget({stored})
          /\ val' = [val EXCEPT ![c][e.oid] = e]
          /\ UNCHANGED <<odb_obj, object>>
      BY <2>6, Zenon DEF Replace, e, c
    <3>3. Frame(t, c)
      BY <1>0, <2>2, <3>1, <3>2, Zenon DEF Frame, Incref, Decref, TypeOK
    <3>4. ASSUME NEW p \in Object PROVE Adds(t, c, p)
      <4>1. /\ ref'[p] \in Int /\ Outer(p) \in Int
            /\ Outer(p)' = Outer(p) + (IF p = e THEN 1 ELSE 0) - (IF p = stored THEN 1 ELSE 0)
        <5>1. /\ TypeOK /\ stored \in Object /\ e \in Object
              /\ ref' = Incref(Decref({stored}), e) /\ inner' = Forget({stored})
          BY <2>2, <3>1, <3>2, Zenon
        <5> QED
          BY ONLY <5>1, p \in Object, OuterSwap, ZenonT(40)
      <4>2. p.oid \in Oid
        BY Fields, Zenon
      <4>3. val'[c][p.oid] = IF p.oid = e.oid THEN e ELSE val[c][p.oid]
        BY <2>2, <3>2, <4>2, Zenon DEF TypeOK
      <4>4. p.oid # e.oid => val[c][p.oid] = val'[c][p.oid] /\ p # e /\ p # stored
        BY <2>3, <2>6, <4>3, Zenon
      <4>5. Outer(p) \in Int
        BY <4>1, Zenon
      <4>6. CASE p.oid = e.oid
        <5>1. val[c][p.oid] = stored /\ val'[c][p.oid] = e
          BY <2>3, <4>3, <4>6, Zenon
        <5> QED
          BY <3>2, <4>1, <4>5, <5>1 DEF Adds, Delta
      <4>7. CASE p.oid # e.oid
        BY <3>2, <4>1, <4>4, <4>5, <4>7 DEF Adds, Delta
      <4> QED
        BY <4>6, <4>7, Zenon
    <3> QED
      BY <3>3, <3>4, Zenon DEF Counted, c
  <2> QED
    BY <1>11, <2>4, <2>5, <2>6, Zenon DEF Put, Insert, cached, memory, e, c, stored
<1> QED
  <2>1. ASSUME NEW t \in Thread, Counted(t, C(t)) PROVE RefCounts' /\ ref' \in [Object -> Nat]
    BY <1>0, <2>1, Fields, CountStep, Zenon
  <2>2. CASE EnableCaching \/ UNCHANGED vars
    BY <1>1, <2>2, Zenon DEF EnableCaching, vars, hands, cached, memory
  <2> QED
    BY <1>1, <1>2, <1>3, <1>4, <1>5, <1>6, <1>7, <1>8, <1>10, <1>11, <2>1, <2>2, ZenonT(40)
    DEF Next, Work

(* Only an eviction, a clear and a store change the maps.                   *)
LEMMA MapsStay ==
  ASSUME [Next]_vars
  PROVE  UNCHANGED cached \/ \E t \in Thread : CacheEvictEntries(t) \/ Clear(t) \/ Put(t)
<1>1. ASSUME NEW t \in Thread, Invoke(t) PROVE UNCHANGED cached
  BY <1>1, Zenon DEF Invoke
<1>2. ASSUME NEW t \in Thread, CacheGet(t) PROVE UNCHANGED cached
  BY <1>2, Zenon DEF CacheGet
<1>3. ASSUME NEW t \in Thread, CacheRef(t) PROVE UNCHANGED cached
  BY <1>3, Zenon DEF CacheRef
<1>4. ASSUME NEW t \in Thread, Backend(t) PROVE UNCHANGED cached
  BY <1>4, Zenon DEF Backend
<1>5. ASSUME NEW t \in Thread, Parse(t) PROVE UNCHANGED cached
  BY <1>5, Zenon DEF Parse
<1>6. ASSUME NEW t \in Thread, Check(t) PROVE UNCHANGED cached
  BY <1>6, Zenon DEF Check
<1>7. ASSUME NEW t \in Thread, ShouldStore(t) PROVE UNCHANGED cached
  BY <1>7, Zenon DEF ShouldStore
<1>8. ASSUME NEW t \in Thread, WrLock(t) PROVE UNCHANGED cached
  BY <1>8, Zenon DEF WrLock
<1>9. ASSUME NEW t \in Thread, Account(t) PROVE UNCHANGED cached
  BY <1>9, Zenon DEF Account
<1>10. ASSUME NEW t \in Thread, Drop(t) PROVE UNCHANGED cached
  BY <1>10, Zenon DEF Drop
<1>11. ASSUME NEW t \in Thread, Free(t) PROVE UNCHANGED cached
  BY <1>11, Zenon DEF Free
<1>12. ASSUME NEW t \in Thread, NEW u \in Thread, Dup(t, u) PROVE UNCHANGED cached
  BY <1>12, Zenon DEF Dup
<1>13. CASE EnableCaching \/ UNCHANGED vars
  BY <1>13, Zenon DEF EnableCaching, vars
<1> QED
  BY <1>1, <1>2, <1>3, <1>4, <1>5, <1>6, <1>7, <1>8, <1>9, <1>10, <1>11, <1>12, <1>13
  DEF Next, Work

(* Every step keeps the entries where they belong.                          *)
LEMMA FiledStep ==
  ASSUME IInv, [Next]_vars
  PROVE  Filed'
<1> USE DEF IInv
<1>0. Nil \notin Object /\ \A t \in Thread : C(t) \in Cache
  BY CacheAssumption, Fields, Zenon
<1>1. CASE UNCHANGED cached
  BY <1>1, Zenon DEF Filed, cached
<1>9. ASSUME NEW t \in Thread, CacheEvictEntries(t) PROVE Filed'
  <2>1. PICK E : Dropped(C(t), E)
    BY <1>9, Zenon DEF CacheEvictEntries, ClearCache
  <2> QED
    BY <1>0, <2>1 DEF Dropped, Filed, TypeOK
<1>10. ASSUME NEW t \in Thread, Clear(t) PROVE Filed'
  <2>1. Dropped(C(t), Cached(C(t)))
    BY <1>10, Zenon DEF Clear, ClearCache
  <2> QED
    BY <1>0, <2>1 DEF Dropped, Filed, TypeOK
<1>12. ASSUME NEW t \in Thread, Put(t) PROVE Filed'
  <2>1. \/ UNCHANGED cached
        \/ /\ key' = [key EXCEPT ![C(t)][Entry(t).oid] = Entry(t)]
           /\ val' = [val EXCEPT ![C(t)][Entry(t).oid] = Entry(t)]
    BY <1>12, Zenon DEF Put, Insert, Adopt, Replace, cached
  <2>2. CASE UNCHANGED cached
    BY <2>2, Zenon DEF Filed, cached
  <2>3. CASE /\ key' = [key EXCEPT ![C(t)][Entry(t).oid] = Entry(t)]
             /\ val' = [val EXCEPT ![C(t)][Entry(t).oid] = Entry(t)]
    <3> SUFFICES ASSUME NEW c \in Cache, NEW o \in Oid
                 PROVE  key'[c][o] = val'[c][o] /\ (val'[c][o] # Nil => val'[c][o].oid = o)
      BY Zenon DEF Filed
    <3>1. key[c][o] = val[c][o] /\ (val[c][o] # Nil => val[c][o].oid = o)
      BY Zenon DEF Filed
    <3>2. CASE c = C(t) /\ o = Entry(t).oid
      BY <2>3, <3>2, Zenon DEF TypeOK
    <3>3. CASE ~(c = C(t) /\ o = Entry(t).oid)
      <4>1. key'[c][o] = key[c][o] /\ val'[c][o] = val[c][o]
        BY <2>3, <3>3 DEF TypeOK
      <4> QED
        BY <3>1, <4>1, Zenon
    <3> QED
      BY <3>2, <3>3, Zenon
  <2> QED
    BY <2>1, <2>2, <2>3, Zenon
<1> QED
  BY <1>1, <1>9, <1>10, <1>12, MapsStay, Zenon

(* Every step keeps what cache_get() has found in the map.                  *)
LEMMA PeekedStep ==
  ASSUME IInv, [Next]_vars
  PROVE  Peeked'
<1> USE DEF IInv
<1>0. \A t \in Thread : C(t) \in Cache /\ O(t) \in Oid
  BY Fields, Zenon
<1>a. ASSUME NEW t \in Thread, NEW u \in Thread, pc[t] \in Writing, pc[u] \in Reading
      PROVE  C(t) # C(u)
  <2>1. wr[C(t)] = t /\ u \in rd[C(u)]
    BY <1>0, <1>a, Zenon DEF Locked
  <2>2. rd[C(t)] = {}
    BY <1>0, <2>1, CacheAssumption DEF Locked
  <2> QED
    BY <2>1, <2>2, Zenon
<1>b. ASSUME NEW t \in Thread, pc[t] \in Writing, pc'[t] \in Writing,
             UNCHANGED <<call, peek>>, \A u \in Thread \ {t} : pc'[u] = pc[u],
             \A d \in Cache \ {C(t)} : val'[d] = val[d]
      PROVE  Peeked'
  <2>1. Reading \cap Writing = {}
    BY Zenon DEF Reading, Writing
  <2>2. ASSUME NEW u \in Thread, peek'[u] # Nil
        PROVE  pc'[u] \in Reading /\ val'[C(u)'][O(u)'] = peek'[u]
    <3>1. pc[u] \in Reading /\ val[C(u)][O(u)] = peek[u] /\ u # t
      BY <1>b, <2>1, <2>2, Zenon DEF Peeked
    <3>2. C(u) # C(t) /\ C(u) \in Cache
      BY <1>0, <1>a, <1>b, <3>1, Zenon
    <3>3. C(u)' = C(u) /\ O(u)' = O(u)
      BY <1>b, Zenon DEF C, O
    <3> QED
      BY <1>b, <3>1, <3>2, <3>3, Zenon
  <2> QED
    BY <2>2, Zenon DEF Peeked
<1>c. ASSUME NEW t \in Thread, UNCHANGED cached, peek'[t] = Nil,
             \A u \in Thread \ {t} : pc'[u] = pc[u] /\ call'[u] = call[u] /\ peek'[u] = peek[u]
      PROVE  Peeked'
  BY <1>c, Zenon DEF Peeked, C, O, cached
<1>d. ASSUME NEW t \in Thread, pc[t] \notin Reading, peek' = peek, UNCHANGED cached,
             \A u \in Thread \ {t} : pc'[u] = pc[u] /\ call'[u] = call[u]
      PROVE  Peeked'
  <2>1. peek'[t] = Nil
    BY <1>d, Zenon DEF Peeked
  <2> QED
    BY <1>c, <1>d, <2>1, Zenon
<1>1. ASSUME NEW t \in Thread, Invoke(t) PROVE Peeked'
  <2>1. pc[t] \notin Reading /\ peek' = peek /\ UNCHANGED cached
    BY <1>1, Zenon DEF Invoke, Reading, hands
  <2>2. \A u \in Thread \ {t} : pc'[u] = pc[u] /\ call'[u] = call[u]
    BY <1>1, Zenon DEF Invoke, Goto, TypeOK
  <2> QED
    BY <1>d, <2>1, <2>2, Zenon
<1>2. ASSUME NEW t \in Thread, CacheGet(t) PROVE Peeked'
  <2>1. C(t)' = C(t) /\ O(t)' = O(t) /\ val' = val /\ call' = call
    BY <1>2, Zenon DEF CacheGet, C, O, cached
  <2>2. CASE ~enabled
    BY <1>2, <2>1, <2>2, Zenon DEF CacheGet, Goto, Peeked, TypeOK, Reading, C, O
  <2>3. CASE enabled
    <3>1. pc' = [pc EXCEPT ![t] = pc'[t]] /\ pc'[t] \in Reading
      BY <1>2, <2>3, Zenon DEF CacheGet, Goto, TypeOK, Reading
    <3>2. \E x : peek' = [peek EXCEPT ![t] = x] /\ (x # Nil => x = Find(C(t), O(t)))
      BY <1>2, <2>3, Zenon DEF CacheGet
    <3>3. Find(C(t), O(t)) # Nil => Find(C(t), O(t)) = val[C(t)][O(t)]
      BY Zenon DEF Find
    <3>4. peek'[t] # Nil => val[C(t)][O(t)] = peek'[t]
      BY <3>2, <3>3, Zenon DEF TypeOK
    <3>5. \A u \in Thread \ {t} : pc'[u] = pc[u] /\ peek'[u] = peek[u]
      BY <3>1, <3>2, Zenon DEF TypeOK
    <3> QED
      BY <2>1, <3>1, <3>4, <3>5, Zenon DEF Peeked, C, O
  <2> QED
    BY <2>2, <2>3, Zenon
<1>3. ASSUME NEW t \in Thread, CacheRef(t) PROVE Peeked'
  <2>1. peek'[t] = Nil /\ UNCHANGED cached
    BY <1>3, Zenon DEF CacheRef, TypeOK
  <2>2. \A u \in Thread \ {t} : pc'[u] = pc[u] /\ call'[u] = call[u] /\ peek'[u] = peek[u]
    BY <1>3, Zenon DEF CacheRef, Goto, TypeOK
  <2> QED
    BY <1>c, <2>1, <2>2, Zenon
<1>4. ASSUME NEW t \in Thread, Backend(t) PROVE Peeked'
  <2>1. pc[t] \notin Reading /\ peek' = peek /\ UNCHANGED cached
    BY <1>4, Zenon DEF Backend, Reading, hands
  <2>2. \A u \in Thread \ {t} : pc'[u] = pc[u] /\ call'[u] = call[u]
    BY <1>4, Zenon DEF Backend, Goto, Finish, TypeOK
  <2> QED
    BY <1>d, <2>1, <2>2, Zenon
<1>5. ASSUME NEW t \in Thread, Parse(t) PROVE Peeked'
  <2>1. pc[t] \notin Reading /\ peek' = peek /\ UNCHANGED cached
    BY <1>5, Zenon DEF Parse, Reading, hands
  <2>2. \A u \in Thread \ {t} : pc'[u] = pc[u] /\ call'[u] = call[u]
    BY <1>5, Zenon DEF Parse, Goto, TypeOK
  <2> QED
    BY <1>d, <2>1, <2>2, Zenon
<1>6. ASSUME NEW t \in Thread, Check(t) PROVE Peeked'
  <2>1. pc[t] \notin Reading /\ peek' = peek /\ UNCHANGED cached
    BY <1>6, Zenon DEF Check, Reading, hands
  <2>2. \A u \in Thread \ {t} : pc'[u] = pc[u] /\ call'[u] = call[u]
    BY <1>6, Zenon DEF Check, Goto, TypeOK
  <2> QED
    BY <1>d, <2>1, <2>2, Zenon
<1>7. ASSUME NEW t \in Thread, ShouldStore(t) PROVE Peeked'
  <2>1. pc[t] \notin Reading /\ peek' = peek /\ UNCHANGED cached
    BY <1>7, Zenon DEF ShouldStore, Reading, hands
  <2>2. \A u \in Thread \ {t} : pc'[u] = pc[u] /\ call'[u] = call[u]
    BY <1>7 DEF ShouldStore, Goto, Return, Finish, TypeOK
  <2> QED
    BY <1>d, <2>1, <2>2, Zenon
<1>8. ASSUME NEW t \in Thread, WrLock(t) PROVE Peeked'
  <2>1. pc[t] \notin Reading /\ peek' = peek /\ UNCHANGED cached
    BY <1>8, Zenon DEF WrLock, Reading, hands
  <2>2. \A u \in Thread \ {t} : pc'[u] = pc[u] /\ call'[u] = call[u]
    BY <1>8, Zenon DEF WrLock, Goto, TypeOK
  <2> QED
    BY <1>d, <2>1, <2>2, Zenon
<1>9. ASSUME NEW t \in Thread, CacheEvictEntries(t) PROVE Peeked'
  <2>1. PICK E : Dropped(C(t), E)
    BY <1>9, Zenon DEF CacheEvictEntries, ClearCache
  <2>2. pc[t] \in Writing /\ pc'[t] \in Writing /\ \A u \in Thread \ {t} : pc'[u] = pc[u]
    BY <1>9, Zenon DEF CacheEvictEntries, Goto, TypeOK, Writing
  <2>3. \A d \in Cache \ {C(t)} : val'[d] = val[d]
    BY <2>1, Zenon DEF Dropped, TypeOK
  <2> QED
    BY <1>9, <1>b, <2>2, <2>3, Zenon DEF CacheEvictEntries, hands
<1>10. ASSUME NEW t \in Thread, Clear(t) PROVE Peeked'
  <2>1. pc[t] \in Writing /\ pc'[t] \in Writing /\ \A u \in Thread \ {t} : pc'[u] = pc[u]
    BY <1>10, Zenon DEF Clear, Goto, TypeOK, Writing
  <2>2. \A d \in Cache \ {C(t)} : val'[d] = val[d]
    BY <1>10, Zenon DEF Clear, ClearCache, Dropped, TypeOK
  <2> QED
    BY <1>10, <1>b, <2>1, <2>2, Zenon DEF Clear, hands
<1>11. ASSUME NEW t \in Thread, Account(t) PROVE Peeked'
  <2>1. pc[t] \notin Reading /\ peek' = peek /\ UNCHANGED cached
    BY <1>11, Zenon DEF Account, Reading, hands
  <2>2. \A u \in Thread \ {t} : pc'[u] = pc[u] /\ call'[u] = call[u]
    BY <1>11 DEF Account, Goto, Return, Finish, TypeOK
  <2> QED
    BY <1>d, <2>1, <2>2, Zenon
<1>12. ASSUME NEW t \in Thread, Put(t) PROVE Peeked'
  <2>1. pc[t] \in Writing /\ pc'[t] \in Writing /\ \A u \in Thread \ {t} : pc'[u] = pc[u]
    BY <1>12, Zenon DEF Put, Goto, TypeOK, Writing
  <2>2. val' = val \/ val' = [val EXCEPT ![C(t)][Entry(t).oid] = Entry(t)]
    BY <1>12, Zenon DEF Put, Insert, Adopt, Replace, cached
  <2>3. \A d \in Cache \ {C(t)} : val'[d] = val[d]
    BY <2>2, Zenon DEF TypeOK
  <2> QED
    BY <1>12, <1>b, <2>1, <2>3, Zenon DEF Put
<1>13. ASSUME NEW t \in Thread, Drop(t) PROVE Peeked'
  <2>1. pc[t] \notin Reading /\ peek' = peek /\ UNCHANGED cached
    BY <1>13, Zenon DEF Drop, Reading, hands
  <2>2. \A u \in Thread \ {t} : pc'[u] = pc[u] /\ call'[u] = call[u]
    BY <1>13, Zenon DEF Drop, Goto, Finish, TypeOK
  <2> QED
    BY <1>d, <2>1, <2>2, Zenon
<1>14. ASSUME NEW t \in Thread, Free(t) PROVE Peeked'
  <2>1. pc[t] \notin Reading /\ peek' = peek /\ UNCHANGED cached
    BY <1>14, Zenon DEF Free, Reading, hands
  <2>2. \A u \in Thread \ {t} : pc'[u] = pc[u] /\ call'[u] = call[u]
    BY <1>14, Zenon DEF Free, Goto, Finish, TypeOK
  <2> QED
    BY <1>d, <2>1, <2>2, Zenon
<1>15. ASSUME NEW t \in Thread, NEW u \in Thread, Dup(t, u) PROVE Peeked'
  <2>1. pc[t] \notin Reading /\ peek' = peek /\ UNCHANGED cached
    BY <1>15, Zenon DEF Dup, Reading
  <2>2. \A v \in Thread \ {t} : pc'[v] = pc[v] /\ call'[v] = call[v]
    BY <1>15, Zenon DEF Dup, Goto, TypeOK
  <2> QED
    BY <1>d, <2>1, <2>2, Zenon
<1>16. CASE EnableCaching \/ UNCHANGED vars
  BY <1>16, Zenon DEF EnableCaching, vars, Peeked, C, O, hands, cached
<1> QED
  BY <1>1, <1>2, <1>3, <1>4, <1>5, <1>6, <1>7, <1>8, <1>9, <1>10, <1>11, <1>12, <1>13, <1>14,
     <1>15, <1>16, ZenonT(40) DEF Next, Work

-----------------------------------------------------------------------------
(* Every step keeps the types and the rwlocks in order.                    *)

(* A map with one entry changed is a map.                                  *)
LEMMA FileTyped ==
  ASSUME NEW f \in [Cache -> [Oid -> Pointer]], NEW c \in Cache, NEW o \in Oid, NEW p \in Pointer
  PROVE  [f EXCEPT ![c][o] = p] \in [Cache -> [Oid -> Pointer]]
<1>1. [f[c] EXCEPT ![o] = p] \in [Oid -> Pointer]
  BY Zenon
<1> QED
  BY <1>1, Zenon

(* Every step keeps the types.                                              *)
LEMMA TypeStep ==
  ASSUME IInv, [Next]_vars
  PROVE  TypeOK'
<1> USE DEF IInv
<1>0. /\ ref' \in [Object -> Nat] /\ inner' \in [Object -> Pointer]
      /\ NoCall \in Calls /\ Asked \subseteq Calls
      /\ \A t \in Thread : C(t) \in Cache /\ O(t) \in Oid
  BY RefStep, KeptStep, NoCallIsACall, CacheAssumption, Fields, Zenon
<1>1. ASSUME NEW t \in Thread, Invoke(t) PROVE TypeOK'
  <2>1. PICK k \in Asked : /\ k.do # "none" /\ call' = [call EXCEPT ![t] = k]
                         /\ Goto(t, CASE k.do = "lookup" -> "get_any"
                                      [] k.do = "read" -> "get_raw"
                                      [] k.do = "clear" -> "clear_lock")
    BY <1>1, Zenon DEF Invoke
  <2>2. k \in Calls /\ k.do \in {"lookup", "read", "clear"}
    BY <1>0, <2>1, Zenon DEF Calls
  <2> QED
    BY <1>0, <1>1, <2>1, <2>2, Zenon
    DEF Invoke, Goto, TypeOK, Pc, Waiting, Reading, Writing, C, O, cached, hands, locks,
        Pointer
<1>2. ASSUME NEW t \in Thread, CacheGet(t) PROVE TypeOK'
  <2>1. Find(C(t), O(t)) \in Pointer
    BY <1>0 DEF Find, TypeOK, Pointer
  <2>2. pc' \in [Thread -> Pc] /\ call' \in [Thread -> Calls]
    BY <1>0, <1>2, <2>1, Zenon DEF CacheGet, Goto, TypeOK, Pc, Waiting, Reading, Writing
  <2>3. key' \in [Cache -> [Oid -> Pointer]] /\ val' \in [Cache -> [Oid -> Pointer]]
    BY <1>0, <1>2, <2>1, Zenon DEF CacheGet, TypeOK, cached
  <2>4. /\ odb_obj' \in [Thread -> Pointer] /\ object' \in [Thread -> Pointer]
        /\ peek' \in [Thread -> Pointer]
    <3>1. \E x \in Pointer : peek' = peek \/ peek' = [peek EXCEPT ![t] = x]
      BY <1>2, <2>1, Zenon DEF CacheGet, Pointer
    <3>2. peek' \in [Thread -> Pointer]
      BY <3>1, Zenon DEF TypeOK
    <3> QED
      BY <1>2, <3>2, Zenon DEF CacheGet, TypeOK
  <2>5. /\ rd' \in [Cache -> SUBSET Thread] /\ wr' \in [Cache -> Thread \cup {Nil}]
        /\ enabled' \in BOOLEAN
    <3>1. rd' = rd \/ rd' = [rd EXCEPT ![C(t)] = rd[C(t)] \cup {t}]
      BY <1>2, Zenon DEF CacheGet, locks
    <3>2. rd \in [Cache -> SUBSET Thread] /\ rd[C(t)] \cup {t} \in SUBSET Thread
      BY <1>0, Zenon DEF TypeOK
    <3>3. rd' \in [Cache -> SUBSET Thread]
      BY <3>1, <3>2, Zenon
    <3> QED
      BY <1>2, <3>3, Zenon DEF CacheGet, TypeOK, locks
  <2> QED
    BY <1>0, <2>2, <2>3, <2>4, <2>5, ZenonT(40) DEF TypeOK
<1>3. ASSUME NEW t \in Thread, CacheRef(t) PROVE TypeOK'
  <2>1. PICK w \in {"get_raw", "backend", "have", "parse"} : pc' = [pc EXCEPT ![t] = w]
    BY <1>3, Zenon DEF CacheRef, Goto
  <2>2. w \in Pc
    BY <2>1, Zenon DEF Pc, Waiting, Reading, Writing
  <2>3. pc' \in [Thread -> Pc]
    BY <2>1, <2>2, Zenon DEF TypeOK
  <2>4. call' \in [Thread -> Calls]
    BY <1>0, <1>3, Zenon DEF CacheRef, TypeOK
  <2>5. key' \in [Cache -> [Oid -> Pointer]] /\ val' \in [Cache -> [Oid -> Pointer]]
    BY <1>3, Zenon DEF CacheRef, TypeOK, cached
  <2>6. /\ odb_obj' \in [Thread -> Pointer] /\ object' \in [Thread -> Pointer]
        /\ peek' \in [Thread -> Pointer]
    BY <1>3, Zenon DEF CacheRef, TypeOK, Pointer
  <2>7. /\ rd' \in [Cache -> SUBSET Thread] /\ wr' \in [Cache -> Thread \cup {Nil}]
        /\ enabled' \in BOOLEAN
    BY <1>3, Zenon DEF CacheRef, TypeOK
  <2> QED
    BY <1>0, <2>3, <2>4, <2>5, <2>6, <2>7, Zenon DEF TypeOK
<1>4. ASSUME NEW t \in Thread, Backend(t) PROVE TypeOK'
  <2>1. Blocks(O(t), "RAW") # {} => Malloc(O(t), "RAW") \in Object
    BY <1>0, MallocIsFree, Zenon DEF Forms
  <2>2. pc' \in [Thread -> Pc] /\ call' \in [Thread -> Calls]
    <3>1. PICK w \in {"idle", "check"} : pc' = [pc EXCEPT ![t] = w]
      BY <1>4, Zenon DEF Backend, Goto, Finish
    <3>2. w \in Pc
      BY <3>1, Zenon DEF Pc
    <3>3. call' = call \/ call' = [call EXCEPT ![t] = NoCall]
      BY <1>4, Zenon DEF Backend, Finish
    <3> QED
      BY <1>0, <3>1, <3>2, <3>3, Zenon DEF TypeOK
  <2>3. key' \in [Cache -> [Oid -> Pointer]] /\ val' \in [Cache -> [Oid -> Pointer]]
    BY <1>0, <1>4, <2>1, ZenonT(40) DEF Backend, TypeOK, cached
  <2>4. /\ odb_obj' \in [Thread -> Pointer] /\ object' \in [Thread -> Pointer]
        /\ peek' \in [Thread -> Pointer]
    BY <1>0, <1>4, <2>1, ZenonT(40) DEF Backend, TypeOK, Pointer, hands
  <2>5. /\ rd' \in [Cache -> SUBSET Thread] /\ wr' \in [Cache -> Thread \cup {Nil}]
        /\ enabled' \in BOOLEAN
    BY <1>0, <1>4, <2>1, Zenon DEF Backend, TypeOK, locks
  <2> QED
    BY <1>0, <2>2, <2>3, <2>4, <2>5, Zenon DEF TypeOK
<1>5. ASSUME NEW t \in Thread, Parse(t) PROVE TypeOK'
  <2>1. odb_obj[t].oid \in Oid
    BY <1>5, RawInHand, Zenon DEF Parse
  <2>2. Blocks(odb_obj[t].oid, "PARSED") # {} => Malloc(odb_obj[t].oid, "PARSED") \in Object
    BY <2>1, MallocIsFree, Zenon DEF Forms
  <2>3. pc' \in [Thread -> Pc] /\ call' \in [Thread -> Calls]
    BY <1>0, <1>5, <2>2, ZenonT(40) DEF Parse, Goto, TypeOK, Pc, Waiting, Reading, Writing
  <2>4. key' \in [Cache -> [Oid -> Pointer]] /\ val' \in [Cache -> [Oid -> Pointer]]
    BY <1>0, <1>5, <2>2, Zenon DEF Parse, TypeOK, cached
  <2>5. /\ odb_obj' \in [Thread -> Pointer] /\ object' \in [Thread -> Pointer]
        /\ peek' \in [Thread -> Pointer]
    BY <1>0, <1>5, <2>2, ZenonT(40) DEF Parse, TypeOK, Pointer, hands
  <2>6. /\ rd' \in [Cache -> SUBSET Thread] /\ wr' \in [Cache -> Thread \cup {Nil}]
        /\ enabled' \in BOOLEAN
    BY <1>0, <1>5, <2>2, Zenon DEF Parse, TypeOK, locks
  <2> QED
    BY <1>0, <2>3, <2>4, <2>5, <2>6, Zenon DEF TypeOK
<1>6. ASSUME NEW t \in Thread, Check(t) PROVE TypeOK'
  BY <1>0, <1>6, Zenon
  DEF Check, Goto, TypeOK, Pc, Waiting, Reading, Writing, C, O, cached, hands, locks, Pointer
<1>7. ASSUME NEW t \in Thread, ShouldStore(t) PROVE TypeOK'
  <2>1. PICK w \in {"store_lock", "idle", "drop", "parse", "have"} : pc' = [pc EXCEPT ![t] = w]
    BY <1>7, Zenon DEF ShouldStore, Return, Finish, Goto
  <2>2. w \in Pc
    BY <2>1, Zenon DEF Pc, Waiting, Reading, Writing
  <2>3. pc' \in [Thread -> Pc]
    BY <2>1, <2>2, Zenon DEF TypeOK
  <2>4. call' \in [Thread -> Calls]
    BY <1>0, <1>7, Zenon DEF ShouldStore, Return, Finish, TypeOK
  <2>5. key' \in [Cache -> [Oid -> Pointer]] /\ val' \in [Cache -> [Oid -> Pointer]]
    BY <1>7, Zenon DEF ShouldStore, TypeOK, cached
  <2>6. /\ odb_obj' \in [Thread -> Pointer] /\ object' \in [Thread -> Pointer]
        /\ peek' \in [Thread -> Pointer]
    BY <1>7, Zenon DEF ShouldStore, TypeOK, hands
  <2>7. /\ rd' \in [Cache -> SUBSET Thread] /\ wr' \in [Cache -> Thread \cup {Nil}]
        /\ enabled' \in BOOLEAN
    BY <1>7, Zenon DEF ShouldStore, TypeOK, locks
  <2> QED
    BY <1>0, <2>3, <2>4, <2>5, <2>6, <2>7, Zenon DEF TypeOK
<1>8. ASSUME NEW t \in Thread, WrLock(t) PROVE TypeOK'
  BY <1>0, <1>8, Zenon
  DEF WrLock, Goto, TypeOK, Pc, Waiting, Reading, Writing, C, O, cached, hands, locks, Pointer
<1>9. ASSUME NEW t \in Thread, CacheEvictEntries(t) PROVE TypeOK'
  <2>1. PICK E : Dropped(C(t), E)
    BY <1>9, Zenon DEF CacheEvictEntries, ClearCache
  <2>2. pc' \in [Thread -> Pc] /\ call' \in [Thread -> Calls]
    BY <1>0, <1>9, ZenonT(40) DEF CacheEvictEntries, Goto, TypeOK, Pc, Waiting, Reading, Writing
  <2>3. key' \in [Cache -> [Oid -> Pointer]] /\ val' \in [Cache -> [Oid -> Pointer]]
    BY <1>0, <2>1 DEF Dropped, TypeOK, Pointer
  <2>4. /\ odb_obj' \in [Thread -> Pointer] /\ object' \in [Thread -> Pointer]
        /\ peek' \in [Thread -> Pointer]
    BY <1>0, <1>9, Zenon DEF CacheEvictEntries, TypeOK, Pointer, hands
  <2>5. /\ rd' \in [Cache -> SUBSET Thread] /\ wr' \in [Cache -> Thread \cup {Nil}]
        /\ enabled' \in BOOLEAN
    BY <1>0, <1>9, Zenon DEF CacheEvictEntries, TypeOK, locks
  <2> QED
    BY <1>0, <2>2, <2>3, <2>4, <2>5, Zenon DEF TypeOK
<1>10. ASSUME NEW t \in Thread, Clear(t) PROVE TypeOK'
  <2>1. Dropped(C(t), Cached(C(t)))
    BY <1>10, Zenon DEF Clear, ClearCache
  <2>2. pc' \in [Thread -> Pc] /\ call' \in [Thread -> Calls]
    BY <1>0, <1>10, ZenonT(40) DEF Clear, Goto, TypeOK, Pc, Writing
  <2>3. key' \in [Cache -> [Oid -> Pointer]] /\ val' \in [Cache -> [Oid -> Pointer]]
    BY <1>0, <2>1 DEF Dropped, TypeOK, Pointer
  <2>4. /\ odb_obj' \in [Thread -> Pointer] /\ object' \in [Thread -> Pointer]
        /\ peek' \in [Thread -> Pointer]
    BY <1>10, Zenon DEF Clear, TypeOK, hands
  <2>5. /\ rd' \in [Cache -> SUBSET Thread] /\ wr' \in [Cache -> Thread \cup {Nil}]
        /\ enabled' \in BOOLEAN
    BY <1>10, Zenon DEF Clear, TypeOK, locks
  <2> QED
    BY <1>0, <2>2, <2>3, <2>4, <2>5, Zenon DEF TypeOK
<1>11. ASSUME NEW t \in Thread, Account(t) PROVE TypeOK'
  <2>1. PICK w \in {"put", "idle", "drop", "parse", "have"} : pc' = [pc EXCEPT ![t] = w]
    BY <1>11, Zenon DEF Account, Return, Finish, Goto
  <2>2. w \in Pc
    BY <2>1, Zenon DEF Pc, Waiting, Reading, Writing
  <2>3. pc' \in [Thread -> Pc]
    BY <2>1, <2>2, Zenon DEF TypeOK
  <2>4. call' \in [Thread -> Calls]
    BY <1>0, <1>11, Zenon DEF Account, Return, Finish, TypeOK
  <2>5. key' \in [Cache -> [Oid -> Pointer]] /\ val' \in [Cache -> [Oid -> Pointer]]
    BY <1>11, Zenon DEF Account, TypeOK, cached
  <2>6. /\ odb_obj' \in [Thread -> Pointer] /\ object' \in [Thread -> Pointer]
        /\ peek' \in [Thread -> Pointer]
    BY <1>11, Zenon DEF Account, TypeOK, hands
  <2>7. /\ rd' \in [Cache -> SUBSET Thread] /\ wr' \in [Cache -> Thread \cup {Nil}]
        /\ enabled' \in BOOLEAN
    BY <1>11, Zenon DEF Account, TypeOK
  <2> QED
    BY <1>0, <2>3, <2>4, <2>5, <2>6, <2>7, Zenon DEF TypeOK
<1>12. ASSUME NEW t \in Thread, Put(t) PROVE TypeOK'
  <2> DEFINE stored == Find(C(t), Entry(t).oid)
  <2>1. odb_obj[t] # Nil
    BY <1>12, RawInHand, Zenon DEF Put
  <2>2. Entry(t) \in Pointer /\ Entry(t).oid \in Oid
    BY <2>1, Fields, ZenonT(40) DEF TypeOK, Pointer, Entry
  <2>3. stored \in Pointer
    BY <1>0, <2>2 DEF Find, TypeOK, Pointer
  <2>4. pc' \in [Thread -> Pc] /\ call' \in [Thread -> Calls]
    BY <1>0, <1>12, Zenon DEF Put, Goto, TypeOK, Pc, Waiting, Reading, Writing
  <2>5. key' \in [Cache -> [Oid -> Pointer]] /\ val' \in [Cache -> [Oid -> Pointer]]
    <3>1. \/ UNCHANGED cached
          \/ /\ key' = [key EXCEPT ![C(t)][Entry(t).oid] = Entry(t)]
             /\ val' = [val EXCEPT ![C(t)][Entry(t).oid] = Entry(t)]
      BY <1>12, Zenon DEF Put, Insert, Adopt, Replace, cached
    <3> QED
      <4>1. C(t) \in Cache /\ key \in [Cache -> [Oid -> Pointer]] /\ val \in [Cache -> [Oid -> Pointer]]
        BY <1>0, Zenon DEF TypeOK
      <4>2. CASE UNCHANGED cached
        BY <4>1, <4>2, Zenon DEF cached
      <4>3. CASE /\ key' = [key EXCEPT ![C(t)][Entry(t).oid] = Entry(t)]
                 /\ val' = [val EXCEPT ![C(t)][Entry(t).oid] = Entry(t)]
        <5>1. key' \in [Cache -> [Oid -> Pointer]]
          BY <2>2, <4>1, <4>3, FileTyped, Zenon
        <5>2. val' \in [Cache -> [Oid -> Pointer]]
          BY <2>2, <4>1, <4>3, FileTyped, Zenon
        <5> QED
          BY <5>1, <5>2, Zenon
      <4> QED
        BY <3>1, <4>2, <4>3, Zenon
  <2>6. /\ odb_obj' \in [Thread -> Pointer] /\ object' \in [Thread -> Pointer]
        /\ peek' \in [Thread -> Pointer]
    <3>1. UNCHANGED <<odb_obj, object>> \/ Adopt(t, stored)
      BY <1>12, Zenon DEF Put, Insert, Replace
    <3> QED
      BY <1>12, <2>3, <3>1, Zenon DEF Adopt, Put, TypeOK
  <2>7. /\ rd' \in [Cache -> SUBSET Thread] /\ wr' \in [Cache -> Thread \cup {Nil}]
        /\ enabled' \in BOOLEAN
    BY <1>0, <1>12, Zenon DEF Put, TypeOK, locks
  <2> QED
    BY <1>0, <2>4, <2>5, <2>6, <2>7, ZenonT(40) DEF TypeOK
<1>13. ASSUME NEW t \in Thread, Drop(t) PROVE TypeOK'
  <2>1. pc' \in [Thread -> Pc] /\ call' \in [Thread -> Calls]
    BY <1>0, <1>13, ZenonT(40) DEF Drop, Goto, Finish, TypeOK, Pc, Waiting, Reading, Writing
  <2>2. key' \in [Cache -> [Oid -> Pointer]] /\ val' \in [Cache -> [Oid -> Pointer]]
    BY <1>0, <1>13, Zenon DEF Drop, TypeOK, cached
  <2>3. /\ odb_obj' \in [Thread -> Pointer] /\ object' \in [Thread -> Pointer]
        /\ peek' \in [Thread -> Pointer]
    BY <1>0, <1>13, Zenon DEF Drop, TypeOK, Pointer, hands
  <2>4. /\ rd' \in [Cache -> SUBSET Thread] /\ wr' \in [Cache -> Thread \cup {Nil}]
        /\ enabled' \in BOOLEAN
    BY <1>0, <1>13, Zenon DEF Drop, TypeOK, locks
  <2> QED
    BY <1>0, <2>1, <2>2, <2>3, <2>4, Zenon DEF TypeOK
<1>14. ASSUME NEW t \in Thread, Free(t) PROVE TypeOK'
  <2>1. PICK w \in {"idle"} : pc' = [pc EXCEPT ![t] = w]
    BY <1>14, Zenon DEF Free, Finish, Goto
  <2>2. w \in Pc
    BY <2>1, Zenon DEF Pc, Waiting, Reading, Writing
  <2>3. pc' \in [Thread -> Pc]
    BY <2>1, <2>2, Zenon DEF TypeOK
  <2>4. call' \in [Thread -> Calls]
    BY <1>0, <1>14, Zenon DEF Free, Finish, TypeOK
  <2>5. key' \in [Cache -> [Oid -> Pointer]] /\ val' \in [Cache -> [Oid -> Pointer]]
    BY <1>14, Zenon DEF Free, TypeOK, cached
  <2>6. /\ odb_obj' \in [Thread -> Pointer] /\ object' \in [Thread -> Pointer]
        /\ peek' \in [Thread -> Pointer]
    BY <1>14, Zenon DEF Free, TypeOK, Pointer
  <2>7. /\ rd' \in [Cache -> SUBSET Thread] /\ wr' \in [Cache -> Thread \cup {Nil}]
        /\ enabled' \in BOOLEAN
    BY <1>14, Zenon DEF Free, TypeOK, locks
  <2> QED
    BY <1>0, <2>3, <2>4, <2>5, <2>6, <2>7, ZenonT(40) DEF TypeOK
<1>15. ASSUME NEW t \in Thread, NEW u \in Thread, Dup(t, u) PROVE TypeOK'
  BY <1>0, <1>15, Zenon
  DEF Dup, Goto, TypeOK, Pc, Waiting, Reading, Writing, C, O, cached, hands, locks, Pointer
<1>16. CASE EnableCaching \/ UNCHANGED vars
  BY <1>0, <1>16, ZenonT(40)
  DEF EnableCaching, vars, TypeOK, Pc, Waiting, Reading, Writing, C, O, cached, hands, locks,
      Pointer
<1> QED
  BY <1>1, <1>2, <1>3, <1>4, <1>5, <1>6, <1>7, <1>8, <1>9, <1>10, <1>11, <1>12, <1>13, <1>14,
     <1>15, <1>16, ZenonT(40) DEF Next, Work

(* A step of t that leaves the locks alone and neither enters nor leaves a  *)
(* critical section.                                                        *)
LEMMA LockFrame ==
  ASSUME TypeOK, Locked, NEW t \in Thread, UNCHANGED locks, NEW w, pc' = [pc EXCEPT ![t] = w],
         \A u \in Thread \ {t} : call'[u] = call[u],
         \/ pc[t] \notin Reading \cup Writing /\ w \notin Reading \cup Writing
         \/ pc[t] \in Writing /\ w \in Writing /\ call'[t] = call[t]
  PROVE  Locked'
<1>1. \A u \in Thread : pc'[u] = IF u = t THEN w ELSE pc[u]
  BY Zenon DEF TypeOK
<1>2. Reading \cap Writing = {}
  BY Zenon DEF Reading, Writing
<1>3. rd' = rd /\ wr' = wr
  BY Zenon DEF locks
<1> QED
  BY <1>1, <1>2, <1>3 DEF Locked, C

(* Every step keeps the locks in order.                                     *)
LEMMA LockedStep ==
  ASSUME IInv, [Next]_vars
  PROVE  Locked'
<1> USE DEF IInv
<1>0. Nil \notin Thread /\ \A t \in Thread : C(t) \in Cache
  BY CacheAssumption, Fields, Zenon
<1>1. ASSUME NEW t \in Thread, Invoke(t) PROVE Locked'
  <2>1. PICK k \in Asked : /\ k.do # "none" /\ call' = [call EXCEPT ![t] = k]
                         /\ Goto(t, CASE k.do = "lookup" -> "get_any"
                                      [] k.do = "read" -> "get_raw"
                                      [] k.do = "clear" -> "clear_lock")
    BY <1>1, Zenon DEF Invoke
  <2>2. k.do \in {"lookup", "read", "clear"}
    BY <2>1, CacheAssumption, Zenon DEF Calls
  <2>3. PICK w : w \in Waiting /\ pc' = [pc EXCEPT ![t] = w]
    BY <2>1, <2>2, Zenon DEF Goto, Waiting
  <2>4. pc[t] \notin Reading \cup Writing /\ w \notin Reading \cup Writing
    BY <1>1, <2>3, Zenon DEF Invoke, Waiting, Reading, Writing
  <2> QED
    BY <1>1, <2>1, <2>3, <2>4, LockFrame, Zenon DEF Invoke, TypeOK
<1>2. ASSUME NEW t \in Thread, CacheGet(t) PROVE Locked'
  <2>1. pc[t] \notin Reading \cup Writing
    BY <1>2, Zenon DEF CacheGet, Reading, Writing
  <2>2. CASE ~enabled
    <3>1. PICK w : w \in {"get_raw", "backend"} /\ pc' = [pc EXCEPT ![t] = w] /\ UNCHANGED locks
      BY <1>2, <2>2, Zenon DEF CacheGet, Goto
    <3>2. w \notin Reading \cup Writing
      BY <3>1, Zenon DEF Reading, Writing
    <3> QED
      BY <1>2, <2>1, <3>1, <3>2, LockFrame, Zenon DEF CacheGet
  <2>3. CASE enabled
    <3>1. PICK w \in Reading : pc' = [pc EXCEPT ![t] = w]
      BY <1>2, <2>3, Zenon DEF CacheGet, Goto, Reading
    <3>2. /\ wr[C(t)] = Nil /\ wr' = wr /\ call' = call
          /\ rd' = [rd EXCEPT ![C(t)] = rd[C(t)] \cup {t}]
      BY <1>2, <2>3, Zenon DEF CacheGet
    <3>3. \A u \in Thread : pc'[u] = IF u = t THEN w ELSE pc[u]
      BY <3>1, Zenon DEF TypeOK
    <3>4. \A c \in Cache : rd'[c] = IF c = C(t) THEN rd[c] \cup {t} ELSE rd[c]
      BY <1>0, <3>2, Zenon DEF TypeOK
    <3>5. Reading \cap Writing = {}
      BY Zenon DEF Reading, Writing
    <3>6. \A u \in Thread : C(u)' = C(u)
      BY <3>2, Zenon DEF C
    <3>7. \A c \in Cache, u \in Thread : wr'[c] = u <=> pc'[u] \in Writing /\ C(u)' = c
      BY <2>1, <3>1, <3>2, <3>3, <3>5, <3>6, SMTT(30) DEF Locked
    <3>8. ASSUME NEW c \in Cache, NEW u \in Thread
          PROVE  u \in rd'[c] <=> pc'[u] \in Reading /\ C(u)' = c
      <4>1. u \in rd[c] <=> pc[u] \in Reading /\ C(u) = c
        BY Zenon DEF Locked
      <4>2. u \in rd'[c] <=> u \in rd[c] \/ (c = C(t) /\ u = t)
        BY <3>4, Zenon
      <4>3. CASE u = t
        BY <2>1, <3>1, <3>3, <3>6, <4>1, <4>2, <4>3, Zenon
      <4>4. CASE u # t
        BY <3>3, <3>6, <4>1, <4>2, <4>4, Zenon
      <4> QED
        BY <4>3, <4>4, Zenon
    <3>9. \A c \in Cache : wr'[c] # Nil => rd'[c] = {}
      BY <3>2, <3>4, ZenonT(40) DEF Locked
    <3> QED
      BY <3>7, <3>8, <3>9, Zenon DEF Locked
  <2> QED
    BY <2>2, <2>3, Zenon
<1>3. ASSUME NEW t \in Thread, CacheRef(t) PROVE Locked'
  BY <1>0, <1>3 DEF CacheRef, Goto, Locked, TypeOK, Waiting, Reading, Writing, C, locks
<1>4. ASSUME NEW t \in Thread, Backend(t) PROVE Locked'
  <2>1. PICK w : w \in {"idle", "check"} /\ pc' = [pc EXCEPT ![t] = w]
    BY <1>4, Zenon DEF Backend, Finish, Goto
  <2>2. pc[t] \notin Reading \cup Writing /\ w \notin Reading \cup Writing
    BY <1>4, <2>1, Zenon DEF Backend, Reading, Writing
  <2>3. \A u \in Thread \ {t} : call'[u] = call[u]
    BY <1>4, Zenon DEF Backend, Finish, TypeOK
  <2> QED
    BY <1>4, <2>1, <2>2, <2>3, LockFrame, Zenon DEF Backend
<1>5. ASSUME NEW t \in Thread, Parse(t) PROVE Locked'
  <2>1. PICK w \in {"drop", "check"} : pc' = [pc EXCEPT ![t] = w]
    BY <1>5, Zenon DEF Parse, Goto
  <2>2. pc[t] \notin Reading \cup Writing /\ w \notin Reading \cup Writing
    BY <1>5, <2>1, Zenon DEF Parse, Reading, Writing
  <2>3. \A v \in Thread \ {t} : call'[v] = call[v]
    BY <1>5, Zenon DEF Parse, Goto, TypeOK
  <2> QED
    BY <1>5, <2>1, <2>2, <2>3, LockFrame, Zenon DEF Parse
<1>6. ASSUME NEW t \in Thread, Check(t) PROVE Locked'
  <2>1. PICK w \in {"clear_lock", "should_store"} : pc' = [pc EXCEPT ![t] = w]
    BY <1>6, Zenon DEF Check, Goto
  <2>2. pc[t] \notin Reading \cup Writing /\ w \notin Reading \cup Writing
    BY <1>6, <2>1, Zenon DEF Check, Reading, Writing
  <2>3. \A v \in Thread \ {t} : call'[v] = call[v]
    BY <1>6, Zenon DEF Check, Goto, TypeOK
  <2> QED
    BY <1>6, <2>1, <2>2, <2>3, LockFrame, Zenon DEF Check
<1>7. ASSUME NEW t \in Thread, ShouldStore(t) PROVE Locked'
  <2>1. PICK w \in {"store_lock", "idle", "drop", "parse", "have"} : pc' = [pc EXCEPT ![t] = w]
    BY <1>7, Zenon DEF ShouldStore, Return, Finish, Goto
  <2>2. pc[t] \notin Reading \cup Writing /\ w \notin Reading \cup Writing
    BY <1>7, <2>1, Zenon DEF ShouldStore, Reading, Writing
  <2>3. \A u \in Thread \ {t} : call'[u] = call[u]
    BY <1>7, Zenon DEF ShouldStore, Return, Finish, TypeOK
  <2> QED
    BY <1>7, <2>1, <2>2, <2>3, LockFrame, Zenon DEF ShouldStore
<1>8. ASSUME NEW t \in Thread, WrLock(t) PROVE Locked'
  BY <1>0, <1>8 DEF WrLock, Goto, Locked, TypeOK, Waiting, Reading, Writing, C, locks
<1>9. ASSUME NEW t \in Thread, CacheEvictEntries(t) PROVE Locked'
  <2>1. pc' = [pc EXCEPT ![t] = "evicted"] /\ call' = call /\ UNCHANGED locks
    BY <1>9, Zenon DEF CacheEvictEntries, Goto
  <2>2. pc[t] \in Writing /\ "evicted" \in Writing
    BY <1>9, Zenon DEF CacheEvictEntries, Writing
  <2> QED
    BY <2>1, <2>2, LockFrame, Zenon
<1>10. ASSUME NEW t \in Thread, Clear(t) PROVE Locked'
  <2>1. pc' = [pc EXCEPT ![t] = "cleared"] /\ pc[t] \in Writing /\ "cleared" \in Writing
    BY <1>10, Zenon DEF Clear, Goto, Writing
  <2>2. call' = call /\ UNCHANGED locks
    BY <1>10, Zenon DEF Clear
  <2> QED
    BY <2>1, <2>2, LockFrame, Zenon
<1>11. ASSUME NEW t \in Thread, Account(t) PROVE Locked'
  <2>1. pc[t] \in Writing
    BY <1>11, Zenon DEF Account, Writing
  <2>2. CASE pc[t] = "evicted"
    <3>1. pc' = [pc EXCEPT ![t] = "put"] /\ call' = call /\ UNCHANGED locks
      BY <1>11, <2>2, Zenon DEF Account, Goto, locks
    <3>2. "put" \in Writing
      BY Zenon DEF Writing
    <3> QED
      BY <2>1, <3>1, <3>2, LockFrame, Zenon
  <2>3. CASE pc[t] # "evicted"
    <3>1. wr' = [wr EXCEPT ![C(t)] = Nil] /\ rd' = rd /\ Return(t)
      BY <1>11, <2>3, Zenon DEF Account
    <3>2. PICK w : w \in {"idle", "drop", "parse", "have"} /\ pc' = [pc EXCEPT ![t] = w]
      BY <3>1, Zenon DEF Return, Finish, Goto
    <3>3. w \notin Reading \cup Writing
      BY <3>2, Zenon DEF Reading, Writing
    <3>4. \A u \in Thread \ {t} : call'[u] = call[u]
      BY <3>1, Zenon DEF Return, Finish, TypeOK
    <3>5. \A u \in Thread : pc'[u] = IF u = t THEN w ELSE pc[u]
      BY <3>2, Zenon DEF TypeOK
    <3>6. \A c \in Cache : wr'[c] = IF c = C(t) THEN Nil ELSE wr[c]
      BY <1>0, <3>1, Zenon DEF TypeOK
    <3>7. Reading \cap Writing = {}
      BY Zenon DEF Reading, Writing
    <3> QED
      BY <1>0, <2>1, <3>1, <3>3, <3>4, <3>5, <3>6, <3>7, SMTT(30) DEF Locked, C
  <2> QED
    BY <2>2, <2>3, Zenon
<1>12. ASSUME NEW t \in Thread, Put(t) PROVE Locked'
  <2>1. pc' = [pc EXCEPT ![t] = "stored"] /\ call' = call /\ UNCHANGED locks
    BY <1>12, Zenon DEF Put, Goto
  <2>2. pc[t] \in Writing /\ "stored" \in Writing
    BY <1>12, Zenon DEF Put, Writing
  <2> QED
    BY <2>1, <2>2, LockFrame, Zenon
<1>13. ASSUME NEW t \in Thread, Drop(t) PROVE Locked'
  <2>1. PICK w \in {"idle", "have"} : pc' = [pc EXCEPT ![t] = w]
    BY <1>13, Zenon DEF Drop, Finish, Goto
  <2>2. pc[t] \notin Reading \cup Writing /\ w \notin Reading \cup Writing
    BY <1>13, <2>1, Zenon DEF Drop, Reading, Writing
  <2>3. \A u \in Thread \ {t} : call'[u] = call[u]
    BY <1>13, Zenon DEF Drop, Finish, TypeOK
  <2> QED
    BY <1>13, <2>1, <2>2, <2>3, LockFrame, Zenon DEF Drop
<1>14. ASSUME NEW t \in Thread, Free(t) PROVE Locked'
  <2>1. PICK w \in {"idle"} : pc' = [pc EXCEPT ![t] = w]
    BY <1>14, Zenon DEF Free, Goto, Finish
  <2>2. pc[t] \notin Reading \cup Writing /\ w \notin Reading \cup Writing
    BY <1>14, <2>1, Zenon DEF Free, Reading, Writing
  <2>3. \A v \in Thread \ {t} : call'[v] = call[v]
    BY <1>14, Zenon DEF Free, Goto, Finish, TypeOK
  <2> QED
    BY <1>14, <2>1, <2>2, <2>3, LockFrame, Zenon DEF Free
<1>15. ASSUME NEW t \in Thread, NEW u \in Thread, Dup(t, u) PROVE Locked'
  <2>1. PICK w \in {"have"} : pc' = [pc EXCEPT ![t] = w]
    BY <1>15, Zenon DEF Dup, Goto
  <2>2. pc[t] \notin Reading \cup Writing /\ w \notin Reading \cup Writing
    BY <1>15, <2>1, Zenon DEF Dup, Reading, Writing
  <2>3. \A v \in Thread \ {t} : call'[v] = call[v]
    BY <1>15, Zenon DEF Dup, Goto, TypeOK
  <2> QED
    BY <1>15, <2>1, <2>2, <2>3, LockFrame, Zenon DEF Dup
<1>16. CASE EnableCaching \/ UNCHANGED vars
  BY <1>0, <1>16 DEF EnableCaching, vars, Locked, TypeOK, Waiting, Reading, Writing, C, locks
<1> QED
  BY <1>1, <1>2, <1>3, <1>4, <1>5, <1>6, <1>7, <1>8, <1>9, <1>10, <1>11, <1>12, <1>13, <1>14,
     <1>15, <1>16, ZenonT(40) DEF Next, Work

-----------------------------------------------------------------------------
(* The hands of the threads, and the theorems                              *)

(* A step of t leaves the hands of the others alone.                        *)
LEMMA HandsFrame ==
  ASSUME NEW t \in Thread, Hands, Hand(t)',
         \A u \in Thread \ {t} : /\ pc'[u] = pc[u] /\ call'[u] = call[u]
                                 /\ odb_obj'[u] = odb_obj[u] /\ object'[u] = object[u]
                                 /\ peek'[u] = peek[u]
  PROVE  Hands'
<1>1. \A u \in Thread \ {t} : Hand(u)'
  BY DEF Hands, Hand, O
<1> QED
  BY <1>1, ZenonT(40) DEF Hands

(* Every step leaves each thread with the references that its place in the *)
(* code says.                                                              *)
LEMMA HandsStep ==
  ASSUME IInv, [Next]_vars
  PROVE  Hands'
<1> USE DEF IInv
<1>0. \A t \in Thread : call[t] \in Calls /\ O(t) \in Oid /\ Hand(t)
  BY Fields, Zenon DEF Hands, TypeOK
<1>1. ASSUME NEW t \in Thread, Invoke(t) PROVE Hands'
  <2>1. PICK k \in Asked :
            /\ k.do # "none" /\ call' = [call EXCEPT ![t] = k]
            /\ Goto(t, CASE k.do = "lookup" -> "get_any"
                         [] k.do = "read" -> "get_raw"
                         [] k.do = "clear" -> "clear_lock")
    BY <1>1, Zenon DEF Invoke
  <2>2. k.do \in {"lookup", "read", "clear"}
    BY <2>1, CacheAssumption, Zenon DEF Calls
  <2>3. odb_obj'[t] = Nil /\ object'[t] = Nil /\ call'[t] = k
    BY <1>0, <1>1, <2>1, Zenon DEF Invoke, Hand, Empty, hands, TypeOK
  <2>4. pc'[t] = CASE k.do = "lookup" -> "get_any"
                   [] k.do = "read" -> "get_raw"
                   [] k.do = "clear" -> "clear_lock"
    BY <2>1, Zenon DEF Goto, TypeOK
  <2>5. Hand(t)'
    BY <2>2, <2>3, <2>4, Zenon DEF Hand, Empty, Storing, Writing
  <2> QED
    BY <1>1, <2>1, <2>5, HandsFrame, Zenon DEF Invoke, Goto, TypeOK, hands
<1>2. ASSUME NEW t \in Thread, CacheGet(t) PROVE Hands'
  <2>1. /\ UNCHANGED <<call, odb_obj, object>>
        /\ \/ pc[t] = "get_any" /\ pc'[t] \in {"get_raw", "any_ref"}
           \/ pc[t] = "get_raw" /\ pc'[t] \in {"backend", "raw_ref"}
    BY <1>2, Zenon DEF CacheGet, Goto, TypeOK
  <2>2. pc'[t] = "raw_ref" /\ peek'[t] # Nil => peek'[t].flags = "RAW"
    <3>1. CASE ~enabled
      BY <1>2, <3>1, Zenon DEF CacheGet, Goto, TypeOK
    <3>2. CASE enabled
      <4>1. peek'[t] = LET entry == Find(C(t), O(t)) IN
                       IF entry # Nil /\ pc[t] = "get_raw" /\ entry.flags # "RAW"
                       THEN Nil ELSE entry
        BY <1>2, <3>2, Zenon DEF CacheGet, TypeOK
      <4> QED
        BY <2>1, <4>1, Zenon
    <3> QED
      BY <3>1, <3>2, Zenon
  <2>3. Hand(t)'
    BY <1>0, <2>1, <2>2, Zenon DEF Hand, Empty, Storing, Writing, O
  <2>4. \A u \in Thread \ {t} : pc'[u] = pc[u] /\ peek'[u] = peek[u]
    BY <1>2, Zenon DEF CacheGet, Goto, TypeOK
  <2> QED
    BY <2>1, <2>3, <2>4, HandsFrame, Zenon
<1>3. ASSUME NEW t \in Thread, CacheRef(t) PROVE Hands'
  <2>0. /\ call' = call /\ peek'[t] = Nil /\ O(t)' = O(t)
        /\ pc[t] \in Reading /\ odb_obj[t] = Nil /\ object[t] = Nil
        /\ call[t].do \in {"lookup", "read"}
    BY <1>0, <1>3, ZenonT(40)
    DEF CacheRef, Hand, TypeOK, Calls, Empty, Storing, Writing, Reading, O, hands
  <2>a. peek[t] # Nil => peek[t].oid = O(t)
    BY <1>0, Fields DEF Peeked, Filed
  <2>1. ASSUME peek[t] = Nil PROVE Hand(t)'
    <3>1. /\ pc'[t] = IF pc[t] = "any_ref" THEN "get_raw" ELSE "backend"
          /\ UNCHANGED <<odb_obj, object>>
      BY <1>3, <2>1, Zenon DEF CacheRef, Goto, TypeOK
    <3> QED
      BY <2>0, <3>1, Zenon DEF Hand, Empty, Storing, Writing
  <2>2. ASSUME peek[t] # Nil /\ peek[t].flags = "PARSED" PROVE Hand(t)'
    <3>1. pc'[t] = "have" /\ object'[t] = peek[t] /\ odb_obj' = odb_obj
      BY <1>3, <2>2, Zenon DEF CacheRef, Goto, TypeOK
    <3>2. call[t].do = "lookup"
      BY <1>0, <2>0, <2>2, Zenon DEF Hand, Reading
    <3> QED
      BY <2>0, <2>2, <2>a, <3>1, <3>2, Zenon DEF Hand, Empty, Storing, Writing
  <2>3. ASSUME peek[t] # Nil /\ peek[t].flags = "RAW" PROVE Hand(t)'
    <3>1. /\ pc'[t] = IF call[t].do = "lookup" THEN "parse" ELSE "have"
          /\ odb_obj'[t] = peek[t] /\ object' = object
      BY <1>3, <2>3, Zenon DEF CacheRef, Goto, TypeOK
    <3> QED
      BY <2>0, <2>3, <2>a, <3>1, Zenon DEF Hand, Empty, Storing, Writing
  <2>4. Hand(t)'
    BY <1>3, <2>1, <2>2, <2>3, Zenon DEF CacheRef
  <2> QED
    BY <1>3, <2>4, HandsFrame, Zenon DEF CacheRef, Goto, TypeOK
<1>4. ASSUME NEW t \in Thread, Backend(t) PROVE Hands'
  <2>1. ASSUME Finish(t) /\ UNCHANGED <<ref, odb_obj>> PROVE Hand(t)'
    BY <1>0, <1>4, <2>1, NoCallIsACall
    DEF Backend, Goto, Finish, Hand, TypeOK, Calls, Empty, Storing, Writing, Reading, O, hands
  <2>2. ASSUME ~(Finish(t) /\ UNCHANGED <<ref, odb_obj>>) PROVE Hand(t)'
    <3>1. /\ Blocks(O(t), "RAW") # {} /\ odb_obj'[t] = Malloc(O(t), "RAW")
          /\ pc'[t] = "check" /\ call' = call /\ object' = object /\ peek' = peek
      BY <1>4, <2>2, ZenonT(40) DEF Backend, Goto, TypeOK
    <3>2. odb_obj'[t] # Nil /\ odb_obj'[t].oid = O(t) /\ odb_obj'[t].flags = "RAW"
      BY <1>0, <3>1, MallocIsFree, CacheAssumption DEF Forms
    <3>3. object[t] = Nil /\ call[t].do \in {"lookup", "read"}
      BY <1>0, <1>4, Zenon
      DEF Backend, Hand, TypeOK, Calls, Empty, Storing, Writing, Reading, O, hands
    <3> QED
      BY <3>1, <3>2, <3>3, Zenon
      DEF Hand, TypeOK, Calls, Empty, Storing, Writing, Reading, O, hands
  <2>3. Hand(t)'
    BY <2>1, <2>2, Zenon
  <2> QED
    BY <1>4, <2>3, HandsFrame, ZenonT(40) DEF Backend, Goto, Finish, TypeOK
<1>5. ASSUME NEW t \in Thread, Parse(t) PROVE Hands'
  <2>1. ASSUME Goto(t, "drop") /\ UNCHANGED <<memory, object>> PROVE Hand(t)'
    BY <1>0, <1>5, <2>1, ZenonT(40)
    DEF Parse, Goto, Hand, TypeOK, Calls, Empty, Storing, Writing, Reading, O, hands
  <2>2. ASSUME ~(Goto(t, "drop") /\ UNCHANGED <<memory, object>>) PROVE Hand(t)'
    <3>1. /\ odb_obj[t] # Nil /\ odb_obj[t].oid = O(t) /\ odb_obj[t].flags = "RAW"
          /\ call[t].do = "lookup"
      BY <1>0, <1>5, Zenon DEF Parse, Hand
    <3>2. /\ Blocks(O(t), "PARSED") # {} /\ object'[t] = Malloc(O(t), "PARSED")
          /\ pc'[t] = "check" /\ call' = call /\ odb_obj' = odb_obj /\ peek' = peek
      BY <1>5, <2>2, <3>1, ZenonT(40) DEF Parse, Goto, TypeOK
    <3>3. object'[t] # Nil /\ object'[t].oid = O(t) /\ object'[t].flags = "PARSED"
      BY <1>0, <3>2, MallocIsFree, CacheAssumption DEF Forms
    <3> QED
      BY <3>1, <3>2, <3>3, Zenon
      DEF Hand, TypeOK, Calls, Empty, Storing, Writing, Reading, O, hands
  <2>3. Hand(t)'
    BY <2>1, <2>2, Zenon
  <2> QED
    BY <1>5, <2>3, HandsFrame, Zenon DEF Parse, Goto, TypeOK
<1>6. ASSUME NEW t \in Thread, Check(t) PROVE Hands'
  <2>1. Hand(t)'
    BY <1>0, <1>6, NoCallIsACall, ZenonT(40)
    DEF Check, Goto, Hand, TypeOK, Calls, Empty, Storing, Writing, Reading, O, hands
  <2> QED
    BY <1>6, <2>1, HandsFrame, ZenonT(40) DEF Check, Goto, TypeOK, hands
<1>7. ASSUME NEW t \in Thread, ShouldStore(t) PROVE Hands'
  <2>1. Hand(t)'
    BY <1>0, <1>7, NoCallIsACall
    DEF ShouldStore, Goto, Return, Finish, Hand, TypeOK, Calls, Empty, Storing, Writing,
        Reading, O, hands
  <2> QED
    BY <1>7, <2>1, HandsFrame, Zenon DEF ShouldStore, Goto, Return, Finish, TypeOK, hands
<1>8. ASSUME NEW t \in Thread, WrLock(t) PROVE Hands'
  <2>1. /\ UNCHANGED <<call, odb_obj, object, peek>>
        /\ \/ pc[t] = "clear_lock" /\ pc'[t] = "clear"
           \/ pc[t] = "store_lock" /\ pc'[t] \in {"evict", "put"}
    BY <1>8, Zenon DEF WrLock, Goto, hands, TypeOK
  <2>2. Hand(t)'
    BY <1>0, <2>1, Zenon DEF Hand, Empty, Storing, Writing, O
  <2> QED
    BY <1>8, <2>2, HandsFrame, Zenon DEF WrLock, Goto, TypeOK, hands
<1>9. ASSUME NEW t \in Thread, CacheEvictEntries(t) PROVE Hands'
  <2>1. /\ pc[t] = "evict" /\ pc'[t] = "evicted" /\ UNCHANGED <<call, odb_obj, object, peek>>
    BY <1>9, Zenon DEF CacheEvictEntries, Goto, hands, TypeOK
  <2>2. Hand(t)'
    BY <1>0, <2>1, Zenon DEF Hand, Empty, Storing, Writing, O
  <2> QED
    BY <1>9, <2>2, HandsFrame, Zenon DEF CacheEvictEntries, Goto, TypeOK, hands
<1>10. ASSUME NEW t \in Thread, Clear(t) PROVE Hands'
  <2>1. Hand(t)'
    BY <1>0, <1>10, NoCallIsACall, ZenonT(40)
    DEF Clear, Goto, ClearCache, Dropped, Hand, TypeOK, Calls, Empty, Storing, Writing,
        Reading, O, hands
  <2> QED
    BY <1>10, <2>1, HandsFrame, Zenon DEF Clear, Goto, ClearCache, Dropped, TypeOK, hands
<1>11. ASSUME NEW t \in Thread, Account(t) PROVE Hands'
  <2>1. Hand(t)'
    BY <1>0, <1>11, NoCallIsACall
    DEF Account, Goto, Return, Finish, Hand, TypeOK, Calls, Empty, Storing, Writing, Reading,
        O, hands
  <2> QED
    BY <1>11, <2>1, HandsFrame, Zenon DEF Account, Goto, Return, Finish, TypeOK, hands
<1>12. ASSUME NEW t \in Thread, Put(t) PROVE Hands'
  <2>1. /\ pc[t] = "put" /\ pc'[t] = "stored" /\ call' = call /\ peek' = peek
        /\ odb_obj[t] # Nil /\ call[t].do \in {"lookup", "read"}
    BY <1>0, <1>12, ZenonT(40)
    DEF Put, Goto, Hand, TypeOK, Calls, Empty, Storing, Writing, Reading, O, hands
  <2>2. Entry(t) # Nil /\ Entry(t).oid = O(t)
    BY <1>0, <2>1, Zenon DEF Entry, Hand
  <2>3. ASSUME UNCHANGED <<odb_obj, object>> PROVE Hand(t)'
    BY <1>0, <2>1, <2>3, Zenon
    DEF Hand, TypeOK, Calls, Empty, Storing, Writing, Reading, O, hands
  <2>4. ASSUME ~UNCHANGED <<odb_obj, object>> PROVE Hand(t)'
    <3> DEFINE stored == Find(C(t), Entry(t).oid)
    <3>1. stored # Nil /\ stored.flags = Entry(t).flags /\ Adopt(t, stored)
      BY <1>12, <2>4, Zenon DEF Put, Insert, Replace
    <3>2. stored.oid = O(t)
      BY <1>0, <2>2, <3>1, Fields, ZenonT(40) DEF Find, Filed
    <3> HIDE DEF stored
    <3>3. ASSUME object[t] # Nil PROVE Hand(t)'
      <4>1. object'[t] = stored /\ odb_obj' = odb_obj /\ stored.flags = object[t].flags
        BY <3>1, <3>3, Zenon DEF Adopt, Entry, TypeOK
      <4> QED
        BY <1>0, <2>1, <3>1, <3>2, <3>3, <4>1, Zenon DEF Hand, Empty, Storing, Writing, O
    <3>4. ASSUME object[t] = Nil PROVE Hand(t)'
      <4>1. odb_obj'[t] = stored /\ object' = object /\ stored.flags = odb_obj[t].flags
        BY <3>1, <3>4, Zenon DEF Adopt, Entry, TypeOK
      <4> QED
        BY <1>0, <2>1, <3>1, <3>2, <3>4, <4>1, Zenon DEF Hand, Empty, Storing, Writing, O
    <3> QED
      BY <3>3, <3>4, Zenon
  <2>5. Hand(t)'
    BY <2>3, <2>4, Zenon
  <2> QED
    BY <1>12, <2>5, HandsFrame, Zenon DEF Put, Insert, Adopt, Replace, Goto, TypeOK
<1>13. ASSUME NEW t \in Thread, Drop(t) PROVE Hands'
  <2>1. /\ pc[t] = "drop" /\ odb_obj'[t] = Nil /\ UNCHANGED <<object, peek>>
        /\ \/ object[t] = Nil /\ pc'[t] = "idle" /\ call'[t] = NoCall
           \/ object[t] # Nil /\ pc'[t] = "have" /\ call' = call
    BY <1>13, ZenonT(40) DEF Drop, Finish, Goto, TypeOK
  <2>2. Hand(t)'
    BY <1>0, <2>1, NoCallIsACall DEF Hand, Empty, Storing, Writing, O
  <2> QED
    BY <1>13, <2>2, HandsFrame, Zenon DEF Drop, Goto, Finish, TypeOK
<1>14. ASSUME NEW t \in Thread, Free(t) PROVE Hands'
  <2>1. Hand(t)'
    BY <1>0, <1>14, NoCallIsACall
    DEF Free, Goto, Finish, Hand, TypeOK, Calls, Empty, Storing, Writing, Reading, O, hands
  <2> QED
    BY <1>14, <2>1, HandsFrame, ZenonT(40) DEF Free, Goto, Finish, TypeOK, hands
<1>15. ASSUME NEW t \in Thread, NEW u \in Thread, Dup(t, u) PROVE Hands'
  <2>1. /\ pc[u] = "have" /\ pc'[t] = "have" /\ call'[t] = call[u]
        /\ odb_obj'[t] = odb_obj[u] /\ object'[t] = object[u] /\ peek' = peek
    BY <1>15, Zenon DEF Dup, Goto, TypeOK
  <2>2. Hand(u)
    BY <1>0, Zenon
  <2>3. Hand(t)'
    BY <2>1, <2>2, ZenonT(40) DEF Hand, Empty, Storing, Writing, O
  <2> QED
    BY <1>15, <2>3, HandsFrame, Zenon DEF Dup, Goto, TypeOK
<1>16. CASE EnableCaching \/ UNCHANGED vars
  <2>1. UNCHANGED <<pc, call, odb_obj, object, peek>>
    BY <1>16, Zenon DEF EnableCaching, vars, hands
  <2> QED
    BY <2>1 DEF Hands, Hand, O
<1> QED
  BY <1>1, <1>2, <1>3, <1>4, <1>5, <1>6, <1>7, <1>8, <1>9, <1>10, <1>11, <1>12, <1>13, <1>14,
     <1>15, <1>16, ZenonT(40) DEF Next, Work

(* IInv is inductive.                                                      *)
LEMMA InductiveStep ==
  ASSUME IInv, [Next]_vars
  PROVE  IInv'
BY TypeStep, LockedStep, FiledStep, PeekedStep, HandsStep, KeptStep, RefStep, Zenon DEF IInv

(* At the start nobody has anything and the caches are empty.               *)
LEMMA InductiveInit ==
  ASSUME Init
  PROVE  IInv
<1>1. TypeOK
  BY TypeInit, Zenon
<1>2. Locked
  BY CacheAssumption, Zenon DEF Init, Locked, Reading, Writing
<1>3. Filed /\ Peeked /\ Kept
  BY Zenon DEF Init, Filed, Peeked, Kept
<1>4. Hands
  BY NoCallIsACall, Zenon DEF Init, Hands, Hand, Empty, Storing, Writing
<1>5. ASSUME NEW p \in Object
      PROVE  ref[p] = Cardinality(Holding(odb_obj, p)) + Cardinality(Holding(object, p))
                      + Cardinality(Caching(p)) + Cardinality(Keepers(p))
  <2>1. p # Nil /\ p.oid \in Oid
    BY CacheAssumption, Zenon DEF Object
  <2>2. Holding(odb_obj, p) = {} /\ Holding(object, p) = {} /\ Caching(p) = {}
        /\ Keepers(p) = {}
    BY <2>1, Zenon DEF Init, Holding, Caching, Keepers
  <2>3. ref[p] = 0
    BY Zenon DEF Init
  <2> QED
    BY <2>2, <2>3, FS_EmptySet
<1> QED
  BY <1>1, <1>2, <1>3, <1>4, <1>5, Zenon DEF IInv, RefCounts

(* An object that a thread holds or a cache files has a count above 0.      *)
LEMMA ReferencedIsLive ==
  ASSUME IInv, NEW p \in Object,
         \/ Holding(odb_obj, p) # {} \/ Holding(object, p) # {}
         \/ Caching(p) # {} \/ Keepers(p) # {}
  PROVE  ref[p] > 0
<1> DEFINE A == Holding(odb_obj, p)
           B == Holding(object, p)
           D == Caching(p)
           K == Keepers(p)
<1>1. IsFiniteSet(A) /\ IsFiniteSet(B) /\ IsFiniteSet(D) /\ IsFiniteSet(K)
  <2>1. A \subseteq Thread /\ B \subseteq Thread /\ D \subseteq Cache
    BY Zenon DEF Holding, Caching
  <2> QED
    BY <2>1, FS_Subset, CacheAssumption, KeepersCount, Zenon
<1>2. /\ Cardinality(A) \in Nat /\ Cardinality(B) \in Nat /\ Cardinality(D) \in Nat
      /\ Cardinality(K) \in Nat
      /\ Cardinality(A) = 0 <=> A = {}
      /\ Cardinality(B) = 0 <=> B = {}
      /\ Cardinality(D) = 0 <=> D = {}
      /\ Cardinality(K) = 0 <=> K = {}
  BY <1>1, FS_CardinalityType, FS_EmptySet, Zenon
<1>3. ref[p] = Cardinality(A) + Cardinality(B) + Cardinality(D) + Cardinality(K)
  BY Zenon DEF IInv, RefCounts
<1>4. A # {} \/ B # {} \/ D # {} \/ K # {}
  BY Zenon
<1> DEFINE i == Cardinality(A)
           j == Cardinality(B)
           k == Cardinality(D)
           l == Cardinality(K)
<1>5. i \in Nat /\ j \in Nat /\ k \in Nat /\ l \in Nat /\ (i # 0 \/ j # 0 \/ k # 0 \/ l # 0)
  BY <1>2, <1>4, Zenon
<1> HIDE DEF A, B, D, K, i, j, k, l
<1>6. i + j + k + l > 0
  BY <1>5
<1> QED
  BY <1>3, <1>6, Zenon DEF i, j, k, l

(* Exact counts imply that nothing refers to a freed object.               *)
LEMMA InvImpliesNoDangling ==
  ASSUME IInv
  PROVE  NoDangling
<1> USE DEF IInv
<1>1. ASSUME NEW c \in Cache, NEW o \in Oid
      PROVE  /\ key[c][o] = val[c][o]
             /\ val[c][o] # Nil => val[c][o].oid = o /\ ref[val[c][o]] > 0
  <2>1. key[c][o] = val[c][o] /\ (val[c][o] # Nil => val[c][o].oid = o)
    BY Zenon DEF Filed
  <2>2. ASSUME val[c][o] # Nil PROVE ref[val[c][o]] > 0
    <3>1. val[c][o] \in Object /\ c \in Caching(val[c][o])
      BY <2>1, <2>2 DEF TypeOK, Pointer, Caching
    <3> QED
      BY <3>1, ReferencedIsLive, ZenonT(40)
  <2> QED
    BY <2>1, <2>2, Zenon
<1>2. ASSUME NEW t \in Thread, NEW p \in {odb_obj[t], object[t], peek[t]} \ {Nil}
      PROVE  ref[p] > 0
  <2>1. p \in Object
    BY <1>2 DEF TypeOK, Pointer
  <2>2. CASE p = odb_obj[t]
    BY <2>1, <2>2, ReferencedIsLive, Zenon DEF Holding
  <2>3. CASE p = object[t]
    BY <2>1, <2>3, ReferencedIsLive, Zenon DEF Holding
  <2>4. CASE p = peek[t]
    <3>1. val[C(t)][O(t)] = p /\ C(t) \in Cache /\ O(t) \in Oid
      BY <1>2, <2>4, Fields, Zenon DEF Peeked
    <3> QED
      BY <1>1, <1>2, <3>1, Zenon
  <2> QED
    BY <1>2, <2>2, <2>3, <2>4, Zenon
<1>3. ASSUME NEW p \in Object, inner[p] # Nil PROVE ref[p] > 0 /\ ref[inner[p]] > 0
  <2>1. ref[p] > 0
    BY <1>3, Zenon DEF Kept
  <2>2. inner[p] \in Object /\ p \in Keepers(inner[p])
    BY <1>3, Zenon DEF TypeOK, Pointer, Keepers
  <2> QED
    BY <2>1, <2>2, ReferencedIsLive, Zenon
<1> QED
  BY <1>1, <1>2, <1>3, Zenon DEF NoDangling

(* Who holds a rwlock at the right places holds it alone, or reads.        *)
LEMMA InvImpliesLocksWork ==
  ASSUME IInv
  PROVE  LocksWork
<1> USE DEF IInv
<1>1. ASSUME NEW c \in Cache
      PROVE  /\ wr[c] # Nil => rd[c] = {} /\ pc[wr[c]] \in Writing /\ C(wr[c]) = c
             /\ \A t \in rd[c] : pc[t] \in Reading /\ C(t) = c
  <2>1. wr[c] # Nil => wr[c] \in Thread
    BY Zenon DEF TypeOK
  <2>2. rd[c] \subseteq Thread
    BY Zenon DEF TypeOK
  <2> QED
    BY <2>1, <2>2, Zenon DEF Locked
<1> QED
  BY <1>1, Zenon DEF LocksWork

(* Entries filed under their own id imply that a lookup returns the object *)
(* asked for.                                                              *)
LEMMA InvImpliesRightObject ==
  ASSUME IInv
  PROVE  RightObject
<1>1. ASSUME NEW t \in Thread, pc[t] = "have"
      PROVE  /\ Entry(t) # Nil /\ Entry(t).oid = O(t)
             /\ Entry(t).flags = IF call[t].do = "lookup" THEN "PARSED" ELSE "RAW"
  <2>1. Hand(t) /\ call[t].do \in {"none", "lookup", "read", "clear"}
    BY Zenon DEF IInv, Hands, TypeOK, Calls
  <2>2. call[t].do \in {"lookup", "read"}
    BY <1>1, <2>1, Zenon DEF Hand
  <2> QED
    BY <1>1, <2>1, <2>2, Zenon DEF Hand, Entry
<1> QED
  BY <1>1, Zenon DEF RightObject

-----------------------------------------------------------------------------

(* IInv holds in every reachable state.                                    *)
LEMMA Invariance == Spec => []IInv
<1>1. Init => IInv
  BY InductiveInit, Zenon
<1>2. IInv /\ [Next]_vars => IInv'
  BY InductiveStep, Zenon
<1> QED
  BY <1>1, <1>2, PTL DEF Spec

(* Every variable but the counters keeps its type.                          *)
THEOREM TypeCorrect == Spec => []TypeOK
<1>1. IInv => TypeOK
  BY Zenon DEF IInv
<1> QED
  BY <1>1, Invariance, PTL

(* git_cached_obj_incref() and git_cached_obj_decref() are called so that   *)
(* the count of an object is always the number of references to it, for any *)
(* number of threads, caches and objects.                                   *)
THEOREM CountsAreExact == Spec => []RefCounts
<1>1. IInv => RefCounts
  BY Zenon DEF IInv
<1> QED
  BY <1>1, Invariance, PTL

(* No pointer that cache.c, or a caller of it, may still follow leads to a  *)
(* freed object: in particular not the raw object a tree points into, and   *)
(* not the entry of cache_get() between the look-up and the increment.      *)
THEOREM NothingDangles == Spec => []NoDangling
<1>1. IInv => NoDangling
  BY InvImpliesNoDangling, Zenon
<1> QED
  BY <1>1, Invariance, PTL

(* The rwlock of a cache is used as one: no reader beside a writer, and no  *)
(* thread that asks for a lock it has already.                              *)
THEOREM LocksAreKept == Spec => []LocksWork
<1>1. IInv => LocksWork
  BY InvImpliesLocksWork, Zenon
<1> QED
  BY <1>1, Invariance, PTL

(* git_object_lookup() and git_odb_read() return the object that was asked  *)
(* for, in the form that was asked for, whatever cache_store() gave them    *)
(* instead of their own.                                                    *)
THEOREM LookupsAreRight == Spec => []RightObject
<1>1. IInv => RightObject
  BY InvImpliesRightObject, Zenon
<1> QED
  BY <1>1, Invariance, PTL
=============================================================================

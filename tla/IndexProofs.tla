---------------------------- MODULE IndexProofs ----------------------------
(****************************************************************************)
(* Proofs about Index: after any sequence of calls the tree cache and the     *)
(* path map of an index agree with its entries, for every set of paths.       *)
(****************************************************************************)
EXTENDS Index, WellFoundedInduction, TLAPS

(* The keys of an index.                                                        *)
Keys == IndexPath \X Stages

(* The files that write_tree() puts below directory dir: the stage 0 entries,   *)
(* without those that a directory of the same name replaces.                     *)
Live(e, dir) ==
    {k \in DOMAIN e : /\ k[2] = 0 /\ Under(dir, k[1])
                      /\ \A l \in DOMAIN e : l[2] = 0 => ~Under(k[1], l[1])}

(* The tree that write_tree() makes of directory dir without a cache.             *)
Written(e, dir) == [p \in {k[1] : k \in Live(e, dir)} |-> e[<<p, 0>>]]

(* A cache of valid and invalid nodes.                                            *)
CacheType(t) ==
    t # NoTree =>
      /\ t = [d \in DOMAIN t |-> t[d]]
      /\ \A d \in DOMAIN t : /\ d \in Seq(Nat)
                             /\ t[d] = [valid |-> t[d].valid, id |-> t[d].id]
                             /\ t[d].valid \in BOOLEAN

(* A cached id is the id of the tree that would be written.                       *)
CacheOK(e, t) ==
    t # NoTree => \A d \in DOMAIN t : t[d].valid => t[d].id = Written(e, d)

(* An index with its map and its cache.                                           *)
Sound(s) ==
    /\ s = [e |-> s.e, m |-> s.m, t |-> s.t]
    /\ DOMAIN s.e \subseteq Keys
    /\ s.m = DOMAIN s.e
    /\ CacheType(s.t) /\ CacheOK(s.e, s.t)

(* The index in memory and the index in the file.                                  *)
IndexInv ==
    /\ Sound(State)
    /\ Sound([e |-> index_file.e, m |-> DOMAIN index_file.e, t |-> index_file.t])

-----------------------------------------------------------------------------
(* Paths.                                                                         *)

(* A file of a directory's directory is a file of the directory.                  *)
LEMMA UnderTransitive ==
    ASSUME NEW p \in Seq(Nat), NEW q \in Seq(Nat), NEW r \in Seq(Nat), Under(p, q), Under(q, r)
    PROVE  Under(p, r)
BY DEF Under

(* Sequences of the same elements are the same.                                    *)
LEMMA SamePath ==
    ASSUME NEW p \in Seq(Nat), NEW q \in Seq(Nat), Len(p) = Len(q),
           \A i \in 1..Len(p) : p[i] = q[i]
    PROVE  p = q
OBVIOUS

(* A directory of a path is a beginning of it, and the only one of its length.      *)
LEMMA ParentUnder ==
    ASSUME NEW p \in Seq(Nat), NEW d, d \in Parents(p)
    PROVE  d \in Seq(Nat) /\ Under(d, p) /\ d # <<>>
<1>1. PICK n \in 1..(Len(p) - 1) : d = SubSeq(p, 1, n)
  BY DEF Parents
<1>2. n \in Nat /\ n <= Len(p) /\ n >= 1
  BY <1>1
<1>3. d \in Seq(Nat) /\ Len(d) = n
  BY <1>1, <1>2
<1>4. \A i \in 1..n : d[i] = p[i]
  BY <1>1, <1>2
<1>. QED
  BY <1>2, <1>3, <1>4 DEF Under

(* The directory of a path is a prefix of it. *)
LEMMA UnderPrefix ==
    ASSUME NEW p \in Seq(Nat), NEW d \in Seq(Nat), Under(d, p)
    PROVE  SubSeq(p, 1, Len(d)) = d
<1>1. Len(d) \in Nat /\ Len(d) <= Len(p)
  BY DEF Under
<1>2. SubSeq(p, 1, Len(d)) \in Seq(Nat) /\ Len(SubSeq(p, 1, Len(d))) = Len(d)
  BY <1>1
<1>3. \A i \in 1..Len(d) : SubSeq(p, 1, Len(d))[i] = d[i]
  BY <1>1 DEF Under
<1>. QED
  BY <1>2, <1>3, SamePath

(* Every directory that a path lies in, but the root, is among its parents.          *)
LEMMA UnderParent ==
    ASSUME NEW p \in Seq(Nat), NEW d \in Seq(Nat), d # <<>>, Under(d, p)
    PROVE  d \in Parents(p)
<1>1. SubSeq(p, 1, Len(d)) = d
  BY UnderPrefix
<1>2. Len(d) \in 1..(Len(p) - 1)
  BY DEF Under
<1>. QED
  BY <1>1, <1>2 DEF Parents

(* Between a directory and a path further down lies a directory one level down.       *)
LEMMA NextDown ==
    ASSUME NEW p \in Seq(Nat), NEW d \in Seq(Nat), Under(d, p), Len(p) # Len(d) + 1
    PROVE  LET s == SubSeq(p, 1, Len(d) + 1)
           IN  s \in Parents(p) /\ s \in Seq(Nat) /\ Under(d, s) /\ Len(s) = Len(d) + 1 /\ Under(s, p)
<1>. DEFINE n == Len(d) + 1
            s == SubSeq(p, 1, n)
<1>1. n \in 1..(Len(p) - 1) /\ n \in Nat /\ n <= Len(p)
  BY DEF Under
<1>2. s \in Parents(p)
  BY <1>1 DEF Parents
<1>3. s \in Seq(Nat) /\ Len(s) = n
  BY <1>1
<1>4. \A i \in 1..n : s[i] = p[i]
  BY <1>1
<1>5. Under(d, s)
  BY <1>3, <1>4, <1>1 DEF Under
<1>6. Under(s, p)
  BY <1>2, ParentUnder
<1>. QED
  BY <1>2, <1>3, <1>5, <1>6

-----------------------------------------------------------------------------
(* The cache.                                                                       *)

(* What is written of a directory depends on the stage 0 entries below it only.      *)
LEMMA WrittenSame ==
    ASSUME NEW e, NEW f, DOMAIN e \subseteq Keys, DOMAIN f \subseteq Keys, NEW d \in Seq(Nat),
           \A k \in Changed(e, f) : k[2] = 0 => ~Under(d, k[1])
    PROVE  Written(e, d) = Written(f, d)
<1>1. ASSUME NEW g, NEW h, DOMAIN g \subseteq Keys, DOMAIN h \subseteq Keys,
             \A k \in Changed(g, h) : k[2] = 0 => ~Under(d, k[1]),
             \A k \in Changed(h, g) : k[2] = 0 => ~Under(d, k[1]),
             NEW k \in Live(g, d)
      PROVE  k \in Live(h, d) /\ h[k] = g[k]
  <2>1. k \in DOMAIN g /\ k[2] = 0 /\ Under(d, k[1])
    BY DEF Live
  <2>2. k \notin Changed(g, h)
    BY <1>1, <2>1, Zenon
  <2>3. k \in DOMAIN h /\ h[k] = g[k]
    BY <2>1, <2>2, Zenon DEF Changed
  <2>4. ASSUME NEW l \in DOMAIN h, l[2] = 0, Under(k[1], l[1])
        PROVE  FALSE
    <3>1. l[1] \in Seq(Nat) /\ k[1] \in Seq(Nat)
      BY <1>1, <2>1, IndexAssumption DEF Keys
    <3>2. Under(d, l[1])
      BY <3>1, <2>1, <2>4, UnderTransitive, Zenon
    <3>3. l \notin Changed(g, h)
      BY <1>1, <2>4, <3>2, Zenon
    <3>4. l \in DOMAIN g
      BY <3>3, <2>4, Zenon DEF Changed
    <3>. QED
      BY <3>4, <2>4, Zenon DEF Live
  <2>. QED
    BY <2>1, <2>3, <2>4, Zenon DEF Live
<1>2. \A k \in Changed(f, e) : k[2] = 0 => ~Under(d, k[1])
  BY Zenon DEF Changed
<1>3. Live(e, d) = Live(f, d) /\ \A k \in Live(e, d) : e[k] = f[k]
  <2>1. \A k \in Live(e, d) : k \in Live(f, d) /\ f[k] = e[k]
    BY <1>1, <1>2, Zenon
  <2>2. \A k \in Live(f, d) : k \in Live(e, d) /\ e[k] = f[k]
    BY <1>1, <1>2, Zenon
  <2>. QED
    BY <2>1, <2>2, Zenon
<1>4. \A p \in {k[1] : k \in Live(e, d)} : e[<<p, 0>>] = f[<<p, 0>>]
  <2>1. TAKE p \in {k[1] : k \in Live(e, d)}
  <2>2. PICK k \in Live(e, d) : p = k[1]
    BY Zenon
  <2>3. k = <<p, 0>>
    <3>1. k \in Keys /\ k[2] = 0
      BY <2>2 DEF Live
    <3>. QED
      BY <3>1, <2>2 DEF Keys
  <2>. QED
    BY <1>3, <2>2, <2>3, Zenon
<1>. QED
  BY <1>3, <1>4, Zenon DEF Written

(* The cache u keeps from t only valid nodes that none of the paths lies in.           *)
Drops(t, u, paths) ==
    u # NoTree =>
      /\ t # NoTree /\ DOMAIN u = DOMAIN t
      /\ \A d \in DOMAIN t : u[d].valid => /\ t[d].valid /\ u[d].id = t[d].id
                                           /\ \A p \in paths : ~Under(d, p)

(* git_tree_cache_invalidate_path() drops the directories of its path, no node appears. *)
LEMMA PathDrops ==
    ASSUME NEW t, CacheType(t), NEW p
    PROVE  CacheType(InvalidatePath(t, p)) /\ Drops(t, InvalidatePath(t, p), {p})
<1>1. CASE t = NoTree
  BY <1>1, Zenon DEF InvalidatePath, CacheType, Drops
<1>2. CASE t # NoTree
  <2>. DEFINE u == InvalidatePath(t, p)
  <2>1. u = [d \in DOMAIN t |-> IF Under(d, p) THEN [t[d] EXCEPT !.valid = FALSE] ELSE t[d]]
    BY <1>2, Zenon DEF InvalidatePath
  <2>2. \A d \in DOMAIN t : /\ Under(d, p) => u[d] = [valid |-> FALSE, id |-> t[d].id]
                            /\ ~Under(d, p) => u[d] = t[d]
    BY <2>1, <1>2 DEF CacheType
  <2>3. DOMAIN u = DOMAIN t /\ u = [d \in DOMAIN u |-> u[d]]
    BY <2>1, Zenon
  <2>. HIDE DEF u
  <2>9. \A d \in DOMAIN t : /\ d \in Seq(Nat)
                            /\ t[d] = [valid |-> t[d].valid, id |-> t[d].id]
                            /\ t[d].valid \in BOOLEAN
    BY <1>2, Zenon DEF CacheType
  <2>4. \A d \in DOMAIN t : /\ d \in Seq(Nat)
                            /\ u[d] = [valid |-> u[d].valid, id |-> u[d].id]
                            /\ u[d].valid \in BOOLEAN
    <3>1. TAKE d \in DOMAIN t
    <3>2. CASE Under(d, p)
      <4>1. u[d] = [valid |-> FALSE, id |-> t[d].id]
        BY <2>2, <3>2, Zenon
      <4>2. u[d].valid = FALSE /\ u[d].id = t[d].id
        BY <4>1
      <4>. QED
        BY <4>1, <4>2, <2>9, Zenon
    <3>3. CASE ~Under(d, p)
      <4>1. u[d] = t[d]
        BY <2>2, <3>3, Zenon
      <4>. QED
        BY <4>1, <2>9, Zenon
    <3>. QED
      BY <3>2, <3>3, Zenon
  <2>5. \A d \in DOMAIN t : u[d].valid => t[d].valid /\ u[d].id = t[d].id /\ ~Under(d, p)
    <3>1. TAKE d \in DOMAIN t
    <3>2. CASE Under(d, p)
      <4>1. u[d] = [valid |-> FALSE, id |-> t[d].id]
        BY <2>2, <3>2, Zenon
      <4>2. u[d].valid = FALSE
        BY <4>1
      <4>. QED
        BY <4>2, Zenon
    <3>3. CASE ~Under(d, p)
      BY <2>2, <3>3, Zenon
    <3>. QED
      BY <3>2, <3>3, Zenon
  <2>6. CacheType(u)
    BY <2>3, <2>4, Zenon DEF CacheType
  <2>7. Drops(t, u, {p})
    BY <2>3, <2>5, <1>2, Zenon DEF Drops
  <2>. QED
    BY <2>6, <2>7, Zenon DEF u
<1>. QED
  BY <1>1, <1>2, Zenon

(* The same for a set of paths. *)
LEMMA AllDrops ==
    ASSUME NEW t, CacheType(t), NEW paths
    PROVE  CacheType(InvalidateAll(t, paths)) /\ Drops(t, InvalidateAll(t, paths), paths)
<1>1. CASE t = NoTree
  BY <1>1, Zenon DEF InvalidateAll, CacheType, Drops
<1>2. CASE t # NoTree
  <2>. DEFINE u == InvalidateAll(t, paths)
              Hit(d) == \E p \in paths : InvalidatePath(t, p)[d] # t[d]
  <2>1. u = [d \in DOMAIN t |-> IF Hit(d) THEN [t[d] EXCEPT !.valid = FALSE] ELSE t[d]]
    BY <1>2, Zenon DEF InvalidateAll
  <2>8. ASSUME NEW d \in DOMAIN t, t[d].valid, NEW p \in paths, Under(d, p)
        PROVE  Hit(d)
    <3>1. InvalidatePath(t, p)[d] = [t[d] EXCEPT !.valid = FALSE]
      BY <1>2, <2>8 DEF InvalidatePath
    <3>2. InvalidatePath(t, p)[d].valid = FALSE
      BY <3>1, <1>2 DEF CacheType
    <3>. QED
      BY <3>2, <2>8
  <2>. HIDE DEF Hit
  <2>2. \A d \in DOMAIN t : /\ Hit(d) => u[d] = [valid |-> FALSE, id |-> t[d].id]
                            /\ ~Hit(d) => u[d] = t[d]
    BY <2>1, <1>2 DEF CacheType
  <2>3. DOMAIN u = DOMAIN t /\ u = [d \in DOMAIN u |-> u[d]]
    BY <2>1, Zenon
  <2>. HIDE DEF u
  <2>9. \A d \in DOMAIN t : /\ d \in Seq(Nat)
                            /\ t[d] = [valid |-> t[d].valid, id |-> t[d].id]
                            /\ t[d].valid \in BOOLEAN
    BY <1>2, Zenon DEF CacheType
  <2>4. \A d \in DOMAIN t : /\ d \in Seq(Nat)
                            /\ u[d] = [valid |-> u[d].valid, id |-> u[d].id]
                            /\ u[d].valid \in BOOLEAN
    <3>1. TAKE d \in DOMAIN t
    <3>2. CASE Hit(d)
      <4>1. u[d] = [valid |-> FALSE, id |-> t[d].id]
        BY <2>2, <3>2, Zenon
      <4>2. u[d].valid = FALSE /\ u[d].id = t[d].id
        BY <4>1
      <4>. QED
        BY <4>1, <4>2, <2>9, Zenon
    <3>3. CASE ~Hit(d)
      <4>1. u[d] = t[d]
        BY <2>2, <3>3, Zenon
      <4>. QED
        BY <4>1, <2>9, Zenon
    <3>. QED
      BY <3>2, <3>3, Zenon
  <2>5. \A d \in DOMAIN t : u[d].valid => t[d].valid /\ u[d].id = t[d].id /\ ~Hit(d)
    <3>1. TAKE d \in DOMAIN t
    <3>2. CASE Hit(d)
      <4>1. u[d] = [valid |-> FALSE, id |-> t[d].id]
        BY <2>2, <3>2, Zenon
      <4>2. u[d].valid = FALSE
        BY <4>1
      <4>. QED
        BY <4>2, Zenon
    <3>3. CASE ~Hit(d)
      BY <2>2, <3>3, Zenon
    <3>. QED
      BY <3>2, <3>3, Zenon
  <2>6. CacheType(u)
    BY <2>3, <2>4, Zenon DEF CacheType
  <2>7. Drops(t, u, paths)
    BY <2>3, <2>5, <2>8, <1>2, Zenon DEF Drops
  <2>. QED
    BY <2>6, <2>7, Zenon DEF u
<1>. QED
  BY <1>1, <1>2, Zenon

(* A cache that drops the directories of every stage 0 entry that changed is right.     *)
LEMMA CacheKeeps ==
    ASSUME NEW e, NEW f, NEW t, NEW u, NEW paths,
           DOMAIN e \subseteq Keys, DOMAIN f \subseteq Keys,
           CacheType(t), CacheOK(e, t), Drops(t, u, paths),
           \A k \in Changed(e, f) : k[2] = 0 => k[1] \in paths
    PROVE  CacheOK(f, u)
<1>. SUFFICES ASSUME u # NoTree, NEW d \in DOMAIN u, u[d].valid
              PROVE  u[d].id = Written(f, d)
  BY Zenon DEF CacheOK
<1>1. t # NoTree /\ d \in DOMAIN t /\ t[d].valid /\ u[d].id = t[d].id /\ \A p \in paths : ~Under(d, p)
  BY Zenon DEF Drops
<1>2. t[d].id = Written(e, d) /\ d \in Seq(Nat)
  BY <1>1, Zenon DEF CacheOK, CacheType
<1>3. Written(e, d) = Written(f, d)
  BY <1>1, <1>2, WrittenSame, Zenon
<1>. QED
  BY <1>1, <1>2, <1>3, Zenon

-----------------------------------------------------------------------------
(* The operations.                                                                      *)

(* A key of an index is a path and a stage. *)
LEMMA KeyParts ==
    ASSUME NEW k \in Keys
    PROVE  /\ k = <<k[1], k[2]>> /\ k[1] \in IndexPath /\ k[1] \in Seq(Nat)
           /\ k[2] \in Stages /\ k[2] \in 0..3
<1>1. PICK p \in IndexPath, i \in Stages : k = <<p, i>>
  BY DEF Keys
<1>2. k[1] = p /\ k[2] = i
  BY <1>1
<1>3. p \in Seq(Nat) /\ i \in 0..3
  BY IndexAssumption, Zenon
<1>. QED
  BY <1>1, <1>2, <1>3, Zenon

(* index_remove_entry() keeps an index sound, whichever entries it removes.               *)
LEMMA RemoveSound ==
    ASSUME NEW s, Sound(s), NEW keys
    PROVE  Sound(RemoveEntries(s, keys))
<1>. DEFINE r == RemoveEntries(s, keys)
            paths == {k[1] : k \in keys}
<1>1. /\ r = [e |-> [k \in DOMAIN s.e \ keys |-> s.e[k]], m |-> s.m \ keys,
              t |-> InvalidateAll(s.t, paths)]
  BY Zenon DEF RemoveEntries
<1>2. /\ r.e = [k \in DOMAIN s.e \ keys |-> s.e[k]] /\ r.m = s.m \ keys
      /\ r.t = InvalidateAll(s.t, paths) /\ r = [e |-> r.e, m |-> r.m, t |-> r.t]
  BY <1>1
<1>. HIDE DEF r
<1>3. DOMAIN s.e \subseteq Keys /\ s.m = DOMAIN s.e /\ CacheType(s.t) /\ CacheOK(s.e, s.t)
  BY Zenon DEF Sound
<1>4. DOMAIN r.e = DOMAIN s.e \ keys /\ \A k \in DOMAIN r.e : r.e[k] = s.e[k]
  BY <1>2, Zenon
<1>5. \A k \in Changed(s.e, r.e) : k[1] \in paths
  BY <1>4, Zenon DEF Changed
<1>6. CacheType(r.t) /\ Drops(s.t, r.t, paths)
  <2>1. CacheType(InvalidateAll(s.t, paths)) /\ Drops(s.t, InvalidateAll(s.t, paths), paths)
    BY <1>3, AllDrops, Zenon
  <2>. QED
    BY <1>2, <2>1, Zenon
<1>7. CacheOK(r.e, r.t)
  <2>1. DOMAIN r.e \subseteq Keys
    BY <1>3, <1>4, Zenon
  <2>. QED
    BY <1>3, <1>5, <1>6, <2>1, CacheKeeps, Zenon
<1>. QED
  BY <1>2, <1>3, <1>4, <1>6, <1>7, Zenon DEF Sound, r

(* check_file_directory_collision() removes entries, and so keeps an index sound. *)
LEMMA CollideSound ==
    ASSUME NEW s, Sound(s), NEW path, NEW stage
    PROVE  Sound(Collide(s, path, stage))
BY RemoveSound, Zenon DEF Collide

WithKey(e, key, id) == [k \in DOMAIN e \cup {key} |-> IF k = key THEN id ELSE e[k]]

Inserted(s, r, key, id) ==
    /\ r.e = WithKey(s.e, key, id) /\ r.m = s.m \cup {key} /\ r.t = s.t
    /\ r = [e |-> r.e, m |-> r.m, t |-> r.t]

(* index_insert(): a collision, or one new key that the cache does not know of yet.         *)
LEMMA InsertIs ==
    ASSUME NEW s, Sound(s), NEW path, NEW stage, NEW id
    PROVE  /\ ~Insert(s, path, stage, id).ok => Sound(Insert(s, path, stage, id).s)
           /\ Insert(s, path, stage, id).ok
                => Inserted(s, Insert(s, path, stage, id).s, <<path, stage>>, id)
<1>. DEFINE r == Insert(s, path, stage, id)
            key == <<path, stage>>
            s1 == Collide(s, path, stage)
            f == WithKey(s.e, key, id)
<1>1. CASE s1.e # s.e
  <2>1. r = [s |-> s1, ok |-> FALSE]
    BY <1>1, Zenon DEF Insert
  <2>2. r.s = s1 /\ r.ok = FALSE
    BY <2>1
  <2>. QED
    BY <2>2, CollideSound, Zenon
<1>2. CASE s1.e = s.e
  <2>1. r = [s |-> [e |-> f, m |-> s.m \cup {key}, t |-> s.t], ok |-> TRUE]
    BY <1>2, Zenon DEF Insert, WithKey
  <2>. HIDE DEF f, key, r
  <2>2. r.s = [e |-> f, m |-> s.m \cup {key}, t |-> s.t] /\ r.ok = TRUE
    BY <2>1
  <2>3. r.s.e = f /\ r.s.m = s.m \cup {key} /\ r.s.t = s.t
    BY <2>2
  <2>. QED
    BY <2>2, <2>3, Zenon DEF f, key, r, Inserted
<1>. QED
  BY <1>1, <1>2, Zenon

(* A new key changes the index at the key only.                                              *)
LEMMA NewKey ==
    ASSUME NEW e, DOMAIN e \subseteq Keys, NEW key \in Keys, NEW id
    PROVE  LET f == WithKey(e, key, id)
           IN  /\ DOMAIN f = DOMAIN e \cup {key} /\ DOMAIN f \subseteq Keys
               /\ \A k \in Changed(e, f) : k = key
<1>. DEFINE f == WithKey(e, key, id)
<1>1. DOMAIN f = DOMAIN e \cup {key} /\ \A k \in DOMAIN e : k # key => f[k] = e[k]
  BY Zenon DEF WithKey
<1>. QED
  BY <1>1, Zenon DEF Changed

(* The side of a conflict needs no change of the cache.                                        *)
LEMMA InsertSide ==
    ASSUME NEW s, Sound(s), NEW path \in IndexPath, NEW stage \in Stages, stage # 0, NEW id
    PROVE  Sound(Insert(s, path, stage, id).s)
<1>. DEFINE r == Insert(s, path, stage, id)
            key == <<path, stage>>
<1>1. CASE ~r.ok
  BY <1>1, InsertIs, Zenon
<1>2. CASE r.ok
  <2>1. /\ r.s.e = WithKey(s.e, key, id)
        /\ r.s.m = s.m \cup {key} /\ r.s.t = s.t
        /\ r.s = [e |-> r.s.e, m |-> r.s.m, t |-> r.s.t]
    <3>1. Inserted(s, r.s, key, id)
      BY <1>2, InsertIs, Zenon
    <3>. QED
      BY <3>1, Zenon DEF Inserted
  <2>2. DOMAIN s.e \subseteq Keys /\ s.m = DOMAIN s.e /\ CacheType(s.t) /\ CacheOK(s.e, s.t)
    BY Zenon DEF Sound
  <2>3. key \in Keys /\ key[2] # 0
    BY DEF Keys
  <2>. HIDE DEF r, key
  <2>4. /\ DOMAIN r.s.e = DOMAIN s.e \cup {key} /\ DOMAIN r.s.e \subseteq Keys
        /\ \A k \in Changed(s.e, r.s.e) : k = key
    <3>1. LET f == WithKey(s.e, key, id)
          IN  /\ DOMAIN f = DOMAIN s.e \cup {key} /\ DOMAIN f \subseteq Keys
              /\ \A k \in Changed(s.e, f) : k = key
      BY <2>2, <2>3, NewKey, Zenon
    <3>. QED
      BY <2>1, <3>1, Zenon
  <2>5. Drops(s.t, s.t, {})
    BY Zenon DEF Drops
  <2>6. CacheOK(r.s.e, s.t)
    BY <2>2, <2>3, <2>4, <2>5, CacheKeeps, Zenon
  <2>. QED
    BY <2>1, <2>2, <2>4, <2>6, Zenon DEF Sound, r
<1>. QED
  BY <1>1, <1>2, Zenon

(* A cache that drops more has dropped what the second call drops. *)
LEMMA DropsTwice ==
    ASSUME NEW t, NEW u, NEW v, NEW P, NEW Q, Drops(t, u, P), Drops(u, v, Q)
    PROVE  Drops(t, v, Q)
BY Zenon DEF Drops

(* git_index_add(): the entry and, after it, the cache.                                          *)
LEMMA AddSound ==
    ASSUME NEW s, Sound(s), NEW path \in IndexPath, NEW stage \in Stages, NEW id,
           NEW r, r = Insert(s, path, stage, id)
    PROVE  Sound(IF r.ok THEN [r.s EXCEPT !.t = InvalidatePath(@, path)] ELSE r.s)
<1>. DEFINE key == <<path, stage>>
            w == [r.s EXCEPT !.t = InvalidatePath(@, path)]
<1>1. CASE ~r.ok
  BY <1>1, InsertIs, Zenon
<1>2. CASE r.ok
  <2>1. /\ r.s.e = WithKey(s.e, key, id)
        /\ r.s.m = s.m \cup {key} /\ r.s.t = s.t
        /\ r.s = [e |-> r.s.e, m |-> r.s.m, t |-> r.s.t]
    <3>1. Inserted(s, r.s, key, id)
      BY <1>2, InsertIs, Zenon
    <3>. QED
      BY <3>1, Zenon DEF Inserted
  <2>2. /\ w.e = WithKey(s.e, key, id) /\ w.m = s.m \cup {key} /\ w.t = InvalidatePath(s.t, path)
        /\ w = [e |-> w.e, m |-> w.m, t |-> w.t]
    BY <2>1
  <2>3. DOMAIN s.e \subseteq Keys /\ s.m = DOMAIN s.e /\ CacheType(s.t) /\ CacheOK(s.e, s.t)
    BY Zenon DEF Sound
  <2>4. key \in Keys /\ key[1] = path
    BY DEF Keys
  <2>. HIDE DEF w, key
  <2>5. /\ DOMAIN w.e = DOMAIN s.e \cup {key} /\ DOMAIN w.e \subseteq Keys
        /\ \A k \in Changed(s.e, w.e) : k = key
    <3>1. LET f == WithKey(s.e, key, id)
          IN  /\ DOMAIN f = DOMAIN s.e \cup {key} /\ DOMAIN f \subseteq Keys
              /\ \A k \in Changed(s.e, f) : k = key
      BY <2>3, <2>4, NewKey, Zenon
    <3>. QED
      BY <2>2, <3>1, Zenon
  <2>6. CacheType(w.t) /\ Drops(s.t, w.t, {path})
    <3>1. CacheType(InvalidatePath(s.t, path)) /\ Drops(s.t, InvalidatePath(s.t, path), {path})
      BY <2>3, PathDrops, Zenon
    <3>. QED
      BY <2>2, <3>1, Zenon
  <2>7. \A k \in Changed(s.e, w.e) : k[2] = 0 => k[1] \in {path}
    BY <2>4, <2>5, Zenon
  <2>8. CacheOK(w.e, w.t)
    BY <2>3, <2>5, <2>6, <2>7, CacheKeeps, Zenon
  <2>9. Sound(w)
    BY <2>2, <2>3, <2>5, <2>6, <2>8, Zenon DEF Sound
  <2>. QED
    BY <1>2, <2>9, Zenon DEF w
<1>. QED
  BY <1>1, <1>2, Zenon

(* git_index_add_bypath(): the conflict of the path goes as well.                                  *)
LEMMA AddBypathSound ==
    ASSUME NEW s, Sound(s), NEW path \in IndexPath, NEW id,
           NEW r, r = Insert(s, path, 0, id), NEW q, q = ConflictRemove(r.s, {path})
    PROVE  Sound(IF r.ok THEN [q EXCEPT !.t = InvalidatePath(@, path)] ELSE r.s)
<1>. DEFINE key == <<path, 0>>
            gone == {k \in DOMAIN r.s.e : k[1] \in {path} /\ k[2] > 0}
            above == {k[1] : k \in gone}
            w == [q EXCEPT !.t = InvalidatePath(@, path)]
<1>0. 0 \in Stages
  BY IndexAssumption, Zenon
<1>1. CASE ~r.ok
  BY <1>1, InsertIs, Zenon
<1>2. CASE r.ok
  <2>1. /\ r.s.e = WithKey(s.e, key, id)
        /\ r.s.m = s.m \cup {key} /\ r.s.t = s.t
        /\ r.s = [e |-> r.s.e, m |-> r.s.m, t |-> r.s.t]
    <3>1. Inserted(s, r.s, key, id)
      BY <1>2, InsertIs, Zenon
    <3>. QED
      BY <3>1, Zenon DEF Inserted
  <2>2. q = [e |-> [k \in DOMAIN r.s.e \ gone |-> r.s.e[k]], m |-> r.s.m \ gone,
             t |-> InvalidateAll(r.s.t, above)]
    BY Zenon DEF ConflictRemove, RemoveEntries
  <2>3. \A k \in gone : k[2] > 0
    BY Zenon
  <2>. HIDE DEF gone, above
  <2>4. /\ w.e = [k \in DOMAIN r.s.e \ gone |-> r.s.e[k]] /\ w.m = r.s.m \ gone
        /\ w.t = InvalidatePath(InvalidateAll(s.t, above), path)
        /\ w = [e |-> w.e, m |-> w.m, t |-> w.t]
    <3>. DEFINE f == [k \in DOMAIN r.s.e \ gone |-> r.s.e[k]]
                u == InvalidateAll(s.t, above)
    <3>1. q = [e |-> f, m |-> r.s.m \ gone, t |-> u]
      BY <2>1, <2>2, Zenon
    <3>. HIDE DEF f, u
    <3>2. w = [e |-> f, m |-> r.s.m \ gone, t |-> InvalidatePath(u, path)]
      BY <3>1
    <3>. HIDE DEF w
    <3>3. w.e = f /\ w.m = r.s.m \ gone /\ w.t = InvalidatePath(u, path)
      BY <3>2
    <3>. QED
      BY <3>2, <3>3, Zenon DEF f, u
  <2>5. DOMAIN s.e \subseteq Keys /\ s.m = DOMAIN s.e /\ CacheType(s.t) /\ CacheOK(s.e, s.t)
    BY Zenon DEF Sound
  <2>6. key \in Keys /\ key[1] = path
    BY <1>0 DEF Keys
  <2>. HIDE DEF w, key
  <2>7. LET f == WithKey(s.e, key, id)
        IN  /\ DOMAIN f = DOMAIN s.e \cup {key} /\ DOMAIN f \subseteq Keys
            /\ \A k \in Changed(s.e, f) : k = key
    BY <2>5, <2>6, NewKey, Zenon
  <2>8. DOMAIN w.e = DOMAIN r.s.e \ gone /\ \A k \in DOMAIN w.e : w.e[k] = r.s.e[k]
    BY <2>4, Zenon
  <2>9. DOMAIN w.e \subseteq Keys /\ w.m = DOMAIN w.e
    BY <2>1, <2>4, <2>5, <2>7, <2>8, Zenon
  <2>10. \A k \in Changed(s.e, w.e) : k[2] = 0 => k[1] \in {path}
    <3>1. TAKE k \in Changed(s.e, w.e)
    <3>2. CASE k \in gone
      BY <3>2, <2>3
    <3>3. CASE k \notin gone
      <4>1. k \in Changed(s.e, r.s.e)
        BY <3>1, <3>3, <2>8, Zenon DEF Changed
      <4>. QED
        BY <4>1, <2>1, <2>6, <2>7, Zenon
    <3>. QED
      BY <3>2, <3>3, Zenon
  <2>11. CacheType(w.t) /\ Drops(s.t, w.t, {path})
    <3>. DEFINE u == InvalidateAll(s.t, above)
    <3>1. CacheType(u) /\ Drops(s.t, u, above)
      BY <2>5, AllDrops, Zenon
    <3>. HIDE DEF u
    <3>2. CacheType(InvalidatePath(u, path)) /\ Drops(u, InvalidatePath(u, path), {path})
      BY <3>1, PathDrops, Zenon
    <3>3. w.t = InvalidatePath(u, path)
      BY <2>4, Zenon DEF u
    <3>4. Drops(s.t, InvalidatePath(u, path), {path})
      BY <3>1, <3>2, DropsTwice, Zenon
    <3>. QED
      BY <3>2, <3>3, <3>4, Zenon
  <2>12. CacheOK(w.e, w.t)
    BY <2>5, <2>9, <2>10, <2>11, CacheKeeps, Zenon
  <2>13. Sound(w)
    BY <2>4, <2>9, <2>11, <2>12, Zenon DEF Sound
  <2>. QED
    BY <1>2, <2>13, Zenon DEF w
<1>. QED
  BY <1>1, <1>2, Zenon

-----------------------------------------------------------------------------
(* The tree writer.                                                                                 *)

Files(e) == {k[1] : k \in {l \in DOMAIN e : l[2] = 0}}

(* A directory that write_tree() visits is no deeper than a path, and has an entry below. *)
LEMMA DirType ==
    ASSUME NEW e, DOMAIN e \subseteq Keys, NEW d \in Dirs(Files(e))
    PROVE  /\ d \in Seq(Nat) /\ Len(d) \in 0..MaxDepth
           /\ d # <<>> => \E l \in DOMAIN e : l[2] = 0 /\ Under(d, l[1])
<1>0. MaxDepth \in Nat
  BY IndexAssumption, Zenon
<1>1. CASE d = <<>>
  BY <1>0, <1>1
<1>2. CASE d # <<>>
  <2>1. PICK k \in DOMAIN e : k[2] = 0 /\ d \in Parents(k[1])
    BY <1>2, Zenon DEF Dirs, Files
  <2>2. k[1] \in Seq(Nat) /\ k[1] \in IndexPath
    BY KeyParts, Zenon
  <2>3. d \in Seq(Nat) /\ Under(d, k[1])
    BY <2>1, <2>2, ParentUnder, Zenon
  <2>4. Len(k[1]) \in 1..MaxDepth
    BY <2>2, IndexAssumption, Zenon
  <2>5. Len(d) \in 0..MaxDepth
    BY <1>0, <2>2, <2>3, <2>4 DEF Under
  <2>. QED
    BY <2>1, <2>3, <2>5, Zenon
<1>. QED
  BY <1>1, <1>2, Zenon

(* write_tree() visits every directory of a stage 0 entry. *)
LEMMA IsDir ==
    ASSUME NEW e, DOMAIN e \subseteq Keys, NEW k \in DOMAIN e, k[2] = 0,
           NEW d \in Seq(Nat), Under(d, k[1])
    PROVE  d \in Dirs(Files(e))
<1>1. k[1] \in Seq(Nat) /\ k[1] \in Files(e)
  BY KeyParts, Zenon DEF Files
<1>2. d # <<>> => d \in Parents(k[1])
  BY <1>1, UnderParent, Zenon
<1>. QED
  BY <1>1, <1>2, Zenon DEF Dirs

(* A path is in a written tree when its stage 0 key is live. *)
LEMMA LivePath ==
    ASSUME NEW e, DOMAIN e \subseteq Keys, NEW d, NEW p
    PROVE  p \in {k[1] : k \in Live(e, d)} <=> <<p, 0>> \in Live(e, d)
<1>1. ASSUME NEW k \in Live(e, d)
      PROVE  k = <<k[1], 0>>
  <2>1. k \in Keys /\ k[2] = 0
    BY Zenon DEF Live
  <2>. QED
    BY <2>1, KeyParts, Zenon
<1>2. <<p, 0>>[1] = p
  OBVIOUS
<1>. QED
  BY <1>1, <1>2, Zenon

(* A directory whose subtrees are the ones of the entries is written as its entries make it.            *)
LEMMA SubtreeIs ==
    ASSUME NEW e, DOMAIN e \subseteq Keys, NEW t, CacheOK(e, t), NEW f, DOMAIN f = Dirs(Files(e)),
           NEW d \in Dirs(Files(e)),
           \A s \in Dirs(Files(e)) : Under(d, s) /\ Len(s) = Len(d) + 1 => f[s] = Written(e, s)
    PROVE  Subtree(e, t, f, d) = Written(e, d)
<1>. DEFINE subs == {s \in DOMAIN f : Under(d, s) /\ Len(s) = Len(d) + 1}
            here == {k \in DOMAIN e : k[2] = 0 /\ Under(d, k[1]) /\ Len(k[1]) = Len(d) + 1}
            files == {k[1] : k \in here} \ subs
            below == files \cup UNION {DOMAIN f[s] : s \in subs}
            Value(p) == IF p \in files THEN e[<<p, 0>>] ELSE f[SubSeq(p, 1, Len(d) + 1)][p]
<1>0. d \in Seq(Nat) /\ \A k \in DOMAIN e : k[1] \in Seq(Nat) /\ k = <<k[1], k[2]>>
  BY DirType, KeyParts, Zenon
<1>1. CASE Cached(t, d)
  BY <1>1, Zenon DEF Subtree, Cached, CacheOK
<1>2. CASE ~Cached(t, d)
  <2>1. Subtree(e, t, f, d) = [p \in below |-> Value(p)]
    BY <1>2, Zenon DEF Subtree
  <2>2. \A s \in subs : /\ s \in Seq(Nat) /\ s # <<>> /\ Under(d, s) /\ Len(s) = Len(d) + 1
                        /\ f[s] = Written(e, s) /\ s \in Dirs(Files(e))
    <3>1. TAKE s \in subs
    <3>2. s \in Dirs(Files(e)) /\ Under(d, s) /\ Len(s) = Len(d) + 1
      BY Zenon
    <3>3. s \in Seq(Nat)
      BY <3>2, DirType, Zenon
    <3>4. s # <<>>
      BY <3>2, <1>0
    <3>. QED
      BY <3>2, <3>3, <3>4, Zenon
  <2>3. ASSUME NEW k \in Live(e, d)
        PROVE  k[1] \in below
    <3>1. k \in DOMAIN e /\ k[2] = 0 /\ Under(d, k[1]) /\ k[1] \in Seq(Nat)
      BY <1>0, Zenon DEF Live
    <3>2. CASE Len(k[1]) = Len(d) + 1
      <4>1. k \in here
        BY <3>1, <3>2, Zenon
      <4>2. k[1] \notin subs
        <5>1. SUFFICES ASSUME k[1] \in subs PROVE FALSE
          BY Zenon
        <5>2. PICK l \in DOMAIN e : l[2] = 0 /\ Under(k[1], l[1])
          BY <5>1, <2>2, DirType, Zenon
        <5>. QED
          BY <5>2, Zenon DEF Live
      <4>. QED
        BY <4>1, <4>2, Zenon
    <3>3. CASE Len(k[1]) # Len(d) + 1
      <4>. DEFINE s == SubSeq(k[1], 1, Len(d) + 1)
      <4>1. s \in Seq(Nat) /\ Under(d, s) /\ Len(s) = Len(d) + 1 /\ Under(s, k[1])
        BY <1>0, <3>1, <3>3, NextDown, Zenon
      <4>. HIDE DEF s
      <4>2. s \in Dirs(Files(e))
        BY <3>1, <4>1, IsDir, Zenon
      <4>3. s \in subs /\ f[s] = Written(e, s)
        BY <4>1, <4>2, Zenon
      <4>4. k \in Live(e, s)
        BY <4>1, Zenon DEF Live
      <4>5. k[1] \in DOMAIN f[s]
        <5>1. DOMAIN Written(e, s) = {l[1] : l \in Live(e, s)}
          BY Zenon DEF Written
        <5>. QED
          BY <4>3, <4>4, <5>1, Zenon
      <4>. QED
        BY <4>3, <4>5, Zenon
    <3>. QED
      BY <3>2, <3>3, Zenon
  <2>4. ASSUME NEW p \in below
        PROVE  <<p, 0>> \in Live(e, d) /\ Value(p) = e[<<p, 0>>]
    <3>1. CASE p \in files
      <4>1. PICK k \in here : p = k[1]
        BY <3>1, Zenon
      <4>2. k = <<p, 0>> /\ p \in Seq(Nat) /\ Len(p) = Len(d) + 1 /\ k \in DOMAIN e /\ Under(d, p)
        BY <4>1, <1>0, Zenon
      <4>3. p # <<>>
        BY <4>2, <1>0
      <4>4. ASSUME NEW l \in DOMAIN e, l[2] = 0, Under(p, l[1])
            PROVE  FALSE
        <5>1. p \in Dirs(Files(e))
          BY <4>2, <4>4, IsDir, Zenon
        <5>. QED
          BY <3>1, <5>1, <4>2, Zenon
      <4>. QED
        BY <3>1, <4>1, <4>2, <4>4, Zenon DEF Live
    <3>2. CASE p \notin files
      <4>1. PICK s \in subs : p \in DOMAIN f[s]
        BY <3>2, Zenon
      <4>2. /\ s \in Seq(Nat) /\ Under(d, s) /\ Len(s) = Len(d) + 1 /\ f[s] = Written(e, s)
        BY <2>2, Zenon
      <4>3. p \in {k[1] : k \in Live(e, s)} /\ f[s][p] = e[<<p, 0>>]
        BY <4>1, <4>2, Zenon DEF Written
      <4>4. <<p, 0>> \in Live(e, s)
        BY <4>3, LivePath, Zenon
      <4>5. <<p, 0>>[1] = p /\ <<p, 0>>[2] = 0
        OBVIOUS
      <4>6. Under(s, p) /\ p \in Seq(Nat) /\ <<p, 0>> \in DOMAIN e
        BY <4>4, <4>5, <1>0, Zenon DEF Live
      <4>7. SubSeq(p, 1, Len(d) + 1) = s
        BY <4>2, <4>6, UnderPrefix, Zenon
      <4>8. Under(d, p)
        BY <1>0, <4>2, <4>6, UnderTransitive, Zenon
      <4>9. <<p, 0>> \in Live(e, d)
        BY <4>4, <4>5, <4>8, Zenon DEF Live
      <4>. QED
        BY <3>2, <4>3, <4>7, <4>9, Zenon
    <3>. QED
      BY <3>1, <3>2, Zenon
  <2>. HIDE DEF below, Value
  <2>5. below = {k[1] : k \in Live(e, d)}
    <3>1. \A p \in below : p \in {k[1] : k \in Live(e, d)}
      BY <2>4, LivePath, Zenon
    <3>2. \A p \in {k[1] : k \in Live(e, d)} : p \in below
      BY <2>3, Zenon
    <3>. QED
      BY <3>1, <3>2, Zenon
  <2>6. [p \in below |-> Value(p)] = Written(e, d)
    BY <2>4, <2>5, Zenon DEF Written
  <2>. QED
    BY <2>1, <2>6, Zenon
<1>. QED
  BY <1>1, <1>2, Zenon

(* git_tree__write_index() writes the tree of the entries: no directory, down to the deepest, differs.    *)
LEMMA WriteDirIs ==
    ASSUME NEW e, DOMAIN e \subseteq Keys, NEW t, CacheOK(e, t)
    PROVE  WriteDir(e, t) = Written(e, <<>>)
<1>. DEFINE dirs == Dirs(Files(e))
            Rec(f) == f = [d \in dirs |-> Subtree(e, t, f, d)]
            Sub == CHOOSE f : Rec(f)
            W == [d \in dirs |-> Written(e, d)]
<1>1. WriteDir(e, t) = Sub[<<>>]
  BY DEF WriteDir, Files
<1>2. Rec(W)
  <2>1. DOMAIN W = dirs /\ \A d \in dirs : W[d] = Written(e, d)
    BY Zenon
  <2>. HIDE DEF W
  <2>2. \A d \in dirs : Subtree(e, t, W, d) = Written(e, d)
    BY <2>1, SubtreeIs, Zenon
  <2>3. W = [d \in dirs |-> Written(e, d)]
    BY Zenon DEF W
  <2>. QED
    BY <2>2, <2>3, Zenon
<1>3. Rec(Sub)
  BY <1>2, Zenon
<1>. HIDE DEF Sub, W
<1>4. DOMAIN Sub = dirs /\ \A d \in dirs : Sub[d] = Subtree(e, t, Sub, d)
  BY <1>3, Zenon
<1>. HIDE DEF Rec
<1>. DEFINE Bad == {d \in dirs : Sub[d] # Written(e, d)}
            T == {MaxDepth - Len(d) : d \in Bad}
<1>5. MaxDepth \in Nat /\ \A d \in dirs : d \in Seq(Nat) /\ Len(d) \in 0..MaxDepth
  BY DirType, IndexAssumption, Zenon
<1>6. Bad = {}
  <2>1. SUFFICES ASSUME Bad # {} PROVE FALSE
    BY Zenon
  <2>2. T # {}
    BY <2>1, Zenon
  <2>3. T \subseteq Nat
    <3>1. \A d \in dirs : MaxDepth - Len(d) \in Nat
      BY <1>5
    <3>. QED
      BY <3>1, Zenon
  <2>4. IsWellFoundedOn(OpToRel(<, Nat), Nat)
    BY NatLessThanWellFounded, Zenon
  <2>5. PICK n \in T : \A m \in T : ~(<<m, n>> \in OpToRel(<, Nat))
    BY <2>2, <2>3, <2>4, WFMin, Zenon
  <2>6. \A m \in T : ~(m < n)
    BY <2>3, <2>5, Zenon DEF OpToRel
  <2>7. PICK d \in Bad : n = MaxDepth - Len(d)
    BY <2>5, Zenon
  <2>8. ASSUME NEW s \in dirs, Under(d, s), Len(s) = Len(d) + 1
        PROVE  Sub[s] = Written(e, s)
    <3>1. d \in dirs
      BY Zenon
    <3>2. MaxDepth - Len(s) < n
      BY <1>5, <2>7, <2>8, <3>1
    <3>3. MaxDepth - Len(s) \notin T
      BY <2>6, <3>2, Zenon
    <3>. QED
      BY <3>3, <2>8, Zenon
  <2>9. d \in dirs /\ Sub[d] # Written(e, d)
    BY Zenon
  <2>10. Subtree(e, t, Sub, d) = Written(e, d)
    BY <1>4, <2>8, <2>9, SubtreeIs, Zenon
  <2>. QED
    BY <1>4, <2>9, <2>10, Zenon
<1>7. <<>> \in dirs
  BY Zenon DEF Dirs
<1>. QED
  BY <1>1, <1>6, <1>7, Zenon

(* git_tree_cache_read_tree(): the cache of the tree of the entries is right for them.                       *)
LEMMA ReadTreeOK ==
    ASSUME NEW e, DOMAIN e \subseteq Keys, NEW c, c = Written(e, <<>>)
    PROVE  CacheType(CacheReadTree(c)) /\ CacheOK(e, CacheReadTree(c))
<1>. DEFINE t == CacheReadTree(c)
            Tree(d) == [p \in {r \in DOMAIN c : Under(d, r)} |-> c[p]]
<1>1. t = [d \in Dirs(DOMAIN c) |-> [valid |-> TRUE, id |-> Tree(d)]]
  BY Zenon DEF CacheReadTree
<1>2. DOMAIN c = {k[1] : k \in Live(e, <<>>)} /\ \A p \in DOMAIN c : c[p] = e[<<p, 0>>]
  BY Zenon DEF Written
<1>3. \A p \in DOMAIN c : p \in Seq(Nat) /\ p # <<>>
  <2>1. TAKE p \in DOMAIN c
  <2>2. PICK k \in Live(e, <<>>) : p = k[1]
    BY <1>2, Zenon
  <2>3. k \in Keys
    BY Zenon DEF Live
  <2>4. p \in IndexPath /\ p \in Seq(Nat)
    BY <2>2, <2>3, KeyParts, Zenon
  <2>5. Len(p) \in 1..MaxDepth
    BY <2>4, IndexAssumption, Zenon
  <2>. QED
    BY <2>4, <2>5, IndexAssumption
<1>4. \A d \in Dirs(DOMAIN c) : d \in Seq(Nat)
  <2>1. TAKE d \in Dirs(DOMAIN c)
  <2>2. CASE d = <<>>
    BY <2>2
  <2>3. CASE d # <<>>
    BY <2>3, <1>3, ParentUnder, Zenon DEF Dirs
  <2>. QED
    BY <2>2, <2>3, Zenon
<1>5. ASSUME NEW d \in Dirs(DOMAIN c)
      PROVE  Tree(d) = Written(e, d)
  <2>1. {r \in DOMAIN c : Under(d, r)} = {k[1] : k \in Live(e, d)}
    <3>1. ASSUME NEW r \in DOMAIN c, Under(d, r)
          PROVE  r \in {k[1] : k \in Live(e, d)}
      <4>1. PICK k \in Live(e, <<>>) : r = k[1]
        BY <1>2, Zenon
      <4>2. k \in Live(e, d)
        BY <3>1, <4>1, Zenon DEF Live
      <4>. QED
        BY <4>1, <4>2, Zenon
    <3>2. ASSUME NEW k \in Live(e, d)
          PROVE  k[1] \in DOMAIN c /\ Under(d, k[1])
      <4>1. k \in DOMAIN e /\ k[2] = 0 /\ Under(d, k[1]) /\ k[1] \in Seq(Nat)
        BY KeyParts, Zenon DEF Live
      <4>2. Under(<<>>, k[1])
        BY <4>1, <1>4 DEF Under
      <4>3. k \in Live(e, <<>>)
        BY <4>1, <4>2, Zenon DEF Live
      <4>. QED
        BY <4>1, <4>3, <1>2, Zenon
    <3>. QED
      BY <3>1, <3>2, Zenon
  <2>2. \A p \in {k[1] : k \in Live(e, d)} : c[p] = e[<<p, 0>>]
    BY <1>2, <2>1, Zenon
  <2>. QED
    BY <2>1, <2>2, Zenon DEF Written
<1>. HIDE DEF t, Tree
<1>6. DOMAIN t = Dirs(DOMAIN c) /\ t = [d \in DOMAIN t |-> t[d]]
  BY <1>1, Zenon
<1>7. \A d \in DOMAIN t : t[d] = [valid |-> TRUE, id |-> Tree(d)]
  BY <1>1, <1>6, Zenon
<1>8. \A d \in DOMAIN t : t[d].valid = TRUE /\ t[d].id = Tree(d)
  BY <1>7
<1>9. CacheType(t)
  BY <1>4, <1>6, <1>7, <1>8, Zenon DEF CacheType
<1>10. CacheOK(e, t)
  BY <1>5, <1>6, <1>8, Zenon DEF CacheOK
<1>. QED
  BY <1>9, <1>10, Zenon DEF t

-----------------------------------------------------------------------------
(* The steps.                                                                                                *)

(* Soundness depends on the fields of an index alone. *)
LEMMA SoundPut ==
    ASSUME NEW s, Sound(s), NEW e, NEW m, NEW t, e = s.e, m = s.m, t = s.t
    PROVE  Sound([e |-> e, m |-> m, t |-> t])
BY Zenon DEF Sound

(* A call that leaves the file alone and puts a sound index in place.                                          *)
LEMMA PutStep ==
    ASSUME IndexInv, UNCHANGED index_file,
           NEW s, Sound(s), entries' = s.e, map' = s.m, tree' = s.t
    PROVE  IndexInv'
<1>1. Sound([e |-> entries', m |-> map', t |-> tree'])
  BY SoundPut, Zenon
<1>2. Sound(State')
  BY <1>1, Zenon DEF State
<1>3. Sound([e |-> index_file'.e, m |-> DOMAIN index_file'.e, t |-> index_file'.t])
  BY Zenon DEF IndexInv
<1>. QED
  BY <1>2, <1>3, Zenon DEF IndexInv

(* index_conflict_remove() keeps an index sound. *)
LEMMA ConflictSound ==
    ASSUME NEW s, Sound(s), NEW paths
    PROVE  Sound(ConflictRemove(s, paths))
BY RemoveSound, Zenon DEF ConflictRemove

(* git_index_add(). *)
LEMMA IndexAddStep ==
    ASSUME IndexInv, NEW p \in IndexPath, NEW i \in Stages, NEW id \in Id, IndexAdd(p, i, id)
    PROVE  IndexInv'
<1>. DEFINE r == Insert(State, p, i, id)
            s == IF r.ok THEN [r.s EXCEPT !.t = InvalidatePath(@, p)] ELSE r.s
<1>1. Sound(s)
  BY AddSound, Zenon DEF IndexInv
<1>2. entries' = s.e /\ map' = s.m /\ tree' = s.t /\ UNCHANGED index_file
  BY Zenon DEF IndexAdd, Put
<1>. HIDE DEF s
<1>. QED
  BY <1>1, <1>2, PutStep, Zenon

(* git_index_add_bypath(): the entry, and then the conflict of its path. *)
LEMMA AddBypathStep ==
    ASSUME IndexInv, NEW p \in IndexPath, NEW id \in Id, AddBypath(p, id)
    PROVE  IndexInv'
<1>. DEFINE r == Insert(State, p, 0, id)
            q == ConflictRemove(r.s, {p})
            s == IF r.ok THEN [q EXCEPT !.t = InvalidatePath(@, p)] ELSE r.s
<1>1. Sound(s)
  BY AddBypathSound, Zenon DEF IndexInv
<1>2. entries' = s.e /\ map' = s.m /\ tree' = s.t /\ UNCHANGED index_file
  BY Zenon DEF AddBypath, Put
<1>. HIDE DEF s
<1>. QED
  BY <1>1, <1>2, PutStep, Zenon

(* git_index_remove(): the key is gone from the map before the entry; in the end both are.                       *)
LEMMA RemoveStageStep ==
    ASSUME IndexInv, NEW p \in IndexPath, NEW i \in Stages, RemoveStage(p, i)
    PROVE  IndexInv'
<1>. DEFINE key == <<p, i>>
            keys == {key} \cap DOMAIN entries
            s0 == [State EXCEPT !.m = @ \ {key}]
            s == RemoveEntries(State, keys)
<1>1. Sound(State)
  BY Zenon DEF IndexInv
<1>2. Sound(s)
  BY <1>1, RemoveSound, Zenon
<1>3. map = DOMAIN entries
  BY <1>1 DEF Sound, State
<1>4. /\ entries' = RemoveEntries(s0, keys).e /\ map' = RemoveEntries(s0, keys).m
      /\ tree' = RemoveEntries(s0, keys).t /\ UNCHANGED index_file
  BY Zenon DEF RemoveStage, Put
<1>5. s0.e = State.e /\ s0.t = State.t /\ s0.m = map \ {key} /\ State.m = map
  BY DEF State
<1>. HIDE DEF s0, key
<1>6. RemoveEntries(s0, keys).e = s.e /\ RemoveEntries(s0, keys).t = s.t
  BY <1>5 DEF RemoveEntries
<1>7. RemoveEntries(s0, keys).m = (map \ {key}) \ keys /\ s.m = map \ keys
  BY <1>5 DEF RemoveEntries
<1>8. (map \ {key}) \ keys = map \ keys
  BY <1>3, Zenon
<1>. HIDE DEF s
<1>. QED
  BY <1>2, <1>4, <1>6, <1>7, <1>8, PutStep, Zenon

(* git_index_remove_bypath(). *)
LEMMA RemoveBypathStep ==
    ASSUME IndexInv, NEW p \in IndexPath, RemoveBypath(p)
    PROVE  IndexInv'
<1>. DEFINE s == ConflictRemove(RemoveEntries(State, {<<p, 0>>} \cap DOMAIN entries), {p})
<1>1. Sound(s)
  BY RemoveSound, ConflictSound, Zenon DEF IndexInv
<1>2. entries' = s.e /\ map' = s.m /\ tree' = s.t /\ UNCHANGED index_file
  BY Zenon DEF RemoveBypath, Put
<1>. HIDE DEF s
<1>. QED
  BY <1>1, <1>2, PutStep, Zenon

(* git_index_remove_directory(). *)
LEMMA RemoveDirectoryStep ==
    ASSUME IndexInv, NEW d, NEW i, RemoveDirectory(d, i)
    PROVE  IndexInv'
<1>. DEFINE s == RemoveEntries(State, {k \in DOMAIN entries : Under(d, k[1]) /\ k[2] = i})
<1>1. Sound(s)
  BY RemoveSound, Zenon DEF IndexInv
<1>2. entries' = s.e /\ map' = s.m /\ tree' = s.t /\ UNCHANGED index_file
  BY Zenon DEF RemoveDirectory, Put
<1>. HIDE DEF s
<1>. QED
  BY <1>1, <1>2, PutStep, Zenon

(* git_index_conflict_remove() and git_index_conflict_cleanup(). *)
LEMMA CleanupStep ==
    ASSUME IndexInv, NEW paths, ConflictCleanup(paths)
    PROVE  IndexInv'
<1>. DEFINE s == ConflictRemove(State, paths)
<1>1. Sound(s)
  BY ConflictSound, Zenon DEF IndexInv
<1>2. entries' = s.e /\ map' = s.m /\ tree' = s.t /\ UNCHANGED index_file
  BY Zenon DEF ConflictCleanup, Put
<1>. HIDE DEF s
<1>. QED
  BY <1>1, <1>2, PutStep, Zenon

(* git_index_conflict_add(): each side that comes in keeps the index sound.                                        *)
LEMMA ConflictAddStep ==
    ASSUME IndexInv, NEW p \in IndexPath, NEW sides \in SUBSET (Stages \ {0}), NEW id \in Id,
           ConflictAdd(p, sides, id)
    PROVE  IndexInv'
<1>. DEFINE Side(acc, stage) ==
              IF acc.ok /\ stage \in sides THEN Insert(acc.s, p, stage, id) ELSE acc
            a0 == [s |-> RemoveEntries(State, {<<p, 0>>} \cap DOMAIN entries), ok |-> TRUE]
            a1 == Side(a0, 1)
            a2 == Side(a1, 2)
            a3 == Side(a2, 3)
<1>1. a0.s = RemoveEntries(State, {<<p, 0>>} \cap DOMAIN entries)
  OBVIOUS
<1>2. Sound(a0.s)
  BY <1>1, RemoveSound, Zenon DEF IndexInv
<1>3. ASSUME NEW acc, Sound(acc.s), NEW stage
      PROVE  Sound(Side(acc, stage).s)
  <2>1. CASE acc.ok /\ stage \in sides
    <3>1. stage \in Stages /\ stage # 0
      BY <2>1, Zenon
    <3>. QED
      BY <1>3, <2>1, <3>1, InsertSide, Zenon
  <2>2. CASE ~(acc.ok /\ stage \in sides)
    BY <1>3, <2>2, Zenon
  <2>. QED
    BY <2>1, <2>2, Zenon
<1>4. /\ entries' = a3.s.e /\ map' = a3.s.m /\ tree' = a3.s.t /\ UNCHANGED index_file
  BY DEF ConflictAdd, Put
<1>. HIDE DEF a0, Side
<1>5. Sound(a1.s)
  BY <1>2, <1>3, Zenon
<1>. HIDE DEF a1
<1>6. Sound(a2.s)
  BY <1>5, <1>3, Zenon
<1>. HIDE DEF a2
<1>7. Sound(a3.s)
  BY <1>6, <1>3, Zenon
<1>. HIDE DEF a3
<1>. QED
  BY <1>4, <1>7, PutStep, Zenon

(* An empty index.                                                                                                  *)
LEMMA NothingSound == Sound([e |-> Nothing, m |-> {}, t |-> NoTree])
<1>. DEFINE s == [e |-> Nothing, m |-> {}, t |-> NoTree]
<1>1. s.e = Nothing /\ s.m = {} /\ s.t = NoTree
  OBVIOUS
<1>2. s = [e |-> s.e, m |-> s.m, t |-> s.t]
  BY <1>1, Zenon
<1>. HIDE DEF s
<1>3. DOMAIN s.e = {}
  BY <1>1, Zenon DEF Nothing
<1>4. CacheType(s.t) /\ CacheOK(s.e, s.t)
  BY <1>1, Zenon DEF CacheType, CacheOK
<1>5. Sound(s)
  BY <1>1, <1>2, <1>3, <1>4, Zenon DEF Sound
<1>. QED
  BY <1>5, Zenon DEF s

(* git_index_clear(): no entry, no map, no cache. *)
LEMMA ClearStep ==
    ASSUME IndexInv, Clear
    PROVE  IndexInv'
<1>. DEFINE s == [e |-> Nothing, m |-> {}, t |-> NoTree]
<1>1. Sound(s)
  BY NothingSound, Zenon
<1>2. entries' = s.e /\ map' = s.m /\ tree' = s.t /\ UNCHANGED index_file
  BY Zenon DEF Clear, Put
<1>. HIDE DEF s
<1>. QED
  BY <1>1, <1>2, PutStep, Zenon

(* The entries that git_index_read_tree() and git_index_read_index() make of a tree.                                   *)
Of(c, stage) == [k \in (DOMAIN c) \X {stage} |-> c[k[1]]]

(* The entries that a tree or another index has to offer. *)
LEMMA OfKeys ==
    ASSUME NEW c \in Sources, NEW stage \in Stages
    PROVE  /\ DOMAIN Of(c, stage) \subseteq Keys
           /\ \A k \in DOMAIN Of(c, stage) : k[1] \in DOMAIN c /\ k = <<k[1], stage>>
           /\ \A p \in DOMAIN c : /\ <<p, stage>> \in DOMAIN Of(c, stage)
                                  /\ Of(c, stage)[<<p, stage>>] = c[p]
<1>1. DOMAIN c \subseteq IndexPath
  BY IndexAssumption, Zenon
<1>2. DOMAIN Of(c, stage) = (DOMAIN c) \X {stage}
  BY Zenon DEF Of
<1>3. \A p \in DOMAIN c : <<p, stage>> \in (DOMAIN c) \X {stage} /\ <<p, stage>>[1] = p
  OBVIOUS
<1>4. \A p \in DOMAIN c : Of(c, stage)[<<p, stage>>] = c[p]
  BY <1>3, Zenon DEF Of
<1>5. \A k \in (DOMAIN c) \X {stage} : k \in Keys /\ k[1] \in DOMAIN c /\ k = <<k[1], stage>>
  BY <1>1 DEF Keys
<1>. QED
  BY <1>2, <1>3, <1>4, <1>5, Zenon

(* A tree has no file in the place of a directory: it is what is written of its entries.                                 *)
LEMMA SourceIsWritten ==
    ASSUME NEW c \in Sources
    PROVE  CacheReadTree(c) = CacheReadTree(Written(Of(c, 0), <<>>))
<1>. DEFINE e == Of(c, 0)
            w == Written(e, <<>>)
<1>1. 0 \in Stages
  BY IndexAssumption, Zenon
<1>2. /\ DOMAIN e \subseteq Keys
      /\ \A k \in DOMAIN e : k[1] \in DOMAIN c /\ k = <<k[1], 0>>
      /\ \A p \in DOMAIN c : <<p, 0>> \in DOMAIN e /\ e[<<p, 0>>] = c[p]
  BY <1>1, OfKeys, Zenon
<1>. HIDE DEF e
<1>3. \A p, q \in DOMAIN c : ~Under(p, q)
  BY IndexAssumption, Zenon
<1>4. \A p \in DOMAIN c : <<p, 0>> \in Live(e, <<>>)
  <2>1. TAKE p \in DOMAIN c
  <2>2. <<p, 0>>[1] = p /\ <<p, 0>>[2] = 0
    OBVIOUS
  <2>3. p \in IndexPath
    BY IndexAssumption, Zenon
  <2>4. p \in Seq(Nat) /\ Len(p) \in 1..MaxDepth /\ MaxDepth \in Nat
    BY <2>3, IndexAssumption, Zenon
  <2>5. Under(<<>>, p)
    BY <2>4 DEF Under
  <2>6. \A l \in DOMAIN e : ~Under(p, l[1])
    BY <1>2, <1>3, Zenon
  <2>. QED
    BY <1>2, <2>2, <2>5, <2>6, Zenon DEF Live
<1>5. DOMAIN w = {k[1] : k \in Live(e, <<>>)} /\ \A p \in DOMAIN w : w[p] = e[<<p, 0>>]
  BY Zenon DEF Written
<1>. HIDE DEF w
<1>6. DOMAIN w = DOMAIN c
  <2>1. \A p \in DOMAIN c : p \in DOMAIN w
    BY <1>2, <1>4, <1>5, LivePath, Zenon
  <2>2. \A p \in DOMAIN w : p \in DOMAIN c
    BY <1>2, <1>5, Zenon DEF Live
  <2>. QED
    BY <2>1, <2>2, Zenon
<1>7. \A p \in DOMAIN c : w[p] = c[p]
  BY <1>2, <1>5, <1>6, Zenon
<1>8. \A d : {r \in DOMAIN w : Under(d, r)} = {r \in DOMAIN c : Under(d, r)}
  BY <1>6, Zenon
<1>9. \A d : [p \in {r \in DOMAIN w : Under(d, r)} |-> w[p]] = [p \in {r \in DOMAIN c : Under(d, r)} |-> c[p]]
  BY <1>7, <1>8, Zenon
<1>10. CacheReadTree(c) = CacheReadTree(w)
  BY <1>6, <1>9, Zenon DEF CacheReadTree
<1>. QED
  BY <1>10, Zenon DEF w, e

(* git_index_read_tree(): the entries of a tree, and the cache read from it. *)
LEMMA ReadTreeStep ==
    ASSUME IndexInv, NEW c \in Sources, ReadTree(c)
    PROVE  IndexInv'
<1>. DEFINE e == Of(c, 0)
            t == CacheReadTree(c)
            s == [e |-> e, m |-> DOMAIN e, t |-> t]
<1>1. /\ entries' = s.e /\ map' = s.m /\ tree' = s.t /\ UNCHANGED index_file
  BY Zenon DEF ReadTree, Put, Of
<1>2. DOMAIN e \subseteq Keys
  BY OfKeys, IndexAssumption, Zenon
<1>3. CacheType(t) /\ CacheOK(e, t)
  BY <1>2, ReadTreeOK, SourceIsWritten, Zenon
<1>. HIDE DEF e, t
<1>4. s.e = e /\ s.m = DOMAIN e /\ s.t = t
  OBVIOUS
<1>5. Sound(s)
  BY <1>2, <1>3, <1>4, Zenon DEF Sound
<1>. HIDE DEF s
<1>. QED
  BY <1>1, <1>5, PutStep, Zenon

(* git_index_read_index(): the cache keeps the directories in which nothing changes.                                       *)
LEMMA ReadIndexStep ==
    ASSUME IndexInv, NEW c \in Sources, NEW i \in Stages, ReadIndex(c, i)
    PROVE  IndexInv'
<1>. DEFINE e == Of(c, i)
            paths == {k[1] : k \in Changed(entries, e)}
            t == InvalidateAll(tree, paths)
            s == [e |-> e, m |-> DOMAIN e, t |-> t]
<1>1. /\ entries' = s.e /\ map' = s.m /\ tree' = s.t /\ UNCHANGED index_file
  BY Zenon DEF ReadIndex, Put, Of
<1>2. DOMAIN e \subseteq Keys
  BY OfKeys, Zenon
<1>. HIDE DEF e
<1>3. State.e = entries /\ State.t = tree
  BY DEF State
<1>4. DOMAIN entries \subseteq Keys /\ CacheType(tree) /\ CacheOK(entries, tree)
  BY <1>3, Zenon DEF IndexInv, Sound
<1>5. CacheType(t) /\ Drops(tree, t, paths)
  BY <1>4, AllDrops, Zenon
<1>6. \A k \in Changed(entries, e) : k[2] = 0 => k[1] \in paths
  BY Zenon
<1>. HIDE DEF t, paths
<1>7. CacheOK(e, t)
  BY <1>2, <1>4, <1>5, <1>6, CacheKeeps, Zenon
<1>8. s.e = e /\ s.m = DOMAIN e /\ s.t = t
  OBVIOUS
<1>9. Sound(s)
  BY <1>2, <1>5, <1>7, <1>8, Zenon DEF Sound
<1>. HIDE DEF s
<1>. QED
  BY <1>1, <1>9, PutStep, Zenon

(* git_index_write_tree(): the cache is read from the tree just written, which is Written. *)
LEMMA WriteTreeStep ==
    ASSUME IndexInv, WriteTree
    PROVE  IndexInv'
<1>. DEFINE s == [e |-> entries, m |-> map, t |-> tree']
<1>1. State.e = entries /\ State.m = map /\ State.t = tree
  BY DEF State
<1>2. DOMAIN entries \subseteq Keys /\ map = DOMAIN entries /\ CacheType(tree) /\ CacheOK(entries, tree)
  BY <1>1, Zenon DEF IndexInv, Sound
<1>3. CacheType(tree') /\ CacheOK(entries, tree')
  <2>1. CASE tree' = tree
    BY <1>2, <2>1, Zenon
  <2>2. CASE tree' = CacheReadTree(WriteDir(entries, tree))
    <3>1. WriteDir(entries, tree) = Written(entries, <<>>)
      BY <1>2, WriteDirIs, Zenon
    <3>. QED
      BY <1>2, <2>2, <3>1, ReadTreeOK, Zenon
  <2>. QED
    BY <2>1, <2>2, Zenon DEF WriteTree
<1>4. s.e = entries /\ s.m = map /\ s.t = tree'
  OBVIOUS
<1>5. Sound(s)
  BY <1>2, <1>3, <1>4, Zenon DEF Sound
<1>6. entries' = s.e /\ map' = s.m /\ tree' = s.t /\ UNCHANGED index_file
  BY <1>4, Zenon DEF WriteTree
<1>7. Sound([e |-> entries', m |-> map', t |-> tree'])
  BY <1>5, <1>6, <1>4, Zenon
<1>8. Sound(State')
  BY <1>7, Zenon DEF State
<1>. QED
  BY <1>6, <1>8, Zenon DEF IndexInv

(* git_index_write(): the cache is written with the entries it is right about. *)
LEMMA IndexWriteStep ==
    ASSUME IndexInv, IndexWrite
    PROVE  IndexInv'
<1>1. index_file' = [e |-> entries, t |-> tree] /\ UNCHANGED <<entries, map, tree>>
  BY Zenon DEF IndexWrite
<1>2. index_file'.e = entries /\ index_file'.t = tree
  BY <1>1
<1>3. State = [e |-> entries, m |-> map, t |-> tree] /\ State' = State
  BY <1>1 DEF State
<1>4. map = DOMAIN entries
  BY <1>3 DEF IndexInv, Sound
<1>. QED
  BY <1>2, <1>3, <1>4, Zenon DEF IndexInv

(* git_index_read(): what was written comes back, and the map is built from it. *)
LEMMA IndexReadStep ==
    ASSUME IndexInv, IndexRead
    PROVE  IndexInv'
<1>. DEFINE s == [e |-> index_file.e, m |-> DOMAIN index_file.e, t |-> index_file.t]
<1>1. Sound(s)
  BY Zenon DEF IndexInv
<1>2. entries' = s.e /\ map' = s.m /\ tree' = s.t /\ UNCHANGED index_file
  BY Zenon DEF IndexRead, Put
<1>. HIDE DEF s
<1>. QED
  BY <1>1, <1>2, PutStep, Zenon

(* Where no file is in the place of a directory, all stage 0 entries are written.                                              *)
LEMMA WrittenIsContent ==
    ASSUME NEW e, ~Colliding(e), NEW d
    PROVE  Written(e, d) = Content(e, d)
<1>1. Live(e, d) = {k \in DOMAIN e : k[2] = 0 /\ Under(d, k[1])}
  BY Zenon DEF Live, Colliding
<1>. QED
  BY <1>1, Zenon DEF Written, Content

(* After any sequence of calls the tree cache and the map of an index, and of the index file, agree with the entries:           *)
(* IndexInv is inductive.                                                                                                     *)
THEOREM IndexInvariant == IndexSpec => []IndexInv
<1>1. IndexInit => IndexInv
  <2>. SUFFICES ASSUME IndexInit PROVE IndexInv
    OBVIOUS
  <2>1. State = [e |-> Nothing, m |-> {}, t |-> NoTree]
    BY Zenon DEF IndexInit, State
  <2>2. index_file.e = Nothing /\ index_file.t = NoTree
    BY DEF IndexInit
  <2>3. DOMAIN Nothing = {}
    BY Zenon DEF Nothing
  <2>. QED
    BY <2>1, <2>2, <2>3, NothingSound, Zenon DEF IndexInv
<1>2. IndexInv /\ [IndexNext]_index_vars => IndexInv'
  <2>. SUFFICES ASSUME IndexInv, [IndexNext]_index_vars PROVE IndexInv'
    OBVIOUS
  <2>1. CASE UNCHANGED index_vars
    <3>1. UNCHANGED <<entries, map, tree, index_file>>
      BY <2>1 DEF index_vars
    <3>. QED
      BY <3>1, Zenon DEF IndexInv, State
  <2>2. ASSUME NEW p \in IndexPath, NEW id \in Id, AddBypath(p, id)
        PROVE  IndexInv'
    BY <2>2, AddBypathStep, Zenon
  <2>3. ASSUME NEW p \in IndexPath, NEW id \in Id, NEW i \in Stages, IndexAdd(p, i, id)
        PROVE  IndexInv'
    BY <2>3, IndexAddStep, Zenon
  <2>4. ASSUME NEW p \in IndexPath, RemoveBypath(p)
        PROVE  IndexInv'
    BY <2>4, RemoveBypathStep, Zenon
  <2>5. ASSUME NEW p \in IndexPath, NEW i \in Stages, RemoveStage(p, i)
        PROVE  IndexInv'
    BY <2>5, RemoveStageStep, Zenon
  <2>6. ASSUME NEW d \in Directories, NEW i \in Stages, RemoveDirectory(d, i)
        PROVE  IndexInv'
    BY <2>6, RemoveDirectoryStep, Zenon
  <2>7. ASSUME NEW p \in IndexPath, NEW sides \in SUBSET (Stages \ {0}), NEW id \in Id,
               ConflictAdd(p, sides, id)
        PROVE  IndexInv'
    BY <2>7, ConflictAddStep, Zenon
  <2>8. ASSUME NEW paths, ConflictCleanup(paths)
        PROVE  IndexInv'
    BY <2>8, CleanupStep, Zenon
  <2>9. ASSUME NEW c \in Sources, ReadTree(c)
        PROVE  IndexInv'
    BY <2>9, ReadTreeStep, Zenon
  <2>10. ASSUME NEW c \in Sources, NEW i \in Stages, ReadIndex(c, i)
         PROVE  IndexInv'
    BY <2>10, ReadIndexStep, Zenon
  <2>11. CASE Clear
    BY <2>11, ClearStep, Zenon
  <2>12. CASE WriteTree
    BY <2>12, WriteTreeStep, Zenon
  <2>13. CASE IndexWrite
    BY <2>13, IndexWriteStep, Zenon
  <2>14. CASE IndexRead
    BY <2>14, IndexReadStep, Zenon
  <2>. QED
    BY <2>1, <2>2, <2>3, <2>4, <2>5, <2>6, <2>7, <2>8, <2>9, <2>10, <2>11, <2>12, <2>13, <2>14,
       Zenon DEF IndexNext
<1>. QED
  BY <1>1, <1>2, PTL DEF IndexSpec

(* git_index_write_tree() writes the tree of the entries, and git_index_get_bypath() finds the entries that there are,           *)
(* after any sequence of adds, removals, conflicts, reads and writes.                                                         *)
THEOREM IndexDerives == IndexSpec => []DerivedAgrees
<1>1. IndexInv => DerivedAgrees
  <2>. SUFFICES ASSUME IndexInv PROVE DerivedAgrees
    OBVIOUS
  <2>1. State.e = entries /\ State.m = map /\ State.t = tree
    BY DEF State
  <2>2. map = DOMAIN entries /\ CacheOK(entries, tree)
    BY <2>1, Zenon DEF IndexInv, Sound
  <2>3. CacheIsTrue
    BY <2>2, WrittenIsContent, Zenon DEF CacheIsTrue, CacheOK
  <2>. QED
    BY <2>2, <2>3, Zenon DEF DerivedAgrees, MapAgrees
<1>. QED
  BY <1>1, IndexInvariant, PTL
=============================================================================

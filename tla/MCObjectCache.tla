--------------------------- MODULE MCObjectCache ---------------------------
(* Two objects: o1 is a commit and o2 a tree.  Both are looked up           *)
(* through the first cache, which can so hold two entries; the second one,  *)
(* of an odb without repository, shares the storage limit.                  *)
EXTENDS ObjectCache, TLC

CONSTANTS o1, o2, c1, c2

MCOid == {o1, o2}
MCCache == {c1, c2}
MCKeeps == {o2}
MCSize == o1 :> 2 @@ o2 :> 1
MCAsked ==
    [do : {"lookup"}, c : {c1}, o : MCOid]
    \cup [do : {"read"}, c : MCCache, o : {o2}]
    \cup [do : {"clear"}, c : {c1}, o : {o2}]
Symmetry == Permutations(Thread)
=============================================================================

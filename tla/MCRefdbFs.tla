----------------------------- MODULE MCRefdbFs -----------------------------
(* TLC instances of RefdbFs: which handle makes which calls.               *)
EXTENDS RefdbFs

CONSTANTS W, V, X     \* handles: a writer, a second one, a reader

Base(kind, ref) ==
    [kind |-> kind, ref |-> ref, from |-> HEAD, old |-> NoRef, force |-> TRUE, upd |-> <<>>]

Write(r, v, old, force) ==
    [Base("write", r) EXCEPT !.upd = r :> v, !.old = old, !.force = force]
Delete(r, old) == [Base("delete", r) EXCEPT !.upd = r :> NoRef, !.old = old]
RenameTo(r, s, force) == [Base("rename", s) EXCEPT !.from = r, !.force = force]
Transaction(order, upd) ==
    [Base("transaction", HEAD) EXCEPT !.upd = upd] @@ [order |-> order]
Compress == Base("compress", HEAD)
Find(r) == Base("lookup", r)
Iterate == Base("iterate", HEAD)

Writes == {Write(r, v, NoRef, TRUE) : r \in Ref, v \in Oid}
NewWrites == {Write(r, v, NoRef, FALSE) : r \in Ref, v \in Oid \ Broken}
MatchingWrites == {Write(1, v, o, TRUE) : v \in Oid, o \in Oid} \ {Write(1, v, v, TRUE) : v \in Oid}
Deletes == {Delete(r, NoRef) : r \in Ref} \cup {Delete(1, o) : o \in Oid}
Renames == {RenameTo(1, s, FALSE) : s \in Ref \ {1}}
             \cup UNION {{RenameTo(r, s, TRUE) : s \in Ref \ {r}} : r \in Ref}

(* one writer; name 3 lies beneath name 2, and a transaction creates neither *)
StoreCalls ==
    W :> (Renames \cup Writes \cup NewWrites \cup MatchingWrites \cup Deletes \cup {Compress}
            \cup {Transaction(o, 1 :> v @@ 2 :> NoRef) :
                     o \in {<<1, 2>>, <<2, 1>>}, v \in Oid \cup {NoRef}})

(* what the calls of a process that dies, and of the ones after it, are *)
CrashCalls == {Write(1, v, NoRef, TRUE) : v \in Oid \ Broken} \cup {Delete(1, NoRef), Compress}

(* Two calls, or up to three of CrashCalls during each of which but the last *)
(* the process dies                                                         *)
CrashesAreShort ==
    /\ crashes > 0 => h[W].call \in CrashCalls \cup {NoCall} /\ Visible(3) = NoRef
    /\ ncalls <= IF crashes = 0 THEN 2 ELSE crashes + 1
StoreNext == Next /\ CrashesAreShort' /\ (crashes' # crashes => ncalls = crashes')

(* The names 2 and 3 start with a loose value of one kind and an older packed *)
(* value of the other, or without either.                                   *)
StoreInit ==
    /\ Init
    /\ \A r \in {2, 3} :
          /\ loose[r] \in {NoFile} \cup {Closed(v) : v \in Oid \ Broken}
          /\ packed = NoFile \/ packed[r] \in {NoRef} \cup Broken
StoreSpec == StoreInit /\ [][StoreNext]_vars

(* one handle that writes, deletes, packs and iterates *)
IterateCalls ==
    W :> ({Write(r, v, NoRef, TRUE) : r \in Ref, v \in Oid}
            \cup {Delete(r, NoRef) : r \in Ref} \cup {Compress, Iterate})

(* two handles: X reads, or writes too *)
HandleCalls ==
    (W :> (Writes \cup {Delete(r, NoRef) : r \in Ref} \cup {Compress, RenameTo(1, 2, TRUE)}))
        @@ (X :> (CrashCalls \cup {Find(1), Iterate}))

(* two handles that update one reference from the same value *)
MatchingCalls ==
    [p \in {W, V} |-> MatchingWrites]

(* two handles that pack, one of which also deletes reference 1 *)
PackCalls == (W :> {Compress, Delete(1, NoRef)}) @@ (V :> {Compress})

(* name 3 is name 2, "/" and more *)
Nesting == {<<3, 2>>}
NoNesting == {}

OidSymmetry == Permutations(Oid)

=============================================================================

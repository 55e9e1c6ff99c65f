-------------------------------- MODULE Odb --------------------------------
(***************************************************************************)
(* The object database of one handle (src/src/odb.c) over its two          *)
(* backends, the packed one (src/src/odb_pack.c), which is asked first, and *)
(* the loose one (src/src/odb_loose.c), while other processes repack,       *)
(* loosen and prune the objects of the same directory.                      *)
(*                                                                         *)
(* A lookup goes through the packs the handle knows, then through the       *)
(* loose objects; when both miss, it lists the pack directory again and     *)
(* asks the packed backend, the only one that has a refresh(), once more.   *)
(* A pack whose file the handle has opened stays readable after another     *)
(* process unlinks it.                                                      *)
(***************************************************************************)
EXTENDS Integers

CONSTANTS
    Oid, Pack,            \* objects; names of packs, each used once
    FRESHEN_FREQUENCY,    \* a pack is touched at most once in this time
    Expire,               \* what is older than this may be pruned; no less than that
    OdbMaxTime, MaxMoves, \* bounds on the clock, and on removals during one operation
    NoOid

(* FRESHEN_FREQUENCY is 2 seconds; git keeps what is younger than two weeks. *)
FreshenAssumption ==
    FRESHEN_FREQUENCY \in Nat /\ Expire \in Nat /\ FRESHEN_FREQUENCY <= Expire

VARIABLES
    loose,        \* disk: loose[o], the mtime of its file, or 0 without one
    packed,       \* disk: packed[p], the mtime of its file, or 0 without one
    contents,     \* contents[p]: the objects in p
    odb_clock,
    packs,        \* backend->packs
    indexed,      \* the packs whose index the handle has mapped
    opened,       \* the packs whose file the handle holds open
    last_freshen, \* last_freshen[p]
    cache,        \* the objects in the cache of the database
    odb_op,       \* the operation under way
    written,      \* history: when the last successful write of o was called
    aged          \* history: the objects whose youngest copy others have removed, leaving
                  \* an older one, since one of their copies was last touched or stored

odb_disk == <<loose, packed, contents, odb_clock>>
odb_handle == <<packs, indexed, opened, last_freshen, cache>>
odb_history == <<written, aged>>
odb_vars == <<odb_disk, odb_handle, odb_op, odb_history>>

Kind == {"read", "exists", "write", "foreach"}
Begin == FRESHEN_FREQUENCY + 1
NoCall == [kind |-> "read", oid |-> NoOid, pc |-> "idle", pass |-> 1, todo |-> {},
         reported |-> {}, found |-> FALSE, since |-> 0, known |-> {},
         moves |-> [o \in Oid |-> 0]]

InPack(o) == {p \in Pack : packed[p] > 0 /\ o \in contents[p]}
OnDisk(o) == loose[o] > 0 \/ InPack(o) # {}
HasIndex(p) == p \in indexed \/ packed[p] > 0
Readable(p) == p \in opened \/ packed[p] > 0

OdbInit ==
    /\ loose = [o \in Oid |-> 1]
    /\ packed = [p \in Pack |-> 0] /\ contents = [p \in Pack |-> {}]
    /\ odb_clock = Begin
    /\ packs = {} /\ indexed = {} /\ opened = {} /\ last_freshen = [p \in Pack |-> 0] /\ cache = {}
    /\ odb_op = NoCall
    /\ written = [o \in Oid |-> 0] /\ aged = {}

-----------------------------------------------------------------------------
(* The calls                                                               *)

(* The objects on disk when a call begins; for a lookup, only the ones that *)
(* are loose or in a pack the handle knows.                                 *)
InPlace(k) ==
    {o \in Oid : \/ loose[o] > 0
                 \/ \E p \in InPack(o) : p \in packs \/ k = "foreach"}

(* A bug: an object that is cached is taken for one that is stored.         *)
MutCacheAnswers(k, o) == k # "foreach" /\ o \in cache

(* git_odb_read() and git_odb_exists() ask the cache; git_odb_write(), which *)
(* must know what is on disk, and git_odb_foreach() do not.                 *)
CacheAnswers(k, o) == k \in {"read", "exists"} /\ o \in cache

Call(k, o) ==
    /\ odb_op.pc = "idle"
    /\ odb_op' = [NoCall EXCEPT
                !.kind = k, !.oid = o, !.since = IF k = "write" THEN odb_clock ELSE 0,
                !.known = IF k = "write" THEN {} ELSE InPlace(k),
                !.found = CacheAnswers(k, o),
                !.pc = IF CacheAnswers(k, o) THEN "return"
                       ELSE IF k = "foreach" THEN "refresh" ELSE "packed",
                !.todo = packs]
    /\ UNCHANGED <<odb_disk, odb_handle, odb_history>>

-----------------------------------------------------------------------------
(* The packed backend                                                      *)

Touches(p) == last_freshen[p] <= odb_clock - FRESHEN_FREQUENCY

(* pack_entry_find(): the next pack that is asked has the object, and its   *)
(* file is, or can still be, opened.  A write touches that file, unless it  *)
(* did so a moment ago; that fails when the file is gone.                   *)
PackHasIt(p) == odb_op.oid \in contents[p] /\ Readable(p)
Frozen(p) == odb_op.kind = "write" /\ Touches(p) /\ packed[p] = 0

PackHit(p) ==
    /\ odb_op.pc = "packed" /\ p \in odb_op.todo /\ odb_op.kind # "foreach"
    /\ PackHasIt(p) /\ ~Frozen(p)
    /\ indexed' = indexed \cup {p} /\ opened' = opened \cup {p}
    /\ IF odb_op.kind = "write" /\ Touches(p)
       THEN packed' = [packed EXCEPT ![p] = odb_clock]
            /\ last_freshen' = [last_freshen EXCEPT ![p] = odb_clock]
       ELSE UNCHANGED <<packed, last_freshen>>
    /\ cache' = IF odb_op.kind = "read" THEN cache \cup {odb_op.oid} ELSE cache
    /\ aged' = IF odb_op.kind = "write" /\ Touches(p) THEN aged \ contents[p] ELSE aged
    /\ odb_op' = [odb_op EXCEPT !.pc = "return", !.found = TRUE]
    /\ UNCHANGED <<loose, contents, odb_clock, packs, written>>

(* The pack does not have it.  pack_backend__freshen() does not go on to    *)
(* another pack when the touch fails.                                      *)
PackMiss(p) ==
    /\ odb_op.pc = "packed" /\ p \in odb_op.todo /\ odb_op.kind # "foreach"
    /\ ~PackHasIt(p) \/ Frozen(p)
    /\ indexed' = IF HasIndex(p) THEN indexed \cup {p} ELSE indexed
    /\ opened' = IF PackHasIt(p) THEN opened \cup {p} ELSE opened
    /\ odb_op' = [odb_op EXCEPT !.todo = IF Frozen(p) /\ PackHasIt(p) THEN {} ELSE @ \ {p}]
    /\ UNCHANGED <<odb_disk, packs, last_freshen, cache, odb_history>>

PackedDone ==
    /\ odb_op.pc = "packed" /\ odb_op.todo = {}
    /\ odb_op' = [odb_op EXCEPT !.pc = IF odb_op.pass = 1 \/ odb_op.kind = "foreach" THEN "loose"
                               ELSE IF odb_op.kind = "write" THEN "store" ELSE "return"]
    /\ UNCHANGED <<odb_disk, odb_handle, odb_history>>

-----------------------------------------------------------------------------
(* The loose backend                                                       *)

LooseHit ==
    /\ odb_op.pc = "loose" /\ odb_op.kind # "foreach" /\ loose[odb_op.oid] > 0
    /\ loose' = IF odb_op.kind = "write" THEN [loose EXCEPT ![odb_op.oid] = odb_clock] ELSE loose
    /\ cache' = IF odb_op.kind = "read" THEN cache \cup {odb_op.oid} ELSE cache
    /\ aged' = IF odb_op.kind = "write" THEN aged \ {odb_op.oid} ELSE aged
    /\ odb_op' = [odb_op EXCEPT !.pc = "return", !.found = TRUE]
    /\ UNCHANGED <<packed, contents, odb_clock, packs, indexed, opened, last_freshen, written>>

(* A bug: a lookup that misses does not look at the pack directory again.   *)
MutLooseMiss ==
    /\ odb_op.pc = "loose" /\ odb_op.kind # "foreach" /\ loose[odb_op.oid] = 0
    /\ odb_op' = [odb_op EXCEPT !.pc = IF odb_op.kind = "write" THEN "store" ELSE "return"]
    /\ UNCHANGED <<odb_disk, odb_handle, odb_history>>

LooseMiss ==
    /\ odb_op.pc = "loose" /\ odb_op.kind # "foreach" /\ loose[odb_op.oid] = 0
    /\ odb_op' = [odb_op EXCEPT !.pc = "refresh"]
    /\ UNCHANGED <<odb_disk, odb_handle, odb_history>>

(* loose_backend__write(): a temporary file renamed into place             *)
Store ==
    /\ odb_op.pc = "store"
    /\ loose' = [loose EXCEPT ![odb_op.oid] = odb_clock] /\ aged' = aged \ {odb_op.oid}
    /\ odb_op' = [odb_op EXCEPT !.pc = "return", !.found = TRUE]
    /\ UNCHANGED <<packed, contents, odb_clock, odb_handle, written>>

-----------------------------------------------------------------------------
(* pack_backend__refresh(): list the directory.  A pack that is there all   *)
(* the time is seen; one that appears meanwhile may be.                     *)

Refresh ==
    /\ odb_op.pc = "refresh"
    /\ odb_op' = [odb_op EXCEPT !.pc = "list", !.todo = {p \in Pack : packed[p] > 0}]
    /\ UNCHANGED <<odb_disk, odb_handle, odb_history>>

(* packfile_load__cb(): a name whose .pack is gone again is left out.       *)
LoadPack(p) ==
    /\ odb_op.pc = "list"
    /\ p \in odb_op.todo \/ (packed[p] > 0 /\ p \notin packs)
    /\ packs' = IF packed[p] > 0 THEN packs \cup {p} ELSE packs
    /\ odb_op' = [odb_op EXCEPT !.todo = @ \ {p}]
    /\ UNCHANGED <<odb_disk, indexed, opened, last_freshen, cache, odb_history>>

ListDone ==
    /\ odb_op.pc = "list" /\ odb_op.todo = {}
    /\ odb_op' = [odb_op EXCEPT !.pc = "packed", !.pass = 2, !.todo = packs]
    /\ UNCHANGED <<odb_disk, odb_handle, odb_history>>

-----------------------------------------------------------------------------
(* git_odb_foreach(): what the packs hold, then the loose objects           *)

(* A pack whose index cannot be read ends the loop with an error.           *)
ForeachPack(p) ==
    /\ odb_op.pc = "packed" /\ odb_op.kind = "foreach" /\ p \in odb_op.todo
    /\ odb_op' = IF HasIndex(p)
             THEN [odb_op EXCEPT !.todo = @ \ {p}, !.reported = @ \cup contents[p]]
             ELSE [odb_op EXCEPT !.pc = "failed"]
    /\ indexed' = IF HasIndex(p) THEN indexed \cup {p} ELSE indexed
    /\ UNCHANGED <<odb_disk, packs, opened, last_freshen, cache, odb_history>>

ForeachLoose ==
    /\ odb_op.pc = "loose" /\ odb_op.kind = "foreach"
    /\ odb_op' = [odb_op EXCEPT !.pc = "return",
                        !.reported = @ \cup {o \in Oid : loose[o] > 0}]
    /\ UNCHANGED <<odb_disk, odb_handle, odb_history>>

Return ==
    /\ odb_op.pc \in {"return", "failed"}
    /\ written' = IF odb_op.kind = "write" THEN [written EXCEPT ![odb_op.oid] = odb_op.since]
                  ELSE written
    /\ odb_op' = NoCall
    /\ UNCHANGED <<odb_disk, odb_handle, aged>>

(* The cache evicts what it likes.                                         *)
Evict(o) ==
    /\ o \in cache
    /\ cache' = cache \ {o}
    /\ UNCHANGED <<odb_disk, packs, indexed, opened, last_freshen, odb_op, odb_history>>

-----------------------------------------------------------------------------
(* The other processes.  A copy goes when there is another one, however old *)
(* (git prune-packed, git repack -d), or when it is the last one, loose and  *)
(* older than Expire (git prune).                                           *)

Moved(S) == [odb_op EXCEPT !.moves = [o \in Oid |-> IF o \in S THEN @[o] + 1 ELSE @[o]]]
MayMove(S) == odb_op.pc = "idle" \/ \A o \in S : odb_op.moves[o] < MaxMoves

WritePack(p, S) ==
    /\ packed[p] = 0 /\ contents[p] = {}
    /\ S # {} /\ \A o \in S : OnDisk(o)
    /\ packed' = [packed EXCEPT ![p] = odb_clock]
    /\ contents' = [contents EXCEPT ![p] = S]
    /\ UNCHANGED <<loose, odb_clock, odb_handle, odb_op, odb_history>>

(* There is a copy, in the packs of Q or loose, that is as new as t.    *)
AsNew(Q, l, t) == l >= t \/ \E q \in Q : packed[q] >= t

RemovePack(p) ==
    /\ packed[p] > 0 /\ MayMove(contents[p])
    /\ \A o \in contents[p] : loose[o] > 0 \/ InPack(o) \ {p} # {}
    /\ packed' = [packed EXCEPT ![p] = 0]
    /\ aged' = aged \cup {o \in contents[p] : ~AsNew(InPack(o) \ {p}, loose[o], packed[p])}
    /\ odb_op' = IF odb_op.pc = "idle" THEN odb_op ELSE Moved(contents[p])
    /\ UNCHANGED <<loose, contents, odb_clock, odb_handle, written>>

Loosen(o) ==
    /\ loose[o] = 0
    /\ \E p \in InPack(o) : loose' = [loose EXCEPT ![o] = packed[p]]
    /\ UNCHANGED <<packed, contents, odb_clock, odb_handle, odb_op, odb_history>>

PrunePacked(o) ==
    /\ loose[o] > 0 /\ MayMove({o}) /\ InPack(o) # {}
    /\ loose' = [loose EXCEPT ![o] = 0]
    /\ aged' = IF AsNew(InPack(o), 0, loose[o]) THEN aged ELSE aged \cup {o}
    /\ odb_op' = IF odb_op.pc = "idle" THEN odb_op ELSE Moved({o})
    /\ UNCHANGED <<packed, contents, odb_clock, odb_handle, written>>

(* git prune: an object nothing refers to, when it is old enough            *)
Prune(o) ==
    /\ loose[o] > 0 /\ loose[o] + Expire < odb_clock /\ InPack(o) = {} /\ MayMove({o})
    /\ loose' = [loose EXCEPT ![o] = 0]
    /\ odb_op' = IF odb_op.pc = "idle" THEN odb_op ELSE Moved({o})
    /\ UNCHANGED <<packed, contents, odb_clock, odb_handle, odb_history>>

OdbTick ==
    /\ odb_clock < OdbMaxTime
    /\ odb_clock' = odb_clock + 1
    /\ UNCHANGED <<loose, packed, contents, odb_handle, odb_op, odb_history>>

OdbNext ==
    \/ \E k \in Kind \ {"foreach"}, o \in Oid : Call(k, o)
    \/ Call("foreach", NoOid)
    \/ \E p \in Pack : PackHit(p) \/ PackMiss(p) \/ LoadPack(p) \/ ForeachPack(p)
    \/ PackedDone \/ LooseHit \/ LooseMiss \/ Store
    \/ Refresh \/ ListDone \/ ForeachLoose \/ Return
    \/ \E o \in Oid : Evict(o) \/ Loosen(o) \/ PrunePacked(o) \/ Prune(o)
    \/ \E p \in Pack, S \in SUBSET Oid : WritePack(p, S)
    \/ \E p \in Pack : RemovePack(p)
    \/ OdbTick

OdbSpec == OdbInit /\ [][OdbNext]_odb_vars

-----------------------------------------------------------------------------
(* Properties                                                              *)

(* A lookup that answers "not found" is right about an object that was in   *)
(* place when it began, or lost a race with two moves of it: one move, out   *)
(* of the loose objects or out of a pack the handle knows, is always made    *)
(* good by the refresh and the second look at the packs.                     *)
OneMoveIsSafe ==
    (odb_op.pc = "return" /\ odb_op.kind \in {"read", "exists"} /\ ~odb_op.found) =>
        \/ odb_op.oid \notin odb_op.known
        \/ odb_op.moves[odb_op.oid] > 1
        \/ ~OnDisk(odb_op.oid)

(* git_odb_write() may leave an object where it is and only make it young.   *)
(* Even when other processes repack meanwhile and prune what is old, the     *)
(* object is on disk for the time that the touch is meant to buy: unless one *)
(* of them, since a copy was last touched or stored, has removed the youngest *)
(* copy and left an older one, as git prune-packed does, which compares no   *)
(* times.                                                                    *)
WrittenStays ==
    \A o \in Oid \ aged :
        (written[o] > 0 /\ odb_clock <= written[o] + Expire - FRESHEN_FREQUENCY) => OnDisk(o)

(* git_odb_foreach() reports every object that no other process moves.       *)
ForeachComplete ==
    (odb_op.pc = "return" /\ odb_op.kind = "foreach") =>
        \A o \in odb_op.known : odb_op.moves[o] = 0 => o \in odb_op.reported

(* An object that stays on disk is found while other processes repack:       *)
(* git_odb_read() and git_odb_exists() after one move of it, and              *)
(* git_odb_foreach() when it does not move.                                   *)
ObjectsAreFound == OneMoveIsSafe /\ ForeachComplete
=============================================================================

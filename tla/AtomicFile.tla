----------------------------- MODULE AtomicFile -----------------------------
(***************************************************************************)
(* What src/src/filebuf.c promises the readers and the writers of one path: *)
(* the file is replaced as a whole, each replacement adds one writer's     *)
(* record to the content it replaces, and that writer's commit returns 0   *)
(* at the same moment; nothing else, no failed call and no crash, shows.   *)
(* With GIT_FILEBUF_FORCE, which takes other writers' locks, nothing is    *)
(* promised.                                                               *)
(***************************************************************************)
CONSTANT Proc

VARIABLES
    file,   \* what a reader finds: the records, and whether all of it is there
    acked,  \* the writers whose commit returned 0
    forced  \* the writers open the path with GIT_FILEBUF_FORCE

vars == <<file, acked, forced>>

Init ==
    /\ file = [recs |-> {}, whole |-> TRUE]
    /\ acked = {}
    /\ forced \in BOOLEAN

Replace(p) ==
    /\ file' = [recs |-> file.recs \cup {p}, whole |-> TRUE]
    /\ acked' = acked \cup {p}

Next ==
    /\ forced \/ \E p \in Proc : Replace(p)
    /\ UNCHANGED forced

Spec == Init /\ [][Next]_vars

=============================================================================

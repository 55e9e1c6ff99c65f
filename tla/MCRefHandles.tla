---------------------------- MODULE MCRefHandles ----------------------------
(* Two handles of RefdbFs at the same references: one writes, and the other    *)
(* reads while it does, or writes too.                                         *)
EXTENDS MCRefdbFs

VARIABLE other  \* what the second handle does: "reads" or "writes"

HandlesInit ==
    /\ Init
    /\ \/ other = "reads" /\ plock = Free
       \/ other = "writes"

(* Three calls when one handle reads, two when both write                      *)
HandlesNext ==
    /\ Next /\ UNCHANGED other
    /\ ncalls' <= IF other = "reads" THEN 3 ELSE 2
    /\ h'[X].call # NoCall => IsRead(h'[X].call) = (other = "reads")

HandlesSpec == HandlesInit /\ [][HandlesNext]_<<vars, other>>
=============================================================================

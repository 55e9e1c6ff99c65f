------------------------------ MODULE RefStore ------------------------------
(***************************************************************************)
(* What the reference database promises a single writer: a map from names  *)
(* to values.  A call writes the names it gives, one at a time; if it      *)
(* succeeds they all have the values it asked for, if it fails a write has *)
(* changed nothing and a call for several names has done some of them;     *)
(* other names are never touched, and packing is invisible.                *)
(*                                                                         *)
(* Three weaknesses are part of the promise.  While a reference that is    *)
(* both loose and packed is being deleted, its older packed value shows.   *)
(* A delete that fails may have removed the loose value: the reference is  *)
(* as it was, has the older packed value, or is gone.  And the handle may  *)
(* not see a reference of which a delete failed (spoiled): it may create   *)
(* it anew over the one that is there, and a second delete may succeed and *)
(* leave the older value.  A process that dies has done some of its call.  *)
(***************************************************************************)
EXTENDS Naturals, FiniteSets

CONSTANTS Ref, Oid, NoRef, NoCall, Calls

VARIABLES
    val,    \* val[r]: the value of the reference, or NoRef
    call,   \* the call in progress, or NoCall
    failed, \* that call will return an error
    spoiled,\* names the handle may see wrongly after a call that failed
    pre     \* val when the call began

vars == <<val, call, failed, spoiled, pre>>

Init ==
    /\ val \in [Ref -> Oid \cup {NoRef}]
    /\ call = NoCall /\ failed = FALSE /\ spoiled = {} /\ pre = NoCall

(* The names a call writes, and what it wants of each.                      *)
Named == IF call.kind = "rename" THEN {call.from, call.ref} ELSE DOMAIN call.upd
Want(r) ==
    CASE call.kind = "rename" /\ r = call.from -> NoRef
      [] call.kind = "rename" /\ r = call.ref -> pre[call.from]
      [] OTHER -> call.upd[r]

Begin ==
    /\ call = NoCall
    /\ call' \in Calls
    /\ pre' = val
    /\ UNCHANGED <<val, failed, spoiled>>

(* A name gets its value, under the conditions the caller set.              *)
Write ==
    /\ call # NoCall /\ ~failed
    /\ \E r \in Named :
          /\ call.old # NoRef => pre[r] = call.old
          /\ ~call.force /\ r = call.ref => val[r] = NoRef \/ r \in spoiled
          /\ val' = [val EXCEPT ![r] = Want(r)]
    /\ UNCHANGED <<call, failed, spoiled, pre>>

Resurface ==
    /\ call # NoCall /\ ~failed
    /\ \E r \in Named, v \in Oid :
          /\ Want(r) = NoRef /\ val[r] = pre[r]
          /\ call.old # NoRef => pre[r] = call.old
          /\ val' = [val EXCEPT ![r] = v]
    /\ UNCHANGED <<call, failed, spoiled, pre>>

Fail ==
    /\ call # NoCall /\ ~failed
    /\ \A r \in Named :
          \/ val[r] = pre[r]
          \/ Want(r) = NoRef
          \/ Cardinality(Named) > 1 /\ val[r] = Want(r)
    /\ failed' = TRUE
    /\ UNCHANGED <<val, call, spoiled, pre>>

(* The names of a failed call of which the handle may have lost sight.       *)
Spoils == IF call.kind = "write" THEN {} ELSE Named

End ==
    /\ call # NoCall
    /\ failed \/ \A r \in Named : val[r] = Want(r) \/ (Want(r) = NoRef /\ r \in spoiled)
    /\ spoiled' = IF failed THEN spoiled \cup Spoils ELSE spoiled
    /\ call' = NoCall /\ failed' = FALSE /\ pre' = NoCall
    /\ UNCHANGED val

(* The process dies, and the next one starts with what is there.            *)
Die ==
    /\ call # NoCall
    /\ spoiled' = spoiled \cup Named
    /\ call' = NoCall /\ failed' = FALSE /\ pre' = NoCall
    /\ UNCHANGED val

Next == Begin \/ Write \/ Resurface \/ Fail \/ End \/ Die

Spec == Init /\ [][Next]_vars

=============================================================================

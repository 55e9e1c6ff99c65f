------------------------------ MODULE MCRebase ------------------------------
(* A rebase alone, with what HEAD named when it began, for what the header      *)
(* says of git_rebase_abort().                                                *)
EXTENDS Rebase

VARIABLE began   \* history: what HEAD named before the rebase

MCSpec ==
    /\ RepoInit /\ began = rb_head
    /\ [][RebaseNext /\ UNCHANGED began]_<<rebase_vars, began>>

(* "Aborts a rebase that is currently in progress, resetting the repository     *)
(* and working directory to their state before rebase began"                   *)
(* (src/include/git2/rebase.h:290-291): a git_rebase_abort() that returned      *)
(* success leaves HEAD naming what it named before git_rebase_init().          *)
AbortGoesBack ==
    outcome = "aborted" => rb_head = began
=============================================================================

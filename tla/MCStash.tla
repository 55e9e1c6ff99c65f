------------------------------- MODULE MCStash -------------------------------
(* The stash alone, of one file that HEAD has at first, with enough edits for   *)
(* the file to be removed from HEAD and written again while a change of it is   *)
(* stashed, for what the header says of git_stash_apply().                     *)
EXTENDS Stash

MCVersion == [f |-> {"b", "c"}]
MCHeads == {[f |-> {"a"}]}

(* "If local changes in the working directory conflict with changes in the     *)
(* stash then GIT_EMERGECONFLICT will be returned.  In this case, the index     *)
(* will always remain unmodified and all files in the working directory will    *)
(* remain unmodified." (src/include/git2/stash.h:158-161): a git_stash_apply()  *)
(* that returned success has not written over an untracked file.               *)
AppliedKeepsUntracked ==
    op.call = "applied" =>
        \A p \in Path \ ignored :
            head[p] = Absent /\ op.before[p] # Absent => workdir[p] = op.before[p]
=============================================================================

------------------------------ MODULE MCStorage ------------------------------
(****************************************************************************)
(* The components that keep state on disk or between calls, checked in one    *)
(* run.  They share no state here, so a behaviour is one of one component:     *)
(* part names it, and the variables of the others stay as they are.            *)
(****************************************************************************)
EXTENDS MWindow, Odb, AttrCache, RacyIndex, Index, Rebase, Stash, TLC

CONSTANTS r1, r2, f1, f2, p1, p2, NoValue, NoFile, Unused

VARIABLES
    part,
    conf_disk, lock, readers, conf_values, locked, locked_content, conf_pc, conf_op, failed,
    sets, doubled, done, conf_foreign, conf_calls

conf_vars == <<conf_disk, lock, readers, conf_values, locked, locked_content, conf_pc, conf_op,
               failed, sets, doubled, done, conf_foreign, conf_calls>>

-----------------------------------------------------------------------------
MCSize == f1 :> 7 @@ f2 :> 3
MCSizeOf == [a |-> 1, b |-> 1, empty |-> 0]

(* A committed file and one that may be untracked or ignored.                 *)
MCVersion == [f |-> {"b", "c"}, u |-> {"b"}]
MCHeads == {[f |-> {"a"}, u |-> {}]}

(* A file, a name that is a file or a directory, and files one and two levels down.  *)
MCPath == {<<1>>, <<2>>, <<2, 1>>, <<2, 2, 1>>}
MCSources == {<<2, 1>> :> "x", (<<1>> :> "x") @@ (<<2, 2, 1>> :> "y")}

(* Nothing tells two readers of the windows, or two packs of an object           *)
(* database, apart.                                                            *)
Symmetry == Permutations({p1, p2}) \cup Permutations({r1, r2})

Header == <<"section", "s">>
Var(n, v) == <<"var", n, v>>

C == INSTANCE ConfigFile WITH
       Section <- {"s"}, Name <- {"n", "m"}, Value <- {1, 2},
       Texts <- {<<Header, Var("n", 1), Var("m", 1)>>,
                 <<<<"include">>, Header, Var("n", 1)>>},
       Included <- <<Header, Var("m", 2)>>,
       ByHand <- {<<Header, Var("n", 2), <<"broken">>, Var("m", 1)>>,
                  <<Header, Var("m", 2), Var("m", 1)>>},
       MaxForeign <- 2, MaxCalls <- 2,
       disk <- conf_disk, values <- conf_values, pc <- conf_pc, op <- conf_op,
       foreign <- conf_foreign, calls <- conf_calls

ASSUME ComponentConstants ==
    FreshenAssumption /\ AttrAssumption /\ SizeAssumption /\ RebaseAssumption /\ StashAssumption
    /\ IndexAssumption

-----------------------------------------------------------------------------
ConfUnused ==
    /\ conf_disk = Unused /\ lock = Unused /\ readers = Unused /\ conf_values = Unused /\ locked = Unused
    /\ locked_content = Unused /\ conf_pc = Unused /\ conf_op = Unused /\ failed = Unused /\ sets = Unused
    /\ doubled = FALSE
    /\ done = Unused /\ conf_foreign = Unused /\ conf_calls = Unused

(* A component that is not the one under way stays in one initial state.       *)
StorageInit ==
    /\ part \in {"windows", "odb", "attr", "config", "racy", "index", "rebase", "stash"}
    /\ Init /\ OdbInit /\ AttrInit /\ RacyInit /\ IndexInit /\ RepoInit /\ StashInit
    /\ part # "racy" => workfile.content = "a"
    /\ part # "rebase" => rb_head = "branch"
    /\ part # "stash" => ignored = {}
    /\ IF part = "config" THEN C!Init ELSE ConfUnused

StorageNext ==
    \/ /\ part = "windows" /\ Next
       /\ UNCHANGED <<part, odb_vars, attr_vars, conf_vars, racy_vars, index_vars, rebase_vars, stash_vars>>
    \/ /\ part = "odb" /\ OdbNext
       /\ UNCHANGED <<part, vars, attr_vars, conf_vars, racy_vars, index_vars, rebase_vars, stash_vars>>
    \/ /\ part = "attr" /\ AttrNext
       /\ UNCHANGED <<part, vars, odb_vars, conf_vars, racy_vars, index_vars, rebase_vars, stash_vars>>
    \/ /\ part = "config" /\ C!Next
       /\ UNCHANGED <<part, vars, odb_vars, attr_vars, racy_vars, index_vars, rebase_vars, stash_vars>>
    \/ /\ part = "racy" /\ RacyNext
       /\ UNCHANGED <<part, vars, odb_vars, attr_vars, conf_vars, index_vars, rebase_vars, stash_vars>>
    \/ /\ part = "index" /\ IndexNext
       /\ UNCHANGED <<part, vars, odb_vars, attr_vars, conf_vars, racy_vars, rebase_vars, stash_vars>>
    \/ /\ part = "rebase" /\ RebaseNext
       /\ UNCHANGED <<part, vars, odb_vars, attr_vars, conf_vars, racy_vars, index_vars, stash_vars>>
    \/ /\ part = "stash" /\ StashNext
       /\ UNCHANGED <<part, vars, odb_vars, attr_vars, conf_vars, racy_vars, index_vars, rebase_vars>>

allvars == <<part, vars, odb_vars, attr_vars, conf_vars, racy_vars, index_vars, rebase_vars, stash_vars>>
StorageSpec == StorageInit /\ [][StorageNext]_allvars

-----------------------------------------------------------------------------
(* The properties of the component that is instantiated; each is explained in   *)
(* its module.                                                                *)

(* The configuration served is what was read, and what git_config_set() set.  *)
ServesTheFile == part = "config" => C!ServesTheFile
(* A write of config_write() changes no other variable, unless it went behind  *)
(* text that a refresh left in the buffer.                                    *)
WriteKeepsOthers == C!WriteKeepsOthers
=============================================================================

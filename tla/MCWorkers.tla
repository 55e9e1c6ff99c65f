------------------------------ MODULE MCWorkers ------------------------------
(****************************************************************************)
(* The threads that search for deltas and those that read a pack, with the     *)
(* liveness of both, and the algorithms that are functions of an input, on      *)
(* every input of a small set.  A behaviour is one of one part; an input is     *)
(* chosen in two steps.                                                       *)
(****************************************************************************)
EXTENDS PackBuilder, PackCache, FiniteSets, TLC, Sequences

CONSTANTS o1, o2, o3, big, bad, x, y, z, NoValue, Crash, Unused

VARIABLES part, input

MCHash == <<1, 1, 1, 2, 2, 3, 3, 4>>
MCBase == o1 :> None @@ o2 :> o1 @@ o3 :> o2 @@ big :> None @@ bad :> big
MCSize == o1 :> 1 @@ o2 :> 1 @@ o3 :> 1 @@ big :> 3 @@ bad :> 3

ASSUME CacheConstants == PackAssumption /\ BrokenAssumption

-----------------------------------------------------------------------------
T == INSTANCE ConfigText WITH
       Section <- {"s", "t"}, Name <- {"n", "m"}, Value <- {1, 2}
M == INSTANCE MergeBase
W == INSTANCE RevWalk
K == INSTANCE Checkout WITH NoBlob <- None
G == INSTANCE MergeTrees WITH SLASH <- 1, Threshold <- 50

-----------------------------------------------------------------------------
(* Configuration files: texts of up to four lines, and every kind of write.    *)
Lines == {<<"section", "s">>, <<"section", "t">>, <<"include">>, <<"comment">>,
          <<"var", "n", 1>>, <<"var", "n", 2>>, <<"var", "m", 1>>}
Texts == {<<h>> \o t : h \in {<<"section", "s">>, <<"section", "t">>},
                        t \in UNION {[1 .. k -> Lines] : k \in 0 .. 3}}
Writes == [key : {<<"s", "n">>}, multi : {FALSE}, preg : {{}}, value : {2, NoValue}] \cup
          [key : {<<"s", "n">>}, multi : {TRUE}, preg : {{1}, {1, 2}}, value : {2, NoValue}]

(* Histories of four commits with at most two parents, and times that may go   *)
(* back                                                                      *)
ParentsOf(c) == {<<>>} \cup {<<p>> : p \in 1 .. c - 1} \cup
                {<<p, q>> : <<p, q>> \in {pq \in (1 .. c - 1) \X (1 .. c - 1) : pq[1] # pq[2]}}
Parents4 == {<<a, b, c, d>> : a \in ParentsOf(1), b \in ParentsOf(2), c \in ParentsOf(3),
                              d \in ParentsOf(4)}
Times == {<<1, 1, 1, 1>>, <<1, 1, 1, 2>>, <<1, 1, 2, 2>>, <<1, 2, 3, 4>>, <<1, 2, 2, 1>>,
          <<2, 1, 1, 2>>, <<2, 1, 2, 1>>}
Twos == {<<c>> : c \in 1 .. 4} \cup {<<2, 3>>, <<3, 4>>, <<1, 4>>}

(* Histories of five commits over a chain of three whose first is the newest:   *)
(* here painting alone leaves a base that is an ancestor of another one.        *)
Parents5 == {<<<<>>, <<1>>, <<2>>, d, e>> : d \in ParentsOf(4), e \in ParentsOf(5)}
Skewed == {<<3, 1, 2, 4, 4>>, <<2, 1, 1, 3, 3>>}

(* Histories of eight commits over a chain of six, most of which is hidden: here  *)
(* a walk stops before it has seen the whole of the chain.                      *)
Parents8 == {<<<<>>, <<1>>, <<2>>, <<3>>, <<4>>, <<5>>, d, e>> :
                d \in {<<>>, <<1>>, <<2>>, <<6>>, <<1, 6>>}, e \in {<<7>>, <<6, 7>>, <<7, 6>>, <<1, 7>>}}
Times8 == {<<1, 2, 3, 4, 5, 6, 7, 8>>, <<2, 3, 4, 5, 6, 7, 2, 8>>, <<1, 1, 1, 1, 1, 1, 1, 1>>,
           <<1, 2, 3, 4, 5, 6, 3, 4>>}
Calls(c, hide) == [c |-> c, hide |-> hide]
Inputs == {<<Calls(4, FALSE)>>} \cup
          {<<Calls(4, FALSE), Calls(c, h)>> : c \in 1 .. 3, h \in BOOLEAN} \cup
          {<<Calls(1, TRUE), Calls(3, FALSE), Calls(4, FALSE)>>}
Inputs8 == {<<Calls(8, FALSE), Calls(6, TRUE)>>, <<Calls(5, TRUE), Calls(8, FALSE)>>,
            <<Calls(6, TRUE), Calls(7, FALSE), Calls(8, FALSE)>>}
Sorts == {<<FALSE, FALSE, FALSE, FALSE>>, <<TRUE, FALSE, FALSE, FALSE>>,
          <<TRUE, TRUE, FALSE, FALSE>>, <<TRUE, FALSE, TRUE, FALSE>>,
          <<FALSE, FALSE, FALSE, TRUE>>}

(* Checkout: a file or a directory a, with up to two files.                    *)
A == <<1>>
AB == <<1, 1>>
AC == <<1, 2>>
CheckoutTrees(ids) == UNION {[S -> ids] : S \in {{}, {A}, {AB}, {AC}, {AB, AC}}}
Works == {[files |-> f, dirs |-> K!Dirs(f)] : f \in CheckoutTrees({x, y, z})} \cup
         {[files |-> <<>>, dirs |-> {A}]}
Strategies == {{"SAFE"}, {"SAFE", "ALLOW_CONFLICTS"}, {"SAFE", "RECREATE_MISSING"},
               {"FORCE", "SAFE", "RECREATE_MISSING"}, {"SAFE", "UPDATE_ONLY"},
               {"SAFE", "REMOVE_UNTRACKED"}, {"SAFE", "DONT_OVERWRITE_IGNORED"}, {}}

(* The files that are not hashed, those whose index entry cannot be updated,    *)
(* and those that are ignored                                                *)
Exceptions == { <<{}, {}, ig>> : ig \in {{}, {A}, {AB}} }
              \cup { <<{p}, {}, {}>> : p \in {A, AB} } \cup {<<{}, {AB}, {}>>}

(* Merges: the files a and a/b, and a name that sorts between them.            *)
MergePaths == {<<2>>, <<2, 0>>, <<2, 1, 2>>}
MergeTreeSet(contents) ==
    {f \in UNION {[S -> contents] : S \in SUBSET MergePaths} :
        /\ Cardinality(DOMAIN f) <= 2
        /\ \A p, q \in DOMAIN f : ~G!Inside(p, q)}
Sides == MergeTreeSet({{1}, {1, 2}, {3}})

First ==
    CASE part = "text" -> {[text |-> t] : t \in Texts}
      [] part = "bases" -> {[g |-> [parents |-> p, time |-> t]] : p \in Parents4, t \in Times}
                           \cup {[g |-> [parents |-> p, time |-> t]] : p \in Parents5, t \in Skewed}
      [] part = "walk" -> {[g |-> [parents |-> p, time |-> t]] : p \in Parents4, t \in Times}
                          \cup {[g |-> [parents |-> p, time |-> t]] : p \in Parents8, t \in Times8}
      [] part = "checkout" -> [base : CheckoutTrees({x, y}), strategy : Strategies]
      [] part = "merge" -> [ancestor : MergeTreeSet({{1}, {3}}), our : Sides,
                            how : {<<FALSE, TRUE>>, <<TRUE, FALSE>>, <<TRUE, TRUE>>}]
      [] OTHER -> {Unused}

Second ==
    CASE part = "text" -> {[text |-> input.text, w |-> w, full |-> TRUE] : w \in Writes}
      [] part = "bases" -> {[g |-> input.g, one |-> one, twos |-> twos, full |-> TRUE] :
                               one \in DOMAIN input.g.parents, twos \in Twos}
      [] part = "walk" -> {[g |-> input.g, input |-> c, topo |-> s[1], bytime |-> s[2],
                            reverse |-> s[3], first_parent |-> s[4], full |-> TRUE] :
                               c \in IF Len(input.g.parents) = 4 THEN Inputs ELSE Inputs8, s \in Sorts}
      [] part = "checkout" ->
            {[base |-> input.base, strategy |-> input.strategy, target |-> t, work |-> w,
              index |-> DOMAIN input.base, unhashed |-> e[1] \cap DOMAIN w.files,
              unindexed |-> e[2], ignored |-> e[3] \ DOMAIN input.base, full |-> TRUE] :
                t \in CheckoutTrees({x, y}), w \in Works, e \in Exceptions}
      [] part = "merge" ->
            {[ancestor |-> input.ancestor, our |-> input.our, their |-> t,
              renames |-> input.how[1], clean |-> input.how[2], full |-> TRUE] :
                t \in Sides}

-----------------------------------------------------------------------------
Pure == {"text", "bases", "walk", "checkout", "merge"}

WorkersInit ==
    /\ part \in {"builder", "cache"} \cup Pure
    /\ Init /\ PackInit
    /\ input \in First

BuilderStep(step) == part = "builder" /\ step /\ UNCHANGED <<part, input, pack_vars>>
CacheStep(step) == part = "cache" /\ step /\ UNCHANGED <<part, input, vars>>
Choose ==
    /\ part \in Pure /\ "full" \notin DOMAIN input
    /\ input' \in Second
    /\ UNCHANGED <<part, vars, pack_vars>>

WorkersNext == BuilderStep(Next) \/ CacheStep(PackNext) \/ Choose

allvars == <<part, input, vars, pack_vars>>
WorkersSpec ==
    /\ WorkersInit /\ [][WorkersNext]_allvars
    /\ WF_allvars(BuilderStep(MainStep))
    /\ \A t \in Thread : WF_allvars(BuilderStep(ThreadStep(t)))
    /\ \A t \in Unpacker : WF_allvars(CacheStep(Step(t)))

-----------------------------------------------------------------------------
(* The properties; each is stated and explained in the module of its part.     *)

Full(p) == part = p /\ "full" \in DOMAIN input

(* ll_find_deltas() returns.                                                  *)
SearchAlwaysEnds == part = "builder" => SearchEnds
(* config_write() changes the variable it is called for and no other.         *)
WriteIsExact == Full("text") => T!WriteIsExact(input.text, input.w)
(* git_merge_bases_many(), git_graph_ahead_behind() and                       *)
(* git_graph_descendant_of() answer as the graph does.                        *)
HistoryIsExact == Full("bases") => M!HistoryIsExact(input.g, input.one, input.twos)
(* git_revwalk_next() gives the right commits, in a right order.              *)
WalkIsRight == Full("walk") => W!WalkIsRight(input)
(* A checkout without FORCE loses nothing the user wrote, ignored, unhashed    *)
(* and misplaced files apart.                                                 *)
KeepsWork == Full("checkout") => K!KeepsWork(input)
(* A safe checkout over a clean directory, or a forced one, reaches its target. *)
ReachesTarget == Full("checkout") => K!ReachesTarget(input)
(* A change of one side is in the merged index, or in a conflict.             *)
NoChangeLost == Full("merge") => G!NoChangeLost(input)
(* git_merge_trees() gives an index of a tree, whichever side is ours.        *)
MergeIsSound == Full("merge") => G!MergeIsSound(input)
=============================================================================

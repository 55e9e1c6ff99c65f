----------------------------- MODULE MCCheckout -----------------------------
(***************************************************************************)
(* A checkout with GIT_CHECKOUT_SAFE alone, over every small working        *)
(* directory, also one whose directories are where the baseline has files.  *)
(***************************************************************************)
EXTENDS Checkout

CONSTANTS x, y, z   \* contents; z is the user's

VARIABLE input

A == <<1>>
AB == <<1, 1>>
Trees(ids) == UNION {[S -> ids] : S \in {{}, {A}, {AB}}}

Situation(base, files, target) ==
    [base |-> base, target |-> target, work |-> [files |-> files, dirs |-> Dirs(files)],
     index |-> DOMAIN base, unhashed |-> {}, unindexed |-> {}, ignored |-> {},
     strategy |-> {"SAFE"}]

(* At first nothing is asked for; then git_checkout_tree() is called once.    *)
Init == \E base \in Trees({x, y}), files \in Trees({x, y, z}) :
           input = Situation(base, files, base)
CheckoutTree ==
    /\ input.target = input.base
    /\ \E target \in Trees({x, y}) \ {input.base} : input' = [input EXCEPT !.target = target]
Spec == Init /\ [][CheckoutTree]_input

(* "GIT_CHECKOUT_SAFE is between these two options, it will only make       *)
(* modifications that will not lose changes": no file that the user wrote   *)
(* goes, in a working directory of any shape.                              *)
SafeLosesNothing == Survive(input, Precious(input))
=============================================================================

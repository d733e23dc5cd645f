------------------------------ MODULE MCScheduler ------------------------------
(***************************************************************************)
(* Instances of Scheduler: a single child over two owners, a child with    *)
(* one of its own, and two children one of which depends on the other.     *)
(***************************************************************************)
EXTENDS Scheduler, TLC

CONSTANTS a, b, c

(* validate_graph accepts exactly the graphs without a cycle, that is,     *)
(* without a set of tasks each of which depends on one of the set.         *)
ASSUME GraphAssumption ==
    \A deps \in [{a, b, c} -> SUBSET {a, b, c}] :
        validate_graph({a, b, c}, deps) <=>
            \A S \in SUBSET {a, b, c} \ {{}} : \E t \in S : deps[t] \cap S = {}

\* One child that is steered and collected, over two owners that restore the store's
\* ledger or the parent's copy.
Solo ==
    [submitter |-> [t \in Tasks |-> Root], depends_on |-> [t \in Tasks |-> {}],
     policy |-> [t \in Tasks |-> "AllSuccess"], batches |-> {<<a>>}, costs |-> [t \in Tasks |-> {}],
     messages |-> Messages, collected |-> {a}, wait_modes |-> {}, timeouts |-> FALSE,
     checkpoints |-> TRUE, saves |-> TRUE, owners |-> 2, strict |-> 0]

\* A child that submits another and waits for it, with one permit.
Chain ==
    [Solo EXCEPT !.submitter = (a :> Root) @@ (b :> a), !.batches = {<<a>>, <<b>>},
                 !.messages = {}, !.collected = {}, !.wait_modes = {"All", "Any"}, !.timeouts = TRUE,
                 !.checkpoints = FALSE, !.saves = FALSE, !.owners = 1]

\* Two children, the first of which depends on the second, which may use up the budget.
Batch ==
    [Chain EXCEPT !.submitter = [t \in Tasks |-> Root], !.depends_on = (a :> {b}) @@ (b :> {}),
                  !.batches = {<<a, b>>}, !.costs = (a :> {}) @@ (b :> {1})]

\* One child that may be charged for while owners change, and grow stricter.
Costly ==
    [Solo EXCEPT !.costs = [t \in Tasks |-> {1}], !.messages = {}, !.collected = {},
                 !.saves = FALSE, !.owners = 3, !.strict = 1]

Recovered == {Solo, Costly}
Driven == {Chain, Batch}
================================================================================

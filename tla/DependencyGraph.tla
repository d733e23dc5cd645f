---------------------------- MODULE DependencyGraph ----------------------------
(***************************************************************************)
(* validate_graph of the child scheduler                                   *)
(* (crates/adk-runtime/src/subagent.rs): tasks without open dependencies   *)
(* are removed round by round; a graph of which something is left is       *)
(* refused.  deps is a function from tasks to the tasks they depend on.    *)
(***************************************************************************)
EXTENDS Naturals, FiniteSets

(* A dependency that names no task is refused first.                       *)
KnownDependencies(ids, deps) == \A t \in ids : deps[t] \subseteq ids

(* One round of the loop: the ready tasks leave.                           *)
AfterRound(left, deps) == {t \in left : deps[t] \cap left # {}}

(* What is left when a round changes nothing, after at most as many rounds *)
(* as there are tasks.                                                     *)
Left(ids, deps) ==
    LET left[n \in Nat] == IF n = 0 THEN ids ELSE AfterRound(left[n - 1], deps)
    IN left[Cardinality(ids)]

validate_graph(ids, deps) == KnownDependencies(ids, deps) /\ Left(ids, deps) = {}
================================================================================

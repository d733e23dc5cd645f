---------------------------- MODULE MCDurableRunner ----------------------------
(* Instances of DurableRunner for TLC: which calls a reply may hold; and    *)
(* the operators of GoMigration over small inputs.                          *)
EXTENDS GoMigration, SequencesExt, TLC

CONSTANTS plain, guarded, handoff, unknown

(* Every reply holds one guarded call.                                     *)
GuardedOnly == {<<guarded>>}
(* A plain call queued before a handoff, an unknown tool, and an id that   *)
(* is used twice.                                                          *)
Mixed == {<<plain, handoff>>, <<unknown, plain>>, <<guarded>>, <<plain, plain>>}

Symmetry == Permutations(Workers)

--------------------------------------------------------------------------------
(* What is migrated can be recovered: no checkpoint is accepted from Go    *)
(* that drive_durable then refuses, unless its history uses the id of a    *)
(* call twice, which only the latter minds; whatever Go's markers say, no  *)
(* decision is taken over from them.                                       *)
SomeCall == CHOOSE c \in Calls : TRUE
GoHistories == SeqOf({WireItem(kind, SomeCall) : kind \in WireKinds}, 4)
GoCheckpoint(boundary, history) ==
    [schema |-> 1, sequence |-> 1, attempt |-> CHOOSE a \in Attempts : TRUE, boundary |-> boundary,
     runtime |-> FALSE, effect |-> FALSE, interruptions |-> FALSE, children |-> <<>>,
     requests |-> 1, history |-> history]
Verified(turns, blocks, max_turns) ==
    [turns |-> turns, blocks |-> blocks, max_turns |-> max_turns, tool_calls |-> 1,
     final_output |-> TRUE, gate_verified |-> TRUE]
UsesTwice(items) ==
    \E i, j \in DOMAIN items : i # j /\ items[i] = items[j] /\ items[i].kind = "call"

ASSUME MigratedRecovers ==
    \A history \in GoHistories, boundary \in {"run_started", "paused", "run_completed"} :
        LET ck == GoCheckpoint(boundary, history)
            host == Verified(1, GateMax, MaxTurns + GateMax)
            m == migrate_go_checkpoint(ck, host)
        IN Takes(ck, host) /\ ~UsesTwice(m.runtime.history) =>
              Recoverable(m) /\ RestoredDecisions(m.runtime) = NoDecisions

ASSUME VerifiedCountersHold ==
    \A boundary \in Boundaries \cup {"child_changed"}, turns \in 0..2,
       blocks \in 0..GateMax + 1, max_turns \in MaxTurns - 1..MaxTurns + 1 :
        LET ck == GoCheckpoint(boundary, <<>>)
            host == Verified(turns, blocks, max_turns)
            m == migrate_go_checkpoint(ck, host)
        IN Takes(ck, host) => Recoverable(m) /\ m.runtime.turns >= ck.requests

(* What this runner writes is neither migrated nor, before its end,        *)
(* resumed by Go; and the markers in it stand before the items they were   *)
(* made before, in the order they were made.                               *)
NoMarker(item) == item.kind # "pending"
ASSUME WrittenForGo ==
    \A n \in 0..3 : \A anchors \in UNION {[1..m -> 0..n] : m \in 0..2} :
        LET items == [i \in 1..n |-> [kind |-> IF i % 2 = 1 THEN "call" ELSE "handoff",
                                      call |-> SomeCall]]
            entries == [k \in DOMAIN anchors |->
                          [at |-> anchors[k], item |-> [kind |-> "pending", call |-> k]]]
            ck == [sequence |-> 1, attempt |-> CHOOSE a \in Attempts : TRUE, boundary |-> "paused",
                   runtime |-> [FreshRuntime EXCEPT !.history = items]]
            wire == AsWritten(ck, entries)
            h == wire.history
        IN /\ ~Takes(wire, Verified(1, 0, MaxTurns)) /\ wire.boundary \notin SafeBoundaries
           /\ SelectSeq(h, NoMarker) = [i \in 1..n |-> Projected(items[i])]
           /\ \A k \in DOMAIN entries : \E p \in DOMAIN h :
                /\ h[p] = entries[k].item
                /\ Len(SelectSeq(SubSeq(h, 1, p), NoMarker)) = entries[k].at
                /\ \A j \in 1..k - 1 : anchors[j] <= anchors[k] =>
                      \E q \in 1..p - 1 : h[q] = entries[j].item

(* A fingerprint is only given where the name of an agent that a run may   *)
(* have been handed to tells which one it was.                             *)
ASSUME NamesFindAgents ==
    \A handoffs \in [1..3 -> SUBSET (1..3)], name \in [1..3 -> {"x", "y", "z"}] :
        durable_fingerprint(1, handoffs, name, FALSE) # {} =>
            \A a \in ReachableFrom(1, handoffs) : found(1, handoffs, name, name[a]) = {a}

(* Reconciling children loses none, finishes none and starts none, and     *)
(* doing it again changes nothing.                                         *)
ASSUME ChildrenReconcile ==
    \A records \in SeqOf([id : 1..2, status : Over \cup UnderWay \cup {"lost"}], 2) :
        LET again == reconcile_children(records) IN
        Reconcilable(records) =>
            /\ reconcile_children(again) = again
            /\ \A i \in DOMAIN records : /\ again[i].status \in Over \cup {"reconciling"}
                                         /\ records[i].status \in Over => again[i] = records[i]
            /\ RestoresChildren(records, FALSE) => again = records
================================================================================

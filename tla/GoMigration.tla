------------------------------ MODULE GoMigration ------------------------------
(***************************************************************************)
(* The checkpoints that the Go SDK and this one exchange                   *)
(* (crates/adk-runtime/src/durable.rs): what persist_boundary writes where *)
(* a Go process may read it, which Go checkpoints migrate_go_checkpoint    *)
(* takes over, the state of children both carry, and the fingerprint that  *)
(* ties a checkpoint to the agents it was written by.  Pure operators, in  *)
(* terms of DurableRunner's checkpoints and of its Recoverable.            *)
(***************************************************************************)
EXTENDS DurableRunner

LOCAL INSTANCE SequencesExt

--------------------------------------------------------------------------------
(* Children: the records of a scheduler's checkpoint, read as JSON.        *)

Over == {"completed", "failed", "cancelled"}
UnderWay == {"pending", "waiting", "running", "reconciling"}

(* reconcile_children: every record has an id of its own and a known       *)
(* status, or the checkpoint is refused; what was active is to be          *)
(* reconciled.                                                             *)
Reconcilable(records) ==
    /\ \A i, j \in DOMAIN records : i # j => records[i].id # records[j].id
    /\ \A i \in DOMAIN records : records[i].status \in Over \cup UnderWay

reconcile_children(records) ==
    [i \in DOMAIN records |->
        [records[i] EXCEPT !.status = IF @ \in Over THEN @ ELSE "reconciling"]]

has_active_children(records) == \E i \in DOMAIN records : records[i].status \notin Over

(* drive_durable: active children need an owner, which is given them       *)
(* reconciled and dispatches none.                                         *)
RestoresChildren(records, owner) ==
    Reconcilable(records) /\ (has_active_children(records) => owner)

--------------------------------------------------------------------------------
(* Agents: which other agents each hands off to, and their names.          *)

ReachableFrom(initial, handoffs) ==
    LET step[n \in 0..Cardinality(DOMAIN handoffs)] ==
          IF n = 0 THEN {initial}
          ELSE step[n - 1] \cup UNION {handoffs[a] : a \in step[n - 1]}
    IN step[Cardinality(DOMAIN handoffs)]

(* durable_fingerprint: a digest of the whole catalog, refused when        *)
(* something in it cannot be told apart or replayed (a custom parser or    *)
(* hook, a stop gate without a key, custom compaction or turn context:     *)
(* `custom`).                                                              *)
durable_fingerprint(initial, handoffs, name, custom) ==
    LET all == ReachableFrom(initial, handoffs)
        refused == custom \/ Cardinality({name[a] : a \in all}) # Cardinality(all)
    IN IF refused THEN {}
       ELSE {[name |-> name[a], handoffs |-> {name[b] : b \in handoffs[a]}] : a \in all}

(* The agent recovery finds for the name in the checkpoint.                *)
found(initial, handoffs, name, agent_name) ==
    {a \in ReachableFrom(initial, handoffs) : name[a] = agent_name}

--------------------------------------------------------------------------------
(* Checkpoints on the wire.                                                *)

(* SnapshotType: what an item of a history is, and the call it is about.   *)
WireItem(kind, call) == [kind |-> kind, call |-> call]
WireKinds == {"message", "call", "output", "pending", "approved", "reasoning", "compaction", "other"}

(* history_markers: by anchor, those of one anchor as they were made.      *)
history_markers(entries) ==
    LET rank(k) == Cardinality({j \in DOMAIN entries :
                      \/ entries[j].at < entries[k].at
                      \/ entries[j].at = entries[k].at /\ j <= k})
    IN [r \in DOMAIN entries |-> entries[CHOOSE k \in DOMAIN entries : rank(k) = r]]

(* Each is inserted before its item, counting those inserted already.      *)
Interleaved(history, entries) ==
    FoldLeft(LAMBDA h, r : InsertAt(h, history_markers(entries)[r].at + r,
                                    history_markers(entries)[r].item),
             history, [r \in DOMAIN entries |-> r])

(* A handoff is told to Go as the result of its call.                      *)
Projected(item) == WireItem(IF item.kind = "call" THEN "call" ELSE "output", item.call)

(* persist_boundary: the RunnerCheckpoint.  Its boundary says to Go what   *)
(* Go will not resume; the real one is in the runtime state.               *)
AsWritten(ck, entries) ==
    [schema |-> 1, sequence |-> ck.sequence, attempt |-> ck.attempt,
     boundary |-> IF ck.boundary = "run_completed" THEN ck.boundary ELSE "model_completed",
     runtime |-> TRUE, effect |-> ck.runtime.effect # NoEffect, interruptions |-> FALSE,
     children |-> <<>>, requests |-> ck.runtime.turns,
     history |-> Interleaved([i \in DOMAIN ck.runtime.history |-> Projected(ck.runtime.history[i])],
                             entries)]

--------------------------------------------------------------------------------
(* migrate_go_checkpoint, with what the host has verified (GoRecovery).    *)

(* A prepared boundary of Go does not prove that nothing was dispatched.   *)
SafeBoundaries == {"run_started", "run_completed", "tool_completed", "handoff_completed",
                   "paused", "child_changed"}

IsItem(w) == w.kind \in {"call", "output"}
Decoded(history) ==
    LET items == SelectSeq(history, IsItem)
    IN [i \in DOMAIN items |-> [kind |-> IF items[i].kind = "call" THEN "call" ELSE "result",
                                call |-> items[i].call]]

(* validate_history_pairs: at every point no call is open twice and no     *)
(* result comes without one, and in the end none is open.                  *)
PairsUp(items) ==
    LET Of(c, kind, n) == Cardinality({i \in 1..n : items[i] = [kind |-> kind, call |-> c]})
    IN \A c \in Calls :
         /\ \A n \in 0..Len(items) : Of(c, "call", n) - Of(c, "result", n) \in {0, 1}
         /\ Of(c, "call", Len(items)) = Of(c, "result", Len(items))

(* The markers of the history, the last of each call: Go's says whether it *)
(* was approved, and nothing of a denial.                                  *)
Migrated(history) ==
    [c \in Calls |->
        LET about == {i \in DOMAIN history : history[i] \in
                        {WireItem("pending", c), WireItem("approved", c)}}
        IN IF about = {} THEN "none"
           ELSE IF history[CHOOSE i \in about : \A j \in about : j <= i].kind = "approved"
                THEN "approve" ELSE "defer"]

(* What is refused otherwise; the other counters (tokens, cost) are checked *)
(* like the turns.                                                         *)
Takes(ck, host) ==
    /\ ck.schema = 1 /\ ~ck.runtime
    /\ ck.boundary \in SafeBoundaries
    /\ ~ck.effect /\ ~ck.interruptions
    /\ Reconcilable(ck.children)
    /\ host.turns >= ck.requests
    /\ \A i \in DOMAIN ck.history : ck.history[i].kind # "other"
    /\ PairsUp(Decoded(ck.history))
    /\ ck.boundary = "run_completed" => host.final_output
    /\ Gate => /\ host.gate_verified      \* stop_gate_blocks, effective_max_turns
               /\ host.blocks <= GateMax /\ host.max_turns >= MaxTurns

migrate_go_checkpoint(ck, host) ==
    [sequence |-> ck.sequence, attempt |-> ck.attempt, boundary |-> ck.boundary,
     runtime |->
       [FreshRuntime EXCEPT
           !.phase = IF ck.boundary = "run_completed" THEN "Finish" ELSE "Model",
           !.history = Decoded(ck.history), !.journal = Migrated(ck.history),
           !.turns = host.turns, !.tool_calls = host.tool_calls,
           !.blocks = IF Gate THEN host.blocks ELSE 0,
           !.max_turns = IF Gate THEN host.max_turns ELSE MaxTurns]]
================================================================================

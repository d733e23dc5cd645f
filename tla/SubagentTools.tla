----------------------------- MODULE SubagentTools -----------------------------
(***************************************************************************)
(* The subagent tools over a scheduler (crates/adk-runtime/src/            *)
(* subagent_tools.rs), and how a child's run ends (Runner::run_child):     *)
(* what a SubagentSession submits for a call, waits for, tells its run and *)
(* reports as delivered.  Pure operators: tasks are the scheduler's        *)
(* records, staged is staged_delivery, and a handle is the task whose      *)
(* session it is, 0 for the host's.                                        *)
(***************************************************************************)
EXTENDS Integers, Sequences, FiniteSets, SequencesExt

TaskOver == {"completed", "failed", "cancelled"}
TaskRecord(status, parent) == [status |-> status, parent |-> parent, delivered |-> FALSE]

(* SchedulerHandle::list: everything below the handle.                     *)
visible(tasks, handle) ==
    LET n == Cardinality(DOMAIN tasks)
        above[k \in 0..n] ==
          [id \in DOMAIN tasks |->
             IF k = 0 THEN {}
             ELSE {tasks[id].parent} \cup
                  (IF tasks[id].parent = 0 THEN {} ELSE above[k - 1][tasks[id].parent])]
    IN {id \in DOMAIN tasks : tasks[id].status # "absent" /\ handle \in above[n][id]}

--------------------------------------------------------------------------------
(* Telling a run what its children found.                                  *)

(* Own children only: a descendant's result is for its parent.             *)
pending_ids(tasks, staged, handle) ==
    {id \in visible(tasks, handle) :
        tasks[id].parent = handle /\ ~tasks[id].delivered /\ id \notin staged}

(* What is told now; it joins staged.                                      *)
stage_results(tasks, staged, handle, ids) ==
    {id \in visible(tasks, handle) \cap ids :
        tasks[id].status \in TaskOver /\ ~tasks[id].delivered /\ id \notin staged}

collect(tasks, staged, handle) ==
    stage_results(tasks, staged, handle, pending_ids(tasks, staged, handle))

(* What a final answer waits for: descendants still at work, too.          *)
join_ids(tasks, staged, handle) ==
    pending_ids(tasks, staged, handle)
      \cup {id \in visible(tasks, handle) : tasks[id].status \notin TaskOver}

JoinRefused(tasks, ids) == \E id \in ids : tasks[id].status = "reconciling"
JoinOver(tasks, ids) == \A id \in ids : tasks[id].status \in TaskOver

(* commit_delivery, once a checkpoint holds what was told: collect_ids     *)
(* takes terminal tasks only.                                              *)
commit_delivery(tasks, ids) ==
    [id \in DOMAIN tasks |->
        [tasks[id] EXCEPT !.delivered = @ \/ (id \in ids /\ tasks[id].status \in TaskOver)]]

(* await_tasks and subagent_wait: results told earlier are named, not      *)
(* repeated; a deadline that passes as the last task ends is no timeout.   *)
wait_report(tasks, staged, handle, ids, deadline) ==
    LET over == {id \in ids : tasks[id].status \in TaskOver}
        told == stage_results(tasks, staged, handle, over)
    IN [finished |-> told, previously_delivered |-> over \ told, still_active |-> ids \ over,
        timed_out |-> deadline /\ ids \ over # {}]

(* subagent_status: all tasks when none is named, or a graph is asked for; *)
(* only results are told by it.                                            *)
status_ids(tasks, handle, named, detail) ==
    IF detail = "graph" \/ named = {} THEN visible(tasks, handle) ELSE named
status_staged(tasks, staged, handle, named, detail) ==
    IF detail = "results"
    THEN stage_results(tasks, staged, handle, status_ids(tasks, handle, named, detail)) ELSE {}

(* update_parent: the context shared with a child leaves out the calls     *)
(* that have no answer yet, the one that spawns it among them.             *)
update_parent(history) ==
    LET completed == {history[i].id : i \in
                        {j \in DOMAIN history : history[j].kind \in {"result", "handoff"}}}
    IN SelectSeq(history, LAMBDA item : item.kind = "call" => item.id \in completed)

--------------------------------------------------------------------------------
(* Submitting.                                                             *)

(* ToolPolicy: the access mode and the mutating tools allowed in it.       *)
narrowed(policy, access) ==
    IF access = "read-only" THEN [policy EXCEPT !.access = "ReadOnly", !.mutating = {}] ELSE policy

(* execute: a tool offered for read-only access delegates no more.         *)
ToolsPolicy(policy, read_only) == narrowed(policy, IF read_only THEN "read-only" ELSE "full")

(* spawn: one message, or tasks that name each other by key.  An id is the *)
(* call's idempotency key with the task's key, so that a repeated call     *)
(* names the same tasks.                                                   *)
Single(message, depends_on) ==
    <<[key |-> "", message |-> message, depends_on |-> depends_on,
       access |-> "full", policy |-> "all_success"]>>
SpawnRefused(input) ==
    \/ input.mode \notin {"sync", "background"}
    \/ input.single # (input.tasks = <<>>)
    \/ input.access \notin {"full", "read-only"}
    \/ \E i \in DOMAIN input.tasks :
          \/ input.tasks[i].key = "" \/ \E j \in 1..i - 1 : input.tasks[j].key = input.tasks[i].key
          \/ input.tasks[i].access \notin {"full", "read-only"}
          \/ input.tasks[i].policy \notin {"all_success", "all_terminal"}

spawn(input, policy, prefix) ==
    LET batch == IF input.single THEN Single("text", input.depends_on) ELSE input.tasks
        keys == {input.tasks[i].key : i \in DOMAIN input.tasks}
        id(key) == IF key \in keys THEN <<prefix, key>> ELSE <<key>>
    IN [i \in DOMAIN batch |->
          [id |-> IF input.single THEN <<>> ELSE id(batch[i].key),
           depends_on |-> {id(key) : key \in batch[i].depends_on},
           dependency_policy |-> batch[i].policy,
           tools |-> narrowed(narrowed(policy, input.access), batch[i].access)]]

(* subagent_control: a message needs a text, and is sent under the call's  *)
(* idempotency key, so that a repeated call sends it once.                 *)
control_refused(action, message) ==
    action \notin {"message", "cancel"} \/ (action = "message" /\ message = "")
control(action, key) == IF action = "message" THEN <<"steer", key>> ELSE <<"cancel">>

--------------------------------------------------------------------------------
(* A child's run: RunnerChildExecutor and run_child.                       *)

(* The baseline the child was admitted with must be what its runner        *)
(* enforces; named guardrails are nobody's.  max_bytes 0 is no cap.        *)
Enforced(security, output) ==
    /\ security.guardrails = {}
    /\ security.untrusted => output.untrusted
    /\ security.max_output_bytes # 0 => output.max_bytes \in 1..security.max_output_bytes

(* A pause is a failure: nobody could resume it.                           *)
child_status(ending) ==
    CASE ending = "completed" -> "completed"
      [] ending = "cancelled" -> "cancelled"
      [] OTHER -> "failed"
================================================================================

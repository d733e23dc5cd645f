------------------------------ MODULE MCEngine ------------------------------
(* Instances of Engine for TLC.                                            *)
EXTENDS Engine

Plain == [owner |-> "conversation", stream |-> FALSE, approve |-> FALSE, stop |-> FALSE,
          external |-> FALSE, gate |-> FALSE, children |-> FALSE, fallbacks |-> 0,
          handler |-> "none", turns |-> 2, room |-> 0, tools |-> {}, outputs |-> {}, errors |-> {},
          reports |-> {100}]

\* A chat that streams from two models, a chat whose answers are gated, the next
\* message of either with an external compactor, a Go chat that approves
\* mutations, a child, a child with children of its own, and a chat whose
\* children outlive the run that spawned them.
MCConfigs ==
    {[Plain EXCEPT !.stream = TRUE, !.fallbacks = 1, !.tools = {"read", "guarded"},
                   !.outputs = {"text", "long"}, !.errors = {"idle", "length"}],
     [Plain EXCEPT !.gate = TRUE, !.handler = "retry",
                   !.tools = {"write", "guarded"}, !.outputs = {"error", "pause"},
                   !.errors = {"limit"}],
     [Plain EXCEPT !.external = TRUE, !.room = 4, !.tools = {"guarded"}, !.outputs = {"text"},
                   !.errors = {"length"}, !.reports = {300}],
     [Plain EXCEPT !.owner = "host", !.approve = TRUE, !.tools = {"write", "handoff"},
                   !.outputs = {"long", "withheld"}, !.errors = {"provider", "length"}],
     [Plain EXCEPT !.owner = "child", !.stream = TRUE, !.stop = TRUE, !.children = TRUE,
                   !.tools = {"read", "unknown"}, !.outputs = {"media", "pause"},
                   !.errors = {"advised", "fatal"}],
     [Plain EXCEPT !.owner = "child", !.stream = TRUE, !.stop = TRUE, !.children = TRUE,
                   !.tools = {"subagent", "subagent_wait"}, !.outputs = {"text", "error"}],
     [Plain EXCEPT !.children = TRUE, !.room = 4, !.tools = {"subagent"}, !.outputs = {"text"},
                   !.errors = {"fatal"}]}

MCPolicy == [enabled |-> TRUE, trigger |-> 7, target |-> 5, recent |-> 2, initial |-> 1, bullets |-> 2]

--------------------------------------------------------------------------------
(* SubagentTools over small inputs.                                        *)

Statuses == {"running", "completed", "reconciling"}
Families == {f \in [1..3 -> [status : Statuses, parent : 0..2, delivered : BOOLEAN]] :
               \A id \in 1..3 : /\ f[id].parent < id
                                /\ f[id].delivered => f[id].status \in TaskOver}

(* Each result goes to one session only, that of the task's parent, which is told it once *)
(* however often it collects; and an answer that was joined leaves nothing at work below. *)
ASSUME ResultsToParents ==
    \A tasks \in Families, staged \in SUBSET {1, 2, 3} :
        /\ \A h1, h2 \in 0..3 : h1 # h2 =>
              collect(tasks, staged, h1) \cap collect(tasks, staged, h2) = {}
        /\ \A h \in 0..3 : LET told == collect(tasks, staged, h) IN
              /\ collect(tasks, staged \cup told, h) = {}
              /\ collect(commit_delivery(tasks, told), staged, h) = {}
              /\ JoinOver(tasks, join_ids(tasks, staged, h)) =>
                    /\ JoinOver(tasks, visible(tasks, h))
                    /\ \A id \in visible(tasks, h) : tasks[id].parent = h =>
                          tasks[id].delivered \/ id \in staged \cup told

(* A wait accounts for each of its tasks in one way, and shows the results it stages.    *)
ASSUME WaitAccounts ==
    \A tasks \in Families, staged, ids \in SUBSET {1, 2, 3}, deadline \in BOOLEAN :
        LET r == wait_report(tasks, staged, 0, ids, deadline) IN
        /\ r.finished \cup r.previously_delivered \cup r.still_active = ids
        /\ (r.finished \cup r.previously_delivered) \cap r.still_active = {}
        /\ r.finished = stage_results(tasks, staged, 0, ids)
        /\ r.timed_out => r.still_active # {}
        /\ \A detail \in {"graph", "results", "summary"} :
              status_staged(tasks, staged, 0, ids, detail) # {} => detail = "results"

(* An accepted batch is submitted under ids that differ, each task of it depends on the  *)
(* tasks it named, no task may do more than its parent, and a repeated call has the same *)
(* ids.                                                                                  *)
Keys == {"", "a", "b"}
Batches == SeqOf([key : Keys, depends_on : SUBSET {"a", "b", "old"},
                  access : {"full", "read-only"}, policy : {"all_success", "none"}], 2)
Policies == [access : {"Full", "ReadOnly"}, mutating : SUBSET {"tool"}]

ASSUME BatchesSubmitted ==
    \A tasks \in Batches, single \in BOOLEAN, access \in {"full", "read-only", "all"}, policy \in Policies :
        LET input == [mode |-> "sync", single |-> single, access |-> access, tasks |-> tasks,
                      depends_on |-> {"old"}]
            made == spawn(input, ToolsPolicy(policy, access = "read-only"), "call")
        IN ~SpawnRefused(input) =>
             /\ made # <<>>
             /\ \A i, j \in DOMAIN made : i # j => made[i].id # made[j].id
             /\ \A i \in DOMAIN tasks :
                   /\ \A j \in DOMAIN tasks :
                         tasks[j].key \in tasks[i].depends_on <=> made[j].id \in made[i].depends_on
                   /\ "old" \in tasks[i].depends_on <=> <<"old">> \in made[i].depends_on
             /\ \A i \in DOMAIN made :
                   /\ made[i].tools.mutating \subseteq policy.mutating
                   /\ policy.access = "ReadOnly" => made[i].tools.access = "ReadOnly"
                   /\ access = "read-only" => made[i].tools.mutating = {}

(* The context shared with a child can start its run, whatever calls are open; an engine  *)
(* lets no id be used twice.                                                             *)
Histories == SeqOf({Item(kind, id, "text", 0) : kind \in {"call", "result"}, id \in {1, 2}}, 4)

ASSUME SharedContextWhole ==
    \A whole \in {h \in Histories : PairsWhole(h)} : \A n \in 0..Len(whole) :
        LET open == SubSeq(whole, 1, n) IN
        Cardinality(IdsOf(open, "call")) = Cardinality({i \in 1..n : open[i].kind = "call"}) =>
            PairsWhole(update_parent(open))

(* A repeated control call names the same message and another call another one.          *)
ASSUME ControlsRepeat ==
    \A action \in {"message", "cancel", "stop"}, text \in {"", "text"}, k1, k2 \in {"call", "other"} :
        ~control_refused(action, text) =>
            (control(action, k1) = control(action, k2) <=> k1 = k2 \/ action = "cancel")

(* A runner that enforces a baseline enforces every looser one.                          *)
Securities == [guardrails : SUBSET {"named"}, untrusted : BOOLEAN, max_output_bytes : 0..2]
Looser(s1, s2) ==
    /\ s1.guardrails \subseteq s2.guardrails /\ (s1.untrusted => s2.untrusted)
    /\ s1.max_output_bytes # 0 => s2.max_output_bytes \in 1..s1.max_output_bytes

ASSUME LooserEnforced ==
    \A s1, s2 \in Securities, output \in [untrusted : BOOLEAN, max_bytes : 0..2] :
        Looser(s1, s2) /\ Enforced(s2, output) => Enforced(s1, output)
=============================================================================

------------------------------- MODULE Engine -------------------------------
(***************************************************************************)
(* The engine that drives a run without durable state, and the owners of   *)
(* its result: a Conversation, a Go chat, or the scheduler of a child      *)
(* (adk-runtime/src/runner.rs, compat.rs and output.rs).                   *)
(*                                                                         *)
(* One engine exists at a time. An action covers the code between two      *)
(* points where the engine waits for somebody else: the model, a tool, the *)
(* host's approval, a backoff, its children. Cancellation, deadlines,      *)
(* exhausted budgets and failing hooks may end the run at every such point *)
(* (Fails), and its future may be dropped there (Dropped).                 *)
(***************************************************************************)
EXTENDS Compaction, SubagentTools, TLC

CONSTANTS
    Configs,          \* the configurations a run is started with: its owner, options,
                      \* turns (RunPolicy::max_turns), the history there is room for,
                      \* tools ("read", "write", "guarded", "unknown", "handoff", and
                      \* "subagent" in the background and "subagent_wait"),
                      \* their outputs ("text", "long", "media", "error", "pause",
                      \* "withheld") and the model's errors ("length", "idle", "limit",
                      \* "advised", "provider", "fatal"), and the prompt
                      \* sizes its provider reports, in percent of the estimate
    Policy,           \* the local compaction policy
    Overhead,         \* estimated tokens of a request besides its history
    Ids,              \* call ids, 1..n
    MaxCalls,         \* calls in one response
    MaxBlocks,        \* stop_gate_max_blocks
    MaxRetries,       \* RetryPolicy::max_retries
    AdvisedRetries,   \* retries a provider can advise (10 in the code)
    Reprobe,          \* successes of a fallback before the primary (3 in the code)
    ErrorLimit,       \* consecutive_tool_error_limit
    MaxResumes,       \* resumes of a run (12 in a Go chat)
    Children,         \* bound on the children of a session
    MaxRuns, MaxSteering, MaxSpills   \* bounds

ToolNames == {"read", "write", "guarded", "unknown", "handoff", "subagent", "subagent_wait"}

ASSUME EngineAssumption ==
    /\ \A cfg \in Configs : /\ cfg.owner \in {"conversation", "host", "child"}
                             /\ cfg.tools \subseteq ToolNames
    /\ Policy \in [enabled : BOOLEAN, trigger : Nat, target : Nat,
                   recent : Nat, initial : Nat, bullets : Nat]
    /\ 0 < Policy.target /\ Policy.target < Policy.trigger /\ Children \in Nat
    /\ MaxBlocks \in Nat \ {0} /\ IsFiniteSet(Ids) /\ Ids = 1..Cardinality(Ids)

VARIABLES
    conv,      \* Conversation: history, spills, paused
    eng,       \* the engine, its phase "idle" when there is none
    outcome,   \* the last result that its owner has not adopted yet
    env        \* messages for a child, the session of its children (its tasks and
               \* staged_delivery), and what the bounds count
vars == <<conv, eng, outcome, env>>

Idle == [phase |-> "idle"]

\* Runner::engine: a new engine over a history.
NewEngine(cfg, history) ==
    [phase |-> "start", paused |-> FALSE, cfg |-> cfg, stream |-> cfg.stream, resumed |-> FALSE,
     agent |-> 1, history |-> history, new |-> 0, committed |-> 0, published |-> 0,
     entries |-> <<>>, deferrals |-> <<>>, invalid |-> FALSE,
     calls |-> <<>>, deferred |-> <<>>, pending |-> {}, approvals |-> <<>>, prepared |-> FALSE,
     toolTurn |-> None, streak |-> 0, escalated |-> FALSE, toolPause |-> FALSE, toolFinal |-> FALSE,
     running |-> {}, outputs |-> <<>>, ran |-> [id \in Ids |-> 0], granted |-> {},
     turns |-> 0, max |-> cfg.turns, blocks |-> 0, attempt |-> 0, index |-> 0, asked |-> 0,
     fallback |-> None, calibration |-> 100, go |-> FALSE, resumes |-> 0, spills |-> {},
     told |-> [id \in 1..Children |-> 0],
     left |-> FALSE]   \* a handoff has left deferred calls behind, for the properties

NoTasks == [id \in 1..Children |-> TaskRecord("absent", 0)]

Init ==
    /\ conv = [history |-> <<>>, spills |-> {}, paused |-> FALSE]
    /\ eng = Idle
    /\ outcome = None
    /\ env = [inbox |-> 0, tasks |-> NoTasks, staged |-> {}, closed |-> FALSE,
              runs |-> 0, steered |-> 0, spilled |-> 0]

Active == eng.phase # "idle" /\ ~eng.paused

At(phase) == Active /\ eng.phase = phase

\* Engine::append.
append(e, item) == [e EXCEPT !.history = Append(@, item), !.new = @ + 1]

AppendAll(e, items) == [e EXCEPT !.history = @ \o items, !.new = @ + Len(items)]

(***************************************************************************)
(* Ends of a run, and who adopts them.                                     *)
(***************************************************************************)
Refers(history) == {history[i].spill : i \in
                      {j \in DOMAIN history : history[j].kind = "result"}} \ {0}

\* Fault: an error is adopted without the spills it carries.
AdoptsHistoryOnly(result) ==
    [conv EXCEPT !.history = result.history, !.paused = result.status = "paused",
                 !.spills = IF result.status = "failed" THEN @ ELSE @ \cup result.spills]

\* Conversation::accept, accept_error and the end of Conversation::run: history
\* is replaced by the engine's snapshot, spills are kept as long as it is.
Adopted(result) ==
    [conv EXCEPT !.history = result.history, !.paused = result.status = "paused",
                 !.spills = @ \cup result.spills]

\* Engine::drive and fail: the result, with its spills on every path, goes to
\* the owner; only a paused run leaves a continuation, and run_child has no use
\* for one.
Ends(e, ending) ==
    LET status == IF e.cfg.owner = "child" THEN child_status(ending) ELSE ending
        result == [status |-> status, owner |-> e.cfg.owner, history |-> e.history,
                   spills |-> e.spills, pending |-> e.pending]
        adopts == e.cfg.owner = "conversation" /\ ~e.resumed
    IN  /\ outcome' = IF adopts THEN None ELSE result
        /\ conv' = IF adopts THEN Adopted(result) ELSE conv
        /\ eng' = IF status # "paused" THEN Idle
                  ELSE [e EXCEPT !.paused = TRUE, !.running = {}, !.outputs = <<>>]

Failed(e) == Ends(e, "failed") /\ UNCHANGED env

Continues(e) == eng' = e /\ UNCHANGED <<conv, outcome, env>>

(***************************************************************************)
(* The approval journal.                                                   *)
(***************************************************************************)
Marker(id, phase, agent) == Item("approval", id, phase, agent)

\* ApprovalJournal::history_markers.
history_markers(e) ==
    FlattenSeq([n \in 1..Len(e.history) + 1 |->
        FlattenSeq([k \in DOMAIN e.entries |->
            IF e.entries[k].at = n - 1
            THEN <<[before |-> n - 1, marker |-> e.entries[k].marker]>> ELSE <<>>])])

\* ApprovalJournal::observe(ApprovalMarker).
Marked(e, marker, new, at) ==
    [e EXCEPT !.entries = Append(@, [marker |-> marker, new |-> new, at |-> at])]

\* ApprovalJournal::observe(ApprovalHistoryReplaced): every returned marker goes
\* to the first entry that equals it and is not taken.
Reanchored(entries, markers) ==
    LET Nth(k) == Cardinality({j \in 1..k : entries[j].marker = entries[k].marker})
        Found(k) == SelectSeq(markers, LAMBDA m : m.marker = entries[k].marker)
    IN  [k \in DOMAIN entries |->
            [entries[k] EXCEPT !.at = IF Nth(k) <= Len(Found(k)) THEN Found(k)[Nth(k)].before
                                      ELSE None]]

Anchored(item) == item.kind \notin MessageKinds

\* The correspondence of rebase_entry: <<old, new>> for the items that survive.
Survivors(before, after) ==
    {p \in (DOMAIN before) \X (DOMAIN after) :
        Anchored(before[p[1]]) /\ before[p[1]] = after[p[2]]}

Ambiguous(pairs) ==
    \E p, q \in pairs : p # q /\ (p[1] = q[1] \/ p[2] = q[2] \/ (p[1] < q[1] /\ p[2] >= q[2]))

\* Fault: a marker is anchored after the item that followed it.
RebasedPast(entry, before, after) ==
    LET later == {p \in Survivors(before, after) : p[1] > entry.at}
    IN  IF entry.at = None \/ later = {} THEN [entry EXCEPT !.at = None]
        ELSE [entry EXCEPT !.at = (CHOOSE p \in later : \A q \in later : p[1] <= q[1])[2]]

\* rebase_entry: a marker moves before the first surviving item that followed
\* it, or after the last one; it goes when its call and result are gone.
rebase_entry(entry, before, after) ==
    LET pairs == Survivors(before, after)
        later == {p \in pairs : p[1] > entry.at}
        gone == entry.marker.id \notin IdsOf(after, "call") \cup IdsOf(after, "result")
    IN  IF entry.at = None \/ gone THEN [entry EXCEPT !.at = None]
        ELSE IF later # {}
        THEN [entry EXCEPT !.at = (CHOOSE p \in later : \A q \in later : p[1] <= q[1])[2] - 1]
        ELSE [entry EXCEPT !.at = (CHOOSE p \in pairs : \A q \in pairs : q[2] <= p[2])[2]]

Invalidates(e, after) ==
    /\ e.history # after
    /\ \E k \in DOMAIN e.entries :
          /\ e.entries[k].at # None
          /\ e.entries[k].marker.id \in IdsOf(after, "call") \cup IdsOf(after, "result")
          /\ Ambiguous(Survivors(e.history, after)) \/ Survivors(e.history, after) = {}

\* ApprovalJournal::observe(HistoryReplaced).
Rebased(e, after) ==
    IF Invalidates(e, after) THEN [e EXCEPT !.invalid = TRUE, !.history = after]
    ELSE [e EXCEPT !.history = after,
                   !.entries = [k \in DOMAIN @ |->
                        IF e.history = after THEN @[k]
                        ELSE rebase_entry(@[k], e.history, after)]]

\* Engine::publish_committed.
publish_committed(e) == [e EXCEPT !.committed = e.new, !.published = Len(e.entries)]

(***************************************************************************)
(* Compaction.                                                             *)
(***************************************************************************)
\* LocalCompactor::compact: without markers, which are rebased afterwards.
FinalHistory(planned, previous) ==
    IF planned = None THEN previous ELSE finalize_mixed_history(planned, previous)

CompactedHistory(history) == FinalHistory(compact_mixed(history, Policy, Overhead), history)

\* The policy of compact_local: forced by a context-length error it halves the
\* history, whatever its size.
LocalPolicy(e, forced, size) ==
    IF ~forced THEN CalibratedPolicy(e.calibration, Policy)
    ELSE [CalibratedPolicy(e.calibration, Policy) EXCEPT
            !.trigger = 1, !.target = MinOf(@, MaxOf(size \div 2, 1))]

LocalPlan(mixed, policy, forced) ==
    IF estimate_mixed_tokens(mixed) + Overhead <= policy.trigger THEN None
    ELSE compact_mixed(mixed, policy, IF forced THEN 0 ELSE Overhead)

Replaced(e, final) ==
    [e EXCEPT !.history = SplitItems(final), !.entries = Reanchored(@, SplitMarkers(final))]

PlannedFor(e, mixed, planned) ==
    IF planned = None THEN e ELSE Replaced(e, finalize_mixed_history(planned, mixed))

LocallyCompacted(e, forced, mixed) ==
    PlannedFor(e, mixed,
               LocalPlan(mixed, LocalPolicy(e, forced, estimate_mixed_tokens(mixed)), forced))

\* Engine::compact_local: the engine with its compacted history, or itself.
compact_local(e, forced) == LocallyCompacted(e, forced, mixed_history(e.history, history_markers(e)))

\* compact_local fails the run: its anchors are invalid, or a history it changed
\* does not pass validate_history_pairs.
CompactionFails(e, c) == e.invalid \/ (c.history # e.history /\ ~PairsWhole(c.history))

(***************************************************************************)
(* Owners start, resume and adopt runs.                                    *)
(***************************************************************************)
Begins(cfg, history) ==
    /\ env.runs < MaxRuns
    /\ eng' = NewEngine(cfg, history)
    /\ env' = [env EXCEPT !.runs = @ + 1, !.inbox = 0, !.closed = FALSE, !.staged = {}]

\* Conversation::run with one more message; refused while paused.
ConversationRun ==
    /\ eng = Idle /\ outcome = None /\ ~conv.paused
    /\ \E cfg \in Configs :
          /\ cfg.owner = "conversation" /\ Len(conv.history) <= cfg.room
          /\ Begins(cfg, Append(conv.history, Message("user")))
    /\ conv' = [conv EXCEPT !.history = Append(@, Message("user"))]
    /\ UNCHANGED outcome

\* run_go_chat and run_child start from a request of their own, which no other
\* run sees: they come first.
HostRun ==
    /\ eng = Idle /\ outcome = None /\ env.runs = 0
    /\ \E cfg \in Configs :
          /\ cfg.owner # "conversation"
          /\ Begins(cfg, <<Message("system"), Message("user")>>)
    /\ UNCHANGED <<conv, outcome>>

\* Conversation::accept or accept_error, after a resumed run; the results of
\* other owners end here, and a child's own session with it.
Accept ==
    /\ outcome # None
    /\ conv' = IF outcome.owner = "conversation" THEN Adopted(outcome) ELSE conv
    /\ outcome' = None
    /\ env' = IF outcome.owner = "child" THEN [env EXCEPT !.tasks = NoTasks] ELSE env
    /\ UNCHANGED eng

\* Continuation::prepare_batch: a decision for every pending approval.
Resume ==
    /\ eng.phase # "idle" /\ eng.paused /\ outcome = None /\ eng.resumes < MaxResumes
    /\ \E decisions \in [eng.pending -> {"approve", "deny", "defer"}], stream \in BOOLEAN :
          eng' = [eng EXCEPT !.paused = FALSE, !.resumed = TRUE, !.stream = stream,
                             !.approvals = decisions, !.prepared = FALSE, !.resumes = @ + 1,
                             !.granted = @ \cup {id \in eng.pending : decisions[id] = "approve"}]
    /\ UNCHANGED <<conv, outcome, env>>

\* Continuation::invalid_decisions.
ResumeInvalid ==
    /\ eng.phase # "idle" /\ eng.paused /\ outcome = None /\ eng.pending # {}
    /\ Failed([eng EXCEPT !.resumed = TRUE])

\* One more round of run_go_chat: Continuation::resume_go_gate, or its limit.
ResumeGoGate ==
    /\ eng.phase # "idle" /\ eng.paused /\ eng.cfg.owner = "host" /\ eng.pending # {}
    /\ IF eng.resumes = MaxResumes THEN Failed(eng)
       ELSE /\ outcome' = None
            /\ eng' = [eng EXCEPT !.paused = FALSE, !.resumed = TRUE, !.stream = FALSE,
                                  !.prepared = TRUE, !.go = TRUE, !.resumes = @ + 1]
            /\ UNCHANGED <<conv, env>>

\* The owner of a run or of a continuation drops it.
Dropped ==
    /\ eng.phase # "idle" /\ eng.cfg.owner # "child"
    /\ eng' = Idle
    /\ UNCHANGED <<conv, outcome, env>>

\* Cancellation, a deadline, a budget, a failed hook, emit or checkpoint.
Fails == Active /\ Failed(eng)

(***************************************************************************)
(* Before a request: Phase::Start and the first half of model_turn.        *)
(***************************************************************************)
Start ==
    /\ At("start")
    /\ IF PairsWhole(eng.history) THEN Continues([eng EXCEPT !.phase = "model"])
       ELSE Failed(eng)

\* Engine::settle_tool_turn: a note once a streak of failed turns is long enough.
settle_tool_turn(e) ==
    LET settled == [e EXCEPT !.toolTurn = None]
        streak == IF \A i \in DOMAIN e.toolTurn : e.toolTurn[i] THEN e.streak + 1 ELSE 0
        escalated == e.escalated /\ streak # 0
    IN  IF e.toolTurn = None THEN e
        ELSE IF e.toolTurn = <<>> THEN settled
        ELSE IF streak >= ErrorLimit /\ ~escalated
        THEN append([settled EXCEPT !.streak = streak, !.escalated = TRUE], Message("note"))
        ELSE [settled EXCEPT !.streak = MinOf(streak, ErrorLimit), !.escalated = escalated]

\* apply_child_messages.
Told(e, n) == AppendAll(e, [i \in 1..n |-> Message("user")])

\* SubagentSession::collect: what its children found since, as messages.
News == IF eng.cfg.children THEN collect(env.tasks, env.staged, 0) ELSE {}

Hears(e, ids) == [e EXCEPT !.told = [id \in DOMAIN @ |-> @[id] + (IF id \in ids THEN 1 ELSE 0)]]

Collected(e) == Hears(AppendAll(e, [i \in 1..Cardinality(News) |-> Message("note")]), News)

\* Engine::checkpoint: what the history holds by now has been delivered.
Delivered(v, ids) == [v EXCEPT !.tasks = commit_delivery(@, ids), !.staged = {}]

\* The history a request is prepared from: settled, with the messages for this
\* child and the results of its children, all published.
Gathered(e) == publish_committed(Collected(Told(settle_tool_turn(e), env.inbox)))

\* Engine::compact: a configured compactor is asked first, its errors are
\* passed over or end the run.
Externally(e) ==
    IF e.cfg.external THEN {e, Rebased(e, CompactedHistory(e.history))} ELSE {e}

BadlyCompacted(e, x) == x.history # e.history /\ ~PairsWhole(x.history)

FirstModel(e) == IF e.fallback = None THEN 0 ELSE e.fallback.index

\* Engine::model_turn up to Boundary::ModelPrepared.
model_turn ==
    /\ At("model")
    /\ \E e \in {Gathered(eng)} : \E x \in Externally(e) : \E c \in {compact_local(x, FALSE)} :
          IF e.turns >= e.max \/ BadlyCompacted(e, x) \/ CompactionFails(x, c)
          THEN /\ Ends(IF e.turns >= e.max \/ BadlyCompacted(e, x) THEN e ELSE x, "failed")
               /\ env' = [env EXCEPT !.inbox = 0, !.staged = @ \cup News]
          ELSE /\ env' = [Delivered(env, env.staged \cup News) EXCEPT !.inbox = 0]
               /\ eng' = [c EXCEPT !.phase = "attempt", !.attempt = 0,
                                   !.index = FirstModel(c), !.asked = FirstModel(c)]
               /\ UNCHANGED <<conv, outcome>>

(***************************************************************************)
(* The attempts of model_response.                                         *)
(***************************************************************************)
\* Fault: only the first attempt of a request counts.
AttemptUncounted(e) ==
    [e EXCEPT !.phase = "waiting", !.asked = e.index, !.turns = IF e.attempt = 0 THEN @ + 1 ELSE @]

\* The request of one attempt: it costs a turn.
Attempt(e) == [e EXCEPT !.phase = "waiting", !.asked = e.index, !.turns = @ + 1]

\* An attempt starts; a request for another model is compacted again.
ModelAttempt ==
    /\ At("attempt")
    /\ \E c \in {IF eng.asked # eng.index THEN compact_local(eng, FALSE) ELSE eng} :
          IF eng.turns >= eng.max \/ CompactionFails(eng, c) THEN Failed(eng) ELSE Continues(Attempt(c))

\* select! prefers the message for a child, as long as nothing was visible.
Interrupted == eng.phase = "waiting" /\ env.inbox > 0

Interrupt ==
    /\ At("waiting") /\ Interrupted
    /\ Continues([eng EXCEPT !.phase = "model"])

\* model_attempt: the first event of a stream commits the attempt.
Visible ==
    /\ At("waiting") /\ ~Interrupted /\ eng.stream
    /\ Continues([eng EXCEPT !.phase = "visible"])

NewIds(e) == {id \in Ids : id \notin IdsOf(e.history, "call")}

\* The lowest free ids: which ones a provider takes makes no difference.
FreshCalls(e, n) ==
    LET ids == Pick([i \in Ids |-> i], NewIds(e))
    IN  IF Len(ids) < n THEN {}
        ELSE {[k \in 1..n |-> [id |-> ids[k], tool |-> tools[k]]] :
                 tools \in [1..n -> e.cfg.tools]}

CallSets(e) == UNION {FreshCalls(e, n) : n \in 1..MaxCalls}

CallItems(calls) == [k \in DOMAIN calls |-> Item("call", calls[k].id, calls[k].tool, 0)]

\* A stream that fails after its first event leaves what it had said: text,
\* finished items, or a whole response followed by another event.
StreamBreaks ==
    /\ At("visible")
    /\ \E items \in {<<>>, <<Message("assistant")>>} \cup {CallItems(c) : c \in FreshCalls(eng, 1)} :
          Failed(AppendAll(eng, items))

HasFallback(e) == e.index < e.cfg.fallbacks

\* The count of attempts, as far as the retry rules tell them apart.
NextAttempt(n) == MinOf(n + 1, MaxOf(MaxRetries, AdvisedRetries))

\* What model_response does about an error that committed nothing.
RetryAllowed(e, kind) ==
    \/ e.attempt < MaxRetries /\ kind \in {"idle", "provider", "length"}
    \/ kind \in {"limit", "advised"} /\ e.attempt < AdvisedRetries

\* A context-length error is answered by a smaller history where there is one.
Shortens(kind, c) == kind = "length" /\ c.history # eng.history

\* The error handler decides, or the retry policy and the provider's advice.
AfterError(kind) ==
    CASE kind \in {"idle", "limit"} /\ HasFallback(eng) ->
           Continues([eng EXCEPT !.phase = "attempt", !.index = @ + 1, !.attempt = NextAttempt(@),
                                 !.fallback = [index |-> eng.index + 1, successes |-> 0]])
      [] OTHER ->
           \E next \in {CASE eng.cfg.handler = "retry" -> "attempt"
                          [] eng.cfg.handler = "none" /\ RetryAllowed(eng, kind) -> "backoff"
                          [] OTHER -> "fails"} :
              IF next = "fails" THEN Failed(eng)
              ELSE Continues([eng EXCEPT !.phase = next, !.attempt = NextAttempt(@)])

ModelError ==
    /\ At("waiting") /\ ~Interrupted
    /\ \E kind \in eng.cfg.errors : \E c \in {compact_local(eng, TRUE)} :
          IF ~Shortens(kind, c) THEN AfterError(kind)
          ELSE IF CompactionFails(eng, c) THEN Failed(eng)
          ELSE Continues([c EXCEPT !.phase = "attempt"])

\* The backoff ends, or a message for the child cuts it short.
Backoff ==
    /\ At("backoff")
    /\ Continues([eng EXCEPT !.phase = IF env.inbox > 0 THEN "model" ELSE "attempt"])

\* The bookkeeping of an accepted response: calibration, the return to the
\* primary model, the items in history and published.
Accounted(e, items) ==
    LET back == e.fallback # None /\ e.fallback.successes + 1 = Reprobe
        count == IF e.fallback = None THEN None
                 ELSE [e.fallback EXCEPT !.successes = @ + 1]
    IN  {publish_committed(AppendAll(
            [e EXCEPT !.fallback = IF back THEN None ELSE count,
                      !.calibration = observe_estimate(@, r, 100)],
            items)) : r \in e.cfg.reports}

CanHandOff(e, call) == call.tool = "handoff" /\ e.agent = 1

\* The first handoff of a response goes before the other calls.
HandoffFirst(e, calls) ==
    LET at == {k \in DOMAIN calls : CanHandOff(e, calls[k])}
        first == CHOOSE k \in at : \A j \in at : k <= j
    IN  IF at = {} THEN calls ELSE <<calls[first]>> \o Pick(calls, DOMAIN calls \ {first})

\* The second half of model_turn, for a response of text, of calls, of a call
\* id the history already holds, or of an item no assistant may write.
ModelReplies ==
    /\ At("visible") \/ (At("waiting") /\ ~Interrupted /\ ~eng.stream)
    /\ \/ \E e \in Accounted(eng, <<Message("assistant")>>) :
             Continues([e EXCEPT !.phase = "candidate"])
       \/ \E e \in Accounted(eng, <<Message("assistant")>>) :
             Continues([e EXCEPT !.phase = "model", !.blocks = 0])
       \/ \E calls \in CallSets(eng) : \E e \in Accounted(eng, CallItems(calls)) :
             Continues([e EXCEPT !.phase = "tools", !.calls = HandoffFirst(e, calls),
                                 !.blocks = 0, !.toolTurn = <<>>, !.toolPause = FALSE,
                                 !.toolFinal = FALSE, !.prepared = FALSE, !.granted = {},
                                 !.ran = [id \in Ids |-> 0], !.approvals = <<>>])
       \/ \E id \in IdsOf(eng.history, "call") :
             \E e \in Accounted(eng, <<Item("call", id, "read", 0)>>) : Failed(e)
       \/ \E e \in Accounted(eng, <<Message("system")>>) : Failed(e)

(***************************************************************************)
(* Phase::Tools.                                                           *)
(***************************************************************************)
\* Engine::tool_decision = RequireApproval.
NeedsApproval(e, call) ==
    \/ call.tool = "guarded"
    \/ call.tool \in {"write", "handoff"} /\ e.cfg.approve /\ (call.tool = "write" \/ e.agent = 1)

Delegation == {"subagent", "subagent_wait"}
Tools == {"read", "write", "guarded"} \cup Delegation

Known(e, call) == call.tool \in Tools \/ CanHandOff(e, call)

CallsOf(calls, ids) == Pick(calls, {k \in DOMAIN calls : calls[k].id \in ids})

Without(f, ids) == [id \in DOMAIN f \ ids |-> f[id]]

\* prepare_tools: approvals are asked before anything runs; deferred calls are
\* set aside with the place their marker will have once the others have run.
Asked(e) ==
    {c.id : c \in {d \in Range(e.calls) : NeedsApproval(e, d) /\ d.tool # "handoff"}}

\* The place of a deferred call: after the results of the calls before it that run.
MarkerPlace(calls, call, deferred) ==
    Cardinality({k \in DOMAIN calls : /\ calls[k].id \notin deferred
                                      /\ \E j \in DOMAIN calls : k < j /\ calls[j] = call})

Deferral(e, call, deferred) ==
    [marker |-> Marker(call.id, "pending", e.agent),
     new |-> e.new + MarkerPlace(e.calls, call, deferred),
     at |-> Len(e.history) + MarkerPlace(e.calls, call, deferred)]

Prepared(e, decisions, later, deferred) ==
    [e EXCEPT !.prepared = TRUE, !.calls = CallsOf(@, Ids \ deferred),
              !.deferred = @ \o later, !.pending = deferred,
              !.approvals = Without(decisions, deferred),
              !.deferrals = @ \o [k \in DOMAIN later |-> Deferral(e, later[k], deferred)]]

PrepareTools ==
    /\ At("tools") /\ ~eng.go /\ ~eng.prepared
    /\ IF eng.calls # <<>> /\ CanHandOff(eng, Head(eng.calls))
       THEN Continues([eng EXCEPT !.prepared = TRUE])
       ELSE \E given \in [Asked(eng) \ DOMAIN eng.approvals -> {"approve", "deny", "defer"}] :
            \E decisions \in {given @@ eng.approvals} :
            \E deferred \in {{id \in Asked(eng) : decisions[id] = "defer"}} :
               Continues([Prepared(eng, decisions,
                                   CallsOf(eng.calls, deferred), deferred)
                            EXCEPT !.granted = @ \cup {id \in DOMAIN given : given[id] = "approve"}])

Unspilled(e, id, out) ==
    append(e, Item("result", id, IF out \in {"long", "media"} THEN out ELSE "text", 0))

\* OutputPolicy::process and spill: a long output is cut, and kept in a file
\* whose name stands in the result.
Processed(e, id, out) ==
    LET file == env.spilled + Cardinality(e.spills \ eng.spills) + 1
    IN  IF out = "long" /\ file <= MaxSpills
        THEN [append(e, Item("result", id, "long", file)) EXCEPT !.spills = @ \cup {file}]
        ELSE Unspilled(e, id, out)

\* finish_tool.
finish_tool(e, id, out) ==
    [Processed(e, id, out) EXCEPT
        !.calls = CallsOf(@, Ids \ {id}), !.approvals = Without(@, {id}),
        !.toolPause = @ \/ out = "pause", !.toolFinal = @ \/ out # "withheld",
        !.toolTurn = IF @ = None THEN @ ELSE Append(@, out \in {"error", "withheld"}),
        !.running = @ \ {id}]

Spilled(e, after) == [after EXCEPT !.spilled = @ + Cardinality(e.spills \ eng.spills)]

\* Fault: a batch takes calls that have to be approved.
BatchOfAny(e) == Len(e.calls) > 1 /\ \A k \in DOMAIN e.calls : Known(e, e.calls[k])

\* parallel_batch_ready.
parallel_batch_ready(e) ==
    /\ Len(e.calls) > 1
    /\ \A k \in DOMAIN e.calls : e.calls[k].tool \in Tools
                                 /\ ~NeedsApproval(e, e.calls[k])

ToBatch ==
    /\ At("tools") /\ ~eng.go /\ eng.prepared /\ parallel_batch_ready(eng)
    /\ Continues([eng EXCEPT !.phase = "batch"])

ToolOf(e, id) == (CHOOSE c \in Range(e.calls) : c.id = id).tool

\* The lock of tool_batch: readers share it, a mutation has it alone.
MayStart(e, call) ==
    /\ call.id \notin e.running \cup DOMAIN e.outputs
    /\ IF call.tool = "read" THEN \A id \in e.running : ToolOf(e, id) = "read"
       ELSE e.running = {}

\* execute_tool of a member of the batch starts, and returns.
BatchStarts ==
    /\ At("batch")
    /\ \E k \in DOMAIN eng.calls :
          /\ MayStart(eng, eng.calls[k])
          /\ Continues([eng EXCEPT !.running = @ \cup {eng.calls[k].id},
                                   !.ran[eng.calls[k].id] = @ + 1])

\* What a tool of the session does before it returns: subagent submits a task, up
\* to the bound, subagent_wait tells the results there are when all are there or
\* it times out.
Reported(tool, out) == IF tool = "subagent_wait" /\ out # "error" THEN News ELSE {}

Delegates(tool, out) ==
    LET free == {id \in 1..Children : env.tasks[id].status = "absent"}
    IN  IF tool = "subagent" /\ out # "error" /\ free # {}
        THEN [env EXCEPT !.tasks[First(free)] = TaskRecord("running", 0)]
        ELSE [env EXCEPT !.staged = @ \cup Reported(tool, out)]

Output(outputs, id, out) ==
    [i \in DOMAIN outputs \cup {id} |-> IF i = id THEN out ELSE outputs[i]]

BatchReturns ==
    /\ At("batch")
    /\ \E id \in eng.running, out \in eng.cfg.outputs \cup {"lost"} :
          IF out = "lost"
          THEN Continues([eng EXCEPT !.running = @ \ {id}, !.outputs = Output(@, id, out)])
          ELSE /\ env' = Delegates(ToolOf(eng, id), out)
               /\ eng' = [Hears(eng, Reported(ToolOf(eng, id), out)) EXCEPT
                             !.running = @ \ {id}, !.outputs = Output(@, id, out)]
               /\ UNCHANGED <<conv, outcome>>

\* tool_batch after join_all: results in the order of the calls, the first
\* failure last; a call whose execution was lost gets no result.
Finished(e, id, out) ==
    IF out = "lost" THEN [e EXCEPT !.calls = CallsOf(@, Ids \ {id})]
    ELSE finish_tool(e, id, out)

FinishedAll(e) ==
    LET done[n \in 0..Len(e.calls)] ==
          IF n = 0 THEN [e EXCEPT !.outputs = <<>>, !.phase = "tools"]
          ELSE Finished(done[n - 1], e.calls[n].id, e.outputs[e.calls[n].id])
    IN  done[Len(e.calls)]

BatchEnds ==
    /\ At("batch") /\ DOMAIN eng.outputs = {c.id : c \in Range(eng.calls)}
    /\ \E e \in {FinishedAll(eng)} :
          /\ env' = Spilled(e, Delivered(env, env.staged))
          /\ IF Range(eng.outputs) \cap {"lost", "withheld"} # {} THEN Ends(e, "failed")
             ELSE eng' = e /\ UNCHANGED <<conv, outcome>>

\* The handoff of tool(): the other calls of the response are answered without
\* being run, in the order of the response.
SkippedAnswer(e, item) ==
    Item(IF item.id = Head(e.calls).id THEN "handoff" ELSE "result", item.id, "text", 0)

SkippedAnswers(e) ==
    LET open == Pick(e.history, {i \in DOMAIN e.history :
                    e.history[i].kind = "call" /\ \E c \in Range(e.calls) : c.id = e.history[i].id})
    IN  [k \in DOMAIN open |-> SkippedAnswer(e, open[k])]

HandsOff(e) ==
    publish_committed(
      [AppendAll(e, SkippedAnswers(e)) EXCEPT
         !.calls = <<>>, !.toolTurn = None, !.agent = 2, !.phase = "model",
         !.left = @ \/ e.deferred # <<>>])

\* The rest of tool() once the call may run.
Runs(e) ==
    IF CanHandOff(e, Head(e.calls)) THEN HandsOff(e)
    ELSE [e EXCEPT !.phase = "executing", !.running = {Head(e.calls).id},
                   !.ran[Head(e.calls).id] = @ + 1]

\* tool() for the first call, with the decision about it if one is needed.
MarkerPhase == [approve |-> "approved", deny |-> "denied", defer |-> "pending"]

DecidedOn(e, call, decision) ==
    [Marked(e, Marker(call.id, MarkerPhase[decision], 0), e.new, Len(e.history)) EXCEPT
        !.approvals = Without(@, {call.id}),
        !.pending = IF decision = "defer" THEN {call.id} ELSE @ \ {call.id},
        !.granted = IF decision = "approve" THEN @ \cup {call.id} ELSE @]

Denied(e, id) ==
    [append(e, Item("result", id, "text", 0)) EXCEPT
        !.calls = Tail(@), !.toolTurn = IF @ = None THEN @ ELSE Append(@, TRUE)]

Tool(decision) ==
    \E call \in {Head(eng.calls)} :
        IF ~Known(eng, call) THEN Continues(finish_tool(eng, call.id, "error"))
        ELSE IF ~NeedsApproval(eng, call) THEN Continues(Runs(eng))
        ELSE \E e \in {DecidedOn(eng, call, decision)} :
               IF decision = "defer"
               THEN Ends(publish_committed(e), "paused") /\ UNCHANGED env
               ELSE Continues(IF decision = "approve" THEN Runs(e) ELSE Denied(e, call.id))

\* One call outside a batch. A decision made before is used, else the host is asked.
ToolAlone ==
    /\ At("tools") /\ ~eng.go /\ eng.prepared /\ ~parallel_batch_ready(eng) /\ eng.calls # <<>>
    /\ IF Head(eng.calls).id \in DOMAIN eng.approvals
       THEN Tool(eng.approvals[Head(eng.calls).id])
       ELSE \E decision \in {"approve", "deny", "defer"} : Tool(decision)

\* resume_go_gate: the gate decides about one pending call, which then runs.
GoGate ==
    /\ At("tools") /\ eng.go /\ eng.calls # <<>>
    /\ IF Head(eng.calls).id \notin eng.pending THEN Failed(eng)
       ELSE \E decision \in {"approve", "deny"} : Tool(decision)

\* After the last pending call the invocation gets a new budget.
GoGateEnds ==
    /\ Active /\ eng.go /\ eng.calls = <<>> /\ eng.phase \in {"tools", "model"}
    /\ Continues([eng EXCEPT !.go = FALSE, !.turns = 0, !.max = eng.cfg.turns, !.blocks = 0,
                             !.streak = 0, !.escalated = FALSE, !.fallback = None,
                             !.calibration = 100, !.toolFinal = FALSE])

\* execute_tool returns.
ToolReturns ==
    /\ At("executing")
    /\ \E out \in eng.cfg.outputs :
          LET call == Head(eng.calls)
              e == [Hears(finish_tool(eng, call.id, out), Reported(call.tool, out)) EXCEPT
                      !.phase = "tools"]
          IN  /\ \E after \in {Delegates(call.tool, out)} :
                    env' = Spilled(e, IF out = "withheld" THEN after ELSE Delivered(after, after.staged))
              /\ IF out = "withheld" THEN Ends(e, "failed")
                 ELSE eng' = e /\ UNCHANGED <<conv, outcome>>

\* ToolUseBehavior::StopAfterTool with return_tool_output.
StopsHere(e) == e.cfg.stop /\ e.toolFinal

Supervised(e) == e.cfg.children \/ e.cfg.owner = "child"

Deferring(e) ==
    [e EXCEPT !.calls = e.deferred, !.deferred = <<>>,
              !.entries = @ \o e.deferrals, !.deferrals = <<>>]

\* The end of a tool turn: a pause for the deferred calls, the last output as
\* the answer, the next request, or a pause a tool asked for.
ToolsDone ==
    /\ At("tools") /\ ~eng.go /\ eng.prepared /\ eng.calls = <<>>
    /\ \E settled \in {settle_tool_turn(eng)} :
          IF eng.deferred # <<>> \/ (eng.toolPause /\ ~StopsHere(eng))
          THEN /\ Ends(publish_committed(IF eng.deferred # <<>> THEN Deferring(settled)
                         ELSE [settled EXCEPT !.phase = "model", !.toolPause = FALSE]), "paused")
               /\ UNCHANGED env
          ELSE Continues([settled EXCEPT !.toolFinal = @ /\ ~StopsHere(eng),
                            !.phase = CASE ~StopsHere(eng) -> "model"
                                        [] StopsHere(eng) /\ Supervised(eng) -> "candidate"
                                        [] OTHER -> "finish"])

(***************************************************************************)
(* finish_candidate and the end.                                           *)
(***************************************************************************)
Extended(e) == [e EXCEPT !.max = IF e.turns >= @ THEN @ + 1 ELSE @, !.phase = "model"]

\* The gate sends the answer back; a run out of turns gets one more.
Blocked(e) == append(Extended([e EXCEPT !.blocks = @ + 1]), Message("note"))

\* SubagentSession::join: an answer waits for all of the children, and is not the
\* last one if they have something to tell.
ToJoin == IF eng.cfg.children THEN join_ids(env.tasks, env.staged, 0) ELSE {}

finish_candidate ==
    /\ At("candidate")
    /\ \/ /\ env.inbox > 0
          /\ eng' = [publish_committed(Told(eng, env.inbox)) EXCEPT !.phase = "model"]
          /\ env' = [env EXCEPT !.inbox = 0]
          /\ UNCHANGED <<conv, outcome>>
       \/ /\ env.inbox = 0 /\ ToJoin # {}
          /\ IF JoinRefused(env.tasks, ToJoin) THEN Failed(eng)
             ELSE Continues([eng EXCEPT !.phase = "joining"])
       \/ /\ env.inbox = 0 /\ ToJoin = {}
          /\ \/ eng.cfg.gate /\ eng.blocks < MaxBlocks /\ Continues(Blocked(eng))
             \/ Continues([eng EXCEPT !.phase = "closing",
                             !.blocks = IF eng.cfg.gate /\ @ < MaxBlocks THEN 0 ELSE @])

Joins ==
    /\ At("joining") /\ JoinOver(env.tasks, ToJoin)
    /\ eng' = Collected(Extended(eng))
    /\ env' = [env EXCEPT !.staged = @ \cup News]
    /\ UNCHANGED <<conv, outcome>>

\* apply_child_messages(true): take what has come in, or take nothing more.
Closes(e) ==
    IF env.inbox > 0 THEN [publish_committed(Told(e, env.inbox)) EXCEPT !.phase = "model"]
    ELSE [e EXCEPT !.phase = "finish"]

\* Fault: the run is finished without a last look at its messages.
ClosesBlindly ==
    /\ At("closing")
    /\ eng' = [eng EXCEPT !.phase = "finish"]
    /\ env' = [env EXCEPT !.closed = TRUE]
    /\ UNCHANGED <<conv, outcome>>

Closing ==
    /\ At("closing")
    /\ eng' = Closes(eng)
    /\ env' = [env EXCEPT !.inbox = 0, !.closed = @ \/ env.inbox = 0]
    /\ UNCHANGED <<conv, outcome>>

Finish == At("finish") /\ Ends(publish_committed(eng), "completed") /\ UNCHANGED env

(***************************************************************************)
(* The scheduler's side of a child, and of the children of a run.          *)
(***************************************************************************)
Steer ==
    /\ eng.phase # "idle" /\ eng.cfg.owner = "child" /\ ~env.closed /\ env.steered < MaxSteering
    /\ env' = [env EXCEPT !.inbox = @ + 1, !.steered = @ + 1]
    /\ UNCHANGED <<conv, eng, outcome>>

\* A child ends, or completes with a message left, which the host has to settle.
ChildDone ==
    /\ \E id \in 1..Children, status \in {"completed", "reconciling"} :
          /\ env.tasks[id].status = "running"
          /\ env' = [env EXCEPT !.tasks[id].status = status]
    /\ UNCHANGED <<conv, eng, outcome>>

Reconcile ==
    /\ \E id \in 1..Children :
          /\ env.tasks[id].status = "reconciling"
          /\ env' = [env EXCEPT !.tasks[id].status = "completed"]
    /\ UNCHANGED <<conv, eng, outcome>>

\* What the engine does by itself and what answers it.
Step ==
    \/ Start \/ model_turn \/ ModelAttempt \/ Interrupt \/ Visible \/ StreamBreaks
    \/ ModelError \/ Backoff \/ ModelReplies
    \/ PrepareTools \/ ToBatch \/ BatchStarts \/ BatchReturns \/ BatchEnds
    \/ ToolAlone \/ GoGate \/ GoGateEnds \/ ToolReturns \/ ToolsDone
    \/ finish_candidate \/ Joins \/ Closing \/ Finish

Next ==
    \/ Step \/ ChildDone \/ Reconcile \/ Steer
    \/ ConversationRun \/ HostRun \/ Accept \/ Resume \/ ResumeInvalid \/ ResumeGoGate
    \/ Dropped \/ Fails

Spec == Init /\ [][Next]_vars

\* An active run has a step to take, except while it joins its children.
CanStep == Active /\ (eng.phase = "joining" => JoinOver(env.tasks, ToJoin))

\* Models, tools, hosts and children answer in the end: attempts and tools are
\* bounded by timeouts, the scheduler ends every child, and the host settles the
\* ones it has to. The first fairness is
\* WF_vars(Step) with the condition that enables Step written out.
FairSpec ==
    /\ Spec
    /\ []<>(~CanStep) \/ []<><<Step>>_vars
    /\ WF_vars(ChildDone) /\ WF_vars(Reconcile)

(***************************************************************************)
(* Properties.                                                             *)
(***************************************************************************)
HandedOff(history) == \E i \in DOMAIN history : history[i].kind = "handoff"

(* The history a model is asked with pairs every call with one later answer,    *)
(* unless a handoff has left deferred calls behind.                             *)
PairsAsked == At("waiting") /\ ~eng.left => PairsWhole(eng.history)

(* Compacting that history again, as the budget or a context-length error asks  *)
(* for, keeps it so as long as no handoff is in it.                             *)
PairsKept ==
    At("waiting") /\ ~HandedOff(eng.history) =>
        \A forced \in BOOLEAN : ~CompactionFails(eng, compact_local(eng, forced))

(* A marker stands between its call and the answer to it, and is never placed   *)
(* behind what has been published.                                              *)
MarkersPlaced ==
    eng.phase # "idle" =>
        \A k \in DOMAIN eng.entries :
            /\ eng.entries[k].at # None => \E i \in 1..eng.entries[k].at :
                 /\ eng.history[i].kind = "call" /\ eng.history[i].id = eng.entries[k].marker.id
                 /\ \A j \in i + 1..eng.entries[k].at :
                       ~(Resolves(eng.history[j]) /\ eng.history[j].id = eng.history[i].id)
            /\ k > eng.published => eng.entries[k].new >= eng.committed

(* Whatever a run has been through, deferred and denied calls, handoffs, broken *)
(* batches, steering and earlier compactions, the history a model is asked with *)
(* pairs every call with one later answer (validate_history_pairs), unless a    *)
(* handoff has left deferred calls behind; and an                               *)
(* approval marker stays between its call and the answer to it across pauses,   *)
(* resumes and both ways of compacting ("late approval marker behind committed  *)
(* cursor" is never returned by publish_committed).                             *)
HistoryWhole == PairsAsked /\ PairsKept /\ MarkersPlaced

(* No call runs twice, through pauses, resumes, gates and handoffs, unless one  *)
(* of them has left deferred calls behind, whose ids may then come again; a     *)
(* call that has to be approved runs only once somebody approved that call; and *)
(* a tool that is not read-only runs alone (tool_batch's lock).                 *)
ToolsSafe ==
    Active =>
        /\ eng.left \/ \A id \in Ids : eng.ran[id] <= 1
        /\ \A id \in eng.running :
              /\ \A c \in Range(eng.calls) :
                    c.id = id /\ NeedsApproval(eng, c) => id \in eng.granted
              /\ ToolOf(eng, id) # "read" => eng.running = {id}

(* A spilled output that a history names still has an owner: the conversation   *)
(* keeps the spills of every run it adopts, failed, paused and resumed ones too *)
(* (FailedSpills), so no model is pointed at a file that has been removed.      *)
SpillsAlive ==
    /\ Refers(conv.history) \subseteq conv.spills
    /\ outcome # None => Refers(outcome.history) \subseteq conv.spills \cup outcome.spills

(* No run is told a child's result twice, whether it waited for it, collected   *)
(* it or joined it (staged_delivery); what it was told in a run that failed     *)
(* before a checkpoint is told again.                                           *)
ToldOnce == eng.phase # "idle" => \A id \in 1..Children : eng.told[id] <= 1

(* A finished run has answered everything it was told: no message of its owner, *)
(* or that steered it while it ran, is left in its queue or stands in its       *)
(* history after the last thing the model or a tool said; none of its children  *)
(* is at work, and it was told what they found, once.                           *)
AnswersLast ==
    /\ ToldOnce
    /\ At("finish") =>
        /\ env.inbox = 0
        /\ eng.cfg.children => \A id \in visible(env.tasks, 0) :
              env.tasks[id].status \in TaskOver /\ id \in env.staged \cup
                {t \in 1..Children : env.tasks[t].delivered}
        /\ \A i \in DOMAIN eng.history : eng.history[i].kind = "user" =>
              \E j \in i + 1..Len(eng.history) : eng.history[j].kind \in {"assistant", "result"}

(* Every run ends or pauses: retries, fallbacks, forced compactions, blocked    *)
(* answers and steering all draw on a bounded number of turns.                  *)
RunEnds == Active ~> ~Active

(* Compaction never separates a call from what answered it, a handoff included: *)
(* "native handoffs are protected verbatim" and both partners of a pair are     *)
(* preserved (docs/local-compaction.md).                                        *)
CompactionKeepsPairs == At("waiting") => PairsWhole(compact_local(eng, TRUE).history)
=============================================================================

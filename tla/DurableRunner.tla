----------------------------- MODULE DurableRunner -----------------------------
(***************************************************************************)
(* The durable runner: Runner::run_durable, StoredCheckpointStore and the  *)
(* durable path of the engine's loop (crates/adk-runtime/src/durable.rs    *)
(* and runner.rs), for one run.                                            *)
(*                                                                         *)
(* Workers are processes that may each open the run, drive it, fail and    *)
(* crash, in any order and at the same time.  They share only the stored   *)
(* run.  The engine commits a checkpoint at every boundary; a model        *)
(* request and a tool execution happen only between the commit of the      *)
(* dispatched boundary and the commit of the completed one.  An action     *)
(* that names a boundary is what the engine does up to that commit and the *)
(* commit itself; Persist is the commit with all its outcomes.             *)
(*                                                                         *)
(* The store is the RunLedger promise: append is one atomic step guarded   *)
(* by the lease and the revision (FilesystemStore implements it).          *)
(***************************************************************************)
EXTENDS Integers, Sequences, FiniteSets

CONSTANTS
    Workers,      \* processes that may drive the run
    Calls,        \* tool call ids the model may use
    Guarded,      \* calls whose tool_decision is RequireApproval
    Unregistered, \* calls of tools that are unknown or denied by policy
    Handoffs,     \* calls that hand the conversation to another agent
    Replies,      \* the batches of calls a model response may hold
    MaxTurns,     \* policy.max_turns
    GateMax,      \* stop_gate_max_blocks, or 0 when there is no stop gate
    StopAfterTool,\* policy.tool_use = StopAfterTool
    MaxCounter,   \* the largest u64: checked_add refuses to count past it
    MaxTokens,    \* bound on the number of leases granted
    Attempts,     \* attempt ids
    NoCall,       \* no call
    NoCheckpoint, \* the run has no state yet
    Closed        \* no checkpoint store is open

ASSUME ConstantsAssumption ==
    /\ Guarded \subseteq Calls
    /\ Unregistered \subseteq Calls
    /\ Handoffs \subseteq Calls \ Unregistered
    /\ Replies \subseteq Seq(Calls) \ {<<>>}
    /\ MaxTurns \in Nat \ {0} /\ GateMax \in Nat /\ StopAfterTool \in BOOLEAN
    /\ MaxCounter \in Nat /\ MaxTokens \in Nat
    /\ Attempts # {} /\ NoCall \notin Calls

VARIABLES
    store,     \* the stored run: snapshot, event writers and lease
    grants,    \* number of leases granted so far
    held,      \* the lease token each worker's host holds
    session,   \* each worker's StoredSession
    at,        \* where in its code each engine is
    eng,       \* each engine's state, as a RuntimeCheckpoint would save it
    seqno,     \* DurableState.sequence of each engine
    attempt,   \* DurableState.attempt_id of each engine
    approvals, \* Engine.approvals: decisions given but not used yet
    performed, \* how often each tool call was really executed
    requests,  \* how often a model was really asked
    granted    \* calls the host or a continuation's caller approved

vars == <<store, grants, held, session, at, eng, seqno, attempt, approvals,
          performed, requests, granted>>
engineVars == <<at, eng, seqno, attempt, approvals>>
world == <<performed, requests, granted>>
hostVars == <<grants, held>>

NoToken == 0
Gate == GateMax > 0

Boundaries == {"run_started", "model_prepared", "model_dispatched", "model_completed",
               "tool_prepared", "tool_dispatched", "tool_completed", "approval_pending",
               "handoff_completed", "paused", "run_completed"}
Phases == {"Start", "Model", "Tools", "Finalize", "Finish"}
Points == {"idle", "advance", "model_ready", "model_dispatched", "model_sent", "asking",
           "approved", "tool_ready", "tool_dispatched", "tool_done", "deferring", "paused", "done"}
Decisions == {"none", "approve", "deny", "defer"}

Item == [kind : {"call", "result", "handoff"}, call : Calls]
Effect == [id : Nat, state : {"none", "prepared", "dispatched", "succeeded"}]
NoEffect == [id |-> 0, state |-> "none"]

(* RuntimeCheckpoint and the effect, as far as control depends on them.    *)
(* journal is the phase of the last marker of each call.                   *)
Runtime == [phase : Phases, calls : Seq(Calls), history : Seq(Item),
            turns : Nat, max_turns : Nat, blocks : Nat, tool_calls : Nat,
            pause : BOOLEAN, final : BOOLEAN, pending : Calls \cup {NoCall},
            journal : [Calls -> Decisions], agent : {"initial", "target"},
            effect : Effect]

(* RunnerCheckpoint.                                                       *)
Checkpoint == [sequence : Nat, attempt : Attempts, boundary : Boundaries, runtime : Runtime]

(* RunSnapshot with its effect ledger, the token that wrote each event,    *)
(* and the lease.                                                          *)
StoredRun == [revision : Nat, doc : Checkpoint \cup {NoCheckpoint},
              effects : SUBSET Effect, writers : Seq(Nat), token : Nat, live : BOOLEAN]

(* StoredSession: the lease and what the adapter uses of the snapshot it   *)
(* has last seen.  A poisoned session refuses everything, so it is Closed. *)
Session == [token : Nat, revision : Nat, sequence : Nat, tool_calls : Nat,
            effects : SUBSET Effect]

ASSUME NullAssumption == Closed \notin Session /\ NoCheckpoint \notin Checkpoint

(* Every variable has its type.                                            *)
TypeOK ==
    /\ store \in StoredRun
    /\ grants \in Nat
    /\ held \in [Workers -> Nat]
    /\ session \in [Workers -> Session \cup {Closed}]
    /\ at \in [Workers -> Points]
    /\ eng \in [Workers -> Runtime]
    /\ seqno \in [Workers -> Nat]
    /\ attempt \in [Workers -> Attempts]
    /\ approvals \in [Workers -> [Calls -> Decisions]]
    /\ performed \in [Calls -> Nat]
    /\ requests \in Nat
    /\ granted \in SUBSET Calls

NoDecisions == [c \in Calls |-> "none"]

(* Engine::new: nothing has happened.                                      *)
FreshRuntime == [phase |-> "Start", calls |-> <<>>, history |-> <<>>,
                 turns |-> 0, max_turns |-> MaxTurns, blocks |-> 0, tool_calls |-> 0,
                 pause |-> FALSE, final |-> FALSE, pending |-> NoCall,
                 journal |-> NoDecisions, agent |-> "initial", effect |-> NoEffect]

Init ==
    /\ store = [revision |-> 0, doc |-> NoCheckpoint, effects |-> {}, writers |-> <<>>,
                token |-> NoToken, live |-> FALSE]
    /\ grants = 0
    /\ held = [w \in Workers |-> NoToken]
    /\ session = [w \in Workers |-> Closed]
    /\ at = [w \in Workers |-> "idle"]
    /\ eng = [w \in Workers |-> FreshRuntime]
    /\ seqno = [w \in Workers |-> 0]
    /\ attempt = [w \in Workers |-> CHOOSE a \in Attempts : TRUE]
    /\ approvals = [w \in Workers |-> NoDecisions]
    /\ performed = [c \in Calls |-> 0]
    /\ requests = 0
    /\ granted = {}

--------------------------------------------------------------------------------
(* The stored run and its adapter.                                         *)

(* A call is unresolved from its ToolCall item to its result or handoff.   *)
Resolved(history) == {history[i].call : i \in {j \in DOMAIN history : history[j].kind # "call"}}
Called(history) == {history[i].call : i \in {j \in DOMAIN history : history[j].kind = "call"}}

(* The effect was handed to the outside and its outcome is not recorded.   *)
outcome_unknown(effect) == effect.state = "dispatched"

SequenceOf(doc) == IF doc = NoCheckpoint THEN 0 ELSE doc.sequence
ToolCallsOf(doc) == IF doc = NoCheckpoint THEN 0 ELSE doc.runtime.tool_calls

(* The effect ledger with one effect inserted or replaced by its id.       *)
WithEffect(effects, effect) ==
    IF effect = NoEffect THEN effects
    ELSE {e \in effects : e.id # effect.id} \cup {effect}

(* Fault: the store neither compares tokens nor revisions.                 *)
append_unfenced(s, ck) ==
    /\ ck.sequence = s.sequence + 1
    /\ s.revision < MaxCounter
    /\ ck.runtime.tool_calls >= s.tool_calls

(* StoredCheckpointStore::persist up to RunStore::append, whose checks are *)
(* the lease and the expected revision.                                    *)
Accepts(s, ck) ==
    /\ ck.sequence = s.sequence + 1
    /\ s.revision < MaxCounter
    /\ ck.runtime.tool_calls >= s.tool_calls
    /\ store.token = s.token /\ store.live
    /\ store.revision = s.revision

Committed(s, ck) ==
    [store EXCEPT !.revision = s.revision + 1, !.doc = ck,
                  !.effects = WithEffect(s.effects, ck.runtime.effect),
                  !.writers = Append(@, s.token)]

(* The engine is gone, and the session it wrote through is closed.         *)
EngineGone(w) ==
    /\ session' = [session EXCEPT ![w] = Closed]
    /\ at' = [at EXCEPT ![w] = "idle"]
    /\ eng' = [eng EXCEPT ![w] = FreshRuntime]
    /\ seqno' = [seqno EXCEPT ![w] = 0]
    /\ attempt' = [attempt EXCEPT ![w] = CHOOSE a \in Attempts : TRUE]
    /\ approvals' = [approvals EXCEPT ![w] = NoDecisions]

(* Engine w goes on at `point` with state `rt`.                            *)
GoOn(w, point, rt) ==
    /\ at' = [at EXCEPT ![w] = point]
    /\ eng' = [eng EXCEPT ![w] = rt]
    /\ UNCHANGED attempt

(* persist_boundary: `saved` is committed at boundary b and the engine     *)
(* goes on with `rt`; or the commit is not acknowledged (an ambiguous      *)
(* write, a redaction, a cancelled context), or is refused.  In both of    *)
(* these cases the session is closed for good and the engine stops.        *)
Persist(w, b, saved, point, rt) ==
    LET s == session[w]
        ck == [sequence |-> seqno[w] + 1, attempt |-> attempt[w],
               boundary |-> b, runtime |-> saved]
    IN \/ /\ Accepts(s, ck)
          /\ store' = Committed(s, ck)
          /\ session' = [session EXCEPT ![w] =
                [token |-> s.token, revision |-> s.revision + 1, sequence |-> ck.sequence,
                 tool_calls |-> saved.tool_calls,
                 effects |-> WithEffect(s.effects, saved.effect)]]
          /\ seqno' = [seqno EXCEPT ![w] = seqno[w] + 1]
          /\ UNCHANGED approvals
          /\ GoOn(w, point, rt)
       \/ /\ Accepts(s, ck)
          /\ store' = Committed(s, ck)
          /\ EngineGone(w)
       \/ EngineGone(w) /\ UNCHANGED store

Local(w, point, rt) ==
    /\ GoOn(w, point, rt)
    /\ UNCHANGED <<store, session, seqno>>

--------------------------------------------------------------------------------
(* Starting and recovering.                                                *)

(* RunStore::acquire_lease by the host: the lease is free or has expired.  *)
AcquireLease(w) ==
    /\ store.token = NoToken \/ ~store.live
    /\ grants < MaxTokens
    /\ grants' = grants + 1
    /\ held' = [held EXCEPT ![w] = grants']
    /\ store' = [store EXCEPT !.token = grants', !.live = TRUE]
    /\ UNCHANGED <<session, engineVars, world>>

(* The host that holds the lease releases it.                              *)
ReleaseLease(w) ==
    /\ held[w] # NoToken /\ store.token = held[w]
    /\ held' = [held EXCEPT ![w] = NoToken]
    /\ store' = [store EXCEPT !.token = NoToken, !.live = FALSE]
    /\ UNCHANGED <<grants, session, engineVars, world>>

(* The lease runs out before its holder is done.                           *)
LeaseExpires ==
    /\ store.token # NoToken /\ store.live
    /\ store' = [store EXCEPT !.live = FALSE]
    /\ UNCHANGED <<hostVars, session, engineVars, world>>

(* StoredCheckpointStore::open: any host with a lease, also a stale one;   *)
(* a run with an effect of unknown outcome is left to an operator.         *)
Open(w) ==
    /\ held[w] # NoToken /\ session[w] = Closed
    /\ \A e \in store.effects : ~outcome_unknown(e)
    /\ session' = [session EXCEPT ![w] =
          [token |-> held[w], revision |-> store.revision,
           sequence |-> SequenceOf(store.doc), tool_calls |-> ToolCallsOf(store.doc),
           effects |-> store.effects]]

(* The persisted history pairs every result with one earlier call and the  *)
(* queue holds exactly the calls without a result.                         *)
WellPaired(rt) ==
    /\ \A i, j \in DOMAIN rt.history :
          i # j /\ rt.history[i].kind = "call" /\ rt.history[j].kind = "call"
             => rt.history[i].call # rt.history[j].call
    /\ \A j \in DOMAIN rt.history : rt.history[j].kind # "call" =>
          /\ \E i \in 1..(j - 1) : rt.history[i] = [kind |-> "call", call |-> rt.history[j].call]
          /\ \A i \in 1..(j - 1) : rt.history[i].call = rt.history[j].call
                                      => rt.history[i].kind = "call"
    /\ LET unresolved == Called(rt.history) \ Resolved(rt.history)
       IN /\ Cardinality(unresolved) = Len(rt.calls)
          /\ {rt.calls[i] : i \in DOMAIN rt.calls} \subseteq unresolved
          /\ rt.phase # "Tools" => unresolved = {}

(* The checks of drive_durable on a checkpoint written under the same      *)
(* configuration and policy.                                               *)
Recoverable(ck) ==
    /\ ck.sequence > 0
    /\ ~outcome_unknown(ck.runtime.effect)
    /\ ck.boundary \notin {"model_dispatched", "tool_dispatched"}
    /\ ck.runtime.max_turns >= MaxTurns
    /\ ck.runtime.blocks <= GateMax
    /\ ~Gate => ck.runtime.max_turns = MaxTurns
    /\ WellPaired(ck.runtime)

(* The engine's state after recovery; run_started was saved before the     *)
(* phase changed.                                                          *)
Restored(ck) ==
    [ck.runtime EXCEPT !.phase = IF ck.boundary = "run_started" THEN "Model" ELSE @]

(* Decisions recovered from the journal for calls still in the queue.      *)
RestoredDecisions(rt) ==
    [c \in Calls |->
        IF /\ \E i \in DOMAIN rt.calls : rt.calls[i] = c
           /\ rt.journal[c] \in {"approve", "deny"}
        THEN rt.journal[c] ELSE "none"]

(* run_durable without a checkpoint to resume from, also on a run that has *)
(* one.                                                                    *)
StartFresh(w, a) ==
    /\ Open(w)
    /\ at' = [at EXCEPT ![w] = "advance"]
    /\ attempt' = [attempt EXCEPT ![w] = a]
    /\ UNCHANGED <<store, hostVars, eng, seqno, approvals, world>>

(* run_durable with resume.  A completed run returns its saved result and  *)
(* is not driven; one that waits for a decision comes back as a            *)
(* continuation.                                                           *)
Recover(w, a) ==
    /\ Open(w)
    /\ store.doc # NoCheckpoint
    /\ LET ck == store.doc
       IN /\ Recoverable(ck) /\ a # ck.attempt
          /\ ck.boundary # "run_completed"
          /\ at' = [at EXCEPT ![w] =
                IF ck.boundary \in {"approval_pending", "paused"} /\ ck.runtime.pending # NoCall
                THEN "paused" ELSE "advance"]
          /\ eng' = [eng EXCEPT ![w] = Restored(ck)]
          /\ seqno' = [seqno EXCEPT ![w] = ck.sequence]
          /\ attempt' = [attempt EXCEPT ![w] = a]
          /\ approvals' = [approvals EXCEPT ![w] = RestoredDecisions(ck.runtime)]
    /\ UNCHANGED <<store, hostVars, world>>

(* Continuation::resume: a pending approval takes a decision, a tool's     *)
(* pause takes none.  The continuation is used up.                         *)
ResumeContinuation(w) ==
    /\ at[w] = "paused"
    /\ at' = [at EXCEPT ![w] = "advance"]
    /\ \/ /\ eng[w].pending = NoCall
          /\ approvals' = [approvals EXCEPT ![w] = NoDecisions]
          /\ UNCHANGED granted
       \/ /\ eng[w].pending # NoCall
          /\ \E d \in {"approve", "deny", "defer"} :
                /\ approvals' = [approvals EXCEPT ![w] = [NoDecisions EXCEPT ![eng[w].pending] = d]]
                /\ granted' = IF d = "approve" THEN granted \cup {eng[w].pending} ELSE granted
    /\ UNCHANGED <<store, hostVars, session, eng, seqno, attempt, performed, requests>>

(* The engine returns an outcome or an error, is dropped with its stream   *)
(* or continuation, or its context is cancelled outside a commit.          *)
EngineReturns(w) ==
    /\ at[w] # "idle"
    /\ EngineGone(w)
    /\ UNCHANGED <<store, hostVars, world>>

(* The process dies.                                                       *)
Crash(w) ==
    /\ held[w] # NoToken
    /\ EngineGone(w)
    /\ held' = [held EXCEPT ![w] = NoToken]
    /\ UNCHANGED <<store, grants, world>>

--------------------------------------------------------------------------------
(* The engine's loop: Engine::advance.                                     *)

In(w, point, phase) == at[w] = point /\ eng[w].phase = phase

(* Phase::Start: the checkpoint is taken before the phase changes.         *)
Start(w) ==
    /\ In(w, "advance", "Start")
    /\ Persist(w, "run_started", eng[w], "advance", [eng[w] EXCEPT !.phase = "Model"])
    /\ UNCHANGED <<hostVars, world>>

(* Fault: every prepared boundary makes a new effect.                      *)
prepared_anew(rt, id) == [rt EXCEPT !.effect = [id |-> id, state |-> "prepared"]]

(* persist_boundary at a prepared boundary: an intent that is already      *)
(* prepared keeps its identity and idempotency key.                        *)
Prepared(rt, id) ==
    IF rt.effect.state = "prepared" THEN rt
    ELSE [rt EXCEPT !.effect = [id |-> id, state |-> "prepared"]]

(* transition_effect keeps the effect's identity.                          *)
WithEffectState(rt, state) == [rt EXCEPT !.effect = [id |-> rt.effect.id, state |-> state]]

Succeeded(rt) ==
    IF rt.effect.state = "dispatched" THEN WithEffectState(rt, "succeeded") ELSE rt

ModelDispatched(rt) == [WithEffectState(rt, "dispatched") EXCEPT !.turns = @ + 1]
ToolDispatched(rt) == [WithEffectState(rt, "dispatched") EXCEPT !.tool_calls = @ + 1]

(* model_turn up to ModelPrepared.                                         *)
PrepareModel(w) ==
    /\ In(w, "advance", "Model")
    /\ eng[w].turns < eng[w].max_turns
    /\ LET rt == Prepared(eng[w], seqno[w] + 1)
       IN Persist(w, "model_prepared", rt, "model_ready", rt)
    /\ UNCHANGED <<hostVars, world>>

(* The turn limit is an error.                                             *)
TurnsExhausted(w) ==
    /\ In(w, "advance", "Model")
    /\ eng[w].turns >= eng[w].max_turns
    /\ EngineGone(w)
    /\ UNCHANGED <<store, hostVars, world>>

(* Fault: the dispatch is not recorded.                                    *)
DispatchModel_unlogged(w) ==
    /\ at[w] = "model_ready"
    /\ Local(w, "model_dispatched", ModelDispatched(eng[w]))
    /\ UNCHANGED <<approvals, hostVars, world>>

(* model_response up to ModelDispatched: the attempt is counted first.     *)
DispatchModel(w) ==
    /\ at[w] = "model_ready"
    /\ eng[w].turns < eng[w].max_turns
    /\ LET rt == ModelDispatched(eng[w])
       IN Persist(w, "model_dispatched", rt, "model_dispatched", rt)
    /\ UNCHANGED <<hostVars, world>>

(* model_attempt: the provider is asked.  Its failure stops a durable run  *)
(* (EngineReturns) with the effect still dispatched.                         *)
RequestModel(w) ==
    /\ at[w] = "model_dispatched"
    /\ requests' = requests + 1
    /\ Local(w, "model_sent", eng[w])
    /\ UNCHANGED <<approvals, hostVars, performed, granted>>

(* A response with tool calls: its first handoff goes to the front of the  *)
(* queue.                                                                  *)
IsFirstHandoff(calls, k) ==
    calls[k] \in Handoffs /\ \A j \in 1..(k - 1) : calls[j] \notin Handoffs

MovedToFront(calls, k) ==
    <<calls[k]>> \o SubSeq(calls, 1, k - 1) \o SubSeq(calls, k + 1, Len(calls))

HandoffFirst(calls) ==
    IF \E k \in DOMAIN calls : IsFirstHandoff(calls, k)
    THEN MovedToFront(calls, CHOOSE k \in DOMAIN calls : IsFirstHandoff(calls, k))
    ELSE calls

(* No id is repeated in the response or used by an earlier call.           *)
NewIds(calls, history) ==
    \A i \in DOMAIN calls :
        /\ calls[i] \notin Called(history)
        /\ \A j \in DOMAIN calls : i # j => calls[i] # calls[j]

WithReply(rt, calls) ==
    [rt EXCEPT !.history = @ \o [i \in 1..Len(calls) |-> [kind |-> "call", call |-> calls[i]]],
               !.calls = @ \o HandoffFirst(calls),
               !.blocks = 0, !.pause = FALSE, !.final = FALSE, !.phase = "Tools"]

(* The rest of model_turn: calls are queued, the model goes on, or its     *)
(* answer is a candidate for the gate or final; then ModelCompleted.  A    *)
(* duplicate call id is a model error (EngineReturns).                     *)
CompleteModel(w) ==
    /\ at[w] = "model_sent"
    /\ \E rt \in {WithReply(eng[w], calls) : calls \in {r \in Replies : NewIds(r, eng[w].history)}}
                 \cup {[eng[w] EXCEPT !.blocks = 0, !.phase = "Model"],
                       [eng[w] EXCEPT !.phase = IF Gate THEN "Finalize" ELSE "Finish"]} :
          Persist(w, "model_completed", Succeeded(rt), "advance", Succeeded(rt))
    /\ UNCHANGED <<hostVars, world>>

(* finish_candidate: the gate refuses the answer, which may buy one turn.  *)
GateBlocks(rt) ==
    [rt EXCEPT !.phase = "Model", !.blocks = @ + 1,
               !.max_turns = IF rt.turns >= @ THEN @ + 1 ELSE @]

(* Phase::Finalize: the gate is asked unless it blocked GateMax times.     *)
Finalize(w) ==
    /\ In(w, "advance", "Finalize")
    /\ \E rt \in (IF eng[w].blocks < GateMax
                  THEN {GateBlocks(eng[w]), [eng[w] EXCEPT !.phase = "Finish", !.blocks = 0]}
                  ELSE {[eng[w] EXCEPT !.phase = "Finish"]}) :
          Persist(w, "model_completed", rt, "advance", rt)
    /\ UNCHANGED <<hostVars, world>>

(* Phase::Finish: drive commits the completed run and returns.             *)
CompleteRun(w) ==
    /\ In(w, "advance", "Finish")
    /\ Persist(w, "run_completed", eng[w], "done", eng[w])
    /\ UNCHANGED <<hostVars, world>>

--------------------------------------------------------------------------------
(* Tool calls: Engine::tool, serially from the front of the queue.         *)

(* Fault: the call stays in the queue.                                     *)
Answered_queued(rt, kind) ==
    [rt EXCEPT !.history = Append(@, [kind |-> kind, call |-> Head(rt.calls)])]

(* The front call is taken from the queue and gets its result.             *)
Answered(rt, kind) ==
    [rt EXCEPT !.calls = Tail(@),
               !.history = Append(@, [kind |-> kind, call |-> Head(rt.calls)])]

AtCall(w) == In(w, "advance", "Tools") /\ eng[w].calls # <<>>

Undecided(w, c) == [approvals EXCEPT ![w] = [@ EXCEPT ![c] = "none"]]

(* An unknown or denied tool: an error result through finish_tool.         *)
RejectTool(w) ==
    /\ AtCall(w) /\ Head(eng[w].calls) \in Unregistered
    /\ LET rt == Succeeded([Answered(eng[w], "result") EXCEPT !.final = TRUE])
       IN Persist(w, "tool_completed", rt, "advance", rt)
    /\ UNCHANGED <<hostVars, world>>

(* The wish to ask is committed before anyone is asked.                    *)
RequestApproval(w) ==
    /\ AtCall(w) /\ Head(eng[w].calls) \in Guarded \ Unregistered
    /\ Persist(w, "approval_pending", eng[w], "asking", eng[w])
    /\ UNCHANGED <<hostVars, world>>

(* A decision that is already there is used up; otherwise the host decides *)
(* now, and granted remembers its consent.                                 *)
Decision(w, d) ==
    LET c == Head(eng[w].calls)
    IN /\ at[w] = "asking"
       /\ \/ approvals[w][c] = d /\ UNCHANGED granted
          \/ /\ approvals[w][c] = "none"
             /\ granted' = IF d = "approve" THEN granted \cup {c} ELSE granted

WithoutPending(rt) == [rt EXCEPT !.pending = IF @ = Head(rt.calls) THEN NoCall ELSE @]

Marked(rt, d) == [rt EXCEPT !.journal = [@ EXCEPT ![Head(rt.calls)] = d]]

Approve(w) ==
    /\ Decision(w, "approve")
    /\ Local(w, "approved", WithoutPending(Marked(eng[w], "approve")))
    /\ approvals' = Undecided(w, Head(eng[w].calls))
    /\ UNCHANGED <<hostVars, performed, requests>>

(* The denial is the call's result; it is committed with the next          *)
(* checkpoint.                                                             *)
Deny(w) ==
    /\ Decision(w, "deny")
    /\ Local(w, "advance", Answered(WithoutPending(Marked(eng[w], "deny")), "result"))
    /\ approvals' = Undecided(w, Head(eng[w].calls))
    /\ UNCHANGED <<hostVars, performed, requests>>

(* The decision is put off: the run will pause with this call pending.     *)
Defer(w) ==
    /\ Decision(w, "defer")
    /\ LET rt == [Marked(eng[w], "defer") EXCEPT !.pending = Head(eng[w].calls)]
       IN Persist(w, "approval_pending", rt, "deferring", rt)
    /\ UNCHANGED <<hostVars, performed, requests>>

PauseForDecision(w) ==
    /\ at[w] = "deferring"
    /\ Persist(w, "paused", eng[w], "paused", eng[w])
    /\ UNCHANGED <<hostVars, world>>

(* Fault: only the policy's own decision is looked at.                     *)
PrepareTool_unasked(w) ==
    /\ AtCall(w) /\ Head(eng[w].calls) \notin Unregistered
    /\ LET rt == Prepared(eng[w], seqno[w] + 1)
       IN Persist(w, "tool_prepared", rt, "tool_ready", rt)
    /\ UNCHANGED <<hostVars, world>>

(* The intent is committed; it needs no approval or has it.                *)
PrepareTool(w) ==
    /\ \/ AtCall(w) /\ Head(eng[w].calls) \notin Guarded \cup Unregistered
       \/ at[w] = "approved"
    /\ LET rt == Prepared(eng[w], seqno[w] + 1)
       IN Persist(w, "tool_prepared", rt, "tool_ready", rt)
    /\ UNCHANGED <<hostVars, world>>

(* A handoff answers every call that is still queued: itself as a handoff, *)
(* the others as not executed (among themselves in the response's order,   *)
(* which no property tells from the queue's).  It is a local transition:   *)
(* its effect succeeds without having been handed to anyone.               *)
HandedOff(rt) ==
    [WithEffectState(rt, "succeeded") EXCEPT
        !.calls = <<>>, !.agent = "target", !.phase = "Model",
        !.history = @ \o [i \in 1..Len(rt.calls) |->
                             [kind |-> IF i = 1 THEN "handoff" ELSE "result",
                              call |-> rt.calls[i]]]]

Handoff(w) ==
    /\ at[w] = "tool_ready" /\ Head(eng[w].calls) \in Handoffs
    /\ LET rt == HandedOff(eng[w])
       IN Persist(w, "handoff_completed", rt, "advance", rt)
    /\ UNCHANGED <<hostVars, world>>

(* Fault: the checkpoint of the dispatched boundary is skipped.            *)
DispatchTool_unlogged(w) ==
    /\ at[w] = "tool_ready" /\ Head(eng[w].calls) \notin Handoffs
    /\ Local(w, "tool_dispatched", ToolDispatched(eng[w]))
    /\ UNCHANGED <<approvals, hostVars, world>>

(* The dispatch is committed and counted before the tool runs.             *)
DispatchTool(w) ==
    /\ at[w] = "tool_ready" /\ Head(eng[w].calls) \notin Handoffs
    /\ LET rt == ToolDispatched(eng[w])
       IN Persist(w, "tool_dispatched", rt, "tool_dispatched", rt)
    /\ UNCHANGED <<hostVars, world>>

(* execute_tool: the tool runs.  An error stops a durable run.             *)
ExecuteTool(w) ==
    /\ at[w] = "tool_dispatched"
    /\ performed' = [performed EXCEPT ![Head(eng[w].calls)] = @ + 1]
    /\ Local(w, "tool_done", eng[w])
    /\ UNCHANGED <<approvals, hostVars, requests, granted>>

(* finish_tool; the output may ask for a pause.                            *)
FinishTool(w) ==
    /\ at[w] = "tool_done"
    /\ \E pause \in BOOLEAN :
          LET rt == Succeeded([Answered(eng[w], "result") EXCEPT
                                  !.final = TRUE, !.pause = @ \/ pause])
          IN Persist(w, "tool_completed", rt, "advance", rt)
    /\ UNCHANGED <<hostVars, world>>

(* The queue is empty: stop with the tool's output, pause, or ask again.   *)
ToolsDone(w) == In(w, "advance", "Tools") /\ eng[w].calls = <<>>

EndTools(w) ==
    /\ ToolsDone(w)
    /\ \/ /\ StopAfterTool /\ eng[w].final
          /\ Local(w, "advance", [eng[w] EXCEPT !.phase = "Finish"])
       \/ /\ ~(StopAfterTool /\ eng[w].final) /\ ~eng[w].pause
          /\ Local(w, "advance", [eng[w] EXCEPT !.phase = "Model"])
    /\ UNCHANGED <<approvals, hostVars, world>>

(* Fault: the pause waits for a final output.                              *)
PauseForTool_final(w) ==
    /\ ToolsDone(w) /\ StopAfterTool /\ eng[w].final /\ eng[w].pause
    /\ LET rt == [eng[w] EXCEPT !.phase = "Model", !.pause = FALSE]
       IN Persist(w, "paused", rt, "paused", rt)
    /\ UNCHANGED <<hostVars, world>>

(* A tool's output asked for a pause.                                      *)
PauseForTool(w) ==
    /\ ToolsDone(w) /\ ~(StopAfterTool /\ eng[w].final) /\ eng[w].pause
    /\ LET rt == [eng[w] EXCEPT !.phase = "Model", !.pause = FALSE]
       IN Persist(w, "paused", rt, "paused", rt)
    /\ UNCHANGED <<hostVars, world>>

--------------------------------------------------------------------------------
EngineStep(w) ==
    \/ Start(w) \/ PrepareModel(w) \/ TurnsExhausted(w) \/ DispatchModel(w)
    \/ RequestModel(w) \/ CompleteModel(w) \/ Finalize(w) \/ CompleteRun(w)
    \/ RejectTool(w) \/ RequestApproval(w) \/ Approve(w) \/ Deny(w) \/ Defer(w)
    \/ PauseForDecision(w) \/ PrepareTool(w) \/ Handoff(w) \/ DispatchTool(w)
    \/ ExecuteTool(w) \/ FinishTool(w) \/ EndTools(w) \/ PauseForTool(w)

HostStep(w) ==
    \/ AcquireLease(w) \/ ReleaseLease(w)
    \/ (\E a \in Attempts : StartFresh(w, a) \/ Recover(w, a))
    \/ ResumeContinuation(w) \/ EngineReturns(w) \/ Crash(w)

Next == LeaseExpires \/ \E w \in Workers : HostStep(w) \/ EngineStep(w)

Spec == Init /\ [][Next]_vars

(* An engine that can go on does: its executor polls it, providers and     *)
(* tools answer or fail (their calls are bounded), and hosts decide.       *)
FairSpec == Spec /\ \A w \in Workers : WF_vars(EngineStep(w))

--------------------------------------------------------------------------------
(* A tool call is executed at most once, however often the run is          *)
(* recovered, by whichever workers, after whatever crash, expired lease or *)
(* commit of unknown outcome (execute_tool between ToolDispatched and      *)
(* ToolCompleted).                                                         *)
AtMostOnce == \A c \in Calls : performed[c] <= 1

Performed == {c \in Calls : performed[c] > 0}

TurnsOf(doc) == IF doc = NoCheckpoint THEN 0 ELSE doc.runtime.turns

(* Nothing reaches a provider or a tool that the stored run does not       *)
(* already account for: the committed counters bound what really happened, *)
(* so a recovered run never forgets what was spent (persist_boundary at    *)
(* the dispatched boundaries).                                             *)
WriteAhead ==
    /\ requests <= TurnsOf(store.doc)
    /\ Cardinality(Performed) <= ToolCallsOf(store.doc)

(* A tool that needs approval runs only after somebody approved that very  *)
(* call; a restored journal grants nothing by itself.                      *)
ApprovedFirst == Performed \cap Guarded \subseteq granted

(* Whatever was committed, a crash strands the run only at a dispatched    *)
(* boundary: every other checkpoint passes the checks recovery makes on    *)
(* it (drive_durable).                                                     *)
AlwaysRecoverable ==
    store.doc # NoCheckpoint =>
        outcome_unknown(store.doc.runtime.effect) \/ Recoverable(store.doc)

(* A commit carries on from the last one, even across attempts: numbered   *)
(* on, with its history as a prefix and no counter smaller; nothing follows *)
(* a completed run, and an intent prepared before a crash is carried out   *)
(* under the same identity and idempotency key after it (persist_boundary, *)
(* the restored RuntimeState of drive_durable).                            *)
CarriesOn(old, new) ==
    /\ new.sequence = old.sequence + 1
    /\ old.boundary # "run_completed"
    /\ new.runtime.turns >= old.runtime.turns
    /\ new.runtime.tool_calls >= old.runtime.tool_calls
    /\ Len(new.runtime.history) >= Len(old.runtime.history)
    /\ SubSeq(new.runtime.history, 1, Len(old.runtime.history)) = old.runtime.history
    /\ old.runtime.effect.state = "prepared" => new.runtime.effect.id = old.runtime.effect.id
CommitsCarryOn ==
    [][store.doc # NoCheckpoint /\ store'.doc # store.doc
          => CarriesOn(store.doc, store'.doc)]_vars

(* While the outcome of an effect is unknown, only the attempt that        *)
(* dispatched it can record one: nobody else ever moves the run on.        *)
Quarantined ==
    [][ /\ store.doc # NoCheckpoint
        /\ store'.doc # store.doc
        /\ outcome_unknown(store.doc.runtime.effect)
        => /\ store'.doc.attempt = store.doc.attempt
           /\ store'.writers[Len(store'.writers)] = store.writers[Len(store.writers)] ]_vars

StoredRecord ==
    [revision |-> store.revision, event_sequence |-> Len(store.writers),
     state |-> SequenceOf(store.doc),
     events |-> [i \in 1..Len(store.writers) |-> [sequence |-> i, token |-> store.writers[i]]],
     token |-> store.token]

Ledger == INSTANCE RunLedger WITH
    Runs <- {"run"}, Absent <- NoCheckpoint,
    ledger <- [r \in {"run"} |-> StoredRecord], stable <- [r \in {"run"} |-> StoredRecord]

(* Whatever the workers do to the stored run is a step that the RunLedger  *)
(* promise allows: a fenced append, a grant or a release of the lease.     *)
LedgerSteps == [][ \/ Ledger!AppendStep(StoredRecord, StoredRecord')
                   \/ Ledger!GrantStep(StoredRecord, StoredRecord')
                   \/ Ledger!ReleaseStep(StoredRecord, StoredRecord') ]_StoredRecord

(* An engine that is driven comes to an end: it completes, fails, or hands *)
(* back a continuation; at no boundary does it wait for something that     *)
(* nobody does.                                                            *)
EngineEnds == \A w \in Workers : at[w] # "idle" ~> at[w] \in {"idle", "paused", "done"}
================================================================================

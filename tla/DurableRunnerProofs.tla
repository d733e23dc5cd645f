-------------------------- MODULE DurableRunnerProofs --------------------------
(***************************************************************************)
(* Theorems about DurableRunner, for any workers, calls and bounds.        *)
(*                                                                         *)
(* The argument.  A commit needs the stored revision, so of the sessions   *)
(* that see the current revision (Current) the first to commit leaves the  *)
(* others behind; and while an effect is dispatched nobody can open a      *)
(* session.  Hence a dispatched effect has one owner (OneOwner), which is  *)
(* the only one who can perform it or move the run on, and the counters it *)
(* committed with the dispatch already include what it is about to do.     *)
(*                                                                         *)
(* On top of that, every step of an engine extends the conversation it has *)
(* in mind and keeps it well paired (Heeds, EngineHeeds), whether or not   *)
(* the engine is stale.  At-most-once execution, approval before execution *)
(* and the checks of recovery are invariants about such conversations and  *)
(* the last one that was stored.                                           *)
(***************************************************************************)
EXTENDS DurableRunner, TLAPS, FiniteSetTheorems, FunctionTheorems, SequenceTheorems

--------------------------------------------------------------------------------
(* Every change of the engine's state keeps its type.                      *)

(* FreshRuntime is a runtime state.                                        *)
LEMMA FreshTypes == FreshRuntime \in Runtime /\ NoDecisions \in [Calls -> Decisions]
  BY ConstantsAssumption
     DEF FreshRuntime, Runtime, NoDecisions, Decisions, Phases, Effect, NoEffect

(* A counter may take any value.                                           *)
LEMMA CounterTypes ==
  ASSUME NEW rt \in Runtime, NEW n \in Nat
  PROVE  /\ [rt EXCEPT !.turns = n] \in Runtime
         /\ [rt EXCEPT !.tool_calls = n] \in Runtime
         /\ [rt EXCEPT !.max_turns = n] \in Runtime
         /\ [rt EXCEPT !.blocks = n] \in Runtime
  BY DEF Runtime

(* A transition of the effect changes nothing else.                        *)
LEMMA EffectStateTypes ==
  ASSUME NEW rt \in Runtime, NEW state \in {"dispatched", "succeeded"}
  PROVE  /\ WithEffectState(rt, state) \in Runtime
         /\ WithEffectState(rt, state).turns = rt.turns
         /\ WithEffectState(rt, state).tool_calls = rt.tool_calls
         /\ WithEffectState(rt, state).calls = rt.calls
         /\ WithEffectState(rt, state).history = rt.history
         /\ WithEffectState(rt, state).effect.state = state
  BY DEF WithEffectState, Runtime, Effect

(* The boundaries of persist_boundary keep the type, change the effect     *)
(* alone, and count what they dispatch.                                    *)
LEMMA BoundaryTypes ==
  ASSUME NEW rt \in Runtime, NEW id \in Nat
  PROVE  /\ Prepared(rt, id) \in Runtime
         /\ Prepared(rt, id).turns = rt.turns /\ Prepared(rt, id).tool_calls = rt.tool_calls
         /\ Prepared(rt, id).calls = rt.calls
         /\ Succeeded(rt) \in Runtime
         /\ Succeeded(rt).turns = rt.turns /\ Succeeded(rt).tool_calls = rt.tool_calls
         /\ ModelDispatched(rt) \in Runtime
         /\ ModelDispatched(rt).turns = rt.turns + 1
         /\ ModelDispatched(rt).tool_calls = rt.tool_calls
         /\ ModelDispatched(rt).calls = rt.calls
         /\ ModelDispatched(rt).effect.state = "dispatched"
         /\ ToolDispatched(rt) \in Runtime
         /\ ToolDispatched(rt).turns = rt.turns
         /\ ToolDispatched(rt).tool_calls = rt.tool_calls + 1
         /\ ToolDispatched(rt).calls = rt.calls
         /\ ToolDispatched(rt).effect.state = "dispatched"
<1>1. Prepared(rt, id) \in Runtime /\ Succeeded(rt) \in Runtime
  BY DEF Prepared, Succeeded, WithEffectState, Runtime, Effect
<1>2. ModelDispatched(rt) \in Runtime /\ ToolDispatched(rt) \in Runtime
  <2> DEFINE e == WithEffectState(rt, "dispatched")
  <2>1. e \in Runtime
    BY EffectStateTypes
  <2>2. ModelDispatched(rt) = [e EXCEPT !.turns = @ + 1]
    BY DEF ModelDispatched
  <2>3. ToolDispatched(rt) = [e EXCEPT !.tool_calls = @ + 1]
    BY DEF ToolDispatched
  <2> HIDE DEF e
  <2>n. e.turns + 1 \in Nat /\ e.tool_calls + 1 \in Nat
    BY <2>1 DEF Runtime
  <2>4. [e EXCEPT !.turns = @ + 1] \in Runtime
    BY <2>1, <2>n, CounterTypes
  <2>5. [e EXCEPT !.tool_calls = @ + 1] \in Runtime
    BY <2>1, <2>n, CounterTypes
  <2> QED BY <2>2, <2>3, <2>4, <2>5
<1>3. /\ Prepared(rt, id).turns = rt.turns /\ Prepared(rt, id).tool_calls = rt.tool_calls
      /\ Prepared(rt, id).calls = rt.calls
      /\ Succeeded(rt).turns = rt.turns /\ Succeeded(rt).tool_calls = rt.tool_calls
  BY DEF Prepared, Succeeded, WithEffectState, Runtime
<1>4. /\ ModelDispatched(rt).turns = rt.turns + 1
      /\ ModelDispatched(rt).tool_calls = rt.tool_calls
      /\ ModelDispatched(rt).calls = rt.calls
      /\ ModelDispatched(rt).effect.state = "dispatched"
  BY DEF ModelDispatched, WithEffectState, Runtime
<1>5. /\ ToolDispatched(rt).turns = rt.turns
      /\ ToolDispatched(rt).tool_calls = rt.tool_calls + 1
      /\ ToolDispatched(rt).calls = rt.calls
      /\ ToolDispatched(rt).effect.state = "dispatched"
  BY DEF ToolDispatched, WithEffectState, Runtime
<1> QED BY <1>1, <1>2, <1>3, <1>4, <1>5

(* Answering the front call keeps the type and the counters.               *)
LEMMA AnsweredTypes ==
  ASSUME NEW rt \in Runtime, rt.calls # <<>>, NEW kind \in {"result", "handoff"}
  PROVE  /\ Answered(rt, kind) \in Runtime
         /\ Answered(rt, kind).turns = rt.turns
         /\ Answered(rt, kind).tool_calls = rt.tool_calls
<1>1. rt.calls \in Seq(Calls) /\ rt.history \in Seq(Item)
  BY DEF Runtime
<1>2. Head(rt.calls) \in Calls /\ Tail(rt.calls) \in Seq(Calls)
  BY <1>1
<1>3. [kind |-> kind, call |-> Head(rt.calls)] \in Item
  BY <1>2 DEF Item
<1>4. Append(rt.history, [kind |-> kind, call |-> Head(rt.calls)]) \in Seq(Item)
  BY <1>1, <1>3
<1> QED BY <1>2, <1>4 DEF Answered, Runtime

(* So do a decision and its trace in the journal.                          *)
LEMMA DecisionTypes ==
  ASSUME NEW rt \in Runtime, rt.calls # <<>>, NEW d \in {"approve", "deny", "defer"}
  PROVE  /\ Marked(rt, d) \in Runtime /\ Marked(rt, d).calls = rt.calls
         /\ Marked(rt, d).turns = rt.turns /\ Marked(rt, d).tool_calls = rt.tool_calls
         /\ WithoutPending(rt) \in Runtime /\ WithoutPending(rt).calls = rt.calls
         /\ WithoutPending(rt).turns = rt.turns
         /\ WithoutPending(rt).tool_calls = rt.tool_calls
<1>1. Head(rt.calls) \in Calls
  BY DEF Runtime
<1>2. [rt.journal EXCEPT ![Head(rt.calls)] = d] \in [Calls -> Decisions]
  BY <1>1 DEF Runtime, Decisions
<1> QED BY <1>2 DEF Marked, WithoutPending, Runtime

(* The order of the queue may change, its members do not.                  *)
LEMMA HandoffFirstTypes ==
  ASSUME NEW calls \in Seq(Calls)
  PROVE  HandoffFirst(calls) \in Seq(Calls)
<1>1. ASSUME NEW k \in DOMAIN calls
      PROVE  MovedToFront(calls, k) \in Seq(Calls)
  <2>1. /\ <<calls[k]>> \in Seq(Calls)
        /\ SubSeq(calls, 1, k - 1) \in Seq(Calls)
        /\ SubSeq(calls, k + 1, Len(calls)) \in Seq(Calls)
    OBVIOUS
  <2> QED BY <2>1 DEF MovedToFront
<1>2. CASE \E k \in DOMAIN calls : IsFirstHandoff(calls, k)
  BY <1>1, <1>2 DEF HandoffFirst
<1>3. CASE ~\E k \in DOMAIN calls : IsFirstHandoff(calls, k)
  BY <1>3 DEF HandoffFirst
<1> QED BY <1>2, <1>3

(* A model response, a handoff and a verdict of the gate keep the type.    *)
LEMMA TurnTypes ==
  ASSUME NEW rt \in Runtime, NEW calls \in Seq(Calls)
  PROVE  /\ WithReply(rt, calls) \in Runtime
         /\ WithReply(rt, calls).turns = rt.turns
         /\ WithReply(rt, calls).tool_calls = rt.tool_calls
         /\ HandedOff(rt) \in Runtime
         /\ HandedOff(rt).turns = rt.turns /\ HandedOff(rt).tool_calls = rt.tool_calls
         /\ GateBlocks(rt) \in Runtime
         /\ GateBlocks(rt).turns = rt.turns /\ GateBlocks(rt).tool_calls = rt.tool_calls
<1>1. rt.calls \in Seq(Calls) /\ rt.history \in Seq(Item)
  BY DEF Runtime
<1>2. [i \in 1..Len(calls) |-> [kind |-> "call", call |-> calls[i]]] \in Seq(Item)
  BY DEF Item
<1>3. [i \in 1..Len(rt.calls) |-> [kind |-> IF i = 1 THEN "handoff" ELSE "result",
                                  call |-> rt.calls[i]]] \in Seq(Item)
  BY <1>1 DEF Item
<1>4. WithReply(rt, calls) \in Runtime
  <2>1. rt.history \o [i \in 1..Len(calls) |-> [kind |-> "call", call |-> calls[i]]] \in Seq(Item)
    BY <1>1, <1>2
  <2>2. rt.calls \o HandoffFirst(calls) \in Seq(Calls)
    BY <1>1, HandoffFirstTypes
  <2> QED BY <2>1, <2>2 DEF WithReply, Runtime, Phases
<1>5. /\ HandedOff(rt) \in Runtime
      /\ HandedOff(rt).turns = rt.turns /\ HandedOff(rt).tool_calls = rt.tool_calls
  <2> DEFINE e == WithEffectState(rt, "succeeded")
             h == e.history \o [i \in 1..Len(rt.calls) |->
                     [kind |-> IF i = 1 THEN "handoff" ELSE "result", call |-> rt.calls[i]]]
  <2>1. e \in Runtime /\ e.history = rt.history
        /\ e.turns = rt.turns /\ e.tool_calls = rt.tool_calls
    BY EffectStateTypes
  <2>2. HandedOff(rt) = [e EXCEPT !.calls = <<>>, !.agent = "target", !.phase = "Model",
                                  !.history = h]
    BY DEF HandedOff
  <2>3. h \in Seq(Item)
    <3> HIDE DEF e
    <3> QED BY <1>1, <1>3, <2>1
  <2> HIDE DEF e, h
  <2>4. <<>> \in Seq(Calls)
    OBVIOUS
  <2>5. [e EXCEPT !.calls = <<>>, !.agent = "target", !.phase = "Model", !.history = h]
          \in Runtime
    BY <2>1, <2>3, <2>4 DEF Runtime, Phases
  <2> QED BY <2>1, <2>2, <2>5 DEF Runtime
<1>6. GateBlocks(rt) \in Runtime
  <2> DEFINE b == rt.blocks + 1
             m == IF rt.turns >= rt.max_turns THEN rt.max_turns + 1 ELSE rt.max_turns
  <2>1. b \in Nat /\ m \in Nat
    BY DEF Runtime
  <2>2. GateBlocks(rt) = [rt EXCEPT !.phase = "Model", !.blocks = b, !.max_turns = m]
    BY DEF GateBlocks
  <2> HIDE DEF b, m
  <2> QED BY <2>1, <2>2 DEF Runtime, Phases
<1> QED BY <1>4, <1>5, <1>6 DEF WithReply, GateBlocks, Runtime

--------------------------------------------------------------------------------
(* The type invariant in two parts, and what the types of a step rest on:  *)
(* an engine runs with a session, and inside a tool call with that call at *)
(* the front of the queue.                                                 *)

CallPoints == {"asking", "approved", "tool_ready", "tool_dispatched", "tool_done", "deferring"}

RunTypes ==
    /\ store \in StoredRun
    /\ session \in [Workers -> Session \cup {Closed}]
    /\ at \in [Workers -> Points]
    /\ eng \in [Workers -> Runtime]
    /\ seqno \in [Workers -> Nat]
    /\ attempt \in [Workers -> Attempts]
    /\ approvals \in [Workers -> [Calls -> Decisions]]

OutsideTypes ==
    /\ grants \in Nat
    /\ held \in [Workers -> Nat]
    /\ performed \in [Calls -> Nat]
    /\ requests \in Nat
    /\ granted \in SUBSET Calls

RunsWithSession == \A w \in Workers : at[w] = "idle" <=> session[w] = Closed
CallsAtHand == \A w \in Workers : at[w] \in CallPoints => eng[w].calls # <<>>

Shape == RunTypes /\ OutsideTypes /\ RunsWithSession /\ CallsAtHand

(* What a worker without an engine looks like.                             *)
LEMMA EngineGoneTypes ==
  ASSUME Shape, NEW w \in Workers, EngineGone(w), store' \in StoredRun
  PROVE  RunTypes' /\ RunsWithSession' /\ CallsAtHand'
<1>1. (CHOOSE a \in Attempts : TRUE) \in Attempts
  BY ConstantsAssumption
<1>2. RunTypes'
  BY <1>1, FreshTypes DEF EngineGone, Shape, RunTypes, Points
<1>3. RunsWithSession'
  BY DEF EngineGone, Shape, RunTypes, RunsWithSession
<1>4. CallsAtHand'
  BY DEF EngineGone, Shape, RunTypes, CallsAtHand, CallPoints
<1> QED BY <1>2, <1>3, <1>4

(* A commit leaves a well-formed stored run.                               *)
LEMMA CommitTypes ==
  ASSUME store \in StoredRun, NEW s \in Session, NEW ck \in Checkpoint
  PROVE  /\ Committed(s, ck) \in StoredRun
         /\ WithEffect(s.effects, ck.runtime.effect) \in SUBSET Effect
         /\ Committed(s, ck).revision = s.revision + 1
         /\ Committed(s, ck).doc = ck
         /\ Committed(s, ck).effects = WithEffect(s.effects, ck.runtime.effect)
         /\ Committed(s, ck).writers = Append(store.writers, s.token)
         /\ Committed(s, ck).token = store.token
<1>1. ck.runtime.effect \in Effect
  BY DEF Checkpoint, Runtime
<1>2. s.effects \in SUBSET Effect /\ s.token \in Nat /\ s.revision \in Nat
  BY DEF Session
<1>3. WithEffect(s.effects, ck.runtime.effect) \in SUBSET Effect
  BY <1>1, <1>2 DEF WithEffect
<1>4. store.writers \in Seq(Nat)
  BY DEF StoredRun
<1>5. Append(store.writers, s.token) \in Seq(Nat)
  BY <1>2, <1>4
<1>6. s.revision + 1 \in Nat
  BY <1>2
<1> DEFINE r == s.revision + 1
           fx == WithEffect(s.effects, ck.runtime.effect)
           ws == Append(store.writers, s.token)
<1>7. Committed(s, ck) = [store EXCEPT !.revision = r, !.doc = ck, !.effects = fx, !.writers = ws]
  BY DEF Committed
<1>8. r \in Nat /\ fx \in SUBSET Effect /\ ws \in Seq(Nat)
  BY <1>3, <1>5, <1>6
<1> HIDE DEF r, fx, ws
<1>9. [store EXCEPT !.revision = r, !.doc = ck, !.effects = fx, !.writers = ws] \in StoredRun
  BY <1>8 DEF StoredRun
<1>10. /\ Committed(s, ck).revision = r /\ Committed(s, ck).doc = ck
       /\ Committed(s, ck).effects = fx /\ Committed(s, ck).writers = ws
       /\ Committed(s, ck).token = store.token
  BY <1>7 DEF StoredRun
<1> QED BY <1>3, <1>7, <1>9, <1>10 DEF r, fx, ws

(* So does every outcome of Persist.                                       *)
LEMMA PersistTypes ==
  ASSUME Shape, NEW w \in Workers, session[w] # Closed,
         NEW b \in Boundaries, NEW saved \in Runtime,
         NEW point \in Points \ {"idle"}, NEW rt \in Runtime,
         point \in CallPoints => rt.calls # <<>>,
         Persist(w, b, saved, point, rt)
  PROVE  RunTypes' /\ RunsWithSession' /\ CallsAtHand'
<1> DEFINE s == session[w]
           ck == [sequence |-> seqno[w] + 1, attempt |-> attempt[w],
                  boundary |-> b, runtime |-> saved]
           fx == WithEffect(s.effects, saved.effect)
           new == [token |-> s.token, revision |-> s.revision + 1, sequence |-> ck.sequence,
                   tool_calls |-> saved.tool_calls, effects |-> fx]
<1>1. s \in Session
  BY DEF Shape, RunTypes
<1>2. ck \in Checkpoint
  BY DEF Shape, RunTypes, Checkpoint
<1>3. store \in StoredRun
  BY DEF Shape, RunTypes
<1>4. Committed(s, ck) \in StoredRun /\ fx \in SUBSET Effect
  <2> HIDE DEF s
  <2>1. ck.runtime = saved
    OBVIOUS
  <2> HIDE DEF ck
  <2> QED BY <1>1, <1>2, <1>3, <2>1, CommitTypes
<1>5. new \in Session
  <2>1. /\ s.token \in Nat /\ s.revision + 1 \in Nat /\ seqno[w] + 1 \in Nat
        /\ saved.tool_calls \in Nat
    <3>1. seqno[w] \in Nat
      BY DEF Shape, RunTypes
    <3>2. saved.tool_calls \in Nat
      BY DEF Runtime
    <3> HIDE DEF s
    <3>3. s.token \in Nat /\ s.revision \in Nat
      BY <1>1 DEF Session
    <3> QED BY <3>1, <3>2, <3>3
  <2> DEFINE rev == s.revision + 1
             seq == seqno[w] + 1
             calls == saved.tool_calls
             tok == s.token
  <2>2. new = [token |-> tok, revision |-> rev, sequence |-> seq,
               tool_calls |-> calls, effects |-> fx]
    OBVIOUS
  <2>3. tok \in Nat /\ rev \in Nat /\ seq \in Nat /\ calls \in Nat
    BY <2>1
  <2> HIDE DEF s, fx, new, rev, seq, calls, tok
  <2> QED BY <1>4, <2>2, <2>3 DEF Session
<1>6. new # Closed
  BY <1>5, NullAssumption
<1>7. CASE /\ store' = Committed(s, ck)
           /\ session' = [session EXCEPT ![w] = new]
           /\ seqno' = [seqno EXCEPT ![w] = seqno[w] + 1]
           /\ UNCHANGED approvals
           /\ GoOn(w, point, rt)
  <2> HIDE DEF s, ck, fx, new
  <2>1. seqno' \in [Workers -> Nat]
    BY <1>7 DEF Shape, RunTypes
  <2>2. RunTypes'
    BY <1>4, <1>5, <1>7, <2>1 DEF Shape, RunTypes, GoOn
  <2>3. RunsWithSession'
    BY <1>6, <1>7 DEF Shape, RunTypes, GoOn, RunsWithSession
  <2>4. CallsAtHand'
    BY <1>7 DEF Shape, RunTypes, GoOn, CallsAtHand
  <2> QED BY <2>2, <2>3, <2>4
<1>8. CASE store' = Committed(s, ck) /\ EngineGone(w)
  BY <1>4, <1>8, EngineGoneTypes
<1>9. CASE EngineGone(w) /\ UNCHANGED store
  BY <1>3, <1>9, EngineGoneTypes
<1> QED BY <1>7, <1>8, <1>9 DEF Persist

--------------------------------------------------------------------------------
(* Every step of an engine is a commit, a local step, its end, or one of   *)
(* the two that reach the outside.                                         *)

InFlight == {"model_dispatched", "model_sent", "tool_dispatched", "tool_done"}

(* What the engine relies on at each commit: counters never shrink, a      *)
(* dispatched boundary saves a dispatched effect and counts it.            *)
Commits(w, b, saved, point, rt) ==
    /\ at[w] # "idle"
    /\ b \in Boundaries /\ saved \in Runtime /\ point \in Points \ {"idle"} /\ rt \in Runtime
    /\ point \in CallPoints => rt.calls # <<>>
    /\ saved.turns >= eng[w].turns /\ saved.tool_calls >= eng[w].tool_calls
    /\ rt.turns = saved.turns /\ rt.tool_calls = saved.tool_calls
    /\ point \in InFlight => /\ point \in {"model_dispatched", "tool_dispatched"}
                             /\ saved.effect.state = "dispatched"
    /\ point = "model_dispatched" => saved.turns = eng[w].turns + 1
    /\ point = "tool_dispatched" => saved.tool_calls = eng[w].tool_calls + 1
    /\ Persist(w, b, saved, point, rt)
    /\ UNCHANGED <<hostVars, performed, requests>> /\ granted' \in SUBSET Calls

CommitMove(w) == \E b, saved, point, rt : Commits(w, b, saved, point, rt)

Thinks(w, point, rt) ==
    /\ at[w] # "idle"
    /\ point \in Points \ (InFlight \cup {"idle"}) /\ rt \in Runtime
    /\ point \in CallPoints => rt.calls # <<>>
    /\ rt.turns = eng[w].turns /\ rt.tool_calls = eng[w].tool_calls
    /\ Local(w, point, rt)
    /\ approvals' \in [Workers -> [Calls -> Decisions]]
    /\ UNCHANGED <<hostVars, performed, requests>> /\ granted' \in SUBSET Calls

LocalMove(w) == \E point, rt : Thinks(w, point, rt)

(* A commit that dispatches nothing and changes no counter.                *)
LEMMA PlainCommit ==
  ASSUME Shape, NEW w \in Workers, NEW b \in Boundaries, NEW rt \in Runtime,
         NEW point \in {"advance", "model_ready", "asking", "tool_ready", "deferring",
                        "paused", "done"},
         point \in CallPoints => rt.calls # <<>>,
         rt.turns = eng[w].turns, rt.tool_calls = eng[w].tool_calls,
         at[w] # "idle", Persist(w, b, rt, point, rt),
         UNCHANGED <<hostVars, performed, requests>>, granted' \in SUBSET Calls
  PROVE  CommitMove(w)
<1>1. rt.turns \in Nat /\ rt.tool_calls \in Nat
  BY DEF Runtime
<1>2. Commits(w, b, rt, point, rt)
  BY <1>1 DEF Commits, Points, InFlight
<1> QED BY <1>2 DEF CommitMove

(* What the types say about one engine.                                    *)
LEMMA EngineTypes ==
  ASSUME Shape, NEW w \in Workers
  PROVE  /\ eng[w] \in Runtime /\ eng[w].turns \in Nat /\ eng[w].tool_calls \in Nat
         /\ eng[w].calls \in Seq(Calls)
         /\ seqno[w] + 1 \in Nat /\ granted \in SUBSET Calls
         /\ at[w] \in CallPoints => eng[w].calls # <<>>
<1>1. eng[w] \in Runtime /\ seqno[w] \in Nat
  BY DEF Shape, RunTypes
<1>2. granted \in SUBSET Calls /\ (at[w] \in CallPoints => eng[w].calls # <<>>)
  BY DEF Shape, OutsideTypes, CallsAtHand
<1>3. eng[w].turns \in Nat /\ eng[w].tool_calls \in Nat /\ eng[w].calls \in Seq(Calls)
  BY <1>1 DEF Runtime
<1> QED BY <1>1, <1>2, <1>3

(* The classification: actions before the tools.                           *)
LEMMA ModelMoves ==
  ASSUME Shape, NEW w \in Workers,
         \/ Start(w) \/ PrepareModel(w) \/ DispatchModel(w) \/ CompleteModel(w)
         \/ Finalize(w) \/ CompleteRun(w)
  PROVE  CommitMove(w)
<1> DEFINE e == eng[w]
<1>0. /\ e \in Runtime /\ e.turns \in Nat /\ e.tool_calls \in Nat
      /\ seqno[w] + 1 \in Nat /\ granted \in SUBSET Calls
  BY EngineTypes
<1>1. CASE Start(w)
  <2> DEFINE m == [e EXCEPT !.phase = "Model"]
  <2>1. m \in Runtime /\ m.turns = e.turns /\ m.tool_calls = e.tool_calls
    BY <1>0 DEF Runtime, Phases
  <2>2. /\ Persist(w, "run_started", e, "advance", m) /\ at[w] = "advance"
        /\ UNCHANGED <<hostVars, performed, requests>> /\ granted' = granted
    BY <1>1 DEF Start, In, world
  <2> HIDE DEF m
  <2>3. Commits(w, "run_started", e, "advance", m)
    BY <1>0, <2>1, <2>2 DEF Commits, Points, CallPoints, InFlight, Boundaries
  <2> QED BY <2>3 DEF CommitMove
<1>2. CASE PrepareModel(w)
  <2> DEFINE p == Prepared(e, seqno[w] + 1)
  <2>1. p \in Runtime /\ p.turns = e.turns /\ p.tool_calls = e.tool_calls
    BY <1>0, BoundaryTypes
  <2>2. /\ Persist(w, "model_prepared", p, "model_ready", p) /\ at[w] = "advance"
        /\ UNCHANGED <<hostVars, performed, requests>> /\ granted' = granted
    BY <1>2 DEF PrepareModel, In, world
  <2> HIDE DEF p
  <2> QED BY <1>0, <2>1, <2>2, PlainCommit DEF CallPoints, Boundaries
<1>3. CASE DispatchModel(w)
  <2> DEFINE d == ModelDispatched(e)
  <2>1. /\ d \in Runtime /\ d.turns = e.turns + 1 /\ d.tool_calls = e.tool_calls
        /\ d.effect.state = "dispatched"
    BY <1>0, BoundaryTypes
  <2>2. /\ Persist(w, "model_dispatched", d, "model_dispatched", d) /\ at[w] = "model_ready"
        /\ UNCHANGED <<hostVars, performed, requests>> /\ granted' = granted
    BY <1>3 DEF DispatchModel, world
  <2> HIDE DEF d
  <2>3. Commits(w, "model_dispatched", d, "model_dispatched", d)
    BY <1>0, <2>1, <2>2 DEF Commits, Points, CallPoints, InFlight, Boundaries
  <2> QED BY <2>3 DEF CommitMove
<1>4. CASE CompleteModel(w)
  <2> DEFINE replies == {r \in Replies : NewIds(r, e.history)}
             goOn == [e EXCEPT !.blocks = 0, !.phase = "Model"]
             answer == [e EXCEPT !.phase = IF Gate THEN "Finalize" ELSE "Finish"]
  <2>1. /\ \E rt \in {WithReply(e, calls) : calls \in replies} \cup {goOn, answer} :
              Persist(w, "model_completed", Succeeded(rt), "advance", Succeeded(rt))
        /\ at[w] = "model_sent"
        /\ UNCHANGED <<hostVars, performed, requests>> /\ granted' = granted
    BY <1>4 DEF CompleteModel, world
  <2>2. goOn \in Runtime /\ goOn.turns = e.turns /\ goOn.tool_calls = e.tool_calls
    BY <1>0 DEF Runtime, Phases
  <2>3. answer \in Runtime /\ answer.turns = e.turns /\ answer.tool_calls = e.tool_calls
    BY <1>0 DEF Runtime, Phases
  <2>4. \A calls \in replies : /\ WithReply(e, calls) \in Runtime
                               /\ WithReply(e, calls).turns = e.turns
                               /\ WithReply(e, calls).tool_calls = e.tool_calls
    BY <1>0, TurnTypes, ConstantsAssumption
  <2> HIDE DEF replies, goOn, answer, e
  <2>5. PICK rt \in {WithReply(e, calls) : calls \in replies} \cup {goOn, answer} :
              Persist(w, "model_completed", Succeeded(rt), "advance", Succeeded(rt))
    BY <2>1
  <2>6. rt \in Runtime /\ rt.turns = e.turns /\ rt.tool_calls = e.tool_calls
    BY <2>2, <2>3, <2>4, <2>5
  <2>7. /\ Succeeded(rt) \in Runtime /\ Succeeded(rt).turns = e.turns
        /\ Succeeded(rt).tool_calls = e.tool_calls
    BY <1>0, <2>6, BoundaryTypes
  <2> QED BY <1>0, <2>1, <2>5, <2>7, PlainCommit DEF CallPoints, Boundaries, e
<1>5. CASE Finalize(w)
  <2> DEFINE pass == [e EXCEPT !.phase = "Finish", !.blocks = 0]
             last == [e EXCEPT !.phase = "Finish"]
  <2>1. /\ \E rt \in {GateBlocks(e), pass, last} :
              Persist(w, "model_completed", rt, "advance", rt)
        /\ at[w] = "advance"
        /\ UNCHANGED <<hostVars, performed, requests>> /\ granted' = granted
    BY <1>5 DEF Finalize, In, world
  <2>2. pass \in Runtime /\ pass.turns = e.turns /\ pass.tool_calls = e.tool_calls
    BY <1>0 DEF Runtime, Phases
  <2>3. last \in Runtime /\ last.turns = e.turns /\ last.tool_calls = e.tool_calls
    BY <1>0 DEF Runtime, Phases
  <2>e. <<>> \in Seq(Calls)
    OBVIOUS
  <2>4. /\ GateBlocks(e) \in Runtime /\ GateBlocks(e).turns = e.turns
        /\ GateBlocks(e).tool_calls = e.tool_calls
    BY <1>0, <2>e, TurnTypes
  <2> HIDE DEF pass, last, e
  <2>5. PICK rt \in {GateBlocks(e), pass, last} :
              Persist(w, "model_completed", rt, "advance", rt)
    BY <2>1
  <2>6. rt \in Runtime /\ rt.turns = e.turns /\ rt.tool_calls = e.tool_calls
    BY <2>2, <2>3, <2>4, <2>5
  <2> QED BY <1>0, <2>1, <2>5, <2>6, PlainCommit DEF CallPoints, Boundaries, e
<1>6. CASE CompleteRun(w)
  <2>1. /\ Persist(w, "run_completed", e, "done", e) /\ at[w] = "advance"
        /\ UNCHANGED <<hostVars, performed, requests>> /\ granted' = granted
    BY <1>6 DEF CompleteRun, In, world
  <2> QED BY <1>0, <2>1, PlainCommit DEF CallPoints, Boundaries
<1> QED BY <1>1, <1>2, <1>3, <1>4, <1>5, <1>6

(* The classification: actions of a tool call that commit.                 *)
LEMMA ToolMoves ==
  ASSUME Shape, NEW w \in Workers,
         \/ RejectTool(w) \/ RequestApproval(w) \/ Defer(w) \/ PauseForDecision(w)
         \/ PrepareTool(w) \/ Handoff(w) \/ DispatchTool(w) \/ FinishTool(w) \/ PauseForTool(w)
  PROVE  CommitMove(w)
<1> DEFINE e == eng[w]
<1>0. /\ e \in Runtime /\ e.turns \in Nat /\ e.tool_calls \in Nat
      /\ e.calls \in Seq(Calls)
      /\ seqno[w] + 1 \in Nat /\ granted \in SUBSET Calls
      /\ at[w] \in CallPoints => e.calls # <<>>
  BY EngineTypes
<1>1. ASSUME e.calls # <<>>, NEW pause \in BOOLEAN
      PROVE  LET rt == Succeeded([Answered(e, "result") EXCEPT !.final = TRUE, !.pause = @ \/ pause])
             IN rt \in Runtime /\ rt.turns = e.turns /\ rt.tool_calls = e.tool_calls
  <2> DEFINE a == Answered(e, "result")
             b == [a EXCEPT !.final = TRUE, !.pause = @ \/ pause]
  <2>1. a \in Runtime /\ a.turns = e.turns /\ a.tool_calls = e.tool_calls
    BY <1>0, <1>1, AnsweredTypes
  <2> HIDE DEF a
  <2>p. a.pause \in BOOLEAN
    BY <2>1 DEF Runtime
  <2>2. a.pause \/ pause \in BOOLEAN
    BY <2>p
  <2>3. b \in Runtime /\ b.turns = e.turns /\ b.tool_calls = e.tool_calls
    BY <2>1, <2>2 DEF Runtime
  <2>4. /\ Succeeded(b) \in Runtime /\ Succeeded(b).turns = e.turns
        /\ Succeeded(b).tool_calls = e.tool_calls
    <3> HIDE DEF b
    <3> QED BY <1>0, <2>3, BoundaryTypes
  <2> QED BY <2>4 DEF a
<1>2. CASE RejectTool(w)
  <2> DEFINE a == Answered(e, "result")
             b == [a EXCEPT !.final = TRUE]
             rt == Succeeded(b)
  <2>1. /\ Persist(w, "tool_completed", rt, "advance", rt) /\ at[w] = "advance"
        /\ e.calls # <<>>
        /\ UNCHANGED <<hostVars, performed, requests>> /\ granted' = granted
    BY <1>2 DEF RejectTool, AtCall, In, world
  <2>2. a \in Runtime /\ a.turns = e.turns /\ a.tool_calls = e.tool_calls
    BY <1>0, <2>1, AnsweredTypes
  <2> HIDE DEF a
  <2>3. b \in Runtime /\ b.turns = e.turns /\ b.tool_calls = e.tool_calls
    BY <2>2 DEF Runtime
  <2> HIDE DEF b
  <2>4. rt \in Runtime /\ rt.turns = e.turns /\ rt.tool_calls = e.tool_calls
    BY <1>0, <2>3, BoundaryTypes
  <2> HIDE DEF rt
  <2> QED BY <1>0, <2>1, <2>4, PlainCommit DEF CallPoints, Boundaries
<1>3. CASE RequestApproval(w)
  <2>1. /\ Persist(w, "approval_pending", e, "asking", e) /\ at[w] = "advance"
        /\ e.calls # <<>>
        /\ UNCHANGED <<hostVars, performed, requests>> /\ granted' = granted
    BY <1>3 DEF RequestApproval, AtCall, In, world
  <2> QED BY <1>0, <2>1, PlainCommit DEF Boundaries
<1>4. CASE Defer(w)
  <2> DEFINE m == Marked(e, "defer")
             rt == [m EXCEPT !.pending = Head(e.calls)]
  <2>1. /\ Persist(w, "approval_pending", rt, "deferring", rt) /\ at[w] = "asking"
        /\ granted' \in {granted, granted \cup {Head(e.calls)}}
        /\ UNCHANGED <<hostVars, performed, requests>>
    BY <1>4 DEF Defer, Decision
  <2>2. e.calls # <<>>
    BY <1>0, <2>1 DEF CallPoints
  <2>3. Head(e.calls) \in Calls
    BY <1>0, <2>2
  <2>4. m \in Runtime /\ m.calls = e.calls /\ m.turns = e.turns /\ m.tool_calls = e.tool_calls
    BY <1>0, <2>2, DecisionTypes
  <2> HIDE DEF m
  <2>5. rt \in Runtime /\ rt.calls = e.calls /\ rt.turns = e.turns /\ rt.tool_calls = e.tool_calls
    BY <2>3, <2>4 DEF Runtime
  <2>6. granted' \in SUBSET Calls
    BY <1>0, <2>1, <2>3
  <2> HIDE DEF rt
  <2> QED BY <1>0, <2>1, <2>2, <2>5, <2>6, PlainCommit DEF Boundaries
<1>5. CASE PauseForDecision(w)
  <2>1. /\ Persist(w, "paused", e, "paused", e) /\ at[w] = "deferring"
        /\ UNCHANGED <<hostVars, performed, requests>> /\ granted' = granted
    BY <1>5 DEF PauseForDecision, world
  <2> QED BY <1>0, <2>1, PlainCommit DEF Boundaries, CallPoints
<1>6. CASE PrepareTool(w)
  <2> DEFINE p == Prepared(e, seqno[w] + 1)
  <2>1. /\ p \in Runtime /\ p.turns = e.turns /\ p.tool_calls = e.tool_calls
        /\ p.calls = e.calls
    BY <1>0, BoundaryTypes
  <2>2. /\ Persist(w, "tool_prepared", p, "tool_ready", p)
        /\ at[w] = "approved" \/ (at[w] = "advance" /\ e.calls # <<>>)
        /\ UNCHANGED <<hostVars, performed, requests>> /\ granted' = granted
    BY <1>6 DEF PrepareTool, AtCall, In, world
  <2>3. e.calls # <<>> /\ at[w] # "idle"
    BY <1>0, <2>2 DEF CallPoints
  <2> HIDE DEF p
  <2> QED BY <1>0, <2>1, <2>2, <2>3, PlainCommit DEF Boundaries
<1>7. CASE Handoff(w)
  <2> DEFINE rt == HandedOff(e)
  <2>1. /\ Persist(w, "handoff_completed", rt, "advance", rt) /\ at[w] = "tool_ready"
        /\ UNCHANGED <<hostVars, performed, requests>> /\ granted' = granted
    BY <1>7 DEF Handoff, world
  <2>2. rt \in Runtime /\ rt.turns = e.turns /\ rt.tool_calls = e.tool_calls
    BY <1>0, TurnTypes
  <2> HIDE DEF rt
  <2> QED BY <1>0, <2>1, <2>2, PlainCommit DEF Boundaries, CallPoints
<1>8. CASE DispatchTool(w)
  <2> DEFINE d == ToolDispatched(e)
  <2>1. /\ d \in Runtime /\ d.turns = e.turns /\ d.tool_calls = e.tool_calls + 1
        /\ d.effect.state = "dispatched" /\ d.calls = e.calls
    BY <1>0, BoundaryTypes
  <2>2. /\ Persist(w, "tool_dispatched", d, "tool_dispatched", d) /\ at[w] = "tool_ready"
        /\ UNCHANGED <<hostVars, performed, requests>> /\ granted' = granted
    BY <1>8 DEF DispatchTool, world
  <2>3. e.calls # <<>>
    BY <1>0, <2>2 DEF CallPoints
  <2> HIDE DEF d
  <2>4. Commits(w, "tool_dispatched", d, "tool_dispatched", d)
    BY <1>0, <2>1, <2>2, <2>3 DEF Commits, Points, InFlight, Boundaries
  <2> QED BY <2>4 DEF CommitMove
<1>9. CASE FinishTool(w)
  <2>1. /\ at[w] = "tool_done"
        /\ UNCHANGED <<hostVars, performed, requests>> /\ granted' = granted
    BY <1>9 DEF FinishTool, world
  <2>2. PICK pause \in BOOLEAN :
          LET rt == Succeeded([Answered(e, "result") EXCEPT !.final = TRUE, !.pause = @ \/ pause])
          IN Persist(w, "tool_completed", rt, "advance", rt)
    BY <1>9 DEF FinishTool
  <2> DEFINE rt == Succeeded([Answered(e, "result") EXCEPT !.final = TRUE, !.pause = @ \/ pause])
  <2>3. rt \in Runtime /\ rt.turns = e.turns /\ rt.tool_calls = e.tool_calls
    BY <1>0, <1>1, <2>1 DEF CallPoints
  <2>4. Persist(w, "tool_completed", rt, "advance", rt)
    BY <2>2
  <2> HIDE DEF rt
  <2> QED BY <1>0, <2>1, <2>3, <2>4, PlainCommit DEF Boundaries, CallPoints
<1>10. CASE PauseForTool(w)
  <2> DEFINE rt == [e EXCEPT !.phase = "Model", !.pause = FALSE]
  <2>1. /\ Persist(w, "paused", rt, "paused", rt) /\ at[w] = "advance"
        /\ UNCHANGED <<hostVars, performed, requests>> /\ granted' = granted
    BY <1>10 DEF PauseForTool, ToolsDone, In, world
  <2>2. rt \in Runtime /\ rt.turns = e.turns /\ rt.tool_calls = e.tool_calls
    BY <1>0 DEF Runtime, Phases
  <2> HIDE DEF rt
  <2> QED BY <1>0, <2>1, <2>2, PlainCommit DEF Boundaries, CallPoints
<1> QED BY <1>2, <1>3, <1>4, <1>5, <1>6, <1>7, <1>8, <1>9, <1>10

(* The classification: actions that commit nothing.                        *)
LEMMA LocalMoves ==
  ASSUME Shape, NEW w \in Workers, Approve(w) \/ Deny(w) \/ EndTools(w)
  PROVE  LocalMove(w)
<1> DEFINE e == eng[w]
<1>0. /\ e \in Runtime /\ e.turns \in Nat /\ e.tool_calls \in Nat
      /\ e.calls \in Seq(Calls) /\ granted \in SUBSET Calls
      /\ at[w] \in CallPoints => e.calls # <<>>
  BY EngineTypes
<1>1. approvals \in [Workers -> [Calls -> Decisions]]
  BY DEF Shape, RunTypes
<1>2. ASSUME NEW c \in Calls
      PROVE  Undecided(w, c) \in [Workers -> [Calls -> Decisions]]
  BY <1>1 DEF Undecided, Decisions
<1>3. CASE Approve(w)
  <2> DEFINE m == Marked(e, "approve")
             rt == WithoutPending(m)
  <2>1. /\ Local(w, "approved", rt) /\ at[w] = "asking"
        /\ approvals' = Undecided(w, Head(e.calls))
        /\ granted' \in {granted, granted \cup {Head(e.calls)}}
        /\ UNCHANGED <<hostVars, performed, requests>>
    BY <1>3 DEF Approve, Decision
  <2>2. e.calls # <<>>
    BY <1>0, <2>1 DEF CallPoints
  <2>3. Head(e.calls) \in Calls
    BY <1>0, <2>2
  <2>4. m \in Runtime /\ m.calls = e.calls /\ m.turns = e.turns /\ m.tool_calls = e.tool_calls
    BY <1>0, <2>2, DecisionTypes
  <2> HIDE DEF m
  <2>5. rt \in Runtime /\ rt.calls = e.calls /\ rt.turns = e.turns /\ rt.tool_calls = e.tool_calls
    BY <2>2, <2>4, DecisionTypes
  <2>6. approvals' \in [Workers -> [Calls -> Decisions]] /\ granted' \in SUBSET Calls
    BY <1>0, <1>2, <2>1, <2>3
  <2> HIDE DEF rt
  <2>7. Thinks(w, "approved", rt)
    BY <1>0, <2>1, <2>2, <2>5, <2>6 DEF Thinks, Points, InFlight
  <2> QED BY <2>7 DEF LocalMove
<1>4. CASE Deny(w)
  <2> DEFINE m == Marked(e, "deny")
             p == WithoutPending(m)
             rt == Answered(p, "result")
  <2>1. /\ Local(w, "advance", rt) /\ at[w] = "asking"
        /\ approvals' = Undecided(w, Head(e.calls))
        /\ granted' \in {granted, granted \cup {Head(e.calls)}}
        /\ UNCHANGED <<hostVars, performed, requests>>
    BY <1>4 DEF Deny, Decision
  <2>2. e.calls # <<>>
    BY <1>0, <2>1 DEF CallPoints
  <2>3. Head(e.calls) \in Calls
    BY <1>0, <2>2
  <2>4. m \in Runtime /\ m.calls = e.calls /\ m.turns = e.turns /\ m.tool_calls = e.tool_calls
    BY <1>0, <2>2, DecisionTypes
  <2> HIDE DEF m
  <2>5. p \in Runtime /\ p.calls = e.calls /\ p.turns = e.turns /\ p.tool_calls = e.tool_calls
    BY <2>2, <2>4, DecisionTypes
  <2> HIDE DEF p
  <2>6. rt \in Runtime /\ rt.turns = e.turns /\ rt.tool_calls = e.tool_calls
    BY <2>2, <2>5, AnsweredTypes
  <2>7. approvals' \in [Workers -> [Calls -> Decisions]] /\ granted' \in SUBSET Calls
    BY <1>0, <1>2, <2>1, <2>3
  <2> HIDE DEF rt
  <2>8. Thinks(w, "advance", rt)
    BY <1>0, <2>1, <2>6, <2>7 DEF Thinks, Points, InFlight, CallPoints
  <2> QED BY <2>8 DEF LocalMove
<1>5. CASE EndTools(w)
  <2>1. PICK phase \in {"Finish", "Model"} : Local(w, "advance", [e EXCEPT !.phase = phase])
    BY <1>5 DEF EndTools
  <2>2. /\ at[w] = "advance" /\ approvals' = approvals
        /\ UNCHANGED <<hostVars, performed, requests>> /\ granted' = granted
    BY <1>5 DEF EndTools, ToolsDone, In, world
  <2> DEFINE rt == [e EXCEPT !.phase = phase]
  <2>3. rt \in Runtime /\ rt.turns = e.turns /\ rt.tool_calls = e.tool_calls
    BY <1>0 DEF Runtime, Phases
  <2>4. Local(w, "advance", rt)
    BY <2>1
  <2> HIDE DEF rt
  <2>5. Thinks(w, "advance", rt)
    BY <1>0, <1>1, <2>2, <2>3, <2>4 DEF Thinks, Points, InFlight, CallPoints
  <2> QED BY <2>5 DEF LocalMove
<1> QED BY <1>3, <1>4, <1>5

(* Every step of an engine is one of these kinds.                          *)
LEMMA EngineMoves ==
  ASSUME Shape, NEW w \in Workers, EngineStep(w)
  PROVE  CommitMove(w) \/ LocalMove(w) \/ TurnsExhausted(w) \/ RequestModel(w) \/ ExecuteTool(w)
  BY ModelMoves, ToolMoves, LocalMoves DEF EngineStep

--------------------------------------------------------------------------------
(* The type invariant.                                                     *)

(* A step of an engine keeps the shape.                                    *)
LEMMA EngineShape ==
  ASSUME Shape, NEW w \in Workers, EngineStep(w)
  PROVE  Shape'
<1>s. at[w] # "idle" => session[w] # Closed
  BY DEF Shape, RunsWithSession
<1>1. CASE CommitMove(w)
  <2>1. PICK b, saved, point, rt : Commits(w, b, saved, point, rt)
    BY <1>1 DEF CommitMove
  <2>2. RunTypes' /\ RunsWithSession' /\ CallsAtHand'
    BY <1>s, <2>1, PersistTypes DEF Commits
  <2>3. OutsideTypes'
    BY <2>1 DEF Commits, Shape, OutsideTypes, hostVars
  <2> QED BY <2>2, <2>3 DEF Shape
<1>2. CASE LocalMove(w)
  <2>1. PICK point, rt : Thinks(w, point, rt)
    BY <1>2 DEF LocalMove
  <2>2. RunTypes'
    BY <2>1 DEF Thinks, Local, GoOn, Shape, RunTypes
  <2>3. OutsideTypes'
    BY <2>1 DEF Thinks, Shape, OutsideTypes, hostVars
  <2>4. RunsWithSession'
    BY <2>1 DEF Thinks, Local, GoOn, Shape, RunTypes, RunsWithSession
  <2>5. CallsAtHand'
    BY <2>1 DEF Thinks, Local, GoOn, Shape, RunTypes, CallsAtHand
  <2> QED BY <2>2, <2>3, <2>4, <2>5 DEF Shape
<1>3. CASE TurnsExhausted(w)
  <2>1. EngineGone(w) /\ store' = store /\ UNCHANGED <<hostVars, world>>
    BY <1>3 DEF TurnsExhausted
  <2>2. RunTypes' /\ RunsWithSession' /\ CallsAtHand'
    BY <2>1, EngineGoneTypes DEF Shape, RunTypes
  <2>3. OutsideTypes'
    BY <2>1 DEF Shape, OutsideTypes, hostVars, world
  <2> QED BY <2>2, <2>3 DEF Shape
<1>4. CASE RequestModel(w)
  <2>1. /\ at[w] = "model_dispatched" /\ at' = [at EXCEPT ![w] = "model_sent"]
        /\ eng' = [eng EXCEPT ![w] = eng[w]] /\ requests' = requests + 1
        /\ UNCHANGED <<store, session, seqno, attempt, approvals, grants, held, performed, granted>>
    BY <1>4 DEF RequestModel, Local, GoOn, hostVars
  <2>2. RunTypes'
    BY <2>1 DEF Shape, RunTypes, Points
  <2>3. OutsideTypes'
    BY <2>1 DEF Shape, OutsideTypes
  <2>4. RunsWithSession' /\ CallsAtHand'
    BY <2>1 DEF Shape, RunTypes, RunsWithSession, CallsAtHand, CallPoints
  <2> QED BY <2>2, <2>3, <2>4 DEF Shape
<1>5. CASE ExecuteTool(w)
  <2>1. /\ at[w] = "tool_dispatched" /\ at' = [at EXCEPT ![w] = "tool_done"]
        /\ eng' = [eng EXCEPT ![w] = eng[w]]
        /\ performed' = [performed EXCEPT ![Head(eng[w].calls)] = @ + 1]
        /\ UNCHANGED <<store, session, seqno, attempt, approvals, grants, held, requests, granted>>
    BY <1>5 DEF ExecuteTool, Local, GoOn, hostVars
  <2>2. RunTypes'
    BY <2>1 DEF Shape, RunTypes, Points
  <2>3. OutsideTypes'
    <3>1. performed \in [Calls -> Nat]
      BY DEF Shape, OutsideTypes
    <3>2. performed' \in [Calls -> Nat]
      <4> DEFINE c == Head(eng[w].calls)
                 n == performed[c] + 1
      <4>1. performed' = [performed EXCEPT ![c] = n]
        BY <2>1
      <4> HIDE DEF c
      <4>2. c \in Calls => n \in Nat
        BY <3>1
      <4> HIDE DEF n
      <4> QED BY <3>1, <4>1, <4>2
    <3> QED BY <2>1, <3>2 DEF Shape, OutsideTypes
  <2>4. RunsWithSession' /\ CallsAtHand'
    BY <2>1 DEF Shape, RunTypes, RunsWithSession, CallsAtHand, CallPoints
  <2> QED BY <2>2, <2>3, <2>4 DEF Shape
<1> QED BY <1>1, <1>2, <1>3, <1>4, <1>5, EngineMoves

(* Opening a session leaves a well-formed one.                             *)
LEMMA OpenTypes ==
  ASSUME Shape, NEW w \in Workers, Open(w)
  PROVE  /\ session' \in [Workers -> Session \cup {Closed}]
         /\ session'[w] # Closed /\ session[w] = Closed /\ at[w] = "idle"
         /\ \A v \in Workers \ {w} : session'[v] = session[v]
<1> DEFINE seq == SequenceOf(store.doc)
           calls == ToolCallsOf(store.doc)
           new == [token |-> held[w], revision |-> store.revision, sequence |-> seq,
                   tool_calls |-> calls, effects |-> store.effects]
<1>1. held[w] \in Nat /\ store.revision \in Nat /\ store.effects \in SUBSET Effect
  BY DEF Shape, RunTypes, OutsideTypes, StoredRun
<1>2. store.doc \in Checkpoint \cup {NoCheckpoint}
  BY DEF Shape, RunTypes, StoredRun
<1>3. seq \in Nat /\ calls \in Nat
  BY <1>2 DEF SequenceOf, ToolCallsOf, Checkpoint, Runtime
<1>4. session' = [session EXCEPT ![w] = new] /\ session[w] = Closed
  BY DEF Open
<1> HIDE DEF seq, calls
<1>5. new \in Session
  BY <1>1, <1>3 DEF Session
<1>6. new # Closed
  BY <1>5, NullAssumption
<1>7. session \in [Workers -> Session \cup {Closed}] /\ at[w] = "idle"
  BY <1>4 DEF Shape, RunTypes, RunsWithSession
<1> HIDE DEF new
<1> QED BY <1>4, <1>5, <1>6, <1>7

(* A restored engine.                                                      *)
LEMMA RestoredTypes ==
  ASSUME NEW ck \in Checkpoint
  PROVE  /\ Restored(ck) \in Runtime
         /\ Restored(ck).turns = ck.runtime.turns
         /\ Restored(ck).tool_calls = ck.runtime.tool_calls
         /\ RestoredDecisions(ck.runtime) \in [Calls -> Decisions]
<1>1. ck.runtime \in Runtime
  BY DEF Checkpoint
<1>2. ck.runtime.journal \in [Calls -> Decisions]
  BY <1>1 DEF Runtime
<1>3. RestoredDecisions(ck.runtime) \in [Calls -> Decisions]
  BY <1>2 DEF RestoredDecisions, Decisions
<1> QED BY <1>1, <1>3 DEF Restored, Runtime, Phases

(* A step of a host keeps the shape.                                       *)
LEMMA HostShape ==
  ASSUME Shape, NEW w \in Workers, HostStep(w)
  PROVE  Shape'
<1>t. store \in StoredRun /\ grants \in Nat /\ held \in [Workers -> Nat]
  BY DEF Shape, RunTypes, OutsideTypes
<1>1. CASE AcquireLease(w)
  <2>1. grants' \in Nat /\ held' \in [Workers -> Nat]
    BY <1>t, <1>1 DEF AcquireLease
  <2>2. store' \in StoredRun
    BY <1>t, <1>1, <2>1 DEF AcquireLease, StoredRun
  <2>3. UNCHANGED <<session, at, eng, seqno, attempt, approvals, performed, requests, granted>>
    BY <1>1 DEF AcquireLease, engineVars, world
  <2> QED BY <2>1, <2>2, <2>3 DEF Shape, RunTypes, OutsideTypes, RunsWithSession, CallsAtHand
<1>2. CASE ReleaseLease(w)
  <2>1. held' \in [Workers -> Nat] /\ grants' = grants
    BY <1>t, <1>2 DEF ReleaseLease, NoToken
  <2>2. store' \in StoredRun
    BY <1>t, <1>2 DEF ReleaseLease, StoredRun, NoToken
  <2>3. UNCHANGED <<session, at, eng, seqno, attempt, approvals, performed, requests, granted>>
    BY <1>2 DEF ReleaseLease, engineVars, world
  <2> QED BY <1>t, <2>1, <2>2, <2>3 DEF Shape, RunTypes, OutsideTypes, RunsWithSession, CallsAtHand
<1>3. ASSUME NEW a \in Attempts, StartFresh(w, a)
      PROVE  Shape'
  <2>1. /\ at' = [at EXCEPT ![w] = "advance"] /\ attempt' = [attempt EXCEPT ![w] = a]
        /\ UNCHANGED <<store, grants, held, eng, seqno, approvals, performed, requests, granted>>
        /\ Open(w)
    BY <1>3 DEF StartFresh, hostVars, world
  <2>2. RunTypes'
    BY <2>1, OpenTypes DEF Shape, RunTypes, Points
  <2>3. RunsWithSession' /\ CallsAtHand'
    BY <2>1, OpenTypes DEF Shape, RunTypes, RunsWithSession, CallsAtHand, CallPoints
  <2> QED BY <2>1, <2>2, <2>3 DEF Shape, OutsideTypes
<1>4. ASSUME NEW a \in Attempts, Recover(w, a)
      PROVE  Shape'
  <2> DEFINE ck == store.doc
             point == IF ck.boundary \in {"approval_pending", "paused"} /\ ck.runtime.pending # NoCall
                      THEN "paused" ELSE "advance"
  <2>1. /\ at' = [at EXCEPT ![w] = point] /\ attempt' = [attempt EXCEPT ![w] = a]
        /\ eng' = [eng EXCEPT ![w] = Restored(ck)]
        /\ seqno' = [seqno EXCEPT ![w] = ck.sequence]
        /\ approvals' = [approvals EXCEPT ![w] = RestoredDecisions(ck.runtime)]
        /\ UNCHANGED <<store, grants, held, performed, requests, granted>>
        /\ Open(w) /\ ck # NoCheckpoint
    BY <1>4 DEF Recover, hostVars, world
  <2>2. ck \in Checkpoint
    BY <1>t, <2>1 DEF StoredRun
  <2>3. point \in {"paused", "advance"} /\ ck.sequence \in Nat
    BY <2>2 DEF Checkpoint
  <2> HIDE DEF point, ck
  <2>4. RunTypes'
    BY <2>1, <2>2, <2>3, OpenTypes, RestoredTypes DEF Shape, RunTypes, Points
  <2>5. RunsWithSession'
    BY <2>1, <2>3, OpenTypes DEF Shape, RunTypes, RunsWithSession
  <2>6. CallsAtHand'
    BY <2>1, <2>3 DEF Shape, RunTypes, CallsAtHand, CallPoints
  <2> QED BY <2>1, <2>4, <2>5, <2>6 DEF Shape, OutsideTypes
<1>5. CASE ResumeContinuation(w)
  <2>1. /\ at[w] = "paused" /\ at' = [at EXCEPT ![w] = "advance"]
        /\ UNCHANGED <<store, grants, held, session, eng, seqno, attempt, performed, requests>>
    BY <1>5 DEF ResumeContinuation, hostVars
  <2>2. eng[w].pending \in Calls \cup {NoCall}
    BY DEF Shape, RunTypes, Runtime
  <2>3. /\ approvals' \in [Workers -> [Calls -> Decisions]]
        /\ granted' \in SUBSET Calls
    <3>1. NoDecisions \in [Calls -> Decisions]
      BY FreshTypes
    <3>2. approvals \in [Workers -> [Calls -> Decisions]] /\ granted \in SUBSET Calls
      BY DEF Shape, RunTypes, OutsideTypes
    <3>3. CASE /\ eng[w].pending = NoCall
               /\ approvals' = [approvals EXCEPT ![w] = NoDecisions]
               /\ UNCHANGED granted
      BY <3>1, <3>2, <3>3
    <3>4. ASSUME NEW d \in {"approve", "deny", "defer"}, eng[w].pending # NoCall,
                 approvals' = [approvals EXCEPT ![w] = [NoDecisions EXCEPT ![eng[w].pending] = d]],
                 granted' = IF d = "approve" THEN granted \cup {eng[w].pending} ELSE granted
          PROVE  /\ approvals' \in [Workers -> [Calls -> Decisions]]
                 /\ granted' \in SUBSET Calls
      <4>1. [NoDecisions EXCEPT ![eng[w].pending] = d] \in [Calls -> Decisions]
        BY <3>1 DEF Decisions
      <4> QED BY <2>2, <3>2, <3>4, <4>1
    <3> QED BY <1>5, <3>3, <3>4 DEF ResumeContinuation
  <2>4. RunTypes'
    BY <2>1, <2>3 DEF Shape, RunTypes, Points
  <2>5. RunsWithSession' /\ CallsAtHand'
    BY <2>1 DEF Shape, RunTypes, RunsWithSession, CallsAtHand, CallPoints
  <2> QED BY <2>1, <2>3, <2>4, <2>5 DEF Shape, OutsideTypes
<1>6. CASE EngineReturns(w)
  <2>1. EngineGone(w) /\ store' = store /\ UNCHANGED <<grants, held, performed, requests, granted>>
    BY <1>6 DEF EngineReturns, hostVars, world
  <2>2. RunTypes' /\ RunsWithSession' /\ CallsAtHand'
    BY <1>t, <2>1, EngineGoneTypes
  <2> QED BY <2>1, <2>2 DEF Shape, OutsideTypes
<1>7. CASE Crash(w)
  <2>1. /\ EngineGone(w) /\ store' = store /\ held' = [held EXCEPT ![w] = NoToken]
        /\ UNCHANGED <<grants, performed, requests, granted>>
    BY <1>7 DEF Crash, world
  <2>2. RunTypes' /\ RunsWithSession' /\ CallsAtHand'
    BY <1>t, <2>1, EngineGoneTypes
  <2> QED BY <1>t, <2>1, <2>2 DEF Shape, OutsideTypes, NoToken
<1> QED BY <1>1, <1>2, <1>3, <1>4, <1>5, <1>6, <1>7 DEF HostStep

(* Every step keeps the shape.                                             *)
LEMMA ShapeStep == ASSUME Shape, [Next]_vars PROVE Shape'
<1>1. CASE LeaseExpires
  <2>1. /\ store' = [store EXCEPT !.live = FALSE]
        /\ UNCHANGED <<grants, held, session, at, eng, seqno, attempt, approvals,
                       performed, requests, granted>>
    BY <1>1 DEF LeaseExpires, hostVars, engineVars, world
  <2>2. store' \in StoredRun
    BY <2>1 DEF Shape, RunTypes, StoredRun
  <2> QED BY <2>1, <2>2 DEF Shape, RunTypes, OutsideTypes, RunsWithSession, CallsAtHand
<1>2. CASE UNCHANGED vars
  BY <1>2 DEF vars, Shape, RunTypes, OutsideTypes, RunsWithSession, CallsAtHand
<1> QED BY <1>1, <1>2, EngineShape, HostShape DEF Next

(* Initially nothing is stored and no engine runs.                         *)
LEMMA InitShape == Init => Shape
<1> SUFFICES ASSUME Init PROVE Shape
  OBVIOUS
<1>1. (CHOOSE a \in Attempts : TRUE) \in Attempts
  BY ConstantsAssumption
<1>2. store \in StoredRun
  <2>1. <<>> \in Seq(Nat)
    OBVIOUS
  <2> QED BY <2>1 DEF Init, StoredRun, NoToken
<1>3. RunTypes
  BY <1>1, <1>2, FreshTypes DEF Init, RunTypes, Points
<1>4. OutsideTypes
  BY DEF Init, OutsideTypes, NoToken
<1> QED BY <1>3, <1>4 DEF Init, Shape, RunsWithSession, CallsAtHand, CallPoints

(* Every variable has its type in every reachable state, whatever the      *)
(* workers, calls and limits are.                                          *)
THEOREM RunnerTypes == Spec => []TypeOK
<1>1. Shape => TypeOK
  BY DEF Shape, RunTypes, OutsideTypes, TypeOK
<1> QED BY <1>1, InitShape, ShapeStep, PTL DEF Spec

--------------------------------------------------------------------------------
(* A dispatched effect has one owner.                                      *)

(* w would pass the revision check, and its engine also the check of       *)
(* sequence numbers.                                                       *)
Current(w) == session[w] # Closed /\ session[w].revision = store.revision
InStep(w) == Current(w) /\ seqno[w] = session[w].sequence

Dispatched == \E e \in store.effects : outcome_unknown(e)

(* The ledger knows the effect of the stored checkpoint, which is numbered *)
(* from 1.                                                                 *)
DocSound ==
    store.doc # NoCheckpoint =>
        /\ store.doc.sequence > 0
        /\ store.doc.runtime.effect = NoEffect \/ store.doc.runtime.effect \in store.effects

(* A worker without an engine has nothing left of an earlier one.          *)
IdleFresh == \A w \in Workers : at[w] = "idle" => eng[w] = FreshRuntime /\ seqno[w] = 0

Behind == \A w \in Workers : session[w] # Closed => session[w].revision <= store.revision

(* A current session has seen all of the stored run.                       *)
Faithful ==
    \A w \in Workers : Current(w) =>
        /\ session[w].sequence = SequenceOf(store.doc)
        /\ session[w].effects = store.effects

(* An engine in step has counted everything the stored run has.            *)
Ahead ==
    \A w \in Workers : InStep(w) =>
        /\ eng[w].turns >= TurnsOf(store.doc)
        /\ eng[w].tool_calls >= ToolCallsOf(store.doc)

OneOwner == Dispatched => \A v, w \in Workers : Current(v) /\ Current(w) => v = w

Owner == \A w \in Workers : at[w] \in InFlight => InStep(w) /\ Dispatched

(* A dispatch that is committed but not carried out is counted already.    *)
Reserved ==
    \A w \in Workers :
        /\ at[w] = "model_dispatched" => requests < TurnsOf(store.doc)
        /\ at[w] = "tool_dispatched" => Cardinality(Performed) < ToolCallsOf(store.doc)

(* The owner is the attempt and the lease that committed the dispatch.     *)
Author ==
    \A w \in Workers :
        /\ Current(w) /\ store.doc # NoCheckpoint
        /\ outcome_unknown(store.doc.runtime.effect)
        => /\ attempt[w] = store.doc.attempt
           /\ session[w].token = store.writers[Len(store.writers)]

(* The strengthening of WriteAhead and Quarantined that is inductive.      *)
Ownership ==
    /\ DocSound /\ IdleFresh /\ Behind /\ Faithful /\ Ahead
    /\ OneOwner /\ Owner /\ Reserved /\ Author
    /\ IsFiniteSet(Performed) /\ WriteAhead

SameRun == /\ store'.revision = store.revision /\ store'.doc = store.doc
           /\ store'.effects = store.effects /\ store'.writers = store.writers

(* What is performed depends on the performed calls alone.                 *)
LEMMA PerformedSame == performed' = performed => Performed' = Performed
  BY DEF Performed

(* A step that neither writes the run, opens or closes a session, counts   *)
(* nor dispatches.                                                         *)
LEMMA QuietKeeps ==
  ASSUME Shape, Ownership, SameRun,
         UNCHANGED <<session, seqno, attempt, performed, requests>>,
         \A v \in Workers : \/ at'[v] = at[v] /\ eng'[v] = eng[v]
                            \/ /\ at[v] # "idle" /\ at'[v] \notin InFlight \cup {"idle"}
                               /\ eng'[v].turns = eng[v].turns
                               /\ eng'[v].tool_calls = eng[v].tool_calls
  PROVE  Ownership'
<1> USE DEF SameRun
<1>p. Performed' = Performed
  BY PerformedSame
<1>1. DocSound'
  BY DEF Ownership, DocSound
<1>2. IdleFresh'
  BY DEF Ownership, IdleFresh
<1>3. Behind' /\ Faithful'
  BY DEF Ownership, Behind, Faithful, Current, SequenceOf
<1>4. Ahead'
  BY DEF Ownership, Ahead, InStep, Current, TurnsOf, ToolCallsOf
<1>5. OneOwner'
  BY DEF Ownership, OneOwner, Dispatched, Current
<1>6. Owner'
  BY DEF Ownership, Owner, InStep, Current, Dispatched
<1>7. Reserved'
  BY <1>p DEF Ownership, Reserved, TurnsOf, ToolCallsOf, InFlight
<1>8. Author'
  BY DEF Ownership, Author, Current
<1>9. WriteAhead' /\ IsFiniteSet(Performed)'
  BY <1>p DEF Ownership, WriteAhead, TurnsOf, ToolCallsOf
<1> QED BY <1>1, <1>2, <1>3, <1>4, <1>5, <1>6, <1>7, <1>8, <1>9 DEF Ownership

(* The end of an engine, its last commit (if any) not acknowledged by the  *)
(* store: its session no longer counts.                                    *)
LEMMA GoneKeeps ==
  ASSUME Shape, Ownership, NEW w \in Workers, EngineGone(w),
         store' = store, UNCHANGED <<performed, requests>>
  PROVE  Ownership'
<1>p. Performed' = Performed
  BY PerformedSame
<1>w. session'[w] = Closed /\ at'[w] = "idle" /\ eng'[w] = FreshRuntime /\ seqno'[w] = 0
  BY DEF EngineGone, Shape, RunTypes
<1>v. \A v \in Workers \ {w} : /\ session'[v] = session[v] /\ at'[v] = at[v] /\ eng'[v] = eng[v]
                               /\ seqno'[v] = seqno[v] /\ attempt'[v] = attempt[v]
  BY DEF EngineGone, Shape, RunTypes
<1>c. \A v \in Workers : /\ Current(v)' => v # w /\ Current(v)
                         /\ InStep(v)' => v # w /\ InStep(v)
                         /\ InStep(v) /\ v # w => InStep(v)'
  BY <1>w, <1>v DEF Current, InStep
<1>d. "idle" \notin InFlight /\ (Dispatched' <=> Dispatched)
  BY DEF InFlight, Dispatched
<1>1. DocSound' /\ IdleFresh' /\ Behind'
  BY <1>w, <1>v DEF Ownership, DocSound, IdleFresh, Behind
<1>2. Faithful' /\ Ahead'
  BY <1>v, <1>c DEF Ownership, Faithful, Ahead
<1>3. OneOwner' /\ Owner'
  BY <1>w, <1>v, <1>c, <1>d DEF Ownership, OneOwner, Owner
<1>4. Reserved'
  BY <1>p, <1>w, <1>v DEF Ownership, Reserved
<1>5. Author'
  BY <1>v, <1>c DEF Ownership, Author
<1>6. WriteAhead' /\ IsFiniteSet(Performed)'
  BY <1>p DEF Ownership, WriteAhead
<1> QED BY <1>1, <1>2, <1>3, <1>4, <1>5, <1>6 DEF Ownership

(* A request is the one its dispatch counted.                              *)
LEMMA RequestKeeps ==
  ASSUME Shape, Ownership, NEW w \in Workers, RequestModel(w)
  PROVE  Ownership'
<1>1. /\ at[w] = "model_dispatched" /\ at' = [at EXCEPT ![w] = "model_sent"]
      /\ eng' = [eng EXCEPT ![w] = eng[w]] /\ requests' = requests + 1
      /\ UNCHANGED <<store, session, seqno, attempt, performed>>
  BY DEF RequestModel, Local, GoOn
<1>p. Performed' = Performed
  BY <1>1, PerformedSame
<1>w. at'[w] = "model_sent" /\ at \in [Workers -> Points]
  BY <1>1 DEF Shape, RunTypes
<1>v. \A v \in Workers : eng'[v] = eng[v] /\ (v # w => at'[v] = at[v])
  BY <1>1, <1>w DEF Shape, RunTypes
<1>o. InStep(w) /\ Dispatched
  BY <1>1 DEF Ownership, Owner, InFlight
<1>a. \A v \in Workers \ {w} : at[v] \notin InFlight
  BY <1>o DEF Ownership, Owner, OneOwner, InStep
<1>2. DocSound' /\ IdleFresh' /\ Behind' /\ Faithful' /\ Author'
  BY <1>1, <1>w, <1>v
     DEF Ownership, DocSound, IdleFresh, Behind, Faithful, Author, Current
<1>3. Ahead' /\ OneOwner'
  BY <1>1, <1>v DEF Ownership, Ahead, OneOwner, InStep, Current, Dispatched
<1>4. Owner'
  BY <1>1, <1>w, <1>v, <1>o, <1>a DEF Owner, InStep, Current, Dispatched
<1>5. Reserved'
  BY <1>w, <1>v, <1>a DEF Reserved, InFlight
<1>6. requests < TurnsOf(store.doc) /\ requests \in Nat /\ TurnsOf(store.doc) \in Nat
  <2>1. store.doc \in Checkpoint \cup {NoCheckpoint}
    BY DEF Shape, RunTypes, StoredRun
  <2>2. TurnsOf(store.doc) \in Nat
    BY <2>1 DEF TurnsOf, Checkpoint, Runtime
  <2> QED BY <1>1, <2>2 DEF Ownership, Reserved, Shape, OutsideTypes
<1>7. WriteAhead' /\ IsFiniteSet(Performed)'
  BY <1>1, <1>6, <1>p DEF Ownership, WriteAhead
<1> QED BY <1>2, <1>3, <1>4, <1>5, <1>7 DEF Ownership

(* So is an execution.                                                     *)
LEMMA ExecuteKeeps ==
  ASSUME Shape, Ownership, NEW w \in Workers, ExecuteTool(w)
  PROVE  Ownership'
<1> DEFINE c == Head(eng[w].calls)
<1>1. /\ at[w] = "tool_dispatched" /\ at' = [at EXCEPT ![w] = "tool_done"]
      /\ eng' = [eng EXCEPT ![w] = eng[w]]
      /\ performed' = [performed EXCEPT ![c] = performed[c] + 1]
      /\ UNCHANGED <<store, session, seqno, attempt, requests>>
  BY DEF ExecuteTool, Local, GoOn
<1> HIDE DEF c
<1>p. Performed' \subseteq Performed \cup {c}
  BY <1>1 DEF Performed, Shape, OutsideTypes
<1>f. /\ IsFiniteSet(Performed') /\ Cardinality(Performed') <= Cardinality(Performed) + 1
      /\ Cardinality(Performed) \in Nat
  <2>1. IsFiniteSet(Performed)
    BY DEF Ownership
  <2>2. IsFiniteSet(Performed \cup {c})
        /\ Cardinality(Performed \cup {c}) \in {Cardinality(Performed), Cardinality(Performed) + 1}
    BY <2>1, FS_AddElement
  <2>3. Cardinality(Performed) \in Nat
    BY <2>1, FS_CardinalityType
  <2>4. IsFiniteSet(Performed') /\ Cardinality(Performed') <= Cardinality(Performed \cup {c})
    BY <1>p, <2>2, FS_Subset
  <2>5. Cardinality(Performed') \in Nat /\ Cardinality(Performed \cup {c}) \in Nat
    BY <2>2, <2>4, FS_CardinalityType
  <2> QED BY <2>2, <2>3, <2>4, <2>5
<1>w. at'[w] = "tool_done" /\ at \in [Workers -> Points]
  BY <1>1 DEF Shape, RunTypes
<1>v. \A v \in Workers : eng'[v] = eng[v] /\ (v # w => at'[v] = at[v])
  BY <1>1, <1>w DEF Shape, RunTypes
<1>o. InStep(w) /\ Dispatched
  BY <1>1 DEF Ownership, Owner, InFlight
<1>a. \A v \in Workers \ {w} : at[v] \notin InFlight
  BY <1>o DEF Ownership, Owner, OneOwner, InStep
<1>2. DocSound' /\ IdleFresh' /\ Behind' /\ Faithful' /\ Author'
  BY <1>1, <1>w, <1>v
     DEF Ownership, DocSound, IdleFresh, Behind, Faithful, Author, Current
<1>3. Ahead' /\ OneOwner'
  BY <1>1, <1>v DEF Ownership, Ahead, OneOwner, InStep, Current, Dispatched
<1>4. Owner'
  BY <1>1, <1>w, <1>v, <1>o, <1>a DEF Owner, InStep, Current, Dispatched
<1>5. Reserved'
  BY <1>w, <1>v, <1>a DEF Reserved, InFlight
<1>6. Cardinality(Performed) < ToolCallsOf(store.doc) /\ ToolCallsOf(store.doc) \in Nat
  <2>1. store.doc \in Checkpoint \cup {NoCheckpoint}
    BY DEF Shape, RunTypes, StoredRun
  <2>2. ToolCallsOf(store.doc) \in Nat
    BY <2>1 DEF ToolCallsOf, Checkpoint, Runtime
  <2> QED BY <1>1, <2>2 DEF Ownership, Reserved
<1>7. Cardinality(Performed)' <= ToolCallsOf(store.doc)
  <2>1. Cardinality(Performed') \in Nat
    BY <1>f, FS_CardinalityType
  <2> QED BY <1>6, <1>f, <2>1
<1>8. WriteAhead' /\ IsFiniteSet(Performed)'
  BY <1>1, <1>7, <1>f DEF Ownership, WriteAhead
<1> QED BY <1>2, <1>3, <1>4, <1>5, <1>8 DEF Ownership

(* An effect that is saved as dispatched enters the ledger.                *)
LEMMA LedgerKnows ==
  ASSUME NEW effects, NEW effect \in Effect
  PROVE  effect = NoEffect \/ effect \in WithEffect(effects, effect)
  BY DEF WithEffect

(* A session that commits is current, in step, and, if an effect was       *)
(* dispatched, its owner: every other engine is left behind, and none of   *)
(* them is between a dispatch and its outcome.                             *)
LEMMA CommitExcludes ==
  ASSUME Shape, Ownership, NEW w \in Workers, session[w] # Closed,
         NEW ck, ck.sequence = seqno[w] + 1, Accepts(session[w], ck),
         store'.revision = session[w].revision + 1
  PROVE  /\ InStep(w)
         /\ store'.revision = store.revision + 1
         /\ \A v \in Workers \ {w} :
               /\ session[v] # Closed => session[v].revision < store'.revision
               /\ at[v] \notin InFlight
<1>1. seqno[w] \in Nat /\ session[w].sequence \in Nat /\ store.revision \in Nat
  BY DEF Shape, RunTypes, Session, StoredRun
<1>2. InStep(w)
  BY <1>1 DEF Accepts, InStep, Current
<1>3. \A v \in Workers : session[v] # Closed =>
          session[v].revision \in Nat /\ session[v].revision <= store.revision
  BY DEF Shape, RunTypes, Session, Ownership, Behind
<1>4. \A v \in Workers \ {w} : at[v] \notin InFlight
  BY <1>2 DEF Ownership, Owner, OneOwner, InStep
<1>5. store'.revision = store.revision + 1
  BY DEF Accepts
<1> QED BY <1>1, <1>2, <1>3, <1>4, <1>5

(* A commit, acknowledged or not.                                          *)
LEMMA CommitKeeps ==
  ASSUME Shape, Shape', Ownership, NEW w \in Workers,
         NEW b, NEW saved, NEW point, NEW rt, Commits(w, b, saved, point, rt)
  PROVE  Ownership'
<1> DEFINE s == session[w]
           ck == [sequence |-> seqno[w] + 1, attempt |-> attempt[w],
                  boundary |-> b, runtime |-> saved]
           new == [token |-> s.token, revision |-> s.revision + 1, sequence |-> ck.sequence,
                   tool_calls |-> saved.tool_calls,
                   effects |-> WithEffect(s.effects, saved.effect)]
<1>0. /\ at[w] # "idle" /\ s # Closed /\ s \in Session
      /\ b \in Boundaries /\ saved \in Runtime /\ rt \in Runtime
      /\ seqno[w] \in Nat /\ attempt[w] \in Attempts
      /\ UNCHANGED <<performed, requests>>
  BY DEF Commits, Shape, RunTypes, RunsWithSession
<1>p. Performed' = Performed
  BY <1>0, PerformedSame
<1>t. /\ saved.turns \in Nat /\ saved.tool_calls \in Nat /\ saved.effect \in Effect
      /\ eng[w].turns \in Nat /\ eng[w].tool_calls \in Nat
      /\ requests \in Nat /\ Cardinality(Performed) \in Nat
      /\ TurnsOf(store.doc) \in Nat /\ ToolCallsOf(store.doc) \in Nat
  <2>1. saved.turns \in Nat /\ saved.tool_calls \in Nat /\ saved.effect \in Effect
    BY <1>0 DEF Runtime
  <2>2. Cardinality(Performed) \in Nat
    BY FS_CardinalityType DEF Ownership
  <2>3. store.doc \in Checkpoint \cup {NoCheckpoint}
    BY DEF Shape, RunTypes, StoredRun
  <2>4. TurnsOf(store.doc) \in Nat /\ ToolCallsOf(store.doc) \in Nat
    BY <2>3 DEF TurnsOf, ToolCallsOf, Checkpoint, Runtime
  <2>5. requests \in Nat
    BY DEF Shape, OutsideTypes
  <2> QED BY <2>1, <2>2, <2>4, <2>5, EngineTypes
<1>k. ck \in Checkpoint /\ ck # NoCheckpoint
  BY <1>0, NullAssumption DEF Checkpoint
<1>1. ASSUME Accepts(s, ck), store' = Committed(s, ck),
             \A v \in Workers \ {w} : /\ session'[v] = session[v] /\ at'[v] = at[v]
                                      /\ eng'[v] = eng[v] /\ seqno'[v] = seqno[v]
                                      /\ attempt'[v] = attempt[v],
             \/ /\ session'[w] = new /\ at'[w] = point /\ eng'[w] = rt
                /\ seqno'[w] = seqno[w] + 1 /\ attempt'[w] = attempt[w]
             \/ /\ session'[w] = Closed /\ at'[w] = "idle" /\ eng'[w] = FreshRuntime
                /\ seqno'[w] = 0
      PROVE  Ownership'
  <2> DEFINE fx == WithEffect(s.effects, saved.effect)
  <2>c. /\ store'.revision = s.revision + 1 /\ store'.doc = ck
        /\ store'.effects = fx /\ store'.writers = Append(store.writers, s.token)
    <3>1. ck.runtime = saved
      OBVIOUS
    <3>2. store \in StoredRun
      BY DEF Shape, RunTypes
    <3> HIDE DEF ck, s
    <3> QED BY <1>0, <1>1, <1>k, <3>1, <3>2, CommitTypes
  <2>d. /\ ck.runtime = saved /\ ck.sequence = seqno[w] + 1 /\ ck.attempt = attempt[w]
        /\ TurnsOf(store'.doc) = saved.turns /\ ToolCallsOf(store'.doc) = saved.tool_calls
        /\ SequenceOf(store'.doc) = seqno[w] + 1
    BY <1>k, <2>c DEF TurnsOf, ToolCallsOf, SequenceOf
  <2>n. /\ new.token = s.token /\ new.revision = s.revision + 1
        /\ new.sequence = seqno[w] + 1 /\ new.effects = fx
    OBVIOUS
  <2>x. new.revision \in Nat
    BY <1>0, <2>n DEF Session
  <2>e. /\ InStep(w)
        /\ \A v \in Workers \ {w} :
               /\ session[v] # Closed => session[v].revision < store'.revision
               /\ at[v] \notin InFlight
    <3> HIDE DEF ck
    <3> QED BY <1>0, <1>1, <2>c, <2>d, CommitExcludes
  <2>a. eng[w].turns >= TurnsOf(store.doc) /\ eng[w].tool_calls >= ToolCallsOf(store.doc)
    BY <2>e DEF Ownership, Ahead
  <2>g. saved.turns >= eng[w].turns /\ saved.tool_calls >= eng[w].tool_calls
    BY DEF Commits
  <2> HIDE DEF ck, fx, new, s
  <2>v. \A v \in Workers \ {w} : ~Current(v)' /\ at'[v] \notin InFlight
    <3>1. \A v \in Workers \ {w} : session[v] # Closed => session[v].revision \in Nat
      BY DEF Shape, RunTypes, Session
    <3> QED BY <1>1, <2>e, <3>1 DEF Current
  <2>s. Current(w)' => /\ session'[w] = new /\ at'[w] = point /\ eng'[w] = rt
                       /\ attempt'[w] = attempt[w]
    BY <1>1 DEF Current
  <2>i. "idle" \notin InFlight
    BY DEF InFlight
  <2>1. DocSound'
    <3>1. saved.effect = NoEffect \/ saved.effect \in fx
      BY <1>t, LedgerKnows DEF fx
    <3>2. seqno[w] + 1 > 0
      BY <1>0
    <3> QED BY <2>c, <2>d, <3>1, <3>2 DEF DocSound
  <2>2. IdleFresh'
    <3>1. at'[w] = "idle" => eng'[w] = FreshRuntime /\ seqno'[w] = 0
      BY <1>1 DEF Commits
    <3> QED BY <1>1, <3>1 DEF Ownership, IdleFresh
  <2>3. Behind'
    <3>1. session'[w] # Closed => session'[w].revision <= store'.revision
      BY <1>1, <2>c, <2>n, <2>x
    <3>2. \A v \in Workers \ {w} : session'[v] # Closed => session'[v].revision <= store'.revision
      <4>1. store'.revision \in Nat
        BY DEF Shape, RunTypes, StoredRun
      <4>2. \A v \in Workers \ {w} : session[v] # Closed => session[v].revision \in Nat
        BY DEF Shape, RunTypes, Session
      <4> QED BY <1>1, <2>e, <4>1, <4>2
    <3> QED BY <3>1, <3>2 DEF Behind
  <2>4. Faithful'
    BY <2>c, <2>d, <2>n, <2>s, <2>v DEF Faithful
  <2>5. Ahead'
    <3>1. rt.turns = saved.turns /\ rt.tool_calls = saved.tool_calls
      BY DEF Commits
    <3> QED BY <1>t, <2>d, <2>s, <2>v, <3>1 DEF Ahead, InStep
  <2>6. OneOwner'
    BY <2>v DEF OneOwner
  <2>7. Owner'
    <3>1. CASE at'[w] \in InFlight
      <4>1. /\ session'[w] = new /\ at'[w] = point /\ seqno'[w] = seqno[w] + 1
        BY <1>1, <2>i, <3>1
      <4>2. saved.effect.state = "dispatched"
        BY <3>1, <4>1 DEF Commits
      <4>3. saved.effect # NoEffect
        BY <4>2 DEF NoEffect
      <4>4. saved.effect \in fx
        BY <1>t, <4>3, LedgerKnows DEF fx
      <4>5. Dispatched'
        BY <2>c, <4>2, <4>4 DEF Dispatched, outcome_unknown
      <4>6. new # Closed
        <5>1. session'[w] \in Session \cup {Closed} /\ at'[w] # "idle"
          BY <2>i, <3>1 DEF Shape, RunTypes
        <5>2. session'[w] # Closed
          BY <5>1 DEF Shape, RunsWithSession
        <5> QED BY <4>1, <5>2
      <4>7. InStep(w)'
        BY <2>c, <2>n, <4>1, <4>6 DEF InStep, Current
      <4> QED BY <2>v, <4>5, <4>7 DEF Owner
    <3>2. CASE at'[w] \notin InFlight
      BY <2>v, <3>2 DEF Owner
    <3> QED BY <3>1, <3>2
  <2>8. Reserved'
    <3>1. at'[w] \in InFlight => at'[w] = point
      BY <1>1, <2>i
    <3>2. at'[w] = "model_dispatched" => saved.turns = eng[w].turns + 1
      BY <3>1 DEF Commits, InFlight
    <3>3. at'[w] = "tool_dispatched" => saved.tool_calls = eng[w].tool_calls + 1
      BY <3>1 DEF Commits, InFlight
    <3>4. requests <= TurnsOf(store.doc) /\ Cardinality(Performed) <= ToolCallsOf(store.doc)
      BY DEF Ownership, WriteAhead
    <3>5. at'[w] = "model_dispatched" => requests < TurnsOf(store'.doc)
      BY <1>t, <2>a, <2>d, <3>2, <3>4
    <3>6. at'[w] = "tool_dispatched" => Cardinality(Performed) < ToolCallsOf(store'.doc)
      BY <1>t, <2>a, <2>d, <3>3, <3>4
    <3>7. \A v \in Workers \ {w} : at'[v] # "model_dispatched" /\ at'[v] # "tool_dispatched"
      BY <2>v DEF InFlight
    <3> QED BY <1>0, <1>p, <3>5, <3>6, <3>7 DEF Reserved
  <2>9. Author'
    <3>1. store.writers \in Seq(Nat) /\ s.token \in Nat
      BY <1>0 DEF Shape, RunTypes, StoredRun, Session
    <3>2. Append(store.writers, s.token)[Len(Append(store.writers, s.token))] = s.token
      BY <3>1
    <3> QED BY <2>c, <2>d, <2>n, <2>s, <2>v, <3>2 DEF Author
  <2>10. WriteAhead' /\ IsFiniteSet(Performed)'
    <3>1. requests <= saved.turns /\ Cardinality(Performed) <= saved.tool_calls
      BY <1>t, <2>a, <2>g DEF Ownership, WriteAhead
    <3> QED BY <1>0, <1>p, <2>d, <3>1 DEF Ownership, WriteAhead
  <2> QED BY <2>1, <2>2, <2>3, <2>4, <2>5, <2>6, <2>7, <2>8, <2>9, <2>10 DEF Ownership
<1>2. CASE EngineGone(w) /\ UNCHANGED store
  BY <1>0, <1>2, GoneKeeps
<1>3. CASE Accepts(s, ck) /\ store' = Committed(s, ck) /\ EngineGone(w)
  <2>1. /\ session'[w] = Closed /\ at'[w] = "idle" /\ eng'[w] = FreshRuntime /\ seqno'[w] = 0
        /\ \A v \in Workers \ {w} : /\ session'[v] = session[v] /\ at'[v] = at[v]
                                    /\ eng'[v] = eng[v] /\ seqno'[v] = seqno[v]
                                    /\ attempt'[v] = attempt[v]
    BY <1>3 DEF EngineGone, Shape, RunTypes
  <2> HIDE DEF s, ck, new
  <2> QED BY <1>1, <1>3, <2>1
<1>4. CASE /\ Accepts(s, ck) /\ store' = Committed(s, ck)
           /\ session' = [session EXCEPT ![w] = new]
           /\ seqno' = [seqno EXCEPT ![w] = seqno[w] + 1]
           /\ GoOn(w, point, rt)
  <2> HIDE DEF s, ck, new
  <2>1. /\ session'[w] = new /\ at'[w] = point /\ eng'[w] = rt
        /\ seqno'[w] = seqno[w] + 1 /\ attempt'[w] = attempt[w]
        /\ \A v \in Workers \ {w} : /\ session'[v] = session[v] /\ at'[v] = at[v]
                                    /\ eng'[v] = eng[v] /\ seqno'[v] = seqno[v]
                                    /\ attempt'[v] = attempt[v]
    BY <1>4 DEF GoOn, Shape, RunTypes
  <2> QED BY <1>1, <1>4, <2>1
<1> QED BY <1>2, <1>3, <1>4 DEF Commits, Persist

(* Opening a session, fresh or from a checkpoint: nothing is dispatched.   *)
LEMMA OpenKeeps ==
  ASSUME Shape, Ownership, NEW w \in Workers, NEW a \in Attempts,
         StartFresh(w, a) \/ Recover(w, a)
  PROVE  Ownership'
<1>1. /\ Open(w) /\ UNCHANGED <<store, performed, requests>>
      /\ at'[w] \in {"advance", "paused"}
      /\ \A v \in Workers \ {w} : /\ at'[v] = at[v] /\ eng'[v] = eng[v]
                                  /\ seqno'[v] = seqno[v] /\ attempt'[v] = attempt[v]
  BY DEF StartFresh, Recover, world, Shape, RunTypes
<1>2. ~Dispatched
  BY <1>1 DEF Open, Dispatched
<1>3. /\ session'[w] = [token |-> held[w], revision |-> store.revision,
                        sequence |-> SequenceOf(store.doc), tool_calls |-> ToolCallsOf(store.doc),
                        effects |-> store.effects]
      /\ at[w] = "idle"
      /\ \A v \in Workers \ {w} : session'[v] = session[v]
  BY <1>1, OpenTypes DEF Open, Shape, RunTypes
<1>4. store.doc # NoCheckpoint => store.doc \in Checkpoint
  BY DEF Shape, RunTypes, StoredRun
<1>p. Performed' = Performed
  BY <1>1, PerformedSame
<1>v. \A v \in Workers \ {w} : (Current(v)' => Current(v)) /\ (InStep(v)' => InStep(v))
  BY <1>1, <1>3 DEF Current, InStep
<1>i. "idle" \notin InFlight /\ at'[w] \notin InFlight /\ at'[w] # "idle"
  BY <1>1 DEF InFlight
<1>n. \A v \in Workers : at[v] \notin InFlight
  BY <1>2 DEF Ownership, Owner
<1>5. DocSound' /\ IdleFresh'
  BY <1>1, <1>i DEF Ownership, DocSound, IdleFresh
<1>6. Behind'
  <2>1. store.revision \in Nat
    BY DEF Shape, RunTypes, StoredRun
  <2>2. session'[w].revision <= store'.revision
    BY <1>1, <1>3, <2>1
  <2> QED BY <1>1, <1>3, <2>2 DEF Ownership, Behind
<1>7. Faithful'
  BY <1>1, <1>3, <1>v DEF Ownership, Faithful
<1>8. Ahead'
  <2>1. InStep(w)' => /\ eng'[w].turns >= TurnsOf(store.doc)
                      /\ eng'[w].tool_calls >= ToolCallsOf(store.doc)
    <3>1. CASE StartFresh(w, a)
      <4>1. eng'[w] = FreshRuntime /\ seqno'[w] = 0
        BY <1>3, <3>1 DEF StartFresh, Ownership, IdleFresh
      <4>2. InStep(w)' => SequenceOf(store.doc) = 0
        BY <1>3, <4>1 DEF InStep
      <4>3. SequenceOf(store.doc) = 0 => store.doc = NoCheckpoint
        BY <1>4 DEF Ownership, DocSound, SequenceOf
      <4>4. FreshRuntime.turns = 0 /\ FreshRuntime.tool_calls = 0
        BY DEF FreshRuntime
      <4> QED BY <4>1, <4>2, <4>3, <4>4 DEF TurnsOf, ToolCallsOf
    <3>2. CASE Recover(w, a)
      <4>1. eng'[w] = Restored(store.doc) /\ store.doc \in Checkpoint
            /\ store.doc # NoCheckpoint
        BY <1>4, <3>2 DEF Recover, Shape, RunTypes
      <4>2. /\ eng'[w].turns = TurnsOf(store.doc)
            /\ eng'[w].tool_calls = ToolCallsOf(store.doc)
        BY <4>1, RestoredTypes DEF TurnsOf, ToolCallsOf
      <4>3. TurnsOf(store.doc) \in Nat /\ ToolCallsOf(store.doc) \in Nat
        BY <4>1 DEF TurnsOf, ToolCallsOf, Checkpoint, Runtime
      <4> QED BY <4>2, <4>3
    <3> QED BY <3>1, <3>2
  <2> QED BY <1>1, <1>v, <2>1 DEF Ownership, Ahead
<1>9. OneOwner' /\ Owner'
  BY <1>1, <1>2, <1>i, <1>n DEF OneOwner, Owner, Dispatched
<1>10. Reserved'
  BY <1>1, <1>i, <1>n DEF Reserved, InFlight
<1>11. Author'
  <2>1. store.doc # NoCheckpoint => ~outcome_unknown(store.doc.runtime.effect)
    BY <1>2 DEF Ownership, DocSound, Dispatched, outcome_unknown, NoEffect
  <2> QED BY <1>1, <2>1 DEF Author
<1>12. WriteAhead' /\ IsFiniteSet(Performed)'
  BY <1>1, <1>p DEF Ownership, WriteAhead
<1> QED BY <1>5, <1>6, <1>7, <1>8, <1>9, <1>10, <1>11, <1>12 DEF Ownership

(* Every step keeps the ownership.                                         *)
LEMMA OwnershipStep ==
  ASSUME Shape, Shape', Ownership, [Next]_vars
  PROVE  Ownership'
<1>t. store \in StoredRun /\ at \in [Workers -> Points] /\ eng \in [Workers -> Runtime]
  BY DEF Shape, RunTypes
<1>1. ASSUME NEW w \in Workers, EngineStep(w)
      PROVE  Ownership'
  <2>1. CASE CommitMove(w)
    BY <2>1, CommitKeeps DEF CommitMove
  <2>2. CASE LocalMove(w)
    <3>1. PICK point, rt : Thinks(w, point, rt)
      BY <2>2 DEF LocalMove
    <3>2. /\ at' = [at EXCEPT ![w] = point] /\ eng' = [eng EXCEPT ![w] = rt]
          /\ UNCHANGED <<store, session, seqno, attempt, performed, requests>>
      BY <3>1 DEF Thinks, Local, GoOn
    <3>3. \A v \in Workers : \/ at'[v] = at[v] /\ eng'[v] = eng[v]
                             \/ /\ at[v] # "idle" /\ at'[v] \notin InFlight \cup {"idle"}
                                /\ eng'[v].turns = eng[v].turns
                                /\ eng'[v].tool_calls = eng[v].tool_calls
      BY <1>t, <3>1, <3>2 DEF Thinks
    <3> QED BY <3>2, <3>3, QuietKeeps DEF SameRun
  <2>3. CASE TurnsExhausted(w)
    BY <2>3, GoneKeeps DEF TurnsExhausted, world
  <2> QED BY <1>1, <2>1, <2>2, <2>3, RequestKeeps, ExecuteKeeps, EngineMoves
<1>2. ASSUME NEW w \in Workers, HostStep(w)
      PROVE  Ownership'
  <2>1. CASE AcquireLease(w) \/ ReleaseLease(w)
    <3>1. /\ UNCHANGED <<session, at, eng, seqno, attempt, performed, requests>>
          /\ SameRun
      BY <1>t, <2>1 DEF AcquireLease, ReleaseLease, engineVars, world, SameRun, StoredRun
    <3> QED BY <3>1, QuietKeeps
  <2>2. CASE \E a \in Attempts : StartFresh(w, a) \/ Recover(w, a)
    BY <2>2, OpenKeeps
  <2>3. CASE ResumeContinuation(w)
    <3>1. /\ at[w] = "paused" /\ at' = [at EXCEPT ![w] = "advance"]
          /\ UNCHANGED <<store, session, eng, seqno, attempt, performed, requests>>
      BY <2>3 DEF ResumeContinuation
    <3>2. \A v \in Workers : \/ at'[v] = at[v] /\ eng'[v] = eng[v]
                             \/ /\ at[v] # "idle" /\ at'[v] \notin InFlight \cup {"idle"}
                                /\ eng'[v].turns = eng[v].turns
                                /\ eng'[v].tool_calls = eng[v].tool_calls
      BY <1>t, <3>1 DEF InFlight
    <3> QED BY <3>1, <3>2, QuietKeeps DEF SameRun
  <2>4. CASE EngineReturns(w) \/ Crash(w)
    BY <2>4, GoneKeeps DEF EngineReturns, Crash, world
  <2> QED BY <1>2, <2>1, <2>2, <2>3, <2>4 DEF HostStep
<1>3. CASE LeaseExpires \/ UNCHANGED vars
  <2>1. /\ UNCHANGED <<session, at, eng, seqno, attempt, performed, requests>>
        /\ SameRun
    BY <1>t, <1>3 DEF LeaseExpires, vars, engineVars, world, SameRun, StoredRun
  <2> QED BY <2>1, QuietKeeps
<1> QED BY <1>1, <1>2, <1>3 DEF Next

(* Initially nothing is stored, spent or owned.                            *)
LEMMA InitOwnership == Init => Ownership
<1> SUFFICES ASSUME Init PROVE Ownership
  OBVIOUS
<1>1. Performed = {}
  BY DEF Init, Performed
<1>2. IsFiniteSet(Performed) /\ Cardinality(Performed) = 0
  BY <1>1, FS_EmptySet
<1>3. store.doc = NoCheckpoint /\ store.effects = {} /\ requests = 0
  BY DEF Init
<1>4. \A w \in Workers : session[w] = Closed /\ at[w] = "idle" /\ eng[w] = FreshRuntime
                         /\ seqno[w] = 0
  BY DEF Init
<1>5. DocSound /\ IdleFresh /\ Behind /\ Faithful /\ Ahead
  BY <1>3, <1>4 DEF DocSound, IdleFresh, Behind, Faithful, Ahead, InStep, Current
<1>6. OneOwner /\ Owner /\ Reserved /\ Author
  BY <1>3, <1>4 DEF OneOwner, Owner, Reserved, Author, Current, Dispatched, InFlight
<1>7. WriteAhead
  BY <1>2, <1>3 DEF WriteAhead, TurnsOf, ToolCallsOf
<1> QED BY <1>2, <1>5, <1>6, <1>7 DEF Ownership

(* The invariant holds throughout.                                         *)
LEMMA RunnerOwnership == Spec => [](Shape /\ Ownership)
  BY InitShape, InitOwnership, ShapeStep, OwnershipStep, PTL DEF Spec

(* Nothing reaches a provider or a tool that the stored run does not       *)
(* already account for, for any number of workers, crashes and recoveries. *)
THEOREM RunnerWriteAhead == Spec => []WriteAhead
<1>1. Ownership => WriteAhead
  BY DEF Ownership
<1> QED BY <1>1, RunnerOwnership, PTL

--------------------------------------------------------------------------------
(* Only the owner moves the run on.                                        *)

(* The stored checkpoint changes only when an engine commits.              *)
LEMMA OnlyCommitsWrite ==
  ASSUME Shape, [Next]_vars, store'.doc # store.doc
  PROVE  \E w \in Workers : \E b, saved, point, rt : Commits(w, b, saved, point, rt)
<1>t. store \in StoredRun
  BY DEF Shape, RunTypes
<1>1. ~LeaseExpires /\ ~UNCHANGED vars
  BY <1>t DEF LeaseExpires, vars, StoredRun
<1>2. ASSUME NEW w \in Workers, HostStep(w)
      PROVE  FALSE
  BY <1>t, <1>2 DEF HostStep, AcquireLease, ReleaseLease, StartFresh, Recover,
                    ResumeContinuation, EngineReturns, Crash, StoredRun
<1>3. PICK w \in Workers : EngineStep(w)
  BY <1>1, <1>2 DEF Next
<1>4. CASE CommitMove(w)
  BY <1>4 DEF CommitMove
<1>5. ~LocalMove(w) /\ ~TurnsExhausted(w) /\ ~RequestModel(w) /\ ~ExecuteTool(w)
  BY DEF LocalMove, Thinks, TurnsExhausted, RequestModel, ExecuteTool, Local
<1> QED BY <1>3, <1>4, <1>5, EngineMoves

(* While the outcome of an effect is unknown, only the attempt and the     *)
(* lease that dispatched it move the run on.                               *)
THEOREM RunnerQuarantined == Spec => Quarantined
<1> DEFINE Step == /\ store.doc # NoCheckpoint
                   /\ store'.doc # store.doc
                   /\ outcome_unknown(store.doc.runtime.effect)
                   => /\ store'.doc.attempt = store.doc.attempt
                      /\ store'.writers[Len(store'.writers)] = store.writers[Len(store.writers)]
<1>1. ASSUME Shape, Ownership, [Next]_vars
      PROVE  Step
  <2> SUFFICES ASSUME store.doc # NoCheckpoint, store'.doc # store.doc,
                      outcome_unknown(store.doc.runtime.effect)
               PROVE  /\ store'.doc.attempt = store.doc.attempt
                      /\ store'.writers[Len(store'.writers)] = store.writers[Len(store.writers)]
    OBVIOUS
  <2>0. PICK w \in Workers : \E b, saved, point, rt : Commits(w, b, saved, point, rt)
    BY <1>1, OnlyCommitsWrite
  <2>1. PICK b, saved, point, rt : Commits(w, b, saved, point, rt)
    BY <2>0
  <2> DEFINE s == session[w]
             ck == [sequence |-> seqno[w] + 1, attempt |-> attempt[w],
                    boundary |-> b, runtime |-> saved]
  <2>2. Accepts(s, ck) /\ store' = Committed(s, ck)
    BY <2>1 DEF Commits, Persist
  <2>3. /\ s \in Session /\ s # Closed /\ store \in StoredRun
        /\ b \in Boundaries /\ saved \in Runtime /\ attempt[w] \in Attempts /\ seqno[w] \in Nat
    BY <1>1, <2>1 DEF Commits, Shape, RunTypes, RunsWithSession
  <2>4. ck \in Checkpoint /\ ck.attempt = attempt[w]
    BY <2>3 DEF Checkpoint
  <2>5. Current(w)
    BY <2>2, <2>3 DEF Accepts, Current
  <2> HIDE DEF ck, s
  <2>6. store'.doc = ck /\ store'.writers = Append(store.writers, s.token)
    BY <2>2, <2>3, <2>4, CommitTypes
  <2>7. attempt[w] = store.doc.attempt /\ s.token = store.writers[Len(store.writers)]
    BY <1>1, <2>5 DEF Ownership, Author, s
  <2>8. store.writers \in Seq(Nat) /\ s.token \in Nat
    BY <2>3 DEF StoredRun, Session
  <2>9. Append(store.writers, s.token)[Len(Append(store.writers, s.token))] = s.token
    BY <2>8
  <2> QED BY <2>4, <2>6, <2>7, <2>9
<1>2. Spec => [][Step]_vars
  <2> HIDE DEF Step
  <2> QED BY <1>1, RunnerOwnership, PTL DEF Spec
<1> QED BY <1>2 DEF Quarantined

--------------------------------------------------------------------------------
(* At most once, approved first, always recoverable.  What an engine has   *)
(* in mind is sound by itself, whoever else drives the run (Sound): every  *)
(* result in its history answers one earlier call, and its queue holds     *)
(* each call without a result once.  What is performed is answered in the  *)
(* history of an engine in step, but for the call it has in hand (Once);   *)
(* so the call it dispatches next was never performed.  What is recovered  *)
(* was stored by such an engine, with nothing in hand.                     *)

Distinct(s) == \A i, j \in DOMAIN s : i # j => s[i] # s[j]

Paired(history) ==
    /\ \A i, j \in DOMAIN history :
          i # j /\ history[i].kind = "call" /\ history[j].kind = "call"
             => history[i].call # history[j].call
    /\ \A j \in DOMAIN history : history[j].kind # "call" =>
          /\ \E i \in 1..(j - 1) : history[i] = [kind |-> "call", call |-> history[j].call]
          /\ \A i \in 1..(j - 1) : history[i].call = history[j].call => history[i].kind = "call"

Queued(rt) == {rt.calls[i] : i \in DOMAIN rt.calls}

(* The conversation.                                                       *)
Talk(rt) ==
    /\ Paired(rt.history)
    /\ Distinct(rt.calls)
    /\ Queued(rt) = Called(rt.history) \ Resolved(rt.history)

(* The limits that recovery checks.                                        *)
Limits(rt) ==
    /\ rt.max_turns >= MaxTurns /\ rt.blocks <= GateMax
    /\ ~Gate => rt.max_turns = MaxTurns

Sound(rt) == Talk(rt) /\ Limits(rt) /\ (rt.phase # "Tools" => rt.calls = <<>>)

ModelPoints == {"model_ready", "model_dispatched", "model_sent"}

(* Where the engine is fits the phase it is in.                            *)
Fit(point, rt) ==
    /\ Sound(rt)
    /\ point \in CallPoints => rt.phase = "Tools"
    /\ point \in ModelPoints => rt.phase = "Model"

SoundInv ==
    /\ \A w \in Workers : Fit(at[w], eng[w])
    /\ store.doc # NoCheckpoint =>
          /\ Sound(store.doc.runtime)
          /\ store.doc.boundary \in {"model_dispatched", "tool_dispatched"}
                => store.doc.runtime.effect.state = "dispatched"
          /\ store.doc.boundary = "run_started" => store.doc.runtime.calls = <<>>

(* The call that was performed and is not answered yet.                    *)
InHand(w) == IF at[w] = "tool_done" THEN {Head(eng[w].calls)} ELSE {}

ResolvedOf(doc) == IF doc = NoCheckpoint THEN {} ELSE Resolved(doc.runtime.history)

Once ==
    /\ AtMostOnce
    /\ \A w \in Workers : InStep(w) => Performed \subseteq Resolved(eng[w].history) \cup InHand(w)
    /\ ~Dispatched => Performed \subseteq ResolvedOf(store.doc)

(* Between the decision and the execution.                                 *)
Cleared == {"approved", "tool_ready", "tool_dispatched"}

(* Whatever looks like an approval was one.                                *)
Consents(rt) == \A c \in Calls : rt.journal[c] = "approve" => c \in granted

GrantedInv ==
    /\ ApprovedFirst
    /\ \A w \in Workers :
          /\ Consents(eng[w])
          /\ \A c \in Calls : approvals[w][c] = "approve" => c \in granted
          /\ at[w] \in Cleared => Head(eng[w].calls) \in granted \/ Head(eng[w].calls) \notin Guarded
    /\ store.doc # NoCheckpoint => Consents(store.doc.runtime)

(* A longer history: what is at which place.                               *)
LEMMA LongerHistory ==
  ASSUME NEW h \in Seq(Item), NEW x \in Seq(Item)
  PROVE  /\ h \o x \in Seq(Item) /\ DOMAIN (h \o x) = 1..(Len(h) + Len(x))
         /\ DOMAIN h = 1..Len(h) /\ DOMAIN x = 1..Len(x)
         /\ Len(h) \in Nat /\ Len(x) \in Nat
         /\ \A k \in 1..Len(h) : (h \o x)[k] = h[k]
         /\ \A k \in 1..Len(x) : (h \o x)[Len(h) + k] = x[k]
         /\ \A k \in 1..(Len(h) + Len(x)) : k \in 1..Len(h) \/ k - Len(h) \in 1..Len(x)
  OBVIOUS

(* Its calls and results are those of its parts.                           *)
LEMMA LongerSets ==
  ASSUME NEW h \in Seq(Item), NEW x \in Seq(Item)
  PROVE  /\ Called(h \o x) = Called(h) \cup Called(x)
         /\ Resolved(h \o x) = Resolved(h) \cup Resolved(x)
<1> DEFINE y == h \o x
<1>1. /\ DOMAIN y = 1..(Len(h) + Len(x)) /\ DOMAIN h = 1..Len(h) /\ DOMAIN x = 1..Len(x)
      /\ Len(h) \in Nat /\ Len(x) \in Nat
      /\ \A k \in 1..Len(h) : y[k] = h[k]
      /\ \A k \in 1..Len(x) : y[Len(h) + k] = x[k]
      /\ \A k \in 1..(Len(h) + Len(x)) : k \in 1..Len(h) \/ k - Len(h) \in 1..Len(x)
  BY LongerHistory
<1>2. \A k \in 1..Len(x) : Len(h) + k \in DOMAIN y
  BY <1>1
<1>3. \A k \in DOMAIN y : \/ k \in DOMAIN h /\ y[k] = h[k]
                          \/ k - Len(h) \in DOMAIN x /\ y[k] = x[k - Len(h)]
  <2> SUFFICES ASSUME NEW k \in DOMAIN y, k \notin DOMAIN h
               PROVE  k - Len(h) \in DOMAIN x /\ y[k] = x[k - Len(h)]
    BY <1>1
  <2>1. k - Len(h) \in 1..Len(x) /\ k \in Nat
    BY <1>1
  <2>2. Len(h) + (k - Len(h)) = k
    BY <1>1, <2>1
  <2>3. y[Len(h) + (k - Len(h))] = x[k - Len(h)]
    BY <1>1, <2>1
  <2> HIDE DEF y
  <2> QED BY <1>1, <2>1, <2>2, <2>3
<1>4. \A k \in DOMAIN h : k \in DOMAIN y
  BY <1>1
<1> HIDE DEF y
<1>5. Called(y) = Called(h) \cup Called(x)
  <2>1. ASSUME NEW c \in Called(h) \cup Called(x)
        PROVE  c \in Called(y)
    <3>1. CASE c \in Called(h)
      BY <1>1, <1>4, <3>1 DEF Called
    <3>2. CASE c \in Called(x)
      BY <1>1, <1>2, <3>2 DEF Called
    <3> QED BY <2>1, <3>1, <3>2
  <2>2. ASSUME NEW c \in Called(y)
        PROVE  c \in Called(h) \cup Called(x)
    BY <1>3, <2>2 DEF Called
  <2> QED BY <2>1, <2>2
<1>6. Resolved(y) = Resolved(h) \cup Resolved(x)
  <2>1. ASSUME NEW c \in Resolved(h) \cup Resolved(x)
        PROVE  c \in Resolved(y)
    <3>1. CASE c \in Resolved(h)
      BY <1>1, <1>4, <3>1 DEF Resolved
    <3>2. CASE c \in Resolved(x)
      BY <1>1, <1>2, <3>2 DEF Resolved
    <3> QED BY <2>1, <3>1, <3>2
  <2>2. ASSUME NEW c \in Resolved(y)
        PROVE  c \in Resolved(h) \cup Resolved(x)
    BY <1>3, <2>2 DEF Resolved
  <2> QED BY <2>1, <2>2
<1> QED BY <1>5, <1>6 DEF y

(* Nothing is resolved that was not called.                                *)
LEMMA ResolvedCalled ==
  ASSUME NEW h \in Seq(Item), Paired(h)
  PROVE  Resolved(h) \subseteq Called(h)
<1> SUFFICES ASSUME NEW j \in DOMAIN h, h[j].kind # "call"
             PROVE  h[j].call \in Called(h)
  BY DEF Resolved
<1>1. PICK i \in 1..(j - 1) : h[i] = [kind |-> "call", call |-> h[j].call]
  BY DEF Paired
<1>2. i \in DOMAIN h
  OBVIOUS
<1> QED BY <1>1, <1>2 DEF Called

(* New calls with ids of their own keep the pairing.                       *)
LEMMA PairedCalls ==
  ASSUME NEW h \in Seq(Item), Paired(h), NEW x \in Seq(Item),
         \A i \in DOMAIN x : x[i].kind = "call" /\ x[i].call \notin Called(h),
         \A i, j \in DOMAIN x : i # j => x[i].call # x[j].call
  PROVE  Paired(h \o x)
<1> DEFINE y == h \o x
<1>1. /\ DOMAIN y = 1..(Len(h) + Len(x)) /\ DOMAIN h = 1..Len(h) /\ DOMAIN x = 1..Len(x)
      /\ Len(h) \in Nat /\ Len(x) \in Nat
      /\ \A k \in 1..Len(h) : y[k] = h[k]
      /\ \A k \in 1..Len(x) : y[Len(h) + k] = x[k]
      /\ \A k \in 1..(Len(h) + Len(x)) : k \in 1..Len(h) \/ k - Len(h) \in 1..Len(x)
  BY LongerHistory
<1>2. \A k \in DOMAIN y : k \notin DOMAIN h => k - Len(h) \in DOMAIN x /\ y[k] = x[k - Len(h)]
  <2> SUFFICES ASSUME NEW k \in DOMAIN y, k \notin DOMAIN h
               PROVE  k - Len(h) \in DOMAIN x /\ y[k] = x[k - Len(h)]
    OBVIOUS
  <2>1. k - Len(h) \in 1..Len(x) /\ k \in Nat
    BY <1>1
  <2>2. Len(h) + (k - Len(h)) = k
    BY <1>1, <2>1
  <2>3. y[Len(h) + (k - Len(h))] = x[k - Len(h)]
    BY <1>1, <2>1
  <2> HIDE DEF y
  <2> QED BY <1>1, <2>1, <2>2, <2>3
<1>3. \A k \in DOMAIN y : y[k].kind = "call" /\ k \in DOMAIN h => y[k].call \in Called(h)
  <2> HIDE DEF y
  <2> QED BY <1>1 DEF Called
<1> HIDE DEF y
<1>4. ASSUME NEW i \in DOMAIN y, NEW j \in DOMAIN y, i # j,
             y[i].kind = "call", y[j].kind = "call"
      PROVE  y[i].call # y[j].call
  <2>1. CASE i \in DOMAIN h /\ j \in DOMAIN h
    BY <1>1, <1>4, <2>1 DEF Paired
  <2>2. CASE i \in DOMAIN h /\ j \notin DOMAIN h
    BY <1>2, <1>3, <1>4, <2>2
  <2>3. CASE i \notin DOMAIN h /\ j \in DOMAIN h
    BY <1>2, <1>3, <1>4, <2>3
  <2>4. CASE i \notin DOMAIN h /\ j \notin DOMAIN h
    <3>1. i - Len(h) # j - Len(h)
      BY <1>1, <1>4
    <3> QED BY <1>2, <1>4, <2>4, <3>1
  <2> QED BY <2>1, <2>2, <2>3, <2>4
<1>5. ASSUME NEW j \in DOMAIN y, y[j].kind # "call"
      PROVE  /\ \E i \in 1..(j - 1) : y[i] = [kind |-> "call", call |-> y[j].call]
             /\ \A i \in 1..(j - 1) : y[i].call = y[j].call => y[i].kind = "call"
  <2>1. j \in DOMAIN h
    BY <1>2, <1>5
  <2>2. y[j] = h[j] /\ \A i \in 1..(j - 1) : y[i] = h[i]
    BY <1>1, <2>1
  <2>3. h[j].kind # "call"
    BY <1>5, <2>2
  <2>4. /\ \E i \in 1..(j - 1) : h[i] = [kind |-> "call", call |-> h[j].call]
        /\ \A i \in 1..(j - 1) : h[i].call = h[j].call => h[i].kind = "call"
    BY <2>1, <2>3 DEF Paired
  <2> QED BY <2>2, <2>4
<1> QED BY <1>4, <1>5 DEF Paired, y

(* Results of unresolved calls, each one once, keep it too.                *)
LEMMA PairedResults ==
  ASSUME NEW h \in Seq(Item), Paired(h), NEW x \in Seq(Item),
         \A i \in DOMAIN x : /\ x[i].kind # "call"
                             /\ x[i].call \in Called(h) /\ x[i].call \notin Resolved(h),
         \A i, j \in DOMAIN x : i # j => x[i].call # x[j].call
  PROVE  Paired(h \o x)
<1> DEFINE y == h \o x
<1>1. /\ DOMAIN y = 1..(Len(h) + Len(x)) /\ DOMAIN h = 1..Len(h) /\ DOMAIN x = 1..Len(x)
      /\ Len(h) \in Nat /\ Len(x) \in Nat
      /\ \A k \in 1..Len(h) : y[k] = h[k]
      /\ \A k \in 1..Len(x) : y[Len(h) + k] = x[k]
      /\ \A k \in 1..(Len(h) + Len(x)) : k \in 1..Len(h) \/ k - Len(h) \in 1..Len(x)
  BY LongerHistory
<1>2. \A k \in DOMAIN y : k \notin DOMAIN h => k - Len(h) \in DOMAIN x /\ y[k] = x[k - Len(h)]
  <2> SUFFICES ASSUME NEW k \in DOMAIN y, k \notin DOMAIN h
               PROVE  k - Len(h) \in DOMAIN x /\ y[k] = x[k - Len(h)]
    OBVIOUS
  <2>1. k - Len(h) \in 1..Len(x) /\ k \in Nat
    BY <1>1
  <2>2. Len(h) + (k - Len(h)) = k
    BY <1>1, <2>1
  <2>3. y[Len(h) + (k - Len(h))] = x[k - Len(h)]
    BY <1>1, <2>1
  <2> HIDE DEF y
  <2> QED BY <1>1, <2>1, <2>2, <2>3
<1>3. \A k \in DOMAIN y : y[k].kind # "call" /\ k \in DOMAIN h => y[k].call \in Resolved(h)
  <2> HIDE DEF y
  <2> QED BY <1>1 DEF Resolved
<1> HIDE DEF y
<1>4. ASSUME NEW i \in DOMAIN y, NEW j \in DOMAIN y, i # j,
             y[i].kind = "call", y[j].kind = "call"
      PROVE  y[i].call # y[j].call
  <2>1. i \in DOMAIN h /\ j \in DOMAIN h
    BY <1>2, <1>4
  <2> QED BY <1>1, <1>4, <2>1 DEF Paired
<1>5. ASSUME NEW j \in DOMAIN y, y[j].kind # "call"
      PROVE  /\ \E i \in 1..(j - 1) : y[i] = [kind |-> "call", call |-> y[j].call]
             /\ \A i \in 1..(j - 1) : y[i].call = y[j].call => y[i].kind = "call"
  <2>1. CASE j \in DOMAIN h
    <3>1. y[j] = h[j] /\ \A i \in 1..(j - 1) : y[i] = h[i]
      BY <1>1, <2>1
    <3>2. h[j].kind # "call"
      BY <1>5, <3>1
    <3>3. /\ \E i \in 1..(j - 1) : h[i] = [kind |-> "call", call |-> h[j].call]
          /\ \A i \in 1..(j - 1) : h[i].call = h[j].call => h[i].kind = "call"
      BY <2>1, <3>2 DEF Paired
    <3> QED BY <3>1, <3>3
  <2>2. CASE j \notin DOMAIN h
    <3>1. j - Len(h) \in DOMAIN x /\ y[j] = x[j - Len(h)]
      BY <1>2, <2>2
    <3>2. y[j].call \in Called(h) /\ y[j].call \notin Resolved(h)
      BY <3>1
    <3>3. \E i \in 1..(j - 1) : y[i] = [kind |-> "call", call |-> y[j].call]
      <4>1. PICK i \in DOMAIN h : h[i].kind = "call" /\ h[i].call = y[j].call
        BY <3>2 DEF Called
      <4>i. h[i] \in Item
        OBVIOUS
      <4>2. h[i] = [kind |-> "call", call |-> y[j].call]
        BY <4>1, <4>i DEF Item
      <4>3. i \in 1..(j - 1) /\ y[i] = h[i]
        BY <1>1, <2>2
      <4> QED BY <4>2, <4>3
    <3>4. ASSUME NEW i \in 1..(j - 1), y[i].call = y[j].call, y[i].kind # "call"
          PROVE  FALSE
      <4>0. i \in DOMAIN y /\ i # j
        BY <1>1
      <4>1. CASE i \in DOMAIN h
        BY <1>3, <3>2, <3>4, <4>0, <4>1
      <4>2. CASE i \notin DOMAIN h
        <5>1. i - Len(h) \in DOMAIN x /\ y[i] = x[i - Len(h)]
          BY <1>2, <4>0, <4>2
        <5>2. i - Len(h) # j - Len(h)
          BY <1>1, <4>0
        <5> QED BY <3>1, <3>4, <5>1, <5>2
      <4> QED BY <4>1, <4>2
    <3> QED BY <3>3, <3>4
  <2> QED BY <2>1, <2>2
<1> QED BY <1>4, <1>5 DEF Paired, y

(* Moving a call to the front loses and repeats none.                      *)
LEMMA MovedCalls ==
  ASSUME NEW calls \in Seq(Calls), Distinct(calls), NEW k \in DOMAIN calls
  PROVE  LET m == MovedToFront(calls, k)
         IN Distinct(m) /\ {m[i] : i \in DOMAIN m} = {calls[i] : i \in DOMAIN calls}
<1> DEFINE m == MovedToFront(calls, k)
           a == SubSeq(calls, 1, k - 1)
           b == SubSeq(calls, k + 1, Len(calls))
           from(i) == IF i = 1 THEN k ELSE IF i <= k THEN i - 1 ELSE i
<1>1. k \in 1..Len(calls) /\ Len(calls) \in Nat /\ DOMAIN calls = 1..Len(calls)
  OBVIOUS
<1>2. a \in Seq(Calls) /\ Len(a) = k - 1 /\ \A i \in 1..(k - 1) : a[i] = calls[i]
  BY <1>1
<1>3. b \in Seq(Calls) /\ Len(b) = Len(calls) - k
      /\ \A i \in 1..(Len(calls) - k) : b[i] = calls[k + i]
  BY <1>1
<1>4. m = <<calls[k]>> \o a \o b
  BY DEF MovedToFront
<1> HIDE DEF a, b, m
<1>5. DOMAIN m = 1..Len(calls) /\ \A i \in 1..Len(calls) : m[i] = calls[from(i)]
  <2> DEFINE q == <<calls[k]>> \o a
  <2>1. q \in Seq(Calls) /\ Len(q) = k /\ q[1] = calls[k] /\ \A i \in 2..k : q[i] = calls[i - 1]
    BY <1>1, <1>2
  <2> HIDE DEF q
  <2>k. Len(q \o b) = Len(q) + Len(b) /\ q \o b \in Seq(Calls)
    <3>1. q \in Seq(Calls) /\ b \in Seq(Calls)
      BY <1>3, <2>1
    <3> QED BY <3>1
  <2>l. Len(q \o b) = Len(calls) /\ q \o b \in Seq(Calls)
    <3>1. k + (Len(calls) - k) = Len(calls)
      BY <1>1
    <3> QED BY <1>3, <2>1, <2>k, <3>1
  <2>2. DOMAIN (q \o b) = 1..Len(calls)
    BY <2>l
  <2>3. \A i \in 1..Len(calls) : (q \o b)[i] = IF i <= k THEN q[i] ELSE b[i - k]
    BY <1>1, <1>3, <2>1
  <2>4. \A i \in 1..Len(calls) : i > k => b[i - k] = calls[i]
    BY <1>1, <1>3
  <2>5. ASSUME NEW i \in 1..Len(calls)
        PROVE  (q \o b)[i] = calls[from(i)]
    <3>1. CASE i = 1
      BY <1>1, <2>1, <2>3, <3>1
    <3>2. CASE i # 1 /\ i <= k
      BY <1>1, <2>1, <2>3, <3>2
    <3>3. CASE i > k
      <4>0. ~(i <= k) /\ i # 1
        BY <1>1, <3>3
      <4>1. from(i) = i
        BY <4>0
      <4>2. (q \o b)[i] = b[i - k]
        BY <2>3, <4>0
      <4>3. b[i - k] = calls[i]
        BY <2>4, <3>3
      <4> QED BY <4>0, <4>2, <4>3
    <3>4. i = 1 \/ (i # 1 /\ i <= k) \/ i > k
      BY <1>1
    <3> HIDE DEF from
    <3> QED BY <3>1, <3>2, <3>3, <3>4
  <2> QED BY <1>4, <2>2, <2>5 DEF q
<1>6. \A i, j \in 1..Len(calls) : i # j => from(i) # from(j)
  BY <1>1
<1>7. \A i \in 1..Len(calls) : from(i) \in 1..Len(calls)
  BY <1>1
<1>8. \A j \in 1..Len(calls) : \E i \in 1..Len(calls) : from(i) = j
  <2> SUFFICES ASSUME NEW j \in 1..Len(calls)
               PROVE  \E i \in 1..Len(calls) : from(i) = j
    OBVIOUS
  <2>1. CASE j = k
    BY <1>1, <2>1
  <2>2. CASE j < k
    <3>1. j + 1 \in 1..Len(calls) /\ from(j + 1) = j
      BY <1>1, <2>2
    <3> HIDE DEF from
    <3> QED BY <3>1
  <2>3. CASE j > k
    <3>1. from(j) = j
      BY <1>1, <2>3
    <3> HIDE DEF from
    <3> QED BY <3>1
  <2> QED BY <1>1, <2>1, <2>2, <2>3
<1> HIDE DEF from
<1>9. Distinct(m)
  BY <1>1, <1>5, <1>6, <1>7 DEF Distinct
<1>10. {m[i] : i \in DOMAIN m} = {calls[i] : i \in DOMAIN calls}
  <2>1. \A i \in DOMAIN m : \E j \in DOMAIN calls : m[i] = calls[j]
    BY <1>1, <1>5, <1>7
  <2>2. \A j \in DOMAIN calls : \E i \in DOMAIN m : m[i] = calls[j]
    BY <1>1, <1>5, <1>8
  <2> QED BY <2>1, <2>2
<1> QED BY <1>9, <1>10 DEF m

(* Nor does putting the first handoff first.                               *)
LEMMA HandoffFirstCalls ==
  ASSUME NEW calls \in Seq(Calls), Distinct(calls)
  PROVE  LET m == HandoffFirst(calls)
         IN Distinct(m) /\ {m[i] : i \in DOMAIN m} = {calls[i] : i \in DOMAIN calls}
<1>1. CASE \E k \in DOMAIN calls : IsFirstHandoff(calls, k)
  <2> DEFINE k == CHOOSE i \in DOMAIN calls : IsFirstHandoff(calls, i)
  <2>1. k \in DOMAIN calls
    BY <1>1
  <2>2. HandoffFirst(calls) = MovedToFront(calls, k)
    BY <1>1 DEF HandoffFirst
  <2> HIDE DEF k
  <2>3. LET m == MovedToFront(calls, k)
        IN Distinct(m) /\ {m[i] : i \in DOMAIN m} = {calls[i] : i \in DOMAIN calls}
    BY <2>1, MovedCalls
  <2> QED BY <2>2, <2>3
<1>2. CASE ~\E k \in DOMAIN calls : IsFirstHandoff(calls, k)
  BY <1>2 DEF HandoffFirst
<1> QED BY <1>1, <1>2

(* The sets that one response, one result and one handoff add.             *)
LEMMA AddedSets ==
  ASSUME NEW x \in Seq(Item)
  PROVE  /\ (\A i \in DOMAIN x : x[i].kind = "call")
               => Resolved(x) = {} /\ Called(x) = {x[i].call : i \in DOMAIN x}
         /\ (\A i \in DOMAIN x : x[i].kind # "call")
               => Called(x) = {} /\ Resolved(x) = {x[i].call : i \in DOMAIN x}
<1>1. ASSUME \A i \in DOMAIN x : x[i].kind = "call"
      PROVE  Resolved(x) = {} /\ Called(x) = {x[i].call : i \in DOMAIN x}
  BY <1>1 DEF Resolved, Called
<1>2. ASSUME \A i \in DOMAIN x : x[i].kind # "call"
      PROVE  Called(x) = {} /\ Resolved(x) = {x[i].call : i \in DOMAIN x}
  BY <1>2 DEF Resolved, Called
<1> QED BY <1>1, <1>2

(* A response whose ids are new continues a sound conversation.            *)
LEMMA ReplyTalks ==
  ASSUME NEW rt \in Runtime, Talk(rt), rt.calls = <<>>,
         NEW calls \in Seq(Calls), NewIds(calls, rt.history)
  PROVE  /\ Talk(WithReply(rt, calls))
         /\ Resolved(WithReply(rt, calls).history) = Resolved(rt.history)
<1> DEFINE h == rt.history
           x == [i \in 1..Len(calls) |-> [kind |-> "call", call |-> calls[i]]]
           q == HandoffFirst(calls)
<1>1. h \in Seq(Item)
  BY DEF Runtime
<1>2. /\ x \in Seq(Item) /\ DOMAIN x = DOMAIN calls
      /\ \A i \in DOMAIN x : x[i].kind = "call" /\ x[i].call = calls[i]
  BY DEF Item
<1>3. Distinct(calls) /\ \A i \in DOMAIN calls : calls[i] \notin Called(h)
  BY DEF Distinct, NewIds
<1>4. q \in Seq(Calls) /\ Distinct(q) /\ {q[i] : i \in DOMAIN q} = {calls[i] : i \in DOMAIN calls}
  BY <1>3, HandoffFirstTypes, HandoffFirstCalls
<1>5. WithReply(rt, calls).history = h \o x /\ WithReply(rt, calls).calls = rt.calls \o q
  BY DEF WithReply, Runtime
<1> HIDE DEF x, q
<1>6. rt.calls \o q = q
  BY <1>4
<1>7. Paired(h \o x)
  BY <1>1, <1>2, <1>3, PairedCalls DEF Talk, Distinct
<1>8. Called(h \o x) = Called(h) \cup Called(x) /\ Resolved(h \o x) = Resolved(h) \cup Resolved(x)
  BY <1>1, <1>2, LongerSets
<1>9. Resolved(x) = {} /\ Called(x) = {calls[i] : i \in DOMAIN calls}
  BY <1>2, AddedSets
<1>10. Called(h) \ Resolved(h) = {}
  <2>1. Queued(rt) = {}
    BY DEF Queued
  <2> QED BY <2>1 DEF Talk
<1>11. Resolved(h) \subseteq Called(h)
  BY <1>1, ResolvedCalled DEF Talk
<1>12. Queued(WithReply(rt, calls)) = {calls[i] : i \in DOMAIN calls}
  BY <1>4, <1>5, <1>6 DEF Queued
<1>13. \A c \in {calls[i] : i \in DOMAIN calls} : c \notin Called(h)
  BY <1>3
<1>14. Called(h \o x) \ Resolved(h \o x) = {calls[i] : i \in DOMAIN calls}
  BY <1>8, <1>9, <1>10, <1>11, <1>13
<1> QED BY <1>4, <1>5, <1>6, <1>7, <1>8, <1>9, <1>12, <1>14 DEF Talk

(* So does the answer to the front call.                                   *)
LEMMA AnswerTalks ==
  ASSUME NEW rt \in Runtime, Talk(rt), rt.calls # <<>>, NEW kind \in {"result", "handoff"}
  PROVE  /\ Talk(Answered(rt, kind))
         /\ Resolved(Answered(rt, kind).history) = Resolved(rt.history) \cup {Head(rt.calls)}
<1> DEFINE h == rt.history
           q == rt.calls
           c == Head(q)
           x == <<[kind |-> kind, call |-> c]>>
<1>1. h \in Seq(Item) /\ q \in Seq(Calls)
  BY DEF Runtime
<1>2. c = q[1] /\ c \in Calls /\ 1 \in DOMAIN q
  BY <1>1
<1>3. /\ Tail(q) \in Seq(Calls) /\ DOMAIN Tail(q) = 1..(Len(q) - 1) /\ DOMAIN q = 1..Len(q)
      /\ Len(q) \in Nat \ {0}
      /\ \A i \in 1..(Len(q) - 1) : Tail(q)[i] = q[i + 1]
  BY <1>1
<1>4. Answered(rt, kind).history = Append(h, [kind |-> kind, call |-> c])
      /\ Answered(rt, kind).calls = Tail(q)
  BY DEF Answered, Runtime
<1>5. [kind |-> kind, call |-> c] \in Item
  BY <1>2 DEF Item
<1>6. Append(h, [kind |-> kind, call |-> c]) = h \o x
  BY <1>1, <1>5
<1>7. /\ x \in Seq(Item) /\ DOMAIN x = {1}
      /\ \A i \in DOMAIN x : x[i].kind # "call" /\ x[i].call = c
  BY <1>5
<1>8. c \in Called(h) /\ c \notin Resolved(h)
  <2>1. c \in Queued(rt)
    BY <1>2 DEF Queued
  <2> QED BY <2>1 DEF Talk
<1> HIDE DEF x, c
<1>9. Paired(h \o x)
  BY <1>1, <1>7, <1>8, PairedResults DEF Talk
<1>10. Called(h \o x) = Called(h) \cup Called(x) /\ Resolved(h \o x) = Resolved(h) \cup Resolved(x)
  BY <1>1, <1>7, LongerSets
<1>11. Called(x) = {} /\ Resolved(x) = {c}
  <2>1. Called(x) = {} /\ Resolved(x) = {x[i].call : i \in DOMAIN x}
    BY <1>7, AddedSets
  <2> QED BY <1>7, <2>1
<1>12. \A i, j \in 1..Len(q) : i # j => q[i] # q[j]
  BY <1>3 DEF Talk, Distinct
<1>13. Distinct(Tail(q))
  BY <1>3, <1>12 DEF Distinct
<1>14. {Tail(q)[i] : i \in DOMAIN Tail(q)} = Queued(rt) \ {c}
  <2> DEFINE t == Tail(q)
  <2>1. ASSUME NEW i \in DOMAIN t
        PROVE  t[i] \in Queued(rt) \ {c}
    <3>1. i + 1 \in 1..Len(q) /\ i + 1 # 1 /\ t[i] = q[i + 1] /\ 1 \in 1..Len(q)
      BY <1>3
    <3> QED BY <1>2, <1>3, <1>12, <3>1 DEF Queued
  <2>2. ASSUME NEW d \in Queued(rt) \ {c}
        PROVE  \E i \in DOMAIN t : t[i] = d
    <3>1. PICK i \in 1..Len(q) : q[i] = d
      BY <1>3, <2>2 DEF Queued
    <3>2. i # 1
      BY <1>2, <2>2, <3>1
    <3>3. i - 1 \in 1..(Len(q) - 1) /\ (i - 1) + 1 = i
      BY <1>3, <3>2
    <3>4. t[i - 1] = d
      BY <1>3, <3>1, <3>3
    <3> QED BY <1>3, <3>3, <3>4
  <2> HIDE DEF t
  <2>3. {t[i] : i \in DOMAIN t} = Queued(rt) \ {c}
    BY <2>1, <2>2
  <2> QED BY <2>3 DEF t
<1>15. Queued(Answered(rt, kind)) = Queued(rt) \ {c}
  BY <1>4, <1>14 DEF Queued
<1>16. Queued(Answered(rt, kind)) = Called(h \o x) \ Resolved(h \o x)
  BY <1>10, <1>11, <1>15 DEF Talk
<1> QED BY <1>4, <1>6, <1>9, <1>10, <1>11, <1>13, <1>16 DEF Talk, c

(* And a handoff, which answers everything.                                *)
LEMMA HandoffTalks ==
  ASSUME NEW rt \in Runtime, Talk(rt)
  PROVE  /\ Talk(HandedOff(rt)) /\ HandedOff(rt).calls = <<>>
         /\ Resolved(rt.history) \subseteq Resolved(HandedOff(rt).history)
<1> DEFINE h == rt.history
           q == rt.calls
           x == [i \in 1..Len(q) |-> [kind |-> IF i = 1 THEN "handoff" ELSE "result",
                                      call |-> q[i]]]
           e == WithEffectState(rt, "succeeded")
<1>1. h \in Seq(Item) /\ q \in Seq(Calls)
  BY DEF Runtime
<1>2. /\ x \in Seq(Item) /\ DOMAIN x = DOMAIN q
      /\ \A i \in DOMAIN x : x[i].kind # "call" /\ x[i].call = q[i]
  BY <1>1 DEF Item
<1>3. e \in Runtime /\ e.history = h /\ e.calls = q
  BY EffectStateTypes
<1>4. HandedOff(rt).history = h \o x /\ HandedOff(rt).calls = <<>>
  <2>1. HandedOff(rt) = [e EXCEPT !.calls = <<>>, !.agent = "target", !.phase = "Model",
                                  !.history = @ \o x]
    BY DEF HandedOff
  <2> HIDE DEF e, x
  <2> QED BY <1>3, <2>1 DEF Runtime
<1> HIDE DEF x, e
<1>5. \A i \in DOMAIN q : q[i] \in Called(h) /\ q[i] \notin Resolved(h)
  <2>1. \A i \in DOMAIN q : q[i] \in Queued(rt)
    BY DEF Queued
  <2> QED BY <2>1 DEF Talk
<1>6. Paired(h \o x)
  BY <1>1, <1>2, <1>5, PairedResults DEF Talk, Distinct
<1>7. Called(h \o x) = Called(h) \cup Called(x) /\ Resolved(h \o x) = Resolved(h) \cup Resolved(x)
  BY <1>1, <1>2, LongerSets
<1>8. Called(x) = {} /\ Resolved(x) = Queued(rt)
  <2>1. Called(x) = {} /\ Resolved(x) = {x[i].call : i \in DOMAIN x}
    BY <1>2, AddedSets
  <2> QED BY <1>2, <2>1 DEF Queued
<1>9. Called(h \o x) \ Resolved(h \o x) = {}
  BY <1>7, <1>8 DEF Talk
<1>10. Queued(HandedOff(rt)) = {} /\ Distinct(HandedOff(rt).calls)
  BY <1>4 DEF Queued, Distinct
<1> QED BY <1>4, <1>6, <1>7, <1>9, <1>10 DEF Talk

--------------------------------------------------------------------------------
(* What every step of an engine heeds.                                     *)

(* History k goes on from history h.                                       *)
Continues(h, k) == Len(h) <= Len(k) /\ \A i \in 1..Len(h) : k[i] = h[i]

(* Engine w may go on to `point` with `rt`: it stays sound, rewrites no    *)
(* history, answers the call in hand, and takes no call for approved that  *)
(* nobody approved.                                                        *)
Heeds(w, point, rt) ==
    /\ Fit(point, rt)
    /\ Continues(eng[w].history, rt.history)
    /\ Resolved(eng[w].history) \cup InHand(w) \subseteq Resolved(rt.history)
    /\ \A c \in Calls : rt.journal[c] = "approve" =>
          eng[w].journal[c] = "approve" \/ approvals[w][c] = "approve" \/ c \in granted'
    /\ point \in Cleared =>
          \/ Head(rt.calls) \in granted' \/ Head(rt.calls) \notin Guarded
          \/ approvals[w][Head(rt.calls)] = "approve"
          \/ at[w] \in Cleared /\ Head(rt.calls) = Head(eng[w].calls)

(* The same but for counters, the effect and the pause.                    *)
Like(rt, q) ==
    /\ q.calls = rt.calls /\ q.history = rt.history /\ q.journal = rt.journal
    /\ q.phase = rt.phase /\ q.max_turns = rt.max_turns /\ q.blocks = rt.blocks

(* A history goes on from itself and from its beginning.                   *)
LEMMA LongerContinues ==
  ASSUME NEW h \in Seq(Item)
  PROVE  Continues(h, h) /\ \A x \in Seq(Item) : Continues(h, h \o x)
<1>1. Continues(h, h)
  BY DEF Continues
<1>2. ASSUME NEW x \in Seq(Item)
      PROVE  Continues(h, h \o x)
  BY LongerHistory DEF Continues
<1> QED BY <1>1, <1>2

(* The boundaries change nothing else.                                     *)
LEMMA BoundaryLike ==
  ASSUME NEW rt \in Runtime, NEW id \in Nat
  PROVE  /\ Like(rt, Prepared(rt, id)) /\ Like(rt, Succeeded(rt))
         /\ Like(rt, ModelDispatched(rt)) /\ Like(rt, ToolDispatched(rt))
<1>1. Like(rt, Prepared(rt, id))
  BY DEF Like, Prepared, Runtime
<1>2. Like(rt, Succeeded(rt))
  BY DEF Like, Succeeded, WithEffectState, Runtime
<1>3. Like(rt, ModelDispatched(rt))
  BY DEF Like, ModelDispatched, WithEffectState, Runtime
<1>4. Like(rt, ToolDispatched(rt))
  BY DEF Like, ToolDispatched, WithEffectState, Runtime
<1> QED BY <1>1, <1>2, <1>3, <1>4

(* A prepared intent keeps its identity.                                   *)
SameIntent(rt, q) == rt.effect.state = "prepared" => q.effect.id = rt.effect.id

LEMMA BoundaryIntent ==
  ASSUME NEW rt \in Runtime, NEW id \in Nat
  PROVE  /\ SameIntent(rt, Prepared(rt, id)) /\ SameIntent(rt, Succeeded(rt))
         /\ SameIntent(rt, ModelDispatched(rt)) /\ SameIntent(rt, ToolDispatched(rt))
         /\ SameIntent(rt, HandedOff(rt))
<1>1. \A state : WithEffectState(rt, state).effect.id = rt.effect.id
  BY DEF WithEffectState, Runtime
<1>2. SameIntent(rt, Prepared(rt, id))
  BY DEF SameIntent, Prepared
<1>3. SameIntent(rt, Succeeded(rt))
  BY <1>1 DEF SameIntent, Succeeded
<1>4. ModelDispatched(rt).effect.id = rt.effect.id /\ ToolDispatched(rt).effect.id = rt.effect.id
  BY DEF ModelDispatched, ToolDispatched, WithEffectState, Runtime
<1>5. HandedOff(rt).effect.id = rt.effect.id
  BY DEF HandedOff, WithEffectState, Runtime
<1> QED BY <1>2, <1>3, <1>4, <1>5 DEF SameIntent

(* What is heeded does not depend on the rest.                             *)
LEMMA LikeHeeds ==
  ASSUME NEW w, NEW point, NEW rt, NEW q, Like(rt, q), Heeds(w, point, rt)
  PROVE  Heeds(w, point, q)
<1>1. Fit(point, q)
  BY DEF Like, Heeds, Fit, Sound, Talk, Limits, Queued
<1> QED BY <1>1 DEF Like, Heeds

(* An engine that changes nothing that matters.                            *)
LEMMA KeepHeeds ==
  ASSUME NEW w \in Workers, eng[w] \in Runtime, Fit(at[w], eng[w]), at[w] # "tool_done",
         NEW point,
         point \in CallPoints => eng[w].phase = "Tools",
         point \in ModelPoints => eng[w].phase = "Model",
         point \in Cleared => at[w] \in Cleared \/ Head(eng[w].calls) \notin Guarded
  PROVE  Heeds(w, point, eng[w])
<1>1. Fit(point, eng[w])
  BY DEF Fit
<1>2. Continues(eng[w].history, eng[w].history)
  BY LongerContinues DEF Runtime
<1> QED BY <1>1, <1>2 DEF Heeds, InHand

(* With no call queued the phase may change.                               *)
LEMMA EmptyHeeds ==
  ASSUME NEW w \in Workers, eng[w] \in Runtime, Fit(at[w], eng[w]), eng[w].calls = <<>>,
         at[w] # "tool_done",
         NEW point \in {"advance", "paused"}, NEW rt, Limits(rt),
         rt.calls = <<>>, rt.history = eng[w].history, rt.journal = eng[w].journal
  PROVE  Heeds(w, point, rt)
<1>1. Sound(rt)
  BY DEF Fit, Sound, Talk, Queued
<1>2. Fit(point, rt)
  BY <1>1 DEF Fit, CallPoints, ModelPoints
<1>3. Continues(eng[w].history, rt.history)
  BY LongerContinues DEF Runtime
<1> QED BY <1>2, <1>3 DEF Heeds, InHand, Cleared

(* The front call gets its result.                                         *)
LEMMA AnswerHeeds ==
  ASSUME NEW w \in Workers, Fit(at[w], eng[w]), eng[w].calls # <<>>, eng[w].phase = "Tools",
         NEW p \in Runtime, p.calls = eng[w].calls, p.history = eng[w].history,
         p.phase = "Tools", p.max_turns = eng[w].max_turns, p.blocks = eng[w].blocks,
         \A c \in Calls : p.journal[c] = "approve" => eng[w].journal[c] = "approve"
  PROVE  Heeds(w, "advance", Answered(p, "result"))
<1> DEFINE a == Answered(p, "result")
<1>1. Talk(p) /\ Limits(p)
  BY DEF Fit, Sound, Talk, Limits, Queued
<1>2. Talk(a) /\ Resolved(a.history) = Resolved(p.history) \cup {Head(p.calls)}
  BY <1>1, AnswerTalks
<1>3. /\ a.phase = "Tools" /\ a.max_turns = p.max_turns /\ a.blocks = p.blocks
      /\ a.journal = p.journal
  BY DEF Answered, Runtime
<1>h. Continues(p.history, a.history)
  <2> DEFINE x == [kind |-> "result", call |-> Head(p.calls)]
  <2>1. p.history \in Seq(Item) /\ Head(p.calls) \in Calls
    BY DEF Runtime
  <2>2. x \in Item /\ a.history = Append(p.history, x)
    BY <2>1 DEF Item, Answered, Runtime
  <2> HIDE DEF x, a
  <2>3. a.history = p.history \o <<x>> /\ <<x>> \in Seq(Item)
    BY <2>1, <2>2
  <2> QED BY <2>1, <2>3, LongerContinues
<1> HIDE DEF a
<1>4. Fit("advance", a)
  BY <1>1, <1>2, <1>3 DEF Fit, Sound, Limits, CallPoints, ModelPoints
<1>5. InHand(w) \subseteq {Head(p.calls)}
  BY DEF InHand
<1>6. Heeds(w, "advance", a)
  BY <1>2, <1>3, <1>4, <1>5, <1>h DEF Heeds, Cleared
<1> QED BY <1>6 DEF a

(* A commit that heeds, and a step without one.                            *)
Writes(w, b, saved, point, rt) ==
    /\ at[w] \notin {"idle", "done"} /\ point # "tool_done"
    /\ b \in Boundaries /\ saved \in Runtime /\ rt \in Runtime
    /\ rt.effect = saved.effect /\ rt.history = saved.history /\ SameIntent(eng[w], saved)
    /\ b = "run_completed" => point = "done"
    /\ b \in {"model_dispatched", "tool_dispatched"} => saved.effect.state = "dispatched"
    /\ b = "run_started" => saved.calls = <<>>
    /\ Heeds(w, point, saved) /\ Heeds(w, point, rt)
    /\ Persist(w, b, saved, point, rt)
    /\ UNCHANGED performed /\ granted \subseteq granted'

Plans(w, point, rt) ==
    /\ at[w] \notin {"idle", "done"} /\ point # "tool_done"
    /\ rt \in Runtime /\ rt.effect = eng[w].effect
    /\ Heeds(w, point, rt)
    /\ Local(w, point, rt)
    /\ \A v \in Workers, c \in Calls : approvals'[v][c] = "approve" => approvals[v][c] = "approve"
    /\ UNCHANGED performed /\ granted \subseteq granted'

(* The usual commit saves what the engine goes on with.                    *)
LEMMA PlainWrite ==
  ASSUME NEW w \in Workers, at[w] \notin {"idle", "done"}, NEW point, point # "tool_done",
         NEW b \in Boundaries \ {"run_started", "model_dispatched", "tool_dispatched"},
         b = "run_completed" => point = "done",
         NEW rt \in Runtime, Heeds(w, point, rt), SameIntent(eng[w], rt),
         Persist(w, b, rt, point, rt),
         UNCHANGED performed, granted \subseteq granted'
  PROVE  \E c, saved, p, q : Writes(w, c, saved, p, q)
<1>1. Writes(w, b, rt, point, rt)
  BY DEF Writes
<1> QED BY <1>1

(* Actions before the tools.                                               *)
LEMMA ModelHeeds ==
  ASSUME Shape, NEW w \in Workers, Fit(at[w], eng[w]),
         \/ Start(w) \/ PrepareModel(w) \/ DispatchModel(w) \/ CompleteModel(w)
         \/ Finalize(w) \/ CompleteRun(w)
  PROVE  \E b, saved, point, rt : Writes(w, b, saved, point, rt)
<1> DEFINE e == eng[w]
<1>0. /\ e \in Runtime /\ seqno[w] + 1 \in Nat /\ e.calls \in Seq(Calls)
  BY EngineTypes
<1>l. Limits(e) /\ e.blocks \in Nat /\ e.turns \in Nat /\ e.max_turns \in Nat
  BY <1>0 DEF Fit, Sound, Runtime
<1>g. GateMax \in Nat /\ MaxTurns \in Nat
  BY ConstantsAssumption
<1>s. e.phase # "Tools" => e.calls = <<>>
  BY DEF Fit, Sound
<1>1. CASE Start(w)
  <2> DEFINE m == [e EXCEPT !.phase = "Model"]
  <2>1. /\ m \in Runtime /\ m.calls = e.calls /\ m.history = e.history /\ m.journal = e.journal
        /\ m.max_turns = e.max_turns /\ m.blocks = e.blocks /\ m.effect = e.effect
    BY <1>0 DEF Runtime, Phases
  <2>2. /\ Persist(w, "run_started", e, "advance", m) /\ at[w] = "advance" /\ e.phase = "Start"
        /\ UNCHANGED performed /\ granted' = granted
    BY <1>1 DEF Start, In, world
  <2> HIDE DEF m
  <2>3. Limits(m)
    BY <1>l, <2>1 DEF Limits
  <2>4. Heeds(w, "advance", m)
    BY <1>0, <1>s, <2>1, <2>2, <2>3, EmptyHeeds
  <2>5. Heeds(w, "advance", e)
    BY <1>0, <2>2, KeepHeeds DEF CallPoints, ModelPoints, Cleared
  <2>6. Writes(w, "run_started", e, "advance", m)
    BY <1>0, <1>s, <2>1, <2>2, <2>4, <2>5 DEF Writes, Boundaries, SameIntent
  <2> QED BY <2>6
<1>2. CASE PrepareModel(w)
  <2> DEFINE p == Prepared(e, seqno[w] + 1)
  <2>1. p \in Runtime /\ Like(e, p) /\ SameIntent(e, p)
    BY <1>0, BoundaryTypes, BoundaryLike, BoundaryIntent
  <2>2. /\ Persist(w, "model_prepared", p, "model_ready", p)
        /\ at[w] = "advance" /\ e.phase = "Model"
        /\ UNCHANGED performed /\ granted' = granted
    BY <1>2 DEF PrepareModel, In, world
  <2> HIDE DEF p
  <2>3. Heeds(w, "model_ready", e)
    BY <1>0, <2>2, KeepHeeds DEF CallPoints, ModelPoints, Cleared
  <2>4. Heeds(w, "model_ready", p)
    BY <2>1, <2>3, LikeHeeds
  <2> QED BY <2>1, <2>2, <2>4, PlainWrite DEF Boundaries
<1>3. CASE DispatchModel(w)
  <2> DEFINE d == ModelDispatched(e)
  <2>1. d \in Runtime /\ Like(e, d) /\ SameIntent(e, d) /\ d.effect.state = "dispatched"
    BY <1>0, BoundaryTypes, BoundaryLike, BoundaryIntent
  <2>2. /\ Persist(w, "model_dispatched", d, "model_dispatched", d) /\ at[w] = "model_ready"
        /\ UNCHANGED performed /\ granted' = granted
    BY <1>3 DEF DispatchModel, world
  <2> HIDE DEF d
  <2>p. e.phase = "Model"
    BY <2>2 DEF Fit, ModelPoints
  <2>3. Heeds(w, "model_dispatched", e)
    BY <1>0, <2>p, <2>2, KeepHeeds DEF CallPoints, ModelPoints, Cleared
  <2>4. Heeds(w, "model_dispatched", d)
    BY <2>1, <2>3, LikeHeeds
  <2>5. Writes(w, "model_dispatched", d, "model_dispatched", d)
    BY <2>1, <2>2, <2>4 DEF Writes, Boundaries
  <2> QED BY <2>5
<1>4. CASE CompleteModel(w)
  <2> DEFINE replies == {r \in Replies : NewIds(r, e.history)}
             goOn == [e EXCEPT !.blocks = 0, !.phase = "Model"]
             answer == [e EXCEPT !.phase = IF Gate THEN "Finalize" ELSE "Finish"]
  <2>1. /\ \E rt \in {WithReply(e, calls) : calls \in replies} \cup {goOn, answer} :
              Persist(w, "model_completed", Succeeded(rt), "advance", Succeeded(rt))
        /\ at[w] = "model_sent"
        /\ UNCHANGED performed /\ granted' = granted
    BY <1>4 DEF CompleteModel, world
  <2>e. e.calls = <<>>
    BY <1>s, <2>1 DEF Fit, ModelPoints
  <2>2. goOn \in Runtime /\ goOn.effect = e.effect /\ Heeds(w, "advance", goOn)
    <3>1. /\ goOn \in Runtime /\ goOn.effect = e.effect /\ goOn.calls = <<>> /\ goOn.history = e.history
          /\ goOn.journal = e.journal /\ goOn.max_turns = e.max_turns /\ goOn.blocks = 0
      BY <1>0, <2>e DEF Runtime, Phases
    <3> HIDE DEF goOn
    <3>2. Limits(goOn)
      BY <1>l, <1>g, <3>1 DEF Limits
    <3> QED BY <1>0, <2>1, <2>e, <3>1, <3>2, EmptyHeeds
  <2>3. answer \in Runtime /\ answer.effect = e.effect /\ Heeds(w, "advance", answer)
    <3>1. /\ answer \in Runtime /\ answer.effect = e.effect /\ answer.calls = <<>> /\ answer.history = e.history
          /\ answer.journal = e.journal /\ answer.max_turns = e.max_turns
          /\ answer.blocks = e.blocks
      BY <1>0, <2>e DEF Runtime, Phases
    <3> HIDE DEF answer
    <3>2. Limits(answer)
      BY <1>l, <3>1 DEF Limits
    <3> QED BY <1>0, <2>1, <2>e, <3>1, <3>2, EmptyHeeds
  <2>4. ASSUME NEW calls \in replies
        PROVE  /\ WithReply(e, calls) \in Runtime /\ WithReply(e, calls).effect = e.effect
               /\ Heeds(w, "advance", WithReply(e, calls))
    <3> DEFINE r == WithReply(e, calls)
    <3>1. calls \in Seq(Calls) /\ NewIds(calls, e.history)
      BY ConstantsAssumption
    <3>2. /\ r \in Runtime /\ r.journal = e.journal /\ r.max_turns = e.max_turns
          /\ r.blocks = 0 /\ r.phase = "Tools" /\ r.effect = e.effect
      <4>1. r \in Runtime
        BY <1>0, <3>1, TurnTypes
      <4>2. /\ r.journal = e.journal /\ r.max_turns = e.max_turns
            /\ r.blocks = 0 /\ r.phase = "Tools" /\ r.effect = e.effect
        BY <1>0 DEF WithReply, Runtime
      <4> QED BY <4>1, <4>2
    <3>3. Talk(e)
      BY DEF Fit, Sound
    <3>4. Talk(r) /\ Resolved(r.history) = Resolved(e.history)
      BY <1>0, <2>e, <3>1, <3>3, ReplyTalks
    <3>c. Continues(e.history, r.history)
      <4> DEFINE x == [i \in 1..Len(calls) |-> [kind |-> "call", call |-> calls[i]]]
      <4>1. x \in Seq(Item) /\ e.history \in Seq(Item)
        BY <1>0, <3>1 DEF Item, Runtime
      <4>2. r.history = e.history \o x
        BY <1>0 DEF WithReply, Runtime
      <4> HIDE DEF x, r
      <4> QED BY <4>1, <4>2, LongerContinues
    <3> HIDE DEF r
    <3>5. Limits(r)
      BY <1>l, <1>g, <3>2 DEF Limits
    <3>6. Fit("advance", r)
      BY <3>2, <3>4, <3>5 DEF Fit, Sound, CallPoints, ModelPoints
    <3>7. Heeds(w, "advance", r)
      BY <2>1, <3>2, <3>4, <3>6, <3>c DEF Heeds, InHand, Cleared
    <3> QED BY <3>2, <3>7 DEF r
  <2> HIDE DEF replies, goOn, answer
  <2>5. PICK rt \in {WithReply(e, calls) : calls \in replies} \cup {goOn, answer} :
              Persist(w, "model_completed", Succeeded(rt), "advance", Succeeded(rt))
    BY <2>1
  <2>6. rt \in Runtime /\ rt.effect = e.effect /\ Heeds(w, "advance", rt)
    BY <2>2, <2>3, <2>4, <2>5
  <2>7. /\ Succeeded(rt) \in Runtime /\ Like(rt, Succeeded(rt))
        /\ SameIntent(rt, Succeeded(rt))
    BY <1>0, <2>6, BoundaryTypes, BoundaryLike, BoundaryIntent
  <2>9. SameIntent(e, Succeeded(rt))
    BY <2>6, <2>7 DEF SameIntent
  <2>8. Heeds(w, "advance", Succeeded(rt))
    BY <2>6, <2>7, LikeHeeds
  <2> QED BY <2>1, <2>5, <2>7, <2>8, <2>9, PlainWrite DEF Boundaries
<1>5. CASE Finalize(w)
  <2> DEFINE pass == [e EXCEPT !.phase = "Finish", !.blocks = 0]
             last == [e EXCEPT !.phase = "Finish"]
             block == GateBlocks(e)
  <2>1. /\ \E rt \in (IF e.blocks < GateMax THEN {block, pass} ELSE {last}) :
              Persist(w, "model_completed", rt, "advance", rt)
        /\ at[w] = "advance" /\ e.phase = "Finalize"
        /\ UNCHANGED performed /\ granted' = granted
    BY <1>5 DEF Finalize, In, world
  <2>e. e.calls = <<>>
    BY <1>s, <2>1
  <2>2. pass \in Runtime /\ pass.effect = e.effect /\ Heeds(w, "advance", pass)
    <3>1. /\ pass \in Runtime /\ pass.effect = e.effect /\ pass.calls = <<>> /\ pass.history = e.history
          /\ pass.journal = e.journal /\ pass.max_turns = e.max_turns /\ pass.blocks = 0
      BY <1>0, <2>e DEF Runtime, Phases
    <3> HIDE DEF pass
    <3>2. Limits(pass)
      BY <1>l, <1>g, <3>1 DEF Limits
    <3> QED BY <1>0, <2>1, <2>e, <3>1, <3>2, EmptyHeeds
  <2>3. last \in Runtime /\ last.effect = e.effect /\ Heeds(w, "advance", last)
    <3>1. /\ last \in Runtime /\ last.effect = e.effect /\ last.calls = <<>> /\ last.history = e.history
          /\ last.journal = e.journal /\ last.max_turns = e.max_turns /\ last.blocks = e.blocks
      BY <1>0, <2>e DEF Runtime, Phases
    <3> HIDE DEF last
    <3>2. Limits(last)
      BY <1>l, <3>1 DEF Limits
    <3> QED BY <1>0, <2>1, <2>e, <3>1, <3>2, EmptyHeeds
  <2>4. ASSUME e.blocks < GateMax
        PROVE  block \in Runtime /\ block.effect = e.effect /\ Heeds(w, "advance", block)
    <3>1. block \in Runtime
      BY <1>0, TurnTypes
    <3>2. /\ block.calls = <<>> /\ block.history = e.history /\ block.journal = e.journal
          /\ block.blocks = e.blocks + 1 /\ block.effect = e.effect
          /\ block.max_turns = IF e.turns >= e.max_turns THEN e.max_turns + 1 ELSE e.max_turns
      BY <1>0, <2>e DEF GateBlocks, Runtime
    <3> HIDE DEF block
    <3>3. Gate /\ block.blocks <= GateMax
      BY <1>l, <1>g, <2>4, <3>2 DEF Gate
    <3>4. block.max_turns >= MaxTurns
      BY <1>l, <1>g, <3>2 DEF Limits
    <3>5. Limits(block)
      BY <3>3, <3>4 DEF Limits
    <3> QED BY <1>0, <2>1, <2>e, <3>1, <3>2, <3>5, EmptyHeeds
  <2> HIDE DEF pass, last, block
  <2>5. PICK rt \in (IF e.blocks < GateMax THEN {block, pass} ELSE {last}) :
              Persist(w, "model_completed", rt, "advance", rt)
    BY <2>1
  <2>6. rt \in Runtime /\ rt.effect = e.effect /\ Heeds(w, "advance", rt)
    BY <2>2, <2>3, <2>4, <2>5
  <2>7. SameIntent(e, rt)
    BY <2>6 DEF SameIntent
  <2> QED BY <2>1, <2>5, <2>6, <2>7, PlainWrite DEF Boundaries
<1>6. CASE CompleteRun(w)
  <2>1. /\ Persist(w, "run_completed", e, "done", e) /\ at[w] = "advance"
        /\ UNCHANGED performed /\ granted' = granted
    BY <1>6 DEF CompleteRun, In, world
  <2>2. Heeds(w, "done", e)
    BY <1>0, <2>1, KeepHeeds DEF CallPoints, ModelPoints, Cleared
  <2> QED BY <1>0, <2>1, <2>2, PlainWrite DEF Boundaries, SameIntent
<1> QED BY <1>1, <1>2, <1>3, <1>4, <1>5, <1>6

(* Actions of a tool call that commit.                                     *)
LEMMA ToolHeeds ==
  ASSUME Shape, NEW w \in Workers, Fit(at[w], eng[w]),
         \/ RejectTool(w) \/ RequestApproval(w) \/ Defer(w) \/ PauseForDecision(w)
         \/ PrepareTool(w) \/ Handoff(w) \/ DispatchTool(w) \/ FinishTool(w) \/ PauseForTool(w)
  PROVE  \E b, saved, point, rt : Writes(w, b, saved, point, rt)
<1> DEFINE e == eng[w]
           a == Answered(e, "result")
<1>0. /\ e \in Runtime /\ seqno[w] + 1 \in Nat /\ e.calls \in Seq(Calls)
      /\ at[w] \in CallPoints => e.calls # <<>>
  BY EngineTypes
<1>f. at[w] \in CallPoints => e.phase = "Tools"
  BY DEF Fit
<1>l. Talk(e) /\ Limits(e)
  BY DEF Fit, Sound
<1>a. ASSUME e.calls # <<>>, e.phase = "Tools", NEW b \in Runtime, Like(a, b),
             b.effect = e.effect
      PROVE  /\ Succeeded(b) \in Runtime /\ SameIntent(e, Succeeded(b))
             /\ Heeds(w, "advance", Succeeded(b))
  <2>1. Heeds(w, "advance", a)
    BY <1>0, <1>a, AnswerHeeds
  <2> HIDE DEF a
  <2>2. Heeds(w, "advance", b)
    BY <1>a, <2>1, LikeHeeds
  <2>3. Succeeded(b) \in Runtime /\ Like(b, Succeeded(b)) /\ SameIntent(b, Succeeded(b))
    BY <1>0, <1>a, BoundaryTypes, BoundaryLike, BoundaryIntent
  <2>4. SameIntent(e, Succeeded(b))
    BY <1>a, <2>3 DEF SameIntent
  <2> QED BY <2>2, <2>3, <2>4, LikeHeeds
<1>r. e.calls # <<>> => a \in Runtime /\ a.effect = e.effect
  <2>1. a.effect = e.effect
    BY <1>0 DEF Answered, Runtime
  <2> QED BY <1>0, <2>1, AnsweredTypes
<1>2. CASE RejectTool(w)
  <2> DEFINE b == [a EXCEPT !.final = TRUE]
             rt == Succeeded(b)
  <2>1. /\ Persist(w, "tool_completed", rt, "advance", rt) /\ at[w] = "advance"
        /\ e.calls # <<>> /\ e.phase = "Tools"
        /\ UNCHANGED performed /\ granted' = granted
    BY <1>2 DEF RejectTool, AtCall, In, world
  <2>2. b \in Runtime /\ Like(a, b) /\ b.effect = e.effect
    <3>1. a \in Runtime /\ a.effect = e.effect
      BY <1>r, <2>1
    <3> HIDE DEF a
    <3> QED BY <3>1 DEF Like, Runtime
  <2> HIDE DEF b
  <2>3. rt \in Runtime /\ SameIntent(e, rt) /\ Heeds(w, "advance", rt)
    BY <1>a, <2>1, <2>2
  <2> HIDE DEF rt
  <2> QED BY <2>1, <2>3, PlainWrite DEF Boundaries
<1>3. CASE RequestApproval(w)
  <2>1. /\ Persist(w, "approval_pending", e, "asking", e) /\ at[w] = "advance"
        /\ e.phase = "Tools"
        /\ UNCHANGED performed /\ granted' = granted
    BY <1>3 DEF RequestApproval, AtCall, In, world
  <2>2. Heeds(w, "asking", e)
    BY <1>0, <2>1, KeepHeeds DEF ModelPoints, Cleared
  <2> QED BY <1>0, <2>1, <2>2, PlainWrite DEF Boundaries, SameIntent
<1>4. CASE Defer(w)
  <2> DEFINE m == Marked(e, "defer")
             rt == [m EXCEPT !.pending = Head(e.calls)]
  <2>1. /\ Persist(w, "approval_pending", rt, "deferring", rt) /\ at[w] = "asking"
        /\ granted' \in {granted, granted \cup {Head(e.calls)}}
        /\ UNCHANGED performed
    BY <1>4 DEF Defer, Decision
  <2>2. e.calls # <<>> /\ e.phase = "Tools"
    BY <1>0, <1>f, <2>1 DEF CallPoints
  <2>3. Head(e.calls) \in Calls
    BY <1>0, <2>2
  <2>4. /\ m \in Runtime /\ m.calls = e.calls /\ m.history = e.history /\ m.phase = e.phase
        /\ m.max_turns = e.max_turns /\ m.blocks = e.blocks /\ m.effect = e.effect
        /\ \A c \in Calls : m.journal[c] = "approve" => e.journal[c] = "approve"
    <3>1. m \in Runtime
      BY <1>0, <2>2, DecisionTypes
    <3>2. e.journal \in [Calls -> Decisions]
      BY <1>0 DEF Runtime
    <3>3. /\ m.calls = e.calls /\ m.history = e.history /\ m.phase = e.phase
          /\ m.max_turns = e.max_turns /\ m.blocks = e.blocks /\ m.effect = e.effect
          /\ m.journal = [e.journal EXCEPT ![Head(e.calls)] = "defer"]
      BY <1>0 DEF Marked, Runtime
    <3> QED BY <3>1, <3>2, <3>3
  <2> HIDE DEF m
  <2>c. Continues(e.history, m.history)
    BY <1>0, <2>4, LongerContinues DEF Runtime
  <2>5. rt \in Runtime /\ Like(m, rt) /\ SameIntent(e, rt)
    BY <2>3, <2>4 DEF Runtime, Like, SameIntent
  <2>6. Heeds(w, "deferring", m)
    <3>1. Fit("deferring", m)
      BY <1>l, <2>2, <2>4 DEF Fit, Sound, Talk, Limits, Queued, ModelPoints
    <3> QED BY <2>1, <2>4, <2>c, <3>1 DEF Heeds, InHand, Cleared
  <2>7. Heeds(w, "deferring", rt)
    BY <2>5, <2>6, LikeHeeds
  <2> HIDE DEF rt
  <2>8. granted \subseteq granted'
    BY <2>1
  <2> QED BY <2>1, <2>5, <2>7, <2>8, PlainWrite DEF Boundaries
<1>5. CASE PauseForDecision(w)
  <2>1. /\ Persist(w, "paused", e, "paused", e) /\ at[w] = "deferring"
        /\ UNCHANGED performed /\ granted' = granted
    BY <1>5 DEF PauseForDecision, world
  <2>2. Heeds(w, "paused", e)
    BY <1>0, <2>1, KeepHeeds DEF CallPoints, ModelPoints, Cleared
  <2> QED BY <1>0, <2>1, <2>2, PlainWrite DEF Boundaries, SameIntent
<1>6. CASE PrepareTool(w)
  <2> DEFINE p == Prepared(e, seqno[w] + 1)
  <2>1. p \in Runtime /\ Like(e, p) /\ SameIntent(e, p)
    BY <1>0, BoundaryTypes, BoundaryLike, BoundaryIntent
  <2>2. /\ Persist(w, "tool_prepared", p, "tool_ready", p)
        /\ \/ at[w] = "approved"
           \/ at[w] = "advance" /\ e.phase = "Tools" /\ Head(e.calls) \notin Guarded
        /\ UNCHANGED performed /\ granted' = granted
    BY <1>6 DEF PrepareTool, AtCall, In, world
  <2>3. e.phase = "Tools"
    BY <1>f, <2>2 DEF CallPoints
  <2> HIDE DEF p
  <2>4. Heeds(w, "tool_ready", e)
    BY <1>0, <2>2, <2>3, KeepHeeds DEF ModelPoints, Cleared
  <2>5. Heeds(w, "tool_ready", p)
    BY <2>1, <2>4, LikeHeeds
  <2>6. at[w] \notin {"idle", "done"}
    BY <2>2
  <2> QED BY <2>1, <2>2, <2>5, <2>6, PlainWrite DEF Boundaries
<1>7. CASE Handoff(w)
  <2> DEFINE rt == HandedOff(e)
  <2>1. /\ Persist(w, "handoff_completed", rt, "advance", rt) /\ at[w] = "tool_ready"
        /\ UNCHANGED performed /\ granted' = granted
    BY <1>7 DEF Handoff, world
  <2>2. rt \in Runtime /\ SameIntent(e, rt)
    BY <1>0, TurnTypes, BoundaryIntent
  <2>3. /\ rt.journal = e.journal /\ rt.max_turns = e.max_turns /\ rt.blocks = e.blocks
        /\ rt.phase = "Model"
    BY <1>0 DEF HandedOff, WithEffectState, Runtime
  <2>4. /\ Talk(rt) /\ rt.calls = <<>>
        /\ Resolved(e.history) \subseteq Resolved(rt.history)
    BY <1>0, <1>l, HandoffTalks
  <2>c. Continues(e.history, rt.history)
    <3> DEFINE x == [i \in 1..Len(e.calls) |->
                        [kind |-> IF i = 1 THEN "handoff" ELSE "result", call |-> e.calls[i]]]
    <3>1. x \in Seq(Item) /\ e.history \in Seq(Item)
      BY <1>0 DEF Item, Runtime
    <3>2. rt.history = e.history \o x
      BY <1>0 DEF HandedOff, WithEffectState, Runtime
    <3> HIDE DEF x, rt
    <3> QED BY <3>1, <3>2, LongerContinues
  <2> HIDE DEF rt
  <2>5. Fit("advance", rt)
    BY <1>l, <2>3, <2>4 DEF Fit, Sound, Limits, CallPoints, ModelPoints
  <2>6. Heeds(w, "advance", rt)
    BY <2>1, <2>3, <2>4, <2>5, <2>c DEF Heeds, InHand, Cleared
  <2> QED BY <2>1, <2>2, <2>6, PlainWrite DEF Boundaries
<1>8. CASE DispatchTool(w)
  <2> DEFINE d == ToolDispatched(e)
  <2>1. d \in Runtime /\ Like(e, d) /\ SameIntent(e, d) /\ d.effect.state = "dispatched"
    BY <1>0, BoundaryTypes, BoundaryLike, BoundaryIntent
  <2>2. /\ Persist(w, "tool_dispatched", d, "tool_dispatched", d) /\ at[w] = "tool_ready"
        /\ UNCHANGED performed /\ granted' = granted
    BY <1>8 DEF DispatchTool, world
  <2> HIDE DEF d
  <2>3. e.phase = "Tools"
    BY <1>f, <2>2 DEF CallPoints
  <2>4. Heeds(w, "tool_dispatched", e)
    BY <1>0, <2>2, <2>3, KeepHeeds DEF ModelPoints, Cleared
  <2>5. Heeds(w, "tool_dispatched", d)
    BY <2>1, <2>4, LikeHeeds
  <2>6. Writes(w, "tool_dispatched", d, "tool_dispatched", d)
    BY <2>1, <2>2, <2>5 DEF Writes, Boundaries
  <2> QED BY <2>6
<1>9. CASE FinishTool(w)
  <2>1. /\ at[w] = "tool_done"
        /\ UNCHANGED performed /\ granted' = granted
    BY <1>9 DEF FinishTool, world
  <2>2. PICK pause \in BOOLEAN :
          LET rt == Succeeded([a EXCEPT !.final = TRUE, !.pause = @ \/ pause])
          IN Persist(w, "tool_completed", rt, "advance", rt)
    BY <1>9 DEF FinishTool
  <2> DEFINE b == [a EXCEPT !.final = TRUE, !.pause = @ \/ pause]
             rt == Succeeded(b)
  <2>3. e.calls # <<>> /\ e.phase = "Tools"
    BY <1>0, <1>f, <2>1 DEF CallPoints
  <2>4. Persist(w, "tool_completed", rt, "advance", rt)
    BY <2>2
  <2>5. b \in Runtime /\ Like(a, b) /\ b.effect = e.effect
    <3>1. a \in Runtime /\ a.effect = e.effect
      BY <1>r, <2>3
    <3> HIDE DEF a
    <3>2. a.pause \in BOOLEAN
      BY <3>1 DEF Runtime
    <3>3. a.pause \/ pause \in BOOLEAN
      BY <3>2
    <3> QED BY <3>1, <3>3 DEF Like, Runtime
  <2> HIDE DEF b
  <2>6. rt \in Runtime /\ SameIntent(e, rt) /\ Heeds(w, "advance", rt)
    BY <1>a, <2>3, <2>5
  <2> HIDE DEF rt
  <2> QED BY <2>1, <2>4, <2>6, PlainWrite DEF Boundaries
<1>10. CASE PauseForTool(w)
  <2> DEFINE rt == [e EXCEPT !.phase = "Model", !.pause = FALSE]
  <2>1. /\ Persist(w, "paused", rt, "paused", rt) /\ at[w] = "advance" /\ e.calls = <<>>
        /\ UNCHANGED performed /\ granted' = granted
    BY <1>10 DEF PauseForTool, ToolsDone, In, world
  <2>2. /\ rt \in Runtime /\ rt.calls = e.calls /\ rt.history = e.history
        /\ rt.journal = e.journal /\ rt.max_turns = e.max_turns /\ rt.blocks = e.blocks
        /\ rt.effect = e.effect
    BY <1>0 DEF Runtime, Phases
  <2> HIDE DEF rt
  <2>3. Limits(rt)
    BY <1>l, <2>2 DEF Limits
  <2>4. Heeds(w, "paused", rt)
    BY <1>0, <2>1, <2>2, <2>3, EmptyHeeds
  <2> QED BY <2>1, <2>2, <2>4, PlainWrite DEF Boundaries, SameIntent
<1> QED BY <1>2, <1>3, <1>4, <1>5, <1>6, <1>7, <1>8, <1>9, <1>10

(* Actions that commit nothing.                                            *)
LEMMA LocalHeeds ==
  ASSUME Shape, NEW w \in Workers, Fit(at[w], eng[w]), Approve(w) \/ Deny(w) \/ EndTools(w)
  PROVE  \E point, rt : Plans(w, point, rt)
<1> DEFINE e == eng[w]
<1>0. /\ e \in Runtime /\ e.calls \in Seq(Calls)
      /\ at[w] \in CallPoints => e.calls # <<>>
  BY EngineTypes
<1>f. at[w] \in CallPoints => e.phase = "Tools"
  BY DEF Fit
<1>l. Talk(e) /\ Limits(e)
  BY DEF Fit, Sound
<1>1. approvals \in [Workers -> [Calls -> Decisions]]
  BY DEF Shape, RunTypes
<1>2. ASSUME NEW d \in Calls, approvals' = Undecided(w, d)
      PROVE  \A v \in Workers, c \in Calls :
                approvals'[v][c] = "approve" => approvals[v][c] = "approve"
  <2> SUFFICES ASSUME NEW v \in Workers, NEW c \in Calls, approvals'[v][c] = "approve"
               PROVE  approvals[v][c] = "approve"
    OBVIOUS
  <2>1. CASE v = w
    BY <1>1, <1>2, <2>1 DEF Undecided
  <2>2. CASE v # w
    BY <1>1, <1>2, <2>2 DEF Undecided
  <2> QED BY <2>1, <2>2
<1>m. ASSUME NEW d \in {"approve", "deny"}, at[w] = "asking"
      PROVE  LET p == WithoutPending(Marked(e, d))
             IN /\ p \in Runtime /\ p.calls = e.calls /\ p.history = e.history
                /\ p.phase = "Tools" /\ p.max_turns = e.max_turns /\ p.blocks = e.blocks
                /\ p.journal = [e.journal EXCEPT ![Head(e.calls)] = d] /\ p.effect = e.effect
  <2> DEFINE m == Marked(e, d)
             p == WithoutPending(m)
  <2>1. e.calls # <<>> /\ e.phase = "Tools"
    BY <1>0, <1>f, <1>m DEF CallPoints
  <2>2. m \in Runtime /\ m.calls = e.calls
    BY <1>0, <2>1, DecisionTypes
  <2>3. /\ m.history = e.history /\ m.phase = e.phase
        /\ m.max_turns = e.max_turns /\ m.blocks = e.blocks
        /\ m.journal = [e.journal EXCEPT ![Head(e.calls)] = d] /\ m.effect = e.effect
    BY <1>0 DEF Marked, Runtime
  <2> HIDE DEF m
  <2>4. p \in Runtime /\ p.calls = e.calls
    BY <2>1, <2>2, DecisionTypes
  <2>5. /\ p.history = m.history /\ p.phase = m.phase /\ p.journal = m.journal
        /\ p.max_turns = m.max_turns /\ p.blocks = m.blocks /\ p.effect = m.effect
    BY <2>2 DEF WithoutPending, Runtime
  <2> HIDE DEF p
  <2>6. /\ p \in Runtime /\ p.calls = e.calls /\ p.history = e.history
        /\ p.phase = "Tools" /\ p.max_turns = e.max_turns /\ p.blocks = e.blocks
        /\ p.journal = [e.journal EXCEPT ![Head(e.calls)] = d] /\ p.effect = e.effect
    BY <2>1, <2>3, <2>4, <2>5
  <2> QED BY <2>6 DEF p, m
<1>j. e.journal \in [Calls -> Decisions]
  BY <1>0 DEF Runtime
<1>3. CASE Approve(w)
  <2> DEFINE rt == WithoutPending(Marked(e, "approve"))
             c == Head(e.calls)
  <2>1. /\ Local(w, "approved", rt) /\ at[w] = "asking" /\ approvals' = Undecided(w, c)
        /\ \/ approvals[w][c] = "approve" /\ granted' = granted
           \/ granted' = granted \cup {c}
        /\ UNCHANGED performed
    BY <1>3 DEF Approve, Decision
  <2>2. /\ rt \in Runtime /\ rt.calls = e.calls /\ rt.history = e.history
        /\ rt.phase = "Tools" /\ rt.max_turns = e.max_turns /\ rt.blocks = e.blocks
        /\ rt.journal = [e.journal EXCEPT ![c] = "approve"] /\ rt.effect = e.effect
    BY <1>m, <2>1
  <2>3. c \in Calls
    BY <1>0, <2>1 DEF CallPoints
  <2> HIDE DEF rt, c
  <2>4. \A d \in Calls : rt.journal[d] = "approve" =>
            e.journal[d] = "approve" \/ approvals[w][d] = "approve" \/ d \in granted'
    BY <1>j, <2>1, <2>2, <2>3
  <2>5. Fit("approved", rt)
    BY <1>l, <2>2 DEF Fit, Sound, Talk, Limits, Queued, ModelPoints
  <2>6. Head(rt.calls) = c
    BY <2>2 DEF c
  <2>c. Continues(e.history, rt.history)
    BY <1>0, <2>2, LongerContinues DEF Runtime
  <2>7. Heeds(w, "approved", rt)
    BY <2>1, <2>2, <2>4, <2>5, <2>6, <2>c DEF Heeds, InHand
  <2>8. granted \subseteq granted'
    BY <2>1
  <2>9. Plans(w, "approved", rt)
    BY <1>2, <2>1, <2>2, <2>3, <2>7, <2>8 DEF Plans
  <2> QED BY <2>9
<1>4. CASE Deny(w)
  <2> DEFINE p == WithoutPending(Marked(e, "deny"))
             rt == Answered(p, "result")
             c == Head(e.calls)
  <2>1. /\ Local(w, "advance", rt) /\ at[w] = "asking" /\ approvals' = Undecided(w, c)
        /\ granted' = granted
        /\ UNCHANGED performed
    BY <1>4 DEF Deny, Decision
  <2>2. /\ p \in Runtime /\ p.calls = e.calls /\ p.history = e.history
        /\ p.phase = "Tools" /\ p.max_turns = e.max_turns /\ p.blocks = e.blocks
        /\ p.journal = [e.journal EXCEPT ![c] = "deny"] /\ p.effect = e.effect
    BY <1>m, <2>1
  <2>3. c \in Calls /\ e.calls # <<>> /\ e.phase = "Tools"
    BY <1>0, <1>f, <2>1 DEF CallPoints
  <2> HIDE DEF p, c
  <2>4. \A d \in Calls : p.journal[d] = "approve" => e.journal[d] = "approve"
    BY <1>j, <2>2, <2>3
  <2>5. Heeds(w, "advance", rt)
    BY <2>2, <2>3, <2>4, AnswerHeeds
  <2>6. rt \in Runtime /\ rt.effect = e.effect
    <3>1. rt.effect = p.effect
      BY <2>2 DEF Answered, Runtime
    <3> QED BY <2>2, <2>3, <3>1, AnsweredTypes
  <2> HIDE DEF rt
  <2>7. Plans(w, "advance", rt)
    BY <1>2, <2>1, <2>3, <2>5, <2>6 DEF Plans
  <2> QED BY <2>7
<1>5. CASE EndTools(w)
  <2>1. PICK phase \in {"Finish", "Model"} : Local(w, "advance", [e EXCEPT !.phase = phase])
    BY <1>5 DEF EndTools
  <2>2. /\ at[w] = "advance" /\ e.calls = <<>> /\ approvals' = approvals
        /\ UNCHANGED performed /\ granted' = granted
    BY <1>5 DEF EndTools, ToolsDone, In, world
  <2> DEFINE rt == [e EXCEPT !.phase = phase]
  <2>3. /\ rt \in Runtime /\ rt.calls = e.calls /\ rt.history = e.history
        /\ rt.journal = e.journal /\ rt.max_turns = e.max_turns /\ rt.blocks = e.blocks
        /\ rt.effect = e.effect
    BY <1>0 DEF Runtime, Phases
  <2>4. Local(w, "advance", rt)
    BY <2>1
  <2> HIDE DEF rt
  <2>5. Limits(rt)
    BY <1>l, <2>3 DEF Limits
  <2>6. Heeds(w, "advance", rt)
    BY <1>0, <2>2, <2>3, <2>5, EmptyHeeds
  <2>7. Plans(w, "advance", rt)
    BY <2>2, <2>3, <2>4, <2>6 DEF Plans
  <2> QED BY <2>7
<1> QED BY <1>3, <1>4, <1>5

(* Every step of an engine heeds, ends it, or reaches the outside.         *)
LEMMA EngineHeeds ==
  ASSUME Shape, NEW w \in Workers, Fit(at[w], eng[w]), EngineStep(w)
  PROVE  \/ \E b, saved, point, rt : Writes(w, b, saved, point, rt)
         \/ \E point, rt : Plans(w, point, rt)
         \/ TurnsExhausted(w) \/ RequestModel(w) \/ ExecuteTool(w)
  BY ModelHeeds, ToolHeeds, LocalHeeds DEF EngineStep

(* What a commit does to the run and to each engine.                       *)
LEMMA WriteOutcome ==
  ASSUME Shape, Ownership, NEW w \in Workers,
         NEW b, NEW saved, NEW point, NEW rt, Writes(w, b, saved, point, rt)
  PROVE  /\ \A v \in Workers \ {w} :
               /\ session'[v] = session[v] /\ at'[v] = at[v] /\ eng'[v] = eng[v]
               /\ seqno'[v] = seqno[v] /\ approvals'[v] = approvals[v]
         /\ \/ at'[w] = point /\ eng'[w] = rt /\ approvals'[w] = approvals[w]
            \/ /\ at'[w] = "idle" /\ eng'[w] = FreshRuntime /\ approvals'[w] = NoDecisions
               /\ session'[w] = Closed
         /\ \/ store' = store /\ session'[w] = Closed
            \/ /\ InStep(w) /\ store'.doc # NoCheckpoint
               /\ store'.doc.runtime = saved /\ store'.doc.boundary = b
               /\ store'.doc.sequence = seqno[w] + 1
               /\ \A v \in Workers \ {w} : session[v] # Closed => session[v].revision # store'.revision
<1> DEFINE s == session[w]
           ck == [sequence |-> seqno[w] + 1, attempt |-> attempt[w],
                  boundary |-> b, runtime |-> saved]
<1>t. /\ session \in [Workers -> Session \cup {Closed}]
      /\ at \in [Workers -> Points] /\ eng \in [Workers -> Runtime]
      /\ seqno \in [Workers -> Nat] /\ approvals \in [Workers -> [Calls -> Decisions]]
      /\ store \in StoredRun
  BY DEF Shape, RunTypes
<1>0. s # Closed /\ s \in Session
  BY <1>t DEF Writes, Shape, RunsWithSession
<1>c. ASSUME Accepts(s, ck), store' = Committed(s, ck)
      PROVE  /\ InStep(w) /\ store'.doc # NoCheckpoint
             /\ store'.doc.runtime = saved /\ store'.doc.boundary = b
             /\ store'.doc.sequence = seqno[w] + 1
             /\ \A v \in Workers \ {w} : session[v] # Closed => session[v].revision # store'.revision
  <2>1. store'.doc = ck /\ store'.revision = s.revision + 1
    BY <1>t, <1>c DEF Committed, StoredRun
  <2>2. ck.sequence = seqno[w] + 1 /\ ck.runtime = saved /\ ck.boundary = b
    OBVIOUS
  <2>4. ck # NoCheckpoint
    <3>1. ck \in Checkpoint
      BY DEF Writes, Shape, RunTypes, Checkpoint
    <3> QED BY <3>1, NullAssumption
  <2> HIDE DEF ck
  <2>3. /\ InStep(w)
        /\ store'.revision = store.revision + 1
        /\ \A v \in Workers \ {w} : session[v] # Closed => session[v].revision < store'.revision
    BY <1>0, <1>c, <2>1, <2>2, CommitExcludes
  <2>5. \A v \in Workers : session[v] # Closed => session[v].revision \in Nat
    BY <1>t DEF Session
  <2>6. store.revision \in Nat
    BY <1>t DEF StoredRun
  <2>7. \A v \in Workers \ {w} : session[v] # Closed => session[v].revision # store'.revision
    BY <2>3, <2>5, <2>6
  <2> QED BY <2>1, <2>2, <2>3, <2>4, <2>7
<1>1. CASE Accepts(s, ck) /\ store' = Committed(s, ck) /\ UNCHANGED approvals /\ GoOn(w, point, rt)
           /\ \E new : session' = [session EXCEPT ![w] = new]
           /\ seqno' = [seqno EXCEPT ![w] = seqno[w] + 1]
  <2> HIDE DEF s, ck
  <2>1. /\ \A v \in Workers \ {w} :
               /\ session'[v] = session[v] /\ at'[v] = at[v] /\ eng'[v] = eng[v]
               /\ seqno'[v] = seqno[v] /\ approvals'[v] = approvals[v]
        /\ at'[w] = point /\ eng'[w] = rt /\ approvals'[w] = approvals[w]
    BY <1>t, <1>1 DEF GoOn
  <2> QED BY <1>1, <1>c, <2>1
<1>g. ASSUME EngineGone(w)
      PROVE  /\ \A v \in Workers \ {w} :
                   /\ session'[v] = session[v] /\ at'[v] = at[v] /\ eng'[v] = eng[v]
                   /\ seqno'[v] = seqno[v] /\ approvals'[v] = approvals[v]
             /\ at'[w] = "idle" /\ eng'[w] = FreshRuntime /\ approvals'[w] = NoDecisions
             /\ session'[w] = Closed
  BY <1>g, <1>t DEF EngineGone
<1>2. CASE Accepts(s, ck) /\ store' = Committed(s, ck) /\ EngineGone(w)
  <2> HIDE DEF s, ck
  <2> QED BY <1>2, <1>c, <1>g
<1>3. CASE EngineGone(w) /\ UNCHANGED store
  <2> HIDE DEF s, ck
  <2> QED BY <1>3, <1>g
<1>4. \/ Accepts(s, ck) /\ store' = Committed(s, ck) /\ UNCHANGED approvals /\ GoOn(w, point, rt)
         /\ (\E new : session' = [session EXCEPT ![w] = new])
         /\ seqno' = [seqno EXCEPT ![w] = seqno[w] + 1]
      \/ Accepts(s, ck) /\ store' = Committed(s, ck) /\ EngineGone(w)
      \/ EngineGone(w) /\ UNCHANGED store
  BY DEF Writes, Persist
<1> HIDE DEF s, ck
<1> QED BY <1>1, <1>2, <1>3, <1>4

(* A step without a commit.                                                *)
LEMMA PlanOutcome ==
  ASSUME Shape, NEW w \in Workers, NEW point, NEW rt, Plans(w, point, rt)
  PROVE  /\ \A v \in Workers \ {w} : at'[v] = at[v] /\ eng'[v] = eng[v]
         /\ at'[w] = point /\ eng'[w] = rt
         /\ UNCHANGED <<store, session, seqno, performed>>
  BY DEF Plans, Local, GoOn, Shape, RunTypes

(* An engine that is gone.                                                 *)
LEMMA GoneOutcome ==
  ASSUME Shape, NEW w \in Workers, EngineGone(w)
  PROVE  /\ \A v \in Workers \ {w} :
               /\ session'[v] = session[v] /\ at'[v] = at[v] /\ eng'[v] = eng[v]
               /\ seqno'[v] = seqno[v] /\ approvals'[v] = approvals[v]
         /\ at'[w] = "idle" /\ eng'[w] = FreshRuntime /\ approvals'[w] = NoDecisions
         /\ session'[w] = Closed
  BY DEF EngineGone, Shape, RunTypes

(* The two steps that reach the outside.                                   *)
LEMMA ReachOutcome ==
  ASSUME Shape, NEW w \in Workers, RequestModel(w) \/ ExecuteTool(w)
  PROVE  /\ \A v \in Workers : eng'[v] = eng[v]
         /\ \A v \in Workers \ {w} : at'[v] = at[v]
         /\ \/ at[w] = "model_dispatched" /\ at'[w] = "model_sent" /\ performed' = performed
            \/ /\ at[w] = "tool_dispatched" /\ at'[w] = "tool_done"
               /\ performed' = [performed EXCEPT ![Head(eng[w].calls)] = @ + 1]
         /\ UNCHANGED <<store, session, seqno, approvals, granted>>
  BY DEF RequestModel, ExecuteTool, Local, GoOn, Shape, RunTypes

(* Opening the run.                                                        *)
LEMMA OpenOutcome ==
  ASSUME Shape, Ownership, NEW w \in Workers, NEW a \in Attempts,
         StartFresh(w, a) \/ Recover(w, a)
  PROVE  /\ \A v \in Workers \ {w} :
               /\ session'[v] = session[v] /\ at'[v] = at[v] /\ eng'[v] = eng[v]
               /\ seqno'[v] = seqno[v] /\ approvals'[v] = approvals[v]
         /\ at'[w] \in {"advance", "paused"} /\ ~Dispatched
         /\ \/ eng'[w] = FreshRuntime /\ seqno'[w] = 0 /\ approvals'[w] = approvals[w]
            \/ /\ store.doc # NoCheckpoint /\ store.doc.boundary # "run_completed"
               /\ eng'[w] = Restored(store.doc)
               /\ approvals'[w] = RestoredDecisions(store.doc.runtime)
         /\ session'[w] # Closed => session'[w].sequence = SequenceOf(store.doc)
         /\ UNCHANGED <<store, performed, granted>>
<1>0. at[w] = "idle"
  BY OpenTypes DEF StartFresh, Recover
<1>1. eng[w] = FreshRuntime /\ seqno[w] = 0
  BY <1>0 DEF Ownership, IdleFresh
<1>2. Open(w) /\ UNCHANGED <<store, performed, granted>>
  BY DEF StartFresh, Recover, world
<1>3. /\ ~Dispatched /\ session'[w].sequence = SequenceOf(store.doc)
      /\ \A v \in Workers \ {w} : session'[v] = session[v]
  BY <1>2 DEF Open, Dispatched, Shape, RunTypes
<1>4. CASE StartFresh(w, a)
  <2>1. at' = [at EXCEPT ![w] = "advance"] /\ UNCHANGED <<eng, seqno, approvals>>
    BY <1>4 DEF StartFresh
  <2> QED BY <1>1, <1>2, <1>3, <2>1 DEF Shape, RunTypes
<1>5. CASE Recover(w, a)
  <2>1. /\ store.doc # NoCheckpoint /\ store.doc.boundary # "run_completed"
        /\ \E p \in {"advance", "paused"} : at' = [at EXCEPT ![w] = p]
        /\ eng' = [eng EXCEPT ![w] = Restored(store.doc)]
        /\ seqno' = [seqno EXCEPT ![w] = store.doc.sequence]
        /\ approvals' = [approvals EXCEPT ![w] = RestoredDecisions(store.doc.runtime)]
    BY <1>5 DEF Recover
  <2> QED BY <1>2, <1>3, <2>1 DEF Shape, RunTypes
<1> QED BY <1>4, <1>5

(* A fresh engine is sound.                                                *)
LEMMA FreshSound == Sound(FreshRuntime) /\ Resolved(FreshRuntime.history) = {}
<1>1. /\ FreshRuntime.history = <<>> /\ FreshRuntime.calls = <<>>
      /\ FreshRuntime.max_turns = MaxTurns /\ FreshRuntime.blocks = 0
  BY DEF FreshRuntime
<1>2. Called(<<>>) = {} /\ Resolved(<<>>) = {}
  BY DEF Called, Resolved
<1>3. Paired(<<>>) /\ Distinct(<<>>)
  BY DEF Paired, Distinct
<1>4. Queued(FreshRuntime) = {}
  BY <1>1 DEF Queued
<1>5. Limits(FreshRuntime)
  BY <1>1, ConstantsAssumption DEF Limits
<1> QED BY <1>1, <1>2, <1>3, <1>4, <1>5 DEF Sound, Talk

(* What is restored is what was stored.                                    *)
LEMMA RestoredLike ==
  ASSUME NEW ck \in Checkpoint
  PROVE  LET rt == Restored(ck)
         IN /\ rt.calls = ck.runtime.calls /\ rt.history = ck.runtime.history
            /\ rt.journal = ck.runtime.journal /\ rt.max_turns = ck.runtime.max_turns
            /\ rt.blocks = ck.runtime.blocks /\ rt.effect = ck.runtime.effect
            /\ rt.phase = IF ck.boundary = "run_started" THEN "Model" ELSE ck.runtime.phase
<1>1. ck.runtime \in Runtime
  BY DEF Checkpoint
<1> QED BY <1>1 DEF Restored, Runtime

(* Soundness is kept.                                                      *)
LEMMA SoundStep ==
  ASSUME Shape, Ownership, SoundInv, [Next]_vars
  PROVE  SoundInv'
<1>t. /\ store \in StoredRun /\ at \in [Workers -> Points] /\ eng \in [Workers -> Runtime]
      /\ store.doc # NoCheckpoint => store.doc \in Checkpoint
  BY DEF Shape, RunTypes, StoredRun
<1>f. \A point \in {"idle", "advance", "paused"} : \A rt : Sound(rt) => Fit(point, rt)
  BY DEF Fit, CallPoints, ModelPoints
<1>w. \A w \in Workers : Sound(eng[w])
  BY DEF SoundInv, Fit
<1>d. ASSUME store'.doc = store.doc, \A w \in Workers : Fit(at'[w], eng'[w])
      PROVE  SoundInv'
  BY <1>d DEF SoundInv
<1>g. ASSUME NEW w \in Workers, EngineGone(w), store'.doc = store.doc
      PROVE  SoundInv'
  <2>1. \A v \in Workers : Fit(at'[v], eng'[v])
    BY <1>f, <1>g, GoneOutcome, FreshSound DEF SoundInv
  <2> QED BY <1>d, <1>g, <2>1
<1>1. ASSUME NEW w \in Workers, EngineStep(w)
      PROVE  SoundInv'
  <2>0. Fit(at[w], eng[w])
    BY DEF SoundInv
  <2>1. ASSUME NEW b, NEW saved, NEW point, NEW rt, Writes(w, b, saved, point, rt)
        PROVE  SoundInv'
    <3>1. /\ \A v \in Workers \ {w} : at'[v] = at[v] /\ eng'[v] = eng[v]
          /\ \/ at'[w] = point /\ eng'[w] = rt
             \/ at'[w] = "idle" /\ eng'[w] = FreshRuntime
          /\ \/ store' = store
             \/ store'.doc.runtime = saved /\ store'.doc.boundary = b
      BY <2>1, WriteOutcome
    <3>2. Fit(point, rt) /\ Sound(saved)
      BY <2>1 DEF Writes, Heeds, Fit
    <3>3. \A v \in Workers : Fit(at'[v], eng'[v])
      BY <1>f, <3>1, <3>2, FreshSound DEF SoundInv
    <3>4. CASE store' = store
      BY <1>d, <3>3, <3>4
    <3>5. CASE store'.doc.runtime = saved /\ store'.doc.boundary = b
      BY <2>1, <3>2, <3>3, <3>5 DEF SoundInv, Writes
    <3> QED BY <3>1, <3>4, <3>5
  <2>2. ASSUME NEW point, NEW rt, Plans(w, point, rt)
        PROVE  SoundInv'
    <3>1. \A v \in Workers : Fit(at'[v], eng'[v])
      BY <2>2, PlanOutcome DEF SoundInv, Plans, Heeds
    <3> QED BY <1>d, <2>2, <3>1, PlanOutcome
  <2>3. CASE TurnsExhausted(w)
    BY <1>g, <2>3 DEF TurnsExhausted
  <2>4. CASE RequestModel(w) \/ ExecuteTool(w)
    <3>1. /\ \A v \in Workers : eng'[v] = eng[v]
          /\ \A v \in Workers \ {w} : at'[v] = at[v]
          /\ \/ at[w] = "model_dispatched" /\ at'[w] = "model_sent"
             \/ at[w] = "tool_dispatched" /\ at'[w] = "tool_done"
          /\ store' = store
      BY <2>4, ReachOutcome
    <3>2. \A v \in Workers : Fit(at'[v], eng'[v])
      BY <3>1 DEF SoundInv, Fit, CallPoints, ModelPoints
    <3> QED BY <1>d, <3>1, <3>2
  <2> QED BY <1>1, <2>0, <2>1, <2>2, <2>3, <2>4, EngineHeeds
<1>2. ASSUME NEW w \in Workers, HostStep(w)
      PROVE  SoundInv'
  <2>1. CASE AcquireLease(w) \/ ReleaseLease(w)
    <3>1. store'.doc = store.doc /\ UNCHANGED <<at, eng>>
      BY <1>t, <2>1 DEF AcquireLease, ReleaseLease, engineVars, StoredRun
    <3> QED BY <1>d, <3>1 DEF SoundInv
  <2>2. ASSUME NEW a \in Attempts, StartFresh(w, a) \/ Recover(w, a)
        PROVE  SoundInv'
    <3>1. /\ \A v \in Workers \ {w} : at'[v] = at[v] /\ eng'[v] = eng[v]
          /\ at'[w] \in {"advance", "paused"}
          /\ \/ eng'[w] = FreshRuntime
             \/ store.doc # NoCheckpoint /\ eng'[w] = Restored(store.doc)
          /\ store' = store
      BY <2>2, OpenOutcome
    <3>2. ASSUME store.doc # NoCheckpoint
          PROVE  Sound(Restored(store.doc))
      <4> DEFINE rt == Restored(store.doc)
      <4>1. /\ rt.calls = store.doc.runtime.calls /\ rt.history = store.doc.runtime.history
            /\ rt.max_turns = store.doc.runtime.max_turns
            /\ rt.blocks = store.doc.runtime.blocks
            /\ rt.phase = IF store.doc.boundary = "run_started" THEN "Model"
                          ELSE store.doc.runtime.phase
        BY <1>t, <3>2, RestoredLike
      <4> HIDE DEF rt
      <4>2. /\ Sound(store.doc.runtime)
            /\ store.doc.boundary = "run_started" => store.doc.runtime.calls = <<>>
        BY <3>2 DEF SoundInv
      <4>3. Talk(rt) /\ Limits(rt)
        BY <4>1, <4>2 DEF Sound, Talk, Limits, Queued
      <4>4. rt.phase # "Tools" => rt.calls = <<>>
        BY <4>1, <4>2 DEF Sound
      <4>5. Sound(rt)
        BY <4>3, <4>4 DEF Sound
      <4> QED BY <4>5 DEF rt
    <3>3. Fit(at'[w], eng'[w])
      BY <1>f, <3>1, <3>2, FreshSound
    <3> QED BY <1>d, <3>1, <3>3 DEF SoundInv
  <2>3. CASE ResumeContinuation(w)
    <3>1. at' = [at EXCEPT ![w] = "advance"] /\ UNCHANGED <<store, eng>>
      BY <2>3 DEF ResumeContinuation
    <3>2. \A v \in Workers : at'[v] = at[v] \/ at'[v] = "advance"
      BY <1>t, <3>1
    <3> QED BY <1>d, <1>f, <1>w, <3>1, <3>2 DEF SoundInv
  <2>4. CASE EngineReturns(w) \/ Crash(w)
    BY <1>g, <2>4 DEF EngineReturns, Crash
  <2> QED BY <1>2, <2>1, <2>2, <2>3, <2>4 DEF HostStep
<1>3. CASE LeaseExpires \/ UNCHANGED vars
  <2>1. store'.doc = store.doc /\ UNCHANGED <<at, eng>>
    BY <1>t, <1>3 DEF LeaseExpires, vars, engineVars, StoredRun
  <2> QED BY <1>d, <2>1 DEF SoundInv
<1> QED BY <1>1, <1>2, <1>3 DEF Next

(* What was performed stays answered, and the call at the front of the     *)
(* queue was not performed.                                                *)
LEMMA OnceStep ==
  ASSUME Shape, Ownership, SoundInv, Once, [Next]_vars
  PROVE  Once'
<1>t. /\ store \in StoredRun /\ at \in [Workers -> Points] /\ eng \in [Workers -> Runtime]
      /\ performed \in [Calls -> Nat]
      /\ store.doc # NoCheckpoint => store.doc \in Checkpoint
  BY DEF Shape, RunTypes, OutsideTypes, StoredRun
<1>o. \A w \in Workers : InStep(w) => Performed \subseteq Resolved(eng[w].history) \cup InHand(w)
  BY DEF Once
<1>p. ASSUME performed' = performed
      PROVE  AtMostOnce' /\ Performed' = Performed
  BY <1>p DEF Once, AtMostOnce, Performed
(* Every engine is as before or gone, and so is the stored run.            *)
<1>q. ASSUME performed' = performed, SameRun,
             \A v \in Workers :
                 \/ session'[v] = Closed
                 \/ /\ session'[v] = session[v] /\ seqno'[v] = seqno[v]
                    /\ Resolved(eng[v].history) \cup InHand(v)
                          \subseteq Resolved(eng'[v].history) \cup InHand(v)'
      PROVE  Once'
  <2>1. \A v \in Workers : InStep(v)' =>
            /\ InStep(v)
            /\ Resolved(eng[v].history) \cup InHand(v)
                  \subseteq Resolved(eng'[v].history) \cup InHand(v)'
    BY <1>q DEF InStep, Current, SameRun
  <2>2. Dispatched' <=> Dispatched
    BY <1>q DEF Dispatched, SameRun
  <2>3. ResolvedOf(store.doc)' = ResolvedOf(store.doc)
    BY <1>q DEF ResolvedOf, SameRun
  <2> QED BY <1>p, <1>o, <1>q, <2>1, <2>2, <2>3 DEF Once
<1>g. ASSUME NEW w \in Workers, EngineGone(w), store' = store, performed' = performed
      PROVE  Once'
  <2>1. \A v \in Workers :
            \/ session'[v] = Closed
            \/ /\ session'[v] = session[v] /\ seqno'[v] = seqno[v]
               /\ at'[v] = at[v] /\ eng'[v] = eng[v]
    BY <1>g, GoneOutcome
  <2>2. \A v \in Workers : at'[v] = at[v] /\ eng'[v] = eng[v] => InHand(v)' = InHand(v)
    BY DEF InHand
  <2>3. SameRun
    BY <1>g DEF SameRun
  <2> QED BY <1>q, <1>g, <2>1, <2>2, <2>3
<1>s. ASSUME performed' = performed, SameRun, UNCHANGED <<session, at, eng, seqno>>
      PROVE  Once'
  <2>1. \A v \in Workers : InHand(v)' = InHand(v)
    BY <1>s DEF InHand
  <2> QED BY <1>q, <1>s, <2>1
<1>1. ASSUME NEW w \in Workers, EngineStep(w)
      PROVE  Once'
  <2>0. Fit(at[w], eng[w])
    BY DEF SoundInv
  <2>1. ASSUME NEW b, NEW saved, NEW point, NEW rt, Writes(w, b, saved, point, rt)
        PROVE  Once'
    <3>1. /\ \A v \in Workers \ {w} :
               /\ session'[v] = session[v] /\ at'[v] = at[v] /\ eng'[v] = eng[v]
               /\ seqno'[v] = seqno[v]
          /\ \/ at'[w] = point /\ eng'[w] = rt
             \/ session'[w] = Closed
          /\ \/ store' = store /\ session'[w] = Closed
             \/ /\ InStep(w) /\ store'.doc # NoCheckpoint
                /\ store'.doc.runtime = saved
                /\ \A v \in Workers \ {w} :
                      session[v] # Closed => session[v].revision # store'.revision
      BY <2>1, WriteOutcome
    <3>2. /\ performed' = performed /\ point # "tool_done"
          /\ Resolved(eng[w].history) \cup InHand(w) \subseteq Resolved(saved.history)
          /\ Resolved(eng[w].history) \cup InHand(w) \subseteq Resolved(rt.history)
      BY <2>1 DEF Writes, Heeds
    <3>3. CASE store' = store /\ session'[w] = Closed
      <4>1. SameRun
        BY <3>3 DEF SameRun
      <4>2. \A v \in Workers \ {w} : InHand(v)' = InHand(v)
        BY <3>1 DEF InHand
      <4> QED BY <1>q, <3>1, <3>2, <3>3, <4>1, <4>2
    <3>4. CASE /\ InStep(w) /\ store'.doc # NoCheckpoint
               /\ store'.doc.runtime = saved
               /\ \A v \in Workers \ {w} :
                      session[v] # Closed => session[v].revision # store'.revision
      <4>1. Performed \subseteq Resolved(saved.history) /\ Performed \subseteq Resolved(rt.history)
        BY <1>o, <3>2, <3>4
      <4>2. \A v \in Workers \ {w} : ~InStep(v)'
        BY <3>1, <3>4 DEF InStep, Current
      <4>3. InStep(w)' => eng'[w] = rt
        BY <3>1 DEF InStep, Current
      <4>4. ResolvedOf(store.doc)' = Resolved(saved.history)
        BY <3>4 DEF ResolvedOf
      <4> QED BY <1>p, <3>2, <4>1, <4>2, <4>3, <4>4 DEF Once
    <3> QED BY <3>1, <3>3, <3>4
  <2>2. ASSUME NEW point, NEW rt, Plans(w, point, rt)
        PROVE  Once'
    <3>1. /\ \A v \in Workers \ {w} : at'[v] = at[v] /\ eng'[v] = eng[v]
          /\ eng'[w] = rt /\ UNCHANGED <<store, session, seqno, performed>>
      BY <2>2, PlanOutcome
    <3>2. Resolved(eng[w].history) \cup InHand(w) \subseteq Resolved(rt.history)
      BY <2>2 DEF Plans, Heeds
    <3>3. \A v \in Workers \ {w} : InHand(v)' = InHand(v)
      BY <3>1 DEF InHand
    <3>4. SameRun
      BY <3>1 DEF SameRun
    <3> QED BY <1>q, <3>1, <3>2, <3>3, <3>4
  <2>3. CASE TurnsExhausted(w)
    BY <1>g, <2>3 DEF TurnsExhausted, world
  <2>4. CASE RequestModel(w) \/ ExecuteTool(w)
    <3>1. /\ \A v \in Workers : eng'[v] = eng[v]
          /\ \A v \in Workers \ {w} : at'[v] = at[v]
          /\ \/ at[w] = "model_dispatched" /\ at'[w] = "model_sent" /\ performed' = performed
             \/ /\ at[w] = "tool_dispatched" /\ at'[w] = "tool_done"
                /\ performed' = [performed EXCEPT ![Head(eng[w].calls)] = @ + 1]
          /\ UNCHANGED <<store, session, seqno>>
      BY <2>4, ReachOutcome
    <3>2. SameRun
      BY <3>1 DEF SameRun
    <3>3. CASE at[w] = "model_dispatched" /\ at'[w] = "model_sent" /\ performed' = performed
      <4>1. \A v \in Workers : InHand(v)' = InHand(v)
        BY <3>1, <3>3 DEF InHand
      <4> QED BY <1>q, <3>1, <3>2, <3>3, <4>1
    <3>4. CASE /\ at[w] = "tool_dispatched" /\ at'[w] = "tool_done"
               /\ performed' = [performed EXCEPT ![Head(eng[w].calls)] = @ + 1]
      <4> DEFINE c == Head(eng[w].calls)
      <4>1. InStep(w) /\ Dispatched
        BY <3>4 DEF Ownership, Owner, InFlight
      <4>2. c \in Calls /\ c \in Queued(eng[w])
        <5>1. eng[w].calls \in Seq(Calls) /\ eng[w].calls # <<>>
          BY <3>4, EngineTypes DEF CallPoints
        <5>2. c = eng[w].calls[1] /\ 1 \in DOMAIN eng[w].calls /\ c \in Calls
          BY <5>1
        <5> QED BY <5>2 DEF Queued
      <4>3. c \notin Resolved(eng[w].history)
        BY <2>0, <4>2 DEF Fit, Sound, Talk
      <4>4. InHand(w) = {} /\ InHand(w)' = {c}
        BY <3>1, <3>4 DEF InHand
      <4> HIDE DEF c
      <4>5. Performed \subseteq Resolved(eng[w].history) /\ c \notin Performed
        BY <1>o, <4>1, <4>3, <4>4
      <4>6. performed[c] = 0
        BY <1>t, <4>2, <4>5 DEF Performed
      <4>7. AtMostOnce'
        BY <1>t, <3>4, <4>2, <4>6 DEF Once, AtMostOnce, c
      <4>8. Performed' \subseteq Performed \cup {c}
        BY <1>t, <3>4, <4>2 DEF Performed, c
      <4>9. \A v \in Workers \ {w} : ~InStep(v)'
        BY <3>1, <4>1 DEF Ownership, OneOwner, InStep, Current
      <4>10. Dispatched'
        BY <3>1, <4>1 DEF Dispatched
      <4> QED BY <3>1, <4>4, <4>5, <4>7, <4>8, <4>9, <4>10 DEF Once
    <3> QED BY <3>1, <3>3, <3>4
  <2> QED BY <1>1, <2>0, <2>1, <2>2, <2>3, <2>4, EngineHeeds
<1>2. ASSUME NEW w \in Workers, HostStep(w)
      PROVE  Once'
  <2>1. CASE AcquireLease(w) \/ ReleaseLease(w)
    <3>1. performed' = performed /\ SameRun /\ UNCHANGED <<session, at, eng, seqno>>
      BY <1>t, <2>1 DEF AcquireLease, ReleaseLease, engineVars, world, SameRun, StoredRun
    <3> QED BY <1>s, <3>1
  <2>2. ASSUME NEW a \in Attempts, StartFresh(w, a) \/ Recover(w, a)
        PROVE  Once'
    <3>1. /\ \A v \in Workers \ {w} :
               /\ session'[v] = session[v] /\ at'[v] = at[v] /\ eng'[v] = eng[v]
               /\ seqno'[v] = seqno[v]
          /\ ~Dispatched
          /\ \/ eng'[w] = FreshRuntime /\ seqno'[w] = 0
             \/ store.doc # NoCheckpoint /\ eng'[w] = Restored(store.doc)
          /\ session'[w] # Closed => session'[w].sequence = SequenceOf(store.doc)
          /\ UNCHANGED <<store, performed>>
      BY <2>2, OpenOutcome
    <3>2. Performed \subseteq ResolvedOf(store.doc)
      BY <3>1 DEF Once
    <3>3. InStep(w)' => Performed \subseteq Resolved(eng'[w].history)
      <4>1. CASE eng'[w] = FreshRuntime /\ seqno'[w] = 0
        <5>1. InStep(w)' => SequenceOf(store.doc) = 0
          BY <3>1, <4>1 DEF InStep, Current
        <5>2. SequenceOf(store.doc) = 0 => store.doc = NoCheckpoint
          BY <1>t DEF Ownership, DocSound, SequenceOf, Checkpoint
        <5> QED BY <3>2, <5>1, <5>2 DEF ResolvedOf
      <4>2. CASE store.doc # NoCheckpoint /\ eng'[w] = Restored(store.doc)
        <5>1. eng'[w].history = store.doc.runtime.history
          BY <1>t, <4>2, RestoredLike
        <5> QED BY <3>2, <4>2, <5>1 DEF ResolvedOf
      <4> QED BY <3>1, <4>1, <4>2
    <3>4. \A v \in Workers \ {w} : /\ InStep(v)' => InStep(v)
                                   /\ InHand(v)' = InHand(v)
      BY <3>1 DEF InStep, Current, InHand
    <3>5. ResolvedOf(store.doc)' = ResolvedOf(store.doc)
      BY <3>1 DEF ResolvedOf
    <3> QED BY <1>o, <1>p, <3>1, <3>2, <3>3, <3>4, <3>5 DEF Once
  <2>3. CASE ResumeContinuation(w)
    <3>1. /\ at[w] = "paused" /\ at' = [at EXCEPT ![w] = "advance"]
          /\ UNCHANGED <<store, session, eng, seqno, performed>>
      BY <2>3 DEF ResumeContinuation
    <3>2. \A v \in Workers : InHand(v)' = InHand(v)
      BY <1>t, <3>1 DEF InHand
    <3>3. SameRun
      BY <3>1 DEF SameRun
    <3> QED BY <1>q, <3>1, <3>2, <3>3
  <2>4. CASE EngineReturns(w) \/ Crash(w)
    BY <1>g, <2>4 DEF EngineReturns, Crash, world
  <2> QED BY <1>2, <2>1, <2>2, <2>3, <2>4 DEF HostStep
<1>3. CASE LeaseExpires \/ UNCHANGED vars
  <2>1. performed' = performed /\ SameRun /\ UNCHANGED <<session, at, eng, seqno>>
    BY <1>t, <1>3 DEF LeaseExpires, vars, engineVars, world, SameRun, StoredRun
  <2> QED BY <1>s, <2>1
<1> QED BY <1>1, <1>2, <1>3 DEF Next

(* Nobody runs an unapproved call, nor records or restores an approval     *)
(* that was not given.                                                     *)
LEMMA GrantedStep ==
  ASSUME Shape, Ownership, SoundInv, GrantedInv, [Next]_vars
  PROVE  GrantedInv'
<1>t. /\ store \in StoredRun /\ at \in [Workers -> Points] /\ eng \in [Workers -> Runtime]
      /\ approvals \in [Workers -> [Calls -> Decisions]]
      /\ performed \in [Calls -> Nat] /\ granted \in SUBSET Calls
      /\ store.doc # NoCheckpoint => store.doc \in Checkpoint
  BY DEF Shape, RunTypes, OutsideTypes, StoredRun
<1>n. \A c \in Calls : FreshRuntime.journal[c] = "none" /\ NoDecisions[c] = "none"
  BY DEF FreshRuntime, NoDecisions
<1>j. \A w \in Workers : \A c \in Calls :
          eng[w].journal[c] = "approve" \/ approvals[w][c] = "approve" => c \in granted
  BY DEF GrantedInv, Consents
<1>a. ASSUME performed' = performed, granted \subseteq granted'
      PROVE  ApprovedFirst'
  BY <1>a DEF GrantedInv, ApprovedFirst, Performed
<1>d. ASSUME store'.doc = store.doc, granted \subseteq granted'
      PROVE  store'.doc # NoCheckpoint => Consents(store.doc.runtime)'
  BY <1>d DEF GrantedInv, Consents
(* What one worker's part of the invariant needs.                          *)
<1> DEFINE Part(v) ==
      /\ Consents(eng[v])
      /\ \A c \in Calls : approvals[v][c] = "approve" => c \in granted
      /\ at[v] \in Cleared => Head(eng[v].calls) \in granted \/ Head(eng[v].calls) \notin Guarded
<1>k. ASSUME NEW v \in Workers, granted \subseteq granted',
             at'[v] = at[v], eng'[v] = eng[v], approvals'[v] = approvals[v]
      PROVE  Part(v)'
  BY <1>k DEF GrantedInv, Consents
<1>f. ASSUME NEW v \in Workers, at'[v] = "idle", eng'[v] = FreshRuntime,
             approvals'[v] = NoDecisions
      PROVE  Part(v)'
  BY <1>f, <1>n DEF Consents, Cleared
<1>q. ASSUME ApprovedFirst', store'.doc # NoCheckpoint => Consents(store.doc.runtime)',
             \A v \in Workers : Part(v)'
      PROVE  GrantedInv'
  BY <1>q DEF GrantedInv
<1>h. ASSUME NEW w \in Workers, NEW point, NEW rt, Heeds(w, point, rt), granted \subseteq granted'
      PROVE  /\ \A c \in Calls : rt.journal[c] = "approve" => c \in granted'
             /\ point \in Cleared /\ rt.calls \in Seq(Calls) \ {<<>>}
                   => Head(rt.calls) \in granted' \/ Head(rt.calls) \notin Guarded
  <2>1. \A c \in Calls : rt.journal[c] = "approve" => c \in granted'
    BY <1>h, <1>j DEF Heeds
  <2>2. ASSUME point \in Cleared, rt.calls \in Seq(Calls) \ {<<>>}
        PROVE  Head(rt.calls) \in granted' \/ Head(rt.calls) \notin Guarded
    <3>1. Head(rt.calls) \in Calls
      BY <2>2
    <3>2. at[w] \in Cleared => Head(eng[w].calls) \in granted \/ Head(eng[w].calls) \notin Guarded
      BY DEF GrantedInv
    <3> QED BY <1>h, <1>j, <2>2, <3>1, <3>2 DEF Heeds
  <2> QED BY <2>1, <2>2
<1>g. ASSUME NEW w \in Workers, EngineGone(w), store' = store,
             performed' = performed, granted' = granted
      PROVE  GrantedInv'
  <2>1. \A v \in Workers : Part(v)'
    <3> SUFFICES ASSUME NEW v \in Workers PROVE Part(v)'
      OBVIOUS
    <3>1. CASE v = w
      BY <1>f, <1>g, <3>1, GoneOutcome
    <3>2. CASE v # w
      BY <1>k, <1>g, <3>2, GoneOutcome
    <3> QED BY <3>1, <3>2
  <2> HIDE DEF Part
  <2> QED BY <1>a, <1>d, <1>g, <1>q, <2>1
<1>s. ASSUME performed' = performed, granted' = granted, store'.doc = store.doc,
             UNCHANGED <<at, eng, approvals>>
      PROVE  GrantedInv'
  <2>1. \A v \in Workers : Part(v)'
    BY <1>k, <1>s
  <2> HIDE DEF Part
  <2> QED BY <1>a, <1>d, <1>s, <1>q, <2>1
<1>c. Shape'
  BY ShapeStep
<1>1. ASSUME NEW w \in Workers, EngineStep(w)
      PROVE  GrantedInv'
  <2>0. Fit(at[w], eng[w])
    BY DEF SoundInv
  <2>r. at'[w] \in Cleared => eng'[w].calls \in Seq(Calls) \ {<<>>}
    <3>1. eng'[w] \in Runtime /\ (at'[w] \in CallPoints => eng'[w].calls # <<>>)
      BY <1>c DEF Shape, RunTypes, CallsAtHand
    <3> QED BY <3>1 DEF Runtime, Cleared, CallPoints
  <2>1. ASSUME NEW b, NEW saved, NEW point, NEW rt, Writes(w, b, saved, point, rt)
        PROVE  GrantedInv'
    <3>1. /\ \A v \in Workers \ {w} :
               at'[v] = at[v] /\ eng'[v] = eng[v] /\ approvals'[v] = approvals[v]
          /\ \/ at'[w] = point /\ eng'[w] = rt /\ approvals'[w] = approvals[w]
             \/ at'[w] = "idle" /\ eng'[w] = FreshRuntime /\ approvals'[w] = NoDecisions
          /\ \/ store' = store
             \/ store'.doc.runtime = saved
      BY <2>1, WriteOutcome
    <3>2. /\ performed' = performed /\ granted \subseteq granted'
          /\ Heeds(w, point, saved) /\ Heeds(w, point, rt)
      BY <2>1 DEF Writes
    <3>3. \A v \in Workers : Part(v)'
      <4> SUFFICES ASSUME NEW v \in Workers PROVE Part(v)'
        OBVIOUS
      <4>1. CASE v # w
        BY <1>k, <3>1, <3>2, <4>1
      <4>2. CASE v = w /\ at'[w] = "idle" /\ eng'[w] = FreshRuntime /\ approvals'[w] = NoDecisions
        BY <1>f, <4>2
      <4>3. CASE v = w /\ at'[w] = point /\ eng'[w] = rt /\ approvals'[w] = approvals[w]
        <5>1. /\ \A c \in Calls : rt.journal[c] = "approve" => c \in granted'
              /\ point \in Cleared => Head(rt.calls) \in granted' \/ Head(rt.calls) \notin Guarded
          BY <1>h, <2>r, <3>2, <4>3
        <5>2. \A c \in Calls : approvals[w][c] = "approve" => c \in granted'
          BY <1>j, <3>2
        <5> QED BY <4>3, <5>1, <5>2 DEF Consents
      <4> QED BY <3>1, <4>1, <4>2, <4>3
    <3>4. store'.doc # NoCheckpoint => Consents(store.doc.runtime)'
      <4>1. CASE store' = store
        BY <1>d, <3>2, <4>1
      <4>2. CASE store'.doc.runtime = saved
        <5>1. \A c \in Calls : saved.journal[c] = "approve" => c \in granted'
          BY <1>h, <3>2
        <5> QED BY <4>2, <5>1 DEF Consents
      <4> QED BY <3>1, <4>1, <4>2
    <3> HIDE DEF Part
    <3> QED BY <1>a, <1>q, <3>2, <3>3, <3>4
  <2>2. ASSUME NEW point, NEW rt, Plans(w, point, rt)
        PROVE  GrantedInv'
    <3>1. /\ \A v \in Workers \ {w} : at'[v] = at[v] /\ eng'[v] = eng[v]
          /\ at'[w] = point /\ eng'[w] = rt /\ UNCHANGED <<store, performed>>
      BY <2>2, PlanOutcome
    <3>2. /\ granted \subseteq granted' /\ Heeds(w, point, rt)
          /\ \A v \in Workers, c \in Calls :
                approvals'[v][c] = "approve" => approvals[v][c] = "approve"
      BY <2>2 DEF Plans
    <3>3. \A v \in Workers, c \in Calls : approvals'[v][c] = "approve" => c \in granted'
      BY <1>j, <3>2
    <3>4. /\ \A c \in Calls : rt.journal[c] = "approve" => c \in granted'
          /\ point \in Cleared => Head(rt.calls) \in granted' \/ Head(rt.calls) \notin Guarded
      BY <1>h, <2>r, <3>1, <3>2
    <3>5. \A v \in Workers : Part(v)'
      <4> SUFFICES ASSUME NEW v \in Workers PROVE Part(v)'
        OBVIOUS
      <4>1. CASE v = w
        BY <3>1, <3>3, <3>4, <4>1 DEF Consents
      <4>2. CASE v # w
        BY <3>1, <3>2, <3>3, <4>2 DEF Consents, GrantedInv
      <4> QED BY <4>1, <4>2
    <3> HIDE DEF Part
    <3> QED BY <1>a, <1>d, <1>q, <3>1, <3>2, <3>5
  <2>3. CASE TurnsExhausted(w)
    BY <1>g, <2>3 DEF TurnsExhausted, world
  <2>4. CASE RequestModel(w) \/ ExecuteTool(w)
    <3>1. /\ \A v \in Workers : eng'[v] = eng[v]
          /\ \A v \in Workers \ {w} : at'[v] = at[v]
          /\ at'[w] \in {"model_sent", "tool_done"}
          /\ \/ performed' = performed
             \/ /\ at[w] = "tool_dispatched"
                /\ performed' = [performed EXCEPT ![Head(eng[w].calls)] = @ + 1]
          /\ UNCHANGED <<store, approvals, granted>>
      BY <2>4, ReachOutcome
    <3>2. \A v \in Workers : Part(v)'
      <4> SUFFICES ASSUME NEW v \in Workers PROVE Part(v)'
        OBVIOUS
      <4>1. CASE v = w
        BY <3>1, <4>1 DEF Consents, GrantedInv, Cleared
      <4>2. CASE v # w
        BY <1>k, <3>1, <4>2
      <4> QED BY <4>1, <4>2
    <3>3. ApprovedFirst'
      <4>1. CASE performed' = performed
        BY <1>a, <3>1, <4>1
      <4>2. CASE /\ at[w] = "tool_dispatched"
                 /\ performed' = [performed EXCEPT ![Head(eng[w].calls)] = @ + 1]
        <5> DEFINE c == Head(eng[w].calls)
        <5>1. c \in granted \/ c \notin Guarded
          BY <4>2 DEF GrantedInv, Cleared
        <5>2. Performed' \subseteq Performed \cup {c}
          BY <1>t, <4>2 DEF Performed
        <5> HIDE DEF c
        <5> QED BY <3>1, <5>1, <5>2 DEF GrantedInv, ApprovedFirst
      <4> QED BY <3>1, <4>1, <4>2
    <3> HIDE DEF Part
    <3> QED BY <1>d, <1>q, <3>1, <3>2, <3>3
  <2> QED BY <1>1, <2>0, <2>1, <2>2, <2>3, <2>4, EngineHeeds
<1>2. ASSUME NEW w \in Workers, HostStep(w)
      PROVE  GrantedInv'
  <2>1. CASE AcquireLease(w) \/ ReleaseLease(w)
    <3>1. /\ performed' = performed /\ granted' = granted /\ store'.doc = store.doc
          /\ UNCHANGED <<at, eng, approvals>>
      BY <1>t, <2>1 DEF AcquireLease, ReleaseLease, engineVars, world, StoredRun
    <3> QED BY <1>s, <3>1
  <2>2. ASSUME NEW a \in Attempts, StartFresh(w, a) \/ Recover(w, a)
        PROVE  GrantedInv'
    <3>1. /\ \A v \in Workers \ {w} :
               at'[v] = at[v] /\ eng'[v] = eng[v] /\ approvals'[v] = approvals[v]
          /\ at'[w] \in {"advance", "paused"}
          /\ \/ eng'[w] = FreshRuntime /\ approvals'[w] = approvals[w]
             \/ /\ store.doc # NoCheckpoint /\ eng'[w] = Restored(store.doc)
                /\ approvals'[w] = RestoredDecisions(store.doc.runtime)
          /\ UNCHANGED <<store, performed, granted>>
      BY <2>2, OpenOutcome
    <3>2. Part(w)'
      <4>1. CASE eng'[w] = FreshRuntime /\ approvals'[w] = approvals[w]
        BY <1>j, <1>n, <3>1, <4>1 DEF Consents, Cleared
      <4>2. CASE /\ store.doc # NoCheckpoint /\ eng'[w] = Restored(store.doc)
                 /\ approvals'[w] = RestoredDecisions(store.doc.runtime)
        <5>1. eng'[w].journal = store.doc.runtime.journal
          BY <1>t, <4>2, RestoredLike
        <5>2. \A c \in Calls : store.doc.runtime.journal[c] = "approve" => c \in granted
          BY <4>2 DEF GrantedInv, Consents
        <5>3. \A c \in Calls : RestoredDecisions(store.doc.runtime)[c] = "approve"
                                  => store.doc.runtime.journal[c] = "approve"
          BY DEF RestoredDecisions
        <5> QED BY <3>1, <4>2, <5>1, <5>2, <5>3 DEF Consents, Cleared
      <4> QED BY <3>1, <4>1, <4>2
    <3>3. \A v \in Workers : Part(v)'
      BY <1>k, <3>1, <3>2
    <3> HIDE DEF Part
    <3> QED BY <1>a, <1>d, <1>q, <3>1, <3>3
  <2>3. CASE ResumeContinuation(w)
    <3>1. /\ at' = [at EXCEPT ![w] = "advance"]
          /\ UNCHANGED <<store, eng, performed>>
      BY <2>3 DEF ResumeContinuation
    <3>2. /\ granted \subseteq granted'
          /\ \A v \in Workers \ {w} : approvals'[v] = approvals[v]
          /\ \A c \in Calls : approvals'[w][c] = "approve" => c \in granted'
      <4>1. CASE /\ approvals' = [approvals EXCEPT ![w] = NoDecisions]
                 /\ granted' = granted
        BY <1>t, <1>n, <4>1
      <4>2. ASSUME NEW d \in {"approve", "deny", "defer"},
                   approvals' = [approvals EXCEPT ![w] = [NoDecisions EXCEPT ![eng[w].pending] = d]],
                   granted' = IF d = "approve" THEN granted \cup {eng[w].pending} ELSE granted
            PROVE  /\ granted \subseteq granted'
                   /\ \A v \in Workers \ {w} : approvals'[v] = approvals[v]
                   /\ \A c \in Calls : approvals'[w][c] = "approve" => c \in granted'
        <5>1. approvals'[w] = [NoDecisions EXCEPT ![eng[w].pending] = d]
          BY <1>t, <4>2
        <5>2. \A c \in Calls : approvals'[w][c] = IF c = eng[w].pending THEN d ELSE "none"
          BY <5>1 DEF NoDecisions
        <5> QED BY <1>t, <4>2, <5>2
      <4> QED BY <2>3, <4>1, <4>2 DEF ResumeContinuation
    <3>3. \A v \in Workers : Part(v)'
      <4> SUFFICES ASSUME NEW v \in Workers PROVE Part(v)'
        OBVIOUS
      <4>1. CASE v = w
        <5>1. at'[w] = "advance"
          BY <1>t, <3>1
        <5> QED BY <1>j, <3>1, <3>2, <4>1, <5>1 DEF Consents, Cleared
      <4>2. CASE v # w
        <5>1. at'[v] = at[v]
          BY <1>t, <3>1, <4>2
        <5> QED BY <1>k, <3>1, <3>2, <4>2, <5>1
      <4> QED BY <4>1, <4>2
    <3> HIDE DEF Part
    <3> QED BY <1>a, <1>d, <1>q, <3>1, <3>2, <3>3
  <2>4. CASE EngineReturns(w) \/ Crash(w)
    BY <1>g, <2>4 DEF EngineReturns, Crash, world
  <2> QED BY <1>2, <2>1, <2>2, <2>3, <2>4 DEF HostStep
<1>3. CASE LeaseExpires \/ UNCHANGED vars
  <2>1. /\ performed' = performed /\ granted' = granted /\ store'.doc = store.doc
        /\ UNCHANGED <<at, eng, approvals>>
    BY <1>t, <1>3 DEF LeaseExpires, vars, engineVars, world, StoredRun
  <2> QED BY <1>s, <2>1
<1> QED BY <1>1, <1>2, <1>3 DEF Next

(* Initially nothing is said, performed or approved.                       *)
LEMMA InitSound == Init => SoundInv /\ Once /\ GrantedInv
<1> SUFFICES ASSUME Init PROVE SoundInv /\ Once /\ GrantedInv
  OBVIOUS
<1>1. /\ store.doc = NoCheckpoint
      /\ \A w \in Workers : /\ session[w] = Closed /\ at[w] = "idle" /\ eng[w] = FreshRuntime
                            /\ approvals[w] = NoDecisions
      /\ \A c \in Calls : performed[c] = 0
  BY DEF Init
<1>2. Performed = {} /\ AtMostOnce
  BY <1>1 DEF Performed, AtMostOnce
<1>3. SoundInv
  BY <1>1, FreshSound DEF SoundInv, Fit, CallPoints, ModelPoints
<1>4. Once
  BY <1>1, <1>2 DEF Once, InStep, Current
<1>5. \A c \in Calls : FreshRuntime.journal[c] = "none" /\ NoDecisions[c] = "none"
  BY DEF FreshRuntime, NoDecisions
<1>6. GrantedInv
  BY <1>1, <1>2, <1>5 DEF GrantedInv, ApprovedFirst, Consents, Cleared
<1> QED BY <1>3, <1>4, <1>6

(* The invariant holds throughout.                                         *)
LEMMA RunnerSound == Spec => [](Ownership /\ SoundInv /\ Once /\ GrantedInv)
<1>1. ASSUME Shape, Ownership, SoundInv, Once, GrantedInv, [Next]_vars
      PROVE  SoundInv' /\ Once' /\ GrantedInv'
  BY <1>1, SoundStep, OnceStep, GrantedStep
<1> QED BY <1>1, InitSound, RunnerOwnership, PTL DEF Spec

(* A tool call is executed at most once, whatever crashes, expires or is   *)
(* recovered, by however many workers.                                     *)
THEOREM RunnerAtMostOnce == Spec => []AtMostOnce
<1>1. Once => AtMostOnce
  BY DEF Once
<1> QED BY <1>1, RunnerSound, PTL

(* A guarded tool runs only after somebody approved that very call.        *)
THEOREM RunnerApprovedFirst == Spec => []ApprovedFirst
<1>1. GrantedInv => ApprovedFirst
  BY DEF GrantedInv
<1> QED BY <1>1, RunnerSound, PTL

(* A queue without repetitions has as many calls as places.                *)
LEMMA QueueCounts ==
  ASSUME NEW rt \in Runtime, Distinct(rt.calls)
  PROVE  Cardinality(Queued(rt)) = Len(rt.calls)
<1> DEFINE q == rt.calls
           n == Len(q)
<1>1. q \in Seq(Calls) /\ n \in Nat /\ DOMAIN q = 1..n
  BY DEF Runtime
<1>2. q \in [1..n -> Queued(rt)]
  BY <1>1 DEF Queued
<1>3. \A a, b \in 1..n : q[a] = q[b] => a = b
  BY <1>1 DEF Distinct
<1>4. \A t \in Queued(rt) : \E s \in 1..n : q[s] = t
  BY <1>1 DEF Queued
<1> HIDE DEF q, n
<1>5. q \in Bijection(1..n, Queued(rt))
  BY <1>2, <1>3, <1>4, Fun_IsBij
<1>6. ExistsBijection(1..n, Queued(rt))
  BY <1>5, Fun_ExistsBij
<1>7. IsFiniteSet(1..n) /\ Cardinality(1..n) = n
  BY <1>1, FS_Interval
<1> QED BY <1>6, <1>7, FS_Bijection DEF n, q

(* A crash strands the run only at a dispatched boundary.                  *)
THEOREM RunnerAlwaysRecoverable == Spec => []AlwaysRecoverable
<1>1. ASSUME Shape, Ownership, SoundInv
      PROVE  AlwaysRecoverable
  <2> SUFFICES ASSUME store.doc # NoCheckpoint, ~outcome_unknown(store.doc.runtime.effect)
               PROVE  Recoverable(store.doc)
    BY DEF AlwaysRecoverable
  <2> DEFINE rt == store.doc.runtime
  <2>1. store.doc \in Checkpoint /\ rt \in Runtime
    BY <1>1 DEF Shape, RunTypes, StoredRun, Checkpoint
  <2>2. Sound(rt) /\ store.doc.boundary \notin {"model_dispatched", "tool_dispatched"}
    BY <1>1 DEF SoundInv, outcome_unknown
  <2>3. store.doc.sequence > 0
    BY <1>1 DEF Ownership, DocSound
  <2>4. Queued(rt) = Called(rt.history) \ Resolved(rt.history) /\ Paired(rt.history)
        /\ Distinct(rt.calls)
    BY <2>2 DEF Sound, Talk
  <2>5. Cardinality(Queued(rt)) = Len(rt.calls)
    BY <2>1, <2>4, QueueCounts
  <2>6. rt.phase # "Tools" => Queued(rt) = {}
    BY <2>2 DEF Sound, Queued
  <2>7. {rt.calls[i] : i \in DOMAIN rt.calls} \subseteq Called(rt.history) \ Resolved(rt.history)
    BY <2>4 DEF Queued
  <2> HIDE DEF rt
  <2>8. WellPaired(rt)
    BY <2>4, <2>5, <2>6, <2>7 DEF WellPaired, Paired
  <2>9. Limits(rt)
    BY <2>2 DEF Sound
  <2> QED BY <2>2, <2>3, <2>8, <2>9 DEF Recoverable, Limits, rt
<1> QED BY <1>1, RunnerOwnership, RunnerSound, PTL

--------------------------------------------------------------------------------
(* A commit carries on from the last one.                                  *)

(* An engine in step knows the stored history and effect, and one whose    *)
(* run is completed has nothing left to do.                                *)
Carried ==
    store.doc # NoCheckpoint =>
        \A w \in Workers : InStep(w) =>
            /\ Continues(store.doc.runtime.history, eng[w].history)
            /\ eng[w].effect = store.doc.runtime.effect
            /\ store.doc.boundary = "run_completed" => at[w] = "done"

(* Going on is transitive.                                                 *)
LEMMA ContinuesOn ==
  ASSUME NEW h \in Seq(Item), NEW k \in Seq(Item), NEW l \in Seq(Item),
         Continues(h, k), Continues(k, l)
  PROVE  Continues(h, l)
<1>1. Len(h) \in Nat /\ Len(k) \in Nat /\ Len(l) \in Nat
  OBVIOUS
<1>2. Len(h) <= Len(k) /\ Len(k) <= Len(l)
  BY DEF Continues
<1>3. ASSUME NEW i \in 1..Len(h)
      PROVE  l[i] = h[i]
  <2>1. i \in 1..Len(k)
    BY <1>1, <1>2
  <2> QED BY <2>1 DEF Continues
<1> QED BY <1>1, <1>2, <1>3 DEF Continues

(* Every step keeps this.                                                  *)
LEMMA CarriedStep ==
  ASSUME Shape, Ownership, SoundInv, Carried, [Next]_vars
  PROVE  Carried'
<1>t. /\ store \in StoredRun /\ at \in [Workers -> Points] /\ eng \in [Workers -> Runtime]
      /\ store.doc # NoCheckpoint => store.doc \in Checkpoint
  BY DEF Shape, RunTypes, StoredRun
<1>h. /\ \A w \in Workers : eng[w].history \in Seq(Item)
      /\ store.doc # NoCheckpoint => store.doc.runtime.history \in Seq(Item)
  BY <1>t DEF Checkpoint, Runtime
(* Every engine is gone, or goes on without a commit.                      *)
<1>q. ASSUME SameRun,
             \A v \in Workers :
                 \/ session'[v] = Closed
                 \/ /\ session'[v] = session[v] /\ seqno'[v] = seqno[v]
                    /\ eng'[v].history \in Seq(Item)
                    /\ Continues(eng[v].history, eng'[v].history)
                    /\ eng'[v].effect = eng[v].effect
                    /\ at[v] = "done" => at'[v] = "done"
      PROVE  Carried'
  <2> SUFFICES ASSUME store'.doc # NoCheckpoint, NEW v \in Workers, InStep(v)'
               PROVE  /\ Continues(store'.doc.runtime.history, eng'[v].history)
                      /\ eng'[v].effect = store'.doc.runtime.effect
                      /\ store'.doc.boundary = "run_completed" => at'[v] = "done"
    BY DEF Carried
  <2>1. session'[v] # Closed /\ store'.doc = store.doc
    BY <1>q DEF InStep, Current, SameRun
  <2>2. InStep(v)
    BY <1>q, <2>1 DEF InStep, Current, SameRun
  <2>3. /\ Continues(store.doc.runtime.history, eng[v].history)
        /\ eng[v].effect = store.doc.runtime.effect
        /\ store.doc.boundary = "run_completed" => at[v] = "done"
    BY <2>1, <2>2 DEF Carried
  <2>4. Continues(store.doc.runtime.history, eng'[v].history)
    BY <1>h, <1>q, <2>1, <2>3, ContinuesOn
  <2> QED BY <1>q, <2>1, <2>3, <2>4
<1>s. ASSUME NEW v \in Workers, eng'[v] = eng[v]
      PROVE  /\ eng'[v].history \in Seq(Item) /\ eng'[v].effect = eng[v].effect
             /\ Continues(eng[v].history, eng'[v].history)
  BY <1>h, <1>s, LongerContinues
<1>g. ASSUME NEW w \in Workers, EngineGone(w), store' = store
      PROVE  Carried'
  <2>1. SameRun
    BY <1>g DEF SameRun
  <2> QED BY <1>g, <1>q, <1>s, <2>1, GoneOutcome
<1>1. ASSUME NEW w \in Workers, EngineStep(w)
      PROVE  Carried'
  <2>0. Fit(at[w], eng[w])
    BY DEF SoundInv
  <2>1. ASSUME NEW b, NEW saved, NEW point, NEW rt, Writes(w, b, saved, point, rt)
        PROVE  Carried'
    <3>1. /\ \A v \in Workers \ {w} :
               /\ session'[v] = session[v] /\ at'[v] = at[v] /\ eng'[v] = eng[v]
               /\ seqno'[v] = seqno[v]
          /\ \/ at'[w] = point /\ eng'[w] = rt
             \/ session'[w] = Closed
          /\ \/ store' = store /\ session'[w] = Closed
             \/ /\ InStep(w) /\ store'.doc # NoCheckpoint
                /\ store'.doc.runtime = saved /\ store'.doc.boundary = b
                /\ \A v \in Workers \ {w} :
                      session[v] # Closed => session[v].revision # store'.revision
      BY <2>1, WriteOutcome
    <3>2. /\ saved.history \in Seq(Item) /\ rt.history = saved.history
          /\ rt.effect = saved.effect
          /\ b = "run_completed" => point = "done"
      BY <2>1 DEF Writes, Runtime
    <3>3. CASE store' = store /\ session'[w] = Closed
      <4>1. SameRun
        BY <3>3 DEF SameRun
      <4> QED BY <1>q, <1>s, <3>1, <3>3, <4>1
    <3>4. CASE /\ store'.doc.runtime = saved /\ store'.doc.boundary = b
               /\ \A v \in Workers \ {w} :
                      session[v] # Closed => session[v].revision # store'.revision
      <4>1. \A v \in Workers \ {w} : ~InStep(v)'
        BY <3>1, <3>4 DEF InStep, Current
      <4>2. InStep(w)' => at'[w] = point /\ eng'[w] = rt
        BY <3>1 DEF InStep, Current
      <4>3. Continues(saved.history, rt.history)
        BY <3>2, LongerContinues
      <4> QED BY <3>2, <3>4, <4>1, <4>2, <4>3 DEF Carried
    <3> QED BY <3>1, <3>3, <3>4
  <2>2. ASSUME NEW point, NEW rt, Plans(w, point, rt)
        PROVE  Carried'
    <3>1. /\ \A v \in Workers \ {w} : at'[v] = at[v] /\ eng'[v] = eng[v]
          /\ eng'[w] = rt /\ UNCHANGED <<store, session, seqno>>
      BY <2>2, PlanOutcome
    <3>2. /\ rt.history \in Seq(Item) /\ Continues(eng[w].history, rt.history)
          /\ rt.effect = eng[w].effect /\ at[w] # "done"
      BY <2>2 DEF Plans, Heeds, Runtime
    <3>3. SameRun
      BY <3>1 DEF SameRun
    <3> QED BY <1>q, <1>s, <3>1, <3>2, <3>3
  <2>3. CASE TurnsExhausted(w)
    BY <1>g, <2>3 DEF TurnsExhausted
  <2>4. CASE RequestModel(w) \/ ExecuteTool(w)
    <3>1. /\ \A v \in Workers : eng'[v] = eng[v]
          /\ \A v \in Workers \ {w} : at'[v] = at[v]
          /\ at[w] # "done"
          /\ UNCHANGED <<store, session, seqno>>
      BY <2>4, ReachOutcome
    <3>2. SameRun
      BY <3>1 DEF SameRun
    <3> QED BY <1>q, <1>s, <3>1, <3>2
  <2> QED BY <1>1, <2>0, <2>1, <2>2, <2>3, <2>4, EngineHeeds
<1>2. ASSUME NEW w \in Workers, HostStep(w)
      PROVE  Carried'
  <2>1. CASE AcquireLease(w) \/ ReleaseLease(w)
    <3>1. SameRun /\ UNCHANGED <<session, at, eng, seqno>>
      BY <1>t, <2>1 DEF AcquireLease, ReleaseLease, engineVars, SameRun, StoredRun
    <3> QED BY <1>q, <1>s, <3>1
  <2>2. ASSUME NEW a \in Attempts, StartFresh(w, a) \/ Recover(w, a)
        PROVE  Carried'
    <3>1. /\ \A v \in Workers \ {w} :
               /\ session'[v] = session[v] /\ at'[v] = at[v] /\ eng'[v] = eng[v]
               /\ seqno'[v] = seqno[v]
          /\ \/ eng'[w] = FreshRuntime /\ seqno'[w] = 0
             \/ /\ store.doc # NoCheckpoint /\ store.doc.boundary # "run_completed"
                /\ eng'[w] = Restored(store.doc)
          /\ session'[w] # Closed => session'[w].sequence = SequenceOf(store.doc)
          /\ store' = store
      BY <2>2, OpenOutcome
    <3>2. ASSUME store.doc # NoCheckpoint, InStep(w)'
          PROVE  /\ Continues(store.doc.runtime.history, eng'[w].history)
                 /\ eng'[w].effect = store.doc.runtime.effect
                 /\ store.doc.boundary # "run_completed"
      <4>1. ~(eng'[w] = FreshRuntime /\ seqno'[w] = 0)
        <5>1. seqno'[w] = 0 => SequenceOf(store.doc) = 0
          BY <3>1, <3>2 DEF InStep, Current
        <5>2. SequenceOf(store.doc) # 0
          BY <1>t, <3>2 DEF Ownership, DocSound, SequenceOf, Checkpoint
        <5> QED BY <5>1, <5>2
      <4>2. eng'[w] = Restored(store.doc) /\ store.doc.boundary # "run_completed"
        BY <3>1, <4>1
      <4>3. /\ eng'[w].history = store.doc.runtime.history
            /\ eng'[w].effect = store.doc.runtime.effect
        BY <1>t, <3>2, <4>2, RestoredLike
      <4> QED BY <1>h, <3>2, <4>2, <4>3, LongerContinues
    <3>3. \A v \in Workers \ {w} : InStep(v)' => InStep(v)
      BY <3>1 DEF InStep, Current
    <3> QED BY <3>1, <3>2, <3>3 DEF Carried
  <2>3. CASE ResumeContinuation(w)
    <3>1. /\ at[w] = "paused" /\ at' = [at EXCEPT ![w] = "advance"]
          /\ UNCHANGED <<store, session, eng, seqno>>
      BY <2>3 DEF ResumeContinuation
    <3>2. \A v \in Workers : at[v] = "done" => at'[v] = "done"
      BY <1>t, <3>1
    <3>3. SameRun
      BY <3>1 DEF SameRun
    <3> QED BY <1>q, <1>s, <3>1, <3>2, <3>3
  <2>4. CASE EngineReturns(w) \/ Crash(w)
    BY <1>g, <2>4 DEF EngineReturns, Crash
  <2> QED BY <1>2, <2>1, <2>2, <2>3, <2>4 DEF HostStep
<1>3. CASE LeaseExpires \/ UNCHANGED vars
  <2>1. SameRun /\ UNCHANGED <<session, at, eng, seqno>>
    BY <1>t, <1>3 DEF LeaseExpires, vars, engineVars, SameRun, StoredRun
  <2> QED BY <1>q, <1>s, <2>1
<1> QED BY <1>1, <1>2, <1>3 DEF Next

(* The stored checkpoint changes only when an engine that heeds commits.   *)
LEMMA OnlyWrites ==
  ASSUME Shape, SoundInv, [Next]_vars, store'.doc # store.doc
  PROVE  \E w \in Workers : \E b, saved, point, rt : Writes(w, b, saved, point, rt) /\ EngineStep(w)
<1>t. store \in StoredRun
  BY DEF Shape, RunTypes
<1>1. ~LeaseExpires /\ ~UNCHANGED vars
  BY <1>t DEF LeaseExpires, vars, StoredRun
<1>2. ASSUME NEW w \in Workers, HostStep(w)
      PROVE  FALSE
  BY <1>t, <1>2 DEF HostStep, AcquireLease, ReleaseLease, StartFresh, Recover,
                    ResumeContinuation, EngineReturns, Crash, StoredRun
<1>3. PICK w \in Workers : EngineStep(w)
  BY <1>1, <1>2 DEF Next
<1>4. ~TurnsExhausted(w) /\ ~RequestModel(w) /\ ~ExecuteTool(w)
  BY DEF TurnsExhausted, RequestModel, ExecuteTool, Local
<1>5. ~\E point, rt : Plans(w, point, rt)
  BY DEF Plans, Local
<1>6. Fit(at[w], eng[w])
  BY DEF SoundInv
<1>7. \E b, saved, point, rt : Writes(w, b, saved, point, rt)
  BY <1>3, <1>4, <1>5, <1>6, EngineHeeds
<1> QED BY <1>3, <1>7

(* A commit carries on from the last one, across crashes and attempts.     *)
THEOREM RunnerCarriesOn == Spec => CommitsCarryOn
<1> DEFINE Step == store.doc # NoCheckpoint /\ store'.doc # store.doc
                      => CarriesOn(store.doc, store'.doc)
<1>1. ASSUME Shape, Ownership, SoundInv, Carried, [Next]_vars
      PROVE  Step
  <2> SUFFICES ASSUME store.doc # NoCheckpoint, store'.doc # store.doc
               PROVE  CarriesOn(store.doc, store'.doc)
    OBVIOUS
  <2> DEFINE old == store.doc.runtime
  <2>0. PICK w \in Workers : \E b, saved, point, rt :
            Writes(w, b, saved, point, rt) /\ EngineStep(w)
    BY <1>1, OnlyWrites
  <2>1. PICK b, saved, point, rt : Writes(w, b, saved, point, rt) /\ EngineStep(w)
    BY <2>0
  <2>2. InStep(w) /\ store'.doc.runtime = saved /\ store'.doc.sequence = seqno[w] + 1
    BY <1>1, <2>1, WriteOutcome
  <2>3. /\ Continues(old.history, eng[w].history) /\ eng[w].effect = old.effect
        /\ store.doc.boundary # "run_completed"
    BY <1>1, <2>1, <2>2 DEF Carried, Writes
  <2>4. Continues(eng[w].history, saved.history) /\ SameIntent(eng[w], saved) /\ saved \in Runtime
    BY <2>1 DEF Writes, Heeds
  <2>5. /\ old.history \in Seq(Item) /\ eng[w].history \in Seq(Item) /\ saved.history \in Seq(Item)
        /\ store.doc \in Checkpoint
    BY <1>1, <2>4 DEF Shape, RunTypes, StoredRun, Checkpoint, Runtime
  <2>6. store'.doc.sequence = store.doc.sequence + 1
    BY <1>1, <2>2 DEF InStep, Ownership, Faithful, SequenceOf
  <2>7. saved.turns >= old.turns /\ saved.tool_calls >= old.tool_calls
    <3>1. saved.turns >= eng[w].turns /\ saved.tool_calls >= eng[w].tool_calls
      <4>1. CASE CommitMove(w)
        <5>1. PICK c, kept, q, r : Commits(w, c, kept, q, r)
          BY <4>1 DEF CommitMove
        <5>2. kept.turns >= eng[w].turns /\ kept.tool_calls >= eng[w].tool_calls
          BY <5>1 DEF Commits
        <5>3. store'.doc.runtime = kept
          <6>1. store \in StoredRun
            BY <1>1 DEF Shape, RunTypes
          <6> DEFINE ck == [sequence |-> seqno[w] + 1, attempt |-> attempt[w],
                            boundary |-> c, runtime |-> kept]
          <6>2. store' = Committed(session[w], ck)
            BY <5>1 DEF Commits, Persist
          <6> HIDE DEF ck
          <6>3. store'.doc = ck
            BY <6>1, <6>2 DEF Committed, StoredRun
          <6> QED BY <6>3 DEF ck
        <5> QED BY <2>2, <5>2, <5>3
      <4>2. ~LocalMove(w) /\ ~TurnsExhausted(w) /\ ~RequestModel(w) /\ ~ExecuteTool(w)
        BY DEF LocalMove, Thinks, TurnsExhausted, RequestModel, ExecuteTool, Local
      <4> QED BY <1>1, <2>1, <4>1, <4>2, EngineMoves
    <3>2. eng[w].turns >= old.turns /\ eng[w].tool_calls >= old.tool_calls
      BY <1>1, <2>2 DEF Ownership, Ahead, TurnsOf, ToolCallsOf
    <3>3. /\ saved.turns \in Nat /\ saved.tool_calls \in Nat
          /\ eng[w].turns \in Nat /\ eng[w].tool_calls \in Nat
          /\ old.turns \in Nat /\ old.tool_calls \in Nat
      BY <1>1, <2>4, <2>5, EngineTypes DEF Checkpoint, Runtime
    <3> HIDE DEF old
    <3> QED BY <3>1, <3>2, <3>3
  <2>8. Continues(old.history, saved.history)
    BY <2>3, <2>4, <2>5, ContinuesOn
  <2>9. /\ Len(saved.history) >= Len(old.history)
        /\ SubSeq(saved.history, 1, Len(old.history)) = old.history
    <3> DEFINE h == old.history
               k == saved.history
    <3>1. h \in Seq(Item) /\ k \in Seq(Item) /\ Continues(h, k)
      BY <2>5, <2>8
    <3> HIDE DEF h, k
    <3>2. /\ Len(h) \in Nat /\ Len(k) \in Nat /\ Len(h) <= Len(k)
          /\ \A i \in 1..Len(h) : k[i] = h[i]
      BY <3>1 DEF Continues
    <3>3. /\ SubSeq(k, 1, Len(h)) \in Seq(Item) /\ Len(SubSeq(k, 1, Len(h))) = Len(h)
          /\ \A i \in 1..Len(h) : SubSeq(k, 1, Len(h))[i] = k[i]
      BY <3>1, <3>2
    <3>4. SubSeq(k, 1, Len(h)) = h
      BY <3>1, <3>2, <3>3
    <3> QED BY <3>2, <3>4 DEF h, k
  <2>10. old.effect.state = "prepared" => saved.effect.id = old.effect.id
    BY <2>3, <2>4 DEF SameIntent
  <2> HIDE DEF old
  <2> QED BY <2>2, <2>3, <2>6, <2>7, <2>9, <2>10 DEF CarriesOn, old
<1>2. Init => Carried
  BY DEF Init, Carried
<1>3. Spec => [][Step]_vars
  <2> HIDE DEF Step
  <2> QED BY <1>1, <1>2, CarriedStep, RunnerOwnership, RunnerSound, PTL DEF Spec
<1> QED BY <1>3 DEF CommitsCarryOn

--------------------------------------------------------------------------------
(* The stored run is a fenced ledger.                                      *)

(* No token beyond the ones granted, and a session only with a lease.      *)
Leased ==
    /\ store.token <= grants
    /\ \A i \in 1..Len(store.writers) : store.writers[i] <= grants
    /\ \A w \in Workers : held[w] <= grants
    /\ \A w \in Workers : session[w] # Closed => session[w].token # NoToken

Appends(w) == \E ck \in Checkpoint : Accepts(session[w], ck) /\ store' = Committed(session[w], ck)

(* What a step does to the stored run and to the leases.                   *)
LEMMA StoreMoves ==
  ASSUME Shape, [Next]_vars
  PROVE  \/ SameRun /\ store'.token = store.token /\ grants' = grants
         \/ \E w \in Workers : AcquireLease(w) \/ ReleaseLease(w)
         \/ \E w \in Workers : session[w] # Closed /\ Appends(w) /\ grants' = grants
<1>t. store \in StoredRun
  BY DEF Shape, RunTypes
<1>1. CASE LeaseExpires \/ UNCHANGED vars
  BY <1>t, <1>1 DEF LeaseExpires, vars, hostVars, SameRun, StoredRun
<1>2. ASSUME NEW w \in Workers, HostStep(w)
      PROVE  \/ SameRun /\ store'.token = store.token /\ grants' = grants
             \/ AcquireLease(w) \/ ReleaseLease(w)
  BY <1>2 DEF HostStep, StartFresh, Recover, ResumeContinuation, EngineReturns, Crash,
              SameRun, hostVars
<1>3. ASSUME NEW w \in Workers, EngineStep(w)
      PROVE  \/ SameRun /\ store'.token = store.token /\ grants' = grants
             \/ session[w] # Closed /\ Appends(w) /\ grants' = grants
  <2>1. CASE CommitMove(w)
    <3>1. PICK b, saved, point, rt : Commits(w, b, saved, point, rt)
      BY <2>1 DEF CommitMove
    <3> DEFINE ck == [sequence |-> seqno[w] + 1, attempt |-> attempt[w],
                      boundary |-> b, runtime |-> saved]
    <3>2. ck \in Checkpoint
      BY <3>1 DEF Commits, Shape, RunTypes, Checkpoint
    <3>3. session[w] # Closed /\ grants' = grants
      BY <3>1 DEF Commits, Shape, RunsWithSession, hostVars
    <3>4. \/ Accepts(session[w], ck) /\ store' = Committed(session[w], ck)
          \/ store' = store
      BY <3>1 DEF Commits, Persist
    <3> HIDE DEF ck
    <3> QED BY <3>2, <3>3, <3>4 DEF Appends, SameRun
  <2>2. CASE LocalMove(w) \/ TurnsExhausted(w) \/ RequestModel(w) \/ ExecuteTool(w)
    BY <2>2 DEF LocalMove, Thinks, TurnsExhausted, RequestModel, ExecuteTool, Local, SameRun, hostVars
  <2> QED BY <1>3, <2>1, <2>2, EngineMoves
<1> QED BY <1>1, <1>2, <1>3 DEF Next

(* A session has the token of its predecessor or of the host's lease.      *)
LEMMA SessionMoves ==
  ASSUME Shape, [Next]_vars, NEW v \in Workers, session'[v] # Closed
  PROVE  \/ session[v] # Closed /\ session'[v].token = session[v].token
         \/ held[v] # NoToken /\ session'[v].token = held[v]
<1>t. session \in [Workers -> Session \cup {Closed}]
  BY DEF Shape, RunTypes
<1>1. CASE session' = session
  BY <1>1
<1>2. ASSUME NEW w \in Workers, EngineGone(w) PROVE session'[v] = session[v]
  BY <1>t, <1>2 DEF EngineGone
<1>3. ASSUME NEW w \in Workers, HostStep(w)
      PROVE  \/ session' = session \/ EngineGone(w) \/ Open(w)
  BY <1>3 DEF HostStep, AcquireLease, ReleaseLease, StartFresh, Recover, ResumeContinuation,
              EngineReturns, Crash
<1>4. ASSUME NEW w \in Workers, Open(w)
      PROVE  \/ session'[v] = session[v]
             \/ held[v] # NoToken /\ session'[v].token = held[v]
  <2> DEFINE new == [token |-> held[w], revision |-> store.revision,
                     sequence |-> SequenceOf(store.doc), tool_calls |-> ToolCallsOf(store.doc),
                     effects |-> store.effects]
  <2>1. session' = [session EXCEPT ![w] = new] /\ held[w] # NoToken /\ new.token = held[w]
    BY <1>4 DEF Open
  <2> HIDE DEF new
  <2> QED BY <1>t, <2>1
<1>5. ASSUME NEW w \in Workers, EngineStep(w)
      PROVE  \/ session'[v] = session[v]
             \/ session[v] # Closed /\ session'[v].token = session[v].token
  <2>1. CASE CommitMove(w)
    <3>1. PICK b, saved, point, rt : Commits(w, b, saved, point, rt)
      BY <2>1 DEF CommitMove
    <3>2. session[w] # Closed
      BY <3>1 DEF Commits, Shape, RunsWithSession
    <3> DEFINE s == session[w]
               new == [token |-> s.token, revision |-> s.revision + 1,
                       sequence |-> seqno[w] + 1, tool_calls |-> saved.tool_calls,
                       effects |-> WithEffect(s.effects, saved.effect)]
    <3>3. session' = [session EXCEPT ![w] = new] \/ EngineGone(w)
      BY <3>1 DEF Commits, Persist
    <3>4. new.token = s.token
      OBVIOUS
    <3> HIDE DEF new
    <3> QED BY <1>t, <1>2, <3>2, <3>3, <3>4
  <2>2. CASE LocalMove(w) \/ TurnsExhausted(w) \/ RequestModel(w) \/ ExecuteTool(w)
    <3>1. session' = session \/ EngineGone(w)
      BY <2>2 DEF LocalMove, Thinks, TurnsExhausted, RequestModel, ExecuteTool, Local
    <3> QED BY <1>2, <3>1
  <2> QED BY <1>5, <2>1, <2>2, EngineMoves
<1>6. CASE LeaseExpires \/ UNCHANGED vars
  BY <1>1, <1>6 DEF LeaseExpires, vars
<1> QED BY <1>1, <1>2, <1>3, <1>4, <1>5, <1>6 DEF Next

(* A commit appends one event, by the token of the lease.                  *)
LEMMA AppendWrites ==
  ASSUME Shape, NEW w \in Workers, session[w] # Closed, Appends(w)
  PROVE  /\ store'.revision = store.revision + 1 /\ store'.token = store.token
         /\ store.token = session[w].token
         /\ store'.writers = Append(store.writers, store.token)
<1>1. PICK ck \in Checkpoint : Accepts(session[w], ck) /\ store' = Committed(session[w], ck)
  BY DEF Appends
<1>2. session[w] \in Session /\ store \in StoredRun
  BY DEF Shape, RunTypes
<1> QED BY <1>1, <1>2, CommitTypes DEF Accepts

LEMMA LeasedStep ==
  ASSUME Shape, Leased, [Next]_vars
  PROVE  Leased'
<1>t. /\ store.token \in Nat /\ grants \in Nat /\ held \in [Workers -> Nat]
      /\ store.writers \in Seq(Nat) /\ store \in StoredRun
  BY DEF Shape, RunTypes, OutsideTypes, StoredRun
<1>1. ASSUME NEW w \in Workers, session'[w] # Closed PROVE session'[w].token # NoToken
  BY <1>1, SessionMoves DEF Leased
<1>2. \A w \in Workers : held'[w] <= grants'
  <2>1. ASSUME NEW w \in Workers, HostStep(w)
        PROVE  /\ grants' = grants \/ grants' = grants + 1
               /\ \A v \in Workers : held'[v] \in {held[v], NoToken, grants'}
    BY <1>t, <2>1 DEF HostStep, AcquireLease, ReleaseLease, StartFresh, Recover,
                      ResumeContinuation, EngineReturns, Crash, hostVars
  <2>2. ASSUME NEW w \in Workers, EngineStep(w) PROVE grants' = grants /\ held' = held
    <3>1. CASE CommitMove(w)
      BY <3>1 DEF CommitMove, Commits, hostVars
    <3>2. CASE LocalMove(w) \/ TurnsExhausted(w) \/ RequestModel(w) \/ ExecuteTool(w)
      BY <3>2 DEF LocalMove, Thinks, TurnsExhausted, RequestModel, ExecuteTool, hostVars
    <3> QED BY <2>2, <3>1, <3>2, EngineMoves
  <2>3. CASE LeaseExpires \/ UNCHANGED vars
    BY <2>3 DEF LeaseExpires, vars, hostVars, Leased
  <2>4. ASSUME NEW w \in Workers, HostStep(w) PROVE \A v \in Workers : held'[v] <= grants'
    BY <1>t, <2>1, <2>4 DEF Leased, NoToken
  <2>5. ASSUME NEW w \in Workers, EngineStep(w) PROVE \A v \in Workers : held'[v] <= grants'
    BY <2>2, <2>5 DEF Leased
  <2> QED BY <2>3, <2>4, <2>5 DEF Next
<1>3. store'.token <= grants' /\ \A i \in 1..Len(store'.writers) : store'.writers[i] <= grants'
  <2>1. CASE SameRun /\ store'.token = store.token /\ grants' = grants
    BY <2>1 DEF SameRun, Leased
  <2>2. ASSUME NEW w \in Workers, AcquireLease(w) \/ ReleaseLease(w)
        PROVE  store'.token <= grants' /\ \A i \in 1..Len(store'.writers) : store'.writers[i] <= grants'
    <3>1. /\ store'.writers = store.writers
          /\ \/ store'.token = grants' /\ grants' = grants + 1
             \/ store'.token = NoToken /\ grants' = grants
      BY <1>t, <2>2 DEF AcquireLease, ReleaseLease, StoredRun
    <3>2. \A i \in 1..Len(store.writers) : store.writers[i] \in Nat
      BY <1>t
    <3> QED BY <1>t, <3>1, <3>2 DEF Leased, NoToken
  <2>3. ASSUME NEW w \in Workers, session[w] # Closed, Appends(w), grants' = grants
        PROVE  store'.token <= grants' /\ \A i \in 1..Len(store'.writers) : store'.writers[i] <= grants'
    <3>1. store'.token = store.token /\ store'.writers = Append(store.writers, store.token)
      BY <2>3, AppendWrites
    <3>2. \A i \in 1..Len(store'.writers) :
             \/ i \in 1..Len(store.writers) /\ store'.writers[i] = store.writers[i]
             \/ store'.writers[i] = store.token
      BY <1>t, <3>1
    <3> QED BY <2>3, <3>1, <3>2 DEF Leased
  <2> QED BY <2>1, <2>2, <2>3, StoreMoves
<1> QED BY <1>1, <1>2, <1>3 DEF Leased

(* Whatever the workers do to the stored run is a step of the RunLedger    *)
(* promise.                                                                *)
THEOREM RunnerLedgerSteps == Spec => LedgerSteps
<1> DEFINE Step == \/ Ledger!AppendStep(StoredRecord, StoredRecord')
                   \/ Ledger!GrantStep(StoredRecord, StoredRecord')
                   \/ Ledger!ReleaseStep(StoredRecord, StoredRecord')
<1>1. ASSUME Shape, Leased, [Next]_vars
      PROVE  [Step]_StoredRecord
  <2>t. /\ store.token \in Nat /\ grants \in Nat /\ store.writers \in Seq(Nat)
        /\ store.revision \in Nat /\ store \in StoredRun
    BY <1>1 DEF Shape, RunTypes, OutsideTypes, StoredRun
  <2> DEFINE old == StoredRecord
             new == StoredRecord'
             n == Len(store.writers)
  <2>w. n \in Nat /\ \A i \in 1..n : store.writers[i] \in Nat
    <3>1. store.writers \in Seq(Nat)
      BY <2>t
    <3> QED BY <3>1
  <2>o. /\ old.revision = store.revision /\ old.event_sequence = n
        /\ old.state = SequenceOf(store.doc) /\ old.token = store.token
        /\ old.events = [i \in 1..n |-> [sequence |-> i, token |-> store.writers[i]]]
    BY DEF StoredRecord
  <2>n. /\ new.revision = store'.revision /\ new.event_sequence = Len(store'.writers)
        /\ new.state = SequenceOf(store'.doc) /\ new.token = store'.token
        /\ new.events = [i \in 1..Len(store'.writers) |->
                            [sequence |-> i, token |-> store'.writers[i]]]
    BY DEF StoredRecord, SequenceOf
  <2>1. CASE SameRun /\ store'.token = store.token /\ grants' = grants
    BY <2>1 DEF SameRun, StoredRecord, SequenceOf
  <2>2. ASSUME NEW w \in Workers, AcquireLease(w) PROVE Ledger!GrantStep(old, new)
    <3>1. SameRun /\ store'.token = grants + 1
      BY <2>t, <2>2 DEF AcquireLease, SameRun, StoredRun
    <3>2. Ledger!SameDocument(old, new)
      BY <2>o, <2>n, <3>1 DEF SameRun, Ledger!SameDocument
    <3>3. new.token > old.token
      BY <1>1, <2>t, <2>o, <2>n, <3>1 DEF Leased
    <3>4. \A i \in 1..Len(old.events) : i \in 1..n /\ old.events[i].token = store.writers[i]
      <4> HIDE DEF old
      <4> QED BY <2>t, <2>o
    <3>5. \A i \in 1..n : store.writers[i] < grants + 1
      <4>1. \A i \in 1..n : store.writers[i] <= grants
        BY <1>1 DEF Leased
      <4> HIDE DEF n
      <4> QED BY <2>t, <2>w, <4>1
    <3>6. \A i \in 1..Len(old.events) : new.token > old.events[i].token
      <4> HIDE DEF old, new, n
      <4> QED BY <2>n, <3>1, <3>4, <3>5
    <3> HIDE DEF old, new
    <3> QED BY <3>2, <3>3, <3>6 DEF Ledger!GrantStep
  <2>3. ASSUME NEW w \in Workers, ReleaseLease(w) PROVE Ledger!ReleaseStep(old, new)
    <3>1. SameRun /\ store'.token = NoToken
      BY <2>t, <2>3 DEF ReleaseLease, SameRun, StoredRun
    <3>2. Ledger!SameDocument(old, new)
      BY <2>o, <2>n, <3>1 DEF SameRun, Ledger!SameDocument
    <3> HIDE DEF old, new
    <3> QED BY <2>n, <3>1, <3>2 DEF Ledger!ReleaseStep, Ledger!NoToken, NoToken
  <2>4. ASSUME NEW w \in Workers, session[w] # Closed, Appends(w)
        PROVE  Ledger!AppendStep(old, new)
    <3>1. /\ store'.revision = store.revision + 1 /\ store'.token = store.token
          /\ store.token # NoToken
          /\ store'.writers = Append(store.writers, store.token)
      BY <1>1, <2>4, AppendWrites DEF Leased
    <3>2. /\ Len(store'.writers) = n + 1 /\ n \in Nat
          /\ \A i \in 1..n : store'.writers[i] = store.writers[i]
          /\ store'.writers[n + 1] = store.token
      BY <2>t, <3>1
    <3> DEFINE b == Ledger!Batch(n, 1, store.token)
               E == [sequence : Nat, token : Nat]
               f == [i \in 1..n |-> [sequence |-> i, token |-> store.writers[i]]]
               g == [i \in 1..(n + 1) |-> [sequence |-> i, token |-> store'.writers[i]]]
    <3>3. b = [i \in 1..1 |-> [sequence |-> n + i, token |-> store.token]]
      BY DEF Ledger!Batch
    <3>4. g = f \o b
      <4>1. f \in Seq(E) /\ Len(f) = n
        <5> HIDE DEF n
        <5> QED BY <2>w
      <4>2. b \in Seq(E) /\ Len(b) = 1
            /\ b[1] = [sequence |-> n + 1, token |-> store.token]
        <5> HIDE DEF b, n
        <5> QED BY <2>t, <3>2, <3>3
      <4>3. g \in Seq(E) /\ Len(g) = n + 1
        <5>1. \A i \in 1..(n + 1) : store'.writers[i] \in Nat
          <6> DEFINE q == store'.writers
          <6>1. \A i \in 1..n : q[i] \in Nat
            BY <2>w, <3>2
          <6>2. q[n + 1] \in Nat
            BY <2>t, <3>2
          <6> HIDE DEF n, q
          <6>3. \A i \in 1..(n + 1) : q[i] \in Nat
            BY <2>w, <6>1, <6>2
          <6> QED BY <6>3 DEF q
        <5> HIDE DEF n
        <5> QED BY <3>2, <5>1
      <4>4. \A i \in 1..n : g[i] = f[i]
        <5> HIDE DEF n
        <5> QED BY <3>2
      <4>5. g[n + 1] = b[1]
        <5> HIDE DEF n, b
        <5> QED BY <3>2, <4>2
      <4> HIDE DEF f, g, b, n, E
      <4>6. /\ f \o b \in Seq(E) /\ Len(f \o b) = n + 1
            /\ \A i \in 1..(n + 1) : (f \o b)[i] = IF i <= n THEN f[i] ELSE b[i - n]
        <5>1. /\ f \o b \in Seq(E) /\ Len(f \o b) = Len(f) + Len(b)
              /\ \A i \in 1..Len(f) + Len(b) : (f \o b)[i] =
                     IF i <= Len(f) THEN f[i] ELSE b[i - Len(f)]
          BY <4>1, <4>2, ConcatProperties
        <5> QED BY <4>1, <4>2, <5>1
      <4>7. \A i \in 1..(n + 1) : (f \o b)[i] = g[i]
        BY <2>w, <4>4, <4>5, <4>6
      <4> QED BY <4>3, <4>6, <4>7, SeqEqual
    <3>5. /\ old.token = store.token /\ new.token = store.token /\ new.revision = old.revision + 1
          /\ old.event_sequence = n /\ new.event_sequence = n + 1
          /\ old.events = f /\ new.events = g
      BY <2>o, <2>n, <3>1, <3>2
    <3>6. (n + 1) - n = 1 /\ n + 1 >= n
      BY <3>2
    <3> HIDE DEF old, new, f, g, b, n
    <3>7. new.events = old.events \o Ledger!Batch(old.event_sequence,
                          new.event_sequence - old.event_sequence, old.token)
      BY <3>4, <3>5, <3>6 DEF b
    <3> QED BY <3>1, <3>5, <3>6, <3>7 DEF Ledger!AppendStep, Ledger!NoToken, NoToken
  <2> QED BY <1>1, <2>1, <2>2, <2>3, <2>4, StoreMoves
<1>2. Init => Leased
  <2> SUFFICES ASSUME Init PROVE Leased
    OBVIOUS
  <2>1. store.token = 0 /\ grants = 0 /\ Len(store.writers) = 0
    BY DEF Init, NoToken
  <2>2. \A w \in Workers : held[w] = 0 /\ session[w] = Closed
    BY DEF Init, NoToken
  <2> QED BY <2>1, <2>2 DEF Leased
<1>3. Spec => [][Step]_StoredRecord
  <2> HIDE DEF Step
  <2> QED BY <1>1, <1>2, LeasedStep, RunnerOwnership, PTL DEF Spec
<1> QED BY <1>3 DEF LedgerSteps
================================================================================

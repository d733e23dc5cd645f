------------------------------- MODULE Scheduler -------------------------------
(***************************************************************************)
(* The child scheduler (crates/adk-runtime/src/subagent.rs): Scheduler,    *)
(* SchedulerHandle, ChildControl and the drive loop, for one session.      *)
(*                                                                         *)
(* Everything the scheduler knows is one ledger, changed only by transact: *)
(* lock, apply to a copy, persist the copy, make it current.  Taking the   *)
(* lock and the store's answer are separate steps here, so that every      *)
(* other part moves in between: executions are started, cancelled and      *)
(* dropped, permits change hands, the owner is closed or replaced.  A call *)
(* that the code refuses changes nothing and is no action.                 *)
(*                                                                         *)
(* The executor is external: it may do whatever ChildControl offers, in    *)
(* any order, and finish or not.  The SchedulerStore is external: it       *)
(* accepts a ledger only over the revision that ledger was built on.       *)
(***************************************************************************)
EXTENDS Integers, Sequences, FiniteSets, FiniteSetsExt, DependencyGraph

CONSTANTS
    Tasks,          \* task ids
    Messages,       \* steering message ids
    Root,           \* the host's handle: parent_task = None
    Driver,         \* the drive loop
    NoTask, NoTx,
    MaxConcurrency, MaxDepth, MaxTasks, \* SchedulerConfig
    Budget,         \* the limit of the shared budget
    MaxUsage,       \* bound: no charge is made past this total
    Sessions        \* what a session may be asked for, see Session

Session ==
    [submitter   : [Tasks -> Tasks \cup {Root}], \* who submits each task
     depends_on  : [Tasks -> SUBSET Tasks],      \* Submission.depends_on of each task
     policy      : [Tasks -> {"AllSuccess", "AllTerminal"}],
     batches     : SUBSET Seq(Tasks),  \* the sequences of tasks submitted together
     costs       : [Tasks -> SUBSET Nat], \* what a reservation, a charge or an outcome may be
     messages    : SUBSET Messages,
     collected   : SUBSET Tasks,       \* tasks whose results are asked for by collect
     wait_modes  : SUBSET {"Any", "All"},
     timeouts    : BOOLEAN,            \* whether waits have a timeout
     checkpoints : BOOLEAN,            \* whether children persist checkpoints
     saves       : BOOLEAN,            \* whether the parent keeps a copy of the ledger
     owners      : Nat,                \* bound on the schedulers created for the session
     strict      : Nat]                \* strictest security baseline of any owner's config

ASSUME ConstantsAssumption ==
    /\ Root \notin Tasks /\ Driver \notin Tasks \cup {Root} /\ NoTask \notin Tasks
    /\ MaxConcurrency \in Nat \ {0} /\ MaxTasks \in Nat \ {0} /\ MaxDepth \in Nat
    /\ Budget \in Nat /\ MaxUsage \in Nat
    /\ Sessions \subseteq Session

VARIABLES
    session,   \* what this session is asked for
    state,     \* Inner.state: the ledger of the current owner
    stored,    \* the SchedulerStore's ledger
    saved,     \* the copy of the ledger in the parent's checkpoint
    stale,     \* that copy is older than the stored ledger
    fenced,    \* state was not built on the stored revision: every persist is refused
    tx,        \* the transaction that holds the lock, or NoTx
    cancelled, \* tasks whose own token is cancelled
    closed, poisoned, \* Inner.closed, Inner.poisoned
    driver,    \* where drive is
    permits,   \* free permits of Inner.slots
    exec,      \* where each task's execute_once is
    outcome,   \* the outcome of a finished execution that is not joined yet
    waits,     \* what a suspended execution waits for
    owners,    \* schedulers created so far
    strict,    \* security baseline of the current config
    executions,    \* how often the executor was entered for each task, since it was
                   \* submitted or last resumed from its continuation
    returned,      \* how often collect returned each task
    accepted,      \* messages for which steer returned Ok
    reconciled     \* tasks whose outcome the host stated

ownerVars == <<cancelled, closed, poisoned>>
slotVars == <<driver, permits, exec, outcome, waits>>
hostVars == <<saved, stale, owners, strict>>
ghosts == <<executions, returned, accepted, reconciled>>
parts == <<state, stored, saved, stale, fenced, tx, cancelled, closed, poisoned, driver,
          permits, exec, outcome, waits, owners, strict, executions, returned,
          accepted, reconciled>>
vars == <<session, parts>>

Submitter == session.submitter
DependsOn == session.depends_on

Terminal == {"completed", "failed", "cancelled"}
Statuses == {"pending", "waiting", "running", "reconciling"} \cup Terminal

(* CheckpointRecord: floor is submission.security, 0 when there is none.   *)
(* checkpoint tells a continuation resume_checkpoint accepts ("safe") from *)
(* one with a dispatched or unknown effect.                                *)
Record == [status : Statuses \cup {"absent"}, dispatched : BOOLEAN, depth : Nat,
           level : Nat, floor : Nat, usage : Nat, delivered : BOOLEAN, accepting : BOOLEAN,
           queued : SUBSET Messages, in_flight : SUBSET Messages,
           acknowledged : SUBSET Messages, checkpoint : {"none", "safe", "unsafe"}]
NoRecord == [status |-> "absent", dispatched |-> FALSE, depth |-> 0, level |-> 0,
             floor |-> 0, usage |-> 0, delivered |-> FALSE, accepting |-> FALSE,
             queued |-> {}, in_flight |-> {}, acknowledged |-> {}, checkpoint |-> "none"]

(* SchedulerCheckpoint: the records in the order of their submission.      *)
Ledger == [order : Seq(Tasks), records : [Tasks -> Record], usage : Nat]
Empty == [order |-> <<>>, records |-> [t \in Tasks |-> NoRecord], usage |-> 0]

Transaction == [by : Tasks \cup {Root, Driver}, op : STRING, task : Tasks \cup {NoTask},
                ids : SUBSET (Tasks \cup Messages), next : Ledger]
Outcome == [status : Terminal, usage : Nat]
NoOutcome == [status |-> "failed", usage |-> 0]
NoWait == [ids |-> {}, mode |-> "All"]

Init ==
    /\ session \in Sessions
    /\ state = Empty /\ stored = Empty /\ saved = Empty
    /\ stale = FALSE /\ fenced = FALSE /\ tx = NoTx
    /\ cancelled = {} /\ closed = FALSE /\ poisoned = FALSE
    /\ driver = "idle" /\ permits = MaxConcurrency
    /\ exec = [t \in Tasks |-> "none"]
    /\ outcome = [t \in Tasks |-> NoOutcome]
    /\ waits = [t \in Tasks |-> NoWait]
    /\ owners = 1 /\ strict \in 0..session.strict
    /\ executions = [t \in Tasks |-> 0]
    /\ returned = [t \in Tasks |-> 0] /\ accepted = [t \in Tasks |-> {}]
    /\ reconciled = {}

--------------------------------------------------------------------------------
(* Reading the ledger.                                                     *)

Present(l) == {t \in Tasks : l.records[t].status # "absent"}
Status(l, t) == l.records[t].status
IsTerminal(l, t) == Status(l, t) \in Terminal
Queued(l, t) == Status(l, t) \in {"pending", "waiting"}
Exhausted(l) == l.usage >= Budget

(* The parent chain of each task, itself included.                         *)
Ancestry ==
    [t \in Tasks |->
        LET up[n \in Nat] == IF n = 0 THEN {t}
                             ELSE up[n - 1] \cup {Submitter[u] : u \in up[n - 1] \ {Root}}
        IN up[Cardinality(Tasks)] \ {Root}]

(* visible: what a handle bound to a task may name.                        *)
Visible(handle, t) == handle = Root \/ handle \in Ancestry[t] \ {t}

(* A token is a child of its parent task's token.                          *)
IsCancelled(t) == Ancestry[t] \cap cancelled # {}

Active == ~closed /\ ~poisoned

(* The lock is held by a call of p.                                        *)
Inside(p) == tx # NoTx /\ tx.by = p

(* Whoever holds a handle on which t is visible: the host, or an execution *)
(* above t that is not inside another call.                                *)
Callers(t) == {p \in Tasks \cup {Root} :
                /\ Visible(p, t)
                /\ p = Root \/ (exec[p] = "running" /\ ~Inside(p))}

(* An execution that may call its ChildControl.                            *)
Running(t) == exec[t] = "running" /\ Status(state, t) = "running"

Update(l, t, r) == [l EXCEPT !.records[t] = r]

(* The results of ids are marked as delivered.                             *)
Delivered(l, ids) ==
    [l EXCEPT !.records = [t \in Tasks |-> [l.records[t] EXCEPT !.delivered = @ \/ t \in ids]]]

--------------------------------------------------------------------------------
(* transact.                                                               *)

(* transact up to its persist: the lock is free, the owner is active, and  *)
(* next is what apply made of the current ledger.                          *)
Begin(by, op, t, ids, next) ==
    /\ tx = NoTx
    /\ Active
    /\ tx' = [by |-> by, op |-> op, task |-> t, ids |-> ids, next |-> next]

(* A call of a handle or of a ChildControl: nothing moves but the lock.    *)
Call(by, op, t, ids, next) ==
    /\ Begin(by, op, t, ids, next)
    /\ UNCHANGED <<state, stored, fenced, ownerVars, slotVars, hostVars, ghosts>>

Bumped(f, S) == [t \in Tasks |-> f[t] + (IF t \in S THEN 1 ELSE 0)]
TaskIf(op) == IF tx.op = op THEN {tx.task} \ {NoTask} ELSE {}

(* What the drive loop does once its transaction has returned: a selected  *)
(* task is spawned with the permit in hand, else the permit is dropped; a  *)
(* joined execution is forgotten.                                          *)
DriverGoesOn(selected) ==
    /\ driver' = CASE tx.op = "schedule_one" -> "idle"
                   [] tx.op = "shutdown" -> "stopped"
                   [] OTHER -> driver
    /\ permits' = permits + (IF tx.op = "schedule_one" /\ selected = {} THEN 1 ELSE 0)
    /\ exec' = [t \in Tasks |-> IF t \in selected THEN "spawned"
                                ELSE IF t \in TaskIf("join") THEN "none" ELSE exec[t]]
    /\ UNCHANGED <<outcome, waits>>

(* persist returned Ok: the copy becomes current and the call returns.     *)
Committed ==
    /\ state' = tx.next /\ stored' = tx.next
    /\ stale' = TRUE
    /\ tx' = NoTx
    /\ DriverGoesOn(TaskIf("schedule_one"))
    /\ executions' = [t \in Tasks |-> IF t \in TaskIf("resume_checkpoint") THEN 0 ELSE executions[t]]
    /\ returned' = Bumped(returned, IF tx.op = "collect_ids" THEN tx.ids ELSE {})
    /\ accepted' = [t \in Tasks |-> IF t \in TaskIf("steer") THEN accepted[t] \cup tx.ids
                                    ELSE accepted[t]]
    /\ UNCHANGED <<saved, fenced, ownerVars, owners, strict, reconciled>>

(* Fault: the store does not compare revisions.                            *)
CommitUnfenced == tx # NoTx /\ Committed

(* The store accepts what was built on its latest revision.                *)
Commit == tx # NoTx /\ ~fenced /\ Committed

(* An unanswered persist may or may not have reached the store.            *)
Ambiguous ==
    /\ stored' \in {stored} \cup (IF fenced THEN {} ELSE {tx.next})
    /\ stale' = (stale \/ stored' # stored)
    /\ fenced' = (fenced \/ stored' # stored)

NotCommitted ==
    /\ Ambiguous
    /\ tx' = NoTx
    /\ DriverGoesOn({})
    /\ UNCHANGED <<state, cancelled, closed, saved, owners, strict, ghosts>>

(* persist returned an error, or the caller was dropped while it waited:   *)
(* PersistGuard poisons the owner, which keeps the old ledger.             *)
PersistFails == tx # NoTx /\ NotCommitted /\ poisoned' = TRUE

--------------------------------------------------------------------------------
(* Calls of the host and of the executions above a task.                   *)

(* security(): the config, narrowed by the submitting task's baseline.     *)
Baseline(l, p) == IF p = Root THEN strict ELSE Max({strict, l.records[p].level})

NewRecord(l, t) ==
    LET p == Submitter[t]
    IN [NoRecord EXCEPT !.status = IF DependsOn[t] = {} THEN "pending" ELSE "waiting",
                        !.depth = IF p = Root THEN 1 ELSE l.records[p].depth + 1,
                        !.level = Baseline(l, p),
                        !.floor = IF p = Root THEN 0 ELSE Baseline(l, p),
                        !.accepting = TRUE]

(* submit_dag.  That the submitting task's status is Running was checked   *)
(* before the lock was taken; only its execution is known to be alive now. *)
SubmitDag(batch) ==
    LET p == Submitter[batch[1]]
        new == {batch[i] : i \in DOMAIN batch}
        next == [state EXCEPT
                    !.order = @ \o batch,
                    !.records = [t \in Tasks |-> IF t \in new THEN NewRecord(state, t) ELSE @[t]]]
    IN /\ \A t \in new : Status(state, t) = "absent" /\ Submitter[t] = p
       /\ p # Root => p \in Present(state) /\ exec[p] = "running"
       /\ NewRecord(state, batch[1]).depth <= MaxDepth
       /\ Len(next.order) <= MaxTasks
       /\ ~Exhausted(state)
       /\ validate_graph(Present(next), DependsOn)
       /\ \A t \in new : \A u \in DependsOn[t] : Visible(p, u)
       /\ Call(p, "submit_dag", NoTask, {}, next)

(* steer: a message id seen before is only acknowledged again.             *)
Steer(by, t, m) ==
    LET r == state.records[t]
        known == m \in r.queued \cup r.in_flight \cup r.acknowledged
    IN /\ by \in Callers(t) /\ t \in Present(state) /\ m \notin accepted[t]
       /\ known \/ (r.accepting /\ r.status \notin Terminal \cup {"reconciling"})
       /\ Call(by, "steer", t, {m},
               IF known THEN state ELSE Update(state, t, [r EXCEPT !.queued = @ \cup {m}]))

(* cancel, first half: the token, before any lock.                         *)
CancelIntent(by, t) ==
    /\ by \in Callers(t) /\ t \in Present(state) /\ ~IsTerminal(state, t)
    /\ t \notin cancelled
    /\ cancelled' = cancelled \cup {t}
    /\ UNCHANGED <<state, stored, fenced, tx, closed, poisoned, slotVars, hostVars, ghosts>>

(* cancel, second half: the status.                                        *)
CancelStatus(by, t) ==
    /\ t \in cancelled /\ by \in Callers(t) /\ ~IsTerminal(state, t)
    /\ Call(by, "cancel", t, {},
            Update(state, t, [state.records[t] EXCEPT !.status = "cancelled", !.accepting = FALSE]))

(* Fault: collect_ids returns results that were delivered before.          *)
CollectIdsAgain(by, ids) ==
    /\ \A t \in ids : by \in Callers(t) /\ IsTerminal(state, t)
    /\ Call(by, "collect_ids", NoTask, ids, Delivered(state, ids))

(* collect_ids, of which ids are the results it returns.                   *)
CollectIds(by, ids) ==
    /\ \A t \in ids : by \in Callers(t) /\ IsTerminal(state, t) /\ ~state.records[t].delivered
    /\ Call(by, "collect_ids", NoTask, ids, Delivered(state, ids))

(* allows_resume_under: the current baseline of a task is no weaker than   *)
(* the one it was admitted with.                                           *)
CurrentBaseline(r) == Max({strict, r.floor})

Resumed(r) == [r EXCEPT !.status = "pending", !.accepting = TRUE, !.level = CurrentBaseline(r)]

(* Fault: resume_queued does not look for dispatch evidence.               *)
ResumeQueuedAnything(by, t) ==
    LET r == state.records[t]
    IN /\ by \in Callers(t) /\ r.status = "reconciling"
       /\ ~IsCancelled(t) /\ CurrentBaseline(r) >= r.level
       /\ Call(by, "resume_queued", t, {}, Update(state, t, Resumed(r)))

(* resume_queued: only what was never dispatched.                          *)
ResumeQueued(by, t) ==
    LET r == state.records[t]
    IN /\ by \in Callers(t) /\ r.status = "reconciling" /\ ~r.dispatched
       /\ ~IsCancelled(t) /\ CurrentBaseline(r) >= r.level
       /\ Call(by, "resume_queued", t, {}, Update(state, t, Resumed(r)))

(* resume_checkpoint: only from a continuation without an open effect.     *)
ResumeCheckpoint(by, t) ==
    LET r == state.records[t]
    IN /\ by \in Callers(t) /\ r.status = "reconciling" /\ r.checkpoint = "safe"
       /\ ~IsCancelled(t) /\ CurrentBaseline(r) >= r.level
       /\ Call(by, "resume_checkpoint", t, {}, Update(state, t, Resumed(r)))

(* remaining_delta: what a cumulative total adds to what is on record.     *)
Delta(r, total) == IF total > r.usage THEN total - r.usage ELSE 0

(* Adds consumption to a task and to the shared total.                     *)
Charged(l, t, cost) == [l EXCEPT !.records[t].usage = @ + cost, !.usage = @ + cost]

(* reconcile: the host states the outcome.                                 *)
Reconcile(by, t, o) ==
    LET r == state.records[t]
        next == Update(state, t, [r EXCEPT !.status = o.status, !.accepting = FALSE])
    IN /\ by \in Callers(t) /\ r.status = "reconciling"
       /\ Begin(by, "reconcile", t, {}, Charged(next, t, Delta(r, o.usage)))
       /\ reconciled' = reconciled \cup {t}
       /\ UNCHANGED <<state, stored, fenced, ownerVars, slotVars, hostVars, executions,
                      returned, accepted>>

--------------------------------------------------------------------------------
(* ChildControl: calls of an execution about its own task.                 *)

(* reserve: refused when it would cross the limit.                         *)
Reserve(t, cost) ==
    /\ Running(t)
    /\ ~Exhausted(state) /\ state.usage + cost <= Budget
    /\ Call(t, "reserve", t, {}, Charged(state, t, cost))

(* charge: recorded even when it crosses the limit.                        *)
Charge(t, cost) ==
    /\ Running(t)
    /\ state.usage + cost <= MaxUsage
    /\ Call(t, "charge", t, {}, Charged(state, t, cost))

Taken(r) == [r EXCEPT !.in_flight = @ \cup r.queued, !.queued = {}]

TakeMessages(t) ==
    /\ Running(t)
    /\ Call(t, "take_messages", t, {}, Update(state, t, Taken(state.records[t])))

(* finish_or_take_messages: no message left closes admission.              *)
FinishOrTakeMessages(t) ==
    LET r == Taken(state.records[t])
    IN /\ Running(t)
       /\ Call(t, "finish_or_take_messages", t, {},
               Update(state, t, [r EXCEPT !.accepting = @ /\ r.in_flight # {}]))

Acknowledged(r, ids) == [r EXCEPT !.in_flight = @ \ ids, !.acknowledged = @ \cup ids]

(* acknowledge_messages: only what was taken; the status is not asked.     *)
AcknowledgeMessages(t, ids) ==
    LET r == state.records[t]
    IN /\ exec[t] = "running" /\ ids \subseteq r.in_flight
       /\ Call(t, "acknowledge_messages", t, {}, Update(state, t, Acknowledged(r, ids)))

(* persist_checkpoint: the continuation, the steering applied in it and    *)
(* the delivery of descendants' results, together.                         *)
PersistCheckpoint(t, kind, ids, deliveries) ==
    LET r == state.records[t]
        next == Update(state, t, [Acknowledged(r, ids) EXCEPT !.checkpoint = kind])
    IN /\ session.checkpoints /\ Running(t) /\ ids \subseteq r.in_flight
       /\ \A u \in deliveries : Visible(t, u) /\ IsTerminal(state, u)
       /\ Call(t, "persist_checkpoint", t, {}, Delivered(next, deliveries))

(* record_tool_start, record_tool_end and activity change no more than     *)
(* what status shows, but they are writes like any other.                  *)
RecordActivity(t) == exec[t] = "running" /\ Call(t, "activity", t, {}, state)

--------------------------------------------------------------------------------
(* execute_once and the slot it holds.                                     *)

HoldsPermit(t) == exec[t] \in {"spawned", "running"}
Resuming == {t \in Tasks : exec[t] = "resuming"}

(* ReleaseSlot: a suspended execution has no permit to give back.          *)
ReleasedBy(t) == IF HoldsPermit(t) THEN 1 ELSE 0

(* The execution's future is dropped.  A transaction it was inside is an   *)
(* ambiguous write.                                                        *)
DroppedCall(t) ==
    IF Inside(t)
    THEN Ambiguous /\ poisoned' = TRUE /\ tx' = NoTx
    ELSE UNCHANGED <<stored, stale, fenced, poisoned, tx>>

(* The executor is entered; a token cancelled before wins.                 *)
Start(t) ==
    /\ exec[t] = "spawned" /\ ~IsCancelled(t)
    /\ exec' = [exec EXCEPT ![t] = "running"]
    /\ executions' = Bumped(executions, {t})
    /\ UNCHANGED <<state, stored, fenced, tx, ownerVars, driver, permits, outcome, waits,
                   hostVars, returned, accepted, reconciled>>

(* Where an execution is inside the select that watches its token.         *)
Watched == {"spawned", "running", "waiting", "resuming"}

(* The token's branch of the select: the executor is dropped.              *)
CancelExecution(t) ==
    /\ exec[t] \in Watched /\ IsCancelled(t)
    /\ DroppedCall(t)
    /\ permits' = permits + ReleasedBy(t)
    /\ exec' = [exec EXCEPT ![t] = "done"]
    /\ outcome' = [outcome EXCEPT ![t] = [status |-> "cancelled", usage |-> 0]]
    /\ waits' = [waits EXCEPT ![t] = NoWait]
    /\ UNCHANGED <<state, cancelled, closed, driver, saved, owners, strict, ghosts>>

(* The executor returns, fails or panics.                                  *)
Finish(t, o) ==
    /\ exec[t] = "running" /\ ~Inside(t)
    /\ permits' = permits + 1
    /\ exec' = [exec EXCEPT ![t] = "done"]
    /\ outcome' = [outcome EXCEPT ![t] = o]
    /\ UNCHANGED <<state, stored, fenced, tx, ownerVars, driver, waits, hostVars, ghosts>>

(* Fault: a suspended wait keeps its permit.                               *)
WaitHoldingPermit(t, ids, mode) ==
    /\ exec[t] = "running" /\ ~Inside(t)
    /\ \A u \in ids : Visible(t, u) /\ u \in Present(state)
    /\ exec' = [exec EXCEPT ![t] = "waiting"]
    /\ waits' = [waits EXCEPT ![t] = [ids |-> ids, mode |-> mode]]
    /\ UNCHANGED <<state, stored, fenced, tx, ownerVars, driver, permits, outcome, hostVars, ghosts>>

(* wait from inside an execution: its slot is suspended.                   *)
Wait(t, ids, mode) ==
    /\ exec[t] = "running" /\ ~Inside(t)
    /\ \A u \in ids : Visible(t, u) /\ u \in Present(state)
    /\ permits' = permits + 1
    /\ exec' = [exec EXCEPT ![t] = "waiting"]
    /\ waits' = [waits EXCEPT ![t] = [ids |-> ids, mode |-> mode]]
    /\ UNCHANGED <<state, stored, fenced, tx, ownerVars, driver, outcome, hostVars, ghosts>>

WaitOver(t) ==
    \/ ~Active
    \/ \A u \in waits[t].ids : IsTerminal(state, u)
    \/ /\ waits[t].mode = "Any"
       /\ \E u \in waits[t].ids : IsTerminal(state, u) /\ ~state.records[u].delivered

(* The wait has its answer and asks for a permit again.                    *)
Woken(t) ==
    /\ exec' = [exec EXCEPT ![t] = "resuming"]
    /\ waits' = [waits EXCEPT ![t] = NoWait]
    /\ UNCHANGED <<state, stored, fenced, tx, ownerVars, driver, permits, outcome, hostVars, ghosts>>
Wake(t) == exec[t] = "waiting" /\ WaitOver(t) /\ Woken(t)
WaitTimesOut(t) == session.timeouts /\ exec[t] = "waiting" /\ Woken(t)

ResumeSlot(t) ==
    /\ exec[t] = "resuming" /\ permits > 0 /\ ~IsCancelled(t)
    /\ permits' = permits - 1
    /\ exec' = [exec EXCEPT ![t] = "running"]
    /\ UNCHANGED <<state, stored, fenced, tx, ownerVars, driver, outcome, waits, hostVars, ghosts>>

(* The executor drops its wait: SuspendedSlot cancels the task.            *)
AbandonWait(t) ==
    /\ exec[t] \in {"waiting", "resuming"} /\ t \notin cancelled
    /\ cancelled' = cancelled \cup {t}
    /\ UNCHANGED <<state, stored, fenced, tx, closed, poisoned, slotVars, hostVars, ghosts>>

--------------------------------------------------------------------------------
(* drive.                                                                  *)

(* Fault: an executor that completes has handled its steering.             *)
apply_outcome_trusting(l, t, o) ==
    LET r == l.records[t]
        settled == [r EXCEPT !.status = o.status, !.accepting = FALSE]
    IN Charged(Update(l, t, IF r.status \in Terminal THEN r ELSE settled), t, Delta(r, o.usage))

(* apply_outcome: a terminal record only takes the consumption; one that   *)
(* completed with unhandled steering has to be reconciled.                 *)
apply_outcome(l, t, o) ==
    LET r == l.records[t]
        left == o.status = "completed" /\ r.queued \cup r.in_flight # {}
        settled == [r EXCEPT !.status = IF left THEN "reconciling" ELSE o.status,
                             !.accepting = FALSE]
    IN Charged(Update(l, t, IF r.status \in Terminal THEN r ELSE settled), t, Delta(r, o.usage))

(* Fault: a dependency that failed is only waited for.                     *)
FailedIgnored(l, t) == FALSE

(* A dependency that failed fails its dependents under AllSuccess.         *)
Failed(l, t) == session.policy[t] = "AllSuccess"
                /\ \E u \in DependsOn[t] : IsTerminal(l, u) /\ Status(l, u) # "completed"

(* The dependencies a task waits for: reconciling ones, too.               *)
Open(l, t) == {u \in DependsOn[t] : ~IsTerminal(l, u)}

SelfReady(l, t) == Open(l, t) = {} \/ Failed(l, t)

(* schedule_one, at one record of its scan, unless a task is selected      *)
(* already: a queued task is cancelled, failed, left waiting or selected.  *)
StepOver(s, t, exhausted) ==
    LET l == s.ledger
        settle(status) == [s EXCEPT !.ledger = apply_outcome(l, t, [status |-> status, usage |-> 0])]
    IN CASE s.selected # {} \/ ~Queued(l, t) -> s
         [] OTHER -> IF IsCancelled(t) THEN settle("cancelled")
                     ELSE IF exhausted \/ Failed(l, t) THEN settle("failed")
                     ELSE IF Open(l, t) # {}
                     THEN [s EXCEPT !.ledger.records[t].status = "waiting"]
                     ELSE [ledger |-> Update(l, t, [l.records[t] EXCEPT !.status = "running",
                                                                        !.dispatched = TRUE]),
                           selected |-> {t}]

Scan(l) ==
    LET scan[n \in Nat] == IF n = 0 THEN [ledger |-> l, selected |-> {}]
                           ELSE StepOver(scan[n - 1], l.order[n], Exhausted(l))
    IN scan[Len(l.order)]

(* The inner loop takes a permit first, then looks for work.  Permits that *)
(* suspended executions are queued for are not free.                       *)
TakePermit ==
    /\ driver = "idle" /\ Active /\ ~Inside(Driver)
    /\ permits > Cardinality(Resuming)
    /\ \E t \in Present(state) : Queued(state, t) /\ (Exhausted(state) \/ SelfReady(state, t))
    /\ driver' = "holding"
    /\ permits' = permits - 1
    /\ UNCHANGED <<state, stored, fenced, tx, ownerVars, exec, outcome, waits, hostVars, ghosts>>

ScheduleOne ==
    LET s == Scan(state)
    IN /\ driver = "holding"
       /\ Call(Driver, "schedule_one", IF s.selected = {} THEN NoTask ELSE CHOOSE t \in s.selected : TRUE,
               {}, s.ledger)

(* The owner stopped being active while the driver held a permit.          *)
DropPermit ==
    /\ driver = "holding" /\ tx = NoTx /\ ~Active
    /\ driver' = "idle"
    /\ permits' = permits + 1
    /\ UNCHANGED <<state, stored, fenced, tx, ownerVars, exec, outcome, waits, hostVars, ghosts>>

Join(t) ==
    /\ driver = "idle" /\ exec[t] = "done"
    /\ Call(Driver, "join", t, {}, apply_outcome(state, t, outcome[t]))

(* The outcome of an execution joined after the owner stopped being active *)
(* is dropped.                                                             *)
JoinInVain(t) ==
    /\ driver = "idle" /\ exec[t] = "done" /\ tx = NoTx /\ ~Active
    /\ exec' = [exec EXCEPT ![t] = "none"]
    /\ UNCHANGED <<state, stored, fenced, tx, ownerVars, driver, permits, outcome, waits,
                   hostVars, ghosts>>

(* shutdown, or the end of the session's context.  Tokens made later are   *)
(* not cancelled.                                                          *)
Closing ==
    /\ closed' = TRUE
    /\ cancelled' = cancelled \cup {t \in Tasks : exec[t] # "none"}
Close ==
    /\ ~closed /\ Closing
    /\ UNCHANGED <<state, stored, fenced, tx, poisoned, slotVars, hostVars, ghosts>>

(* The loop ends: closed or poisoned.  The children are aborted one by one.*)
DriveEnds ==
    /\ driver = "idle" /\ ~Active /\ ~Inside(Driver)
    /\ Closing
    /\ driver' = "draining"
    /\ UNCHANGED <<state, stored, fenced, tx, poisoned, permits, exec, outcome, waits,
                   hostVars, ghosts>>

AbortChild(t) ==
    /\ driver = "draining" /\ exec[t] # "none"
    /\ DroppedCall(t)
    /\ permits' = permits + ReleasedBy(t)
    /\ exec' = [exec EXCEPT ![t] = "none"]
    /\ waits' = [waits EXCEPT ![t] = NoWait]
    /\ UNCHANGED <<state, cancelled, closed, driver, outcome, saved, owners, strict, ghosts>>

ShutDown(r) ==
    IF r.status \in {"pending", "waiting", "running"}
    THEN [r EXCEPT !.status = "cancelled", !.accepting = FALSE] ELSE r

(* Fault: the last transaction asks whether the owner is active.           *)
DrainedActive == driver = "draining" /\ tx = NoTx /\ Active

Drained == driver = "draining" /\ tx = NoTx /\ \A t \in Tasks : exec[t] = "none"

(* The last transaction, which does not ask whether the owner is active.   *)
PersistShutdown ==
    /\ Drained /\ ~poisoned
    /\ tx' = [by |-> Driver, op |-> "shutdown", task |-> NoTask, ids |-> {},
              next |-> [state EXCEPT !.records = [t \in Tasks |-> ShutDown(@[t])]]]
    /\ UNCHANGED <<state, stored, fenced, ownerVars, slotVars, hostVars, ghosts>>

StopPoisoned ==
    /\ Drained /\ poisoned
    /\ driver' = "stopped"
    /\ UNCHANGED <<state, stored, fenced, tx, ownerVars, permits, exec, outcome, waits,
                   hostVars, ghosts>>

--------------------------------------------------------------------------------
(* The session's host: copies, crashes, restarts and restore.              *)

(* ChildCheckpointOwner::checkpoint, into the parent runner's checkpoint.  *)
ParentCheckpoint ==
    /\ session.saves /\ ~poisoned
    /\ saved' = state
    /\ stale' = fenced
    /\ UNCHANGED <<state, stored, fenced, tx, ownerVars, slotVars, owners, strict, ghosts>>

(* The process ends, or the Scheduler is dropped, and another one is       *)
(* created for the same session: everything in memory is gone.             *)
NewOwner(s) ==
    /\ owners < session.owners
    /\ owners' = owners + 1 /\ strict' = s
    /\ stored' \in {stored} \cup (IF tx = NoTx \/ fenced THEN {} ELSE {tx.next})
    /\ stale' = (stale \/ stored' # stored)
    /\ state' = Empty /\ fenced' = (stored' # Empty)
    /\ tx' = NoTx /\ cancelled' = {} /\ closed' = FALSE /\ poisoned' = FALSE
    /\ driver' = "idle" /\ permits' = MaxConcurrency
    /\ exec' = [t \in Tasks |-> "none"]
    /\ outcome' = [t \in Tasks |-> NoOutcome]
    /\ waits' = [t \in Tasks |-> NoWait]
    /\ UNCHANGED <<saved, ghosts>>

(* The checks of restore, under a config with baseline s.                  *)
ValidScope(l, t) ==
    LET r == l.records[t]
        p == Submitter[t]
    IN IF p = Root THEN r.depth = 1
       ELSE /\ p \in Present(l)
            /\ r.depth = l.records[p].depth + 1
            /\ r.level >= l.records[p].level
ConsistentRecord(r, s) ==
    /\ r.depth \in 1..MaxDepth
    /\ r.delivered => r.status \in Terminal
    /\ r.status = "running" => r.dispatched
    /\ r.status \in {"pending", "waiting"} /\ r.dispatched => r.checkpoint # "none"
    /\ r.checkpoint # "none" => r.dispatched
    /\ Max({s, r.floor}) >= r.level
    /\ r.queued \cap r.in_flight = {} /\ r.acknowledged \cap (r.queued \cup r.in_flight) = {}
    /\ ~r.dispatched => r.in_flight \cup r.acknowledged = {}
Restorable(l, s) ==
    /\ Len(l.order) <= MaxTasks
    /\ validate_graph(Present(l), DependsOn)
    /\ \A t \in Present(l) : ValidScope(l, t) /\ ConsistentRecord(l.records[t], s)
    /\ l.usage = MapThenSumSet(LAMBDA t : l.records[t].usage, Present(l))

Restored(r) ==
    IF r.status = "absent" THEN r
    ELSE [r EXCEPT !.accepting = FALSE,
                   !.status = IF @ \in Terminal THEN @ ELSE "reconciling"]

(* restore, from the store's ledger or from the parent's copy.             *)
Restore(l, old) ==
    /\ tx = NoTx /\ Active /\ state.order = <<>> /\ l.order # <<>>
    /\ Restorable(l, strict)
    /\ state' = [l EXCEPT !.records = [t \in Tasks |-> Restored(@[t])]]
    /\ fenced' = old
    /\ UNCHANGED <<stored, tx, ownerVars, slotVars, hostVars, ghosts>>

--------------------------------------------------------------------------------
Outcomes(t) == [status : {"completed", "failed"}, usage : session.costs[t] \cup {0}]
Handles == Tasks \cup {Root}

HostCalls ==
    \/ \E batch \in session.batches : SubmitDag(batch)
    \/ \E by \in Handles, t \in Tasks : \E m \in session.messages : Steer(by, t, m)
    \/ \E by \in Handles, t \in Tasks : CancelIntent(by, t) \/ CancelStatus(by, t)
    \/ \E by \in Handles, ids \in SUBSET session.collected \ {{}} : CollectIds(by, ids)
    \/ \E by \in Handles, t \in Tasks : ResumeQueued(by, t)
    \/ \E by \in Handles, t \in Tasks : ResumeCheckpoint(by, t)
    \/ \E by \in Handles, t \in Tasks : \E o \in Outcomes(t) : Reconcile(by, t, o)

ChildCalls(t) ==
    \/ \E cost \in session.costs[t] : Reserve(t, cost) \/ Charge(t, cost)
    \/ TakeMessages(t) \/ FinishOrTakeMessages(t) \/ RecordActivity(t)
    \/ \E ids \in SUBSET session.messages \ {{}} : AcknowledgeMessages(t, ids)
    \/ \E kind \in {"safe", "unsafe"}, ids \in SUBSET session.messages, deliveries \in SUBSET Tasks :
          PersistCheckpoint(t, kind, ids, deliveries)
    \/ \E ids \in SUBSET Tasks \ {{}}, mode \in session.wait_modes : Wait(t, ids, mode)
    \/ WaitTimesOut(t) \/ AbandonWait(t)

Finishes(t) == \E o \in Outcomes(t) : Finish(t, o)

Drive == TakePermit \/ ScheduleOne \/ DropPermit \/ (\E t \in Tasks : Join(t) \/ JoinInVain(t))
Shutdown == DriveEnds \/ (\E t \in Tasks : AbortChild(t)) \/ PersistShutdown \/ StopPoisoned

Host ==
    \/ Close
    \/ ParentCheckpoint
    \/ \E s \in 0..session.strict : NewOwner(s)
    \/ Restore(stored, FALSE)
    \/ Restore(saved, stale)

Step ==
    \/ Commit \/ PersistFails
    \/ HostCalls
    \/ \E t \in Tasks : ChildCalls(t) \/ Finishes(t)
    \/ \E t \in Tasks : Start(t) \/ CancelExecution(t) \/ Wake(t) \/ ResumeSlot(t)
    \/ Drive \/ Shutdown \/ Host

Next == Step /\ UNCHANGED session

Spec == Init /\ [][Next]_vars

(* The runtime polls every task that can go on, the lock and the semaphore *)
(* are first come first served, the store answers every call.  Nothing is  *)
(* assumed of the executors or of the host.                                *)
FairSpec ==
    /\ Spec
    /\ WF_parts(Commit \/ PersistFails)
    /\ WF_parts(TakePermit) /\ SF_parts(ScheduleOne \/ DropPermit)
    /\ \A t \in Tasks : /\ WF_parts(Start(t)) /\ WF_parts(CancelExecution(t))
                        /\ SF_parts(Join(t) \/ JoinInVain(t)) /\ WF_parts(AbortChild(t))
                        /\ WF_parts(Wake(t)) /\ SF_parts(ResumeSlot(t))
    /\ WF_parts(DriveEnds) /\ WF_parts(PersistShutdown) /\ WF_parts(StopPoisoned)

--------------------------------------------------------------------------------
(* Whatever is in the store can be restored: an owner that dies at any     *)
(* moment, even inside a write, leaves a ledger that restore accepts under *)
(* the strictest config.                                                   *)
RestoreAccepts == Restorable(stored, session.strict)

(* The executor is entered once for a task, and once more each time a      *)
(* caller resumed it from a continuation: no crash, ambiguous write, stale *)
(* copy or restart replays a child.                                        *)
NoReplay == \A t \in Tasks : executions[t] <= 1

(* A result is handed out by collect at most once, over all owners.        *)
DeliveredOnce == \A t \in Tasks : returned[t] <= 1

(* A steering message whose sender was told Ok stays in the stored ledger; *)
(* a task that completed by itself has handled all of them.                *)
SteeringKept ==
    \A t \in Tasks :
        LET r == stored.records[t]
        IN /\ accepted[t] \subseteq r.queued \cup r.in_flight \cup r.acknowledged
           /\ r.status = "completed" /\ t \notin reconciled => accepted[t] \subseteq r.acknowledged

(* A task inside the executor has its dependencies behind it.              *)
DependenciesFirst ==
    \A t \in Tasks : exec[t] \in {"running", "waiting", "resuming"} =>
        \A u \in DependsOn[t] : /\ IsTerminal(stored, u)
                                /\ session.policy[t] = "AllSuccess" => Status(stored, u) = "completed"

(* Every permit is free, held by a task or in the driver's hand.           *)
PermitsConserved ==
    permits + Cardinality({t \in Tasks : HoldsPermit(t)}) + (IF driver = "holding" THEN 1 ELSE 0)
        = MaxConcurrency

(* While a task is inside the executor its dependencies are terminal, and  *)
(* under AllSuccess completed; and no permit is lost or made up by         *)
(* suspending, resuming, cancelling, dropping or failing (ready,           *)
(* execute_once, wait).                                                    *)
ExecutesInTurn == DependenciesFirst /\ PermitsConserved

Gone == driver = "stopped" \/ ~Active

(* A task cancelled while it executes gets a terminal status, or has to be *)
(* reconciled, whatever its executor does and even if the canceller goes   *)
(* away between the token and the status; or the owner ends.  If executors *)
(* finish, every admitted task is settled, with one slot and nested waits  *)
(* too, unless something below or before it waits to be reconciled, or     *)
(* another owner took the session over (execute_once, wait, drive).        *)
ExecutorsFinish == \A t \in Tasks : SF_parts(Finishes(t))
Settles ==
    /\ \A t \in Tasks : (t \in cancelled /\ exec[t] # "none") ~>
          (Gone \/ t \notin cancelled \/ IsTerminal(state, t) \/ Status(state, t) = "reconciling")
    /\ ExecutorsFinish =>
          \A t \in Tasks : (t \in Present(state)) ~>
              (Gone \/ t \notin Present(state) \/ IsTerminal(state, t)
                 \/ \E u \in Tasks : Status(state, u) = "reconciling")

(* shutdown returns: once closed, the drive loop ends whatever executors,  *)
(* waits and writes are under way.                                         *)
ShutdownEnds == closed ~> (driver = "stopped" \/ ~closed)
================================================================================

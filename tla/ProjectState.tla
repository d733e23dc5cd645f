------------------------------ MODULE ProjectState ------------------------------
(***************************************************************************)
(* The filesystem project store (crates/adk-project-state: engine.rs,      *)
(* storage.rs, recall.rs): an event log, four index files derived from it  *)
(* and a cache of embeddings, shared by several processes.                 *)
(*                                                                         *)
(* A call is one or more transactions.  A transaction takes the flock (the *)
(* gate), then the token file that clients of the Go SDK know, reads and   *)
(* repairs the log, decides under the lock what to write (its plan), and   *)
(* carries the plan out one file at a time: a write becomes visible first  *)
(* and durable when it is synced.  An I/O error, the death of a process or *)
(* a loss of power may come between any two steps.                         *)
(***************************************************************************)
EXTENDS Integers, Sequences, FiniteSets

CONSTANTS
    Clients,      \* processes, each with one ProjectStore
    Projects,     \* the projects and who uses them
    Tasks, Memories, Sessions,   \* ids
    Values,       \* contents of a memory
    Pinned,       \* those that upsert_memory stores with kind "pinned"
    NewStatuses,  \* statuses a caller gives update_task
    Reasons,      \* comments that close_task adds: 1 with a reason, 0 without
    None,         \* no value
    Dead,         \* the process id of a process that is gone
    Go            \* a client of the Go SDK, which knows the token file only

(* What a project is used for, by whom, and the bounds on its use.         *)
Project == [clients : SUBSET Clients,
            searchers : SUBSET Clients,  \* those that make calls of several transactions
            tasks : SUBSET Tasks, memories : SUBSET Memories, sessions : SUBSET Sessions,
            events : Nat,                \* bound on the number of event ids drawn
            faults : Nat,                \* bound on I/O errors and deaths of processes
            outages : Nat,               \* bound on losses of power
            mixed : BOOLEAN]             \* whether a Go client uses it too

ASSUME ConstantsAssumption ==
    /\ \A p \in Projects : p \in Project /\ p.searchers \subseteq p.clients
    /\ Pinned \subseteq Values /\ Reasons \subseteq 0..1
    /\ NewStatuses \subseteq {"open", "in_progress", "blocked", "closed", "deferred"}
    /\ None \notin Clients /\ Dead \notin Clients /\ Go \notin Clients /\ Dead # Go

VARIABLES
    project,  \* the project, which never changes
    gate,     \* the process that holds the flock
    token,    \* locks/state.lock
    goIn,     \* the Go client believes it holds the token file
    log,      \* the complete records of events.jsonl
    tail,     \* how the file ends
    synced,   \* the number of its records known to be on disk
    olds,     \* logs a rename replaced that a loss of power may bring back
    file,     \* the files of indexes/
    disk,     \* what each of them may be after a loss of power
    up,       \* processes whose ProjectStore is open
    call,     \* the call each process has under way
    drawn,    \* event ids drawn so far
    faults,   \* I/O errors and deaths so far
    outages,  \* losses of power so far
    acked,    \* events whose call returned Ok and that nobody purged
    gone,     \* memories whose removal returned Ok and that nobody wrote since
    clean     \* the log has not changed since a call that wrote it returned Ok

lockVars == <<gate, token, goIn>>
logVars == <<log, tail, synced, olds>>
dirVars == <<file, disk>>
ghosts == <<acked, gone, clean>>
vars == <<project, gate, token, goIn, log, tail, synced, olds, file, disk, up, call, drawn,
          faults, outages, acked, gone, clean>>

--------------------------------------------------------------------------------
(* State, Task, Memory, Event (engine.rs, types.rs).                       *)

Statuses == {"open", "in_progress", "blocked", "closed", "deferred"}
Task == [status : Statuses, assignee : Clients \cup {None}, depends_on : SUBSET Tasks,
         blocks : SUBSET Tasks, comments : Nat]
Memory == [val : Values, at : Nat]      \* updated_at: the event that wrote it

TaskKinds == {"task.created", "task.updated", "task.claimed", "task.closed",
              "task.comment_added", "task.dependency_added", "task.dependency_removed"}
Kinds == TaskKinds \cup {"project.initialized", "memory.upserted", "memory.deleted",
                         "session.summary_saved"}
Ids == Tasks \cup Memories \cup Sessions \cup {None}
Event == [seq : Nat, eid : Nat, kind : Kinds, id : Ids,
          task : Task \cup {None},      \* the whole task, where the payload has it
          dep : Tasks \cup {None}, actor : Clients \cup {None},
          val : Values \cup {None}]

EmptyState == [ok |-> TRUE, project |-> FALSE,
               tasks |-> [t \in Tasks |-> None],
               memories |-> [m \in Memories |-> None],
               sessions |-> [s \in Sessions |-> 0],
               last_seq |-> 0]

(* task_mut: the event needs its task.                                     *)
WithTask(s, id, task) == IF s.tasks[id] = None THEN [s EXCEPT !.ok = FALSE]
                                               ELSE [s EXCEPT !.tasks[id] = task]

(* State::apply.                                                           *)
apply(s, ev) ==
    LET old == s.tasks[ev.id] IN
    CASE ~s.ok -> s
      [] s.ok /\ ev.kind = "project.initialized" -> [s EXCEPT !.project = TRUE]
      [] s.ok /\ ev.kind \in {"task.created", "task.updated", "task.closed"} ->
            [s EXCEPT !.tasks[ev.id] = ev.task]
      [] s.ok /\ ev.kind = "task.claimed" ->
            WithTask(s, ev.id, [old EXCEPT !.assignee = ev.actor, !.status = "in_progress"])
      [] s.ok /\ ev.kind = "task.comment_added" ->
            WithTask(s, ev.id, [old EXCEPT !.comments = @ + 1])
      [] s.ok /\ ev.kind = "task.dependency_added" ->
            WithTask(s, ev.id, [old EXCEPT !.depends_on = @ \cup {ev.dep}])
      [] s.ok /\ ev.kind = "task.dependency_removed" ->
            WithTask(s, ev.id, [old EXCEPT !.depends_on = @ \ {ev.dep}])
      [] s.ok /\ ev.kind = "memory.upserted" ->
            [s EXCEPT !.memories[ev.id] = [val |-> ev.val, at |-> ev.eid]]
      [] s.ok /\ ev.kind = "memory.deleted" -> [s EXCEPT !.memories[ev.id] = None]
      [] s.ok /\ ev.kind = "session.summary_saved" -> [s EXCEPT !.sessions[ev.id] = ev.eid]

(* recompute_blocks: blocks is depends_on turned round.                    *)
recompute_blocks(s) ==
    [s EXCEPT !.tasks = [t \in Tasks |->
        IF s.tasks[t] = None THEN None
        ELSE [s.tasks[t] EXCEPT !.blocks =
                {u \in Tasks : s.tasks[u] # None /\ t \in s.tasks[u].depends_on}]]]

Larger(a, b) == IF a > b THEN a ELSE b

(* State::replay.                                                          *)
replay(l) ==
    LET after[i \in 0..Len(l)] ==
          IF i = 0 THEN EmptyState
          ELSE LET s == apply(after[i - 1], l[i])
               IN [s EXCEPT !.last_seq = Larger(s.last_seq, l[i].seq)]
    IN recompute_blocks(after[Len(l)])

--------------------------------------------------------------------------------
(* The files of indexes/ and the steps of a plan (storage.rs).             *)

IndexOrder == <<"project", "tasks", "memories", "sessions">>
Files == {"project", "tasks", "memories", "sessions", "embeddings"}

NoEmbeddings == [m \in Memories |-> None]

(* snapshot: what each index file says of a state.  Project.updated_at is  *)
(* left out: mutate sets it in what it writes, never in the log.           *)
View(s, f) == CASE f = "project" -> s.project
                [] f = "tasks" -> s.tasks
                [] f = "memories" -> s.memories
                [] f = "sessions" -> s.sessions

StepOf(kind, ev, new, f, value) ==
    [kind |-> kind, ev |-> ev, new |-> new, file |-> f, value |-> value]
Append1(ev) == StepOf("append", ev, None, None, None)
ReplaceAll(l) == StepOf("replace", None, l, None, None)
WriteFile(f, value) == StepOf("file", None, None, f, value)

snapshot(s) == [i \in 1..Len(IndexOrder) |-> WriteFile(IndexOrder[i], View(s, IndexOrder[i]))]

(* delete_embeddings and put_embeddings: the cache is read and rewritten.  *)
Cache == IF file["embeddings"] = None THEN NoEmbeddings ELSE file["embeddings"]
delete_embeddings(ids) ==
    WriteFile("embeddings", [m \in Memories |-> IF m \in ids THEN None ELSE Cache[m]])
put_embeddings(recs) ==
    WriteFile("embeddings", [m \in Memories |-> IF recs[m] # None THEN recs[m] ELSE Cache[m]])

--------------------------------------------------------------------------------
(* Calls.                                                                  *)

NoEvent == [seq |-> 0, eid |-> 0, kind |-> "project.initialized", id |-> None,
            task |-> None, dep |-> None, actor |-> None, val |-> None]
NewCall(op, ev, ids) ==
    [op |-> op,
     ev |-> ev,               \* what a mutation asks for
     ids |-> ids,             \* what a purge, or a retention, is to remove
     purge |-> FALSE,         \* a retention with purge_history
     phase |-> 1,             \* the transaction of the call that is under way
     stage |-> "gate",
     plan |-> <<>>,           \* the writes left to do
     dirty |-> FALSE,         \* the first of them is visible and not synced
     ok |-> TRUE,
     sent |-> {},             \* the ids of its events
     found |-> [m \in Memories |-> None],     \* a search's candidates
     vecs |-> NoEmbeddings,                   \* the texts they are ranked by
     recs |-> NoEmbeddings]                   \* and those to be cached

Idle == None

InTx(c) == call[c] # Idle /\ call[c].stage \in {"read", "work", "drop"}

RecordsOf(l) == {l[i] : i \in 1..Len(l)}

(* The logs a loss of power may leave.                                     *)
DiskLogs == {SubSeq(log, 1, k) : k \in synced..Len(log)}
            \cup UNION {{SubSeq(o.log, 1, k) : k \in o.synced..Len(o.log)} : o \in olds}

Init ==
    /\ project \in Projects
    /\ gate = None /\ token = None /\ goIn = FALSE
    /\ log = <<>> /\ tail = "none" /\ synced = 0 /\ olds = {}
    /\ file = [f \in Files |-> None]
    /\ disk = [f \in Files |-> {None}]
    /\ up = {}
    /\ call = [c \in Clients |-> Idle]
    /\ drawn = 0 /\ faults = 0 /\ outages = 0
    /\ acked = {}
    /\ gone = [m \in Memories |-> "no"]
    /\ clean = FALSE

--------------------------------------------------------------------------------
(* The start of each call.  Before it has the gate a call has read and     *)
(* written nothing, so it starts when it takes it; one that times out      *)
(* waiting changes nothing and is not a step.                              *)

Start(c, new) ==
    /\ call[c] = Idle /\ gate = None
    /\ gate' = c
    /\ call' = [call EXCEPT ![c] = [new EXCEPT !.stage = "token"]]
    /\ UNCHANGED <<token, goIn, logVars, dirVars, up, drawn, faults, outages, ghosts>>

StartOpen(c) == c \notin up /\ Start(c, NewCall("open", NoEvent, {}))

(* Every reader of state(): list_tasks, ready_tasks, list_memories, ...    *)
StartState(c) == c \in up /\ Start(c, NewCall("state", NoEvent, {}))

Ask(kind, id) == [NoEvent EXCEPT !.kind = kind, !.id = id]
NewTask(deps) == [status |-> "open", assignee |-> None, depends_on |-> deps,
                  blocks |-> {}, comments |-> 0]

StartMutate(c, ev) == c \in up /\ Start(c, NewCall("mutate", ev, {}))

create_task(c) == \E t \in project.tasks, deps \in SUBSET project.tasks :
    StartMutate(c, [Ask("task.created", t) EXCEPT !.task = NewTask(deps)])
update_task(c) == \E t \in project.tasks, st \in NewStatuses :
    StartMutate(c, [Ask("task.updated", t) EXCEPT !.task = [NewTask({}) EXCEPT !.status = st]])
claim_task(c) == \E t \in project.tasks :
    StartMutate(c, [Ask("task.claimed", t) EXCEPT !.actor = c])
close_task(c) == \E t \in project.tasks, reason \in Reasons :
    StartMutate(c, [Ask("task.closed", t) EXCEPT
                      !.task = [NewTask({}) EXCEPT !.status = "closed", !.comments = reason]])
add_comment(c) == \E t \in project.tasks : StartMutate(c, Ask("task.comment_added", t))
dependency(c) == \E t, d \in project.tasks, kind \in {"task.dependency_added", "task.dependency_removed"} :
    StartMutate(c, [Ask(kind, t) EXCEPT !.dep = d])
upsert_memory(c) == \E m \in project.memories, v \in Values :
    StartMutate(c, [Ask("memory.upserted", m) EXCEPT !.val = v])
delete_memory(c) == \E m \in project.memories : StartMutate(c, Ask("memory.deleted", m))
save_session_summary(c) == \E s \in project.sessions : StartMutate(c, Ask("session.summary_saved", s))

purge_memories(c) == c \in up /\ \E ids \in SUBSET project.memories :
    Start(c, NewCall("purge", NoEvent, ids))
retain_memories(c) == c \in up /\ \E purge \in BOOLEAN :
    Start(c, [NewCall("retain", NoEvent, {}) EXCEPT !.purge = purge])
search_with_embeddings(c) == c \in up \cap project.searchers /\ Start(c, NewCall("search", NoEvent, {}))

(* The memory_update tool: a read, then an upsert of the merged memory.    *)
memory_update(c) == c \in up \cap project.searchers /\ \E m \in project.memories, v \in Values \cup {None} :
    Start(c, NewCall("memory_update", [Ask("memory.upserted", m) EXCEPT !.val = v], {}))

StartCall(c) ==
    \/ StartOpen(c) \/ StartState(c)
    \/ create_task(c) \/ update_task(c) \/ claim_task(c) \/ close_task(c)
    \/ add_comment(c) \/ dependency(c) \/ upsert_memory(c) \/ delete_memory(c)
    \/ save_session_summary(c) \/ purge_memories(c) \/ retain_memories(c)
    \/ search_with_embeddings(c) \/ memory_update(c)

--------------------------------------------------------------------------------
(* Lock (storage.rs).                                                      *)

Fault == faults < project.faults /\ faults' = faults + 1 /\ UNCHANGED outages
NoFault == UNCHANGED <<faults, outages>>

AtStage(c, stage) == call[c] # Idle /\ call[c].stage = stage
GoTo(c, stage) == call' = [call EXCEPT ![c].stage = stage]

(* What follows a transaction, or the attempt at one, of call x: the next  *)
(* transaction of the same call, or nothing.                               *)
After(x, ok) ==
    CASE x.op = "search" /\ x.phase = 1 /\ ok -> [x EXCEPT !.phase = 2, !.stage = "gate"]
      [] x.op = "search" /\ x.phase = 2 -> [x EXCEPT !.stage = "embed", !.ok = TRUE]
      [] x.op = "search" /\ x.phase = 3 /\ ok ->
            [x EXCEPT !.phase = 4, !.stage = "gate", !.recs = NoEmbeddings]
      [] x.op = "memory_update" /\ ok -> NewCall("mutate", x.ev, {})
      [] OTHER -> Idle

(* flock, polled until the timeout, for the later transactions of a call.  *)
TakeGate(c) ==
    /\ AtStage(c, "gate") /\ gate = None
    /\ gate' = c
    /\ GoTo(c, "token")
    /\ UNCHANGED <<token, goIn, logVars, dirVars, up, drawn, faults, outages, ghosts>>

CreateToken(c) ==
    /\ AtStage(c, "token") /\ token = None
    /\ token' = [owner |-> c, pid |-> FALSE]
    /\ GoTo(c, "stamp")
    /\ UNCHANGED <<gate, goIn, logVars, dirVars, up, drawn, faults, outages, ghosts>>

StampToken(c) ==
    /\ AtStage(c, "stamp")
    /\ token' = [token EXCEPT !.pid = TRUE]
    /\ GoTo(c, "read")
    /\ UNCHANGED <<gate, goIn, logVars, dirVars, up, drawn, faults, outages, ghosts>>

(* The write of the token file fails: without its token line the guard's   *)
(* Drop leaves the file where it is.                                       *)
StampFails(c) ==
    /\ AtStage(c, "stamp")
    /\ Fault
    /\ \E pid \in BOOLEAN : token' = [token EXCEPT !.pid = pid]
    /\ gate' = None
    /\ call' = [call EXCEPT ![c] = After(@, FALSE)]
    /\ UNCHANGED <<goIn, logVars, dirVars, up, drawn, ghosts>>

(* dead_lock_owner: the file names a process that does not exist.          *)
dead_lock_owner == token.pid /\ token.owner = Dead

ReclaimToken(c) ==
    /\ AtStage(c, "token") /\ token # None
    /\ dead_lock_owner
    /\ token' = None
    /\ UNCHANGED <<gate, goIn, logVars, dirVars, up, call, drawn, faults, outages, ghosts>>

LockTimeout(c) ==
    /\ call[c] # Idle
    /\ \/ call[c].stage = "gate" /\ gate # None /\ gate' = gate
       \/ call[c].stage = "token" /\ token # None /\ ~dead_lock_owner /\ gate' = None
    /\ call' = [call EXCEPT ![c] = After(@, FALSE)]
    /\ UNCHANGED <<token, goIn, logVars, dirVars, up, drawn, faults, outages, ghosts>>

(* A Go client, as far as the lock goes: it creates the token file, works, *)
(* and removes it, or dies.                                                *)
GoTake ==
    /\ project.mixed /\ token = None /\ ~goIn
    /\ token' = [owner |-> Go, pid |-> TRUE]
    /\ goIn' = TRUE
    /\ UNCHANGED <<gate, logVars, dirVars, up, call, drawn, faults, outages, ghosts>>
GoDrop ==
    /\ goIn
    /\ goIn' = FALSE
    /\ token' = IF token # None /\ token.owner = Go THEN None ELSE token
    /\ UNCHANGED <<gate, logVars, dirVars, up, call, drawn, faults, outages, ghosts>>
GoDies ==
    /\ goIn /\ Fault
    /\ goIn' = FALSE
    /\ \E pid \in BOOLEAN :
         token' = IF token # None /\ token.owner = Go THEN [owner |-> Dead, pid |-> pid] ELSE token
    /\ UNCHANGED <<gate, logVars, dirVars, up, call, drawn, ghosts>>

--------------------------------------------------------------------------------
(* The first half of a transaction: read the log, decide what to write.    *)

Reading(c, op) == AtStage(c, "read") /\ call[c].op = op

(* FsTransaction::events: a torn record is cut off, a missing newline is   *)
(* added; either way the file is synced.                                   *)
events ==
    /\ tail' = "none"
    /\ synced' = IF tail = "none" THEN synced ELSE Len(log)

Decided(c, plan, x) ==
    call' = [call EXCEPT ![c] = [x EXCEPT !.plan = plan,
                                          !.stage = IF plan = <<>> THEN "drop" ELSE "work"]]

(* Validation or a hook refuses, or (at the bound) no id is left to draw.  *)
Refuse(c) == call' = [call EXCEPT ![c].ok = FALSE, ![c].stage = "drop"] /\ drawn' = drawn

ReadUnchanged == UNCHANGED <<lockVars, log, olds, dirVars, up, faults, outages, ghosts>>

(* The checks of each operation's closure.                                 *)
Accepts(s, ev) ==
    CASE ev.kind = "task.created" -> s.tasks[ev.id] = None     \* a new uuid
      [] ev.kind = "task.dependency_added" ->
            s.tasks[ev.id] # None /\ s.tasks[ev.dep] # None /\ ev.id # ev.dep
      [] ev.kind \in TaskKinds \ {"task.created", "task.dependency_added"} ->
            s.tasks[ev.id] # None
      [] ev.kind = "memory.deleted" -> s.memories[ev.id] # None
      [] OTHER -> TRUE

(* ... and the payload it makes: update_task and close_task write the      *)
(* whole task as they found it, changed.                                   *)
Payload(s, ev) ==
    IF ev.kind \in {"task.updated", "task.closed"}
    THEN [ev EXCEPT !.task = [s.tasks[ev.id] EXCEPT !.status = ev.task.status,
                                                    !.comments = @ + ev.task.comments]]
    ELSE ev

(* Fault: the indexes get the reverse links as they were read.             *)
mutate_plan_stale_blocks(s, ev) == <<Append1(ev)>> \o snapshot(apply(s, ev))

(* mutate: the embedding goes first, then the event, then the indexes.     *)
mutate_plan(s, ev) ==
    (IF ev.kind = "memory.deleted" THEN <<delete_embeddings({ev.id})>> ELSE <<>>)
    \o <<Append1(ev)>>
    \o snapshot(recompute_blocks(apply(s, ev)))

mutate(c) ==
    /\ Reading(c, "mutate")
    /\ events
    /\ LET x == call[c]
           s == replay(log)
           ev == [Payload(s, x.ev) EXCEPT !.seq = s.last_seq + 1, !.eid = drawn + 1]
       IN \/ /\ s.ok /\ Accepts(s, x.ev) /\ drawn < project.events
             /\ drawn' = drawn + 1
             /\ Decided(c, mutate_plan(s, ev), [x EXCEPT !.sent = {ev.eid}])
          \/ Refuse(c)
    /\ ReadUnchanged

(* open: initialise an empty log, drop orphan embeddings, write indexes.   *)
Initialized(eid) == [NoEvent EXCEPT !.seq = 1, !.eid = eid]

Orphans(s) == {m \in Memories : Cache[m] # None /\ s.memories[m] = None}

open_plan(s, first) ==
    first
    \o (IF Orphans(s) # {} THEN <<delete_embeddings(Orphans(s))>> ELSE <<>>)
    \o snapshot(s)

open(c) ==
    /\ Reading(c, "open")
    /\ events
    /\ LET x == call[c]
           s == replay(log)
           ev == Initialized(drawn + 1)
       IN \/ /\ s.ok /\ s.last_seq = 0 /\ drawn < project.events
             /\ drawn' = drawn + 1
             /\ Decided(c, open_plan(apply(s, ev), <<Append1(ev)>>), [x EXCEPT !.sent = {ev.eid}])
          \/ /\ s.ok /\ s.last_seq # 0
             /\ drawn' = drawn
             /\ Decided(c, open_plan(s, <<>>), x)
          \/ Refuse(c)
    /\ ReadUnchanged

(* purge_locked: every event of these memories leaves the log and the rest *)
(* is renumbered.                                                          *)
About(e, ids) == e.kind \in {"memory.upserted", "memory.deleted"} /\ e.id \in ids

(* Fault: the tombstones of what is purged are kept.                       *)
KeptTombstones(ids) == SelectSeq(log, LAMBDA e : ~(e.kind = "memory.upserted" /\ e.id \in ids))

Kept(ids) == SelectSeq(log, LAMBDA e : ~About(e, ids))

Renumber(l) == [i \in 1..Len(l) |-> [l[i] EXCEPT !.seq = i]]

purge_plan(ids) ==
    LET l == Renumber(Kept(ids))
    IN <<delete_embeddings(ids), ReplaceAll(l)>> \o snapshot(replay(l))

purge_locked(c) ==
    /\ Reading(c, "purge")
    /\ events
    /\ \/ replay(log).ok /\ drawn' = drawn /\ Decided(c, purge_plan(call[c].ids), call[c])
       \/ Refuse(c)
    /\ ReadUnchanged

(* retain_memories: whatever the cutoff and the count are, what goes is    *)
(* the older part of the candidates, newest first.                         *)
Expired(s, keep_pinned, cut) ==
    {m \in Memories : /\ s.memories[m] # None
                      /\ keep_pinned => s.memories[m].val \notin Pinned
                      /\ s.memories[m].at <= cut}
NewestFirst(s, ids) ==
    CHOOSE l \in [1..Cardinality(ids) -> ids] :
        \A i, j \in 1..Cardinality(ids) : i < j => s.memories[l[i]].at > s.memories[l[j]].at
Tombstones(s, ids) ==
    [i \in 1..Cardinality(ids) |->
        [Ask("memory.deleted", NewestFirst(s, ids)[i]) EXCEPT
            !.seq = s.last_seq + i, !.eid = drawn + i]]
retain_plan(s, ids) ==
    LET gs == Tombstones(s, ids)
        left == [s EXCEPT !.memories = [m \in Memories |-> IF m \in ids THEN None ELSE @[m]]]
    IN <<delete_embeddings(ids)>> \o [i \in 1..Len(gs) |-> Append1(gs[i])] \o snapshot(left)

retain(c) ==
    /\ Reading(c, "retain")
    /\ events
    /\ LET s == replay(log) IN
       \/ \E keep_pinned \in BOOLEAN, cut \in 0..drawn :
             LET ids == Expired(s, keep_pinned, cut)
                 x == [call[c] EXCEPT !.ids = ids] IN
             /\ s.ok
             /\ \/ x.purge /\ drawn' = drawn /\ Decided(c, purge_plan(ids), x)
                \/ /\ ~x.purge /\ drawn + Cardinality(ids) <= project.events
                   /\ drawn' = drawn + Cardinality(ids)
                   /\ Decided(c, retain_plan(s, ids), [x EXCEPT !.sent = (drawn + 1)..drawn'])
       \/ Refuse(c)
    /\ ReadUnchanged

(* state(): nothing is written but the repair of the log.                  *)
state(c) ==
    /\ Reading(c, "state")
    /\ events
    /\ Decided(c, <<>>, [call[c] EXCEPT !.ok = replay(log).ok])
    /\ UNCHANGED drawn
    /\ ReadUnchanged

(* memory_update reads the memory and merges what the caller left out.     *)
ReadForUpdate(c) ==
    /\ Reading(c, "memory_update")
    /\ events
    /\ LET x == call[c]
           s == replay(log)
           old == s.memories[x.ev.id] IN
       IF s.ok /\ old # None
       THEN Decided(c, <<>>, [x EXCEPT !.ev.val = IF @ = None THEN old.val ELSE @])
       ELSE Decided(c, <<>>, [x EXCEPT !.ok = FALSE])
    /\ UNCHANGED drawn
    /\ ReadUnchanged

(* search_with_embeddings: candidates, then the cache, then (outside the   *)
(* lock) the embedder, then what may be cached, then a last look.          *)
SearchRead(c, phase) == Reading(c, "search") /\ call[c].phase = phase

SearchCandidates(c) ==
    /\ SearchRead(c, 1)
    /\ events
    /\ LET s == replay(log)
       IN Decided(c, <<>>, [call[c] EXCEPT !.found = s.memories, !.ok = s.ok])
    /\ UNCHANGED drawn
    /\ ReadUnchanged

(* Fault: any vector kept under the memory's id will do.                   *)
fresh_always(rec, mem) == rec # None /\ mem # None

(* EmbeddingRecord::fresh: the vector is of this very text.                *)
fresh(rec, mem) == rec # None /\ mem # None /\ rec = mem.val

SearchCache(c) ==
    /\ SearchRead(c, 2)
    /\ Decided(c, <<>>, [call[c] EXCEPT !.vecs = [m \in Memories |->
                            IF fresh(Cache[m], call[c].found[m]) THEN Cache[m] ELSE None]])
    /\ UNCHANGED <<tail, synced, drawn>>
    /\ ReadUnchanged

(* The embedder answers for what the cache lacked, fails, or is refused by *)
(* the before_embed hook; a vector that is not valid is left out.          *)
Embed(c) ==
    /\ AtStage(c, "embed")
    /\ LET x == call[c]
           missing == {m \in Memories : x.found[m] # None /\ x.vecs[m] = None}
           Texts(S) == [m \in Memories |-> IF m \in S THEN x.found[m].val ELSE x.vecs[m]]
       IN \/ call' = [call EXCEPT ![c].phase = 4, ![c].stage = "gate"]
          \/ /\ missing # {}
             /\ \/ call' = [call EXCEPT ![c] = Idle]
                \/ \E valid \in SUBSET missing :
                     call' = [call EXCEPT ![c] = [x EXCEPT
                        !.phase = 3, !.stage = "gate", !.vecs = Texts(valid),
                        !.recs = [m \in Memories |-> IF m \in valid THEN x.found[m].val ELSE None]]]
    /\ UNCHANGED <<lockVars, logVars, dirVars, up, drawn, faults, outages, ghosts>>

(* A memory deleted or rewritten while the embedder ran is not cached.     *)
StillFresh(recs, s) ==
    [m \in Memories |-> IF fresh(recs[m], s.memories[m]) THEN recs[m] ELSE None]

SearchPut(c) ==
    /\ SearchRead(c, 3)
    /\ events
    /\ LET s == replay(log) IN
       \/ s.ok /\ Decided(c, <<put_embeddings(StillFresh(call[c].recs, s))>>, call[c])
       \/ ~s.ok /\ Decided(c, <<>>, [call[c] EXCEPT !.ok = FALSE])
    /\ UNCHANGED drawn
    /\ ReadUnchanged

(* What was deleted or changed during the search is not returned.          *)
StillThere(found, s) ==
    [m \in Memories |-> IF found[m] = s.memories[m] THEN found[m] ELSE None]

SearchResult(c) ==
    /\ SearchRead(c, 4)
    /\ events
    /\ LET s == replay(log)
       IN Decided(c, <<>>, [call[c] EXCEPT !.found = StillThere(@, s), !.ok = s.ok])
    /\ UNCHANGED drawn
    /\ ReadUnchanged

ReadLog(c) ==
    \/ open(c) \/ mutate(c) \/ purge_locked(c) \/ retain(c) \/ state(c) \/ ReadForUpdate(c)
    \/ SearchCandidates(c) \/ SearchCache(c) \/ SearchPut(c) \/ SearchResult(c)

--------------------------------------------------------------------------------
(* The second half: the plan, one write at a time.                         *)

Step(c) == Head(call[c].plan)
NextStep(c, kind, dirty) ==
    AtStage(c, "work") /\ Step(c).kind = kind /\ call[c].dirty = dirty

Written(c) == call' = [call EXCEPT ![c].dirty = TRUE]
Synced(c) ==
    call' = [call EXCEPT ![c].dirty = FALSE, ![c].plan = Tail(@),
                         ![c].stage = IF Len(call[c].plan) = 1 THEN "drop" ELSE "work"]
Failed(c) ==
    call' = [call EXCEPT ![c].dirty = FALSE, ![c].plan = <<>>, ![c].ok = FALSE,
                         ![c].stage = "drop"]

(* A record is in the log: what it says of its memory is news again.       *)
Logged(ev) ==
    /\ log' = Append(log, ev)
    /\ clean' = FALSE
    /\ gone' = IF ev.kind = "memory.upserted" THEN [gone EXCEPT ![ev.id] = "no"] ELSE gone

WorkUnchanged == UNCHANGED <<lockVars, up, drawn>>

(* append: write_all, then the file and the directory are synced.          *)
WriteRecord(c) ==
    /\ NextStep(c, "append", FALSE)
    /\ Logged(Step(c).ev)
    /\ Written(c)
    /\ UNCHANGED <<tail, synced, olds, dirVars, acked>> /\ WorkUnchanged /\ NoFault

(* write_all stops half way, or just before the newline.                   *)
WritePart(c) ==
    /\ NextStep(c, "append", FALSE)
    /\ \/ tail' = "torn" /\ UNCHANGED <<log, clean, gone>>
       \/ tail' = "bare" /\ Logged(Step(c).ev)
    /\ Fault
    /\ Failed(c)
    /\ UNCHANGED <<synced, olds, dirVars, acked>> /\ WorkUnchanged

(* Fault: sync_all is left out.                                            *)
SyncedRecordsOld == synced

SyncedRecords == Len(log)

SyncLog(c) ==
    /\ NextStep(c, "append", TRUE)
    /\ synced' = SyncedRecords /\ olds' = {}
    /\ Synced(c)
    /\ UNCHANGED <<log, tail, dirVars, ghosts>> /\ WorkUnchanged /\ NoFault

(* replace and the index files go through atomic_write: a synced temporary *)
(* file is renamed, then the directory is synced.                          *)

TempFileSynced(l) == Len(l)

RenameLog(c) ==
    /\ NextStep(c, "replace", FALSE)
    /\ olds' = olds \cup {[log |-> log, synced |-> synced]}
    /\ log' = Step(c).new /\ synced' = TempFileSynced(Step(c).new) /\ tail' = "none"
    /\ acked' = acked \ {e.eid : e \in {f \in RecordsOf(log) : About(f, call[c].ids)}}
    /\ clean' = FALSE
    /\ Written(c)
    /\ UNCHANGED <<dirVars, gone>> /\ WorkUnchanged /\ NoFault

SyncReplaced(c) ==
    /\ NextStep(c, "replace", TRUE)
    /\ olds' = {}
    /\ Synced(c)
    /\ UNCHANGED <<log, tail, synced, dirVars, ghosts>> /\ WorkUnchanged /\ NoFault

(* Nobody sees an index file between the rename and the sync but a loss of *)
(* power, which then leaves the old file or the new one, as before and     *)
(* after: the write is one step, unless it fails in the middle.            *)
WriteIndex(c) ==
    /\ NextStep(c, "file", FALSE)
    /\ file' = [file EXCEPT ![Step(c).file] = Step(c).value]
    /\ disk' = [f \in Files |-> {file'[f]}]
    /\ Synced(c)
    /\ UNCHANGED <<logVars, ghosts>> /\ WorkUnchanged /\ NoFault

IndexNotSynced(c) ==
    /\ NextStep(c, "file", FALSE)
    /\ Fault
    /\ file' = [file EXCEPT ![Step(c).file] = Step(c).value]
    /\ disk' = [disk EXCEPT ![Step(c).file] = @ \cup {Step(c).value}]
    /\ Failed(c)
    /\ UNCHANGED <<logVars, ghosts>> /\ WorkUnchanged

(* Any read or write may fail and ends the transaction with an error.      *)
FailTransaction(c) ==
    /\ call[c] # Idle /\ call[c].stage \in {"read", "work"}
    /\ Fault
    /\ Failed(c)
    /\ UNCHANGED <<logVars, dirVars, ghosts>> /\ WorkUnchanged

(* Drop for Lock, and the return of the call if this was its last          *)
(* transaction: the token file is removed, then the gate is released.      *)
Removed(x) == IF x.op = "mutate" THEN IF x.ev.kind = "memory.deleted" THEN {x.ev.id} ELSE {}
              ELSE IF x.op \in {"purge", "retain"} THEN x.ids ELSE {}
DropLock(c) ==
    /\ AtStage(c, "drop")
    /\ token' = None /\ gate' = None
    /\ LET x == call[c]
           writes == x.ok /\ x.op \in {"open", "mutate", "purge", "retain"} IN
       /\ call' = [call EXCEPT ![c] = After(x, x.ok)]
       /\ up' = IF writes /\ x.op = "open" THEN up \cup {c} ELSE up
       /\ acked' = IF writes THEN acked \cup x.sent ELSE acked
       /\ gone' = [m \in Memories |->
                     IF ~writes \/ m \notin Removed(x) THEN gone[m]
                     ELSE IF x.op = "purge" \/ x.purge THEN "purged" ELSE "deleted"]
       /\ clean' = IF writes THEN TRUE ELSE clean
    /\ UNCHANGED <<goIn, logVars, dirVars, drawn, faults, outages>>

Work(c) ==
    \/ WriteRecord(c) \/ WritePart(c) \/ SyncLog(c) \/ RenameLog(c) \/ SyncReplaced(c)
    \/ WriteIndex(c) \/ IndexNotSynced(c) \/ FailTransaction(c) \/ DropLock(c)

--------------------------------------------------------------------------------
(* A process dies: its flock is released, its token file stays.            *)
Crash(c) ==
    /\ Fault /\ (c \in up \/ call[c] # Idle)
    /\ up' = up \ {c}
    /\ call' = [call EXCEPT ![c] = Idle]
    /\ gate' = IF gate = c THEN None ELSE gate
    /\ token' = IF token # None /\ token.owner = c THEN [token EXCEPT !.owner = Dead] ELSE token
    /\ UNCHANGED <<goIn, logVars, dirVars, drawn, ghosts>>

(* The machine loses power: what was not synced may be lost.               *)
EndsAfter(l, k, was_synced, was_tail) ==
    {t \in {"none", "torn", "bare"} :
        /\ t = "torn" => k < Len(l) \/ was_tail = "torn"
        /\ t = "bare" => k > was_synced \/ (was_tail = "bare" /\ k = Len(l))}
PowerLoss ==
    /\ outages < project.outages /\ outages' = outages + 1
    /\ up' = {} /\ call' = [c \in Clients |-> Idle] /\ gate' = None /\ goIn' = FALSE
    /\ \/ token' = None
       \/ token # None /\ token' = [token EXCEPT !.owner = Dead]
    /\ \E o \in olds \cup {[log |-> log, synced |-> synced]} :
       \E k \in o.synced..Len(o.log) :
       \E t \in EndsAfter(o.log, k, o.synced, tail) :
          log' = SubSeq(o.log, 1, k) /\ tail' = t /\ synced' = k
    /\ olds' = {}
    /\ \E p \in disk["project"], t \in disk["tasks"], m \in disk["memories"],
          s \in disk["sessions"], e \in disk["embeddings"] :
         file' = [project |-> p, tasks |-> t, memories |-> m, sessions |-> s, embeddings |-> e]
    /\ disk' = [f \in Files |-> {file'[f]}]
    /\ clean' = FALSE
    /\ UNCHANGED <<drawn, faults, acked, gone>>

Act ==
    \/ \E c \in project.clients :
         \/ StartCall(c) \/ TakeGate(c) \/ CreateToken(c) \/ StampToken(c) \/ StampFails(c)
         \/ ReclaimToken(c) \/ LockTimeout(c) \/ ReadLog(c) \/ Embed(c) \/ Work(c) \/ Crash(c)
    \/ GoTake \/ GoDrop \/ GoDies \/ PowerLoss

Next == Act /\ UNCHANGED project

Spec == Init /\ [][Next]_vars

--------------------------------------------------------------------------------
(* Correctness.                                                            *)

(* One transaction at a time, and none while a Go client that is alive     *)
(* holds the token file: a dead owner's file is taken over, never a live   *)
(* one's.                                                                  *)
Exclusive ==
    /\ \A c, d \in Clients : InTx(c) /\ InTx(d) => c = d
    /\ goIn => \A c \in Clients : ~InTx(c)

(* Transactions exclude each other, and whatever a process died in,        *)
(* whatever a loss of power takes away, the log that is left can be        *)
(* opened: it replays, was initialised once, and its records are numbered  *)
(* from 1 without a gap; and every event whose call returned Ok is in it.  *)
(* (Lock::acquire, dead_lock_owner, mutate, append, purge_locked, events.) *)
Sound(l) ==
    /\ replay(l).ok
    /\ \A i \in 1..Len(l) : l[i].seq = i /\ (l[i].kind = "project.initialized" <=> i = 1)
AckedSurvives ==
    /\ Exclusive
    /\ \A l \in DiskLogs \cup {log} : Sound(l) /\ acked \subseteq {e.eid : e \in RecordsOf(l)}

(* While some process has the project open, no embedding is cached for a   *)
(* memory that does not exist, although a loss of power may take away the  *)
(* memory and leave the embedding.                                         *)
NoOrphan ==
    up # {} => LET s == replay(log) IN
        \A m \in Memories : Cache[m] # None => s.memories[m] # None

(* A memory whose removal returned Ok is gone for good unless somebody     *)
(* writes it anew: from the log's replay, from memories.json and from the  *)
(* embeddings, before and after a loss of power; no event of a purged one  *)
(* is left; and no embedding outlives its memory.  (delete_memory,         *)
(* purge_memories, retain_memories against searches that were under way;   *)
(* open, put_embeddings.)                                                  *)
RemovedStaysGone ==
    /\ NoOrphan
    /\ \A m \in Memories : gone[m] # "no" =>
        /\ \A l \in DiskLogs \cup {log} :
             /\ replay(l).memories[m] = None
             /\ gone[m] = "purged" => \A e \in RecordsOf(l) : ~About(e, {m})
        /\ \A f \in {"memories", "embeddings"} :
             \A v \in disk[f] \cup {file[f]} : v # None => v[m] = None

(* What a search returns is current when it last looks, and was ranked by  *)
(* its own text or by none.  (search_with_embeddings.)                     *)
SearchHonest ==
    \A c \in Clients :
        AtStage(c, "drop") /\ call[c].op = "search" /\ call[c].phase = 4 /\ call[c].ok =>
            \A m \in Memories : call[c].found[m] # None =>
                /\ call[c].found[m] = replay(log).memories[m]
                /\ call[c].vecs[m] \in {None, call[c].found[m].val}

(* The log always replays, and after a call that writes has returned Ok    *)
(* the indexes say what it says, on disk too, until it changes: what an    *)
(* earlier call left undone has been made good, and what mutate computed   *)
(* in memory is what a replay computes.  (snapshot, apply, open.)          *)
IndexesFollowLog ==
    LET s == replay(log) IN
    /\ s.ok
    /\ clean => \A f \in {"tasks", "memories", "sessions"} :
                  file[f] = View(s, f) /\ disk[f] = {file[f]}
================================================================================

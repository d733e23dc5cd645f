----------------------------------- MODULE Shell -----------------------------------
(***************************************************************************)
(* The shell tools (adk-tools/src/shell.rs, shell_session.rs) over the     *)
(* process supervisor of the sandbox (adk-sandbox/src/process.rs).  A tool *)
(* call registers a job with the Manager; a supervisor task spawns its     *)
(* process group, waits and cleans up; a monitor task collects its output. *)
(* Callers are cancelled or go away, the host closes or drops the bundle,  *)
(* processes fork and ignore TERM, and the kernel uses the number of a     *)
(* group again.                                                            *)
(*                                                                         *)
(* What is kept of the output is in ShellOutput.  A wait for the child     *)
(* that itself fails is left out.                                          *)
(***************************************************************************)
EXTENDS Integers

CONSTANTS
    Jobs,   \* jobs, in the order of their ids
    Plans,  \* which tools are called: Bash ("sync"), BashStart ("bash"), Terminal ("term")
    Pids    \* numbers of processes

ASSUME ShellAssumption ==
    /\ Jobs \subseteq Nat /\ Pids \subseteq Nat
    /\ \A plan \in Plans : DOMAIN plan \subseteq Jobs /\ \A j \in DOMAIN plan : plan[j] \in {"sync", "bash", "term"}

VARIABLES
    asked,    \* the calls of a behaviour
    job,      \* a job with its call, its monitor, its supervisor and its processes
    closed,   \* Manager::cancel, the owner's part of every Combined
    closer,   \* where ShellBundle::close is
    awaited,  \* the jobs close waits for
    runtime   \* whether the tokio runtime is up

shellVars == <<asked, job, closed, closer, awaited, runtime>>

NewJob ==
    [kind    |-> "none",
     call    |-> "none",   \* starting, waiting, holding (its id), killing, sending, over
     cancel  |-> FALSE,    \* Job::cancel, or the caller's part of Combined
     ready   |-> "no",     \* readiness: no, ok, failed
     mon     |-> "none",   \* the monitor: starting, collect, wait, done
     listed  |-> FALSE,    \* in Jobs::jobs
     sup     |-> "none",   \* the supervisor: queued, watching, term, kill, drain, done
     pid     |-> 0,
     leader  |-> "none",   \* alive, zombie, reaped
     kid     |-> FALSE,    \* a descendant in the group
     hit     |-> FALSE]    \* signalled by the supervisor of another job

ShellInit ==
    /\ asked \in Plans
    /\ job = [j \in Jobs |-> NewJob]
    /\ closed = FALSE
    /\ closer = "open"
    /\ awaited = {}
    /\ runtime = TRUE

Finished(j) == job[j].mon = "done"

Cancelled(j) == closed \/ job[j].cancel

GroupAlive(j) == job[j].leader = "alive" \/ job[j].kid

\* A number is taken while a process or a process group has it. Of the others the
\* kernel uses the least, which is one that was used before if there is one; when there
\* is none it spawns nothing.
TakenPids == {job[j].pid : j \in {k \in Jobs : job[k].leader \in {"alive", "zombie"} \/ job[k].kid}}

NextPid == {p \in Pids \ TakenPids : \A q \in Pids \ TakenPids : p <= q}

otherVars == <<asked, closed, closer, awaited, runtime>>

(***************************************************************************)
(* Calls.  A call that is refused (the bundle is closed, the caller is     *)
(* cancelled, the policy or the command is denied, no such job) changes    *)
(* nothing.                                                                *)
(***************************************************************************)
\* Manager::start up to its first await, under the lock. Ids are counted. Jobs that
\* ended half an hour ago are forgotten: some of those that ended.
Start(j) ==
    /\ j \in DOMAIN asked
    /\ runtime /\ job[j].kind = "none" /\ ~closed
    /\ \A k \in Jobs : k < j => job[k].kind # "none"
    /\ \E old \in SUBSET {k \in Jobs : Finished(k) /\ job[k].kind # "term"} :
          job' = [k \in Jobs |->
                     IF k = j THEN [NewJob EXCEPT !.kind = asked[j], !.call = "starting", !.mon = "starting",
                                                  !.listed = TRUE, !.sup = "queued"]
                     ELSE [job[k] EXCEPT !.listed = @ /\ k \notin old]]
    /\ UNCHANGED otherVars

\* The rest of Manager::start: the monitor said whether the child was spawned.
Returned(j) ==
    /\ runtime /\ job[j].call = "starting" /\ job[j].mon # "starting"
    /\ job' = [job EXCEPT ![j] =
                  IF @.ready = "failed" THEN [@ EXCEPT !.call = "over", !.cancel = ~Finished(j)]
                  ELSE [@ EXCEPT !.call = IF job[j].kind = "sync" THEN "waiting" ELSE "holding"]]
    /\ UNCHANGED otherVars

\* Bash returns when its job is done; so do BashKill and Terminal's kill.
Answered(j) ==
    /\ runtime /\ Finished(j)
    /\ \/ job[j].call = "waiting" /\ job' = [job EXCEPT ![j].call = "over"]
       \/ job[j].call = "killing" /\ job' = [job EXCEPT ![j].call = "holding"]
    /\ UNCHANGED otherVars

\* Job::kill, after Manager::get.
Kill(j) ==
    /\ runtime /\ job[j].call = "holding" /\ job[j].listed /\ ~Finished(j)
    /\ job' = [job EXCEPT ![j].call = "killing", ![j].cancel = TRUE]
    /\ UNCHANGED otherVars

\* Job::send takes the lock of the input and writes. The lock is fair: behind the
\* monitor a send finds no input.
Send(j) ==
    /\ runtime /\ job[j].call = "holding" /\ job[j].listed /\ job[j].kind = "term"
    /\ job[j].mon \notin {"wait", "done"}
    /\ job' = [job EXCEPT ![j].call = "sending"]
    /\ UNCHANGED otherVars

\* write_input runs until the select of supervise is over.
Writer(j) == job[j].sup = "watching"

\* The write is acknowledged, which is up to the process, or the writer is gone.
Sent(j) ==
    /\ runtime /\ job[j].call = "sending"
    /\ job' = [job EXCEPT ![j].call = "holding"]
    /\ UNCHANGED otherVars

\* The caller of send is cancelled or out of time: the write is dropped and the
\* session killed.
SendInterrupted(j) ==
    /\ runtime /\ job[j].call = "sending"
    /\ job' = [job EXCEPT ![j].call = "killing", ![j].cancel = TRUE]
    /\ UNCHANGED otherVars

\* Fault: only Bash has a guard.
DroppedStarting(j) ==
    /\ runtime
    /\ job' = [job EXCEPT ![j].call = "over", ![j].cancel = @ \/ job[j].call = "waiting"]
    /\ job[j].call \in {"starting", "waiting"}
    /\ UNCHANGED otherVars

\* The future of a call is dropped: CancelOnDrop cancels a job that is starting or
\* that Bash waits for.
Dropped(j) ==
    /\ runtime
    /\ \/ /\ job[j].call \in {"starting", "waiting"}
          /\ job' = [job EXCEPT ![j].call = "over", ![j].cancel = ~Finished(j)]
       \/ /\ job[j].call \in {"killing", "sending"}
          /\ job' = [job EXCEPT ![j].call = "holding"]
    /\ UNCHANGED otherVars

\* The cancellation of the call that started the job, part of Combined for good.
CallerCancels(j) ==
    /\ runtime /\ job[j].kind # "none" /\ ~Finished(j) /\ ~job[j].cancel
    /\ job' = [job EXCEPT ![j].cancel = TRUE]
    /\ UNCHANGED otherVars

(***************************************************************************)
(* The supervisor.                                                         *)
(***************************************************************************)
\* Group::signal reaches whatever has the number of the group. KILL ends it, TERM
\* those of it that do not ignore it.
Struck(j, jobs, dying) ==
    [k \in Jobs |->
        IF jobs[k].pid # jobs[j].pid \/ (jobs[k].leader \notin {"alive", "zombie"} /\ ~jobs[k].kid)
        THEN jobs[k]
        ELSE [jobs[k] EXCEPT !.leader = IF @ = "alive" /\ "leader" \in dying THEN "zombie" ELSE @,
                             !.kid = @ /\ "kid" \notin dying,
                             !.hit = @ \/ k # j]]

All == {"leader", "kid"}

\* A spawn that fails: readiness tells it and the output is finished.
Failed(j) == [job EXCEPT ![j].sup = "done", ![j].ready = "failed"]

\* supervise up to the spawn, which is refused when the operation is not active.
Spawn(j) ==
    /\ runtime /\ job[j].sup = "queued"
    /\ \/ job' = Failed(j)
       \/ /\ ~Cancelled(j)
          /\ \E pid \in NextPid :
                job' = [job EXCEPT ![j].sup = "watching", ![j].ready = "ok",
                                   ![j].pid = pid, ![j].leader = "alive"]
    /\ UNCHANGED otherVars

\* Fault: the exit of the leader is learned by reaping it.
WatchReaping(j, why) ==
    /\ runtime /\ job[j].sup = "watching"
    /\ CASE why = "cancelled" -> Cancelled(j)
         [] why = "timed out" -> ~Cancelled(j)
         [] OTHER -> ~Cancelled(j) /\ job[j].leader = "zombie"
    /\ \E dying \in SUBSET All :
          job' = Struck(j, [job EXCEPT ![j].sup = "term",
                               ![j].leader = IF why = "exited" THEN "reaped" ELSE @], dying)
    /\ UNCHANGED otherVars

\* The biased select, the abort of the writer, and TERM. exited_unreaped leaves the
\* leader a zombie.
Watch(j, why) ==
    /\ runtime /\ job[j].sup = "watching"
    /\ CASE why = "cancelled" -> Cancelled(j)
         [] why = "timed out" -> ~Cancelled(j)
         [] OTHER -> ~Cancelled(j) /\ job[j].leader = "zombie"
    /\ \E dying \in SUBSET All :
          job' = Struck(j, [job EXCEPT ![j].sup = "term"], dying)
    /\ UNCHANGED otherVars

\* Group::cleanup after the grace.
KillAfterGrace(j) ==
    /\ runtime /\ job[j].sup = "term"
    /\ job' = Struck(j, [job EXCEPT ![j].sup = "kill"], All)
    /\ UNCHANGED otherVars

\* child.wait(); the group is disarmed.
Reap(j) ==
    /\ runtime /\ job[j].sup = "kill" /\ job[j].leader = "zombie"
    /\ job' = [job EXCEPT ![j].sup = "drain", ![j].leader = "reaped"]
    /\ UNCHANGED otherVars

\* The readers end, or are aborted after 250 ms when a process that left the group
\* (setsid, which only the local backend lets it survive) holds their descriptors;
\* FinishOutput.
Drain(j) ==
    /\ runtime /\ job[j].sup = "drain"
    /\ job' = [job EXCEPT ![j].sup = "done"]
    /\ UNCHANGED otherVars

(***************************************************************************)
(* The monitor.                                                            *)
(***************************************************************************)
\* session.ready().await and ready.send.
MonReady(j) ==
    /\ runtime /\ job[j].mon = "starting" /\ job[j].ready # "no"
    /\ job' = [job EXCEPT ![j].mon = "collect"]
    /\ UNCHANGED otherVars

\* Job::append in the loop of Job::collect: output with a secret cancels the job. What
\* is read of it after that is refused.
Blocked(j) ==
    /\ runtime /\ job[j].mon = "collect" /\ job[j].leader # "none" /\ ~job[j].cancel
    /\ job' = [job EXCEPT ![j].cancel = TRUE]
    /\ UNCHANGED otherVars

\* The output is finished, and session.wait() has the result.
Joined(j) ==
    /\ runtime /\ job[j].mon = "collect" /\ job[j].sup = "done"
    /\ job' = [job EXCEPT ![j].mon = "wait"]
    /\ UNCHANGED otherVars

\* The lock of the input, the end of Job::collect, and the map when nobody may ask
\* for the job. What nobody reads any more is reset.
MonDone(j) ==
    /\ runtime /\ job[j].mon = "wait" /\ job[j].call # "sending"
    /\ job' = [job EXCEPT ![j].mon = "done", ![j].cancel = FALSE, ![j].pid = 0,
                          ![j].listed = @ /\ job[j].kind # "sync" /\ job[j].ready = "ok"]
    /\ UNCHANGED otherVars

(***************************************************************************)
(* The host.                                                               *)
(***************************************************************************)
\* Manager::cancel, by close or by dropping the bundle.
CloseCancel(how) ==
    /\ runtime /\ closer = "open"
    /\ closed' = TRUE
    /\ closer' = how
    /\ UNCHANGED <<asked, job, awaited, runtime>>

\* The second lock of Manager::close.
CloseWaits ==
    /\ runtime /\ closer = "closing"
    /\ awaited' = {j \in Jobs : job[j].listed}
    /\ closer' = "waiting"
    /\ UNCHANGED <<asked, job, closed, runtime>>

CloseReturns ==
    /\ runtime /\ closer = "waiting"
    /\ \A j \in awaited : Finished(j)
    /\ closer' = "returned"
    /\ awaited' = {}
    /\ UNCHANGED <<asked, job, closed, runtime>>

Armed(j) == job[j].sup \in {"watching", "term", "kill"}

\* The runtime goes down without close: every task is dropped, and Group::drop kills
\* the group of a supervisor that had not reaped it.
RuntimeStops ==
    /\ runtime
    /\ runtime' = FALSE
    /\ job' = [j \in Jobs |-> IF Armed(j) THEN Struck(j, job, All)[j] ELSE job[j]]
    /\ UNCHANGED <<asked, closed, closer, awaited>>

(***************************************************************************)
(* Processes.                                                              *)
(***************************************************************************)
Exit(j) ==
    /\ \/ job[j].leader = "alive" /\ job' = [job EXCEPT ![j].leader = "zombie"]
       \/ job[j].kid /\ job' = [job EXCEPT ![j].kid = FALSE]
    /\ UNCHANGED otherVars

Fork(j) ==
    /\ job[j].leader = "alive" /\ ~job[j].kid
    /\ job' = [job EXCEPT ![j].kid = TRUE]
    /\ UNCHANGED otherVars

Why == {"cancelled", "timed out", "exited"}

ShellNext ==
    \/ \E j \in Jobs :
          \/ Start(j) \/ Returned(j) \/ Answered(j) \/ Kill(j) \/ Send(j) \/ Sent(j) \/ SendInterrupted(j)
          \/ Dropped(j) \/ CallerCancels(j)
          \/ Spawn(j) \/ KillAfterGrace(j) \/ Reap(j) \/ Drain(j)
          \/ \E why \in Why : Watch(j, why)
          \/ MonReady(j) \/ Blocked(j) \/ Joined(j) \/ MonDone(j)
          \/ Exit(j) \/ Fork(j)
    \/ \E how \in {"closing", "dropped"} : CloseCancel(how)
    \/ CloseWaits \/ CloseReturns \/ RuntimeStops

(***************************************************************************)
(* Tasks make progress while the runtime is up, and the timeout of a       *)
(* command fires; a terminal has none.  A write is acknowledged only when  *)
(* its process reads, but fails once the writer is gone.                   *)
(***************************************************************************)
Supervisor(j) ==
    \/ Spawn(j) \/ KillAfterGrace(j) \/ Reap(j) \/ Drain(j)
    \/ Watch(j, "cancelled") \/ Watch(j, "exited")
    \/ job[j].kind # "term" /\ Watch(j, "timed out")

Monitor(j) == MonReady(j) \/ Joined(j) \/ MonDone(j)

Caller(j) == Returned(j) \/ Answered(j) \/ (~Writer(j) /\ Sent(j))

ShellSpec == ShellInit /\ [][ShellNext]_shellVars

FairSpec ==
    /\ ShellSpec
    /\ \A j \in Jobs : WF_shellVars(Supervisor(j)) /\ WF_shellVars(Monitor(j)) /\ WF_shellVars(Caller(j))
    /\ WF_shellVars(CloseWaits) /\ WF_shellVars(CloseReturns)

(***************************************************************************)
(* Properties.                                                             *)
(***************************************************************************)
\* A process of a group is watched by a supervisor, and its job can be found by
\* close; nothing of a group outlives its job, close, or a runtime that stops
\* (Group::cleanup, Group::drop, Manager::start); and a group is signalled only by its
\* own supervisor, although numbers are used again (Group::signal, exited_unreaped).
NoStrays ==
    /\ \A j \in Jobs : GroupAlive(j) =>
          /\ runtime /\ job[j].sup \in {"watching", "term", "kill"}
          /\ job[j].listed /\ ~Finished(j)
    /\ closer = "returned" =>
          \A j \in Jobs : ~GroupAlive(j) /\ job[j].sup \in {"none", "done"}
    /\ \A j \in Jobs : ~job[j].hit

\* What close waits for is cancelled, so that close returns while a terminal is being
\* written to that never reads, and a command ends by its timeout or when whoever
\* wanted it went away, was cancelled, or saw a secret (Job::collect, supervise).
Unwanted(j) ==
    /\ job[j].kind # "none"
    /\ job[j].kind # "term" \/ Cancelled(j) \/ job[j].call = "over"

CommandsEnd ==
    /\ \A j \in Jobs : Unwanted(j) ~> (Finished(j) \/ ~runtime)
    /\ (closer = "closing") ~> (closer = "returned" \/ ~runtime)
    /\ \A j \in Jobs : (job[j].call = "killing") ~> (job[j].call # "killing" \/ ~runtime)
=============================================================================

------------------------------- MODULE ToolProofs -------------------------------
(***************************************************************************)
(* The tools that change the machine (adk-tools): shell jobs, then the     *)
(* file tools of a workspace.                                              *)
(***************************************************************************)
EXTENDS Shell, Workspace, TLAPS, WellFoundedInduction, SequenceTheorems

(***************************************************************************)
(* No process of a shell job is left without a supervisor and no foreign   *)
(* group is signalled, for any jobs, calls and numbers of processes.  The  *)
(* argument is by what a supervisor's stage says about the processes of    *)
(* its job (Staged), by numbers being unique among groups that exist       *)
(* (Distinct), which makes a signal hit its own group alone, and by what   *)
(* close has to wait for (Waited).                                         *)
(***************************************************************************)


JobType ==
    [kind : {"none", "sync", "bash", "term"},
     call : {"none", "starting", "waiting", "holding", "killing", "sending", "over"},
     cancel : BOOLEAN,
     ready : {"no", "ok", "failed"},
     mon : {"none", "starting", "collect", "wait", "done"},
     listed : BOOLEAN,
     sup : {"none", "queued", "watching", "term", "kill", "drain", "done"},
     pid : Nat,
     leader : {"none", "alive", "zombie", "reaped"},
     kid : BOOLEAN,
     hit : BOOLEAN]

TypeOK ==
    /\ asked \in Plans
    /\ job \in [Jobs -> JobType]
    /\ closed \in BOOLEAN
    /\ closer \in {"open", "closing", "waiting", "returned", "dropped"}
    /\ awaited \subseteq Jobs
    /\ runtime \in BOOLEAN

\* The number of its group is that of the record's job.
Exists(r) == r.leader \in {"alive", "zombie"} \/ r.kid

\* What the stages of a job say: a leader is reaped after its group is killed, the
\* monitor ends after the supervisor, and a job that goes on is listed.
Staged(r, up) ==
    /\ r.kind = "none" => r.sup = "none"
    /\ r.sup = "none" => r.mon = "none" /\ r.kind = "none"
    /\ r.sup \in {"none", "queued"} => r.leader = "none" /\ ~r.kid
    /\ r.sup \in {"watching", "term"} => r.leader \in {"alive", "zombie"}
    /\ r.sup = "kill" => r.leader = "zombie" /\ ~r.kid
    /\ r.sup \in {"drain", "done"} => r.leader \in {"none", "reaped"} /\ ~r.kid
    /\ r.mon \in {"wait", "done"} => r.sup = "done"
    /\ r.kind # "none" /\ r.mon # "done" => r.listed
    /\ ~up => r.leader # "alive" /\ ~r.kid
    /\ ~r.hit

Distinct ==
    \A j, k \in Jobs : Exists(job[j]) /\ Exists(job[k]) /\ job[j].pid = job[k].pid => j = k

\* close waits for every job that has not ended, and none is started any more.
Waited ==
    /\ closer # "open" => closed
    /\ closer = "waiting" => \A j \in Jobs : job[j].kind # "none" => Finished(j) \/ j \in awaited
    /\ closer = "returned" => \A j \in Jobs : job[j].kind # "none" => Finished(j)

IInv ==
    /\ TypeOK
    /\ \A j \in Jobs : Staged(job[j], runtime)
    /\ Distinct
    /\ Waited

--------------------------------------------------------------------------------
\* A step that changes one job, takes no number for it and forgets nothing about its
\* end, keeps the invariant.
Keeps(j, r) ==
    /\ r \in JobType /\ Staged(r, runtime)
    /\ Exists(r) => Exists(job[j]) /\ r.pid = job[j].pid
    /\ r.kind # "none" => job[j].kind # "none"
    /\ Finished(j) => r.mon = "done"

LEMMA ChangeKeeps ==
    ASSUME IInv, NEW j \in Jobs, NEW r,
           job' = [job EXCEPT ![j] = r], UNCHANGED otherVars, Keeps(j, r)
    PROVE  IInv'
  <1>1. TypeOK' BY DEF IInv, TypeOK, otherVars, Keeps
  <1>2. \A k \in Jobs : job'[k] = IF k = j THEN r ELSE job[k] BY DEF IInv, TypeOK
  <1>3. (\A k \in Jobs : Staged(job[k], runtime))' BY <1>2 DEF IInv, otherVars, Keeps
  <1>4. Distinct' BY <1>2 DEF IInv, Distinct, Keeps
  <1>5. Waited' BY <1>2 DEF IInv, Waited, Finished, otherVars, Keeps
  <1> QED BY <1>1, <1>3, <1>4, <1>5 DEF IInv

\* A signal of a supervisor in another stage reaches its own group only.
Hurt(r, o, stage, dying) ==
    /\ r \in JobType
    /\ r.kind = o.kind /\ r.listed = o.listed /\ r.mon = o.mon /\ r.pid = o.pid /\ r.hit = o.hit
    /\ r.sup = stage
    /\ r.leader = IF o.leader = "alive" /\ "leader" \in dying THEN "zombie" ELSE o.leader
    /\ r.kid <=> o.kid /\ "kid" \notin dying

Stages == {"none", "queued", "watching", "term", "kill", "drain", "done"}

With(p, l, b, h) == [p EXCEPT !.leader = l, !.kid = b, !.hit = h]

LEMMA WithType ==
    ASSUME NEW p \in JobType, NEW l \in {"none", "alive", "zombie", "reaped"},
           NEW b \in BOOLEAN, NEW h \in BOOLEAN
    PROVE  With(p, l, b, h) \in JobType
  BY DEF With, JobType

LEMMA WithFields ==
    ASSUME NEW p \in JobType, NEW l, NEW b, NEW h
    PROVE  /\ With(p, l, b, h).kind = p.kind /\ With(p, l, b, h).listed = p.listed
           /\ With(p, l, b, h).mon = p.mon /\ With(p, l, b, h).pid = p.pid
           /\ With(p, l, b, h).sup = p.sup /\ With(p, l, b, h).leader = l
           /\ With(p, l, b, h).kid = b /\ With(p, l, b, h).hit = h
  BY DEF With, JobType

LEMMA HurtRecord ==
    ASSUME NEW o \in JobType, NEW stage \in Stages, NEW dying, NEW p, NEW r, NEW j,
           p = [o EXCEPT !.sup = stage],
           r = With(p, IF p.leader = "alive" /\ "leader" \in dying THEN "zombie" ELSE p.leader,
                    p.kid /\ "kid" \notin dying, p.hit \/ j # j)
    PROVE  Hurt(r, o, stage, dying)
  <1>1. p \in JobType BY DEF JobType, Stages
  <1>2. /\ p.kind = o.kind /\ p.listed = o.listed /\ p.mon = o.mon /\ p.pid = o.pid /\ p.hit = o.hit
        /\ p.sup = stage /\ p.leader = o.leader /\ p.kid = o.kid
    BY DEF JobType, Stages
  <1>3. p.hit \in BOOLEAN /\ p.leader \in {"none", "alive", "zombie", "reaped"} BY <1>1 DEF JobType
  <1>4. (IF p.leader = "alive" /\ "leader" \in dying THEN "zombie" ELSE p.leader)
            \in {"none", "alive", "zombie", "reaped"}
    BY <1>3
  <1>5. (p.kid /\ "kid" \notin dying) \in BOOLEAN /\ (p.hit \/ j # j) \in BOOLEAN OBVIOUS
  <1>6. r \in JobType BY <1>1, <1>4, <1>5, WithType, Zenon
  <1>7. /\ r.kind = p.kind /\ r.listed = p.listed /\ r.mon = p.mon /\ r.pid = p.pid /\ r.sup = p.sup
        /\ r.leader = IF p.leader = "alive" /\ "leader" \in dying THEN "zombie" ELSE p.leader
        /\ r.kid = (p.kid /\ "kid" \notin dying)
        /\ r.hit = (p.hit \/ j # j)
    <2> DEFINE l == IF p.leader = "alive" /\ "leader" \in dying THEN "zombie" ELSE p.leader
               b == p.kid /\ "kid" \notin dying
               h == p.hit \/ j # j
    <2>1. r = With(p, l, b, h) OBVIOUS
    <2>2. /\ With(p, l, b, h).kind = p.kind /\ With(p, l, b, h).listed = p.listed
          /\ With(p, l, b, h).mon = p.mon /\ With(p, l, b, h).pid = p.pid
          /\ With(p, l, b, h).sup = p.sup /\ With(p, l, b, h).leader = l
          /\ With(p, l, b, h).kid = b /\ With(p, l, b, h).hit = h
      BY ONLY <1>1, WithFields
    <2> HIDE DEF l, b, h
    <2> QED BY ONLY <2>1, <2>2, Zenon DEF l, b, h
  <1>8. r.hit = p.hit BY <1>3, <1>7
  <1> QED BY <1>2, <1>6, <1>7, <1>8 DEF Hurt

LEMMA StruckOwn ==
    ASSUME IInv, NEW j \in Jobs, Exists(job[j]), NEW stage \in Stages, NEW dying
    PROVE  \E r : /\ Struck(j, [job EXCEPT ![j].sup = stage], dying) = [job EXCEPT ![j] = r]
                  /\ Hurt(r, job[j], stage, dying)
  <1> DEFINE old == [job EXCEPT ![j].sup = stage]
             r == Struck(j, old, dying)[j]
  <1>1. job \in [Jobs -> JobType] BY DEF IInv, TypeOK
  <1>2. \A k \in Jobs : old[k] = IF k = j THEN [job[j] EXCEPT !.sup = stage] ELSE job[k] BY <1>1
  <1>3. job[j] \in JobType BY <1>1
  <1>4. Exists(old[j]) /\ old[j].pid = job[j].pid BY <1>2, <1>3 DEF Exists, JobType
  <1>5. Hurt(r, job[j], stage, dying)
    <2>1. r = With(old[j],
                   IF old[j].leader = "alive" /\ "leader" \in dying THEN "zombie" ELSE old[j].leader,
                   old[j].kid /\ "kid" \notin dying, old[j].hit \/ j # j)
      BY <1>4 DEF Struck, Exists, With
    <2>2. old[j] = [job[j] EXCEPT !.sup = stage] BY <1>2
    <2> HIDE DEF r, old
    <2> QED BY <2>1, <2>2, <1>3, HurtRecord
  <1>6. \A k \in Jobs : k # j => Struck(j, old, dying)[k] = job[k]
    BY <1>2, <1>4 DEF IInv, Distinct, Exists, Struck
  <1>7. Struck(j, old, dying) = [job EXCEPT ![j] = r]
    <2>1. Struck(j, old, dying) = [k \in Jobs |-> Struck(j, old, dying)[k]] BY DEF Struck
    <2>2. [job EXCEPT ![j] = r] = [k \in Jobs |-> IF k = j THEN r ELSE job[k]] BY <1>1
    <2> HIDE DEF r
    <2> QED BY <2>1, <2>2, <1>6 DEF r
  <1> HIDE DEF r
  <1> QED BY <1>5, <1>7
--------------------------------------------------------------------------------
\* What a call or a monitor does to its job leaves the processes alone.
CallAside(j, r) ==
    /\ r \in JobType
    /\ r.kind = job[j].kind /\ r.sup = job[j].sup /\ r.pid = job[j].pid
    /\ r.leader = job[j].leader /\ r.kid = job[j].kid /\ r.hit = job[j].hit
    /\ r.listed = job[j].listed /\ r.mon = job[j].mon

LEMMA CallAsideKeeps ==
    ASSUME IInv, NEW j \in Jobs, NEW r,
           job' = [job EXCEPT ![j] = r], UNCHANGED otherVars, CallAside(j, r)
    PROVE  IInv'
  <1>1. Staged(job[j], runtime) BY DEF IInv
  <1>2. Staged(r, runtime) BY <1>1 DEF CallAside, Staged
  <1>3. Keeps(j, r) BY <1>2 DEF CallAside, Keeps, Exists, Finished
  <1> QED BY <1>3, ChangeKeeps

LEMMA CallsKeep ==
    ASSUME IInv, NEW j \in Jobs,
           \/ Returned(j) \/ Answered(j) \/ Kill(j) \/ Send(j) \/ Sent(j) \/ SendInterrupted(j)
           \/ Dropped(j) \/ CallerCancels(j) \/ Blocked(j)
    PROVE  IInv'
  <1>1. job \in [Jobs -> JobType] /\ job[j] \in JobType BY DEF IInv, TypeOK
  <1>2. UNCHANGED otherVars
    BY DEF Returned, Answered, Kill, Send, Sent, SendInterrupted, Dropped, CallerCancels, Blocked
  <1>3. \A c \in {"none", "starting", "waiting", "holding", "killing", "sending", "over"} :
           CallAside(j, [job[j] EXCEPT !.call = c])
    BY <1>1 DEF JobType, CallAside
  <1>4. ASSUME NEW c \in {"none", "starting", "waiting", "holding", "killing", "sending", "over"},
               NEW b \in BOOLEAN
        PROVE  CallAside(j, [job[j] EXCEPT !.call = c, !.cancel = b])
    BY <1>1 DEF JobType, CallAside
  <1>5. CallAside(j, [job[j] EXCEPT !.cancel = TRUE]) BY <1>1 DEF JobType, CallAside
  <1>6. CASE Returned(j)
    <2>1. job' = [job EXCEPT ![j] = IF job[j].ready = "failed" THEN [job[j] EXCEPT !.call = "over", !.cancel = ~Finished(j)]
                     ELSE [job[j] EXCEPT !.call = IF job[j].kind = "sync" THEN "waiting" ELSE "holding"]]
      BY <1>6, Zenon DEF Returned
    <2>2. Finished(j) \in BOOLEAN BY DEF Finished
    <2>3. CASE job[j].ready = "failed"
      <3> DEFINE b == ~Finished(j)
                 r == [job[j] EXCEPT !.call = "over", !.cancel = b]
      <3>1. job' = [job EXCEPT ![j] = r] BY <2>1, <2>3
      <3>2. b \in BOOLEAN BY <2>2
      <3> HIDE DEF b
      <3>3. CallAside(j, r) BY <1>4, <3>2
      <3> HIDE DEF r
      <3> QED BY <3>1, <3>3, <1>2, CallAsideKeeps
    <2>4. CASE job[j].ready # "failed"
      <3> DEFINE c == IF job[j].kind = "sync" THEN "waiting" ELSE "holding"
                 r == [job[j] EXCEPT !.call = c]
      <3>1. job' = [job EXCEPT ![j] = r] BY <2>1, <2>4
      <3>2. CallAside(j, r) BY <1>3
      <3> HIDE DEF r
      <3> QED BY <3>1, <3>2, <1>2, CallAsideKeeps
    <2> QED BY <2>3, <2>4
  <1>7. CASE Answered(j)
    <2>1. PICK c \in {"over", "holding"} : job' = [job EXCEPT ![j].call = c] BY <1>7 DEF Answered
    <2>2. job' = [job EXCEPT ![j] = [job[j] EXCEPT !.call = c]] BY <2>1, <1>1
    <2> QED BY <2>2, <1>2, <1>3, CallAsideKeeps
  <1>8. CASE Dropped(j)
    <2>1. CASE job[j].call \in {"killing", "sending"}
      <3>1. job' = [job EXCEPT ![j] = [job[j] EXCEPT !.call = "holding"]] BY <2>1, <1>1, <1>8 DEF Dropped
      <3> QED BY <3>1, <1>2, <1>3, CallAsideKeeps
    <2>2. CASE job[j].call \in {"starting", "waiting"}
      <3> DEFINE b == ~Finished(j)
                 r == [job[j] EXCEPT !.call = "over", !.cancel = b]
      <3>1. job' = [job EXCEPT ![j] = r] BY <2>2, <1>1, <1>8 DEF Dropped
      <3>2. b \in BOOLEAN BY DEF Finished
      <3> HIDE DEF b
      <3>3. CallAside(j, r) BY <1>4, <3>2
      <3> HIDE DEF r
      <3> QED BY <3>1, <3>3, <1>2, CallAsideKeeps
    <2> QED BY <2>1, <2>2, <1>8 DEF Dropped
  <1>9. CASE Kill(j)
    <2>1. job' = [job EXCEPT ![j] = [job[j] EXCEPT !.call = "killing", !.cancel = TRUE]] BY <1>9, <1>1 DEF Kill
    <2> QED BY <2>1, <1>2, <1>4, CallAsideKeeps
  <1>10. CASE Send(j)
    <2>1. job' = [job EXCEPT ![j] = [job[j] EXCEPT !.call = "sending"]] BY <1>10, <1>1 DEF Send
    <2> QED BY <2>1, <1>2, <1>3, CallAsideKeeps
  <1>11. CASE Sent(j)
    <2>1. job' = [job EXCEPT ![j] = [job[j] EXCEPT !.call = "holding"]] BY <1>11, <1>1 DEF Sent
    <2> QED BY <2>1, <1>2, <1>3, CallAsideKeeps
  <1>12. CASE SendInterrupted(j)
    <2>1. job' = [job EXCEPT ![j] = [job[j] EXCEPT !.call = "killing", !.cancel = TRUE]] BY <1>12, <1>1 DEF SendInterrupted
    <2> QED BY <2>1, <1>2, <1>4, CallAsideKeeps
  <1>13. CASE CallerCancels(j)
    <2>1. job' = [job EXCEPT ![j] = [job[j] EXCEPT !.cancel = TRUE]] BY <1>13, <1>1 DEF CallerCancels
    <2> QED BY <2>1, <1>2, <1>5, CallAsideKeeps
  <1>14. CASE Blocked(j)
    <2>1. job' = [job EXCEPT ![j] = [job[j] EXCEPT !.cancel = TRUE]] BY <1>14, <1>1 DEF Blocked
    <2> QED BY <2>1, <1>2, <1>5, CallAsideKeeps
  <1> QED BY <1>6, <1>7, <1>8, <1>9, <1>10, <1>11, <1>12, <1>13, <1>14

\* Stages of the supervisor and of the monitor, and what processes do.
LEMMA StagesKeep ==
    ASSUME IInv, NEW j \in Jobs,
           Reap(j) \/ Drain(j) \/ MonReady(j) \/ Joined(j) \/ MonDone(j) \/ Exit(j) \/ Fork(j)
    PROVE  IInv'
  <1>1. job \in [Jobs -> JobType] /\ job[j] \in JobType /\ Staged(job[j], runtime) BY DEF IInv, TypeOK
  <1>2. UNCHANGED otherVars BY DEF Reap, Drain, MonReady, Joined, MonDone, Exit, Fork
  <1>3. CASE Reap(j)
    <2> DEFINE r == [job[j] EXCEPT !.sup = "drain", !.leader = "reaped"]
    <2>1. job' = [job EXCEPT ![j] = r] BY <1>3, <1>1 DEF Reap
    <2>2. r \in JobType BY <1>1, ZenonT(60) DEF JobType
    <2>3. Staged(r, runtime) BY <1>3, <1>1 DEF Reap, JobType, Staged
    <2>4. Keeps(j, r) BY <2>2, <2>3, <1>3, <1>1 DEF Reap, Keeps, JobType, Exists, Finished
    <2> HIDE DEF r
    <2> QED BY <2>1, <2>4, <1>2, ChangeKeeps
  <1>4. CASE Drain(j)
    <2> DEFINE r == [job[j] EXCEPT !.sup = "done"]
    <2>1. job' = [job EXCEPT ![j] = r] BY <1>4, <1>1 DEF Drain
    <2>2. r \in JobType BY <1>1 DEF JobType
    <2>3. Staged(r, runtime) BY <1>4, <1>1 DEF Drain, JobType, Staged
    <2>4. Keeps(j, r) BY <2>2, <2>3, <1>4, <1>1, ZenonT(60) DEF Drain, Keeps, JobType, Exists, Finished
    <2> HIDE DEF r
    <2> QED BY <2>1, <2>4, <1>2, ChangeKeeps
  <1>5. CASE MonReady(j)
    <2> DEFINE r == [job[j] EXCEPT !.mon = "collect"]
    <2>1. job' = [job EXCEPT ![j] = r] BY <1>5, <1>1 DEF MonReady
    <2>2. r \in JobType BY <1>1 DEF JobType
    <2>3. Staged(r, runtime) BY <1>5, <1>1 DEF MonReady, JobType, Staged
    <2>4. Keeps(j, r) BY <2>2, <2>3, <1>5, <1>1 DEF MonReady, Keeps, JobType, Exists, Finished
    <2> HIDE DEF r
    <2> QED BY <2>1, <2>4, <1>2, ChangeKeeps
  <1>6. CASE Joined(j)
    <2> DEFINE r == [job[j] EXCEPT !.mon = "wait"]
    <2>1. job' = [job EXCEPT ![j] = r] BY <1>6, <1>1 DEF Joined
    <2>2. r \in JobType BY <1>1 DEF JobType
    <2>3. Staged(r, runtime) BY <1>6, <1>1 DEF Joined, JobType, Staged
    <2>4. Keeps(j, r) BY <2>2, <2>3, <1>6, <1>1 DEF Joined, Keeps, JobType, Exists, Finished
    <2> HIDE DEF r
    <2> QED BY <2>1, <2>4, <1>2, ChangeKeeps
  <1>7. CASE MonDone(j)
    <2> DEFINE b == job[j].listed /\ job[j].kind # "sync" /\ job[j].ready = "ok"
               r == [job[j] EXCEPT !.mon = "done", !.cancel = FALSE, !.pid = 0, !.listed = b]
    <2>1. job' = [job EXCEPT ![j] = r] BY <1>7, <1>1 DEF MonDone
    <2>2. b \in BOOLEAN OBVIOUS
    <2> HIDE DEF b
    <2>3. r \in JobType BY <1>1, <2>2 DEF JobType
    <2>4. Staged(r, runtime) BY <1>7, <1>1 DEF MonDone, JobType, Staged
    <2>5. Keeps(j, r) BY <2>3, <2>4, <1>7, <1>1 DEF MonDone, Keeps, JobType, Exists, Finished, Staged
    <2> HIDE DEF r
    <2> QED BY <2>1, <2>5, <1>2, ChangeKeeps
  <1>8. CASE Exit(j)
    <2>1. CASE job[j].leader = "alive" /\ job' = [job EXCEPT ![j].leader = "zombie"]
      <3> DEFINE r == [job[j] EXCEPT !.leader = "zombie"]
      <3>1. job' = [job EXCEPT ![j] = r] BY <2>1, <1>1
      <3>2. r \in JobType BY <1>1 DEF JobType
      <3>3. Staged(r, runtime) BY <2>1, <1>1 DEF JobType, Staged
      <3>4. Keeps(j, r) BY <3>2, <3>3, <2>1, <1>1 DEF Keeps, JobType, Exists, Finished
      <3> HIDE DEF r
      <3> QED BY <3>1, <3>4, <1>2, ChangeKeeps
    <2>2. CASE job[j].kid /\ job' = [job EXCEPT ![j].kid = FALSE]
      <3> DEFINE r == [job[j] EXCEPT !.kid = FALSE]
      <3>1. job' = [job EXCEPT ![j] = r] BY <2>2, <1>1
      <3>2. r \in JobType BY <1>1 DEF JobType
      <3>3. Staged(r, runtime) BY <1>1 DEF JobType, Staged
      <3>4. Keeps(j, r) BY <3>2, <3>3, <1>1 DEF Keeps, JobType, Exists, Finished
      <3> HIDE DEF r
      <3> QED BY <3>1, <3>4, <1>2, ChangeKeeps
    <2> QED BY <1>8, <2>1, <2>2 DEF Exit
  <1>9. CASE Fork(j)
    <2> DEFINE r == [job[j] EXCEPT !.kid = TRUE]
    <2>1. job' = [job EXCEPT ![j] = r] BY <1>9, <1>1 DEF Fork
    <2>2. r \in JobType BY <1>1 DEF JobType
    <2>3. Staged(r, runtime) BY <1>9, <1>1 DEF Fork, JobType, Staged
    <2>4. Keeps(j, r) BY <2>2, <2>3, <1>9, <1>1 DEF Fork, Keeps, JobType, Exists, Finished
    <2> HIDE DEF r
    <2> QED BY <2>1, <2>4, <1>2, ChangeKeeps
  <1> QED BY <1>3, <1>4, <1>5, <1>6, <1>7, <1>8, <1>9

\* TERM and KILL, which reach no other group.
LEMMA SignalsKeep ==
    ASSUME IInv, NEW j \in Jobs, NEW why, Watch(j, why) \/ KillAfterGrace(j)
    PROVE  IInv'
  <1>1. job[j] \in JobType /\ Staged(job[j], runtime) BY DEF IInv, TypeOK
  <1>2. UNCHANGED otherVars BY DEF Watch, KillAfterGrace
  <1>3. Exists(job[j]) BY <1>1 DEF Watch, KillAfterGrace, Staged, Exists
  <1>4. CASE Watch(j, why)
    <2>1. PICK dying : job' = Struck(j, [job EXCEPT ![j].sup = "term"], dying) BY <1>4 DEF Watch
    <2>2. PICK r : job' = [job EXCEPT ![j] = r] /\ Hurt(r, job[j], "term", dying)
      BY <1>3, <2>1, StruckOwn DEF Stages
    <2>3. Staged(r, runtime) BY <1>1, <1>4, <2>2 DEF Watch, Staged, Hurt
    <2>4. Keeps(j, r) BY <1>3, <2>2, <2>3 DEF Keeps, Hurt, Finished
    <2> QED BY <1>2, <2>2, <2>4, ChangeKeeps
  <1>5. CASE KillAfterGrace(j)
    <2>1. PICK r : job' = [job EXCEPT ![j] = r] /\ Hurt(r, job[j], "kill", All)
      BY <1>3, <1>5, StruckOwn DEF KillAfterGrace, Stages
    <2>2. Staged(r, runtime) BY <1>1, <1>5, <2>1 DEF KillAfterGrace, Staged, Hurt, All
    <2>3. Keeps(j, r) BY <1>3, <2>1, <2>2 DEF Keeps, Hurt, Finished
    <2> QED BY <1>2, <2>1, <2>3, ChangeKeeps
  <1> QED BY <1>4, <1>5

\* A spawn takes a number that no group has.
LEMMA SpawnKeeps ==
    ASSUME IInv, NEW j \in Jobs, Spawn(j)
    PROVE  IInv'
  <1>1. job \in [Jobs -> JobType] /\ job[j] \in JobType /\ Staged(job[j], runtime) BY DEF IInv, TypeOK
  <1>2. runtime /\ job[j].sup = "queued" /\ UNCHANGED otherVars BY DEF Spawn
  <1>3. job[j].kind # "none" /\ job[j].listed /\ job[j].mon \notin {"wait", "done"}
        /\ job[j].leader = "none" /\ ~job[j].kid /\ ~job[j].hit
    BY <1>1, <1>2 DEF Staged
  <1>4. CASE job' = Failed(j)
    <2> DEFINE r == [job[j] EXCEPT !.sup = "done", !.ready = "failed"]
    <2>1. job' = [job EXCEPT ![j] = r] BY <1>4, <1>1 DEF Failed
    <2>2. r \in JobType BY <1>1 DEF JobType
    <2>3. Staged(r, runtime) BY <1>1, <1>2, <1>3 DEF JobType, Staged
    <2>4. Keeps(j, r) BY <2>2, <2>3, <1>1, <1>3 DEF Keeps, JobType, Exists, Finished
    <2> HIDE DEF r
    <2> QED BY <2>1, <2>4, <1>2, ChangeKeeps
  <1>5. CASE \E pid \in NextPid :
                job' = [job EXCEPT ![j].sup = "watching", ![j].ready = "ok",
                                   ![j].pid = pid, ![j].leader = "alive"]
    <2>1. PICK pid \in NextPid :
             job' = [job EXCEPT ![j].sup = "watching", ![j].ready = "ok",
                                ![j].pid = pid, ![j].leader = "alive"]
      BY <1>5
    <2>2. pid \in Nat /\ pid \notin TakenPids BY ShellAssumption DEF NextPid
    <2> DEFINE r == [job[j] EXCEPT !.sup = "watching", !.ready = "ok", !.pid = pid, !.leader = "alive"]
    <2>3. job' = [job EXCEPT ![j] = r] BY <2>1, <1>1
    <2>4. r \in JobType BY <1>1, <2>2, ZenonT(60) DEF JobType
    <2>5. Staged(r, runtime) BY <1>1, <1>2, <1>3 DEF JobType, Staged
    <2>6. r.pid = pid /\ r.kind = job[j].kind /\ r.mon = job[j].mon BY <1>1 DEF JobType
    <2> HIDE DEF r
    <2>7. \A k \in Jobs : job'[k] = IF k = j THEN r ELSE job[k] BY <1>1, <2>3
    <2>8. TypeOK' BY <1>1, <1>2, <2>3, <2>4 DEF IInv, TypeOK, otherVars
    <2>9. (\A k \in Jobs : Staged(job[k], runtime))' BY <1>2, <2>5, <2>7 DEF IInv, otherVars
    <2>10. \A k \in Jobs : Exists(job[k]) => job[k].pid # pid BY <2>2 DEF TakenPids, Exists
    <2>11. Distinct' BY <2>6, <2>7, <2>10 DEF IInv, Distinct
    <2>12. Waited' BY <1>2, <2>6, <2>7 DEF IInv, Waited, Finished, otherVars
    <2> QED BY <2>8, <2>9, <2>11, <2>12 DEF IInv
  <1> QED BY <1>4, <1>5 DEF Spawn

LEMMA StartKeeps ==
    ASSUME IInv, NEW j \in Jobs, Start(j)
    PROVE  IInv'
  <1>1. job \in [Jobs -> JobType] BY DEF IInv, TypeOK
  <1>2. runtime /\ job[j].kind = "none" /\ ~closed /\ j \in DOMAIN asked /\ UNCHANGED otherVars BY DEF Start
  <1>3. asked[j] \in {"sync", "bash", "term"} BY <1>2, ShellAssumption DEF IInv, TypeOK
  <1>4. PICK old \in SUBSET {k \in Jobs : Finished(k) /\ job[k].kind # "term"} :
           job' = [k \in Jobs |->
                     IF k = j THEN [NewJob EXCEPT !.kind = asked[j], !.call = "starting", !.mon = "starting",
                                                  !.listed = TRUE, !.sup = "queued"]
                     ELSE [job[k] EXCEPT !.listed = @ /\ k \notin old]]
    BY DEF Start
  <1> DEFINE new == [NewJob EXCEPT !.kind = asked[j], !.call = "starting", !.mon = "starting",
                                   !.listed = TRUE, !.sup = "queued"]
  <1>5. /\ new \in JobType /\ Staged(new, TRUE) /\ ~Exists(new)
        /\ new.kind # "none" /\ new.mon # "done"
    BY <1>3 DEF NewJob, JobType, Staged, Exists
  <1> HIDE DEF new
  <1>6. job'[j] = new BY <1>4 DEF new
  <1>7. ASSUME NEW k \in Jobs, k # j
        PROVE  /\ job'[k] \in JobType
               /\ job'[k].kind = job[k].kind /\ job'[k].sup = job[k].sup /\ job'[k].mon = job[k].mon
               /\ job'[k].leader = job[k].leader /\ job'[k].kid = job[k].kid /\ job'[k].pid = job[k].pid
               /\ job'[k].hit = job[k].hit
               /\ ~Finished(k) => job'[k].listed = job[k].listed
    <2>1. job[k] \in JobType BY <1>1
    <2> DEFINE b == job[k].listed /\ k \notin old
    <2>2. b \in BOOLEAN OBVIOUS
    <2>3. job[k].listed \in BOOLEAN BY <2>1 DEF JobType
    <2>4. ~Finished(k) => b = job[k].listed BY <2>3
    <2>5. job'[k] = [job[k] EXCEPT !.listed = b] BY <1>4, <1>7, Zenon
    <2> HIDE DEF b
    <2> QED BY <2>1, <2>2, <2>4, <2>5 DEF JobType
  <1>8. TypeOK'
    <2>1. \A k \in Jobs : job'[k] \in JobType BY <1>5, <1>6, <1>7
    <2>2. job' = [k \in Jobs |-> job'[k]] BY <1>4
    <2>3. job' \in [Jobs -> JobType] BY <2>1, <2>2
    <2> QED BY <1>2, <2>3 DEF IInv, TypeOK, otherVars
  <1>9. (\A k \in Jobs : Staged(job[k], runtime))'
    <2> SUFFICES ASSUME NEW k \in Jobs PROVE Staged(job[k], runtime)' OBVIOUS
    <2>1. CASE k = j BY <2>1, <1>2, <1>5, <1>6 DEF otherVars, IInv, TypeOK, Staged
    <2>2. CASE k # j
      <3>1. Staged(job[k], runtime) BY DEF IInv
      <3> QED BY <2>2, <3>1, <1>2, <1>7 DEF Staged, Finished, otherVars
    <2> QED BY <2>1, <2>2
  <1>10. Distinct' BY <1>5, <1>6, <1>7 DEF IInv, Distinct, Exists
  <1>11. Waited' BY <1>2 DEF IInv, Waited, otherVars
  <1> QED BY <1>8, <1>9, <1>10, <1>11 DEF IInv

\* close, and a runtime that stops: Group::drop kills what a supervisor still has.
LEMMA HostKeeps ==
    ASSUME IInv,
           (\E how \in {"closing", "dropped"} : CloseCancel(how)) \/ CloseWaits \/ CloseReturns
    PROVE  IInv'
  <1>1. UNCHANGED <<asked, job, runtime>> BY DEF CloseCancel, CloseWaits, CloseReturns
  <1>2. TypeOK' BY <1>1 DEF IInv, TypeOK, CloseCancel, CloseWaits, CloseReturns
  <1>3. (\A j \in Jobs : Staged(job[j], runtime))' BY <1>1 DEF IInv
  <1>4. Distinct' BY <1>1 DEF IInv, Distinct
  <1>5. Waited'
    <2>1. CASE \E how \in {"closing", "dropped"} : CloseCancel(how)
      BY <2>1, <1>1 DEF IInv, Waited, CloseCancel, Finished
    <2>2. CASE CloseWaits
      BY <2>2, <1>1 DEF IInv, Waited, CloseWaits, Finished, Staged
    <2>3. CASE CloseReturns
      BY <2>3, <1>1 DEF IInv, Waited, CloseReturns, Finished
    <2> QED BY <2>1, <2>2, <2>3
  <1> QED BY <1>2, <1>3, <1>4, <1>5 DEF IInv

LEMMA StopKeeps ==
    ASSUME IInv, RuntimeStops
    PROVE  IInv'
  <1>1. job \in [Jobs -> JobType] BY DEF IInv, TypeOK
  <1>2. runtime' = FALSE /\ UNCHANGED <<asked, closed, closer, awaited>> BY DEF RuntimeStops
  <1>3. ASSUME NEW j \in Jobs, Armed(j)
        PROVE  Hurt(job'[j], job[j], job[j].sup, All)
    <2>1. job[j] \in JobType /\ Staged(job[j], runtime) BY <1>1 DEF IInv
    <2>2. Exists(job[j]) /\ job[j].sup \in Stages BY <2>1, <1>3 DEF Armed, Staged, Exists, Stages
    <2>3. job = [job EXCEPT ![j].sup = job[j].sup] BY <1>1, <2>1 DEF JobType
    <2>4. PICK r : Struck(j, job, All) = [job EXCEPT ![j] = r] /\ Hurt(r, job[j], job[j].sup, All)
      BY <2>2, <2>3, StruckOwn
    <2>5. job'[j] = Struck(j, job, All)[j] BY <1>3 DEF RuntimeStops
    <2> QED BY <1>1, <2>4, <2>5
  <1>4. ASSUME NEW j \in Jobs, ~Armed(j) PROVE job'[j] = job[j] BY <1>4 DEF RuntimeStops
  <1>5. TypeOK'
    <2>1. \A j \in Jobs : job'[j] \in JobType BY <1>1, <1>3, <1>4 DEF Hurt
    <2>2. job' = [j \in Jobs |-> job'[j]] BY DEF RuntimeStops
    <2>3. job' \in [Jobs -> JobType] BY <2>1, <2>2
    <2> QED BY <1>2, <2>3 DEF IInv, TypeOK
  <1>6. (\A j \in Jobs : Staged(job[j], runtime))'
    <2> SUFFICES ASSUME NEW j \in Jobs PROVE Staged(job[j], runtime)' OBVIOUS
    <2>1. job[j] \in JobType /\ Staged(job[j], runtime) BY <1>1 DEF IInv
    <2>2. CASE Armed(j) BY <2>1, <2>2, <1>2, <1>3 DEF Armed, Staged, Hurt, All
    <2>3. CASE ~Armed(j)
      <3>1. job'[j] = job[j] BY <2>3, <1>4
      <3>2. job[j].sup \in Stages BY <2>1 DEF JobType, Stages
      <3> QED BY <3>1, <3>2, <2>1, <2>3, <1>2 DEF Armed, Staged, Stages
    <2> QED BY <2>2, <2>3
  <1>7. \A j \in Jobs : /\ job'[j].kind = job[j].kind /\ job'[j].mon = job[j].mon
                        /\ job'[j].pid = job[j].pid
                        /\ Exists(job'[j]) => Exists(job[j])
    BY <1>3, <1>4 DEF Hurt, Exists
  <1>8. Distinct' BY <1>7 DEF IInv, Distinct
  <1>9. Waited' BY <1>2, <1>7 DEF IInv, Waited, Finished
  <1> QED BY <1>5, <1>6, <1>8, <1>9 DEF IInv

--------------------------------------------------------------------------------
LEMMA InitIInv == ShellInit => IInv
  <1> SUFFICES ASSUME ShellInit PROVE IInv OBVIOUS
  <1>1. NewJob \in JobType /\ Staged(NewJob, TRUE) /\ ~Exists(NewJob) /\ NewJob.kind = "none"
    BY DEF NewJob, JobType, Staged, Exists
  <1>2. TypeOK BY <1>1 DEF ShellInit, TypeOK
  <1>3. \A j \in Jobs : Staged(job[j], runtime) BY <1>1 DEF ShellInit
  <1>4. Distinct BY <1>1 DEF ShellInit, Distinct
  <1>5. Waited BY <1>1 DEF ShellInit, Waited
  <1> QED BY <1>2, <1>3, <1>4, <1>5 DEF IInv

LEMMA NextIInv == IInv /\ [ShellNext]_shellVars => IInv'
  <1> SUFFICES ASSUME IInv, [ShellNext]_shellVars PROVE IInv' OBVIOUS
  <1>1. ASSUME NEW j \in Jobs,
               \/ Returned(j) \/ Answered(j) \/ Kill(j) \/ Send(j) \/ Sent(j) \/ SendInterrupted(j)
               \/ Dropped(j) \/ CallerCancels(j) \/ Blocked(j)
        PROVE  IInv'
    BY <1>1, CallsKeep
  <1>2. ASSUME NEW j \in Jobs,
               Reap(j) \/ Drain(j) \/ MonReady(j) \/ Joined(j) \/ MonDone(j) \/ Exit(j) \/ Fork(j)
        PROVE  IInv'
    BY <1>2, StagesKeep
  <1>3. ASSUME NEW j \in Jobs, Start(j) PROVE IInv' BY <1>3, StartKeeps
  <1>4. ASSUME NEW j \in Jobs, Spawn(j) PROVE IInv' BY <1>4, SpawnKeeps
  <1>5. ASSUME NEW j \in Jobs, KillAfterGrace(j) PROVE IInv' BY <1>5, SignalsKeep
  <1>6. ASSUME NEW j \in Jobs, NEW why \in Why, Watch(j, why) PROVE IInv' BY <1>6, SignalsKeep
  <1>7. ASSUME (\E how \in {"closing", "dropped"} : CloseCancel(how)) \/ CloseWaits \/ CloseReturns
        PROVE  IInv'
    BY <1>7, HostKeeps
  <1>8. ASSUME RuntimeStops PROVE IInv' BY <1>8, StopKeeps
  <1>9. CASE UNCHANGED shellVars
    BY <1>9 DEF shellVars, IInv, TypeOK, Distinct, Waited, Finished
  <1> QED BY <1>1, <1>2, <1>3, <1>4, <1>5, <1>6, <1>7, <1>8, <1>9 DEF ShellNext

LEMMA IInvNoStrays == IInv => NoStrays
  <1> SUFFICES ASSUME IInv PROVE NoStrays OBVIOUS
  <1>1. ASSUME NEW j \in Jobs PROVE job[j] \in JobType /\ Staged(job[j], runtime) BY DEF IInv, TypeOK
  <1>2. ASSUME NEW j \in Jobs, GroupAlive(j)
        PROVE  /\ runtime /\ job[j].sup \in {"watching", "term", "kill"}
               /\ job[j].listed /\ ~Finished(j)
    BY <1>1, <1>2 DEF GroupAlive, Staged, JobType, Finished
  <1>3. ASSUME closer = "returned", NEW j \in Jobs
        PROVE  ~GroupAlive(j) /\ job[j].sup \in {"none", "done"}
    BY <1>1, <1>3 DEF IInv, Waited, GroupAlive, Staged, JobType, Finished
  <1>4. \A j \in Jobs : ~job[j].hit BY <1>1 DEF Staged
  <1> QED BY <1>2, <1>3, <1>4 DEF NoStrays

\* No process group is left without a supervisor and a listed job, none outlives close
\* or the runtime, and none is signalled by the supervisor of another job: for any
\* number of jobs, calls and process numbers.
THEOREM ShellSafe == ShellSpec => []NoStrays
  <1>1. ShellSpec => []IInv BY InitIInv, NextIInv, PTL DEF ShellSpec
  <1> QED BY <1>1, IInvNoStrays, PTL

\* The states of jobs, calls, monitors and supervisors are those of the code.
THEOREM ShellTyped == ShellSpec => []TypeOK
  <1>1. ShellSpec => []IInv BY InitIInv, NextIInv, PTL DEF ShellSpec
  <1>2. IInv => TypeOK BY DEF IInv
  <1> QED BY <1>1, <1>2, PTL

(***************************************************************************)
(* ApplyPatch, Move, Delete, Write and Edit lose nothing, and a patch that *)
(* fails says the truth, for any paths, patches and number of changes by   *)
(* others.                                                                 *)
(*                                                                         *)
(* The argument.  The patch's record says of every path what has been done *)
(* to it (Recorded): what it holds under a temporary name is the original  *)
(* or nothing, so whatever it removes is a staged result or the original   *)
(* it was asked to replace (Temporary).  What it made exists at most once, *)
(* wherever others moved it (Marks); the way back takes it from its path   *)
(* or reports a failure, so a failure that says that everything was undone *)
(* leaves none of it.  As long as nobody else changes a path, each path is *)
(* where the record says (Undisturbed).                                    *)
(***************************************************************************)
Makers == {"none", "link", "first", "patch", "tool", "other"}
Contents == [by : Makers, n : Nat]

Early == {"plan", "check", "open", "stage"}
Late == {"claim", "publish", "cleanup"}
Active == Early \cup Late \cup {"rollback"}
PhaseNames == Active \cup {"idle", "ok", "failed", "unsafe"}

PatchType ==
    [phase : PhaseNames, ops : [Paths -> Operations], i : Nat,
     step : {"begin", "inspect", "take", "compare", "restore"},
     original : [Paths -> Contents], quarantine : [Paths -> {"no", "held", "released"}],
     published : SUBSET Paths, failures : SUBSET Paths, start : [Paths -> Contents]]

Types ==
    /\ disk \in [Roles -> [Paths -> Contents]]
    /\ patch \in PatchType
    /\ life \in [phase : {"idle", "aside", "stuck"}, source : Paths, destination : SUBSET Paths]
    /\ writer \in [phase : {"idle", "staged"}, path : Paths]
    /\ others \in Nat /\ met \in BOOLEAN /\ owed \subseteq Contents

Entry(p) == patch.ops[p] # "none"
Behind(p) == Index(p) < patch.i
Ahead(p) == Index(p) > patch.i
Marked(p) == Content("patch", Index(p))

(* The patch is at an entry, and its steps are those of its phase.         *)
Placed ==
    /\ patch.phase \in Active => patch.i \in Entries(patch.ops)
    /\ patch.phase = "rollback" <=> patch.step \in {"take", "compare", "restore"}
    /\ patch.step = "inspect" => patch.phase = "claim"

(* What the patch has done to a path so far.                               *)
Recorded ==
    /\ \A p \in Paths :
          /\ patch.original[p].by # "patch"
          /\ ~Entry(p) => patch.quarantine[p] = "no" /\ p \notin patch.published
          /\ patch.quarantine[p] # "no" => patch.original[p] # None
          /\ p \in patch.published =>
                Final(p) # None /\ (patch.quarantine[p] = "no" => patch.original[p] = None)
    /\ patch.phase \in Early \cup {"idle"} =>
          \A p \in Paths : patch.quarantine[p] = "no" /\ p \notin patch.published
    /\ patch.phase \in Early \cup Late \cup {"idle"} => patch.failures = {}
    /\ patch.phase = "claim" => \A p \in Paths :
          /\ p \notin patch.published
          /\ patch.quarantine[p] # "released"
          /\ Ahead(p) \/ (p = Path /\ patch.step = "begin") => patch.quarantine[p] = "no"
          /\ Entry(p) /\ Behind(p) /\ patch.original[p] # None => patch.quarantine[p] = "held"
          /\ p = Path /\ patch.step = "inspect" => patch.quarantine[p] = "held"
    /\ patch.phase = "publish" => \A p \in Paths : Entry(p) =>
          /\ patch.original[p] # None => patch.quarantine[p] = "held"
          /\ Behind(p) /\ Final(p) # None => p \in patch.published
          /\ ~Behind(p) => p \notin patch.published
    /\ patch.phase \in {"cleanup", "ok"} => \A p \in Paths : Entry(p) =>
          /\ patch.original[p] # None => patch.quarantine[p] # "no"
          /\ Final(p) # None => p \in patch.published
          /\ Behind(p) \/ patch.phase = "ok" => patch.quarantine[p] # "held"

(* What is under the temporary names of the patch.                         *)
Temporary ==
    \A p \in Paths :
       /\ disk["staged"][p] =
             IF \/ patch.phase = "stage" /\ Behind(p)
                \/ patch.phase \in Late \cup {"rollback"} /\ p \notin patch.published
             THEN Final(p) ELSE None
       /\ patch.quarantine[p] # "held" => disk["claimed"][p] = None
       /\ patch.phase \in Late /\ patch.quarantine[p] = "held" =>
             disk["claimed"][p] = patch.original[p] \/ (p = Path /\ patch.step = "inspect")
       /\ patch.phase \notin {"rollback", "unsafe"} => disk["output"][p] = None
       /\ patch.phase = "rollback" =>
             /\ Behind(p) \/ ~Entry(p) \/ (p = Path /\ patch.step = "take") =>
                   disk["output"][p] = None
             /\ p = Path /\ patch.step = "restore" =>
                   disk["output"][p] = IF p \in patch.published THEN Final(p) ELSE None
             /\ Entry(p) /\ Ahead(p) /\ p \notin patch.failures =>
                   disk["claimed"][p] = None /\ disk["output"][p] = None
       /\ patch.phase = "failed" => disk["claimed"][p] = None

(* What the patch made is in one place, and before it is published that is *)
(* its temporary name.                                                     *)
OnlyStaged(p) ==
    \A r \in Roles, x \in Paths : disk[r][x] = Marked(p) => r = "staged" /\ x = p

Marks ==
    /\ \A r \in Roles, x \in Paths :
          disk[r][x].by = "patch" => \E p \in Paths : disk[r][x] = Marked(p)
    /\ \A p \in Paths : p \notin patch.published => OnlyStaged(p)
    /\ \A p \in Paths, r, s \in Roles, x, y \in Paths :
          disk[r][x] = Marked(p) /\ disk[s][y] = Marked(p) => r = s /\ x = y
    /\ patch.phase = "rollback" => \A p \in Paths :
          Entry(p) /\ Ahead(p) /\ p \notin patch.failures => OnlyStaged(p)
    /\ patch.phase = "failed" => \A p \in Paths : OnlyStaged(p)

(* The other tools have what they took and what they are about to write.   *)
Apart ==
    /\ \A p \in Paths : disk["aside"][p] # None => life.phase # "idle" /\ p = life.source
    /\ \A p \in Paths : disk["written"][p] # None => writer.phase = "staged" /\ p = writer.path
    /\ \A p \in Paths : disk["written"][p].by \in {"none", "tool"}
    /\ writer.phase = "staged" => disk["written"][writer.path] # None

Debts == (\A c \in owed : c # None /\ c.by # "patch") /\ NothingLost

(* Where a path is while nobody but the patch changes one.                 *)
Standing(p) ==
    /\ At(p) = IF p \in patch.published THEN Final(p)
               ELSE IF patch.quarantine[p] # "no" THEN None ELSE patch.start[p]
    /\ patch.quarantine[p] = "held" => disk["claimed"][p] = patch.original[p]

Planned(p) ==
    /\ patch.original[p] = patch.start[p]
    /\ patch.original[p] # Link /\ (patch.original[p] = None <=> patch.ops[p] = "create")

Undisturbed ==
    ~met =>
       /\ patch.phase \in Early => \A p \in Paths : At(p) = patch.start[p]
       /\ patch.phase = "plan" => \A p \in Paths : Entry(p) /\ Behind(p) => Planned(p)
       /\ patch.phase \in (Active \ {"plan"}) \cup {"ok"} => \A p \in Paths : Entry(p) => Planned(p)
       /\ patch.phase \in Late \cup {"ok"} => \A p \in Paths : Standing(p)
       /\ patch.phase = "rollback" =>
             /\ patch.failures = {}
             /\ \A p \in Paths :
                   /\ Behind(p) \/ ~Entry(p) \/ (p = Path /\ patch.step = "take") => Standing(p)
                   /\ Entry(p) /\ Ahead(p) => At(p) = patch.start[p]
                   /\ p = Path /\ patch.quarantine[p] = "held" =>
                         disk["claimed"][p] = patch.original[p]
                   /\ p = Path /\ patch.step = "compare" =>
                         p \in patch.published /\ At(p) = None /\ disk["output"][p] = Final(p)
                   /\ p = Path /\ patch.step = "restore" =>
                         At(p) = IF p \in patch.published \/ patch.quarantine[p] # "no"
                                 THEN None ELSE patch.start[p]
       /\ patch.phase # "unsafe"
       /\ patch.phase = "failed" => \A p \in Paths : At(p) = patch.start[p]

WorkspaceInv ==
    /\ Types /\ Placed /\ Recorded /\ Temporary /\ Marks /\ Apart /\ Debts /\ Undisturbed

-----------------------------------------------------------------------------
(* Paths and their order.                                                  *)

(* A set of naturals has a least element (NatLessThanWellFounded).         *)
LEMMA Least ==
    ASSUME NEW S \in SUBSET Nat, S # {}
    PROVE  Min(S) \in S /\ \A n \in S : Min(S) <= n
<1> DEFINE R == {ss \in Nat \X Nat : ss[1] < ss[2]}
<1>1. IsWellFoundedOn(R, Nat)
  BY NatLessThanWellFounded, Zenon DEF OpToRel
<1>2. ASSUME NEW x \in Nat, NEW y \in Nat, y < x PROVE <<y, x>> \in R
  <2>1. <<y, x>> \in Nat \X Nat /\ <<y, x>>[1] = y /\ <<y, x>>[2] = x
    OBVIOUS
  <2> QED BY <2>1, <1>2, Zenon
<1> HIDE DEF R
<1>3. PICK x \in S : \A y \in S : ~(<<y, x>> \in R)
  BY <1>1, WFMin, Zenon
<1>4. \A y \in S : ~(y < x)
  BY <1>2, <1>3
<1>5. \A y \in S : x <= y
  BY <1>3, <1>4
<1> QED BY <1>3, <1>5, Zenon DEF Min

(* A bounded one has a greatest.                                           *)
LEMMA Greatest ==
    ASSUME NEW n \in Nat, NEW S \in SUBSET (1..n), S # {}
    PROVE  Max(S) \in S /\ \A k \in S : Max(S) >= k
<1> DEFINE T == {k \in Nat : n - k \in S}
<1>1. \A k \in S : n - k \in T
  <2> SUFFICES ASSUME NEW k \in S PROVE n - k \in T
    OBVIOUS
  <2>1. n - k \in Nat /\ n - (n - k) = k
    OBVIOUS
  <2> QED BY <2>1
<1>2. T \in SUBSET Nat /\ T # {}
  BY <1>1
<1>3. Min(T) \in T /\ \A k \in T : Min(T) <= k
  BY <1>2, Least
<1>4. n - Min(T) \in S
  BY <1>3
<1>5. \A k \in S : n - Min(T) >= k
  <2> SUFFICES ASSUME NEW k \in S PROVE n - Min(T) >= k
    OBVIOUS
  <2>1. Min(T) <= n - k /\ Min(T) \in Nat
    BY <1>1, <1>3
  <2> QED BY <2>1
<1>6. \E x \in S : \A k \in S : x >= k
  BY <1>4, <1>5
<1> QED BY <1>6, Zenon DEF Max

(* Every path has its place in the order, and no two have the same.        *)
LEMMA Orders ==
    /\ Len(Order) \in Nat /\ DOMAIN Order = 1..Len(Order)
    /\ \A i \in DOMAIN Order : Order[i] \in Paths /\ Index(Order[i]) = i
    /\ \A p \in Paths : Index(p) \in DOMAIN Order /\ Index(p) \in Nat /\ Order[Index(p)] = p
<1>1. Len(Order) \in Nat /\ DOMAIN Order = 1..Len(Order) /\ DOMAIN Order \subseteq Nat
  BY ConstantsAssumption
<1>2. \A p \in Paths : Index(p) \in DOMAIN Order /\ Order[Index(p)] = p
  BY DEF Paths, Index
<1>3. \A i \in DOMAIN Order : Order[i] \in Paths
  BY DEF Paths
<1>4. \A i \in DOMAIN Order : Index(Order[i]) = i
  BY <1>2, <1>3, ConstantsAssumption
<1> QED BY <1>1, <1>2, <1>3, <1>4

LEMMA Numbers ==
    \A p, q \in Paths : Index(p) = Index(q) => p = q
BY Orders

(* The path the patch is at.                                               *)
LEMMA Here ==
    ASSUME Types, Placed, patch.phase \in Active
    PROVE  /\ Path \in Paths /\ Index(Path) = patch.i /\ Entry(Path) /\ patch.i \in Nat
           /\ \A p \in Paths : p = Path \/ Behind(p) \/ Ahead(p)
           /\ ~Behind(Path) /\ ~Ahead(Path)
<1>1. patch.i \in DOMAIN Order /\ patch.ops[Order[patch.i]] # "none" /\ patch.i \in Nat
  BY Orders DEF Placed, Entries
<1>2. Path \in Paths /\ Index(Path) = patch.i /\ Entry(Path)
  BY <1>1, Orders DEF Path, Entry
<1>3. ASSUME NEW p \in Paths, ~Behind(p), ~Ahead(p)
      PROVE  p = Path
  <2>1. Index(p) = patch.i
    BY <1>1, <1>3, Orders DEF Behind, Ahead
  <2> QED BY <1>2, <2>1, Numbers
<1> QED BY <1>1, <1>2, <1>3 DEF Behind, Ahead

(* The entries of a patch, first and last.                                 *)
LEMMA Ends ==
    ASSUME NEW ops \in [Paths -> Operations], \E p \in Paths : ops[p] # "none"
    PROVE  /\ Min(Entries(ops)) \in Entries(ops) /\ Max(Entries(ops)) \in Entries(ops)
           /\ Min(Entries(ops)) \in Nat /\ Max(Entries(ops)) \in Nat
           /\ \A p \in Paths : ops[p] # "none" =>
                 Min(Entries(ops)) <= Index(p) /\ Index(p) <= Max(Entries(ops))
<1>1. \A p \in Paths : ops[p] # "none" => Index(p) \in Entries(ops)
  BY Orders DEF Entries
<1>2. /\ Entries(ops) \in SUBSET Nat /\ Entries(ops) # {} /\ Len(Order) \in Nat
      /\ Entries(ops) \in SUBSET (1..Len(Order))
  BY <1>1, Orders DEF Entries
<1>3. /\ Min(Entries(ops)) \in Entries(ops) /\ \A n \in Entries(ops) : Min(Entries(ops)) <= n
      /\ Max(Entries(ops)) \in Entries(ops) /\ \A n \in Entries(ops) : Max(Entries(ops)) >= n
  BY <1>2, Least, Greatest
<1> QED BY <1>1, <1>2, <1>3

-----------------------------------------------------------------------------
(* Contents and directory entries.                                         *)

Disks == [Roles -> [Paths -> Contents]]

LEMMA Makes ==
    /\ None \in Contents /\ None.by = "none" /\ Link \in Contents /\ Link.by = "link"
    /\ \A by \in Makers, n \in Nat :
          Content(by, n) \in Contents /\ Content(by, n).by = by /\ Content(by, n).n = n
BY DEF None, Link, Content, Contents, Makers

(* What the patch makes of a path is nothing else, and not that of another *)
(* path.                                                                   *)
LEMMA MarkedOnce ==
    /\ \A p \in Paths : Marked(p) \in Contents /\ Marked(p).by = "patch" /\ Marked(p) # None
    /\ \A p, q \in Paths : Marked(p) = Marked(q) => p = q
<1>1. \A p \in Paths : Index(p) \in Nat
  BY Orders
<1>2. \A p \in Paths : Marked(p) \in Contents /\ Marked(p).by = "patch" /\ Marked(p).n = Index(p)
  BY <1>1, Makes DEF Marked, Makers
<1> QED BY <1>2, Makes, Numbers

LEMMA Finals ==
    /\ \A p \in Paths : Final(p) = Marked(p) \/ Final(p) = None
    /\ \A p \in Paths : Final(p) \in Contents
    /\ \A p \in Paths : ~Entry(p) => Final(p) = None
<1>1. \A p \in Paths : Final(p) = Marked(p) \/ Final(p) = None
  BY DEF Final, Marked
<1>2. \A p \in Paths : ~Entry(p) => Final(p) = None
  BY DEF Final, Entry
<1> QED BY <1>1, <1>2, Makes, MarkedOnce

(* A rename, entry by entry.                                               *)
LEMMA Renames ==
    ASSUME disk \in Disks, NEW p \in Paths, NEW f \in Roles, NEW t \in Roles, f # t
    PROVE  /\ Moved(disk, p, f, t) \in Disks
           /\ Moved(disk, p, f, t)[f][p] = None /\ Moved(disk, p, f, t)[t][p] = disk[f][p]
           /\ \A r \in Roles, x \in Paths :
                 x # p \/ (r # f /\ r # t) => Moved(disk, p, f, t)[r][x] = disk[r][x]
<1>1. None \in Contents
  BY Makes
<1>2. disk[f] \in [Paths -> Contents] /\ disk[t] \in [Paths -> Contents] /\ disk[f][p] \in Contents
  BY DEF Disks
<1> DEFINE e == [disk[f] EXCEPT ![p] = None]
           g == [disk[t] EXCEPT ![p] = disk[f][p]]
<1>3. /\ e \in [Paths -> Contents] /\ e[p] = None /\ \A x \in Paths : x # p => e[x] = disk[f][x]
      /\ g \in [Paths -> Contents] /\ g[p] = disk[f][p] /\ \A x \in Paths : x # p => g[x] = disk[t][x]
  BY <1>1, <1>2
<1>4. Moved(disk, p, f, t) = [disk EXCEPT ![f] = e, ![t] = g]
  BY DEF Moved, Disks
<1> HIDE DEF e, g
<1>5. /\ Moved(disk, p, f, t) \in Disks /\ Moved(disk, p, f, t)[f] = e
      /\ Moved(disk, p, f, t)[t] = g
      /\ \A r \in Roles : r # f /\ r # t => Moved(disk, p, f, t)[r] = disk[r]
  BY <1>3, <1>4 DEF Disks
<1> QED BY <1>3, <1>5

(* One entry is replaced.                                                  *)
LEMMA Replaces ==
    ASSUME NEW d \in Disks, NEW p \in Paths, NEW t \in Roles, NEW c \in Contents
    PROVE  /\ [d EXCEPT ![t][p] = c] \in Disks /\ [d EXCEPT ![t][p] = c][t][p] = c
           /\ \A r \in Roles, x \in Paths :
                 r # t \/ x # p => [d EXCEPT ![t][p] = c][r][x] = d[r][x]
<1> DEFINE e == [d[t] EXCEPT ![p] = c]
<1>1. e \in [Paths -> Contents] /\ e[p] = c /\ \A x \in Paths : x # p => e[x] = d[t][x]
  BY DEF Disks
<1>2. [d EXCEPT ![t][p] = c] = [d EXCEPT ![t] = e]
  BY DEF Disks
<1> HIDE DEF e
<1>3. /\ [d EXCEPT ![t][p] = c] \in Disks /\ [d EXCEPT ![t][p] = c][t] = e
      /\ \A r \in Roles : r # t => [d EXCEPT ![t][p] = c][r] = d[r]
  BY <1>1, <1>2 DEF Disks
<1> QED BY <1>1, <1>3

(* Entry::drop: what was staged is removed.                                *)
LEMMA Unstages ==
    ASSUME NEW d \in Disks
    PROVE  /\ [d EXCEPT !["staged"] = [p \in Paths |-> None]] \in Disks
           /\ \A r \in Roles, x \in Paths :
                 [d EXCEPT !["staged"] = [p \in Paths |-> None]][r][x] =
                    IF r = "staged" THEN None ELSE d[r][x]
<1> DEFINE e == [p \in Paths |-> None]
<1>1. e \in [Paths -> Contents] /\ \A x \in Paths : e[x] = None
  BY Makes
<1> HIDE DEF e
<1>2. "staged" \in Roles
  BY DEF Roles
<1>3. /\ [d EXCEPT !["staged"] = e] \in Disks /\ [d EXCEPT !["staged"] = e]["staged"] = e
      /\ \A r \in Roles : r # "staged" => [d EXCEPT !["staged"] = e][r] = d[r]
  BY <1>1, <1>2 DEF Disks
<1>4. \A r \in Roles, x \in Paths :
         [d EXCEPT !["staged"] = e][r][x] = IF r = "staged" THEN None ELSE d[r][x]
  BY <1>1, <1>3
<1> QED BY <1>3, <1>4 DEF e

-----------------------------------------------------------------------------
(* The way of the patch through its entries.                               *)

(* Everything but the place of the patch.                                  *)
Same(q, r) ==
    /\ q.ops = r.ops /\ q.original = r.original /\ q.quarantine = r.quarantine
    /\ q.published = r.published /\ q.failures = r.failures /\ q.start = r.start

Following ==
    [plan |-> "check", check |-> "open", open |-> "stage", stage |-> "claim",
     claim |-> "publish", publish |-> "cleanup", cleanup |-> "ok"]

(* The next entry, or the first of the next phase.                         *)
LEMMA Onward ==
    ASSUME Types, Placed, patch.phase \in Early \cup Late,
           NEW r \in PatchType, r.ops = patch.ops, r.phase = patch.phase, r.i = patch.i
    PROVE  /\ After(r) \in PatchType /\ Same(After(r), r) /\ After(r).step = r.step
           /\ After(r).i \in Entries(patch.ops) /\ After(r).i \in Nat
           /\ \/ /\ After(r).phase = r.phase
                 /\ \A p \in Paths : Entry(p) =>
                       (Index(p) < After(r).i <=> (Behind(p) \/ p = Path))
                 /\ \A p \in Paths : Entry(p) /\ Index(p) >= After(r).i => Ahead(p)
              \/ /\ After(r).phase = Following[r.phase]
                 /\ \A p \in Paths : Entry(p) => ~Ahead(p) /\ Index(p) >= After(r).i
<1>1. /\ patch.ops \in [Paths -> Operations] /\ patch.i \in Nat
      /\ Path \in Paths /\ Entry(Path) /\ Index(Path) = patch.i
      /\ \A p \in Paths : p = Path \/ Behind(p) \/ Ahead(p)
  BY Here DEF Types, PatchType, Active
<1>2. \A p \in Paths : Entry(p) => Index(p) \in Entries(patch.ops) /\ Index(p) \in Nat
  BY Orders DEF Entries, Entry
<1>3. CASE Later # {}
  <2>1. Later \in SUBSET Nat /\ Later \subseteq Entries(patch.ops)
    BY Orders DEF Later, Entries
  <2>2. Min(Later) \in Later /\ \A n \in Later : Min(Later) <= n
    BY <1>3, <2>1, Least
  <2>3. Min(Later) \in Entries(patch.ops) /\ Min(Later) > patch.i /\ Min(Later) \in Nat
    BY <2>1, <2>2 DEF Later
  <2>4. \A p \in Paths : Entry(p) /\ Ahead(p) => Min(Later) <= Index(p)
    BY <1>2, <2>2 DEF Later, Ahead
  <2> DEFINE n == Min(Later)
  <2>5. After(r) = [r EXCEPT !.i = n]
    BY <1>3 DEF After
  <2> HIDE DEF n
  <2>6. /\ After(r) \in PatchType /\ Same(After(r), r) /\ After(r).step = r.step
        /\ After(r).i = n /\ After(r).phase = r.phase
    BY <2>3, <2>5 DEF PatchType, Same, n
  <2>7. \A p \in Paths : Entry(p) => (Index(p) < n <=> (Behind(p) \/ p = Path))
    BY <1>1, <1>2, <2>3, <2>4 DEF Behind, n
  <2>8. \A p \in Paths : Entry(p) /\ Index(p) >= n => Ahead(p)
    BY <1>2, <1>1, <2>3 DEF Ahead, n
  <2> QED BY <2>3, <2>6, <2>7, <2>8 DEF n
<1>4. CASE Later = {}
  <2> DEFINE n == Min(Entries(patch.ops))
             k == CHOOSE j \in DOMAIN Phases : Phases[j] = r.phase
  <2>1. n \in Entries(patch.ops) /\ n \in Nat /\ \A p \in Paths : Entry(p) => n <= Index(p)
    BY <1>1, Ends DEF Entry
  <2>2. \A p \in Paths : Entry(p) => ~Ahead(p)
    BY <1>2, <1>4 DEF Later, Ahead
  <2>3. After(r) = [r EXCEPT !.i = n, !.phase = Phases[1 + k]]
    BY <1>4 DEF After
  <2>4. Phases[1 + k] = Following[r.phase] /\ Following[r.phase] \in PhaseNames
    <3>1. /\ DOMAIN Phases = 1..8 /\ Phases[1] = "plan" /\ Phases[2] = "check"
          /\ Phases[3] = "open" /\ Phases[4] = "stage" /\ Phases[5] = "claim"
          /\ Phases[6] = "publish" /\ Phases[7] = "cleanup" /\ Phases[8] = "ok"
      BY DEF Phases
    <3>2. \E j \in 1..7 : Phases[j] = r.phase
      BY <3>1 DEF Early, Late
    <3>3. k \in 1..8 /\ Phases[k] = r.phase
      BY <3>1, <3>2
    <3> HIDE DEF k
    <3>4. r.phase \in {"plan", "check", "open", "stage", "claim", "publish", "cleanup"}
      BY DEF Early, Late
    <3>5. \/ k = 1 /\ r.phase = "plan"
          \/ k = 2 /\ r.phase = "check"
          \/ k = 3 /\ r.phase = "open"
          \/ k = 4 /\ r.phase = "stage"
          \/ k = 5 /\ r.phase = "claim"
          \/ k = 6 /\ r.phase = "publish"
          \/ k = 7 /\ r.phase = "cleanup"
      BY <3>1, <3>3, <3>4
    <3> QED BY <3>1, <3>5 DEF Following, PhaseNames, Active, Early, Late
  <2> HIDE DEF n, k
  <2>5. /\ After(r) \in PatchType /\ Same(After(r), r) /\ After(r).step = r.step
        /\ After(r).i = n /\ After(r).phase = Following[r.phase]
    BY <2>1, <2>3, <2>4 DEF PatchType, Same
  <2> QED BY <1>2, <2>1, <2>2, <2>5
<1> QED BY <1>3, <1>4

(* The entry before, or the end.                                           *)
LEMMA Backward ==
    ASSUME Types, Placed, patch.phase = "rollback",
           NEW r \in PatchType, r.ops = patch.ops, r.phase = patch.phase, r.i = patch.i
    PROVE  /\ Before(r) \in PatchType /\ Same(Before(r), r)
           /\ \/ /\ Earlier # {} /\ Before(r).phase = "rollback" /\ Before(r).step = "take"
                 /\ Before(r).i \in Entries(patch.ops) /\ Before(r).i \in Nat
                 /\ \A p \in Paths : Entry(p) =>
                       (Index(p) > Before(r).i <=> (Ahead(p) \/ p = Path))
                 /\ \A p \in Paths : Entry(p) /\ Index(p) <= Before(r).i => Behind(p)
              \/ /\ Earlier = {} /\ Before(r).step = "begin"
                 /\ Before(r).phase = IF r.failures = {} THEN "failed" ELSE "unsafe"
                 /\ \A p \in Paths : Entry(p) => Ahead(p) \/ p = Path
<1>1. /\ patch.i \in Nat /\ Path \in Paths /\ Entry(Path) /\ Index(Path) = patch.i
      /\ \A p \in Paths : p = Path \/ Behind(p) \/ Ahead(p)
  BY Here DEF Active
<1>2. \A p \in Paths : Entry(p) => Index(p) \in Entries(patch.ops) /\ Index(p) \in Nat
  BY Orders DEF Entries, Entry
<1>3. CASE Earlier # {}
  <2>1. Earlier \in SUBSET (1..Len(Order)) /\ Earlier \subseteq Entries(patch.ops) /\ Len(Order) \in Nat
    BY Orders DEF Earlier, Entries
  <2>2. Max(Earlier) \in Earlier /\ \A n \in Earlier : Max(Earlier) >= n
    BY <1>3, <2>1, Greatest
  <2>3. Max(Earlier) \in Entries(patch.ops) /\ Max(Earlier) < patch.i /\ Max(Earlier) \in Nat
    <3>1. \A n \in Earlier : n \in Entries(patch.ops) /\ n < patch.i
      BY DEF Earlier
    <3>2. \A n \in Earlier : n \in Nat
      BY <2>1
    <3> QED BY <2>2, <3>1, <3>2
  <2>4. \A p \in Paths : Entry(p) /\ Behind(p) => Max(Earlier) >= Index(p)
    BY <1>2, <2>2 DEF Earlier, Behind
  <2> DEFINE n == Max(Earlier)
  <2>5. Before(r) = [r EXCEPT !.i = n, !.step = "take"]
    BY <1>3 DEF Before
  <2> HIDE DEF n
  <2>6. /\ Before(r) \in PatchType /\ Same(Before(r), r) /\ Before(r).step = "take"
        /\ Before(r).i = n /\ Before(r).phase = r.phase
    BY <2>3, <2>5 DEF PatchType, Same, n
  <2>7. \A p \in Paths : Entry(p) => (Index(p) > n <=> (Ahead(p) \/ p = Path))
    BY <1>1, <1>2, <2>3, <2>4 DEF Ahead, n
  <2>8. \A p \in Paths : Entry(p) /\ Index(p) <= n => Behind(p)
    BY <1>2, <1>1, <2>3 DEF Behind, n
  <2> QED BY <1>3, <2>3, <2>6, <2>7, <2>8 DEF n
<1>4. CASE Earlier = {}
  <2>1. \A p \in Paths : Entry(p) => ~Behind(p)
    BY <1>2, <1>4 DEF Earlier, Behind
  <2>2. Before(r) = [r EXCEPT !.step = "begin", !.phase = IF r.failures = {} THEN "failed" ELSE "unsafe"]
    BY <1>4 DEF Before
  <2>3. /\ Before(r) \in PatchType /\ Same(Before(r), r) /\ Before(r).step = "begin"
        /\ Before(r).phase = IF r.failures = {} THEN "failed" ELSE "unsafe"
    BY <2>2 DEF PatchType, Same, PhaseNames
  <2> QED BY <1>1, <1>4, <2>1, <2>3
<1> QED BY <1>3, <1>4

-----------------------------------------------------------------------------
(* Steps of the others: Move, Delete, Write, Edit, shell jobs, the user.   *)

Outside == {"path", "aside", "written"}

(* One file gets another name, at which whatever was there is gone.        *)
Shifted(f, a, t, b) ==
    /\ disk'[f][a] = None /\ disk'[t][b] = disk[f][a]
    /\ \A r \in Roles, x \in Paths :
          (r # f \/ x # a) /\ (r # t \/ x # b) => disk'[r][x] = disk[r][x]

(* One name gets other content.                                            *)
Changed(t, b, c) ==
    disk'[t][b] = c /\ \A r \in Roles, x \in Paths : r # t \/ x # b => disk'[r][x] = disk[r][x]

LEMMA Puts ==
    ASSUME disk \in Disks, NEW p \in Paths, NEW t \in Roles, NEW c \in Contents,
           disk' = [disk EXCEPT ![t][p] = c]
    PROVE  disk' \in Disks /\ Changed(t, p, c)
<1> DEFINE e == [disk[t] EXCEPT ![p] = c]
<1>1. e \in [Paths -> Contents] /\ e[p] = c /\ \A x \in Paths : x # p => e[x] = disk[t][x]
  BY DEF Disks
<1>2. disk' = [disk EXCEPT ![t] = e]
  BY DEF Disks
<1> HIDE DEF e
<1>3. disk' \in Disks /\ disk'[t] = e /\ \A r \in Roles : r # t => disk'[r] = disk[r]
  BY <1>1, <1>2 DEF Disks
<1> QED BY <1>1, <1>3 DEF Changed

(* What a step does to the marks, when they come from where they are now.  *)
LEMMA MarksFollow ==
    ASSUME Marks, UNCHANGED patch,
           \A r \in Roles, x \in Paths : disk'[r][x].by = "patch" =>
              \E s \in Roles, y \in Paths :
                 disk[s][y] = disk'[r][x] /\ (s = "staged" => r = s /\ x = y),
           \A q \in Paths, r, s \in Roles, x, y \in Paths :
              disk'[r][x] = Marked(q) /\ disk'[s][y] = Marked(q) => r = s /\ x = y
    PROVE  Marks'
<1>1. \A p \in Paths : Marked(p).by = "patch"
  BY MarkedOnce
<1>2. ASSUME NEW p \in Paths, OnlyStaged(p)
      PROVE  OnlyStaged(p)'
  <2> SUFFICES ASSUME NEW r \in Roles, NEW x \in Paths, disk'[r][x] = Marked(p)
               PROVE  r = "staged" /\ x = p
    BY DEF OnlyStaged, Marked
  <2>1. PICK s \in Roles, y \in Paths :
           disk[s][y] = disk'[r][x] /\ (s = "staged" => r = s /\ x = y)
    BY <1>1
  <2>2. s = "staged" /\ y = p
    BY <1>2, <2>1 DEF OnlyStaged
  <2> QED BY <2>1, <2>2
<1>3. \A p \in Paths : (Entry(p)' <=> Entry(p)) /\ (Ahead(p)' <=> Ahead(p))
  BY DEF Entry, Ahead
<1>4. \A r \in Roles, x \in Paths :
         disk'[r][x].by = "patch" => \E p \in Paths : disk'[r][x] = Marked(p)
  BY DEF Marks
<1>5. \A p \in Paths : p \notin patch'.published => OnlyStaged(p)'
  BY <1>2 DEF Marks
<1>6. patch'.phase = "rollback" => \A p \in Paths :
          Entry(p)' /\ Ahead(p)' /\ p \notin patch'.failures => OnlyStaged(p)'
  BY <1>2, <1>3 DEF Marks
<1>7. patch'.phase = "failed" => \A p \in Paths : OnlyStaged(p)'
  BY <1>2 DEF Marks
<1> QED BY <1>4, <1>5, <1>6, <1>7 DEF Marks, Marked

LEMMA MarksShift ==
    ASSUME Marks, UNCHANGED patch, NEW f \in Outside, NEW t \in Outside, f # t,
           NEW a \in Paths, NEW b \in Paths, Shifted(f, a, t, b)
    PROVE  Marks'
<1>1. f \in Roles /\ t \in Roles /\ f # "staged" /\ t # "staged" /\ None.by # "patch"
  BY Makes DEF Outside, Roles
<1>2. \A p \in Paths : Marked(p) # None
  BY MarkedOnce
<1>3. \A r \in Roles, x \in Paths : disk'[r][x].by = "patch" =>
         \E s \in Roles, y \in Paths :
            disk[s][y] = disk'[r][x] /\ (s = "staged" => r = s /\ x = y)
  <2> SUFFICES ASSUME NEW r \in Roles, NEW x \in Paths, disk'[r][x].by = "patch"
               PROVE  \E s \in Roles, y \in Paths :
                         disk[s][y] = disk'[r][x] /\ (s = "staged" => r = s /\ x = y)
    OBVIOUS
  <2>1. CASE r = f /\ x = a
    BY <1>1, <2>1 DEF Shifted
  <2>2. CASE r = t /\ x = b
    BY <1>1, <2>2 DEF Shifted
  <2>3. CASE (r # f \/ x # a) /\ (r # t \/ x # b)
    BY <2>3 DEF Shifted
  <2> QED BY <2>1, <2>2, <2>3
<1>4. ASSUME NEW q \in Paths, NEW r \in Roles, NEW s \in Roles, NEW x \in Paths, NEW y \in Paths,
             disk'[r][x] = Marked(q), disk'[s][y] = Marked(q)
      PROVE  r = s /\ x = y
  <2>1. \A u, v \in Roles, w, z \in Paths :
           disk[u][w] = Marked(q) /\ disk[v][z] = Marked(q) => u = v /\ w = z
    BY DEF Marks
  <2>2. ~(r = f /\ x = a) /\ ~(s = f /\ y = a)
    BY <1>2, <1>4 DEF Shifted
  <2>3. \/ r = t /\ x = b /\ disk[f][a] = Marked(q)
        \/ ~(r = t /\ x = b) /\ disk[r][x] = Marked(q)
    BY <1>4, <2>2 DEF Shifted
  <2>4. \/ s = t /\ y = b /\ disk[f][a] = Marked(q)
        \/ ~(s = t /\ y = b) /\ disk[s][y] = Marked(q)
    BY <1>4, <2>2 DEF Shifted
  <2> QED BY <1>1, <2>1, <2>2, <2>3, <2>4
<1> QED BY <1>3, <1>4, MarksFollow

LEMMA MarksChange ==
    ASSUME Marks, UNCHANGED patch, NEW t \in Outside, NEW b \in Paths, NEW c, c.by # "patch",
           Changed(t, b, c)
    PROVE  Marks'
<1>1. t \in Roles /\ \A p \in Paths : Marked(p).by = "patch"
  BY MarkedOnce DEF Outside, Roles
<1>2. \A r \in Roles, x \in Paths : disk'[r][x].by = "patch" => disk[r][x] = disk'[r][x]
  BY <1>1 DEF Changed
<1>3. \A q \in Paths, r, s \in Roles, x, y \in Paths :
         disk'[r][x] = Marked(q) /\ disk'[s][y] = Marked(q) => r = s /\ x = y
  BY <1>1, <1>2 DEF Marks
<1> QED BY <1>2, <1>3, MarksFollow

(* What is owed is still there.                                            *)
LEMMA DebtsShift ==
    ASSUME Debts, NEW f \in Roles, NEW t \in Roles, f # t, NEW a \in Paths, NEW b \in Paths,
           Shifted(f, a, t, b),
           \A c \in owed' : c # None /\ c.by # "patch"
                               /\ (c = disk[f][a] \/ (c \in owed /\ c # disk[t][b]))
    PROVE  Debts'
<1>1. ASSUME NEW c \in owed'
      PROVE  \E r \in Roles, x \in Paths : disk'[r][x] = c
  <2>1. CASE c = disk[f][a]
    BY <2>1 DEF Shifted
  <2>2. CASE c # disk[f][a]
    <3>1. PICK r \in Roles, x \in Paths : disk[r][x] = c
      BY <1>1, <2>2 DEF Debts, NothingLost
    <3>2. disk'[r][x] = c
      BY <1>1, <2>2, <3>1 DEF Shifted
    <3> QED BY <3>2
  <2> QED BY <2>1, <2>2
<1> QED BY <1>1 DEF Debts, NothingLost

LEMMA DebtsChange ==
    ASSUME Debts, NEW t \in Roles, NEW b \in Paths, NEW e, Changed(t, b, e),
           \A c \in owed' : c # None /\ c.by # "patch"
                               /\ (c = e \/ (c \in owed /\ c # disk[t][b]))
    PROVE  Debts'
<1>1. ASSUME NEW c \in owed'
      PROVE  \E r \in Roles, x \in Paths : disk'[r][x] = c
  <2>1. CASE c = e
    BY <2>1 DEF Changed
  <2>2. CASE c # e
    <3>1. PICK r \in Roles, x \in Paths : disk[r][x] = c
      BY <1>1, <2>2 DEF Debts, NothingLost
    <3>2. disk'[r][x] = c
      BY <1>1, <2>2, <3>1 DEF Changed
    <3> QED BY <3>2
  <2> QED BY <2>1, <2>2
<1> QED BY <1>1 DEF Debts, NothingLost

(* The patch does not notice, but for its paths.                           *)
LEMMA Aloof ==
    ASSUME Placed, Recorded, Temporary, Undisturbed, UNCHANGED patch,
           \A r \in {"staged", "claimed", "output"}, x \in Paths : disk'[r][x] = disk[r][x],
           \/ met' \/ patch.phase = "idle"
           \/ UNCHANGED met /\ \A x \in Paths : disk'["path"][x] = disk["path"][x]
    PROVE  Placed' /\ Recorded' /\ Temporary' /\ Undisturbed'
<1>1. Path' = Path /\ \A p \in Paths :
         /\ (Entry(p)' <=> Entry(p)) /\ (Behind(p)' <=> Behind(p)) /\ (Ahead(p)' <=> Ahead(p))
         /\ Final(p)' = Final(p) /\ (Planned(p)' <=> Planned(p))
  BY DEF Entry, Behind, Ahead, Final, Path, Planned
<1>2. Placed'
  BY DEF Placed, Entries
<1>3. Recorded'
  BY <1>1 DEF Recorded
<1>4. Temporary'
  BY <1>1 DEF Temporary
<1>5. CASE met' \/ patch.phase = "idle"
  <2>1. Undisturbed'
    BY <1>5 DEF Undisturbed, Early, Late, Active
  <2> QED BY <1>2, <1>3, <1>4, <2>1
<1>6. CASE UNCHANGED met /\ \A x \in Paths : disk'["path"][x] = disk["path"][x]
  <2>1. \A p \in Paths : At(p)' = At(p) /\ (Standing(p)' <=> Standing(p))
    BY <1>1, <1>6 DEF At, Standing
  <2>2. Undisturbed'
    BY <1>1, <1>6, <2>1 DEF Undisturbed
  <2> QED BY <1>2, <1>3, <1>4, <2>2
<1> QED BY <1>5, <1>6

(* What a step of others has to show.                                      *)
LEMMA OthersKeep ==
    ASSUME WorkspaceInv, Types', UNCHANGED patch, Marks', Apart', Debts',
           \A r \in {"staged", "claimed", "output"}, x \in Paths : disk'[r][x] = disk[r][x],
           \/ met' \/ patch.phase = "idle"
           \/ UNCHANGED met /\ \A x \in Paths : disk'["path"][x] = disk["path"][x]
    PROVE  WorkspaceInv'
<1>1. Placed' /\ Recorded' /\ Temporary' /\ Undisturbed'
  BY Aloof DEF WorkspaceInv
<1> QED BY <1>1 DEF WorkspaceInv

LEMMA AsideKeeps ==
    ASSUME WorkspaceInv, NEW p \in Paths, NEW d \in SUBSET Paths, Aside(p, d)
    PROVE  WorkspaceInv'
<1>1. Types /\ Marks /\ Apart /\ Debts /\ disk \in Disks /\ "path" \in Roles /\ "aside" \in Roles
  BY DEF WorkspaceInv, Types, Disks, Roles
<1>2. disk' \in Disks /\ Shifted("path", p, "aside", p)
  BY <1>1, Renames DEF Aside, Shifted
<1>3. Types'
  BY <1>1, <1>2 DEF Aside, Types, Disks, Begun
<1>4. disk["aside"][p] = None
  BY <1>1 DEF Aside, Apart
<1>5. Marks'
  BY <1>1, <1>2, MarksShift DEF Aside, Outside
<1>6. Debts'
  <2>1. \A c \in owed' : c # None /\ c.by # "patch" /\ c \in owed /\ c # disk["aside"][p]
    BY <1>1, <1>4 DEF Aside, Debts
  <2> QED BY <1>1, <1>2, <2>1, DebtsShift
<1>7. Apart'
  <2>1. \A x \in Paths : disk'["aside"][x] # None => x = p
    BY <1>1, <1>2 DEF Aside, Apart, Shifted
  <2>2. \A x \in Paths : disk'["written"][x] = disk["written"][x]
    BY <1>2 DEF Shifted, Roles
  <2>3. life'.phase = "aside" /\ life'.source = p /\ writer' = writer /\ writer.path \in Paths
    BY <1>1 DEF Aside, Types
  <2> QED BY <1>1, <2>1, <2>2, <2>3 DEF Apart
<1>8. \A r \in {"staged", "claimed", "output"}, x \in Paths : disk'[r][x] = disk[r][x]
  BY <1>2 DEF Shifted, Roles
<1>9. UNCHANGED patch /\ (met' \/ patch.phase = "idle")
  BY DEF Aside, Begun
<1> QED BY <1>3, <1>5, <1>6, <1>7, <1>8, <1>9, OthersKeep

LEMMA MutateKeeps ==
    ASSUME WorkspaceInv, Mutate
    PROVE  WorkspaceInv'
<1>1. /\ Types /\ Marks /\ Apart /\ Debts /\ disk \in Disks /\ "path" \in Roles /\ "aside" \in Roles
      /\ life.source \in Paths /\ life.destination \subseteq Paths
  BY DEF WorkspaceInv, Types, Disks, Roles
<1> DEFINE s == life.source
           held == disk["aside"][s]
           empty == [disk EXCEPT !["aside"][s] = None]
<1>2. /\ empty \in Disks /\ empty["aside"][s] = None
      /\ \A r \in Roles, x \in Paths : r # "aside" \/ x # s => empty[r][x] = disk[r][x]
  BY <1>1, Makes, Replaces
<1>3. /\ life' = [life EXCEPT !.phase = "idle"] /\ met' = Begun /\ Fits
      /\ UNCHANGED <<patch, writer, others>>
      /\ \/ \E p \in life.destination : disk' = [empty EXCEPT !["path"][p] = held] /\ UNCHANGED owed
         \/ disk' = empty /\ owed' = owed \ {held}
  BY DEF Mutate
<1>4. held \in Contents
  BY <1>1 DEF Disks
<1>5. /\ disk' \in Disks /\ Marks' /\ Debts' /\ owed' \subseteq owed /\ disk'["aside"][s] = None
      /\ \A r \in Roles \ {"path"}, x \in Paths : r # "aside" \/ x # s => disk'[r][x] = disk[r][x]
  <2>1. CASE \E p \in life.destination : disk' = [empty EXCEPT !["path"][p] = held] /\ UNCHANGED owed
    <3>1. PICK p \in life.destination : disk' = [empty EXCEPT !["path"][p] = held] /\ UNCHANGED owed
      BY <2>1
    <3>2. p \in Paths
      BY <1>1
    <3> DEFINE e == [empty["path"] EXCEPT ![p] = held]
    <3> HIDE DEF empty, held
    <3>3. e \in [Paths -> Contents] /\ e[p] = held /\ \A x \in Paths : x # p => e[x] = empty["path"][x]
      BY <1>1, <1>2, <1>4, <3>2 DEF Disks
    <3>4. disk' = [empty EXCEPT !["path"] = e]
      BY <1>1, <1>2, <3>1 DEF Disks
    <3> HIDE DEF e
    <3>5. disk' \in Disks /\ disk'["path"] = e /\ \A r \in Roles : r # "path" => disk'[r] = empty[r]
      BY <1>1, <1>2, <3>3, <3>4 DEF Disks
    <3>6. Shifted("aside", s, "path", p)
      BY <1>1, <1>2, <3>2, <3>3, <3>5 DEF Shifted, held
    <3>7. At(p) = None
      BY <1>3 DEF Fits
    <3>8. Marks'
      BY <1>1, <1>3, <3>2, <3>6, MarksShift DEF Outside
    <3>9. \A c \in owed' : c # None /\ c.by # "patch" /\ c \in owed /\ c # disk["path"][p]
      BY <1>1, <3>1, <3>7 DEF Debts, At
    <3>10. Debts'
      BY <1>1, <3>2, <3>6, <3>9, DebtsShift
    <3> QED BY <1>1, <3>1, <3>5, <3>6, <3>8, <3>10 DEF Shifted
  <2>2. CASE disk' = empty /\ owed' = owed \ {held}
    <3>1. Changed("aside", s, None) /\ disk' \in Disks
      BY <1>2, <2>2 DEF Changed
    <3>2. Marks'
      BY <1>1, <1>3, <3>1, Makes, MarksChange DEF Outside
    <3>3. \A c \in owed' : c # None /\ c.by # "patch" /\ c \in owed /\ c # disk["aside"][s]
      BY <1>1, <2>2 DEF Debts
    <3>4. Debts'
      BY <1>1, <3>1, <3>3, DebtsChange
    <3> QED BY <2>2, <3>1, <3>2, <3>4 DEF Changed
  <2> QED BY <1>3, <2>1, <2>2
<1> HIDE DEF empty, held
<1>6. /\ life' \in [phase : {"idle", "aside", "stuck"}, source : Paths, destination : SUBSET Paths]
      /\ met' \in BOOLEAN /\ (met' \/ patch.phase = "idle")
  BY <1>1, <1>3 DEF Types, Begun
<1>7. Types'
  BY <1>1, <1>3, <1>5, <1>6 DEF Types, Disks
<1>8. Apart'
  <2>1. \A x \in Paths : disk'["aside"][x] = None
    BY <1>1, <1>5 DEF Apart
  <2>2. \A x \in Paths : disk'["written"][x] = disk["written"][x]
    BY <1>5 DEF Roles
  <2> QED BY <1>1, <1>3, <2>1, <2>2 DEF Apart, Types
<1>9. \A r \in {"staged", "claimed", "output"}, x \in Paths : disk'[r][x] = disk[r][x]
  BY <1>5 DEF Roles
<1> QED BY <1>3, <1>5, <1>6, <1>7, <1>8, <1>9, OthersKeep

LEMMA RestoredKeeps ==
    ASSUME WorkspaceInv, Restored
    PROVE  WorkspaceInv'
<1>1. /\ Types /\ Marks /\ Apart /\ Debts /\ disk \in Disks /\ "path" \in Roles /\ "aside" \in Roles
      /\ life.source \in Paths /\ life.phase = "aside" /\ UNCHANGED <<patch, writer, others, owed>>
  BY DEF WorkspaceInv, Types, Disks, Roles, Restored
<1> DEFINE s == life.source
<1>2. /\ life' \in [phase : {"idle", "aside", "stuck"}, source : Paths, destination : SUBSET Paths]
      /\ life'.source = s /\ life'.phase = IF At(s) = None THEN "idle" ELSE "stuck"
      /\ met' \in BOOLEAN /\ (met' \/ patch.phase = "idle")
  BY <1>1 DEF Types, Begun, Restored
<1>3. CASE At(s) = None
  <2>1. disk' \in Disks /\ Shifted("aside", s, "path", s)
    BY <1>1, <1>3, Renames DEF Restored, Shifted
  <2>2. Types'
    BY <1>1, <1>2, <2>1 DEF Types, Disks
  <2>3. Marks'
    BY <1>1, <2>1, MarksShift DEF Outside
  <2>4. \A c \in owed' : c # None /\ c.by # "patch" /\ c \in owed /\ c # disk["path"][s]
    BY <1>1, <1>3 DEF Debts, At
  <2>5. Debts'
    BY <1>1, <2>1, <2>4, DebtsShift
  <2>6. \A x \in Paths : disk'["aside"][x] = None
    BY <1>1, <2>1 DEF Apart, Shifted
  <2>7. \A r \in {"staged", "claimed", "output", "written"}, x \in Paths : disk'[r][x] = disk[r][x]
    BY <2>1 DEF Shifted, Roles
  <2>8. Apart'
    BY <1>1, <2>6, <2>7 DEF Apart, Types
  <2> QED BY <1>1, <1>2, <2>2, <2>3, <2>5, <2>7, <2>8, OthersKeep
<1>4. CASE At(s) # None
  <2>1. disk' = disk
    BY <1>4 DEF Restored
  <2>2. Types'
    BY <1>1, <1>2, <2>1 DEF Types
  <2>3. Debts' /\ Apart'
    BY <1>1, <1>2, <1>4, <2>1 DEF Debts, NothingLost, Apart
  <2>4. Marks'
    <3>1. \A p \in Paths : OnlyStaged(p)' <=> OnlyStaged(p)
      BY <2>1 DEF OnlyStaged, Marked
    <3> QED BY <1>1, <2>1, <3>1 DEF Marks, Marked, Entry, Ahead
  <2> QED BY <1>1, <1>2, <2>1, <2>2, <2>3, <2>4, OthersKeep
<1> QED BY <1>3, <1>4

LEMMA WriteStagedKeeps ==
    ASSUME WorkspaceInv, NEW p \in Paths, WriteStaged(p)
    PROVE  WorkspaceInv'
<1>1. /\ Types /\ Marks /\ Apart /\ Debts /\ disk \in Disks /\ "written" \in Roles /\ others \in Nat
      /\ UNCHANGED <<patch, life, met, owed>> /\ writer.phase = "idle" /\ others' = others + 1
      /\ writer' = [phase |-> "staged", path |-> p]
  BY DEF WorkspaceInv, Types, Disks, Roles, WriteStaged
<1> DEFINE c == Content("tool", others)
<1>2. c \in Contents /\ c.by = "tool" /\ c # None
  BY <1>1, Makes DEF Makers
<1>3. disk' = [disk EXCEPT !["written"][p] = c]
  BY DEF WriteStaged
<1> HIDE DEF c
<1>4. disk' \in Disks /\ Changed("written", p, c)
  BY <1>1, <1>2, <1>3, Puts
<1>5. Types'
  BY <1>1, <1>4 DEF Types, Disks
<1>6. Marks'
  BY <1>1, <1>2, <1>4, MarksChange DEF Outside
<1>7. disk["written"][p] = None
  BY <1>1 DEF Apart
<1>8. \A e \in owed' : e # None /\ e.by # "patch" /\ e \in owed /\ e # disk["written"][p]
  BY <1>1, <1>7 DEF Debts
<1>9. Debts'
  BY <1>1, <1>4, <1>8, DebtsChange
<1>10. \A r \in Roles \ {"written"}, x \in Paths : disk'[r][x] = disk[r][x]
  BY <1>4 DEF Changed
<1>11. Apart'
  <2>1. \A x \in Paths : disk'["aside"][x] = disk["aside"][x]
    BY <1>10 DEF Roles
  <2>2. \A x \in Paths : x # p => disk'["written"][x] = None
    BY <1>1, <1>4 DEF Apart, Changed
  <2>3. disk'["written"][p] = c
    BY <1>4 DEF Changed
  <2> QED BY <1>1, <1>2, <2>1, <2>2, <2>3, Makes DEF Apart
<1>12. /\ \A r \in {"staged", "claimed", "output"}, x \in Paths : disk'[r][x] = disk[r][x]
       /\ \A x \in Paths : disk'["path"][x] = disk["path"][x]
  BY <1>10 DEF Roles
<1> QED BY <1>1, <1>5, <1>6, <1>9, <1>11, <1>12, OthersKeep

LEMMA WrittenKeeps ==
    ASSUME WorkspaceInv, Written
    PROVE  WorkspaceInv'
<1>1. /\ Types /\ Marks /\ Apart /\ Debts /\ disk \in Disks /\ "path" \in Roles /\ "written" \in Roles
      /\ writer.path \in Paths /\ writer.phase = "staged" /\ UNCHANGED <<patch, life, others>>
  BY DEF WorkspaceInv, Types, Disks, Roles, Written
<1> DEFINE p == writer.path
           w == disk["written"][p]
<1>2. w \in Contents /\ w # None /\ w.by # "patch"
  BY <1>1 DEF Apart, Disks
<1>3. disk' \in Disks /\ Shifted("written", p, "path", p)
  BY <1>1, Renames DEF Written, Shifted
<1>4. owed' = (owed \ {At(p)}) \cup {w}
  BY DEF Written
<1> HIDE DEF w
<1>5. /\ writer' \in [phase : {"idle", "staged"}, path : Paths] /\ writer'.phase = "idle"
      /\ met' \in BOOLEAN /\ (met' \/ patch.phase = "idle")
  BY <1>1 DEF Written, Types, Begun
<1>6. Types'
  BY <1>1, <1>2, <1>3, <1>4, <1>5 DEF Types, Disks
<1>7. Marks'
  BY <1>1, <1>3, MarksShift DEF Outside
<1>8. \A c \in owed' : c # None /\ c.by # "patch"
                          /\ (c = disk["written"][p] \/ (c \in owed /\ c # disk["path"][p]))
  BY <1>1, <1>2, <1>4 DEF Debts, At, w
<1>9. Debts'
  BY <1>1, <1>3, <1>8, DebtsShift
<1>10. \A r \in {"staged", "claimed", "output", "aside"}, x \in Paths : disk'[r][x] = disk[r][x]
  BY <1>3 DEF Shifted, Roles
<1>11. \A x \in Paths : disk'["written"][x] = None
  BY <1>1, <1>3 DEF Apart, Shifted
<1>12. Apart'
  BY <1>1, <1>5, <1>10, <1>11, Makes DEF Apart
<1> QED BY <1>1, <1>5, <1>6, <1>7, <1>9, <1>10, <1>12, OthersKeep

LEMMA OtherKeeps ==
    ASSUME WorkspaceInv, NEW p \in Paths, NEW c \in {None, Link, Content("other", others)},
           Other(p, c)
    PROVE  WorkspaceInv'
<1>1. /\ Types /\ Marks /\ Apart /\ Debts /\ disk \in Disks /\ "path" \in Roles /\ others \in Nat
      /\ UNCHANGED <<patch, life, writer>> /\ others' = others + 1
  BY DEF WorkspaceInv, Types, Disks, Roles, Other
<1>2. c \in Contents /\ c.by # "patch"
  BY <1>1, Makes DEF Makers
<1>3. disk' \in Disks /\ Changed("path", p, c)
  BY <1>1, <1>2, Puts DEF Other
<1>4. /\ owed' = (owed \ {At(p)}) \cup ({c} \ {None})
      /\ met' \in BOOLEAN /\ (met' \/ patch.phase = "idle")
  BY DEF Other, Begun
<1>5. Types'
  BY <1>1, <1>2, <1>3, <1>4 DEF Types, Disks
<1>6. Marks'
  BY <1>1, <1>2, <1>3, MarksChange DEF Outside
<1>7. \A e \in owed' : e # None /\ e.by # "patch" /\ (e = c \/ (e \in owed /\ e # disk["path"][p]))
  BY <1>1, <1>2, <1>4 DEF Debts, At
<1>8. Debts'
  BY <1>1, <1>3, <1>7, DebtsChange
<1>9. \A r \in Roles \ {"path"}, x \in Paths : disk'[r][x] = disk[r][x]
  BY <1>3 DEF Changed
<1>10. \A r \in {"staged", "claimed", "output", "aside", "written"}, x \in Paths :
          disk'[r][x] = disk[r][x]
  BY <1>9 DEF Roles
<1>11. Apart'
  BY <1>1, <1>10 DEF Apart, Types
<1> QED BY <1>1, <1>4, <1>5, <1>6, <1>8, <1>10, <1>11, OthersKeep

-----------------------------------------------------------------------------
(* Steps of the patch up to the last original it releases.                 *)

(* Where the patch is after a step.                                        *)
LEMMA Turned ==
    /\ Path' = Order[patch'.i]
    /\ \A p \in Paths : /\ Behind(p)' <=> Index(p) < patch'.i
                        /\ Ahead(p)' <=> Index(p) > patch'.i
BY DEF Behind, Ahead, Path, Index

(* The patch has gone on: which entries are behind it now.                 *)
LEMMA Advances ==
    ASSUME Types, Placed, patch.phase \in Early \cup Late,
           NEW r \in PatchType, r.ops = patch.ops, r.phase = patch.phase, r.i = patch.i,
           r.step = "begin", patch' = After(r)
    PROVE  /\ patch' \in PatchType /\ Same(patch', r) /\ patch'.step = "begin" /\ Placed'
           /\ \A p \in Paths : (Entry(p)' <=> Entry(p)) /\ Final(p)' = Final(p)
           /\ \A p \in Paths : Ahead(p)' \/ p = Path' => ~Behind(p)'
           /\ \/ /\ patch'.phase = patch.phase
                 /\ \A p \in Paths : Entry(p) =>
                       /\ Behind(p)' <=> Behind(p) \/ p = Path
                       /\ ~Behind(p)' => Ahead(p)
              \/ /\ patch'.phase = Following[patch.phase]
                 /\ \A p \in Paths : Entry(p) => ~Ahead(p) /\ ~Behind(p)'
<1> DEFINE q == After(r)
<1>1. /\ q \in PatchType /\ Same(q, r) /\ q.step = r.step
      /\ q.i \in Entries(patch.ops) /\ q.i \in Nat
      /\ \/ /\ q.phase = r.phase
            /\ \A p \in Paths : Entry(p) => (Index(p) < q.i <=> (Behind(p) \/ p = Path))
            /\ \A p \in Paths : Entry(p) /\ Index(p) >= q.i => Ahead(p)
         \/ /\ q.phase = Following[r.phase]
            /\ \A p \in Paths : Entry(p) => ~Ahead(p) /\ Index(p) >= q.i
  BY Onward
<1>2. patch' = q
  OBVIOUS
<1> HIDE DEF q
<1>3. patch'.ops = patch.ops /\ patch'.i \in DOMAIN Order
  BY <1>1, <1>2 DEF Same, Entries
<1>4. Index(Path') = patch'.i /\ patch'.i \in Nat /\ \A p \in Paths : Index(p) \in Nat
  BY <1>1, <1>2, <1>3, Orders DEF Path
<1>5. \A p \in Paths : (Entry(p)' <=> Entry(p)) /\ Final(p)' = Final(p)
  BY <1>3 DEF Entry, Final
<1>6. \A p \in Paths : Ahead(p)' \/ p = Path' => ~Behind(p)'
  BY <1>4, Turned
<1>7. q.phase # "rollback"
  <2>1. r.phase \in {"plan", "check", "open", "stage", "claim", "publish", "cleanup"}
    BY DEF Early, Late
  <2>2. r.phase # "rollback" /\ Following[r.phase] # "rollback"
    BY <2>1 DEF Following
  <2> QED BY <1>1, <2>2
<1>8. Placed'
  BY <1>1, <1>2, <1>3, <1>7 DEF Placed
<1>9. CASE /\ q.phase = r.phase
           /\ \A p \in Paths : Entry(p) => (Index(p) < q.i <=> (Behind(p) \/ p = Path))
           /\ \A p \in Paths : Entry(p) /\ Index(p) >= q.i => Ahead(p)
  <2>1. \A p \in Paths : Entry(p) =>
           (Behind(p)' <=> Behind(p) \/ p = Path) /\ (~Behind(p)' => Ahead(p))
    BY <1>2, <1>4, <1>9, Turned
  <2> QED BY <1>1, <1>2, <1>5, <1>6, <1>8, <1>9, <2>1
<1>10. CASE /\ q.phase = Following[r.phase]
            /\ \A p \in Paths : Entry(p) => ~Ahead(p) /\ Index(p) >= q.i
  <2>1. \A p \in Paths : Entry(p) => ~Ahead(p) /\ ~Behind(p)'
    BY <1>2, <1>4, <1>10, Turned
  <2> QED BY <1>1, <1>2, <1>5, <1>6, <1>8, <1>10, <2>1
<1> QED BY <1>1, <1>9, <1>10

(* Nothing moves.                                                          *)
LEMMA Quiet ==
    ASSUME WorkspaceInv, UNCHANGED <<disk, life, writer, others, met, owed>>,
           patch' \in PatchType, patch'.published = patch.published,
           patch'.phase \notin {"rollback", "failed"}
    PROVE  Types' /\ Marks' /\ Debts' /\ Apart'
<1>1. Types /\ Marks /\ Debts /\ Apart
  BY DEF WorkspaceInv
<1>2. Types'
  BY <1>1 DEF Types
<1>3. \A p \in Paths : OnlyStaged(p)' <=> OnlyStaged(p)
  BY DEF OnlyStaged, Marked
<1>4. Marks'
  BY <1>1, <1>3 DEF Marks, Marked
<1>5. Debts' /\ Apart'
  BY <1>1 DEF Debts, NothingLost, Apart
<1> QED BY <1>2, <1>4, <1>5

LEMMA BeginKeeps ==
    ASSUME WorkspaceInv, NEW ops \in Patches, Begin(ops)
    PROVE  WorkspaceInv'
<1>1. /\ Types /\ Recorded /\ Temporary /\ disk["path"] \in [Paths -> Contents] /\ patch \in PatchType
      /\ patch.phase = "idle" /\ UNCHANGED <<disk, life, writer, others, met, owed>>
  BY DEF WorkspaceInv, Types, Roles, Begin, alone
<1>2. ops \in [Paths -> Operations] /\ \E p \in Paths : ops[p] # "none"
  BY ConstantsAssumption
<1>3. Min(Entries(ops)) \in Entries(ops) /\ Min(Entries(ops)) \in Nat
      /\ \A p \in Paths : ops[p] # "none" => Min(Entries(ops)) <= Index(p)
  BY <1>2, Ends
<1> DEFINE n == Min(Entries(ops))
           none == [p \in Paths |-> None]
<1>4. patch' = [Idle EXCEPT !.phase = "plan", !.ops = ops, !.i = n, !.start = disk["path"]]
  BY DEF Begin
<1>5. none \in [Paths -> Contents] /\ \A p \in Paths : none[p] = None
  BY Makes
<1> HIDE DEF n, none
<1>6. /\ patch' \in PatchType /\ patch'.phase = "plan" /\ patch'.ops = ops /\ patch'.i = n
      /\ patch'.step = "begin" /\ patch'.original = none /\ patch'.published = {} /\ patch'.failures = {}
      /\ patch'.start = disk["path"] /\ \A p \in Paths : patch'.quarantine[p] = "no"
  BY <1>1, <1>2, <1>3, <1>4, <1>5 DEF Idle, PatchType, PhaseNames, Active, Early, n, none
<1>7. patch.published = {}
  BY <1>1 DEF Recorded, PatchType
<1>8. Types' /\ Marks' /\ Debts' /\ Apart'
  BY <1>1, <1>6, <1>7, Quiet
<1>9. Placed'
  BY <1>3, <1>6 DEF Placed, n
<1>10. Recorded'
  BY <1>5, <1>6, Makes DEF Recorded, Late
<1>11. Temporary'
  <2>1. \A p \in Paths : /\ disk["staged"][p] = None /\ disk["claimed"][p] = None
                         /\ disk["output"][p] = None
    BY <1>1 DEF Temporary, Recorded, Late, Early
  <2> QED BY <1>1, <1>6, <2>1 DEF Temporary, Late
<1>12. Undisturbed'
  <2>1. \A p \in Paths : Entry(p)' => ~Behind(p)'
    <3>1. \A p \in Paths : Index(p) \in Nat
      BY Orders
    <3> QED BY <1>3, <1>6, <3>1, Turned DEF Entry, n
  <2>2. \A p \in Paths : At(p)' = patch'.start[p]
    BY <1>1, <1>6 DEF At
  <2> QED BY <1>6, <2>1, <2>2 DEF Undisturbed, Early, Late, Active
<1> QED BY <1>8, <1>9, <1>10, <1>11, <1>12 DEF WorkspaceInv

(* Refused before anything was claimed.                                    *)
LEMMA RefusedKeeps ==
    ASSUME WorkspaceInv, patch.phase \in Early, Refused,
           UNCHANGED <<life, writer, others, met, owed>>
    PROVE  WorkspaceInv'
<1>1. /\ Types /\ Placed /\ Recorded /\ Temporary /\ Marks /\ Debts /\ Apart /\ Undisturbed
      /\ disk \in Disks /\ patch \in PatchType
  BY DEF WorkspaceInv, Types, Disks
<1>2. /\ disk' \in Disks
      /\ \A r \in Roles, x \in Paths : disk'[r][x] = IF r = "staged" THEN None ELSE disk[r][x]
  BY <1>1, Unstages DEF Refused, Unstaged
<1>3. /\ patch' \in PatchType /\ patch'.phase = "failed" /\ patch'.step = patch.step
      /\ Same(patch', patch)
  BY <1>1 DEF Refused, PatchType, PhaseNames, Same
<1>4. patch.step = "begin" /\ patch.published = {} /\ patch.failures = {}
      /\ \A p \in Paths : patch.quarantine[p] = "no"
  BY <1>1 DEF Placed, Recorded, PatchType, Early
<1>5. Types'
  BY <1>1, <1>2, <1>3 DEF Types, Disks
<1>6. Placed'
  BY <1>3, <1>4 DEF Placed, Active, Early, Late
<1>7. \A p \in Paths : (Entry(p)' <=> Entry(p)) /\ Final(p)' = Final(p)
  BY <1>3 DEF Same, Entry, Final
<1>8. Recorded'
  BY <1>1, <1>3, <1>4, <1>7 DEF Recorded, Same, Early, Late
<1>9. Temporary'
  <2>1. \A p \in Paths : disk["claimed"][p] = None /\ disk["output"][p] = None
    BY <1>1, <1>4 DEF Temporary, Early
  <2>2. \A p \in Paths : /\ disk'["staged"][p] = None /\ disk'["claimed"][p] = None
                         /\ disk'["output"][p] = None
    BY <1>2, <2>1 DEF Roles
  <2> QED BY <1>3, <2>2 DEF Temporary, Late
<1>10. \A r \in Roles, x \in Paths : disk'[r][x].by # "patch"
  <2> SUFFICES ASSUME NEW r \in Roles, NEW x \in Paths, disk'[r][x].by = "patch" PROVE FALSE
    OBVIOUS
  <2>1. r # "staged" /\ disk[r][x] = disk'[r][x]
    BY <1>2, Makes
  <2>2. PICK p \in Paths : disk[r][x] = Marked(p)
    BY <1>1, <2>1 DEF Marks
  <2> QED BY <1>1, <1>4, <2>1, <2>2 DEF Marks, OnlyStaged
<1>11. Marks'
  <2>1. \A p \in Paths, r \in Roles, x \in Paths : disk'[r][x] # Marked(p)
    BY <1>10, MarkedOnce
  <2> QED BY <1>10, <2>1 DEF Marks, OnlyStaged, Marked
<1>12. Debts'
  <2>1. ASSUME NEW c \in owed
        PROVE  \E r \in Roles, x \in Paths : disk'[r][x] = c
    <3>1. PICK r \in Roles, x \in Paths : disk[r][x] = c
      BY <1>1 DEF Debts, NothingLost
    <3>2. r # "staged"
      BY <1>1, <3>1, Finals, MarkedOnce DEF Debts, Temporary
    <3> QED BY <1>2, <3>1, <3>2
  <2> QED BY <1>1, <2>1 DEF Debts, NothingLost
<1>13. Apart'
  <2>1. \A r \in {"aside", "written"}, x \in Paths : disk'[r][x] = disk[r][x]
    BY <1>2 DEF Roles
  <2> QED BY <1>1, <2>1 DEF Apart, Types
<1>14. Undisturbed'
  <2>1. \A p \in Paths : At(p)' = At(p)
    BY <1>2 DEF At, Roles
  <2> QED BY <1>1, <1>3, <2>1 DEF Undisturbed, Same, Early, Late, Active
<1> QED BY <1>5, <1>6, <1>8, <1>9, <1>11, <1>12, <1>13, <1>14 DEF WorkspaceInv

(* Before anything is published, what the patch made is under the name it  *)
(* staged it at.                                                           *)
LEMMA MarksStaged ==
    ASSUME \A p \in Paths : OnlyStaged(p)',
           \A r \in Roles, x \in Paths :
              disk'[r][x].by = "patch" => \E p \in Paths : disk'[r][x] = Marked(p)
    PROVE  Marks'
<1>1. \A p \in Paths, r \in Roles, x \in Paths : disk'[r][x] = Marked(p) => r = "staged" /\ x = p
  BY DEF OnlyStaged, Marked
<1>2. \A p \in Paths, r, s \in Roles, x, y \in Paths :
          disk'[r][x] = Marked(p) /\ disk'[s][y] = Marked(p) => r = s /\ x = y
  BY <1>1
<1> QED BY <1>2 DEF Marks, Marked

(* What holds of a patch that has claimed nothing yet.                     *)
LEMMA Untouched ==
    ASSUME WorkspaceInv, patch.phase \in Early
    PROVE  /\ patch.published = {} /\ patch.failures = {} /\ patch.step = "begin"
           /\ patch \in PatchType /\ patch.phase \in Active
           /\ \A p \in Paths : /\ patch.quarantine[p] = "no" /\ OnlyStaged(p) /\ At(p).by # "patch"
                               /\ patch.original[p].by # "patch"
                               /\ disk["claimed"][p] = None /\ disk["output"][p] = None
<1>1. Types /\ Placed /\ Recorded /\ Temporary /\ Marks
  BY DEF WorkspaceInv
<1>2. patch.published = {} /\ patch.failures = {} /\ patch \in PatchType /\ patch.phase \in Active
  BY <1>1 DEF Types, PatchType, Recorded, Active
<1>3. patch.step = "begin"
  BY <1>1, <1>2 DEF Placed, PatchType, Early
<1>4. \A p \in Paths : /\ patch.quarantine[p] = "no" /\ OnlyStaged(p)
                       /\ patch.original[p].by # "patch"
  BY <1>1, <1>2 DEF Recorded, Marks
<1>5. \A p \in Paths : At(p).by # "patch"
  <2> SUFFICES ASSUME NEW p \in Paths, At(p).by = "patch" PROVE FALSE
    OBVIOUS
  <2>1. "path" \in Roles /\ disk["path"][p].by = "patch"
    BY DEF Roles, At
  <2>2. PICK q \in Paths : disk["path"][p] = Marked(q)
    BY <1>1, <2>1 DEF Marks
  <2> QED BY <1>4, <2>1, <2>2 DEF OnlyStaged
<1>6. \A p \in Paths : disk["claimed"][p] = None /\ disk["output"][p] = None
  BY <1>1, <1>4 DEF Temporary, Early
<1> QED BY <1>2, <1>3, <1>4, <1>5, <1>6

(* A record that still says that nothing has been claimed.                 *)
LEMMA RecordedEarly ==
    ASSUME patch' \in PatchType, patch'.published = {}, patch'.failures = {}, patch'.step = "begin",
           patch'.phase \in Early \cup {"claim"},
           \A p \in Paths : patch'.quarantine[p] = "no" /\ patch'.original[p].by # "patch",
           \A p \in Paths : Entry(p)' => patch'.phase \in Early \/ ~Behind(p)'
    PROVE  Recorded'
BY DEF Recorded, Early, Late

LEMMA InspectKeeps ==
    ASSUME WorkspaceInv, Inspect
    PROVE  WorkspaceInv'
<1>1. /\ Types /\ Placed /\ Temporary /\ Undisturbed /\ patch.phase = "plan"
      /\ UNCHANGED <<life, writer, others, met, owed>> /\ patch.phase \in Early
  BY DEF WorkspaceInv, Inspect, alone, Early
<1> DEFINE c == At(Path)
           r == [patch EXCEPT !.original[Path] = c]
           bad == c = Link \/ ((c = None) # (patch.ops[Path] = "create"))
<1>2. CASE bad
  <2>1. Refused
    BY <1>2 DEF Inspect
  <2> QED BY <1>1, <2>1, RefusedKeeps
<1>3. CASE ~bad
  <2>1. patch' = After(r) /\ disk' = disk
    BY <1>3 DEF Inspect
  <2>2. c # Link /\ (c = None <=> patch.ops[Path] = "create")
    BY <1>3
  <2>3. /\ patch.published = {} /\ patch.failures = {} /\ patch.step = "begin" /\ patch \in PatchType
        /\ patch.phase \in Active
        /\ \A p \in Paths : /\ patch.quarantine[p] = "no" /\ OnlyStaged(p) /\ At(p).by # "patch"
                            /\ patch.original[p].by # "patch"
                            /\ disk["claimed"][p] = None /\ disk["output"][p] = None
    BY <1>1, Untouched
  <2>4. Path \in Paths /\ Entry(Path) /\ \A p \in Paths : p = Path \/ Behind(p) \/ Ahead(p)
    BY <1>1, <2>3, Here
  <2>5. c \in Contents
    BY <1>1, <2>4 DEF Types, At, Roles
  <2> HIDE DEF c, bad
  <2>6. /\ r \in PatchType /\ r.ops = patch.ops /\ r.phase = patch.phase /\ r.i = patch.i
        /\ r.step = "begin" /\ r.quarantine = patch.quarantine /\ r.published = {}
        /\ r.failures = {} /\ r.start = patch.start /\ r.original[Path] = c
        /\ \A p \in Paths : p # Path => r.original[p] = patch.original[p]
    BY <2>3, <2>4, <2>5 DEF PatchType
  <2> HIDE DEF r
  <2>7. /\ patch' \in PatchType /\ Same(patch', r) /\ patch'.step = "begin" /\ Placed'
        /\ \A p \in Paths : (Entry(p)' <=> Entry(p)) /\ Final(p)' = Final(p)
        /\ \/ /\ patch'.phase = patch.phase
              /\ \A p \in Paths : Entry(p) =>
                    /\ Behind(p)' <=> Behind(p) \/ p = Path
                    /\ ~Behind(p)' => Ahead(p)
           \/ /\ patch'.phase = Following[patch.phase]
              /\ \A p \in Paths : Entry(p) => ~Ahead(p) /\ ~Behind(p)'
    BY <1>1, <2>1, <2>6, Advances
  <2>8. patch'.phase \in {"plan", "check"}
    BY <1>1, <2>7 DEF Following
  <2>9. /\ patch'.published = {} /\ patch'.failures = {} /\ patch'.start = patch.start
        /\ patch'.ops = patch.ops /\ patch'.original[Path] = c
        /\ \A p \in Paths : patch'.quarantine[p] = "no"
        /\ \A p \in Paths : p # Path => patch'.original[p] = patch.original[p]
    BY <2>3, <2>6, <2>7 DEF Same
  <2>10. Types' /\ Marks' /\ Debts' /\ Apart'
    BY <1>1, <2>1, <2>3, <2>7, <2>8, <2>9, Quiet
  <2>11. \A p \in Paths : patch'.original[p].by # "patch"
    BY <2>3, <2>4, <2>9 DEF c
  <2>12. Recorded'
    BY <2>7, <2>8, <2>9, <2>11, RecordedEarly DEF Early
  <2>13. Temporary'
    <3>1. \A p \in Paths : disk["staged"][p] = None
      BY <1>1 DEF Temporary, Late
    <3> QED BY <2>1, <2>3, <2>8, <3>1 DEF Temporary, Late
  <2>14. Undisturbed'
    <3> SUFFICES ASSUME ~met PROVE Undisturbed'
      BY <1>1 DEF Undisturbed
    <3>1. \A p \in Paths : At(p)' = patch'.start[p] /\ c = patch.start[Path]
      BY <1>1, <2>1, <2>4, <2>9 DEF Undisturbed, At, c
    <3>2. \A p \in Paths : Entry(p) /\ (Behind(p) \/ p = Path) => Planned(p)'
      <4> SUFFICES ASSUME NEW p \in Paths, Entry(p), Behind(p) \/ p = Path PROVE Planned(p)'
        OBVIOUS
      <4>1. CASE p = Path
        BY <2>2, <2>4, <2>9, <3>1, <4>1 DEF Planned
      <4>2. CASE p # Path
        BY <1>1, <2>9, <4>2 DEF Undisturbed, Planned
      <4> QED BY <4>1, <4>2
    <3>3. patch'.phase = "plan" => \A p \in Paths : Entry(p)' /\ Behind(p)' => Planned(p)'
      BY <1>1, <2>7, <3>2 DEF Following
    <3>4. patch'.phase = "check" => \A p \in Paths : Entry(p)' => Planned(p)'
      BY <1>1, <2>4, <2>7, <3>2
    <3> QED BY <2>8, <3>1, <3>3, <3>4 DEF Undisturbed, Early, Late, Active
  <2> QED BY <2>7, <2>10, <2>12, <2>13, <2>14 DEF WorkspaceInv
<1> QED BY <1>2, <1>3

LEMMA CompareKeeps ==
    ASSUME WorkspaceInv, Compare
    PROVE  WorkspaceInv'
<1>1. /\ Types /\ Placed /\ Temporary /\ Undisturbed /\ patch.phase \in {"check", "open"}
      /\ UNCHANGED <<life, writer, others, met, owed>> /\ patch.phase \in Early
  BY DEF WorkspaceInv, Compare, alone, Early
<1>2. CASE At(Path) # patch.original[Path]
  <2>1. Refused
    BY <1>2 DEF Compare
  <2> QED BY <1>1, <2>1, RefusedKeeps
<1>3. CASE At(Path) = patch.original[Path]
  <2>1. patch' = After(patch) /\ disk' = disk
    BY <1>3 DEF Compare
  <2>2. /\ patch.published = {} /\ patch.failures = {} /\ patch.step = "begin" /\ patch \in PatchType
        /\ patch.phase \in Active
        /\ \A p \in Paths : /\ patch.quarantine[p] = "no" /\ patch.original[p].by # "patch"
                            /\ disk["claimed"][p] = None /\ disk["output"][p] = None
    BY <1>1, Untouched
  <2>3. /\ patch' \in PatchType /\ Same(patch', patch) /\ patch'.step = "begin" /\ Placed'
        /\ \A p \in Paths : (Entry(p)' <=> Entry(p)) /\ Final(p)' = Final(p)
        /\ \/ patch'.phase = patch.phase
           \/ /\ patch'.phase = Following[patch.phase]
              /\ \A p \in Paths : Entry(p) => ~Behind(p)'
    BY <1>1, <2>1, <2>2, Advances
  <2>4. /\ patch'.phase \in {"check", "open", "stage"}
        /\ patch'.phase = "stage" => \A p \in Paths : Entry(p) => ~Behind(p)'
    BY <1>1, <2>3 DEF Following
  <2>5. Types' /\ Marks' /\ Debts' /\ Apart'
    BY <1>1, <2>1, <2>2, <2>3, <2>4, Quiet DEF Same
  <2>6. Recorded'
    BY <2>2, <2>3, <2>4, RecordedEarly DEF Early, Same
  <2>7. Temporary'
    <3>1. \A p \in Paths : disk["staged"][p] = None
      BY <1>1 DEF Temporary, Late
    <3>2. \A p \in Paths : patch'.phase = "stage" /\ Behind(p)' => Final(p)' = None
      BY <2>3, <2>4, Finals
    <3> QED BY <2>1, <2>2, <2>4, <3>1, <3>2 DEF Temporary, Late
  <2>8. Undisturbed'
    <3>1. ~met => \A p \in Paths : Entry(p) => Planned(p)'
      BY <1>1, <2>3 DEF Undisturbed, Planned, Same, Active, Early
    <3>2. ~met => \A p \in Paths : At(p)' = patch'.start[p]
      BY <1>1, <2>1, <2>3 DEF Undisturbed, At, Same
    <3> QED BY <1>1, <2>3, <2>4, <3>1, <3>2 DEF Undisturbed, Early, Late, Active
  <2> QED BY <2>3, <2>5, <2>6, <2>7, <2>8 DEF WorkspaceInv
<1> QED BY <1>2, <1>3

LEMMA StageKeeps ==
    ASSUME WorkspaceInv, Stage
    PROVE  WorkspaceInv'
<1>1. /\ Types /\ Placed /\ Temporary /\ Marks /\ Debts /\ Apart /\ Undisturbed
      /\ patch.phase = "stage" /\ disk \in Disks
      /\ UNCHANGED <<life, writer, others, met, owed>> /\ patch.phase \in Early
  BY DEF WorkspaceInv, Stage, alone, Early, Types, Disks
<1>2. CASE Refused
  BY <1>1, <1>2, RefusedKeeps
<1>3. CASE disk' = [disk EXCEPT !["staged"][Path] = Final(Path)] /\ patch' = After(patch)
  <2>1. /\ patch.published = {} /\ patch.failures = {} /\ patch.step = "begin" /\ patch \in PatchType
        /\ patch.phase \in Active
        /\ \A p \in Paths : /\ patch.quarantine[p] = "no" /\ patch.original[p].by # "patch"
                            /\ OnlyStaged(p)
                            /\ disk["claimed"][p] = None /\ disk["output"][p] = None
    BY <1>1, Untouched
  <2>2. /\ Path \in Paths /\ Entry(Path) /\ ~Behind(Path)
        /\ \A p \in Paths : p = Path \/ Behind(p) \/ Ahead(p)
    BY <1>1, <2>1, Here
  <2>3. /\ patch' \in PatchType /\ Same(patch', patch) /\ patch'.step = "begin" /\ Placed'
        /\ \A p \in Paths : (Entry(p)' <=> Entry(p)) /\ Final(p)' = Final(p)
        /\ \/ /\ patch'.phase = patch.phase
              /\ \A p \in Paths : Entry(p) =>
                    /\ Behind(p)' <=> Behind(p) \/ p = Path
                    /\ ~Behind(p)' => Ahead(p)
           \/ /\ patch'.phase = Following[patch.phase]
              /\ \A p \in Paths : Entry(p) => ~Ahead(p) /\ ~Behind(p)'
    BY <1>1, <1>3, <2>1, Advances
  <2>4. patch'.phase \in {"stage", "claim"}
    BY <1>1, <2>3 DEF Following
  <2>5. /\ disk' \in Disks /\ disk'["staged"][Path] = Final(Path)
        /\ \A r \in Roles, x \in Paths : r # "staged" \/ x # Path => disk'[r][x] = disk[r][x]
    <3>1. "staged" \in Roles /\ Final(Path) \in Contents
      BY <2>2, Finals DEF Roles
    <3>2. disk' \in Disks /\ Changed("staged", Path, Final(Path))
      BY <1>1, <1>3, <2>2, <3>1, Puts
    <3> QED BY <3>2 DEF Changed
  <2>6. disk["staged"][Path] = None
    BY <1>1, <2>2 DEF Temporary, Late
  <2>7. Types'
    BY <1>1, <2>3, <2>5 DEF Types, Disks
  <2>8. Marks'
    <3>1. ASSUME NEW p \in Paths PROVE OnlyStaged(p)'
      <4> SUFFICES ASSUME NEW r \in Roles, NEW x \in Paths, disk'[r][x] = Marked(p)
                   PROVE  r = "staged" /\ x = p
        BY DEF OnlyStaged, Marked
      <4>1. CASE r = "staged" /\ x = Path
        BY <2>2, <2>5, <4>1, Finals, MarkedOnce
      <4>2. CASE r # "staged" \/ x # Path
        BY <2>1, <2>5, <4>2 DEF OnlyStaged
      <4> QED BY <4>1, <4>2
    <3>2. ASSUME NEW r \in Roles, NEW x \in Paths, disk'[r][x].by = "patch"
          PROVE  \E p \in Paths : disk'[r][x] = Marked(p)
      <4>1. CASE r = "staged" /\ x = Path
        BY <2>2, <2>5, <3>2, <4>1, Finals, Makes
      <4>2. CASE r # "staged" \/ x # Path
        BY <1>1, <2>5, <3>2, <4>2 DEF Marks
      <4> QED BY <4>1, <4>2
    <3> QED BY <3>1, <3>2, MarksStaged
  <2>9. Debts'
    <3>1. ASSUME NEW c \in owed PROVE \E r \in Roles, x \in Paths : disk'[r][x] = c
      <4>1. PICK r \in Roles, x \in Paths : disk[r][x] = c
        BY <1>1 DEF Debts, NothingLost
      <4> QED BY <1>1, <2>5, <2>6, <4>1 DEF Debts
    <3> QED BY <1>1, <3>1 DEF Debts, NothingLost
  <2>10. Apart'
    <3>1. \A r \in {"aside", "written"}, x \in Paths : disk'[r][x] = disk[r][x]
      BY <2>5 DEF Roles
    <3> QED BY <1>1, <3>1 DEF Apart, Types
  <2>11. Recorded'
    <3>1. \A p \in Paths : Entry(p)' => patch'.phase = "stage" \/ ~Behind(p)'
      BY <1>1, <2>3
    <3> QED BY <2>1, <2>3, <2>4, <3>1, RecordedEarly DEF Early, Same
  <2>12. Temporary'
    <3>1. \A p \in Paths : disk'["claimed"][p] = None /\ disk'["output"][p] = None
      BY <2>1, <2>5 DEF Roles
    <3>2. \A p \in Paths : p # Path => disk'["staged"][p] = disk["staged"][p]
      BY <2>5 DEF Roles
    <3>3. \A p \in Paths : disk["staged"][p] = IF Behind(p) THEN Final(p) ELSE None
      BY <1>1 DEF Temporary, Late
    <3>4. patch'.published = {} /\ \A p \in Paths : patch'.quarantine[p] = "no"
      BY <2>1, <2>3 DEF Same
    <3>5. ASSUME patch'.phase = "stage", NEW p \in Paths
          PROVE  disk'["staged"][p] = IF Behind(p)' THEN Final(p) ELSE None
      <4>1. CASE Entry(p)
        BY <1>1, <2>2, <2>3, <2>5, <3>2, <3>3, <3>5, <4>1 DEF Following
      <4>2. CASE ~Entry(p)
        BY <2>2, <3>2, <3>3, <4>2, Finals
      <4> QED BY <4>1, <4>2
    <3>6. ASSUME patch'.phase = "claim", NEW p \in Paths
          PROVE  disk'["staged"][p] = Final(p)
      <4>1. CASE Entry(p)
        BY <1>1, <2>2, <2>3, <2>5, <3>2, <3>3, <3>6, <4>1
      <4>2. CASE ~Entry(p)
        BY <2>2, <3>2, <3>3, <4>2, Finals
      <4> QED BY <4>1, <4>2
    <3>7. CASE patch'.phase = "stage"
      BY <2>3, <3>1, <3>4, <3>5, <3>7 DEF Temporary, Late
    <3>8. CASE patch'.phase = "claim"
      BY <2>3, <3>1, <3>4, <3>6, <3>8 DEF Temporary, Late
    <3> QED BY <2>4, <3>7, <3>8
  <2>13. Undisturbed'
    <3>1. ~met => \A p \in Paths : Entry(p) => Planned(p)'
      BY <1>1, <2>3 DEF Undisturbed, Planned, Same, Active, Early
    <3>2. ~met => \A p \in Paths : At(p)' = patch'.start[p]
      BY <1>1, <2>3, <2>5 DEF Undisturbed, At, Same, Roles
    <3>3. ~met => \A p \in Paths : Standing(p)'
      BY <2>1, <2>3, <3>2 DEF Standing, Same
    <3> QED BY <1>1, <2>3, <2>4, <3>1, <3>2, <3>3 DEF Undisturbed, Early, Late, Active
  <2> QED BY <2>3, <2>7, <2>8, <2>9, <2>10, <2>11, <2>12, <2>13 DEF WorkspaceInv
<1> QED BY <1>2, <1>3 DEF Stage

-----------------------------------------------------------------------------
(* Steps that move what the patch made.                                    *)

(* What the patch made is in one place of a disk, or only staged.          *)
Single(d) ==
    /\ \A r \in Roles, x \in Paths : d[r][x].by = "patch" => \E p \in Paths : d[r][x] = Marked(p)
    /\ \A p \in Paths, r, s \in Roles, x, y \in Paths :
          d[r][x] = Marked(p) /\ d[s][y] = Marked(p) => r = s /\ x = y

Alone(d, p) == \A r \in Roles, x \in Paths : d[r][x] = Marked(p) => r = "staged" /\ x = p

(* A rename between two disks, and a removal.                              *)
Renamed(d, e, f, t, p) ==
    /\ e[f][p] = None /\ e[t][p] = d[f][p]
    /\ \A r \in Roles, x \in Paths : x # p \/ (r # f /\ r # t) => e[r][x] = d[r][x]

Fewer(d, e) ==
    \A r \in Roles, x \in Paths : e[r][x] = d[r][x] \/ e[r][x].by # "patch"

LEMMA RenamedTraces ==
    ASSUME NEW d, NEW e, NEW f \in Roles, NEW t \in Roles, f # t, NEW p \in Paths,
           Single(d), Renamed(d, e, f, t, p)
    PROVE  /\ Single(e)
           /\ \A q \in Paths : Alone(d, q) /\ d[f][p] # Marked(q) => Alone(e, q)
<1>1. None.by # "patch" /\ \A q \in Paths : Marked(q) # None
  BY Makes, MarkedOnce
<1>2. ASSUME NEW r \in Roles, NEW x \in Paths
      PROVE  \/ e[r][x] = None
             \/ r = t /\ x = p /\ e[r][x] = d[f][p]
             \/ ~(r = f /\ x = p) /\ ~(r = t /\ x = p) /\ e[r][x] = d[r][x]
  BY DEF Renamed
<1>3. \A r \in Roles, x \in Paths : e[r][x].by = "patch" => \E q \in Paths : e[r][x] = Marked(q)
  BY <1>1, <1>2 DEF Single
<1>4. ASSUME NEW q \in Paths, NEW r \in Roles, NEW s \in Roles, NEW x \in Paths, NEW y \in Paths,
             e[r][x] = Marked(q), e[s][y] = Marked(q)
      PROVE  r = s /\ x = y
  <2>1. \A u, v \in Roles, w, z \in Paths :
           d[u][w] = Marked(q) /\ d[v][z] = Marked(q) => u = v /\ w = z
    BY DEF Single
  <2>2. \/ r = t /\ x = p /\ d[f][p] = Marked(q)
        \/ ~(r = f /\ x = p) /\ ~(r = t /\ x = p) /\ d[r][x] = Marked(q)
    BY <1>1, <1>2, <1>4
  <2>3. \/ s = t /\ y = p /\ d[f][p] = Marked(q)
        \/ ~(s = f /\ y = p) /\ ~(s = t /\ y = p) /\ d[s][y] = Marked(q)
    BY <1>1, <1>2, <1>4
  <2> QED BY <2>1, <2>2, <2>3
<1>5. ASSUME NEW q \in Paths, Alone(d, q), d[f][p] # Marked(q) PROVE Alone(e, q)
  BY <1>1, <1>2, <1>5 DEF Alone
<1> QED BY <1>3, <1>4, <1>5 DEF Single

LEMMA FewerTraces ==
    ASSUME NEW d, NEW e, Single(d), Fewer(d, e)
    PROVE  Single(e) /\ \A q \in Paths : Alone(d, q) => Alone(e, q)
<1>1. \A q \in Paths, r \in Roles, x \in Paths : e[r][x] = Marked(q) => d[r][x] = Marked(q)
  BY MarkedOnce DEF Fewer
<1>2. \A r \in Roles, x \in Paths : e[r][x].by = "patch" => \E p \in Paths : e[r][x] = Marked(p)
  BY DEF Fewer, Single
<1>3. \A p \in Paths, r, s \in Roles, x, y \in Paths :
         e[r][x] = Marked(p) /\ e[s][y] = Marked(p) => r = s /\ x = y
  BY <1>1 DEF Single
<1> QED BY <1>1, <1>2, <1>3 DEF Single, Alone

LEMMA Traced ==
    /\ Marks => Single(disk)
    /\ \A p \in Paths : (OnlyStaged(p) <=> Alone(disk, p)) /\ (OnlyStaged(p)' <=> Alone(disk', p))
<1>1. Marks => Single(disk)
  BY DEF Marks, Single
<1>2. \A p \in Paths : OnlyStaged(p) <=> Alone(disk, p)
  BY DEF OnlyStaged, Alone
<1>3. \A p \in Paths : OnlyStaged(p)' <=> Alone(disk', p)
  BY DEF OnlyStaged, Alone, Marked
<1> QED BY <1>1, <1>2, <1>3

LEMMA Traces ==
    ASSUME Single(disk'),
           \A p \in Paths : p \notin patch'.published => Alone(disk', p),
           patch'.phase = "rollback" => \A p \in Paths :
              Entry(p)' /\ Ahead(p)' /\ p \notin patch'.failures => Alone(disk', p),
           patch'.phase = "failed" => \A p \in Paths : Alone(disk', p)
    PROVE  Marks'
<1>1. \A p \in Paths : OnlyStaged(p)' <=> Alone(disk', p)
  BY Traced
<1> QED BY <1>1 DEF Marks, Single, Marked

(* The patch turns back: it is at its last entry.                          *)
LEMMA Retreats ==
    ASSUME Types, Placed, patch.phase \in Late,
           NEW r \in PatchType, r.ops = patch.ops, patch' = Back(r)
    PROVE  /\ patch' \in PatchType /\ Same(patch', r) /\ patch'.phase = "rollback"
           /\ patch'.step = "take" /\ Placed'
           /\ \A p \in Paths : (Entry(p)' <=> Entry(p)) /\ Final(p)' = Final(p)
           /\ \A p \in Paths : Entry(p) => ~Ahead(p)'
<1>1. /\ patch.ops \in [Paths -> Operations]
      /\ \E p \in Paths : patch.ops[p] # "none"
  BY Here DEF Types, PatchType, Active, Entry
<1> DEFINE n == Max(Entries(patch.ops))
<1>2. n \in Entries(patch.ops) /\ n \in Nat /\ \A p \in Paths : Entry(p) => Index(p) <= n
  BY <1>1, Ends DEF Entry
<1>3. patch' = [r EXCEPT !.phase = "rollback", !.i = n, !.step = "take"]
  BY DEF Back
<1> HIDE DEF n
<1>4. /\ patch' \in PatchType /\ Same(patch', r) /\ patch'.phase = "rollback"
      /\ patch'.step = "take" /\ patch'.i = n /\ patch'.ops = patch.ops
  BY <1>2, <1>3 DEF PatchType, Same, PhaseNames, Active
<1>5. Placed'
  BY <1>2, <1>4 DEF Placed
<1>6. \A p \in Paths : (Entry(p)' <=> Entry(p)) /\ Final(p)' = Final(p)
  BY <1>4 DEF Entry, Final
<1>7. \A p \in Paths : Entry(p) => ~Ahead(p)'
  <2>1. \A p \in Paths : Index(p) \in Nat
    BY Orders
  <2> QED BY <1>2, <1>4, <2>1, Turned
<1> QED BY <1>4, <1>5, <1>6, <1>7

LEMMA BackKeeps ==
    ASSUME WorkspaceInv, patch.phase \in Late, patch' = Back(patch),
           UNCHANGED <<disk, life, writer, others, met, owed>>
    PROVE  WorkspaceInv'
<1>1. /\ Types /\ Placed /\ Recorded /\ Temporary /\ Marks /\ Debts /\ Apart /\ Undisturbed
      /\ patch \in PatchType
  BY DEF WorkspaceInv, Types
<1>2. /\ patch' \in PatchType /\ Same(patch', patch) /\ patch'.phase = "rollback"
      /\ patch'.step = "take" /\ Placed'
      /\ \A p \in Paths : (Entry(p)' <=> Entry(p)) /\ Final(p)' = Final(p)
      /\ \A p \in Paths : Entry(p) => ~Ahead(p)'
  BY <1>1, Retreats
<1>3. Types' /\ Debts' /\ Apart'
  BY <1>1, <1>2 DEF Types, Debts, NothingLost, Apart
<1>4. Marks'
  <2>1. Single(disk') /\ \A p \in Paths : p \notin patch'.published => Alone(disk', p)
    BY <1>1, <1>2, Traced DEF Marks, Same
  <2> QED BY <1>2, <2>1, Traces
<1>5. Recorded'
  BY <1>1, <1>2 DEF Recorded, Same, Early, Late
<1>6. Temporary'
  BY <1>1, <1>2 DEF Temporary, Same, Late
<1>7. Undisturbed'
  <2> SUFFICES ASSUME ~met PROVE Undisturbed'
    BY DEF Undisturbed
  <2>1. \A p \in Paths : Standing(p)'
    BY <1>1, <1>2 DEF Undisturbed, Standing, At, Same
  <2>2. \A p \in Paths : Entry(p)' => Planned(p)'
    BY <1>1, <1>2 DEF Undisturbed, Planned, Same, Active, Late
  <2>3. patch'.failures = {}
    BY <1>1, <1>2 DEF Recorded, Same
  <2>4. \A p \in Paths : patch'.quarantine[p] = "held" => disk'["claimed"][p] = patch'.original[p]
    BY <2>1 DEF Standing
  <2> QED BY <1>2, <2>1, <2>2, <2>3, <2>4 DEF Undisturbed, Early, Late, Active
<1> QED BY <1>2, <1>3, <1>4, <1>5, <1>6, <1>7 DEF WorkspaceInv

LEMMA InterruptedKeeps ==
    ASSUME WorkspaceInv, Interrupted
    PROVE  WorkspaceInv'
BY BackKeeps DEF Interrupted, Late, alone

(* A rename of the model.                                                  *)
LEMMA Passes ==
    ASSUME disk \in Disks, NEW p \in Paths, NEW f \in Roles, NEW t \in Roles, f # t,
           disk' = Moved(disk, p, f, t)
    PROVE  disk' \in Disks /\ Renamed(disk, disk', f, t, p) /\ Shifted(f, p, t, p)
<1>1. disk' \in Disks /\ Renamed(disk, disk', f, t, p)
  BY Renames DEF Renamed
<1> QED BY <1>1 DEF Renamed, Shifted

(* What the other tools have is not touched.                               *)
LEMMA ApartKeeps ==
    ASSUME Types, Apart, UNCHANGED <<life, writer>>,
           \A r \in {"aside", "written"}, x \in Paths : disk'[r][x] = disk[r][x]
    PROVE  Apart'
BY DEF Apart, Types

(* The next entry to claim, or to publish: the original is held.           *)
LEMMA ClaimAdvances ==
    ASSUME WorkspaceInv, patch.phase = "claim", NEW r \in PatchType, Same(r, patch),
           r.phase = patch.phase, r.i = patch.i, r.step = "begin", patch' = After(r),
           UNCHANGED <<disk, life, writer, others, met, owed>>,
           patch.original[Path] # None =>
              patch.quarantine[Path] = "held" /\ disk["claimed"][Path] = patch.original[Path]
    PROVE  WorkspaceInv'
<1>1. /\ Types /\ Placed /\ Recorded /\ Temporary /\ Undisturbed /\ patch \in PatchType
      /\ patch.phase \in Late /\ patch.phase \in Active /\ r.ops = patch.ops
  BY DEF WorkspaceInv, Types, Late, Active, Same
<1>2. /\ Path \in Paths /\ Entry(Path) /\ \A p \in Paths : p = Path \/ Behind(p) \/ Ahead(p)
  BY <1>1, Here
<1>3. /\ patch' \in PatchType /\ Same(patch', r) /\ patch'.step = "begin" /\ Placed'
      /\ \A p \in Paths : (Entry(p)' <=> Entry(p)) /\ Final(p)' = Final(p)
      /\ \A p \in Paths : Ahead(p)' \/ p = Path' => ~Behind(p)'
      /\ \/ /\ patch'.phase = patch.phase
            /\ \A p \in Paths : Entry(p) =>
                  /\ Behind(p)' <=> Behind(p) \/ p = Path
                  /\ ~Behind(p)' => Ahead(p)
         \/ /\ patch'.phase = Following[patch.phase]
            /\ \A p \in Paths : Entry(p) => ~Ahead(p) /\ ~Behind(p)'
  BY <1>1, Advances
<1>4. patch'.phase \in {"claim", "publish"}
  BY <1>3 DEF Following
<1>5. Same(patch', patch)
  BY <1>3 DEF Same
<1>6. Types' /\ Marks' /\ Debts' /\ Apart'
  BY <1>3, <1>4, <1>5, Quiet DEF Same
<1>7. \A p \in Paths : /\ p \notin patch.published /\ patch.quarantine[p] # "released"
                       /\ Ahead(p) => patch.quarantine[p] = "no"
                       /\ ~Entry(p) => patch.quarantine[p] = "no"
                       /\ Entry(p) /\ (Behind(p) \/ p = Path) /\ patch.original[p] # None =>
                             patch.quarantine[p] = "held"
  BY <1>1, <1>2 DEF Recorded
<1>8. Recorded'
  <2>1. /\ patch'.failures = {}
        /\ \A p \in Paths :
              /\ patch'.original[p].by # "patch"
              /\ patch'.quarantine[p] # "no" => patch'.original[p] # None
              /\ p \notin patch'.published
    BY <1>1, <1>5, <1>7 DEF Recorded, Same
  <2>2. ASSUME patch'.phase = "claim", NEW p \in Paths
        PROVE  /\ Ahead(p)' \/ (p = Path' /\ patch'.step = "begin") => patch'.quarantine[p] = "no"
               /\ Entry(p)' /\ Behind(p)' /\ patch'.original[p] # None => patch'.quarantine[p] = "held"
    BY <1>3, <1>5, <1>7, <2>2 DEF Same, Following
  <2>3. ASSUME patch'.phase = "publish", NEW p \in Paths, Entry(p)'
        PROVE  /\ patch'.original[p] # None => patch'.quarantine[p] = "held"
               /\ ~Behind(p)'
    BY <1>2, <1>3, <1>5, <1>7, <2>3 DEF Same
  <2> QED BY <1>3, <1>4, <1>5, <1>7, <2>1, <2>2, <2>3 DEF Recorded, Same, Early, Late
<1>9. Temporary'
  <2>1. \A p \in Paths : patch.quarantine[p] = "held" => disk["claimed"][p] = patch.original[p]
    BY <1>1, <1>2 DEF Temporary, Recorded
  <2> QED BY <1>1, <1>3, <1>4, <1>5, <2>1 DEF Temporary, Same, Late
<1>10. Undisturbed'
  <2>1. ~met => \A p \in Paths : Standing(p)'
    BY <1>1, <1>3, <1>5 DEF Undisturbed, Standing, At, Same
  <2>2. ~met => \A p \in Paths : Entry(p)' => Planned(p)'
    BY <1>1, <1>3, <1>5 DEF Undisturbed, Planned, Same, Active, Late
  <2> QED BY <1>4, <2>1, <2>2 DEF Undisturbed, Early, Late, Active
<1> QED BY <1>3, <1>6, <1>8, <1>9, <1>10 DEF WorkspaceInv

LEMMA ClaimKeeps ==
    ASSUME WorkspaceInv, Claim
    PROVE  WorkspaceInv'
<1>1. /\ Types /\ Placed /\ Recorded /\ Temporary /\ Marks /\ Debts /\ Apart /\ Undisturbed
      /\ patch \in PatchType /\ patch.phase = "claim" /\ patch.step = "begin" /\ disk \in Disks
      /\ patch.phase \in Late /\ patch.phase \in Active /\ UNCHANGED <<life, writer, others, met, owed>>
  BY DEF WorkspaceInv, Types, Claim, Late, Active, alone, Disks
<1>2. /\ Path \in Paths /\ Entry(Path) /\ ~Ahead(Path) /\ ~Behind(Path)
  BY <1>1, Here
<1>3. CASE patch.original[Path] = None /\ patch' = After(patch) /\ UNCHANGED disk
  <2>1. Same(patch, patch)
    BY DEF Same
  <2> QED BY <1>1, <1>3, <2>1, ClaimAdvances
<1>4. CASE patch' = Back(patch) /\ UNCHANGED disk
  BY <1>1, <1>4, BackKeeps
<1>5. CASE /\ patch.original[Path] # None /\ At(Path) # None
           /\ disk' = Moved(disk, Path, "path", "claimed")
           /\ patch' = [patch EXCEPT !.quarantine[Path] = "held", !.step = "inspect"]
  <2>1. /\ disk' \in Disks /\ Renamed(disk, disk', "path", "claimed", Path)
        /\ Shifted("path", Path, "claimed", Path)
    BY <1>1, <1>2, <1>5, Passes DEF Roles
  <2> DEFINE h == [patch.quarantine EXCEPT ![Path] = "held"]
  <2>2. /\ h \in [Paths -> {"no", "held", "released"}] /\ h[Path] = "held"
        /\ \A p \in Paths : p # Path => h[p] = patch.quarantine[p]
    BY <1>1, <1>2 DEF PatchType
  <2>3. patch' = [patch EXCEPT !.quarantine = h, !.step = "inspect"]
    BY <1>5
  <2> HIDE DEF h
  <2>4. /\ patch' \in PatchType /\ patch'.quarantine = h /\ patch'.step = "inspect"
        /\ patch'.phase = patch.phase /\ patch'.ops = patch.ops /\ patch'.i = patch.i
        /\ patch'.original = patch.original /\ patch'.published = patch.published
        /\ patch'.failures = patch.failures /\ patch'.start = patch.start
    BY <1>1, <2>2, <2>3 DEF PatchType
  <2>5. /\ Path' = Path
        /\ \A p \in Paths : /\ (Entry(p)' <=> Entry(p)) /\ Final(p)' = Final(p)
                            /\ (Behind(p)' <=> Behind(p)) /\ (Ahead(p)' <=> Ahead(p))
                            /\ (Planned(p)' <=> Planned(p))
    BY <2>4 DEF Path, Entry, Final, Behind, Ahead, Planned
  <2>6. Types'
    BY <1>1, <2>1, <2>4 DEF Types, Disks
  <2>7. Placed'
    BY <1>1, <2>4 DEF Placed, Active, Late
  <2>8. Recorded'
    BY <1>1, <1>2, <1>5, <2>2, <2>4, <2>5 DEF Recorded, Early, Late
  <2>9. \A p \in Paths : /\ disk'["staged"][p] = disk["staged"][p]
                         /\ disk'["output"][p] = disk["output"][p]
                         /\ disk'["aside"][p] = disk["aside"][p]
                         /\ disk'["written"][p] = disk["written"][p]
                         /\ p # Path => At(p)' = At(p) /\ disk'["claimed"][p] = disk["claimed"][p]
    BY <2>1 DEF Renamed, Roles, At
  <2>10. At(Path)' = None /\ disk'["claimed"][Path] = At(Path)
    BY <2>1, <2>5 DEF Renamed, At
  <2>11. Temporary'
    BY <1>1, <2>2, <2>4, <2>5, <2>9 DEF Temporary, Late
  <2>12. Marks'
    <3>1. Single(disk) /\ \A p \in Paths : Alone(disk, p) /\ disk["path"][Path] # Marked(p)
      BY <1>1, <1>2, Traced DEF Marks, Recorded, Alone, Roles
    <3>2. Single(disk') /\ \A p \in Paths : Alone(disk', p)
      BY <1>2, <2>1, <3>1, RenamedTraces DEF Roles
    <3> QED BY <3>2, Traces
  <2>13. Debts'
    <3>1. disk["claimed"][Path] = None
      BY <1>1, <1>2 DEF Temporary, Recorded
    <3> QED BY <1>1, <1>2, <2>1, <3>1, DebtsShift DEF Debts, Roles
  <2>14. Apart'
    BY <1>1, <2>9, ApartKeeps
  <2>15. Undisturbed'
    <3> SUFFICES ASSUME ~met PROVE Undisturbed'
      BY <1>1 DEF Undisturbed
    <3>1. \A p \in Paths : Standing(p) /\ (Entry(p) => Planned(p))
      BY <1>1 DEF Undisturbed, Active, Late
    <3>2. patch.quarantine[Path] = "no" /\ \A p \in Paths : p \notin patch.published
      BY <1>1, <1>2 DEF Recorded
    <3>3. At(Path) = patch.original[Path]
      BY <1>2, <3>1, <3>2 DEF Standing, Planned
    <3>4. Standing(Path)'
      BY <1>2, <2>2, <2>4, <2>5, <2>10, <3>2, <3>3 DEF Standing
    <3>5. \A p \in Paths : p # Path => Standing(p)'
      BY <2>2, <2>4, <2>9, <3>1, <3>2 DEF Standing
    <3> QED BY <1>1, <2>4, <2>5, <3>1, <3>4, <3>5 DEF Undisturbed, Early, Late, Active
  <2> QED BY <2>6, <2>7, <2>8, <2>11, <2>12, <2>13, <2>14, <2>15 DEF WorkspaceInv
<1> QED BY <1>3, <1>4, <1>5 DEF Claim

LEMMA ClaimedKeeps ==
    ASSUME WorkspaceInv, Claimed
    PROVE  WorkspaceInv'
<1>1. /\ Types /\ Placed /\ Recorded /\ Temporary /\ Marks /\ Debts /\ Apart /\ Undisturbed
      /\ patch \in PatchType /\ patch.phase = "claim" /\ patch.step = "inspect" /\ disk \in Disks
      /\ patch.phase \in Late /\ patch.phase \in Active /\ UNCHANGED <<life, writer, others, met, owed>>
  BY DEF WorkspaceInv, Types, Claimed, Late, Active, alone, Disks
<1>2. /\ Path \in Paths /\ Entry(Path) /\ patch.quarantine[Path] = "held"
  BY <1>1, Here DEF Recorded
<1>3. CASE /\ disk["claimed"][Path] = patch.original[Path]
           /\ patch' = After([patch EXCEPT !.step = "begin"]) /\ UNCHANGED disk
  <2> DEFINE r == [patch EXCEPT !.step = "begin"]
  <2>1. r \in PatchType /\ Same(r, patch) /\ r.phase = patch.phase /\ r.i = patch.i /\ r.step = "begin"
    BY <1>1 DEF PatchType, Same
  <2>2. patch' = After(r)
    BY <1>3
  <2> HIDE DEF r
  <2> QED BY <1>1, <1>2, <1>3, <2>1, <2>2, ClaimAdvances
<1>4. CASE patch' = Back(patch) /\ UNCHANGED disk
  BY <1>1, <1>4, BackKeeps
<1>5. CASE /\ disk["claimed"][Path] # patch.original[Path] /\ At(Path) = None
           /\ disk' = Moved(disk, Path, "claimed", "path")
           /\ patch' = Back([patch EXCEPT !.quarantine[Path] = "no"])
  <2>1. /\ disk' \in Disks /\ Renamed(disk, disk', "claimed", "path", Path)
        /\ Shifted("claimed", Path, "path", Path)
    BY <1>1, <1>2, <1>5, Passes DEF Roles
  <2> DEFINE h == [patch.quarantine EXCEPT ![Path] = "no"]
             r == [patch EXCEPT !.quarantine = h]
  <2>2. /\ h \in [Paths -> {"no", "held", "released"}] /\ h[Path] = "no"
        /\ \A p \in Paths : p # Path => h[p] = patch.quarantine[p]
    BY <1>1, <1>2 DEF PatchType
  <2>3. patch' = Back(r)
    BY <1>5
  <2> HIDE DEF h
  <2>4. /\ r \in PatchType /\ r.quarantine = h /\ r.ops = patch.ops
        /\ r.original = patch.original /\ r.published = patch.published
        /\ r.failures = patch.failures /\ r.start = patch.start
    BY <1>1, <2>2 DEF PatchType
  <2> HIDE DEF r
  <2>5. /\ patch' \in PatchType /\ Same(patch', r) /\ patch'.phase = "rollback"
        /\ patch'.step = "take" /\ Placed'
        /\ \A p \in Paths : (Entry(p)' <=> Entry(p)) /\ Final(p)' = Final(p)
        /\ \A p \in Paths : Entry(p) => ~Ahead(p)'
    BY <1>1, <2>3, <2>4, Retreats
  <2>6. /\ patch'.quarantine = h /\ patch'.original = patch.original
        /\ patch'.published = patch.published /\ \A p \in Paths : p \notin patch.published
    BY <1>1, <2>4, <2>5 DEF Same, Recorded
  <2>7. Types'
    BY <1>1, <2>1, <2>5 DEF Types, Disks
  <2>8. Recorded'
    BY <1>1, <2>2, <2>5, <2>6 DEF Recorded, Early, Late
  <2>9. \A p \in Paths : /\ disk'["staged"][p] = disk["staged"][p]
                         /\ disk'["output"][p] = disk["output"][p]
                         /\ disk'["aside"][p] = disk["aside"][p]
                         /\ disk'["written"][p] = disk["written"][p]
                         /\ p # Path => disk'["claimed"][p] = disk["claimed"][p]
    BY <2>1 DEF Renamed, Roles
  <2>10. disk'["claimed"][Path] = None
    BY <2>1 DEF Renamed
  <2>11. Temporary'
    BY <1>1, <2>2, <2>5, <2>6, <2>9, <2>10 DEF Temporary, Late
  <2>12. Marks'
    <3>1. Single(disk) /\ \A p \in Paths : Alone(disk, p) /\ disk["claimed"][Path] # Marked(p)
      BY <1>1, <1>2, Traced DEF Marks, Recorded, Alone, Roles
    <3>2. Single(disk') /\ \A p \in Paths : Alone(disk', p)
      BY <1>2, <2>1, <3>1, RenamedTraces DEF Roles
    <3> QED BY <3>2, Traces
  <2>13. Debts'
    BY <1>1, <1>2, <1>5, <2>1, DebtsShift DEF Debts, Roles, At
  <2>14. Apart'
    BY <1>1, <2>9, ApartKeeps
  <2>15. Undisturbed'
    <3>1. met
      BY <1>1, <1>2, <1>5 DEF Undisturbed, Standing
    <3> QED BY <1>1, <3>1 DEF Undisturbed
  <2> QED BY <2>5, <2>7, <2>8, <2>11, <2>12, <2>13, <2>14, <2>15 DEF WorkspaceInv
<1> QED BY <1>3, <1>4, <1>5 DEF Claimed

(* The record after an entry was published.                                *)
LEMMA PublishRecords ==
    ASSUME Types, Placed, Recorded, patch.phase = "publish", NEW r \in PatchType,
           r.ops = patch.ops, r.phase = patch.phase, r.i = patch.i, r.step = "begin",
           r.original = patch.original, r.quarantine = patch.quarantine,
           r.failures = patch.failures, r.start = patch.start,
           r.published = IF Final(Path) = None THEN patch.published ELSE patch.published \cup {Path},
           patch' = After(r)
    PROVE  /\ Recorded' /\ Placed' /\ patch' \in PatchType /\ Same(patch', r)
           /\ patch'.phase \in {"publish", "cleanup"} /\ patch'.step = "begin"
           /\ \A p \in Paths : (Entry(p)' <=> Entry(p)) /\ Final(p)' = Final(p)
<1>1. /\ patch.phase \in Late /\ patch.phase \in Active
  BY DEF Late, Active
<1>2. /\ Path \in Paths /\ Entry(Path) /\ ~Behind(Path)
      /\ \A p \in Paths : p = Path \/ Behind(p) \/ Ahead(p)
  BY <1>1, Here
<1>3. /\ patch' \in PatchType /\ Same(patch', r) /\ patch'.step = "begin" /\ Placed'
      /\ \A p \in Paths : (Entry(p)' <=> Entry(p)) /\ Final(p)' = Final(p)
      /\ \/ /\ patch'.phase = patch.phase
            /\ \A p \in Paths : Entry(p) =>
                  /\ Behind(p)' <=> Behind(p) \/ p = Path
                  /\ ~Behind(p)' => Ahead(p)
         \/ /\ patch'.phase = Following[patch.phase]
            /\ \A p \in Paths : Entry(p) => ~Ahead(p) /\ ~Behind(p)'
  BY <1>1, Advances
<1>4. patch'.phase \in {"publish", "cleanup"}
  BY <1>3 DEF Following
<1>5. /\ patch'.quarantine = patch.quarantine /\ patch'.original = patch.original
      /\ patch'.failures = patch.failures
      /\ \A p \in Paths : p \in patch'.published <=> p \in patch.published \/ (p = Path /\ Final(p) # None)
  BY <1>2, <1>3 DEF Same
<1>6. \A p \in Paths : Entry(p) =>
          /\ patch.original[p] # None => patch.quarantine[p] = "held"
          /\ Behind(p) /\ Final(p) # None => p \in patch.published
          /\ ~Behind(p) => p \notin patch.published
  BY DEF Recorded
<1>7. Recorded'
  <2>1. /\ patch'.failures = {}
        /\ \A p \in Paths :
              /\ patch'.original[p].by # "patch"
              /\ ~Entry(p)' => patch'.quarantine[p] = "no" /\ p \notin patch'.published
              /\ patch'.quarantine[p] # "no" => patch'.original[p] # None
              /\ p \in patch'.published =>
                    Final(p)' # None /\ (patch'.quarantine[p] = "no" => patch'.original[p] = None)
    BY <1>1, <1>2, <1>3, <1>5, <1>6 DEF Recorded
  <2>2. ASSUME patch'.phase = "publish", NEW p \in Paths, Entry(p)'
        PROVE  /\ patch'.original[p] # None => patch'.quarantine[p] = "held"
               /\ Behind(p)' /\ Final(p)' # None => p \in patch'.published
               /\ ~Behind(p)' => p \notin patch'.published
    <3>1. /\ Behind(p)' <=> Behind(p) \/ p = Path
          /\ ~Behind(p)' => Ahead(p)
      BY <1>3, <2>2 DEF Following
    <3>2. Entry(p) /\ Final(p)' = Final(p)
      BY <1>3, <2>2
    <3> QED BY <1>5, <1>6, <3>1, <3>2
  <2>3. ASSUME patch'.phase = "cleanup", NEW p \in Paths, Entry(p)'
        PROVE  /\ patch'.original[p] # None => patch'.quarantine[p] # "no"
               /\ Final(p)' # None => p \in patch'.published
               /\ ~Behind(p)'
    BY <1>2, <1>3, <1>5, <1>6, <2>3
  <2> QED BY <1>4, <2>1, <2>2, <2>3 DEF Recorded, Early, Late
<1> QED BY <1>3, <1>4, <1>7

LEMMA PublishKeeps ==
    ASSUME WorkspaceInv, Publish
    PROVE  WorkspaceInv'
<1>1. /\ Types /\ Placed /\ Recorded /\ Temporary /\ Marks /\ Debts /\ Apart /\ Undisturbed
      /\ patch \in PatchType /\ patch.phase = "publish" /\ disk \in Disks
      /\ patch.phase \in Late /\ patch.phase \in Active /\ UNCHANGED <<life, writer, others, met, owed>>
  BY DEF WorkspaceInv, Types, Publish, Late, Active, alone, Disks
<1>2. patch.step = "begin"
  BY <1>1 DEF Placed, PatchType
<1>3. Path \in Paths /\ Entry(Path) /\ ~Behind(Path)
  BY <1>1, Here
<1>4. \A p \in Paths : patch.quarantine[p] = "held" => disk["claimed"][p] = patch.original[p]
  BY <1>1, <1>2 DEF Temporary
<1>5. CASE Final(Path) = None /\ patch' = After(patch) /\ UNCHANGED disk
  <2>1. /\ Recorded' /\ Placed' /\ patch' \in PatchType /\ Same(patch', patch)
        /\ patch'.phase \in {"publish", "cleanup"} /\ patch'.step = "begin"
        /\ \A p \in Paths : (Entry(p)' <=> Entry(p)) /\ Final(p)' = Final(p)
    BY <1>1, <1>2, <1>5, PublishRecords
  <2>2. Types' /\ Marks' /\ Debts' /\ Apart'
    BY <1>1, <1>5, <2>1, Quiet DEF Same
  <2>3. Temporary'
    BY <1>1, <1>4, <1>5, <2>1 DEF Temporary, Same, Late
  <2>4. Undisturbed'
    <3>1. ~met => \A p \in Paths : Standing(p)'
      BY <1>1, <1>5, <2>1 DEF Undisturbed, Standing, At, Same
    <3>2. ~met => \A p \in Paths : Entry(p)' => Planned(p)'
      BY <1>1, <2>1 DEF Undisturbed, Planned, Same, Active, Late
    <3> QED BY <1>1, <2>1, <3>1, <3>2 DEF Undisturbed, Early, Late, Active
  <2> QED BY <2>1, <2>2, <2>3, <2>4 DEF WorkspaceInv
<1>6. CASE patch' = Back(patch) /\ UNCHANGED disk
  BY <1>1, <1>6, BackKeeps
<1>7. CASE /\ Final(Path) # None /\ At(Path) = None
           /\ disk' = Moved(disk, Path, "staged", "path")
           /\ patch' = After([patch EXCEPT !.published = @ \cup {Path}])
  <2>1. /\ disk' \in Disks /\ Renamed(disk, disk', "staged", "path", Path)
        /\ Shifted("staged", Path, "path", Path)
    BY <1>1, <1>3, <1>7, Passes DEF Roles
  <2> DEFINE made == patch.published \cup {Path}
             r == [patch EXCEPT !.published = made]
  <2>2. patch' = After(r) /\ made \in SUBSET Paths
    BY <1>1, <1>3, <1>7 DEF PatchType
  <2> HIDE DEF made
  <2>3. /\ r \in PatchType /\ r.ops = patch.ops /\ r.phase = patch.phase /\ r.i = patch.i
        /\ r.step = "begin" /\ r.original = patch.original /\ r.quarantine = patch.quarantine
        /\ r.failures = patch.failures /\ r.start = patch.start /\ r.published = made
    BY <1>1, <1>2, <2>2 DEF PatchType
  <2> HIDE DEF r
  <2>4. /\ Recorded' /\ Placed' /\ patch' \in PatchType /\ Same(patch', r)
        /\ patch'.phase \in {"publish", "cleanup"} /\ patch'.step = "begin"
        /\ \A p \in Paths : (Entry(p)' <=> Entry(p)) /\ Final(p)' = Final(p)
    <3>1. r.published = IF Final(Path) = None THEN patch.published ELSE patch.published \cup {Path}
      BY <1>7, <2>3 DEF made
    <3> QED BY <1>1, <2>2, <2>3, <3>1, PublishRecords
  <2>5. /\ patch'.quarantine = patch.quarantine /\ patch'.original = patch.original
        /\ patch'.start = patch.start /\ patch'.ops = patch.ops
        /\ \A p \in Paths : p \in patch'.published <=> p \in patch.published \/ p = Path
    BY <2>3, <2>4 DEF Same, made
  <2>6. Types'
    BY <1>1, <2>1, <2>4 DEF Types, Disks
  <2>7. \A p \in Paths : /\ disk'["claimed"][p] = disk["claimed"][p]
                         /\ disk'["output"][p] = disk["output"][p]
                         /\ disk'["aside"][p] = disk["aside"][p]
                         /\ disk'["written"][p] = disk["written"][p]
                         /\ p # Path => At(p)' = At(p) /\ disk'["staged"][p] = disk["staged"][p]
    BY <2>1 DEF Renamed, Roles, At
  <2>8. Path \notin patch.published /\ disk["staged"][Path] = Final(Path)
    BY <1>1, <1>3 DEF Recorded, Temporary
  <2>9. /\ disk'["staged"][Path] = None /\ disk'["path"][Path] = Final(Path)
        /\ \A p \in Paths : p = Path => At(p)' = Final(p)
    BY <2>1, <2>8 DEF Renamed, At
  <2>10. Temporary'
    BY <1>1, <1>4, <2>4, <2>5, <2>7, <2>9 DEF Temporary, Late
  <2>11. Marks'
    <3>1. Single(disk) /\ \A p \in Paths : p \notin patch'.published =>
             Alone(disk, p) /\ disk["staged"][Path] # Marked(p)
      <4>1. Single(disk) /\ \A p \in Paths : p \notin patch.published => Alone(disk, p)
        BY <1>1, Traced DEF Marks
      <4>2. disk["staged"][Path] = Marked(Path)
        BY <1>3, <1>7, <2>8, Finals
      <4>3. \A p \in Paths : p # Path => disk["staged"][Path] # Marked(p)
        BY <1>3, <4>2, MarkedOnce
      <4> QED BY <2>5, <4>1, <4>3
    <3>2. Single(disk') /\ \A p \in Paths : p \notin patch'.published => Alone(disk', p)
      BY <1>3, <2>1, <3>1, RenamedTraces DEF Roles
    <3> QED BY <2>4, <3>2, Traces
  <2>12. Debts'
    BY <1>1, <1>3, <1>7, <2>1, DebtsShift DEF Debts, Roles, At
  <2>13. Apart'
    BY <1>1, <2>7, ApartKeeps
  <2>14. Undisturbed'
    <3>1. ~met => \A p \in Paths : Standing(p)'
      <4> SUFFICES ASSUME ~met, NEW p \in Paths PROVE Standing(p)'
        OBVIOUS
      <4>1. Standing(p)
        BY <1>1 DEF Undisturbed
      <4>2. CASE p = Path
        BY <1>4, <2>4, <2>5, <2>7, <2>9, <4>2 DEF Standing
      <4>3. CASE p # Path
        BY <2>4, <2>5, <2>7, <4>1, <4>3 DEF Standing
      <4> QED BY <4>2, <4>3
    <3>2. ~met => \A p \in Paths : Entry(p)' => Planned(p)'
      BY <1>1, <2>4, <2>5 DEF Undisturbed, Planned, Active, Late
    <3> QED BY <1>1, <2>4, <3>1, <3>2 DEF Undisturbed, Early, Late, Active
  <2> QED BY <2>4, <2>6, <2>10, <2>11, <2>12, <2>13, <2>14 DEF WorkspaceInv
<1> QED BY <1>5, <1>6, <1>7 DEF Publish

(* The record after an original was released.                              *)
LEMMA CleanupRecords ==
    ASSUME Types, Placed, Recorded, patch.phase = "cleanup", NEW r \in PatchType,
           r.ops = patch.ops, r.phase = patch.phase, r.i = patch.i, r.step = "begin",
           r.original = patch.original, r.published = patch.published,
           r.failures = patch.failures, r.start = patch.start,
           \A p \in Paths : r.quarantine[p] =
              IF p = Path /\ patch.quarantine[p] = "held" THEN "released" ELSE patch.quarantine[p],
           patch' = After(r)
    PROVE  /\ Recorded' /\ Placed' /\ patch' \in PatchType /\ Same(patch', r)
           /\ patch'.phase \in {"cleanup", "ok"} /\ patch'.step = "begin"
           /\ \A p \in Paths : (Entry(p)' <=> Entry(p)) /\ Final(p)' = Final(p)
<1>1. /\ patch.phase \in Late /\ patch.phase \in Active
  BY DEF Late, Active
<1>2. /\ Path \in Paths /\ Entry(Path)
      /\ \A p \in Paths : p = Path \/ Behind(p) \/ Ahead(p)
  BY <1>1, Here
<1>3. /\ patch' \in PatchType /\ Same(patch', r) /\ patch'.step = "begin" /\ Placed'
      /\ \A p \in Paths : (Entry(p)' <=> Entry(p)) /\ Final(p)' = Final(p)
      /\ \/ /\ patch'.phase = patch.phase
            /\ \A p \in Paths : Entry(p) =>
                  /\ Behind(p)' <=> Behind(p) \/ p = Path
                  /\ ~Behind(p)' => Ahead(p)
         \/ /\ patch'.phase = Following[patch.phase]
            /\ \A p \in Paths : Entry(p) => ~Ahead(p) /\ ~Behind(p)'
  BY <1>1, Advances
<1>4. patch'.phase \in {"cleanup", "ok"}
  BY <1>3 DEF Following
<1>5. /\ patch'.published = patch.published /\ patch'.original = patch.original
      /\ patch'.failures = patch.failures
      /\ \A p \in Paths : /\ patch'.quarantine[p] = "no" <=> patch.quarantine[p] = "no"
                          /\ p = Path \/ patch.quarantine[p] # "held" => patch'.quarantine[p] # "held"
  BY <1>3 DEF Same
<1>6. \A p \in Paths : Entry(p) =>
          /\ patch.original[p] # None => patch.quarantine[p] # "no"
          /\ Final(p) # None => p \in patch.published
          /\ Behind(p) => patch.quarantine[p] # "held"
  BY DEF Recorded
<1>7. Recorded'
  <2>1. /\ patch'.phase = "cleanup" => patch'.failures = {}
        /\ \A p \in Paths :
              /\ patch'.original[p].by # "patch"
              /\ ~Entry(p)' => patch'.quarantine[p] = "no" /\ p \notin patch'.published
              /\ patch'.quarantine[p] # "no" => patch'.original[p] # None
              /\ p \in patch'.published =>
                    Final(p)' # None /\ (patch'.quarantine[p] = "no" => patch'.original[p] = None)
    BY <1>1, <1>3, <1>5 DEF Recorded
  <2>2. ASSUME NEW p \in Paths, Entry(p)'
        PROVE  /\ patch'.original[p] # None => patch'.quarantine[p] # "no"
               /\ Final(p)' # None => p \in patch'.published
    BY <1>3, <1>5, <1>6, <2>2
  <2>3. ASSUME NEW p \in Paths, Entry(p)', Behind(p)' \/ patch'.phase = "ok"
        PROVE  patch'.quarantine[p] # "held"
    <3>1. Behind(p) \/ p = Path
      BY <1>2, <1>3, <2>3 DEF Following
    <3> QED BY <1>3, <1>5, <1>6, <2>3, <3>1
  <2> QED BY <1>4, <2>1, <2>2, <2>3 DEF Recorded, Early, Late
<1> QED BY <1>3, <1>4, <1>7

LEMMA CleanupKeeps ==
    ASSUME WorkspaceInv, Cleanup
    PROVE  WorkspaceInv'
<1>1. /\ Types /\ Placed /\ Recorded /\ Temporary /\ Marks /\ Debts /\ Apart /\ Undisturbed
      /\ patch \in PatchType /\ patch.phase = "cleanup" /\ disk \in Disks
      /\ patch.phase \in Late /\ patch.phase \in Active /\ UNCHANGED <<life, writer, others, met>>
  BY DEF WorkspaceInv, Types, Cleanup, Late, Active, alone, Disks
<1>2. patch.step = "begin"
  BY <1>1 DEF Placed, PatchType
<1>3. Path \in Paths /\ Entry(Path)
  BY <1>1, Here
<1>4. \A p \in Paths : patch.quarantine[p] = "held" => disk["claimed"][p] = patch.original[p]
  BY <1>1, <1>2 DEF Temporary
<1>5. \A p \in Paths : disk["staged"][p] = None /\ (p \notin patch.published => Final(p) = None)
  BY <1>1, Finals DEF Temporary, Recorded
<1>6. CASE patch.quarantine[Path] # "held"
  <2>1. patch' = After(patch) /\ UNCHANGED <<disk, owed>>
    BY <1>6 DEF Cleanup
  <2>2. /\ Recorded' /\ Placed' /\ patch' \in PatchType /\ Same(patch', patch)
        /\ patch'.phase \in {"cleanup", "ok"} /\ patch'.step = "begin"
        /\ \A p \in Paths : (Entry(p)' <=> Entry(p)) /\ Final(p)' = Final(p)
    BY <1>1, <1>2, <1>6, <2>1, CleanupRecords
  <2>3. Types' /\ Marks' /\ Debts' /\ Apart'
    BY <1>1, <2>1, <2>2, Quiet DEF Same
  <2>4. Temporary'
    BY <1>1, <1>4, <1>5, <2>1, <2>2 DEF Temporary, Same, Late
  <2>5. Undisturbed'
    <3>1. ~met => \A p \in Paths : Standing(p)'
      BY <1>1, <2>1, <2>2 DEF Undisturbed, Standing, At, Same
    <3>2. ~met => \A p \in Paths : Entry(p)' => Planned(p)'
      BY <1>1, <2>2 DEF Undisturbed, Planned, Same, Active, Late
    <3> QED BY <1>1, <2>2, <3>1, <3>2 DEF Undisturbed, Early, Late, Active
  <2> QED BY <2>2, <2>3, <2>4, <2>5 DEF WorkspaceInv
<1>7. CASE patch.quarantine[Path] = "held"
  <2> DEFINE h == [patch.quarantine EXCEPT ![Path] = "released"]
             r == [patch EXCEPT !.quarantine = h]
  <2>1. /\ disk' = [disk EXCEPT !["claimed"][Path] = None]
        /\ patch' = After(r) /\ owed' = owed \ {patch.original[Path]}
    BY <1>7 DEF Cleanup
  <2>2. /\ h \in [Paths -> {"no", "held", "released"}] /\ h[Path] = "released"
        /\ \A p \in Paths : p # Path => h[p] = patch.quarantine[p]
    BY <1>1, <1>3 DEF PatchType
  <2> HIDE DEF h
  <2>3. /\ r \in PatchType /\ r.ops = patch.ops /\ r.phase = patch.phase /\ r.i = patch.i
        /\ r.step = "begin" /\ r.original = patch.original /\ r.quarantine = h
        /\ r.failures = patch.failures /\ r.start = patch.start /\ r.published = patch.published
    BY <1>1, <1>2, <2>2 DEF PatchType
  <2> HIDE DEF r
  <2>4. /\ Recorded' /\ Placed' /\ patch' \in PatchType /\ Same(patch', r)
        /\ patch'.phase \in {"cleanup", "ok"} /\ patch'.step = "begin"
        /\ \A p \in Paths : (Entry(p)' <=> Entry(p)) /\ Final(p)' = Final(p)
    BY <1>1, <1>7, <2>1, <2>2, <2>3, CleanupRecords
  <2>5. /\ patch'.quarantine = h /\ patch'.original = patch.original
        /\ patch'.start = patch.start /\ patch'.ops = patch.ops /\ patch'.published = patch.published
    BY <2>3, <2>4 DEF Same
  <2>6. disk' \in Disks /\ Changed("claimed", Path, None)
    BY <1>1, <1>3, <2>1, Makes, Puts DEF Roles
  <2>7. \A p \in Paths : /\ disk'["staged"][p] = disk["staged"][p] /\ At(p)' = At(p)
                         /\ disk'["output"][p] = disk["output"][p]
                         /\ disk'["aside"][p] = disk["aside"][p]
                         /\ disk'["written"][p] = disk["written"][p]
                         /\ disk'["claimed"][p] = IF p = Path THEN None ELSE disk["claimed"][p]
    BY <2>6 DEF Changed, Roles, At
  <2>8. Types'
    BY <1>1, <2>1, <2>4, <2>6 DEF Types, Disks
  <2>9. Temporary'
    BY <1>1, <1>4, <1>5, <2>2, <2>4, <2>5, <2>7 DEF Temporary, Late
  <2>10. Marks'
    <3>1. Single(disk) /\ \A p \in Paths : p \notin patch'.published => Alone(disk, p)
      BY <1>1, <2>5, Traced DEF Marks
    <3>2. Fewer(disk, disk')
      BY <2>6, Makes DEF Changed, Fewer
    <3>3. Single(disk') /\ \A p \in Paths : p \notin patch'.published => Alone(disk', p)
      BY <3>1, <3>2, FewerTraces
    <3> QED BY <2>4, <3>3, Traces
  <2>11. Debts'
    <3>1. \A c \in owed' : c # None /\ c.by # "patch" /\ c \in owed /\ c # disk["claimed"][Path]
      BY <1>1, <1>3, <1>4, <1>7, <2>1 DEF Debts
    <3>2. "claimed" \in Roles
      BY DEF Roles
    <3> QED BY <1>1, <1>3, <2>6, <3>1, <3>2, DebtsChange
  <2>12. Apart'
    BY <1>1, <2>7, ApartKeeps
  <2>13. Undisturbed'
    <3>1. ~met => \A p \in Paths : Standing(p)'
      <4> SUFFICES ASSUME ~met, NEW p \in Paths PROVE Standing(p)'
        OBVIOUS
      <4>1. Standing(p)
        BY <1>1 DEF Undisturbed
      <4>2. CASE p = Path
        BY <1>7, <2>2, <2>4, <2>5, <2>7, <4>1, <4>2 DEF Standing
      <4>3. CASE p # Path
        BY <2>2, <2>4, <2>5, <2>7, <4>1, <4>3 DEF Standing
      <4> QED BY <4>2, <4>3
    <3>2. ~met => \A p \in Paths : Entry(p)' => Planned(p)'
      BY <1>1, <2>4, <2>5 DEF Undisturbed, Planned, Active, Late
    <3> QED BY <1>1, <2>4, <3>1, <3>2 DEF Undisturbed, Early, Late, Active
  <2> QED BY <2>4, <2>8, <2>9, <2>10, <2>11, <2>12, <2>13 DEF WorkspaceInv
<1> QED BY <1>6, <1>7

-----------------------------------------------------------------------------
(* The way back.                                                           *)

(* What an entry that is rolled back leaves on disk.                       *)
Undone(d, r) ==
    /\ d \in Disks /\ Single(d) /\ \A p \in Paths : Alone(disk, p) => Alone(d, p)
    /\ \A p \in Paths :
          /\ d["staged"][p] = disk["staged"][p] /\ d["aside"][p] = disk["aside"][p]
          /\ d["written"][p] = disk["written"][p]
          /\ p # Path => /\ d["path"][p] = disk["path"][p] /\ d["claimed"][p] = disk["claimed"][p]
                         /\ d["output"][p] = disk["output"][p]
    /\ patch.quarantine[Path] # "held" => d["claimed"][Path] = None
    /\ Path \notin r.failures =>
          Alone(d, Path) /\ d["claimed"][Path] = None /\ d["output"][Path] = None
    /\ ~met => r.failures = {} /\ d["path"][Path] = patch.start[Path]
    /\ \A c \in owed' : /\ c \in Contents /\ c # None /\ c.by # "patch"
                        /\ \E s \in Roles, x \in Paths : d[s][x] = c

LEMMA RolledBackKeeps ==
    ASSUME WorkspaceInv, patch.phase = "rollback", UNCHANGED <<life, writer, others, met>>,
           NEW d, NEW r \in PatchType,
           r.ops = patch.ops, r.phase = patch.phase, r.i = patch.i,
           r.original = patch.original, r.quarantine = patch.quarantine,
           r.published = patch.published, r.start = patch.start,
           \A p \in Paths : p \in r.failures <=> p \in patch.failures \/ (p = Path /\ Path \in r.failures),
           Undone(d, r), RolledBack(d, r)
    PROVE  WorkspaceInv'
<1>1. /\ Types /\ Placed /\ Recorded /\ Temporary /\ Marks /\ Apart /\ Undisturbed
      /\ patch \in PatchType /\ disk \in Disks /\ patch.phase \in Active
  BY DEF WorkspaceInv, Types, Active, Disks
<1>2. /\ Path \in Paths /\ Entry(Path) /\ ~Behind(Path) /\ ~Ahead(Path)
  BY <1>1, Here
<1>3. /\ patch' = Before(r) /\ disk' = Cleared(d)
  BY DEF RolledBack
<1> DEFINE q == Before(r)
<1>4. /\ q \in PatchType /\ Same(q, r)
      /\ \/ /\ Earlier # {} /\ q.phase = "rollback" /\ q.step = "take"
            /\ q.i \in Entries(patch.ops) /\ q.i \in Nat
            /\ \A p \in Paths : Entry(p) => (Index(p) > q.i <=> (Ahead(p) \/ p = Path))
            /\ \A p \in Paths : Entry(p) /\ Index(p) <= q.i => Behind(p)
         \/ /\ Earlier = {} /\ q.step = "begin"
            /\ q.phase = IF r.failures = {} THEN "failed" ELSE "unsafe"
            /\ \A p \in Paths : Entry(p) => Ahead(p) \/ p = Path
  BY <1>1, Backward
<1>5. patch' = q
  BY <1>3
<1> HIDE DEF q
<1>6. /\ patch'.ops = patch.ops /\ patch'.original = patch.original
      /\ patch'.quarantine = patch.quarantine /\ patch'.published = patch.published
      /\ patch'.start = patch.start /\ patch'.failures = r.failures
  BY <1>4, <1>5 DEF Same
<1>7. \A p \in Paths : /\ (Entry(p)' <=> Entry(p)) /\ Final(p)' = Final(p)
                       /\ (Planned(p)' <=> Planned(p))
  BY <1>6 DEF Entry, Final, Planned
<1>8. \A p \in Paths : p \notin patch'.published => Alone(d, p)
  BY <1>1, <1>6, Traced DEF Marks, Undone
<1>9. \A p \in Paths : Entry(p) /\ (Ahead(p) \/ p = Path) /\ p \notin r.failures =>
         Alone(d, p) /\ d["claimed"][p] = None /\ d["output"][p] = None
  <2> SUFFICES ASSUME NEW p \in Paths, Entry(p), Ahead(p), p # Path, p \notin r.failures
               PROVE  Alone(d, p) /\ d["claimed"][p] = None /\ d["output"][p] = None
    BY DEF Undone
  <2>1. OnlyStaged(p) /\ disk["claimed"][p] = None /\ disk["output"][p] = None
    BY <1>1 DEF Marks, Temporary
  <2> QED BY <2>1, Traced DEF Undone
<1>10. \A p \in Paths : /\ ~Entry(p) => p # Path /\ d["output"][p] = None
                        /\ patch.quarantine[p] # "held" => d["claimed"][p] = None
  BY <1>1, <1>2 DEF Temporary, Undone
<1>11. \A p \in Paths :
          d["staged"][p] = IF p \notin patch.published THEN Final(p) ELSE None
  BY <1>1 DEF Temporary, Undone
<1>12. Recorded'
  <2>1. patch'.phase \in {"rollback", "failed", "unsafe"}
    BY <1>4, <1>5
  <2> QED BY <1>1, <1>6, <1>7, <2>1 DEF Recorded, Early, Late
<1>13. ~met => /\ patch.failures = {} /\ r.failures = {} /\ d["path"][Path] = patch.start[Path]
               /\ \A p \in Paths : /\ Behind(p) \/ ~Entry(p) => Standing(p)
                                   /\ Entry(p) => Planned(p)
                                   /\ Entry(p) /\ Ahead(p) => At(p) = patch.start[p]
  BY <1>1 DEF Undisturbed, Undone, Active
<1>14. CASE Earlier # {}
  <2>1. disk' = d
    BY <1>3, <1>14 DEF Cleared
  <2>2. /\ patch'.phase = "rollback" /\ patch'.step = "take"
        /\ patch'.i \in Entries(patch.ops) /\ patch'.i \in Nat
        /\ \A p \in Paths : Entry(p) => (Index(p) > patch'.i <=> (Ahead(p) \/ p = Path))
        /\ \A p \in Paths : Entry(p) /\ Index(p) <= patch'.i => Behind(p)
    BY <1>4, <1>5, <1>14
  <2>3. Types'
    BY <1>1, <1>4, <1>5, <2>1 DEF Types, Undone, Disks
  <2>4. Placed'
    BY <1>6, <2>2 DEF Placed
  <2>5. /\ \A p \in Paths : Entry(p) => (Ahead(p)' <=> Ahead(p) \/ p = Path)
        /\ \A p \in Paths : Entry(p) /\ (Behind(p)' \/ p = Path') => Behind(p)
    <3>1. /\ \A p \in Paths : Index(p) \in Nat
          /\ Index(Path') = patch'.i
      BY <2>2, Orders, Turned DEF Entries
    <3>2. \A p \in Paths : Entry(p) => (Ahead(p)' <=> Ahead(p) \/ p = Path)
      BY <2>2, Turned
    <3>3. \A p \in Paths : Behind(p)' \/ p = Path' => Index(p) <= patch'.i
      BY <2>2, <3>1, Turned
    <3> QED BY <2>2, <3>2, <3>3
  <2>6. \A p \in Paths : Behind(p)' \/ ~Entry(p) \/ p = Path' => (Behind(p) \/ ~Entry(p)) /\ p # Path
    BY <1>2, <2>5
  <2>7. Temporary'
    <3>1. \A p \in Paths : Behind(p)' \/ ~Entry(p)' \/ p = Path' => disk'["output"][p] = None
      BY <1>1, <1>7, <2>1, <2>6 DEF Temporary, Undone
    <3>2. \A p \in Paths : Entry(p)' /\ Ahead(p)' /\ p \notin patch'.failures =>
             disk'["claimed"][p] = None /\ disk'["output"][p] = None
      BY <1>6, <1>7, <1>9, <2>1, <2>5
    <3> QED BY <1>6, <1>7, <1>10, <1>11, <2>1, <2>2, <3>1, <3>2 DEF Temporary, Late
  <2>8. Marks'
    <3>1. \A p \in Paths : Entry(p)' /\ Ahead(p)' /\ p \notin patch'.failures => Alone(disk', p)
      BY <1>6, <1>7, <1>9, <2>1, <2>5
    <3> QED BY <1>8, <2>1, <2>2, <3>1, Traces DEF Undone
  <2>9. Debts'
    BY <2>1 DEF Debts, NothingLost, Undone
  <2>10. Apart'
    BY <1>1, <2>1, ApartKeeps DEF Undone
  <2>11. Undisturbed'
    <3> SUFFICES ASSUME ~met PROVE Undisturbed'
      BY DEF Undisturbed
    <3>1. \A p \in Paths : Behind(p)' \/ ~Entry(p)' \/ p = Path' => Standing(p)'
      <4> SUFFICES ASSUME NEW p \in Paths, Behind(p)' \/ ~Entry(p)' \/ p = Path' PROVE Standing(p)'
        OBVIOUS
      <4>1. Standing(p) /\ p # Path
        BY <1>7, <1>13, <2>6
      <4>2. At(p)' = At(p) /\ disk'["claimed"][p] = disk["claimed"][p]
        BY <2>1, <4>1 DEF At, Undone
      <4> QED BY <1>6, <1>7, <4>1, <4>2 DEF Standing
    <3>2. \A p \in Paths : Entry(p)' /\ Ahead(p)' => At(p)' = patch'.start[p]
      BY <1>2, <1>6, <1>7, <1>13, <2>1, <2>5 DEF At, Undone
    <3>3. \A p \in Paths : p = Path' /\ patch'.quarantine[p] = "held" =>
             disk'["claimed"][p] = patch'.original[p]
      BY <3>1 DEF Standing
    <3>4. patch'.failures = {} /\ \A p \in Paths : Entry(p)' => Planned(p)'
      BY <1>6, <1>7, <1>13
    <3> QED BY <2>2, <3>1, <3>2, <3>3, <3>4 DEF Undisturbed, Early, Late, Active
  <2> QED BY <1>12, <2>3, <2>4, <2>7, <2>8, <2>9, <2>10, <2>11 DEF WorkspaceInv
<1>15. CASE Earlier = {}
  <2>1. /\ disk' \in Disks
        /\ \A s \in Roles, x \in Paths : disk'[s][x] = IF s = "staged" THEN None ELSE d[s][x]
    BY <1>3, <1>15, Unstages DEF Cleared, Undone
  <2>2. /\ patch'.step = "begin" /\ patch'.phase = IF r.failures = {} THEN "failed" ELSE "unsafe"
        /\ \A p \in Paths : Entry(p) => Ahead(p) \/ p = Path
    BY <1>4, <1>5, <1>15
  <2>3. Types'
    BY <1>1, <1>4, <1>5, <2>1 DEF Types, Undone, Disks
  <2>4. Placed'
    BY <2>2 DEF Placed, Active, Early, Late
  <2>5. \A p \in Paths : /\ disk'["staged"][p] = None /\ disk'["claimed"][p] = d["claimed"][p]
                         /\ disk'["output"][p] = d["output"][p] /\ At(p)' = d["path"][p]
                         /\ disk'["aside"][p] = d["aside"][p] /\ disk'["written"][p] = d["written"][p]
    BY <2>1 DEF Roles, At
  <2>6. r.failures = {} => \A p \in Paths :
           Alone(d, p) /\ d["claimed"][p] = None /\ d["output"][p] = None
    <3> SUFFICES ASSUME r.failures = {}, NEW p \in Paths
                 PROVE  Alone(d, p) /\ d["claimed"][p] = None /\ d["output"][p] = None
      OBVIOUS
    <3>1. CASE Entry(p)
      BY <1>9, <2>2, <3>1
    <3>2. CASE ~Entry(p)
      BY <1>1, <1>6, <1>8, <1>10, <3>2 DEF Recorded
    <3> QED BY <3>1, <3>2
  <2>7. Temporary'
    <3>1. \A p \in Paths : patch'.phase = "failed" =>
             disk'["claimed"][p] = None /\ disk'["output"][p] = None
      BY <2>2, <2>5, <2>6
    <3>2. \A p \in Paths : patch'.quarantine[p] # "held" => disk'["claimed"][p] = None
      BY <1>6, <1>10, <2>5
    <3> QED BY <2>2, <2>5, <3>1, <3>2 DEF Temporary, Late
  <2>8. Marks'
    <3>1. Fewer(d, disk')
      BY <2>1, Makes DEF Fewer
    <3>2. Single(disk') /\ \A p \in Paths : Alone(d, p) => Alone(disk', p)
      BY <3>1, FewerTraces DEF Undone
    <3> QED BY <1>8, <2>2, <2>6, <3>2, Traces
  <2>9. Debts'
    <3>1. ASSUME NEW c \in owed'
          PROVE  \E s \in Roles, x \in Paths : disk'[s][x] = c
      <4>1. PICK s \in Roles, x \in Paths : d[s][x] = c
        BY DEF Undone
      <4>2. s # "staged"
        BY <1>11, <4>1, Finals, MarkedOnce DEF Undone
      <4> QED BY <2>1, <4>1, <4>2
    <3> QED BY <3>1 DEF Debts, NothingLost, Undone
  <2>10. Apart'
    BY <1>1, <2>5, ApartKeeps DEF Undone
  <2>11. Undisturbed'
    <3> SUFFICES ASSUME ~met PROVE Undisturbed'
      BY DEF Undisturbed
    <3>1. patch'.phase = "failed"
      BY <1>13, <2>2
    <3>2. ASSUME NEW p \in Paths PROVE At(p)' = patch'.start[p]
      <4>1. CASE p = Path
        BY <1>6, <1>13, <2>5, <4>1
      <4>2. CASE p # Path /\ Entry(p)
        BY <1>6, <1>13, <2>2, <2>5, <4>2 DEF At, Undone
      <4>3. CASE ~Entry(p)
        <5>1. Standing(p) /\ patch.quarantine[p] = "no" /\ p \notin patch.published /\ p # Path
          BY <1>1, <1>10, <1>13, <4>3 DEF Recorded
        <5> QED BY <1>6, <2>5, <5>1 DEF Standing, At, Undone
      <4> QED BY <4>1, <4>2, <4>3
    <3> QED BY <3>1, <3>2 DEF Undisturbed, Early, Late, Active
  <2> QED BY <1>12, <2>3, <2>4, <2>7, <2>8, <2>9, <2>10, <2>11 DEF WorkspaceInv
<1> QED BY <1>14, <1>15

(* An entry that cannot be rolled back is reported.                        *)
LEMMA GivesUpKeeps ==
    ASSUME WorkspaceInv, patch.phase = "rollback", met,
           UNCHANGED <<life, writer, others, met, owed>>, NEW d \in Disks, GivesUp(d),
           \/ d = disk
           \/ Renamed(disk, d, "output", "path", Path) /\ At(Path) = None
    PROVE  WorkspaceInv'
<1>1. /\ Types /\ Placed /\ Recorded /\ Temporary /\ Marks /\ Debts
      /\ patch \in PatchType /\ disk \in Disks /\ patch.phase \in Active
  BY DEF WorkspaceInv, Types, Active, Disks
<1>2. Path \in Paths
  BY <1>1, Here
<1> DEFINE failed == patch.failures \cup {Path}
           r == [patch EXCEPT !.failures = failed]
<1>3. RolledBack(d, r) /\ failed \in SUBSET Paths
  BY <1>1, <1>2 DEF GivesUp, PatchType
<1> HIDE DEF failed
<1>4. /\ r \in PatchType /\ r.ops = patch.ops /\ r.phase = patch.phase /\ r.i = patch.i
      /\ r.original = patch.original /\ r.quarantine = patch.quarantine
      /\ r.published = patch.published /\ r.start = patch.start /\ r.failures = failed
  BY <1>1, <1>3 DEF PatchType
<1> HIDE DEF r
<1>5. Path \in r.failures
      /\ \A p \in Paths : p \in r.failures <=> p \in patch.failures \/ (p = Path /\ Path \in r.failures)
  BY <1>4 DEF failed
<1>6. Single(disk)
  BY <1>1, Traced
<1>7. "output" \in Roles /\ "path" \in Roles /\ "output" # "path"
  BY DEF Roles
<1>8. Single(d) /\ \A p \in Paths : Alone(disk, p) => Alone(d, p)
  <2>1. CASE d = disk
    BY <1>6, <2>1
  <2>2. CASE Renamed(disk, d, "output", "path", Path) /\ At(Path) = None
    <3>1. \A p \in Paths : Alone(disk, p) => disk["output"][Path] # Marked(p)
      BY <1>2, <1>7 DEF Alone
    <3> QED BY <1>2, <1>6, <1>7, <2>2, <3>1, RenamedTraces
  <2> QED BY <2>1, <2>2
<1>9. \A p \in Paths :
         /\ d["staged"][p] = disk["staged"][p] /\ d["aside"][p] = disk["aside"][p]
         /\ d["written"][p] = disk["written"][p] /\ d["claimed"][p] = disk["claimed"][p]
         /\ p # Path => d["path"][p] = disk["path"][p] /\ d["output"][p] = disk["output"][p]
  BY DEF Renamed, Roles
<1>10. \A c \in owed' : /\ c \in Contents /\ c # None /\ c.by # "patch"
                        /\ \E s \in Roles, x \in Paths : d[s][x] = c
  <2> SUFFICES ASSUME NEW c \in owed PROVE \E s \in Roles, x \in Paths : d[s][x] = c
    BY <1>1 DEF Debts, Types
  <2>1. PICK s \in Roles, x \in Paths : disk[s][x] = c /\ c # None
    BY <1>1 DEF Debts, NothingLost
  <2>2. CASE d = disk
    BY <2>1, <2>2
  <2>3. CASE Renamed(disk, d, "output", "path", Path) /\ At(Path) = None
    BY <1>2, <1>7, <2>1, <2>3 DEF Renamed, At
  <2> QED BY <2>2, <2>3
<1>11. Undone(d, r)
  BY <1>1, <1>2, <1>5, <1>8, <1>9, <1>10 DEF Undone, Temporary
<1> QED BY <1>3, <1>4, <1>5, <1>11, RolledBackKeeps

(* The next step of an entry that is rolled back.                          *)
LEMMA Steps ==
    ASSUME WorkspaceInv, patch.phase = "rollback", NEW s \in {"compare", "restore"},
           patch' = [patch EXCEPT !.step = s]
    PROVE  /\ patch' \in PatchType /\ Same(patch', patch) /\ patch'.phase = "rollback"
           /\ patch'.step = s /\ Placed' /\ Recorded' /\ Path' = Path
           /\ \A p \in Paths : /\ (Entry(p)' <=> Entry(p)) /\ Final(p)' = Final(p)
                               /\ (Behind(p)' <=> Behind(p)) /\ (Ahead(p)' <=> Ahead(p))
                               /\ (Planned(p)' <=> Planned(p))
<1>1. patch \in PatchType /\ Placed /\ Recorded
  BY DEF WorkspaceInv, Types
<1>2. /\ patch' \in PatchType /\ Same(patch', patch) /\ patch'.phase = "rollback"
      /\ patch'.step = s /\ patch'.i = patch.i
  BY <1>1 DEF PatchType, Same
<1>3. /\ Path' = Path
      /\ \A p \in Paths : /\ (Entry(p)' <=> Entry(p)) /\ Final(p)' = Final(p)
                          /\ (Behind(p)' <=> Behind(p)) /\ (Ahead(p)' <=> Ahead(p))
                          /\ (Planned(p)' <=> Planned(p))
  BY <1>2 DEF Path, Entry, Final, Behind, Ahead, Planned, Same
<1>4. Placed'
  BY <1>1, <1>2 DEF Placed, Active, Same
<1>5. Recorded'
  BY <1>1, <1>2, <1>3 DEF Recorded, Same, Early, Late
<1> QED BY <1>2, <1>3, <1>4, <1>5

LEMMA TakeKeeps ==
    ASSUME WorkspaceInv, Take
    PROVE  WorkspaceInv'
<1>1. /\ Types /\ Placed /\ Recorded /\ Temporary /\ Marks /\ Debts /\ Apart /\ Undisturbed
      /\ patch \in PatchType /\ disk \in Disks /\ patch.phase \in Active
      /\ patch.phase = "rollback" /\ patch.step = "take" /\ UNCHANGED <<life, writer, others, met, owed>>
  BY DEF WorkspaceInv, Types, Active, Disks, Take, alone
<1>2. Path \in Paths /\ ~Ahead(Path) /\ ~Behind(Path) /\ Entry(Path)
  BY <1>1, Here
<1>3. disk["output"][Path] = None
  BY <1>1, <1>2 DEF Temporary
<1>4. ~met => Standing(Path) /\ patch.failures = {}
  BY <1>1, <1>2 DEF Undisturbed
<1>5. CASE Path \notin patch.published /\ patch' = [patch EXCEPT !.step = "restore"] /\ UNCHANGED disk
  <2>1. /\ patch' \in PatchType /\ Same(patch', patch) /\ patch'.phase = "rollback"
        /\ patch'.step = "restore" /\ Placed' /\ Recorded' /\ Path' = Path
        /\ \A p \in Paths : /\ (Entry(p)' <=> Entry(p)) /\ Final(p)' = Final(p)
                            /\ (Behind(p)' <=> Behind(p)) /\ (Ahead(p)' <=> Ahead(p))
                            /\ (Planned(p)' <=> Planned(p))
    BY <1>1, <1>5, Steps
  <2>2. Types' /\ Debts' /\ Apart'
    BY <1>1, <1>5, <2>1 DEF Types, Debts, NothingLost, Apart
  <2>3. Temporary'
    BY <1>1, <1>3, <1>5, <2>1 DEF Temporary, Same, Late
  <2>4. Marks'
    <3>1. /\ Single(disk') /\ \A p \in Paths : p \notin patch'.published => Alone(disk', p)
          /\ \A p \in Paths : Entry(p)' /\ Ahead(p)' /\ p \notin patch'.failures => Alone(disk', p)
      BY <1>1, <1>5, <2>1, Traced DEF Marks, Same
    <3> QED BY <2>1, <3>1, Traces
  <2>5. Undisturbed'
    <3>1. \A p \in Paths : At(p)' = At(p) /\ (Standing(p)' <=> Standing(p))
      BY <1>5, <2>1 DEF At, Standing, Same
    <3>2. ~met => At(Path) = IF patch.quarantine[Path] # "no" THEN None ELSE patch.start[Path]
      BY <1>4, <1>5 DEF Standing
    <3> QED BY <1>1, <1>5, <2>1, <3>1, <3>2 DEF Undisturbed, Same, Early, Late
  <2> QED BY <2>1, <2>2, <2>3, <2>4, <2>5 DEF WorkspaceInv
<1>6. CASE Path \in patch.published /\ At(Path) = None /\ GivesUp(disk)
  <2>1. met
    BY <1>1, <1>2, <1>4, <1>6 DEF Standing, Recorded
  <2> QED BY <1>1, <1>6, <2>1, GivesUpKeeps
<1>7. CASE /\ Path \in patch.published /\ At(Path) # None
           /\ disk' = Moved(disk, Path, "path", "output")
           /\ patch' = [patch EXCEPT !.step = "compare"]
  <2>1. /\ patch' \in PatchType /\ Same(patch', patch) /\ patch'.phase = "rollback"
        /\ patch'.step = "compare" /\ Placed' /\ Recorded' /\ Path' = Path
        /\ \A p \in Paths : /\ (Entry(p)' <=> Entry(p)) /\ Final(p)' = Final(p)
                            /\ (Behind(p)' <=> Behind(p)) /\ (Ahead(p)' <=> Ahead(p))
                            /\ (Planned(p)' <=> Planned(p))
    BY <1>1, <1>7, Steps
  <2>2. /\ disk' \in Disks /\ Renamed(disk, disk', "path", "output", Path)
        /\ Shifted("path", Path, "output", Path)
    BY <1>1, <1>2, <1>7, Passes DEF Roles
  <2>3. \A p \in Paths : /\ disk'["staged"][p] = disk["staged"][p]
                         /\ disk'["claimed"][p] = disk["claimed"][p]
                         /\ disk'["aside"][p] = disk["aside"][p]
                         /\ disk'["written"][p] = disk["written"][p]
                         /\ p # Path => At(p)' = At(p) /\ disk'["output"][p] = disk["output"][p]
    BY <2>2 DEF Renamed, Roles, At
  <2>4. /\ disk'["output"][Path] = At(Path) /\ \A p \in Paths : p = Path => At(p)' = None
    BY <2>2 DEF Renamed, At
  <2>5. Types'
    BY <1>1, <2>1, <2>2 DEF Types, Disks
  <2>6. Temporary'
    BY <1>1, <1>2, <2>1, <2>3 DEF Temporary, Same, Late
  <2>7. Marks'
    <3>1. Single(disk) /\ \A p \in Paths : Alone(disk, p) => disk["path"][Path] # Marked(p)
      BY <1>1, <1>2, Traced DEF Alone, Roles
    <3>2. Single(disk') /\ \A p \in Paths : Alone(disk, p) => Alone(disk', p)
      BY <1>2, <2>2, <3>1, RenamedTraces DEF Roles
    <3>3. /\ \A p \in Paths : p \notin patch'.published => Alone(disk, p)
          /\ \A p \in Paths : Entry(p)' /\ Ahead(p)' /\ p \notin patch'.failures => Alone(disk, p)
      BY <1>1, <2>1, Traced DEF Marks, Same
    <3> QED BY <2>1, <3>2, <3>3, Traces
  <2>8. Debts'
    BY <1>1, <1>2, <1>3, <2>2, DebtsShift DEF Debts, Roles
  <2>9. Apart'
    BY <1>1, <2>3, ApartKeeps
  <2>10. Undisturbed'
    <3> SUFFICES ASSUME ~met PROVE Undisturbed'
      BY <1>1 DEF Undisturbed
    <3>1. \A p \in Paths : p # Path => (Standing(p)' <=> Standing(p))
      BY <2>1, <2>3 DEF Standing, Same
    <3>2. disk'["output"][Path] = Final(Path)
      BY <1>4, <1>7, <2>4 DEF Standing
    <3>3. \A p \in Paths : Behind(p)' \/ ~Entry(p)' => Standing(p)'
      BY <1>1, <1>2, <2>1, <3>1 DEF Undisturbed
    <3>4. \A p \in Paths : Entry(p)' /\ Ahead(p)' => At(p)' = patch'.start[p]
      BY <1>1, <1>2, <2>1, <2>3 DEF Undisturbed, Same
    <3>5. patch'.quarantine[Path] = "held" => disk'["claimed"][Path] = patch'.original[Path]
      BY <1>2, <1>4, <2>1, <2>3 DEF Standing, Same
    <3>6. patch'.failures = {} /\ \A p \in Paths : Entry(p)' => Planned(p)'
      BY <1>1, <1>4, <2>1 DEF Undisturbed, Same, Active
    <3>7. Path \in patch'.published
      BY <1>7, <2>1 DEF Same
    <3> QED BY <2>1, <2>4, <3>2, <3>3, <3>4, <3>5, <3>6, <3>7 DEF Undisturbed, Early, Late, Active
  <2> QED BY <2>1, <2>5, <2>6, <2>7, <2>8, <2>9, <2>10 DEF WorkspaceInv
<1> QED BY <1>5, <1>6, <1>7 DEF Take

LEMMA TakenKeeps ==
    ASSUME WorkspaceInv, Taken
    PROVE  WorkspaceInv'
<1>1. /\ Types /\ Placed /\ Recorded /\ Temporary /\ Marks /\ Debts /\ Apart /\ Undisturbed
      /\ patch \in PatchType /\ disk \in Disks /\ patch.phase \in Active
      /\ patch.phase = "rollback" /\ patch.step = "compare"
      /\ UNCHANGED <<life, writer, others, met, owed>>
  BY DEF WorkspaceInv, Types, Active, Disks, Taken, alone
<1>2. Path \in Paths /\ ~Ahead(Path) /\ ~Behind(Path) /\ Entry(Path)
  BY <1>1, Here
<1>3. ~met => Path \in patch.published /\ At(Path) = None /\ disk["output"][Path] = Final(Path)
  BY <1>1, <1>2 DEF Undisturbed
<1>4. CASE /\ disk["output"][Path] = Final(Path)
           /\ patch' = [patch EXCEPT !.step = "restore"] /\ UNCHANGED disk
  <2>1. /\ patch' \in PatchType /\ Same(patch', patch) /\ patch'.phase = "rollback"
        /\ patch'.step = "restore" /\ Placed' /\ Recorded' /\ Path' = Path
        /\ \A p \in Paths : /\ (Entry(p)' <=> Entry(p)) /\ Final(p)' = Final(p)
                            /\ (Behind(p)' <=> Behind(p)) /\ (Ahead(p)' <=> Ahead(p))
                            /\ (Planned(p)' <=> Planned(p))
    BY <1>1, <1>4, Steps
  <2>2. Types' /\ Debts' /\ Apart'
    BY <1>1, <1>4, <2>1 DEF Types, Debts, NothingLost, Apart
  <2>3. Path \notin patch.published => disk["output"][Path] = None
    <3>1. Path \notin patch.published => disk["output"][Path] # Marked(Path)
      BY <1>1, <1>2 DEF Marks, OnlyStaged, Roles
    <3> QED BY <1>2, <1>4, <3>1, Finals
  <2>4. Temporary'
    BY <1>1, <1>4, <2>1, <2>3 DEF Temporary, Same, Late
  <2>5. Marks'
    <3>1. /\ Single(disk') /\ \A p \in Paths : p \notin patch'.published => Alone(disk', p)
          /\ \A p \in Paths : Entry(p)' /\ Ahead(p)' /\ p \notin patch'.failures => Alone(disk', p)
      BY <1>1, <1>4, <2>1, Traced DEF Marks, Same
    <3> QED BY <2>1, <3>1, Traces
  <2>6. Undisturbed'
    <3>1. \A p \in Paths : At(p)' = At(p) /\ (Standing(p)' <=> Standing(p))
      BY <1>4, <2>1 DEF At, Standing, Same
    <3> QED BY <1>1, <1>3, <1>4, <2>1, <3>1 DEF Undisturbed, Same, Early, Late
  <2> QED BY <2>1, <2>2, <2>4, <2>5, <2>6 DEF WorkspaceInv
<1>5. CASE /\ disk["output"][Path] # Final(Path)
           /\ GivesUp(IF At(Path) = None THEN Moved(disk, Path, "output", "path") ELSE disk)
  <2>1. met
    BY <1>3, <1>5
  <2>2. CASE At(Path) # None
    <3>1. GivesUp(disk)
      BY <1>5, <2>2
    <3> QED BY <1>1, <2>1, <3>1, GivesUpKeeps
  <2>3. CASE At(Path) = None
    <3> DEFINE d == Moved(disk, Path, "output", "path")
    <3>1. GivesUp(d)
      BY <1>5, <2>3
    <3>2. d \in Disks /\ Renamed(disk, d, "output", "path", Path)
      BY <1>1, <1>2, Renames DEF Renamed, Roles
    <3> HIDE DEF d
    <3> QED BY <1>1, <2>1, <2>3, <3>1, <3>2, GivesUpKeeps
  <2> QED BY <2>2, <2>3
<1> QED BY <1>4, <1>5 DEF Taken

(* The output of an entry is removed: it was the only copy of what the     *)
(* patch made, if there was one.                                           *)
LEMMA Drops ==
    ASSUME NEW m, NEW d, Single(m), NEW p \in Paths, m["output"][p] = Marked(p) \/ Alone(m, p),
           d["output"][p] = None,
           \A r \in Roles, x \in Paths :
              r # "output" \/ x # p => d[r][x] = m[r][x] \/ d[r][x].by # "patch"
    PROVE  Single(d) /\ Alone(d, p) /\ \A q \in Paths : Alone(m, q) => Alone(d, q)
<1>1. Fewer(m, d)
  BY Makes DEF Fewer
<1>2. Single(d) /\ \A q \in Paths : Alone(m, q) => Alone(d, q)
  BY <1>1, FewerTraces
<1>3. ASSUME m["output"][p] = Marked(p), NEW r \in Roles, NEW x \in Paths, d[r][x] = Marked(p)
      PROVE  FALSE
  <2>1. Marked(p) # None /\ Marked(p).by = "patch" /\ "output" \in Roles
    BY MarkedOnce DEF Roles
  <2>2. (r # "output" \/ x # p) /\ m[r][x] = Marked(p)
    BY <1>3, <2>1
  <2> QED BY <1>3, <2>1, <2>2 DEF Single
<1>4. Alone(d, p)
  BY <1>2, <1>3 DEF Alone
<1> QED BY <1>2, <1>4

LEMMA RestoreKeeps ==
    ASSUME WorkspaceInv, Restore
    PROVE  WorkspaceInv'
<1>1. /\ Types /\ Placed /\ Recorded /\ Temporary /\ Marks /\ Debts /\ Apart /\ Undisturbed
      /\ patch \in PatchType /\ disk \in Disks /\ patch.phase \in Active
      /\ patch.phase = "rollback" /\ patch.step = "restore" /\ UNCHANGED <<life, writer, others, met>>
  BY DEF WorkspaceInv, Types, Active, Disks, Restore, alone
<1>2. /\ Path \in Paths /\ Entry(Path) /\ None \in Contents
      /\ "output" \in Roles /\ "path" \in Roles /\ "claimed" \in Roles
  BY <1>1, Here, Makes DEF Roles
<1>3. /\ disk["output"][Path] = IF Path \in patch.published THEN Final(Path) ELSE None
      /\ disk["output"][Path] = Marked(Path) \/ Alone(disk, Path)
      /\ disk["output"][Path] = None \/ disk["output"][Path].by = "patch"
  <2>1. disk["output"][Path] = IF Path \in patch.published THEN Final(Path) ELSE None
    BY <1>1, <1>2 DEF Temporary
  <2>2. Path \in patch.published => Final(Path) = Marked(Path)
    BY <1>1, <1>2, Finals DEF Recorded
  <2>3. Path \notin patch.published => Alone(disk, Path)
    BY <1>1, <1>2, Traced DEF Marks
  <2> QED BY <1>2, <2>1, <2>2, <2>3, MarkedOnce
<1>4. /\ ~met => /\ patch.failures = {} /\ Planned(Path)
                 /\ At(Path) = IF Path \in patch.published \/ patch.quarantine[Path] # "no"
                               THEN None ELSE patch.start[Path]
                 /\ patch.quarantine[Path] = "held" => disk["claimed"][Path] = patch.original[Path]
  BY <1>1, <1>2 DEF Undisturbed, Active
<1>5. Single(disk)
  BY <1>1, Traced
<1>6. \A c \in owed : /\ c \in Contents /\ c # None /\ c.by # "patch"
                      /\ \E s \in Roles, x \in Paths : disk[s][x] = c /\ ~(s = "output" /\ x = Path)
  BY <1>1, <1>3 DEF Debts, NothingLost, Types
<1>7. patch.original[Path] \in Contents /\ patch.original[Path].by # "patch"
      /\ (patch.quarantine[Path] # "no" => patch.original[Path] # None)
  BY <1>1, <1>2 DEF Recorded, PatchType
<1>8. ASSUME NEW d, Undone(d, patch), RolledBack(d, patch)
      PROVE  WorkspaceInv'
  BY <1>1, <1>8, RolledBackKeeps
<1> DEFINE e == [disk EXCEPT !["output"][Path] = None]
<1>9. /\ e \in Disks /\ e["output"][Path] = None
      /\ \A r \in Roles, x \in Paths : r # "output" \/ x # Path => e[r][x] = disk[r][x]
  BY <1>1, <1>2, Replaces
<1>10. CASE patch.quarantine[Path] = "no" /\ RolledBack(e, patch) /\ UNCHANGED owed
  <2> HIDE DEF e
  <2>1. Single(e) /\ Alone(e, Path) /\ \A q \in Paths : Alone(disk, q) => Alone(e, q)
    BY <1>2, <1>3, <1>5, <1>9, Drops
  <2>2. \A p \in Paths : /\ e["staged"][p] = disk["staged"][p] /\ e["aside"][p] = disk["aside"][p]
                         /\ e["written"][p] = disk["written"][p] /\ e["path"][p] = disk["path"][p]
                         /\ e["claimed"][p] = disk["claimed"][p]
                         /\ p # Path => e["output"][p] = disk["output"][p]
    BY <1>9 DEF Roles
  <2>3. e["claimed"][Path] = None
    BY <1>1, <1>2, <1>10, <2>2 DEF Temporary
  <2>4. ~met => patch.failures = {} /\ e["path"][Path] = patch.start[Path]
    BY <1>1, <1>2, <1>4, <1>10, <2>2 DEF Recorded, Planned, At
  <2>5. \A c \in owed' : /\ c \in Contents /\ c # None /\ c.by # "patch"
                         /\ \E s \in Roles, x \in Paths : e[s][x] = c
    BY <1>6, <1>9, <1>10
  <2>6. Undone(e, patch)
    BY <1>9, <2>1, <2>2, <2>3, <2>4, <2>5 DEF Undone
  <2> QED BY <1>8, <1>10, <2>6
<1>11. CASE /\ patch.quarantine[Path] = "held" /\ At(Path) = None
            /\ RolledBack([Moved(disk, Path, "claimed", "path") EXCEPT !["output"][Path] = None], patch)
            /\ UNCHANGED owed
  <2> HIDE DEF e
  <2> DEFINE m == Moved(disk, Path, "claimed", "path")
             d == [m EXCEPT !["output"][Path] = None]
  <2>1. m \in Disks /\ Renamed(disk, m, "claimed", "path", Path)
    BY <1>1, <1>2, Renames DEF Renamed
  <2>2. RolledBack(d, patch)
    BY <1>11
  <2> HIDE DEF m
  <2>3. /\ d \in Disks /\ d["output"][Path] = None
        /\ \A r \in Roles, x \in Paths : r # "output" \/ x # Path => d[r][x] = m[r][x]
    BY <1>2, <2>1, Replaces
  <2> HIDE DEF d
  <2>4. m["output"][Path] = disk["output"][Path]
    BY <1>2, <2>1 DEF Renamed
  <2>5. \A q \in Paths : Alone(disk, q) => disk["claimed"][Path] # Marked(q)
    BY <1>2 DEF Alone
  <2>6. Single(m) /\ \A q \in Paths : Alone(disk, q) => Alone(m, q)
    BY <1>2, <1>5, <2>1, <2>5, RenamedTraces
  <2>7. m["output"][Path] = Marked(Path) \/ Alone(m, Path)
    BY <1>2, <1>3, <2>4, <2>6
  <2>8. Single(d) /\ Alone(d, Path) /\ \A q \in Paths : Alone(m, q) => Alone(d, q)
    BY <1>2, <2>3, <2>6, <2>7, Drops
  <2>9. \A p \in Paths : /\ d["staged"][p] = disk["staged"][p] /\ d["aside"][p] = disk["aside"][p]
                         /\ d["written"][p] = disk["written"][p]
                         /\ p # Path => /\ d["path"][p] = disk["path"][p]
                                        /\ d["claimed"][p] = disk["claimed"][p]
                                        /\ d["output"][p] = disk["output"][p]
    BY <2>1, <2>3 DEF Renamed, Roles
  <2>10. d["claimed"][Path] = None /\ d["path"][Path] = disk["claimed"][Path]
    BY <1>2, <2>1, <2>3 DEF Renamed
  <2>11. ~met => patch.failures = {} /\ d["path"][Path] = patch.start[Path]
    BY <1>4, <1>11, <2>10 DEF Planned
  <2>12. \A c \in owed' : /\ c \in Contents /\ c # None /\ c.by # "patch"
                          /\ \E s \in Roles, x \in Paths : d[s][x] = c
    <3> SUFFICES ASSUME NEW c \in owed PROVE \E s \in Roles, x \in Paths : d[s][x] = c
      BY <1>6, <1>11
    <3>1. PICK s \in Roles, x \in Paths : disk[s][x] = c /\ ~(s = "output" /\ x = Path)
      BY <1>6
    <3>2. ~(s = "path" /\ x = Path)
      BY <1>6, <1>11, <3>1 DEF At
    <3>3. CASE s = "claimed" /\ x = Path
      BY <1>2, <2>10, <3>1, <3>3
    <3>4. CASE ~(s = "claimed" /\ x = Path)
      BY <2>1, <2>3, <3>1, <3>2, <3>4 DEF Renamed
    <3> QED BY <3>3, <3>4
  <2>13. Undone(d, patch)
    BY <2>3, <2>6, <2>8, <2>9, <2>10, <2>11, <2>12 DEF Undone
  <2> QED BY <1>8, <2>2, <2>13
<1>12. CASE /\ patch.quarantine[Path] = "released" /\ At(Path) = None
            /\ RolledBack([disk EXCEPT !["output"][Path] = None,
                                       !["path"][Path] = patch.original[Path]], patch)
            /\ owed' = owed \cup {patch.original[Path]}
  <2> DEFINE d == [e EXCEPT !["path"][Path] = patch.original[Path]]
  <2>1. RolledBack(d, patch)
    BY <1>12
  <2> HIDE DEF e
  <2>2. /\ d \in Disks /\ d["path"][Path] = patch.original[Path]
        /\ \A r \in Roles, x \in Paths : r # "path" \/ x # Path => d[r][x] = e[r][x]
    BY <1>2, <1>7, <1>9, Replaces
  <2> HIDE DEF d
  <2>3. d["output"][Path] = None
    BY <1>2, <1>9, <2>2
  <2>4. \A r \in Roles, x \in Paths :
           r # "output" \/ x # Path => d[r][x] = disk[r][x] \/ d[r][x].by # "patch"
    BY <1>7, <1>9, <2>2
  <2>5. Single(d) /\ Alone(d, Path) /\ \A q \in Paths : Alone(disk, q) => Alone(d, q)
    BY <1>2, <1>3, <1>5, <2>3, <2>4, Drops
  <2>6. \A p \in Paths : /\ d["staged"][p] = disk["staged"][p] /\ d["aside"][p] = disk["aside"][p]
                         /\ d["written"][p] = disk["written"][p]
                         /\ d["claimed"][p] = disk["claimed"][p]
                         /\ p # Path => /\ d["path"][p] = disk["path"][p]
                                        /\ d["output"][p] = disk["output"][p]
    BY <1>9, <2>2 DEF Roles
  <2>7. d["claimed"][Path] = None
    BY <1>1, <1>2, <1>12, <2>6 DEF Temporary
  <2>8. ~met => patch.failures = {} /\ d["path"][Path] = patch.start[Path]
    BY <1>4, <2>2 DEF Planned
  <2>9. \A c \in owed' : /\ c \in Contents /\ c # None /\ c.by # "patch"
                         /\ \E s \in Roles, x \in Paths : d[s][x] = c
    <3> SUFFICES ASSUME NEW c \in owed' PROVE /\ c \in Contents /\ c # None /\ c.by # "patch"
                                              /\ \E s \in Roles, x \in Paths : d[s][x] = c
      OBVIOUS
    <3>1. CASE c = patch.original[Path]
      BY <1>2, <1>7, <1>12, <2>2, <3>1
    <3>2. CASE c # patch.original[Path]
      <4>1. c \in owed
        BY <1>12, <3>2
      <4>2. PICK s \in Roles, x \in Paths : disk[s][x] = c /\ ~(s = "output" /\ x = Path)
        BY <1>6, <4>1
      <4>3. ~(s = "path" /\ x = Path)
        BY <1>6, <1>12, <4>1, <4>2 DEF At
      <4>4. d[s][x] = c
        BY <1>9, <2>2, <4>2, <4>3
      <4> QED BY <1>6, <4>1, <4>4
    <3> QED BY <3>1, <3>2
  <2>10. Undone(d, patch)
    BY <2>2, <2>3, <2>5, <2>6, <2>7, <2>8, <2>9 DEF Undone
  <2> QED BY <1>8, <2>1, <2>10
<1>13. CASE patch.quarantine[Path] # "no" /\ At(Path) # None /\ GivesUp(disk) /\ UNCHANGED owed
  <2>1. met
    BY <1>4, <1>13
  <2> QED BY <1>1, <1>13, <2>1, GivesUpKeeps
<1> QED BY <1>10, <1>11, <1>12, <1>13 DEF Restore

-----------------------------------------------------------------------------
LEMMA InitInv ==
    ASSUME Init
    PROVE  WorkspaceInv
<1>1. PICK there \in SUBSET Paths :
         disk = [r \in Roles |-> [p \in Paths |-> IF r = "path" /\ p \in there THEN First(p) ELSE None]]
  BY DEF Init
<1>2. \A p \in Paths : First(p) \in Contents /\ First(p).by = "first"
  BY Orders, Makes DEF First, Makers
<1>3. /\ disk \in Disks
      /\ \A r \in Roles, p \in Paths : disk[r][p] = IF r = "path" /\ p \in there THEN First(p) ELSE None
  BY <1>1, <1>2, Makes DEF Disks
<1>4. \A r \in Roles, p \in Paths : disk[r][p].by # "patch" /\ (r # "path" => disk[r][p] = None)
  BY <1>2, <1>3, Makes
<1> DEFINE none == [p \in Paths |-> None]
<1>5. none \in [Paths -> Contents] /\ \A p \in Paths : none[p] = None
  BY Makes
<1>6. /\ patch = [phase |-> "idle", ops |-> [p \in Paths |-> "none"], i |-> 1, step |-> "begin",
                  original |-> none, quarantine |-> [p \in Paths |-> "no"],
                  published |-> {}, failures |-> {}, start |-> none]
  BY DEF Init, Idle
<1> HIDE DEF none
<1>7. /\ patch \in PatchType /\ patch.phase = "idle" /\ patch.step = "begin" /\ patch.published = {}
      /\ patch.failures = {} /\ patch.original = none
      /\ \A p \in Paths : patch.quarantine[p] = "no"
  BY <1>5, <1>6 DEF PatchType, PhaseNames, Operations
<1>8. Order[1] \in Paths
  <2>1. 1 \in DOMAIN Order
    BY ConstantsAssumption
  <2> QED BY <2>1 DEF Paths
<1>9. /\ life \in [phase : {"idle", "aside", "stuck"}, source : Paths, destination : SUBSET Paths]
      /\ writer \in [phase : {"idle", "staged"}, path : Paths] /\ writer.phase = "idle"
      /\ others \in Nat /\ met = FALSE /\ owed = {disk["path"][p] : p \in Paths} \ {None}
  BY <1>8 DEF Init
<1>10. "path" \in Roles
  BY DEF Roles
<1>11. Types
  <2>1. met \in BOOLEAN
    BY <1>9
  <2>2. owed \subseteq Contents
    BY <1>3, <1>9, <1>10 DEF Disks
  <2> QED BY <1>3, <1>7, <1>9, <2>1, <2>2 DEF Types, Disks
<1>12. Placed
  BY <1>7 DEF Placed, Active, Early, Late
<1>13. Recorded
  BY <1>5, <1>7, Makes DEF Recorded, Late
<1>14. Temporary
  BY <1>4, <1>7 DEF Temporary, Late, Roles
<1>15. Marks
  BY <1>4, <1>7, MarkedOnce DEF Marks, OnlyStaged
<1>16. Apart
  BY <1>4, <1>9, Makes DEF Apart, Roles
<1>17. Debts
  BY <1>4, <1>9, <1>10 DEF Debts, NothingLost
<1>18. Undisturbed
  BY <1>7 DEF Undisturbed, Early, Late, Active
<1> QED BY <1>11, <1>12, <1>13, <1>14, <1>15, <1>16, <1>17, <1>18 DEF WorkspaceInv

LEMMA StepInv ==
    ASSUME WorkspaceInv, [Next]_vars
    PROVE  WorkspaceInv'
<1>1. CASE \E ops \in Patches : Begin(ops)
  BY <1>1, BeginKeeps
<1>2. CASE \E p \in Paths, d \in {{}} \cup {{q} : q \in Paths} : d # {p} /\ Aside(p, d)
  <2>1. PICK p \in Paths, d \in {{}} \cup {{q} : q \in Paths} : Aside(p, d)
    BY <1>2
  <2>2. d \in SUBSET Paths
    BY <2>1
  <2> QED BY <2>1, <2>2, AsideKeeps
<1>3. CASE \E p \in Paths : WriteStaged(p)
  BY <1>3, WriteStagedKeeps
<1>4. CASE \E p \in Paths : \E c \in {None, Link, Content("other", others)} : Other(p, c)
  BY <1>4, OtherKeeps
<1>5. CASE UNCHANGED vars
  <2>1. UNCHANGED <<disk, patch, life, writer, others, met, owed>>
    BY <1>5 DEF vars
  <2>2. Types /\ Marks /\ Apart /\ Debts
    BY DEF WorkspaceInv
  <2>3. Types' /\ Apart' /\ Debts'
    BY <2>1, <2>2 DEF Types, Apart, Debts, NothingLost
  <2>4. Marks'
    <3>1. \A p \in Paths : (OnlyStaged(p)' <=> OnlyStaged(p)) /\ (Entry(p)' <=> Entry(p))
                           /\ (Ahead(p)' <=> Ahead(p))
      BY <2>1 DEF OnlyStaged, Marked, Entry, Ahead
    <3> QED BY <2>1, <2>2, <3>1 DEF Marks, Marked
  <2> QED BY <2>1, <2>3, <2>4, OthersKeep
<1>6. CASE \/ Inspect \/ Compare \/ Stage \/ Interrupted \/ Claim \/ Claimed \/ Publish \/ Cleanup
           \/ Take \/ Taken \/ Restore \/ Mutate \/ Restored \/ Written
  BY <1>6, InspectKeeps, CompareKeeps, StageKeeps, InterruptedKeeps, ClaimKeeps, ClaimedKeeps,
     PublishKeeps, CleanupKeeps, TakeKeeps, TakenKeeps, RestoreKeeps, MutateKeeps, RestoredKeeps,
     WrittenKeeps
<1> QED BY <1>1, <1>2, <1>3, <1>4, <1>5, <1>6, Zenon DEF Next

(* Whatever Move, Delete, Write, Edit, shell jobs and the user do at the   *)
(* same paths, the record of ApplyPatch tells what it did to every path,   *)
(* its temporary names hold its results and the originals and nothing      *)
(* else, and each result exists at most once (apply_inner, Entry, mutate,  *)
(* atomic_write).                                                          *)
THEOREM WorkspaceInductive == Spec => []WorkspaceInv
<1>1. Init => WorkspaceInv
  BY InitInv
<1>2. WorkspaceInv /\ [Next]_vars => WorkspaceInv'
  BY StepInv
<1> QED BY <1>1, <1>2, PTL DEF Spec

(* No content is lost that nobody asked to remove or replace: it is at a   *)
(* path or under a temporary name, in every interleaving of the tools with *)
(* each other and with others (Entry::claim, publish, rollback, mutate).   *)
THEOREM WorkspaceNothingLost == Spec => []NothingLost
<1>1. WorkspaceInv => NothingLost
  BY DEF WorkspaceInv, Debts
<1> QED BY <1>1, WorkspaceInductive, PTL

(* A patch that nobody interfered with did everything or nothing, wherever *)
(* it failed, and leaves no temporary name behind (apply_inner).           *)
THEOREM WorkspacePatchAtomic == Spec => []PatchAtomic
<1>1. ASSUME WorkspaceInv, patch.phase \in {"ok", "failed", "unsafe"}, ~met
      PROVE  /\ patch.phase # "unsafe"
             /\ \A p \in Paths : At(p) = IF patch.phase = "ok" /\ patch.ops[p] # "none"
                                         THEN Final(p) ELSE patch.start[p]
             /\ \A r \in {"staged", "claimed", "output"}, p \in Paths : disk[r][p] = None
  <2>1. Recorded /\ Temporary /\ Undisturbed
    BY <1>1 DEF WorkspaceInv
  <2>2. patch.phase # "unsafe"
    BY <1>1, <2>1 DEF Undisturbed
  <2>3. CASE patch.phase = "failed"
    <3>1. \A p \in Paths : At(p) = patch.start[p]
      BY <1>1, <2>1, <2>3 DEF Undisturbed
    <3>2. \A p \in Paths : /\ disk["staged"][p] = None /\ disk["claimed"][p] = None
                           /\ disk["output"][p] = None
      BY <2>1, <2>3 DEF Temporary, Late
    <3> QED BY <2>3, <3>1, <3>2
  <2>4. CASE patch.phase = "ok"
    <3>1. \A p \in Paths :
             /\ Standing(p) /\ patch.quarantine[p] # "held"
             /\ Entry(p) /\ Final(p) # None => p \in patch.published
             /\ Entry(p) /\ Final(p) = None => p \notin patch.published
             /\ Entry(p) /\ patch.original[p] # None => patch.quarantine[p] # "no"
             /\ ~Entry(p) => patch.quarantine[p] = "no" /\ p \notin patch.published
      BY <1>1, <2>1, <2>4 DEF Undisturbed, Recorded
    <3>2. ASSUME NEW p \in Paths
          PROVE  At(p) = IF patch.ops[p] # "none" THEN Final(p) ELSE patch.start[p]
      <4>1. CASE ~Entry(p)
        BY <3>1, <4>1 DEF Standing, Entry
      <4>2. CASE Entry(p) /\ Final(p) # None
        BY <3>1, <4>2 DEF Standing, Entry
      <4>3. CASE Entry(p) /\ Final(p) = None
        <5>1. patch.ops[p] # "create"
          <6>1. Final(p) # None \/ patch.ops[p] \notin {"create", "modify"}
            BY MarkedOnce DEF Final, Marked
          <6> QED BY <4>3, <6>1
        <5>2. Planned(p)
          BY <1>1, <2>1, <2>4, <4>3 DEF Undisturbed
        <5>3. patch.quarantine[p] # "no" /\ p \notin patch.published
          BY <3>1, <4>3, <5>1, <5>2 DEF Planned
        <5> QED BY <3>1, <4>3, <5>3 DEF Standing, Entry
      <4> QED BY <4>1, <4>2, <4>3
    <3>3. \A p \in Paths : /\ disk["staged"][p] = None /\ disk["claimed"][p] = None
                           /\ disk["output"][p] = None
      BY <2>1, <2>4, <3>1 DEF Temporary, Late
    <3> QED BY <2>4, <3>2, <3>3
  <2> QED BY <1>1, <2>2, <2>3, <2>4
<1>2. WorkspaceInv => PatchAtomic
  BY <1>1 DEF PatchAtomic
<1> QED BY <1>2, WorkspaceInductive, PTL

(* A patch that failed and says that it went back did so: nothing it made  *)
(* is left anywhere and nothing it took is left under a temporary name,    *)
(* whatever others did to the paths meanwhile (Entry::rollback,            *)
(* apply_inner).                                                           *)
THEOREM WorkspaceFailureHonest == Spec => []FailureHonest
<1>1. ASSUME WorkspaceInv, patch.phase = "failed"
      PROVE  /\ \A r \in {"staged", "claimed", "output"}, p \in Paths : disk[r][p] = None
             /\ \A r \in Roles, p \in Paths : disk[r][p].by # "patch"
  <2>1. Temporary /\ Marks
    BY <1>1 DEF WorkspaceInv
  <2>2. \A p \in Paths : /\ disk["staged"][p] = None /\ disk["claimed"][p] = None
                         /\ disk["output"][p] = None
    BY <1>1, <2>1 DEF Temporary, Late
  <2>3. ASSUME NEW r \in Roles, NEW x \in Paths, disk[r][x].by = "patch" PROVE FALSE
    <3>1. PICK p \in Paths : disk[r][x] = Marked(p)
      BY <2>1, <2>3 DEF Marks
    <3>2. r = "staged"
      BY <1>1, <2>1, <3>1 DEF Marks, OnlyStaged
    <3> QED BY <2>2, <2>3, <3>2, Makes
  <2> QED BY <2>2, <2>3
<1>2. WorkspaceInv => FailureHonest
  BY <1>1 DEF FailureHonest
<1> QED BY <1>2, WorkspaceInductive, PTL
==================================================================================

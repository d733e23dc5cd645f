---------------------------- MODULE SchedulerProofs ----------------------------
(***************************************************************************)
(* Theorems about the child scheduler and about the security baselines it  *)
(* narrows, for any tasks, messages, sessions, budgets and owners.         *)
(*                                                                         *)
(* The argument.  A transaction is between taking the lock and the store's *)
(* answer, and everything else moves meanwhile; but the owner's ledger     *)
(* does not, so what the call made of it (Derived) is still what it makes  *)
(* of it when the store answers.  Each call only moves a record forward    *)
(* (Kept, Moves).  The store accepts only an owner that is not fenced, and *)
(* such an owner's ledger is the stored one up to what restore does to a   *)
(* record (Tracked), so a record moves forward in the store, too, from     *)
(* owner to owner.  Hence what executes is dispatched in the store, and a  *)
(* task that waits was not entered since it was last resumed (Executing):  *)
(* a queued record without dispatch evidence was never entered.  What      *)
(* callers were told is in the store (Accounted), and a permit changes     *)
(* hands with the execution that holds it (Permitted).                     *)
(*                                                                         *)
(* schedule_one scans the records in order, by a recursive function.  That *)
(* such a function is what its definition says, and what it keeps from one *)
(* record to the next, is induction over the naturals, taken here from the *)
(* least element of a set.                                                 *)
(***************************************************************************)
EXTENDS Scheduler, SecurityBaseline, TLAPS, FiniteSetTheorems, WellFoundedInduction, SequenceTheorems

(* The steering of a record, and the part of it no execution has handled.  *)
Unhandled(r) == r.queued \cup r.in_flight
Steering(r) == Unhandled(r) \cup r.acknowledged

Waiting == {"pending", "waiting"}

(* Where an execution may be.                                              *)
Places == {"none", "done"} \cup Watched

TypeOK ==
    /\ session \in Session
    /\ state \in Ledger /\ stored \in Ledger /\ saved \in Ledger
    /\ stale \in BOOLEAN /\ fenced \in BOOLEAN
    /\ tx # NoTx => tx.next \in Ledger /\ tx.task \in Tasks \cup {NoTask}
    /\ cancelled \subseteq Tasks
    /\ permits \in Int /\ strict \in 0..session.strict
    /\ exec \in [Tasks -> Places] /\ outcome \in [Tasks -> Outcome]
    /\ executions \in [Tasks -> Nat] /\ returned \in [Tasks -> Nat]

(* No record is made of nothing, and none is in a ledger without order.    *)
Formed(l) == \A t \in Tasks : l.records[t].status = "absent" => l.records[t] = NoRecord
Ordered(l) == l.order = <<>> => \A t \in Tasks : l.records[t].status = "absent"

(* A ledger is another one, with or without what restore did to a record.  *)
Agrees(l, m) == \A t \in Tasks : l.records[t] \in {m.records[t], Restored(m.records[t])}

(* What the store may not know differently: an owner that is not fenced    *)
(* works on the stored ledger, a copy that is not stale is one of it.      *)
Tracked ==
    /\ Formed(state) /\ Formed(stored) /\ Formed(saved) /\ Ordered(state)
    /\ ~fenced => Agrees(state, stored)
    /\ ~stale => Agrees(saved, stored)

(* What no transaction takes back.                                         *)
Kept(r, q) ==
    /\ r.dispatched => q.dispatched
    /\ r.delivered => q.delivered
    /\ Steering(r) \subseteq Steering(q)
    /\ r.status \in Terminal => q.status = r.status /\ Unhandled(q) \subseteq Unhandled(r)
    /\ r.status # "absent" => q.status # "absent"
    /\ q.status = "absent" => q = NoRecord

(* The dependencies of a task are behind it.                               *)
Ready(l, t) == \A u \in DependsOn[t] :
    /\ IsTerminal(l, u)
    /\ session.policy[t] = "AllSuccess" => Status(l, u) = "completed"

(* What transaction x may make of the record r of task t: q.  The tasks in *)
(* stated are those whose outcome the host has stated.                     *)
Moves(x, t, r, q, stated) ==
    /\ Kept(r, q)
    /\ q.status = "completed" => r.status = "completed" \/ Unhandled(q) = {} \/ t \in stated
    /\ q.status \in Waiting =>
          r.status \in Waiting \/ ~r.dispatched \/ (x.op = "resume_checkpoint" /\ x.task = t)
    /\ r.status = "running" => q.status \in {"running"} \cup Terminal \/ (x.op = "join" /\ x.task = t)
    /\ x.op = "schedule_one" /\ x.task = t =>
          r.status \in Waiting /\ q.status = "running" /\ q.dispatched /\ Ready(x.next, t)
    /\ x.op = "collect_ids" /\ t \in x.ids => ~r.delivered /\ q.delivered
    /\ x.op = "steer" /\ x.task = t => x.ids \subseteq Steering(q)

(* The transaction under way.                                              *)
Derived ==
    tx # NoTx =>
        /\ \A t \in Tasks : Moves(tx, t, state.records[t], tx.next.records[t], reconciled)
        /\ Ordered(tx.next)
        /\ tx.op = "schedule_one" => driver = "holding"
        /\ tx.op = "shutdown" => driver = "draining"
        /\ tx.op = "join" => tx.task \in Tasks /\ exec[tx.task] \in {"done", "none"}

(* A task that executes is running for its owner and dispatched for the    *)
(* store, and was entered for the first time since it last waited.         *)
Executing ==
    \A t \in Tasks :
        /\ exec[t] # "none" => Status(state, t) \in {"running"} \cup Terminal
                               /\ stored.records[t].dispatched
        /\ exec[t] = "spawned" => executions[t] = 0
        /\ Status(state, t) \in Waiting => executions[t] = 0
        /\ ~stored.records[t].dispatched => executions[t] = 0
        /\ executions[t] <= 1
        /\ exec[t] \in Watched => Ready(stored, t)
        /\ t \in cancelled => Status(state, t) # "absent"

(* What callers were told is in the store.                                 *)
Accounted ==
    \A t \in Tasks :
        LET r == stored.records[t]
        IN /\ returned[t] <= 1 /\ (returned[t] > 0 => r.delivered)
           /\ accepted[t] \subseteq Steering(r)
           /\ r.status = "completed" /\ t \notin reconciled => Unhandled(r) = {}

Holders == {t \in Tasks : HoldsPermit(t)}

Permitted == IsFiniteSet(Holders) /\ PermitsConserved

SchedulerInv == TypeOK /\ Tracked /\ Derived /\ Executing /\ Accounted /\ Permitted

--------------------------------------------------------------------------------
(* Induction over the naturals, as a fact about sets of naturals: the      *)
(* provers take it from the least element of a set.                        *)
LEMMA LeastNatural ==
    ASSUME NEW T \in SUBSET Nat, T # {}
    PROVE  \E n \in T : \A m \in T : n <= m
<1> DEFINE R == {ss \in Nat \X Nat : ss[1] < ss[2]}
<1>1. IsWellFoundedOn(R, Nat)
  BY NatLessThanWellFounded, Zenon DEF OpToRel
<1>2. ASSUME NEW x \in Nat, NEW y \in Nat, y < x PROVE <<y, x>> \in R
  <2>1. <<y, x>> \in Nat \X Nat /\ <<y, x>>[1] = y /\ <<y, x>>[2] = x
    OBVIOUS
  <2> QED BY <2>1, <1>2, Zenon
<1> HIDE DEF R
<1>3. PICK x \in T : \A y \in T : ~(<<y, x>> \in R)
  BY <1>1, WFMin, Zenon
<1>4. \A y \in T : ~(y < x)
  BY <1>2, <1>3
<1> QED BY <1>3, <1>4

LEMMA EveryNatural ==
    ASSUME NEW T, 0 \in T, \A n \in Nat : n \in T => n + 1 \in T
    PROVE  Nat \subseteq T
<1> SUFFICES ASSUME Nat \ T # {} PROVE FALSE
  OBVIOUS
<1>1. PICK n \in Nat \ T : \A m \in Nat \ T : n <= m
  BY LeastNatural, Zenon
<1>2. n # 0
  BY <1>1
<1>3. n - 1 \in T
  BY <1>1, <1>2
<1> QED BY <1>3, <1>1, <1>2

(* The scan of schedule_one: what is defined by recursion exists, and is   *)
(* what its definition says.                                               *)
ScanStart(l) == [ledger |-> l, selected |-> {}]
ScanOver(l, s, n) == StepOver(s, l.order[n], Exhausted(l))
Scans(l, f, S) == f = [n \in S |-> IF n = 0 THEN ScanStart(l) ELSE ScanOver(l, f[n - 1], n)]

LEMMA ScansAt ==
    ASSUME NEW l, NEW S, NEW f, Scans(l, f, S), NEW n \in S
    PROVE  f[n] = IF n = 0 THEN ScanStart(l) ELSE ScanOver(l, f[n - 1], n)
<1> DEFINE g == [m \in S |-> IF m = 0 THEN ScanStart(l) ELSE ScanOver(l, f[m - 1], m)]
<1>1. f = g
  BY Zenon DEF Scans
<1>2. g[n] = IF n = 0 THEN ScanStart(l) ELSE ScanOver(l, f[n - 1], n)
  OBVIOUS
<1> QED BY <1>1, <1>2, Zenon

LEMMA ScansAgree ==
    ASSUME NEW l, NEW j \in Nat, NEW k \in Nat, NEW f, NEW g, Scans(l, f, 0..j), Scans(l, g, 0..k)
    PROVE  \A n \in Nat : n <= j /\ n <= k => f[n] = g[n]
<1> DEFINE T == {n \in Nat : n <= j /\ n <= k => f[n] = g[n]}
<1>1. 0 \in T
  BY ScansAt
<1>2. ASSUME NEW n \in Nat, n \in T PROVE n + 1 \in T
  <2> SUFFICES ASSUME n + 1 <= j, n + 1 <= k PROVE f[n + 1] = g[n + 1]
    OBVIOUS
  <2>1. n + 1 \in 0..j /\ n + 1 \in 0..k /\ n + 1 # 0 /\ (n + 1) - 1 = n
    OBVIOUS
  <2>2. f[n] = g[n]
    BY <1>2
  <2>3. f[n + 1] = ScanOver(l, f[n], n + 1)
    <3>1. f[n + 1] = IF n + 1 = 0 THEN ScanStart(l) ELSE ScanOver(l, f[(n + 1) - 1], n + 1)
      BY ScansAt, <2>1, Zenon
    <3> QED BY <3>1, <2>1, Zenon
  <2>4. g[n + 1] = ScanOver(l, g[n], n + 1)
    <3>1. g[n + 1] = IF n + 1 = 0 THEN ScanStart(l) ELSE ScanOver(l, g[(n + 1) - 1], n + 1)
      BY ScansAt, <2>1, Zenon
    <3> QED BY <3>1, <2>1, Zenon
  <2> QED BY <2>2, <2>3, <2>4
<1>3. Nat \subseteq T
  <2> HIDE DEF T
  <2> QED BY <1>1, <1>2, EveryNatural
<1> QED BY <1>3

LEMMA ScansTo ==
    ASSUME NEW l, NEW k \in Nat
    PROVE  \E f : Scans(l, f, 0..k)
<1> DEFINE T == {n \in Nat : \E f : Scans(l, f, 0..n)}
<1>1. 0 \in T
  <2> DEFINE f == [n \in 0..0 |-> ScanStart(l)]
  <2>1. Scans(l, f, 0..0)
    BY DEF Scans
  <2> QED BY <2>1
<1>2. ASSUME NEW n \in Nat, n \in T PROVE n + 1 \in T
  <2>1. PICK f : Scans(l, f, 0..n)
    BY <1>2
  <2> DEFINE g == [m \in 0..(n + 1) |-> IF m = n + 1 THEN ScanOver(l, f[n], n + 1) ELSE f[m]]
             v(m) == IF m = 0 THEN ScanStart(l) ELSE ScanOver(l, g[m - 1], m)
  <2>2. ASSUME NEW m \in 0..(n + 1) PROVE g[m] = v(m)
    <3>1. CASE m = n + 1
      BY <3>1
    <3>2. CASE m \in 0..n
      <4>1. f[m] = IF m = 0 THEN ScanStart(l) ELSE ScanOver(l, f[m - 1], m)
        BY <3>2, <2>1, ScansAt
      <4>2. g[m] = f[m] /\ (m # 0 => g[m - 1] = f[m - 1])
        BY <3>2
      <4> QED BY <4>1, <4>2
    <3> QED BY <3>1, <3>2
  <2>3. g = [m \in 0..(n + 1) |-> g[m]]
    OBVIOUS
  <2>4. g = [m \in 0..(n + 1) |-> v(m)]
    <3> HIDE DEF g, v
    <3> QED BY <2>2, <2>3
  <2>5. Scans(l, g, 0..(n + 1))
    BY <2>4, Zenon DEF Scans
  <2> QED BY <2>5
<1>3. Nat \subseteq T
  <2> HIDE DEF T
  <2> QED BY <1>1, <1>2, EveryNatural
<1> QED BY <1>3

LEMMA ScanExists ==
    ASSUME NEW l
    PROVE  \E f : Scans(l, f, Nat)
<1> DEFINE G(k) == CHOOSE g : Scans(l, g, 0..k)
           f == [n \in Nat |-> G(n)[n]]
           v(n) == IF n = 0 THEN ScanStart(l) ELSE ScanOver(l, f[n - 1], n)
<1>1. \A k \in Nat : Scans(l, G(k), 0..k)
  BY ScansTo, Zenon
<1> HIDE DEF G
<1>2. ASSUME NEW n \in Nat PROVE f[n] = v(n)
  <2>1. f[n] = G(n)[n]
    OBVIOUS
  <2>2. G(n)[n] = IF n = 0 THEN ScanStart(l) ELSE ScanOver(l, G(n)[n - 1], n)
    <3>1. n \in 0..n
      OBVIOUS
    <3> QED BY <3>1, <1>1, ScansAt, Zenon
  <2>3. CASE n = 0
    BY <2>1, <2>2, <2>3
  <2>4. CASE n # 0
    <3>1. n - 1 \in Nat /\ n - 1 <= n /\ n - 1 <= n - 1
      BY <2>4
    <3>2. G(n)[n - 1] = G(n - 1)[n - 1]
      BY <3>1, <1>1, ScansAgree
    <3>3. f[n - 1] = G(n - 1)[n - 1]
      BY <3>1
    <3> QED BY <2>1, <2>2, <2>4, <3>2, <3>3
  <2> QED BY <2>3, <2>4
<1>3. f = [n \in Nat |-> f[n]]
  OBVIOUS
<1>4. f = [n \in Nat |-> v(n)]
  <2> HIDE DEF f, v
  <2> QED BY <1>2, <1>3
<1>5. Scans(l, f, Nat)
  BY <1>4, Zenon DEF Scans
<1> QED BY <1>5

LEMMA ScanUnfolds ==
    ASSUME NEW l, NEW k \in Nat, Len(l.order) = k
    PROVE  \E f : Scans(l, f, Nat) /\ Scan(l) = f[k]
<1> DEFINE f == CHOOSE g : g = [n \in Nat |-> IF n = 0 THEN [ledger |-> l, selected |-> {}]
                                              ELSE StepOver(g[n - 1], l.order[n], Exhausted(l))]
<1>1. Scan(l) = f[k]
  BY Zenon DEF Scan
<1>2. \E g : g = [n \in Nat |-> IF n = 0 THEN [ledger |-> l, selected |-> {}]
                                ELSE StepOver(g[n - 1], l.order[n], Exhausted(l))]
  BY ScanExists, Zenon DEF Scans, ScanStart, ScanOver
<1>3. Scans(l, f, Nat)
  BY <1>2, Zenon DEF Scans, ScanStart, ScanOver
<1> QED BY <1>1, <1>3

--------------------------------------------------------------------------------
(* Operators on ledgers.                                                   *)
Same(r, q) ==
    /\ q.dispatched = r.dispatched /\ q.delivered = r.delivered
    /\ q.queued = r.queued /\ q.in_flight = r.in_flight /\ q.acknowledged = r.acknowledged

Elsewhere(l, m, t) == m.order = l.order /\ \A u \in Tasks \ {t} : m.records[u] = l.records[u]

LEMMA DeltaTyped ==
    ASSUME NEW r \in Record, NEW n \in Nat
    PROVE  Delta(r, n) \in Nat /\ (n = 0 => Delta(r, n) = 0)
<1>1. r.usage \in Nat
  BY DEF Record
<1> QED BY <1>1 DEF Delta

LEMMA Updated ==
    ASSUME NEW l \in Ledger, NEW t \in Tasks, NEW r \in Record
    PROVE  Update(l, t, r) \in Ledger /\ Update(l, t, r).records[t] = r /\ Elsewhere(l, Update(l, t, r), t)
           /\ Update(l, t, r).usage = l.usage
BY DEF Update, Ledger, Elsewhere

LEMMA ChargedKeeps ==
    ASSUME NEW l \in Ledger, NEW t \in Tasks, NEW n \in Nat
    PROVE  /\ Charged(l, t, n) \in Ledger /\ Elsewhere(l, Charged(l, t, n), t)
           /\ Charged(l, t, n).records[t] = [l.records[t] EXCEPT !.usage = @ + n]
           /\ Charged(l, t, n).records[t] \in Record
           /\ Charged(l, t, n).records[t].status = l.records[t].status
           /\ Same(l.records[t], Charged(l, t, n).records[t])
<1>1. l.records[t] \in Record /\ l.usage \in Nat /\ l.records \in [Tasks -> Record]
  BY DEF Ledger
<1> DEFINE q == [l.records[t] EXCEPT !.usage = @ + n]
<1>2. q \in Record /\ q.status = l.records[t].status /\ Same(l.records[t], q)
  BY <1>1 DEF Record, Same
<1>3. Charged(l, t, n) = [l EXCEPT !.records = [l.records EXCEPT ![t] = q], !.usage = @ + n]
  BY DEF Charged, Ledger
<1> HIDE DEF q
<1> DEFINE f == [l.records EXCEPT ![t] = q]
<1>4. f \in [Tasks -> Record] /\ f[t] = q /\ (\A u \in Tasks \ {t} : f[u] = l.records[u])
  BY <1>1, <1>2
<1> HIDE DEF f
<1>5. l.usage + n \in Nat
  BY <1>1
<1>6. Charged(l, t, n) = [l EXCEPT !.records = f, !.usage = l.usage + n]
  BY <1>3 DEF f
<1>7. Charged(l, t, n) = [order |-> l.order, records |-> f, usage |-> l.usage + n]
  BY <1>6 DEF Ledger
<1>8. Charged(l, t, n) \in Ledger
  BY <1>4, <1>5, <1>7 DEF Ledger
<1>9. Elsewhere(l, Charged(l, t, n), t) /\ Charged(l, t, n).records[t] = q
  BY <1>4, <1>7 DEF Elsewhere
<1> QED BY <1>2, <1>8, <1>9 DEF q

LEMMA OutcomeApplied ==
    ASSUME NEW l \in Ledger, NEW t \in Tasks, NEW o \in Outcome
    PROVE  LET m == apply_outcome(l, t, o)
               r == l.records[t]
               q == m.records[t]
           IN /\ m \in Ledger /\ Elsewhere(l, m, t) /\ Same(r, q)
              /\ q.status = IF r.status \in Terminal THEN r.status
                            ELSE IF o.status = "completed" /\ Unhandled(r) # {} THEN "reconciling"
                            ELSE o.status
<1> DEFINE r == l.records[t]
           left == o.status = "completed" /\ r.queued \cup r.in_flight # {}
           settled == [r EXCEPT !.status = IF left THEN "reconciling" ELSE o.status,
                                !.accepting = FALSE]
           q == IF r.status \in Terminal THEN r ELSE settled
           m == Update(l, t, q)
<1>1. r \in Record
  BY DEF Ledger
<1>2. o.usage \in Nat /\ o.status \in Terminal
  BY DEF Outcome
<1>3. settled \in Record /\ settled.status = (IF left THEN "reconciling" ELSE o.status) /\ Same(r, settled)
  BY <1>1, <1>2 DEF Record, Same, Statuses, Terminal
<1>4. q \in Record /\ Same(r, q)
      /\ q.status = (IF r.status \in Terminal THEN r.status
                     ELSE IF o.status = "completed" /\ Unhandled(r) # {} THEN "reconciling"
                     ELSE o.status)
  BY <1>1, <1>3 DEF Same, Unhandled
<1>5. apply_outcome(l, t, o) = Charged(m, t, Delta(r, o.usage))
  BY DEF apply_outcome
<1>6. Delta(r, o.usage) \in Nat
  BY <1>1, <1>2, DeltaTyped
<1> HIDE DEF q, r
<1>7. m \in Ledger /\ Elsewhere(l, m, t) /\ m.records[t] = q
  BY <1>4, Updated
<1> HIDE DEF m
<1>8. /\ Charged(m, t, Delta(r, o.usage)) \in Ledger /\ Elsewhere(m, Charged(m, t, Delta(r, o.usage)), t)
      /\ Charged(m, t, Delta(r, o.usage)).records[t].status = q.status
      /\ Same(q, Charged(m, t, Delta(r, o.usage)).records[t])
  BY <1>6, <1>7, ChargedKeeps
<1> QED BY <1>4, <1>5, <1>7, <1>8 DEF Elsewhere, Same, r

(* The scan settles or leaves what waits, until it selects.                *)
Passed(r, q) ==
    /\ Same(r, q)
    /\ q.status = r.status \/ (r.status \in Waiting /\ q.status \in {"waiting", "cancelled", "failed"})
    /\ r.status = "absent" => q = r

Selected(l, s, t) ==
    LET r == l.records[t]
        q == s.ledger.records[t]
    IN /\ r.status \in Waiting /\ q.status = "running" /\ q.dispatched
       /\ q.delivered = r.delivered /\ q.queued = r.queued /\ q.in_flight = r.in_flight
       /\ q.acknowledged = r.acknowledged
       /\ Ready(s.ledger, t)

ScanState == [ledger : Ledger, selected : SUBSET Tasks]

Scanned(l, s) ==
    /\ s \in ScanState /\ s.ledger.order = l.order
    /\ \A t \in Tasks \ s.selected : Passed(l.records[t], s.ledger.records[t])
    /\ \A t \in s.selected : Selected(l, s, t)
    /\ s.selected = {} \/ \E t \in Tasks : s.selected = {t}

LEMMA ScanSettles ==
    ASSUME NEW l \in Ledger, NEW s, Scanned(l, s), s.selected = {}, NEW t \in Tasks, Queued(s.ledger, t),
           NEW status \in {"cancelled", "failed"}
    PROVE  Scanned(l, [s EXCEPT !.ledger = apply_outcome(s.ledger, t, [status |-> status, usage |-> 0])])
<1> DEFINE o == [status |-> status, usage |-> 0]
           m == apply_outcome(s.ledger, t, o)
<1>1. o \in Outcome /\ s.ledger \in Ledger /\ s \in ScanState /\ s.ledger.order = l.order
  BY DEF Outcome, Terminal, Scanned, ScanState
<1>2. /\ m \in Ledger /\ Elsewhere(s.ledger, m, t) /\ Same(s.ledger.records[t], m.records[t])
      /\ m.records[t].status = status
  <2>1. s.ledger.records[t].status \notin Terminal /\ o.status = status /\ status # "completed"
    BY DEF Queued, Status, Terminal
  <2> HIDE DEF o
  <2> QED BY <1>1, <2>1, OutcomeApplied
<1> HIDE DEF m, o
<1>3. [s EXCEPT !.ledger = m] \in ScanState /\ [s EXCEPT !.ledger = m].ledger = m
      /\ [s EXCEPT !.ledger = m].selected = {}
  BY <1>1, <1>2 DEF ScanState
<1>4. ASSUME NEW u \in Tasks PROVE Passed(l.records[u], m.records[u])
  <2>1. Passed(l.records[u], s.ledger.records[u])
    BY DEF Scanned
  <2>2. CASE u = t
    <3>1. s.ledger.records[t].status \in Waiting
      BY DEF Queued, Status, Waiting
    <3> QED BY <1>2, <2>1, <2>2, <3>1 DEF Passed, Same, Waiting
  <2>3. CASE u # t
    BY <1>2, <2>1, <2>3 DEF Elsewhere
  <2> QED BY <2>2, <2>3
<1>5. m.order = l.order
  BY <1>1, <1>2 DEF Elsewhere
<1> QED BY <1>3, <1>4, <1>5 DEF Scanned, m, o

LEMMA ScanWaits ==
    ASSUME NEW l \in Ledger, NEW s, Scanned(l, s), s.selected = {}, NEW t \in Tasks, Queued(s.ledger, t)
    PROVE  Scanned(l, [s EXCEPT !.ledger.records[t].status = "waiting"])
<1> DEFINE q == [s.ledger.records[t] EXCEPT !.status = "waiting"]
           m == Update(s.ledger, t, q)
           z == [s EXCEPT !.ledger.records[t].status = "waiting"]
<1>1. s.ledger \in Ledger /\ s \in ScanState /\ s.ledger.order = l.order /\ s.ledger.records[t] \in Record
  BY DEF Scanned, ScanState, Ledger
<1>2. q \in Record /\ q.status = "waiting" /\ Same(s.ledger.records[t], q)
  BY <1>1 DEF Record, Same, Statuses
<1>3. z = [s EXCEPT !.ledger = m]
  BY <1>1 DEF ScanState, Ledger, Update
<1> HIDE DEF q
<1>4. m \in Ledger /\ m.records[t] = q /\ Elsewhere(s.ledger, m, t)
  BY <1>1, <1>2, Updated
<1> HIDE DEF m, z
<1>5. z \in ScanState /\ z.ledger = m /\ z.selected = {}
  BY <1>1, <1>3, <1>4 DEF ScanState
<1>6. ASSUME NEW u \in Tasks PROVE Passed(l.records[u], m.records[u])
  <2>1. Passed(l.records[u], s.ledger.records[u])
    BY DEF Scanned
  <2>2. CASE u = t
    <3>1. s.ledger.records[t].status \in Waiting
      BY DEF Queued, Status, Waiting
    <3> QED BY <1>2, <1>4, <2>1, <2>2, <3>1 DEF Passed, Same, Waiting
  <2>3. CASE u # t
    BY <1>4, <2>1, <2>3 DEF Elsewhere
  <2> QED BY <2>2, <2>3
<1>7. m.order = l.order
  BY <1>1, <1>4 DEF Elsewhere
<1>8. Scanned(l, z)
  BY <1>5, <1>6, <1>7 DEF Scanned
<1> QED BY <1>8 DEF z

LEMMA ScanSelects ==
    ASSUME NEW l \in Ledger, NEW s, Scanned(l, s), s.selected = {}, NEW t \in Tasks, Queued(s.ledger, t),
           ~Failed(s.ledger, t), Open(s.ledger, t) = {}
    PROVE  Scanned(l, [ledger |-> Update(s.ledger, t, [s.ledger.records[t] EXCEPT !.status = "running",
                                                                                  !.dispatched = TRUE]),
                       selected |-> {t}])
<1> DEFINE q == [s.ledger.records[t] EXCEPT !.status = "running", !.dispatched = TRUE]
           m == Update(s.ledger, t, q)
           z == [ledger |-> m, selected |-> {t}]
<1>1. s.ledger \in Ledger /\ s \in ScanState /\ s.ledger.order = l.order /\ s.ledger.records[t] \in Record
  BY DEF Scanned, ScanState, Ledger
<1>2. /\ q \in Record /\ q.status = "running" /\ q.dispatched
      /\ q.delivered = s.ledger.records[t].delivered /\ q.queued = s.ledger.records[t].queued
      /\ q.in_flight = s.ledger.records[t].in_flight /\ q.acknowledged = s.ledger.records[t].acknowledged
  BY <1>1 DEF Record, Statuses
<1> HIDE DEF q
<1>3. m \in Ledger /\ m.records[t] = q /\ Elsewhere(s.ledger, m, t)
  BY <1>1, <1>2, Updated
<1> HIDE DEF m
<1>4. z \in ScanState /\ z.ledger = m /\ z.selected = {t}
  BY <1>3 DEF ScanState
<1>5. ASSUME NEW u \in Tasks \ {t} PROVE Passed(l.records[u], m.records[u])
  BY <1>3 DEF Scanned, Elsewhere
<1>6. Ready(m, t)
  <2> SUFFICES ASSUME NEW u \in DependsOn[t]
               PROVE IsTerminal(m, u) /\ (session.policy[t] = "AllSuccess" => Status(m, u) = "completed")
    BY DEF Ready
  <2>1. IsTerminal(s.ledger, u) /\ (session.policy[t] = "AllSuccess" => Status(s.ledger, u) = "completed")
    BY DEF Open, Failed
  <2>2. CASE u \in Tasks
    <3>1. u # t
      BY <2>1 DEF IsTerminal, Queued, Terminal, Status
    <3> QED BY <2>1, <2>2, <3>1, <1>3 DEF Elsewhere, IsTerminal, Status
  <2>3. CASE u \notin Tasks
    <3>1. m.records[u] = s.ledger.records[u]
      BY <2>3, <1>1 DEF m, Update, Ledger
    <3> QED BY <2>1, <3>1 DEF IsTerminal, Status
  <2> QED BY <2>2, <2>3
<1>7. Passed(l.records[t], s.ledger.records[t]) /\ s.ledger.records[t].status \in Waiting
  BY DEF Scanned, Queued, Status, Waiting
<1>8. l.records[t].status \in Waiting
  BY <1>7 DEF Passed, Waiting
<1>9. Selected(l, z, t)
  BY <1>2, <1>3, <1>4, <1>6, <1>7, <1>8 DEF Selected, Passed, Same
<1>10. m.order = l.order
  BY <1>1, <1>3 DEF Elsewhere
<1> HIDE DEF z
<1>11. Scanned(l, z)
  BY <1>4, <1>5, <1>9, <1>10 DEF Scanned
<1> QED BY <1>11 DEF z, m, q

LEMMA ScanSteps ==
    ASSUME NEW l \in Ledger, NEW s, Scanned(l, s), NEW t \in Tasks, NEW exhausted
    PROVE  Scanned(l, StepOver(s, t, exhausted))
<1>1. CASE s.selected # {} \/ ~Queued(s.ledger, t)
  BY <1>1 DEF StepOver
<1>2. CASE s.selected = {} /\ Queued(s.ledger, t)
  <2>1. CASE IsCancelled(t)
    <3>1. StepOver(s, t, exhausted)
            = [s EXCEPT !.ledger = apply_outcome(s.ledger, t, [status |-> "cancelled", usage |-> 0])]
      BY <1>2, <2>1, Zenon DEF StepOver
    <3>2. Scanned(l, [s EXCEPT !.ledger = apply_outcome(s.ledger, t, [status |-> "cancelled", usage |-> 0])])
      BY <1>2, ScanSettles, Zenon
    <3> QED BY <3>1, <3>2, Zenon
  <2>2. CASE ~IsCancelled(t) /\ (exhausted \/ Failed(s.ledger, t))
    <3>1. StepOver(s, t, exhausted)
            = [s EXCEPT !.ledger = apply_outcome(s.ledger, t, [status |-> "failed", usage |-> 0])]
      BY <1>2, <2>2, Zenon DEF StepOver
    <3>2. Scanned(l, [s EXCEPT !.ledger = apply_outcome(s.ledger, t, [status |-> "failed", usage |-> 0])])
      BY <1>2, ScanSettles, Zenon
    <3> QED BY <3>1, <3>2, Zenon
  <2>3. CASE ~IsCancelled(t) /\ ~(exhausted \/ Failed(s.ledger, t)) /\ Open(s.ledger, t) # {}
    <3>1. StepOver(s, t, exhausted) = [s EXCEPT !.ledger.records[t].status = "waiting"]
      BY <1>2, <2>3, Zenon DEF StepOver
    <3> QED BY <1>2, <3>1, ScanWaits
  <2>4. CASE ~IsCancelled(t) /\ ~(exhausted \/ Failed(s.ledger, t)) /\ Open(s.ledger, t) = {}
    <3>1. StepOver(s, t, exhausted)
            = [ledger |-> Update(s.ledger, t, [s.ledger.records[t] EXCEPT !.status = "running",
                                                                          !.dispatched = TRUE]),
               selected |-> {t}]
      BY <1>2, <2>4, Zenon DEF StepOver
    <3> QED BY <1>2, <2>4, <3>1, ScanSelects
  <2> QED BY <2>1, <2>2, <2>3, <2>4
<1> QED BY <1>1, <1>2

LEMMA ScanScans ==
    ASSUME NEW l \in Ledger
    PROVE  Scanned(l, Scan(l))
<1> DEFINE k == Len(l.order)
<1>1. k \in Nat /\ \A n \in 1..k : l.order[n] \in Tasks
  BY DEF Ledger
<1>2. PICK f : Scans(l, f, Nat) /\ Scan(l) = f[k]
  BY <1>1, ScanUnfolds
<1>6. Scans(l, f, Nat)
  BY <1>2
<1>7. \A m \in Nat : f[m] = IF m = 0 THEN ScanStart(l) ELSE ScanOver(l, f[m - 1], m)
  BY <1>6, ScansAt, Zenon
<1> DEFINE T == {n \in Nat : n <= k => Scanned(l, f[n])}
<1>3. 0 \in T
  <2>1. f[0] = ScanStart(l)
    BY <1>2, ScansAt
  <2>2. ScanStart(l) \in ScanState /\ ScanStart(l).ledger = l /\ ScanStart(l).selected = {}
    BY DEF ScanStart, ScanState
  <2>3. \A t \in Tasks : Passed(l.records[t], l.records[t])
    BY DEF Passed, Same
  <2>4. Scanned(l, ScanStart(l))
    BY <2>2, <2>3 DEF Scanned
  <2> QED BY <2>1, <2>4
<1>4. ASSUME NEW n \in Nat, n \in T PROVE n + 1 \in T
  <2> SUFFICES ASSUME n + 1 <= k PROVE Scanned(l, f[n + 1])
    OBVIOUS
  <2>0. n + 1 \in Nat /\ n + 1 # 0 /\ (n + 1) - 1 = n
    OBVIOUS
  <2>1. f[n + 1] = ScanOver(l, f[(n + 1) - 1], n + 1)
    BY <1>7, <2>0, Zenon
  <2>2. f[n + 1] = StepOver(f[n], l.order[n + 1], Exhausted(l))
    BY <2>0, <2>1 DEF ScanOver
  <2>3. Scanned(l, f[n]) /\ l.order[n + 1] \in Tasks
    BY <1>1, <1>4
  <2> QED BY <2>2, <2>3, ScanSteps
<1>5. Nat \subseteq T
  <2> HIDE DEF T
  <2> QED BY <1>3, <1>4, EveryNatural
<1> QED BY <1>1, <1>2, <1>5

--------------------------------------------------------------------------------
(* What a call makes of the ledger.                                        *)
Proposed(op, t, ids, next, stated) ==
    /\ next \in Ledger /\ Ordered(next)
    /\ \A u \in Tasks : Moves([op |-> op, task |-> t, ids |-> ids, next |-> next], u,
                              state.records[u], next.records[u], stated)

LEMMA KeptSame ==
    ASSUME NEW r, r.status = "absent" => r = NoRecord
    PROVE  Kept(r, r)
BY DEF Kept

(* The record a call does not name.                                        *)
LEMMA Unmoved ==
    ASSUME NEW x, NEW u, NEW r, r.status = "absent" => r = NoRecord, NEW stated,
           x.task # u, x.op # "collect_ids"
    PROVE  Moves(x, u, r, r, stated)
<1>1. Kept(r, r)
  BY KeptSame
<1> QED BY <1>1 DEF Moves

LEMMA OrderedBy ==
    ASSUME NEW l, NEW m, Ordered(l), m.order = l.order,
           \A u \in Tasks : l.records[u].status = "absent" => m.records[u].status = "absent"
    PROVE  Ordered(m)
BY DEF Ordered

(* A call that changes at most the record of its own task.                 *)
LEMMA OneRecord ==
    ASSUME state \in Ledger, Formed(state), Ordered(state),
           NEW op, NEW t \in Tasks, NEW ids, NEW next \in Ledger, NEW stated,
           Elsewhere(state, next, t), op # "collect_ids", state.records[t].status # "absent",
           Moves([op |-> op, task |-> t, ids |-> ids, next |-> next], t,
                 state.records[t], next.records[t], stated)
    PROVE  Proposed(op, t, ids, next, stated)
<1> DEFINE x == [op |-> op, task |-> t, ids |-> ids, next |-> next]
<1>1. x.task = t /\ x.op # "collect_ids"
  OBVIOUS
<1> HIDE DEF x
<1>2. ASSUME NEW u \in Tasks PROVE Moves(x, u, state.records[u], next.records[u], stated)
  <2>1. CASE u = t
    BY <2>1 DEF x
  <2>2. CASE u # t
    <3>1. next.records[u] = state.records[u]
      BY <2>2 DEF Elsewhere
    <3>2. Moves(x, u, state.records[u], state.records[u], stated)
      BY <1>1, <2>2, Unmoved DEF Formed
    <3> QED BY <3>1, <3>2
  <2> QED BY <2>1, <2>2
<1>3. Ordered(next)
  <2>1. \A u \in Tasks : state.records[u].status = "absent" => next.records[u].status = "absent"
    BY DEF Elsewhere
  <2> QED BY <2>1, OrderedBy DEF Elsewhere
<1> QED BY <1>2, <1>3 DEF Proposed, x

(* A call that changes nothing.                                            *)
LEMMA NothingMoved ==
    ASSUME state \in Ledger, Formed(state), Ordered(state), NEW op, NEW t \in Tasks, NEW ids, NEW stated,
           op \notin {"schedule_one", "collect_ids", "steer"}, state.records[t].status # "absent"
    PROVE  Proposed(op, t, ids, state, stated)
<1> DEFINE x == [op |-> op, task |-> t, ids |-> ids, next |-> state]
<1>1. x.op \notin {"schedule_one", "collect_ids", "steer"}
  OBVIOUS
<1> HIDE DEF x
<1>2. Kept(state.records[t], state.records[t])
  BY KeptSame DEF Formed
<1>3. Moves(x, t, state.records[t], state.records[t], stated)
  BY <1>1, <1>2 DEF Moves
<1>4. Elsewhere(state, state, t)
  BY DEF Elsewhere
<1> QED BY <1>3, <1>4, OneRecord DEF x

(* What most calls do to a record: nothing takes steering from a status    *)
(* that is terminal, and the status is kept or becomes a terminal one.     *)
LEMMA StatusStays ==
    ASSUME state \in Ledger, Formed(state), Ordered(state), NEW op, NEW t \in Tasks, NEW ids, NEW stated,
           NEW q \in Record, state.records[t].status # "absent",
           op \notin {"schedule_one", "collect_ids", "steer"},
           q.status = state.records[t].status, q.dispatched = state.records[t].dispatched,
           q.delivered = state.records[t].delivered,
           Steering(q) = Steering(state.records[t]), Unhandled(q) \subseteq Unhandled(state.records[t])
    PROVE  Proposed(op, t, ids, Update(state, t, q), stated)
<1> DEFINE next == Update(state, t, q)
           x == [op |-> op, task |-> t, ids |-> ids, next |-> next]
           r == state.records[t]
<1>1. x.op \notin {"schedule_one", "collect_ids", "steer"}
  OBVIOUS
<1>2. next \in Ledger /\ next.records[t] = q /\ Elsewhere(state, next, t)
  BY Updated
<1> HIDE DEF x, next
<1>3. Kept(r, q)
  BY DEF Kept
<1>4. Moves(x, t, r, q, stated)
  BY <1>1, <1>3 DEF Moves
<1> QED BY <1>2, <1>4, OneRecord DEF x, next

--------------------------------------------------------------------------------
(* Each operation on the ledger.                                           *)
LEMMA LargerIsNatural ==
    ASSUME NEW a \in Nat, NEW b \in Nat
    PROVE  Max({a, b}) \in Nat
<1>1. \E x \in {a, b} : \A y \in {a, b} : x >= y
  OBVIOUS
<1>2. Max({a, b}) \in {a, b}
  BY <1>1, Zenon DEF Max
<1> QED BY <1>2

LEMMA Sane ==
    ASSUME TypeOK
    PROVE  /\ strict \in Nat /\ state.records \in [Tasks -> Record] /\ state.usage \in Nat
           /\ Submitter \in [Tasks -> Tasks \cup {Root}] /\ \A t \in Tasks : session.costs[t] \subseteq Nat
           /\ session.batches \subseteq Seq(Tasks) /\ session.messages \subseteq Messages
           /\ session.strict \in Nat
<1>1. session.strict \in Nat /\ session \in Session
  BY DEF TypeOK, Session
<1>2. strict \in Nat
  BY <1>1 DEF TypeOK
<1>3. state.records \in [Tasks -> Record] /\ state.usage \in Nat
  BY DEF TypeOK, Ledger
<1>4. session.submitter \in [Tasks -> Tasks \cup {Root}] /\ session.costs \in [Tasks -> SUBSET Nat]
      /\ session.batches \subseteq Seq(Tasks) /\ session.messages \subseteq Messages
  BY <1>1 DEF Session
<1> QED BY <1>1, <1>2, <1>3, <1>4 DEF Submitter

LEMMA NewRecordTyped ==
    ASSUME TypeOK, NEW t \in Tasks
    PROVE  /\ NewRecord(state, t) \in Record
           /\ NewRecord(state, t).status \in Waiting
           /\ NewRecord(state, t).status # "absent"
<1> DEFINE p == Submitter[t]
           b == Baseline(state, p)
           d == IF p = Root THEN 1 ELSE state.records[p].depth + 1
<1>1. p \in Tasks \cup {Root}
  BY Sane
<1>2. b \in Nat
  <2>1. CASE p = Root
    BY <2>1, Sane DEF Baseline
  <2>2. CASE p # Root
    <3>1. state.records[p].level \in Nat /\ strict \in Nat
      BY <1>1, <2>2, Sane DEF Record
    <3> HIDE DEF p
    <3> QED BY <3>1, <2>2, LargerIsNatural DEF Baseline
  <2> QED BY <2>1, <2>2
<1>3. d \in Nat
  BY <1>1, Sane DEF Record
<1>4. NoRecord \in Record
  BY DEF NoRecord, Record
<1> DEFINE q == [NoRecord EXCEPT !.status = IF DependsOn[t] = {} THEN "pending" ELSE "waiting",
                                 !.depth = d, !.level = b, !.floor = IF p = Root THEN 0 ELSE b,
                                 !.accepting = TRUE]
<1>5. NewRecord(state, t) = q
  BY DEF NewRecord
<1> HIDE DEF p, b, d
<1>6. q \in Record /\ q.status \in Waiting /\ q.status # "absent"
  BY <1>2, <1>3, <1>4 DEF Record, NoRecord, Statuses, Waiting
<1> QED BY <1>5, <1>6

LEMMA SubmitProposes ==
    ASSUME SchedulerInv, NEW batch \in session.batches, SubmitDag(batch)
    PROVE  \E p, next : Begin(p, "submit_dag", NoTask, {}, next)
                        /\ Proposed("submit_dag", NoTask, {}, next, reconciled)
<1> DEFINE p == Submitter[batch[1]]
           new == {batch[i] : i \in DOMAIN batch}
           g == [t \in Tasks |-> IF t \in new THEN NewRecord(state, t) ELSE state.records[t]]
           next == [state EXCEPT !.order = @ \o batch,
                        !.records = [t \in Tasks |-> IF t \in new THEN NewRecord(state, t) ELSE @[t]]]
           x == [op |-> "submit_dag", task |-> NoTask, ids |-> {}, next |-> next]
<1>1. state \in Ledger /\ batch \in Seq(Tasks) /\ TypeOK /\ Formed(state) /\ Ordered(state)
  BY Sane DEF SchedulerInv, TypeOK, Tracked
<1>2. Begin(p, "submit_dag", NoTask, {}, next) /\ (\A t \in new : Status(state, t) = "absent")
  BY Zenon DEF SubmitDag, Call
<1>3. g \in [Tasks -> Record]
  <2>1. \A t \in Tasks : NewRecord(state, t) \in Record /\ state.records[t] \in Record
    BY <1>1, NewRecordTyped DEF Ledger
  <2> HIDE DEF new
  <2> QED BY <2>1
<1>4. next = [order |-> state.order \o batch, records |-> g, usage |-> state.usage]
  <2>1. next = [state EXCEPT !.order = state.order \o batch, !.records = g]
    BY Zenon
  <2> HIDE DEF g, next
  <2> QED BY <1>1, <2>1 DEF Ledger
<1>5. state.order \o batch \in Seq(Tasks)
  BY <1>1 DEF Ledger
<1>6. x.op = "submit_dag" /\ x.next = next /\ x.task = NoTask
  OBVIOUS
<1> HIDE DEF x
<1>7. next \in Ledger /\ next.order = state.order \o batch /\ next.records = g
  <2> HIDE DEF g, next
  <2> QED BY <1>1, <1>3, <1>4, <1>5 DEF Ledger
<1> HIDE DEF next
<1>8. Ordered(next)
  <2>1. CASE batch = <<>>
    <3>1. new = {}
      BY <2>1
    <3>2. \A t \in Tasks : g[t] = state.records[t]
      BY <3>1
    <3>3. state.order \o batch = state.order
      BY <2>1, <1>1 DEF Ledger
    <3> HIDE DEF g
    <3> QED BY <1>1, <1>7, <3>2, <3>3 DEF Ordered
  <2>2. CASE batch # <<>>
    <3>1. state.order \o batch # <<>>
      BY <2>2, <1>1 DEF Ledger
    <3> QED BY <3>1, <1>7 DEF Ordered
  <2> QED BY <2>1, <2>2
<1>9. ASSUME NEW t \in Tasks PROVE Moves(x, t, state.records[t], next.records[t], reconciled)
  <2>1. CASE t \in new
    <3>1. state.records[t] = NoRecord
      BY <1>1, <1>2, <2>1 DEF Formed, Status
    <3>2. next.records[t] = NewRecord(state, t)
      BY <1>7, <2>1
    <3>3. NewRecord(state, t).status \in Waiting
      BY <1>1, NewRecordTyped
    <3>4. Kept(NoRecord, NewRecord(state, t))
      BY <3>3 DEF Kept, NoRecord, Steering, Unhandled, Terminal, Waiting
    <3> QED BY <1>6, <3>1, <3>2, <3>3, <3>4 DEF Moves, NoRecord, Waiting
  <2>2. CASE t \notin new
    <3>1. next.records[t] = state.records[t]
      BY <1>7, <2>2
    <3>2. x.task # t
      BY <1>6, ConstantsAssumption
    <3> QED BY <1>1, <1>6, <3>1, <3>2, Unmoved DEF Formed
  <2> QED BY <2>1, <2>2
<1>10. Proposed("submit_dag", NoTask, {}, next, reconciled)
  BY <1>7, <1>8, <1>9 DEF Proposed, x
<1> QED BY <1>2, <1>10

LEMMA SteerProposes ==
    ASSUME SchedulerInv, NEW by, NEW t \in Tasks, NEW m \in session.messages, Steer(by, t, m)
    PROVE  \E next : Begin(by, "steer", t, {m}, next) /\ Proposed("steer", t, {m}, next, reconciled)
<1> DEFINE r == state.records[t]
           known == m \in r.queued \cup r.in_flight \cup r.acknowledged
           q == IF known THEN r ELSE [r EXCEPT !.queued = @ \cup {m}]
           next == Update(state, t, q)
           x == [op |-> "steer", task |-> t, ids |-> {m}, next |-> next]
<1>1. state \in Ledger /\ Formed(state) /\ Ordered(state) /\ r \in Record /\ m \in Messages
  BY Sane DEF SchedulerInv, TypeOK, Tracked
<1>2. /\ Begin(by, "steer", t, {m}, IF known THEN state ELSE Update(state, t, [r EXCEPT !.queued = @ \cup {m}]))
      /\ r.status # "absent" /\ (known \/ r.status \notin Terminal)
  BY DEF Steer, Call, Present
<1>3. state = Update(state, t, r)
  BY <1>1 DEF Update, Ledger
<1>4. Begin(by, "steer", t, {m}, next)
  BY <1>2, <1>3
<1>5. /\ q \in Record /\ q.status = r.status /\ q.dispatched = r.dispatched /\ q.delivered = r.delivered
      /\ Steering(r) \subseteq Steering(q) /\ {m} \subseteq Steering(q)
      /\ (r.status \in Terminal => q = r)
  BY <1>1, <1>2 DEF Record, Steering, Unhandled
<1> HIDE DEF q
<1>6. next \in Ledger /\ next.records[t] = q /\ Elsewhere(state, next, t)
  BY <1>1, <1>5, Updated
<1>7. x.op = "steer" /\ x.ids = {m}
  OBVIOUS
<1> HIDE DEF next, x
<1>8. Kept(r, q)
  BY <1>2, <1>5 DEF Kept
<1>9. Moves(x, t, r, q, reconciled)
  <2>1. q.status = "completed" => r.status = "completed"
    BY <1>5
  <2> QED BY <1>5, <1>7, <1>8, <2>1 DEF Moves
<1>10. Proposed("steer", t, {m}, next, reconciled)
  BY <1>1, <1>2, <1>6, <1>9, OneRecord DEF x
<1> QED BY <1>4, <1>10

LEMMA CancelProposes ==
    ASSUME SchedulerInv, NEW by, NEW t \in Tasks, CancelStatus(by, t)
    PROVE  \E next : Begin(by, "cancel", t, {}, next) /\ Proposed("cancel", t, {}, next, reconciled)
<1> DEFINE r == state.records[t]
           q == [r EXCEPT !.status = "cancelled", !.accepting = FALSE]
           next == Update(state, t, q)
           x == [op |-> "cancel", task |-> t, ids |-> {}, next |-> next]
<1>1. state \in Ledger /\ Formed(state) /\ Ordered(state) /\ r \in Record
  BY Sane DEF SchedulerInv, TypeOK, Tracked
<1>2. Begin(by, "cancel", t, {}, next) /\ t \in cancelled /\ r.status \notin Terminal
  BY Zenon DEF CancelStatus, Call, IsTerminal, Status
<1>3. r.status # "absent"
  BY <1>2 DEF SchedulerInv, Executing, Status
<1>4. q \in Record /\ q.status = "cancelled" /\ Same(r, q)
  BY <1>1 DEF Record, Same, Statuses, Terminal
<1> HIDE DEF q
<1>5. next \in Ledger /\ next.records[t] = q /\ Elsewhere(state, next, t)
  BY <1>1, <1>4, Updated
<1>6. x.op = "cancel"
  OBVIOUS
<1> HIDE DEF next, x
<1>7. Kept(r, q)
  BY <1>2, <1>4 DEF Kept, Same, Steering, Unhandled
<1>8. Moves(x, t, r, q, reconciled)
  BY <1>4, <1>6, <1>7 DEF Moves, Waiting, Terminal
<1>9. Proposed("cancel", t, {}, next, reconciled)
  BY <1>1, <1>3, <1>5, <1>8, OneRecord DEF x
<1> QED BY <1>2, <1>9

(* Marking results as delivered changes nothing else of their records.     *)
LEMMA DeliveredMarks ==
    ASSUME NEW l \in Ledger, NEW ids
    PROVE  /\ Delivered(l, ids) \in Ledger /\ Delivered(l, ids).order = l.order
           /\ \A t \in Tasks :
                 LET r == l.records[t]
                     q == Delivered(l, ids).records[t]
                 IN /\ q.status = r.status /\ q.dispatched = r.dispatched
                    /\ q.delivered = (r.delivered \/ t \in ids)
                    /\ Unhandled(q) = Unhandled(r) /\ Steering(q) = Steering(r)
                    /\ (t \notin ids => q = r)
<1> DEFINE g == [t \in Tasks |-> [l.records[t] EXCEPT !.delivered = @ \/ t \in ids]]
<1>1. ASSUME NEW t \in Tasks
      PROVE  /\ g[t] \in Record /\ g[t].status = l.records[t].status
             /\ g[t].dispatched = l.records[t].dispatched
             /\ g[t].delivered = (l.records[t].delivered \/ t \in ids)
             /\ Unhandled(g[t]) = Unhandled(l.records[t])
             /\ Steering(g[t]) = Steering(l.records[t])
             /\ (t \notin ids => g[t] = l.records[t])
  <2> DEFINE r == l.records[t]
             d == r.delivered \/ t \in ids
  <2>1. r \in Record
    BY DEF Ledger
  <2>2. g[t] = [r EXCEPT !.delivered = d]
    BY Zenon
  <2>3. d \in BOOLEAN
    OBVIOUS
  <2>4. t \notin ids => d = r.delivered
    BY <2>1 DEF Record
  <2> HIDE DEF g, r, d
  <2>5. /\ g[t] \in Record /\ g[t].status = r.status /\ g[t].dispatched = r.dispatched
        /\ g[t].delivered = d /\ Unhandled(g[t]) = Unhandled(r) /\ Steering(g[t]) = Steering(r)
    BY <2>1, <2>2, <2>3 DEF Record, Unhandled, Steering, r
  <2>6. t \notin ids => g[t] = r
    BY <2>1, <2>2, <2>4 DEF Record, r
  <2> QED BY <2>5, <2>6 DEF r, d
<1>2. Delivered(l, ids) = [l EXCEPT !.records = g]
  BY Zenon DEF Delivered
<1>3. g \in [Tasks -> Record]
  BY <1>1
<1> HIDE DEF g
<1>4. Delivered(l, ids) \in Ledger /\ Delivered(l, ids).records = g /\ Delivered(l, ids).order = l.order
  BY <1>2, <1>3 DEF Ledger
<1> QED BY <1>1, <1>4

LEMMA CollectProposes ==
    ASSUME SchedulerInv, NEW by, NEW ids, CollectIds(by, ids), ids \subseteq Tasks
    PROVE  \E next : Begin(by, "collect_ids", NoTask, ids, next)
                     /\ Proposed("collect_ids", NoTask, ids, next, reconciled)
<1> DEFINE next == Delivered(state, ids)
           x == [op |-> "collect_ids", task |-> NoTask, ids |-> ids, next |-> next]
<1>1. state \in Ledger /\ Formed(state) /\ Ordered(state)
  BY DEF SchedulerInv, TypeOK, Tracked
<1>2. Begin(by, "collect_ids", NoTask, ids, next)
      /\ (\A t \in ids : state.records[t].status \in Terminal /\ ~state.records[t].delivered)
  BY Zenon DEF CollectIds, Call, IsTerminal, Status
<1>3. /\ next \in Ledger /\ next.order = state.order
      /\ \A t \in Tasks :
            /\ next.records[t].status = state.records[t].status
            /\ next.records[t].dispatched = state.records[t].dispatched
            /\ next.records[t].delivered = (state.records[t].delivered \/ t \in ids)
            /\ Unhandled(next.records[t]) = Unhandled(state.records[t])
            /\ Steering(next.records[t]) = Steering(state.records[t])
            /\ (t \notin ids => next.records[t] = state.records[t])
  BY <1>1, DeliveredMarks
<1>4. x.op = "collect_ids" /\ x.task = NoTask /\ x.ids = ids
  OBVIOUS
<1> HIDE DEF next, x
<1>5. ASSUME NEW t \in Tasks PROVE Moves(x, t, state.records[t], next.records[t], reconciled)
  <2>1. CASE t \in ids
    <3>1. Kept(state.records[t], next.records[t])
      BY <1>2, <1>3, <2>1 DEF Kept, Terminal
    <3> QED BY <1>2, <1>3, <1>4, <2>1, <3>1 DEF Moves, Terminal
  <2>2. CASE t \notin ids
    <3>1. next.records[t] = state.records[t]
      BY <1>3, <2>2
    <3>2. Kept(state.records[t], next.records[t])
      BY <1>1, <3>1, KeptSame DEF Formed
    <3> QED BY <1>4, <2>2, <3>1, <3>2 DEF Moves
  <2> QED BY <2>1, <2>2
<1>6. Ordered(next)
  BY <1>1, <1>3, OrderedBy
<1>7. Proposed("collect_ids", NoTask, ids, next, reconciled)
  BY <1>3, <1>5, <1>6 DEF Proposed, x
<1> QED BY <1>2, <1>7

(* What a caller resumes: a task that was never dispatched, or one that is *)
(* taken up from its continuation.                                         *)
LEMMA ResumeProposes ==
    ASSUME SchedulerInv, NEW op, NEW t \in Tasks, state.records[t].status = "reconciling",
           op \in {"resume_queued", "resume_checkpoint"},
           op = "resume_queued" => ~state.records[t].dispatched
    PROVE  Proposed(op, t, {}, Update(state, t, Resumed(state.records[t])), reconciled)
<1> DEFINE r == state.records[t]
           q == Resumed(r)
           next == Update(state, t, q)
           x == [op |-> op, task |-> t, ids |-> {}, next |-> next]
<1>1. state \in Ledger /\ Formed(state) /\ Ordered(state) /\ r \in Record /\ strict \in Nat
  BY Sane DEF SchedulerInv, TypeOK, Tracked
<1>2. r.floor \in Nat
  BY <1>1 DEF Record
<1>3. CurrentBaseline(r) \in Nat
  BY <1>1, <1>2, LargerIsNatural DEF CurrentBaseline
<1>4. q \in Record /\ q.status = "pending" /\ Same(r, q)
  <2> HIDE DEF r
  <2> QED BY <1>1, <1>3 DEF Record, Same, Statuses, Resumed
<1> HIDE DEF q
<1>5. next \in Ledger /\ next.records[t] = q /\ Elsewhere(state, next, t)
  BY <1>1, <1>4, Updated
<1>6. x.op = op /\ x.task = t
  OBVIOUS
<1> HIDE DEF next, x
<1>7. Kept(r, q)
  BY <1>4 DEF Kept, Same, Steering, Unhandled, Terminal
<1>8. Moves(x, t, r, q, reconciled)
  BY <1>4, <1>6, <1>7 DEF Moves, Waiting, Terminal
<1> QED BY <1>1, <1>5, <1>8, OneRecord DEF x, next, q

(* Consumption changes nothing else of a record.                           *)
LEMMA ChargeProposes ==
    ASSUME SchedulerInv, NEW op \in {"reserve", "charge"}, NEW t \in Tasks, NEW n \in Nat,
           state.records[t].status # "absent"
    PROVE  Proposed(op, t, {}, Charged(state, t, n), reconciled)
<1> DEFINE r == state.records[t]
           next == Charged(state, t, n)
           q == next.records[t]
           x == [op |-> op, task |-> t, ids |-> {}, next |-> next]
<1>1. state \in Ledger /\ Formed(state) /\ Ordered(state)
  BY DEF SchedulerInv, TypeOK, Tracked
<1>2. next \in Ledger /\ Elsewhere(state, next, t) /\ q.status = r.status /\ Same(r, q)
  BY <1>1, ChargedKeeps
<1>3. x.op = op
  OBVIOUS
<1> HIDE DEF next, x
<1>4. Kept(r, q)
  BY <1>2 DEF Kept, Same, Steering, Unhandled
<1>5. Moves(x, t, r, q, reconciled)
  BY <1>2, <1>3, <1>4 DEF Moves
<1> QED BY <1>1, <1>2, <1>5, OneRecord DEF x, next

LEMMA ReconcileProposes ==
    ASSUME SchedulerInv, NEW by, NEW t \in Tasks, NEW o \in Outcomes(t), Reconcile(by, t, o)
    PROVE  \E next : Begin(by, "reconcile", t, {}, next) /\ Proposed("reconcile", t, {}, next, reconciled')
<1> DEFINE r == state.records[t]
           p == [r EXCEPT !.status = o.status, !.accepting = FALSE]
           m == Update(state, t, p)
           d == Delta(r, o.usage)
           next == Charged(m, t, d)
           q == next.records[t]
           x == [op |-> "reconcile", task |-> t, ids |-> {}, next |-> next]
<1>1. state \in Ledger /\ Formed(state) /\ Ordered(state) /\ r \in Record
  BY Sane DEF SchedulerInv, TypeOK, Tracked
<1>2. Begin(by, "reconcile", t, {}, next) /\ r.status = "reconciling" /\ t \in reconciled'
  BY Zenon DEF Reconcile
<1>3. o.status \in {"completed", "failed"} /\ o.usage \in Nat
  <2>1. session.costs[t] \subseteq Nat
    BY Sane DEF SchedulerInv
  <2> QED BY <2>1 DEF Outcomes
<1>4. p \in Record /\ p.status = o.status /\ Same(r, p)
  BY <1>1, <1>3 DEF Record, Same, Statuses, Terminal
<1>5. d \in Nat
  BY <1>1, <1>3, DeltaTyped
<1> HIDE DEF p, d
<1>6. m \in Ledger /\ m.records[t] = p /\ Elsewhere(state, m, t)
  BY <1>1, <1>4, Updated
<1> HIDE DEF m
<1>7. next \in Ledger /\ Elsewhere(m, next, t) /\ q.status = p.status /\ Same(p, q)
  BY <1>5, <1>6, ChargedKeeps
<1>8. x.op = "reconcile"
  OBVIOUS
<1> HIDE DEF next, x
<1>9. Elsewhere(state, next, t)
  BY <1>6, <1>7 DEF Elsewhere
<1>10. Kept(r, q)
  BY <1>2, <1>3, <1>4, <1>7 DEF Kept, Same, Steering, Unhandled, Terminal
<1>11. Moves(x, t, r, q, reconciled')
  BY <1>2, <1>3, <1>4, <1>7, <1>8, <1>10 DEF Moves, Waiting, Terminal
<1>12. Proposed("reconcile", t, {}, next, reconciled')
  BY <1>1, <1>2, <1>7, <1>9, <1>11, OneRecord DEF x
<1> QED BY <1>2, <1>12

(* Steering taken, acknowledged or left: none of it is lost.               *)
LEMMA TakeProposes ==
    ASSUME SchedulerInv, NEW t \in Tasks, state.records[t].status # "absent",
           NEW op \in {"take_messages", "finish_or_take_messages"}, NEW b \in BOOLEAN
    PROVE  /\ Proposed(op, t, {}, Update(state, t, Taken(state.records[t])), reconciled)
           /\ Proposed(op, t, {}, Update(state, t, [Taken(state.records[t]) EXCEPT !.accepting = b]), reconciled)
<1> DEFINE r == state.records[t]
           p == Taken(r)
           q == [p EXCEPT !.accepting = b]
<1>1. state \in Ledger /\ Formed(state) /\ Ordered(state) /\ r \in Record
  BY Sane DEF SchedulerInv, TypeOK, Tracked
<1> HIDE DEF r
<1>2. /\ p \in Record /\ p.status = r.status /\ p.dispatched = r.dispatched /\ p.delivered = r.delivered
      /\ Unhandled(p) = Unhandled(r) /\ Steering(p) = Steering(r)
  BY <1>1 DEF Taken, Record, Unhandled, Steering
<1> HIDE DEF p
<1>3. /\ q \in Record /\ q.status = r.status /\ q.dispatched = r.dispatched /\ q.delivered = r.delivered
      /\ Unhandled(q) = Unhandled(r) /\ Steering(q) = Steering(r)
  BY <1>2 DEF Record, Unhandled, Steering
<1> HIDE DEF q
<1>4. Proposed(op, t, {}, Update(state, t, p), reconciled)
  BY <1>1, <1>2, StatusStays DEF r
<1>5. Proposed(op, t, {}, Update(state, t, q), reconciled)
  BY <1>1, <1>3, StatusStays DEF r
<1> QED BY <1>4, <1>5 DEF q, p, r

LEMMA AcknowledgedKeeps ==
    ASSUME NEW r \in Record, NEW ids, ids \subseteq r.in_flight
    PROVE  LET q == Acknowledged(r, ids)
           IN /\ q \in Record /\ q.status = r.status /\ q.dispatched = r.dispatched /\ q.delivered = r.delivered
              /\ Unhandled(q) \subseteq Unhandled(r) /\ Steering(q) = Steering(r)
BY DEF Acknowledged, Record, Unhandled, Steering

LEMMA AcknowledgeProposes ==
    ASSUME SchedulerInv, NEW t \in Tasks, NEW ids, ids \subseteq state.records[t].in_flight,
           state.records[t].status # "absent"
    PROVE  Proposed("acknowledge_messages", t, {},
                    Update(state, t, Acknowledged(state.records[t], ids)), reconciled)
<1> DEFINE q == Acknowledged(state.records[t], ids)
<1>1. state \in Ledger /\ Formed(state) /\ Ordered(state) /\ state.records[t] \in Record
  BY Sane DEF SchedulerInv, TypeOK, Tracked
<1>2. /\ q \in Record /\ q.status = state.records[t].status /\ q.dispatched = state.records[t].dispatched
      /\ q.delivered = state.records[t].delivered
      /\ Unhandled(q) \subseteq Unhandled(state.records[t]) /\ Steering(q) = Steering(state.records[t])
  BY <1>1, AcknowledgedKeeps
<1> HIDE DEF q
<1> QED BY <1>1, <1>2, StatusStays DEF q

LEMMA CheckpointProposes ==
    ASSUME SchedulerInv, NEW t \in Tasks, NEW kind \in {"safe", "unsafe"}, NEW ids,
           ids \subseteq state.records[t].in_flight, NEW deliveries \in SUBSET Tasks,
           state.records[t].status = "running", \A u \in deliveries : IsTerminal(state, u)
    PROVE  Proposed("persist_checkpoint", t, {},
                    Delivered(Update(state, t, [Acknowledged(state.records[t], ids) EXCEPT !.checkpoint = kind]),
                              deliveries), reconciled)
<1> DEFINE r == state.records[t]
           p == Acknowledged(r, ids)
           q == [p EXCEPT !.checkpoint = kind]
           m == Update(state, t, q)
           next == Delivered(m, deliveries)
           x == [op |-> "persist_checkpoint", task |-> t, ids |-> {}, next |-> next]
<1>1. state \in Ledger /\ Formed(state) /\ Ordered(state) /\ r \in Record
  BY Sane DEF SchedulerInv, TypeOK, Tracked
<1>2. /\ p \in Record /\ p.status = r.status /\ p.dispatched = r.dispatched /\ p.delivered = r.delivered
      /\ Unhandled(p) \subseteq Unhandled(r) /\ Steering(p) = Steering(r)
  BY <1>1, AcknowledgedKeeps
<1> HIDE DEF p
<1>3. /\ q \in Record /\ q.status = r.status /\ q.dispatched = r.dispatched /\ q.delivered = r.delivered
      /\ Unhandled(q) \subseteq Unhandled(r) /\ Steering(q) = Steering(r)
  BY <1>2 DEF Record, Unhandled, Steering
<1> HIDE DEF q
<1>4. m \in Ledger /\ m.records[t] = q /\ Elsewhere(state, m, t)
  BY <1>1, <1>3, Updated
<1> HIDE DEF m
<1>5. /\ next \in Ledger /\ next.order = m.order
      /\ \A u \in Tasks :
            /\ next.records[u].status = m.records[u].status
            /\ next.records[u].dispatched = m.records[u].dispatched
            /\ next.records[u].delivered = (m.records[u].delivered \/ u \in deliveries)
            /\ Unhandled(next.records[u]) = Unhandled(m.records[u])
            /\ Steering(next.records[u]) = Steering(m.records[u])
            /\ (u \notin deliveries => next.records[u] = m.records[u])
  BY <1>4, DeliveredMarks
<1>6. x.op = "persist_checkpoint"
  OBVIOUS
<1> HIDE DEF next, x
<1>7. ASSUME NEW u \in Tasks PROVE Moves(x, u, state.records[u], next.records[u], reconciled)
  <2>1. /\ m.records[u].status = state.records[u].status /\ m.records[u].dispatched = state.records[u].dispatched
        /\ m.records[u].delivered = state.records[u].delivered
        /\ Unhandled(m.records[u]) \subseteq Unhandled(state.records[u])
        /\ Steering(m.records[u]) = Steering(state.records[u])
        /\ (u # t => m.records[u] = state.records[u])
    <3>1. CASE u = t
      BY <3>1, <1>3, <1>4
    <3>2. CASE u # t
      BY <3>2, <1>4 DEF Elsewhere
    <3> QED BY <3>1, <3>2
  <2>2. next.records[u].status = "absent" => next.records[u] = NoRecord
    <3>1. state.records[u].status = "absent" => u # t /\ u \notin deliveries
      BY DEF IsTerminal, Status, Terminal
    <3> QED BY <1>1, <1>5, <2>1, <3>1 DEF Formed
  <2>3. Kept(state.records[u], next.records[u])
    BY <1>5, <2>1, <2>2 DEF Kept
  <2> QED BY <1>5, <1>6, <2>1, <2>3 DEF Moves
<1>8. Ordered(next)
  <2>1. \A u \in Tasks : state.records[u].status = "absent" => next.records[u].status = "absent"
    BY <1>4, <1>5 DEF Elsewhere
  <2> QED BY <1>1, <1>4, <1>5, <2>1, OrderedBy DEF Elsewhere
<1> QED BY <1>5, <1>7, <1>8 DEF Proposed, x, next, m, q, p, r

(* A scan only moves what waited, and what it selects is ready.            *)
LEMMA ScheduleProposes ==
    ASSUME SchedulerInv, ScheduleOne
    PROVE  \E t, next : /\ t \in Tasks \cup {NoTask} /\ Begin(Driver, "schedule_one", t, {}, next)
                        /\ Proposed("schedule_one", t, {}, next, reconciled)
<1> DEFINE s == Scan(state)
           t == IF s.selected = {} THEN NoTask ELSE CHOOSE u \in s.selected : TRUE
           next == s.ledger
           x == [op |-> "schedule_one", task |-> t, ids |-> {}, next |-> next]
<1>1. state \in Ledger /\ Formed(state) /\ Ordered(state)
  BY Sane DEF SchedulerInv, TypeOK, Tracked
<1>2. Scanned(state, s)
  BY <1>1, ScanScans
<1>3. Begin(Driver, "schedule_one", t, {}, next)
  BY Zenon DEF ScheduleOne, Call
<1> HIDE DEF s
<1>4. (s.selected = {} /\ t = NoTask) \/ (t \in Tasks /\ s.selected = {t})
  <2>1. CASE s.selected = {}
    BY <2>1
  <2>2. CASE s.selected # {}
    <3>1. PICK u \in Tasks : s.selected = {u}
      BY <1>2, <2>2 DEF Scanned
    <3>2. t \in s.selected
      BY <2>2, Zenon
    <3> HIDE DEF t
    <3> QED BY <3>1, <3>2
  <2> QED BY <2>1, <2>2
<1>5. x.op = "schedule_one" /\ x.task = t /\ x.next = next
  OBVIOUS
<1> HIDE DEF t, x
<1>6. next \in Ledger /\ next.order = state.order
  BY <1>2 DEF Scanned, ScanState
<1>7. ASSUME NEW u \in Tasks
      PROVE  /\ Moves(x, u, state.records[u], next.records[u], reconciled)
             /\ (state.records[u].status = "absent" => next.records[u].status = "absent")
  <2> DEFINE r == state.records[u]
             q == next.records[u]
  <2>0. r.status = "absent" => r = NoRecord
    BY <1>1 DEF Formed
  <2>1. CASE u \in s.selected
    <3>1. u = t
      BY <1>4, <2>1
    <3>2. Selected(state, s, u)
      BY <1>2, <2>1 DEF Scanned
    <3>3. /\ r.status \in Waiting /\ q.status = "running" /\ q.dispatched /\ q.delivered = r.delivered
          /\ Steering(q) = Steering(r) /\ Ready(next, u)
      BY <3>2 DEF Selected, Steering, Unhandled
    <3> HIDE DEF r, q, next
    <3>4. Kept(r, q)
      BY <3>3 DEF Kept, Waiting, Terminal
    <3>5. Moves(x, u, r, q, reconciled)
      BY <1>5, <3>3, <3>4 DEF Moves, Waiting
    <3> QED BY <3>3, <3>5 DEF r, q, Waiting
  <2>2. CASE u \notin s.selected
    <3>1. u # t
      BY <1>4, <2>2, ConstantsAssumption
    <3>2. Passed(r, q)
      BY <1>2, <2>2 DEF Scanned
    <3> HIDE DEF r, q, next
    <3>3. /\ q.dispatched = r.dispatched /\ q.delivered = r.delivered /\ Steering(q) = Steering(r)
          /\ Unhandled(q) = Unhandled(r)
      BY <3>2 DEF Passed, Same, Steering, Unhandled
    <3>4. q.status = r.status \/ (r.status \in Waiting /\ q.status \in {"waiting", "cancelled", "failed"})
      BY <3>2 DEF Passed
    <3>5. r.status = "absent" => q = r
      BY <3>2 DEF Passed
    <3>6. Kept(r, q)
      BY <2>0, <3>3, <3>4, <3>5 DEF Kept, Waiting, Terminal
    <3>7. Moves(x, u, r, q, reconciled)
      BY <1>5, <3>1, <3>3, <3>4, <3>6 DEF Moves, Waiting, Terminal
    <3> QED BY <3>5, <3>7 DEF r, q
  <2> QED BY <2>1, <2>2
<1>8. Ordered(next)
  BY <1>1, <1>6, <1>7, OrderedBy
<1>9. Proposed("schedule_one", t, {}, next, reconciled)
  BY <1>6, <1>7, <1>8 DEF Proposed, x
<1> QED BY <1>3, <1>4, <1>9

LEMMA JoinProposes ==
    ASSUME SchedulerInv, NEW t \in Tasks, exec[t] = "done"
    PROVE  Proposed("join", t, {}, apply_outcome(state, t, outcome[t]), reconciled)
<1> DEFINE r == state.records[t]
           o == outcome[t]
           next == apply_outcome(state, t, o)
           q == next.records[t]
           x == [op |-> "join", task |-> t, ids |-> {}, next |-> next]
<1>1. state \in Ledger /\ Formed(state) /\ Ordered(state) /\ r \in Record /\ o \in Outcome
  BY Sane DEF SchedulerInv, TypeOK, Tracked
<1>2. r.status \in {"running"} \cup Terminal
  BY DEF SchedulerInv, Executing, Status
<1>3. /\ next \in Ledger /\ Elsewhere(state, next, t) /\ Same(r, q)
      /\ q.status = IF r.status \in Terminal THEN r.status
                    ELSE IF o.status = "completed" /\ Unhandled(r) # {} THEN "reconciling"
                    ELSE o.status
  <2> HIDE DEF o
  <2> QED BY <1>1, OutcomeApplied
<1>4. o.status \in Terminal
  BY <1>1 DEF Outcome
<1>5. x.op = "join" /\ x.task = t
  OBVIOUS
<1> HIDE DEF next, x, o
<1>6. /\ q.dispatched = r.dispatched /\ q.delivered = r.delivered /\ Steering(q) = Steering(r)
      /\ Unhandled(q) = Unhandled(r)
  BY <1>3 DEF Same, Steering, Unhandled
<1>7. q.status \in {"reconciling"} \cup Terminal /\ (r.status \in Terminal => q.status = r.status)
  BY <1>3, <1>4
<1>8. q.status = "completed" => r.status = "completed" \/ Unhandled(q) = {}
  BY <1>3, <1>6
<1> HIDE DEF r, q
<1>9. Kept(r, q)
  BY <1>6, <1>7 DEF Kept, Terminal
<1>10. Moves(x, t, r, q, reconciled)
  BY <1>5, <1>7, <1>8, <1>9 DEF Moves, Waiting, Terminal
<1> QED BY <1>1, <1>2, <1>3, <1>10, OneRecord DEF x, next, o, r, q, Terminal

LEMMA ShutdownProposes ==
    ASSUME SchedulerInv, NEW next,
           next = [state EXCEPT !.records = [t \in Tasks |-> ShutDown(state.records[t])]]
    PROVE  Proposed("shutdown", NoTask, {}, next, reconciled)
<1> DEFINE x == [op |-> "shutdown", task |-> NoTask, ids |-> {}, next |-> next]
           g == [t \in Tasks |-> ShutDown(state.records[t])]
<1>1. state \in Ledger /\ Formed(state) /\ Ordered(state)
  BY DEF SchedulerInv, TypeOK, Tracked
<1>2. ASSUME NEW t \in Tasks
      PROVE  /\ g[t] \in Record /\ Same(state.records[t], g[t])
             /\ \/ g[t] = state.records[t]
                \/ g[t].status = "cancelled" /\ state.records[t].status \notin Terminal \cup {"absent"}
  <2>1. state.records[t] \in Record /\ g[t] = ShutDown(state.records[t])
    BY <1>1 DEF Ledger
  <2> HIDE DEF g
  <2> QED BY <2>1 DEF ShutDown, Record, Same, Statuses, Terminal
<1>3. next.records = g /\ next \in Ledger /\ next.order = state.order
  <2>1. g \in [Tasks -> Record]
    BY <1>2
  <2> HIDE DEF g
  <2> QED BY <1>1, <2>1 DEF Ledger, g
<1>4. x.op = "shutdown"
  OBVIOUS
<1> HIDE DEF x, g
<1>5. ASSUME NEW t \in Tasks PROVE Moves(x, t, state.records[t], next.records[t], reconciled)
  <2>1. CASE g[t] = state.records[t]
    <3>1. Kept(state.records[t], state.records[t])
      BY <1>1, KeptSame DEF Formed
    <3> QED BY <1>3, <1>4, <2>1, <3>1 DEF Moves
  <2>2. CASE g[t].status = "cancelled" /\ state.records[t].status \notin Terminal \cup {"absent"}
    <3>1. Kept(state.records[t], g[t])
      BY <1>2, <2>2 DEF Kept, Same, Steering, Unhandled, Terminal
    <3> QED BY <1>3, <1>4, <2>2, <3>1 DEF Moves, Waiting, Terminal
  <2> QED BY <1>2, <2>1, <2>2
<1>6. Ordered(next)
  <2>1. \A t \in Tasks : state.records[t].status = "absent" => next.records[t].status = "absent"
    BY <1>2, <1>3
  <2> QED BY <1>1, <1>3, <2>1 DEF Ordered
<1> QED BY <1>3, <1>5, <1>6 DEF Proposed, x

--------------------------------------------------------------------------------
(* The steps.  A call only takes the lock.                                 *)
LEMMA CallKeeps ==
    ASSUME SchedulerInv, UNCHANGED session, tx = NoTx,
           NEW by, NEW op, NEW t \in Tasks \cup {NoTask}, NEW ids, NEW next,
           tx' = [by |-> by, op |-> op, task |-> t, ids |-> ids, next |-> next],
           UNCHANGED <<state, stored, fenced, ownerVars, slotVars, hostVars, executions, returned, accepted>>,
           reconciled \subseteq reconciled', Proposed(op, t, ids, next, reconciled'),
           op = "schedule_one" => driver = "holding", op = "shutdown" => driver = "draining",
           op = "join" => t \in Tasks /\ exec[t] \in {"done", "none"}
    PROVE  SchedulerInv'
<1> DEFINE x == [op |-> op, task |-> t, ids |-> ids, next |-> next]
<1>1. tx'.op = op /\ tx'.task = t /\ tx'.ids = ids /\ tx'.next = next
  OBVIOUS
<1>2. x.op = op /\ x.task = t /\ x.ids = ids /\ x.next = next
  OBVIOUS
<1>3. next \in Ledger /\ Ordered(next)
      /\ \A u \in Tasks : Moves(x, u, state.records[u], next.records[u], reconciled')
  BY DEF Proposed
<1> HIDE DEF x
<1>4. TypeOK'
  BY <1>1, <1>3 DEF SchedulerInv, TypeOK, ownerVars, slotVars, hostVars
<1>5. Tracked'
  BY DEF SchedulerInv, Tracked, hostVars, Formed, Ordered, Agrees
<1>6. Derived'
  <2>1. ASSUME NEW u \in Tasks
        PROVE  Moves(tx, u, state.records[u], tx.next.records[u], reconciled)'
    <3>1. Moves(x, u, state.records[u], next.records[u], reconciled')
      BY <1>3
    <3>2. tx'.op = x.op /\ tx'.task = x.task /\ tx'.ids = x.ids /\ tx'.next = x.next /\ x.next = next
      BY <1>1, <1>2
    <3> QED BY <3>1, <3>2 DEF Moves, Ready, IsTerminal, Status, DependsOn
  <2>2. Ordered(tx.next)'
    BY <1>1, <1>3 DEF Ordered
  <2> QED BY <1>1, <2>1, <2>2 DEF Derived, slotVars
<1>7. Executing'
  BY DEF SchedulerInv, Executing, slotVars, ownerVars, Status, Ready, IsTerminal, DependsOn
<1>8. Accounted'
  BY DEF SchedulerInv, Accounted
<1>9. Permitted'
  BY DEF SchedulerInv, Permitted, PermitsConserved, Holders, HoldsPermit, slotVars
<1> QED BY <1>4, <1>5, <1>6, <1>7, <1>8, <1>9 DEF SchedulerInv

LEMMA CallStep ==
    ASSUME SchedulerInv, UNCHANGED session,
           NEW by, NEW op, NEW t \in Tasks \cup {NoTask}, NEW ids, NEW next,
           Begin(by, op, t, ids, next),
           UNCHANGED <<state, stored, fenced, ownerVars, slotVars, hostVars, ghosts>>,
           Proposed(op, t, ids, next, reconciled),
           op = "schedule_one" => driver = "holding",
           op = "join" => t \in Tasks /\ exec[t] \in {"done", "none"},
           op # "shutdown"
    PROVE  SchedulerInv'
<1>1. tx = NoTx /\ tx' = [by |-> by, op |-> op, task |-> t, ids |-> ids, next |-> next]
  BY Zenon DEF Begin
<1>2. reconciled' = reconciled /\ executions' = executions /\ returned' = returned /\ accepted' = accepted
  BY DEF ghosts
<1>3. UNCHANGED <<state, stored, fenced, ownerVars, slotVars, hostVars, executions, returned, accepted>>
  BY <1>2
<1>4. reconciled \subseteq reconciled' /\ Proposed(op, t, ids, next, reconciled')
  BY <1>2
<1> QED BY <1>1, <1>3, <1>4, CallKeeps

LEMMA HostCallsKeep ==
    ASSUME SchedulerInv, UNCHANGED session, HostCalls, ~(\E by \in Handles, t \in Tasks : CancelIntent(by, t))
    PROVE  SchedulerInv'
<1> DEFINE Rest == UNCHANGED <<state, stored, fenced, ownerVars, slotVars, hostVars, ghosts>>
<1>1. ASSUME NEW batch \in session.batches, SubmitDag(batch) PROVE SchedulerInv'
  <2>1. PICK p, next : /\ Begin(p, "submit_dag", NoTask, {}, next)
                       /\ Proposed("submit_dag", NoTask, {}, next, reconciled)
    BY <1>1, SubmitProposes
  <2>2. Rest
    BY <1>1, Zenon DEF SubmitDag, Call
  <2> QED BY <2>1, <2>2, CallStep
<1>2. ASSUME NEW by \in Handles, NEW t \in Tasks, NEW m \in session.messages, Steer(by, t, m)
      PROVE  SchedulerInv'
  <2>1. PICK next : Begin(by, "steer", t, {m}, next) /\ Proposed("steer", t, {m}, next, reconciled)
    BY <1>2, SteerProposes
  <2>2. Rest
    BY <1>2, Zenon DEF Steer, Call
  <2> QED BY <2>1, <2>2, CallStep
<1>3. ASSUME NEW by \in Handles, NEW t \in Tasks, CancelStatus(by, t) PROVE SchedulerInv'
  <2>1. PICK next : Begin(by, "cancel", t, {}, next) /\ Proposed("cancel", t, {}, next, reconciled)
    BY <1>3, CancelProposes
  <2>2. Rest
    BY <1>3, Zenon DEF CancelStatus, Call
  <2> QED BY <2>1, <2>2, CallStep
<1>4. ASSUME NEW by \in Handles, NEW ids \in SUBSET session.collected, CollectIds(by, ids)
      PROVE  SchedulerInv'
  <2>1. ids \subseteq Tasks
    BY DEF SchedulerInv, TypeOK, Session
  <2>2. PICK next : Begin(by, "collect_ids", NoTask, ids, next)
                    /\ Proposed("collect_ids", NoTask, ids, next, reconciled)
    BY <1>4, <2>1, CollectProposes
  <2>3. Rest
    BY <1>4, Zenon DEF CollectIds, Call
  <2> QED BY <2>2, <2>3, CallStep
<1>5. ASSUME NEW by \in Handles, NEW t \in Tasks, ResumeQueued(by, t) PROVE SchedulerInv'
  <2> DEFINE next == Update(state, t, Resumed(state.records[t]))
  <2>1. /\ state.records[t].status = "reconciling" /\ ~state.records[t].dispatched
        /\ Begin(by, "resume_queued", t, {}, next) /\ Rest
    BY <1>5, Zenon DEF ResumeQueued, Call
  <2>2. Proposed("resume_queued", t, {}, next, reconciled)
    BY <2>1, ResumeProposes
  <2> HIDE DEF next
  <2> QED BY <2>1, <2>2, CallStep
<1>6. ASSUME NEW by \in Handles, NEW t \in Tasks, ResumeCheckpoint(by, t) PROVE SchedulerInv'
  <2> DEFINE next == Update(state, t, Resumed(state.records[t]))
  <2>1. /\ state.records[t].status = "reconciling"
        /\ Begin(by, "resume_checkpoint", t, {}, next) /\ Rest
    BY <1>6, Zenon DEF ResumeCheckpoint, Call
  <2>2. Proposed("resume_checkpoint", t, {}, next, reconciled)
    BY <2>1, ResumeProposes
  <2> HIDE DEF next
  <2> QED BY <2>1, <2>2, CallStep
<1>7. ASSUME NEW by \in Handles, NEW t \in Tasks, NEW o \in Outcomes(t), Reconcile(by, t, o)
      PROVE  SchedulerInv'
  <2>1. PICK next : Begin(by, "reconcile", t, {}, next) /\ Proposed("reconcile", t, {}, next, reconciled')
    BY <1>7, ReconcileProposes
  <2>2. /\ reconciled \subseteq reconciled'
        /\ UNCHANGED <<state, stored, fenced, ownerVars, slotVars, hostVars, executions, returned, accepted>>
    BY <1>7 DEF Reconcile
  <2>3. tx = NoTx /\ tx' = [by |-> by, op |-> "reconcile", task |-> t, ids |-> {}, next |-> next]
    BY <2>1, Zenon DEF Begin
  <2> QED BY <2>1, <2>2, <2>3, CallKeeps
<1> HIDE DEF Rest
<1> QED BY <1>1, <1>2, <1>3, <1>4, <1>5, <1>6, <1>7 DEF HostCalls

(* Calls of an execution: its task is running, or terminal.                *)
LEMMA ChildCallsKeep ==
    ASSUME SchedulerInv, UNCHANGED session, NEW t \in Tasks,
           \/ \E cost \in session.costs[t] : Reserve(t, cost) \/ Charge(t, cost)
           \/ TakeMessages(t) \/ FinishOrTakeMessages(t) \/ RecordActivity(t)
           \/ \E ids \in SUBSET session.messages \ {{}} : AcknowledgeMessages(t, ids)
           \/ \E kind \in {"safe", "unsafe"}, ids \in SUBSET session.messages, deliveries \in SUBSET Tasks :
                 PersistCheckpoint(t, kind, ids, deliveries)
    PROVE  SchedulerInv'
<1> DEFINE Rest == UNCHANGED <<state, stored, fenced, ownerVars, slotVars, hostVars, ghosts>>
           r == state.records[t]
<1>1. exec[t] = "running" => r.status # "absent"
  BY DEF SchedulerInv, Executing, Status, Terminal
<1>2. Running(t) => r.status = "running" /\ r.status # "absent"
  BY DEF Running, Status
<1>3. ASSUME NEW cost \in session.costs[t], Reserve(t, cost) \/ Charge(t, cost) PROVE SchedulerInv'
  <2>1. PICK op \in {"reserve", "charge"} : Begin(t, op, t, {}, Charged(state, t, cost))
    BY <1>3, Zenon DEF Reserve, Charge, Call
  <2>2. Running(t) /\ Rest
    BY <1>3, Zenon DEF Reserve, Charge, Call
  <2>3. cost \in Nat
    BY Sane DEF SchedulerInv
  <2>4. Proposed(op, t, {}, Charged(state, t, cost), reconciled)
    BY <1>2, <2>2, <2>3, ChargeProposes
  <2> QED BY <2>1, <2>2, <2>4, CallStep
<1>4. ASSUME TakeMessages(t) PROVE SchedulerInv'
  <2> DEFINE next == Update(state, t, Taken(state.records[t]))
  <2>1. Running(t) /\ Begin(t, "take_messages", t, {}, next) /\ Rest
    BY <1>4, Zenon DEF TakeMessages, Call
  <2>2. Proposed("take_messages", t, {}, next, reconciled)
    BY <1>2, <2>1, TakeProposes
  <2> HIDE DEF next
  <2> QED BY <2>1, <2>2, CallStep
<1>5. ASSUME FinishOrTakeMessages(t) PROVE SchedulerInv'
  <2> DEFINE b == Taken(r).accepting /\ Taken(r).in_flight # {}
             next == Update(state, t, [Taken(r) EXCEPT !.accepting = b])
  <2>1. Running(t) /\ Begin(t, "finish_or_take_messages", t, {}, next) /\ Rest
    BY <1>5, Zenon DEF FinishOrTakeMessages, Call
  <2>2. b \in BOOLEAN
    OBVIOUS
  <2> HIDE DEF b
  <2>3. Proposed("finish_or_take_messages", t, {}, next, reconciled)
    BY <1>2, <2>1, <2>2, TakeProposes
  <2> HIDE DEF next
  <2> QED BY <2>1, <2>3, CallStep
<1>6. ASSUME RecordActivity(t) PROVE SchedulerInv'
  <2>1. exec[t] = "running" /\ Begin(t, "activity", t, {}, state) /\ Rest
    BY <1>6, Zenon DEF RecordActivity, Call
  <2>2. Proposed("activity", t, {}, state, reconciled)
    BY <1>1, <2>1, NothingMoved DEF SchedulerInv, TypeOK, Tracked
  <2> QED BY <2>1, <2>2, CallStep
<1>7. ASSUME NEW ids, AcknowledgeMessages(t, ids) PROVE SchedulerInv'
  <2> DEFINE next == Update(state, t, Acknowledged(r, ids))
  <2>1. exec[t] = "running" /\ ids \subseteq r.in_flight
        /\ Begin(t, "acknowledge_messages", t, {}, next) /\ Rest
    BY <1>7, Zenon DEF AcknowledgeMessages, Call
  <2>2. Proposed("acknowledge_messages", t, {}, next, reconciled)
    BY <1>1, <2>1, AcknowledgeProposes
  <2> HIDE DEF next
  <2> QED BY <2>1, <2>2, CallStep
<1>8. ASSUME NEW kind \in {"safe", "unsafe"}, NEW ids, NEW deliveries \in SUBSET Tasks,
             PersistCheckpoint(t, kind, ids, deliveries)
      PROVE  SchedulerInv'
  <2> DEFINE next == Delivered(Update(state, t, [Acknowledged(r, ids) EXCEPT !.checkpoint = kind]), deliveries)
  <2>1. /\ Running(t) /\ ids \subseteq r.in_flight /\ (\A u \in deliveries : IsTerminal(state, u))
        /\ Begin(t, "persist_checkpoint", t, {}, next) /\ Rest
    BY <1>8, Zenon DEF PersistCheckpoint, Call
  <2>2. Proposed("persist_checkpoint", t, {}, next, reconciled)
    BY <1>2, <2>1, CheckpointProposes
  <2> HIDE DEF next
  <2> QED BY <2>1, <2>2, CallStep
<1> HIDE DEF Rest, r
<1> QED BY <1>3, <1>4, <1>5, <1>6, <1>7, <1>8

(* The calls of the drive loop.                                            *)
LEMMA DriverCallsKeep ==
    ASSUME SchedulerInv, UNCHANGED session, ScheduleOne \/ (\E t \in Tasks : Join(t)) \/ PersistShutdown
    PROVE  SchedulerInv'
<1> DEFINE Rest == UNCHANGED <<state, stored, fenced, ownerVars, slotVars, hostVars, ghosts>>
<1>1. ASSUME ScheduleOne PROVE SchedulerInv'
  <2>1. PICK t, next : /\ t \in Tasks \cup {NoTask} /\ Begin(Driver, "schedule_one", t, {}, next)
                       /\ Proposed("schedule_one", t, {}, next, reconciled)
    BY <1>1, ScheduleProposes
  <2>2. driver = "holding" /\ Rest
    BY <1>1, Zenon DEF ScheduleOne, Call
  <2> QED BY <2>1, <2>2, CallStep
<1>2. ASSUME NEW t \in Tasks, Join(t) PROVE SchedulerInv'
  <2> DEFINE next == apply_outcome(state, t, outcome[t])
  <2>1. exec[t] = "done" /\ Begin(Driver, "join", t, {}, next) /\ Rest
    BY <1>2, Zenon DEF Join, Call
  <2>2. Proposed("join", t, {}, next, reconciled)
    BY <2>1, JoinProposes
  <2> HIDE DEF next
  <2> QED BY <2>1, <2>2, CallStep
<1>3. ASSUME PersistShutdown PROVE SchedulerInv'
  <2> DEFINE next == [state EXCEPT !.records = [t \in Tasks |-> ShutDown(state.records[t])]]
  <2>1. /\ tx' = [by |-> Driver, op |-> "shutdown", task |-> NoTask, ids |-> {}, next |-> next]
        /\ tx = NoTx /\ driver = "draining" /\ Rest
    BY <1>3, Zenon DEF PersistShutdown, Drained
  <2>2. Proposed("shutdown", NoTask, {}, next, reconciled)
    BY ShutdownProposes
  <2> HIDE DEF next
  <2>3. /\ reconciled' = reconciled
        /\ UNCHANGED <<state, stored, fenced, ownerVars, slotVars, hostVars, executions, returned, accepted>>
    BY <2>1 DEF ghosts
  <2>4. reconciled \subseteq reconciled' /\ Proposed("shutdown", NoTask, {}, next, reconciled')
    BY <2>2, <2>3
  <2> QED BY <2>1, <2>3, <2>4, CallKeeps
<1> QED BY <1>1, <1>2, <1>3

--------------------------------------------------------------------------------
(* What the store may hold after a write that was answered or not.         *)
LEMMA AgreesOn ==
    ASSUME NEW r \in Record, NEW s \in {r, Restored(r)}
    PROVE  /\ s.dispatched = r.dispatched /\ s.delivered = r.delivered
           /\ Steering(s) = Steering(r) /\ Unhandled(s) = Unhandled(r)
           /\ (r.status \in Terminal => s.status = r.status)
           /\ (s.status \in Terminal => r.status = s.status)
           /\ (s.status = "absent" <=> r.status = "absent")
           /\ Restored(s) = Restored(r)
BY DEF Restored, Record, Steering, Unhandled, Terminal

LEMMA RestoredTyped ==
    ASSUME NEW r \in Record
    PROVE  Restored(r) \in Record /\ Restored(r).status \notin Waiting
           /\ (r.status = "absent" => Restored(r) = r)
BY DEF Restored, Record, Waiting, Statuses, Terminal

LEMMA Persisted ==
    ASSUME SchedulerInv, NEW l \in {stored} \cup (IF tx = NoTx \/ fenced THEN {} ELSE {tx.next})
    PROVE  /\ l \in Ledger /\ Formed(l)
           /\ \A t \in Tasks :
                 /\ Kept(stored.records[t], l.records[t])
                 /\ (l.records[t].status = "completed" /\ t \notin reconciled => Unhandled(l.records[t]) = {})
                 /\ (Ready(stored, t) => Ready(l, t))
<1>1. CASE l = stored
  <2>1. \A t \in Tasks : Kept(stored.records[t], stored.records[t])
    BY KeptSame DEF SchedulerInv, Tracked, Formed
  <2> QED BY <1>1, <2>1 DEF SchedulerInv, TypeOK, Tracked, Accounted
<1>2. CASE tx # NoTx /\ ~fenced /\ l = tx.next
  <2>1. l \in Ledger /\ stored \in Ledger /\ state \in Ledger
    BY <1>2 DEF SchedulerInv, TypeOK
  <2>2. ASSUME NEW t \in Tasks
        PROVE  /\ Kept(stored.records[t], l.records[t])
               /\ (l.records[t].status = "completed" /\ t \notin reconciled => Unhandled(l.records[t]) = {})
               /\ (l.records[t].status = "absent" => l.records[t] = NoRecord)
    <3> DEFINE r == stored.records[t]
               s == state.records[t]
               q == l.records[t]
    <3>1. r \in Record /\ s \in {r, Restored(r)}
      BY <1>2, <2>1 DEF SchedulerInv, Tracked, Agrees, Ledger
    <3>2. Moves(tx, t, s, q, reconciled)
      BY <1>2 DEF SchedulerInv, Derived
    <3>3. r.status = "completed" /\ t \notin reconciled => Unhandled(r) = {}
      BY DEF SchedulerInv, Accounted
    <3> HIDE DEF r, s, q
    <3>4. /\ s.dispatched = r.dispatched /\ s.delivered = r.delivered
          /\ Steering(s) = Steering(r) /\ Unhandled(s) = Unhandled(r)
          /\ (r.status \in Terminal => s.status = r.status)
          /\ (s.status \in Terminal => r.status = s.status)
          /\ (s.status = "absent" <=> r.status = "absent")
      BY <3>1, AgreesOn
    <3>5. Kept(s, q)
      BY <3>2 DEF Moves
    <3>6. Kept(r, q)
      BY <3>4, <3>5 DEF Kept
    <3>7. q.status = "completed" /\ t \notin reconciled => Unhandled(q) = {}
      <4> SUFFICES ASSUME q.status = "completed", t \notin reconciled, s.status = "completed"
                   PROVE  Unhandled(q) = {}
        BY <3>2 DEF Moves
      <4>1. r.status = "completed" /\ Unhandled(q) \subseteq Unhandled(s)
        BY <3>4, <3>5 DEF Kept, Terminal
      <4> QED BY <4>1, <3>3, <3>4
    <3> QED BY <3>5, <3>6, <3>7 DEF r, q, Kept
  <2>3. ASSUME NEW t \in Tasks, Ready(stored, t) PROVE Ready(l, t)
    <3>1. DependsOn[t] \subseteq Tasks
      BY DEF SchedulerInv, TypeOK, Session, DependsOn
    <3> SUFFICES ASSUME NEW u \in DependsOn[t]
                 PROVE  IsTerminal(l, u) /\ (session.policy[t] = "AllSuccess" => Status(l, u) = "completed")
      BY DEF Ready
    <3>2. u \in Tasks /\ Kept(stored.records[u], l.records[u])
      BY <3>1, <2>2
    <3>3. IsTerminal(stored, u) /\ (session.policy[t] = "AllSuccess" => Status(stored, u) = "completed")
      BY <2>3 DEF Ready
    <3> QED BY <3>2, <3>3 DEF Kept, IsTerminal, Status
  <2> QED BY <2>1, <2>2, <2>3 DEF Formed
<1> QED BY <1>1, <1>2

(* A step that leaves the ledger of the owner alone, and what was told to  *)
(* callers: executions move on, tokens are cancelled, a call is dropped.   *)
Onward(u) ==
    \/ exec'[u] = exec[u]
    \/ /\ exec[u] # "none" /\ exec'[u] # "spawned"
       /\ exec'[u] \in Watched => exec[u] \in Watched
       /\ exec[u] = "done" => exec'[u] = "none"

Unspoilt ==
    /\ fenced' \in BOOLEAN /\ stale' \in BOOLEAN
    /\ stored' \in {stored} \cup (IF tx = NoTx \/ fenced THEN {} ELSE {tx.next})
    /\ ~fenced' => ~fenced /\ stored' = stored
    /\ ~stale' => ~stale /\ stored' = stored

LEMMA QuietStep ==
    ASSUME SchedulerInv, UNCHANGED <<session, state, saved, strict, returned, accepted, reconciled>>,
           Unspoilt, tx' \in {tx, NoTx}, tx' # NoTx => driver' = driver \/ driver = "idle",
           cancelled' \subseteq Tasks, \A u \in cancelled' : u \in cancelled \/ Status(state, u) # "absent",
           exec' \in [Tasks -> Places], outcome' \in [Tasks -> Outcome], \A u \in Tasks : Onward(u),
           executions' \in [Tasks -> Nat],
           \A u \in Tasks : \/ executions'[u] = executions[u]
                            \/ executions'[u] = executions[u] + 1 /\ exec[u] = "spawned" /\ exec'[u] = "running",
           permits' \in Int, Permitted'
    PROVE  SchedulerInv'
<1>1. stored' \in {stored} \cup (IF tx = NoTx \/ fenced THEN {} ELSE {tx.next})
  BY DEF Unspoilt
<1>2. /\ stored' \in Ledger /\ Formed(stored')
      /\ \A t \in Tasks :
            /\ Kept(stored.records[t], stored'.records[t])
            /\ (stored'.records[t].status = "completed" /\ t \notin reconciled
                  => Unhandled(stored'.records[t]) = {})
            /\ (Ready(stored, t) => Ready(stored', t))
  BY <1>1, Persisted
<1>3. TypeOK'
  BY <1>2 DEF SchedulerInv, TypeOK, Unspoilt
<1>4. Tracked'
  BY <1>2 DEF SchedulerInv, Tracked, Unspoilt, Formed, Ordered, Agrees
<1>5. Derived'
  <2> SUFFICES ASSUME tx' # NoTx PROVE Derived'
    BY DEF Derived
  <2>1. tx' = tx /\ tx # NoTx
    OBVIOUS
  <2>2. \A t \in Tasks : Moves(tx, t, state.records[t], tx.next.records[t], reconciled)'
    BY <2>1 DEF SchedulerInv, Derived, Moves, Ready, IsTerminal, Status, DependsOn
  <2>3. Ordered(tx.next)'
    BY <2>1 DEF SchedulerInv, Derived, Ordered
  <2>4. (tx.op = "schedule_one" => driver = "holding")' /\ (tx.op = "shutdown" => driver = "draining")'
    BY <2>1 DEF SchedulerInv, Derived
  <2>5. (tx.op = "join" => tx.task \in Tasks /\ exec[tx.task] \in {"done", "none"})'
    <3> SUFFICES ASSUME tx.op = "join" PROVE tx.task \in Tasks /\ exec'[tx.task] \in {"done", "none"}
      BY <2>1
    <3>1. tx.task \in Tasks /\ exec[tx.task] \in {"done", "none"}
      BY <2>1 DEF SchedulerInv, Derived
    <3>2. Onward(tx.task)
      BY <3>1
    <3> QED BY <3>1, <3>2 DEF Onward
  <2> QED BY <2>2, <2>3, <2>4, <2>5 DEF Derived
<1>6. ASSUME NEW t \in Tasks
      PROVE  /\ (exec[t] # "none" => Status(state, t) \in {"running"} \cup Terminal
                                     /\ stored.records[t].dispatched)'
             /\ (exec[t] = "spawned" => executions[t] = 0)'
             /\ (Status(state, t) \in Waiting => executions[t] = 0)'
             /\ (~stored.records[t].dispatched => executions[t] = 0)'
             /\ (executions[t] <= 1)'
             /\ (exec[t] \in Watched => Ready(stored, t))'
             /\ (t \in cancelled => Status(state, t) # "absent")'
  <2>1. /\ exec[t] # "none" => Status(state, t) \in {"running"} \cup Terminal /\ stored.records[t].dispatched
        /\ exec[t] = "spawned" => executions[t] = 0
        /\ Status(state, t) \in Waiting => executions[t] = 0
        /\ ~stored.records[t].dispatched => executions[t] = 0
        /\ executions[t] <= 1
        /\ exec[t] \in Watched => Ready(stored, t)
        /\ t \in cancelled => Status(state, t) # "absent"
    BY DEF SchedulerInv, Executing
  <2>2. stored.records[t].dispatched => stored'.records[t].dispatched
    BY <1>2 DEF Kept
  <2>3. Onward(t) /\ executions[t] \in Nat
    BY DEF SchedulerInv, TypeOK
  <2>4. Status(state, t)' = Status(state, t)
    BY DEF Status
  <2>5. exec'[t] \in Watched => Ready(stored, t)'
    <3>1. Ready(stored', t) => Ready(stored, t)'
      BY DEF Ready, IsTerminal, Status, DependsOn
    <3> QED BY <1>2, <2>1, <2>3, <3>1 DEF Onward
  <2>6. exec'[t] # "none" => exec[t] # "none"
    BY <2>3 DEF Onward
  <2>7. exec'[t] = "spawned" => exec[t] = "spawned"
    BY <2>3 DEF Onward
  <2>8. CASE executions'[t] = executions[t]
    BY <2>1, <2>2, <2>4, <2>5, <2>6, <2>7, <2>8
  <2>9. CASE executions'[t] = executions[t] + 1 /\ exec[t] = "spawned" /\ exec'[t] = "running"
    <3>1. executions'[t] = 1 /\ stored'.records[t].dispatched /\ Status(state, t) \notin Waiting
      BY <2>1, <2>2, <2>9 DEF Waiting, Terminal
    <3> QED BY <2>1, <2>2, <2>4, <2>5, <2>6, <2>9, <3>1
  <2> QED BY <2>8, <2>9
<1>7. Executing'
  BY <1>6 DEF Executing
<1>8. Accounted'
  BY <1>2 DEF SchedulerInv, Accounted, Kept
<1> QED BY <1>3, <1>4, <1>5, <1>7, <1>8 DEF SchedulerInv

(* Who holds a permit, when one execution moves.                           *)
LEMMA HoldersMove ==
    ASSUME IsFiniteSet(Holders), NEW t \in Tasks, \A u \in Tasks \ {t} : exec'[u] = exec[u]
    PROVE  /\ IsFiniteSet(Holders')
           /\ Cardinality(Holders) \in Nat /\ Cardinality(Holders') \in Nat
           /\ Cardinality(Holders') + ReleasedBy(t)
                = Cardinality(Holders) + (IF exec'[t] \in {"spawned", "running"} THEN 1 ELSE 0)
<1>1. Cardinality(Holders) \in Nat
  BY FS_CardinalityType
<1>2. CASE HoldsPermit(t) /\ exec'[t] \in {"spawned", "running"}
  <2>1. Holders' = Holders
    BY <1>2 DEF Holders, HoldsPermit
  <2> QED BY <1>1, <1>2, <2>1 DEF ReleasedBy
<1>3. CASE HoldsPermit(t) /\ exec'[t] \notin {"spawned", "running"}
  <2>1. Holders' = Holders \ {t} /\ t \in Holders
    BY <1>3 DEF Holders, HoldsPermit
  <2>2. IsFiniteSet(Holders \ {t}) /\ Cardinality(Holders \ {t}) = Cardinality(Holders) - 1
    BY <2>1, FS_RemoveElement
  <2>3. Cardinality(Holders \ {t}) \in Nat
    BY <2>2, FS_CardinalityType
  <2> QED BY <1>1, <1>3, <2>1, <2>2, <2>3 DEF ReleasedBy
<1>4. CASE ~HoldsPermit(t) /\ exec'[t] \in {"spawned", "running"}
  <2>1. Holders' = Holders \cup {t} /\ t \notin Holders
    BY <1>4 DEF Holders, HoldsPermit
  <2>2. IsFiniteSet(Holders \cup {t}) /\ Cardinality(Holders \cup {t}) = Cardinality(Holders) + 1
    BY <2>1, FS_AddElement
  <2> QED BY <1>1, <1>4, <2>1, <2>2 DEF ReleasedBy
<1>5. CASE ~HoldsPermit(t) /\ exec'[t] \notin {"spawned", "running"}
  <2>1. Holders' = Holders
    BY <1>5 DEF Holders, HoldsPermit
  <2> QED BY <1>1, <1>5, <2>1 DEF ReleasedBy
<1> QED BY <1>2, <1>3, <1>4, <1>5

(* A write that is not answered, and no write at all.                      *)
LEMMA AmbiguousSpoilsNothing ==
    ASSUME SchedulerInv, tx # NoTx, Ambiguous
    PROVE  Unspoilt
BY DEF SchedulerInv, TypeOK, Ambiguous, Unspoilt

LEMMA UnchangedSpoilsNothing ==
    ASSUME SchedulerInv, UNCHANGED <<stored, stale, fenced>>
    PROVE  Unspoilt
BY DEF SchedulerInv, TypeOK, Unspoilt

LEMMA DroppedSpoilsNothing ==
    ASSUME SchedulerInv, NEW t, DroppedCall(t)
    PROVE  Unspoilt /\ tx' \in {tx, NoTx}
<1>1. CASE Inside(t)
  <2>1. tx # NoTx /\ Ambiguous /\ tx' = NoTx
    BY <1>1 DEF DroppedCall, Inside
  <2> QED BY <2>1, AmbiguousSpoilsNothing
<1>2. CASE ~Inside(t)
  BY <1>2, UnchangedSpoilsNothing DEF DroppedCall
<1> QED BY <1>1, <1>2

(* One execution moves on, and its permit with it.                         *)
MovesOn(t) ==
    /\ UNCHANGED <<session, state, saved, strict, returned, accepted, reconciled, driver, cancelled>>
    /\ exec' \in [Tasks -> Places] /\ \A u \in Tasks \ {t} : exec'[u] = exec[u]
    /\ exec[t] # "none" /\ exec'[t] # "spawned"
    /\ exec'[t] \in Watched => exec[t] \in Watched
    /\ exec[t] = "done" => exec'[t] = "none"
    /\ permits' = permits + ReleasedBy(t) - (IF exec'[t] = "running" THEN 1 ELSE 0)
    /\ \/ executions' = executions
       \/ executions' = Bumped(executions, {t}) /\ exec[t] = "spawned" /\ exec'[t] = "running"

LEMMA ExecutionStep ==
    ASSUME SchedulerInv, NEW t \in Tasks, MovesOn(t), Unspoilt, tx' \in {tx, NoTx},
           outcome' \in [Tasks -> Outcome]
    PROVE  SchedulerInv'
<1>1. exec \in [Tasks -> Places] /\ executions \in [Tasks -> Nat] /\ permits \in Int /\ IsFiniteSet(Holders)
      /\ cancelled \subseteq Tasks
  BY DEF SchedulerInv, TypeOK, Permitted
<1>2. exec' \in [Tasks -> Places] /\ \A u \in Tasks : Onward(u)
  BY <1>1 DEF Onward, MovesOn
<1>3. /\ IsFiniteSet(Holders') /\ Cardinality(Holders) \in Nat /\ Cardinality(Holders') \in Nat
      /\ Cardinality(Holders') + ReleasedBy(t)
           = Cardinality(Holders) + (IF exec'[t] \in {"spawned", "running"} THEN 1 ELSE 0)
  BY <1>1, HoldersMove DEF MovesOn
<1>4. ReleasedBy(t) \in {0, 1} /\ exec'[t] # "spawned"
      /\ permits' = permits + ReleasedBy(t) - (IF exec'[t] = "running" THEN 1 ELSE 0)
  BY DEF ReleasedBy, MovesOn
<1>5. permits' \in Int /\ permits' + Cardinality(Holders') = permits + Cardinality(Holders)
  <2> HIDE DEF Holders
  <2> QED BY <1>1, <1>3, <1>4
<1>6. Permitted'
  <2>1. permits + Cardinality(Holders) + (IF driver = "holding" THEN 1 ELSE 0) = MaxConcurrency
    BY DEF SchedulerInv, Permitted, PermitsConserved, Holders
  <2>2. permits' + Cardinality(Holders') + (IF driver' = "holding" THEN 1 ELSE 0) = MaxConcurrency
    BY <1>5, <2>1 DEF MovesOn
  <2> QED BY <1>3, <2>2 DEF Permitted, PermitsConserved, Holders
<1>7. executions' \in [Tasks -> Nat]
      /\ \A u \in Tasks : \/ executions'[u] = executions[u]
                          \/ executions'[u] = executions[u] + 1 /\ exec[u] = "spawned" /\ exec'[u] = "running"
  <2>1. CASE executions' = executions
    BY <1>1, <2>1
  <2>2. CASE executions' = Bumped(executions, {t}) /\ exec[t] = "spawned" /\ exec'[t] = "running"
    <3>1. executions' = [u \in Tasks |-> executions[u] + (IF u \in {t} THEN 1 ELSE 0)]
      BY <2>2 DEF Bumped
    <3>2. executions' \in [Tasks -> Nat]
      BY <1>1, <3>1
    <3>3. \A u \in Tasks : executions'[u] = executions[u] \/ (u = t /\ executions'[u] = executions[u] + 1)
      BY <1>1, <3>1
    <3> QED BY <2>2, <3>2, <3>3
  <2> QED BY <2>1, <2>2 DEF MovesOn
<1> QED BY <1>1, <1>2, <1>5, <1>6, <1>7, QuietStep DEF MovesOn

LEMMA ExecutionsKeep ==
    ASSUME SchedulerInv, UNCHANGED session, NEW t \in Tasks,
           \/ Start(t) \/ CancelExecution(t) \/ AbortChild(t) \/ Finishes(t)
           \/ \E ids, mode : Wait(t, ids, mode)
           \/ Wake(t) \/ WaitTimesOut(t) \/ ResumeSlot(t) \/ JoinInVain(t)
    PROVE  SchedulerInv'
<1> USE DEF ownerVars, hostVars, ghosts
<1>1. outcome \in [Tasks -> Outcome] /\ permits \in Int /\ TypeOK /\ exec \in [Tasks -> Places]
  BY DEF SchedulerInv, TypeOK
<1>2. CASE Start(t)
  <2>1. MovesOn(t)
    <3>1. UNCHANGED <<session, state, saved, strict, returned, accepted, reconciled, driver, cancelled>>
      BY <1>2 DEF Start
    <3>2. /\ exec[t] = "spawned" /\ exec' = [exec EXCEPT ![t] = "running"]
          /\ permits' = permits /\ executions' = Bumped(executions, {t})
      BY <1>2 DEF Start
    <3>3. /\ exec' \in [Tasks -> Places] /\ exec'[t] = "running"
          /\ \A u \in Tasks \ {t} : exec'[u] = exec[u]
      BY <1>1, <3>2 DEF Places, Watched
    <3>4. permits' = permits + ReleasedBy(t) - 1
      BY <1>1, <3>2 DEF ReleasedBy, HoldsPermit
    <3> QED BY <3>1, <3>2, <3>3, <3>4 DEF MovesOn, Watched
  <2>2. UNCHANGED <<stored, stale, fenced, tx>>
    BY <1>2 DEF Start
  <2>3. Unspoilt /\ tx' \in {tx, NoTx}
    BY <2>2, UnchangedSpoilsNothing
  <2>4. outcome' \in [Tasks -> Outcome]
    BY <1>1, <1>2 DEF Start
  <2> QED BY <2>1, <2>3, <2>4, ExecutionStep
<1>3. CASE CancelExecution(t)
  <2>1. MovesOn(t)
    <3>1. UNCHANGED <<session, state, saved, strict, returned, accepted, reconciled, driver, cancelled>>
      BY <1>3 DEF CancelExecution
    <3>2. /\ exec[t] \in Watched /\ exec' = [exec EXCEPT ![t] = "done"]
          /\ permits' = permits + ReleasedBy(t) /\ executions' = executions
      BY <1>3 DEF CancelExecution
    <3>3. /\ exec' \in [Tasks -> Places] /\ exec'[t] = "done"
          /\ \A u \in Tasks \ {t} : exec'[u] = exec[u]
      BY <1>1, <3>2 DEF Places, Watched
    <3>4. permits' = permits + ReleasedBy(t) - 0
      BY <1>1, <3>2 DEF ReleasedBy, HoldsPermit
    <3> QED BY <3>1, <3>2, <3>3, <3>4 DEF MovesOn, Watched
  <2>2. DroppedCall(t)
    BY <1>3 DEF CancelExecution
  <2>3. Unspoilt /\ tx' \in {tx, NoTx}
    BY <2>2, DroppedSpoilsNothing
  <2>4. outcome' \in [Tasks -> Outcome]
    <3>1. [status |-> "cancelled", usage |-> 0] \in Outcome
      BY DEF Outcome, Terminal
    <3> QED BY <1>1, <1>3, <3>1 DEF CancelExecution
  <2> QED BY <2>1, <2>3, <2>4, ExecutionStep
<1>4. CASE AbortChild(t)
  <2>1. MovesOn(t)
    <3>1. UNCHANGED <<session, state, saved, strict, returned, accepted, reconciled, driver, cancelled>>
      BY <1>4 DEF AbortChild
    <3>2. /\ exec[t] # "none" /\ exec' = [exec EXCEPT ![t] = "none"]
          /\ permits' = permits + ReleasedBy(t) /\ executions' = executions
      BY <1>4 DEF AbortChild
    <3>3. /\ exec' \in [Tasks -> Places] /\ exec'[t] = "none"
          /\ \A u \in Tasks \ {t} : exec'[u] = exec[u]
      BY <1>1, <3>2 DEF Places, Watched
    <3>4. permits' = permits + ReleasedBy(t) - 0
      BY <1>1, <3>2 DEF ReleasedBy, HoldsPermit
    <3> QED BY <3>1, <3>2, <3>3, <3>4 DEF MovesOn, Watched
  <2>2. DroppedCall(t)
    BY <1>4 DEF AbortChild
  <2>3. Unspoilt /\ tx' \in {tx, NoTx}
    BY <2>2, DroppedSpoilsNothing
  <2>4. outcome' \in [Tasks -> Outcome]
    BY <1>1, <1>4 DEF AbortChild
  <2> QED BY <2>1, <2>3, <2>4, ExecutionStep
<1>5. ASSUME NEW o \in Outcomes(t), Finish(t, o) PROVE SchedulerInv'
  <2>1. MovesOn(t)
    <3>1. UNCHANGED <<session, state, saved, strict, returned, accepted, reconciled, driver, cancelled>>
      BY <1>5 DEF Finish
    <3>2. /\ exec[t] = "running" /\ exec' = [exec EXCEPT ![t] = "done"]
          /\ permits' = permits + 1 /\ executions' = executions
      BY <1>5 DEF Finish
    <3>3. /\ exec' \in [Tasks -> Places] /\ exec'[t] = "done"
          /\ \A u \in Tasks \ {t} : exec'[u] = exec[u]
      BY <1>1, <3>2 DEF Places, Watched
    <3>4. permits' = permits + ReleasedBy(t) - 0
      BY <1>1, <3>2 DEF ReleasedBy, HoldsPermit
    <3> QED BY <3>1, <3>2, <3>3, <3>4 DEF MovesOn, Watched
  <2>2. UNCHANGED <<stored, stale, fenced, tx>>
    BY <1>5 DEF Finish
  <2>3. Unspoilt /\ tx' \in {tx, NoTx}
    BY <2>2, UnchangedSpoilsNothing
  <2>4. outcome' \in [Tasks -> Outcome]
    <3>1. session.costs[t] \subseteq Nat
      BY <1>1, Sane
    <3>2. o \in Outcome
      BY <3>1 DEF Outcomes, Outcome, Terminal
    <3> QED BY <1>1, <1>5, <3>2 DEF Finish
  <2> QED BY <2>1, <2>3, <2>4, ExecutionStep
<1>6. ASSUME NEW ids, NEW mode, Wait(t, ids, mode) PROVE SchedulerInv'
  <2>1. MovesOn(t)
    <3>1. UNCHANGED <<session, state, saved, strict, returned, accepted, reconciled, driver, cancelled>>
      BY <1>6 DEF Wait
    <3>2. /\ exec[t] = "running" /\ exec' = [exec EXCEPT ![t] = "waiting"]
          /\ permits' = permits + 1 /\ executions' = executions
      BY <1>6 DEF Wait
    <3>3. /\ exec' \in [Tasks -> Places] /\ exec'[t] = "waiting"
          /\ \A u \in Tasks \ {t} : exec'[u] = exec[u]
      BY <1>1, <3>2 DEF Places, Watched
    <3>4. permits' = permits + ReleasedBy(t) - 0
      BY <1>1, <3>2 DEF ReleasedBy, HoldsPermit
    <3> QED BY <3>1, <3>2, <3>3, <3>4 DEF MovesOn, Watched
  <2>2. UNCHANGED <<stored, stale, fenced, tx>>
    BY <1>6 DEF Wait
  <2>3. Unspoilt /\ tx' \in {tx, NoTx}
    BY <2>2, UnchangedSpoilsNothing
  <2>4. outcome' \in [Tasks -> Outcome]
    BY <1>1, <1>6 DEF Wait
  <2> QED BY <2>1, <2>3, <2>4, ExecutionStep
<1>7. CASE Wake(t) \/ WaitTimesOut(t)
  <2>1. MovesOn(t)
    <3>1. UNCHANGED <<session, state, saved, strict, returned, accepted, reconciled, driver, cancelled>>
      BY <1>7 DEF Wake, WaitTimesOut, Woken
    <3>2. /\ exec[t] = "waiting" /\ exec' = [exec EXCEPT ![t] = "resuming"]
          /\ permits' = permits /\ executions' = executions
      BY <1>7 DEF Wake, WaitTimesOut, Woken
    <3>3. /\ exec' \in [Tasks -> Places] /\ exec'[t] = "resuming"
          /\ \A u \in Tasks \ {t} : exec'[u] = exec[u]
      BY <1>1, <3>2 DEF Places, Watched
    <3>4. permits' = permits + ReleasedBy(t) - 0
      BY <1>1, <3>2 DEF ReleasedBy, HoldsPermit
    <3> QED BY <3>1, <3>2, <3>3, <3>4 DEF MovesOn, Watched
  <2>2. UNCHANGED <<stored, stale, fenced, tx>>
    BY <1>7 DEF Wake, WaitTimesOut, Woken
  <2>3. Unspoilt /\ tx' \in {tx, NoTx}
    BY <2>2, UnchangedSpoilsNothing
  <2>4. outcome' \in [Tasks -> Outcome]
    BY <1>1, <1>7 DEF Wake, WaitTimesOut, Woken
  <2> QED BY <2>1, <2>3, <2>4, ExecutionStep
<1>8. CASE ResumeSlot(t)
  <2>1. MovesOn(t)
    <3>1. UNCHANGED <<session, state, saved, strict, returned, accepted, reconciled, driver, cancelled>>
      BY <1>8 DEF ResumeSlot
    <3>2. /\ exec[t] = "resuming" /\ exec' = [exec EXCEPT ![t] = "running"]
          /\ permits' = permits - 1 /\ executions' = executions
      BY <1>8 DEF ResumeSlot
    <3>3. /\ exec' \in [Tasks -> Places] /\ exec'[t] = "running"
          /\ \A u \in Tasks \ {t} : exec'[u] = exec[u]
      BY <1>1, <3>2 DEF Places, Watched
    <3>4. permits' = permits + ReleasedBy(t) - 1
      BY <1>1, <3>2 DEF ReleasedBy, HoldsPermit
    <3> QED BY <3>1, <3>2, <3>3, <3>4 DEF MovesOn, Watched
  <2>2. UNCHANGED <<stored, stale, fenced, tx>>
    BY <1>8 DEF ResumeSlot
  <2>3. Unspoilt /\ tx' \in {tx, NoTx}
    BY <2>2, UnchangedSpoilsNothing
  <2>4. outcome' \in [Tasks -> Outcome]
    BY <1>1, <1>8 DEF ResumeSlot
  <2> QED BY <2>1, <2>3, <2>4, ExecutionStep
<1>9. CASE JoinInVain(t)
  <2>1. MovesOn(t)
    <3>1. UNCHANGED <<session, state, saved, strict, returned, accepted, reconciled, driver, cancelled>>
      BY <1>9 DEF JoinInVain
    <3>2. /\ exec[t] = "done" /\ exec' = [exec EXCEPT ![t] = "none"]
          /\ permits' = permits /\ executions' = executions
      BY <1>9 DEF JoinInVain
    <3>3. /\ exec' \in [Tasks -> Places] /\ exec'[t] = "none"
          /\ \A u \in Tasks \ {t} : exec'[u] = exec[u]
      BY <1>1, <3>2 DEF Places, Watched
    <3>4. permits' = permits + ReleasedBy(t) - 0
      BY <1>1, <3>2 DEF ReleasedBy, HoldsPermit
    <3> QED BY <3>1, <3>2, <3>3, <3>4 DEF MovesOn, Watched
  <2>2. UNCHANGED <<stored, stale, fenced, tx>>
    BY <1>9 DEF JoinInVain
  <2>3. Unspoilt /\ tx' \in {tx, NoTx}
    BY <2>2, UnchangedSpoilsNothing
  <2>4. outcome' \in [Tasks -> Outcome]
    BY <1>1, <1>9 DEF JoinInVain
  <2> QED BY <2>1, <2>3, <2>4, ExecutionStep
<1> QED BY <1>2, <1>3, <1>4, <1>5, <1>6, <1>7, <1>8, <1>9 DEF Finishes

(* The driver takes a permit or gives it back.                             *)
InHand ==
    \/ permits' = permits /\ (driver' = "holding" <=> driver = "holding")
    \/ permits' = permits - 1 /\ driver' = "holding" /\ driver # "holding"
    \/ permits' = permits + 1 /\ driver' # "holding" /\ driver = "holding"

LEMMA DriverPermits ==
    ASSUME Permitted, permits \in Int, exec' = exec, InHand
    PROVE  Permitted'
<1>1. Holders' = Holders
  BY DEF Holders, HoldsPermit
<1>2. Cardinality(Holders) \in Nat
  BY FS_CardinalityType DEF Permitted
<1>3. permits + Cardinality(Holders) + (IF driver = "holding" THEN 1 ELSE 0) = MaxConcurrency
  BY DEF Permitted, PermitsConserved, Holders
<1>4. permits' + Cardinality(Holders) + (IF driver' = "holding" THEN 1 ELSE 0) = MaxConcurrency
  <2> HIDE DEF Holders
  <2> QED BY <1>2, <1>3 DEF InHand
<1> QED BY <1>1, <1>4 DEF Permitted, PermitsConserved, Holders

(* Tokens, flags and the permit in the driver's hand.                      *)
LEMMA TokensKeep ==
    ASSUME SchedulerInv, UNCHANGED session,
           \/ \E by \in Handles, t \in Tasks : CancelIntent(by, t)
           \/ \E t \in Tasks : AbandonWait(t)
           \/ TakePermit \/ DropPermit \/ DriveEnds \/ StopPoisoned \/ Close
    PROVE  SchedulerInv'
<1> USE DEF ownerVars, hostVars, slotVars, ghosts
<1>1. /\ exec \in [Tasks -> Places] /\ outcome \in [Tasks -> Outcome] /\ executions \in [Tasks -> Nat]
      /\ permits \in Int /\ cancelled \subseteq Tasks /\ IsFiniteSet(Holders)
  BY DEF SchedulerInv, TypeOK, Permitted
<1>2. /\ UNCHANGED <<state, stored, saved, stale, fenced, tx, strict, returned, accepted, reconciled>>
      /\ UNCHANGED <<exec, outcome, executions>>
  BY DEF CancelIntent, AbandonWait, TakePermit, DropPermit, DriveEnds, StopPoisoned, Close
<1>3. cancelled' \subseteq Tasks /\ \A u \in cancelled' : u \in cancelled \/ Status(state, u) # "absent"
  <2>1. ASSUME NEW t \in Tasks, exec[t] # "none" PROVE Status(state, t) # "absent"
    BY <2>1 DEF SchedulerInv, Executing, Terminal
  <2>2. CASE \E by \in Handles, t \in Tasks : CancelIntent(by, t)
    BY <1>1, <2>2 DEF CancelIntent, Present, Status
  <2>3. CASE \E t \in Tasks : AbandonWait(t)
    BY <1>1, <2>1, <2>3 DEF AbandonWait
  <2>4. CASE TakePermit \/ DropPermit \/ StopPoisoned
    BY <1>1, <2>4 DEF TakePermit, DropPermit, StopPoisoned
  <2>5. CASE DriveEnds \/ Close
    BY <1>1, <2>1, <2>5 DEF DriveEnds, Close, Closing
  <2> QED BY <2>2, <2>3, <2>4, <2>5
<1>4. /\ permits' \in Int /\ (tx' # NoTx => driver' = driver \/ driver = "idle")
      /\ InHand
  BY <1>1, <1>2 DEF InHand, CancelIntent, AbandonWait, TakePermit, DropPermit, DriveEnds, StopPoisoned, Close, Drained
<1>5. Permitted'
  BY <1>1, <1>2, <1>4, DriverPermits DEF SchedulerInv
<1>6. \A u \in Tasks : Onward(u)
  BY <1>2 DEF Onward
<1>7. Unspoilt
  BY <1>2, UnchangedSpoilsNothing
<1> QED BY <1>1, <1>2, <1>3, <1>4, <1>5, <1>6, <1>7, QuietStep

--------------------------------------------------------------------------------
(* The store's answer.                                                     *)
LEMMA DriverGoes ==
    ASSUME SchedulerInv, tx # NoTx, NEW sel, sel = {} \/ sel = TaskIf("schedule_one"), DriverGoesOn(sel)
    PROVE  /\ permits' \in Int /\ exec' \in [Tasks -> Places] /\ outcome' = outcome /\ Permitted'
           /\ sel \subseteq Tasks
           /\ \A u \in Tasks :
                 \/ u \in sel /\ tx.op = "schedule_one" /\ tx.task = u /\ exec[u] = "none" /\ exec'[u] = "spawned"
                 \/ u \notin sel /\ tx.op = "join" /\ tx.task = u /\ exec[u] \in {"done", "none"}
                    /\ exec'[u] = "none"
                 \/ u \notin sel /\ ~(tx.op = "join" /\ tx.task = u) /\ exec'[u] = exec[u]
<1>1. /\ exec \in [Tasks -> Places] /\ permits \in Int /\ tx.task \in Tasks \cup {NoTask}
      /\ IsFiniteSet(Holders) /\ NoTask \notin Tasks
  BY ConstantsAssumption DEF SchedulerInv, TypeOK, Permitted
<1>2. /\ exec' = [t \in Tasks |-> IF t \in sel THEN "spawned"
                                  ELSE IF t \in TaskIf("join") THEN "none" ELSE exec[t]]
      /\ permits' = permits + (IF tx.op = "schedule_one" /\ sel = {} THEN 1 ELSE 0)
      /\ outcome' = outcome
  BY DEF DriverGoesOn
<1>3. exec' \in [Tasks -> Places]
  BY <1>1, <1>2 DEF Places, Watched
<1>4. permits' \in Int
  BY <1>1, <1>2
<1>5. sel \subseteq Tasks /\ (sel # {} => tx.op = "schedule_one" /\ sel = {tx.task} /\ tx.task \in Tasks)
  BY <1>1 DEF TaskIf
<1>6. /\ tx.op = "schedule_one" => driver = "holding" /\ driver' = "idle"
      /\ tx.op = "shutdown" => driver = "draining" /\ driver' = "stopped"
      /\ tx.op \notin {"schedule_one", "shutdown"} => driver' = driver
      /\ tx.op = "join" => tx.task \in Tasks /\ exec[tx.task] \in {"done", "none"}
  BY DEF SchedulerInv, Derived, DriverGoesOn
<1>7. ASSUME sel # {} PROVE exec[tx.task] = "none"
  <2>1. tx.task \in Tasks /\ Moves(tx, tx.task, state.records[tx.task], tx.next.records[tx.task], reconciled)
    BY <1>5, <1>7 DEF SchedulerInv, Derived
  <2>2. Status(state, tx.task) \in Waiting
    BY <1>5, <1>7, <2>1 DEF Moves, Status
  <2>3. exec[tx.task] # "none" => Status(state, tx.task) \in {"running"} \cup Terminal
    BY <2>1 DEF SchedulerInv, Executing
  <2> QED BY <2>2, <2>3 DEF Waiting, Terminal
<1>8. ASSUME NEW u \in Tasks
      PROVE  \/ u \in sel /\ tx.op = "schedule_one" /\ tx.task = u /\ exec[u] = "none" /\ exec'[u] = "spawned"
             \/ u \notin sel /\ tx.op = "join" /\ tx.task = u /\ exec[u] \in {"done", "none"}
                /\ exec'[u] = "none"
             \/ u \notin sel /\ ~(tx.op = "join" /\ tx.task = u) /\ exec'[u] = exec[u]
  <2>1. exec'[u] = IF u \in sel THEN "spawned" ELSE IF u \in TaskIf("join") THEN "none" ELSE exec[u]
    BY <1>2
  <2>2. CASE u \in sel
    BY <1>5, <1>7, <2>1, <2>2
  <2>3. CASE u \notin sel /\ u \in TaskIf("join")
    BY <1>6, <2>1, <2>3 DEF TaskIf
  <2>4. CASE u \notin sel /\ u \notin TaskIf("join")
    BY <1>1, <2>1, <2>4 DEF TaskIf
  <2> QED BY <2>2, <2>3, <2>4
<1>9. Permitted'
  <2>1. Cardinality(Holders) \in Nat
    BY <1>1, FS_CardinalityType
  <2>2. permits + Cardinality(Holders) + (IF driver = "holding" THEN 1 ELSE 0) = MaxConcurrency
    BY DEF SchedulerInv, Permitted, PermitsConserved, Holders
  <2>3. CASE sel # {}
    <3>1. \A u \in Tasks \ {tx.task} : exec'[u] = exec[u]
      BY <1>5, <1>8, <2>3
    <3>2. exec'[tx.task] = "spawned" /\ exec[tx.task] = "none" /\ ReleasedBy(tx.task) = 0
      BY <1>5, <1>8, <2>3 DEF ReleasedBy, HoldsPermit
    <3>3. IsFiniteSet(Holders') /\ Cardinality(Holders') \in Nat
          /\ Cardinality(Holders') + ReleasedBy(tx.task)
               = Cardinality(Holders) + (IF exec'[tx.task] \in {"spawned", "running"} THEN 1 ELSE 0)
      BY <1>1, <1>5, <2>3, <3>1, HoldersMove
    <3>4. permits' = permits /\ driver = "holding" /\ driver' = "idle"
      BY <1>1, <1>2, <1>5, <1>6, <2>3
    <3>5. permits' + Cardinality(Holders') + (IF driver' = "holding" THEN 1 ELSE 0) = MaxConcurrency
      <4> HIDE DEF Holders
      <4> QED BY <1>1, <2>1, <2>2, <3>2, <3>3, <3>4
    <3> QED BY <3>3, <3>5 DEF Permitted, PermitsConserved, Holders
  <2>4. CASE sel = {}
    <3>1. Holders' = Holders
      <4>1. \A u \in Tasks : HoldsPermit(u)' <=> HoldsPermit(u)
        BY <1>8, <2>4 DEF HoldsPermit
      <4> QED BY <4>1 DEF Holders
    <3>2. InHand
      BY <1>1, <1>2, <1>6, <2>4 DEF InHand
    <3>3. permits' + Cardinality(Holders) + (IF driver' = "holding" THEN 1 ELSE 0) = MaxConcurrency
      <4> HIDE DEF Holders
      <4> QED BY <1>1, <2>1, <2>2, <3>2 DEF InHand
    <3> QED BY <1>1, <3>1, <3>3 DEF Permitted, PermitsConserved, Holders
  <2> QED BY <2>3, <2>4
<1> QED BY <1>2, <1>3, <1>4, <1>5, <1>8, <1>9

LEMMA FailureKeeps ==
    ASSUME SchedulerInv, UNCHANGED session, PersistFails
    PROVE  SchedulerInv'
<1>1. tx # NoTx /\ Ambiguous /\ tx' = NoTx /\ DriverGoesOn({})
      /\ UNCHANGED <<state, cancelled, saved, strict, executions, returned, accepted, reconciled>>
  BY DEF PersistFails, NotCommitted, ghosts
<1>2. Unspoilt
  BY <1>1, AmbiguousSpoilsNothing
<1>3. /\ permits' \in Int /\ exec' \in [Tasks -> Places] /\ outcome' = outcome /\ Permitted'
      /\ \A u \in Tasks :
            \/ exec[u] \in {"done", "none"} /\ exec'[u] = "none"
            \/ exec'[u] = exec[u]
  <2> HIDE DEF Permitted
  <2> QED BY <1>1, DriverGoes
<1>4. \A u \in Tasks : Onward(u)
  BY <1>3 DEF Onward, Watched
<1>5. outcome \in [Tasks -> Outcome] /\ executions \in [Tasks -> Nat] /\ cancelled \subseteq Tasks
  BY DEF SchedulerInv, TypeOK
<1> QED BY <1>1, <1>2, <1>3, <1>4, <1>5, QuietStep

LEMMA CommitKeeps ==
    ASSUME SchedulerInv, UNCHANGED session, Commit
    PROVE  SchedulerInv'
<1> DEFINE sel == TaskIf("schedule_one")
           l == tx.next
           ids == IF tx.op = "collect_ids" THEN tx.ids ELSE {}
<1>1. /\ tx # NoTx /\ ~fenced /\ state' = l /\ stored' = l /\ stale' = TRUE /\ tx' = NoTx
      /\ DriverGoesOn(sel) /\ UNCHANGED <<saved, fenced, cancelled, strict, reconciled>>
      /\ executions' = [t \in Tasks |-> IF t \in TaskIf("resume_checkpoint") THEN 0 ELSE executions[t]]
      /\ returned' = Bumped(returned, ids)
      /\ accepted' = [t \in Tasks |-> IF t \in TaskIf("steer") THEN accepted[t] \cup tx.ids ELSE accepted[t]]
  BY DEF Commit, Committed, ownerVars
<1>2. /\ permits' \in Int /\ exec' \in [Tasks -> Places] /\ outcome' = outcome /\ Permitted'
      /\ \A u \in Tasks :
            \/ u \in sel /\ tx.op = "schedule_one" /\ tx.task = u /\ exec[u] = "none" /\ exec'[u] = "spawned"
            \/ u \notin sel /\ tx.op = "join" /\ tx.task = u /\ exec[u] \in {"done", "none"}
               /\ exec'[u] = "none"
            \/ u \notin sel /\ ~(tx.op = "join" /\ tx.task = u) /\ exec'[u] = exec[u]
  <2> HIDE DEF Permitted
  <2> QED BY <1>1, DriverGoes
<1>3. /\ l \in Ledger /\ Formed(l) /\ Ordered(l)
      /\ \A t \in Tasks :
            /\ Kept(stored.records[t], l.records[t])
            /\ (l.records[t].status = "completed" /\ t \notin reconciled => Unhandled(l.records[t]) = {})
            /\ (Ready(stored, t) => Ready(l, t))
            /\ Moves(tx, t, state.records[t], l.records[t], reconciled)
  <2>1. l \in {stored} \cup (IF tx = NoTx \/ fenced THEN {} ELSE {tx.next})
    BY <1>1
  <2>2. Ordered(l) /\ \A t \in Tasks : Moves(tx, t, state.records[t], l.records[t], reconciled)
    BY <1>1 DEF SchedulerInv, Derived
  <2> HIDE DEF l
  <2> QED BY <2>1, <2>2, Persisted
<1>4. /\ executions \in [Tasks -> Nat] /\ returned \in [Tasks -> Nat] /\ outcome \in [Tasks -> Outcome]
      /\ NoTask \notin Tasks /\ stored \in Ledger
  BY ConstantsAssumption DEF SchedulerInv, TypeOK
<1>5. /\ executions' \in [Tasks -> Nat]
      /\ \A t \in Tasks : /\ executions'[t] \in {0, executions[t]}
                          /\ (tx.op = "resume_checkpoint" /\ tx.task = t => executions'[t] = 0)
  BY <1>1, <1>4 DEF TaskIf
<1>6. /\ returned' \in [Tasks -> Nat]
      /\ \A t \in Tasks : returned'[t] = returned[t] + (IF t \in ids THEN 1 ELSE 0)
  <2> HIDE DEF ids
  <2> QED BY <1>1, <1>4 DEF Bumped
<1>7. \A t \in Tasks : \/ accepted'[t] = accepted[t]
                       \/ accepted'[t] = accepted[t] \cup tx.ids /\ tx.op = "steer" /\ tx.task = t
  BY <1>1 DEF TaskIf
<1>8. ASSUME NEW t \in Tasks
      PROVE  /\ state.records[t].dispatched <=> stored.records[t].dispatched
             /\ state.records[t].delivered <=> stored.records[t].delivered
  <2>1. stored.records[t] \in Record /\ state.records[t] \in {stored.records[t], Restored(stored.records[t])}
    BY <1>1, <1>4 DEF SchedulerInv, Tracked, Agrees, Ledger
  <2> QED BY <2>1, AgreesOn
<1> HIDE DEF l, ids, sel
<1>9. TypeOK'
  BY <1>1, <1>2, <1>3, <1>4, <1>5, <1>6 DEF SchedulerInv, TypeOK
<1>10. Tracked'
  BY <1>1, <1>3 DEF SchedulerInv, Tracked, Formed, Ordered, Agrees
<1>11. Derived'
  BY <1>1 DEF Derived
<1>12. ASSUME NEW t \in Tasks
       PROVE  /\ exec'[t] # "none" => l.records[t].status \in {"running"} \cup Terminal
                                      /\ l.records[t].dispatched
              /\ exec'[t] = "spawned" => executions'[t] = 0
              /\ l.records[t].status \in Waiting => executions'[t] = 0
              /\ ~l.records[t].dispatched => executions'[t] = 0
              /\ executions'[t] <= 1
              /\ exec'[t] \in Watched => Ready(l, t)
              /\ t \in cancelled => l.records[t].status # "absent"
  <2> DEFINE r == state.records[t]
             q == l.records[t]
  <2>1. /\ exec[t] # "none" => r.status \in {"running"} \cup Terminal /\ stored.records[t].dispatched
        /\ exec[t] = "spawned" => executions[t] = 0
        /\ r.status \in Waiting => executions[t] = 0
        /\ ~stored.records[t].dispatched => executions[t] = 0
        /\ executions[t] <= 1
        /\ exec[t] \in Watched => Ready(stored, t)
        /\ t \in cancelled => r.status # "absent"
    BY DEF SchedulerInv, Executing, Status
  <2>2. Moves(tx, t, r, q, reconciled) /\ Kept(stored.records[t], q) /\ (Ready(stored, t) => Ready(l, t))
    BY <1>3
  <2>3. executions'[t] \in {0, executions[t]} /\ (tx.op = "resume_checkpoint" /\ tx.task = t => executions'[t] = 0)
        /\ executions[t] \in Nat
    BY <1>4, <1>5
  <2>4. Kept(r, q)
    BY <2>2 DEF Moves
  <2>5. q.status \in Waiting => executions'[t] = 0
    <3> SUFFICES ASSUME q.status \in Waiting PROVE executions'[t] = 0
      OBVIOUS
    <3>1. r.status \in Waiting \/ ~r.dispatched \/ (tx.op = "resume_checkpoint" /\ tx.task = t)
      BY <2>2 DEF Moves
    <3> QED BY <1>8, <2>1, <2>3, <3>1
  <2>6. ~q.dispatched => executions'[t] = 0
    BY <2>1, <2>2, <2>3 DEF Kept
  <2>7. t \in cancelled => q.status # "absent"
    BY <2>1, <2>4 DEF Kept
  <2>8. executions'[t] <= 1
    BY <2>1, <2>3
  <2>9. CASE t \in sel /\ tx.op = "schedule_one" /\ tx.task = t /\ exec'[t] = "spawned"
    <3>1. r.status \in Waiting /\ q.status = "running" /\ q.dispatched /\ Ready(l, t)
      BY <2>2, <2>9 DEF Moves, l
    <3> QED BY <2>1, <2>3, <2>5, <2>6, <2>7, <2>8, <2>9, <3>1
  <2>10. CASE exec'[t] = "none"
    BY <2>5, <2>6, <2>7, <2>8, <2>10 DEF Watched
  <2>11. CASE ~(tx.op = "join" /\ tx.task = t) /\ exec'[t] = exec[t]
    <3>1. exec[t] # "none" => q.status \in {"running"} \cup Terminal
      BY <2>1, <2>2, <2>4, <2>11 DEF Moves, Kept
    <3>2. exec[t] # "none" => q.dispatched
      BY <2>1, <2>2 DEF Kept
    <3> QED BY <2>1, <2>2, <2>3, <2>5, <2>6, <2>7, <2>8, <2>11, <3>1, <3>2
  <2> QED BY <1>2, <2>9, <2>10, <2>11
<1>13. Executing'
  <2>1. \A t \in Tasks : Ready(l, t) => Ready(stored, t)'
    BY <1>1 DEF Ready, IsTerminal, Status, DependsOn
  <2> QED BY <1>1, <1>12, <2>1 DEF Executing, Status
<1>14. ASSUME NEW t \in Tasks
       PROVE  /\ returned'[t] <= 1 /\ (returned'[t] > 0 => l.records[t].delivered)
              /\ accepted'[t] \subseteq Steering(l.records[t])
              /\ l.records[t].status = "completed" /\ t \notin reconciled => Unhandled(l.records[t]) = {}
  <2> DEFINE r == stored.records[t]
             q == l.records[t]
  <2>1. /\ returned[t] <= 1 /\ (returned[t] > 0 => r.delivered) /\ accepted[t] \subseteq Steering(r)
        /\ returned[t] \in Nat
    BY <1>4 DEF SchedulerInv, Accounted
  <2>2. Kept(r, q) /\ Moves(tx, t, state.records[t], q, reconciled)
    BY <1>3
  <2>3. returned'[t] <= 1 /\ (returned'[t] > 0 => q.delivered)
    <3>1. CASE t \in ids
      <4>1. ~state.records[t].delivered /\ q.delivered
        BY <2>2, <3>1 DEF Moves, ids
      <4>2. returned[t] = 0
        BY <1>8, <2>1, <4>1
      <4> QED BY <1>6, <3>1, <4>1, <4>2
    <3>2. CASE t \notin ids
      <4>1. returned'[t] = returned[t]
        BY <1>6, <2>1, <3>2
      <4> QED BY <2>1, <2>2, <4>1 DEF Kept
    <3> QED BY <3>1, <3>2
  <2>4. accepted'[t] \subseteq Steering(q)
    <3>1. accepted[t] \subseteq Steering(q)
      BY <2>1, <2>2 DEF Kept
    <3>2. tx.op = "steer" /\ tx.task = t => tx.ids \subseteq Steering(q)
      BY <2>2 DEF Moves
    <3> QED BY <1>7, <3>1, <3>2
  <2> QED BY <1>3, <2>3, <2>4
<1>15. Accounted'
  BY <1>1, <1>14 DEF Accounted
<1> QED BY <1>2, <1>9, <1>10, <1>11, <1>13, <1>15 DEF SchedulerInv

--------------------------------------------------------------------------------
(* The session's host.                                                     *)
LEMMA CheckpointKeeps ==
    ASSUME SchedulerInv, UNCHANGED session, ParentCheckpoint
    PROVE  SchedulerInv'
<1> USE DEF ownerVars, slotVars, ghosts
<1>1. /\ UNCHANGED <<state, stored, fenced, tx, cancelled, driver, permits, exec, outcome, strict>>
      /\ UNCHANGED <<executions, returned, accepted, reconciled>> /\ saved' = state /\ stale' = fenced
  BY DEF ParentCheckpoint
<1>2. TypeOK'
  BY <1>1 DEF SchedulerInv, TypeOK
<1>3. Tracked'
  BY <1>1 DEF SchedulerInv, Tracked, Formed, Ordered, Agrees
<1>4. Derived'
  BY <1>1 DEF SchedulerInv, Derived, Moves, Ready, IsTerminal, Status, DependsOn, Ordered
<1>5. Executing'
  BY <1>1 DEF SchedulerInv, Executing, Ready, IsTerminal, Status, DependsOn
<1>6. Accounted' /\ Permitted'
  BY <1>1 DEF SchedulerInv, Accounted, Permitted, PermitsConserved, Holders, HoldsPermit
<1> QED BY <1>2, <1>3, <1>4, <1>5, <1>6 DEF SchedulerInv

(* Nothing executes and every permit is free.                              *)
LEMMA FreshPermits ==
    ASSUME permits' = MaxConcurrency, driver' = "idle", \A t \in Tasks : exec'[t] = "none"
    PROVE  Permitted'
<1>1. Holders' = {}
  BY DEF Holders, HoldsPermit
<1>2. IsFiniteSet({}) /\ Cardinality({}) = 0
  BY FS_EmptySet
<1>3. MaxConcurrency \in Int
  BY ConstantsAssumption
<1>4. permits' + Cardinality(Holders') + (IF driver' = "holding" THEN 1 ELSE 0) = MaxConcurrency
  BY <1>1, <1>2, <1>3
<1> QED BY <1>1, <1>2, <1>4 DEF Permitted, PermitsConserved, Holders

LEMMA EmptyTyped == Empty \in Ledger /\ Formed(Empty) /\ Ordered(Empty) /\ NoOutcome \in Outcome
<1>1. NoRecord \in Record /\ NoRecord.status = "absent"
  BY DEF NoRecord, Record
<1>2. [t \in Tasks |-> NoRecord] \in [Tasks -> Record]
  BY <1>1
<1>3. Empty \in Ledger /\ \A t \in Tasks : Empty.records[t] = NoRecord
  BY <1>2 DEF Empty, Ledger
<1>4. NoOutcome \in Outcome
  BY DEF NoOutcome, Outcome, Terminal
<1> QED BY <1>1, <1>3, <1>4 DEF Formed, Ordered

LEMMA NewOwnerKeeps ==
    ASSUME SchedulerInv, UNCHANGED session, NEW s \in 0..session.strict, NewOwner(s)
    PROVE  SchedulerInv'
<1>1. /\ strict' = s /\ stored' \in {stored} \cup (IF tx = NoTx \/ fenced THEN {} ELSE {tx.next})
      /\ stale' = (stale \/ stored' # stored) /\ state' = Empty /\ fenced' = (stored' # Empty)
      /\ tx' = NoTx /\ cancelled' = {} /\ driver' = "idle" /\ permits' = MaxConcurrency
      /\ exec' = [t \in Tasks |-> "none"] /\ outcome' = [t \in Tasks |-> NoOutcome]
      /\ UNCHANGED <<saved, executions, returned, accepted, reconciled>>
  BY DEF NewOwner, ghosts
<1>2. /\ stored' \in Ledger /\ Formed(stored')
      /\ \A t \in Tasks :
            /\ Kept(stored.records[t], stored'.records[t])
            /\ (stored'.records[t].status = "completed" /\ t \notin reconciled
                  => Unhandled(stored'.records[t]) = {})
  BY <1>1, Persisted
<1>3. TypeOK'
  BY <1>1, <1>2, EmptyTyped, ConstantsAssumption DEF SchedulerInv, TypeOK, Places
<1>4. Tracked'
  <2>1. ~fenced' => Agrees(state', stored')
    BY <1>1 DEF Agrees
  <2>2. ~stale' => Agrees(saved', stored')
    BY <1>1 DEF SchedulerInv, Tracked
  <2> QED BY <1>1, <1>2, <2>1, <2>2, EmptyTyped DEF SchedulerInv, Tracked, Formed, Ordered, Agrees
<1>5. Derived'
  BY <1>1 DEF Derived
<1>6. Executing'
  <2> SUFFICES ASSUME NEW t \in Tasks
               PROVE  /\ exec'[t] = "none" /\ t \notin cancelled' /\ Status(state, t)' \notin Waiting
                      /\ (~stored'.records[t].dispatched => executions'[t] = 0) /\ executions'[t] <= 1
    BY DEF Executing, Watched
  <2>1. Status(state, t)' = "absent"
    BY <1>1 DEF Status, Empty, NoRecord
  <2>2. ~stored'.records[t].dispatched => executions[t] = 0
    BY <1>2 DEF SchedulerInv, Executing, Kept
  <2> QED BY <1>1, <2>1, <2>2 DEF SchedulerInv, Executing, Waiting
<1>7. Accounted'
  BY <1>1, <1>2 DEF SchedulerInv, Accounted, Kept
<1>8. Permitted'
  BY <1>1, FreshPermits
<1> QED BY <1>3, <1>4, <1>5, <1>6, <1>7, <1>8 DEF SchedulerInv

LEMMA RestoreKeeps ==
    ASSUME SchedulerInv, UNCHANGED session, NEW l \in Ledger, NEW old \in BOOLEAN, Formed(l),
           ~old => Agrees(l, stored), Restore(l, old)
    PROVE  SchedulerInv'
<1> USE DEF ownerVars, slotVars, hostVars, ghosts
<1> DEFINE g == [t \in Tasks |-> Restored(l.records[t])]
<1>1. /\ UNCHANGED <<stored, saved, stale, tx, cancelled, driver, permits, exec, outcome, strict>>
      /\ UNCHANGED <<executions, returned, accepted, reconciled>>
      /\ tx = NoTx /\ state.order = <<>> /\ l.order # <<>> /\ fenced' = old
      /\ state' = [l EXCEPT !.records = g]
  BY DEF Restore
<1>2. ASSUME NEW t \in Tasks
      PROVE  /\ g[t] = Restored(l.records[t]) /\ g[t] \in Record /\ l.records[t] \in Record
             /\ g[t].status \notin Waiting
             /\ (g[t].status = "absent" => g[t] = NoRecord)
             /\ (~old => g[t] \in {stored.records[t], Restored(stored.records[t])})
  <2>1. l.records[t] \in Record /\ g[t] = Restored(l.records[t]) /\ stored.records[t] \in Record
    BY DEF SchedulerInv, TypeOK, Ledger
  <2> HIDE DEF g
  <2>2. g[t] \in Record /\ g[t].status \notin Waiting /\ (l.records[t].status = "absent" => g[t] = l.records[t])
    BY <2>1, RestoredTyped
  <2>3. g[t].status = "absent" => l.records[t].status = "absent"
    BY <2>1, AgreesOn
  <2>4. ASSUME ~old PROVE g[t] \in {stored.records[t], Restored(stored.records[t])}
    <3>1. l.records[t] \in {stored.records[t], Restored(stored.records[t])}
      BY <2>4 DEF Agrees
    <3>2. Restored(l.records[t]) = Restored(stored.records[t])
      BY <2>1, <3>1, AgreesOn
    <3> QED BY <2>1, <3>2
  <2> QED BY <2>1, <2>2, <2>3, <2>4 DEF Formed
<1>3. g \in [Tasks -> Record]
  BY <1>2
<1> HIDE DEF g
<1>4. state' \in Ledger /\ state'.records = g /\ state'.order # <<>>
  BY <1>1, <1>3 DEF Ledger
<1>5. ASSUME NEW t \in Tasks PROVE state.records[t].status = "absent" /\ exec[t] = "none" /\ t \notin cancelled
  <2>1. state.records[t].status = "absent"
    BY <1>1 DEF SchedulerInv, Tracked, Ordered
  <2> QED BY <2>1 DEF SchedulerInv, Executing, Status, Terminal
<1>6. TypeOK'
  BY <1>1, <1>4 DEF SchedulerInv, TypeOK
<1>7. Tracked'
  <2>1. Formed(state') /\ Ordered(state')
    BY <1>2, <1>4 DEF Formed, Ordered
  <2>2. ~fenced' => Agrees(state', stored')
    BY <1>1, <1>2, <1>4 DEF Agrees
  <2> QED BY <1>1, <2>1, <2>2 DEF SchedulerInv, Tracked, Formed, Ordered, Agrees
<1>8. Derived'
  BY <1>1 DEF Derived
<1>9. Executing'
  <2> SUFFICES ASSUME NEW t \in Tasks
               PROVE  /\ exec'[t] = "none" /\ t \notin cancelled' /\ Status(state, t)' \notin Waiting
                      /\ (~stored'.records[t].dispatched => executions'[t] = 0) /\ executions'[t] <= 1
    BY DEF Executing, Watched
  <2>1. Status(state, t)' \notin Waiting
    BY <1>2, <1>4 DEF Status
  <2> QED BY <1>1, <1>5, <2>1 DEF SchedulerInv, Executing
<1>10. Accounted' /\ Permitted'
  BY <1>1 DEF SchedulerInv, Accounted, Permitted, PermitsConserved, Holders, HoldsPermit
<1> QED BY <1>6, <1>7, <1>8, <1>9, <1>10 DEF SchedulerInv

--------------------------------------------------------------------------------
LEMMA SchedulerStarts ==
    ASSUME Init
    PROVE  SchedulerInv
<1>1. TypeOK
  <2>1. session \in Session
    BY ConstantsAssumption DEF Init
  <2>2. MaxConcurrency \in Int
    BY ConstantsAssumption
  <2>3. exec \in [Tasks -> Places] /\ outcome \in [Tasks -> Outcome]
        /\ executions \in [Tasks -> Nat] /\ returned \in [Tasks -> Nat]
    BY EmptyTyped DEF Init, Places
  <2> QED BY <2>1, <2>2, <2>3, EmptyTyped DEF Init, TypeOK
<1>2. \A t \in Tasks : Empty.records[t] = NoRecord
  BY DEF Empty
<1>3. Tracked
  BY EmptyTyped DEF Init, Tracked, Agrees
<1>4. Derived
  BY DEF Init, Derived
<1>5. Executing
  BY <1>2 DEF Init, Executing, Status, NoRecord, Waiting, Watched
<1>6. Accounted
  BY <1>2 DEF Init, Accounted, NoRecord, Steering, Unhandled
<1>7. Permitted
  <2>1. Holders = {} /\ IsFiniteSet({}) /\ Cardinality({}) = 0
    BY FS_EmptySet DEF Init, Holders, HoldsPermit
  <2>2. permits = MaxConcurrency /\ MaxConcurrency \in Int /\ driver = "idle"
    BY ConstantsAssumption DEF Init
  <2>3. permits + Cardinality(Holders) + (IF driver = "holding" THEN 1 ELSE 0) = MaxConcurrency
    BY <2>1, <2>2
  <2> QED BY <2>1, <2>3 DEF Permitted, PermitsConserved, Holders
<1> QED BY <1>1, <1>3, <1>4, <1>5, <1>6, <1>7 DEF SchedulerInv

LEMMA SchedulerSteps ==
    ASSUME SchedulerInv, [Next]_vars
    PROVE  SchedulerInv'
<1>1. CASE Next
  <2>1. UNCHANGED session /\ Step
    BY <1>1 DEF Next
  <2>2. CASE Commit \/ PersistFails
    BY <2>1, <2>2, CommitKeeps, FailureKeeps
  <2>3. CASE HostCalls
    <3>1. CASE \E by \in Handles, t \in Tasks : CancelIntent(by, t)
      BY <2>1, <3>1, TokensKeep
    <3>2. CASE ~\E by \in Handles, t \in Tasks : CancelIntent(by, t)
      BY <2>1, <2>3, <3>2, HostCallsKeep
    <3> QED BY <3>1, <3>2
  <2>4. ASSUME NEW t \in Tasks, ChildCalls(t) PROVE SchedulerInv'
    <3>1. CASE AbandonWait(t)
      BY <2>1, <3>1, TokensKeep
    <3>2. CASE (\E ids \in SUBSET Tasks \ {{}}, mode \in session.wait_modes : Wait(t, ids, mode))
               \/ WaitTimesOut(t)
      BY <2>1, <3>2, ExecutionsKeep
    <3>3. CASE ~AbandonWait(t) /\ ~WaitTimesOut(t)
               /\ ~\E ids \in SUBSET Tasks \ {{}}, mode \in session.wait_modes : Wait(t, ids, mode)
      BY <2>1, <2>4, <3>3, ChildCallsKeep DEF ChildCalls
    <3> QED BY <3>1, <3>2, <3>3
  <2>5. ASSUME NEW t \in Tasks,
               Finishes(t) \/ Start(t) \/ CancelExecution(t) \/ Wake(t) \/ ResumeSlot(t) \/ AbortChild(t)
               \/ JoinInVain(t)
        PROVE  SchedulerInv'
    BY <2>1, <2>5, ExecutionsKeep
  <2>6. CASE Drive
    <3>1. CASE TakePermit \/ DropPermit
      BY <2>1, <3>1, TokensKeep
    <3>2. CASE ScheduleOne \/ \E t \in Tasks : Join(t)
      BY <2>1, <3>2, DriverCallsKeep
    <3>3. CASE \E t \in Tasks : JoinInVain(t)
      BY <2>5, <3>3
    <3> QED BY <2>6, <3>1, <3>2, <3>3 DEF Drive
  <2>7. CASE Shutdown
    <3>1. CASE DriveEnds \/ StopPoisoned
      BY <2>1, <3>1, TokensKeep
    <3>2. CASE PersistShutdown
      BY <2>1, <3>2, DriverCallsKeep
    <3>3. CASE \E t \in Tasks : AbortChild(t)
      BY <2>5, <3>3
    <3> QED BY <2>7, <3>1, <3>2, <3>3 DEF Shutdown
  <2>8. CASE Host
    <3>1. CASE Close
      BY <2>1, <3>1, TokensKeep
    <3>2. CASE ParentCheckpoint
      BY <2>1, <3>2, CheckpointKeeps
    <3>3. CASE \E s \in 0..session.strict : NewOwner(s)
      BY <2>1, <3>3, NewOwnerKeeps
    <3>4. CASE Restore(stored, FALSE)
      <4>1. stored \in Ledger /\ Formed(stored) /\ Agrees(stored, stored)
        BY DEF SchedulerInv, TypeOK, Tracked, Agrees
      <4> QED BY <2>1, <3>4, <4>1, RestoreKeeps
    <3>5. CASE Restore(saved, stale)
      <4>1. saved \in Ledger /\ stale \in BOOLEAN /\ Formed(saved) /\ (~stale => Agrees(saved, stored))
        BY DEF SchedulerInv, TypeOK, Tracked
      <4> QED BY <2>1, <3>5, <4>1, RestoreKeeps
    <3> QED BY <2>8, <3>1, <3>2, <3>3, <3>4, <3>5 DEF Host
  <2> QED BY <2>1, <2>2, <2>3, <2>4, <2>5, <2>6, <2>7, <2>8 DEF Step
<1>2. CASE UNCHANGED vars
  <2> USE <1>2 DEF vars, parts
  <2>1. TypeOK' /\ Tracked'
    BY DEF SchedulerInv, TypeOK, Tracked, Formed, Ordered, Agrees
  <2>2. Derived'
    BY DEF SchedulerInv, Derived, Moves, Ready, IsTerminal, Status, DependsOn, Ordered
  <2>3. Executing'
    BY DEF SchedulerInv, Executing, Ready, IsTerminal, Status, DependsOn
  <2>4. Accounted' /\ Permitted'
    BY DEF SchedulerInv, Accounted, Permitted, PermitsConserved, Holders, HoldsPermit
  <2> QED BY <2>1, <2>2, <2>3, <2>4 DEF SchedulerInv
<1> QED BY <1>1, <1>2

(* The inductive invariant of the child scheduler, for any tasks, budgets, *)
(* sessions and numbers of owners: whatever the executors, the store, the  *)
(* host and a crash do between taking the scheduler's lock and the store's *)
(* answer, the ledgers in memory, in the store and in the parent's copy    *)
(* agree as far as their owner is not fenced, what executes is dispatched  *)
(* in the store, and what callers were told is written there.              *)
THEOREM SchedulerInductive == Spec => []SchedulerInv
<1>1. Init => SchedulerInv
  BY SchedulerStarts
<1>2. SchedulerInv /\ [Next]_vars => SchedulerInv'
  BY SchedulerSteps
<1> QED BY <1>1, <1>2, PTL DEF Spec

(* No crash, ambiguous write, stale copy or restart replays a child: the   *)
(* executor is entered at most once since a task was submitted or last     *)
(* resumed from its continuation (schedule_one, execute_once, restore,     *)
(* resume_queued, resume_checkpoint).                                      *)
THEOREM SchedulerNoReplay == Spec => []NoReplay
<1>1. SchedulerInv => NoReplay
  BY DEF SchedulerInv, Executing, NoReplay
<1> QED BY <1>1, SchedulerInductive, PTL

(* collect hands out a result at most once, over all owners of a session.  *)
THEOREM SchedulerDeliveredOnce == Spec => []DeliveredOnce
<1>1. SchedulerInv => DeliveredOnce
  BY DEF SchedulerInv, Accounted, DeliveredOnce
<1> QED BY <1>1, SchedulerInductive, PTL

(* A steering message whose sender was told Ok stays in the stored ledger, *)
(* and a task that completed by itself has acknowledged all of them        *)
(* (steer, take_messages, acknowledge_messages, apply_outcome).            *)
THEOREM SchedulerSteeringKept == Spec => []SteeringKept
<1>1. SchedulerInv => SteeringKept
  BY DEF SchedulerInv, Accounted, SteeringKept, Steering, Unhandled
<1> QED BY <1>1, SchedulerInductive, PTL

(* A task inside the executor has its dependencies behind it, and permits  *)
(* are conserved by suspending, resuming, cancelling, dropping and failing *)
(* (ready, execute_once, wait, drive).                                     *)
THEOREM SchedulerExecutesInTurn == Spec => []ExecutesInTurn
<1>1. SchedulerInv => ExecutesInTurn
  BY DEF SchedulerInv, Executing, Permitted, ExecutesInTurn, DependenciesFirst, Ready, Watched
<1> QED BY <1>1, SchedulerInductive, PTL

--------------------------------------------------------------------------------
(* Security baselines.  narrow is the greatest lower bound of the order    *)
(* that the resume check decides.  The scheduler relies on it twice: a     *)
(* child's baseline, narrowed by its parent's, is accepted under the       *)
(* parent's again, and checking a narrowed baseline checks each of its     *)
(* parts.  The baselines of Scheduler are the levels of a chain in this    *)
(* order.                                                                  *)

(* A limit: the smaller of two optional limits is within both, and is the  *)
(* loosest that is.                                                        *)
LEMMA LimitMeet ==
  ASSUME NEW a \in Limits, NEW b \in Limits
  PROVE  /\ min_limit(a, b) \in Limits
         /\ narrower_limit(a, min_limit(a, b))
         /\ narrower_limit(b, min_limit(a, b))
         /\ \A c \in Limits : narrower_limit(a, c) /\ narrower_limit(b, c)
                              => narrower_limit(min_limit(a, b), c)
<1>1. CASE a = {}
  <2>1. CASE b = {}
    BY <1>1, <2>1 DEF min_limit, narrower_limit, Limits
  <2>2. CASE b # {}
    <3>1. PICK n \in Nat : b = {n}
      BY <2>2 DEF Limits
    <3>2. min_limit(a, b) = {n}
      BY <1>1, <3>1 DEF min_limit
    <3> QED BY <1>1, <3>1, <3>2 DEF narrower_limit, Limits
  <2> QED BY <2>1, <2>2
<1>2. CASE a # {} /\ b = {}
  <2>1. PICK m \in Nat : a = {m}
    BY <1>2 DEF Limits
  <2>2. min_limit(a, b) = {m}
    BY <1>2, <2>1 DEF min_limit
  <2> QED BY <1>2, <2>1, <2>2 DEF narrower_limit, Limits
<1>3. CASE a # {} /\ b # {}
  <2>1. PICK m \in Nat, n \in Nat : a = {m} /\ b = {n}
    BY <1>3 DEF Limits
  <2>2. PICK k \in {m, n} : k <= m /\ k <= n
    BY <2>1
  <2>3. min_limit(a, b) = {k}
    BY <2>1, <2>2 DEF min_limit
  <2>4. {k} \in Limits
    BY <2>1, <2>2 DEF Limits
  <2>5. narrower_limit(a, {k}) /\ narrower_limit(b, {k})
    BY <2>1, <2>2 DEF narrower_limit
  <2>6. ASSUME NEW c \in Limits, narrower_limit(a, c), narrower_limit(b, c)
        PROVE  narrower_limit({k}, c)
    BY <2>1, <2>2, <2>6 DEF narrower_limit
  <2> QED BY <2>3, <2>4, <2>5, <2>6
<1> QED BY <1>1, <1>2, <1>3

(* Limits are ordered by the check.                                        *)
LEMMA LimitOrder ==
  ASSUME NEW a \in Limits, NEW b \in Limits, NEW c \in Limits
  PROVE  /\ narrower_limit(a, a)
         /\ narrower_limit(a, b) /\ narrower_limit(b, c) => narrower_limit(a, c)
<1>1. a \subseteq Nat /\ b \subseteq Nat /\ c \subseteq Nat
  BY DEF Limits
<1>2. narrower_limit(a, a)
  BY <1>1 DEF narrower_limit
<1>3. ASSUME narrower_limit(a, b), narrower_limit(b, c)
      PROVE  narrower_limit(a, c)
  BY <1>1, <1>3 DEF narrower_limit
<1> QED BY <1>2, <1>3

(* Allow lists meet in the tools both allow; no list allows every tool.    *)
LEMMA AllowlistMeet ==
  ASSUME NEW a \in Allowlists, NEW b \in Allowlists
  PROVE  /\ common_tools(a, b) \in Allowlists
         /\ \A s \in a : \E t \in common_tools(a, b) : t \subseteq s
         /\ \A s \in b : \E t \in common_tools(a, b) : t \subseteq s
         /\ \A c \in Allowlists :
               /\ \A s \in a : \E t \in c : t \subseteq s
               /\ \A s \in b : \E t \in c : t \subseteq s
               => \A s \in common_tools(a, b) : \E t \in c : t \subseteq s
<1>1. CASE a # {} /\ b # {}
  <2>1. PICK p \in SUBSET ToolNames, q \in SUBSET ToolNames : a = {p} /\ b = {q}
    BY <1>1 DEF Allowlists
  <2>2. common_tools(a, b) = {p \cap q}
    <3>1. common_tools(a, b) = {s \cap t : s \in a, t \in b}
      BY <1>1 DEF common_tools
    <3>2. \A x : x \in {s \cap t : s \in a, t \in b} <=> x = p \cap q
      BY <2>1
    <3> QED BY <3>1, <3>2
  <2>3. p \cap q \in SUBSET ToolNames
    BY <2>1
  <2>4. ASSUME NEW c \in Allowlists,
               \A s \in a : \E t \in c : t \subseteq s,
               \A s \in b : \E t \in c : t \subseteq s
        PROVE  \A s \in common_tools(a, b) : \E t \in c : t \subseteq s
    <3>1. PICK t \in c : t \subseteq p
      BY <2>1, <2>4
    <3>2. PICK u \in c : u \subseteq q
      BY <2>1, <2>4
    <3>3. t = u
      BY <3>1, <3>2 DEF Allowlists
    <3> QED BY <2>2, <3>1, <3>2, <3>3
  <2>5. common_tools(a, b) \in Allowlists
    BY <2>2, <2>3 DEF Allowlists
  <2>6. /\ \A s \in a : \E t \in common_tools(a, b) : t \subseteq s
        /\ \A s \in b : \E t \in common_tools(a, b) : t \subseteq s
    <3>1. p \cap q \in common_tools(a, b) /\ p \cap q \subseteq p /\ p \cap q \subseteq q
      BY <2>2
    <3> QED BY <2>1, <3>1
  <2> QED BY <2>4, <2>5, <2>6, Zenon
<1>2. CASE ~(a # {} /\ b # {})
  BY <1>2 DEF common_tools, Allowlists
<1> QED BY <1>1, <1>2

(* The narrowed baseline is a baseline, accepted under both it came from:  *)
(* narrowing never loosens any dimension the resume check looks at.        *)
THEOREM NarrowIsAccepted ==
  ASSUME NEW a \in Baselines, NEW b \in Baselines
  PROVE  /\ narrow(a, b) \in Baselines
         /\ allows_resume_under(a, narrow(a, b))
         /\ allows_resume_under(b, narrow(a, b))
<1> DEFINE p == a.tools
           q == b.tools
           r == narrow_policy(p, q)
<1>1. p \in ToolPolicies /\ q \in ToolPolicies
      /\ a.max_output_bytes \in Limits /\ b.max_output_bytes \in Limits
  BY DEF Baselines
<1>2. p.timeout \in Limits /\ q.timeout \in Limits
      /\ p.allowed_tools \in Allowlists /\ q.allowed_tools \in Allowlists
  BY <1>1 DEF ToolPolicies
<1>3. r \in ToolPolicies
  <2>1. common_tools(p.allowed_tools, q.allowed_tools) \in Allowlists
        /\ min_limit(p.timeout, q.timeout) \in Limits
    BY <1>2, AllowlistMeet, LimitMeet
  <2> HIDE DEF p, q
  <2> QED BY <1>1, <2>1 DEF narrow_policy, ToolPolicies, AccessRanks
<1>4. policy_allows(p, r) /\ policy_allows(q, r)
  <2>1. narrower_limit(p.timeout, r.timeout) /\ narrower_limit(q.timeout, r.timeout)
    BY <1>2, LimitMeet DEF narrow_policy
  <2>2. /\ \A s \in p.allowed_tools : \E t \in r.allowed_tools : t \subseteq s
        /\ \A s \in q.allowed_tools : \E t \in r.allowed_tools : t \subseteq s
    BY <1>2, AllowlistMeet DEF narrow_policy
  <2>3. r.access <= p.access /\ r.access <= q.access
    <3> HIDE DEF p, q
    <3> QED BY <1>1 DEF narrow_policy, ToolPolicies, AccessRanks
  <2>4. /\ p.approval = "All" => r.approval = "All"
        /\ q.approval = "All" => r.approval = "All"
    BY DEF narrow_policy
  <2>5. /\ p.denied_tools \subseteq r.denied_tools
        /\ q.denied_tools \subseteq r.denied_tools
        /\ r.allowed_mutating_tools \subseteq p.allowed_mutating_tools
        /\ r.allowed_mutating_tools \subseteq q.allowed_mutating_tools
    BY DEF narrow_policy
  <2> HIDE DEF p, q, r
  <2> QED BY <2>1, <2>2, <2>3, <2>4, <2>5 DEF policy_allows
<1> HIDE DEF r
<1>5. min_limit(a.max_output_bytes, b.max_output_bytes) \in Limits
      /\ narrower_limit(a.max_output_bytes, narrow(a, b).max_output_bytes)
      /\ narrower_limit(b.max_output_bytes, narrow(a, b).max_output_bytes)
  BY <1>1, LimitMeet DEF narrow
<1>6. narrow(a, b) \in Baselines
  BY <1>3, <1>5 DEF narrow, Baselines, r
<1>7. narrow(a, b).tools = r
  BY DEF narrow, r
<1> QED BY <1>4, <1>5, <1>6, <1>7 DEF allows_resume_under, narrow

(* Conversely, a baseline that passes the check against both parts passes  *)
(* it against their narrowing: narrow demands nothing that neither of its  *)
(* arguments does.                                                         *)
THEOREM NarrowIsLoosest ==
  ASSUME NEW a \in Baselines, NEW b \in Baselines, NEW c \in Baselines,
         allows_resume_under(a, c), allows_resume_under(b, c)
  PROVE  allows_resume_under(narrow(a, b), c)
<1> DEFINE p == a.tools
           q == b.tools
           o == c.tools
           r == narrow_policy(p, q)
<1>1. p \in ToolPolicies /\ q \in ToolPolicies /\ o \in ToolPolicies
      /\ a.max_output_bytes \in Limits /\ b.max_output_bytes \in Limits
      /\ c.max_output_bytes \in Limits
  BY DEF Baselines
<1>2. p.timeout \in Limits /\ q.timeout \in Limits /\ o.timeout \in Limits
      /\ p.allowed_tools \in Allowlists /\ q.allowed_tools \in Allowlists
      /\ o.allowed_tools \in Allowlists
  BY <1>1 DEF ToolPolicies
<1>3. policy_allows(p, o) /\ policy_allows(q, o)
  BY DEF allows_resume_under
<1>4. policy_allows(r, o)
  <2>1. narrower_limit(r.timeout, o.timeout)
    BY <1>2, <1>3, LimitMeet DEF narrow_policy, policy_allows
  <2>2. \A s \in r.allowed_tools : \E t \in o.allowed_tools : t \subseteq s
    BY <1>2, <1>3, AllowlistMeet, SMTT(30) DEF narrow_policy, policy_allows
  <2>3. /\ o.access <= r.access
        /\ r.denied_tools \subseteq o.denied_tools
        /\ o.allowed_mutating_tools \subseteq r.allowed_mutating_tools
        /\ r.approval = "All" => o.approval = "All"
    BY <1>3 DEF narrow_policy, policy_allows
  <2> HIDE DEF p, q, o, r
  <2> QED BY <2>1, <2>2, <2>3 DEF policy_allows
<1> HIDE DEF r
<1>5. narrower_limit(narrow(a, b).max_output_bytes, c.max_output_bytes)
  BY <1>1, LimitMeet DEF narrow, allows_resume_under
<1>6. narrow(a, b).tools = r
  BY DEF narrow, r
<1>7. /\ narrow(a, b).input_guardrails \subseteq c.input_guardrails
      /\ narrow(a, b).output_guardrails \subseteq c.output_guardrails
      /\ narrow(a, b).untrusted_tool_outputs => c.untrusted_tool_outputs
  BY Zenon DEF narrow, allows_resume_under
<1> QED BY <1>4, <1>5, <1>6, <1>7 DEF allows_resume_under

(* Every baseline may resume under itself, and resuming twice under ever   *)
(* narrower baselines is resuming once: a chain of restarts cannot be      *)
(* refused half way, nor widen what the first saved baseline allowed.      *)
THEOREM ResumeOrder ==
  ASSUME NEW a \in Baselines, NEW b \in Baselines, NEW c \in Baselines
  PROVE  /\ allows_resume_under(a, a)
         /\ allows_resume_under(a, b) /\ allows_resume_under(b, c)
            => allows_resume_under(a, c)
<1>1. /\ a.tools \in ToolPolicies /\ b.tools \in ToolPolicies /\ c.tools \in ToolPolicies
      /\ a.max_output_bytes \in Limits /\ b.max_output_bytes \in Limits
      /\ c.max_output_bytes \in Limits
  BY DEF Baselines
<1>2. ASSUME NEW p \in ToolPolicies, NEW q \in ToolPolicies, NEW o \in ToolPolicies
      PROVE  /\ policy_allows(p, p)
             /\ policy_allows(p, q) /\ policy_allows(q, o) => policy_allows(p, o)
  <2>1. p.timeout \in Limits /\ q.timeout \in Limits /\ o.timeout \in Limits
        /\ p.access \in Nat /\ q.access \in Nat /\ o.access \in Nat
    BY <1>2 DEF ToolPolicies, AccessRanks
  <2>2. policy_allows(p, p)
    BY <2>1, LimitOrder DEF policy_allows
  <2>3. ASSUME policy_allows(p, q), policy_allows(q, o)
        PROVE  policy_allows(p, o)
    <3>1. narrower_limit(p.timeout, o.timeout)
      BY <2>1, <2>3, LimitOrder DEF policy_allows
    <3>2. \A s \in p.allowed_tools : \E t \in o.allowed_tools : t \subseteq s
      <4> SUFFICES ASSUME NEW s \in p.allowed_tools
                   PROVE  \E t \in o.allowed_tools : t \subseteq s
        OBVIOUS
      <4>1. PICK t \in q.allowed_tools : t \subseteq s
        BY <2>3 DEF policy_allows
      <4>2. PICK u \in o.allowed_tools : u \subseteq t
        BY <2>3 DEF policy_allows
      <4> QED BY <4>1, <4>2
    <3>3. o.access <= p.access
      BY <2>1, <2>3 DEF policy_allows
    <3> QED BY <2>3, <3>1, <3>2, <3>3 DEF policy_allows
  <2> QED BY <2>2, <2>3
<1>3. allows_resume_under(a, a)
  BY <1>1, <1>2, LimitOrder DEF allows_resume_under
<1>4. ASSUME allows_resume_under(a, b), allows_resume_under(b, c)
      PROVE  allows_resume_under(a, c)
  <2>1. policy_allows(a.tools, c.tools)
    BY <1>1, <1>2, <1>4 DEF allows_resume_under
  <2>2. narrower_limit(a.max_output_bytes, c.max_output_bytes)
    BY <1>1, <1>4, LimitOrder DEF allows_resume_under
  <2> QED BY <1>4, <2>1, <2>2 DEF allows_resume_under
<1> QED BY <1>3, <1>4

--------------------------------------------------------------------------------
(* What the order means for the child's tools.                             *)

(* A call the wider policy denies is denied by the narrower one.           *)
LEMMA DeniedStays ==
  ASSUME NEW p \in ToolPolicies, NEW q \in ToolPolicies, policy_allows(p, q),
         NEW tool \in Tools, Denied(p, tool)
  PROVE  Denied(q, tool)
<1>1. CASE tool.name \in p.denied_tools
  BY <1>1 DEF Denied, policy_allows
<1>2. CASE \E s \in p.allowed_tools : tool.name \notin s
  <2>1. PICK s \in p.allowed_tools : tool.name \notin s
    BY <1>2
  <2>2. PICK t \in q.allowed_tools : t \subseteq s
    BY DEF policy_allows
  <2> QED BY <2>1, <2>2 DEF Denied
<1>3. CASE p.access = 0 /\ ~tool.read_only /\ tool.name \notin p.allowed_mutating_tools
  <2>1. q.access = 0
    BY <1>3 DEF policy_allows, ToolPolicies, AccessRanks
  <2> QED BY <1>3, <2>1 DEF Denied, policy_allows
<1> QED BY <1>1, <1>2, <1>3 DEF Denied

(* A child that resumes under a baseline the check accepts gains nothing:  *)
(* a tool that was denied to it stays denied, and one that needed approval *)
(* is not run without (allows_resume_under against ToolPolicy::decision).  *)
THEOREM ResumeNeverWidens ==
  ASSUME NEW a \in Baselines, NEW b \in Baselines, allows_resume_under(a, b),
         NEW tool \in Tools
  PROVE  /\ decision(a.tools, tool) = "Deny" => decision(b.tools, tool) = "Deny"
         /\ decision(b.tools, tool) = "Allow" => decision(a.tools, tool) = "Allow"
<1>1. a.tools \in ToolPolicies /\ b.tools \in ToolPolicies /\ policy_allows(a.tools, b.tools)
  BY DEF Baselines, allows_resume_under
<1>2. Denied(a.tools, tool) => Denied(b.tools, tool)
  BY <1>1, DeniedStays
<1>3. a.tools.approval = "All" => b.tools.approval = "All"
  BY <1>1 DEF policy_allows
<1> QED BY <1>2, <1>3 DEF decision

(* A child whose baseline was narrowed by its parent's may use no tool     *)
(* freely that either of the two would not have let it use freely.         *)
THEOREM NarrowDecides ==
  ASSUME NEW a \in Baselines, NEW b \in Baselines, NEW tool \in Tools
  PROVE  decision(narrow(a, b).tools, tool) = "Allow" =>
            decision(a.tools, tool) = "Allow" /\ decision(b.tools, tool) = "Allow"
<1>1. /\ narrow(a, b) \in Baselines
      /\ allows_resume_under(a, narrow(a, b)) /\ allows_resume_under(b, narrow(a, b))
  BY NarrowIsAccepted
<1> QED BY <1>1, ResumeNeverWidens
================================================================================

------------------------------ MODULE StoreProofs ------------------------------
(***************************************************************************)
(* Both backends have their types and implement the fenced ledger, for any *)
(* runs, tenants, hosts, connections, clock and batch sizes.               *)
(*                                                                         *)
(* The filesystem store rests on the file lock: a call under way holds its *)
(* tenant's lock alone (LockInv), so what it read and checked is still in  *)
(* the file when it renames (CallInv), and no token in use is newer than   *)
(* the last drawn (TokenInv).  What the file lock is to it, row locks are  *)
(* to the PostgreSQL store: open transactions have different rows          *)
(* (RowInv), so what one has checked still holds when it commits           *)
(* (StepInv), whether its host is still there or not.                      *)
(***************************************************************************)
EXTENDS PostgresStore, SequenceTheorems, TLAPS

--------------------------------------------------------------------------------
(* The filesystem store.                                                   *)

Slot == Record \cup {Absent}

(* A call under way is the only one of its tenant (flock).                 *)
LockInv ==
    \A c, d \in Clients :
        call[c] # Idle /\ call[d] # Idle /\ call[c].tenant = call[d].tenant => c = d

(* What a call is about to rename is one operation away from the file.     *)
CallInv ==
    \A c \in Clients : call[c] # Idle =>
        \A r \in call[c].todo :
            /\ TenantOf[r] = call[c].tenant
            /\ Ledger!RecordStep(LedgerView(visible[r]), LedgerView(call[c].new))

TokensUpTo(rec, n) ==
    rec # Absent => rec.token <= n /\ \A i \in 1..Len(rec.events) : rec.events[i].token <= n

TokenInv ==
    /\ \A r \in Runs : TokensUpTo(visible[r], drawn) /\ TokensUpTo(onDisk[r], drawn)
    /\ \A c \in Clients : call[c] # Idle => TokensUpTo(call[c].new, drawn)

(* acquire_lease and append have a record to return.                       *)
KindInv ==
    \A c \in Clients : call[c] # Idle /\ call[c].kind \in {"acquire", "append"} =>
        call[c].new # Absent

IInv == TypeOK /\ LockInv /\ CallInv /\ TokenInv /\ KindInv

--------------------------------------------------------------------------------
(* Records and their views.                                                *)

(* A record's view is a ledger record (the fields the ledger keeps).       *)
LEMMA ViewType ==
    ASSUME NEW rec \in Slot
    PROVE  /\ LedgerView(rec) \in Ledger!LedgerRecord \cup {Absent}
           /\ rec = Absent <=> LedgerView(rec) = Absent
  <1>1. CASE rec = Absent BY <1>1 DEF LedgerView
  <1>2. CASE rec # Absent
    <2>1. rec \in Record BY <1>2 DEF Slot
    <2>2. LedgerView(rec) \in Ledger!LedgerRecord
      BY <2>1, <1>2 DEF LedgerView, Record, StoredEvent, Ledger!LedgerRecord, Ledger!LedgerEvent
    <2> QED BY <2>2, <1>2, AbsentAssumption
  <1> QED BY <1>1, <1>2

(* The fields of a stored record are numbers (Record).                     *)
LEMMA RecordTypes ==
    ASSUME NEW rec \in Record
    PROVE  /\ rec.revision \in Nat /\ rec.event_sequence \in Nat /\ rec.state \in Nat
           /\ rec.retain_until \in Nat /\ rec.token \in Nat /\ rec.expires \in Nat
           /\ rec.events \in Seq(StoredEvent) /\ Len(rec.events) \in Nat
           /\ \A i \in 1..Len(rec.events) : rec.events[i].token \in Nat
  <1>1. rec.events \in Seq(StoredEvent) BY DEF Record
  <1>2. \A i \in 1..Len(rec.events) : rec.events[i] \in StoredEvent
    BY <1>1, ElementOfSeq
  <1>3. Len(rec.events) \in Nat BY <1>1, LenProperties
  <1> QED BY <1>1, <1>2, <1>3 DEF Record, StoredEvent

(* The record append writes is a record, one AppendStep from the stored    *)
(* one, with no newer token (prepare_append).                              *)
LEMMA PrepareAppend ==
    ASSUME NEW rec \in Record, NEW token, NEW snap \in Snapshot, NEW k \in Nat,
           NEW retain \in Nat, token = rec.token, rec.token # NoToken, rec.revision = snap.revision,
           NEW n \in Nat, TokensUpTo(rec, n)
    PROVE  LET new == prepare_append(rec, token, snap, k, retain) IN
              /\ new \in Record
              /\ Ledger!RecordStep(LedgerView(rec), LedgerView(new))
              /\ TokensUpTo(new, n)
  <1> DEFINE es == rec.events
             b == [i \in 1..k |-> [sequence |-> rec.event_sequence + i, token |-> rec.token]]
             new == prepare_append(rec, token, snap, k, retain)
  <1>0. rec # Absent BY AbsentAssumption
  <1>1. /\ es \in Seq(StoredEvent) /\ rec.token \in Nat /\ rec.event_sequence \in Nat
        /\ rec.token <= n /\ \A i \in 1..Len(es) : es[i].token <= n
    BY <1>0, RecordTypes DEF TokensUpTo
  <1>2. b \in Seq(StoredEvent) /\ Len(b) = k
    <2>1. \A i \in 1..k : [sequence |-> rec.event_sequence + i, token |-> rec.token] \in StoredEvent
      BY <1>1 DEF StoredEvent
    <2>2. b \in [1..k -> StoredEvent] BY <2>1
    <2>3. b \in Seq(StoredEvent) BY <2>2, SeqDef
    <2> QED BY <2>2, <2>3, LenProperties
  <1>3. es \o b \in Seq(StoredEvent) /\ Len(es \o b) = Len(es) + k /\ Len(es) \in Nat
    BY <1>1, <1>2, ConcatProperties, LenProperties
  <1>4. /\ new = [revision |-> snap.revision + 1, event_sequence |-> rec.event_sequence + k,
                  state |-> snap.state + k, retain_until |-> retain, events |-> es \o b,
                  token |-> rec.token, expires |-> rec.expires]
    BY DEF prepare_append
  <1> HIDE DEF es, b, new
  <1>5. new \in Record
    <2>1. /\ snap.revision + 1 \in Nat /\ snap.state + k \in Nat
          /\ rec.event_sequence + k \in Nat /\ rec.token \in Nat /\ rec.expires \in Nat
      BY RecordTypes DEF Snapshot
    <2> QED BY <2>1, <1>3, <1>4 DEF Record
  <1>6. new # Absent BY <1>5, AbsentAssumption
  <1>7. Ledger!RecordStep(LedgerView(rec), LedgerView(new))
    <2>1. LedgerView(rec) # Absent BY <1>0, ViewType DEF Slot
    <2>2. /\ LedgerView(rec).token = rec.token /\ LedgerView(rec).revision = rec.revision
          /\ LedgerView(rec).events = es /\ LedgerView(rec).event_sequence = rec.event_sequence
      BY <1>0 DEF LedgerView, es
    <2>3. /\ LedgerView(new).token = rec.token
          /\ LedgerView(new).revision = rec.revision + 1
          /\ LedgerView(new).events = es \o b
          /\ LedgerView(new).event_sequence = rec.event_sequence + k
      BY <1>4, <1>6 DEF LedgerView
    <2>4. (rec.event_sequence + k) - rec.event_sequence = k
      BY <1>1
    <2>5. b = Ledger!Batch(rec.event_sequence, (rec.event_sequence + k) - rec.event_sequence, rec.token)
      BY <2>4 DEF Ledger!Batch, b
    <2>6. Ledger!AppendStep(LedgerView(rec), LedgerView(new))
      BY <2>2, <2>3, <2>5, <1>1 DEF Ledger!AppendStep, Ledger!NoToken, NoToken
    <2> QED BY <2>1, <2>6 DEF Ledger!RecordStep
  <1>8. TokensUpTo(new, n)
    <2>1. \A i \in 1..(Len(es) + k) :
             (es \o b)[i] = IF i <= Len(es) THEN es[i] ELSE b[i - Len(es)]
      BY <1>1, <1>2, ConcatProperties
    <2>2. \A j \in 1..k : b[j].token = rec.token BY DEF b
    <2>3. ASSUME NEW i \in 1..(Len(es) + k) PROVE (es \o b)[i].token <= n
      <3>1. CASE i <= Len(es) BY <1>1, <1>3, <2>1, <3>1
      <3>2. CASE i > Len(es)
        <4>1. i - Len(es) \in 1..k BY <1>3, <3>2
        <4> QED BY <4>1, <2>1, <2>2, <1>1, <1>3, <3>2
      <3> QED BY <3>1, <3>2, <1>3
    <2>4. new.events = es \o b /\ new.token = rec.token BY <1>4
    <2> QED BY <2>3, <2>4, <1>1, <1>3 DEF TokensUpTo
  <1> QED BY <1>5, <1>7, <1>8 DEF new

--------------------------------------------------------------------------------
(* Preservation of the inductive invariant.                                *)

(* A bound on tokens may be raised (drawn only grows).                     *)
LEMMA TokensMonotone ==
    ASSUME NEW rec \in Slot, NEW m \in Nat, NEW n \in Nat, m <= n, TokensUpTo(rec, m)
    PROVE  TokensUpTo(rec, n)
  <1> SUFFICES ASSUME rec # Absent
               PROVE  rec.token <= n /\ \A i \in 1..Len(rec.events) : rec.events[i].token <= n
    BY DEF TokensUpTo
  <1>1. rec \in Record BY DEF Slot
  <1> QED BY <1>1, RecordTypes DEF TokensUpTo

(* Starting a call under the lock, with contents that are one operation    *)
(* away from the files (lock(), read(), the checks).                       *)
LEMMA BeginKeeps ==
    ASSUME IInv, NEW c \in Clients, NEW kind \in Kinds, NEW t \in Tenants,
           NEW S \in SUBSET Runs, NEW new \in Slot, NEW dirty \in BOOLEAN,
           Lock(c, t), Begin(c, kind, t, S, new, dirty),
           drawn' \in Nat, drawn <= drawn', TokensUpTo(new, drawn'),
           \A r \in S : /\ TenantOf[r] = t
                        /\ Ledger!RecordStep(LedgerView(visible[r]), LedgerView(new)),
           kind \in {"acquire", "append"} => new # Absent
    PROVE  IInv'
  <1> DEFINE newcall == [kind |-> kind, tenant |-> t, todo |-> S, done |-> {},
                         new |-> new, dirty |-> dirty]
  <1>1. /\ visible' = visible /\ onDisk' = onDisk /\ held' = held /\ known' = known
        /\ clock' = clock /\ acked' = acked /\ call' = [call EXCEPT ![c] = newcall]
    BY DEF Begin
  <1>2. newcall \in Call BY DEF Call, Slot
  <1>3. TypeOK' BY <1>1, <1>2 DEF IInv, TypeOK
  <1>4. newcall.tenant = t /\ newcall.todo = S /\ newcall.new = new /\ newcall.kind = kind
    OBVIOUS
  <1>5. /\ call'[c] = newcall
        /\ \A d \in Clients \ {c} : call'[d] = call[d]
    BY <1>1 DEF IInv, TypeOK
  <1>6. \A d \in Clients : call[d] # Idle => call[d].tenant # t
    BY DEF Lock, Unlocked
  <1> HIDE DEF newcall
  <1>7. LockInv' BY <1>4, <1>5, <1>6 DEF LockInv, IInv
  <1>8. CallInv' BY <1>1, <1>4, <1>5 DEF CallInv, IInv
  <1>9. TokenInv'
    <2>1. \A r \in Runs : TokensUpTo(visible[r], drawn') /\ TokensUpTo(onDisk[r], drawn')
      BY TokensMonotone DEF IInv, TypeOK, TokenInv, Slot
    <2>2. \A d \in Clients : call[d] # Idle => TokensUpTo(call[d].new, drawn')
      BY TokensMonotone DEF IInv, TypeOK, TokenInv, Slot, Call
    <2> QED BY <1>1, <1>4, <1>5, <2>1, <2>2 DEF TokenInv
  <1>10. KindInv' BY <1>4, <1>5 DEF KindInv, IInv
  <1> QED BY <1>3, <1>7, <1>8, <1>9, <1>10 DEF IInv

(* Ending a call, with or without forgetting what the host knew: files     *)
(* and tokens are as before, the caller is idle.                           *)
LEMMA EndKeeps ==
    ASSUME IInv, TypeOK',
           visible' = visible, drawn' = drawn,
           \A r \in Runs : onDisk'[r] \in {onDisk[r], visible[r]},
           \A d \in Clients : call'[d] \in {call[d], Idle}
    PROVE  IInv'
  <1>1. LockInv' BY DEF IInv, LockInv
  <1>2. CallInv' BY DEF IInv, CallInv
  <1>3. TokenInv' BY DEF IInv, TokenInv
  <1>4. KindInv' BY DEF IInv, KindInv
  <1> QED BY <1>1, <1>2, <1>3, <1>4 DEF IInv

(* What a stored record is, under the invariant.                           *)
LEMMA Stored ==
    ASSUME IInv, NEW r \in Runs, visible[r] # Absent
    PROVE  /\ visible[r] \in Record /\ visible[r] \in Slot
           /\ LedgerView(visible[r]) # Absent
           /\ TokensUpTo(visible[r], drawn)
           /\ drawn \in Nat /\ clock \in Nat
           /\ TenantOf[r] \in Tenants
  <1>1. visible[r] \in Record /\ visible[r] \in Slot
    BY DEF IInv, TypeOK, Slot
  <1> QED BY <1>1, ViewType DEF IInv, TypeOK, TokenInv, Tenants

(* A write that leaves the document and the events alone and sets the      *)
(* lease's token and expiry is a lease step (acquire, renew, release).     *)
LEMMA LeaseWrite ==
    ASSUME NEW rec \in Record, NEW token \in Nat, NEW expires \in Nat,
           NEW n \in Nat, TokensUpTo(rec, n), NEW m \in Nat, n <= m, token <= m,
           token = NoToken \/ token = rec.token \/ token > n
    PROVE  /\ WithLease(rec, token, expires) \in Record
           /\ Ledger!RecordStep(LedgerView(rec), LedgerView(WithLease(rec, token, expires)))
           /\ TokensUpTo(WithLease(rec, token, expires), m)
  <1> DEFINE new == WithLease(rec, token, expires)
  <1>0. rec # Absent BY AbsentAssumption
  <1>1. /\ new.token = token /\ new.events = rec.events
        /\ new.revision = rec.revision /\ new.state = rec.state
        /\ new.event_sequence = rec.event_sequence
    BY DEF Record, WithLease
  <1>2. new \in Record BY DEF Record, WithLease
  <1> HIDE DEF new
  <1>3. new # Absent BY <1>2, AbsentAssumption
  <1>4. /\ LedgerView(rec) # Absent
        /\ Ledger!SameDocument(LedgerView(rec), LedgerView(new))
        /\ LedgerView(rec).token = rec.token /\ LedgerView(new).token = token
        /\ LedgerView(rec).events = rec.events
    BY <1>0, <1>1, <1>3, ViewType DEF LedgerView, Ledger!SameDocument, Slot
  <1>5. rec.token \in Nat /\ rec.token <= n
        /\ \A i \in 1..Len(rec.events) : rec.events[i].token \in Nat /\ rec.events[i].token <= n
    BY <1>0, RecordTypes DEF TokensUpTo
  <1>6. Ledger!RecordStep(LedgerView(rec), LedgerView(new))
    <2>1. CASE token = NoToken
      BY <2>1, <1>4 DEF Ledger!RecordStep, Ledger!ReleaseStep, Ledger!NoToken, NoToken
    <2>2. CASE token = rec.token
      BY <2>2, <1>4 DEF Ledger!RecordStep, Ledger!RenewStep
    <2>3. CASE token > n
      BY <2>3, <1>4, <1>5 DEF Ledger!RecordStep, Ledger!GrantStep
    <2> QED BY <2>1, <2>2, <2>3
  <1>7. TokensUpTo(new, m)
    BY <1>1, <1>5 DEF TokensUpTo
  <1> QED BY <1>2, <1>6, <1>7 DEF new

(* The case of one file (write()).                                         *)
LEMMA WriteKeeps ==
    ASSUME IInv, NEW c \in Clients, NEW kind \in Kinds, NEW r \in Runs, NEW new \in Record,
           Lock(c, TenantOf[r]), Write(c, kind, r, new),
           drawn' \in Nat, drawn <= drawn', TokensUpTo(new, drawn'),
           Ledger!RecordStep(LedgerView(visible[r]), LedgerView(new))
    PROVE  IInv'
  <1> DEFINE t == TenantOf[r]
             S == {r}
             dirty == FALSE
  <1>1. t \in Tenants /\ S \in SUBSET Runs /\ dirty \in BOOLEAN BY DEF Tenants
  <1>2. Begin(c, kind, t, S, new, dirty) /\ Lock(c, t) BY DEF Write
  <1>3. \A q \in S : /\ TenantOf[q] = t
                     /\ Ledger!RecordStep(LedgerView(visible[q]), LedgerView(new))
    OBVIOUS
  <1>4. new \in Slot /\ new # Absent BY AbsentAssumption DEF Slot
  <1> HIDE DEF t, S, dirty
  <1> QED BY <1>1, <1>2, <1>3, <1>4, BeginKeeps

(* Each operation of RunStore keeps the invariant when it starts.          *)
LEMMA CreateKeeps ==
    ASSUME IInv, NEW c \in Clients, NEW r \in Runs, create(c, r) PROVE IInv'
  <1>1. PICK n \in Starts, retain \in Retains :
           Write(c, "create", r,
                 [revision |-> n, event_sequence |-> n, state |-> n, retain_until |-> retain,
                  events |-> <<>>, token |-> NoToken, expires |-> 0])
    BY DEF create
  <1> DEFINE new == [revision |-> n, event_sequence |-> n, state |-> n,
                     retain_until |-> retain, events |-> <<>>,
                     token |-> NoToken, expires |-> 0]
  <1>2. n \in Nat /\ retain \in Nat BY ConstantsAssumption
  <1>3. <<>> \in Seq(StoredEvent) /\ Len(<<>>) = 0 BY EmptySeq
  <1>4. new \in Record BY <1>2, <1>3 DEF Record, NoToken
  <1>5. new.events = <<>> /\ new.token = NoToken OBVIOUS
  <1>6. Write(c, "create", r, new) BY <1>1
  <1> HIDE DEF new
  <1>7. new \in Slot /\ new # Absent BY <1>4, AbsentAssumption DEF Slot
  <1>8. Ledger!RecordStep(LedgerView(visible[r]), LedgerView(new))
    <2>1. LedgerView(visible[r]) = Absent BY DEF create, LedgerView
    <2>2. LedgerView(new) # Absent BY <1>7, ViewType
    <2>3. LedgerView(new).events = <<>> /\ LedgerView(new).token = NoToken
      BY <1>5, <1>7 DEF LedgerView
    <2> QED BY <2>1, <2>2, <2>3 DEF Ledger!RecordStep, Ledger!CreateStep, Ledger!NoToken, NoToken
  <1>9. drawn \in Nat /\ drawn' = drawn BY DEF IInv, TypeOK, create
  <1>10. TokensUpTo(new, drawn') BY <1>3, <1>5, <1>9 DEF TokensUpTo, NoToken
  <1> QED
    BY <1>4, <1>6, <1>8, <1>9, <1>10, WriteKeeps DEF create, Kinds

LEMMA AppendKeeps ==
    ASSUME IInv, NEW c \in Clients, NEW r \in Runs, append(c, r) PROVE IInv'
  <1>1. PICK k \in BatchSizes, retain \in Retains :
           Write(c, "append", r, prepare_append(visible[r], held[c][r], known[c][r], k, retain))
    BY DEF append
  <1>2. k \in Nat /\ retain \in Nat BY ConstantsAssumption
  <1>3. known[c][r] \in Snapshot BY DEF append, IInv, TypeOK
  <1>4. /\ visible[r] \in Record /\ TokensUpTo(visible[r], drawn) /\ drawn \in Nat
        /\ TenantOf[r] \in Tenants
    BY Stored DEF append
  <1>5. /\ visible[r].token # NoToken /\ held[c][r] = visible[r].token
        /\ visible[r].revision = known[c][r].revision
        /\ drawn' = drawn /\ Lock(c, TenantOf[r])
    BY DEF append, check_lease
  <1> DEFINE new == prepare_append(visible[r], held[c][r], known[c][r], k, retain)
  <1>6. /\ new \in Record
        /\ Ledger!RecordStep(LedgerView(visible[r]), LedgerView(new))
        /\ TokensUpTo(new, drawn)
    BY <1>2, <1>3, <1>4, <1>5, PrepareAppend
  <1>7. Write(c, "append", r, new) BY <1>1
  <1> HIDE DEF new
  <1> QED BY <1>4, <1>5, <1>6, <1>7, WriteKeeps DEF Kinds, Slot

LEMMA AcquireKeeps ==
    ASSUME IInv, NEW c \in Clients, NEW r \in Runs, acquire_lease(c, r) PROVE IInv'
  <1>1. PICK ttl \in TTLs :
           Write(c, "acquire", r,
                 WithLease(visible[r], drawn + 1, clock + ttl))
    BY DEF acquire_lease
  <1>2. /\ visible[r] \in Record /\ TokensUpTo(visible[r], drawn) /\ drawn \in Nat
        /\ clock \in Nat /\ TenantOf[r] \in Tenants
    BY Stored DEF acquire_lease
  <1>3. clock + ttl \in Nat BY <1>2, ConstantsAssumption
  <1>4. /\ drawn' = drawn + 1 /\ Lock(c, TenantOf[r]) BY DEF acquire_lease
  <1> DEFINE new == WithLease(visible[r], drawn + 1, clock + ttl)
  <1>5. /\ new \in Record
        /\ Ledger!RecordStep(LedgerView(visible[r]), LedgerView(new))
        /\ TokensUpTo(new, drawn + 1)
    BY <1>2, <1>3, LeaseWrite
  <1>6. Write(c, "acquire", r, new) BY <1>1
  <1> HIDE DEF new
  <1> QED BY <1>2, <1>4, <1>5, <1>6, WriteKeeps DEF Kinds, Slot

LEMMA RenewKeeps ==
    ASSUME IInv, NEW c \in Clients, NEW r \in Runs, renew_lease(c, r) PROVE IInv'
  <1>1. PICK ttl \in TTLs :
           Write(c, "renew", r, WithLease(visible[r], visible[r].token, clock + ttl))
    BY DEF renew_lease
  <1>2. /\ visible[r] \in Record /\ TokensUpTo(visible[r], drawn) /\ drawn \in Nat
        /\ clock \in Nat /\ TenantOf[r] \in Tenants
    BY Stored DEF renew_lease
  <1>3. clock + ttl \in Nat BY <1>2, ConstantsAssumption
  <1>4. /\ drawn' = drawn /\ Lock(c, TenantOf[r]) BY DEF renew_lease
  <1> DEFINE new == WithLease(visible[r], visible[r].token, clock + ttl)
  <1>5. /\ visible[r].token \in Nat /\ visible[r].token <= drawn
    BY <1>2, RecordTypes, AbsentAssumption DEF TokensUpTo
  <1>7. /\ new \in Record
        /\ Ledger!RecordStep(LedgerView(visible[r]), LedgerView(new))
        /\ TokensUpTo(new, drawn)
    BY <1>2, <1>3, <1>5, LeaseWrite
  <1>8. Write(c, "renew", r, new) BY <1>1
  <1> HIDE DEF new
  <1> QED BY <1>2, <1>4, <1>7, <1>8, WriteKeeps DEF Kinds, Slot

LEMMA ReleaseKeeps ==
    ASSUME IInv, NEW c \in Clients, NEW r \in Runs, release_lease(c, r) PROVE IInv'
  <1>2. /\ visible[r] \in Record /\ TokensUpTo(visible[r], drawn) /\ drawn \in Nat
        /\ TenantOf[r] \in Tenants
    BY Stored DEF release_lease
  <1>4. /\ drawn' = drawn /\ Lock(c, TenantOf[r]) BY DEF release_lease
  <1> DEFINE new == WithLease(visible[r], NoToken, 0)
  <1>5. /\ new \in Record
        /\ Ledger!RecordStep(LedgerView(visible[r]), LedgerView(new))
        /\ TokensUpTo(new, drawn)
    BY <1>2, LeaseWrite DEF NoToken
  <1>6. Write(c, "release", r, new) BY DEF release_lease
  <1> HIDE DEF new
  <1> QED BY <1>2, <1>4, <1>5, <1>6, WriteKeeps DEF Kinds, Slot

(* Removing files: the view of a missing file is a step from any record.   *)
LEMMA RemovalKeeps ==
    ASSUME IInv, NEW c \in Clients, NEW kind \in Kinds \ {"acquire", "append"},
           NEW t \in Tenants, NEW S \in SUBSET Runs, NEW dirty \in BOOLEAN,
           Lock(c, t), Begin(c, kind, t, S, Absent, dirty), drawn' = drawn,
           \A r \in S : TenantOf[r] = t /\ visible[r] # Absent
    PROVE  IInv'
  <1>1. \A r \in S : Ledger!RecordStep(LedgerView(visible[r]), LedgerView(Absent))
    BY Stored DEF Ledger!RecordStep, LedgerView
  <1>2. TokensUpTo(Absent, drawn') BY DEF TokensUpTo
  <1>3. drawn \in Nat BY DEF IInv, TypeOK
  <1> QED BY <1>1, <1>2, <1>3, BeginKeeps DEF Slot

(* The rename: the file becomes what the call prepared.  No other call of  *)
(* the tenant is under way, so no other prepared content is out of date.   *)
LEMMA RenameKeeps ==
    ASSUME IInv, NEW c \in Clients, NEW r \in Runs, Rename(c, r) PROVE IInv'
  <1>1. call[c] \in Call /\ r \in call[c].todo /\ call[c] # Idle
    BY DEF Rename, IInv, TypeOK
  <1>2. call[c].new \in Slot /\ call[c].todo \in SUBSET Runs BY <1>1 DEF Call, Slot
  <1> DEFINE after == [call[c] EXCEPT !.todo = @ \ {r}, !.done = @ \cup {r}, !.dirty = TRUE]
  <1>3. /\ after \in Call
        /\ after.todo = call[c].todo \ {r} /\ after.tenant = call[c].tenant
        /\ after.new = call[c].new /\ after.kind = call[c].kind
    BY <1>1 DEF Call
  <1>4. call' = [call EXCEPT ![c] = after]
    BY DEF Rename
  <1>5. /\ visible' = [visible EXCEPT ![r] = call[c].new]
        /\ onDisk' = onDisk /\ drawn' = drawn
        /\ held' = held /\ known' = known /\ clock' = clock
    BY DEF Rename
  <1>6. acked' \in [Runs -> Record \cup {Absent, Unknown}]
    BY DEF Rename, IInv, TypeOK
  <1> HIDE DEF after
  <1>7. TypeOK' BY <1>2, <1>3, <1>4, <1>5, <1>6 DEF IInv, TypeOK, Slot
  <1>8. /\ call'[c] = after /\ \A d \in Clients \ {c} : call'[d] = call[d]
        /\ visible'[r] = call[c].new /\ \A q \in Runs \ {r} : visible'[q] = visible[q]
    BY <1>4, <1>5 DEF IInv, TypeOK
  <1>9. LockInv' BY <1>1, <1>3, <1>8 DEF IInv, LockInv
  <1>10. CallInv'
    <2> SUFFICES ASSUME NEW d \in Clients, call'[d] # Idle, NEW q \in call'[d].todo
                 PROVE  /\ TenantOf[q] = call'[d].tenant
                        /\ Ledger!RecordStep(LedgerView(visible'[q]), LedgerView(call'[d].new))
      BY DEF CallInv
    <2>1. /\ TenantOf[r] = call[c].tenant
          /\ call[d] # Idle /\ q \in call[d].todo /\ call'[d].tenant = call[d].tenant
          /\ call'[d].new = call[d].new
      BY <1>1, <1>3, <1>8 DEF IInv, CallInv
    <2>2. /\ TenantOf[q] = call[d].tenant
          /\ Ledger!RecordStep(LedgerView(visible[q]), LedgerView(call[d].new))
      BY <2>1 DEF IInv, CallInv
    <2>3. q # r
      <3>1. CASE d = c BY <3>1, <1>3, <1>8
      <3>2. CASE d # c BY <3>2, <2>1, <2>2, <1>1 DEF IInv, LockInv
      <3> QED BY <3>1, <3>2
    <2>4. q \in Runs BY <2>1, <2>3 DEF IInv, TypeOK, Call
    <2> QED BY <1>8, <2>1, <2>2, <2>3, <2>4
  <1>11. TokenInv' BY <1>1, <1>3, <1>5, <1>8 DEF IInv, TokenInv
  <1>12. KindInv' BY <1>1, <1>3, <1>8 DEF IInv, KindInv
  <1> QED BY <1>7, <1>9, <1>10, <1>11, <1>12 DEF IInv

LEMMA SyncDirKeeps == ASSUME IInv, NEW c \in Clients, SyncDir(c) PROVE IInv'
  <1>1. call[c] \in Call /\ call[c] # Idle BY DEF SyncDir, IInv, TypeOK
  <1> DEFINE after == [call[c] EXCEPT !.dirty = FALSE]
  <1>2. /\ after \in Call /\ after.todo = call[c].todo /\ after.tenant = call[c].tenant
        /\ after.new = call[c].new /\ after.kind = call[c].kind
    BY <1>1 DEF Call
  <1>3. /\ call' = [call EXCEPT ![c] = after] /\ visible' = visible /\ drawn' = drawn
        /\ held' = held /\ known' = known /\ clock' = clock /\ acked' = acked
    BY DEF SyncDir
  <1>4. /\ onDisk' \in [Runs -> Record \cup {Absent}]
        /\ \A r \in Runs : onDisk'[r] \in {onDisk[r], visible[r]}
    BY DEF SyncDir, Synced, IInv, TypeOK
  <1> HIDE DEF after
  <1>5. TypeOK' BY <1>2, <1>3, <1>4 DEF IInv, TypeOK
  <1>6. call'[c] = after /\ \A d \in Clients \ {c} : call'[d] = call[d]
    BY <1>3 DEF IInv, TypeOK
  <1>7. LockInv' BY <1>1, <1>2, <1>6 DEF IInv, LockInv
  <1>8. CallInv' BY <1>1, <1>2, <1>3, <1>6 DEF IInv, CallInv
  <1>9. TokenInv' BY <1>1, <1>2, <1>3, <1>4, <1>6 DEF IInv, TokenInv
  <1>10. KindInv' BY <1>1, <1>2, <1>6 DEF IInv, KindInv
  <1> QED BY <1>5, <1>7, <1>8, <1>9, <1>10 DEF IInv

LEMMA ReturnKeeps == ASSUME IInv, NEW c \in Clients, Return(c) PROVE IInv'
  <1>1. call[c] \in Call /\ call[c] # Idle BY DEF Return, IInv, TypeOK
  <1> DEFINE new == call[c].new
             S == call[c].done
  <1>2. new \in Slot BY <1>1 DEF Call, Slot
  <1>3. /\ onDisk' \in [Runs -> Record \cup {Absent}]
        /\ \A r \in Runs : onDisk'[r] \in {onDisk[r], visible[r]}
    BY DEF Return, Synced, IInv, TypeOK
  <1>4. /\ call' = [call EXCEPT ![c] = Idle] /\ visible' = visible /\ drawn' = drawn
        /\ clock' = clock
    BY DEF Return
  <1>5. acked' \in [Runs -> Record \cup {Absent, Unknown}]
    BY <1>2 DEF Return, IInv, TypeOK, Slot
  <1>6. call[c].kind \in {"acquire", "append"} => new \in Record
    BY <1>1, <1>2 DEF IInv, KindInv, Slot
  <1>7. held' \in [Clients -> [Runs -> Nat]]
    BY <1>6, RecordTypes DEF Return, IInv, TypeOK
  <1>8. known' \in [Clients -> [Runs -> Snapshot \cup {Unknown}]]
    BY <1>6, RecordTypes DEF Return, IInv, TypeOK, Snapshot
  <1>9. TypeOK' BY <1>3, <1>4, <1>5, <1>7, <1>8 DEF IInv, TypeOK
  <1> QED BY <1>3, <1>4, <1>9, EndKeeps DEF IInv, TypeOK

(* An error, a dying process, the kernel's write-back and the clock.       *)
LEMMA EnvironmentKeeps ==
    ASSUME IInv,
           \/ \E c \in Clients : FailCall(c) \/ Crash(c) \/ \E r \in Runs : load(c, r)
           \/ \E r \in Runs : WriteBack(r)
           \/ SetClock
    PROVE  IInv'
  <1>1. ASSUME NEW c \in Clients, FailCall(c) PROVE IInv'
    <2>1. TypeOK' BY <1>1 DEF IInv, TypeOK, FailCall
    <2> QED BY <1>1, <2>1, EndKeeps DEF IInv, TypeOK, FailCall
  <1>2. ASSUME NEW c \in Clients, Crash(c) PROVE IInv'
    <2>1. TypeOK' BY <1>2 DEF IInv, TypeOK, Crash, NoToken
    <2> QED BY <1>2, <2>1, EndKeeps DEF IInv, TypeOK, Crash
  <1>3. ASSUME NEW c \in Clients, NEW r \in Runs, load(c, r) PROVE IInv'
    <2>1. visible[r] \in Record BY <1>3, Stored DEF load
    <2>2. [revision |-> visible[r].revision, state |-> visible[r].state] \in Snapshot
      BY <2>1, RecordTypes DEF Snapshot
    <2>3. TypeOK' BY <1>3, <2>2 DEF IInv, TypeOK, load
    <2> QED BY <1>3, <2>3, EndKeeps DEF IInv, TypeOK, load
  <1>4. ASSUME NEW r \in Runs, WriteBack(r) PROVE IInv'
    <2>1. TypeOK' BY <1>4 DEF IInv, TypeOK, WriteBack
    <2> QED BY <1>4, <2>1, EndKeeps DEF IInv, TypeOK, WriteBack
  <1>5. CASE SetClock
    <2>1. TypeOK' BY <1>5, ConstantsAssumption DEF IInv, TypeOK, SetClock
    <2> QED BY <1>5, <2>1, EndKeeps DEF IInv, TypeOK, SetClock
  <1> QED BY <1>1, <1>2, <1>3, <1>4, <1>5

LEMMA PowerLossKeeps == ASSUME IInv, PowerLoss PROVE IInv'
  <1>1. /\ \A r \in Runs : visible'[r] \in {visible[r], onDisk[r]}
        /\ visible' \in [Runs -> Record \cup {Absent}] /\ onDisk' = visible'
    BY DEF PowerLoss, IInv, TypeOK
  <1>2. /\ \A d \in Clients : call'[d] = Idle
        /\ call' \in [Clients -> Call \cup {Idle}]
    BY DEF PowerLoss
  <1>3. TypeOK' BY <1>1, <1>2 DEF PowerLoss, IInv, TypeOK, NoToken
  <1>4. LockInv' /\ CallInv' /\ KindInv' BY <1>2 DEF LockInv, CallInv, KindInv
  <1>5. TokenInv' BY <1>1, <1>2 DEF PowerLoss, IInv, TokenInv
  <1> QED BY <1>3, <1>4, <1>5 DEF IInv

LEMMA DeletionsKeep ==
    ASSUME IInv, NEW c \in Clients,
           \/ \E r \in Runs : delete_run(c, r)
           \/ \E t \in Tenants : delete_tenant(c, t) \/ apply_retention(c, t)
    PROVE  IInv'
  <1>1. ASSUME NEW r \in Runs, delete_run(c, r) PROVE IInv'
    <2> DEFINE t == TenantOf[r]
               S == {r}
               kind == "delete_run"
               dirty == FALSE
    <2>1. /\ t \in Tenants /\ S \in SUBSET Runs /\ dirty \in BOOLEAN
          /\ kind \in Kinds \ {"acquire", "append"}
      BY DEF Tenants, Kinds
    <2>2. /\ Begin(c, kind, t, S, Absent, dirty) /\ Lock(c, t) /\ drawn' = drawn
          /\ \A q \in S : TenantOf[q] = t /\ visible[q] # Absent
      BY <1>1 DEF delete_run, Write
    <2> HIDE DEF t, S, kind, dirty
    <2> QED BY <2>1, <2>2, RemovalKeeps
  <1>2. ASSUME NEW t \in Tenants, delete_tenant(c, t) PROVE IInv'
    <2> DEFINE S == {r \in RunsOf(t) : visible[r] # Absent}
               kind == "delete_tenant"
               dirty == TRUE
    <2>1. /\ S \in SUBSET Runs /\ dirty \in BOOLEAN /\ kind \in Kinds \ {"acquire", "append"}
      BY DEF RunsOf, Kinds
    <2>2. /\ Begin(c, kind, t, S, Absent, dirty) /\ Lock(c, t) /\ drawn' = drawn
          /\ \A q \in S : TenantOf[q] = t /\ visible[q] # Absent
      BY <1>2 DEF delete_tenant, RunsOf
    <2> HIDE DEF S, kind, dirty
    <2> QED BY <2>1, <2>2, RemovalKeeps
  <1>3. ASSUME NEW t \in Tenants, apply_retention(c, t) PROVE IInv'
    <2>0. PICK cutoff \in 1..MaxTime :
             Begin(c, "retention", t, {r \in RunsOf(t) : Expired(r, cutoff)}, Absent, FALSE)
      BY <1>3 DEF apply_retention
    <2> DEFINE S == {r \in RunsOf(t) : Expired(r, cutoff)}
               kind == "retention"
               dirty == FALSE
    <2>1. /\ S \in SUBSET Runs /\ dirty \in BOOLEAN /\ kind \in Kinds \ {"acquire", "append"}
      BY DEF RunsOf, Kinds
    <2>2. /\ Begin(c, kind, t, S, Absent, dirty) /\ Lock(c, t) /\ drawn' = drawn
          /\ \A q \in S : TenantOf[q] = t /\ visible[q] # Absent
      BY <1>3, <2>0 DEF apply_retention, RunsOf, Expired
    <2> HIDE DEF S, kind, dirty
    <2> QED BY <2>1, <2>2, RemovalKeeps
  <1> QED BY <1>1, <1>2, <1>3

(* The invariant is inductive.                                             *)
LEMMA InitIInv == Init => IInv
  <1> SUFFICES ASSUME Init PROVE IInv OBVIOUS
  <1>1. TypeOK BY DEF Init, TypeOK, NoToken
  <1>2. LockInv /\ CallInv /\ KindInv BY DEF Init, LockInv, CallInv, KindInv
  <1>3. TokenInv BY DEF Init, TokenInv, TokensUpTo
  <1> QED BY <1>1, <1>2, <1>3 DEF IInv

LEMMA NextIInv == IInv /\ [Next]_vars => IInv'
  <1> SUFFICES ASSUME IInv, [Next]_vars PROVE IInv' OBVIOUS
  <1>1. ASSUME NEW c \in Clients, NEW r \in Runs,
               \/ create(c, r) \/ append(c, r) \/ acquire_lease(c, r)
               \/ renew_lease(c, r) \/ release_lease(c, r) \/ Rename(c, r)
        PROVE  IInv'
    BY <1>1, CreateKeeps, AppendKeeps, AcquireKeeps, RenewKeeps, ReleaseKeeps, RenameKeeps
  <1>2. ASSUME NEW c \in Clients, SyncDir(c) \/ Return(c) PROVE IInv'
    BY <1>2, SyncDirKeeps, ReturnKeeps
  <1>3. CASE UNCHANGED vars
    <2>1. TypeOK' BY <1>3 DEF IInv, TypeOK, vars
    <2> QED BY <1>3, <2>1, EndKeeps DEF IInv, TypeOK, vars
  <1>4. CASE Next
    BY <1>1, <1>2, <1>4, EnvironmentKeeps, PowerLossKeeps, DeletionsKeep DEF Next
  <1> QED BY <1>3, <1>4

(* Every variable of the store keeps its type, for any constants.          *)
THEOREM StoreTypes == Spec => []TypeOK
  <1>1. IInv => TypeOK BY DEF IInv
  <1> QED BY <1>1, InitIInv, NextIInv, PTL DEF Spec

--------------------------------------------------------------------------------
(* The store implements the ledger.                                        *)

ledgerView == [r \in Runs |-> LedgerView(visible[r])]
stableView == [r \in Runs |-> LedgerView(onDisk[r])]

(* The rename of a call is the effect of its operation on one run.         *)
LEMMA RenameIsEffect ==
    ASSUME IInv, NEW c \in Clients, NEW r \in Runs, Rename(c, r)
    PROVE  Ledger!Next
  <1>1. /\ call[c] \in Call /\ call[c] # Idle /\ r \in call[c].todo
        /\ visible' = [visible EXCEPT ![r] = call[c].new] /\ onDisk' = onDisk
    BY DEF Rename, IInv, TypeOK
  <1>2. call[c].new \in Slot BY <1>1 DEF Call, Slot
  <1>3. visible'[r] = call[c].new BY <1>1 DEF IInv, TypeOK
  <1>4. /\ LedgerView(visible'[r]) \in Ledger!LedgerRecord \cup {Absent}
        /\ Ledger!RecordStep(LedgerView(visible[r]), LedgerView(visible'[r]))
    BY <1>1, <1>2, <1>3, ViewType DEF IInv, CallInv
  <1>5. \A q \in Runs \ {r} : visible'[q] = visible[q]
    BY <1>1 DEF IInv, TypeOK
  <1>6. ledgerView' = [ledgerView EXCEPT ![r] = ledgerView'[r]]
    BY <1>5 DEF ledgerView
  <1>7. stableView' = stableView BY <1>1 DEF stableView
  <1>8. Ledger!Effect(r)
    BY <1>4, <1>6, <1>7 DEF Ledger!Effect, ledgerView, stableView
  <1> QED BY <1>8 DEF Ledger!Next

(* Syncing a directory or an entry settles what is visible.                *)
LEMMA SyncIsSettle ==
    ASSUME IInv, visible' = visible, NEW S \in SUBSET Runs,
           onDisk' = [r \in Runs |-> IF r \in S THEN visible[r] ELSE onDisk[r]]
    PROVE  Ledger!Next
  <1>1. Ledger!Settle(S) BY DEF Ledger!Settle
  <1> QED BY <1>1 DEF Ledger!Next

(* A power loss is a rollback of some entries.                             *)
LEMMA PowerLossIsRollback ==
    ASSUME IInv, PowerLoss PROVE Ledger!Next
  <1>1. PICK S \in SUBSET Runs :
           visible' = [r \in Runs |-> IF r \in S THEN onDisk[r] ELSE visible[r]]
    BY DEF PowerLoss
  <1>2. onDisk' = visible' BY DEF PowerLoss
  <1>3. Ledger!Rollback(S) BY <1>1, <1>2 DEF Ledger!Rollback
  <1> QED BY <1>3 DEF Ledger!Next

LEMMA SyncDirIsSettle ==
    ASSUME IInv, NEW c \in Clients, SyncDir(c) \/ Return(c) PROVE Ledger!Next
  <1> DEFINE S == {r \in Runs : TenantOf[r] = call[c].tenant}
  <1>1. onDisk' = [r \in Runs |-> IF r \in S THEN visible[r] ELSE onDisk[r]]
    BY DEF SyncDir, Return, Synced
  <1>2. visible' = visible /\ S \in SUBSET Runs BY DEF SyncDir, Return
  <1> HIDE DEF S
  <1> QED BY <1>1, <1>2, SyncIsSettle

LEMMA WriteBackIsSettle ==
    ASSUME IInv, NEW q \in Runs, WriteBack(q) PROVE Ledger!Next
  <1> DEFINE S == {q}
  <1>1. onDisk' = [r \in Runs |-> IF r \in S THEN visible[r] ELSE onDisk[r]]
    BY DEF WriteBack, IInv, TypeOK
  <1>2. visible' = visible /\ S \in SUBSET Runs BY DEF WriteBack
  <1> HIDE DEF S
  <1> QED BY <1>1, <1>2, SyncIsSettle

(* Every step of the store is a step of the ledger or changes neither view.*)
LEMMA StepSimulation == IInv /\ [Next]_vars => [Ledger!Next]_(Ledger!vars)
  <1> SUFFICES ASSUME IInv, [Next]_vars PROVE Ledger!Next \/ UNCHANGED Ledger!vars
    OBVIOUS
  <1>1. CASE visible' = visible /\ onDisk' = onDisk
    BY <1>1 DEF Ledger!vars
  <1>2. ASSUME NEW c \in Clients, NEW r \in Runs,
               \/ create(c, r) \/ load(c, r) \/ append(c, r)
               \/ acquire_lease(c, r) \/ renew_lease(c, r) \/ release_lease(c, r)
               \/ delete_run(c, r)
        PROVE  visible' = visible /\ onDisk' = onDisk
    BY <1>2 DEF create, load, append, acquire_lease, renew_lease, release_lease, delete_run,
                Write, Begin
  <1>3. ASSUME NEW c \in Clients, NEW t \in Tenants,
               delete_tenant(c, t) \/ apply_retention(c, t)
        PROVE  visible' = visible /\ onDisk' = onDisk
    BY <1>3 DEF delete_tenant, apply_retention, Begin
  <1>4. ASSUME NEW c \in Clients, FailCall(c) \/ Crash(c)
        PROVE  visible' = visible /\ onDisk' = onDisk
    BY <1>4 DEF FailCall, Crash
  <1>5. CASE SetClock \/ UNCHANGED vars
    BY <1>1, <1>5 DEF SetClock, vars
  <1> QED
    BY <1>1, <1>2, <1>3, <1>4, <1>5, RenameIsEffect, SyncDirIsSettle, WriteBackIsSettle,
       PowerLossIsRollback DEF Next

(* The filesystem store implements the fenced, append-only, crash-stable   *)
(* ledger, whatever hosts, tenants, failures and clock steps.              *)
THEOREM StoreImplementsLedger == Spec => ImplementsLedger
  <1>1. Init => Ledger!Init BY DEF Init, Ledger!Init, LedgerView
  <1> QED BY <1>1, InitIInv, NextIInv, StepSimulation, PTL
          DEF Spec, ImplementsLedger, Ledger!Spec

LedgerProofs == INSTANCE RunLedgerProofs WITH
    ledger <- [r \in Runs |-> LedgerView(visible[r])],
    stable <- [r \in Runs |-> LedgerView(onDisk[r])]

(* The two copies of the ledger's definitions agree.                       *)
LEMMA LedgerIsLedger == ImplementsLedger => LedgerProofs!Spec
  <1>1. Ledger!Init => LedgerProofs!Init
    BY DEF Ledger!Init, LedgerProofs!Init
  <1>2. ASSUME NEW old, NEW new PROVE Ledger!RecordStep(old, new) <=> LedgerProofs!RecordStep(old, new)
    BY DEF Ledger!RecordStep, Ledger!CreateStep, Ledger!AppendStep, Ledger!GrantStep,
           Ledger!ReleaseStep, Ledger!RenewStep, Ledger!SameDocument, Ledger!NoToken, Ledger!Batch,
           LedgerProofs!RecordStep, LedgerProofs!CreateStep, LedgerProofs!AppendStep,
           LedgerProofs!GrantStep, LedgerProofs!ReleaseStep, LedgerProofs!RenewStep,
           LedgerProofs!SameDocument, LedgerProofs!NoToken, LedgerProofs!Batch
  <1>3. [Ledger!Next]_(Ledger!vars) => [LedgerProofs!Next]_(LedgerProofs!vars)
    BY <1>2 DEF Ledger!Next, Ledger!vars, Ledger!Effect, Ledger!Transaction, Ledger!Settle, Ledger!Rollback,
           Ledger!LedgerRecord, Ledger!LedgerEvent,
           LedgerProofs!Next, LedgerProofs!vars, LedgerProofs!Effect, LedgerProofs!Transaction,
           LedgerProofs!Settle, LedgerProofs!Rollback, LedgerProofs!LedgerRecord, LedgerProofs!LedgerEvent
  <1> QED BY <1>1, <1>3, PTL DEF ImplementsLedger, Ledger!Spec, LedgerProofs!Spec

(* What implements the ledger is fenced: LedgerFenced, carried over.       *)
LEMMA LedgerIsFenced == ImplementsLedger => []LogFenced
  <1>1. LedgerProofs!FencedLog => Ledger!FencedLog
    BY DEF Ledger!FencedLog, Ledger!Fenced, Ledger!NoToken,
           LedgerProofs!FencedLog, LedgerProofs!Fenced, LedgerProofs!NoToken
  <1>2. LedgerProofs!Spec => []LedgerProofs!FencedLog BY LedgerProofs!LedgerFenced
  <1> QED BY <1>1, <1>2, LedgerIsLedger, PTL DEF LogFenced

(* A superseded lease never writes a run's file again: the ledger's        *)
(* fencing, carried over by the refinement.                                *)
THEOREM StoreFenced == Spec => []LogFenced
  BY StoreImplementsLedger, LedgerIsFenced, PTL

--------------------------------------------------------------------------------
(* Records are kept.  The state of a record counts its events (TallyInv);  *)
(* a host that can append knows the record or is behind it (KnownInv),     *)
(* since nobody has a token that is yet to be stored (HeldInv, GrantInv);  *)
(* what a call has done stays until it returns (DoneInv), so that what it  *)
(* acknowledges is in the file and on disk (AckInv).                       *)
Tally(rec) ==
    rec # Absent => rec.state = rec.event_sequence /\ Len(rec.events) <= rec.event_sequence

TallyInv ==
    /\ \A r \in Runs : Tally(visible[r]) /\ Tally(onDisk[r])
    /\ \A c \in Clients : call[c] # Idle => Tally(call[c].new)

HeldInv == \A c \in Clients, r \in Runs : held[c][r] <= drawn

(* A token a call is about to store is no token, the stored one, or a new  *)
(* one.                                                                    *)
Granted(new, r) ==
    \/ new = Absent \/ new.token = NoToken
    \/ visible[r] # Absent /\ new.token = visible[r].token
    \/ \A d \in Clients : held[d][r] # new.token

GrantInv == \A c \in Clients : call[c] # Idle => \A r \in call[c].todo : Granted(call[c].new, r)

KnownInv ==
    \A c \in Clients, r \in Runs :
        /\ known[c][r] # Unknown /\ visible[r] # Absent
        /\ held[c][r] # NoToken /\ held[c][r] = visible[r].token
        => /\ known[c][r].revision <= visible[r].revision
           /\ known[c][r].revision = visible[r].revision => known[c][r].state = visible[r].state

DoneInv ==
    \A c \in Clients : call[c] # Idle =>
        /\ \A r \in call[c].done : TenantOf[r] = call[c].tenant /\ visible[r] = call[c].new
        /\ call[c].kind = "delete_tenant" =>
              /\ call[c].new = Absent
              /\ \A r \in Runs : TenantOf[r] = call[c].tenant /\ r \notin call[c].todo => visible[r] = Absent

(* The record has all that was acknowledged.                               *)
Extends(rec, old) ==
    /\ rec.revision >= old.revision
    /\ Len(rec.events) >= Len(old.events)
    /\ \A i \in 1..Len(old.events) : rec.events[i] = old.events[i]

Covers(rec, ack) ==
    /\ ack = Absent => rec = Absent
    /\ ack \notin {Absent, Unknown} => rec # Absent /\ Extends(rec, ack)

AckInv == \A r \in Runs : Covers(visible[r], acked[r]) /\ Covers(onDisk[r], acked[r])

KInv == TallyInv /\ HeldInv /\ GrantInv /\ KnownInv /\ DoneInv /\ AckInv

(* An operation that leaves a record only adds to it.                      *)
LEMMA StepExtends ==
    ASSUME NEW old \in Record, NEW new \in Record,
           Ledger!RecordStep(LedgerView(old), LedgerView(new))
    PROVE  /\ Extends(new, old)
           /\ \/ new.revision = old.revision + 1
              \/ new.revision = old.revision /\ new.state = old.state
  <1>1. old # Absent /\ new # Absent /\ LedgerView(old) # Absent /\ LedgerView(new) # Absent
    BY AbsentAssumption, ViewType DEF Slot
  <1>2. /\ LedgerView(old).revision = old.revision /\ LedgerView(old).state = old.state
        /\ LedgerView(old).events = old.events /\ LedgerView(old).event_sequence = old.event_sequence
        /\ LedgerView(old).token = old.token
        /\ LedgerView(new).revision = new.revision /\ LedgerView(new).state = new.state
        /\ LedgerView(new).events = new.events /\ LedgerView(new).event_sequence = new.event_sequence
    BY <1>1 DEF LedgerView
  <1>3. /\ old.events \in Seq(StoredEvent) /\ Len(old.events) \in Nat
        /\ old.revision \in Nat /\ old.event_sequence \in Nat /\ old.token \in Nat /\ new.event_sequence \in Nat
    BY RecordTypes
  <1>4. CASE Ledger!SameDocument(LedgerView(old), LedgerView(new))
    BY <1>2, <1>3, <1>4 DEF Ledger!SameDocument, Extends
  <1>5. CASE Ledger!AppendStep(LedgerView(old), LedgerView(new))
    <2> DEFINE k == new.event_sequence - old.event_sequence
               b == Ledger!Batch(old.event_sequence, k, old.token)
    <2>1. k \in Nat /\ new.events = old.events \o b /\ new.revision = old.revision + 1
      BY <1>2, <1>3, <1>5 DEF Ledger!AppendStep
    <2> HIDE DEF k
    <2>2. b \in Seq(StoredEvent) /\ Len(b) = k
      <3>1. \A i \in 1..k : [sequence |-> old.event_sequence + i, token |-> old.token] \in StoredEvent
        BY <1>3, <2>1 DEF StoredEvent
      <3>2. b \in [1..k -> StoredEvent] BY <3>1 DEF Ledger!Batch
      <3>3. b \in Seq(StoredEvent) BY <2>1, <3>2, SeqDef
      <3> QED BY <2>1, <3>2, <3>3, LenProperties
    <2> HIDE DEF b
    <2>3. /\ Len(new.events) = Len(old.events) + k
          /\ \A i \in 1..(Len(old.events) + k) :
                (old.events \o b)[i] = IF i <= Len(old.events) THEN old.events[i] ELSE b[i - Len(old.events)]
      BY <1>3, <2>1, <2>2, ConcatProperties
    <2>4. ASSUME NEW i \in 1..Len(old.events) PROVE new.events[i] = old.events[i]
      <3>1. i \in 1..(Len(old.events) + k) /\ i <= Len(old.events) BY <1>3, <2>1
      <3> QED BY <2>1, <2>3, <3>1
    <2> QED BY <1>3, <2>1, <2>3, <2>4 DEF Extends
  <1> QED BY <1>1, <1>4, <1>5 DEF Ledger!RecordStep, Ledger!GrantStep, Ledger!ReleaseStep, Ledger!RenewStep

LEMMA ExtendsOrder ==
    /\ \A rec \in Record : Extends(rec, rec)
    /\ \A a, b, c \in Record : Extends(b, a) /\ Extends(c, b) => Extends(c, a)
  <1>1. \A rec \in Record : rec.revision \in Nat /\ Len(rec.events) \in Nat BY RecordTypes
  <1>2. \A rec \in Record : Extends(rec, rec) BY <1>1 DEF Extends
  <1>3. ASSUME NEW a \in Record, NEW b \in Record, NEW c \in Record, Extends(b, a), Extends(c, b)
        PROVE  Extends(c, a)
    <2>1. /\ c.revision >= a.revision /\ Len(c.events) >= Len(a.events) /\ Len(b.events) >= Len(a.events)
      BY <1>1, <1>3 DEF Extends
    <2>2. ASSUME NEW i \in 1..Len(a.events) PROVE c.events[i] = a.events[i]
      <3>1. i \in 1..Len(b.events) BY <1>1, <2>1
      <3> QED BY <3>1, <1>3 DEF Extends
    <2> QED BY <2>1, <2>2 DEF Extends
  <1> QED BY <1>2, <1>3

(* Starting a call.                                                        *)
LEMMA BeginKept ==
    ASSUME IInv, IInv', KInv, NEW c \in Clients, NEW kind \in Kinds, NEW t \in Tenants,
           NEW S \in SUBSET Runs, NEW new \in Slot, NEW dirty \in BOOLEAN,
           Begin(c, kind, t, S, new, dirty), drawn <= drawn',
           Tally(new), \A r \in S : Granted(new, r),
           kind = "delete_tenant" =>
              /\ new = Absent
              /\ \A r \in Runs : TenantOf[r] = t /\ r \notin S => visible[r] = Absent
    PROVE  KInv'
  <1> DEFINE newcall == [kind |-> kind, tenant |-> t, todo |-> S, done |-> {},
                         new |-> new, dirty |-> dirty]
  <1>1. /\ visible' = visible /\ onDisk' = onDisk /\ held' = held /\ known' = known
        /\ acked' = acked /\ call' = [call EXCEPT ![c] = newcall]
    BY DEF Begin
  <1>2. /\ newcall.tenant = t /\ newcall.todo = S /\ newcall.new = new /\ newcall.kind = kind
        /\ newcall.done = {}
    OBVIOUS
  <1> HIDE DEF newcall
  <1>3. call'[c] = newcall /\ \A d \in Clients \ {c} : call'[d] = call[d] BY <1>1 DEF IInv, TypeOK
  <1>4. TallyInv' BY <1>1, <1>2, <1>3 DEF KInv, TallyInv
  <1>5. HeldInv'
    <2>1. \A d \in Clients, r \in Runs : held[d][r] \in Nat BY DEF IInv, TypeOK
    <2>2. drawn \in Nat /\ drawn' \in Nat BY DEF IInv, TypeOK
    <2> QED BY <1>1, <2>1, <2>2 DEF KInv, HeldInv
  <1>6. GrantInv' BY <1>1, <1>2, <1>3 DEF KInv, GrantInv, Granted
  <1>7. KnownInv' BY <1>1 DEF KInv, KnownInv
  <1>8. DoneInv' BY <1>1, <1>2, <1>3 DEF KInv, DoneInv
  <1>9. AckInv' BY <1>1 DEF KInv, AckInv
  <1> QED BY <1>4, <1>5, <1>6, <1>7, <1>8, <1>9 DEF KInv

LEMMA WriteKept ==
    ASSUME IInv, IInv', KInv, NEW c \in Clients, NEW kind \in Kinds \ {"delete_tenant"}, NEW r \in Runs,
           NEW new \in Slot, Write(c, kind, r, new), drawn <= drawn', Tally(new), Granted(new, r)
    PROVE  KInv'
  <1> DEFINE t == TenantOf[r]
             S == {r}
             dirty == FALSE
  <1>1. t \in Tenants /\ S \in SUBSET Runs /\ dirty \in BOOLEAN BY DEF Tenants
  <1>2. Begin(c, kind, t, S, new, dirty) BY DEF Write
  <1>3. \A q \in S : Granted(new, q) OBVIOUS
  <1> HIDE DEF t, S, dirty
  <1> QED BY <1>1, <1>2, <1>3, BeginKept

LEMMA CreateKept ==
    ASSUME IInv, IInv', KInv, NEW c \in Clients, NEW r \in Runs, create(c, r) PROVE KInv'
  <1>1. PICK n \in Starts, retain \in Retains :
           Write(c, "create", r,
                 [revision |-> n, event_sequence |-> n, state |-> n, retain_until |-> retain,
                  events |-> <<>>, token |-> NoToken, expires |-> 0])
    BY DEF create
  <1> DEFINE new == [revision |-> n, event_sequence |-> n, state |-> n,
                     retain_until |-> retain, events |-> <<>>,
                     token |-> NoToken, expires |-> 0]
  <1>2. n \in Nat /\ retain \in Nat BY ConstantsAssumption
  <1>3. <<>> \in Seq(StoredEvent) /\ Len(<<>>) = 0 BY EmptySeq
  <1>4. new \in Record BY <1>2, <1>3 DEF Record, NoToken
  <1>5. /\ new.events = <<>> /\ new.token = NoToken /\ new.state = n /\ new.event_sequence = n
        /\ Write(c, "create", r, new)
    BY <1>1
  <1> HIDE DEF new
  <1>6. Tally(new) BY <1>2, <1>3, <1>5 DEF Tally
  <1>7. Granted(new, r) BY <1>5 DEF Granted
  <1>8. drawn <= drawn' BY DEF create, IInv, TypeOK
  <1> QED BY <1>4, <1>5, <1>6, <1>7, <1>8, WriteKept DEF Kinds, Slot

(* An append to a record whose state is known adds as many events as it    *)
(* counts.                                                                 *)
LEMMA AppendTally ==
    ASSUME NEW rec \in Record, NEW token \in Nat, NEW snap, NEW k \in Nat, NEW retain \in Nat,
           Tally(rec), snap.state = rec.state
    PROVE  Tally(prepare_append(rec, token, snap, k, retain))
  <1> DEFINE new == prepare_append(rec, token, snap, k, retain)
             b == [i \in 1..k |-> [sequence |-> rec.event_sequence + i, token |-> token]]
  <1>1. rec.state = rec.event_sequence /\ Len(rec.events) <= rec.event_sequence
    BY AbsentAssumption DEF Tally
  <1>2. new.state = rec.state + k /\ new.event_sequence = rec.event_sequence + k
        /\ new.events = rec.events \o b
    BY DEF prepare_append
  <1>3. /\ rec.events \in Seq(StoredEvent) /\ rec.event_sequence \in Nat /\ Len(rec.events) \in Nat
    BY RecordTypes
  <1>4. b \in Seq(StoredEvent) /\ Len(b) = k
    <2>1. \A i \in 1..k : [sequence |-> rec.event_sequence + i, token |-> token] \in StoredEvent
      BY <1>3 DEF StoredEvent
    <2>2. b \in [1..k -> StoredEvent] BY <2>1
    <2>3. b \in Seq(StoredEvent) BY <2>2, SeqDef
    <2> QED BY <2>2, <2>3, LenProperties
  <1> HIDE DEF b, new
  <1>5. Len(new.events) = Len(rec.events) + k
    <2>1. Len(rec.events \o b) = Len(rec.events) + Len(b) BY <1>3, <1>4, ConcatProperties
    <2> QED BY <1>2, <1>4, <2>1
  <1>6. Tally(new) BY <1>1, <1>2, <1>3, <1>5 DEF Tally
  <1> QED BY <1>6 DEF new

LEMMA AppendKept ==
    ASSUME IInv, IInv', KInv, NEW c \in Clients, NEW r \in Runs, append(c, r) PROVE KInv'
  <1>1. PICK k \in BatchSizes, retain \in Retains :
           Write(c, "append", r, prepare_append(visible[r], held[c][r], known[c][r], k, retain))
    BY DEF append
  <1>2. k \in Nat /\ retain \in Nat BY ConstantsAssumption
  <1>3. known[c][r] \in Snapshot BY DEF append, IInv, TypeOK
  <1>4. visible[r] \in Record /\ visible[r] # Absent BY Stored DEF append
  <1>5. /\ visible[r].token # NoToken /\ held[c][r] = visible[r].token /\ known[c][r] # Unknown
        /\ visible[r].revision = known[c][r].revision /\ drawn' = drawn
    BY DEF append, check_lease
  <1>6. TokensUpTo(visible[r], drawn) /\ drawn \in Nat BY <1>4, Stored
  <1> DEFINE new == prepare_append(visible[r], held[c][r], known[c][r], k, retain)
  <1>7. new \in Record BY <1>2, <1>3, <1>4, <1>5, <1>6, PrepareAppend
  <1>8. known[c][r].state = visible[r].state BY <1>4, <1>5 DEF KInv, KnownInv
  <1>9. Tally(new)
    <2>1. Tally(visible[r]) BY DEF KInv, TallyInv
    <2>2. held[c][r] \in Nat BY DEF IInv, TypeOK
    <2> QED BY <1>2, <1>4, <1>8, <2>1, <2>2, AppendTally
  <1>10. Granted(new, r) BY <1>4 DEF Granted, prepare_append
  <1>11. Write(c, "append", r, new) BY <1>1
  <1> HIDE DEF new
  <1> QED BY <1>5, <1>6, <1>7, <1>9, <1>10, <1>11, WriteKept DEF Kinds, Slot

(* acquire_lease, renew_lease and release_lease leave the document alone.  *)
LEMMA LeaseKept ==
    ASSUME IInv, IInv', KInv, NEW c \in Clients, NEW r \in Runs,
           acquire_lease(c, r) \/ renew_lease(c, r) \/ release_lease(c, r)
    PROVE  KInv'
  <1>1. visible[r] \in Record /\ visible[r] # Absent /\ drawn \in Nat /\ clock \in Nat
    BY Stored DEF acquire_lease, renew_lease, release_lease
  <1>2. ASSUME NEW token \in Nat, NEW expires \in Nat, NEW kind \in {"acquire", "renew", "release"},
               Write(c, kind, r, WithLease(visible[r], token, expires)), drawn <= drawn',
               \/ token = NoToken \/ token = visible[r].token
               \/ \A d \in Clients : held[d][r] # token
        PROVE  KInv'
    <2> DEFINE new == WithLease(visible[r], token, expires)
    <2>1. /\ new \in Record /\ new.token = token /\ new.state = visible[r].state
          /\ new.event_sequence = visible[r].event_sequence /\ new.events = visible[r].events
      BY <1>1 DEF Record, WithLease
    <2>2. Write(c, kind, r, new) BY <1>2
    <2> HIDE DEF new
    <2>3. Tally(new) BY <1>1, <2>1 DEF KInv, TallyInv, Tally
    <2>4. Granted(new, r) BY <1>1, <1>2, <2>1 DEF Granted
    <2> QED BY <1>2, <2>1, <2>2, <2>3, <2>4, WriteKept DEF Kinds, Slot
  <1>3. CASE acquire_lease(c, r)
    <2>1. PICK ttl \in TTLs : Write(c, "acquire", r, WithLease(visible[r], drawn + 1, clock + ttl))
      BY <1>3 DEF acquire_lease
    <2>2. clock + ttl \in Nat /\ drawn + 1 \in Nat /\ drawn <= drawn'
      BY <1>1, <1>3, ConstantsAssumption DEF acquire_lease
    <2>3. \A d \in Clients : held[d][r] # drawn + 1
      <3>1. \A d \in Clients : held[d][r] \in Nat /\ held[d][r] <= drawn BY DEF KInv, HeldInv, IInv, TypeOK
      <3> QED BY <3>1, <1>1
    <2> QED BY <1>2, <2>1, <2>2, <2>3
  <1>4. CASE renew_lease(c, r)
    <2>1. PICK ttl \in TTLs : Write(c, "renew", r, WithLease(visible[r], visible[r].token, clock + ttl))
      BY <1>4 DEF renew_lease
    <2>2. clock + ttl \in Nat /\ visible[r].token \in Nat /\ drawn <= drawn'
      BY <1>1, <1>4, ConstantsAssumption, RecordTypes DEF renew_lease
    <2> QED BY <1>2, <2>1, <2>2
  <1>5. CASE release_lease(c, r)
    <2>1. Write(c, "release", r, WithLease(visible[r], NoToken, 0)) /\ drawn <= drawn'
      BY <1>1, <1>5 DEF release_lease
    <2> QED BY <1>2, <2>1 DEF NoToken
  <1> QED BY <1>3, <1>4, <1>5

LEMMA DeletionsKept ==
    ASSUME IInv, IInv', KInv, NEW c \in Clients,
           \/ \E r \in Runs : delete_run(c, r)
           \/ \E t \in Tenants : delete_tenant(c, t) \/ apply_retention(c, t)
    PROVE  KInv'
  <1>1. Tally(Absent) /\ \A r \in Runs : Granted(Absent, r) BY DEF Tally, Granted
  <1>2. drawn \in Nat /\ Absent \in Slot BY DEF IInv, TypeOK, Slot
  <1>3. ASSUME NEW r \in Runs, delete_run(c, r) PROVE KInv'
    <2>1. Write(c, "delete_run", r, Absent) /\ drawn <= drawn' BY <1>2, <1>3 DEF delete_run
    <2> QED BY <1>1, <1>2, <2>1, WriteKept DEF Kinds
  <1>4. ASSUME NEW t \in Tenants, delete_tenant(c, t) PROVE KInv'
    <2> DEFINE S == {r \in RunsOf(t) : visible[r] # Absent}
               dirty == TRUE
               kind == "delete_tenant"
    <2>1. /\ S \in SUBSET Runs /\ dirty \in BOOLEAN /\ kind \in Kinds
          /\ Begin(c, kind, t, S, Absent, dirty)
          /\ \A r \in Runs : TenantOf[r] = t /\ r \notin S => visible[r] = Absent
      BY <1>4 DEF delete_tenant, RunsOf, Kinds
    <2>2. \A r \in S : Granted(Absent, r) BY <1>1, <2>1
    <2>3. drawn <= drawn' BY <1>2, <1>4 DEF delete_tenant
    <2> HIDE DEF S, dirty, kind
    <2> QED BY <1>1, <1>2, <2>1, <2>2, <2>3, BeginKept
  <1>5. ASSUME NEW t \in Tenants, apply_retention(c, t) PROVE KInv'
    <2>0. PICK cutoff \in 1..MaxTime :
             Begin(c, "retention", t, {r \in RunsOf(t) : Expired(r, cutoff)}, Absent, FALSE)
      BY <1>5 DEF apply_retention
    <2> DEFINE S == {r \in RunsOf(t) : Expired(r, cutoff)}
               dirty == FALSE
               kind == "retention"
    <2>1. /\ S \in SUBSET Runs /\ dirty \in BOOLEAN /\ kind \in Kinds /\ kind # "delete_tenant"
          /\ Begin(c, kind, t, S, Absent, dirty)
      BY <1>5, <2>0 DEF RunsOf, Kinds
    <2>2. \A r \in S : Granted(Absent, r) BY <1>1, <2>1
    <2>3. drawn <= drawn' BY <1>2, <1>5 DEF apply_retention
    <2> HIDE DEF S, dirty, kind
    <2> QED BY <1>1, <1>2, <2>1, <2>2, <2>3, BeginKept
  <1> QED BY <1>3, <1>4, <1>5

(* The rename, under the lock.                                             *)
LEMMA RenameKept ==
    ASSUME IInv, IInv', KInv, NEW c \in Clients, NEW r \in Runs, Rename(c, r) PROVE KInv'
  <1>1. call[c] \in Call /\ r \in call[c].todo /\ call[c] # Idle BY DEF Rename, IInv, TypeOK
  <1> DEFINE new == call[c].new
             after == [call[c] EXCEPT !.todo = @ \ {r}, !.done = @ \cup {r}, !.dirty = TRUE]
  <1>2. /\ after.todo = call[c].todo \ {r} /\ after.tenant = call[c].tenant
        /\ after.new = new /\ after.kind = call[c].kind /\ after.done = call[c].done \cup {r}
    BY <1>1 DEF Call
  <1>3. /\ call' = [call EXCEPT ![c] = after] /\ visible' = [visible EXCEPT ![r] = new]
        /\ onDisk' = onDisk /\ drawn' = drawn /\ held' = held /\ known' = known
        /\ acked' = IF Absent \in {visible[r], new} THEN [acked EXCEPT ![r] = Unknown] ELSE acked
    BY DEF Rename
  <1>4. new \in Slot BY <1>1 DEF Call, Slot
  <1> HIDE DEF after, new
  <1>5. /\ call'[c] = after /\ \A d \in Clients \ {c} : call'[d] = call[d]
        /\ visible'[r] = new /\ \A q \in Runs \ {r} : visible'[q] = visible[q]
    BY <1>3 DEF IInv, TypeOK
  <1>6. /\ TenantOf[r] = call[c].tenant
        /\ Ledger!RecordStep(LedgerView(visible[r]), LedgerView(new))
    BY <1>1 DEF IInv, CallInv, new
  <1>7. ASSUME NEW d \in Clients, d # c, call[d] # Idle PROVE call[d].tenant # TenantOf[r]
    BY <1>1, <1>6, <1>7 DEF IInv, LockInv
  <1>8. ASSUME visible[r] # Absent, new # Absent
        PROVE  /\ visible[r] \in Record /\ new \in Record
               /\ Extends(new, visible[r])
               /\ \/ new.revision = visible[r].revision + 1
                  \/ new.revision = visible[r].revision /\ new.state = visible[r].state
    <2>1. visible[r] \in Record /\ new \in Record BY <1>4, <1>8 DEF IInv, TypeOK, Slot
    <2> QED BY <1>6, <2>1, StepExtends
  <1>9. Granted(new, r) BY <1>1 DEF KInv, GrantInv, new
  <1>10. TallyInv'
    <2>1. Tally(new) BY <1>1 DEF KInv, TallyInv, new
    <2>2. \A q \in Runs : Tally(visible'[q]) /\ Tally(onDisk'[q]) BY <1>3, <1>5, <2>1 DEF KInv, TallyInv
    <2>3. \A d \in Clients : call'[d] # Idle => Tally(call'[d].new) BY <1>2, <1>5, <2>1 DEF KInv, TallyInv
    <2> QED BY <2>2, <2>3 DEF TallyInv
  <1>11. HeldInv' BY <1>3 DEF KInv, HeldInv
  <1>12. GrantInv'
    <2> SUFFICES ASSUME NEW d \in Clients, call'[d] # Idle, NEW q \in call'[d].todo
                 PROVE  Granted(call[d].new, q)'
      BY DEF GrantInv
    <2>1. call[d] # Idle /\ q \in call[d].todo /\ call'[d].new = call[d].new /\ q # r
      <3>1. CASE d = c BY <3>1, <1>1, <1>2, <1>5 DEF new
      <3>2. CASE d # c BY <3>2, <1>5, <1>7 DEF IInv, CallInv
      <3> QED BY <3>1, <3>2
    <2>2. q \in Runs BY <2>1 DEF IInv, TypeOK, Call
    <2>3. Granted(call[d].new, q) BY <2>1 DEF KInv, GrantInv
    <2>4. visible'[q] = visible[q] BY <1>5, <2>1, <2>2
    <2> QED BY <1>3, <2>1, <2>3, <2>4 DEF Granted
  <1>13. KnownInv'
    <2> SUFFICES ASSUME NEW d \in Clients, NEW q \in Runs, known[d][q] # Unknown, visible'[q] # Absent,
                        held[d][q] # NoToken, held[d][q] = visible'[q].token
                 PROVE  /\ known[d][q].revision <= visible'[q].revision
                        /\ known[d][q].revision = visible'[q].revision => known[d][q].state = visible'[q].state
      BY <1>3 DEF KnownInv
    <2>1. CASE q # r BY <2>1, <1>5 DEF KInv, KnownInv
    <2>2. CASE q = r
      <3>1. new # Absent /\ visible[r] # Absent /\ held[d][r] = visible[r].token /\ new.token = visible[r].token
        BY <2>2, <1>5, <1>9 DEF Granted
      <3>2. /\ known[d][r].revision <= visible[r].revision
            /\ known[d][r].revision = visible[r].revision => known[d][r].state = visible[r].state
        BY <2>2, <3>1 DEF KInv, KnownInv
      <3>3. known[d][r].revision \in Nat /\ visible[r].revision \in Nat
        <4>1. known[d][r] \in Snapshot BY <2>2 DEF IInv, TypeOK
        <4> QED BY <3>1, <4>1, <1>8, RecordTypes DEF Snapshot
      <3> QED BY <2>2, <3>1, <3>2, <3>3, <1>5, <1>8
    <2> QED BY <2>1, <2>2
  <1>14. DoneInv'
    <2> SUFFICES ASSUME NEW d \in Clients, call'[d] # Idle
                 PROVE  /\ \A q \in call'[d].done : TenantOf[q] = call'[d].tenant /\ visible'[q] = call'[d].new
                        /\ call'[d].kind = "delete_tenant" =>
                              /\ call'[d].new = Absent
                              /\ \A q \in Runs : TenantOf[q] = call'[d].tenant /\ q \notin call'[d].todo
                                                   => visible'[q] = Absent
      BY DEF DoneInv
    <2>1. CASE d = c
      <3>1. \A q \in call[c].done : q \in Runs BY <1>1 DEF Call
      <3> QED BY <2>1, <3>1, <1>1, <1>2, <1>5, <1>6 DEF KInv, DoneInv, new
    <2>2. CASE d # c
      <3>1. call'[d] = call[d] /\ call[d] # Idle /\ call[d].tenant # TenantOf[r] BY <2>2, <1>5, <1>7
      <3>2. \A q \in call[d].done : q \in Runs BY <3>1 DEF IInv, TypeOK, Call
      <3> QED BY <3>1, <3>2, <1>5 DEF KInv, DoneInv
    <2> QED BY <2>1, <2>2
  <1>15. AckInv'
    <2> SUFFICES ASSUME NEW q \in Runs PROVE Covers(visible'[q], acked'[q]) /\ Covers(onDisk'[q], acked'[q])
      BY DEF AckInv
    <2>0. acked \in [Runs -> Record \cup {Absent, Unknown}] BY DEF IInv, TypeOK
    <2>1. CASE q # r
      <3>1. acked'[q] = acked[q] /\ visible'[q] = visible[q] BY <2>0, <2>1, <1>3, <1>5
      <3> QED BY <3>1, <1>3 DEF KInv, AckInv
    <2>2. CASE q = r /\ (visible[r] = Absent \/ new = Absent)
      <3>1. acked'[r] = Unknown BY <2>0, <2>2, <1>3
      <3> QED BY <3>1, <2>2, AbsentAssumption DEF Covers
    <2>3. CASE q = r /\ visible[r] # Absent /\ new # Absent
      <3>1. acked'[r] = acked[r] BY <2>3, <1>3
      <3>2. Covers(visible[r], acked[r]) /\ Covers(onDisk[r], acked[r]) BY DEF KInv, AckInv
      <3>3. acked[r] # Absent BY <2>3, <3>2 DEF Covers
      <3>4. ASSUME acked[r] # Unknown PROVE Extends(new, acked[r])
        <4>1. acked[r] \in Record /\ Extends(visible[r], acked[r]) BY <2>0, <3>2, <3>3, <3>4 DEF Covers
        <4> QED BY <4>1, <1>8, <2>3, ExtendsOrder
      <3> QED BY <2>3, <3>1, <3>2, <3>3, <3>4, <1>3, <1>5 DEF Covers
    <2> QED BY <2>1, <2>2, <2>3
  <1> QED BY <1>10, <1>11, <1>12, <1>13, <1>14, <1>15 DEF KInv

(* What is said of calls holds of fewer calls.                             *)
LEMMA SyncDirKept ==
    ASSUME IInv, IInv', KInv, NEW c \in Clients, SyncDir(c) PROVE KInv'
  <1>1. call[c] \in Call /\ call[c] # Idle BY DEF SyncDir, IInv, TypeOK
  <1> DEFINE after == [call[c] EXCEPT !.dirty = FALSE]
  <1>2. /\ after.todo = call[c].todo /\ after.tenant = call[c].tenant /\ after.done = call[c].done
        /\ after.new = call[c].new /\ after.kind = call[c].kind
    BY <1>1 DEF Call
  <1>3. /\ call' = [call EXCEPT ![c] = after] /\ visible' = visible /\ drawn' = drawn
        /\ held' = held /\ known' = known /\ acked' = acked
        /\ \A r \in Runs : onDisk'[r] \in {onDisk[r], visible[r]}
    BY DEF SyncDir, Synced
  <1> HIDE DEF after
  <1>4. call'[c] = after /\ \A d \in Clients \ {c} : call'[d] = call[d] BY <1>3 DEF IInv, TypeOK
  <1>5. TallyInv' BY <1>1, <1>2, <1>3, <1>4 DEF KInv, TallyInv
  <1>6. HeldInv' /\ KnownInv' BY <1>3 DEF KInv, HeldInv, KnownInv
  <1>7. GrantInv' BY <1>1, <1>2, <1>3, <1>4 DEF KInv, GrantInv, Granted
  <1>8. DoneInv' BY <1>1, <1>2, <1>3, <1>4 DEF KInv, DoneInv
  <1>9. AckInv' BY <1>3 DEF KInv, AckInv
  <1> QED BY <1>5, <1>6, <1>7, <1>8, <1>9 DEF KInv

(* The answer: what the call did is in the file and now on disk.           *)
LEMMA ReturnKept ==
    ASSUME IInv, IInv', KInv, NEW c \in Clients, Return(c) PROVE KInv'
  <1>1. call[c] \in Call /\ call[c] # Idle /\ call[c].todo = {} BY DEF Return, IInv, TypeOK
  <1> DEFINE new == call[c].new
             S == call[c].done
             Mine(r) == \/ r \in S
                        \/ call[c].kind = "delete_tenant" /\ TenantOf[r] = call[c].tenant
  <1>2. new \in Slot /\ S \subseteq Runs BY <1>1 DEF Call, Slot
  <1>3. /\ call' = [call EXCEPT ![c] = Idle] /\ visible' = visible /\ drawn' = drawn
        /\ onDisk' = [r \in Runs |-> IF TenantOf[r] = call[c].tenant THEN visible[r] ELSE onDisk[r]]
        /\ acked' = [r \in Runs |-> IF Mine(r) THEN new ELSE acked[r]]
    BY DEF Return, Synced
  <1>4. \A r \in Runs : Mine(r) => visible[r] = new /\ TenantOf[r] = call[c].tenant
    BY <1>1 DEF KInv, DoneInv
  <1>5. \A d \in Clients : call'[d] = IF d = c THEN Idle ELSE call[d] BY <1>3 DEF IInv, TypeOK
  <1>6. call[c].kind \in {"acquire", "append"} => new \in Record BY <1>1, <1>2 DEF IInv, KindInv, Slot
  <1>7. \A d \in Clients, r \in Runs :
           held'[d][r] = IF d = c /\ call[c].kind = "acquire" /\ r \in S THEN new.token ELSE held[d][r]
    BY DEF Return, IInv, TypeOK
  <1>8. \A d \in Clients, r \in Runs :
           known'[d][r] = IF d = c /\ call[c].kind = "acquire" /\ r \in S THEN Unknown
                          ELSE IF d = c /\ call[c].kind = "append" /\ r \in S
                               THEN [revision |-> new.revision, state |-> new.state]
                          ELSE known[d][r]
    <2>1. CASE call[c].kind = "acquire" BY <2>1 DEF Return, IInv, TypeOK
    <2>2. CASE call[c].kind = "append" BY <2>2 DEF Return, IInv, TypeOK
    <2>3. CASE call[c].kind \notin {"acquire", "append"} BY <2>3 DEF Return
    <2> QED BY <2>1, <2>2, <2>3
  <1> HIDE DEF Mine
  <1>9. TallyInv' BY <1>3, <1>5 DEF KInv, TallyInv
  <1>10. HeldInv'
    <2>1. call[c].kind = "acquire" => new.token <= drawn
      BY <1>1, <1>6, AbsentAssumption DEF IInv, TokenInv, TokensUpTo
    <2> QED BY <1>3, <1>7, <2>1 DEF KInv, HeldInv
  <1>11. GrantInv'
    <2> SUFFICES ASSUME NEW e \in Clients, call'[e] # Idle, NEW r \in call'[e].todo
                 PROVE  Granted(call[e].new, r)'
      BY DEF GrantInv
    <2>1. e # c /\ call'[e] = call[e] BY <1>5
    <2>2. r \in Runs /\ TenantOf[r] = call[e].tenant /\ Granted(call[e].new, r)
      BY <2>1 DEF KInv, GrantInv, IInv, CallInv, TypeOK, Call
    <2>3. r \notin S BY <2>1, <2>2, <1>1 DEF KInv, DoneInv, IInv, LockInv
    <2>4. \A d \in Clients : held'[d][r] = held[d][r] BY <1>7, <2>2, <2>3
    <2> QED BY <1>3, <2>1, <2>2, <2>4 DEF Granted
  <1>12. KnownInv'
    <2> SUFFICES ASSUME NEW d \in Clients, NEW r \in Runs, known'[d][r] # Unknown, visible[r] # Absent,
                        held'[d][r] # NoToken, held'[d][r] = visible[r].token
                 PROVE  /\ known'[d][r].revision <= visible[r].revision
                        /\ known'[d][r].revision = visible[r].revision => known'[d][r].state = visible[r].state
      BY <1>3 DEF KnownInv
    <2>1. CASE d = c /\ call[c].kind = "append" /\ r \in S
      <3>1. visible[r] = new /\ new.revision \in Nat BY <2>1, <1>4, <1>6, RecordTypes DEF Mine
      <3>2. known'[d][r].revision = new.revision /\ known'[d][r].state = new.state BY <2>1, <1>8
      <3> QED BY <3>1, <3>2
    <2>2. CASE ~(d = c /\ call[c].kind \in {"append", "acquire"} /\ r \in S)
      <3>1. known'[d][r] = known[d][r] /\ held'[d][r] = held[d][r] BY <2>2, <1>7, <1>8
      <3> QED BY <3>1 DEF KInv, KnownInv
    <2> QED BY <2>1, <2>2, <1>8
  <1>13. DoneInv' BY <1>3, <1>5 DEF KInv, DoneInv
  <1>14. AckInv'
    <2> SUFFICES ASSUME NEW r \in Runs PROVE Covers(visible'[r], acked'[r]) /\ Covers(onDisk'[r], acked'[r])
      BY DEF AckInv
    <2>1. CASE Mine(r)
      <3>1. visible'[r] = new /\ onDisk'[r] = new /\ acked'[r] = new BY <2>1, <1>3, <1>4
      <3>2. new # Absent => Extends(new, new) BY <1>2, ExtendsOrder DEF Slot
      <3> QED BY <3>1, <3>2 DEF Covers
    <2>2. CASE ~Mine(r)
      <3>1. acked'[r] = acked[r] /\ visible'[r] = visible[r] /\ onDisk'[r] \in {onDisk[r], visible[r]}
        BY <2>2, <1>3
      <3> QED BY <3>1 DEF KInv, AckInv
    <2> QED BY <2>1, <2>2
  <1> QED BY <1>9, <1>10, <1>11, <1>12, <1>13, <1>14 DEF KInv

(* Calls that end, what a host learns or forgets, write-back, the clock.   *)
LEMMA EndKept ==
    ASSUME IInv, IInv', KInv, visible' = visible, drawn' = drawn, acked' = acked,
           \A r \in Runs : onDisk'[r] \in {onDisk[r], visible[r]},
           \A d \in Clients : call'[d] \in {call[d], Idle},
           \A d \in Clients, r \in Runs : held'[d][r] \in {held[d][r], NoToken},
           \A d \in Clients, r \in Runs :
              \/ known'[d][r] \in {known[d][r], Unknown}
              \/ /\ known'[d][r].revision = visible[r].revision
                 /\ known'[d][r].state = visible[r].state
                 /\ visible[r] # Absent
    PROVE  KInv'
  <1>1. TallyInv' BY DEF KInv, TallyInv
  <1>2. HeldInv' BY DEF KInv, HeldInv, NoToken, IInv, TypeOK
  <1>3. GrantInv'
    <2> SUFFICES ASSUME NEW d \in Clients, call'[d] # Idle, NEW q \in call'[d].todo
                 PROVE  Granted(call[d].new, q)'
      BY DEF GrantInv
    <2>1. call'[d] = call[d] BY DEF IInv
    <2>2. q \in Runs /\ Granted(call[d].new, q) BY <2>1 DEF KInv, GrantInv, IInv, TypeOK, Call
    <2> QED BY <2>1, <2>2 DEF Granted
  <1>4. KnownInv'
    <2> SUFFICES ASSUME NEW d \in Clients, NEW r \in Runs, known'[d][r] # Unknown, visible[r] # Absent,
                        held'[d][r] # NoToken, held'[d][r] = visible[r].token
                 PROVE  /\ known'[d][r].revision <= visible[r].revision
                        /\ known'[d][r].revision = visible[r].revision => known'[d][r].state = visible[r].state
      BY DEF KnownInv
    <2>1. held'[d][r] = held[d][r] OBVIOUS
    <2>2. CASE known'[d][r] = known[d][r] BY <2>1, <2>2, ZenonT(60) DEF KInv, KnownInv
    <2>3. CASE known'[d][r].revision = visible[r].revision /\ known'[d][r].state = visible[r].state
      <3>1. visible[r].revision \in Nat BY Stored, RecordTypes
      <3> QED BY <2>3, <3>1
    <2> QED BY <2>2, <2>3
  <1>5. DoneInv' BY DEF KInv, DoneInv
  <1>6. AckInv' BY DEF KInv, AckInv
  <1> QED BY <1>1, <1>2, <1>3, <1>4, <1>5, <1>6 DEF KInv

LEMMA EnvironmentKept ==
    ASSUME IInv, IInv', KInv,
           \/ \E c \in Clients : FailCall(c) \/ Crash(c) \/ \E r \in Runs : load(c, r)
           \/ \E r \in Runs : WriteBack(r)
           \/ SetClock
    PROVE  KInv'
  <1>1. ASSUME NEW c \in Clients, FailCall(c) PROVE KInv'
    BY <1>1, EndKept DEF IInv, TypeOK, FailCall
  <1>2. ASSUME NEW c \in Clients, Crash(c) PROVE KInv'
    BY <1>2, EndKept DEF IInv, TypeOK, Crash
  <1>3. ASSUME NEW c \in Clients, NEW r \in Runs, load(c, r) PROVE KInv'
    <2>1. \A d \in Clients, q \in Runs :
             \/ known'[d][q] = known[d][q]
             \/ /\ known'[d][q].revision = visible[q].revision
                /\ known'[d][q].state = visible[q].state
                /\ visible[q] # Absent
      BY <1>3 DEF IInv, TypeOK, load
    <2> QED BY <1>3, <2>1, EndKept DEF IInv, TypeOK, load
  <1>4. ASSUME NEW r \in Runs, WriteBack(r) PROVE KInv'
    BY <1>4, EndKept DEF IInv, TypeOK, WriteBack
  <1>5. CASE SetClock BY <1>5, EndKept DEF IInv, TypeOK, SetClock
  <1> QED BY <1>1, <1>2, <1>3, <1>4, <1>5

LEMMA PowerLossKept == ASSUME IInv, IInv', KInv, PowerLoss PROVE KInv'
  <1>1. /\ \A r \in Runs : visible'[r] \in {visible[r], onDisk[r]} /\ onDisk'[r] = visible'[r]
        /\ \A d \in Clients : call'[d] = Idle
        /\ \A d \in Clients, r \in Runs : held'[d][r] = NoToken /\ known'[d][r] = Unknown
        /\ drawn' = drawn /\ acked' = acked
    BY DEF PowerLoss
  <1>2. TallyInv' BY <1>1 DEF KInv, TallyInv
  <1>3. HeldInv' BY <1>1 DEF HeldInv, NoToken, IInv, TypeOK
  <1>4. GrantInv' /\ KnownInv' /\ DoneInv' BY <1>1 DEF GrantInv, KnownInv, DoneInv
  <1>5. AckInv' BY <1>1 DEF KInv, AckInv
  <1> QED BY <1>2, <1>3, <1>4, <1>5 DEF KInv

LEMMA InitKInv == Init => KInv
  <1> SUFFICES ASSUME Init PROVE KInv OBVIOUS
  <1>1. TallyInv /\ GrantInv /\ KnownInv /\ DoneInv
    BY DEF Init, TallyInv, Tally, GrantInv, KnownInv, DoneInv
  <1>2. HeldInv
    <2>1. \A c \in Clients, r \in Runs : held[c][r] = 0
      BY DEF Init, NoToken
    <2>2. drawn = 0 BY DEF Init
    <2> QED BY <2>1, <2>2 DEF HeldInv
  <1>3. AckInv BY DEF Init, AckInv, Covers
  <1> QED BY <1>1, <1>2, <1>3 DEF KInv

LEMMA NextKInv == IInv /\ IInv' /\ KInv /\ [Next]_vars => KInv'
  <1> SUFFICES ASSUME IInv, IInv', KInv, [Next]_vars PROVE KInv' OBVIOUS
  <1>1. ASSUME NEW c \in Clients, NEW r \in Runs,
               \/ create(c, r) \/ append(c, r) \/ acquire_lease(c, r)
               \/ renew_lease(c, r) \/ release_lease(c, r) \/ Rename(c, r)
        PROVE  KInv'
    BY <1>1, CreateKept, AppendKept, LeaseKept, RenameKept
  <1>2. ASSUME NEW c \in Clients, SyncDir(c) \/ Return(c) PROVE KInv'
    BY <1>2, SyncDirKept, ReturnKept
  <1>3. CASE UNCHANGED vars
    BY <1>3, EndKept DEF vars
  <1>4. CASE Next
    BY <1>1, <1>2, <1>4, EnvironmentKept, PowerLossKept, DeletionsKept DEF Next
  <1> QED BY <1>3, <1>4

(* The numbers of a record's events, carried over from the ledger.         *)
LEMMA LedgerIsNumbered == ImplementsLedger => []Ledger!NumberedLog
  <1>1. LedgerProofs!NumberedLog => Ledger!NumberedLog
    BY DEF Ledger!NumberedLog, Ledger!Numbered, LedgerProofs!NumberedLog, LedgerProofs!Numbered
  <1>2. LedgerProofs!Spec => []LedgerProofs!NumberedLog BY LedgerProofs!LedgerNumbered
  <1>3. ImplementsLedger => LedgerProofs!Spec BY LedgerIsLedger
  <1> QED BY <1>1, <1>2, <1>3, PTL

LEMMA KeptRecords ==
    ASSUME TypeOK, \A r \in Runs : Tally(visible[r]) /\ Tally(onDisk[r]), AckInv, Ledger!NumberedLog
    PROVE  RecordsKept
  <1>1. ASSUME NEW r \in Runs, NEW rec \in Records(r)
        PROVE  /\ rec \in Record /\ rec # Absent /\ Tally(rec)
               /\ \A i \in 1..Len(rec.events) :
                     rec.events[i].sequence = rec.event_sequence - Len(rec.events) + i
    <2>1. rec \in Record /\ rec # Absent /\ Tally(rec)
      BY DEF Records, TypeOK
    <2>2. LedgerView(rec) # Absent BY <2>1, ViewType DEF Slot
    <2>3. Ledger!Numbered(LedgerView(rec))
      BY <2>2 DEF Ledger!NumberedLog, Records
    <2> QED BY <2>1, <2>3 DEF Ledger!Numbered, LedgerView
  <1>2. AlwaysReadable
    <2> SUFFICES ASSUME NEW r \in Runs, NEW rec \in Records(r)
                 PROVE  /\ \A i, j \in 1..Len(rec.events) :
                              i < j => rec.events[i].sequence < rec.events[j].sequence
                        /\ \A i \in 1..Len(rec.events) : rec.events[i].sequence \in 1..rec.event_sequence
      BY DEF AlwaysReadable
    <2>1. Len(rec.events) \in Nat /\ rec.event_sequence \in Nat BY <1>1, RecordTypes
    <2>2. Len(rec.events) <= rec.event_sequence BY <1>1 DEF Tally
    <2>3. \A i \in 1..Len(rec.events) :
             rec.events[i].sequence = rec.event_sequence - Len(rec.events) + i
      BY <1>1
    <2> QED BY <2>1, <2>2, <2>3, SMTT(30)
  <1>3. NoLostUpdate BY <1>1 DEF NoLostUpdate, Tally
  <1>4. AckedSurvives
    <2> SUFFICES ASSUME NEW r \in Runs, acked[r] \notin {Absent, Unknown}, NEW rec \in {visible[r], onDisk[r]}
                 PROVE  /\ rec # Absent
                        /\ rec.revision >= acked[r].revision
                        /\ Len(rec.events) >= Len(acked[r].events)
                        /\ SubSeq(rec.events, 1, Len(acked[r].events)) = acked[r].events
      BY DEF AckedSurvives
    <2>1. rec # Absent /\ Extends(rec, acked[r]) BY DEF AckInv, Covers
    <2>2. rec \in Record /\ acked[r] \in Record BY <2>1 DEF TypeOK
    <2> DEFINE s == rec.events
               a == acked[r].events
    <2>3. /\ s \in Seq(StoredEvent) /\ a \in Seq(StoredEvent) /\ Len(s) \in Nat /\ Len(a) \in Nat
          /\ Len(a) <= Len(s) /\ \A i \in 1..Len(a) : s[i] = a[i]
      BY <2>1, <2>2, RecordTypes DEF Extends
    <2> HIDE DEF s, a
    <2>4. SubSeq(s, 1, Len(a)) = a
      <3>1. SubSeq(s, 1, Len(a)) = [i \in 1..Len(a) |-> s[i]] BY <2>3
      <3>2. a = [i \in 1..Len(a) |-> a[i]] BY <2>3
      <3> QED BY <2>3, <3>1, <3>2
    <2> QED BY <2>1, <2>4 DEF Extends, s, a
  <1>5. ErasureSticks BY DEF ErasureSticks, AckInv, Covers
  <1> QED BY <1>2, <1>3, <1>4, <1>5 DEF RecordsKept

(* Files pass the checks of read(), no update is lost or applied twice,    *)
(* what was acknowledged survives crashes and power losses, and what was   *)
(* deleted stays away: for any hosts, clock and order of failures.         *)
THEOREM StoreKeepsRecords == Spec => []RecordsKept
  <1>1. Spec => []IInv BY InitIInv, NextIInv, PTL DEF Spec
  <1>2. Spec => []KInv BY <1>1, InitKInv, NextKInv, PTL DEF Spec
  <1>3. IInv /\ KInv /\ Ledger!NumberedLog => RecordsKept
    BY KeptRecords DEF IInv, KInv, TallyInv
  <1> QED BY <1>1, <1>2, <1>3, StoreImplementsLedger, LedgerIsNumbered, PTL

--------------------------------------------------------------------------------
(* The PostgreSQL store.                                                   *)

(* Open transactions have locked different rows (FOR UPDATE).              *)
RowInv ==
    \A j, k \in Conns : Open(j) /\ Open(k) /\ j # k =>
        \A r \in tx[j].locked : r \notin tx[k].locked

(* What a transaction is about to commit is one operation away from each   *)
(* of its rows.                                                            *)
StepInv ==
    \A k \in Conns : Open(k) =>
        \A r \in tx[k].locked : Ledger!RecordStep(LedgerView(visible[r]), LedgerView(tx[k].new))

(* Only a DELETE has rows to lock after its first.                         *)
DeleteInv == \A k \in Conns : Open(k) /\ tx[k].todo # {} => tx[k].new = Absent

TxTokenInv ==
    /\ \A r \in Runs : TokensUpTo(visible[r], drawn)
    /\ \A k \in Conns : tx[k] # Idle => TokensUpTo(tx[k].new, drawn)

(* acquire_lease and append have a record to return.                       *)
TxKindInv ==
    \A k \in Conns : tx[k] # Idle /\ tx[k].kind \in {"acquire", "append"} => tx[k].new # Absent

(* A commit is durable when it is seen.                                    *)
DurableInv == onDisk = visible

PgInv == PgTypeOK /\ RowInv /\ StepInv /\ DeleteInv /\ TxTokenInv /\ TxKindInv /\ DurableInv

--------------------------------------------------------------------------------
(* Preservation of the inductive invariant.                                *)

(* Starting a transaction whose rows nobody has and that changes them by   *)
(* one operation (lock_row and the checks after it).                       *)
LEMMA TransactKeeps ==
    ASSUME PgInv, NEW c \in Clients, NEW kind \in Kinds, NEW todo \in SUBSET Runs,
           NEW locked \in SUBSET Runs, NEW new \in Slot, NEW cutoff \in Nat,
           Ready(c), Transact(c, kind, todo, locked, new, cutoff),
           drawn' \in Nat, drawn <= drawn', TokensUpTo(new, drawn'),
           \A r \in locked : /\ Free(r)
                             /\ Ledger!RecordStep(LedgerView(visible[r]), LedgerView(new)),
           todo # {} => new = Absent,
           kind \in {"acquire", "append"} => new # Absent
    PROVE  PgInv'
  <1> DEFINE k == conn[c]
             t == [kind |-> kind, todo |-> todo, locked |-> locked, new |-> new,
                   cutoff |-> cutoff, committed |-> FALSE]
  <1>1. /\ visible' = visible /\ onDisk' = onDisk /\ call' = call /\ held' = held
        /\ known' = known /\ clock' = clock /\ acked' = acked /\ conn' = conn
        /\ tx' = [tx EXCEPT ![k] = t]
    BY DEF Transact
  <1>2. k \in Conns /\ tx[k] = Idle BY DEF Ready, PgInv, PgTypeOK
  <1>3. t \in Tx BY DEF Tx, Slot
  <1>4. /\ t.todo = todo /\ t.locked = locked /\ t.new = new /\ t.kind = kind
    OBVIOUS
  <1> HIDE DEF k, t
  <1>5. tx'[k] = t /\ \A j \in Conns \ {k} : tx'[j] = tx[j]
    BY <1>1, <1>2 DEF PgInv, PgTypeOK
  <1>6. PgTypeOK'
    <2>1. TypeOK' BY <1>1 DEF PgInv, PgTypeOK, TypeOK
    <2>2. tx' \in [Conns -> Tx \cup {Idle}] BY <1>1, <1>3 DEF PgInv, PgTypeOK
    <2> QED BY <1>1, <2>1, <2>2 DEF PgInv, PgTypeOK
  <1>7. \A j \in Conns \ {k} : Open(j)' <=> Open(j) BY <1>5 DEF Open
  <1>8. RowInv'
    <2> SUFFICES ASSUME NEW i \in Conns, NEW j \in Conns, Open(i)', Open(j)', i # j,
                        NEW r \in tx'[i].locked
                 PROVE  r \notin tx'[j].locked
      BY DEF RowInv
    <2>1. CASE i = k BY <2>1, <1>4, <1>5, <1>7 DEF Free
    <2>2. CASE j = k BY <2>2, <1>4, <1>5, <1>7 DEF Free
    <2>3. CASE i # k /\ j # k BY <2>3, <1>5, <1>7 DEF PgInv, RowInv
    <2> QED BY <2>1, <2>2, <2>3
  <1>9. StepInv' BY <1>1, <1>4, <1>5, <1>7 DEF PgInv, StepInv
  <1>10. DeleteInv' BY <1>4, <1>5, <1>7 DEF PgInv, DeleteInv
  <1>11. TxTokenInv'
    <2>1. \A r \in Runs : TokensUpTo(visible[r], drawn')
      BY TokensMonotone DEF PgInv, PgTypeOK, TypeOK, TxTokenInv, Slot
    <2>2. \A j \in Conns : tx[j] # Idle => TokensUpTo(tx[j].new, drawn')
      BY TokensMonotone DEF PgInv, PgTypeOK, TypeOK, TxTokenInv, Slot, Tx
    <2> QED BY <1>1, <1>4, <1>5, <2>1, <2>2 DEF TxTokenInv
  <1>12. TxKindInv' BY <1>4, <1>5 DEF PgInv, TxKindInv
  <1>13. DurableInv' BY <1>1 DEF PgInv, DurableInv
  <1> QED BY <1>6, <1>8, <1>9, <1>10, <1>11, <1>12, <1>13 DEF PgInv

(* The case of one row.                                                    *)
LEMMA ChangeKeeps ==
    ASSUME PgInv, NEW c \in Clients, NEW kind \in Kinds, NEW r \in Runs, NEW new \in Slot,
           Locks(c, r), Change(c, kind, r, new),
           drawn' \in Nat, drawn <= drawn', TokensUpTo(new, drawn'),
           Ledger!RecordStep(LedgerView(visible[r]), LedgerView(new)),
           kind \in {"acquire", "append"} => new # Absent
    PROVE  PgInv'
  <1> DEFINE todo == {}
             locked == {r}
             cutoff == 0
  <1>1. todo \in SUBSET Runs /\ locked \in SUBSET Runs /\ cutoff \in Nat OBVIOUS
  <1>2. Ready(c) /\ Transact(c, kind, todo, locked, new, cutoff) BY DEF Locks, Change
  <1>3. \A q \in locked : /\ Free(q)
                          /\ Ledger!RecordStep(LedgerView(visible[q]), LedgerView(new))
    BY DEF Locks
  <1>4. todo # {} => new = Absent OBVIOUS
  <1> HIDE DEF todo, locked, cutoff
  <1> QED BY <1>1, <1>2, <1>3, <1>4, TransactKeeps

(* What a stored record is, under the invariant.                           *)
LEMMA PgStored ==
    ASSUME PgInv, NEW r \in Runs
    PROVE  /\ visible[r] \in Slot
           /\ visible[r] # Absent => visible[r] \in Record /\ LedgerView(visible[r]) # Absent
           /\ TokensUpTo(visible[r], drawn)
           /\ drawn \in Nat /\ clock \in Nat
  <1>1. visible[r] \in Slot BY DEF PgInv, PgTypeOK, TypeOK, Slot
  <1>2. visible[r] # Absent => visible[r] \in Record BY <1>1 DEF Slot
  <1> QED BY <1>1, <1>2, ViewType DEF PgInv, PgTypeOK, TypeOK, TxTokenInv

(* Each operation of RunStore keeps the invariant when it starts.          *)
LEMMA PgCreateKeeps ==
    ASSUME PgInv, NEW c \in Clients, NEW r \in Runs, pg_create(c, r) PROVE PgInv'
  <1>1. PICK n \in Starts, retain \in Retains :
           Change(c, "create", r,
                  [revision |-> n, event_sequence |-> n, state |-> n, retain_until |-> retain,
                   events |-> <<>>, token |-> NoToken, expires |-> 0])
    BY DEF pg_create
  <1> DEFINE new == [revision |-> n, event_sequence |-> n, state |-> n,
                     retain_until |-> retain, events |-> <<>>,
                     token |-> NoToken, expires |-> 0]
             kind == "create"
  <1>2. n \in Nat /\ retain \in Nat BY ConstantsAssumption
  <1>3. <<>> \in Seq(StoredEvent) /\ Len(<<>>) = 0 BY EmptySeq
  <1>4. new \in Record BY <1>2, <1>3 DEF Record, NoToken
  <1>5. new.events = <<>> /\ new.token = NoToken OBVIOUS
  <1>6. Change(c, kind, r, new) /\ Locks(c, r) /\ drawn' = drawn /\ visible[r] = Absent
    BY <1>1 DEF pg_create
  <1>7. kind \in Kinds /\ kind \notin {"acquire", "append"} BY DEF Kinds
  <1> HIDE DEF new, kind
  <1>8. new \in Slot /\ new # Absent BY <1>4, AbsentAssumption DEF Slot
  <1>9. Ledger!RecordStep(LedgerView(visible[r]), LedgerView(new))
    <2>1. LedgerView(visible[r]) = Absent BY <1>6 DEF LedgerView
    <2>2. LedgerView(new) # Absent BY <1>8, ViewType
    <2>3. LedgerView(new).events = <<>> /\ LedgerView(new).token = NoToken
      BY <1>5, <1>8 DEF LedgerView
    <2> QED BY <2>1, <2>2, <2>3 DEF Ledger!RecordStep, Ledger!CreateStep, Ledger!NoToken, NoToken
  <1>10. drawn \in Nat BY PgStored
  <1>11. TokensUpTo(new, drawn') BY <1>3, <1>5, <1>6, <1>10 DEF TokensUpTo, NoToken
  <1> QED BY <1>6, <1>7, <1>8, <1>9, <1>10, <1>11, ChangeKeeps

LEMMA PgAppendKeeps ==
    ASSUME PgInv, NEW c \in Clients, NEW r \in Runs, pg_append(c, r) PROVE PgInv'
  <1>1. PICK k \in BatchSizes, retain \in Retains :
           Change(c, "append", r, prepare_append(visible[r], held[c][r], known[c][r], k, retain))
    BY DEF pg_append
  <1> DEFINE rec == visible[r]
             snap == known[c][r]
             token == held[c][r]
             new == prepare_append(rec, token, snap, k, retain)
             kind == "append"
  <1>2. /\ rec \in Record /\ TokensUpTo(rec, drawn) /\ drawn \in Nat
    BY PgStored DEF pg_append
  <1>3. /\ Locks(c, r) /\ drawn' = drawn /\ snap \in Snapshot
        /\ token = rec.token /\ rec.token # NoToken /\ rec.revision = snap.revision
    BY DEF pg_append, check_lease, PgInv, PgTypeOK, TypeOK
  <1>4. k \in Nat /\ retain \in Nat BY ConstantsAssumption
  <1>5. Change(c, kind, r, new) BY <1>1
  <1>6. kind \in Kinds BY DEF Kinds
  <1>7. /\ new \in Record
        /\ Ledger!RecordStep(LedgerView(rec), LedgerView(new))
        /\ TokensUpTo(new, drawn)
    <2> HIDE DEF rec, snap, token
    <2> QED BY <1>2, <1>3, <1>4, PrepareAppend
  <1>8. visible[r] = rec OBVIOUS
  <1> HIDE DEF rec, snap, token, new, kind
  <1>9. new \in Slot /\ new # Absent BY <1>7, AbsentAssumption DEF Slot
  <1> QED BY <1>2, <1>3, <1>5, <1>6, <1>7, <1>8, <1>9, ChangeKeeps

(* acquire_lease, renew_lease and release_lease.                           *)
LEMMA PgLeaseKeeps ==
    ASSUME PgInv, NEW c \in Clients, NEW r \in Runs, NEW kind \in Kinds, visible[r] # Absent,
           NEW token \in Nat, NEW expires \in Nat, Locks(c, r),
           Change(c, kind, r, WithLease(visible[r], token, expires)),
           drawn' \in Nat, drawn <= drawn', token <= drawn',
           token = NoToken \/ token = visible[r].token \/ token > drawn
    PROVE  PgInv'
  <1> DEFINE rec == visible[r]
             new == WithLease(rec, token, expires)
  <1>1. rec \in Record /\ TokensUpTo(rec, drawn) /\ drawn \in Nat BY PgStored
  <1>2. Change(c, kind, r, new) /\ (token = NoToken \/ token = rec.token \/ token > drawn)
    OBVIOUS
  <1>3. /\ new \in Record
        /\ Ledger!RecordStep(LedgerView(rec), LedgerView(new))
        /\ TokensUpTo(new, drawn')
    <2> HIDE DEF rec
    <2> QED BY <1>1, <1>2, LeaseWrite
  <1>4. visible[r] = rec OBVIOUS
  <1> HIDE DEF rec, new
  <1>5. new \in Slot /\ new # Absent BY <1>3, AbsentAssumption DEF Slot
  <1> QED BY <1>2, <1>3, <1>4, <1>5, ChangeKeeps

LEMMA PgLeasesKeep ==
    ASSUME PgInv, NEW c \in Clients, NEW r \in Runs,
           pg_acquire_lease(c, r) \/ pg_renew_lease(c, r) \/ pg_release_lease(c, r)
    PROVE  PgInv'
  <1>0. drawn \in Nat /\ clock \in Nat BY PgStored
  <1>1. CASE pg_acquire_lease(c, r)
    <2>1. PICK ttl \in TTLs : Change(c, "acquire", r, WithLease(visible[r], drawn + 1, clock + ttl))
      BY <1>1 DEF pg_acquire_lease
    <2> DEFINE kind == "acquire"
               token == drawn + 1
               expires == clock + ttl
    <2>2. /\ Locks(c, r) /\ visible[r] # Absent /\ drawn' = drawn + 1
      BY <1>1 DEF pg_acquire_lease
    <2>3. kind \in Kinds /\ token \in Nat /\ expires \in Nat /\ token > drawn
          /\ drawn' \in Nat /\ drawn <= drawn' /\ token <= drawn'
      BY <1>0, <2>2, ConstantsAssumption DEF Kinds
    <2>4. Change(c, kind, r, WithLease(visible[r], token, expires)) BY <2>1
    <2> HIDE DEF kind, token, expires
    <2> QED BY <2>2, <2>3, <2>4, PgLeaseKeeps
  <1>2. CASE pg_renew_lease(c, r)
    <2>1. PICK ttl \in TTLs :
             Change(c, "renew", r, WithLease(visible[r], visible[r].token, clock + ttl))
      BY <1>2 DEF pg_renew_lease
    <2> DEFINE kind == "renew"
               token == visible[r].token
               expires == clock + ttl
    <2>2. Locks(c, r) /\ visible[r] # Absent /\ drawn' = drawn
      BY <1>2 DEF pg_renew_lease
    <2>3. visible[r] \in Record /\ visible[r].token <= drawn
      BY <2>2, PgStored DEF TokensUpTo
    <2>4. kind \in Kinds /\ token \in Nat /\ expires \in Nat /\ token <= drawn' /\ drawn <= drawn'
          /\ token = visible[r].token
      BY <1>0, <2>2, <2>3, RecordTypes, ConstantsAssumption DEF Kinds
    <2>5. Change(c, kind, r, WithLease(visible[r], token, expires)) BY <2>1
    <2> HIDE DEF kind, token, expires
    <2> QED BY <1>0, <2>2, <2>4, <2>5, PgLeaseKeeps
  <1>3. CASE pg_release_lease(c, r)
    <2> DEFINE kind == "release"
               token == NoToken
               expires == 0
    <2>1. Locks(c, r) /\ visible[r] # Absent /\ drawn' = drawn
      BY <1>3 DEF pg_release_lease
    <2>2. kind \in Kinds /\ token \in Nat /\ expires \in Nat /\ token <= drawn' /\ drawn <= drawn'
          /\ token = NoToken
      BY <1>0, <2>1 DEF Kinds, NoToken
    <2>3. Change(c, kind, r, WithLease(visible[r], token, expires))
      BY <1>3 DEF pg_release_lease
    <2> HIDE DEF kind, token, expires
    <2> QED BY <1>0, <2>1, <2>2, <2>3, PgLeaseKeeps
  <1> QED BY <1>1, <1>2, <1>3

(* The three deletions.                                                    *)
LEMMA PgDeletionsKeep ==
    ASSUME PgInv, NEW c \in Clients,
           \/ \E r \in Runs : pg_delete_run(c, r)
           \/ \E t \in Tenants : pg_delete_tenant(c, t)
           \/ pg_apply_retention(c)
    PROVE  PgInv'
  <1>0. Absent \in Slot /\ TokensUpTo(Absent, drawn) /\ LedgerView(Absent) = Absent
        /\ drawn \in Nat
    BY DEF Slot, TokensUpTo, LedgerView, PgInv, PgTypeOK, TypeOK
  <1>1. ASSUME NEW r \in Runs, pg_delete_run(c, r) PROVE PgInv'
    <2> DEFINE kind == "delete_run"
    <2>1. /\ Locks(c, r) /\ visible[r] # Absent /\ Change(c, kind, r, Absent) /\ drawn' = drawn
      BY <1>1 DEF pg_delete_run
    <2>2. kind \in Kinds /\ kind \notin {"acquire", "append"} BY DEF Kinds
    <2>3. Ledger!RecordStep(LedgerView(visible[r]), LedgerView(Absent))
      BY <1>0, <2>1, PgStored DEF Ledger!RecordStep
    <2> HIDE DEF kind
    <2> QED BY <1>0, <2>1, <2>2, <2>3, ChangeKeeps
  <1>2. ASSUME NEW kind \in Kinds \ {"acquire", "append"}, NEW todo \in SUBSET Runs,
               NEW cutoff \in Nat, Ready(c), Transact(c, kind, todo, {}, Absent, cutoff),
               drawn' = drawn
        PROVE  PgInv'
    <2> DEFINE locked == {}
    <2>1. locked \in SUBSET Runs /\ Transact(c, kind, todo, locked, Absent, cutoff) BY <1>2
    <2>2. \A r \in locked : /\ Free(r)
                            /\ Ledger!RecordStep(LedgerView(visible[r]), LedgerView(Absent))
      OBVIOUS
    <2> HIDE DEF locked
    <2> QED BY <1>0, <1>2, <2>1, <2>2, TransactKeeps
  <1>3. ASSUME NEW t \in Tenants, pg_delete_tenant(c, t) PROVE PgInv'
    <2> DEFINE todo == {r \in RunsOf(t) : visible[r] # Absent}
               kind == "delete_tenant"
               cutoff == 0
    <2>1. /\ kind \in Kinds \ {"acquire", "append"} /\ todo \in SUBSET Runs /\ cutoff \in Nat
      BY DEF Kinds, RunsOf
    <2>2. Ready(c) /\ Transact(c, kind, todo, {}, Absent, cutoff) /\ drawn' = drawn
      BY <1>3 DEF pg_delete_tenant
    <2> HIDE DEF todo, kind, cutoff
    <2> QED BY <1>2, <2>1, <2>2
  <1>4. CASE pg_apply_retention(c)
    <2>1. PICK cutoff \in 1..MaxTime :
             Transact(c, "retention", {r \in Runs : Expired(r, cutoff)}, {}, Absent, cutoff)
      BY <1>4 DEF pg_apply_retention
    <2> DEFINE todo == {r \in Runs : Expired(r, cutoff)}
               kind == "retention"
    <2>2. /\ kind \in Kinds \ {"acquire", "append"} /\ todo \in SUBSET Runs /\ cutoff \in Nat
      BY DEF Kinds
    <2>3. Ready(c) /\ Transact(c, kind, todo, {}, Absent, cutoff) /\ drawn' = drawn
      BY <1>4, <2>1 DEF pg_apply_retention
    <2> HIDE DEF todo, kind
    <2> QED BY <1>2, <2>2, <2>3
  <1> QED BY <1>1, <1>3, <1>4

(* A DELETE takes its next row, or passes it over.                         *)
LEMMA LockNextKeeps ==
    ASSUME PgInv, NEW k \in Conns, NEW r \in Runs, LockNext(k, r) PROVE PgInv'
  <1>1. /\ tx[k] \in Tx /\ tx[k] # Idle /\ ~tx[k].committed /\ r \in tx[k].todo /\ Free(r)
    BY DEF LockNext, Open, PgInv, PgTypeOK
  <1>2. PICK S \in SUBSET Runs :
           /\ S = tx[k].locked \/ (S = tx[k].locked \cup {r} /\ visible[r] # Absent)
           /\ tx' = [tx EXCEPT ![k] = [tx[k] EXCEPT !.todo = tx[k].todo \ {r}, !.locked = S]]
    <2> DEFINE matches == visible[r] # Absent
                            /\ (tx[k].kind = "retention" => Expired(r, tx[k].cutoff))
               S == IF matches THEN tx[k].locked \cup {r} ELSE tx[k].locked
    <2>1. tx' = [tx EXCEPT ![k] = [tx[k] EXCEPT !.todo = tx[k].todo \ {r}, !.locked = S]]
      BY <1>1 DEF LockNext, PgInv, PgTypeOK
    <2>2. S \in SUBSET Runs BY <1>1 DEF Tx
    <2>3. S = tx[k].locked \/ (S = tx[k].locked \cup {r} /\ visible[r] # Absent) OBVIOUS
    <2> HIDE DEF S
    <2> QED BY <2>1, <2>2, <2>3
  <1> DEFINE t == [tx[k] EXCEPT !.todo = tx[k].todo \ {r}, !.locked = S]
  <1>3. /\ t \in Tx /\ t.todo = tx[k].todo \ {r} /\ t.locked = S /\ t.new = tx[k].new
        /\ t.kind = tx[k].kind /\ t.committed = tx[k].committed
    BY <1>1 DEF Tx
  <1>4. tx' = [tx EXCEPT ![k] = t] BY <1>2
  <1> HIDE DEF t
  <1>5. /\ visible' = visible /\ onDisk' = onDisk /\ drawn' = drawn /\ conn' = conn
        /\ call' = call /\ held' = held /\ known' = known /\ clock' = clock /\ acked' = acked
    BY DEF LockNext
  <1>6. tx'[k] = t /\ \A j \in Conns \ {k} : tx'[j] = tx[j]
    BY <1>4 DEF PgInv, PgTypeOK
  <1>7. PgTypeOK'
    <2>1. TypeOK' BY <1>5 DEF PgInv, PgTypeOK, TypeOK
    <2>2. tx' \in [Conns -> Tx \cup {Idle}] BY <1>3, <1>4 DEF PgInv, PgTypeOK
    <2> QED BY <1>5, <2>1, <2>2 DEF PgInv, PgTypeOK
  <1>8. \A j \in Conns \ {k} : Open(j)' <=> Open(j) BY <1>6 DEF Open
  <1>9. Open(k) /\ tx[k].new = Absent BY <1>1 DEF Open, PgInv, DeleteInv
  <1>10. RowInv'
    <2> SUFFICES ASSUME NEW i \in Conns, NEW j \in Conns, Open(i)', Open(j)', i # j,
                        NEW q \in tx'[i].locked
                 PROVE  q \notin tx'[j].locked
      BY DEF RowInv
    <2>0. \A l \in Conns : Open(l) /\ l # k => r \notin tx[l].locked BY <1>1 DEF Free
    <2>1. CASE i = k BY <2>0, <2>1, <1>2, <1>3, <1>6, <1>8, <1>9 DEF PgInv, RowInv
    <2>2. CASE j = k BY <2>0, <2>2, <1>2, <1>3, <1>6, <1>8, <1>9 DEF PgInv, RowInv
    <2>3. CASE i # k /\ j # k BY <2>3, <1>6, <1>8 DEF PgInv, RowInv
    <2> QED BY <2>1, <2>2, <2>3
  <1>11. StepInv'
    <2>1. visible[r] # Absent => Ledger!RecordStep(LedgerView(visible[r]), LedgerView(tx[k].new))
      <3>1. LedgerView(tx[k].new) = Absent BY <1>9 DEF LedgerView
      <3> QED BY <3>1, PgStored DEF Ledger!RecordStep
    <2>2. \A q \in S : Ledger!RecordStep(LedgerView(visible[q]), LedgerView(tx[k].new))
      BY <2>1, <1>2, <1>9 DEF PgInv, StepInv
    <2> QED BY <2>2, <1>3, <1>5, <1>6, <1>8 DEF PgInv, StepInv
  <1>12. DeleteInv' BY <1>3, <1>6, <1>8, <1>9 DEF PgInv, DeleteInv
  <1>13. TxTokenInv' BY <1>1, <1>3, <1>5, <1>6 DEF PgInv, TxTokenInv
  <1>14. TxKindInv' BY <1>1, <1>3, <1>6 DEF PgInv, TxKindInv
  <1>15. DurableInv' BY <1>5 DEF PgInv, DurableInv
  <1> QED BY <1>7, <1>10, <1>11, <1>12, <1>13, <1>14, <1>15 DEF PgInv

(* What a commit does to the rows and to each transaction.                 *)
LEMMA CommitEffect ==
    ASSUME PgInv, NEW k \in Conns, Commit(k)
    PROVE  /\ tx[k] \in Tx /\ Open(k) /\ tx[k].new \in Slot /\ tx[k].locked \in SUBSET Runs
           /\ visible' = [r \in Runs |-> IF r \in tx[k].locked THEN tx[k].new ELSE visible[r]]
           /\ onDisk' = visible'
           /\ \A j \in Conns :
                 \/ tx'[j] = Idle
                 \/ tx[j] # Idle /\ tx'[j] \in Tx /\ tx'[j].new = tx[j].new
                      /\ tx'[j].kind = tx[j].kind /\ tx'[j].locked = tx[j].locked
                      /\ tx'[j].todo \subseteq tx[j].todo
                      /\ (~tx'[j].committed => ~tx[j].committed /\ j # k)
           /\ tx' \in [Conns -> Tx \cup {Idle}]
  <1>1. tx[k] \in Tx /\ Open(k) BY DEF Commit, Open, PgInv, PgTypeOK
  <1>2. tx[k].new \in Slot /\ tx[k].locked \in SUBSET Runs BY <1>1 DEF Tx, Slot
  <1>3. visible' = [r \in Runs |-> IF r \in tx[k].locked THEN tx[k].new ELSE visible[r]]
    BY DEF Commit
  <1>4. onDisk' = [r \in Runs |-> IF r \in tx[k].locked THEN tx[k].new ELSE onDisk[r]]
    BY DEF Commit
  <1>5. onDisk' = visible' BY <1>3, <1>4 DEF PgInv, DurableInv
  <1> DEFINE f(j) == IF j = k
                     THEN IF Owned(k) THEN [tx[k] EXCEPT !.committed = TRUE] ELSE Idle
                     ELSE IF Open(j) /\ tx[k].new = Absent
                     THEN [tx[j] EXCEPT !.todo = @ \ tx[k].locked]
                     ELSE tx[j]
  <1>6. tx' = [j \in Conns |-> f(j)] BY DEF Commit
  <1>7. ASSUME NEW j \in Conns
        PROVE  /\ \/ f(j) = Idle
                  \/ tx[j] # Idle /\ f(j) \in Tx /\ f(j).new = tx[j].new
                      /\ f(j).kind = tx[j].kind /\ f(j).locked = tx[j].locked
                      /\ f(j).todo \subseteq tx[j].todo
                      /\ (~f(j).committed => ~tx[j].committed /\ j # k)
               /\ f(j) \in Tx \cup {Idle}
    <2>0. tx[j] \in Tx \cup {Idle} BY DEF PgInv, PgTypeOK
    <2>1. CASE j = k
      <3>1. CASE ~Owned(k) BY <2>1, <3>1
      <3>2. CASE Owned(k)
        <4> DEFINE u == [tx[k] EXCEPT !.committed = TRUE]
        <4>1. /\ u \in Tx /\ u.new = tx[k].new /\ u.kind = tx[k].kind /\ u.locked = tx[k].locked
              /\ u.todo = tx[k].todo /\ u.committed
          BY <1>1 DEF Tx
        <4>2. f(j) = u BY <2>1, <3>2
        <4> HIDE DEF u, f
        <4> QED BY <4>1, <4>2, <2>1, <1>1 DEF Open
      <3> QED BY <3>1, <3>2
    <2>2. CASE j # k /\ Open(j) /\ tx[k].new = Absent
      <3> DEFINE u == [tx[j] EXCEPT !.todo = @ \ tx[k].locked]
      <3>1. tx[j] \in Tx /\ tx[j] # Idle BY <2>0, <2>2 DEF Open
      <3>2. /\ u \in Tx /\ u.new = tx[j].new /\ u.kind = tx[j].kind /\ u.locked = tx[j].locked
            /\ u.todo = tx[j].todo \ tx[k].locked /\ u.committed = tx[j].committed
        BY <3>1 DEF Tx
      <3>3. f(j) = u BY <2>2
      <3> HIDE DEF u, f
      <3> QED BY <3>1, <3>2, <3>3, <2>2
    <2>3. CASE j # k /\ ~(Open(j) /\ tx[k].new = Absent)
      <3>1. f(j) = tx[j] BY <2>3
      <3> HIDE DEF f
      <3> QED BY <3>1, <2>0, <2>3
    <2> QED BY <2>1, <2>2, <2>3
  <1> HIDE DEF f
  <1> QED BY <1>1, <1>2, <1>3, <1>5, <1>6, <1>7

LEMMA CommitKeeps == ASSUME PgInv, NEW k \in Conns, Commit(k) PROVE PgInv'
  <1> DEFINE S == tx[k].locked
             new == tx[k].new
  <1>1. /\ Open(k) /\ new \in Slot /\ S \in SUBSET Runs
        /\ visible' = [r \in Runs |-> IF r \in S THEN new ELSE visible[r]]
        /\ onDisk' = visible' /\ tx' \in [Conns -> Tx \cup {Idle}]
    BY CommitEffect
  <1>2. \A j \in Conns : Open(j)' =>
           /\ Open(j) /\ j # k /\ tx'[j].new = tx[j].new /\ tx'[j].locked = tx[j].locked
           /\ tx'[j].todo \subseteq tx[j].todo
    BY CommitEffect DEF Open
  <1>3. \A j \in Conns : tx'[j] # Idle =>
           tx[j] # Idle /\ tx'[j].new = tx[j].new /\ tx'[j].kind = tx[j].kind
    BY CommitEffect
  <1>4. acked' = [r \in Runs |-> IF r \in S THEN new ELSE acked[r]]
        /\ call' = call /\ held' = held /\ known' = known /\ clock' = clock
        /\ drawn' = drawn /\ conn' = conn
    BY DEF Commit
  <1>5. TokensUpTo(new, drawn) BY <1>1 DEF PgInv, TxTokenInv, Open
  <1> HIDE DEF S, new
  <1>6. PgTypeOK'
    <2>1. visible' \in [Runs -> Record \cup {Absent}] BY <1>1 DEF PgInv, PgTypeOK, TypeOK, Slot
    <2>2. acked' \in [Runs -> Record \cup {Absent, Unknown}]
      BY <1>1, <1>4 DEF PgInv, PgTypeOK, TypeOK, Slot
    <2> QED BY <1>1, <1>4, <2>1, <2>2 DEF PgInv, PgTypeOK, TypeOK
  <1>7. RowInv' BY <1>2 DEF PgInv, RowInv
  <1>8. StepInv'
    <2> SUFFICES ASSUME NEW j \in Conns, Open(j)', NEW r \in tx'[j].locked
                 PROVE  Ledger!RecordStep(LedgerView(visible'[r]), LedgerView(tx'[j].new))
      BY DEF StepInv
    <2>1. /\ Open(j) /\ j # k /\ tx'[j].new = tx[j].new /\ r \in tx[j].locked BY <1>2
    <2>2. r \notin S BY <2>1, <1>1 DEF PgInv, RowInv, S
    <2>3. r \in Runs BY <2>1 DEF PgInv, PgTypeOK, Tx, Open
    <2>4. visible'[r] = visible[r] BY <1>1, <2>2, <2>3
    <2> QED BY <2>1, <2>4 DEF PgInv, StepInv
  <1>9. DeleteInv' BY <1>2 DEF PgInv, DeleteInv
  <1>10. TxTokenInv' BY <1>1, <1>3, <1>4, <1>5 DEF PgInv, TxTokenInv
  <1>11. TxKindInv' BY <1>3 DEF PgInv, TxKindInv
  <1> QED BY <1>1, <1>6, <1>7, <1>8, <1>9, <1>10, <1>11 DEF PgInv, DurableInv

(* A transaction ends without changing a row, or nothing happens to any.   *)
LEMMA EndTxKeeps ==
    ASSUME PgInv, PgTypeOK', visible' = visible, onDisk' = onDisk, drawn' = drawn,
           \A k \in Conns : tx'[k] \in {tx[k], Idle}
    PROVE  PgInv'
  <1>1. \A k \in Conns : Open(k)' => Open(k) /\ tx'[k] = tx[k] BY DEF Open
  <1>2. RowInv' BY <1>1 DEF PgInv, RowInv
  <1>3. StepInv' BY <1>1 DEF PgInv, StepInv
  <1>4. DeleteInv' BY <1>1 DEF PgInv, DeleteInv
  <1>5. TxTokenInv' BY DEF PgInv, TxTokenInv
  <1>6. TxKindInv' BY DEF PgInv, TxKindInv
  <1>7. DurableInv' BY DEF PgInv, DurableInv
  <1> QED BY <1>2, <1>3, <1>4, <1>5, <1>6, <1>7 DEF PgInv

LEMMA AnswerKeeps == ASSUME PgInv, NEW c \in Clients, Answer(c) PROVE PgInv'
  <1> DEFINE k == conn[c]
             t == tx[k]
  <1>1. k \in Conns /\ t \in Tx /\ t # Idle BY DEF Answer, PgInv, PgTypeOK
  <1>2. /\ visible' = visible /\ onDisk' = onDisk /\ call' = call /\ clock' = clock
        /\ drawn' = drawn /\ acked' = acked /\ conn' = conn /\ tx' = [tx EXCEPT ![k] = Idle]
    BY DEF Answer
  <1>3. t.kind \in {"acquire", "append"} => t.new \in Record
    BY <1>1 DEF PgInv, TxKindInv, Tx
  <1>4. held' \in [Clients -> [Runs -> Nat]]
    BY <1>3, RecordTypes DEF Answer, PgInv, PgTypeOK, TypeOK
  <1>5. known' \in [Clients -> [Runs -> Snapshot \cup {Unknown}]]
    BY <1>3, RecordTypes DEF Answer, PgInv, PgTypeOK, TypeOK, Snapshot
  <1> HIDE DEF k, t
  <1>6. PgTypeOK' BY <1>2, <1>4, <1>5 DEF PgInv, PgTypeOK, TypeOK
  <1>7. \A j \in Conns : tx'[j] \in {tx[j], Idle} BY <1>2 DEF PgInv, PgTypeOK
  <1> QED BY <1>2, <1>6, <1>7, EndTxKeeps

(* Errors, lost connections, dying hosts, reads, and the server's restart. *)
LEMMA PgEnvironmentKeeps ==
    ASSUME PgInv,
           \/ \E k \in Conns : Abort(k)
           \/ \E c \in Clients : \/ Lost(c) \/ HostDies(c) \/ connect(c)
                                 \/ \E r \in Runs : pg_load(c, r)
           \/ Restart \/ SetServerClock
    PROVE  PgInv' /\ visible' = visible /\ onDisk' = onDisk
  <1>0. PgTypeOK /\ TypeOK /\ onDisk = visible BY DEF PgInv, PgTypeOK, DurableInv
  <1>1. ASSUME NEW k \in Conns, Abort(k) PROVE PgInv' /\ visible' = visible /\ onDisk' = onDisk
    <2>1. PgTypeOK' BY <1>0, <1>1 DEF Abort, PgTypeOK, TypeOK
    <2>2. \A j \in Conns : tx'[j] \in {tx[j], Idle} BY <1>0, <1>1 DEF Abort, PgTypeOK
    <2> QED BY <1>1, <2>1, <2>2, EndTxKeeps DEF Abort
  <1>2. ASSUME NEW c \in Clients, Disconnects(c),
               held' \in [Clients -> [Runs -> Nat]],
               known' \in [Clients -> [Runs -> Snapshot \cup {Unknown}]]
        PROVE  PgInv' /\ visible' = visible /\ onDisk' = onDisk
    <2>1. /\ conn[c] \in Conns /\ visible' = visible /\ onDisk' = onDisk /\ drawn' = drawn
          /\ call' = call /\ clock' = clock /\ acked' = acked
          /\ conn' \in [Clients -> Conns \cup {NoConn}]
      BY <1>0, <1>2 DEF Disconnects, PgTypeOK
    <2>2. /\ tx' \in [Conns -> Tx \cup {Idle}]
          /\ \A j \in Conns : tx'[j] \in {tx[j], Idle}
      BY <1>0, <1>2, <2>1 DEF Disconnects, PgTypeOK
    <2>3. PgTypeOK' BY <1>0, <1>2, <2>1, <2>2 DEF PgTypeOK, TypeOK
    <2> QED BY <2>1, <2>2, <2>3, EndTxKeeps
  <1>3. ASSUME NEW c \in Clients, Lost(c) \/ HostDies(c)
        PROVE  PgInv' /\ visible' = visible /\ onDisk' = onDisk
    <2>1. /\ held \in [Clients -> [Runs -> Nat]]
          /\ known \in [Clients -> [Runs -> Snapshot \cup {Unknown}]]
      BY <1>0 DEF TypeOK
    <2>2. CASE Lost(c) BY <2>1, <2>2, <1>2 DEF Lost
    <2>3. CASE HostDies(c)
      <3>1. /\ [r \in Runs |-> NoToken] \in [Runs -> Nat]
            /\ [r \in Runs |-> Unknown] \in [Runs -> Snapshot \cup {Unknown}]
        BY DEF NoToken
      <3> DEFINE none == [r \in Runs |-> NoToken]
                 unread == [r \in Runs |-> Unknown]
      <3>2. /\ Disconnects(c)
            /\ held' = [held EXCEPT ![c] = none] /\ known' = [known EXCEPT ![c] = unread]
            /\ none \in [Runs -> Nat] /\ unread \in [Runs -> Snapshot \cup {Unknown}]
        BY <2>3, <3>1 DEF HostDies
      <3> HIDE DEF none, unread
      <3>3. /\ held' \in [Clients -> [Runs -> Nat]]
            /\ known' \in [Clients -> [Runs -> Snapshot \cup {Unknown}]]
        BY <2>1, <3>2
      <3> QED BY <3>2, <3>3, <1>2
    <2> QED BY <1>3, <2>2, <2>3
  <1>4. ASSUME NEW c \in Clients, connect(c)
        PROVE  PgInv' /\ visible' = visible /\ onDisk' = onDisk
    <2>1. PgTypeOK' BY <1>0, <1>4 DEF connect, PgTypeOK, TypeOK
    <2> QED BY <1>4, <2>1, EndTxKeeps DEF connect
  <1>5. ASSUME NEW c \in Clients, NEW r \in Runs, pg_load(c, r)
        PROVE  PgInv' /\ visible' = visible /\ onDisk' = onDisk
    <2>1. visible[r] \in Record BY <1>5, PgStored DEF pg_load
    <2>2. [revision |-> visible[r].revision, state |-> visible[r].state] \in Snapshot
      BY <2>1, RecordTypes DEF Snapshot
    <2>3. PgTypeOK' BY <1>0, <1>5, <2>2 DEF PgTypeOK, TypeOK, pg_load
    <2> QED BY <1>5, <2>3, EndTxKeeps DEF pg_load
  <1>6. CASE Restart
    <2>1. visible' = visible /\ onDisk' = onDisk /\ drawn' = drawn BY <1>0, <1>6 DEF Restart
    <2>2. PgTypeOK' BY <1>0, <1>6, <2>1 DEF Restart, PgTypeOK, TypeOK
    <2>3. \A j \in Conns : tx'[j] \in {tx[j], Idle} BY <1>6 DEF Restart
    <2> QED BY <2>1, <2>2, <2>3, EndTxKeeps
  <1>7. CASE SetServerClock
    <2>1. /\ visible' = visible /\ onDisk' = onDisk /\ drawn' = drawn /\ tx' = tx /\ conn' = conn
          /\ call' = call /\ held' = held /\ known' = known /\ acked' = acked /\ clock' \in Nat
      BY <1>7, ConstantsAssumption DEF SetServerClock, SetClock
    <2>2. PgTypeOK' BY <1>0, <2>1 DEF PgTypeOK, TypeOK
    <2> QED BY <2>1, <2>2, EndTxKeeps
  <1> QED BY <1>1, <1>3, <1>4, <1>5, <1>6, <1>7

(* The invariant is inductive.                                             *)
LEMMA PgInitInv == PgInit => PgInv
  <1> SUFFICES ASSUME PgInit PROVE PgInv OBVIOUS
  <1>1. IInv BY InitIInv DEF PgInit
  <1>2. PgTypeOK BY <1>1 DEF PgInit, PgTypeOK, IInv
  <1>3. \A k \in Conns : tx[k] = Idle BY DEF PgInit
  <1>4. RowInv /\ StepInv /\ DeleteInv /\ TxKindInv
    BY <1>3 DEF RowInv, StepInv, DeleteInv, TxKindInv, Open
  <1>5. TxTokenInv BY <1>1, <1>3 DEF TxTokenInv, IInv, TokenInv
  <1>6. DurableInv BY DEF PgInit, Init, DurableInv
  <1> QED BY <1>2, <1>4, <1>5, <1>6 DEF PgInv

LEMMA PgNextInv == PgInv /\ [PgNext]_pgVars => PgInv'
  <1> SUFFICES ASSUME PgInv, [PgNext]_pgVars PROVE PgInv' OBVIOUS
  <1>1. ASSUME NEW c \in Clients, NEW r \in Runs,
               \/ pg_create(c, r) \/ pg_append(c, r) \/ pg_acquire_lease(c, r)
               \/ pg_renew_lease(c, r) \/ pg_release_lease(c, r)
        PROVE  PgInv'
    BY <1>1, PgCreateKeeps, PgAppendKeeps, PgLeasesKeep
  <1>2. ASSUME NEW k \in Conns, Commit(k) \/ \E r \in Runs : LockNext(k, r) PROVE PgInv'
    BY <1>2, CommitKeeps, LockNextKeeps
  <1>3. CASE UNCHANGED pgVars
    <2>1. /\ visible' = visible /\ onDisk' = onDisk /\ drawn' = drawn /\ tx' = tx /\ conn' = conn
          /\ call' = call /\ held' = held /\ known' = known /\ acked' = acked /\ clock' = clock
      BY <1>3 DEF pgVars
    <2>2. PgTypeOK' BY <2>1 DEF PgInv, PgTypeOK, TypeOK
    <2> QED BY <2>1, <2>2, EndTxKeeps
  <1>4. CASE PgNext
    BY <1>1, <1>2, <1>4, PgDeletionsKeep, AnswerKeeps, PgEnvironmentKeeps DEF PgNext
  <1> QED BY <1>3, <1>4

(* Every variable of the store keeps its type, for any constants.          *)
THEOREM PostgresTypes == PgSpec => []PgTypeOK
  <1>1. PgInv => PgTypeOK BY DEF PgInv
  <1> QED BY <1>1, PgInitInv, PgNextInv, PTL DEF PgSpec

--------------------------------------------------------------------------------
(* The store implements the ledger.                                        *)

(* A commit is a transaction of the ledger over the rows it has locked.    *)
LEMMA CommitIsTransaction == ASSUME PgInv, NEW k \in Conns, Commit(k) PROVE Ledger!Next
  <1> DEFINE S == tx[k].locked
             new == tx[k].new
  <1>1. /\ Open(k) /\ new \in Slot /\ S \in SUBSET Runs
        /\ visible' = [r \in Runs |-> IF r \in S THEN new ELSE visible[r]]
        /\ onDisk' = visible' /\ onDisk = visible
    BY CommitEffect DEF PgInv, DurableInv
  <1>2. \A r \in S : Ledger!RecordStep(LedgerView(visible[r]), LedgerView(new))
    BY <1>1 DEF PgInv, StepInv
  <1> HIDE DEF S, new
  <1>3. \A r \in S : /\ LedgerView(visible'[r]) \in Ledger!LedgerRecord \cup {Absent}
                     /\ Ledger!RecordStep(LedgerView(visible[r]), LedgerView(visible'[r]))
    BY <1>1, <1>2, ViewType
  <1>4. \A r \in Runs \ S : visible'[r] = visible[r] BY <1>1
  <1>5. ledgerView' = [r \in Runs |-> IF r \in S THEN ledgerView'[r] ELSE ledgerView[r]]
    BY <1>4 DEF ledgerView
  <1>6. stableView' = [r \in Runs |-> IF r \in S THEN ledgerView'[r] ELSE stableView[r]]
    BY <1>1, <1>4 DEF ledgerView, stableView
  <1>7. Ledger!Transaction(S)
    BY <1>1, <1>3, <1>5, <1>6 DEF Ledger!Transaction, ledgerView, stableView
  <1> QED BY <1>1, <1>7 DEF Ledger!Next

(* Every step of the store is a step of the ledger or changes neither view.*)
LEMMA PgStepSimulation == PgInv /\ [PgNext]_pgVars => [Ledger!Next]_(Ledger!vars)
  <1> SUFFICES ASSUME PgInv, [PgNext]_pgVars PROVE Ledger!Next \/ UNCHANGED Ledger!vars
    OBVIOUS
  <1>1. CASE visible' = visible /\ onDisk' = onDisk
    BY <1>1 DEF Ledger!vars
  <1>2. ASSUME NEW c \in Clients, NEW r \in Runs,
               \/ pg_create(c, r) \/ pg_append(c, r) \/ pg_acquire_lease(c, r)
               \/ pg_renew_lease(c, r) \/ pg_release_lease(c, r) \/ pg_delete_run(c, r)
        PROVE  visible' = visible /\ onDisk' = onDisk
    BY <1>2 DEF pg_create, pg_append, pg_acquire_lease, pg_renew_lease, pg_release_lease,
                pg_delete_run, Change, Transact
  <1>3. ASSUME NEW c \in Clients,
               \/ \E t \in Tenants : pg_delete_tenant(c, t)
               \/ pg_apply_retention(c) \/ Answer(c)
        PROVE  visible' = visible /\ onDisk' = onDisk
    BY <1>3 DEF pg_delete_tenant, pg_apply_retention, Answer, Transact
  <1>4. ASSUME NEW k \in Conns, NEW r \in Runs, LockNext(k, r)
        PROVE  visible' = visible /\ onDisk' = onDisk
    BY <1>4 DEF LockNext
  <1>5. CASE UNCHANGED pgVars BY <1>1, <1>5 DEF pgVars
  <1>6. CASE PgNext
    BY <1>1, <1>2, <1>3, <1>4, <1>6, CommitIsTransaction, PgEnvironmentKeeps DEF PgNext
  <1> QED BY <1>5, <1>6

(* The PostgreSQL store implements the fenced, append-only, crash-stable   *)
(* ledger, whatever hosts, connections that are lost in the middle of a    *)
(* commit, and restarts of the server.                                     *)
THEOREM PostgresImplementsLedger == PgSpec => ImplementsLedger
  <1>1. PgInit => Ledger!Init BY DEF PgInit, Init, Ledger!Init, LedgerView
  <1> QED BY <1>1, PgInitInv, PgNextInv, PgStepSimulation, PTL
          DEF PgSpec, ImplementsLedger, Ledger!Spec

(* A superseded lease never writes a run's row again, also when its        *)
(* transaction commits after its host has gone.                            *)
THEOREM PostgresFenced == PgSpec => []LogFenced
  BY PostgresImplementsLedger, LedgerIsFenced, PTL

--------------------------------------------------------------------------------
(* Records are kept.  A commit acknowledges what it writes (CommitInv), so *)
(* what can be lost is only an update: a host's snapshot must belong to    *)
(* the lease it appends under (KnownInv), also the one that an answer has  *)
(* yet to bring it (AnswerInv); and no host may come to have, of a commit  *)
(* that another one made, the token a transaction is about to store        *)
(* (FreshInv).                                                             *)
CommitInv == acked = visible

TxTallyInv ==
    /\ \A r \in Runs : Tally(visible[r])
    /\ \A k \in Conns : tx[k] # Idle => Tally(tx[k].new)

(* acquire_lease of row r has committed and its host does not know yet.    *)
Promised(j, r) ==
    tx[j] # Idle /\ tx[j].committed /\ tx[j].kind = "acquire" /\ r \in tx[j].locked

Fresh(new, r) ==
    \/ new = Absent \/ new.token = NoToken
    \/ visible[r] # Absent /\ new.token = visible[r].token
    \/ /\ \A d \in Clients : held[d][r] # new.token
       /\ \A j \in Conns : Promised(j, r) => tx[j].new.token # new.token

FreshInv == \A k \in Conns : Open(k) => \A r \in tx[k].locked : Fresh(tx[k].new, r)

(* With a lease of the record, the snapshot is of the record or older.     *)
Follows(rec, token, snap) ==
    rec # Absent /\ token # NoToken /\ token = rec.token
    => /\ snap.revision <= rec.revision
       /\ snap.revision = rec.revision => snap.state = rec.state

SnapshotInv == \A c \in Clients, r \in Runs :
    known[c][r] # Unknown => Follows(visible[r], held[c][r], known[c][r])

(* append has committed on a host's connection.                            *)
Appended(c) ==
    conn[c] # NoConn /\ tx[conn[c]] # Idle /\ tx[conn[c]].committed /\ tx[conn[c]].kind = "append"

AnswerInv == \A c \in Clients : Appended(c) =>
    \A r \in tx[conn[c]].locked : Follows(visible[r], held[c][r], tx[conn[c]].new)

PgKInv == CommitInv /\ TxTallyInv /\ HeldInv /\ FreshInv /\ SnapshotInv /\ AnswerInv

(* Starting a transaction.                                                 *)
LEMMA TransactKept ==
    ASSUME PgInv, PgInv', PgKInv, NEW c \in Clients, NEW kind \in Kinds, NEW todo \in SUBSET Runs,
           NEW locked \in SUBSET Runs, NEW new \in Slot, NEW cutoff \in Nat,
           Ready(c), Transact(c, kind, todo, locked, new, cutoff), drawn <= drawn',
           Tally(new), \A r \in locked : Fresh(new, r)
    PROVE  PgKInv'
  <1> DEFINE k == conn[c]
             t == [kind |-> kind, todo |-> todo, locked |-> locked, new |-> new,
                   cutoff |-> cutoff, committed |-> FALSE]
  <1>1. /\ visible' = visible /\ held' = held /\ known' = known /\ acked' = acked /\ conn' = conn
        /\ tx' = [tx EXCEPT ![k] = t]
    BY DEF Transact
  <1>2. k \in Conns /\ tx[k] = Idle BY DEF Ready, PgInv, PgTypeOK
  <1>3. t.locked = locked /\ t.new = new /\ ~t.committed OBVIOUS
  <1> HIDE DEF t
  <1>4. tx'[k] = t /\ \A j \in Conns \ {k} : tx'[j] = tx[j]
    BY <1>1, <1>2 DEF PgInv, PgTypeOK
  <1> HIDE DEF k
  <1>5. CommitInv' BY <1>1 DEF PgKInv, CommitInv
  <1>6. TxTallyInv' BY <1>1, <1>3, <1>4 DEF PgKInv, TxTallyInv
  <1>7. HeldInv'
    <2>1. \A d \in Clients, r \in Runs : held[d][r] \in Nat BY DEF PgInv, PgTypeOK, TypeOK
    <2>2. drawn \in Nat /\ drawn' \in Nat BY DEF PgInv, PgTypeOK, TypeOK
    <2> QED BY <1>1, <2>1, <2>2 DEF PgKInv, HeldInv
  <1>8. FreshInv'
    <2>1. \A j \in Conns, r \in Runs : Promised(j, r)' => Promised(j, r) /\ tx'[j] = tx[j]
      BY <1>3, <1>4 DEF Promised
    <2> SUFFICES ASSUME NEW j \in Conns, Open(j)', NEW r \in tx'[j].locked PROVE Fresh(tx[j].new, r)'
      BY DEF FreshInv
    <2>2. r \in Runs BY <1>3, <1>4 DEF PgInv, PgTypeOK, Tx, Open
    <2>3. Fresh(tx'[j].new, r)
      <3>1. CASE j = k BY <3>1, <1>3, <1>4
      <3>2. CASE j # k BY <3>2, <1>4 DEF PgKInv, FreshInv, Open
      <3> QED BY <3>1, <3>2
    <2> QED BY <1>1, <2>1, <2>2, <2>3 DEF Fresh
  <1>9. SnapshotInv' BY <1>1 DEF PgKInv, SnapshotInv
  <1>10. AnswerInv'
    <2> SUFFICES ASSUME NEW d \in Clients, Appended(d)', NEW r \in tx'[conn[d]].locked
                 PROVE  Follows(visible[r], held[d][r], tx'[conn[d]].new)
      BY <1>1 DEF AnswerInv
    <2>1. conn[d] \in Conns BY <1>1 DEF Appended, PgInv, PgTypeOK
    <2>2. conn[d] # k BY <1>1, <1>3, <1>4 DEF Appended
    <2>3. tx'[conn[d]] = tx[conn[d]] BY <1>4, <2>1, <2>2
    <2>4. Appended(d) BY <1>1, <2>3 DEF Appended
    <2> QED BY <2>3, <2>4 DEF PgKInv, AnswerInv
  <1> QED BY <1>5, <1>6, <1>7, <1>8, <1>9, <1>10 DEF PgKInv

LEMMA ChangeKept ==
    ASSUME PgInv, PgInv', PgKInv, NEW c \in Clients, NEW kind \in Kinds, NEW r \in Runs, NEW new \in Slot,
           Locks(c, r), Change(c, kind, r, new), drawn <= drawn', Tally(new), Fresh(new, r)
    PROVE  PgKInv'
  <1> DEFINE todo == {}
             locked == {r}
             cutoff == 0
  <1>1. todo \in SUBSET Runs /\ locked \in SUBSET Runs /\ cutoff \in Nat OBVIOUS
  <1>2. Ready(c) /\ Transact(c, kind, todo, locked, new, cutoff) BY DEF Locks, Change
  <1>3. \A q \in locked : Fresh(new, q) OBVIOUS
  <1> HIDE DEF todo, locked, cutoff
  <1> QED BY <1>1, <1>2, <1>3, TransactKept

LEMMA PgCreateKept ==
    ASSUME PgInv, PgInv', PgKInv, NEW c \in Clients, NEW r \in Runs, pg_create(c, r) PROVE PgKInv'
  <1>1. PICK n \in Starts, retain \in Retains :
           Change(c, "create", r,
                  [revision |-> n, event_sequence |-> n, state |-> n, retain_until |-> retain,
                   events |-> <<>>, token |-> NoToken, expires |-> 0])
    BY DEF pg_create
  <1> DEFINE new == [revision |-> n, event_sequence |-> n, state |-> n,
                     retain_until |-> retain, events |-> <<>>,
                     token |-> NoToken, expires |-> 0]
             kind == "create"
  <1>2. n \in Nat /\ retain \in Nat BY ConstantsAssumption
  <1>3. <<>> \in Seq(StoredEvent) /\ Len(<<>>) = 0 BY EmptySeq
  <1>4. new \in Record BY <1>2, <1>3 DEF Record, NoToken
  <1>5. new.events = <<>> /\ new.token = NoToken /\ new.state = n /\ new.event_sequence = n OBVIOUS
  <1>6. Change(c, kind, r, new) /\ Locks(c, r) /\ drawn' = drawn BY <1>1 DEF pg_create
  <1>7. kind \in Kinds BY DEF Kinds
  <1> HIDE DEF new, kind
  <1>8. Tally(new) BY <1>2, <1>3, <1>5 DEF Tally
  <1>9. Fresh(new, r) BY <1>5 DEF Fresh
  <1>10. drawn <= drawn' BY <1>6, PgStored
  <1> QED BY <1>4, <1>6, <1>7, <1>8, <1>9, <1>10, ChangeKept DEF Slot

LEMMA PgAppendKept ==
    ASSUME PgInv, PgInv', PgKInv, NEW c \in Clients, NEW r \in Runs, pg_append(c, r) PROVE PgKInv'
  <1>1. PICK k \in BatchSizes, retain \in Retains :
           Change(c, "append", r, prepare_append(visible[r], held[c][r], known[c][r], k, retain))
    BY DEF pg_append
  <1>2. k \in Nat /\ retain \in Nat BY ConstantsAssumption
  <1>3. /\ visible[r] \in Record /\ visible[r] # Absent /\ TokensUpTo(visible[r], drawn) /\ drawn \in Nat
    BY PgStored DEF pg_append
  <1>4. /\ Locks(c, r) /\ drawn' = drawn /\ known[c][r] # Unknown /\ known[c][r] \in Snapshot
        /\ held[c][r] = visible[r].token /\ visible[r].token # NoToken
        /\ visible[r].revision = known[c][r].revision
    BY DEF pg_append, check_lease, PgInv, PgTypeOK, TypeOK
  <1> DEFINE new == prepare_append(visible[r], held[c][r], known[c][r], k, retain)
             kind == "append"
  <1>5. new \in Record BY <1>2, <1>3, <1>4, PrepareAppend
  <1>6. known[c][r].state = visible[r].state
    BY <1>3, <1>4 DEF PgKInv, SnapshotInv, Follows
  <1>7. Tally(new)
    <2>1. Tally(visible[r]) BY DEF PgKInv, TxTallyInv
    <2>2. held[c][r] \in Nat BY DEF PgInv, PgTypeOK, TypeOK
    <2> QED BY <1>2, <1>3, <1>6, <2>1, <2>2, AppendTally
  <1>8. Fresh(new, r) BY <1>3 DEF Fresh, prepare_append
  <1>9. Change(c, kind, r, new) /\ kind \in Kinds BY <1>1 DEF Kinds
  <1> HIDE DEF new, kind
  <1>10. drawn <= drawn' BY <1>3, <1>4
  <1> QED BY <1>4, <1>5, <1>7, <1>8, <1>9, <1>10, ChangeKept DEF Slot

(* acquire_lease draws a token that no host has and no answer brings.      *)
LEMMA PgLeaseKept ==
    ASSUME PgInv, PgInv', PgKInv, NEW c \in Clients, NEW r \in Runs,
           pg_acquire_lease(c, r) \/ pg_renew_lease(c, r) \/ pg_release_lease(c, r)
    PROVE  PgKInv'
  <1>1. /\ visible[r] \in Record /\ visible[r] # Absent /\ drawn \in Nat /\ clock \in Nat
    BY PgStored DEF pg_acquire_lease, pg_renew_lease, pg_release_lease
  <1>2. ASSUME NEW token \in Nat, NEW expires \in Nat, NEW kind \in {"acquire", "renew", "release"},
               Locks(c, r), Change(c, kind, r, WithLease(visible[r], token, expires)), drawn <= drawn',
               token \in {NoToken, visible[r].token, drawn + 1}
        PROVE  PgKInv'
    <2> DEFINE new == WithLease(visible[r], token, expires)
    <2>1. /\ new \in Record /\ new.token = token /\ new.state = visible[r].state
          /\ new.event_sequence = visible[r].event_sequence /\ new.events = visible[r].events
      BY <1>1 DEF Record, WithLease
    <2>2. Change(c, kind, r, new) /\ kind \in Kinds BY <1>2 DEF Kinds
    <2> HIDE DEF new
    <2>3. Tally(new) BY <1>1, <2>1 DEF PgKInv, TxTallyInv, Tally
    <2>4. Fresh(new, r)
      <3>1. CASE token \in {NoToken, visible[r].token} BY <1>1, <2>1, <3>1 DEF Fresh
      <3>2. CASE token = drawn + 1
        <4>1. \A d \in Clients : held[d][r] \in Nat /\ held[d][r] <= drawn
          BY DEF PgKInv, HeldInv, PgInv, PgTypeOK, TypeOK
        <4>2. ASSUME NEW j \in Conns, Promised(j, r) PROVE tx[j].new.token # token
          <5>1. tx[j].new \in Record /\ tx[j].new # Absent
            BY <4>2, AbsentAssumption DEF Promised, PgInv, PgTypeOK, TxKindInv, Tx
          <5>2. tx[j].new.token \in Nat BY <5>1, RecordTypes
          <5>3. tx[j].new.token <= drawn
            BY <4>2, <5>1 DEF Promised, PgInv, TxTokenInv, TokensUpTo
          <5> QED BY <1>1, <3>2, <5>2, <5>3
        <4>3. \A d \in Clients : held[d][r] # token BY <1>1, <3>2, <4>1
        <4> QED BY <2>1, <4>2, <4>3 DEF Fresh
      <3> QED BY <1>2, <3>1, <3>2
    <2> QED BY <1>2, <2>1, <2>2, <2>3, <2>4, ChangeKept DEF Slot
  <1>3. CASE pg_acquire_lease(c, r)
    <2>1. PICK ttl \in TTLs : Change(c, "acquire", r, WithLease(visible[r], drawn + 1, clock + ttl))
      BY <1>3 DEF pg_acquire_lease
    <2>2. clock + ttl \in Nat /\ drawn + 1 \in Nat /\ drawn <= drawn' /\ Locks(c, r)
      BY <1>1, <1>3, ConstantsAssumption DEF pg_acquire_lease
    <2> QED BY <1>2, <2>1, <2>2
  <1>4. CASE pg_renew_lease(c, r)
    <2>1. PICK ttl \in TTLs : Change(c, "renew", r, WithLease(visible[r], visible[r].token, clock + ttl))
      BY <1>4 DEF pg_renew_lease
    <2>2. clock + ttl \in Nat /\ visible[r].token \in Nat /\ drawn <= drawn' /\ Locks(c, r)
      BY <1>1, <1>4, ConstantsAssumption, RecordTypes DEF pg_renew_lease
    <2> QED BY <1>2, <2>1, <2>2
  <1>5. CASE pg_release_lease(c, r)
    <2>1. Change(c, "release", r, WithLease(visible[r], NoToken, 0)) /\ drawn <= drawn' /\ Locks(c, r)
      BY <1>1, <1>5 DEF pg_release_lease
    <2> QED BY <1>2, <2>1 DEF NoToken
  <1> QED BY <1>3, <1>4, <1>5

LEMMA PgDeletionsKept ==
    ASSUME PgInv, PgInv', PgKInv, NEW c \in Clients,
           \/ \E r \in Runs : pg_delete_run(c, r)
           \/ \E t \in Tenants : pg_delete_tenant(c, t)
           \/ pg_apply_retention(c)
    PROVE  PgKInv'
  <1>1. Tally(Absent) /\ \A r \in Runs : Fresh(Absent, r) BY DEF Tally, Fresh
  <1>2. drawn \in Nat /\ Absent \in Slot BY DEF PgInv, PgTypeOK, TypeOK, Slot
  <1>3. ASSUME NEW kind \in Kinds, NEW todo \in SUBSET Runs, NEW locked \in SUBSET Runs, NEW cutoff \in Nat,
               Ready(c), Transact(c, kind, todo, locked, Absent, cutoff), drawn' = drawn
        PROVE  PgKInv'
    <2>1. drawn <= drawn' BY <1>2, <1>3
    <2> QED BY <1>1, <1>2, <1>3, <2>1, TransactKept
  <1>4. ASSUME NEW r \in Runs, pg_delete_run(c, r) PROVE PgKInv'
    <2> DEFINE kind == "delete_run"
               todo == {}
               locked == {r}
               cutoff == 0
    <2>1. /\ kind \in Kinds /\ todo \in SUBSET Runs /\ locked \in SUBSET Runs /\ cutoff \in Nat
      BY DEF Kinds
    <2>2. Ready(c) /\ Transact(c, kind, todo, locked, Absent, cutoff) /\ drawn' = drawn
      BY <1>4 DEF pg_delete_run, Locks, Change
    <2> HIDE DEF kind, todo, locked, cutoff
    <2> QED BY <1>3, <2>1, <2>2
  <1>5. ASSUME NEW t \in Tenants, pg_delete_tenant(c, t) PROVE PgKInv'
    <2> DEFINE todo == {r \in RunsOf(t) : visible[r] # Absent}
               locked == {}
               kind == "delete_tenant"
               cutoff == 0
    <2>1. /\ kind \in Kinds /\ todo \in SUBSET Runs /\ locked \in SUBSET Runs /\ cutoff \in Nat
      BY DEF Kinds, RunsOf
    <2>2. Ready(c) /\ Transact(c, kind, todo, locked, Absent, cutoff) /\ drawn' = drawn
      BY <1>5 DEF pg_delete_tenant
    <2> HIDE DEF kind, todo, locked, cutoff
    <2> QED BY <1>3, <2>1, <2>2
  <1>6. CASE pg_apply_retention(c)
    <2>1. PICK cutoff \in 1..MaxTime :
             Transact(c, "retention", {r \in Runs : Expired(r, cutoff)}, {}, Absent, cutoff)
      BY <1>6 DEF pg_apply_retention
    <2> DEFINE todo == {r \in Runs : Expired(r, cutoff)}
               locked == {}
               kind == "retention"
    <2>2. /\ kind \in Kinds /\ todo \in SUBSET Runs /\ locked \in SUBSET Runs /\ cutoff \in Nat
      BY ConstantsAssumption DEF Kinds
    <2>3. Ready(c) /\ Transact(c, kind, todo, locked, Absent, cutoff) /\ drawn' = drawn
      BY <1>6, <2>1 DEF pg_apply_retention
    <2> HIDE DEF kind, todo, locked
    <2> QED BY <1>3, <2>2, <2>3
  <1> QED BY <1>4, <1>5, <1>6

LEMMA LockNextKept ==
    ASSUME PgInv, PgInv', PgKInv, NEW k \in Conns, NEW r \in Runs, LockNext(k, r) PROVE PgKInv'
  <1>1. /\ tx[k] \in Tx /\ tx[k] # Idle /\ ~tx[k].committed /\ tx[k].new = Absent
    BY DEF LockNext, Open, PgInv, PgTypeOK, DeleteInv
  <1>2. /\ visible' = visible /\ held' = held /\ known' = known /\ acked' = acked /\ conn' = conn
        /\ drawn' = drawn
    BY DEF LockNext
  <1>3. /\ \A j \in Conns \ {k} : tx'[j] = tx[j]
        /\ tx'[k].new = tx[k].new /\ ~tx'[k].committed
    BY <1>1 DEF LockNext, Tx, PgInv, PgTypeOK
  <1>4. CommitInv' /\ HeldInv' /\ SnapshotInv'
    BY <1>2 DEF PgKInv, CommitInv, HeldInv, SnapshotInv
  <1>5. TxTallyInv' BY <1>1, <1>2, <1>3 DEF PgKInv, TxTallyInv
  <1>6. FreshInv'
    <2>1. \A j \in Conns, q \in Runs : Promised(j, q)' => Promised(j, q) /\ tx'[j] = tx[j]
      BY <1>3 DEF Promised
    <2> SUFFICES ASSUME NEW j \in Conns, Open(j)', NEW q \in tx'[j].locked PROVE Fresh(tx[j].new, q)'
      BY DEF FreshInv
    <2>2. CASE j = k BY <2>2, <1>1, <1>3 DEF Fresh
    <2>3. CASE j # k
      <3>1. Open(j) /\ q \in tx[j].locked /\ q \in Runs
        BY <2>3, <1>3 DEF Open, PgInv, PgTypeOK, Tx
      <3>2. Fresh(tx[j].new, q) BY <3>1 DEF PgKInv, FreshInv
      <3> QED BY <2>1, <2>3, <1>2, <1>3, <3>1, <3>2 DEF Fresh
    <2> QED BY <2>2, <2>3
  <1>7. AnswerInv'
    <2> SUFFICES ASSUME NEW d \in Clients, Appended(d)', NEW q \in tx'[conn[d]].locked
                 PROVE  Follows(visible[q], held[d][q], tx'[conn[d]].new)
      BY <1>2 DEF AnswerInv
    <2>1. conn[d] \in Conns BY <1>2 DEF Appended, PgInv, PgTypeOK
    <2>2. conn[d] # k BY <1>2, <1>3 DEF Appended
    <2>3. tx'[conn[d]] = tx[conn[d]] BY <1>3, <2>1, <2>2
    <2>4. Appended(d) BY <1>2, <2>3 DEF Appended
    <2> QED BY <2>3, <2>4 DEF PgKInv, AnswerInv
  <1> QED BY <1>4, <1>5, <1>6, <1>7 DEF PgKInv

(* A snapshot that follows a record follows what one operation makes of    *)
(* it, unless that gives the host a new lease.                             *)
LEMMA FollowsStep ==
    ASSUME NEW old \in Slot, NEW new \in Slot, NEW token \in Nat, NEW snap, snap.revision \in Nat,
           Ledger!RecordStep(LedgerView(old), LedgerView(new)),
           Follows(old, token, snap),
           \/ new = Absent \/ new.token = NoToken \/ token # new.token
           \/ old # Absent /\ new.token = old.token
    PROVE  Follows(new, token, snap)
  <1> SUFFICES ASSUME new # Absent, token # NoToken, token = new.token
               PROVE  /\ snap.revision <= new.revision
                      /\ snap.revision = new.revision => snap.state = new.state
    BY DEF Follows
  <1>1. old # Absent /\ token = old.token OBVIOUS
  <1>2. old \in Record /\ new \in Record BY <1>1 DEF Slot
  <1>3. /\ snap.revision <= old.revision
        /\ snap.revision = old.revision => snap.state = old.state
    BY <1>1 DEF Follows
  <1>4. \/ new.revision = old.revision + 1
        \/ new.revision = old.revision /\ new.state = old.state
    BY <1>2, StepExtends
  <1>5. old.revision \in Nat /\ new.revision \in Nat BY <1>2, RecordTypes
  <1> QED BY <1>3, <1>4, <1>5

LEMMA CommitKept == ASSUME PgInv, PgInv', PgKInv, NEW k \in Conns, Commit(k) PROVE PgKInv'
  <1> DEFINE S == tx[k].locked
             new == tx[k].new
  <1>1. /\ Open(k) /\ new \in Slot /\ S \in SUBSET Runs
        /\ visible' = [r \in Runs |-> IF r \in S THEN new ELSE visible[r]]
    BY CommitEffect
  <1>2. \A j \in Conns :
          \/ tx'[j] = Idle
          \/ tx[j] # Idle /\ tx'[j] \in Tx /\ tx'[j].new = tx[j].new
               /\ tx'[j].kind = tx[j].kind /\ tx'[j].locked = tx[j].locked
               /\ (~tx'[j].committed => ~tx[j].committed /\ j # k)
    BY CommitEffect
  <1>3. /\ acked' = [r \in Runs |-> IF r \in S THEN new ELSE acked[r]]
        /\ held' = held /\ known' = known /\ drawn' = drawn /\ conn' = conn
    BY DEF Commit
  <1>4. ASSUME NEW j \in Conns, tx'[j] # Idle, tx'[j].committed, j # k PROVE tx[j].committed
    BY <1>4 DEF Commit, PgInv, PgTypeOK, Tx, Open
  <1>5. \A r \in S : /\ Ledger!RecordStep(LedgerView(visible[r]), LedgerView(new))
                     /\ Fresh(new, r)
    BY <1>1 DEF PgInv, StepInv, PgKInv, FreshInv
  <1>6. Tally(new) BY <1>1 DEF PgKInv, TxTallyInv, Open
  <1> HIDE DEF S, new
  <1>7. CommitInv' BY <1>1, <1>3 DEF PgKInv, CommitInv
  <1>8. TxTallyInv' BY <1>1, <1>2, <1>6 DEF PgKInv, TxTallyInv
  <1>9. HeldInv' BY <1>3 DEF PgKInv, HeldInv
  <1>10. FreshInv'
    <2> SUFFICES ASSUME NEW j \in Conns, Open(j)', NEW q \in tx'[j].locked PROVE Fresh(tx[j].new, q)'
      BY DEF FreshInv
    <2>1. Open(j) /\ j # k /\ tx'[j].new = tx[j].new /\ q \in tx[j].locked BY <1>2 DEF Open
    <2>2. q \notin S BY <2>1, <1>1 DEF PgInv, RowInv, S
    <2>3. q \in Runs BY <2>1 DEF PgInv, PgTypeOK, Tx, Open
    <2>4. visible'[q] = visible[q] BY <1>1, <2>2, <2>3
    <2>5. ASSUME NEW i \in Conns, Promised(i, q)' PROVE Promised(i, q) /\ tx'[i].new = tx[i].new
      <3>1. i # k BY <1>2, <2>2, <2>5 DEF Promised, S
      <3> QED BY <1>2, <1>4, <2>5, <3>1 DEF Promised
    <2>6. Fresh(tx[j].new, q) BY <2>1 DEF PgKInv, FreshInv
    <2> QED BY <1>3, <2>1, <2>4, <2>5, <2>6 DEF Fresh
  <1>11. ASSUME NEW d \in Clients, NEW r \in Runs, NEW snap, snap.revision \in Nat,
                Follows(visible[r], held[d][r], snap)
         PROVE  Follows(visible'[r], held[d][r], snap)
    <2>1. CASE r \notin S BY <1>1, <1>11, <2>1
    <2>2. CASE r \in S
      <3>1. visible'[r] = new BY <1>1, <2>2
      <3>2. visible[r] \in Slot /\ held[d][r] \in Nat BY DEF PgInv, PgTypeOK, TypeOK, Slot
      <3>3. \/ new = Absent \/ new.token = NoToken \/ held[d][r] # new.token
            \/ visible[r] # Absent /\ new.token = visible[r].token
        BY <1>5, <2>2 DEF Fresh
      <3> QED BY <1>1, <1>5, <1>11, <2>2, <3>1, <3>2, <3>3, FollowsStep
    <2> QED BY <2>1, <2>2
  <1>12. SnapshotInv'
    <2> SUFFICES ASSUME NEW d \in Clients, NEW r \in Runs, known[d][r] # Unknown
                 PROVE  Follows(visible'[r], held[d][r], known[d][r])
      BY <1>3 DEF SnapshotInv
    <2>1. known[d][r].revision \in Nat BY DEF PgInv, PgTypeOK, TypeOK, Snapshot
    <2> QED BY <1>11, <2>1 DEF PgKInv, SnapshotInv
  <1>13. AnswerInv'
    <2> SUFFICES ASSUME NEW d \in Clients, Appended(d)', NEW r \in tx'[conn[d]].locked
                 PROVE  Follows(visible'[r], held[d][r], tx'[conn[d]].new)
      BY <1>3 DEF AnswerInv
    <2> DEFINE j == conn[d]
    <2>1. j \in Conns /\ tx'[j] # Idle BY <1>3 DEF Appended, PgInv, PgTypeOK
    <2>2. /\ tx[j] # Idle /\ tx'[j].new = tx[j].new /\ tx'[j].kind = tx[j].kind /\ r \in tx[j].locked
      BY <1>2, <2>1
    <2>3. tx[j].new \in Record /\ r \in Runs
      BY <1>3, <2>1, <2>2 DEF Appended, PgInv, PgTypeOK, TxKindInv, Tx
    <2>4. tx[j].new.revision \in Nat BY <2>3, RecordTypes
    <2>5. CASE j = k
      <3>1. visible'[r] = tx[j].new BY <1>1, <2>2, <2>3, <2>5 DEF S, new
      <3> QED BY <2>2, <2>4, <3>1 DEF Follows
    <2>6. CASE j # k
      <3>1. Appended(d) BY <1>3, <1>4, <2>1, <2>2, <2>6 DEF Appended
      <3> QED BY <1>11, <2>2, <2>3, <2>4, <3>1 DEF PgKInv, AnswerInv
    <2> QED BY <2>5, <2>6
  <1> QED BY <1>7, <1>8, <1>9, <1>10, <1>12, <1>13 DEF PgKInv

(* The answer to the host brings a lease nobody else has, or a snapshot    *)
(* that still follows the record.                                          *)
LEMMA AnswerKept == ASSUME PgInv, PgInv', PgKInv, NEW c \in Clients, Answer(c) PROVE PgKInv'
  <1> DEFINE k == conn[c]
             t == tx[k]
  <1>1. k \in Conns /\ t \in Tx /\ t # Idle /\ t.committed BY DEF Answer, PgInv, PgTypeOK
  <1>2. /\ visible' = visible /\ drawn' = drawn /\ acked' = acked /\ conn' = conn
        /\ tx' = [tx EXCEPT ![k] = Idle]
    BY DEF Answer
  <1>3. t.kind \in {"acquire", "append"} => t.new \in Record /\ t.new.token <= drawn
    BY <1>1, AbsentAssumption DEF PgInv, TxKindInv, TxTokenInv, TokensUpTo, Tx
  <1>4. tx'[k] = Idle /\ \A j \in Conns \ {k} : tx'[j] = tx[j] BY <1>1, <1>2 DEF PgInv, PgTypeOK
  <1>5. \A d \in Clients, r \in Runs :
          \/ held'[d][r] = held[d][r]
          \/ d = c /\ Promised(k, r) /\ held'[d][r] = t.new.token /\ known'[d][r] = Unknown
    BY <1>1 DEF Answer, Promised, PgInv, PgTypeOK, TypeOK
  <1>6. \A d \in Clients, r \in Runs :
          \/ known'[d][r] = known[d][r] \/ known'[d][r] = Unknown
          \/ /\ d = c /\ Appended(c) /\ r \in t.locked /\ held' = held
             /\ known'[d][r] = [revision |-> t.new.revision, state |-> t.new.state]
    BY <1>1 DEF Answer, Appended, PgInv, PgTypeOK, TypeOK
  <1>7. CommitInv' /\ TxTallyInv' BY <1>2, <1>4 DEF PgKInv, CommitInv, TxTallyInv
  <1>8. HeldInv' BY <1>2, <1>3, <1>5 DEF PgKInv, HeldInv, Promised
  <1>9. \A j \in Conns, r \in Runs : Promised(j, r)' => Promised(j, r) /\ tx'[j] = tx[j]
    BY <1>4 DEF Promised
  <1>10. FreshInv'
    <2> SUFFICES ASSUME NEW j \in Conns, Open(j)', NEW r \in tx'[j].locked PROVE Fresh(tx[j].new, r)'
      BY DEF FreshInv
    <2>1. Open(j) /\ tx'[j] = tx[j] /\ r \in tx[j].locked /\ r \in Runs
      BY <1>4 DEF Open, PgInv, PgTypeOK, Tx
    <2>2. Fresh(tx[j].new, r) BY <2>1 DEF PgKInv, FreshInv
    <2> HIDE DEF k, t
    <2>3. ASSUME NEW d \in Clients, \A e \in Clients : held[e][r] # tx[j].new.token,
                 \A i \in Conns : Promised(i, r) => tx[i].new.token # tx[j].new.token
          PROVE  held'[d][r] # tx[j].new.token
      BY <1>1, <1>5, <2>1, <2>3 DEF t
    <2> QED BY <1>2, <1>9, <2>1, <2>2, <2>3 DEF Fresh
  <1>11. SnapshotInv'
    <2> SUFFICES ASSUME NEW d \in Clients, NEW r \in Runs, known'[d][r] # Unknown
                 PROVE  Follows(visible[r], held'[d][r], known'[d][r])
      BY <1>2 DEF SnapshotInv
    <2>1. held'[d][r] = held[d][r] BY <1>5
    <2>2. CASE known'[d][r] = known[d][r] BY <2>1, <2>2 DEF PgKInv, SnapshotInv
    <2>3. CASE /\ d = c /\ Appended(c) /\ r \in t.locked
               /\ known'[d][r] = [revision |-> t.new.revision, state |-> t.new.state]
      <3>1. Follows(visible[r], held[c][r], t.new) BY <2>3 DEF PgKInv, AnswerInv
      <3> QED BY <2>1, <2>3, <3>1 DEF Follows
    <2> QED BY <1>6, <2>2, <2>3
  <1>12. AnswerInv'
    <2> SUFFICES ASSUME NEW d \in Clients, Appended(d)', NEW r \in tx'[conn[d]].locked
                 PROVE  Follows(visible[r], held'[d][r], tx'[conn[d]].new)
      BY <1>2 DEF AnswerInv
    <2>1. conn[d] \in Conns /\ conn[d] # k BY <1>2, <1>4 DEF Appended, PgInv, PgTypeOK
    <2>2. tx'[conn[d]] = tx[conn[d]] BY <1>4, <2>1
    <2>3. Appended(d) BY <1>2, <2>2 DEF Appended
    <2>4. r \in Runs BY <2>2, <2>3, <2>1 DEF Appended, PgInv, PgTypeOK, Tx
    <2>5. held'[d][r] = held[d][r] BY <1>5, <2>1, <2>4
    <2> QED BY <2>2, <2>3, <2>5 DEF PgKInv, AnswerInv
  <1> QED BY <1>7, <1>8, <1>10, <1>11, <1>12 DEF PgKInv

(* Transactions end unseen, hosts forget, connections come and go.         *)
LEMMA EndTxKept ==
    ASSUME PgInv, PgInv', PgKInv, visible' = visible, acked' = acked, drawn' = drawn,
           \A k \in Conns : tx'[k] \in {tx[k], Idle},
           \A d \in Clients : \/ conn'[d] \in {conn[d], NoConn}
                              \/ conn'[d] \in Conns /\ tx'[conn'[d]] = Idle,
           \A d \in Clients, r \in Runs :
              /\ held'[d][r] \in {held[d][r], NoToken}
              /\ known'[d][r] # Unknown => Follows(visible[r], held'[d][r], known'[d][r])
    PROVE  PgKInv'
  <1>1. CommitInv' /\ TxTallyInv' BY DEF PgKInv, CommitInv, TxTallyInv
  <1>2. HeldInv'
    <2>1. drawn \in Nat BY DEF PgInv, PgTypeOK, TypeOK
    <2>2. \A d \in Clients, r \in Runs : held'[d][r] = held[d][r] \/ held'[d][r] = 0 BY DEF NoToken
    <2> QED BY <2>1, <2>2 DEF PgKInv, HeldInv
  <1>3. SnapshotInv' BY DEF SnapshotInv
  <1>4. FreshInv'
    <2> SUFFICES ASSUME NEW j \in Conns, Open(j)', NEW r \in tx'[j].locked PROVE Fresh(tx[j].new, r)'
      BY DEF FreshInv
    <2>1. Open(j) /\ tx'[j] = tx[j] /\ r \in tx[j].locked /\ r \in Runs
      BY DEF Open, PgInv, PgTypeOK, Tx
    <2>2. Fresh(tx[j].new, r) BY <2>1 DEF PgKInv, FreshInv
    <2>3. \A i \in Conns : Promised(i, r)' => Promised(i, r) /\ tx'[i] = tx[i] BY DEF Promised
    <2> QED BY <2>1, <2>2, <2>3 DEF Fresh
  <1>5. AnswerInv'
    <2> SUFFICES ASSUME NEW d \in Clients, Appended(d)', NEW r \in tx'[conn'[d]].locked
                 PROVE  Follows(visible[r], held'[d][r], tx'[conn'[d]].new)
      BY DEF AnswerInv
    <2>1. conn'[d] = conn[d] /\ conn[d] \in Conns BY DEF Appended, PgInv, PgTypeOK
    <2>2. tx'[conn[d]] = tx[conn[d]] BY <2>1 DEF Appended
    <2>3. Appended(d) BY <2>1, <2>2 DEF Appended
    <2>4. r \in Runs BY <2>1, <2>2, <2>3 DEF Appended, PgInv, PgTypeOK, Tx
    <2>5. held'[d][r] \in {held[d][r], NoToken} BY <2>4
    <2> QED BY <2>1, <2>2, <2>3, <2>5 DEF PgKInv, AnswerInv, Follows
  <1> QED BY <1>1, <1>2, <1>3, <1>4, <1>5 DEF PgKInv

LEMMA PgEnvironmentKept ==
    ASSUME PgInv, PgInv', PgKInv,
           \/ \E k \in Conns : Abort(k)
           \/ \E c \in Clients : \/ Lost(c) \/ HostDies(c) \/ connect(c)
                                 \/ \E r \in Runs : pg_load(c, r)
           \/ Restart \/ SetServerClock \/ UNCHANGED pgVars
    PROVE  PgKInv'
  <1>0. /\ \A c \in Clients, r \in Runs : known[c][r] # Unknown => Follows(visible[r], held[c][r], known[c][r])
        /\ onDisk = visible /\ PgTypeOK
    BY DEF PgKInv, SnapshotInv, PgInv, DurableInv
  <1>1. CASE \E k \in Conns : Abort(k)
    <2>1. PICK k \in Conns : Abort(k) BY <1>1
    <2>2. \A j \in Conns : tx'[j] \in {tx[j], Idle} BY <1>0, <2>1 DEF Abort, PgTypeOK
    <2> QED BY <1>0, <2>1, <2>2, EndTxKept DEF Abort
  <1>2. ASSUME NEW c \in Clients, Disconnects(c),
               \/ UNCHANGED <<held, known>>
               \/ \A d \in Clients, r \in Runs :
                     IF d = c THEN held'[d][r] = NoToken /\ known'[d][r] = Unknown
                     ELSE held'[d][r] = held[d][r] /\ known'[d][r] = known[d][r]
        PROVE  PgKInv'
    <2>1. /\ visible' = visible /\ acked' = acked /\ drawn' = drawn
          /\ \A d \in Clients : conn'[d] \in {conn[d], NoConn}
          /\ \A j \in Conns : tx'[j] \in {tx[j], Idle}
      BY <1>0, <1>2 DEF Disconnects, PgTypeOK
    <2>2. \A d \in Clients, r \in Runs :
             /\ held'[d][r] \in {held[d][r], NoToken}
             /\ known'[d][r] # Unknown => Follows(visible[r], held'[d][r], known'[d][r])
      BY <1>0, <1>2
    <2> QED BY <2>1, <2>2, EndTxKept
  <1>3. ASSUME NEW c \in Clients, Lost(c) PROVE PgKInv'
    BY <1>2, <1>3 DEF Lost
  <1>4. ASSUME NEW c \in Clients, HostDies(c) PROVE PgKInv'
    <2>1. \A d \in Clients, r \in Runs :
             IF d = c THEN held'[d][r] = NoToken /\ known'[d][r] = Unknown
             ELSE held'[d][r] = held[d][r] /\ known'[d][r] = known[d][r]
      BY <1>0, <1>4 DEF HostDies, PgTypeOK, TypeOK
    <2> QED BY <1>2, <1>4, <2>1 DEF HostDies
  <1>5. ASSUME NEW c \in Clients, connect(c) PROVE PgKInv'
    <2>1. /\ visible' = visible /\ acked' = acked /\ drawn' = drawn /\ tx' = tx /\ held' = held
          /\ known' = known
          /\ \A d \in Clients : \/ conn'[d] = conn[d]
                                \/ conn'[d] \in Conns /\ tx[conn'[d]] = Idle
      BY <1>0, <1>5 DEF connect, PgTypeOK
    <2> QED BY <1>0, <2>1, EndTxKept
  <1>6. ASSUME NEW c \in Clients, NEW r \in Runs, pg_load(c, r) PROVE PgKInv'
    <2>1. /\ visible' = visible /\ acked' = acked /\ drawn' = drawn /\ tx' = tx /\ held' = held
          /\ conn' = conn
      BY <1>6 DEF pg_load
    <2> DEFINE snap == [revision |-> visible[r].revision, state |-> visible[r].state]
    <2>2. visible[r] \in Record BY <1>6, PgStored DEF pg_load
    <2>3. visible[r].revision \in Nat BY <2>2, RecordTypes
    <2>4. Follows(visible[r], held[c][r], snap) BY <2>3 DEF Follows
    <2>5. known' = [known EXCEPT ![c][r] = snap] BY <1>6 DEF pg_load
    <2> HIDE DEF snap
    <2>6. \A d \in Clients, q \in Runs :
             known'[d][q] = IF d = c /\ q = r THEN snap ELSE known[d][q]
      BY <1>0, <2>5 DEF PgTypeOK, TypeOK
    <2> QED BY <1>0, <2>1, <2>4, <2>6, EndTxKept
  <1>7. CASE Restart
    <2>1. /\ visible' = visible /\ acked' = acked /\ drawn' = drawn /\ held' = held /\ known' = known
          /\ \A d \in Clients : conn'[d] = NoConn
          /\ \A j \in Conns : tx'[j] = Idle
      BY <1>0, <1>7 DEF Restart
    <2> QED BY <1>0, <2>1, EndTxKept
  <1>8. CASE SetServerClock
    BY <1>0, <1>8, EndTxKept DEF SetServerClock, SetClock
  <1>9. CASE UNCHANGED pgVars
    BY <1>0, <1>9, EndTxKept DEF pgVars
  <1> QED BY <1>1, <1>3, <1>4, <1>5, <1>6, <1>7, <1>8, <1>9

LEMMA PgInitKInv == PgInit => PgKInv
  <1> SUFFICES ASSUME PgInit PROVE PgKInv OBVIOUS
  <1>1. /\ \A r \in Runs : visible[r] = Absent
        /\ \A c \in Clients, r \in Runs : held[c][r] = 0 /\ known[c][r] = Unknown
        /\ \A k \in Conns : tx[k] = Idle
        /\ \A c \in Clients : conn[c] = NoConn
        /\ drawn = 0 /\ acked = visible
    BY DEF PgInit, Init, NoToken
  <1>2. HeldInv
    <2>1. \A c \in Clients, r \in Runs : held[c][r] = 0 BY <1>1
    <2>2. drawn = 0 BY <1>1
    <2> QED BY <2>1, <2>2 DEF HeldInv
  <1> QED BY <1>1, <1>2
          DEF PgKInv, CommitInv, TxTallyInv, Tally, FreshInv, Open, SnapshotInv, AnswerInv, Appended

LEMMA PgNextKInv == PgInv /\ PgInv' /\ PgKInv /\ [PgNext]_pgVars => PgKInv'
  <1> SUFFICES ASSUME PgInv, PgInv', PgKInv, [PgNext]_pgVars PROVE PgKInv' OBVIOUS
  <1>1. ASSUME NEW c \in Clients, NEW r \in Runs,
               \/ pg_create(c, r) \/ pg_append(c, r) \/ pg_acquire_lease(c, r)
               \/ pg_renew_lease(c, r) \/ pg_release_lease(c, r)
        PROVE  PgKInv'
    BY <1>1, PgCreateKept, PgAppendKept, PgLeaseKept
  <1>2. ASSUME NEW k \in Conns, Commit(k) \/ \E r \in Runs : LockNext(k, r) PROVE PgKInv'
    BY <1>2, CommitKept, LockNextKept
  <1>3. CASE UNCHANGED pgVars BY <1>3, PgEnvironmentKept
  <1>4. CASE PgNext
    BY <1>1, <1>2, <1>4, PgDeletionsKept, AnswerKept, PgEnvironmentKept DEF PgNext
  <1> QED BY <1>3, <1>4

(* No update of a row is lost or applied twice, rows stay readable, and    *)
(* what a commit wrote or deleted stays so, whichever hosts learn of it.   *)
THEOREM PostgresKeepsRecords == PgSpec => []RecordsKept
  <1>1. PgSpec => []PgInv BY PgInitInv, PgNextInv, PTL DEF PgSpec
  <1>2. PgSpec => []PgKInv BY <1>1, PgInitKInv, PgNextKInv, PTL DEF PgSpec
  <1>3. PgInv /\ PgKInv /\ Ledger!NumberedLog => RecordsKept
    <2> SUFFICES ASSUME PgInv, PgKInv, Ledger!NumberedLog PROVE RecordsKept OBVIOUS
    <2>1. TypeOK /\ onDisk = visible /\ acked = visible
          /\ \A r \in Runs : Tally(visible[r]) /\ visible[r] \in Slot
      BY DEF PgInv, PgTypeOK, TypeOK, DurableInv, PgKInv, CommitInv, TxTallyInv, Slot
    <2>2. AckInv BY <2>1, ExtendsOrder DEF AckInv, Covers, Slot
    <2> QED BY <2>1, <2>2, KeptRecords
  <1> QED BY <1>1, <1>2, <1>3, PostgresImplementsLedger, LedgerIsNumbered, PTL
================================================================================

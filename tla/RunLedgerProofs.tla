---------------------------- MODULE RunLedgerProofs ----------------------------
(* Every behaviour of the abstract ledger is fenced and numbered, for any  *)
(* set of runs, any batch sizes and any number of grants.                  *)
EXTENDS RunLedger, SequenceTheorems, TLAPS

Slot == LedgerRecord \cup {Absent}
LedgerTypeOK == ledger \in [Runs -> Slot] /\ stable \in [Runs -> Slot]

GoodRecord(rec) == rec # Absent => Fenced(rec) /\ Numbered(rec)
Inv == /\ LedgerTypeOK
       /\ \A r \in Runs : GoodRecord(ledger[r]) /\ GoodRecord(stable[r])

(* A batch is a sequence of events with the numbers and the token given    *)
(* (prepare_append's loop).                                                *)
LEMMA BatchProperties ==
    ASSUME NEW n \in Nat, NEW k \in Nat, NEW t \in Nat
    PROVE  /\ Batch(n, k, t) \in Seq(LedgerEvent)
           /\ Len(Batch(n, k, t)) = k
           /\ \A i \in 1..k : Batch(n, k, t)[i] = [sequence |-> n + i, token |-> t]
  <1>1. \A i \in 1..k : [sequence |-> n + i, token |-> t] \in LedgerEvent
    BY DEF LedgerEvent
  <1>2. Batch(n, k, t) \in [1..k -> LedgerEvent]
    BY <1>1 DEF Batch
  <1>3. Batch(n, k, t) \in Seq(LedgerEvent)
    BY <1>2, SeqDef
  <1> QED
    BY <1>2, <1>3, LenProperties DEF Batch

(* What appending a batch does to a sequence of events, index by index.    *)
LEMMA AppendEvents ==
    ASSUME NEW es \in Seq(LedgerEvent), NEW b \in Seq(LedgerEvent)
    PROVE  /\ Len(es) \in Nat /\ Len(b) \in Nat
           /\ Len(es \o b) = Len(es) + Len(b)
           /\ \A i \in 1..Len(es) : (es \o b)[i] = es[i]
           /\ \A i \in 1..(Len(es) + Len(b)) : i > Len(es) => (es \o b)[i] = b[i - Len(es)]
  BY ConcatProperties, LenProperties

(* The fields of a stored event are numbers.                               *)
LEMMA EventTypes ==
    ASSUME NEW es \in Seq(LedgerEvent)
    PROVE  /\ Len(es) \in Nat
           /\ \A i \in 1..Len(es) : es[i].token \in Nat /\ es[i].sequence \in Nat
  <1>1. \A i \in 1..Len(es) : es[i] \in LedgerEvent BY ElementOfSeq
  <1> QED BY <1>1, LenProperties DEF LedgerEvent

(* Appending keeps a record fenced and numbered (RunStore::append).        *)
LEMMA AppendKeepsGood ==
    ASSUME NEW old \in LedgerRecord, NEW new \in LedgerRecord,
           Fenced(old), Numbered(old), AppendStep(old, new)
    PROVE  Fenced(new) /\ Numbered(new)
  <1> DEFINE q == old.event_sequence
             k == new.event_sequence - old.event_sequence
             t == old.token
             es == old.events
             fs == new.events
             n == Len(es)
             b == Batch(q, k, t)
  <1>1. /\ k \in Nat /\ t \in Nat /\ q \in Nat
        /\ es \in Seq(LedgerEvent)
        /\ t # NoToken /\ new.token = t
        /\ fs = es \o b
        /\ b = Batch(q, k, t)
        /\ new.event_sequence = q + k
    BY DEF AppendStep, LedgerRecord
  <1>2. n \in Nat /\ \A i \in 1..n : es[i].token \in Nat /\ es[i].sequence \in Nat
    BY <1>1, EventTypes
  <1>3. /\ \A i, j \in 1..n : i < j => es[i].token <= es[j].token
        /\ \A i \in 1..n : es[i].token <= t
        /\ \A i \in 1..n : es[i].sequence = q - n + i
    BY <1>1 DEF Fenced, Numbered
  <1>goal. SUFFICES /\ \A i, j \in 1..Len(fs) : i < j => fs[i].token <= fs[j].token
                    /\ \A i \in 1..Len(fs) : fs[i].token <= t
                    /\ \A i \in 1..Len(fs) : fs[i].sequence = (q + k) - Len(fs) + i
    BY <1>1 DEF Fenced, Numbered
  <1> HIDE DEF q, k, t, es, fs, n, b
  <1>nat. k \in Nat /\ t \in Nat /\ q \in Nat /\ n \in Nat
    BY <1>1, <1>2
  <1>4. /\ b \in Seq(LedgerEvent) /\ Len(b) = k
        /\ \A i \in 1..k : b[i] = [sequence |-> q + i, token |-> t]
    <2>1. /\ Batch(q, k, t) \in Seq(LedgerEvent) /\ Len(Batch(q, k, t)) = k
          /\ \A i \in 1..k : Batch(q, k, t)[i] = [sequence |-> q + i, token |-> t]
      BY <1>nat, BatchProperties
    <2>2. b = Batch(q, k, t) BY <1>1
    <2> QED BY <2>1, <2>2
  <1>5. /\ Len(fs) = n + k
        /\ \A i \in 1..n : fs[i] = es[i]
        /\ \A i \in 1..(n + k) : i > n => fs[i] = [sequence |-> q + i - n, token |-> t]
    <2>1. es \in Seq(LedgerEvent) /\ fs = es \o b BY <1>1
    <2>2. /\ Len(fs) = n + k
          /\ \A i \in 1..n : fs[i] = es[i]
          /\ \A i \in 1..(n + k) : i > n => fs[i] = b[i - n]
      BY <2>1, <1>4, AppendEvents DEF n
    <2>3. ASSUME NEW i \in 1..(n + k), i > n
          PROVE  fs[i] = [sequence |-> q + i - n, token |-> t]
      <3>1. i - n \in 1..k /\ q + (i - n) = q + i - n BY <1>nat, <2>3
      <3>2. fs[i] = b[i - n] BY <2>2, <2>3
      <3> QED BY <3>1, <3>2, <1>4
    <2> QED BY <2>2, <2>3
  <1>6. \A i \in 1..(n + k) : i > n => fs[i].token = t /\ fs[i].sequence = q + i - n
    BY <1>5
  <1>7. ASSUME NEW i \in 1..(n + k), NEW j \in 1..(n + k), i < j
        PROVE  fs[i].token <= fs[j].token
    <2>1. CASE j <= n
      <3>1. i \in 1..n /\ j \in 1..n BY <1>nat, <1>7, <2>1
      <3> QED BY <3>1, <1>3, <1>5, <1>7
    <2>2. CASE j > n /\ i <= n
      <3>1. i \in 1..n BY <1>nat, <2>2
      <3> QED BY <3>1, <2>2, <1>3, <1>5, <1>6
    <2>3. CASE j > n /\ i > n
      BY <2>3, <1>nat, <1>6
    <2> QED BY <2>1, <2>2, <2>3, <1>nat
  <1>8. ASSUME NEW i \in 1..(n + k)
        PROVE  fs[i].token <= t /\ fs[i].sequence = (q + k) - (n + k) + i
    <2>1. CASE i <= n
      <3>1. i \in 1..n BY <1>nat, <2>1
      <3>2. fs[i].token <= t /\ fs[i].sequence = q - n + i BY <3>1, <1>3, <1>5
      <3> QED BY <3>2, <1>nat
    <2>2. CASE i > n
      <3>1. fs[i].token = t /\ fs[i].sequence = q + i - n BY <1>6, <2>2
      <3> QED BY <3>1, <1>nat
    <2> QED BY <2>1, <2>2, <1>nat
  <1> QED BY <1>5, <1>7, <1>8

(* Every permitted change of one record keeps it fenced and numbered.      *)
LEMMA RecordStepKeepsGood ==
    ASSUME NEW old \in Slot, NEW new \in Slot, GoodRecord(old), RecordStep(old, new)
    PROVE  GoodRecord(new)
  <1> SUFFICES ASSUME new # Absent PROVE Fenced(new) /\ Numbered(new)
    BY DEF GoodRecord
  <1>0. new \in LedgerRecord BY DEF Slot
  <1>1. CASE old = Absent
    <2>1. CreateStep(new) BY <1>1 DEF RecordStep
    <2>2. Len(new.events) = 0 BY <2>1, EmptySeq DEF CreateStep
    <2> QED BY <2>2 DEF Fenced, Numbered
  <1>2. CASE old # Absent
    <2>0. old \in LedgerRecord /\ Fenced(old) /\ Numbered(old)
      BY <1>2 DEF Slot, GoodRecord
    <2>1. CASE AppendStep(old, new)
      BY <2>0, <2>1, <1>0, AppendKeepsGood
    <2>2. CASE GrantStep(old, new) \/ ReleaseStep(old, new) \/ RenewStep(old, new)
      <3>1. /\ new.events = old.events /\ new.event_sequence = old.event_sequence
            /\ old.token \in Nat /\ new.token \in Nat
            /\ old.events \in Seq(LedgerEvent)
        BY <2>0, <2>2, <1>0 DEF GrantStep, ReleaseStep, RenewStep, SameDocument, LedgerRecord
      <3>2. Numbered(new) BY <3>1, <2>0 DEF Numbered
      <3>3. \A i \in 1..Len(old.events) : old.events[i].token \in Nat
        BY <3>1, EventTypes
      <3>4. \A i, j \in 1..Len(new.events) :
               i < j => new.events[i].token <= new.events[j].token
        BY <3>1, <2>0 DEF Fenced
      <3>5. ASSUME new.token # NoToken, NEW i \in 1..Len(new.events)
            PROVE  new.events[i].token <= new.token
        <4>1. CASE GrantStep(old, new) BY <3>1, <3>3, <4>1 DEF GrantStep
        <4>2. CASE RenewStep(old, new) BY <3>1, <3>5, <4>2, <2>0 DEF RenewStep, Fenced
        <4> QED BY <2>2, <3>5, <4>1, <4>2 DEF ReleaseStep
      <3>6. Fenced(new) BY <3>4, <3>5 DEF Fenced
      <3> QED BY <3>2, <3>6
    <2> QED BY <1>2, <2>1, <2>2 DEF RecordStep
  <1> QED BY <1>1, <1>2

(* The invariant holds at the start and every step keeps it.               *)
LEMMA InitInv == Init => Inv
  BY DEF Init, Inv, LedgerTypeOK, Slot, GoodRecord

LEMMA NextInv == Inv /\ [Next]_vars => Inv'
  <1> SUFFICES ASSUME Inv, [Next]_vars PROVE Inv' OBVIOUS
  <1>1. ASSUME NEW r \in Runs, Effect(r) PROVE Inv'
    <2>1. LedgerTypeOK'
      BY <1>1 DEF Inv, LedgerTypeOK, Effect, Slot
    <2>2. GoodRecord(ledger'[r])
      BY <1>1, RecordStepKeepsGood DEF Inv, LedgerTypeOK, Effect, Slot
    <2>3. \A q \in Runs \ {r} : ledger'[q] = ledger[q]
      BY <1>1 DEF Effect, Inv, LedgerTypeOK
    <2> QED
      BY <1>1, <2>1, <2>2, <2>3 DEF Inv, Effect, GoodRecord
  <1>2. ASSUME NEW S \in SUBSET Runs, Settle(S) PROVE Inv'
    BY <1>2 DEF Inv, LedgerTypeOK, Settle, GoodRecord
  <1>3. ASSUME NEW S \in SUBSET Runs, Rollback(S) PROVE Inv'
    BY <1>3 DEF Inv, LedgerTypeOK, Rollback, GoodRecord
  <1>4. CASE UNCHANGED vars
    BY <1>4 DEF Inv, LedgerTypeOK, vars, GoodRecord
  <1>5. ASSUME NEW S \in SUBSET Runs, Transaction(S) PROVE Inv'
    <2>1. \A r \in S : ledger'[r] \in Slot /\ RecordStep(ledger[r], ledger'[r])
      BY <1>5 DEF Transaction, Slot
    <2>2. \A r \in S : GoodRecord(ledger'[r])
      BY <2>1, RecordStepKeepsGood DEF Inv, LedgerTypeOK
    <2>3. /\ ledger' \in [Runs -> Slot] /\ stable' \in [Runs -> Slot]
          /\ \A r \in Runs \ S : ledger'[r] = ledger[r] /\ stable'[r] = stable[r]
          /\ \A r \in S : stable'[r] = ledger'[r]
      BY <1>5, <2>1 DEF Transaction, Inv, LedgerTypeOK
    <2> QED BY <2>2, <2>3 DEF Inv, LedgerTypeOK, GoodRecord
  <1> QED BY <1>1, <1>2, <1>3, <1>4, <1>5 DEF Next

(* A superseded lease never writes again, in any behaviour of the ledger.  *)
THEOREM LedgerFenced == Spec => []FencedLog
  <1>1. Inv => FencedLog BY DEF Inv, GoodRecord, FencedLog
  <1> QED BY <1>1, InitInv, NextInv, PTL DEF Spec

(* The events of a run are numbered consecutively up to event_sequence.    *)
THEOREM LedgerNumbered == Spec => []NumberedLog
  <1>1. Inv => NumberedLog BY DEF Inv, GoodRecord, NumberedLog
  <1> QED BY <1>1, InitInv, NextInv, PTL DEF Spec
================================================================================

------------------------------- MODULE RunLedger -------------------------------
(***************************************************************************)
(* What the durable crate promises about one RunStore, whatever the        *)
(* backend: every stored run is a fenced, append-only ledger.  A grant     *)
(* fences every earlier lease token, only the current token appends, a     *)
(* revision is written once, and an operation that was acknowledged is     *)
(* stable: a crash of the machine may undo only what was not.              *)
(*                                                                         *)
(* Translated from the RunStore trait and the checks of prepare_create,    *)
(* prepare_append and the backends' check_lease (crates/adk-durable).      *)
(* FilesystemStore, PostgresStore and DurableRunner are shown to implement *)
(* it.                                                                     *)
(***************************************************************************)
EXTENDS Integers, Sequences

CONSTANTS Runs,     \* the (tenant, run) keys of the store
          Absent    \* what is stored under a key that holds no run

VARIABLES ledger,   \* what a reader of the store sees under each key
          stable    \* what a reader would see after the machine lost power

vars == <<ledger, stable>>

NoToken == 0        \* a record without a lease; real tokens are 1, 2, ...

(* Types of the promise.  The document is `state`, the other snapshot      *)
(* fields are the counters the store itself checks.                        *)
LedgerEvent == [sequence : Nat, token : Nat]
LedgerRecord == [revision : Nat, event_sequence : Nat, state : Nat,
                 events : Seq(LedgerEvent), token : Nat]

(* Event.sequence for a batch of k events appended by token t.             *)
Batch(seq, k, t) == [i \in 1..k |-> [sequence |-> seq + i, token |-> t]]

--------------------------------------------------------------------------------
(* The only ways one stored record may become another.                     *)

(* RunStore::create: a run starts without events and without a lease.      *)
CreateStep(new) == new.events = <<>> /\ new.token = NoToken

(* RunStore::append: the current token, the next revision, new events only *)
(* at the end and numbered on from event_sequence.                         *)
AppendStep(old, new) ==
    /\ old.token # NoToken
    /\ new.token = old.token
    /\ new.revision = old.revision + 1
    /\ new.event_sequence >= old.event_sequence
    /\ new.events = old.events
          \o Batch(old.event_sequence, new.event_sequence - old.event_sequence, old.token)

SameDocument(old, new) ==
    /\ new.revision = old.revision
    /\ new.event_sequence = old.event_sequence
    /\ new.state = old.state
    /\ new.events = old.events

(* RunStore::acquire_lease: a token newer than everything the record has   *)
(* seen.                                                                   *)
GrantStep(old, new) ==
    /\ SameDocument(old, new)
    /\ new.token > old.token
    /\ \A i \in 1..Len(old.events) : new.token > old.events[i].token

(* RunStore::release_lease; renew_lease leaves all of this alone.          *)
ReleaseStep(old, new) == SameDocument(old, new) /\ new.token = NoToken
RenewStep(old, new) == SameDocument(old, new) /\ new.token = old.token

RecordStep(old, new) ==
    IF old = Absent
    THEN new # Absent /\ CreateStep(new)
    ELSE \/ new = Absent                  \* delete_run, delete_tenant, apply_retention
         \/ AppendStep(old, new)
         \/ GrantStep(old, new)
         \/ ReleaseStep(old, new)
         \/ RenewStep(old, new)

--------------------------------------------------------------------------------
Init == ledger = [r \in Runs |-> Absent] /\ stable = ledger

(* One operation takes effect on one run.                                  *)
Effect(r) ==
    /\ ledger'[r] \in LedgerRecord \cup {Absent}
    /\ RecordStep(ledger[r], ledger'[r])
    /\ ledger' = [ledger EXCEPT ![r] = ledger'[r]]
    /\ UNCHANGED stable

(* A transaction takes effect on all of its runs at once, and for good.    *)
Transaction(S) ==
    /\ \A r \in S : /\ ledger'[r] \in LedgerRecord \cup {Absent}
                    /\ RecordStep(ledger[r], ledger'[r])
    /\ ledger' = [r \in Runs |-> IF r \in S THEN ledger'[r] ELSE ledger[r]]
    /\ stable' = [r \in Runs |-> IF r \in S THEN ledger'[r] ELSE stable[r]]

(* What is visible becomes stable, for some of the keys.                   *)
Settle(S) ==
    /\ stable' = [r \in Runs |-> IF r \in S THEN ledger[r] ELSE stable[r]]
    /\ UNCHANGED ledger

(* The machine loses power: some unsettled effects are undone.             *)
Rollback(S) ==
    /\ ledger' = [r \in Runs |-> IF r \in S THEN stable[r] ELSE ledger[r]]
    /\ stable' = ledger'

Next == \/ \E r \in Runs : Effect(r)
        \/ \E S \in SUBSET Runs : Transaction(S) \/ Settle(S) \/ Rollback(S)

Spec == Init /\ [][Next]_vars

--------------------------------------------------------------------------------
(* A record is fenced when no event was written by a token older than the  *)
(* one of an event before it, and none by a token newer than the lease.    *)
Fenced(rec) ==
    /\ \A i, j \in 1..Len(rec.events) :
          i < j => rec.events[i].token <= rec.events[j].token
    /\ rec.token # NoToken =>
          \A i \in 1..Len(rec.events) : rec.events[i].token <= rec.token

(* Event numbers are consecutive and end at event_sequence.                *)
Numbered(rec) ==
    \A i \in 1..Len(rec.events) :
        rec.events[i].sequence = rec.event_sequence - Len(rec.events) + i

(* Once a lease was granted to someone else, no event of the previous      *)
(* holder reaches the run, also when it is delayed, retried or comes back  *)
(* from a pause (RunStore::append with a fenced lease).                    *)
FencedLog ==
    \A r \in Runs : \A rec \in {ledger[r], stable[r]} :
        rec # Absent => Fenced(rec)

(* The events of a run carry consecutive numbers, whoever wrote them       *)
(* (prepare_append numbers a batch on from event_sequence).                *)
NumberedLog ==
    \A r \in Runs : \A rec \in {ledger[r], stable[r]} :
        rec # Absent => Numbered(rec)
================================================================================

---------------------------- MODULE FilesystemStore ----------------------------
(***************************************************************************)
(* The filesystem backend of the durable crate                             *)
(* (crates/adk-durable/src/filesystem.rs, with the checks of store.rs).    *)
(*                                                                         *)
(* One JSON file per run under a directory per tenant.  Every operation    *)
(* takes the tenant's advisory file lock, reads the record, checks it,     *)
(* writes a temporary file, renames it over the record and syncs the       *)
(* directory; the lock is released when the call returns, fails, or its    *)
(* process dies.  Hosts ("clients") are processes or threads on one        *)
(* machine, each with the leases and snapshots it remembers.               *)
(*                                                                         *)
(* An operation is two or three steps here: the step under its own name    *)
(* (lock, read, checks), Rename (the new record is visible) and SyncDir    *)
(* (it is on disk and the caller is told).  FailCall, Crash and PowerLoss  *)
(* may come between any two of them.  An operation whose checks fail       *)
(* changes nothing and is not a step.                                      *)
(***************************************************************************)
EXTENDS Integers, Sequences

CONSTANTS
    Runs,         \* run ids
    TenantOf,     \* the tenant of each run
    Clients,      \* hosts that share the store's directory
    MaxTime,      \* bound on the wall clock, which runs from 1
    TTLs,         \* lease durations a host asks for
    MaxTokens,    \* bound on the number of lease tokens drawn
    MaxRevision,  \* the largest u64: the store refuses to count past it
    Starts,       \* revisions and event numbers a host creates a run with
    BatchSizes,   \* numbers of events in one append
    Retains,      \* retain_until a host gives a snapshot (0: none)
    Absent,       \* no file
    Idle,         \* a client outside a call
    Unknown       \* nothing is known of the run

ASSUME ConstantsAssumption ==
    /\ TTLs \subseteq Nat \ {0}        \* expiry() refuses a zero TTL
    /\ MaxTime \in Nat \ {0} /\ MaxTokens \in Nat /\ MaxRevision \in Nat
    /\ Starts \subseteq 0..MaxRevision
    /\ BatchSizes \subseteq Nat
    /\ Retains \subseteq Nat

VARIABLES
    visible,   \* the file a reader would open now
    onDisk,    \* the file a reader would open after a power loss
    call,      \* the operation each client has under way
    held,      \* the lease token each client remembers for each run
    known,     \* the snapshot each client remembers for each run
    clock,     \* Utc::now()
    drawn,     \* number of lease tokens drawn so far
    acked      \* the file as of the last operation that returned Ok, or
               \* Unknown while one that creates or deletes it has not

vars == <<visible, onDisk, call, held, known, clock, drawn, acked>>

Tenants == {TenantOf[r] : r \in Runs}
RunsOf(t) == {r \in Runs : TenantOf[r] = t}
NoToken == 0
Never == 0

(* Event: the number and the token of the lease it was appended under.     *)
StoredEvent == [sequence : Nat, token : Nat]

(* Record: a RunSnapshot and its events (the Document) and the lease.      *)
(* `state` is the number of events the snapshot's state accounts for.      *)
Record == [revision : Nat, event_sequence : Nat, state : Nat, retain_until : Nat,
           events : Seq(StoredEvent), token : Nat, expires : Nat]

Snapshot == [revision : Nat, state : Nat]

Kinds == {"create", "append", "acquire", "renew", "release",
          "delete_run", "delete_tenant", "retention"}

Call == [kind : Kinds, tenant : Tenants,
         todo : SUBSET Runs,                \* files still to replace or remove
         done : SUBSET Runs,                \* files replaced or removed
         new : Record \cup {Absent},        \* what they become
         dirty : BOOLEAN]                   \* the directory is yet to be synced

(* Every variable has its type.                                            *)
TypeOK ==
    /\ visible \in [Runs -> Record \cup {Absent}]
    /\ onDisk \in [Runs -> Record \cup {Absent}]
    /\ call \in [Clients -> Call \cup {Idle}]
    /\ held \in [Clients -> [Runs -> Nat]]
    /\ known \in [Clients -> [Runs -> Snapshot \cup {Unknown}]]
    /\ clock \in Nat
    /\ drawn \in Nat
    /\ acked \in [Runs -> Record \cup {Absent, Unknown}]

Init ==
    /\ visible = [r \in Runs |-> Absent]
    /\ onDisk = [r \in Runs |-> Absent]
    /\ call = [c \in Clients |-> Idle]
    /\ held = [c \in Clients |-> [r \in Runs |-> NoToken]]
    /\ known = [c \in Clients |-> [r \in Runs |-> Unknown]]
    /\ clock = 1
    /\ drawn = 0
    /\ acked = [r \in Runs |-> Absent]

--------------------------------------------------------------------------------
(* The pieces every operation is made of.                                  *)

(* Fault: no lock is taken.                                                *)
UnlockedAlways(t) == TRUE

(* lock(): flock on the tenant's lock file, held by the call under way.    *)
Unlocked(t) == \A c \in Clients : call[c] # Idle => call[c].tenant # t

Lock(c, t) == call[c] = Idle /\ Unlocked(t)

(* Fault: any unexpired lease will do, whoever asks.                       *)
check_lease_ignoring_token(rec, token, check_expiry) ==
    /\ rec.token # NoToken /\ token # NoToken
    /\ check_expiry => rec.expires > clock

(* check_lease: the stored lease has the caller's token and, where expiry  *)
(* matters, has not expired.                                               *)
check_lease(rec, token, check_expiry) ==
    /\ rec.token # NoToken
    /\ rec.token = token
    /\ check_expiry => rec.expires > clock

(* prepare_append: the next revision, the batch numbered on from the       *)
(* stored event_sequence; checked_add refuses to overflow either counter.  *)
prepare_append_fits(rec, expected, k) ==
    /\ expected + 1 <= MaxRevision
    /\ rec.event_sequence + k <= MaxRevision

(* The record append writes: the caller's snapshot (`known`, advanced over *)
(* its own k events) with the stored lease, the events under the caller's. *)
prepare_append(rec, token, snap, k, retain) ==
    [revision |-> snap.revision + 1,
     event_sequence |-> rec.event_sequence + k,
     state |-> snap.state + k,
     retain_until |-> retain,
     events |-> rec.events \o [i \in 1..k |-> [sequence |-> rec.event_sequence + i,
                                               token |-> token]],
     token |-> rec.token,
     expires |-> rec.expires]

(* The document as it is, with another lease.                              *)
WithLease(rec, token, expires) == [rec EXCEPT !.token = token, !.expires = expires]

Begin(c, kind, t, S, new, dirty) ==
    /\ call' = [call EXCEPT ![c] = [kind |-> kind, tenant |-> t, todo |-> S,
                                    done |-> {}, new |-> new, dirty |-> dirty]]
    /\ UNCHANGED <<visible, onDisk, held, known, clock, acked>>

(* write() for the record of one run.                                      *)
Write(c, kind, r, new) == Begin(c, kind, TenantOf[r], {r}, new, FALSE)

--------------------------------------------------------------------------------
(* The operations of RunStore, up to the first change of the disk.         *)

(* create: refused when the file exists.  The caller's counters are kept.  *)
create(c, r) ==
    /\ Lock(c, TenantOf[r])
    /\ visible[r] = Absent
    /\ \E n \in Starts, retain \in Retains :
          Write(c, "create", r,
                [revision |-> n, event_sequence |-> n, state |-> n,
                 retain_until |-> retain, events |-> <<>>,
                 token |-> NoToken, expires |-> 0])
    /\ UNCHANGED drawn

(* load: reads under the lock and changes nothing but what the host knows. *)
load(c, r) ==
    /\ Lock(c, TenantOf[r])
    /\ visible[r] # Absent
    /\ known' = [known EXCEPT ![c][r] =
                    [revision |-> visible[r].revision, state |-> visible[r].state]]
    /\ UNCHANGED <<visible, onDisk, call, held, clock, drawn, acked>>

(* append: with the remembered lease, expecting the remembered revision.   *)
append(c, r) ==
    /\ Lock(c, TenantOf[r])
    /\ visible[r] # Absent
    /\ known[c][r] # Unknown
    /\ check_lease(visible[r], held[c][r], TRUE)
    /\ visible[r].revision = known[c][r].revision
    /\ \E k \in BatchSizes, retain \in Retains :
          /\ prepare_append_fits(visible[r], known[c][r].revision, k)
          /\ Write(c, "append", r, prepare_append(visible[r], held[c][r], known[c][r], k, retain))
    /\ UNCHANGED drawn

(* acquire_lease: refused while the stored lease has not expired; draws a  *)
(* token nobody has had.                                                   *)
acquire_lease(c, r) ==
    /\ Lock(c, TenantOf[r])
    /\ visible[r] # Absent
    /\ visible[r].token = NoToken \/ visible[r].expires <= clock
    /\ drawn < MaxTokens
    /\ drawn' = drawn + 1
    /\ \E ttl \in TTLs :
          Write(c, "acquire", r,
                WithLease(visible[r], drawn + 1, clock + ttl))

renew_lease(c, r) ==
    /\ Lock(c, TenantOf[r])
    /\ visible[r] # Absent
    /\ check_lease(visible[r], held[c][r], TRUE)
    /\ \E ttl \in TTLs :
          Write(c, "renew", r, WithLease(visible[r], visible[r].token, clock + ttl))
    /\ UNCHANGED drawn

(* release_lease: an expired lease may still be released by its holder.    *)
release_lease(c, r) ==
    /\ Lock(c, TenantOf[r])
    /\ visible[r] # Absent
    /\ check_lease(visible[r], held[c][r], FALSE)
    /\ Write(c, "release", r, WithLease(visible[r], NoToken, 0))
    /\ UNCHANGED drawn

(* delete_run: removes the file, whoever holds a lease on it.              *)
delete_run(c, r) ==
    /\ Lock(c, TenantOf[r])
    /\ visible[r] # Absent
    /\ Write(c, "delete_run", r, Absent)
    /\ UNCHANGED drawn

(* delete_tenant: removes the directory file by file and syncs once.       *)
delete_tenant(c, t) ==
    /\ Lock(c, t)
    /\ Begin(c, "delete_tenant", t, {r \in RunsOf(t) : visible[r] # Absent}, Absent, TRUE)
    /\ UNCHANGED drawn

(* apply_retention, one tenant of its loop: removes every run whose        *)
(* retain_until has passed at the host's cutoff, syncing after each.       *)
(* Leases are not consulted.                                               *)
Expired(r, cutoff) ==
    /\ visible[r] # Absent
    /\ visible[r].retain_until # Never
    /\ visible[r].retain_until <= cutoff

apply_retention(c, t) ==
    /\ Lock(c, t)
    /\ \E cutoff \in 1..MaxTime :
          LET S == {r \in RunsOf(t) : Expired(r, cutoff)} IN
          S # {} /\ Begin(c, "retention", t, S, Absent, FALSE)
    /\ UNCHANGED drawn

--------------------------------------------------------------------------------
(* The rest of a call.                                                     *)

(* persist (rename over the record) or remove_file: readers see it.        *)
Rename(c, r) ==
    /\ call[c] # Idle
    /\ r \in call[c].todo
    /\ call[c].dirty => call[c].kind = "delete_tenant"
    /\ visible' = [visible EXCEPT ![r] = call[c].new]
    /\ acked' = IF Absent \in {visible[r], call[c].new}
                THEN [acked EXCEPT ![r] = Unknown] ELSE acked
    /\ call' = [call EXCEPT ![c].todo = @ \ {r}, ![c].done = @ \cup {r}, ![c].dirty = TRUE]
    /\ UNCHANGED <<onDisk, held, known, clock, drawn>>

(* Fault: the directory is not synced.                                     *)
SyncedNothing(t) == UNCHANGED onDisk

(* The directory's sync_all: all of the tenant's renames are on disk.      *)
Synced(t) == onDisk' = [r \in Runs |-> IF TenantOf[r] = t THEN visible[r] ELSE onDisk[r]]

(* Between two removals of apply_retention.                                *)
SyncDir(c) ==
    /\ call[c] # Idle
    /\ call[c].dirty
    /\ call[c].kind = "retention" /\ call[c].todo # {}
    /\ Synced(call[c].tenant)
    /\ call' = [call EXCEPT ![c].dirty = FALSE]
    /\ UNCHANGED <<visible, held, known, clock, drawn, acked>>

(* The last sync of a call, which then returns Ok: the caller of           *)
(* acquire_lease has a lease, the caller of append the committed snapshot. *)
(* A host loads the run anew under a new lease (StoredCheckpointStore).    *)
Return(c) ==
    /\ call[c] # Idle
    /\ call[c].dirty
    /\ call[c].todo = {}
    /\ Synced(call[c].tenant)
    /\ LET new == call[c].new  S == call[c].done IN
          /\ held' = IF call[c].kind = "acquire"
                     THEN [held EXCEPT ![c] = [r \in Runs |-> IF r \in S THEN new.token ELSE @[r]]]
                     ELSE held
          /\ known' = CASE call[c].kind = "acquire" ->
                             [known EXCEPT ![c] = [r \in Runs |-> IF r \in S THEN Unknown ELSE @[r]]]
                        [] call[c].kind = "append" ->
                             [known EXCEPT ![c] = [r \in Runs |->
                                 IF r \in S THEN [revision |-> new.revision, state |-> new.state]
                                            ELSE @[r]]]
                        [] OTHER -> known
          /\ acked' = [r \in Runs |->
                         IF \/ r \in S
                            \/ call[c].kind = "delete_tenant" /\ TenantOf[r] = call[c].tenant
                         THEN new ELSE acked[r]]
    /\ call' = [call EXCEPT ![c] = Idle]
    /\ UNCHANGED <<visible, clock, drawn>>

(* An I/O error of any later step: the call returns Err and the caller     *)
(* does not learn whether the rename happened.                             *)
FailCall(c) ==
    /\ call[c] # Idle
    /\ call' = [call EXCEPT ![c] = Idle]
    /\ UNCHANGED <<visible, onDisk, held, known, clock, drawn, acked>>

(* The host's process dies: its lock is released, its memory is gone.      *)
Crash(c) ==
    /\ call' = [call EXCEPT ![c] = Idle]
    /\ held' = [held EXCEPT ![c] = [r \in Runs |-> NoToken]]
    /\ known' = [known EXCEPT ![c] = [r \in Runs |-> Unknown]]
    /\ UNCHANGED <<visible, onDisk, clock, drawn, acked>>

(* The kernel writes a directory entry back on its own.                    *)
WriteBack(r) ==
    /\ onDisk' = [onDisk EXCEPT ![r] = visible[r]]
    /\ UNCHANGED <<visible, call, held, known, clock, drawn, acked>>

(* The machine loses power: each entry is found as it was last visible or  *)
(* as it was last on disk.                                                 *)
PowerLoss ==
    /\ \E S \in SUBSET Runs :
          visible' = [r \in Runs |-> IF r \in S THEN onDisk[r] ELSE visible[r]]
    /\ onDisk' = visible'
    /\ call' = [c \in Clients |-> Idle]
    /\ held' = [c \in Clients |-> [r \in Runs |-> NoToken]]
    /\ known' = [c \in Clients |-> [r \in Runs |-> Unknown]]
    /\ UNCHANGED <<clock, drawn, acked>>

(* The wall clock moves; it may be stepped back.                           *)
SetClock ==
    /\ clock' \in 1..MaxTime
    /\ UNCHANGED <<visible, onDisk, call, held, known, drawn, acked>>

--------------------------------------------------------------------------------
Next ==
    \/ \E c \in Clients, r \in Runs :
          \/ create(c, r) \/ load(c, r) \/ append(c, r)
          \/ acquire_lease(c, r) \/ renew_lease(c, r) \/ release_lease(c, r)
          \/ delete_run(c, r) \/ Rename(c, r)
    \/ \E c \in Clients, t \in Tenants : delete_tenant(c, t) \/ apply_retention(c, t)
    \/ \E c \in Clients : SyncDir(c) \/ Return(c) \/ FailCall(c) \/ Crash(c)
    \/ \E r \in Runs : WriteBack(r)
    \/ PowerLoss
    \/ SetClock

Spec == Init /\ [][Next]_vars

--------------------------------------------------------------------------------
(* Properties.                                                             *)

Records(r) == {visible[r], onDisk[r]} \ {Absent}

(* The record as the abstract ledger sees it: no expiry, no retention.     *)
LedgerView(rec) ==
    IF rec = Absent THEN Absent
    ELSE [revision |-> rec.revision, event_sequence |-> rec.event_sequence,
          state |-> rec.state, events |-> rec.events, token |-> rec.token]

Ledger == INSTANCE RunLedger WITH
    ledger <- [r \in Runs |-> LedgerView(visible[r])],
    stable <- [r \in Runs |-> LedgerView(onDisk[r])]

(* A missing file is told apart from every record, and from not knowing.   *)
ASSUME AbsentAssumption ==
    Absent \notin Record /\ Absent \notin Ledger!LedgerRecord /\ Absent # Unknown

(* The store implements the fenced ledger: whatever crashes, fails or      *)
(* overlaps, each change of a file is one complete operation of RunStore   *)
(* on the record before it, and a power loss only returns to what was      *)
(* synced (lock, read, check, rename, sync in every method).               *)
ImplementsLedger == Ledger!Spec

(* A lease that was superseded never writes again: the tokens of a run's   *)
(* events never go back (check_lease in append, after any pause, clock     *)
(* step, expiry or ambiguous write of the old holder).                     *)
LogFenced == Ledger!FencedLog

(* Event numbers increase and stay within event_sequence.                  *)
AlwaysReadable ==
    \A r \in Runs : \A rec \in Records(r) :
        /\ \A i, j \in 1..Len(rec.events) :
              i < j => rec.events[i].sequence < rec.events[j].sequence
        /\ \A i \in 1..Len(rec.events) : rec.events[i].sequence \in 1..rec.event_sequence

(* The stored state accounts for exactly the events stored.                *)
NoLostUpdate ==
    \A r \in Runs : \A rec \in Records(r) : rec.state = rec.event_sequence

(* What was acknowledged is a prefix of what is stored.                    *)
AckedSurvives ==
    \A r \in Runs : acked[r] \notin {Absent, Unknown} =>
        \A rec \in {visible[r], onDisk[r]} :
            /\ rec # Absent
            /\ rec.revision >= acked[r].revision
            /\ Len(rec.events) >= Len(acked[r].events)
            /\ SubSeq(rec.events, 1, Len(acked[r].events)) = acked[r].events

(* What was deleted is nowhere.                                            *)
ErasureSticks ==
    \A r \in Runs : acked[r] = Absent => visible[r] = Absent /\ onDisk[r] = Absent

(* A file can be trusted, now and after a power loss: it passes the checks *)
(* of read(), so no sequence of operations leaves a run that can no longer *)
(* be opened; no update is lost and none applied twice, also when a host   *)
(* retries an append that failed after its rename or two writers start     *)
(* from one snapshot (expected_revision); what an operation that returned  *)
(* Ok has written is neither rolled back nor overwritten (sync_all before  *)
(* and after the rename in write); and once delete_run, delete_tenant or   *)
(* apply_retention returned Ok, only a new create brings the run back.     *)
RecordsKept == AlwaysReadable /\ NoLostUpdate /\ AckedSurvives /\ ErasureSticks
================================================================================

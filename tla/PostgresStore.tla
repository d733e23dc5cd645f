----------------------------- MODULE PostgresStore -----------------------------
(***************************************************************************)
(* The PostgreSQL backend of the durable crate                             *)
(* (crates/adk-durable/src/pg.rs and schema.sql, with the checks of        *)
(* store.rs), over the records, hosts and properties of FilesystemStore.   *)
(*                                                                         *)
(* A run is a row of durable_runs with its rows of durable_events, which   *)
(* the same transactions write and a deletion takes along (ON DELETE       *)
(* CASCADE).  A writing operation is one transaction: it locks its row and *)
(* checks it (the step under its own name), then Commit, then Answer.  A   *)
(* statement that deletes several rows locks them one by one.              *)
(*                                                                         *)
(* The server is external: a commit is durable when it is seen, and the    *)
(* commit of a host that is gone, or that gave its connection up, may      *)
(* still take effect later, next to what the host does on a new one.       *)
(***************************************************************************)
EXTENDS FilesystemStore

CONSTANTS
    Conns,       \* connections the server has
    NoConn,      \* a host without one
    MaxBigint    \* the largest i64

ASSUME PostgresAssumption ==
    /\ MaxBigint \in Nat /\ MaxBigint <= MaxRevision
    /\ NoConn \notin Conns

VARIABLES
    conn,    \* the connection of each host's PostgresStore
    tx       \* the transaction the server has open on each connection

pgVars == <<visible, onDisk, call, held, known, clock, drawn, acked, conn, tx>>

Tx == [kind : Kinds,
       todo : SUBSET Runs,              \* rows a DELETE has still to lock
       locked : SUBSET Runs,            \* rows it has locked
       new : Record \cup {Absent},      \* what they become
       cutoff : Nat,                    \* of apply_retention
       committed : BOOLEAN]

(* Every variable has its type; the calls of the other backend are unused. *)
PgTypeOK ==
    /\ TypeOK
    /\ conn \in [Clients -> Conns \cup {NoConn}]
    /\ tx \in [Conns -> Tx \cup {Idle}]

PgInit ==
    /\ Init
    /\ conn = [c \in Clients |-> NoConn]
    /\ tx = [k \in Conns |-> Idle]

Open(k) == tx[k] # Idle /\ ~tx[k].committed

(* No open transaction has the row, or the key an INSERT is about to fill. *)
Free(r) == \A k \in Conns : Open(k) => r \notin tx[k].locked

(* client(): the host's connection, used by one call at a time.            *)
Ready(c) == conn[c] # NoConn /\ tx[conn[c]] = Idle

Transact(c, kind, todo, locked, new, cutoff) ==
    /\ tx' = [tx EXCEPT ![conn[c]] =
                [kind |-> kind, todo |-> todo, locked |-> locked, new |-> new,
                 cutoff |-> cutoff, committed |-> FALSE]]
    /\ UNCHANGED <<visible, onDisk, call, held, known, clock, acked, conn>>

(* lock_row (SELECT ... FOR UPDATE), or the INSERT or DELETE of one row,   *)
(* waits for whoever has the row and sees what they left.                  *)
Locks(c, r) == Ready(c) /\ Free(r)

Change(c, kind, r, new) == Transact(c, kind, {}, {r}, new, 0)

--------------------------------------------------------------------------------
(* The operations of RunStore, up to their COMMIT.                         *)

(* INSERT ... ON CONFLICT DO NOTHING; integer() refuses what is no BIGINT. *)
pg_create(c, r) ==
    /\ Locks(c, r)
    /\ visible[r] = Absent
    /\ \E n \in Starts, retain \in Retains :
          /\ n <= MaxBigint
          /\ Change(c, "create", r,
                    [revision |-> n, event_sequence |-> n, state |-> n,
                     retain_until |-> retain, events |-> <<>>,
                     token |-> NoToken, expires |-> 0])
    /\ UNCHANGED drawn

(* One snapshot of both tables, which no lock holds up.                    *)
pg_load(c, r) ==
    /\ Ready(c)
    /\ visible[r] # Absent
    /\ known' = [known EXCEPT ![c][r] =
                    [revision |-> visible[r].revision, state |-> visible[r].state]]
    /\ UNCHANGED <<visible, onDisk, call, held, clock, drawn, acked, conn, tx>>

(* check_lease reads the server's clock once the row is locked.            *)
pg_append(c, r) ==
    /\ Locks(c, r)
    /\ visible[r] # Absent
    /\ known[c][r] # Unknown
    /\ check_lease(visible[r], held[c][r], TRUE)
    /\ visible[r].revision = known[c][r].revision
    /\ \E k \in BatchSizes, retain \in Retains :
          LET new == prepare_append(visible[r], held[c][r], known[c][r], k, retain) IN
          /\ prepare_append_fits(visible[r], known[c][r].revision, k)
          /\ new.revision <= MaxBigint /\ new.event_sequence <= MaxBigint
          /\ Change(c, "append", r, new)
    /\ UNCHANGED drawn

pg_acquire_lease(c, r) ==
    /\ Locks(c, r)
    /\ visible[r] # Absent
    /\ visible[r].token = NoToken \/ visible[r].expires <= clock
    /\ drawn < MaxTokens
    /\ drawn' = drawn + 1
    /\ \E ttl \in TTLs :
          Change(c, "acquire", r, WithLease(visible[r], drawn + 1, clock + ttl))

pg_renew_lease(c, r) ==
    /\ Locks(c, r)
    /\ visible[r] # Absent
    /\ check_lease(visible[r], held[c][r], TRUE)
    /\ \E ttl \in TTLs :
          Change(c, "renew", r, WithLease(visible[r], visible[r].token, clock + ttl))
    /\ UNCHANGED drawn

pg_release_lease(c, r) ==
    /\ Locks(c, r)
    /\ visible[r] # Absent
    /\ check_lease(visible[r], held[c][r], FALSE)
    /\ Change(c, "release", r, WithLease(visible[r], NoToken, 0))
    /\ UNCHANGED drawn

pg_delete_run(c, r) ==
    /\ Locks(c, r)
    /\ visible[r] # Absent
    /\ Change(c, "delete_run", r, Absent)
    /\ UNCHANGED drawn

(* One DELETE: the rows there are when it starts, to be locked in any      *)
(* order.                                                                  *)
pg_delete_tenant(c, t) ==
    /\ Ready(c)
    /\ LET S == {r \in RunsOf(t) : visible[r] # Absent} IN
          S # {} /\ Transact(c, "delete_tenant", S, {}, Absent, 0)
    /\ UNCHANGED drawn

(* The same over all tenants, with the host's cutoff.                      *)
pg_apply_retention(c) ==
    /\ Ready(c)
    /\ \E cutoff \in 1..MaxTime :
          LET S == {r \in Runs : Expired(r, cutoff)} IN
          S # {} /\ Transact(c, "retention", S, {}, Absent, cutoff)
    /\ UNCHANGED drawn

--------------------------------------------------------------------------------
(* The server, and the rest of a call.                                     *)

(* A DELETE comes to its next row when nobody has it, and looks at it      *)
(* again: it may have been given another retain_until meanwhile.           *)
LockNext(k, r) ==
    /\ Open(k)
    /\ r \in tx[k].todo
    /\ Free(r)
    /\ LET matches == visible[r] # Absent
                        /\ (tx[k].kind = "retention" => Expired(r, tx[k].cutoff)) IN
       tx' = [tx EXCEPT ![k].todo = @ \ {r},
                        ![k].locked = IF matches THEN @ \cup {r} ELSE @]
    /\ UNCHANGED <<visible, onDisk, call, held, known, clock, drawn, acked, conn>>

Owned(k) == \E c \in Clients : conn[c] = k

(* All rows of a transaction change at once.  A row that is deleted is not *)
(* found again by a DELETE that waits for it, even if it is created anew.  *)
Commit(k) ==
    /\ Open(k)
    /\ tx[k].todo = {}
    /\ LET S == tx[k].locked  new == tx[k].new IN
          /\ visible' = [r \in Runs |-> IF r \in S THEN new ELSE visible[r]]
          /\ onDisk' = [r \in Runs |-> IF r \in S THEN new ELSE onDisk[r]]
          /\ acked' = [r \in Runs |-> IF r \in S THEN new ELSE acked[r]]
          /\ tx' = [j \in Conns |->
                      IF j = k
                      THEN IF Owned(k) THEN [tx[k] EXCEPT !.committed = TRUE] ELSE Idle
                      ELSE IF Open(j) /\ new = Absent
                      THEN [tx[j] EXCEPT !.todo = @ \ S]
                      ELSE tx[j]]
    /\ UNCHANGED <<call, held, known, clock, drawn, conn>>

(* The host learns of the commit: of acquire_lease it has the lease, of    *)
(* append the committed snapshot (and loads the run anew under a lease).   *)
Answer(c) ==
    /\ conn[c] # NoConn
    /\ tx[conn[c]] # Idle
    /\ tx[conn[c]].committed
    /\ LET t == tx[conn[c]] IN
          /\ held' = IF t.kind = "acquire"
                     THEN [held EXCEPT ![c] = [r \in Runs |-> IF r \in t.locked THEN t.new.token ELSE @[r]]]
                     ELSE held
          /\ known' = CASE t.kind = "acquire" ->
                             [known EXCEPT ![c] = [r \in Runs |-> IF r \in t.locked THEN Unknown ELSE @[r]]]
                        [] t.kind = "append" ->
                             [known EXCEPT ![c] = [r \in Runs |->
                                 IF r \in t.locked
                                 THEN [revision |-> t.new.revision, state |-> t.new.state] ELSE @[r]]]
                        [] OTHER -> known
    /\ tx' = [tx EXCEPT ![conn[c]] = Idle]
    /\ UNCHANGED <<visible, onDisk, call, clock, drawn, acked, conn>>

(* A statement or a COMMIT fails, or a deadlock of two DELETEs is broken:  *)
(* nothing is changed.                                                     *)
Abort(k) ==
    /\ Open(k)
    /\ tx' = [tx EXCEPT ![k] = Idle]
    /\ UNCHANGED <<visible, onDisk, call, held, known, clock, drawn, acked, conn>>

(* The server keeps an open transaction of a connection that is gone.      *)
Disconnects(c) ==
    /\ conn[c] # NoConn
    /\ conn' = [conn EXCEPT ![c] = NoConn]
    /\ tx' = [tx EXCEPT ![conn[c]] = IF Open(conn[c]) THEN @ ELSE Idle]
    /\ UNCHANGED <<visible, onDisk, call, clock, drawn, acked>>

(* The connection is lost: a call under way returns an error.              *)
Lost(c) == Disconnects(c) /\ UNCHANGED <<held, known>>

(* The host's process dies.                                                *)
HostDies(c) ==
    /\ Disconnects(c)
    /\ held' = [held EXCEPT ![c] = [r \in Runs |-> NoToken]]
    /\ known' = [known EXCEPT ![c] = [r \in Runs |-> Unknown]]

(* The host makes a new PostgresStore.                                     *)
connect(c) ==
    /\ conn[c] = NoConn
    /\ \E k \in Conns : ~Owned(k) /\ tx[k] = Idle /\ conn' = [conn EXCEPT ![c] = k]
    /\ UNCHANGED <<visible, onDisk, call, held, known, clock, drawn, acked, tx>>

(* The server goes down and comes back with what was committed.            *)
Restart ==
    /\ visible' = onDisk
    /\ conn' = [c \in Clients |-> NoConn]
    /\ tx' = [k \in Conns |-> Idle]
    /\ UNCHANGED <<onDisk, call, held, known, clock, drawn, acked>>

(* clock_timestamp() moves; it may be stepped back.                        *)
SetServerClock == SetClock /\ UNCHANGED <<conn, tx>>

--------------------------------------------------------------------------------
PgNext ==
    \/ \E c \in Clients, r \in Runs :
          \/ pg_create(c, r) \/ pg_load(c, r) \/ pg_append(c, r)
          \/ pg_acquire_lease(c, r) \/ pg_renew_lease(c, r) \/ pg_release_lease(c, r)
          \/ pg_delete_run(c, r)
    \/ \E c \in Clients, t \in Tenants : pg_delete_tenant(c, t)
    \/ \E c \in Clients :
          \/ pg_apply_retention(c) \/ Answer(c) \/ Lost(c) \/ HostDies(c) \/ connect(c)
    \/ \E k \in Conns, r \in Runs : LockNext(k, r)
    \/ \E k \in Conns : Commit(k) \/ Abort(k)
    \/ Restart
    \/ SetServerClock

PgSpec == PgInit /\ [][PgNext]_pgVars
================================================================================

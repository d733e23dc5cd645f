--------------------------- MODULE MCFilesystemStore ---------------------------
(* Instances of the two run stores for TLC.                                *)
EXTENDS PostgresStore, TLC

CONSTANTS r1, r2, c1, c2

VARIABLE backend   \* the store the hosts share

StoreInit == PgInit /\ backend \in {"filesystem", "postgres"}

StoreNext ==
    /\ UNCHANGED backend
    /\ \/ backend = "filesystem" /\ Next /\ UNCHANGED <<conn, tx>>
       \/ backend = "postgres" /\ PgNext

StoreSpec == StoreInit /\ [][StoreNext]_<<pgVars, backend>>

(* All runs belong to one tenant, so that they share a lock.               *)
OneTenant == [r \in Runs |-> "tenant"]

Called == {call[c] : c \in Clients} \ {Idle}
Begun == {tx[k] : k \in Conns} \ {Idle}

(* The run has no file and nobody is about to make one or to remove it.    *)
Untouched(r) ==
    /\ visible[r] = Absent /\ acked[r] = Absent
    /\ \A d \in Called : r \notin d.todo
    /\ \A t \in Begun : r \notin t.todo \cup t.locked

Written == {visible[r] : r \in Runs} \cup {t.new : t \in Called \cup Begun}

(* Two hosts of one run that is kept for good, or two runs that nobody has *)
(* leased or loaded and that retention may remove; in the database batches *)
(* of one.                                                                 *)
Scene ==
    /\ backend = "postgres" => \A rec \in Written : rec = Absent \/ rec.state <= rec.revision
    /\ \/ /\ \E r \in Runs : Untouched(r) /\ \A c \in Clients : known[c][r] = Unknown
          /\ \A rec \in Written : rec = Absent \/ rec.retain_until = Never
          /\ \A t \in Begun : t.kind # "delete_tenant"
       \/ /\ drawn = 0 /\ \A c \in Clients, r \in Runs : known[c][r] = Unknown
          /\ \A rec \in Written : rec = Absent \/ rec.revision = 0

Symmetry == Permutations(Clients) \cup Permutations(Runs) \cup Permutations(Conns)
================================================================================

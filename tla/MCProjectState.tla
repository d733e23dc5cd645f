----------------------------- MODULE MCProjectState -----------------------------
(* Instances of ProjectState for TLC.                                      *)
EXTENDS ProjectState, TLC

CONSTANTS c1, c2

(* Two processes on one memory and its embedding.                          *)
Remembering == [clients |-> {c1, c2}, searchers |-> {c1},
                tasks |-> {}, memories |-> Memories, sessions |-> {},
                events |-> 3, faults |-> 1, outages |-> 0, mixed |-> FALSE]

(* One, and a Go client, on a machine that loses power.                    *)
Mixed == [Remembering EXCEPT !.clients = {c1}, !.outages = 1, !.mixed = TRUE]

(* Both processes on one.                                                  *)
Outage == [Remembering EXCEPT !.faults = 0, !.outages = 1]

(* Tasks that depend on each other.                                        *)
Planning == [clients |-> {c1}, searchers |-> {},
             tasks |-> Tasks, memories |-> {}, sessions |-> Sessions,
             events |-> 4, faults |-> 0, outages |-> 0, mixed |-> FALSE]

(* ... and one fault on the way.                                           *)
Interrupted == [Planning EXCEPT !.events = 3, !.faults = 1]

Used == {Remembering, Mixed, Outage, Planning, Interrupted}

Symmetry == Permutations(Values) \cup Permutations(Tasks)
================================================================================

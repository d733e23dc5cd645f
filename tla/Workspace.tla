--------------------------------- MODULE Workspace ---------------------------------
(***************************************************************************)
(* The tools that change files of a workspace (adk-tools/src/patch.rs,     *)
(* patch_fs.rs, lifecycle.rs, write.rs, edit.rs) while others - a shell    *)
(* job, another tool, the user - change the same paths.  ApplyPatch stages *)
(* every result, claims every original under a name nobody knows,          *)
(* publishes and releases; on an error it goes back.  Move and Delete take *)
(* a path aside before they look at it.  Write and Edit replace a file.    *)
(*                                                                         *)
(* A file is its content. Others work on paths: one that writes through a  *)
(* descriptor it opened before a path was claimed is left out, and so are  *)
(* errors of the disk while going back.                                    *)
(***************************************************************************)
EXTENDS Integers, Sequences, FiniteSetsExt

CONSTANTS
    Order,     \* the paths of the workspace, in the order of a BTreeMap
    Patches,   \* what ApplyPatch may be asked for: [path -> operation]
    MaxOther   \* bound on changes by others

Paths == {Order[i] : i \in DOMAIN Order}

Operations == {"create", "modify", "delete", "none"}

ASSUME ConstantsAssumption ==
    /\ Order \in Seq(Paths) /\ Order # <<>>
    /\ \A i, j \in DOMAIN Order : Order[i] = Order[j] => i = j
    /\ Patches \subseteq [Paths -> Operations]
    /\ \A ops \in Patches : \E p \in Paths : ops[p] # "none"   \* no parser returns an empty patch
    /\ MaxOther \in Nat

\* Names of a directory: a path, and the temporary names of a tool for a path.
Roles == {"path", "staged", "claimed", "output", "aside", "written"}

Content(by, n) == [by |-> by, n |-> n]

None == Content("none", 0)

Link == Content("link", 0)   \* whatever is not a regular file with one name

VARIABLES
    disk,    \* directory entries: [Roles -> [Paths -> content]]
    patch,   \* the call of ApplyPatch that holds MUTATION
    life,    \* a call of Move or Delete
    writer,  \* a call of Write or Edit
    others,  \* changes of others so far
    met,     \* whether anything but the patch changed the disk since it began
    owed     \* contents that nobody asked to remove or replace

vars == <<disk, patch, life, writer, others, met, owed>>

Idle == [phase |-> "idle", ops |-> [p \in Paths |-> "none"], i |-> 1, step |-> "begin",
         original |-> [p \in Paths |-> None],
         quarantine |-> [p \in Paths |-> "no"],   \* no, held, released
         published |-> {}, failures |-> {}, start |-> [p \in Paths |-> None]]

Index(p) == CHOOSE i \in DOMAIN Order : Order[i] = p

First(p) == Content("first", Index(p))

Init ==
    /\ \E there \in SUBSET Paths :
          disk = [r \in Roles |-> [p \in Paths |-> IF r = "path" /\ p \in there THEN First(p) ELSE None]]
    /\ patch = Idle
    /\ life = [phase |-> "idle", source |-> Order[1], destination |-> {}]
    /\ writer = [phase |-> "idle", path |-> Order[1]]
    /\ others = 0
    /\ met = FALSE
    /\ owed = {disk["path"][p] : p \in Paths} \ {None}

At(p) == disk["path"][p]

\* renameat_with NOREPLACE, if its target is free.
Moved(d, p, from, to) == [d EXCEPT ![from][p] = None, ![to][p] = d[from][p]]

(***************************************************************************)
(* ApplyPatch. Its loops take the entries one by one.                      *)
(***************************************************************************)
Entries(ops) == {i \in DOMAIN Order : ops[Order[i]] # "none"}

Earlier == {i \in Entries(patch.ops) : i < patch.i}
Later == {i \in Entries(patch.ops) : i > patch.i}

Path == Order[patch.i]

\* final_state.
Final(p) == IF patch.ops[p] \in {"create", "modify"} THEN Content("patch", Index(p)) ELSE None

\* The next entry of a phase, or the next phase.
Phases == <<"plan", "check", "open", "stage", "claim", "publish", "cleanup", "ok">>

After(r) ==
    IF Later # {} THEN [r EXCEPT !.i = Min(Later)]
    ELSE [r EXCEPT !.i = Min(Entries(patch.ops)),
                   !.phase = Phases[1 + CHOOSE n \in DOMAIN Phases : Phases[n] = r.phase]]

\* Refused before anything was claimed: Entry::drop removes what was staged.
Unstaged == [disk EXCEPT !["staged"] = [p \in Paths |-> None]]

Refused ==
    /\ disk' = Unstaged
    /\ patch' = [patch EXCEPT !.phase = "failed", !.i = 1]

\* An error of the transaction: entries are rolled back from the last to the first.
Back(r) == [r EXCEPT !.phase = "rollback", !.i = Max(Entries(patch.ops)), !.step = "take"]

alone == <<life, writer, others, met>>

\* ApplyPatch::run takes MUTATION.
Begin(ops) ==
    /\ patch.phase = "idle"
    /\ patch' = [Idle EXCEPT !.phase = "plan", !.ops = ops, !.i = Min(Entries(ops)), !.start = disk["path"]]
    /\ UNCHANGED <<disk, alone, owed>>

\* inspect for the plan, and whether the operation fits what is there.
Inspect ==
    /\ patch.phase = "plan"
    /\ IF At(Path) = Link \/ ((At(Path) = None) # (patch.ops[Path] = "create"))
       THEN Refused
       ELSE patch' = After([patch EXCEPT !.original[Path] = At(Path)]) /\ UNCHANGED disk
    /\ UNCHANGED <<alone, owed>>

\* The two loops of apply_inner that compare a path with its plan.
Compare ==
    /\ patch.phase \in {"check", "open"}
    /\ IF At(Path) = patch.original[Path] THEN patch' = After(patch) /\ UNCHANGED disk ELSE Refused
    /\ UNCHANGED <<alone, owed>>

\* Entry::stage; the disk may be full.
Stage ==
    /\ patch.phase = "stage"
    /\ \/ disk' = [disk EXCEPT !["staged"][Path] = Final(Path)] /\ patch' = After(patch)
       \/ Refused
    /\ UNCHANGED <<alone, owed>>

\* validate_parent, or a system call, fails.
Interrupted ==
    /\ patch.phase \in {"claim", "publish", "cleanup"} /\ patch.step = "begin"
    /\ patch' = Back(patch)
    /\ UNCHANGED <<disk, alone, owed>>

\* Entry::claim: the rename.
Claim ==
    /\ patch.phase = "claim" /\ patch.step = "begin"
    /\ \/ patch.original[Path] = None /\ patch' = After(patch) /\ UNCHANGED disk
       \/ patch.original[Path] # None /\ At(Path) = None /\ patch' = Back(patch) /\ UNCHANGED disk
       \/ /\ patch.original[Path] # None /\ At(Path) # None
          /\ disk' = Moved(disk, Path, "path", "claimed")
          /\ patch' = [patch EXCEPT !.quarantine[Path] = "held", !.step = "inspect"]
    /\ UNCHANGED <<alone, owed>>

\* Fault: the file is compared before it is claimed.
ClaimedUnchecked ==
    /\ patch.phase = "claim" /\ patch.step = "inspect"
    /\ patch' = After([patch EXCEPT !.step = "begin"])
    /\ UNCHANGED <<disk, alone, owed>>

\* The rest of Entry::claim: what was claimed is put back if it is not what was planned
\* for, unless its path was taken meanwhile.
Claimed ==
    /\ patch.phase = "claim" /\ patch.step = "inspect"
    /\ \/ /\ disk["claimed"][Path] = patch.original[Path]
          /\ patch' = After([patch EXCEPT !.step = "begin"]) /\ UNCHANGED disk
       \/ /\ disk["claimed"][Path] # patch.original[Path] /\ At(Path) = None
          /\ disk' = Moved(disk, Path, "claimed", "path")
          /\ patch' = Back([patch EXCEPT !.quarantine[Path] = "no"])
       \/ /\ disk["claimed"][Path] # patch.original[Path] /\ At(Path) # None
          /\ patch' = Back(patch) /\ UNCHANGED disk
    /\ UNCHANGED <<alone, owed>>

\* Entry::publish.
Publish ==
    /\ patch.phase = "publish"
    /\ \/ Final(Path) = None /\ patch' = After(patch) /\ UNCHANGED disk
       \/ Final(Path) # None /\ At(Path) # None /\ patch' = Back(patch) /\ UNCHANGED disk
       \/ /\ Final(Path) # None /\ At(Path) = None
          /\ disk' = Moved(disk, Path, "staged", "path")
          /\ patch' = After([patch EXCEPT !.published = @ \cup {Path}])
    /\ UNCHANGED <<alone, owed>>

\* Commit cleanup: a released original is what the caller asked to replace.
Cleanup ==
    /\ patch.phase = "cleanup"
    /\ IF patch.quarantine[Path] = "held"
       THEN /\ disk' = [disk EXCEPT !["claimed"][Path] = None]
            /\ patch' = After([patch EXCEPT !.quarantine[Path] = "released"])
            /\ owed' = owed \ {patch.original[Path]}
       ELSE patch' = After(patch) /\ UNCHANGED <<disk, owed>>
    /\ UNCHANGED alone

\* Fault: errors of the rollback are swallowed.
BeforeSilent(r) == IF Earlier # {} THEN [r EXCEPT !.i = Max(Earlier), !.step = "take"]
                   ELSE [r EXCEPT !.step = "begin", !.phase = "failed"]

\* The entry before, or the end: Entry::drop.
Before(r) == IF Earlier # {} THEN [r EXCEPT !.i = Max(Earlier), !.step = "take"]
             ELSE [r EXCEPT !.step = "begin", !.phase = IF r.failures = {} THEN "failed" ELSE "unsafe"]

Cleared(d) == IF Earlier = {} THEN [d EXCEPT !["staged"] = [p \in Paths |-> None]] ELSE d

RolledBack(d, r) == disk' = Cleared(d) /\ patch' = Before(r)

GivesUp(d) == RolledBack(d, [patch EXCEPT !.failures = @ \cup {Path}])

\* Entry::rollback takes a published output aside.
Take ==
    /\ patch.phase = "rollback" /\ patch.step = "take"
    /\ \/ Path \notin patch.published /\ patch' = [patch EXCEPT !.step = "restore"] /\ UNCHANGED disk
       \/ Path \in patch.published /\ At(Path) = None /\ GivesUp(disk)
       \/ /\ Path \in patch.published /\ At(Path) # None
          /\ disk' = Moved(disk, Path, "path", "output")
          /\ patch' = [patch EXCEPT !.step = "compare"]
    /\ UNCHANGED <<alone, owed>>

\* What others made of it is put back, unless its path was taken meanwhile.
Taken ==
    /\ patch.phase = "rollback" /\ patch.step = "compare"
    /\ \/ /\ disk["output"][Path] = Final(Path)
          /\ patch' = [patch EXCEPT !.step = "restore"] /\ UNCHANGED disk
       \/ /\ disk["output"][Path] # Final(Path)
          /\ GivesUp(IF At(Path) = None THEN Moved(disk, Path, "output", "path") ELSE disk)
    /\ UNCHANGED <<alone, owed>>

\* Fault: an original that was released is taken for restored.
RestoreHeld ==
    /\ patch.phase = "rollback" /\ patch.step = "restore"
    /\ \/ /\ patch.quarantine[Path] # "held"
          /\ RolledBack([disk EXCEPT !["output"][Path] = None], patch)
          /\ UNCHANGED owed
       \/ /\ patch.quarantine[Path] = "held" /\ At(Path) = None
          /\ RolledBack([Moved(disk, Path, "claimed", "path") EXCEPT !["output"][Path] = None], patch)
          /\ UNCHANGED owed
       \/ /\ patch.quarantine[Path] = "held" /\ At(Path) # None
          /\ GivesUp(disk) /\ UNCHANGED owed
    /\ UNCHANGED alone

\* Entry::restore, from the quarantine or, once released, from memory; the output is
\* removed, or put back when the original cannot be.
Restore ==
    /\ patch.phase = "rollback" /\ patch.step = "restore"
    /\ \/ /\ patch.quarantine[Path] = "no"
          /\ RolledBack([disk EXCEPT !["output"][Path] = None], patch)
          /\ UNCHANGED owed
       \/ /\ patch.quarantine[Path] = "held" /\ At(Path) = None
          /\ RolledBack([Moved(disk, Path, "claimed", "path") EXCEPT !["output"][Path] = None], patch)
          /\ UNCHANGED owed
       \/ /\ patch.quarantine[Path] = "released" /\ At(Path) = None
          /\ RolledBack([disk EXCEPT !["output"][Path] = None, !["path"][Path] = patch.original[Path]], patch)
          /\ owed' = owed \cup {patch.original[Path]}
       \/ /\ patch.quarantine[Path] # "no" /\ At(Path) # None
          /\ GivesUp(disk) /\ UNCHANGED owed
    /\ UNCHANGED alone

Begun == patch.phase # "idle"

(***************************************************************************)
(* Move and Delete (mutate).                                               *)
(***************************************************************************)
\* quarantine.
Aside(source, destination) ==
    /\ life.phase = "idle" /\ others < MaxOther /\ At(source) # None
    /\ disk' = Moved(disk, source, "path", "aside")
    /\ life' = [phase |-> "aside", source |-> source, destination |-> destination]
    /\ others' = others + 1
    /\ met' = Begun
    /\ UNCHANGED <<patch, writer, owed>>

Fits == disk["aside"][life.source] # Link /\ \A p \in life.destination : At(p) = None

\* The kind is known, and the file goes where it should.
Mutate ==
    /\ life.phase = "aside" /\ Fits
    /\ LET held == disk["aside"][life.source]
           empty == [disk EXCEPT !["aside"][life.source] = None]
       IN  \/ \E p \in life.destination : disk' = [empty EXCEPT !["path"][p] = held] /\ UNCHANGED owed
           \/ life.destination = {} /\ disk' = empty /\ owed' = owed \ {held}
    /\ life' = [life EXCEPT !.phase = "idle"]
    /\ met' = Begun
    /\ UNCHANGED <<patch, writer, others>>

\* The file goes back, or stays under its temporary name, which the caller is told.
Restored ==
    /\ life.phase = "aside" /\ ~Fits
    /\ \/ At(life.source) = None /\ disk' = Moved(disk, life.source, "aside", "path")
       \/ At(life.source) # None /\ UNCHANGED disk
    /\ life' = [life EXCEPT !.phase = IF At(life.source) = None THEN "idle" ELSE "stuck"]
    /\ met' = Begun
    /\ UNCHANGED <<patch, writer, others, owed>>

(***************************************************************************)
(* Write, and Edit after it has read, replace what is at a path.           *)
(***************************************************************************)
\* atomic_write: statat and the temporary file.
WriteStaged(p) ==
    /\ writer.phase = "idle" /\ others < MaxOther /\ At(p) # Link
    /\ writer' = [phase |-> "staged", path |-> p]
    /\ disk' = [disk EXCEPT !["written"][p] = Content("tool", others)]
    /\ others' = others + 1
    /\ UNCHANGED <<patch, life, met, owed>>

\* renameat, which replaces.
Written ==
    /\ writer.phase = "staged"
    /\ disk' = Moved(disk, writer.path, "written", "path")
    /\ writer' = [writer EXCEPT !.phase = "idle"]
    /\ met' = Begun
    /\ owed' = (owed \ {At(writer.path)}) \cup {disk["written"][writer.path]}
    /\ UNCHANGED <<patch, life, others>>

\* A shell job or the user writes, replaces by something else, or removes a path.
Other(p, c) ==
    /\ others < MaxOther /\ At(p) # c
    /\ disk' = [disk EXCEPT !["path"][p] = c]
    /\ others' = others + 1
    /\ met' = Begun
    /\ owed' = (owed \ {At(p)}) \cup ({c} \ {None})
    /\ UNCHANGED <<patch, life, writer>>

Next ==
    \/ \E ops \in Patches : Begin(ops)
    \/ Inspect \/ Compare \/ Stage \/ Interrupted \/ Claim \/ Claimed \/ Publish \/ Cleanup
    \/ Take \/ Taken \/ Restore
    \/ \E p \in Paths, d \in {{}} \cup {{q} : q \in Paths} : d # {p} /\ Aside(p, d)
    \/ Mutate \/ Restored
    \/ \E p \in Paths : WriteStaged(p)
    \/ Written
    \/ \E p \in Paths : \E c \in {None, Link, Content("other", others)} : Other(p, c)

Spec == Init /\ [][Next]_vars

(***************************************************************************)
(* Properties.                                                             *)
(***************************************************************************)
\* Whatever tools and others do at the same paths, no content is lost that nobody
\* asked to remove or replace: it is at a path or under a temporary name. An original
\* is released only by a patch that has published everything (Entry::claim, publish,
\* rollback, mutate).
NothingLost == \A c \in owed : \E r \in Roles, p \in Paths : disk[r][p] = c

\* A patch that nobody interfered with did everything or nothing, wherever it failed,
\* and leaves no temporary name behind (apply_inner).
PatchAtomic ==
    patch.phase \in {"ok", "failed", "unsafe"} /\ ~met =>
        /\ patch.phase # "unsafe"
        /\ \A p \in Paths : At(p) = IF patch.phase = "ok" /\ patch.ops[p] # "none"
                                    THEN Final(p) ELSE patch.start[p]
        /\ \A r \in {"staged", "claimed", "output"}, p \in Paths : disk[r][p] = None

\* A patch that failed and says that it went back did so: nothing it made is left
\* anywhere, and nothing it took is left under a temporary name, whatever others did to
\* the paths meanwhile (Entry::rollback, apply_inner).
FailureHonest ==
    patch.phase = "failed" =>
        /\ \A r \in {"staged", "claimed", "output"}, p \in Paths : disk[r][p] = None
        /\ \A r \in Roles, p \in Paths : disk[r][p].by # "patch"
=============================================================================

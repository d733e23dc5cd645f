----------------------------- MODULE PatchText -----------------------------
(***************************************************************************)
(* What a patch makes of a workspace's files, as operators: the plan of    *)
(* ApplyPatch (adk-tools/src/patch.rs), its unified and range-less hunks   *)
(* (patch_hunks.rs), and Edit's replacement (edit.rs).  A content is a     *)
(* sequence of words, "\r" and "\n" among them; offsets count from zero.   *)
(* Limits on sizes and the modes of files are left out.                    *)
(***************************************************************************)
EXTENDS Integers, Sequences, FiniteSets, SequencesExt

Error(what) == [ok |-> FALSE, what |-> what]

Ok(value) == [ok |-> TRUE, value |-> value]

(***************************************************************************)
(* Unified hunks. A line has a kind (" ", "+", "-"), a text and whether it *)
(* has no newline.                                                         *)
(***************************************************************************)
\* split_inclusive and scan.
LineStarts(content) ==
    SelectSeq([k \in DOMAIN content |-> k - 1], LAMBDA k : k = 0 \/ content[k] = "\n")

Rendered(lines, kinds) ==
    FlattenSeq([i \in DOMAIN lines |->
        IF lines[i].kind \notin kinds THEN <<>>
        ELSE lines[i].text \o (IF lines[i].no_newline THEN <<>> ELSE <<"\n">>)])

Rest(content, offset) == SubSeq(content, offset + 1, Len(content))

\* One hunk of the loop, in the state of the loop.
Hunk(content, starts, state, hunk) ==
    LET position == IF hunk.old_count > 0 THEN hunk.old_start - 1 ELSE hunk.old_start
        expected == position + state.delta + (IF hunk.new_count > 0 THEN 1 ELSE 0)
        start == IF position < Len(starts) THEN starts[position + 1] ELSE Len(content)
        old == Rendered(hunk.lines, {" ", "-"})
        fails(what) == [state EXCEPT !.error = what]
    IN  CASE state.error # "" -> state
          [] state.error = "" /\ (position < 0 \/ position + hunk.old_count > Len(starts)) -> fails("range")
          [] OTHER ->
               IF hunk.new_start # expected THEN fails("inconsistent")
               ELSE IF start < state.cursor THEN fails("overlapping")
               ELSE IF ~IsPrefix(old, Rest(content, start)) THEN fails("mismatch")
               ELSE [error |-> "",
                     result |-> state.result \o SubSeq(content, state.cursor + 1, start)
                                  \o Rendered(hunk.lines, {" ", "+"}),
                     cursor |-> start + Len(old),
                     delta |-> state.delta + hunk.new_count - hunk.old_count]

apply(content, hunks) ==
    LET end == FoldLeft(LAMBDA state, hunk : Hunk(content, LineStarts(content), state, hunk),
                        [error |-> "", result |-> <<>>, cursor |-> 0, delta |-> 0], hunks)
    IN  IF end.error # "" THEN Error(end.error) ELSE Ok(end.result \o Rest(content, end.cursor))

(***************************************************************************)
(* Range-less hunks.                                                       *)
(***************************************************************************)
next_end(content, start) ==
    LET ends == {k \in (start + 1)..Len(content) : content[k] = "\n"}
    IN  IF ends = {} THEN Len(content) ELSE CHOOSE k \in ends : \A l \in ends : k <= l

text(line) ==
    LET cut(s, w) == IF s # <<>> /\ Last(s) = w THEN Front(s) ELSE s
    IN  IF line # <<>> /\ Last(line) = "\n" THEN cut(Front(line), "\r") ELSE line

\* The lines of a content from an offset on, with where they start and end.
LinesFrom(content, start) ==
    LET from == SelectSeq([k \in DOMAIN content |-> k - 1],
                          LAMBDA k : k = start \/ (k > start /\ content[k] = "\n"))
    IN  [i \in DOMAIN from |->
           [start |-> from[i], end |-> next_end(content, from[i]),
            text |-> text(SubSeq(content, from[i] + 1, next_end(content, from[i])))]]

\* The table of a Knuth-Morris-Pratt search: how much of the pattern is matched after
\* a value that follows so many matched lines, and the table itself.
RECURSIVE Extend(_, _, _, _)
Extend(pattern, prefix, matched, value) ==
    CASE value = pattern[matched + 1] -> matched + 1
      [] value # pattern[matched + 1] /\ matched = 0 -> 0
      [] OTHER -> Extend(pattern, prefix, prefix[matched], value)

Prefix(pattern) ==
    FoldLeft(LAMBDA prefix, value : Append(prefix, Extend(pattern, prefix, Last(prefix), value)),
             <<0>>, Tail(pattern))

\* sequence: where the lines are, if they are at one place only; with eof, only the
\* end of the content counts.
Searched(pattern, prefix, lines, length, eof, state, i) ==
    LET matched == Extend(pattern, prefix, state.matched, lines[i].text)
        counts == matched = Len(pattern) /\ (~eof \/ lines[i].end = length)
    IN  [matched |-> IF matched = Len(pattern) THEN prefix[matched] ELSE matched,
         found |-> IF counts THEN Append(state.found, lines[i - Len(pattern) + 1].start) ELSE state.found]

sequence(content, start, pattern, eof) ==
    LET lines == LinesFrom(content, start)
        end == FoldLeft(LAMBDA state, i : Searched(pattern, Prefix(pattern), lines, Len(content), eof, state, i),
                        [matched |-> 0, found |-> <<>>], [i \in DOMAIN lines |-> i])
    IN  CASE Len(end.found) = 1 -> Ok(end.found[1])
          [] Len(end.found) = 0 -> Error("none")
          [] OTHER -> Error("more than once")

Ending(content) ==
    LET n == next_end(content, 0)
    IN  IF n > 1 /\ content[n] = "\n" /\ content[n - 1] = "\r" THEN <<"\r", "\n">> ELSE <<"\n">>

NoEdit == [start |-> -1, end |-> -1, new |-> <<>>]

\* An edit ends at a context line or at the end of its hunk. A file without a last
\* newline keeps it that way.
Flushed(content, ending, state) ==
    LET edit == state.edit
        open == content # <<>> /\ Last(content) # "\n" /\ edit.new # <<>>
        joined == IF open /\ edit.start = Len(content) THEN ending \o edit.new ELSE edit.new
        new == IF open /\ edit.end = Len(content) THEN SubSeq(joined, 1, Len(joined) - Len(ending)) ELSE joined
    IN  IF edit = NoEdit THEN state
        ELSE [state EXCEPT !.edit = NoEdit, !.edits = Append(@, [edit EXCEPT !.new = new]),
                           !.changed = edit.end,
                           !.error = IF edit.start < state.changed THEN "overlapping" ELSE @]

\* A line of a hunk that was found.
Line(content, ending, state, line) ==
    LET edit == IF state.edit # NoEdit THEN state.edit
                ELSE [start |-> state.position, end |-> state.position, new |-> <<>>]
    IN  CASE line.kind = " " ->
               LET flushed == Flushed(content, ending, state)
               IN  [flushed EXCEPT !.position = next_end(content, @)]
          [] line.kind = "-" ->
               [state EXCEPT !.edit = [edit EXCEPT !.end = next_end(content, @)],
                             !.position = next_end(content, edit.end)]
          [] OTHER -> [state EXCEPT !.edit = [edit EXCEPT !.new = @ \o line.text \o ending]]

Texts(lines, kinds) == [i \in DOMAIN SelectSeq(lines, LAMBDA l : l.kind \in kinds) |->
                           SelectSeq(lines, LAMBDA l : l.kind \in kinds)[i].text]

\* Where the search for a hunk begins: after the first line that is its locator.
Located(content, cursor, locator) ==
    LET hits == {i \in DOMAIN LinesFrom(content, cursor) : LinesFrom(content, cursor)[i].text = locator}
    IN  CASE locator = <<>> -> Ok(cursor)
          [] locator # <<>> /\ hits = {} -> Error("locator")
          [] OTHER -> Ok(LinesFrom(content, cursor)[CHOOSE i \in hits : \A j \in hits : i <= j].end)

RangeLess(content, ending, single, state, hunk) ==
    LET old == Texts(hunk.lines, {" ", "-"})
        search == Located(content, state.cursor, hunk.locator)
        found == sequence(content, search.value, old, hunk.eof)
        fails(what) == [state EXCEPT !.error = what]
        lines == FoldLeft(LAMBDA s, l : Line(content, ending, s, l), [state EXCEPT !.position = found.value], hunk.lines)
    IN  IF state.error # "" THEN state
        ELSE IF old = <<>> THEN
            IF content # <<>> \/ ~single THEN fails("no context")
            ELSE [state EXCEPT !.edits = Append(@, [start |-> 0, end |-> 0, new |->
                     FlattenSeq([i \in DOMAIN hunk.lines |-> hunk.lines[i].text \o ending])])]
        ELSE IF ~search.ok THEN fails(search.what)
        ELSE IF ~found.ok THEN fails(found.what)
        ELSE [Flushed(content, ending, lines) EXCEPT !.cursor = found.value]

range_less(content, hunks) ==
    LET end == FoldLeft(LAMBDA s, h : RangeLess(content, Ending(content), Len(hunks) = 1, s, h),
                        [error |-> "", edits |-> <<>>, edit |-> NoEdit, position |-> 0, cursor |-> 0, changed |-> 0],
                        hunks)
        done == FoldLeft(LAMBDA r, e : [text |-> r.text \o SubSeq(content, r.cursor + 1, e.start) \o e.new,
                                        cursor |-> e.end],
                         [text |-> <<>>, cursor |-> 0], end.edits)
    IN  IF end.error # "" THEN Error(end.error) ELSE Ok(done.text \o Rest(content, done.cursor))

(***************************************************************************)
(* The plan. A file of a patch has an old and a new path, a sequence of    *)
(* names each; <<>> is none.                                               *)
(***************************************************************************)
Twice(files, part(_), chosen(_)) ==
    \E i, j \in DOMAIN files : i # j /\ chosen(files[i]) /\ chosen(files[j]) /\ part(files[i]) = part(files[j])

Under(p, q) == p # q /\ IsPrefix(q, p)

\* plan refuses paths used twice, or one beneath another.
PathsFit(files) ==
    LET IsTarget(f) == f.new # <<>> /\ f.new # f.old
        IsSource(f) == f.old # <<>>
    IN  /\ ~Twice(files, LAMBDA f : f.old, IsSource) /\ ~Twice(files, LAMBDA f : f.new, IsTarget)
        /\ \A f, g \in Range(files) : IsTarget(f) /\ IsSource(g) => f.new # g.old
        /\ \A i, j \in DOMAIN files :
              i # j /\ files[i].new # <<>> /\ files[j].new # <<>> => ~Under(files[i].new, files[j].new)

PatchPaths(files) == UNION {{f.old, f.new} : f \in Range(files)} \ {<<>>}

\* The finals of apply_inner: files are inserted in their order, the last one wins.
Finals(files) ==
    FoldLeft(LAMBDA finals, f :
                LET made == IF f.new = <<>> THEN finals ELSE [p \in DOMAIN finals \cup {f.new} |->
                                IF p = f.new THEN "made" ELSE finals[p]]
                IN  IF f.old = <<>> \/ f.old = f.new THEN made
                    ELSE [p \in DOMAIN made \cup {f.old} |-> IF p = f.old THEN "gone" ELSE made[p]],
             [p \in {} |-> ""], files)

(***************************************************************************)
(* Edit: occurrences are found from the left and do not overlap.           *)
(***************************************************************************)
RECURSIVE find_iter(_, _, _)
find_iter(content, old, from) ==
    LET hits == {k \in from..(Len(content) - Len(old)) : SubSeq(content, k + 1, k + Len(old)) = old}
        first == CHOOSE k \in hits : \A l \in hits : k <= l
    IN  IF hits = {} THEN <<>> ELSE <<first>> \o find_iter(content, old, first + Len(old))

edit(content, old, new, replace_all) ==
    LET found == find_iter(content, old, 0)
        used == IF replace_all THEN found ELSE SubSeq(found, 1, 1)
        done == FoldLeft(LAMBDA r, k : [text |-> r.text \o SubSeq(content, r.position + 1, k) \o new,
                                        position |-> k + Len(old)],
                         [text |-> <<>>, position |-> 0], used)
    IN  CASE old = <<>> \/ old = new -> Error("input")
          [] old # <<>> /\ old # new /\ found = <<>> -> Error("not found")
          [] old # <<>> /\ old # new /\ Len(found) > 1 /\ ~replace_all -> Error("not unique")
          [] OTHER -> Ok(done.text \o Rest(content, done.position))
=============================================================================

---------------------------- MODULE MCWorkspace ----------------------------
(* An instance of Workspace for TLC, and what PatchText computes.          *)
EXTENDS Workspace, PatchText

MCOrder == <<"a", "b", "c">>

\* The patch of the tests: one file is modified, one deleted, one created; and one that
\* renames a file.
MCPatches == {[a |-> "modify", b |-> "delete", c |-> "create"],
              [a |-> "create", b |-> "none", c |-> "delete"]}

Bodies == {<<>>, <<"x">>, <<"y">>}

SeqsTo(S, n) == UNION {[1..k -> S] : k \in 0..n}

\* Contents of a few lines, with either line end, and with or without a last newline.
Joined(lines, ending) == FlattenSeq([i \in DOMAIN lines |-> lines[i] \o ending])

Contents ==
    {Joined(lines, ending) : lines \in SeqsTo(Bodies, 3), ending \in {<<"\n">>, <<"\r", "\n">>}}
      \cup {Joined(lines, <<"\n">>) \o <<"x">> : lines \in SeqsTo(Bodies, 2)}

LinesOf(content) == [i \in DOMAIN LinesFrom(content, 0) |-> LinesFrom(content, 0)[i].text]

(* The search finds the lines if and only if they are at one place, occurrences that
   overlap included. *)
Places(lines, pattern, eof) ==
    {lines[i].start : i \in
        {i \in 1..(Len(lines) - Len(pattern) + 1) :
            /\ \A k \in DOMAIN pattern : lines[i + k - 1].text = pattern[k]
            /\ eof => i + Len(pattern) - 1 = Len(lines)}}

Searchable == {Joined(lines, <<"\n">>) : lines \in SeqsTo({<<"x">>, <<"y">>}, 6)}

ASSUME SearchUnique ==
    \A content \in Searchable, pattern \in SeqsTo({<<"x">>, <<"y">>}, 4) \ {<<>>}, eof \in BOOLEAN :
        LET places == Places(LinesFrom(content, 0), pattern, eof)
            found == sequence(content, 0, pattern, eof)
        IN  /\ found.ok <=> Cardinality(places) = 1
            /\ found.ok => found.value \in places

(* A range-less hunk replaces its lines and nothing else, in a file of either line end;
   the file has a last newline after it if and only if it had one before. *)
Kinds == {" ", "-", "+"}

HunkLines == SeqsTo([kind : Kinds, text : {<<"x">>, <<"y">>}], 3) \ {<<>>}

ASSUME HunkExact ==
    \A content \in Contents, lines \in HunkLines :
        LET old == Texts(lines, {" ", "-"})
            done == range_less(content, <<[lines |-> lines, locator |-> <<>>, eof |-> FALSE]>>)
            before == LinesOf(content)
        IN  done.ok /\ old # <<>> =>
              \E at \in DOMAIN before :
                  /\ SubSeq(before, at, at + Len(old) - 1) = old
                  /\ LinesOf(done.value) = SubSeq(before, 1, at - 1) \o Texts(lines, {" ", "+"})
                                             \o SubSeq(before, at + Len(old), Len(before))
                  /\ Last(content) = "\n" /\ done.value # <<>> => Last(done.value) = "\n"

(* A patch of two hunks does what its hunks do one after the other, the last first, and
   what it did is undone by its inverse. *)
Change == [old : SeqsTo({<<"x">>, <<"y">>}, 1), new : {<<>>, <<<<"x">>>>, <<<<"z">>, <<"x">>>>}]

Diff(change, at, delta) ==
    LET mark(kind, texts) == [i \in DOMAIN texts |-> [kind |-> kind, text |-> texts[i], no_newline |-> FALSE]]
        begin(count, n) == IF count > 0 THEN n ELSE n - 1
    IN  [old_start |-> begin(Len(change.old), at), old_count |-> Len(change.old),
         new_start |-> begin(Len(change.new), at + delta), new_count |-> Len(change.new),
         lines |-> mark("-", change.old) \o mark("+", change.new)]

Reversed(change) == [old |-> change.new, new |-> change.old]

Unified == {Joined(lines, <<"\n">>) : lines \in SeqsTo({<<"x">>, <<"y">>}, 3)}

ASSUME HunksCompose ==
    \A content \in Unified, c1, c2 \in Change, at \in 1..2, gap \in 0..1 :
        LET second == at + Len(c1.old) + gap
            grown == Len(c1.new) - Len(c1.old)
            both == apply(content, <<Diff(c1, at, 0), Diff(c2, second, grown)>>)
            last == apply(content, <<Diff(c2, second, 0)>>)
        IN  both.ok =>
              /\ last.ok /\ both = apply(last.value, <<Diff(c1, at, 0)>>)
              /\ apply(both.value, <<Diff(Reversed(c1), at, 0), Diff(Reversed(c2), second + grown, -grown)>>)
                   = Ok(content)

(* A plan that is accepted says what becomes of each of its paths, and says it once: the
   order of its files makes no difference. *)
FilePaths == {<<>>, <<"a">>, <<"b">>, <<"a", "b">>}

ASSUME PlanComplete ==
    \A files \in SeqsTo([old : FilePaths, new : FilePaths], 3) :
        PathsFit(files) =>
            /\ DOMAIN Finals(files) = PatchPaths(files)
            /\ Finals(files) = Finals(Reverse(files))
            /\ \A p \in DOMAIN Finals(files) :
                  Finals(files)[p] = "gone" <=> ~\E f \in Range(files) : f.new = p

(* An edit that succeeds without replace_all changed the only occurrence, if occurrences
   cannot overlap, and one that replaces all leaves none unless the new text brings it. *)
ASSUME EditUnique ==
    \A content \in SeqsTo({"x", "y"}, 5), old \in {<<"x">>, <<"x", "y">>}, new \in {<<>>, <<"z">>} :
        LET once == edit(content, old, new, FALSE)
            all == edit(content, old, new, TRUE)
        IN  /\ once.ok => once = all
            /\ all.ok /\ new = <<"z">> => find_iter(all.value, old, 0) = <<>>
=============================================================================

---------------------------------- MODULE MCMcp ----------------------------------
(* Instances of Mcp and Lsp for TLC, and what LspText computes.            *)
EXTENDS Mcp, Lsp, LspText, TLC

CONSTANTS t1, t2, s1, s2

Symmetry == Permutations(Sids)

VARIABLE system   \* MCP, a language server that talks, or one whose host closes the tool

\* The one that is not looked at has one initial state. Approval comes before the
\* transport: over HTTP the tool is allowed. So does the comparison of catalogs: a
\* second reconnect is looked at over the other transports.
ClientsInit ==
    /\ Init /\ LspInit /\ system \in {"mcp", "talk", "close"}
    /\ IF system = "mcp" THEN call["b"].op = "workspaceSymbol" /\ (kind = "http" => allowed)
       ELSE kind = "stdio" /\ allowed /\ catalog = "ro"

ClientsNext ==
    /\ UNCHANGED system
    /\ \/ system = "mcp" /\ Next /\ (kind = "http" => spent'.reconnects <= 1) /\ UNCHANGED lspVars
       \/ system = "talk" /\ LspNext /\ closing' = "no" /\ UNCHANGED vars
       \/ system = "close" /\ LspNext /\ (\A s \in Sessions : lsp'[s].talk = 0) /\ UNCHANGED vars

ClientsSpec == ClientsInit /\ [][ClientsNext]_<<vars, lspVars, system>>

\* A late answer to the question of a call that got published diagnostics, and
\* documents of two calls.
MCOperations ==
    {[a |-> "diagnostics", b |-> "diagnostics"], [a |-> "hover", b |-> "workspaceSymbol"]}

(***************************************************************************)
(* LspText.                                                                *)
(***************************************************************************)
MaxInt == 5

Within(text, place) == place.line \in 0..Len(text) - 1 /\ place.character \in 0..text[place.line + 1]

\* The places of a text are the positions that the model may name, each shown at the
\* position that names it; a place that cannot be counted from 1 is not shown.
ASSUME PositionsAgree ==
    \A row, column \in -1..MaxInt :
        LET place == [line |-> row, character |-> column]
            shown == stable(place, MaxInt)
        IN  /\ shown = Bad <=> row \notin 0..MaxInt - 1 \/ column \notin 0..MaxInt - 1
            /\ \A text \in UNION {[1..n -> 0..2] : n \in 0..2} :
                  /\ shown # Bad =>
                        position(text, shown.line, shown.character) = IF Within(text, place) THEN place ELSE Bad
                  /\ position(text, row, column) # Bad => Within(text, position(text, row, column))

Uris == [file : BOOLEAN, host : BOOLEAN, query : BOOLEAN, inside : BOOLEAN]
Places == [line : {-1, 0}, character : {0, MaxInt}]
Raws == [uri : Uris \cup {Nothing}, targetUri : Uris \cup {Nothing},
         range : Places \cup {Nothing}, targetRange : {[line |-> 1, character |-> 1]}]

\* Nothing outside of the workspace is shown, and nothing inside is left out unless the
\* whole answer is refused.
ASSUME AnswersConfined ==
    \A raw \in Raws :
        LET shown == location(raw, MaxInt)
            uri == IF raw.uri = Nothing THEN raw.targetUri ELSE raw.uri
            inside == [raw EXCEPT !.uri = [file |-> TRUE, host |-> FALSE, query |-> FALSE, inside |-> TRUE]]
        IN  /\ shown # Nothing <=> uri # Nothing /\ uri.file /\ uri.inside /\ ~uri.host /\ ~uri.query
            /\ locations(<<raw, raw>>, MaxInt) =
                  IF shown = Bad THEN Bad ELSE IF shown = Nothing THEN <<>> ELSE <<shown, shown>>
            /\ raw.range # Nothing =>
                  diagnostics(<<raw.range>>, MaxInt) \in {Bad, <<location(inside, MaxInt)>>}

\* Servers that end headers alike, or with LF after CRLF: a frame of n bytes.
Byte(n) == [end |-> "no", length |-> n]
Frame1(end, n) == <<Byte(0), [end |-> end, length |-> n]>> \o [i \in 1..n |-> Byte(i)]
Streams ==
    {FlattenSeq([i \in 1..2 |-> Frame1(ends[i], sizes[i])]) :
        ends \in {<<"crlf", "crlf">>, <<"lf", "lf">>, <<"crlf", "lf">>}, sizes \in [1..2 -> 0..2]}
    \cup {<<Byte(0), Byte(0), Byte(0)>>, <<Byte(0), Byte(0), [end |-> "lf", length |-> 0]>>, Frame1("crlf", -1)}

Fed(pieces, messages) ==
    FoldLeft(LAMBDA framer, piece : feed(framer, piece, 2, 2, messages), [bytes |-> <<>>, queue |-> <<>>], pieces)

\* How the pipe cuts a stream into pieces makes no difference to its messages, and none
\* to whether it is refused.
ASSUME FramesWhole ==
    \A stream \in Streams, messages \in 1..2 :
        LET n == Len(stream)
        IN  \A i, j \in 0..n : i <= j =>
                Fed(<<SubSeq(stream, 1, i), SubSeq(stream, i + 1, j), SubSeq(stream, j + 1, n)>>, messages)
                    = Fed(<<stream>>, messages)

Leaf == [kind |-> "document", children |-> <<>>]
Items == {Leaf, [kind |-> "inside"], [kind |-> "outside"]}
Level(items) == UNION {[1..n -> items] : n \in 0..2}
Above(items) == {[kind |-> "document", children |-> below] : below \in Level(items)}

RECURSIVE Size(_)
Size(items) ==
    FoldLeft(LAMBDA n, item : n + 1 + IF item.kind = "document" THEN Size(item.children) ELSE 0, 0, items)

RECURSIVE Shown(_)
Shown(items) ==
    LET kept == SelectSeq(items, LAMBDA item : item.kind # "outside")
    IN  [i \in DOMAIN kept |-> IF kept[i].kind = "document" THEN [kept[i] EXCEPT !.children = Shown(@)] ELSE kept[i]]

RECURSIVE Documents(_)
Documents(items) ==
    FoldLeft(LAMBDA n, item : LET d == IF item.kind = "document" THEN 1 + Documents(item.children) ELSE 0
                              IN IF d > n THEN d ELSE n, 0, items)

\* An outline is refused exactly when it has too many nodes or its documents' symbols
\* nest too deep, and what is shown is all of it that is inside of the workspace.
ASSUME SymbolsBounded ==
    \A items \in Level(Items \cup Above(Items)), maxNodes \in 2..6, maxDepth \in 0..2 :
        LET result == symbols(items, 0, 0, maxDepth, maxNodes)
        IN  /\ result = Bad <=> Size(items) > maxNodes \/ Documents(items) > maxDepth
            /\ result # Bad => result.out = Shown(items) /\ result.nodes = Size(items)

RECURSIVE Nested(_)
Nested(n) == IF n = 0 THEN [kind |-> "text", text |-> "t"] ELSE [kind |-> "array", items |-> <<Nested(n - 1), [kind |-> "null"]>>]

\* Hover texts nest as deep as the limit.
ASSUME HoverBounded ==
    \A n, maxDepth \in 0..3 :
        hover_contents(Nested(n), 0, maxDepth) = IF n <= maxDepth THEN <<"t">> ELSE Bad

\* A server is found by the file's name or by its path, "**/" standing for no directory
\* or for one; and every operation is one of reading.
ASSUME ServersMatch ==
    LET accepts(pattern, path) ==
            matches_config([language |-> Nothing, patterns |-> {pattern}], [language |-> "rust", path |-> path])
    IN  /\ \A path \in {<<"f">>, <<"src", "f">>, <<"a", "src", "f">>} :
              /\ accepts(<<"f">>, path) /\ accepts(<<"**", "f">>, path)
              /\ accepts(<<"**", "src", "f">>, path) <=> Len(path) > 1
              /\ ~accepts(<<"src", "**", "f">>, path)
        /\ \A asked \in ReadOnly \cup {"goToDefinition", "findReferences", "rename"} :
              normalize_operation(asked) \in ReadOnly <=> asked # "rename"
        /\ LET limits == normalized(TRUE, [m |-> 0, n |-> 7], [m |-> 16, n |-> 15])
           IN  limits.m = 16 /\ limits.n = 7
================================================================================

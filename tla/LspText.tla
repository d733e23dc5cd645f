----------------------------- MODULE LspText -----------------------------
(***************************************************************************)
(* What the language server client computes (adk-tools/src/lsp.rs,         *)
(* lsp_protocol.rs, lsp_results.rs): which server gets a request, how its  *)
(* output is cut into messages, and what of an answer is shown.  A file is *)
(* the sequence of the lengths of its lines, a path the sequence of its    *)
(* segments, and a uri says what confined_uri asks of it.                  *)
(***************************************************************************)
EXTENDS Integers, Sequences, SequencesExt, TLC

CONSTANTS
    Bad,      \* Err
    Nothing   \* an empty string, an absent field

(***************************************************************************)
(* The choice of a server.                                                 *)
(***************************************************************************)
\* A limit that is zero is the default one; a relative command is refused.
normalized(absolute, config, defaults) ==
    IF ~absolute THEN Bad
    ELSE [field \in DOMAIN defaults |-> IF config[field] = 0 THEN defaults[field] ELSE config[field]]

ReadOnly == {"definition", "references", "hover", "documentSymbol", "workspaceSymbol",
             "implementation", "typeDefinition", "diagnostics"}

normalize_operation(operation) ==
    CASE operation = "goToDefinition" -> "definition"
      [] operation = "findReferences" -> "references"
      [] operation \in ReadOnly -> operation
      [] OTHER -> Bad

Matches(pattern, path) ==
    /\ Len(pattern) = Len(path)
    /\ \A i \in DOMAIN path : pattern[i] \in {"*", "**", path[i]}

\* A pattern, and what is left of it without its leading "**/".
Candidates(pattern) ==
    {SubSeq(pattern, k + 1, Len(pattern)) :
        k \in {n \in 0..Len(pattern) - 1 : \A i \in 1..n : pattern[i] = "**"}}

matches_config(config, request) ==
    /\ Nothing \in {config.language, request.language} \/ config.language = request.language
    /\ \/ config.patterns = {} \/ request.path = Nothing
       \/ \E pattern \in config.patterns : \E candidate \in Candidates(pattern) :
             Matches(candidate, request.path) \/ Matches(candidate, <<Last(request.path)>>)

(***************************************************************************)
(* Positions count from 1 for the model and from 0 for the server.         *)
(***************************************************************************)
position(text, line, character) ==
    IF line < 1 \/ character < 1 \/ line > Len(text) THEN Bad
    ELSE IF character > text[line] + 1 THEN Bad
    ELSE [line |-> line - 1, character |-> character - 1]

stable(place, maxInt) ==
    IF \E field \in {"line", "character"} : place[field] < 0 \/ place[field] = maxInt THEN Bad
    ELSE [line |-> place.line + 1, character |-> place.character + 1]

(***************************************************************************)
(* Framer::feed.  A byte has end = "no", but for the one that ends an      *)
(* empty line, "crlf" or "lf": that one has the length which the header    *)
(* gives, -1 when no line or no single line does.                          *)
(***************************************************************************)
Ends(bytes, kind) == {i \in DOMAIN bytes : bytes[i].end = kind}

\* The first empty line of a stream: one of CRLF, wherever it is, before one of LF.
HeaderEnd(bytes) ==
    LET at == IF Ends(bytes, "crlf") # {} THEN Ends(bytes, "crlf") ELSE Ends(bytes, "lf")
    IN  IF at = {} THEN 0 ELSE CHOOSE i \in at : \A j \in at : i <= j

\* Where the end that is found is not the first one, the first length counts: the
\* next one is in a line that begins with the body.
HeaderLength(bytes, end) ==
    LET first == CHOOSE i \in 1..end : bytes[i].end # "no" /\ \A j \in 1..i - 1 : bytes[j].end = "no"
    IN  bytes[first].length

RECURSIVE Frames(_, _, _, _, _)
Frames(bytes, queue, limit, maxHeader, maxMessages) ==
    LET end == HeaderEnd(bytes)
        length == HeaderLength(bytes, end)
    IN  IF end = 0 THEN IF Len(bytes) > maxHeader THEN Bad ELSE [bytes |-> bytes, queue |-> queue]
        ELSE IF end > maxHeader \/ length < 0 \/ length > limit THEN Bad
        ELSE IF Len(bytes) - end < length THEN [bytes |-> bytes, queue |-> queue]
        ELSE IF Len(queue) >= maxMessages THEN Bad
        ELSE Frames(SubSeq(bytes, end + length + 1, Len(bytes)),
                    Append(queue, SubSeq(bytes, end + 1, end + length)), limit, maxHeader, maxMessages)

feed(framer, bytes, limit, maxHeader, maxMessages) ==
    IF framer = Bad THEN Bad
    ELSE Frames(framer.bytes \o bytes, framer.queue, limit, maxHeader, maxMessages)

(***************************************************************************)
(* Answers.                                                                *)
(***************************************************************************)
confined_uri(uri) == uri.file /\ ~uri.host /\ ~uri.query /\ uri.inside

\* Nothing: the location is not shown.
location(raw, maxInt) ==
    LET uri == IF raw.uri # Nothing THEN raw.uri ELSE raw.targetUri
        place == IF raw.uri # Nothing THEN raw.range ELSE raw.targetRange
    IN  IF uri = Nothing \/ ~confined_uri(uri) THEN Nothing
        ELSE stable(IF place = Nothing THEN [line |-> 0, character |-> 0] ELSE place, maxInt)

\* A list of locations, or diagnostics: one bad item spoils all of them.
locations(items, maxInt) ==
    LET found == [i \in DOMAIN items |-> location(items[i], maxInt)]
    IN  IF Bad \in {found[i] : i \in DOMAIN items} THEN Bad
        ELSE SelectSeq(found, LAMBDA place : place # Nothing)

diagnostics(places, maxInt) ==
    LET found == [i \in DOMAIN places |-> stable(places[i], maxInt)]
    IN  IF Bad \in {found[i] : i \in DOMAIN places} THEN Bad ELSE found

RECURSIVE hover_contents(_, _, _)
hover_contents(raw, depth, maxDepth) ==
    IF depth > maxDepth THEN Bad
    ELSE CASE raw.kind = "null" -> <<>>
           [] raw.kind = "text" -> <<raw.text>>
           [] raw.kind = "array" ->
                 LET parts == [i \in DOMAIN raw.items |-> hover_contents(raw.items[i], depth + 1, maxDepth)]
                 IN  IF Bad \in {parts[i] : i \in DOMAIN parts} THEN Bad ELSE FlattenSeq(parts)
           [] OTHER -> Bad

\* What symbols makes of the items of one level, and the nodes counted so far. A node
\* has a place in the workspace or out of it, or is of the document and has children;
\* also a leaf is asked for them.
RECURSIVE symbols(_, _, _, _, _)
symbols(items, depth, nodes, maxDepth, maxNodes) ==
    IF depth > maxDepth \/ nodes + Len(items) > maxNodes THEN Bad
    ELSE FoldLeft(
            LAMBDA acc, item :
                IF acc = Bad THEN Bad
                ELSE CASE item.kind = "inside" -> [acc EXCEPT !.out = Append(@, item)]
                       [] item.kind = "outside" -> acc
                       [] item.kind = "document" ->
                             LET below == symbols(item.children, depth + 1, acc.nodes, maxDepth, maxNodes)
                             IN  IF below = Bad THEN Bad
                                 ELSE [out |-> Append(acc.out, [item EXCEPT !.children = below.out]),
                                       nodes |-> below.nodes]
                       [] OTHER -> Bad,
            [out |-> <<>>, nodes |-> nodes + Len(items)], items)
=============================================================================

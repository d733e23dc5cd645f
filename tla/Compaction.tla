----------------------------- MODULE Compaction -----------------------------
(***************************************************************************)
(* The local history compaction planner (adk-runtime/src/compaction.rs):   *)
(* which items of a history a summary replaces, and the finalization that  *)
(* repairs the pairs of calls and results afterwards.                      *)
(*                                                                         *)
(* Texts are abstracted to their estimated size in tokens; positions are   *)
(* one-based, boundaries of approval markers count the items before them   *)
(* as the code's before_item does.                                         *)
(***************************************************************************)
EXTENDS Integers, Sequences, FiniteSets, SequencesExt

CONSTANTS
    None,             \* no value
    TextTokens,       \* estimated tokens of an ordinary item
    LongTokens,       \* estimated tokens of a long or protected tool output
    SummaryTokens     \* estimated tokens of the heading of a summary

ASSUME SizeAssumption ==
    /\ TextTokens \in Nat \ {0} /\ LongTokens \in Nat /\ SummaryTokens \in Nat \ {0}
    /\ TextTokens <= LongTokens

\* RunItem, and HistoryItem::Approval for the markers between them.
Item(kind, id, tag, spill) == [kind |-> kind, id |-> id, tag |-> tag, spill |-> spill]

Message(kind) == Item(kind, 0, "text", 0)

\* The items that resolve a call: validate_history_pairs removes the call from
\* its pending set for either.
Resolves(item) == item.kind \in {"result", "handoff"}

\* The items of a sequence at some of its positions, in their order.
Pick(s, places) == FlattenSeq([i \in DOMAIN s |-> IF i \in places THEN <<s[i]>> ELSE <<>>])

MessageKinds == {"user", "note", "system", "assistant", "summary", "carry"}

(***************************************************************************)
(* Mixed histories.                                                        *)
(***************************************************************************)
\* mixed_history: markers go before the item their boundary names, markers of
\* one boundary keep their order.
mixed_history(items, markers) ==
    FlattenSeq([n \in 1..Len(items) + 1 |->
        FlattenSeq([k \in DOMAIN markers |->
            IF markers[k].before = n - 1 THEN <<markers[k].marker>> ELSE <<>>])
        \o (IF n <= Len(items) THEN <<items[n]>> ELSE <<>>)])

Native(item) == item.kind # "approval"

\* split_history, its items and its markers.
SplitItems(mixed) == Pick(mixed, {i \in DOMAIN mixed : Native(mixed[i])})

SplitMarkers(mixed) ==
    FlattenSeq([i \in DOMAIN mixed |->
        IF Native(mixed[i]) THEN <<>>
        ELSE <<[before |-> Len(SelectSeq(SubSeq(mixed, 1, i), Native)), marker |-> mixed[i]]>>])

\* validate_history_pairs: every call is resolved once, later, before its id is
\* used again, and nothing is resolved that was not called.
PairsWhole(history) ==
    /\ \A i \in DOMAIN history : Resolves(history[i]) =>
           \E j \in 1..i - 1 :
              /\ history[j].kind = "call" /\ history[j].id = history[i].id
              /\ \A k \in j + 1..i - 1 :
                     ~(Resolves(history[k]) /\ history[k].id = history[i].id)
    /\ \A i \in DOMAIN history : history[i].kind = "call" =>
           \E j \in i + 1..Len(history) :
              /\ Resolves(history[j]) /\ history[j].id = history[i].id
              /\ \A k \in i + 1..j - 1 :
                     ~(history[k].kind = "call" /\ history[k].id = history[i].id)

(***************************************************************************)
(* Estimates and the policy.                                               *)
(***************************************************************************)
\* estimate_mixed_tokens: a summary carries its own estimate in its spill field.
Estimate(item) ==
    CASE item.kind = "summary" -> item.spill
      [] item.kind = "result" /\ item.tag = "long" -> LongTokens
      [] OTHER -> TextTokens

estimate_mixed_tokens(mixed) ==
    LET sum[n \in 0..Len(mixed)] == IF n = 0 THEN 0 ELSE sum[n - 1] + Estimate(mixed[n])
    IN  sum[Len(mixed)]

MaxOf(a, b) == IF a >= b THEN a ELSE b

MinOf(a, b) == IF a <= b THEN a ELSE b

\* LocalCompactionPolicy::normalized, zero standing for the default.
normalized(policy) ==
    LET trigger == IF policy.trigger = 0 THEN 180000 ELSE policy.trigger
    IN  [policy EXCEPT !.trigger = trigger,
                       !.target = IF @ = 0 \/ @ >= trigger THEN MaxOf(trigger \div 2, 1) ELSE @,
                       !.recent = IF @ = 0 THEN 12 ELSE @,
                       !.initial = IF @ = 0 THEN 2 ELSE @,
                       !.bullets = IF @ = 0 THEN 4 ELSE @]

\* EstimateCalibration in hundredths: half the old ratio and half the new one,
\* between 0.5 and 2.5.
observe_estimate(calibration, actual, estimated) ==
    IF actual = 0 \/ estimated = 0 THEN calibration
    ELSE MaxOf(50, MinOf(250, (calibration + (100 * actual) \div estimated) \div 2))

\* EstimateCalibration::apply.
CalibratedPolicy(calibration, policy) ==
    IF ~policy.enabled \/ calibration = 100 THEN policy
    ELSE [normalized(policy) EXCEPT
            !.trigger = MaxOf((100 * @) \div calibration, 1),
            !.target = MaxOf((100 * @) \div calibration, 1)]

(***************************************************************************)
(* Selection.                                                              *)
(***************************************************************************)
\* must_preserve: what a local summary could not reconstruct.
must_preserve(item) ==
    \/ item.kind \in {"system", "handoff"}
    \/ item.tag = "media" /\ item.kind \in MessageKinds \cup {"result"}

\* is_initial_user: notes are the user messages that start with [SYSTEM].
is_initial_user(item) == item.kind = "user"

\* The positions every candidate keeps.
Prefix(mixed, initial) ==
    {i \in DOMAIN mixed :
        \/ must_preserve(mixed[i])
        \/ /\ is_initial_user(mixed[i])
           /\ Cardinality({j \in 1..i : is_initial_user(mixed[j])}) <= initial}

LastIndex(mixed, kind, id) ==
    {i \in DOMAIN mixed : /\ mixed[i].kind = kind /\ mixed[i].id = id
                          /\ \A j \in i + 1..Len(mixed) :
                                ~(mixed[j].kind = kind /\ mixed[j].id = id)}

\* protect_pairs: the last result of a kept call, the last call of a kept result.
protect_pairs(mixed, protected) ==
    protected
    \cup UNION {LastIndex(mixed, "result", mixed[i].id) :
                    i \in {j \in protected : mixed[j].kind = "call"}}
    \cup UNION {LastIndex(mixed, "call", mixed[i].id) :
                    i \in {j \in protected : mixed[j].kind = "result"}}

Protected(mixed, policy, recent) ==
    protect_pairs(mixed, Prefix(mixed, policy.initial)
                         \cup {i \in DOMAIN mixed : i > Len(mixed) - recent})

Removed(mixed, protected) == Pick(mixed, DOMAIN mixed \ protected)

\* summarize: headings, a bullet for each recent removed item up to the limit,
\* and what an earlier summary among the removed items said.
summarize(removed, bullets) ==
    2 * SummaryTokens + MinOf(Len(removed), bullets)
      + (IF \E i \in DOMAIN removed : removed[i].kind = "summary" THEN 1 ELSE 0)

\* summarize_terse: the scope, and an earlier summary cut short.
summarize_terse(removed) ==
    SummaryTokens + (IF \E i \in DOMAIN removed : removed[i].kind = "summary" THEN 1 ELSE 0)

\* The sentence that is left when even the terse summary is over the target.
Placeholder == 1

First(S) == CHOOSE i \in S : \A j \in S : i <= j

\* The place of the summary: that of the first removed item, or after the first
\* kept item where that is a user's message it would come before.
SummaryPlace(mixed, removed, protected) ==
    IF protected # {} /\ First(removed) < First(protected)
       /\ mixed[First(protected)].kind \in {"user", "note"}
    THEN First(protected) ELSE First(removed)

WithSummary(mixed, protected, tokens, place) ==
    FlattenSeq([i \in DOMAIN mixed |->
        (IF i \in protected THEN <<mixed[i]>> ELSE <<>>)
        \o (IF i = place THEN <<Item("summary", 0, "text", tokens)>> ELSE <<>>)])

\* rebuild.
rebuild(mixed, protected, tokens) ==
    WithSummary(mixed, protected, tokens, SummaryPlace(mixed, DOMAIN mixed \ protected, protected))

\* The summary a candidate gets: ever shorter ones until the target is met.
SummarySize(long, terse, room) ==
    CASE long <= room -> long
      [] long > room /\ terse <= room -> terse
      [] OTHER -> Placeholder

\* A summary that is no shorter than what it stands for is replaced at once.
FirstSummary(removed, bullets) ==
    IF summarize(removed, bullets) >= estimate_mixed_tokens(removed)
    THEN summarize_terse(removed) ELSE summarize(removed, bullets)

Rebuilt(mixed, recent, protected, kept, tokens) ==
    [recent |-> recent, history |-> rebuild(mixed, protected, tokens), after |-> kept + tokens]

Shrunk(mixed, policy, recent, protected, kept, removed) ==
    Rebuilt(mixed, recent, protected, kept,
            SummarySize(FirstSummary(removed, policy.bullets), summarize_terse(removed),
                        policy.target - kept))

\* One candidate of compact_mixed; it shrinks nothing when all is protected.
Candidate(mixed, policy, recent, protected) ==
    IF protected = DOMAIN mixed
    THEN [recent |-> recent, history |-> mixed, after |-> estimate_mixed_tokens(mixed)]
    ELSE Shrunk(mixed, policy, recent, protected,
                estimate_mixed_tokens(Removed(mixed, DOMAIN mixed \ protected)),
                Removed(mixed, protected))

Latest(S) == CHOOSE c \in S : \A other \in S : other.recent <= c.recent

\* The candidate that keeps most recent items and meets the target, else the
\* smallest one, else None.
Best(effective, target) ==
    CASE effective = {} -> None
      [] \E c \in effective : c.after <= target ->
           Latest({c \in effective : c.after <= target}).history
      [] OTHER ->
           Latest({c \in effective : \A other \in effective : c.after <= other.after}).history

Planned(mixed, policy, before) ==
    IF before <= policy.trigger THEN None
    ELSE Best({c \in {Candidate(mixed, policy, recent, Protected(mixed, policy, recent)) :
                         recent \in 1..MaxOf(MinOf(policy.recent, Len(mixed)), 1)} :
                  c.after < before}, policy.target)

\* compact_mixed: None stands for "unchanged".
compact_mixed(mixed, policy, overhead) ==
    IF \/ ~policy.enabled \/ mixed = <<>>
       \/ estimate_mixed_tokens(mixed) + overhead <= normalized(policy).trigger
    THEN None
    ELSE Planned(mixed, normalized([normalized(policy) EXCEPT
                            !.trigger = MaxOf(@ - overhead, 1),
                            !.target = MaxOf(@ - overhead, 1)]),
                 estimate_mixed_tokens(mixed))

(***************************************************************************)
(* Finalization.                                                           *)
(***************************************************************************)
IdsOf(items, kind) == {items[i].id : i \in {j \in DOMAIN items : items[j].kind = kind}}

LastItem(items, kind, id) == items[CHOOSE i \in LastIndex(items, kind, id) : TRUE]

\* A call nothing ever answered or asked about, before the last result.
Unanswered(items, all, n) ==
    /\ items[n].id \notin IdsOf(all, "result") \cup IdsOf(all, "approval")
    /\ \E j \in n..Len(items) : items[j].kind = "result"

\* emitted_calls and emitted_outputs before position n.
EmittedCall(items, all, n) ==
    \E m \in 1..n - 1 : items[m].id = items[n].id
        /\ (items[m].kind = "call" => ~Unanswered(items, all, m))
        /\ items[m].kind \in {"call", "result"}

EmittedOutput(items, n) ==
    \E m \in 1..n - 1 : items[m].id = items[n].id /\ items[m].kind = "result"

\* What finalize_mixed_history writes for one item: duplicates and unanswered
\* calls go, the result of a kept call and the call of a kept result come back
\* from the previous history.
Finalized(items, all, n, item) ==
    CASE item.kind = "call" /\ (Unanswered(items, all, n) \/ EmittedCall(items, all, n)) -> <<>>
      [] item.kind = "call" /\ ~(Unanswered(items, all, n) \/ EmittedCall(items, all, n)) ->
           <<item>> \o (IF item.id \in IdsOf(all, "result") \ IdsOf(items, "result")
                        THEN <<LastItem(all, "result", item.id)>> ELSE <<>>)
      [] item.kind = "result" /\ (EmittedOutput(items, n) \/ item.id \notin IdsOf(all, "call")) -> <<>>
      [] item.kind = "result" /\ ~EmittedOutput(items, n) /\ item.id \in IdsOf(all, "call") ->
           (IF EmittedCall(items, all, n) THEN <<>> ELSE <<LastItem(all, "call", item.id)>>) \o <<item>>
      [] OTHER -> <<item>>

FinalizedAll(items, all) == FlattenSeq([n \in DOMAIN items |-> Finalized(items, all, n, items[n])])

WithoutCarry(compacted) ==
    Pick(compacted, {i \in DOMAIN compacted : compacted[i].kind # "carry"})

finalize_mixed_history(compacted, previous) ==
    FinalizedAll(WithoutCarry(compacted), previous \o WithoutCarry(compacted))
=============================================================================

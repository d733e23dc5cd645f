------------------------------ MODULE Provider ------------------------------
(***************************************************************************)
(* A model provider: requests that share one credential session, the       *)
(* bounded repair of what the server refuses, and the assembly of streamed *)
(* responses (adk-providers/src/auth.rs, oauth.rs, client.rs, error.rs and *)
(* copilot.rs).                                                            *)
(*                                                                         *)
(* The host owns the credential store and may rotate it at any time; the   *)
(* servers, the store and the network are external. An action covers the   *)
(* code between two awaits. Tokens are numbered in the order they are      *)
(* issued and 0 is a blank one; the age of a token is 0 while fresh, 1     *)
(* when its refresh is due and 2 when it has expired.                      *)
(***************************************************************************)
EXTENDS Integers, Sequences, FiniteSets, SequencesExt, TLC

CONSTANTS
    None,       \* no value
    Requests,   \* the requests there may be
    Configs,    \* mode, protocol, jwt, pinned (Scope::account), number of requests, whether
                \* they are direct consumers, material at the start, whether the host
                \* disables refresh, shape of the body, statuses of the server, whether
                \* answers stream
    Attempts,   \* posts of one request (5 in the code)
    MaxTokens,  \* tokens issued
    MaxEvents   \* events of one stream

\* Material: a token pair of an account, as the store keeps it.
Accounts == {"", "a", "b"}

Material == [access : Nat, refresh : Nat, account : Accounts, revision : Nat, age : 0..2]

Shapes == [thinking : STRING, effort : STRING]

ASSUME ProviderAssumption ==
    /\ None \notin Nat \cup Requests
    /\ Attempts \in Nat \ {0}
    /\ \A c \in Configs :
          c.protocol \in {"anthropic", "chat", "responses"} /\ c.material \in Material /\ c.shape \in Shapes

VARIABLES
    cfg,        \* the configuration, for good
    store,      \* CredentialStore: the host's material
    session,    \* Session: who holds the gate, rejected, copilot_failure, refresh_disabled
    overrides,  \* Provider::thinking_overrides of the one model
    req,        \* the requests
    log         \* tokens issued, held by the store, known to be rejected, spent, replaced
vars == <<cfg, store, session, overrides, req, log>>

OAuth == {"openai", "anthropic", "copilot"}

\* Where a request does not touch the session or waits for it.
Ended == {"new", "done", "failed"}

NewStream ==
    [items |-> <<>>, archived |-> <<>>, stopped |-> {}, started |-> FALSE, ending |-> FALSE,
     fragments |-> <<>>, told |-> <<>>, events |-> 0, complete |-> FALSE, response |-> {}]

NewRequest ==
    [phase |-> "new", material |-> None, original |-> None, issue |-> 0, retried |-> FALSE,
     rejected |-> FALSE, healed |-> FALSE, flipped |-> FALSE, shape |-> None, posts |-> 0,
     posted |-> {}, seen |-> {}, stream |-> NewStream]

Newest(m) == IF m.access < m.refresh THEN m.refresh ELSE m.access

Init ==
    /\ cfg \in Configs
    /\ store = cfg.material
    /\ session = [gate |-> None, rejected |-> None, failure |-> None, disabled |-> FALSE]
    /\ overrides = None
    /\ req = [r \in Requests |-> NewRequest]
    /\ log = [issued |-> Newest(cfg.material), held |-> {cfg.material.access}, known |-> {}, spent |-> {},
              replaced |-> {}]

\* The future of a request is gone, its locals with it.
Gone(phase) == [NewRequest EXCEPT !.phase = phase]

Set(r, new) == req' = [req EXCEPT ![r] = new]

Free == [session EXCEPT !.gate = None]

\* The request ends with an error; the guard of the gate goes with its future.
Fail(r) ==
    /\ Set(r, Gone("failed"))
    /\ session' = IF session.gate = r THEN Free ELSE session
    /\ UNCHANGED <<cfg, store, overrides, log>>

(***************************************************************************)
(* Session::material_with_policy.                                          *)
(***************************************************************************)
\* Session::validate.
validate(m) == ~cfg.pinned \/ m.account = "a"

\* Material::needs_refresh and the windows of material_with_policy. Tokens that
\* are no JWT carry no expiry: they are refreshed for direct consumers only.
NeedsRefresh(m) ==
    CASE cfg.mode = "openai" ->
           m.access = 0 \/ (IF cfg.jwt THEN m.age >= (IF cfg.direct THEN 1 ELSE 2)
                            ELSE cfg.direct /\ m.refresh # 0 /\ m.age >= 1)
      [] cfg.mode = "anthropic" -> m.access = 0 \/ m.age >= 1
      [] cfg.mode = "copilot" -> m.refresh # 0 /\ (m.access = 0 \/ m.age >= 1)
      [] OTHER -> FALSE

CanRefresh(m) == ~session.disabled /\ cfg.mode \in OAuth /\ m.refresh # 0

Expired(m) == m.age = 2 /\ (cfg.mode = "openai" => cfg.jwt)

RejectedCurrent(m) == session.rejected # None /\ session.rejected = m.access

\* A token that is due but has not expired still serves, unless it was rejected.
Fallback(m, rejectedCurrent) ==
    cfg.mode \in {"anthropic", "copilot"} /\ ~rejectedCurrent /\ m.access # 0 /\ ~Expired(m)

CoolingDown(m) ==
    /\ cfg.mode = "copilot" /\ session.failure # None
    /\ session.failure.revision = m.revision /\ session.failure.cooling

\* The end of material_with_policy: a rejected token is never handed out, another
\* one ends the rejection.
Usable(m) ==
    /\ ~RejectedCurrent(m)
    /\ cfg.mode # "anonymous" => m.access # 0
    /\ cfg.mode = "openai" => m.account # ""

HandOut(r, m, failure) ==
    /\ Set(r, IF ~Usable(m) THEN Gone("failed") ELSE IF cfg.direct THEN Gone("done")
              ELSE [req[r] EXCEPT !.phase = "post", !.material = m, !.original = None, !.issue = 0])
    /\ session' = [Free EXCEPT !.failure = failure,
                               !.rejected = IF RejectedCurrent(m) THEN @ ELSE None]
    /\ UNCHANGED <<cfg, store, overrides, log>>

\* Fault: the gate is not held across the exchange.
LockOpen(r) ==
    /\ req[r].phase = "lock"
    /\ session' = [session EXCEPT !.gate = r]
    /\ Set(r, [req[r] EXCEPT !.phase = "load", !.seen = log.known, !.retried = FALSE])
    /\ UNCHANGED <<cfg, store, overrides, log>>

Lock(r) ==
    /\ req[r].phase = "lock" /\ session.gate = None
    /\ session' = [session EXCEPT !.gate = r]
    /\ Set(r, [req[r] EXCEPT !.phase = "load", !.seen = log.known, !.retried = FALSE])
    /\ UNCHANGED <<cfg, store, overrides, log>>

Exchanging(r, m, retried) ==
    /\ Set(r, [req[r] EXCEPT !.phase = "refresh", !.original = m, !.retried = retried])
    /\ UNCHANGED <<cfg, store, session, overrides, log>>

Load(r) ==
    /\ req[r].phase = "load"
    /\ IF ~validate(store) THEN Fail(r)
       ELSE IF (NeedsRefresh(store) \/ RejectedCurrent(store)) /\ CanRefresh(store)
       THEN IF ~CoolingDown(store) THEN Exchanging(r, store, FALSE)
            ELSE IF Fallback(store, RejectedCurrent(store)) THEN HandOut(r, store, session.failure)
            ELSE Fail(r)
       ELSE IF RejectedCurrent(store) THEN Fail(r)
       ELSE HandOut(r, store, session.failure)

\* OAuthRefresh::refresh reaches the server, which issues another pair and, but
\* for Copilot, spends the refresh token: it takes that one no more.
Exchange(r) ==
    /\ req[r].phase = "refresh" /\ log.issued < MaxTokens
    /\ req[r].original.refresh \notin log.spent
    /\ Set(r, [req[r] EXCEPT !.phase = "answer", !.issue = log.issued + 1])
    /\ log' = [log EXCEPT !.issued = @ + 1,
                  !.spent = IF cfg.mode = "copilot" THEN @ ELSE @ \cup {req[r].original.refresh}]
    /\ UNCHANGED <<cfg, store, session, overrides>>

\* decode_response: an account that is missing is taken from the answer.
Updated(r, account) ==
    [req[r].original EXCEPT !.access = req[r].issue, !.age = 0, !.revision = @ + 1,
        !.refresh = IF cfg.mode = "copilot" THEN @ ELSE req[r].issue,
        !.account = IF cfg.mode = "anthropic" \/ (cfg.mode = "openai" /\ @ = "") THEN account ELSE @]

\* The answer is read and replaces the revision the exchange started from. A
\* host's rotation wins.
Replace(r) ==
    /\ req[r].phase = "answer"
    /\ \E account \in {"a", "b"} : \E new \in {Updated(r, account)} :
         IF ~validate(new) THEN Fail(r)
         ELSE /\ Set(r, [req[r] EXCEPT !.phase = "reload"])
              /\ store' = IF store.revision = req[r].original.revision THEN new ELSE store
              /\ log' = [log EXCEPT !.replaced = @ \cup {req[r].original.refresh},
                            !.held = IF store.revision = req[r].original.revision
                                     THEN @ \cup {new.access} ELSE @]
              /\ UNCHANGED <<cfg, session, overrides>>

Reload(r) ==
    /\ req[r].phase = "reload"
    /\ IF ~validate(store) THEN Fail(r) ELSE HandOut(r, store, None)

\* The exchange fails: refused by the server, or lost on the way there or back.
\* What the store has by then may still serve.
Failure(r) == IF cfg.mode = "copilot" THEN [revision |-> req[r].original.revision, cooling |-> TRUE]
              ELSE session.failure

Recover(r) ==
    /\ req[r].phase \in {"refresh", "answer"}
    /\ \E http \in BOOLEAN :
         IF ~validate(store) THEN Fail(r)
         ELSE IF store.access # 0 /\ store.access # req[r].original.access /\ ~Expired(store)
         THEN HandOut(r, store, None)
         ELSE IF /\ cfg.mode = "openai" /\ ~req[r].retried /\ http
                 /\ store.refresh \notin {0, req[r].original.refresh}
         THEN Exchanging(r, store, TRUE)
         ELSE IF Fallback(store, session.rejected # None
                                 /\ session.rejected = req[r].original.access)
         THEN HandOut(r, store, Failure(r))
         ELSE /\ Set(r, Gone("failed"))
              /\ session' = [Free EXCEPT !.failure = Failure(r)]
              /\ UNCHANGED <<cfg, store, overrides, log>>

\* A failing store, a cancelled or dropped request: at every await.
Interrupted(r) == req[r].phase \notin Ended /\ Fail(r)

(***************************************************************************)
(* Session::reject.                                                        *)
(***************************************************************************)
RejectLock(r) ==
    /\ req[r].phase = "rejecting" /\ session.gate = None
    /\ session' = [session EXCEPT !.gate = r]
    /\ Set(r, [req[r] EXCEPT !.phase = "rejectload"])
    /\ UNCHANGED <<cfg, store, overrides, log>>

\* The next iteration of send_body, or the end of its attempts.
Again(q) ==
    IF q.posts = Attempts THEN Gone("failed")
    ELSE [q EXCEPT !.phase = "lock", !.material = None, !.seen = {}]

\* Fault: the rejection of an older token takes the place of the current one's.
RejectAny(r) ==
    /\ req[r].phase = "rejectload"
    /\ session' = [Free EXCEPT !.rejected = req[r].material.access]
    /\ log' = IF store.access = req[r].material.access
              THEN [log EXCEPT !.known = @ \cup {store.access}] ELSE log
    /\ Set(r, Again(req[r]))
    /\ UNCHANGED <<cfg, store, overrides>>

Reject(r) ==
    /\ req[r].phase = "rejectload"
    /\ IF ~validate(store) THEN Fail(r)
       ELSE \E current \in {store.access = req[r].material.access} :
              /\ session' = [Free EXCEPT !.rejected = IF current THEN store.access ELSE @]
              /\ log' = IF current THEN [log EXCEPT !.known = @ \cup {store.access}] ELSE log
              /\ Set(r, Again(req[r]))
              /\ UNCHANGED <<cfg, store, overrides>>

(***************************************************************************)
(* Provider::send_body.                                                    *)
(***************************************************************************)
Shape(thinking, effort) == [thinking |-> thinking, effort |-> effort]

\* repair: the body the server's complaint leads to, or the same one. Budgets of
\* enabled thinking are named for the effort they stand for.
Weaker == [max |-> "xhigh", xhigh |-> "high", none |-> "minimal", minimal |-> "low"]

Flipped(shape) ==
    IF shape.thinking = "adaptive"
    THEN Shape("enabled", IF shape.effort = "xhigh" THEN "max" ELSE shape.effort)
    ELSE Shape("adaptive", shape.effort)

repair(shape, complaint, flipped) ==
    CASE complaint = "thinking" /\ cfg.protocol = "anthropic" /\ ~flipped
         /\ shape.thinking \in {"adaptive", "enabled"} -> Flipped(shape)
      [] complaint = "effort" /\ cfg.protocol = "anthropic"
         /\ shape.thinking = "adaptive" /\ shape.effort \in {"xhigh", "max"} ->
           [shape EXCEPT !.effort = "high"]
      [] complaint = "effort" /\ cfg.protocol # "anthropic" /\ shape.effort \in DOMAIN Weaker ->
           [shape EXCEPT !.effort = Weaker[@]]
      [] OTHER -> shape

\* What earlier repairs taught about this model.
Learned(shape) ==
    LET kind == IF overrides # None /\ shape.thinking \notin {"none", overrides.kind}
                THEN repair(shape, "thinking", FALSE) ELSE shape
    IN  IF overrides # None /\ overrides.cap THEN repair(kind, "effort", FALSE) ELSE kind

Begin(r) ==
    /\ req[r].phase = "new" /\ Cardinality({q \in Requests : req[q].phase # "new"}) < cfg.requests
    /\ Set(r, [req[r] EXCEPT !.phase = "lock", !.shape = Learned(cfg.shape)])
    /\ UNCHANGED <<cfg, store, session, overrides, log>>

Post(r) ==
    /\ req[r].phase = "post"
    /\ Set(r, [req[r] EXCEPT !.phase = "wait", !.posts = @ + 1,
                             !.posted = @ \cup {<<req[r].material.access, req[r].shape>>}])
    /\ UNCHANGED <<cfg, store, session, overrides, log>>

\* The first 401 of a request with a token that can be refreshed.
Unauthorized(r) ==
    /\ req[r].phase = "wait" /\ "401" \in cfg.statuses
    /\ ~req[r].rejected /\ cfg.mode \in OAuth
    /\ Set(r, [req[r] EXCEPT !.phase = "rejecting", !.rejected = TRUE, !.seen = {}])
    /\ UNCHANGED <<cfg, store, session, overrides, log>>

\* A 400 that repair can answer; Anthropic bodies are repaired once.
Repaired(r, shape) ==
    LET flips == shape.thinking # req[r].shape.thinking
        anthropic == cfg.protocol = "anthropic"
    IN  /\ Set(r, Again([req[r] EXCEPT !.shape = shape, !.healed = anthropic,
                                       !.flipped = @ \/ flips]))
        /\ overrides' = IF ~anthropic THEN overrides
                        ELSE [kind |-> shape.thinking,
                              cap |-> (overrides # None /\ overrides.cap) \/ ~flips]
        /\ UNCHANGED <<cfg, store, session, log>>

BadRequest(r) ==
    /\ req[r].phase = "wait" /\ "400" \in cfg.statuses
    /\ \E complaint \in {"thinking", "effort"} :
       \E shape \in {repair(req[r].shape, complaint, req[r].flipped)} :
          IF req[r].healed \/ shape = req[r].shape THEN Fail(r) ELSE Repaired(r, shape)

\* Every other error ends the request: what the server may have accepted is not
\* posted again (RequestFailure, for the runner's retry policy to judge).
Refused(r) == req[r].phase = "wait" /\ Fail(r)

Accepted(r) ==
    /\ req[r].phase = "wait"
    /\ Set(r, IF cfg.stream THEN [req[r] EXCEPT !.phase = "stream"] ELSE Gone("done"))
    /\ UNCHANGED <<cfg, store, session, overrides, log>>

(***************************************************************************)
(* StreamState: content arrives in fragments, numbered as they come. A     *)
(* part is a call, named by its id, or a text, named by its index. Servers *)
(* name a call once, and what they send of a part is consistent; the order *)
(* of the events is theirs.                                                *)
(***************************************************************************)
Indexes == {1, 2}

Calls == {"x", "y"}

Text(i) == <<"first", "second">>[i]

Broken == [NewStream EXCEPT !.events = -1]

Part(key, content) == [key |-> key, content |-> content]

At(f, i) == IF i \in DOMAIN f THEN f[i] ELSE <<>>

Put(f, i, v) == [j \in DOMAIN f \cup {i} |-> IF j = i THEN v ELSE f[j]]

\* Content of a part becomes a ModelEvent.
Tell(st, key, content) == [st EXCEPT !.told = Put(@, key, At(@, key) \o content)]

Placed(st, i, part) == [st EXCEPT !.items = Put(@, i, part)]

Extend(st, i, n) ==
    LET part == st.items[i]
    IN  Tell(Placed(st, i, Part(part.key, Append(part.content, n))), part.key, <<n>>)

\* StreamState::finish.
Finishes(st, response) == [st EXCEPT !.complete = TRUE, !.response = response]

\* StreamState::anthropic, for event ev about index i. Arguments that no stop
\* completed end the stream.
anthropic(st, ev, i, key, n) ==
    CASE ev = "start" -> IF st.started THEN Broken ELSE [st EXCEPT !.started = TRUE, !.ending = FALSE]
      [] ev = "item" ->
           IF ~st.started \/ i \in DOMAIN st.items THEN Broken ELSE Placed(st, i, Part(key, <<>>))
      [] ev = "delta" ->
           IF i \notin DOMAIN st.items \/ i \in st.stopped THEN Broken ELSE Extend(st, i, n)
      [] ev = "done" ->
           IF i \notin DOMAIN st.items \/ i \in st.stopped THEN Broken
           ELSE [st EXCEPT !.stopped = @ \cup {i}]
      [] ev = "ending" -> [st EXCEPT !.ending = TRUE]
      [] ev = "end" ->
           IF \/ ~st.started \/ ~st.ending
              \/ \E j \in DOMAIN st.items \ st.stopped :
                    st.items[j].content # <<>> /\ st.items[j].key \in Calls
           THEN Broken ELSE Finishes(st, Range(st.items))
      [] OTHER -> Broken

\* Fault: a call that takes the index of another is added to it.
ChatItemOver(st, i, key) ==
    IF i \in DOMAIN st.items THEN [st EXCEPT !.items[i].key = key] ELSE Placed(st, i, Part(key, <<>>))

\* The chunk of StreamState::chat that names a call: another id at the same
\* index starts another call.
ChatItem(st, i, key) ==
    IF i \in DOMAIN st.items /\ st.items[i].key # key
    THEN Placed([st EXCEPT !.archived = Append(@, st.items[i])], i, Part(key, <<>>))
    ELSE IF i \in DOMAIN st.items THEN st ELSE Placed(st, i, Part(key, <<>>))

\* All text of a chat is one part; arguments belong to the call last named at
\* their index.
chat(st, ev, i, key, n) ==
    CASE ev = "item" -> ChatItem(st, i, key)
      [] ev = "delta" /\ key \notin Calls ->
           Extend(IF 0 \in DOMAIN st.items THEN st ELSE Placed(st, 0, Part(Text(1), <<>>)), 0, n)
      [] ev = "delta" /\ key \in Calls -> IF i \notin DOMAIN st.items THEN Broken ELSE Extend(st, i, n)
      [] ev = "ending" -> [st EXCEPT !.ending = TRUE]
      [] ev = "end" ->
           IF ~st.ending THEN Broken ELSE Finishes(st, Range(st.archived) \cup Range(st.items))
      [] OTHER -> Broken

\* StreamState::responses. A fragment is told and kept; a done event tells what no
\* delta has told.
Spoken(st, i, key, content) ==
    Tell([st EXCEPT !.fragments = Put(@, i, At(@, i) \o content)], key, content)

\* An item whose content never came whole gets its fragments.
Assembled(st) ==
    {LET part == IF i \in DOMAIN st.items THEN st.items[i] ELSE Part(Text(i), <<>>)
     IN  IF part.content # <<>> THEN part ELSE Part(part.key, At(st.fragments, i)) :
     i \in DOMAIN st.items \cup DOMAIN st.fragments}

Whole(st, i, n) ==
    IF i \in DOMAIN st.fragments THEN st.fragments[i]
    ELSE IF i \in DOMAIN st.items /\ st.items[i].content # <<>> THEN st.items[i].content ELSE <<n>>

Unknown(st, key) == key \in Calls /\ \A i \in DOMAIN st.items : st.items[i].key # key

responses(st, ev, i, key, n) ==
    CASE ev = "start" -> [st EXCEPT !.started = TRUE]
      [] ev = "item" -> Placed(st, i, Part(key, <<>>))
      [] ev = "whole" -> Placed(st, i, Part(key, Whole(st, i, n)))
      [] ev = "delta" -> IF Unknown(st, key) THEN Broken ELSE Spoken(st, i, key, <<n>>)
      [] ev = "done" ->
           IF i \in DOMAIN st.fragments THEN st
           ELSE IF Unknown(st, key) THEN Broken ELSE Spoken(st, i, key, Whole(st, i, n))
      [] ev = "end" -> Finishes(st, Assembled(st))
      [] OTHER -> Broken

\* StreamState::event.
event(st, ev, i, key, n) ==
    CASE st.complete -> IF cfg.protocol = "responses" /\ ev = "extra" THEN st ELSE Broken
      [] ~st.complete /\ cfg.protocol = "anthropic" -> anthropic(st, ev, i, key, n)
      [] ~st.complete /\ cfg.protocol = "chat" -> chat(st, ev, i, key, n)
      [] OTHER -> responses(st, ev, i, key, n)

Kinds ==
    CASE cfg.protocol = "anthropic" -> {"start", "item", "delta", "done", "ending", "end"}
      [] cfg.protocol = "chat" -> {"item", "delta", "ending", "end"}
      [] OTHER -> {"start", "item", "whole", "delta", "done", "end", "extra"}

\* What a server may say of index i: a call id is not used twice, and content does
\* not change once it came whole.
Named(st) == {part.key : part \in Range(st.archived) \cup Range(st.items)}

Sayable(st, ev, i) ==
    LET now == IF i \in DOMAIN st.items THEN {st.items[i].key} ELSE {}
    IN  CASE ev \in {"start", "ending", "end", "extra"} -> {Text(1)}
          [] ev = "item" /\ cfg.protocol = "chat" -> (Calls \ Named(st)) \cup now
          [] ev \in {"delta", "done"} /\ cfg.protocol = "chat" -> {Text(1), "x"}
          [] OTHER ->
               IF now # {} THEN now
               ELSE IF i \in DOMAIN st.fragments THEN {Text(i)} ELSE {Text(i)} \cup (Calls \ Named(st))

Final(st, i) == i \in DOMAIN st.items /\ st.items[i].content # <<>>

\* HttpStream::read takes one event of a chunk; an error, the end of the body and
\* a failing connection end the stream.
Read(r) ==
    /\ req[r].phase = "stream" /\ req[r].stream.events < MaxEvents
    /\ \E ev \in Kinds, i \in Indexes :
          /\ cfg.protocol = "responses" /\ ev \in {"item", "delta"} => ~Final(req[r].stream, i)
          /\ \E key \in Sayable(req[r].stream, ev, i) :
             \E st \in {event(req[r].stream, ev, i, key, req[r].stream.events + 1)} :
                /\ Set(r, IF st = Broken THEN Gone("failed")
                          ELSE [req[r] EXCEPT !.stream = [st EXCEPT !.events = @ + 1]])
                /\ UNCHANGED <<cfg, store, session, overrides, log>>

\* The queue is drained after the terminal event, and nothing more is read.
Drained(r) ==
    /\ req[r].phase = "stream" /\ req[r].stream.complete
    /\ Set(r, Gone("done"))
    /\ UNCHANGED <<cfg, store, session, overrides, log>>

Disconnected(r) == req[r].phase = "stream" /\ ~req[r].stream.complete /\ Fail(r)

(***************************************************************************)
(* The host and time.                                                      *)
(***************************************************************************)
Rotate ==
    /\ cfg.mode \in OAuth /\ log.issued < MaxTokens
    /\ \E account \in {store.account, "b"} :
          store' = [store EXCEPT !.access = log.issued + 1, !.refresh = log.issued + 1, !.age = 0,
                                 !.revision = @ + 1, !.account = account]
    /\ log' = [log EXCEPT !.issued = @ + 1, !.held = @ \cup {log.issued + 1}]
    /\ UNCHANGED <<cfg, session, overrides, req>>

\* Session::disable_refresh.
disable_refresh ==
    /\ cfg.disables /\ ~session.disabled
    /\ session' = [session EXCEPT !.disabled = TRUE]
    /\ UNCHANGED <<cfg, store, overrides, req, log>>

Tick ==
    \/ /\ cfg.mode \in OAuth /\ store.age < 2
       /\ store' = [store EXCEPT !.age = @ + 1]
       /\ UNCHANGED <<cfg, session, overrides, req, log>>
    \/ /\ session.failure # None /\ session.failure.cooling
       /\ session' = [session EXCEPT !.failure.cooling = FALSE]
       /\ UNCHANGED <<cfg, store, overrides, req, log>>

Step(r) ==
    \/ Load(r) \/ Exchange(r) \/ Replace(r) \/ Reload(r) \/ Recover(r) \/ Reject(r)
    \/ Post(r) \/ Unauthorized(r) \/ BadRequest(r) \/ Refused(r) \/ Accepted(r)
    \/ Read(r) \/ Drained(r) \/ Disconnected(r)

Next ==
    \/ \E r \in Requests : Step(r) \/ Lock(r) \/ RejectLock(r) \/ Begin(r) \/ Interrupted(r)
    \/ Rotate \/ disable_refresh \/ Tick

Spec == Init /\ [][Next]_vars

(***************************************************************************)
(* Properties.                                                             *)
(***************************************************************************)
\* The gate of the session is held by a request that still runs inside it.
GateReleased ==
    session.gate # None =>
        req[session.gate].phase \in {"load", "refresh", "answer", "reload", "rejectload"}

\* Whatever requests, rotations and cancellations overlap, one exchange runs at a
\* time, and no refresh token goes to the server again once its answer went to the
\* store (the gate is held from load to reload); and whatever fails, is cancelled or
\* dropped inside the gate leaves it free for the others.
ExchangesOnce ==
    /\ GateReleased
    /\ \A r \in Requests : req[r].phase \in {"refresh", "answer"} =>
        /\ \A q \in Requests \ {r} : req[q].phase \notin {"refresh", "answer"}
        /\ cfg.mode # "copilot" /\ req[r].phase = "refresh" => req[r].original.refresh \notin log.replaced

\* A token on the wire is not one that the session knew to be rejected when the
\* request asked for it, however late or out of order the 401s of other tokens come;
\* and it is one that the store has held, for the account the scope pins: an exchange
\* that loses to the host's rotation, or answers for another account, is never used
\* (token, reject, refresh). A request is posted again only with another token or
\* another body, and at most Attempts times: recovering from 401s and 400s never
\* repeats what was refused.
PostsSound ==
    \A r \in Requests :
        /\ req[r].phase \in {"post", "wait"} =>
              req[r].material.access \in log.held \ req[r].seen /\ validate(req[r].material)
        /\ Cardinality(req[r].posted) = req[r].posts /\ req[r].posts <= Attempts

\* The response a stream ends with has, under each call id and each text index,
\* exactly the fragments that were told as events, in their order and once, and
\* nothing was told that is not in it.
StreamHonest ==
    \A r \in Requests : LET st == req[r].stream IN st.complete =>
        /\ \A part \in st.response :
              part.key \in DOMAIN st.told => st.told[part.key] = part.content
        /\ \A key \in DOMAIN st.told : \E part \in st.response : part.key = key
=============================================================================

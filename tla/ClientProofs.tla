------------------------------ MODULE ClientProofs ------------------------------
(***************************************************************************)
(* Proofs about the two protocol clients: the MCP client with its peer and *)
(* its server (Mcp), and the language server client (Lsp), for any number  *)
(* of calls, messages, sessions, tenants and faults.                       *)
(*                                                                         *)
(* MCP: a call is asked of the peer at most once, because a number names   *)
(* one operation (Planned) and an operation sends once (Unique, Told); a   *)
(* request is waited for by the operation that sent it and by no other     *)
(* (Waited); an answer counts only under the id of the request, which      *)
(* nobody used before (Numbered); so a message that ends the exchange as   *)
(* answered says what happened to the call (Telling).                      *)
(*                                                                         *)
(* Language servers: a session is at any time with the one call that holds *)
(* the lock, in the cache, or told to stop (Owned): taking the lock        *)
(* empties the cache, and giving it back either refills the cache or stops *)
(* the session.  So an id that a call gives to its request was never used  *)
(* before in its session, whatever the server still has to say about       *)
(* earlier ones (Own).                                                     *)
(***************************************************************************)
EXTENDS Mcp, Lsp, FiniteSetTheorems, TLAPS

Methods == {"initialize", "notifications/initialized", "tools/list", "list", "read",
            "tools/call", "DELETE"}

Clients == [state : {"New", "Ready", "Failed", "Closed"}, tools : Catalogs \cup {None},
            cached : SUBSET {"tools", "resources", "prompts"}]

Transports == [next_id : Nat \ {0}, poisoned : BOOLEAN, closed : BOOLEAN,
               session : Sids \cup {None}]

Messages == [kind : {"result", "error", "status", "request", "end"}, id : Nat,
             sid : Sids \cup {None}, valid : BOOLEAN]

Letters == [mine : BOOLEAN, id : Nat, call : Nat]

Served == [mine : BOOLEAN, tenant : Tenants, sid : Sids \cup {None}, method : Methods,
           left : 1..2, call : Nat, pc : {"arrive", "resolve", "body", "exec"}]

Bindings == [tenant : Tenants, initialized : BOOLEAN, expired : BOOLEAN]

Spending == [calls : Nat, noise : Nat, outsiders : Nat, faults : Nat, reconnects : Nat,
             reads : Nat]

Values(s) == {s[i] : i \in DOMAIN s}
Said == Values(line)
Posted == inbox \cup serving
Pending(n) == \E r \in Posted : r.call = n

(* A message that would be taken for the answer to the operation's request. *)
Reply(m) == m.kind \in {"result", "error"} /\ SameId(m, op.id)

ClientTyped ==
    /\ catalog \in Catalogs /\ defs \in Catalogs \cup {None} /\ drifted \in BOOLEAN
    /\ cl \in Clients /\ tr \in Transports /\ (op # None => op \in Ops)

WireTyped == line \in Seq(Messages) /\ inbox \subseteq Letters /\ serving \subseteq Served

TableTyped ==
    /\ bind \in [Sids -> Bindings \cup {None}] /\ owner \in [Sids -> Tenants \cup {None}]
    /\ down \in BOOLEAN

CountsTyped ==
    /\ outcome \in [Calls -> {"none", "failed", "completed", "unknown"}]
    /\ ran \in [Calls -> Nat] /\ spent \in Spending

(* What an operation has still to exchange goes with its name.             *)
Planned ==
    op # None =>
       /\ op.name \in {"new", "reconnect"} => op.todo \in Handshakes
       /\ op.name = "list" => op.todo = <<"list">>
       /\ op.name = "read" => op.todo = <<"read">>
       /\ op.name = "call" <=> op.call # 0
       /\ op.name = "call" => op.todo = <<"tools/call">>
       /\ op.call \in 0..spent.calls
       /\ op.at = "report" => op.res # "none"

(* A request of a call is tools/call, alone, and of a call already counted. *)
Called ==
    /\ spent.calls \in 0..MaxCalls
    /\ \A r \in serving : r.call # 0 => r.method = "tools/call" /\ r.left = 1
    /\ \A r \in Posted : r.call \in 0..spent.calls

Catalogued ==
    /\ cl.tools = None \/ drifted \/ cl.tools = defs
    /\ (op # None /\ op.name = "reconnect") => (op.old = None \/ drifted \/ op.old = defs)

Admitted ==
    /\ \A s \in Sids : bind[s] # None => bind[s].tenant = owner[s]
    /\ \A r \in serving : r.pc \in {"body", "exec"} /\ r.sid # None => owner[r.sid] = r.tenant
    /\ \A r \in serving : r.pc = "exec" => r.sid # None

Tabled == IsFiniteSet(Bound(bind)) /\ SessionTable

Numbered ==
    /\ \A m \in Said : m.id < tr.next_id
    /\ (op # None /\ op.at \in {"prepare", "wait"}) => op.id = tr.next_id - 1
    /\ (op # None /\ op.at = "prepare") => \A m \in Said : ~Reply(m)

Waited ==
    /\ \A r \in Posted : r.mine =>
          /\ op # None /\ op.at = "wait" /\ r.call = op.call
          /\ \A m \in Said : ~Reply(m)
    /\ \A r \in inbox : r.mine => r.id = op.id
    /\ \A q, r \in Posted : q.mine /\ r.mine => q = r

Unique == \A q, r \in Posted : q.call = r.call /\ q.call # 0 => q = r

Told ==
    \A n \in Calls :
       /\ n > spent.calls => outcome[n] = "none" /\ ran[n] = 0
       /\ ran[n] <= 1
       /\ Pending(n) => ran[n] = 0 /\ outcome[n] \in {"none", "unknown"}
       /\ (Pending(n) /\ outcome[n] = "none") =>
             /\ op # None /\ op.call = n
             /\ op.at = "wait" \/ (op.at = "report" /\ op.res = "unknown")
       /\ outcome[n] = "failed" => ran[n] = 0
       /\ outcome[n] = "completed" => ran[n] = 1

Telling ==
    (op # None /\ op.call # 0) =>
       /\ outcome[op.call] = "none"
       /\ op.at \in {"approve", "audit", "prepare"} => ran[op.call] = 0
       /\ op.at = "wait" => \A m \in Said : Reply(m) =>
             ~Pending(op.call) /\ ran[op.call] = IF m.kind = "result" THEN 1 ELSE 0
       /\ op.at = "report" /\ op.res = "ok" => ran[op.call] = 1
       /\ op.at = "report" /\ op.res \in {"remote", "policy", "other"} => ran[op.call] = 0

McpInv ==
    /\ ClientTyped /\ WireTyped /\ TableTyped /\ CountsTyped
    /\ Planned /\ Called /\ Catalogued /\ Admitted /\ Tabled
    /\ Numbered /\ Waited /\ Unique /\ Told /\ Telling

-----------------------------------------------------------------------------
(* Sequences, sets of requests and the constants.                          *)

(* The bounds are numbers, and None is nothing else.                       *)
LEMMA Bounds ==
    /\ MaxCalls \in Nat /\ MaxSessions \in Nat /\ MaxSessionsPerTenant \in Nat
    /\ Me \in Tenants /\ None \notin Tenants /\ None \notin Sids
    /\ None \notin Catalogs
BY ConstantsAssumption DEF Catalogs

(* Writing a message adds it to what is on the line.                       *)
LEMMA Written ==
    ASSUME NEW S, NEW s \in Seq(S), NEW m \in S
    PROVE  Append(s, m) \in Seq(S) /\ Values(Append(s, m)) = Values(s) \cup {m}
<1>1. /\ Append(s, m) \in Seq(S) /\ Len(Append(s, m)) = Len(s) + 1
      /\ DOMAIN s = 1..Len(s) /\ DOMAIN Append(s, m) = 1..Len(s) + 1 /\ Len(s) \in Nat
      /\ \A i \in 1..Len(s) : Append(s, m)[i] = s[i]
      /\ Append(s, m)[Len(s) + 1] = m
  OBVIOUS
<1>2. Values(s) \cup {m} \subseteq Values(Append(s, m))
  <2>1. \A i \in DOMAIN s : i \in DOMAIN Append(s, m) /\ s[i] = Append(s, m)[i]
    BY <1>1
  <2>2. Len(s) + 1 \in DOMAIN Append(s, m) /\ m = Append(s, m)[Len(s) + 1]
    BY <1>1
  <2>3. QED  BY <2>1, <2>2, Zenon DEF Values
<1>3. Values(Append(s, m)) \subseteq Values(s) \cup {m}
  <2>1. \A i \in DOMAIN Append(s, m) :
           (i \in DOMAIN s /\ Append(s, m)[i] = s[i]) \/ Append(s, m)[i] = m
    BY <1>1
  <2>2. QED  BY <2>1, Zenon DEF Values
<1>4. QED  BY <1>1, <1>2, <1>3, Zenon

(* Reading takes the first message off the line.                           *)
LEMMA Taken ==
    ASSUME NEW S, NEW s \in Seq(S), s # <<>>
    PROVE  /\ Tail(s) \in Seq(S) /\ Values(Tail(s)) \subseteq Values(s)
           /\ Head(s) \in S /\ Head(s) \in Values(s)
<1>1. /\ Tail(s) \in Seq(S) /\ Head(s) \in S /\ Len(s) \in Nat /\ Len(s) >= 1 /\ Head(s) = s[1]
      /\ DOMAIN s = 1..Len(s) /\ DOMAIN Tail(s) = 1..(Len(s) - 1)
      /\ \A i \in 1..(Len(s) - 1) : Tail(s)[i] = s[i + 1]
  OBVIOUS
<1>2. Head(s) \in Values(s)
  BY <1>1 DEF Values
<1>3. Values(Tail(s)) \subseteq Values(s)
  <2>1. \A i \in DOMAIN Tail(s) : i + 1 \in DOMAIN s /\ Tail(s)[i] = s[i + 1]
    BY <1>1
  <2>2. QED  BY <2>1, Zenon DEF Values
<1>4. QED  BY <1>1, <1>2, <1>3

(* Nothing is on an empty line.                                            *)
LEMMA Silent ==
    ASSUME NEW S
    PROVE  <<>> \in Seq(S) /\ Values(<<>>) = {}
BY DEF Values

(* What is on the line are messages.                                       *)
LEMMA Heard ==
    ASSUME line \in Seq(Messages)
    PROVE  \A m \in Said : m \in Messages
<1>1. \A i \in DOMAIN line : line[i] \in Messages
  OBVIOUS
<1>2. QED  BY <1>1, Zenon DEF Said, Values

(* A request is with the peer or with the server.                          *)
LEMMA Apart ==
    ASSUME WireTyped, NEW r \in inbox
    PROVE  r \notin serving
<1>1. r \in Letters
  BY DEF WireTyped
<1>2. DOMAIN r = {"mine", "id", "call"}
  BY <1>1 DEF Letters
<1>3. ASSUME r \in serving
      PROVE  FALSE
  <2>1. r \in Served
    BY <1>3 DEF WireTyped
  <2>2. "pc" \in DOMAIN r
    BY <2>1 DEF Served
  <2>3. QED  BY <1>2, <2>2
<1>4. QED  BY <1>3

(* Abandoned requests are the ones there were, with nobody waiting.        *)
LEMMA AbandonedLetters ==
    ASSUME NEW R, R \subseteq Letters
    PROVE  /\ Unwaited(R) \subseteq Letters
           /\ \A q \in Unwaited(R) : ~q.mine
           /\ \A q \in Unwaited(R) : \E r \in R :
                 q = [r EXCEPT !.mine = FALSE] /\ q.call = r.call
BY DEF Unwaited, Letters

(* The same of the requests the server works on.                           *)
LEMMA AbandonedServed ==
    ASSUME NEW R, R \subseteq Served
    PROVE  /\ Unwaited(R) \subseteq Served
           /\ \A q \in Unwaited(R) : ~q.mine
           /\ \A q \in Unwaited(R) : \E r \in R :
                 /\ q = [r EXCEPT !.mine = FALSE]
                 /\ q.call = r.call /\ q.sid = r.sid /\ q.tenant = r.tenant /\ q.pc = r.pc
                 /\ q.method = r.method /\ q.left = r.left
BY DEF Unwaited, Served

(* Spending leaves the number of calls alone, except for a call.           *)
LEMMA Spends ==
    ASSUME NEW what \in {"calls", "noise", "outsiders", "faults", "reconnects", "reads"},
           spent \in Spending, Spend(what)
    PROVE  /\ spent' \in Spending
           /\ spent'.calls = IF what = "calls" THEN spent.calls + 1 ELSE spent.calls
BY DEF Spend, Spending

(* A fault is spent as such.                                               *)
LEMMA Faults ==
    ASSUME spent \in Spending, Fault
    PROVE  spent' \in Spending /\ spent'.calls = spent.calls
BY Spends DEF Fault

(* An operation that begins.                                               *)
LEMMA NewOps ==
    ASSUME NEW name \in {"new", "list", "read", "call", "reconnect"},
           NEW todo \in Handshakes \cup {<<"list">>, <<"read">>, <<"tools/call">>},
           NEW at \in {"approve", "audit"}, cl \in Clients
    PROVE  /\ NewOp(name, todo, at) \in Ops
           /\ NewOp(name, todo, at).name = name /\ NewOp(name, todo, at).todo = todo
           /\ NewOp(name, todo, at).at = at /\ NewOp(name, todo, at).call = 0
           /\ NewOp(name, todo, at).old = cl.tools /\ NewOp(name, todo, at).res = "none"
BY DEF NewOp, Ops, Clients

-----------------------------------------------------------------------------
(* What steps have in common.                                              *)

(* A step that changes nothing of the sessions and only adds requests that *)
(* have just arrived.                                                      *)
LEMMA SessionsStay ==
    ASSUME TableTyped, Admitted, Tabled, UNCHANGED <<bind, owner, down>>,
           \A q \in serving' : \/ q.pc = "arrive"
                               \/ \E r \in serving : r.pc = q.pc /\ r.sid = q.sid /\ r.tenant = q.tenant
    PROVE  TableTyped' /\ Admitted' /\ Tabled'
<1>1. TableTyped'
  BY DEF TableTyped
<1>2. Admitted'
  BY DEF Admitted
<1>3. Tabled'
  BY DEF Tabled, SessionTable, Bound
<1>4. QED  BY <1>1, <1>2, <1>3

(* A caller of tools/call is told what its operation found out.            *)
LEMMA Ends ==
    ASSUME CountsTyped, Planned, Called, Told, Telling, ClientTyped,
           op # None, op' = None,
           NEW what \in {"failed", "completed", "unknown"}, Tell(op.call, what),
           op.call # 0 => /\ what = "failed" => ran[op.call] = 0 /\ ~Pending(op.call)
                          /\ what = "completed" => ran[op.call] = 1,
           ran' = ran, spent' \in Spending, spent'.calls = spent.calls,
           \A n \in Calls : Pending(n)' => Pending(n)
    PROVE  CountsTyped' /\ Planned' /\ Told' /\ Telling'
<1>1. op.call \in Nat /\ op.call \in 0..spent.calls /\ spent.calls \in 0..MaxCalls
  BY DEF Planned, Called, ClientTyped, Ops
<1>2. op.call # 0 => op.call \in Calls
  BY <1>1, Bounds DEF Calls
<1>3. outcome' \in [Calls -> {"none", "failed", "completed", "unknown"}]
  BY <1>2 DEF Tell, CountsTyped
<1>4. \A n \in Calls : outcome'[n] = IF op.call = n THEN what ELSE outcome[n]
  <2>1. CASE op.call = 0
    BY <2>1 DEF Tell, Calls
  <2>2. CASE op.call # 0
    BY <2>2, <1>2 DEF Tell, CountsTyped
  <2>3. QED  BY <2>1, <2>2
<1>5. CountsTyped'
  BY <1>3 DEF CountsTyped
<1>6. Planned' /\ Telling'
  BY DEF Planned, Telling
<1>7. Told'
  <2>1. SUFFICES ASSUME NEW n \in Calls
                 PROVE  /\ n > spent'.calls => outcome'[n] = "none" /\ ran'[n] = 0
                        /\ ran'[n] <= 1
                        /\ Pending(n)' => ran'[n] = 0 /\ outcome'[n] \in {"none", "unknown"}
                        /\ ~(Pending(n)' /\ outcome'[n] = "none")
                        /\ outcome'[n] = "failed" => ran'[n] = 0
                        /\ outcome'[n] = "completed" => ran'[n] = 1
    BY DEF Told
  <2>2. ran[n] \in Nat /\ n \in Nat
    BY Bounds DEF CountsTyped, Calls
  <2>3. CASE op.call = n
    BY <1>1, <1>4, <2>2, <2>3 DEF Told, Calls
  <2>4. CASE op.call # n
    BY <1>1, <1>4, <2>2, <2>4 DEF Told
  <2>5. QED  BY <2>3, <2>4
<1>8. QED  BY <1>5, <1>6, <1>7

(* An operation goes on before its request is sent: nothing of the wire or *)
(* of the calls changes.                                                   *)
LEMMA Proceeds ==
    ASSUME CountsTyped, Planned, Called, Told, Telling, ClientTyped, Waited, Unique,
           op # None, op' # None => op' \in Ops, op.at # "wait",
           op'.at \in {"audit", "prepare", "report"},
           op'.name = op.name, op'.call = op.call,
           op.call # 0 => op'.todo = op.todo,
           op.call = 0 => /\ op.name \in {"new", "reconnect"} => op'.todo \in Handshakes
                          /\ op.name \in {"list", "read"} => op'.todo = op.todo,
           op'.at = "report" => op'.res \in {"policy", "other"},
           op.call # 0 => op.at \in {"approve", "audit", "prepare"},
           spent' \in Spending, spent'.calls = spent.calls,
           UNCHANGED <<line, inbox, serving, outcome, ran>>
    PROVE  CountsTyped' /\ Planned' /\ Called' /\ Told' /\ Telling' /\ Waited' /\ Unique'
<1>1. CountsTyped' /\ Called' /\ Unique'
  BY DEF CountsTyped, Called, Unique, Posted
<1>2. Planned'
  BY DEF Planned, ClientTyped, Ops
<1>3. \A r \in Posted : ~r.mine
  BY DEF Waited
<1>4. Waited'
  BY <1>3 DEF Waited, Posted
<1>5. op.call # 0 => op.call \in Calls /\ ran[op.call] = 0 /\ ~Pending(op.call) /\ outcome[op.call] = "none"
  BY Bounds DEF Telling, Told, Planned, Called, ClientTyped, Ops, Calls
<1>6. Told'
  <2>1. SUFFICES ASSUME NEW n \in Calls, Pending(n), outcome[n] = "none"
                 PROVE  FALSE
    BY DEF Told, Pending, Posted
  <2>2. op.call = n /\ n # 0
    BY <2>1, Bounds DEF Told, Calls
  <2>3. QED  BY <2>1, <2>2, <1>5
<1>7. Telling'
  BY <1>5 DEF Telling
<1>8. QED  BY <1>1, <1>2, <1>4, <1>6, <1>7

(* An operation begins, while nothing else happens.                        *)
LEMMA Starts ==
    ASSUME McpInv, op = None, op' \in Ops, op'.at \in {"approve", "audit"},
           op'.name \in {"new", "list", "read", "call"},
           op'.name = "new" => op'.todo \in Handshakes,
           op'.name = "list" => op'.todo = <<"list">>,
           op'.name = "read" => op'.todo = <<"read">>,
           op'.name = "call" => op'.todo = <<"tools/call">>,
           spent' \in Spending,
           \/ op'.name # "call" /\ op'.call = 0 /\ spent'.calls = spent.calls
           \/ /\ op'.name = "call" /\ op'.call = spent.calls + 1 /\ spent'.calls = spent.calls + 1
              /\ spent.calls < MaxCalls,
           cl' \in Clients, cl'.tools = cl.tools,
           UNCHANGED <<defs, drifted, catalog, tr, line, inbox, serving, bind, owner, down, outcome, ran>>
    PROVE  McpInv'
<1>1. /\ ClientTyped /\ WireTyped /\ TableTyped /\ CountsTyped /\ Planned /\ Called
      /\ Catalogued /\ Admitted /\ Tabled /\ Numbered /\ Waited /\ Unique /\ Told /\ Telling
  BY DEF McpInv
<1>2. spent.calls \in 0..MaxCalls /\ spent'.calls \in 0..MaxCalls /\ spent.calls <= spent'.calls
  BY <1>1, Bounds DEF Called
<1>3. ClientTyped' /\ WireTyped' /\ CountsTyped'
  BY <1>1 DEF ClientTyped, WireTyped, CountsTyped
<1>4. TableTyped' /\ Admitted' /\ Tabled'
  BY <1>1, SessionsStay
<1>5. Planned' /\ Catalogued'
  BY <1>1, <1>2 DEF Planned, Catalogued
<1>6. Called'
  BY <1>1, <1>2 DEF Called, Posted
<1>7. Numbered'
  BY <1>1 DEF Numbered, Said
<1>8. Waited' /\ Unique'
  BY <1>1 DEF Waited, Unique, Posted
<1>9. \A n \in Calls : n > spent.calls => outcome[n] = "none" /\ ran[n] = 0 /\ ~Pending(n)
  BY <1>1, <1>2, Bounds DEF Told, Called, Pending, Calls
<1>10. Told'
  <2>1. \A n \in Calls : Pending(n) => outcome[n] # "none"
    BY <1>1 DEF Told
  <2>2. \A n \in Calls : Pending(n)' <=> Pending(n)
    BY DEF Pending, Posted
  <2>3. \A n \in Calls : n > spent'.calls => n > spent.calls
    BY <1>2, Bounds DEF Calls
  <2>4. QED  BY <1>1, <2>1, <2>2, <2>3 DEF Told
<1>11. Telling'
  <2>1. CASE op'.call = 0
    BY <2>1 DEF Telling
  <2>2. CASE op'.call # 0
    <3>1. op'.call \in Calls /\ op'.call > spent.calls
      BY <2>2, <1>2, Bounds DEF Calls
    <3>2. QED  BY <2>2, <3>1, <1>9 DEF Telling
  <2>3. QED  BY <2>1, <2>2
<1>12. QED
  BY <1>3, <1>4, <1>5, <1>6, <1>7, <1>8, <1>10, <1>11 DEF McpInv

-----------------------------------------------------------------------------
(* The steps of the client before a request is sent.                       *)

(* ClientManager::new.                                                     *)
LEMMA NewKeeps ==
    ASSUME McpInv, new
    PROVE  McpInv'
<1>1. /\ cl \in Clients /\ spent \in Spending
      /\ Handshake \in Handshakes
  BY DEF McpInv, ClientTyped, CountsTyped, Handshakes
<1>2. /\ NewOp("new", Handshake, "audit") \in Ops
      /\ NewOp("new", Handshake, "audit").name = "new"
      /\ NewOp("new", Handshake, "audit").todo = Handshake
      /\ NewOp("new", Handshake, "audit").at = "audit"
      /\ NewOp("new", Handshake, "audit").call = 0
  BY <1>1, NewOps
<1>3. op = None /\ op' = NewOp("new", Handshake, "audit")
  BY DEF new
<1>4. /\ UNCHANGED <<defs, drifted, catalog, tr, line, inbox, serving, bind, owner, down, outcome, ran>>
      /\ UNCHANGED <<cl, spent>>
  BY DEF new, server
<1>5. QED
  BY <1>1, <1>2, <1>3, <1>4, Starts

(* list_resources and list_prompts.                                        *)
LEMMA DiscoverKeeps ==
    ASSUME McpInv, NEW what \in {"resources", "prompts"}, discover(what)
    PROVE  McpInv'
<1>1. cl \in Clients /\ spent \in Spending
  BY DEF McpInv, ClientTyped, CountsTyped
<1> DEFINE o == NewOp("list", <<"list">>, "audit")
<1>2. /\ o \in Ops /\ o.name = "list" /\ o.todo = <<"list">> /\ o.at = "audit" /\ o.call = 0
  BY <1>1, NewOps
<1>3. op = None /\ op' = [o EXCEPT !.what = what] /\ cl' = [cl EXCEPT !.cached = @ \ {what}]
  BY DEF discover, Free
<1>4. UNCHANGED <<defs, drifted, catalog, tr, line, inbox, serving, bind, owner, down, outcome, ran>>
  BY DEF discover, server
<1>5. spent' \in Spending /\ spent'.calls = spent.calls
  BY <1>1, Spends DEF discover
<1> HIDE DEF o
<1>6. /\ op' \in Ops /\ op'.name = "list" /\ op'.todo = <<"list">> /\ op'.at = "audit" /\ op'.call = 0
  BY <1>2, <1>3 DEF Ops
<1>7. cl' \in Clients /\ cl'.tools = cl.tools
  BY <1>1, <1>3 DEF Clients
<1>8. QED
  BY <1>3, <1>4, <1>5, <1>6, <1>7, Starts

(* read_resource and get_prompt.                                           *)
LEMMA FetchKeeps ==
    ASSUME McpInv, NEW what \in {"resources", "prompts"}, fetch(what)
    PROVE  McpInv'
<1>1. cl \in Clients /\ spent \in Spending
  BY DEF McpInv, ClientTyped, CountsTyped
<1> DEFINE o == NewOp("read", <<"read">>, "audit")
<1>2. /\ o \in Ops /\ o.name = "read" /\ o.todo = <<"read">> /\ o.at = "audit" /\ o.call = 0
  BY <1>1, NewOps
<1>3. op = None /\ op' = [o EXCEPT !.what = what] /\ cl' = cl
  BY DEF fetch, Free
<1>4. UNCHANGED <<defs, drifted, catalog, tr, line, inbox, serving, bind, owner, down, outcome, ran>>
  BY DEF fetch, server
<1>5. spent' \in Spending /\ spent'.calls = spent.calls
  BY <1>1, Spends DEF fetch
<1> HIDE DEF o
<1>6. /\ op' \in Ops /\ op'.name = "read" /\ op'.todo = <<"read">> /\ op'.at = "audit" /\ op'.call = 0
  BY <1>2, <1>3 DEF Ops
<1>7. QED
  BY <1>1, <1>3, <1>4, <1>5, <1>6, Starts

(* Dropping the caches concerns nothing else.                              *)
LEMMA InvalidateKeeps ==
    ASSUME McpInv, invalidate_discovery
    PROVE  McpInv'
<1>1. /\ ClientTyped /\ WireTyped /\ TableTyped /\ CountsTyped /\ Planned /\ Called
      /\ Catalogued /\ Admitted /\ Tabled /\ Numbered /\ Waited /\ Unique /\ Told /\ Telling
  BY DEF McpInv
<1>2. cl' \in Clients /\ cl'.tools = cl.tools
  <2>1. cl \in Clients /\ cl' = [cl EXCEPT !.cached = {}]
    BY <1>1 DEF ClientTyped, invalidate_discovery
  <2>2. QED  BY <2>1 DEF Clients
<1>3. UNCHANGED <<defs, drifted, catalog, op, tr, line, inbox, serving, bind, owner, down, outcome, ran, spent>>
  BY DEF invalidate_discovery, server
<1>4. ClientTyped' /\ WireTyped' /\ CountsTyped' /\ Planned' /\ Catalogued'
  BY <1>1, <1>2, <1>3 DEF ClientTyped, WireTyped, CountsTyped, Planned, Catalogued
<1>5. TableTyped' /\ Admitted' /\ Tabled'
  BY <1>1, <1>3, SessionsStay
<1>6. Called' /\ Numbered' /\ Waited' /\ Unique'
  BY <1>1, <1>3 DEF Called, Numbered, Waited, Unique, Posted, Said, Reply
<1>7. Told' /\ Telling'
  BY <1>1, <1>3 DEF Told, Telling, Pending, Posted, Said, Reply
<1>8. QED
  BY <1>4, <1>5, <1>6, <1>7 DEF McpInv

(* A call that is refused without asking anybody.                          *)
LEMMA RefuseKeeps ==
    ASSUME McpInv, op = None, spent.calls < MaxCalls,
           spent' \in Spending, spent'.calls = spent.calls + 1,
           Tell(spent.calls + 1, "failed"),
           UNCHANGED <<cl, defs, drifted, catalog, op, tr, line, inbox, serving, bind, owner, down, ran>>
    PROVE  McpInv'
<1>1. /\ ClientTyped /\ WireTyped /\ TableTyped /\ CountsTyped /\ Planned /\ Called
      /\ Catalogued /\ Admitted /\ Tabled /\ Numbered /\ Waited /\ Unique /\ Told /\ Telling
  BY DEF McpInv
<1>2. spent.calls \in 0..MaxCalls /\ spent'.calls \in 0..MaxCalls /\ spent.calls + 1 \in Calls
  BY <1>1, Bounds DEF Called, Calls
<1>3. outcome' = [outcome EXCEPT ![spent.calls + 1] = "failed"]
  BY <1>2, Bounds DEF Tell
<1>4. /\ outcome' \in [Calls -> {"none", "failed", "completed", "unknown"}]
      /\ \A n \in Calls : outcome'[n] = IF n = spent.calls + 1 THEN "failed" ELSE outcome[n]
  BY <1>1, <1>2, <1>3 DEF CountsTyped
<1>5. ClientTyped' /\ WireTyped' /\ CountsTyped' /\ Planned' /\ Catalogued' /\ Telling'
  BY <1>1, <1>4 DEF ClientTyped, WireTyped, CountsTyped, Planned, Catalogued, Telling
<1>6. TableTyped' /\ Admitted' /\ Tabled'
  BY <1>1, SessionsStay
<1>7. Called'
  BY <1>1, <1>2 DEF Called, Posted
<1>8. Numbered' /\ Waited' /\ Unique'
  BY <1>1 DEF Numbered, Waited, Unique, Posted, Said
<1>9. Told'
  <2>1. ran[spent.calls + 1] = 0 /\ ~Pending(spent.calls + 1)
    BY <1>1, <1>2, Bounds DEF Told, Called, Pending
  <2>2. \A n \in Calls : Pending(n)' <=> Pending(n)
    BY DEF Pending, Posted
  <2>3. \A n \in Calls : n > spent'.calls => n > spent.calls /\ n # spent.calls + 1
    BY <1>2, Bounds DEF Calls
  <2>4. \A n \in Calls : ran[n] \in Nat
    BY <1>1 DEF CountsTyped
  <2>5. QED
    BY <1>1, <1>4, <2>1, <2>2, <2>3, <2>4 DEF Told
<1>10. QED
  BY <1>5, <1>6, <1>7, <1>8, <1>9 DEF McpInv

(* call_tool_inner up to the hooks.                                        *)
LEMMA CallKeeps ==
    ASSUME McpInv, call_tool
    PROVE  McpInv'
<1>1. cl \in Clients /\ spent \in Spending /\ spent.calls \in Nat
  BY DEF McpInv, ClientTyped, CountsTyped, Called, Spending
<1>2. op = None /\ spent.calls < MaxCalls
  BY DEF call_tool, Free
<1>3. spent' \in Spending /\ spent'.calls = spent.calls + 1
  BY <1>1, Spends DEF call_tool
<1>4. UNCHANGED <<cl, defs, drifted, catalog, tr, line, inbox, serving, bind, owner, down, ran>>
  BY DEF call_tool, server
<1> DEFINE o(at) == NewOp("call", <<"tools/call">>, at)
<1>5. \/ Tell(spent.calls + 1, "failed") /\ UNCHANGED op
      \/ \E at \in {"approve", "audit"} :
            op' = [o(at) EXCEPT !.call = spent.calls + 1] /\ UNCHANGED outcome
  BY Zenon DEF call_tool
<1>6. CASE Tell(spent.calls + 1, "failed") /\ UNCHANGED op
  BY <1>2, <1>3, <1>4, <1>6, RefuseKeeps
<1>7. ASSUME NEW at \in {"approve", "audit"}, op' = [o(at) EXCEPT !.call = spent.calls + 1],
             UNCHANGED outcome
      PROVE  McpInv'
  <2>1. /\ o(at) \in Ops /\ o(at).name = "call" /\ o(at).todo = <<"tools/call">>
        /\ o(at).at = at /\ o(at).call = 0
    BY <1>1, NewOps
  <2> HIDE DEF o
  <2>2. /\ op' \in Ops /\ op'.name = "call" /\ op'.todo = <<"tools/call">>
        /\ op'.at = at /\ op'.call = spent.calls + 1
    BY <1>1, <1>7, <2>1 DEF Ops
  <2>3. QED
    BY <1>1, <1>2, <1>3, <1>4, <1>7, <2>2, Starts
<1>8. QED  BY <1>5, <1>6, <1>7

(* The operation ends before anything was sent: the caller is told so.     *)
LEMMA GivesUp ==
    ASSUME McpInv, op # None, op.at \in {"approve", "audit"}, op' = None,
           Tell(op.call, "failed"), cl' \in Clients, cl'.tools = cl.tools, tr' \in Transports,
           tr'.next_id = tr.next_id, serving' \subseteq Served, serving \subseteq serving',
           \A q \in serving' : q \in serving \/ (q.pc = "arrive" /\ ~q.mine /\ q.call = 0),
           spent' \in Spending, spent'.calls = spent.calls,
           UNCHANGED <<defs, drifted, catalog, line, inbox, bind, owner, down, ran>>
    PROVE  McpInv'
<1>1. /\ ClientTyped /\ WireTyped /\ TableTyped /\ CountsTyped /\ Planned /\ Called
      /\ Catalogued /\ Admitted /\ Tabled /\ Numbered /\ Waited /\ Unique /\ Told /\ Telling
  BY DEF McpInv
<1>2. ClientTyped' /\ WireTyped' /\ Catalogued'
  BY <1>1 DEF ClientTyped, WireTyped, Catalogued
<1>3. TableTyped' /\ Admitted' /\ Tabled'
  BY <1>1, SessionsStay
<1>4. Called' /\ Unique'
  BY <1>1 DEF Called, Unique, Posted
<1>5. \A n \in Calls : Pending(n)' => Pending(n)
  BY DEF Pending, Posted, Calls
<1>6. op.call # 0 => ran[op.call] = 0 /\ ~Pending(op.call)
  BY <1>1, Bounds DEF Telling, Told, Planned, Called, Calls, ClientTyped, Ops
<1>7. CountsTyped' /\ Planned' /\ Told' /\ Telling'
  BY <1>1, <1>5, <1>6, Ends
<1>8. Numbered' /\ Waited'
  BY <1>1 DEF Numbered, Waited, Posted, Said
<1>9. QED
  BY <1>2, <1>3, <1>4, <1>7, <1>8 DEF McpInv

(* break_glass and approve.                                                *)
LEMMA DecideKeeps ==
    ASSUME McpInv, Decide
    PROVE  McpInv'
<1>1. /\ ClientTyped /\ WireTyped /\ TableTyped /\ CountsTyped /\ Planned /\ Called
      /\ Catalogued /\ Admitted /\ Tabled /\ Numbered /\ Waited /\ Unique /\ Told /\ Telling
  BY DEF McpInv
<1>2. op # None /\ op \in Ops /\ op.at = "approve"
  BY <1>1 DEF Decide, ClientTyped
<1>3. UNCHANGED <<cl, defs, drifted, catalog, tr, line, inbox, serving, bind, owner, down, ran, spent>>
  BY DEF Decide, server
<1>4. CASE op' = None /\ Tell(op.call, "failed")
  <2>1. cl \in Clients /\ tr \in Transports /\ spent \in Spending /\ serving \subseteq Served
    BY <1>1 DEF ClientTyped, CountsTyped, WireTyped
  <2>2. QED  BY <1>2, <1>3, <1>4, <2>1, GivesUp
<1>5. CASE op' = [op EXCEPT !.at = "audit"] /\ UNCHANGED outcome
  <2>1. /\ op' \in Ops /\ op'.at = "audit" /\ op'.name = op.name /\ op'.call = op.call
        /\ op'.todo = op.todo /\ op'.old = op.old
    BY <1>2, <1>5 DEF Ops
  <2>2. spent \in Spending
    BY <1>1 DEF CountsTyped
  <2>3. CountsTyped' /\ Planned' /\ Called' /\ Told' /\ Telling' /\ Waited' /\ Unique'
    <3>1. op.call = 0 => /\ op.name \in {"new", "reconnect"} => op'.todo \in Handshakes
                         /\ op.name \in {"list", "read"} => op'.todo = op.todo
      BY <1>1, <1>2, <2>1 DEF Planned
    <3>2. QED  BY <1>1, <1>2, <1>3, <1>5, <2>1, <2>2, <3>1, Proceeds
  <2>4. ClientTyped' /\ WireTyped' /\ Catalogued' /\ Numbered'
    BY <1>1, <1>2, <1>3, <2>1 DEF ClientTyped, WireTyped, Catalogued, Numbered, Said
  <2>5. TableTyped' /\ Admitted' /\ Tabled'
    BY <1>1, <1>3, SessionsStay
  <2>6. QED  BY <2>3, <2>4, <2>5 DEF McpInv
<1>6. QED  BY <1>4, <1>5 DEF Decide

-----------------------------------------------------------------------------
(* The transport is closed.                                                *)

(* Deleting a session is asked for by nobody who waits, and for no call.   *)
LEMMA Deletes ==
    ASSUME tr \in Transports
    PROVE  /\ DeleteSession \subseteq Served
           /\ \A q \in DeleteSession : q.pc = "arrive" /\ ~q.mine /\ q.call = 0
           /\ ClosedTransport \in Transports /\ ClosedTransport.next_id = tr.next_id
<1>1. tr.session \in Sids \cup {None}
  BY DEF Transports
<1>2. ASSUME NEW s \in Sids
      PROVE  /\ ServerRequest(FALSE, Me, s, "DELETE", 1, 0) \in Served
             /\ ServerRequest(FALSE, Me, s, "DELETE", 1, 0).pc = "arrive"
             /\ ~ServerRequest(FALSE, Me, s, "DELETE", 1, 0).mine
             /\ ServerRequest(FALSE, Me, s, "DELETE", 1, 0).call = 0
  BY Bounds DEF ServerRequest, Served, Methods
<1>3. /\ DeleteSession \subseteq Served
      /\ \A q \in DeleteSession : q.pc = "arrive" /\ ~q.mine /\ q.call = 0
  <2>1. CASE tr.session = None
    BY <2>1 DEF DeleteSession
  <2>2. CASE tr.session # None
    BY <1>1, <1>2, <2>2, Zenon DEF DeleteSession
  <2>3. QED  BY <2>1, <2>2
<1>4. ClosedTransport \in Transports /\ ClosedTransport.next_id = tr.next_id
  BY DEF ClosedTransport, Transports
<1>5. QED  BY <1>3, <1>4

(* The client hangs up between two operations.                             *)
LEMMA HangsUp ==
    ASSUME McpInv, op = None, line' = <<>>, inbox' = Hangup,
           serving' = serving \cup DeleteSession, spent' \in Spending, spent'.calls = spent.calls,
           UNCHANGED <<bind, owner, down, outcome, ran>>
    PROVE  /\ WireTyped' /\ TableTyped' /\ Admitted' /\ Tabled' /\ CountsTyped' /\ Called'
           /\ Unique' /\ Told' /\ Said' = {} /\ \A r \in Posted' : ~r.mine
<1>1. /\ ClientTyped /\ WireTyped /\ TableTyped /\ CountsTyped /\ Planned /\ Called
      /\ Catalogued /\ Admitted /\ Tabled /\ Numbered /\ Waited /\ Unique /\ Told /\ Telling
  BY DEF McpInv
<1>2. /\ DeleteSession \subseteq Served
      /\ \A q \in DeleteSession : q.pc = "arrive" /\ ~q.mine /\ q.call = 0
  BY <1>1, Deletes DEF ClientTyped
<1>3. \A r \in Posted : ~r.mine
  BY <1>1 DEF Waited
<1>4. inbox' \subseteq inbox
  <2>1. \A r \in inbox : [r EXCEPT !.mine = FALSE] = r
    BY <1>1, <1>3 DEF WireTyped, Letters, Posted
  <2>2. Unwaited(inbox) \subseteq inbox
    BY <2>1, Zenon DEF Unwaited
  <2>3. QED  BY <2>2 DEF Hangup
<1>5. WireTyped' /\ Said' = {}
  BY <1>1, <1>2, <1>4, Silent DEF WireTyped, Said
<1>6. TableTyped' /\ Admitted' /\ Tabled'
  BY <1>1, <1>2, SessionsStay
<1>7. CountsTyped' /\ Called' /\ Unique'
  BY <1>1, <1>2, <1>4 DEF CountsTyped, Called, Unique, Posted
<1>8. \A n \in Calls : Pending(n)' => Pending(n)
  BY <1>2, <1>4 DEF Pending, Posted, Calls
<1>9. Told'
  BY <1>1, <1>8 DEF Told
<1>10. \A r \in Posted' : ~r.mine
  BY <1>2, <1>3, <1>4 DEF Posted
<1>11. QED  BY <1>5, <1>6, <1>7, <1>9, <1>10

(* Client::close.                                                          *)
LEMMA CloseKeeps ==
    ASSUME McpInv, close
    PROVE  McpInv'
<1>1. /\ ClientTyped /\ cl \in Clients /\ tr \in Transports /\ spent \in Spending /\ Catalogued
  BY DEF McpInv, ClientTyped, CountsTyped
<1>2. op = None /\ op' = None
  BY DEF close, Free
<1>3. /\ WireTyped' /\ TableTyped' /\ Admitted' /\ Tabled' /\ CountsTyped' /\ Called'
      /\ Unique' /\ Told' /\ Said' = {} /\ \A r \in Posted' : ~r.mine
  <2>1. /\ line' = <<>> /\ inbox' = Hangup /\ serving' = serving \cup DeleteSession
        /\ UNCHANGED <<bind, owner, down, outcome, ran, spent>>
    BY DEF close
  <2>2. QED  BY <1>1, <1>2, <2>1, HangsUp
<1>4. cl' \in Clients /\ cl'.tools = cl.tools
  <2>1. cl' = [cl EXCEPT !.state = "Closed"]
    BY DEF close
  <2>2. QED  BY <1>1, <2>1 DEF Clients
<1>5. tr' \in Transports
  BY <1>1, Deletes DEF close
<1>6. ClientTyped' /\ Catalogued'
  <2>1. UNCHANGED <<defs, drifted, catalog>>
    BY DEF close
  <2>2. QED  BY <1>1, <1>2, <1>4, <1>5, <2>1 DEF ClientTyped, Catalogued
<1>7. Planned' /\ Telling' /\ Numbered' /\ Waited'
  BY <1>2, <1>3 DEF Planned, Telling, Numbered, Waited, Posted
<1>8. QED  BY <1>3, <1>6, <1>7 DEF McpInv

(* ClientManager::reconnect.                                               *)
LEMMA ReconnectKeeps ==
    ASSUME McpInv, reconnect
    PROVE  McpInv'
<1>1. /\ ClientTyped /\ cl \in Clients /\ tr \in Transports /\ spent \in Spending /\ Catalogued
      /\ Called
  BY DEF McpInv, ClientTyped, CountsTyped
<1>2. op = None /\ op' = NewOp("reconnect", Handshake, "audit")
  BY DEF reconnect, Free
<1>3. spent' \in Spending /\ spent'.calls = spent.calls
  BY <1>1, Spends DEF reconnect
<1>4. /\ WireTyped' /\ TableTyped' /\ Admitted' /\ Tabled' /\ CountsTyped' /\ Called'
      /\ Unique' /\ Told' /\ Said' = {} /\ \A r \in Posted' : ~r.mine
  <2>1. /\ line' = <<>> /\ inbox' = Hangup /\ serving' = serving \cup DeleteSession
        /\ UNCHANGED <<bind, owner, down, outcome, ran>>
    BY DEF reconnect
  <2>2. QED  BY <1>2, <1>3, <2>1, HangsUp
<1>5. /\ op' \in Ops /\ op'.name = "reconnect" /\ op'.todo = Handshake /\ op'.at = "audit"
      /\ op'.call = 0 /\ op'.old = cl.tools
  <2>1. Handshake \in Handshakes
    BY DEF Handshakes
  <2>2. QED  BY <1>1, <1>2, <2>1, NewOps
<1>6. cl' \in Clients /\ cl'.tools = None /\ tr' \in Transports
  BY DEF reconnect, Clients, Transports, NewTransport
<1>7. ClientTyped' /\ Catalogued'
  <2>1. UNCHANGED <<defs, drifted>> /\ catalog' \in Catalogs
    BY DEF reconnect
  <2>2. QED  BY <1>1, <1>5, <1>6, <2>1 DEF ClientTyped, Catalogued
<1>8. Planned' /\ Telling' /\ Numbered' /\ Waited'
  <2>1. spent'.calls \in Nat /\ Handshake \in Handshakes
    BY <1>3 DEF Spending, Handshakes
  <2>2. Planned'
    BY <1>5, <2>1 DEF Planned
  <2>3. QED
    BY <1>4, <1>5, <2>2 DEF Telling, Numbered, Waited, Posted
<1>9. QED  BY <1>4, <1>7, <1>8 DEF McpInv

-----------------------------------------------------------------------------
(* One exchange.                                                           *)

(* What an operation exchanges next.                                       *)
LEMMA Exchanges ==
    ASSUME op # None, op \in Ops, Planned
    PROVE  /\ Method \in Methods \ {"DELETE"}
           /\ op.call # 0 => Method = "tools/call" /\ Len(op.todo) = 1
           /\ Method = "tools/call" => op.name = "call"
           /\ Method = "tools/list" => op.name \in {"new", "reconnect"}
           /\ Len(op.todo) > 1 => op.name \in {"new", "reconnect"} /\ Tail(op.todo) \in Handshakes
<1>1. op.todo \in Handshakes \cup {<<"list">>, <<"read">>, <<"tools/call">>}
  BY DEF Ops
<1>2. op.name \in {"new", "list", "read", "call", "reconnect"}
  BY DEF Ops
<1>3. CASE op.todo \in Handshakes
  <2>1. op.name \in {"new", "reconnect"}
    BY <1>2, <1>3 DEF Planned, Handshakes, Handshake
  <2>2. Head(op.todo) \in {"initialize", "notifications/initialized", "tools/list"}
    BY <1>3 DEF Handshakes, Handshake
  <2>3. Len(op.todo) > 1 => Tail(op.todo) \in Handshakes
    <3>1. Tail(Handshake) = <<"notifications/initialized", "tools/list">>
      BY DEF Handshake
    <3>2. Tail(<<"notifications/initialized", "tools/list">>) = <<"tools/list">>
      OBVIOUS
    <3>3. Len(<<"tools/list">>) = 1
      OBVIOUS
    <3>4. op.todo = <<"tools/list">> => ~(Len(op.todo) > 1)
      BY <3>3
    <3>5. QED  BY <1>3, <3>1, <3>2, <3>4, Zenon DEF Handshakes
  <2>4. QED  BY <2>1, <2>2, <2>3 DEF Method, Methods, Planned
<1>4. CASE op.todo \in {<<"list">>, <<"read">>, <<"tools/call">>}
  <2>1. op.todo = <<"list">> => Head(op.todo) = "list" /\ Len(op.todo) = 1
    OBVIOUS
  <2>2. op.todo = <<"read">> => Head(op.todo) = "read" /\ Len(op.todo) = 1
    OBVIOUS
  <2>3. op.todo = <<"tools/call">> => Head(op.todo) = "tools/call" /\ Len(op.todo) = 1
    OBVIOUS
  <2>4. op.todo \notin Handshakes
    BY <1>4 DEF Handshakes, Handshake
  <2>5. CASE op.todo = <<"tools/call">>
    BY <1>2, <2>3, <2>4, <2>5 DEF Planned, Method, Methods
  <2>6. CASE op.todo = <<"list">>
    BY <1>2, <2>1, <2>4, <2>6 DEF Planned, Method, Methods
  <2>7. CASE op.todo = <<"read">>
    BY <1>2, <2>2, <2>4, <2>7 DEF Planned, Method, Methods
  <2>8. QED  BY <1>4, <2>5, <2>6, <2>7
<1>5. QED  BY <1>1, <1>3, <1>4

(* audit(Attempted) is done.                                               *)
LEMMA AttemptKeeps ==
    ASSUME McpInv, Attempt
    PROVE  McpInv'
<1>1. /\ ClientTyped /\ WireTyped /\ TableTyped /\ CountsTyped /\ Planned /\ Called
      /\ Catalogued /\ Admitted /\ Tabled /\ Numbered /\ Waited /\ Unique /\ Told /\ Telling
  BY DEF McpInv
<1>2. op # None /\ op \in Ops /\ op.at = "audit" /\ cl \in Clients /\ tr \in Transports
  BY <1>1 DEF Attempt, ClientTyped
<1>3. UNCHANGED <<defs, drifted, catalog, line, inbox, serving, bind, owner, down, outcome, ran>>
  BY DEF Attempt, server
<1>4. cl' \in Clients /\ cl'.tools = cl.tools
  <2>1. cl' = [cl EXCEPT !.state = "Failed"]
    BY DEF Attempt
  <2>2. QED  BY <1>2, <2>1 DEF Clients
<1>5. spent \in Spending
  BY <1>1 DEF CountsTyped
<1>6. spent' \in Spending /\ spent'.calls = spent.calls
  BY <1>5, Faults DEF Attempt, Begin
<1>7. /\ op' \in Ops /\ op'.name = op.name /\ op'.call = op.call /\ op'.todo = op.todo
      /\ op'.old = op.old
      /\ tr' \in Transports
      /\ \/ /\ op'.at = "prepare" /\ op'.id = tr.next_id /\ tr'.next_id = tr.next_id + 1
         \/ op'.at = "report" /\ op'.res = "other" /\ tr'.next_id = tr.next_id
  <2>1. cl.state \in {"New", "Ready", "Failed", "Closed"} /\ tr.next_id \in Nat
    BY <1>2 DEF Clients, Transports
  <2>2. CASE /\ tr' = [tr EXCEPT !.next_id = @ + 1, !.poisoned = TRUE]
             /\ op' = [op EXCEPT !.at = "prepare", !.id = tr.next_id, !.seen = 0, !.prev = cl.state]
    <3>1. tr' \in Transports /\ tr'.next_id = tr.next_id + 1
      <4>1. tr.next_id + 1 \in Nat \ {0}
        BY <2>1
      <4>2. tr' = [tr EXCEPT !.next_id = tr.next_id + 1, !.poisoned = TRUE]
        BY <2>2
      <4> DEFINE id == tr.next_id + 1
      <4>3. id \in Nat \ {0} /\ tr' = [tr EXCEPT !.next_id = id, !.poisoned = TRUE]
        BY <4>1, <4>2
      <4> HIDE DEF id
      <4>4. tr' \in Transports /\ tr'.next_id = id
        BY <1>2, <4>3 DEF Transports
      <4>5. QED  BY <4>4 DEF id
    <3>2. /\ op' \in Ops /\ op'.name = op.name /\ op'.call = op.call /\ op'.todo = op.todo
          /\ op'.old = op.old /\ op'.at = "prepare" /\ op'.id = tr.next_id
      BY <1>2, <2>1, <2>2 DEF Ops
    <3>3. QED  BY <3>1, <3>2
  <2>3. CASE tr' = tr /\ op' = [op EXCEPT !.at = "report", !.res = "other", !.prev = cl.state]
    BY <1>2, <2>1, <2>3 DEF Ops
  <2>4. QED  BY <2>2, <2>3, Zenon DEF Attempt, Begin
<1>8. CountsTyped' /\ Planned' /\ Called' /\ Told' /\ Telling' /\ Waited' /\ Unique'
  <2>1. op.call = 0 => /\ op.name \in {"new", "reconnect"} => op'.todo \in Handshakes
                       /\ op.name \in {"list", "read"} => op'.todo = op.todo
    BY <1>1, <1>2, <1>7 DEF Planned
  <2>2. QED  BY <1>1, <1>2, <1>3, <1>6, <1>7, <2>1, Proceeds
<1>9. ClientTyped' /\ WireTyped' /\ Catalogued'
  BY <1>1, <1>2, <1>3, <1>4, <1>7 DEF ClientTyped, WireTyped, Catalogued
<1>10. Numbered'
  <2>1. tr.next_id \in Nat
    BY <1>2 DEF Transports
  <2>2. \A m \in Said : m.id \in Nat /\ m.id < tr.next_id
    <3>1. \A m \in Said : m \in Messages
      BY <1>1, Heard DEF WireTyped
    <3>2. QED  BY <1>1, <3>1 DEF Numbered, Messages
  <2>3. Said' = Said
    BY <1>3 DEF Said
  <2>4. QED  BY <1>7, <2>1, <2>2, <2>3 DEF Numbered, Reply, SameId
<1>11. TableTyped' /\ Admitted' /\ Tabled'
  BY <1>1, <1>3, SessionsStay
<1>12. QED  BY <1>8, <1>9, <1>10, <1>11 DEF McpInv

(* What becomes of the client when its operation fails.                    *)
LEMMA FailedOps ==
    ASSUME cl \in Clients, tr \in Transports, serving \subseteq Served,
           NEW state \in {"New", "Ready", "Failed", "Closed"}, FailedOp(state)
    PROVE  /\ cl' \in Clients /\ cl'.tools = cl.tools
           /\ tr' \in Transports /\ tr'.next_id = tr.next_id
           /\ serving' \subseteq Served /\ serving \subseteq serving'
           /\ \A q \in serving' : q \in serving \/ (q.pc = "arrive" /\ ~q.mine /\ q.call = 0)
<1>1. \E s \in {"New", "Ready", "Failed", "Closed"} : cl' = [cl EXCEPT !.state = s]
  BY Zenon DEF FailedOp
<1>2. cl' \in Clients /\ cl'.tools = cl.tools
  BY <1>1 DEF Clients
<1>3. \/ tr' = ClosedTransport /\ serving' = serving \cup DeleteSession
      \/ tr' = tr /\ serving' = serving
  BY DEF FailedOp
<1>4. QED  BY <1>2, <1>3, Deletes

(* The audit hook fails before the attempt.                                *)
LEMMA AttemptFailsKeeps ==
    ASSUME McpInv, AttemptFails
    PROVE  McpInv'
<1>1. cl \in Clients /\ tr \in Transports /\ serving \subseteq Served /\ spent \in Spending
  BY DEF McpInv, ClientTyped, WireTyped, CountsTyped
<1>2. op # None /\ op.at = "audit" /\ op' = None /\ Tell(op.call, "failed")
  BY DEF AttemptFails
<1>3. spent' \in Spending /\ spent'.calls = spent.calls
  BY <1>1, Faults DEF AttemptFails
<1>4. cl.state \in {"New", "Ready", "Failed", "Closed"} /\ FailedOp(cl.state)
  BY <1>1 DEF AttemptFails, Clients
<1>5. UNCHANGED <<defs, drifted, catalog, line, inbox, bind, owner, down, ran>>
  BY DEF AttemptFails
<1>6. QED  BY <1>1, <1>2, <1>3, <1>4, <1>5, FailedOps, GivesUp

(* Destination or credentials fail: nothing was sent.                      *)
LEMMA NotPreparedKeeps ==
    ASSUME McpInv, NotPrepared
    PROVE  McpInv'
<1>1. /\ ClientTyped /\ WireTyped /\ TableTyped /\ CountsTyped /\ Planned /\ Called
      /\ Catalogued /\ Admitted /\ Tabled /\ Numbered /\ Waited /\ Unique /\ Told /\ Telling
  BY DEF McpInv
<1>2. op # None /\ op \in Ops /\ op.at = "prepare" /\ tr \in Transports /\ spent \in Spending
  BY <1>1 DEF NotPrepared, ClientTyped, CountsTyped
<1>3. UNCHANGED <<cl, defs, drifted, catalog, line, inbox, serving, bind, owner, down, outcome, ran>>
  BY DEF NotPrepared, server
<1>4. spent' \in Spending /\ spent'.calls = spent.calls
  BY <1>2, Faults DEF NotPrepared
<1>5. /\ op' \in Ops /\ op'.name = op.name /\ op'.call = op.call /\ op'.todo = op.todo
      /\ op'.old = op.old /\ op'.at = "report" /\ op'.res \in {"policy", "other"}
  <2>1. \E res \in {"policy", "other"} : op' = [op EXCEPT !.at = "report", !.res = res]
    BY DEF NotPrepared, Returned
  <2>2. QED  BY <1>2, <2>1 DEF Ops
<1>6. tr' \in Transports /\ tr'.next_id = tr.next_id
  <2>1. tr' = [tr EXCEPT !.poisoned = FALSE]
    BY DEF NotPrepared
  <2>2. QED  BY <1>2, <2>1 DEF Transports
<1>7. CountsTyped' /\ Planned' /\ Called' /\ Told' /\ Telling' /\ Waited' /\ Unique'
  <2>1. op.call = 0 => /\ op.name \in {"new", "reconnect"} => op'.todo \in Handshakes
                       /\ op.name \in {"list", "read"} => op'.todo = op.todo
    BY <1>1, <1>2, <1>5 DEF Planned
  <2>2. QED  BY <1>1, <1>2, <1>3, <1>4, <1>5, <2>1, Proceeds
<1>8. ClientTyped' /\ WireTyped' /\ Catalogued' /\ Numbered'
  BY <1>1, <1>2, <1>3, <1>5, <1>6 DEF ClientTyped, WireTyped, Catalogued, Numbered, Said
<1>9. TableTyped' /\ Admitted' /\ Tabled'
  BY <1>1, <1>3, SessionsStay
<1>10. QED  BY <1>7, <1>8, <1>9 DEF McpInv

(* The request is written, or a notification is, which has no answer.      *)
LEMMA DispatchKeeps ==
    ASSUME McpInv, Dispatch
    PROVE  McpInv'
<1>1. /\ ClientTyped /\ WireTyped /\ TableTyped /\ CountsTyped /\ Planned /\ Called
      /\ Catalogued /\ Admitted /\ Tabled /\ Numbered /\ Waited /\ Unique /\ Told /\ Telling
  BY DEF McpInv
<1>2. /\ op # None /\ op \in Ops /\ op.at = "prepare" /\ tr \in Transports /\ spent \in Spending
      /\ op.call \in Nat /\ op.id \in Nat
  BY <1>1 DEF Dispatch, ClientTyped, CountsTyped, Ops
<1>3. UNCHANGED <<cl, defs, drifted, line, catalog, bind, owner, down, outcome, ran, spent>>
  BY DEF Dispatch
<1>4. /\ Method \in Methods
      /\ op.call # 0 => Method = "tools/call"
  BY <1>1, <1>2, Exchanges
<1>5. op.call # 0 => op.call \in Calls /\ ran[op.call] = 0 /\ ~Pending(op.call) /\ outcome[op.call] = "none"
  BY <1>1, <1>2, Bounds DEF Telling, Told, Planned, Called, Calls
<1>6. \A r \in Posted : ~r.mine
  BY <1>1, <1>2 DEF Waited
<1>7. Said' = Said /\ \A m \in Said : ~Reply(m)
  BY <1>1, <1>2, <1>3 DEF Said, Numbered
<1>8. CASE kind # "http" /\ Notifies
  <2>1. UNCHANGED <<inbox, serving>>
    BY <1>8 DEF Dispatch
  <2>2. op.call = 0
    BY <1>4, <1>8 DEF Notifies
  <2>3. /\ op' \in Ops /\ op'.name = op.name /\ op'.call = op.call /\ op'.todo = op.todo
        /\ op'.old = op.old /\ op'.at = "report" /\ op'.res = "ok"
    <3>1. op' = [op EXCEPT !.at = "report", !.res = "ok"]
      BY <1>8 DEF Dispatch, Returned
    <3>2. QED  BY <1>2, <3>1 DEF Ops
  <2>4. tr' \in Transports /\ tr'.next_id = tr.next_id
    <3>1. tr' = [tr EXCEPT !.poisoned = FALSE]
      BY <1>8 DEF Dispatch
    <3>2. QED  BY <1>2, <3>1 DEF Transports
  <2>5. ClientTyped' /\ WireTyped' /\ CountsTyped' /\ Catalogued' /\ Numbered'
    BY <1>1, <1>2, <1>3, <2>1, <2>3, <2>4
    DEF ClientTyped, WireTyped, CountsTyped, Catalogued, Numbered, Said
  <2>6. Planned' /\ Called' /\ Unique'
    BY <1>1, <1>2, <1>3, <2>1, <2>3 DEF Planned, Called, Unique, Posted
  <2>7. Waited'
    BY <1>6, <2>1 DEF Waited, Posted
  <2>8. Told'
    <3>1. \A n \in Calls : Pending(n)' <=> Pending(n)
      BY <2>1 DEF Pending, Posted
    <3>2. \A n \in Calls : ~(Pending(n) /\ outcome[n] = "none")
      BY <1>1, <1>2, <2>2, Bounds DEF Told, Calls
    <3>3. QED  BY <1>1, <1>3, <3>1, <3>2 DEF Told
  <2>9. Telling'
    BY <2>2, <2>3 DEF Telling
  <2>10. TableTyped' /\ Admitted' /\ Tabled'
    BY <1>1, <1>3, <2>1, SessionsStay
  <2>11. QED  BY <2>5, <2>6, <2>7, <2>8, <2>9, <2>10 DEF McpInv
<1>9. CASE ~(kind # "http" /\ Notifies)
  <2>1. /\ op' \in Ops /\ op'.name = op.name /\ op'.call = op.call /\ op'.todo = op.todo
        /\ op'.old = op.old /\ op'.at = "wait" /\ op'.id = op.id /\ op'.res = op.res
    <3>1. op' = [op EXCEPT !.at = "wait"]
      BY <1>9 DEF Dispatch
    <3>2. QED  BY <1>2, <3>1 DEF Ops
  <2>2. tr' = tr
    BY <1>9 DEF Dispatch
  <2>3. PICK q : /\ Posted' = Posted \cup {q} /\ q.mine /\ q.call = op.call
                 /\ inbox' \subseteq Letters /\ serving' \subseteq Served
                 /\ \A r \in serving' : r \in serving \/ (r = q /\ q.pc = "arrive" /\ q.method = Method /\ q.left = 1)
                 /\ \A r \in inbox' : r \in inbox \/ (r = q /\ r.id = op.id)
    <3>1. CASE kind = "http"
      <4> DEFINE q == ServerRequest(TRUE, Me, tr.session, Method, 1, op.call)
      <4>1. tr.session \in Sids \cup {None}
        BY <1>2 DEF Transports
      <4>2. /\ q \in Served /\ q.mine /\ q.call = op.call /\ q.pc = "arrive"
            /\ q.method = Method /\ q.left = 1
        BY <1>2, <1>4, <4>1, Bounds DEF ServerRequest, Served
      <4>3. serving' = serving \cup {q} /\ inbox' = inbox
        BY <3>1 DEF Dispatch
      <4> HIDE DEF q
      <4>4. QED  BY <1>1, <4>2, <4>3 DEF WireTyped, Posted
    <3>2. CASE kind # "http"
      <4> DEFINE q == [mine |-> TRUE, id |-> op.id, call |-> op.call]
      <4>1. q \in Letters /\ q.mine /\ q.call = op.call /\ q.id = op.id
        BY <1>2 DEF Letters
      <4>2. inbox' = inbox \cup {q} /\ serving' = serving
        BY <1>9, <3>2 DEF Dispatch
      <4> HIDE DEF q
      <4>3. QED  BY <1>1, <4>1, <4>2 DEF WireTyped, Posted
    <3>3. QED  BY <3>1, <3>2
  <2>4. ClientTyped' /\ WireTyped' /\ CountsTyped' /\ Catalogued'
    BY <1>1, <1>2, <1>3, <2>1, <2>2, <2>3
    DEF ClientTyped, WireTyped, CountsTyped, Catalogued
  <2>5. Planned' /\ Numbered'
    BY <1>1, <1>2, <1>3, <1>7, <2>1, <2>2 DEF Planned, Numbered
  <2>6. Called'
    BY <1>1, <1>2, <1>3, <1>4, <2>3 DEF Called, Planned
  <2>7. Unique'
    BY <1>1, <1>5, <2>3 DEF Unique, Pending
  <2>8. Waited'
    <3>1. \A m \in Said' : ~Reply(m)'
      BY <1>7, <2>1 DEF Reply, SameId
    <3>2. \A r \in Posted' : r.mine => r = q
      BY <1>6, <2>3
    <3>3. \A r \in inbox' : r.mine => r.id = op'.id
      BY <1>6, <2>1, <2>3 DEF Posted
    <3>4. op' # None
      BY <2>1, NoneAssumption
    <3>5. QED  BY <1>2, <2>1, <2>3, <3>1, <3>2, <3>3, <3>4 DEF Waited
  <2>9. Told'
    <3>1. \A n \in Calls : n # op.call => (Pending(n)' <=> Pending(n))
      BY <2>3 DEF Pending
    <3>2. \A n \in Calls : ~(Pending(n) /\ outcome[n] = "none")
      BY <1>1, <1>2, Bounds DEF Told, Calls
    <3>3. op.call # 0 => op.call <= spent.calls
      BY <1>1, <1>2 DEF Planned
    <3>4. \A n \in Calls : n # 0 /\ ran[n] \in Nat
      BY <1>1, Bounds DEF CountsTyped, Calls
    <3>5. ASSUME NEW n \in Calls, n # op.call
          PROVE  /\ n > spent'.calls => outcome'[n] = "none" /\ ran'[n] = 0
                 /\ ran'[n] <= 1
                 /\ Pending(n)' => ran'[n] = 0 /\ outcome'[n] \in {"none", "unknown"}
                 /\ ~(Pending(n)' /\ outcome'[n] = "none")
                 /\ outcome'[n] = "failed" => ran'[n] = 0
                 /\ outcome'[n] = "completed" => ran'[n] = 1
      BY <1>1, <1>3, <3>1, <3>2, <3>5 DEF Told
    <3>6. ASSUME NEW n \in Calls, n = op.call
          PROVE  /\ outcome'[n] = "none" /\ ran'[n] = 0 /\ n <= spent'.calls
                 /\ op' # None => op'.call = n /\ op'.at = "wait"
      BY <1>3, <1>5, <2>1, <3>3, <3>4, <3>6
    <3>7. op' # None
      BY <2>1, NoneAssumption
    <3>8. QED  BY <3>5, <3>6, <3>7 DEF Told
  <2>10. Telling'
    <3>1. \A m \in Said' : ~Reply(m)'
      BY <1>7, <2>1 DEF Reply, SameId
    <3>2. QED  BY <1>3, <1>5, <2>1, <3>1 DEF Telling
  <2>11. TableTyped' /\ Admitted' /\ Tabled'
    BY <1>1, <1>3, <2>3, SessionsStay
  <2>12. QED
    BY <2>4, <2>5, <2>6, <2>7, <2>8, <2>9, <2>10, <2>11 DEF McpInv
<1>10. QED  BY <1>8, <1>9

(* Nobody waits any longer: the requests stay, and so does what is known.  *)
LEMMA Abandons ==
    ASSUME WireTyped, Called, Unique, TableTyped, Admitted, Tabled, Abandon,
           spent'.calls = spent.calls, UNCHANGED <<bind, owner, down>>
    PROVE  /\ inbox' \subseteq Letters /\ serving' \subseteq Served /\ Called' /\ Unique'
           /\ TableTyped' /\ Admitted' /\ Tabled'
           /\ \A r \in Posted' : ~r.mine
           /\ \A n \in Calls : Pending(n)' => Pending(n)
<1>1. /\ inbox \subseteq Letters /\ serving \subseteq Served
      /\ inbox' = Unwaited(inbox) /\ serving' = Unwaited(serving)
  BY DEF WireTyped, Abandon
<1>2. /\ inbox' \subseteq Letters
      /\ \A q \in inbox' : ~q.mine
      /\ \A q \in inbox' : \E r \in inbox : q = [r EXCEPT !.mine = FALSE] /\ q.call = r.call
  BY <1>1, AbandonedLetters
<1>3. /\ serving' \subseteq Served
      /\ \A q \in serving' : ~q.mine
      /\ \A q \in serving' : \E r \in serving :
            /\ q = [r EXCEPT !.mine = FALSE]
            /\ q.call = r.call /\ q.sid = r.sid /\ q.tenant = r.tenant /\ q.pc = r.pc
            /\ q.method = r.method /\ q.left = r.left
  BY <1>1, AbandonedServed
<1>4. \A q \in Posted' : \E r \in Posted : q = [r EXCEPT !.mine = FALSE] /\ q.call = r.call
  BY <1>2, <1>3, Zenon DEF Posted
<1>5. Unique'
  <2>1. SUFFICES ASSUME NEW p \in Posted', NEW q \in Posted', p.call = q.call, p.call # 0
                 PROVE  p = q
    BY DEF Unique
  <2>2. PICK r \in Posted : p = [r EXCEPT !.mine = FALSE] /\ p.call = r.call
    BY <1>4
  <2>3. PICK s \in Posted : q = [s EXCEPT !.mine = FALSE] /\ q.call = s.call
    BY <1>4
  <2>4. r = s
    BY <2>1, <2>2, <2>3 DEF Unique
  <2>5. QED  BY <2>2, <2>3, <2>4
<1>6. Called'
  <2>1. \A r \in Posted' : r.call \in 0..spent'.calls
    BY <1>4 DEF Called
  <2>2. QED  BY <1>3, <2>1 DEF Called
<1>7. TableTyped' /\ Admitted' /\ Tabled'
  <2>1. \A q \in serving' : \E r \in serving : r.pc = q.pc /\ r.sid = q.sid /\ r.tenant = q.tenant
    BY <1>3
  <2>2. QED  BY <2>1, SessionsStay
<1>8. \A n \in Calls : Pending(n)' => Pending(n)
  BY <1>4, Zenon DEF Pending
<1>9. \A r \in Posted' : ~r.mine
  BY <1>2, <1>3 DEF Posted
<1>10. QED  BY <1>2, <1>3, <1>5, <1>6, <1>7, <1>8, <1>9

(* The exchange breaks off after it may have been sent.                    *)
LEMMA BreaksOff ==
    ASSUME McpInv, op # None, op.at \in {"prepare", "wait"}, Returned("unknown"), line' = <<>>,
           Abandon, spent' \in Spending, spent'.calls = spent.calls,
           UNCHANGED <<cl, defs, drifted, tr, catalog, bind, owner, down, outcome, ran>>
    PROVE  McpInv'
<1>1. /\ ClientTyped /\ WireTyped /\ TableTyped /\ CountsTyped /\ Planned /\ Called
      /\ Catalogued /\ Admitted /\ Tabled /\ Numbered /\ Waited /\ Unique /\ Told /\ Telling
  BY DEF McpInv
<1>2. op \in Ops
  BY <1>1 DEF ClientTyped
<1>3. /\ op' \in Ops /\ op'.name = op.name /\ op'.call = op.call /\ op'.todo = op.todo
      /\ op'.old = op.old /\ op'.at = "report" /\ op'.res = "unknown" /\ op' # None
  <2>1. op' = [op EXCEPT !.at = "report", !.res = "unknown"]
    BY DEF Returned
  <2>2. /\ op' \in Ops /\ op'.name = op.name /\ op'.call = op.call /\ op'.todo = op.todo
        /\ op'.old = op.old /\ op'.at = "report" /\ op'.res = "unknown"
    BY <1>2, <2>1 DEF Ops
  <2>3. QED  BY <2>2, NoneAssumption
<1>4. /\ inbox' \subseteq Letters /\ serving' \subseteq Served /\ Called' /\ Unique'
      /\ TableTyped' /\ Admitted' /\ Tabled'
      /\ \A r \in Posted' : ~r.mine
      /\ \A n \in Calls : Pending(n)' => Pending(n)
  BY <1>1, Abandons
<1>5. WireTyped' /\ Said' = {}
  BY <1>4, Silent DEF WireTyped, Said
<1>6. ClientTyped' /\ CountsTyped' /\ Catalogued' /\ Planned'
  BY <1>1, <1>3 DEF ClientTyped, CountsTyped, Catalogued, Planned
<1>7. Numbered' /\ Waited'
  BY <1>3, <1>4, <1>5 DEF Numbered, Waited, Posted
<1>8. Told'
  BY <1>1, <1>3, <1>4 DEF Told
<1>9. Telling'
  BY <1>1, <1>3 DEF Telling
<1>10. QED
  BY <1>4, <1>5, <1>6, <1>7, <1>8, <1>9 DEF McpInv

(* Time runs out or the connection breaks.                                 *)
LEMMA TimeoutKeeps ==
    ASSUME McpInv, Timeout
    PROVE  McpInv'
<1>1. spent' \in Spending /\ spent'.calls = spent.calls
  BY Faults DEF Timeout, McpInv, CountsTyped
<1>2. QED  BY <1>1, BreaksOff DEF Timeout

(* The caller goes away.                                                   *)
LEMMA DroppedKeeps ==
    ASSUME McpInv, Dropped
    PROVE  McpInv'
<1>1. /\ ClientTyped /\ WireTyped /\ TableTyped /\ CountsTyped /\ Planned /\ Called
      /\ Catalogued /\ Admitted /\ Tabled /\ Numbered /\ Waited /\ Unique /\ Told /\ Telling
  BY DEF McpInv
<1>2. op # None /\ op' = None /\ Tell(op.call, "unknown") /\ line' = <<>> /\ Abandon
  BY DEF Dropped
<1>3. UNCHANGED <<defs, drifted, tr, catalog, bind, owner, down, ran>>
  BY DEF Dropped
<1>4. spent' \in Spending /\ spent'.calls = spent.calls
  BY <1>1, Faults DEF Dropped, CountsTyped
<1>5. cl' \in Clients /\ cl'.tools = cl.tools
  <2>1. cl \in Clients /\ (cl' = cl \/ cl' = [cl EXCEPT !.state = "Closed"])
    BY <1>1 DEF Dropped, ClientTyped
  <2>2. QED  BY <2>1 DEF Clients
<1>6. /\ inbox' \subseteq Letters /\ serving' \subseteq Served /\ Called' /\ Unique'
      /\ TableTyped' /\ Admitted' /\ Tabled'
      /\ \A r \in Posted' : ~r.mine
      /\ \A n \in Calls : Pending(n)' => Pending(n)
  BY <1>1, <1>2, <1>3, <1>4, Abandons
<1>7. WireTyped' /\ Said' = {}
  BY <1>2, <1>6, Silent DEF WireTyped, Said
<1>8. ClientTyped' /\ Catalogued'
  BY <1>1, <1>2, <1>3, <1>5 DEF ClientTyped, Catalogued
<1>9. CountsTyped' /\ Planned' /\ Told' /\ Telling'
  BY <1>1, <1>2, <1>3, <1>4, <1>6, Ends
<1>10. Numbered' /\ Waited'
  BY <1>2, <1>6, <1>7 DEF Numbered, Waited, Posted
<1>11. QED
  BY <1>6, <1>7, <1>8, <1>9, <1>10 DEF McpInv

(* One message is read.                                                    *)
LEMMA IncomingKeeps ==
    ASSUME McpInv, Incoming
    PROVE  McpInv'
<1>1. /\ ClientTyped /\ WireTyped /\ TableTyped /\ CountsTyped /\ Planned /\ Called
      /\ Catalogued /\ Admitted /\ Tabled /\ Numbered /\ Waited /\ Unique /\ Told /\ Telling
  BY DEF McpInv
<1>2. op # None /\ op \in Ops /\ op.at = "wait" /\ tr \in Transports /\ spent \in Spending
  BY <1>1 DEF Incoming, ClientTyped, CountsTyped
<1>3. UNCHANGED <<cl, defs, drifted, catalog, bind, owner, down, outcome, ran, spent>>
  BY DEF Incoming
<1> DEFINE m == Head(line)
<1>4. /\ Tail(line) \in Seq(Messages) /\ Values(Tail(line)) \subseteq Said
      /\ m \in Messages /\ m \in Said
  BY <1>1, Taken DEF Incoming, WireTyped, Said
<1>5. CASE /\ op' = [op EXCEPT !.seen = @ + 1] /\ line' = Tail(line)
           /\ UNCHANGED <<tr, inbox, serving>>
  <2>1. /\ op' \in Ops /\ op'.name = op.name /\ op'.call = op.call /\ op'.todo = op.todo
        /\ op'.old = op.old /\ op'.at = op.at /\ op'.id = op.id /\ op'.res = op.res
    BY <1>2, <1>5 DEF Ops
  <2>2. Said' \subseteq Said /\ line' \in Seq(Messages) /\ op' # None
    BY <1>4, <1>5, <2>1, NoneAssumption DEF Said
  <2>3. ClientTyped' /\ WireTyped' /\ CountsTyped' /\ Catalogued' /\ Planned'
    BY <1>1, <1>2, <1>3, <1>5, <2>1, <2>2
    DEF ClientTyped, WireTyped, CountsTyped, Catalogued, Planned
  <2>4. \A x : Reply(x)' <=> Reply(x)
    BY <2>1 DEF Reply, SameId
  <2>5. Numbered'
    BY <1>1, <1>2, <1>5, <2>1, <2>2 DEF Numbered
  <2>6. Called' /\ Unique'
    BY <1>1, <1>3, <1>5 DEF Called, Unique, Posted
  <2>7. Waited'
    BY <1>1, <1>5, <2>1, <2>2, <2>4 DEF Waited, Posted
  <2>8. Told'
    BY <1>1, <1>3, <1>5, <2>1, <2>2 DEF Told, Pending, Posted
  <2>9. Telling'
    <3>1. Pending(op.call)' <=> Pending(op.call)
      BY <1>5 DEF Pending, Posted
    <3>2. QED  BY <1>1, <1>2, <1>3, <2>1, <2>2, <2>4, <3>1 DEF Telling
  <2>10. TableTyped' /\ Admitted' /\ Tabled'
    BY <1>1, <1>3, <1>5, SessionsStay
  <2>11. QED
    BY <2>3, <2>5, <2>6, <2>7, <2>8, <2>9, <2>10 DEF McpInv
<1>6. CASE /\ Answers(m)
           /\ tr' = [tr EXCEPT !.poisoned = FALSE, !.session = accept_session(m)]
           /\ Returned(IF m.kind = "error" THEN "remote" ELSE IF m.valid THEN "ok" ELSE "unknown")
           /\ line' = Tail(line) /\ UNCHANGED <<inbox, serving>>
  <2>1. /\ op' \in Ops /\ op'.name = op.name /\ op'.call = op.call /\ op'.todo = op.todo
        /\ op'.old = op.old /\ op'.at = "report" /\ op'.res \in {"remote", "ok", "unknown"}
        /\ op'.res = "ok" => m.kind # "error"
        /\ op'.res = "remote" => m.kind = "error"
    <3>1. PICK res \in {"remote", "ok", "unknown"} :
             /\ op' = [op EXCEPT !.at = "report", !.res = res]
             /\ res = "ok" => m.kind # "error"
             /\ res = "remote" => m.kind = "error"
      <4> HIDE DEF m
      <4>1. CASE m.kind = "error"
        BY <1>6, <4>1 DEF Returned
      <4>2. CASE m.kind # "error" /\ m.valid
        BY <1>6, <4>2 DEF Returned
      <4>3. CASE m.kind # "error" /\ ~m.valid
        BY <1>6, <4>3 DEF Returned
      <4>4. QED  BY <4>1, <4>2, <4>3
    <3>2. QED  BY <1>2, <3>1 DEF Ops
  <2>2. tr' \in Transports /\ tr'.next_id = tr.next_id
    <3>1. accept_session(m) \in Sids \cup {None}
      BY <1>2, <1>4 DEF accept_session, Messages, Transports
    <3>2. PICK s \in Sids \cup {None} : tr' = [tr EXCEPT !.poisoned = FALSE, !.session = s]
      BY <1>6, <3>1
    <3>3. QED  BY <1>2, <3>2 DEF Transports
  <2>3. Said' \subseteq Said /\ line' \in Seq(Messages) /\ op' # None
    BY <1>4, <1>6, <2>1, NoneAssumption DEF Said
  <2>4. Reply(m)
    BY <1>6 DEF Answers, Reply
  <2>5. \A r \in Posted : ~r.mine
    BY <1>1, <1>4, <2>4 DEF Waited
  <2>6. op.call # 0 => /\ outcome[op.call] = "none" /\ ~Pending(op.call)
                       /\ ran[op.call] = IF m.kind = "result" THEN 1 ELSE 0
    BY <1>1, <1>2, <1>4, <2>4 DEF Telling
  <2> HIDE DEF m
  <2>7. ClientTyped' /\ WireTyped' /\ CountsTyped' /\ Catalogued' /\ Planned'
    BY <1>1, <1>2, <1>3, <1>6, <2>1, <2>2, <2>3
    DEF ClientTyped, WireTyped, CountsTyped, Catalogued, Planned
  <2>8. Numbered'
    BY <1>1, <2>1, <2>2, <2>3 DEF Numbered
  <2>9. Called' /\ Unique'
    BY <1>1, <1>3, <1>6 DEF Called, Unique, Posted
  <2>10. Waited'
    BY <1>6, <2>5 DEF Waited, Posted
  <2>11. Told'
    <3>1. \A n \in Calls : Pending(n)' <=> Pending(n)
      BY <1>6 DEF Pending, Posted
    <3>2. \A n \in Calls : ~(Pending(n) /\ outcome[n] = "none")
      BY <1>1, <2>6, Bounds DEF Told, Calls
    <3>3. QED  BY <1>1, <1>3, <3>1, <3>2 DEF Told
  <2>12. Telling'
    <3>1. m.kind \in {"result", "error"}
      BY <2>4 DEF Reply
    <3>2. QED  BY <1>3, <2>1, <2>6, <3>1 DEF Telling
  <2>13. TableTyped' /\ Admitted' /\ Tabled'
    BY <1>1, <1>3, <1>6, SessionsStay
  <2>14. QED
    BY <2>7, <2>8, <2>9, <2>10, <2>11, <2>12, <2>13 DEF McpInv
<1>7. CASE Returned("unknown") /\ line' = <<>> /\ Abandon /\ UNCHANGED tr
  BY <1>2, <1>3, <1>7, BreaksOff
<1>8. QED  BY <1>5, <1>6, <1>7, Zenon DEF Incoming

-----------------------------------------------------------------------------
(* The end of an operation.                                                *)

(* The operation ends with a report to its caller.                         *)
LEMMA Concludes ==
    ASSUME McpInv, op # None, op.at = "report", op' = None,
           NEW what \in {"failed", "completed", "unknown"}, Tell(op.call, what),
           op.call # 0 => /\ what = "failed" => op.res \in {"remote", "policy", "other"}
                          /\ what = "completed" => op.res = "ok",
           cl' \in Clients, defs' \in Catalogs \cup {None}, drifted' \in BOOLEAN, catalog' = catalog,
           cl'.tools = None \/ drifted' \/ cl'.tools = defs',
           tr' \in Transports, tr'.next_id = tr.next_id,
           serving' \subseteq Served, serving \subseteq serving',
           \A q \in serving' : q \in serving \/ (q.pc = "arrive" /\ ~q.mine /\ q.call = 0),
           spent' \in Spending, spent'.calls = spent.calls,
           UNCHANGED <<line, inbox, bind, owner, down, ran>>
    PROVE  McpInv'
<1>1. /\ ClientTyped /\ WireTyped /\ TableTyped /\ CountsTyped /\ Planned /\ Called
      /\ Catalogued /\ Admitted /\ Tabled /\ Numbered /\ Waited /\ Unique /\ Told /\ Telling
  BY DEF McpInv
<1>2. ClientTyped' /\ WireTyped' /\ Catalogued'
  BY <1>1 DEF ClientTyped, WireTyped, Catalogued
<1>3. TableTyped' /\ Admitted' /\ Tabled'
  BY <1>1, SessionsStay
<1>4. Called' /\ Unique'
  BY <1>1 DEF Called, Unique, Posted
<1>5. \A n \in Calls : Pending(n)' => Pending(n)
  BY DEF Pending, Posted, Calls
<1>6. op.call # 0 => /\ what = "failed" => ran[op.call] = 0 /\ ~Pending(op.call)
                     /\ what = "completed" => ran[op.call] = 1
  <2>1. op.call # 0 => op.call \in Calls
    BY <1>1, Bounds DEF Planned, Called, Calls, ClientTyped, Ops
  <2>2. QED  BY <1>1, <2>1 DEF Telling, Told
<1>7. CountsTyped' /\ Planned' /\ Told' /\ Telling'
  BY <1>1, <1>5, <1>6, Ends
<1>8. Numbered' /\ Waited'
  BY <1>1 DEF Numbered, Waited, Posted, Said
<1>9. QED
  BY <1>2, <1>3, <1>4, <1>7, <1>8 DEF McpInv

(* What the last exchange of an operation does to client and manager.      *)
LEMMA Succeeds ==
    ASSUME McpInv, op # None, op \in Ops, Succeed
    PROVE  /\ cl' \in Clients /\ defs' \in Catalogs \cup {None} /\ drifted' \in BOOLEAN
           /\ cl'.tools = None \/ drifted' \/ cl'.tools = defs'
           /\ tr' \in Transports /\ tr'.next_id = tr.next_id
           /\ serving' \subseteq Served /\ serving \subseteq serving'
           /\ \A q \in serving' : q \in serving \/ (q.pc = "arrive" /\ ~q.mine /\ q.call = 0)
<1>1. /\ ClientTyped /\ cl \in Clients /\ tr \in Transports /\ serving \subseteq Served
      /\ catalog \in Catalogs /\ defs \in Catalogs \cup {None} /\ drifted \in BOOLEAN
      /\ Catalogued /\ Planned
  BY DEF McpInv, ClientTyped, WireTyped
<1>2. CASE /\ Method = "tools/list" /\ (op.name = "new" \/ CatalogKept(op.old))
           /\ cl' = [cl EXCEPT !.tools = catalog, !.state = "Ready"]
           /\ defs' = IF op.name = "new" THEN catalog ELSE defs
           /\ UNCHANGED <<drifted, tr, serving>>
  <2>1. cl' \in Clients /\ cl'.tools = catalog
    BY <1>1, <1>2 DEF Clients
  <2>2. op.name \in {"new", "reconnect"}
    BY <1>1, <1>2, Exchanges
  <2>3. drifted \/ catalog = defs'
    <3>1. CASE op.name = "new"
      BY <1>2, <3>1
    <3>2. CASE op.name # "new"
      BY <1>1, <1>2, <2>2, <3>2, Bounds DEF Catalogued, CatalogKept
    <3>3. QED  BY <3>1, <3>2
  <2>4. defs' \in Catalogs \cup {None}
    BY <1>1, <1>2
  <2>5. QED  BY <1>1, <1>2, <2>1, <2>3, <2>4
<1>3. CASE /\ cl' = [cl EXCEPT !.tools = catalog, !.state = "Closed"]
           /\ tr' = ClosedTransport /\ serving' = serving \cup DeleteSession
           /\ drifted' = TRUE /\ UNCHANGED defs
  <2>1. cl' \in Clients
    BY <1>1, <1>3 DEF Clients
  <2>2. QED  BY <1>1, <1>3, <2>1, Deletes
<1>4. CASE /\ cl' = [cl EXCEPT !.state = "Ready",
                               !.cached = IF Method = "list" THEN @ \cup {op.what} ELSE @]
           /\ UNCHANGED <<drifted, defs, tr, serving>>
  <2>1. op.what \in {"tools", "resources", "prompts"}
    BY DEF Ops
  <2> DEFINE c == IF Method = "list" THEN cl.cached \cup {op.what} ELSE cl.cached
  <2>2. c \subseteq {"tools", "resources", "prompts"}
    BY <1>1, <2>1 DEF Clients
  <2>3. cl' = [cl EXCEPT !.state = "Ready", !.cached = c]
    BY <1>4
  <2> HIDE DEF c
  <2>4. cl' \in Clients /\ cl'.tools = cl.tools
    BY <1>1, <2>2, <2>3 DEF Clients
  <2>5. QED  BY <1>1, <1>4, <2>4 DEF Catalogued
<1>5. QED  BY <1>2, <1>3, <1>4, Zenon DEF Succeed

(* The next page, or the next exchange of a handshake.                     *)
LEMMA ContinueKeeps ==
    ASSUME McpInv, op # None, op.at = "report", Continue,
           UNCHANGED <<line, inbox, catalog, bind, owner, down, ran, spent>>
    PROVE  McpInv'
<1>1. /\ ClientTyped /\ WireTyped /\ TableTyped /\ CountsTyped /\ Planned /\ Called
      /\ Catalogued /\ Admitted /\ Tabled /\ Numbered /\ Waited /\ Unique /\ Told /\ Telling
  BY DEF McpInv
<1>2. op \in Ops /\ cl \in Clients /\ spent \in Spending
  BY <1>1 DEF ClientTyped, CountsTyped
<1>3. UNCHANGED <<drifted, defs, tr, serving, outcome>>
  BY DEF Continue
<1>4. cl' \in Clients /\ cl'.tools = cl.tools
  <2>1. \E s \in {"Ready", "Failed"} : cl' = [cl EXCEPT !.state = s]
    BY Zenon DEF Continue
  <2>2. QED  BY <1>2, <2>1 DEF Clients
<1>5. /\ op.call # 0 => Method = "tools/call" /\ Len(op.todo) = 1
      /\ Len(op.todo) > 1 => op.name \in {"new", "reconnect"} /\ Tail(op.todo) \in Handshakes
  BY <1>1, <1>2, Exchanges
<1>6. op.call = 0
  <2>1. Listing \/ Len(op.todo) > 1
    BY Zenon DEF Continue
  <2>2. Len(op.todo) = 1 => ~(Len(op.todo) > 1)
    OBVIOUS
  <2>3. op.call # 0 => Len(op.todo) = 1 /\ ~Listing
    BY <1>5 DEF Listing
  <2>4. QED  BY <2>1, <2>2, <2>3, Zenon
<1>7. /\ op' \in Ops /\ op'.name = op.name /\ op'.call = op.call /\ op'.old = op.old
      /\ op'.at = "audit"
      /\ op.name \in {"new", "reconnect"} => op'.todo \in Handshakes
      /\ op.name \in {"list", "read"} => op'.todo = op.todo
  <2>1. CASE op' = [op EXCEPT !.at = "audit", !.pages = @ + 1]
    <3>1. /\ op' \in Ops /\ op'.name = op.name /\ op'.call = op.call /\ op'.old = op.old
          /\ op'.at = "audit" /\ op'.todo = op.todo
      <4>1. op.pages + 1 \in Nat
        BY <1>2 DEF Ops
      <4>2. PICK pages \in Nat : op' = [op EXCEPT !.at = "audit", !.pages = pages]
        BY <2>1, <4>1
      <4>3. QED  BY <1>2, <4>2 DEF Ops
    <3>2. QED  BY <1>1, <3>1 DEF Planned
  <2>2. CASE Len(op.todo) > 1 /\ op' = [op EXCEPT !.todo = Tail(@), !.at = "audit"]
    <3>1. PICK todo \in Handshakes : op' = [op EXCEPT !.todo = todo, !.at = "audit"]
      BY <1>5, <2>2
    <3>2. /\ op' \in Ops /\ op'.name = op.name /\ op'.call = op.call /\ op'.old = op.old
          /\ op'.at = "audit" /\ op'.todo = todo
      BY <1>2, <3>1 DEF Ops
    <3>3. QED  BY <1>5, <2>2, <3>1, <3>2
  <2>3. QED  BY <2>1, <2>2 DEF Continue
<1>8. CountsTyped' /\ Planned' /\ Called' /\ Told' /\ Telling' /\ Waited' /\ Unique'
  BY <1>1, <1>2, <1>3, <1>6, <1>7, Proceeds
<1>9. ClientTyped' /\ WireTyped' /\ Catalogued' /\ Numbered'
  BY <1>1, <1>3, <1>4, <1>7 DEF ClientTyped, WireTyped, Catalogued, Numbered, Said
<1>10. TableTyped' /\ Admitted' /\ Tabled'
  BY <1>1, <1>3, SessionsStay
<1>11. QED  BY <1>8, <1>9, <1>10 DEF McpInv

(* The outcome is audited.                                                 *)
LEMMA ReportKeeps ==
    ASSUME McpInv, Report
    PROVE  McpInv'
<1>1. /\ op # None /\ op \in Ops /\ op.at = "report" /\ Planned /\ Catalogued
      /\ cl \in Clients /\ tr \in Transports /\ serving \subseteq Served /\ spent \in Spending
      /\ defs \in Catalogs \cup {None} /\ drifted \in BOOLEAN
  BY DEF McpInv, ClientTyped, WireTyped, CountsTyped, Report
<1>2. UNCHANGED <<line, inbox, catalog, bind, owner, down, ran, spent>>
  BY DEF Report
<1>3. CASE Continue
  BY <1>1, <1>2, <1>3, ContinueKeeps
<1>4. CASE op.res = "ok" /\ Succeed /\ op' = None /\ Tell(op.call, Verdict("ok"))
  <2>1. Verdict("ok") = "completed"
    BY DEF Verdict
  <2>2. Tell(op.call, "completed")
    BY <1>4, <2>1
  <2>3. QED  BY <1>1, <1>2, <1>4, <2>2, Succeeds, Concludes
<1>5. CASE /\ op.res # "ok" \/ Listing \/ Method = "initialize"
           /\ FailedOp(IF op.res = "ok" /\ Listing THEN "Ready"
                       ELSE IF op.res # "ok" /\ Reusable(op.res) /\ ~Notifies THEN op.prev
                       ELSE "Failed")
           /\ op' = None /\ Tell(op.call, Verdict(op.res))
           /\ UNCHANGED <<drifted, defs>>
  <2>1. /\ cl' \in Clients /\ cl'.tools = cl.tools
        /\ tr' \in Transports /\ tr'.next_id = tr.next_id
        /\ serving' \subseteq Served /\ serving \subseteq serving'
        /\ \A q \in serving' : q \in serving \/ (q.pc = "arrive" /\ ~q.mine /\ q.call = 0)
    <3>1. op.prev \in {"New", "Ready", "Failed", "Closed"}
      BY <1>1 DEF Ops
    <3>2. \E s \in {"New", "Ready", "Failed", "Closed"} : FailedOp(s)
      BY <1>5, <3>1, Zenon
    <3>3. QED  BY <1>1, <3>2, FailedOps
  <2>2. op.res \in {"ok", "remote", "policy", "other", "unknown"}
    BY <1>1 DEF Ops, Planned
  <2>3. op.call # 0 => op.res # "ok"
    BY <1>1, <1>5, Exchanges DEF Listing
  <2>4. PICK what \in {"failed", "completed", "unknown"} :
           /\ Tell(op.call, what)
           /\ what = "failed" => op.res \in {"remote", "policy", "other"}
           /\ what = "completed" => op.res = "ok"
    <3>1. CASE op.res = "ok"
      <4>1. Verdict(op.res) = "completed"
        BY <3>1 DEF Verdict
      <4>2. QED  BY <1>5, <3>1, <4>1
    <3>2. CASE op.res = "unknown"
      <4>1. Verdict(op.res) = "unknown"
        BY <3>2 DEF Verdict
      <4>2. QED  BY <1>5, <3>2, <4>1
    <3>3. CASE op.res \notin {"ok", "unknown"}
      <4>1. Verdict(op.res) = "failed"
        BY <3>3 DEF Verdict
      <4>2. QED  BY <1>5, <2>2, <3>3, <4>1
    <3>4. QED  BY <3>1, <3>2, <3>3
  <2>5. cl'.tools = None \/ drifted' \/ cl'.tools = defs'
    BY <1>1, <1>5, <2>1 DEF Catalogued
  <2>6. QED  BY <1>1, <1>2, <1>5, <2>1, <2>4, <2>5, Concludes
<1>6. QED  BY <1>3, <1>4, <1>5, Zenon DEF Report

(* The audit of the outcome fails.                                         *)
LEMMA ReportFailsKeeps ==
    ASSUME McpInv, ReportFails
    PROVE  McpInv'
<1>1. /\ cl \in Clients /\ tr \in Transports /\ serving \subseteq Served /\ spent \in Spending
      /\ defs \in Catalogs \cup {None} /\ drifted \in BOOLEAN /\ Catalogued
  BY DEF McpInv, ClientTyped, WireTyped, CountsTyped
<1>2. op # None /\ op.at = "report" /\ op' = None /\ Tell(op.call, "unknown") /\ FailedOp("Failed")
  BY DEF ReportFails
<1>3. spent' \in Spending /\ spent'.calls = spent.calls
  BY <1>1, Faults DEF ReportFails
<1>4. UNCHANGED <<defs, drifted, catalog, line, inbox, bind, owner, down, ran>>
  BY DEF ReportFails
<1>5. /\ cl' \in Clients /\ cl'.tools = cl.tools
      /\ tr' \in Transports /\ tr'.next_id = tr.next_id
      /\ serving' \subseteq Served /\ serving \subseteq serving'
      /\ \A q \in serving' : q \in serving \/ (q.pc = "arrive" /\ ~q.mine /\ q.call = 0)
  BY <1>1, <1>2, FailedOps
<1>6. cl'.tools = None \/ drifted' \/ cl'.tools = defs'
  BY <1>1, <1>4, <1>5 DEF Catalogued
<1>7. QED  BY <1>1, <1>2, <1>3, <1>4, <1>5, <1>6, Concludes

-----------------------------------------------------------------------------
(* The peer.                                                               *)

(* A step of the peer leaves the client alone.                             *)
LEMMA ClientStays ==
    ASSUME ClientTyped, Planned, Catalogued, UNCHANGED <<cl, defs, drifted, op, tr, catalog>>,
           spent'.calls = spent.calls
    PROVE  ClientTyped' /\ Planned' /\ Catalogued'
BY DEF ClientTyped, Planned, Catalogued

(* A request is answered, refused or lost: it is gone, whoever waits for   *)
(* it gets at most one message m, and its call has run if m is a result,   *)
(* and has not if m is an error.                                           *)
LEMMA Settles ==
    ASSUME McpInv, NEW r \in Posted, NEW m,
           inbox' \subseteq inbox, serving' \subseteq serving, Posted' = Posted \ {r},
           r.mine => m \in Messages /\ m.id < tr.next_id,
           line' = line \/ (r.mine /\ line' = Append(line, m)),
           \/ ran' = ran
           \/ r.call # 0 /\ ran' = [ran EXCEPT ![r.call] = @ + 1],
           r.mine /\ r.call # 0 /\ line' # line =>
              /\ m.kind = "result" => ran' = [ran EXCEPT ![r.call] = @ + 1]
              /\ m.kind = "error" => ran' = ran,
           spent' \in Spending, spent'.calls = spent.calls,
           UNCHANGED <<op, tr, outcome>>
    PROVE  /\ WireTyped' /\ CountsTyped' /\ Called'
           /\ Numbered' /\ Waited' /\ Unique' /\ Told' /\ Telling'
<1>1. /\ ClientTyped /\ WireTyped /\ TableTyped /\ CountsTyped /\ Planned /\ Called
      /\ Catalogued /\ Admitted /\ Tabled /\ Numbered /\ Waited /\ Unique /\ Told /\ Telling
  BY DEF McpInv
<1>2. WireTyped'
  <2>1. line' \in Seq(Messages)
    BY <1>1, Written DEF WireTyped
  <2>2. QED  BY <1>1, <2>1 DEF WireTyped
<1>3. Said' = Said \/ (r.mine /\ line' # line /\ Said' = Said \cup {m})
  <2>1. CASE line' = line
    BY <2>1 DEF Said
  <2>2. CASE line' # line
    <3>1. line' = Append(line, m) /\ line \in Seq(Messages) /\ m \in Messages /\ r.mine
      BY <1>1, <2>2 DEF WireTyped
    <3>2. Values(Append(line, m)) = Values(line) \cup {m}
      BY <3>1, Written
    <3>3. QED  BY <2>2, <3>1, <3>2, Zenon DEF Said
  <2>3. QED  BY <2>1, <2>2
<1>4. r.call # 0 => r.call \in Calls /\ r.call <= spent.calls
  BY <1>1, Bounds DEF Called, Calls
<1>5. /\ ran' \in [Calls -> Nat]
      /\ \A n \in Calls : n # r.call => ran'[n] = ran[n]
      /\ r.call # 0 => /\ ran'[r.call] \in {0, 1}
                       /\ ran' = ran => ran'[r.call] = 0
                       /\ ran' = [ran EXCEPT ![r.call] = @ + 1] => ran'[r.call] = 1
  <2>1. ran \in [Calls -> Nat]
    BY <1>1 DEF CountsTyped
  <2>2. r.call # 0 => ran[r.call] = 0
    BY <1>1, <1>4 DEF Told, Pending
  <2>3. QED  BY <1>4, <2>1, <2>2
<1>6. CountsTyped' /\ Called' /\ Unique'
  BY <1>1, <1>5 DEF CountsTyped, Called, Unique
<1>7. \A q \in Posted' : q.mine => ~r.mine
  BY <1>1 DEF Waited
<1>8. \A x : Reply(x)' <=> Reply(x)
  BY DEF Reply, SameId
<1>9. Numbered'
  <2>1. \A x \in Said' : x.id < tr'.next_id
    BY <1>1, <1>3 DEF Numbered
  <2>2. r.mine => op.at = "wait"
    BY <1>1 DEF Waited
  <2>3. QED  BY <1>1, <1>3, <1>8, <2>1, <2>2 DEF Numbered
<1>10. Waited'
  <2>1. \A q \in Posted' : q.mine => Said' = Said
    BY <1>3, <1>7
  <2>2. QED  BY <1>1, <1>8, <2>1 DEF Waited
<1>11. \A n \in Calls : /\ Pending(n)' => Pending(n) /\ n # r.call
                        /\ n # r.call => (Pending(n)' <=> Pending(n))
  <2>1. \A n \in Calls : n # 0
    BY Bounds DEF Calls
  <2>2. \A q \in Posted' : q \in Posted /\ (q.call # 0 => q.call # r.call)
    BY <1>1 DEF Unique
  <2>3. QED  BY <2>1, <2>2 DEF Pending
<1>12. r.call # 0 => Pending(r.call)
  BY DEF Pending
<1>13. Told'
  <2>1. SUFFICES ASSUME NEW n \in Calls
                 PROVE  /\ n > spent'.calls => outcome'[n] = "none" /\ ran'[n] = 0
                        /\ ran'[n] <= 1
                        /\ Pending(n)' => ran'[n] = 0 /\ outcome'[n] \in {"none", "unknown"}
                        /\ (Pending(n)' /\ outcome'[n] = "none") =>
                              /\ op' # None /\ op'.call = n
                              /\ op'.at = "wait" \/ (op'.at = "report" /\ op'.res = "unknown")
                        /\ outcome'[n] = "failed" => ran'[n] = 0
                        /\ outcome'[n] = "completed" => ran'[n] = 1
    BY DEF Told
  <2>2. CASE n # r.call
    BY <1>1, <1>5, <1>11, <2>2 DEF Told
  <2>3. CASE n = r.call
    <3>1. n # 0 /\ n \in Nat /\ spent.calls \in Nat
      BY <1>1, Bounds DEF Calls, Called
    <3>2. outcome[n] \in {"none", "unknown"}
      BY <1>1, <1>12, <2>3, <3>1 DEF Told
    <3>3. QED  BY <1>4, <1>5, <1>11, <2>3, <3>1, <3>2
  <2>4. QED  BY <2>2, <2>3
<1>14. Telling'
  <2>1. SUFFICES ASSUME op # None, op.call # 0
                 PROVE  /\ outcome[op.call] = "none"
                        /\ op.at \in {"approve", "audit", "prepare"} => ran'[op.call] = 0
                        /\ op.at = "wait" => \A x \in Said' : Reply(x) =>
                             ~Pending(op.call)' /\ ran'[op.call] = IF x.kind = "result" THEN 1 ELSE 0
                        /\ op.at = "report" /\ op.res = "ok" => ran'[op.call] = 1
                        /\ op.at = "report" /\ op.res \in {"remote", "policy", "other"} => ran'[op.call] = 0
    BY <1>8 DEF Telling, Pending
  <2>2. outcome[op.call] = "none" /\ op.call \in Calls
    BY <1>1, <2>1, Bounds DEF Telling, Planned, Called, Calls, ClientTyped, Ops
  <2>3. CASE r.call # op.call
    <3>1. ran'[op.call] = ran[op.call] /\ (Pending(op.call)' <=> Pending(op.call))
      BY <1>5, <1>11, <2>2, <2>3
    <3>2. Said' = Said
      BY <1>1, <1>3, <2>3 DEF Waited
    <3>3. QED  BY <1>1, <2>1, <2>2, <3>1, <3>2 DEF Telling
  <2>4. CASE r.call = op.call
    <3>1. op.at = "wait" \/ (op.at = "report" /\ op.res = "unknown")
      BY <1>1, <1>12, <2>1, <2>2, <2>4 DEF Told
    <3>2. ~Pending(op.call)'
      BY <1>11, <2>2, <2>4
    <3>3. op.at = "wait" => \A x \in Said : ~Reply(x)
      BY <1>1, <1>12, <2>1, <2>4 DEF Telling
    <3>4. ASSUME op.at = "wait", NEW x \in Said', Reply(x)
          PROVE  ran'[op.call] = IF x.kind = "result" THEN 1 ELSE 0
      <4>1. x = m /\ r.mine /\ line' # line
        BY <1>3, <3>3, <3>4
      <4>2. x.kind \in {"result", "error"}
        BY <3>4 DEF Reply
      <4>3. QED  BY <1>5, <2>1, <2>4, <4>1, <4>2
    <3>5. QED  BY <2>2, <3>1, <3>2, <3>4
  <2>5. QED  BY <2>3, <2>4
<1>15. QED  BY <1>2, <1>6, <1>9, <1>10, <1>13, <1>14

(* It executes a request or refuses it.                                    *)
LEMMA PeerServesKeeps ==
    ASSUME McpInv, PeerServes
    PROVE  McpInv'
<1>1. /\ ClientTyped /\ WireTyped /\ TableTyped /\ CountsTyped /\ Planned /\ Called
      /\ Catalogued /\ Admitted /\ Tabled /\ Numbered /\ Waited /\ Unique /\ Told /\ Telling
  BY DEF McpInv
<1>2. PICK r \in inbox, k \in {"result", "error"}, valid \in BOOLEAN :
         /\ inbox' = inbox \ {r}
         /\ line' = IF r.mine THEN Append(line, Message(k, r.id, None, valid)) ELSE line
         /\ ran' = IF r.call # 0 /\ k = "result" THEN [ran EXCEPT ![r.call] = @ + 1] ELSE ran
         /\ UNCHANGED <<client, catalog, drifted, server, outcome, spent>>
  BY DEF PeerServes
<1>3. UNCHANGED <<cl, defs, drifted, op, tr, catalog, serving, bind, owner, down, outcome, spent>>
  BY <1>2 DEF client, server
<1> DEFINE m == Message(k, r.id, None, valid)
<1>4. m \in Messages /\ m.kind = k /\ m.id = r.id
  BY <1>1 DEF Message, Messages, WireTyped, Letters
<1>5. r.mine => m.id < tr.next_id
  <2>1. r.mine => op # None /\ op.at = "wait" /\ r.id = op.id
    BY <1>1 DEF Waited, Posted
  <2>2. tr.next_id \in Nat
    BY <1>1 DEF ClientTyped, Transports
  <2>3. QED  BY <1>1, <1>4, <2>1, <2>2 DEF Numbered
<1>6. r \in Posted /\ serving' \subseteq serving /\ inbox' \subseteq inbox
  BY <1>2, <1>3 DEF Posted
<1>7. Posted' = Posted \ {r}
  <2>1. r \notin serving
    BY <1>1, Apart
  <2>2. QED  BY <1>2, <1>3, <2>1 DEF Posted
<1>8. spent \in Spending
  BY <1>1 DEF CountsTyped
<1>9. r.call # 0 /\ line' # line =>
         /\ m.kind = "result" => ran' = [ran EXCEPT ![r.call] = @ + 1]
         /\ m.kind = "error" => ran' = ran
  BY <1>2, <1>4
<1>10. /\ ran' = ran \/ (r.call # 0 /\ ran' = [ran EXCEPT ![r.call] = @ + 1])
       /\ line' = line \/ (r.mine /\ line' = Append(line, m))
  BY <1>2
<1> HIDE DEF m
<1>11. /\ WireTyped' /\ CountsTyped' /\ Called'
       /\ Numbered' /\ Waited' /\ Unique' /\ Told' /\ Telling'
  BY <1>3, <1>4, <1>5, <1>6, <1>7, <1>8, <1>9, <1>10, Settles
<1>12. ClientTyped' /\ Planned' /\ Catalogued'
  BY <1>1, <1>3, ClientStays
<1>13. TableTyped' /\ Admitted' /\ Tabled'
  BY <1>1, <1>3, SessionsStay
<1>14. QED  BY <1>11, <1>12, <1>13 DEF McpInv

(* It says something unasked.                                              *)
LEMMA PeerNoiseKeeps ==
    ASSUME McpInv, PeerNoise
    PROVE  McpInv'
<1>1. /\ ClientTyped /\ WireTyped /\ TableTyped /\ CountsTyped /\ Planned /\ Called
      /\ Catalogued /\ Admitted /\ Tabled /\ Numbered /\ Waited /\ Unique /\ Told /\ Telling
  BY DEF McpInv
<1>2. UNCHANGED <<cl, defs, drifted, op, tr, catalog, inbox, serving, bind, owner, down, outcome, ran>>
  BY DEF PeerNoise, client, server
<1>3. spent' \in Spending /\ spent'.calls = spent.calls
  BY <1>1, Spends DEF PeerNoise, CountsTyped
<1>4. tr.next_id \in Nat \ {0}
  BY <1>1 DEF ClientTyped, Transports
<1>5. PICK m \in Messages : /\ line' = Append(line, m) /\ m.id < tr.next_id
                            /\ (op # None /\ op.at \in {"prepare", "wait"}) => ~Reply(m)
  <2>1. CASE line' = Append(line, Message("request", 0, None, TRUE))
    <3> DEFINE x == Message("request", 0, None, TRUE)
    <3>1. x \in Messages /\ x.kind = "request" /\ x.id = 0 /\ line' = Append(line, x)
      BY <2>1 DEF Message, Messages
    <3> HIDE DEF x
    <3>2. QED  BY <1>4, <3>1 DEF Reply
  <2>2. CASE line' = Append(line, Message("end", 0, None, TRUE))
    <3> DEFINE x == Message("end", 0, None, TRUE)
    <3>1. x \in Messages /\ x.kind = "end" /\ x.id = 0 /\ line' = Append(line, x)
      BY <2>2 DEF Message, Messages
    <3> HIDE DEF x
    <3>2. QED  BY <1>4, <3>1 DEF Reply
  <2>3. ASSUME NEW id \in 1..(tr.next_id - 1),
               (op # None /\ op.at \in {"prepare", "wait"}) => id # op.id,
               line' = Append(line, Message("result", id, None, TRUE))
        PROVE  \E m \in Messages : /\ line' = Append(line, m) /\ m.id < tr.next_id
                                   /\ (op # None /\ op.at \in {"prepare", "wait"}) => ~Reply(m)
    <3> DEFINE x == Message("result", id, None, TRUE)
    <3>1. x \in Messages /\ x.id = id /\ line' = Append(line, x)
      BY <1>4, <2>3 DEF Message, Messages
    <3> HIDE DEF x
    <3>2. id < tr.next_id
      BY <1>4
    <3>3. QED  BY <2>3, <3>1, <3>2 DEF Reply, SameId
  <2>4. QED  BY <2>1, <2>2, <2>3 DEF PeerNoise
<1>6. line' \in Seq(Messages) /\ Said' = Said \cup {m}
  <2>1. Append(line, m) \in Seq(Messages) /\ Values(Append(line, m)) = Values(line) \cup {m}
    BY <1>1, Written DEF WireTyped
  <2>2. QED  BY <1>5, <2>1, Zenon DEF Said
<1>7. \A x : Reply(x)' <=> Reply(x)
  BY <1>2 DEF Reply, SameId
<1>8. WireTyped' /\ CountsTyped'
  BY <1>1, <1>2, <1>3, <1>6 DEF WireTyped, CountsTyped
<1>9. Called' /\ Unique'
  BY <1>1, <1>2, <1>3 DEF Called, Unique, Posted
<1>10. Numbered'
  BY <1>1, <1>2, <1>5, <1>6, <1>7 DEF Numbered
<1>11. Waited'
  BY <1>1, <1>2, <1>5, <1>6, <1>7 DEF Waited, Posted
<1>12. \A n : Pending(n)' <=> Pending(n)
  BY <1>2 DEF Pending, Posted
<1>13. Told'
  BY <1>1, <1>2, <1>3, <1>12 DEF Told
<1>14. Telling'
  BY <1>1, <1>2, <1>5, <1>6, <1>7, <1>12 DEF Telling
<1>15. ClientTyped' /\ Planned' /\ Catalogued'
  BY <1>1, <1>2, <1>3, ClientStays
<1>16. TableTyped' /\ Admitted' /\ Tabled'
  BY <1>1, <1>2, SessionsStay
<1>17. QED
  BY <1>8, <1>9, <1>10, <1>11, <1>13, <1>14, <1>15, <1>16 DEF McpInv

(* A request is lost.                                                      *)
LEMMA LostKeeps ==
    ASSUME McpInv, Lost
    PROVE  McpInv'
<1>1. /\ ClientTyped /\ WireTyped /\ TableTyped /\ CountsTyped /\ Planned /\ Called
      /\ Catalogued /\ Admitted /\ Tabled /\ Numbered /\ Waited /\ Unique /\ Told /\ Telling
  BY DEF McpInv
<1>2. UNCHANGED <<cl, defs, drifted, op, tr, line, catalog, bind, owner, down, outcome, ran>>
  BY DEF Lost, client
<1>3. spent' \in Spending /\ spent'.calls = spent.calls
  BY <1>1, Faults DEF Lost, CountsTyped
<1>4. PICK r \in Posted : /\ inbox' \subseteq inbox /\ serving' \subseteq serving
                            /\ Posted' = Posted \ {r}
  <2>1. \A r \in inbox : r \notin serving
    BY <1>1, Apart
  <2>2. CASE \E r \in inbox : inbox' = inbox \ {r} /\ UNCHANGED serving
    BY <2>1, <2>2 DEF Posted
  <2>3. CASE \E r \in serving : serving' = serving \ {r} /\ UNCHANGED inbox
    BY <2>1, <2>3 DEF Posted
  <2>4. QED  BY <2>2, <2>3 DEF Lost
<1>5. PICK m \in Messages : m.id = 0
  <2>1. Message("end", 0, None, TRUE) \in Messages /\ Message("end", 0, None, TRUE).id = 0
    BY DEF Message, Messages
  <2>2. QED  BY <2>1
<1>6. 0 < tr.next_id
  BY <1>1 DEF ClientTyped, Transports
<1>7. /\ WireTyped' /\ CountsTyped' /\ Called'
      /\ Numbered' /\ Waited' /\ Unique' /\ Told' /\ Telling'
  BY <1>2, <1>3, <1>4, <1>5, <1>6, Settles
<1>8. ClientTyped' /\ Planned' /\ Catalogued'
  BY <1>1, <1>2, <1>3, ClientStays
<1>9. TableTyped' /\ Admitted' /\ Tabled'
  BY <1>1, <1>2, <1>4, SessionsStay
<1>10. QED  BY <1>7, <1>8, <1>9 DEF McpInv

-----------------------------------------------------------------------------
(* The server's requests.                                                  *)

(* The server answers a request: m goes to the client if it still waits.   *)
LEMMA Responds ==
    ASSUME McpInv, NEW r \in serving, NEW m, Respond(r, m),
           r.mine => m \in Messages /\ m.id < tr.next_id,
           \/ ran' = ran
           \/ r.call # 0 /\ ran' = [ran EXCEPT ![r.call] = @ + 1],
           r.mine /\ r.call # 0 =>
              /\ m.kind = "result" => ran' = [ran EXCEPT ![r.call] = @ + 1]
              /\ m.kind = "error" => ran' = ran,
           spent' \in Spending, spent'.calls = spent.calls,
           UNCHANGED <<cl, defs, drifted, op, tr, catalog, inbox, outcome>>
    PROVE  /\ ClientTyped' /\ Planned' /\ Catalogued' /\ WireTyped' /\ CountsTyped' /\ Called'
           /\ Numbered' /\ Waited' /\ Unique' /\ Told' /\ Telling' /\ serving' \subseteq serving
<1>1. ClientTyped /\ Planned /\ Catalogued /\ WireTyped
  BY DEF McpInv
<1>2. /\ serving' = serving \ {r} /\ r \in Posted
      /\ line' = line \/ (r.mine /\ line' = Append(line, m))
  BY DEF Respond, Posted
<1>3. Posted' = Posted \ {r}
  BY <1>1, <1>2, Apart DEF Posted
<1>4. /\ WireTyped' /\ CountsTyped' /\ Called'
      /\ Numbered' /\ Waited' /\ Unique' /\ Told' /\ Telling'
  BY <1>2, <1>3, Settles
<1>5. QED  BY <1>1, <1>2, <1>4, ClientStays

(* Status, result and error, with the id of the request.                   *)
LEMMA Replies ==
    ASSUME McpInv, NEW r \in serving, r.mine
    PROVE  op.id \in Nat /\ op.id < tr.next_id /\ 0 < tr.next_id
<1>1. op # None /\ op.at = "wait" /\ op \in Ops /\ op.id = tr.next_id - 1
  BY DEF McpInv, Waited, Posted, ClientTyped, Numbered
<1>2. tr.next_id \in Nat \ {0}
  BY DEF McpInv, ClientTyped, Transports
<1>3. QED  BY <1>1, <1>2 DEF Ops

(* A request is answered with a status, which says nothing of its call.    *)
LEMMA RespondsStatus ==
    ASSUME McpInv, NEW r \in serving, Status(r),
           \/ ran' = ran
           \/ r.call # 0 /\ ran' = [ran EXCEPT ![r.call] = @ + 1],
           spent' \in Spending, spent'.calls = spent.calls,
           UNCHANGED <<cl, defs, drifted, op, tr, catalog, inbox, outcome>>
    PROVE  /\ ClientTyped' /\ Planned' /\ Catalogued' /\ WireTyped' /\ CountsTyped' /\ Called'
           /\ Numbered' /\ Waited' /\ Unique' /\ Told' /\ Telling' /\ serving' \subseteq serving
<1> DEFINE m == Message("status", 0, None, TRUE)
<1>1. m \in Messages /\ m.kind = "status" /\ m.id = 0 /\ Respond(r, m)
  BY DEF Message, Messages, Status
<1> HIDE DEF m
<1>2. r.mine => m.id < tr.next_id
  BY <1>1, Replies
<1>3. QED  BY <1>1, <1>2, Responds

(* A request is answered with a result.                                    *)
LEMMA RespondsResult ==
    ASSUME McpInv, NEW r \in serving, NEW s \in Sids \cup {None}, Result(r, s),
           ran' = IF r.call # 0 THEN [ran EXCEPT ![r.call] = @ + 1] ELSE ran,
           spent' \in Spending, spent'.calls = spent.calls,
           UNCHANGED <<cl, defs, drifted, op, tr, catalog, inbox, outcome>>
    PROVE  /\ ClientTyped' /\ Planned' /\ Catalogued' /\ WireTyped' /\ CountsTyped' /\ Called'
           /\ Numbered' /\ Waited' /\ Unique' /\ Told' /\ Telling' /\ serving' \subseteq serving
<1> DEFINE m == Message("result", op.id, s, TRUE)
<1>1. m.kind = "result" /\ m.id = op.id /\ Respond(r, m)
  BY DEF Message, Result
<1>2. r.mine => m \in Messages
  BY Replies DEF Message, Messages
<1> HIDE DEF m
<1>3. r.mine => m.id < tr.next_id
  BY <1>1, Replies
<1>4. QED  BY <1>1, <1>2, <1>3, Responds

(* A request is answered with an error, and its call has not run.          *)
LEMMA RespondsError ==
    ASSUME McpInv, NEW r \in serving, Respond(r, Message("error", op.id, None, TRUE)),
           ran' = ran, spent' \in Spending, spent'.calls = spent.calls,
           UNCHANGED <<cl, defs, drifted, op, tr, catalog, inbox, outcome>>
    PROVE  /\ ClientTyped' /\ Planned' /\ Catalogued' /\ WireTyped' /\ CountsTyped' /\ Called'
           /\ Numbered' /\ Waited' /\ Unique' /\ Told' /\ Telling' /\ serving' \subseteq serving
<1> DEFINE m == Message("error", op.id, None, TRUE)
<1>1. m.kind = "error" /\ m.id = op.id /\ Respond(r, m)
  BY DEF Message
<1>2. r.mine => m \in Messages
  BY Replies DEF Message, Messages
<1> HIDE DEF m
<1>3. r.mine => m.id < tr.next_id
  BY <1>1, Replies
<1>4. QED  BY <1>1, <1>2, <1>3, Responds

(* A request moves on: q is r, at its next step.                           *)
LEMMA Advances ==
    ASSUME McpInv, NEW r \in serving, NEW q \in Served, serving' = (serving \ {r}) \cup {q},
           q.mine <=> r.mine, q.call = r.call, q.method = r.method,
           q.left = r.left \/ r.call = 0,
           UNCHANGED <<cl, defs, drifted, op, tr, catalog, line, inbox, outcome, ran, spent>>
    PROVE  /\ ClientTyped' /\ Planned' /\ Catalogued' /\ WireTyped' /\ CountsTyped' /\ Called'
           /\ Numbered' /\ Waited' /\ Unique' /\ Told' /\ Telling'
<1>1. /\ ClientTyped /\ WireTyped /\ TableTyped /\ CountsTyped /\ Planned /\ Called
      /\ Catalogued /\ Admitted /\ Tabled /\ Numbered /\ Waited /\ Unique /\ Told /\ Telling
  BY DEF McpInv
<1>2. ClientTyped' /\ Planned' /\ Catalogued'
  BY <1>1, ClientStays
<1>3. WireTyped' /\ CountsTyped' /\ Numbered'
  BY <1>1 DEF WireTyped, CountsTyped, Numbered, Said, Reply
<1>4. r \in Posted /\ Posted' = (Posted \ {r}) \cup {q}
  BY <1>1, Apart DEF Posted
<1>5. Called'
  BY <1>1, <1>4 DEF Called
<1>6. Unique'
  BY <1>1, <1>4 DEF Unique
<1>7. Waited'
  <2>1. \A x \in Posted' : x.mine => \E y \in Posted : y.mine /\ x.call = y.call
    BY <1>4
  <2>2. \A x \in inbox' : x.mine => x.id = op'.id
    BY <1>1 DEF Waited
  <2>3. \A x, y \in Posted' : x.mine /\ y.mine => x = y
    BY <1>1, <1>4 DEF Waited
  <2>4. Said' = Said /\ \A x : Reply(x)' <=> Reply(x)
    BY DEF Said, Reply
  <2>5. \A x \in Posted' : x.mine => /\ op # None /\ op.at = "wait" /\ x.call = op.call
                                       /\ \A m \in Said : ~Reply(m)
    BY <1>1, <2>1 DEF Waited
  <2>6. QED  BY <2>2, <2>3, <2>4, <2>5 DEF Waited
<1>8. \A n : Pending(n)' <=> Pending(n)
  BY <1>4 DEF Pending
<1>9. Told'
  BY <1>1, <1>8 DEF Told
<1>10. Telling'
  <2>1. Said' = Said /\ \A x : Reply(x)' <=> Reply(x)
    BY DEF Said, Reply
  <2>2. QED  BY <1>1, <1>8, <2>1 DEF Telling
<1>11. QED  BY <1>2, <1>3, <1>5, <1>6, <1>7, <1>9, <1>10

-----------------------------------------------------------------------------
(* The server's sessions.                                                  *)

(* prune only removes.                                                     *)
LEMMA Pruned ==
    ASSUME bind \in [Sids -> Bindings \cup {None}]
    PROVE  /\ Prune(bind) \in [Sids -> Bindings \cup {None}]
           /\ \A s \in Sids : Prune(bind)[s] # None => Prune(bind)[s] = bind[s]
BY DEF Prune

(* Sessions that are removed, or marked, stay within the limits.           *)
LEMMA SessionsShrink ==
    ASSUME TableTyped, Admitted, Tabled, bind' \in [Sids -> Bindings \cup {None}],
           \A s \in Sids : bind'[s] # None => bind[s] # None /\ bind'[s].tenant = bind[s].tenant,
           owner' = owner, down' \in BOOLEAN, down' => down \/ Bound(bind') = {}
    PROVE  /\ TableTyped' /\ Tabled'
           /\ \A s \in Sids : bind'[s] # None => bind'[s].tenant = owner'[s]
<1>1. Bound(bind') \subseteq Bound(bind) /\ IsFiniteSet(Bound(bind))
  BY DEF Bound, Tabled
<1>2. IsFiniteSet(Bound(bind')) /\ Cardinality(Bound(bind')) <= Cardinality(Bound(bind))
  BY <1>1, FS_Subset
<1>3. ASSUME NEW t \in Tenants
      PROVE  Cardinality({s \in Bound(bind') : bind'[s].tenant = t}) <= MaxSessionsPerTenant
  <2> DEFINE new1 == {s \in Bound(bind') : bind'[s].tenant = t}
             old1 == {s \in Bound(bind) : bind[s].tenant = t}
  <2>1. new1 \subseteq old1 /\ old1 \subseteq Bound(bind)
    BY DEF Bound
  <2>2. IsFiniteSet(old1)
    BY <1>1, <2>1, FS_Subset
  <2>3. Cardinality(new1) <= Cardinality(old1)
    BY <2>1, <2>2, FS_Subset
  <2>4. Cardinality(old1) <= MaxSessionsPerTenant
    BY DEF Tabled, SessionTable
  <2>5. IsFiniteSet(new1) /\ Cardinality(new1) \in Nat /\ Cardinality(old1) \in Nat
    BY <2>1, <2>2, FS_Subset, FS_CardinalityType
  <2> HIDE DEF new1, old1
  <2>6. Cardinality(new1) <= MaxSessionsPerTenant
    BY <2>3, <2>4, <2>5, Bounds
  <2>7. QED  BY <2>6 DEF new1
<1>4. Cardinality(Bound(bind')) <= MaxSessions
  BY <1>1, <1>2, FS_CardinalityType, Bounds DEF Tabled, SessionTable
<1>5. down' => Bound(bind') = {}
  BY <1>1 DEF Tabled, SessionTable
<1>6. SessionTable'
  BY <1>3, <1>4, <1>5 DEF SessionTable, Bound
<1>7. Tabled'
  BY <1>2, <1>6 DEF Tabled, Bound
<1>8. QED  BY <1>7 DEF TableTyped, Admitted

(* Posted that are not past the tenant check may stand for anything;     *)
(* what is past it came from requests that were.                           *)
LEMMA AdmittedStays ==
    ASSUME Admitted, owner' = owner,
           \A s \in Sids : bind'[s] # None => bind'[s].tenant = owner'[s],
           \A q \in serving' :
              \/ q.pc \in {"arrive", "resolve"}
              \/ q \in serving
              \/ q.pc = "body" /\ (q.sid = None \/ owner[q.sid] = q.tenant)
              \/ q.pc = "exec" /\ q.sid # None /\ owner[q.sid] = q.tenant
    PROVE  Admitted'
BY DEF Admitted

(* What a step of the server alone leaves as it is.                        *)
LEMMA ServersOwn ==
    ASSUME McpInv, ServerOnly
    PROVE  /\ UNCHANGED <<cl, defs, drifted, op, tr, catalog, inbox, outcome, spent>>
           /\ spent' \in Spending /\ spent'.calls = spent.calls
BY DEF ServerOnly, client, McpInv, CountsTyped

(* A request arrives at the server, or at a closed one.                    *)
LEMMA ArriveKeeps ==
    ASSUME McpInv, Arrive
    PROVE  McpInv'
<1>1. TableTyped /\ Admitted /\ Tabled /\ serving \subseteq Served
  BY DEF McpInv, WireTyped
<1>2. PICK r \in serving :
         /\ r.pc = "arrive"
         /\ \/ Status(r)
            \/ serving' = (serving \ {r}) \cup {[r EXCEPT !.pc = "resolve"]} /\ UNCHANGED line
         /\ UNCHANGED <<bind, owner, down, ran>> /\ ServerOnly
  BY Zenon DEF Arrive
<1>3. /\ UNCHANGED <<cl, defs, drifted, op, tr, catalog, inbox, outcome, spent>>
      /\ spent' \in Spending /\ spent'.calls = spent.calls
  BY <1>2, ServersOwn
<1>4. CASE Status(r)
  <2>1. /\ ClientTyped' /\ Planned' /\ Catalogued' /\ WireTyped' /\ CountsTyped' /\ Called'
        /\ Numbered' /\ Waited' /\ Unique' /\ Told' /\ Telling' /\ serving' \subseteq serving
    BY <1>2, <1>3, <1>4, RespondsStatus
  <2>2. TableTyped' /\ Admitted' /\ Tabled'
    BY <1>1, <1>2, <2>1, SessionsStay
  <2>3. QED  BY <2>1, <2>2 DEF McpInv
<1>5. CASE serving' = (serving \ {r}) \cup {[r EXCEPT !.pc = "resolve"]} /\ UNCHANGED line
  <2> DEFINE q == [r EXCEPT !.pc = "resolve"]
  <2>1. /\ q \in Served /\ (q.mine <=> r.mine) /\ q.call = r.call /\ q.method = r.method
        /\ q.left = r.left /\ q.pc = "resolve"
    BY <1>1 DEF Served
  <2>2. serving' = (serving \ {r}) \cup {q}
    BY <1>5
  <2> HIDE DEF q
  <2>3. /\ ClientTyped' /\ Planned' /\ Catalogued' /\ WireTyped' /\ CountsTyped' /\ Called'
        /\ Numbered' /\ Waited' /\ Unique' /\ Told' /\ Telling'
    BY <1>2, <1>3, <1>5, <2>1, <2>2, Advances
  <2>4. TableTyped' /\ Tabled'
    BY <1>1, <1>2 DEF TableTyped, Tabled, SessionTable, Bound
  <2>5. Admitted'
    BY <1>1, <1>2, <2>1, <2>2 DEF Admitted
  <2>6. QED  BY <2>3, <2>4, <2>5 DEF McpInv
<1>6. QED  BY <1>2, <1>4, <1>5

(* admit: the session is pruned or found, and is its tenant's.             *)
LEMMA ResolvedKeeps ==
    ASSUME McpInv, Resolved
    PROVE  McpInv'
<1>1. /\ TableTyped /\ Admitted /\ Tabled /\ serving \subseteq Served
      /\ bind \in [Sids -> Bindings \cup {None}] /\ down \in BOOLEAN
  BY DEF McpInv, WireTyped, TableTyped
<1> DEFINE pruned == Prune(bind)
           Read(r) == serving' = (serving \ {r}) \cup {[r EXCEPT !.pc = "body"]} /\ UNCHANGED line
<1>2. PICK r \in serving :
         /\ r.pc = "resolve"
         /\ \/ r.sid = None /\ Read(r) /\ UNCHANGED bind
            \/ Status(r) /\ UNCHANGED bind
            \/ Status(r) /\ bind' = pruned
            \/ r.sid # None /\ Admits(r.sid, r.tenant) /\ bind' = [pruned EXCEPT ![r.sid] = None] /\ Status(r)
            \/ /\ r.sid # None /\ Admits(r.sid, r.tenant)
               /\ bind' = [pruned EXCEPT ![r.sid].expired = FALSE] /\ Read(r)
         /\ UNCHANGED <<owner, down, ran>> /\ ServerOnly
  BY Zenon DEF Resolved
<1>3. /\ UNCHANGED <<cl, defs, drifted, op, tr, catalog, inbox, outcome, spent>>
      /\ spent' \in Spending /\ spent'.calls = spent.calls
  BY <1>2, ServersOwn
<1>4. /\ pruned \in [Sids -> Bindings \cup {None}]
      /\ \A s \in Sids : pruned[s] # None => pruned[s] = bind[s]
  BY <1>1, Pruned
<1>5. r.sid \in Sids \cup {None} /\ r.tenant \in Tenants
  BY <1>1 DEF Served
<1>6. Admits(r.sid, r.tenant) => pruned[r.sid] # None /\ pruned[r.sid].tenant = r.tenant
  BY DEF Admits
<1> HIDE DEF pruned
<1>7. /\ bind' \in [Sids -> Bindings \cup {None}]
      /\ \A s \in Sids : bind'[s] # None => bind[s] # None /\ bind'[s].tenant = bind[s].tenant
  <2>1. CASE bind' = bind \/ bind' = pruned
    BY <1>1, <1>4, <2>1
  <2>2. CASE r.sid # None /\ bind' = [pruned EXCEPT ![r.sid] = None]
    BY <1>4, <1>5, <2>2
  <2>3. CASE r.sid # None /\ Admits(r.sid, r.tenant) /\ bind' = [pruned EXCEPT ![r.sid].expired = FALSE]
    <3>1. r.sid \in Sids /\ pruned[r.sid] \in Bindings
      BY <1>4, <1>5, <1>6, <2>3
    <3>2. PICK b : b = [pruned[r.sid] EXCEPT !.expired = FALSE]
      OBVIOUS
    <3>3. b \in Bindings /\ b.tenant = pruned[r.sid].tenant
      BY <3>1, <3>2 DEF Bindings
    <3>4. bind' = [pruned EXCEPT ![r.sid] = b]
      BY <2>3, <3>2
    <3>5. QED  BY <1>4, <1>6, <2>3, <3>1, <3>3, <3>4
  <2>4. QED  BY <1>2, <2>1, <2>2, <2>3
<1>8. /\ TableTyped' /\ Tabled'
      /\ \A s \in Sids : bind'[s] # None => bind'[s].tenant = owner'[s]
  BY <1>1, <1>2, <1>7, SessionsShrink
<1>9. CASE Status(r)
  <2>1. /\ ClientTyped' /\ Planned' /\ Catalogued' /\ WireTyped' /\ CountsTyped' /\ Called'
        /\ Numbered' /\ Waited' /\ Unique' /\ Told' /\ Telling' /\ serving' \subseteq serving
    BY <1>2, <1>3, <1>9, RespondsStatus
  <2>2. Admitted'
    BY <1>1, <1>2, <1>8, <2>1, AdmittedStays
  <2>3. QED  BY <1>8, <2>1, <2>2 DEF McpInv
<1>10. CASE Read(r) /\ (r.sid = None \/ Admits(r.sid, r.tenant))
  <2> DEFINE q == [r EXCEPT !.pc = "body"]
  <2>1. /\ q \in Served /\ (q.mine <=> r.mine) /\ q.call = r.call /\ q.method = r.method
        /\ q.left = r.left /\ q.pc = "body" /\ q.sid = r.sid /\ q.tenant = r.tenant
    BY <1>1 DEF Served
  <2>2. serving' = (serving \ {r}) \cup {q} /\ UNCHANGED line
    BY <1>10
  <2> HIDE DEF q
  <2>3. /\ ClientTyped' /\ Planned' /\ Catalogued' /\ WireTyped' /\ CountsTyped' /\ Called'
        /\ Numbered' /\ Waited' /\ Unique' /\ Told' /\ Telling'
    BY <1>2, <1>3, <2>1, <2>2, Advances
  <2>4. r.sid = None \/ owner[r.sid] = r.tenant
    BY <1>1, <1>4, <1>5, <1>6, <1>10 DEF Admitted
  <2>5. Admitted'
    BY <1>1, <1>2, <1>8, <2>1, <2>2, <2>4, AdmittedStays
  <2>6. QED  BY <1>8, <2>3, <2>5 DEF McpInv
<1>11. QED  BY <1>2, <1>9, <1>10

(* One element more is at most one more.                                   *)
LEMMA OneMore ==
    ASSUME NEW S, IsFiniteSet(S), NEW x
    PROVE  /\ IsFiniteSet(S \cup {x}) /\ Cardinality(S) \in Nat
           /\ Cardinality(S \cup {x}) \in Nat
           /\ Cardinality(S \cup {x}) <= Cardinality(S) + 1
<1>1. /\ IsFiniteSet(S \cup {x})
      /\ Cardinality(S \cup {x}) = IF x \in S THEN Cardinality(S) ELSE Cardinality(S) + 1
  BY FS_AddElement
<1>2. Cardinality(S) \in Nat /\ Cardinality(S \cup {x}) \in Nat
  BY <1>1, FS_CardinalityType
<1>3. QED  BY <1>1, <1>2

(* A session is added within the limits, which were looked at under the    *)
(* same lock.                                                              *)
LEMMA SessionAdded ==
    ASSUME TableTyped, Admitted, Tabled, NEW t \in Tenants, NEW s \in Sids,
           ~down, ~Full(t), owner[s] = None,
           owner' = [owner EXCEPT ![s] = t],
           bind' = [Prune(bind) EXCEPT ![s] =
                       [tenant |-> t, initialized |-> FALSE, expired |-> FALSE]],
           down' = down, serving' \subseteq serving, serving \subseteq Served
    PROVE  TableTyped' /\ Admitted' /\ Tabled'
<1> DEFINE pruned == Prune(bind)
           b == [tenant |-> t, initialized |-> FALSE, expired |-> FALSE]
<1>1. /\ pruned \in [Sids -> Bindings \cup {None}]
      /\ \A x \in Sids : pruned[x] # None => pruned[x] = bind[x]
  BY Pruned DEF TableTyped
<1>2. b \in Bindings /\ b.tenant = t
  BY DEF Bindings
<1>3. /\ ~(Cardinality(Bound(pruned)) >= MaxSessions)
      /\ ~(Cardinality({x \in Bound(pruned) : pruned[x].tenant = t}) >= MaxSessionsPerTenant)
  BY DEF Full
<1>4. bind' = [pruned EXCEPT ![s] = b]
  OBVIOUS
<1> HIDE DEF pruned, b
<1>5. /\ bind' \in [Sids -> Bindings \cup {None}] /\ bind'[s] = b
      /\ \A x \in Sids : x # s => bind'[x] = pruned[x]
  BY <1>1, <1>2, <1>4
<1>6. /\ owner' \in [Sids -> Tenants \cup {None}] /\ owner'[s] = t
      /\ \A x \in Sids : x # s => owner'[x] = owner[x]
  BY DEF TableTyped
<1>7. TableTyped'
  BY <1>5, <1>6 DEF TableTyped
<1>8. Admitted'
  <2>1. \A x \in Sids : bind'[x] # None => bind'[x].tenant = owner'[x]
    BY <1>1, <1>2, <1>5, <1>6 DEF Admitted
  <2>2. ASSUME NEW r \in serving', r.pc \in {"body", "exec"}, r.sid # None
        PROVE  owner'[r.sid] = r.tenant
    <3>1. r \in serving /\ r.sid \in Sids /\ r.tenant \in Tenants
      BY <2>2 DEF Served
    <3>2. owner[r.sid] = r.tenant
      BY <2>2, <3>1 DEF Admitted
    <3>3. r.sid # s
      BY <3>1, <3>2, Bounds
    <3>4. QED  BY <1>6, <3>1, <3>2, <3>3
  <2>3. \A r \in serving' : r.pc = "exec" => r.sid # None
    BY DEF Admitted
  <2>4. QED  BY <2>1, <2>2, <2>3 DEF Admitted
<1>9. Bound(pruned) \subseteq Bound(bind) /\ IsFiniteSet(Bound(bind))
  BY <1>1 DEF Bound, Tabled
<1>10. IsFiniteSet(Bound(pruned))
  BY <1>9, FS_Subset
<1>11. Bound(bind') \subseteq Bound(pruned) \cup {s}
  BY <1>5 DEF Bound
<1>12. IsFiniteSet(Bound(bind')) /\ Cardinality(Bound(bind')) <= MaxSessions
  <2>1. /\ IsFiniteSet(Bound(pruned) \cup {s})
        /\ Cardinality(Bound(pruned) \cup {s}) <= Cardinality(Bound(pruned)) + 1
    BY <1>10, OneMore
  <2>2. IsFiniteSet(Bound(bind')) /\ Cardinality(Bound(bind')) <= Cardinality(Bound(pruned) \cup {s})
    BY <1>11, <2>1, FS_Subset
  <2>3. /\ Cardinality(Bound(bind')) \in Nat /\ Cardinality(Bound(pruned)) \in Nat
        /\ Cardinality(Bound(pruned) \cup {s}) \in Nat
    BY <1>10, <2>1, <2>2, FS_CardinalityType
  <2>4. QED  BY <1>3, <2>1, <2>2, <2>3, Bounds
<1>13. ASSUME NEW u \in Tenants
       PROVE  Cardinality({x \in Bound(bind') : bind'[x].tenant = u}) <= MaxSessionsPerTenant
  <2> DEFINE after == {x \in Bound(bind') : bind'[x].tenant = u}
             before == {x \in Bound(pruned) : pruned[x].tenant = u}
             was == {x \in Bound(bind) : bind[x].tenant = u}
  <2>1. IsFiniteSet(before) /\ Cardinality(before) \in Nat
    BY <1>10, FS_Subset, FS_CardinalityType
  <2>2. CASE u = t
    <3>1. after \subseteq before \cup {s}
      BY <1>5, <1>11 DEF Bound
    <3>2. ~(Cardinality(before) >= MaxSessionsPerTenant)
      BY <1>3, <2>2
    <3>a. IsFiniteSet(before)
      BY <2>1
    <3> HIDE DEF after, before
    <3>3. IsFiniteSet(before \cup {s}) /\ Cardinality(before \cup {s}) <= Cardinality(before) + 1
      BY <3>a, OneMore
    <3>4. IsFiniteSet(after) /\ Cardinality(after) <= Cardinality(before \cup {s})
      BY <3>1, <3>3, FS_Subset
    <3>5. Cardinality(after) \in Nat /\ Cardinality(before \cup {s}) \in Nat
      BY <3>3, <3>4, FS_CardinalityType
    <3>6. Cardinality(after) <= MaxSessionsPerTenant
      BY <2>1, <3>2, <3>3, <3>4, <3>5, Bounds
    <3>7. QED  BY <3>6 DEF after
  <2>3. CASE u # t
    <3>1. after \subseteq was /\ was \subseteq Bound(bind)
      BY <1>1, <1>2, <1>5, <1>9, <1>11, <2>3 DEF Bound
    <3>2. Cardinality(was) <= MaxSessionsPerTenant
      BY DEF Tabled, SessionTable
    <3> HIDE DEF after, was
    <3>3. IsFiniteSet(was)
      BY <1>9, <3>1, FS_Subset
    <3>4. IsFiniteSet(after) /\ Cardinality(after) <= Cardinality(was)
      BY <3>1, <3>3, FS_Subset
    <3>5. Cardinality(after) \in Nat /\ Cardinality(was) \in Nat
      BY <3>3, <3>4, FS_CardinalityType
    <3>6. Cardinality(after) <= MaxSessionsPerTenant
      BY <3>2, <3>4, <3>5, Bounds
    <3>7. QED  BY <3>6 DEF after
  <2>4. QED  BY <2>2, <2>3
<1>14. Tabled'
  <2>1. SessionTable'
    BY <1>12, <1>13 DEF SessionTable, Bound
  <2>2. QED  BY <1>12, <2>1 DEF Tabled, Bound
<1>15. QED  BY <1>7, <1>8, <1>14

(* initialize refuses or adds a session.                                   *)
LEMMA InitializeKeeps ==
    ASSUME McpInv, initialize
    PROVE  McpInv'
<1>1. /\ TableTyped /\ Admitted /\ Tabled /\ serving \subseteq Served /\ Called
      /\ down \in BOOLEAN
  BY DEF McpInv, WireTyped, TableTyped
<1>2. PICK r \in serving :
         /\ r.pc = "body" /\ r.method = "initialize"
         /\ \/ Respond(r, Message("error", op.id, None, TRUE)) /\ UNCHANGED <<bind, owner>>
            \/ Status(r) /\ UNCHANGED <<bind, owner>>
            \/ /\ ~Refuses /\ ~Full(r.tenant)
               /\ \E s \in Sids :
                     /\ owner[s] = None
                     /\ owner' = [owner EXCEPT ![s] = r.tenant]
                     /\ bind' = [Prune(bind) EXCEPT ![s] =
                                    [tenant |-> r.tenant, initialized |-> FALSE, expired |-> FALSE]]
                     /\ Result(r, s)
         /\ UNCHANGED <<down, ran>> /\ ServerOnly
  BY Zenon DEF initialize
<1>3. /\ UNCHANGED <<cl, defs, drifted, op, tr, catalog, inbox, outcome, spent>>
      /\ spent' \in Spending /\ spent'.calls = spent.calls
  BY <1>2, ServersOwn
<1>4. r.call = 0 /\ r.tenant \in Tenants
  BY <1>1, <1>2 DEF Called, Served
<1>5. CASE /\ Respond(r, Message("error", op.id, None, TRUE)) \/ Status(r)
           /\ UNCHANGED <<bind, owner>>
  <2>1. /\ ClientTyped' /\ Planned' /\ Catalogued' /\ WireTyped' /\ CountsTyped' /\ Called'
        /\ Numbered' /\ Waited' /\ Unique' /\ Told' /\ Telling' /\ serving' \subseteq serving
    BY <1>2, <1>3, <1>5, RespondsStatus, RespondsError
  <2>2. TableTyped' /\ Admitted' /\ Tabled'
    BY <1>1, <1>2, <1>5, <2>1, SessionsStay
  <2>3. QED  BY <2>1, <2>2 DEF McpInv
<1>6. ASSUME NEW s \in Sids, ~Refuses, ~Full(r.tenant), owner[s] = None,
             owner' = [owner EXCEPT ![s] = r.tenant],
             bind' = [Prune(bind) EXCEPT ![s] =
                         [tenant |-> r.tenant, initialized |-> FALSE, expired |-> FALSE]],
             Result(r, s)
      PROVE  McpInv'
  <2>1. /\ ClientTyped' /\ Planned' /\ Catalogued' /\ WireTyped' /\ CountsTyped' /\ Called'
        /\ Numbered' /\ Waited' /\ Unique' /\ Told' /\ Telling' /\ serving' \subseteq serving
    BY <1>2, <1>3, <1>4, <1>6, RespondsResult
  <2>2. ~down
    BY <1>6 DEF Refuses
  <2>3. TableTyped' /\ Admitted' /\ Tabled'
    BY <1>1, <1>2, <1>4, <1>6, <2>1, <2>2, SessionAdded
  <2>4. QED  BY <2>1, <2>3 DEF McpInv
<1>7. QED  BY <1>2, <1>5, <1>6

(* Any other message finds its session or a status.                        *)
LEMMA DispatchServerKeeps ==
    ASSUME McpInv, dispatch
    PROVE  McpInv'
<1>1. /\ TableTyped /\ Admitted /\ Tabled /\ serving \subseteq Served /\ Called
      /\ bind \in [Sids -> Bindings \cup {None}] /\ down \in BOOLEAN
  BY DEF McpInv, WireTyped, TableTyped
<1>2. PICK r \in serving :
         /\ r.pc = "body"
         /\ \/ Status(r) /\ UNCHANGED bind
            \/ /\ r.sid # None /\ bind[r.sid] # None /\ r.method = "notifications/initialized"
               /\ bind' = [bind EXCEPT ![r.sid].initialized = TRUE] /\ Result(r, None)
            \/ /\ r.method \in {"tools/list", "list", "read"} /\ Result(r, None) /\ UNCHANGED bind
            \/ /\ r.sid # None
               /\ serving' = (serving \ {r}) \cup {[r EXCEPT !.pc = "exec"]}
               /\ UNCHANGED <<bind, line>>
            \/ Respond(r, Message("error", op.id, None, TRUE)) /\ UNCHANGED bind
         /\ UNCHANGED <<owner, down, ran>> /\ ServerOnly
  BY Zenon DEF dispatch
<1>3. /\ UNCHANGED <<cl, defs, drifted, op, tr, catalog, inbox, outcome, spent>>
      /\ spent' \in Spending /\ spent'.calls = spent.calls
  BY <1>2, ServersOwn
<1>4. r.sid \in Sids \cup {None} /\ r.tenant \in Tenants
  BY <1>1 DEF Served
<1>5. CASE (Status(r) \/ Respond(r, Message("error", op.id, None, TRUE))) /\ UNCHANGED bind
  <2>1. /\ ClientTyped' /\ Planned' /\ Catalogued' /\ WireTyped' /\ CountsTyped' /\ Called'
        /\ Numbered' /\ Waited' /\ Unique' /\ Told' /\ Telling' /\ serving' \subseteq serving
    BY <1>2, <1>3, <1>5, RespondsStatus, RespondsError
  <2>2. TableTyped' /\ Admitted' /\ Tabled'
    BY <1>1, <1>2, <1>5, <2>1, SessionsStay
  <2>3. QED  BY <2>1, <2>2 DEF McpInv
<1>6. CASE /\ r.method \in {"notifications/initialized", "tools/list", "list", "read"} /\ Result(r, None)
           /\ \/ UNCHANGED bind
              \/ /\ r.sid # None /\ bind[r.sid] # None
                 /\ bind' = [bind EXCEPT ![r.sid].initialized = TRUE]
  <2>1. r.call = 0
    BY <1>1, <1>6 DEF Called
  <2>2. /\ ClientTyped' /\ Planned' /\ Catalogued' /\ WireTyped' /\ CountsTyped' /\ Called'
        /\ Numbered' /\ Waited' /\ Unique' /\ Told' /\ Telling' /\ serving' \subseteq serving
    BY <1>2, <1>3, <1>6, <2>1, RespondsResult
  <2>3. /\ bind' \in [Sids -> Bindings \cup {None}]
        /\ \A s \in Sids : bind'[s] # None => bind[s] # None /\ bind'[s].tenant = bind[s].tenant
    <3>1. CASE bind' = bind
      BY <1>1, <3>1
    <3>2. CASE /\ r.sid # None /\ bind[r.sid] # None
               /\ bind' = [bind EXCEPT ![r.sid].initialized = TRUE]
      <4>1. r.sid \in Sids /\ bind[r.sid] \in Bindings
        BY <1>1, <1>4, <3>2
      <4>2. PICK b : b = [bind[r.sid] EXCEPT !.initialized = TRUE]
        OBVIOUS
      <4>3. b \in Bindings /\ b.tenant = bind[r.sid].tenant
        BY <4>1, <4>2 DEF Bindings
      <4>4. bind' = [bind EXCEPT ![r.sid] = b]
        BY <3>2, <4>2
      <4>5. QED  BY <1>1, <3>2, <4>1, <4>3, <4>4
    <3>3. QED  BY <1>6, <3>1, <3>2
  <2>4. /\ TableTyped' /\ Tabled'
        /\ \A s \in Sids : bind'[s] # None => bind'[s].tenant = owner'[s]
    BY <1>1, <1>2, <2>3, SessionsShrink
  <2>5. Admitted'
    BY <1>1, <1>2, <2>2, <2>4, AdmittedStays
  <2>6. QED  BY <2>2, <2>4, <2>5 DEF McpInv
<1>7. CASE /\ r.sid # None
           /\ serving' = (serving \ {r}) \cup {[r EXCEPT !.pc = "exec"]}
           /\ UNCHANGED <<bind, line>>
  <2> DEFINE q == [r EXCEPT !.pc = "exec"]
  <2>1. /\ q \in Served /\ (q.mine <=> r.mine) /\ q.call = r.call /\ q.method = r.method
        /\ q.left = r.left /\ q.pc = "exec" /\ q.sid = r.sid /\ q.tenant = r.tenant
    BY <1>1 DEF Served
  <2>2. serving' = (serving \ {r}) \cup {q}
    BY <1>7
  <2> HIDE DEF q
  <2>3. /\ ClientTyped' /\ Planned' /\ Catalogued' /\ WireTyped' /\ CountsTyped' /\ Called'
        /\ Numbered' /\ Waited' /\ Unique' /\ Told' /\ Telling'
    BY <1>2, <1>3, <1>7, <2>1, <2>2, Advances
  <2>4. TableTyped' /\ Tabled'
    BY <1>1, <1>2, <1>7 DEF TableTyped, Tabled, SessionTable, Bound
  <2>5. owner[r.sid] = r.tenant
    BY <1>1, <1>2, <1>7 DEF Admitted
  <2>6. Admitted'
    BY <1>1, <1>2, <1>7, <2>1, <2>2, <2>5 DEF Admitted
  <2>7. QED  BY <2>3, <2>4, <2>6 DEF McpInv
<1>8. QED  BY <1>2, <1>5, <1>6, <1>7

(* The callback has executed the tool.                                     *)
LEMMA ExecuteKeeps ==
    ASSUME McpInv, execute_mcp_tool
    PROVE  McpInv'
<1>1. /\ TableTyped /\ Admitted /\ Tabled /\ serving \subseteq Served /\ Called
  BY DEF McpInv, WireTyped
<1>2. PICK r \in serving :
         /\ r.pc = "exec"
         /\ ran' = IF r.call # 0 THEN [ran EXCEPT ![r.call] = @ + 1] ELSE ran
         /\ \/ Result(r, None)
            \/ r.left > 1 /\ UNCHANGED line /\ NextMessage(r)
            \/ Status(r)
         /\ UNCHANGED <<bind, owner, down>> /\ ServerOnly
  BY Zenon DEF execute_mcp_tool
<1>3. /\ UNCHANGED <<cl, defs, drifted, op, tr, catalog, inbox, outcome, spent>>
      /\ spent' \in Spending /\ spent'.calls = spent.calls
  BY <1>2, ServersOwn
<1>4. CASE Result(r, None) \/ Status(r)
  <2>1. ran' = ran \/ (r.call # 0 /\ ran' = [ran EXCEPT ![r.call] = @ + 1])
    BY <1>2
  <2>2. CASE Status(r)
    <3>1. /\ ClientTyped' /\ Planned' /\ Catalogued' /\ WireTyped' /\ CountsTyped' /\ Called'
          /\ Numbered' /\ Waited' /\ Unique' /\ Told' /\ Telling' /\ serving' \subseteq serving
      BY <1>2, <1>3, <2>1, <2>2, RespondsStatus
    <3>2. TableTyped' /\ Admitted' /\ Tabled'
      BY <1>1, <1>2, <3>1, SessionsStay
    <3>3. QED  BY <3>1, <3>2 DEF McpInv
  <2>3. CASE Result(r, None)
    <3>1. /\ ClientTyped' /\ Planned' /\ Catalogued' /\ WireTyped' /\ CountsTyped' /\ Called'
          /\ Numbered' /\ Waited' /\ Unique' /\ Told' /\ Telling' /\ serving' \subseteq serving
      BY <1>2, <1>3, <2>3, RespondsResult
    <3>2. TableTyped' /\ Admitted' /\ Tabled'
      BY <1>1, <1>2, <3>1, SessionsStay
    <3>3. QED  BY <3>1, <3>2 DEF McpInv
  <2>4. QED  BY <1>4, <2>2, <2>3
<1>5. CASE r.left > 1 /\ UNCHANGED line /\ NextMessage(r)
  <2>1. r.left \in 1..2 /\ r.left - 1 \in 1..2
    BY <1>1, <1>5 DEF Served
  <2>2. r.call = 0
    BY <1>1, <1>5, <2>1 DEF Called
  <2>3. PICK left \in 1..2 : serving' = (serving \ {r}) \cup {[r EXCEPT !.pc = "body", !.left = left]}
    BY <1>5, <2>1 DEF NextMessage
  <2> DEFINE q == [r EXCEPT !.pc = "body", !.left = left]
  <2>4. /\ q \in Served /\ (q.mine <=> r.mine) /\ q.call = r.call /\ q.method = r.method
        /\ q.pc = "body" /\ q.sid = r.sid /\ q.tenant = r.tenant
    BY <1>1 DEF Served
  <2>5. serving' = (serving \ {r}) \cup {q}
    BY <2>3
  <2> HIDE DEF q
  <2>6. ran' = ran
    BY <1>2, <2>2
  <2>7. /\ ClientTyped' /\ Planned' /\ Catalogued' /\ WireTyped' /\ CountsTyped' /\ Called'
        /\ Numbered' /\ Waited' /\ Unique' /\ Told' /\ Telling'
    BY <1>2, <1>3, <1>5, <2>2, <2>4, <2>5, <2>6, Advances
  <2>8. TableTyped' /\ Tabled'
    BY <1>1, <1>2 DEF TableTyped, Tabled, SessionTable, Bound
  <2>9. r.sid # None /\ owner[r.sid] = r.tenant
    BY <1>1, <1>2 DEF Admitted
  <2>10. Admitted'
    BY <1>1, <1>2, <2>4, <2>5, <2>9 DEF Admitted
  <2>11. QED  BY <2>7, <2>8, <2>10 DEF McpInv
<1>6. QED  BY <1>2, <1>4, <1>5

(* The time limit around a request.                                        *)
LEMMA ServerTimeoutKeeps ==
    ASSUME McpInv, ServerTimeout
    PROVE  McpInv'
<1>1. TableTyped /\ Admitted /\ Tabled /\ spent \in Spending
  BY DEF McpInv, CountsTyped
<1>2. PICK r \in serving :
         /\ Fault /\ Status(r)
         /\ ran' = ran \/ (r.call # 0 /\ ran' = [ran EXCEPT ![r.call] = @ + 1])
         /\ UNCHANGED <<bind, owner, down, drifted, client, inbox, catalog, outcome>>
  BY Zenon DEF ServerTimeout
<1>3. spent' \in Spending /\ spent'.calls = spent.calls
  BY <1>1, <1>2, Faults
<1>4. UNCHANGED <<cl, defs, drifted, op, tr, catalog, inbox, outcome, bind, owner, down>>
  BY <1>2 DEF client
<1>5. /\ ClientTyped' /\ Planned' /\ Catalogued' /\ WireTyped' /\ CountsTyped' /\ Called'
      /\ Numbered' /\ Waited' /\ Unique' /\ Told' /\ Telling' /\ serving' \subseteq serving
  BY <1>2, <1>3, <1>4, RespondsStatus
<1>6. TableTyped' /\ Admitted' /\ Tabled'
  BY <1>1, <1>4, <1>5, SessionsStay
<1>7. QED  BY <1>5, <1>6 DEF McpInv

(* A step of the sessions alone.                                           *)
LEMMA WireStays ==
    ASSUME McpInv,
           UNCHANGED <<cl, defs, drifted, op, tr, catalog, line, inbox, serving, outcome, ran, spent>>
    PROVE  /\ ClientTyped' /\ Planned' /\ Catalogued' /\ WireTyped' /\ CountsTyped' /\ Called'
           /\ Numbered' /\ Waited' /\ Unique' /\ Told' /\ Telling'
<1>1. /\ ClientTyped /\ WireTyped /\ CountsTyped /\ Planned /\ Called
      /\ Catalogued /\ Numbered /\ Waited /\ Unique /\ Told /\ Telling
  BY DEF McpInv
<1>2. ClientTyped' /\ Planned' /\ Catalogued'
  BY <1>1, ClientStays
<1>3. WireTyped' /\ CountsTyped' /\ Called' /\ Unique'
  BY <1>1 DEF WireTyped, CountsTyped, Called, Unique, Posted
<1>4. Numbered' /\ Waited'
  BY <1>1 DEF Numbered, Waited, Posted, Said, Reply
<1>5. Told' /\ Telling'
  BY <1>1 DEF Told, Telling, Pending, Posted, Said, Reply
<1>6. QED  BY <1>2, <1>3, <1>4, <1>5

(* A session gets too old.                                                 *)
LEMMA ExpireKeeps ==
    ASSUME McpInv, Expire
    PROVE  McpInv'
<1>1. TableTyped /\ Admitted /\ Tabled /\ bind \in [Sids -> Bindings \cup {None}] /\ down \in BOOLEAN
  BY DEF McpInv, TableTyped
<1>2. PICK s \in Bound(bind) : bind' = [bind EXCEPT ![s].expired = TRUE]
  BY DEF Expire
<1>3. UNCHANGED <<owner, down, serving, line, ran>> /\ ServerOnly
  BY DEF Expire
<1>4. UNCHANGED <<cl, defs, drifted, op, tr, catalog, inbox, outcome, spent>>
  BY <1>3, ServersOwn
<1>5. /\ bind' \in [Sids -> Bindings \cup {None}]
      /\ \A x \in Sids : bind'[x] # None => bind[x] # None /\ bind'[x].tenant = bind[x].tenant
  <2>1. s \in Sids /\ bind[s] # None /\ bind[s] \in Bindings
    BY <1>1 DEF Bound
  <2>2. PICK b : b = [bind[s] EXCEPT !.expired = TRUE]
    OBVIOUS
  <2>3. b \in Bindings /\ b.tenant = bind[s].tenant
    BY <2>1, <2>2 DEF Bindings
  <2>4. bind' = [bind EXCEPT ![s] = b]
    BY <1>2, <2>2
  <2>5. QED  BY <1>1, <2>1, <2>3, <2>4
<1>6. /\ TableTyped' /\ Tabled'
      /\ \A x \in Sids : bind'[x] # None => bind'[x].tenant = owner'[x]
  BY <1>1, <1>3, <1>5, SessionsShrink
<1>7. Admitted'
  BY <1>1, <1>3, <1>6, AdmittedStays
<1>8. QED  BY <1>3, <1>4, <1>6, <1>7, WireStays DEF McpInv

(* The server is closed, and its sessions with it.                         *)
LEMMA CloseServerKeeps ==
    ASSUME McpInv, CloseServer
    PROVE  McpInv'
<1>1. TableTyped /\ Admitted /\ Tabled
  BY DEF McpInv
<1>2. down' = TRUE /\ bind' = [s \in Sids |-> None]
  BY DEF CloseServer
<1>3. UNCHANGED <<owner, serving, line, ran>> /\ ServerOnly
  BY DEF CloseServer
<1>4. UNCHANGED <<cl, defs, drifted, op, tr, catalog, inbox, outcome, spent>>
  BY <1>3, ServersOwn
<1>5. /\ bind' \in [Sids -> Bindings \cup {None}] /\ \A s \in Sids : bind'[s] = None
      /\ Bound(bind') = {}
  BY <1>2 DEF Bound
<1>6. /\ TableTyped' /\ Tabled'
      /\ \A x \in Sids : bind'[x] # None => bind'[x].tenant = owner'[x]
  BY <1>1, <1>2, <1>3, <1>5, SessionsShrink
<1>7. Admitted'
  BY <1>1, <1>3, <1>6, AdmittedStays
<1>8. QED  BY <1>3, <1>4, <1>6, <1>7, WireStays DEF McpInv

(* Another client asks.                                                    *)
LEMMA OutsiderKeeps ==
    ASSUME McpInv, Outsider
    PROVE  McpInv'
<1>1. /\ ClientTyped /\ WireTyped /\ TableTyped /\ CountsTyped /\ Planned /\ Called
      /\ Catalogued /\ Admitted /\ Tabled /\ Numbered /\ Waited /\ Unique /\ Told /\ Telling
  BY DEF McpInv
<1>2. UNCHANGED <<cl, defs, drifted, op, tr, line, inbox, catalog, bind, owner, down, outcome, ran>>
  BY DEF Outsider, client
<1>3. spent' \in Spending /\ spent'.calls = spent.calls
  BY <1>1, Spends DEF Outsider, CountsTyped
<1>4. PICK t \in Tenants, s \in Sids \cup {None},
           m \in {"initialize", "notifications/initialized", "tools/call", "DELETE"}, left \in 1..2 :
         serving' = serving \cup {ServerRequest(FALSE, t, s, m, left, 0)}
  BY Zenon DEF Outsider
<1> DEFINE q == ServerRequest(FALSE, t, s, m, left, 0)
<1>5. q \in Served /\ ~q.mine /\ q.call = 0 /\ q.pc = "arrive"
  BY DEF ServerRequest, Served, Methods
<1>6. serving' = serving \cup {q} /\ Posted' = Posted \cup {q}
  BY <1>2, <1>4 DEF Posted
<1> HIDE DEF q
<1>7. ClientTyped' /\ Planned' /\ Catalogued'
  BY <1>1, <1>2, <1>3, ClientStays
<1>8. TableTyped' /\ Admitted' /\ Tabled'
  BY <1>1, <1>2, <1>5, <1>6, SessionsStay
<1>9. WireTyped' /\ CountsTyped' /\ Numbered'
  BY <1>1, <1>2, <1>3, <1>5, <1>6 DEF WireTyped, CountsTyped, Numbered, Said, Reply
<1>10. Called' /\ Unique'
  <2>1. spent.calls \in Nat
    BY <1>1 DEF Called
  <2>2. QED  BY <1>1, <1>3, <1>5, <1>6, <2>1 DEF Called, Unique
<1>11. Said' = Said /\ \A x : Reply(x)' <=> Reply(x)
  BY <1>2 DEF Said, Reply
<1>12. Waited'
  BY <1>1, <1>2, <1>5, <1>6, <1>11 DEF Waited
<1>13. \A n : n # 0 => (Pending(n)' <=> Pending(n))
  BY <1>5, <1>6 DEF Pending
<1>14. Told'
  <2>1. \A n \in Calls : n # 0
    BY Bounds DEF Calls
  <2>2. QED  BY <1>1, <1>2, <1>3, <1>13, <2>1 DEF Told
<1>15. Telling'
  BY <1>1, <1>2, <1>11, <1>13 DEF Telling
<1>16. QED
  BY <1>7, <1>8, <1>9, <1>10, <1>12, <1>14, <1>15 DEF McpInv

-----------------------------------------------------------------------------
(* The invariant of the specification.                                     *)

(* A client just connected and a server without sessions.                  *)
LEMMA InitInv ==
    ASSUME Init
    PROVE  McpInv
<1>0. /\ cl \in Clients /\ tr \in Transports
  BY Bounds DEF Init, Clients, Transports, NewTransport
<1>1. ClientTyped /\ WireTyped /\ Catalogued /\ Planned
  <2>1. ClientTyped
    BY <1>0 DEF Init, ClientTyped
  <2>2. WireTyped
    BY Silent DEF Init, WireTyped
  <2>3. Catalogued /\ Planned
    BY DEF Init, Catalogued, Planned
  <2>4. QED  BY <2>1, <2>2, <2>3
<1>2. TableTyped /\ CountsTyped
  BY DEF Init, TableTyped, CountsTyped, Spending
<1>3. /\ Said = {} /\ Posted = {} /\ Bound(bind) = {}
      /\ \A t \in Tenants : {s \in Bound(bind) : bind[s].tenant = t} = {}
  BY DEF Init, Said, Values, Posted, Bound
<1>4. Called /\ Admitted /\ Numbered /\ Waited /\ Unique
  BY <1>3, Bounds DEF Init, Called, Admitted, Numbered, Waited, Unique, Posted
<1>5. IsFiniteSet({}) /\ Cardinality({}) = 0
  BY FS_EmptySet
<1>6. Tabled
  BY <1>3, <1>5, Bounds DEF Tabled, SessionTable
<1>7. Told /\ Telling
  BY <1>3 DEF Init, Told, Telling, Pending, Calls
<1>8. QED  BY <1>1, <1>2, <1>4, <1>6, <1>7 DEF McpInv

(* Every step keeps the invariant.                                         *)
LEMMA StepInv ==
    ASSUME McpInv, [Next]_vars
    PROVE  McpInv'
<1>1. CASE \/ new \/ invalidate_discovery \/ call_tool \/ Decide \/ close \/ reconnect
           \/ Attempt \/ AttemptFails \/ NotPrepared \/ Dispatch \/ Incoming
  BY <1>1, NewKeeps, InvalidateKeeps, CallKeeps, DecideKeeps, CloseKeeps, ReconnectKeeps,
     AttemptKeeps, AttemptFailsKeeps, NotPreparedKeeps, DispatchKeeps, IncomingKeeps
<1>2. CASE list_resources \/ list_prompts \/ read_resource \/ get_prompt
  BY <1>2, DiscoverKeeps, FetchKeeps
     DEF list_resources, list_prompts, read_resource, get_prompt
<1>3. CASE Timeout \/ Dropped \/ Report \/ ReportFails \/ PeerServes \/ PeerNoise \/ Lost
  BY <1>3, TimeoutKeeps, DroppedKeeps, ReportKeeps, ReportFailsKeeps, PeerServesKeeps,
     PeerNoiseKeeps, LostKeeps
<1>4. CASE \/ Arrive \/ Resolved \/ initialize \/ dispatch \/ execute_mcp_tool
           \/ ServerTimeout \/ Expire \/ CloseServer \/ Outsider
  BY <1>4, ArriveKeeps, ResolvedKeeps, InitializeKeeps, DispatchServerKeeps, ExecuteKeeps,
     ServerTimeoutKeeps, ExpireKeeps, CloseServerKeeps, OutsiderKeeps
<1>5. CASE UNCHANGED vars
  <2>1. /\ UNCHANGED <<drifted, cl, defs, op, tr, line, inbox, catalog>>
        /\ UNCHANGED <<bind, owner, down, serving, outcome, ran, spent>>
    BY <1>5 DEF vars, client, server
  <2>2. UNCHANGED ClientTyped /\ UNCHANGED WireTyped /\ UNCHANGED TableTyped
        /\ UNCHANGED CountsTyped
    BY <2>1 DEF ClientTyped, WireTyped, TableTyped, CountsTyped
  <2>3. UNCHANGED Planned /\ UNCHANGED Called /\ UNCHANGED Catalogued /\ UNCHANGED Admitted
    BY <2>1 DEF Planned, Called, Catalogued, Admitted, Posted
  <2>4. UNCHANGED Tabled /\ UNCHANGED Numbered /\ UNCHANGED Waited /\ UNCHANGED Unique
    BY <2>1 DEF Tabled, SessionTable, Bound, Numbered, Waited, Unique, Posted, Said,
                Values, Reply, SameId
  <2>5. UNCHANGED Told /\ UNCHANGED Telling
    BY <2>1 DEF Told, Telling, Pending, Posted, Said, Values, Reply, SameId
  <2>6. QED  BY <2>2, <2>3, <2>4, <2>5 DEF McpInv
<1>6. QED  BY <1>1, <1>2, <1>3, <1>4, <1>5 DEF Next

(* The invariant of the client, its peer and the server holds throughout   *)
(* every behaviour.                                                        *)
THEOREM McpInductive == Spec => []McpInv
<1>1. Init => McpInv
  BY InitInv
<1>2. McpInv /\ [Next]_vars => McpInv'
  BY StepInv
<1>3. QED  BY <1>1, <1>2, PTL DEF Spec

(* Whatever is lost, repeated, dropped or timed out, the caller of          *)
(* tools/call is told the truth: "failed" is never executed, "completed"    *)
(* has been, and no call is executed twice.  (Client::exchange,             *)
(* call_tool_inner, the three transports.)                                  *)
THEOREM McpOutcomeHonest == Spec => []OutcomeHonest
<1>1. McpInv => OutcomeHonest
  BY DEF McpInv, Told, OutcomeHonest
<1>2. QED  BY <1>1, McpInductive, PTL

(* Until a reconnect has told the host that the catalog changed, a client   *)
(* that can be called has the catalog its manager published, however many   *)
(* reconnects failed, were dropped or met another server.                   *)
(* (ClientManager::reconnect.)                                              *)
THEOREM McpCatalogPinned == Spec => []CatalogPinned
<1>1. McpInv => CatalogPinned
  BY DEF McpInv, Catalogued, CatalogPinned, DriftRejected
<1>2. QED  BY <1>1, McpInductive, PTL

(* The host executes for a tenant only what came in on a session of that    *)
(* tenant, a closed server has no sessions, and there are never more of     *)
(* them than the limits allow, in all and per tenant.  (admit, initialize,  *)
(* dispatch, close of the server.)                                          *)
THEOREM McpSessionsSound == Spec => []SessionsSound
<1>1. McpInv => TenantBound
  BY DEF McpInv, Admitted, TenantBound
<1>2. McpInv => SessionTable
  BY DEF McpInv, Tabled
<1>3. McpInv => SessionsSound
  BY <1>1, <1>2 DEF SessionsSound
<1>4. QED  BY <1>3, McpInductive, PTL

--------------------------------------------------------------------------------
(* The language server client.                                             *)

Steps == {"init", "initialized", "open", "ask", "close"}
LspOps == {"diagnostics", "hover", "workspaceSymbol"}

FrameType == [step : Steps, call : Requests, id : Nat]
Publish == [kind : {"publish"}, path : Requests, version : {0, 1}]
AskFrames == [kind : {"request"}]
Replied == [kind : {"answer"}, id : Nat, call : Requests, outcome : {"result", "error", "odd"}]
Noise == [kind : {"noise"}, id : {0}, call : {NoPath}, outcome : {"result"}]
LspMessage == Publish \cup AskFrames \cup Replied \cup Noise

SessionType ==
    [driver : {"none", "drive", "send", "reply", "clean", "done"}, clean : BOOLEAN,
     alive : BOOLEAN, stop : BOOLEAN, cmd : Seq(FrameType), ack : {"none", "ok", "failed"},
     wire : Seq(LspMessage), pending : Seq(LspMessage), inbox : Seq(Replied \cup Noise),
     path : Requests \cup {NoPath}, value : Seq(Publish), next : Nat, pull : BOOLEAN,
     asked : SUBSET FrameType, opened : SUBSET Requests, talk : Nat]

CallType ==
    [op : LspOps, at : Steps \cup {"idle", "lock", "closing", "over"},
     wait : {"no", "write", "ack", "answer"}, with : Sessions \cup {0},
     id : Nat, read : Nat, result : Seq(LspMessage)]

Types ==
    /\ lsp \in [Sessions -> SessionType]
    /\ call \in [Requests -> CallType]
    /\ cached \in Sessions \cup {0}
    /\ drivers \subseteq Sessions
    /\ lock \in Requests \cup {"free", "close"}
    /\ shut \in {"no", "stored", "told"}
    /\ closing \in {"no", "stored", "waiting", "joining", "returned"}

(* What a call needs in order to have a session.                           *)
HasSession == \A c \in Requests : call[c].with = 0 <=> call[c].at \in {"idle", "lock", "over"}
SendsWhatItHas == \A s \in Sessions : lsp[s].driver = "send" => lsp[s].cmd # <<>>

Shape == Types /\ HasSession /\ SendsWhatItHas

--------------------------------------------------------------------------------
(* Who has a session.                                                      *)

(* A process has a driver that close will join.                            *)
Watched == \A s \in Sessions : /\ lsp[s].alive <=> Active(s)
                               /\ Active(s) => s \in drivers

(* A driver that nobody has is told to stop.                               *)
Had == \A s \in Sessions : Active(s) /\ ~lsp[s].stop =>
          cached = s \/ \E c \in Requests : call[c].with = s

Started ==
    /\ \A c \in Requests : call[c].with # 0 => lsp[call[c].with].driver # "none"
    /\ cached # 0 => lsp[cached].driver # "none"

(* One at a time, and the cache is empty meanwhile.                        *)
Locking ==
    /\ \A c \in Requests : lock = c <=> call[c].with # 0
    /\ lock # "free" => cached = 0
    /\ lock = "close" <=> closing = "joining"

Shutting ==
    /\ closing \in {"waiting", "joining", "returned"} => shut = "told"
    /\ closing = "returned" => lock = "free" /\ cached = 0 /\ \A s \in Sessions : ~Active(s)

Owned == Watched /\ Had /\ Started /\ Locking /\ Shutting

--------------------------------------------------------------------------------
(* Whose answer it is.                                                     *)

(* Something in session q, on its way to the server or back, has id k and  *)
(* belongs to call c.                                                      *)
Mark(q, k, c) ==
    \/ \E i \in DOMAIN q.cmd : q.cmd[i].id = k /\ q.cmd[i].call = c
    \/ \E m \in q.asked : m.id = k /\ m.call = c
    \/ \E i \in DOMAIN q.wire :
          q.wire[i] \in Replied \cup Noise /\ q.wire[i].id = k /\ q.wire[i].call = c
    \/ \E i \in DOMAIN q.pending :
          q.pending[i] \in Replied \cup Noise /\ q.pending[i].id = k /\ q.pending[i].call = c
    \/ \E i \in DOMAIN q.inbox : q.inbox[i].id = k /\ q.inbox[i].call = c

(* No id is ahead of the session's.                                        *)
NumberedIds == \A s \in Sessions : \A k, c : Mark(lsp[s], k, c) => k <= lsp[s].next

(* What a call waits for was asked by nobody else.                         *)
OwnId ==
    \A c \in Requests : call[c].with # 0 /\ call[c].wait \in {"ack", "answer"} /\ call[c].id # 0 =>
        /\ call[c].id = lsp[call[c].with].next
        /\ \A d : Mark(lsp[call[c].with], call[c].id, d) => d = c

Waits == \A c \in Requests : call[c].wait = "answer" => call[c].id # 0

(* What is published is kept for the tracked document, which is the one of *)
(* the call.                                                               *)
Tracked ==
    /\ \A s \in Sessions : lsp[s].value # <<>> => lsp[s].value[1].path = lsp[s].path
    /\ \A c \in Requests :
          /\ HasDocument(c)
          /\ \/ call[c].at \in {"ask", "close"}
             \/ call[c].at = "open" /\ call[c].wait # "write"
          => lsp[call[c].with].path = Path(c)

Own == NumberedIds /\ OwnId /\ Waits /\ Tracked /\ AnswersOwn

--------------------------------------------------------------------------------
(* What the operators make of sessions and calls.                          *)

LEMMA NewTypes ==
  /\ NewSession \in SessionType
  /\ \A what \in LspOps : NewCall(what) \in CallType
<1>1. /\ <<>> \in Seq(FrameType) /\ <<>> \in Seq(LspMessage) /\ <<>> \in Seq(Publish)
      /\ <<>> \in Seq(Replied \cup Noise)
  OBVIOUS
<1>2. NewSession \in SessionType
  BY <1>1 DEF NewSession, SessionType
<1>3. \A what \in LspOps : NewCall(what) \in CallType
  BY <1>1 DEF NewCall, CallType
<1> QED BY <1>2, <1>3

(* A session that is told to stop is as good as new but for its process.   *)
LEMMA Stopped ==
  ASSUME NEW q \in [Sessions -> SessionType], NEW s \in Sessions
  PROVE  /\ Stop(s, q) \in [Sessions -> SessionType]
         /\ \A t \in Sessions \ {s} : Stop(s, q)[t] = q[t]
         /\ Stop(s, q)[s].alive = q[s].alive /\ Stop(s, q)[s].stop
         /\ Stop(s, q)[s].driver = IF q[s].driver \in {"clean", "done"} THEN q[s].driver ELSE "drive"
         /\ Stop(s, q)[s].value = <<>> /\ Stop(s, q)[s].next = 0
         /\ \A k, c : ~Mark(Stop(s, q)[s], k, c)
<1> DEFINE d == IF q[s].driver \in {"clean", "done"} THEN q[s].driver ELSE "drive"
           a == q[s].alive
           r == [NewSession EXCEPT !.driver = d, !.alive = a, !.stop = TRUE]
<1>1. Stop(s, q) = [q EXCEPT ![s] = r]
  BY DEF Stop
<1>2. d \in {"drive", "clean", "done"} /\ a \in BOOLEAN
  BY DEF SessionType
<1> HIDE DEF d, a
<1>3. r \in SessionType
  BY <1>2, NewTypes DEF SessionType
<1>4. /\ r.driver = d /\ r.alive = a /\ r.stop = TRUE /\ r.value = <<>> /\ r.next = 0
      /\ r.cmd = <<>> /\ r.asked = {} /\ r.wire = <<>> /\ r.pending = <<>> /\ r.inbox = <<>>
  BY DEF NewSession
<1> HIDE DEF r
<1>5. \A k, c : ~Mark(r, k, c)
  BY <1>4 DEF Mark
<1>6. Stop(s, q)[s] = r /\ \A t \in Sessions \ {s} : Stop(s, q)[t] = q[t]
  BY <1>1
<1>7. Stop(s, q) \in [Sessions -> SessionType]
  BY <1>1, <1>3
<1> QED BY <1>4, <1>5, <1>6, <1>7 DEF d, a

LEMMA GoneOutcome ==
  ASSUME Types, NEW c \in Requests, NEW result \in Seq(LspMessage), call' = Gone(c, result)
  PROVE  /\ call' \in [Requests -> CallType]
         /\ \A d \in Requests \ {c} : call'[d] = call[d]
         /\ call'[c].at = "over" /\ call'[c].with = 0 /\ call'[c].wait = "no"
         /\ call'[c].op = call[c].op /\ call'[c].result = result
<1>1. call \in [Requests -> CallType] /\ call[c].op \in LspOps
  BY DEF Types, CallType
<1> DEFINE n == NewCall(call[c].op)
           r == [n EXCEPT !.at = "over", !.result = result]
<1>2. call' = [call EXCEPT ![c] = r]
  BY DEF Gone
<1>n. n \in CallType /\ n.with = 0 /\ n.wait = "no" /\ n.op = call[c].op
  BY <1>1, NewTypes DEF NewCall
<1> HIDE DEF n
<1>3. r \in CallType
  BY <1>n DEF CallType
<1>4. r.at = "over" /\ r.with = 0 /\ r.wait = "no" /\ r.op = call[c].op /\ r.result = result
  BY <1>n DEF CallType
<1> HIDE DEF r
<1> QED BY <1>1, <1>2, <1>3, <1>4

LEMMA GoOnOutcome ==
  ASSUME Types, NEW c \in Requests, NEW s \in Sessions, NEW q \in [Sessions -> SessionType],
         NEW step \in Steps \cup {"closing"}, NEW result \in Seq(LspMessage),
         GoOn(c, s, q, step, result)
  PROVE  /\ call' \in [Requests -> CallType]
         /\ \A d \in Requests \ {c} : call'[d] = call[d]
         /\ call'[c].at = step /\ call'[c].with = s /\ call'[c].wait = "write"
         /\ call'[c].op = call[c].op /\ call'[c].result = result
         /\ lsp' \in [Sessions -> SessionType]
         /\ \A t \in Sessions \ {s} : lsp'[t] = q[t]
         /\ step = "closing" => lsp'[s] = Stop(s, q)[s]
         /\ step # "closing" => lsp'[s] = q[s]
<1>1. call \in [Requests -> CallType]
  BY DEF Types
<1> DEFINE r == [call[c] EXCEPT !.at = step, !.wait = "write", !.with = s, !.result = result]
<1>2. call' = [call EXCEPT ![c] = r]
  BY <1>1 DEF GoOn, CallType
<1>3. r \in CallType
  BY <1>1 DEF CallType
<1>4. r.at = step /\ r.with = s /\ r.wait = "write" /\ r.op = call[c].op /\ r.result = result
  BY <1>1 DEF CallType
<1> HIDE DEF r
<1>5. lsp' = IF step = "closing" THEN Stop(s, q) ELSE q
  BY DEF GoOn
<1>6. /\ lsp' \in [Sessions -> SessionType]
      /\ \A t \in Sessions \ {s} : lsp'[t] = q[t]
  BY <1>5, Stopped
<1> QED BY <1>1, <1>2, <1>3, <1>4, <1>5, <1>6

--------------------------------------------------------------------------------
(* What a call does with the session it has.                               *)

(* A session that somebody read from.                                      *)
Read(s, q) ==
    /\ q \in [Sessions -> SessionType]
    /\ \A t \in Sessions \ {s} : q[t] = lsp[t]
    /\ q[s].driver = lsp[s].driver /\ q[s].alive = lsp[s].alive /\ q[s].stop = lsp[s].stop
    /\ q[s].cmd = lsp[s].cmd /\ q[s].next = lsp[s].next
    /\ \A k, c : Mark(q[s], k, c) => Mark(lsp[s], k, c)

Tracks(s, q) == q[s].path = lsp[s].path /\ q[s].value = lsp[s].value
Forgets(s, q) == q[s].value = <<>>

(* The result is what AnswersOwn allows.                                   *)
Right(c, result) ==
    result # <<>> =>
        LET m == result[1]
        IN  IF m.kind = "publish" THEN m.path = Path(c) /\ m.version >= 1 /\ call[c].op = "diagnostics"
            ELSE m.call = c /\ m.outcome = "result"

Says(c, result) == result \in Seq(LspMessage) /\ (Own => Right(c, result))

Goes(c, q, step, result) ==
    /\ call[c].at \in Steps
    /\ step \in Steps \cup {"closing"}
    /\ Read(call[c].with, q) /\ (step # "closing" => Tracks(call[c].with, q)) /\ Says(c, result)
    /\ (Own /\ HasDocument(c) /\ step \in {"ask", "close"} => lsp[call[c].with].path = Path(c))
    /\ GoOn(c, call[c].with, q, step, result)
    /\ UNCHANGED tool

(* Finish, with a result.                                                  *)
Returns(c, q, result) ==
    /\ call[c].at \in Steps
    /\ Read(call[c].with, q) /\ (Tracks(call[c].with, q) \/ Forgets(call[c].with, q))
    /\ Says(c, result)
    /\ call' = Gone(c, result) /\ lsp' = q
    /\ cached' = call[c].with /\ lock' = "free"
    /\ UNCHANGED <<drivers, shut, closing>>

LEMMA InboxRead ==
  ASSUME Types, NEW s \in Sessions, lsp[s].inbox # <<>>
  PROVE  /\ Read(s, [lsp EXCEPT ![s].inbox = Tail(@)])
         /\ Tracks(s, [lsp EXCEPT ![s].inbox = Tail(@)])
<1>1. lsp \in [Sessions -> SessionType]
  BY DEF Types
<1> DEFINE r == [lsp[s] EXCEPT !.inbox = Tail(lsp[s].inbox)]
           q == [lsp EXCEPT ![s].inbox = Tail(@)]
           b == lsp[s].inbox
<1>2. b \in Seq(Replied \cup Noise) /\ b # <<>>
  BY <1>1 DEF SessionType
<1>3. /\ Tail(b) \in Seq(Replied \cup Noise)
      /\ \A i \in DOMAIN Tail(b) : i + 1 \in DOMAIN b /\ Tail(b)[i] = b[i + 1]
  <2> HIDE DEF b
  <2> QED BY <1>2
<1>4. r \in SessionType
  <2> DEFINE rest == Tail(lsp[s].inbox)
             old == lsp[s]
  <2>1. rest \in Seq(Replied \cup Noise) /\ old \in SessionType
    BY <1>1, <1>3
  <2> HIDE DEF rest, old
  <2>2. [old EXCEPT !.inbox = rest] \in SessionType
    BY <2>1 DEF SessionType
  <2> QED BY <2>2 DEF rest, old
<1>5. q = [lsp EXCEPT ![s] = r]
  BY <1>1
<1>6. /\ r.driver = lsp[s].driver /\ r.alive = lsp[s].alive /\ r.stop = lsp[s].stop
      /\ r.cmd = lsp[s].cmd /\ r.next = lsp[s].next /\ r.asked = lsp[s].asked
      /\ r.wire = lsp[s].wire /\ r.pending = lsp[s].pending
      /\ r.path = lsp[s].path /\ r.value = lsp[s].value /\ r.inbox = Tail(b)
  BY <1>1 DEF SessionType
<1> HIDE DEF r, q
<1>7. ASSUME NEW k, NEW c, Mark(r, k, c) PROVE Mark(lsp[s], k, c)
  <2>1. CASE \E i \in DOMAIN r.inbox : r.inbox[i].id = k /\ r.inbox[i].call = c
    BY <1>3, <1>6, <2>1 DEF Mark
  <2>2. CASE ~\E i \in DOMAIN r.inbox : r.inbox[i].id = k /\ r.inbox[i].call = c
    BY <1>6, <1>7, <2>2 DEF Mark
  <2> QED BY <2>1, <2>2
<1>8. q[s] = r /\ q \in [Sessions -> SessionType] /\ \A t \in Sessions \ {s} : q[t] = lsp[t]
  BY <1>1, <1>4, <1>5
<1>9. Read(s, q) /\ Tracks(s, q)
  BY <1>6, <1>7, <1>8 DEF Read, Tracks
<1> QED BY <1>9 DEF q

LEMMA NothingRead ==
  ASSUME Types, NEW s \in Sessions
  PROVE  Read(s, lsp) /\ Tracks(s, lsp)
  BY DEF Types, Read, Tracks

LEMMA UntrackedRead ==
  ASSUME Types, NEW s \in Sessions, NEW q, Read(s, q)
  PROVE  Read(s, Untracked(s, q)) /\ Forgets(s, Untracked(s, q))
<1>1. q \in [Sessions -> SessionType]
  BY DEF Read
<1> DEFINE r == [q[s] EXCEPT !.path = NoPath, !.value = <<>>]
<1>2. Untracked(s, q) = [q EXCEPT ![s] = r]
  BY <1>1 DEF Untracked, SessionType
<1>3. r \in SessionType
  <2> DEFINE old == q[s]
  <2>1. old \in SessionType /\ <<>> \in Seq(Publish)
    BY <1>1
  <2> HIDE DEF old
  <2>2. [old EXCEPT !.path = NoPath, !.value = <<>>] \in SessionType
    BY <2>1 DEF SessionType
  <2> QED BY <2>2 DEF old
<1>4. /\ r.driver = q[s].driver /\ r.alive = q[s].alive /\ r.stop = q[s].stop
      /\ r.cmd = q[s].cmd /\ r.next = q[s].next /\ r.asked = q[s].asked
      /\ r.wire = q[s].wire /\ r.pending = q[s].pending /\ r.inbox = q[s].inbox
      /\ r.value = <<>>
  BY <1>1 DEF SessionType
<1> HIDE DEF r
<1>5. \A k, c : Mark(r, k, c) => Mark(q[s], k, c)
  BY <1>4 DEF Mark
<1>6. /\ Untracked(s, q)[s] = r /\ Untracked(s, q) \in [Sessions -> SessionType]
      /\ \A t \in Sessions \ {s} : Untracked(s, q)[t] = q[t]
  BY <1>1, <1>2, <1>3
<1> QED BY <1>4, <1>5, <1>6 DEF Read, Forgets

GoesOn(c) == \E q, step, result : Goes(c, q, step, result)
GivesBack(c) == \E q, result : Returns(c, q, result)

LEMMA CallHas ==
  ASSUME Shape, NEW c \in Requests, call[c].at \in Steps \cup {"closing"}
  PROVE  call[c].with \in Sessions /\ call[c].with # 0 /\ call[c].result \in Seq(LspMessage)
<1>1. 0 \notin Sessions
  BY LspAssumption
<1>2. call[c] \in CallType /\ call[c].with # 0
  BY DEF Shape, Types, HasSession, Steps
<1> QED BY <1>1, <1>2 DEF CallType

(* What follows a step is another one, or the end.                         *)
LEMMA AdvanceMoves ==
  ASSUME Shape, NEW c \in Requests, call[c].at \in Steps,
         call[c].at = "open" => call[c].wait # "write",
         NEW q, Read(call[c].with, q), Tracks(call[c].with, q),
         NEW result, Says(c, result), Advance(c, q, result)
  PROVE  GoesOn(c) \/ GivesBack(c)
<1> DEFINE s == call[c].with
           To(step) == GoOn(c, s, q, step, result) /\ UNCHANGED tool
<1>0. s \in Sessions
  BY CallHas
<1>1. ASSUME NEW step \in Steps \cup {"closing"}, To(step),
             HasDocument(c) /\ step \in {"ask", "close"} /\ Own => lsp[s].path = Path(c)
      PROVE  GoesOn(c)
  <2>1. Goes(c, q, step, result)
    BY <1>1 DEF Goes
  <2> QED BY <2>1 DEF GoesOn
<1>2. ASSUME NEW q2, Read(s, q2), Tracks(s, q2) \/ Forgets(s, q2), Finish(c, q2, result)
      PROVE  GoesOn(c) \/ GivesBack(c)
  <2>1. CASE result = <<>>
    <3>1. Goes(c, q2, "closing", result)
      BY <1>2, <2>1 DEF Goes, Finish
    <3> QED BY <3>1 DEF GoesOn
  <2>2. CASE result # <<>>
    <3>1. Returns(c, q2, result)
      BY <1>2, <2>2 DEF Returns, Finish
    <3> QED BY <3>1 DEF GivesBack
  <2> QED BY <2>1, <2>2
<1>3. CASE call[c].at = "init"
  <2>1. To("initialized")
    BY <1>3 DEF Advance
  <2> HIDE DEF To
  <2> QED BY <1>1, <2>1 DEF Steps
<1>4. CASE call[c].at = "initialized"
  <2>1. To(FirstStep(c, FALSE))
    BY <1>4 DEF Advance
  <2>2. /\ FirstStep(c, FALSE) \in {"closing", "open", "ask"}
        /\ HasDocument(c) => FirstStep(c, FALSE) # "ask"
    BY DEF FirstStep
  <2> HIDE DEF To
  <2> QED BY <1>1, <2>1, <2>2 DEF Steps
<1>5. CASE call[c].at = "open"
  <2>1. To("ask")
    BY <1>5 DEF Advance
  <2>2. HasDocument(c) /\ Own => lsp[s].path = Path(c)
    BY <1>5 DEF Own, Tracked
  <2> HIDE DEF To
  <2> QED BY <1>1, <2>1, <2>2 DEF Steps
<1>6. CASE call[c].at = "ask" /\ HasDocument(c)
  <2>1. To("close")
    BY <1>6 DEF Advance
  <2>2. HasDocument(c) /\ Own => lsp[s].path = Path(c)
    BY <1>6 DEF Own, Tracked
  <2> HIDE DEF To
  <2> QED BY <1>1, <2>1, <2>2 DEF Steps
<1>7. CASE call[c].at = "ask" /\ ~HasDocument(c)
  <2>1. Finish(c, q, result)
    BY <1>7 DEF Advance
  <2> QED BY <1>2, <2>1
<1>8. CASE call[c].at = "close"
  <2>1. Finish(c, Untracked(s, q), result)
    BY <1>8 DEF Advance
  <2>2. Read(s, Untracked(s, q)) /\ Forgets(s, Untracked(s, q))
    BY <1>0, UntrackedRead DEF Shape
  <2> QED BY <1>2, <2>1, <2>2
<1> QED BY <1>3, <1>4, <1>5, <1>6, <1>7, <1>8 DEF Steps

LEMMA NothingSaid == ASSUME NEW c PROVE Says(c, <<>>)
  BY DEF Says, Right

(* What was published is for the document of the call.                     *)
LEMMA PublishedSays ==
  ASSUME Shape, NEW c \in Requests, call[c].at = "ask", call[c].op = "diagnostics"
  PROVE  Says(c, published(call[c].with))
<1> DEFINE s == call[c].with
           v == lsp[s].value
<1>0. s \in Sessions
  BY CallHas DEF Steps
<1>1. v \in Seq(Publish) /\ <<>> \in Seq(LspMessage)
  BY <1>0 DEF Shape, Types, SessionType
<1>2. v \in Seq(LspMessage)
  <2> HIDE DEF v
  <2>1. \A m \in Publish : m \in LspMessage
    BY DEF LspMessage
  <2> QED BY <1>1, <2>1
<1>3. published(s) \in {v, <<>>} /\ (published(s) # <<>> => v # <<>> /\ v[1].version >= 1)
  BY DEF published
<1>4. ASSUME Own, published(s) # <<>> PROVE Right(c, published(s))
  <2>1. HasDocument(c)
    BY DEF HasDocument
  <2>2. lsp[s].path = Path(c)
    BY <1>4, <2>1 DEF Own, Tracked
  <2>3. v # <<>> /\ published(s) = v /\ v[1].version >= 1
    BY <1>3, <1>4
  <2>4. v[1].path = lsp[s].path
    BY <1>0, <1>4, <2>3 DEF Own, Tracked
  <2>5. v[1] \in Publish
    <3> HIDE DEF v
    <3> QED BY <1>1, <2>3
  <2>6. v[1].kind = "publish"
    BY <2>5 DEF Publish
  <2> HIDE DEF v, s
  <2> QED BY <2>2, <2>3, <2>4, <2>6 DEF Right
<1> QED BY <1>1, <1>2, <1>3, <1>4 DEF Says, Right

LEMMA FailMoves ==
  ASSUME Shape, NEW c \in Requests, call[c].at \in Steps,
         NEW q, Read(call[c].with, q), Tracks(call[c].with, q), Fail(c, q)
  PROVE  GoesOn(c) \/ GivesBack(c)
<1>1. CASE call[c].at = "ask"
  <2>1. CASE call[c].op = "diagnostics" /\ ~Pushed(c)
    <3>1. Advance(c, q, published(call[c].with))
      BY <1>1, <2>1 DEF Fail
    <3> QED BY <1>1, <2>1, <3>1, PublishedSays, AdvanceMoves
  <2>2. CASE ~(call[c].op = "diagnostics" /\ ~Pushed(c))
    <3>1. Advance(c, q, <<>>)
      BY <1>1, <2>2 DEF Fail
    <3> QED BY <1>1, <3>1, NothingSaid, AdvanceMoves
  <2> QED BY <2>1, <2>2
<1>2. CASE call[c].at # "ask"
  <2>1. GoOn(c, call[c].with, q, "closing", <<>>) /\ UNCHANGED tool
    BY <1>2 DEF Fail
  <2>2. Goes(c, q, "closing", <<>>)
    BY <2>1, NothingSaid DEF Goes
  <2> QED BY <2>2 DEF GoesOn
<1> QED BY <1>1, <1>2

(* A call that only looked.                                                *)
Looks(c) ==
    /\ call[c].at \in Steps
    /\ \/ call' = call
       \/ call' = [call EXCEPT ![c].read = @ + 1]
       \/ call[c].wait = "ack" /\ call[c].id # 0 /\ call' = [call EXCEPT ![c].wait = "answer"]
    /\ Read(call[c].with, lsp') /\ Tracks(call[c].with, lsp')
    /\ UNCHANGED tool

CallGivesUp(c) ==
    /\ call[c].at = "lock" /\ call' = [call EXCEPT ![c].at = "over"] /\ lsp' = lsp /\ UNCHANGED tool

LEMMA CallMoves ==
  ASSUME Shape, NEW c \in Requests,
         Acked(c) \/ Receive(c) \/ WaitDiagnostics(c) \/ Interrupted(c)
  PROVE  GoesOn(c) \/ GivesBack(c) \/ Looks(c) \/ CallGivesUp(c)
<1> DEFINE s == call[c].with
<1>t. Types
  BY DEF Shape
<1>a. \A wait : Awaits(c, wait) => call[c].at \in Steps /\ call[c].wait = wait
  BY DEF Awaits, InBounded, Steps
<1>n. call[c].at \in Steps => Read(s, lsp) /\ Tracks(s, lsp)
  BY <1>t, CallHas, NothingRead
<1>i. ASSUME call[c].at \in Steps, lsp[s].inbox # <<>>
      PROVE  /\ Read(s, [lsp EXCEPT ![s].inbox = Tail(@)])
             /\ Tracks(s, [lsp EXCEPT ![s].inbox = Tail(@)])
  BY <1>t, <1>i, CallHas, InboxRead
<1>f. ASSUME call[c].at \in Steps, Fail(c, lsp) PROVE GoesOn(c) \/ GivesBack(c)
  BY <1>f, <1>n, FailMoves
<1>1. CASE Acked(c)
  <2>1. CASE Awaits(c, "ack") /\ lsp[s].ack = "ok" /\ call[c].id = 0 /\ Advance(c, lsp, call[c].result)
    <3>1. Says(c, call[c].result)
      BY <1>a, <2>1, CallHas DEF Says, Right, Own, AnswersOwn
    <3> QED BY <1>a, <1>n, <2>1, <3>1, AdvanceMoves
  <2>2. CASE /\ Awaits(c, "ack") /\ call[c].id # 0
             /\ call' = [call EXCEPT ![c].wait = "answer"] /\ UNCHANGED <<lsp, tool>>
    BY <1>a, <1>n, <2>2 DEF Looks
  <2>3. CASE (Awaits(c, "ack") \/ Awaits(c, "write")) /\ Fail(c, lsp)
    BY <1>a, <1>f, <2>3
  <2> QED BY <1>1, <2>1, <2>2, <2>3 DEF Acked
<1>2. CASE Receive(c)
  <2> DEFINE m == Head(lsp[s].inbox)
             rest == [lsp EXCEPT ![s].inbox = Tail(@)]
  <2>1. CASE /\ Awaits(c, "answer") /\ lsp[s].inbox # <<>> /\ m.id = call[c].id
             /\ CASE m.outcome = "result" -> Advance(c, rest, <<m>>)
                  [] m.outcome = "odd" /\ call[c].at = "ask" -> Advance(c, rest, <<>>)
                  [] OTHER -> Fail(c, rest)
    <3>0. /\ call[c].at \in Steps /\ call[c].wait = "answer" /\ s \in Sessions /\ s # 0
          /\ Read(s, rest) /\ Tracks(s, rest)
      BY <1>a, <1>i, <2>1, CallHas
    <3>1. m \in Replied \cup Noise /\ 1 \in DOMAIN lsp[s].inbox /\ m = lsp[s].inbox[1]
      <4> DEFINE b == lsp[s].inbox
      <4>1. b \in Seq(Replied \cup Noise) /\ b # <<>>
        BY <1>t, <2>1, <3>0 DEF Types, SessionType
      <4> HIDE DEF b
      <4>2. Head(b) \in Replied \cup Noise /\ 1 \in DOMAIN b /\ Head(b) = b[1]
        BY <4>1
      <4> QED BY <4>2 DEF b
    <3>2. ASSUME m.outcome = "result" PROVE Says(c, <<m>>)
      <4>1. m \in LspMessage /\ m.kind # "publish"
        BY <3>1 DEF LspMessage, Replied, Noise
      <4>2. ASSUME Own PROVE m.call = c
        <5>1. call[c].id # 0
          BY <3>0, <4>2 DEF Own, Waits
        <5>2. Mark(lsp[s], call[c].id, m.call)
          BY <2>1, <3>1 DEF Mark
        <5> QED BY <3>0, <4>2, <5>1, <5>2 DEF Own, OwnId
      <4> HIDE DEF m
      <4>3. <<m>> \in Seq(LspMessage) /\ <<m>>[1] = m
        BY <4>1
      <4> QED BY <3>2, <4>1, <4>2, <4>3 DEF Says, Right
    <3>3. CASE Advance(c, rest, <<m>>) /\ m.outcome = "result"
      <4> HIDE DEF m, rest
      <4> QED BY <3>0, <3>2, <3>3, AdvanceMoves
    <3>4. CASE Advance(c, rest, <<>>)
      <4> HIDE DEF m, rest
      <4> QED BY <3>0, <3>4, NothingSaid, AdvanceMoves
    <3>5. CASE Fail(c, rest)
      <4> HIDE DEF m, rest
      <4> QED BY <3>0, <3>5, FailMoves
    <3> HIDE DEF m, rest
    <3> QED BY <2>1, <3>3, <3>4, <3>5
  <2>2. CASE /\ Awaits(c, "answer") /\ lsp[s].inbox # <<>>
             /\ \/ call' = [call EXCEPT ![c].read = @ + 1] /\ lsp' = rest /\ UNCHANGED tool
                \/ Fail(c, rest)
    <3>0. call[c].at \in Steps /\ Read(s, rest) /\ Tracks(s, rest)
      BY <1>a, <1>i, <2>2
    <3> HIDE DEF rest
    <3>1. CASE Fail(c, rest)
      BY <3>0, <3>1, FailMoves
    <3>2. CASE call' = [call EXCEPT ![c].read = @ + 1] /\ lsp' = rest /\ UNCHANGED tool
      BY <3>0, <3>2 DEF Looks
    <3> QED BY <2>2, <3>1, <3>2
  <2>3. CASE Awaits(c, "answer") /\ Fail(c, lsp)
    BY <1>a, <1>f, <2>3
  <2>4. \/ /\ Awaits(c, "answer") /\ lsp[s].inbox # <<>> /\ m.id = call[c].id
           /\ CASE m.outcome = "result" -> Advance(c, rest, <<m>>)
                [] m.outcome = "odd" /\ call[c].at = "ask" -> Advance(c, rest, <<>>)
                [] OTHER -> Fail(c, rest)
        \/ /\ Awaits(c, "answer") /\ lsp[s].inbox # <<>>
           /\ \/ call' = [call EXCEPT ![c].read = @ + 1] /\ lsp' = rest /\ UNCHANGED tool
              \/ Fail(c, rest)
        \/ Awaits(c, "answer") /\ Fail(c, lsp)
    BY <1>2 DEF Receive
  <2> QED BY <2>1, <2>2, <2>3, <2>4
<1>3. CASE WaitDiagnostics(c)
  <2>0. call[c].at = "ask" /\ call[c].op = "diagnostics" /\ call[c].at \in Steps
    BY <1>3, <1>a DEF WaitDiagnostics, Pushed
  <2>1. CASE Advance(c, lsp, published(s))
    BY <1>n, <2>0, <2>1, PublishedSays, AdvanceMoves
  <2>2. CASE /\ lsp[s].inbox # <<>> /\ lsp' = [lsp EXCEPT ![s].inbox = Tail(@)]
             /\ UNCHANGED <<call, tool>>
    BY <1>i, <2>0, <2>2 DEF Looks
  <2>3. CASE Fail(c, lsp)
    BY <1>f, <2>0, <2>3
  <2> QED BY <1>3, <2>1, <2>2, <2>3 DEF WaitDiagnostics
<1>4. CASE Interrupted(c)
  <2>1. CASE call[c].at = "lock" /\ call' = [call EXCEPT ![c].at = "over"] /\ UNCHANGED <<lsp, tool>>
    BY <2>1 DEF CallGivesUp
  <2>2. CASE /\ InBounded(c) /\ call[c].at # "lock"
             /\ GoOn(c, call[c].with, lsp, "closing", <<>>) /\ UNCHANGED tool
    <3>1. call[c].at \in Steps
      BY <2>2 DEF InBounded, Steps
    <3>2. Goes(c, lsp, "closing", <<>>)
      BY <1>n, <2>2, <3>1, NothingSaid DEF Goes
    <3> QED BY <3>2 DEF GoesOn
  <2> QED BY <1>4, <2>1, <2>2 DEF Interrupted
<1> QED BY <1>1, <1>2, <1>3, <1>4

--------------------------------------------------------------------------------
(* What a driver and its server do to a session.                           *)

(* The session r after a step of the driver or the server of s.            *)
ServedStep(s, r) ==
    /\ r \in SessionType
    /\ Active(s) /\ r.stop = lsp[s].stop
    /\ \/ r.driver \in {"drive", "send", "reply", "clean"} /\ r.alive = lsp[s].alive
       \/ r.driver = "done" /\ ~r.alive
    /\ r.driver = "send" => r.cmd # <<>>
    /\ r.next = lsp[s].next /\ r.path = lsp[s].path
    /\ r.value # <<>> => r.value = lsp[s].value \/ r.value[1].path = lsp[s].path
    /\ \A k, c : Mark(r, k, c) => Mark(lsp[s], k, c) \/ k = 0

Serves(s) ==
    /\ \E r : ServedStep(s, r) /\ lsp' = [lsp EXCEPT ![s] = r]
    /\ UNCHANGED <<call, tool>>

(* Sessions with some fields set, as the steps below set them.             *)
LEMMA SetOver ==
  ASSUME NEW q \in SessionType,
         NEW d \in {"none", "drive", "send", "reply", "clean", "done"},
         NEW a \in {"none", "ok", "failed"},
         NEW x \in Seq(FrameType)
  PROVE  [q EXCEPT !.driver = d, !.ack = a, !.cmd = x] \in SessionType
<1>1. \A r \in SessionType : [r EXCEPT !.driver = d] \in SessionType
  BY DEF SessionType
<1>2. \A r \in SessionType : [r EXCEPT !.ack = a] \in SessionType
  BY DEF SessionType
<1>3. \A r \in SessionType : [r EXCEPT !.cmd = x] \in SessionType
  BY DEF SessionType
<1> QED BY <1>1, <1>2, <1>3, Zenon

LEMMA SetWrote ==
  ASSUME NEW q \in SessionType,
         NEW d \in {"none", "drive", "send", "reply", "clean", "done"},
         NEW x \in Seq(FrameType),
         NEW a \in {"none", "ok", "failed"},
         NEW g \in SUBSET FrameType,
         NEW o \in SUBSET Requests
  PROVE  [q EXCEPT !.driver = d, !.cmd = x, !.ack = a, !.asked = g, !.opened = o] \in SessionType
<1>1. \A r \in SessionType : [r EXCEPT !.driver = d] \in SessionType
  BY DEF SessionType
<1>2. \A r \in SessionType : [r EXCEPT !.cmd = x] \in SessionType
  BY DEF SessionType
<1>3. \A r \in SessionType : [r EXCEPT !.ack = a] \in SessionType
  BY DEF SessionType
<1>4. \A r \in SessionType : [r EXCEPT !.asked = g] \in SessionType
  BY DEF SessionType
<1>5. \A r \in SessionType : [r EXCEPT !.opened = o] \in SessionType
  BY DEF SessionType
<1> QED BY <1>1, <1>2, <1>3, <1>4, <1>5, Zenon

LEMMA SetOutput ==
  ASSUME NEW q \in SessionType,
         NEW p \in Seq(LspMessage),
         NEW w \in Seq(LspMessage)
  PROVE  [q EXCEPT !.pending = p, !.wire = w] \in SessionType
<1>1. \A r \in SessionType : [r EXCEPT !.pending = p] \in SessionType
  BY DEF SessionType
<1>2. \A r \in SessionType : [r EXCEPT !.wire = w] \in SessionType
  BY DEF SessionType
<1> QED BY <1>1, <1>2, Zenon

LEMMA SetSent ==
  ASSUME NEW q \in SessionType,
         NEW g \in SUBSET FrameType,
         NEW n \in Nat,
         NEW w \in Seq(LspMessage)
  PROVE  [q EXCEPT !.asked = g, !.talk = n, !.wire = w] \in SessionType
<1>1. \A r \in SessionType : [r EXCEPT !.asked = g] \in SessionType
  BY DEF SessionType
<1>2. \A r \in SessionType : [r EXCEPT !.talk = n] \in SessionType
  BY DEF SessionType
<1>3. \A r \in SessionType : [r EXCEPT !.wire = w] \in SessionType
  BY DEF SessionType
<1> QED BY <1>1, <1>2, <1>3, Zenon

LEMMA SetDone ==
  ASSUME NEW q \in SessionType, NEW a \in {"none", "ok", "failed"}, NEW f \in BOOLEAN
  PROVE  [q EXCEPT !.driver = "done", !.alive = FALSE, !.ack = a, !.cmd = <<>>, !.wire = <<>>,
             !.pending = <<>>, !.asked = {}, !.opened = {}, !.talk = 0, !.clean = f] \in SessionType
<1>0. <<>> \in Seq(FrameType) /\ <<>> \in Seq(LspMessage)
  OBVIOUS
<1>1. \A r \in SessionType : [r EXCEPT !.driver = "done"] \in SessionType
  BY DEF SessionType
<1>2. \A r \in SessionType : [r EXCEPT !.alive = FALSE] \in SessionType
  BY DEF SessionType
<1>3. \A r \in SessionType : [r EXCEPT !.ack = a] \in SessionType
  BY DEF SessionType
<1>4. \A r \in SessionType : [r EXCEPT !.cmd = <<>>] \in SessionType
  BY <1>0 DEF SessionType
<1>5. \A r \in SessionType : [r EXCEPT !.wire = <<>>] \in SessionType
  BY <1>0 DEF SessionType
<1>6. \A r \in SessionType : [r EXCEPT !.pending = <<>>] \in SessionType
  BY <1>0 DEF SessionType
<1>7. \A r \in SessionType : [r EXCEPT !.asked = {}] \in SessionType
  BY DEF SessionType
<1>8. \A r \in SessionType : [r EXCEPT !.opened = {}] \in SessionType
  BY DEF SessionType
<1>9. \A r \in SessionType : [r EXCEPT !.talk = 0] \in SessionType
  BY DEF SessionType
<1>10. \A r \in SessionType : [r EXCEPT !.clean = f] \in SessionType
  BY DEF SessionType
<1> QED BY <1>1, <1>2, <1>3, <1>4, <1>5, <1>6, <1>7, <1>8, <1>9, <1>10, Zenon

LEMMA OverServes ==
  ASSUME Shape, NEW s \in Sessions, Driving(s), lsp' = Over(s), UNCHANGED hosts
  PROVE  Serves(s)
<1>1. lsp \in [Sessions -> SessionType]
  BY DEF Shape, Types
<1> DEFINE a == IF lsp[s].driver = "send" THEN "failed" ELSE lsp[s].ack
           x == IF lsp[s].driver = "send" THEN <<>> ELSE lsp[s].cmd
           r == [lsp[s] EXCEPT !.driver = "clean", !.ack = a, !.cmd = x]
<1>2. lsp' = [lsp EXCEPT ![s] = r]
  BY DEF Over
<1>3. /\ a \in {"none", "ok", "failed"} /\ x \in Seq(FrameType)
      /\ x = <<>> \/ x = lsp[s].cmd
  BY <1>1 DEF SessionType
<1> HIDE DEF a, x
<1>4. r \in SessionType
  BY <1>1, <1>3, SetOver
<1>5. /\ r.driver = "clean" /\ r.alive = lsp[s].alive /\ r.stop = lsp[s].stop
      /\ r.cmd = x /\ r.next = lsp[s].next /\ r.asked = lsp[s].asked
      /\ r.wire = lsp[s].wire /\ r.pending = lsp[s].pending /\ r.inbox = lsp[s].inbox
      /\ r.path = lsp[s].path /\ r.value = lsp[s].value
  BY <1>1 DEF SessionType
<1> HIDE DEF r
<1>6. \A k, c : Mark(r, k, c) => Mark(lsp[s], k, c)
  BY <1>3, <1>5 DEF Mark
<1>7. ServedStep(s, r)
  BY <1>4, <1>5, <1>6 DEF ServedStep, Active, Driving
<1> QED BY <1>2, <1>7 DEF Serves, hosts

LEMMA OutputServes ==
  ASSUME Shape, NEW s \in Sessions, Output(s)
  PROVE  Serves(s)
<1>1. lsp \in [Sessions -> SessionType] /\ Driving(s) /\ UNCHANGED hosts
  BY DEF Shape, Types, Output
<1>2. PICK n \in 1..Len(lsp[s].wire) :
         \/ lsp' = Over(s)
         \/ lsp' = [lsp EXCEPT ![s].pending = @ \o SubSeq(lsp[s].wire, 1, n),
                               ![s].wire = SubSeq(@, n + 1, Len(@))]
  BY DEF Output
<1>3. CASE lsp' = Over(s)
  BY <1>1, <1>3, OverServes
<1>4. CASE lsp' # Over(s)
  <2> DEFINE w == lsp[s].wire
             p == lsp[s].pending
             f == p \o SubSeq(w, 1, n)
             b == SubSeq(w, n + 1, Len(w))
             r == [lsp[s] EXCEPT !.pending = f, !.wire = b]
  <2>1. lsp' = [lsp EXCEPT ![s] = r]
    BY <1>1, <1>2, <1>4 DEF SessionType
  <2>2. w \in Seq(LspMessage) /\ p \in Seq(LspMessage) /\ n \in 1..Len(w)
    BY <1>1 DEF SessionType
  <2> HIDE DEF w, p
  <2>3. /\ SubSeq(w, 1, n) \in Seq(LspMessage) /\ Len(SubSeq(w, 1, n)) = n
        /\ \A i \in 1..n : SubSeq(w, 1, n)[i] = w[i]
    BY <2>2
  <2>4. /\ b \in Seq(LspMessage)
        /\ \A i \in DOMAIN b : i + n \in DOMAIN w /\ b[i] = w[i + n]
    BY <2>2
  <2>5. /\ f \in Seq(LspMessage)
        /\ \A i \in DOMAIN f : \/ i \in DOMAIN p /\ f[i] = p[i]
                               \/ i - Len(p) \in DOMAIN w /\ f[i] = w[i - Len(p)]
    BY <2>2, <2>3
  <2> HIDE DEF f, b
  <2>6. r \in SessionType
    BY <1>1, <2>4, <2>5, SetOutput
  <2>7. /\ r.driver = lsp[s].driver /\ r.alive = lsp[s].alive /\ r.stop = lsp[s].stop
        /\ r.cmd = lsp[s].cmd /\ r.next = lsp[s].next /\ r.asked = lsp[s].asked
        /\ r.wire = b /\ r.pending = f /\ r.inbox = lsp[s].inbox
        /\ r.path = lsp[s].path /\ r.value = lsp[s].value
    BY <1>1 DEF SessionType
  <2> HIDE DEF r
  <2>8. ASSUME NEW k, NEW c, Mark(r, k, c) PROVE Mark(lsp[s], k, c)
    <3>1. CASE \E i \in DOMAIN f : f[i] \in Replied \cup Noise /\ f[i].id = k /\ f[i].call = c
      BY <2>5, <3>1 DEF Mark, p, w
    <3>2. CASE \E i \in DOMAIN b : b[i] \in Replied \cup Noise /\ b[i].id = k /\ b[i].call = c
      BY <2>4, <3>2 DEF Mark, p, w
    <3> QED BY <2>7, <2>8, <3>1, <3>2 DEF Mark
  <2>9. lsp[s].driver = "send" => lsp[s].cmd # <<>>
    BY DEF Shape, SendsWhatItHas
  <2>10. ServedStep(s, r)
    BY <1>1, <2>6, <2>7, <2>8, <2>9 DEF ServedStep, Active, Driving
  <2> QED BY <1>1, <2>1, <2>10 DEF Serves, hosts
<1> QED BY <1>3, <1>4

LEMMA HandleServes ==
  ASSUME Shape, NEW s \in Sessions, Handle(s)
  PROVE  Serves(s)
<1> DEFINE p == lsp[s].pending
           b == lsp[s].inbox
           m == Head(p)
           rest == [lsp[s] EXCEPT !.pending = Tail(p)]
<1>1. lsp \in [Sessions -> SessionType] /\ UNCHANGED hosts /\ lsp[s].driver = "drive" /\ p # <<>>
  BY DEF Shape, Types, Handle
<1>2. p \in Seq(LspMessage) /\ b \in Seq(Replied \cup Noise)
  BY <1>1 DEF SessionType
<1>3. /\ m \in LspMessage /\ 1 \in DOMAIN p /\ m = p[1]
      /\ Tail(p) \in Seq(LspMessage)
      /\ \A i \in DOMAIN Tail(p) : i + 1 \in DOMAIN p /\ Tail(p)[i] = p[i + 1]
  <2> HIDE DEF p
  <2> QED BY <1>1, <1>2
<1>4. rest \in SessionType
  <2> DEFINE y == Tail(p)
  <2>1. y \in Seq(LspMessage)
    BY <1>3
  <2> HIDE DEF y
  <2>2. [lsp[s] EXCEPT !.pending = y] \in SessionType
    BY <1>1, <2>1, ZenonT(60) DEF SessionType
  <2> QED BY <2>2 DEF y
<1>5. /\ rest.driver = "drive" /\ rest.alive = lsp[s].alive /\ rest.stop = lsp[s].stop
      /\ rest.cmd = lsp[s].cmd /\ rest.next = lsp[s].next /\ rest.asked = lsp[s].asked
      /\ rest.wire = lsp[s].wire /\ rest.pending = Tail(p) /\ rest.inbox = b
      /\ rest.path = lsp[s].path /\ rest.value = lsp[s].value
  BY <1>1 DEF SessionType
<1>6. Active(s) /\ Driving(s)
  BY <1>1 DEF Active, Driving
<1>7. \/ m.kind = "request" /\ lsp' = [lsp EXCEPT ![s] = [rest EXCEPT !.driver = "reply"]]
      \/ /\ m.kind = "publish"
         /\ lsp' = [lsp EXCEPT ![s] = [rest EXCEPT !.value = IF lsp[s].path = m.path THEN <<m>> ELSE @]]
      \/ /\ m.kind \notin {"request", "publish"}
         /\ lsp' = [lsp EXCEPT ![s] = [rest EXCEPT !.inbox = Append(@, m)]]
      \/ lsp' = Over(s)
  BY DEF Handle
<1>8. ASSUME NEW k, NEW c, Mark(rest, k, c) PROVE Mark(lsp[s], k, c)
  <2> HIDE DEF rest
  <2>1. CASE \E i \in DOMAIN rest.pending :
                 /\ rest.pending[i] \in Replied \cup Noise
                 /\ rest.pending[i].id = k /\ rest.pending[i].call = c
    BY <1>3, <1>5, <2>1 DEF Mark
  <2>2. CASE ~\E i \in DOMAIN rest.pending :
                 /\ rest.pending[i] \in Replied \cup Noise
                 /\ rest.pending[i].id = k /\ rest.pending[i].call = c
    BY <1>5, <1>8, <2>2 DEF Mark
  <2> QED BY <2>1, <2>2
<1> HIDE DEF rest, m
<1>9. CASE m.kind = "request" /\ lsp' = [lsp EXCEPT ![s] = [rest EXCEPT !.driver = "reply"]]
  <2> DEFINE r == [rest EXCEPT !.driver = "reply"]
  <2>1. /\ r \in SessionType /\ r.driver = "reply" /\ r.alive = rest.alive /\ r.stop = rest.stop
        /\ r.cmd = rest.cmd /\ r.next = rest.next /\ r.asked = rest.asked
        /\ r.wire = rest.wire /\ r.pending = rest.pending /\ r.inbox = rest.inbox
        /\ r.path = rest.path /\ r.value = rest.value
    BY <1>4 DEF SessionType
  <2> HIDE DEF r
  <2>2. \A k, c : Mark(r, k, c) => Mark(rest, k, c)
    BY <2>1 DEF Mark
  <2>3. ServedStep(s, r)
    BY <1>5, <1>6, <1>8, <2>1, <2>2 DEF ServedStep
  <2> QED BY <1>1, <1>9, <2>3 DEF Serves, hosts, r
<1>10. CASE /\ m.kind = "publish"
            /\ lsp' = [lsp EXCEPT ![s] = [rest EXCEPT !.value = IF lsp[s].path = m.path THEN <<m>> ELSE @]]
  <2> DEFINE v == IF lsp[s].path = m.path THEN <<m>> ELSE lsp[s].value
             r == [rest EXCEPT !.value = v]
  <2>0. m \in Publish
    BY <1>3, <1>10 DEF LspMessage, AskFrames, Replied, Noise
  <2>1. lsp' = [lsp EXCEPT ![s] = r]
    BY <1>5, <1>10
  <2>2. v \in Seq(Publish) /\ (v = lsp[s].value \/ v[1].path = lsp[s].path)
    <3>1. lsp[s].value \in Seq(Publish)
      BY <1>1 DEF SessionType
    <3>2. <<m>> \in Seq(Publish) /\ <<m>>[1] = m
      BY <2>0
    <3> QED BY <3>1, <3>2
  <2> HIDE DEF v
  <2>3. /\ r \in SessionType /\ r.driver = rest.driver /\ r.alive = rest.alive /\ r.stop = rest.stop
        /\ r.cmd = rest.cmd /\ r.next = rest.next /\ r.asked = rest.asked
        /\ r.wire = rest.wire /\ r.pending = rest.pending /\ r.inbox = rest.inbox
        /\ r.path = rest.path /\ r.value = v
    BY <1>4, <2>2 DEF SessionType
  <2> HIDE DEF r
  <2>4. \A k, c : Mark(r, k, c) => Mark(rest, k, c)
    BY <2>3 DEF Mark
  <2>5. ServedStep(s, r)
    BY <1>5, <1>6, <1>8, <2>2, <2>3, <2>4 DEF ServedStep
  <2> QED BY <1>1, <2>1, <2>5 DEF Serves, hosts
<1>11. CASE /\ m.kind \notin {"request", "publish"}
            /\ lsp' = [lsp EXCEPT ![s] = [rest EXCEPT !.inbox = Append(@, m)]]
  <2> DEFINE y == Append(b, m)
             r == [rest EXCEPT !.inbox = y]
  <2>0. m \in Replied \cup Noise
    BY <1>3, <1>11 DEF LspMessage, AskFrames, Publish
  <2>1. lsp' = [lsp EXCEPT ![s] = r]
    BY <1>5, <1>11
  <2>2. /\ y \in Seq(Replied \cup Noise)
        /\ \A i \in DOMAIN y : (i \in DOMAIN b /\ y[i] = b[i]) \/ y[i] = m
    <3> HIDE DEF b
    <3> QED BY <1>2, <2>0
  <2> HIDE DEF y
  <2>3. /\ r \in SessionType /\ r.driver = rest.driver /\ r.alive = rest.alive /\ r.stop = rest.stop
        /\ r.cmd = rest.cmd /\ r.next = rest.next /\ r.asked = rest.asked
        /\ r.wire = rest.wire /\ r.pending = rest.pending /\ r.inbox = y
        /\ r.path = rest.path /\ r.value = rest.value
    BY <1>4, <2>2 DEF SessionType
  <2> HIDE DEF r
  <2>4. ASSUME NEW k, NEW c, Mark(r, k, c) PROVE Mark(lsp[s], k, c)
    <3>1. CASE m.id = k /\ m.call = c
      BY <1>3, <2>0, <3>1 DEF Mark
    <3>2. CASE ~(m.id = k /\ m.call = c)
      <4>1. Mark(rest, k, c)
        BY <1>5, <2>2, <2>3, <2>4, <3>2, ZenonT(60) DEF Mark
      <4> QED BY <1>8, <4>1
    <3> QED BY <3>1, <3>2
  <2>5. ServedStep(s, r)
    BY <1>5, <1>6, <2>3, <2>4 DEF ServedStep
  <2> QED BY <1>1, <2>1, <2>5 DEF Serves, hosts
<1>12. CASE lsp' = Over(s)
  BY <1>1, <1>6, <1>12, OverServes
<1> QED BY <1>7, <1>9, <1>10, <1>11, <1>12

LEMMA WriteServes ==
  ASSUME Shape, NEW s \in Sessions, Take(s) \/ Wrote(s)
  PROVE  Serves(s)
<1>1. lsp \in [Sessions -> SessionType] /\ UNCHANGED hosts
  BY DEF Shape, Types, Take, Wrote
<1>2. CASE Take(s)
  <2> DEFINE r == [lsp[s] EXCEPT !.driver = "send"]
  <2>1. lsp' = [lsp EXCEPT ![s] = r] /\ lsp[s].driver = "drive" /\ lsp[s].cmd # <<>>
    BY <1>1, <1>2 DEF Take
  <2>2. /\ r \in SessionType /\ r.driver = "send" /\ r.alive = lsp[s].alive /\ r.stop = lsp[s].stop
        /\ r.cmd = lsp[s].cmd /\ r.next = lsp[s].next /\ r.asked = lsp[s].asked
        /\ r.wire = lsp[s].wire /\ r.pending = lsp[s].pending /\ r.inbox = lsp[s].inbox
        /\ r.path = lsp[s].path /\ r.value = lsp[s].value
    BY <1>1, ZenonT(60) DEF SessionType
  <2> HIDE DEF r
  <2>3. \A k, c : Mark(r, k, c) => Mark(lsp[s], k, c)
    BY <2>2 DEF Mark
  <2>4. ServedStep(s, r)
    BY <2>1, <2>2, <2>3 DEF ServedStep, Active
  <2> QED BY <1>1, <2>1, <2>4 DEF Serves, hosts
<1>3. CASE Wrote(s) /\ lsp[s].driver = "reply"
  <2> DEFINE r == [lsp[s] EXCEPT !.driver = "drive"]
  <2>1. lsp' = [lsp EXCEPT ![s] = r]
    BY <1>1, <1>3 DEF Wrote
  <2>2. /\ r \in SessionType /\ r.driver = "drive" /\ r.alive = lsp[s].alive /\ r.stop = lsp[s].stop
        /\ r.cmd = lsp[s].cmd /\ r.next = lsp[s].next /\ r.asked = lsp[s].asked
        /\ r.wire = lsp[s].wire /\ r.pending = lsp[s].pending /\ r.inbox = lsp[s].inbox
        /\ r.path = lsp[s].path /\ r.value = lsp[s].value
    BY <1>1, ZenonT(60) DEF SessionType
  <2> HIDE DEF r
  <2>3. \A k, c : Mark(r, k, c) => Mark(lsp[s], k, c)
    BY <2>2 DEF Mark
  <2>4. ServedStep(s, r)
    BY <1>3, <2>2, <2>3 DEF ServedStep, Active
  <2> QED BY <1>1, <2>1, <2>4 DEF Serves, hosts
<1>4. CASE Wrote(s) /\ lsp[s].driver # "reply"
  <2> DEFINE m == lsp[s].cmd[1]
             x == IF m.id # 0 THEN lsp[s].asked \cup {m} ELSE lsp[s].asked
             o == IF m.step = "open" THEN lsp[s].opened \cup {Path(m.call)} ELSE lsp[s].opened
             r == [lsp[s] EXCEPT !.driver = "drive", !.cmd = <<>>, !.ack = "ok", !.asked = x, !.opened = o]
  <2>1. lsp' = [lsp EXCEPT ![s] = r] /\ lsp[s].driver = "send"
    BY <1>1, <1>4 DEF Wrote
  <2>2. lsp[s].cmd # <<>> /\ lsp[s].cmd \in Seq(FrameType)
    BY <1>1, <2>1 DEF Shape, SendsWhatItHas, SessionType
  <2>3. m \in FrameType /\ 1 \in DOMAIN lsp[s].cmd
    <3> DEFINE y == lsp[s].cmd
    <3>1. y # <<>> /\ y \in Seq(FrameType)
      BY <2>2
    <3> HIDE DEF y
    <3>2. y[1] \in FrameType /\ 1 \in DOMAIN y
      BY <3>1
    <3> QED BY <3>2 DEF y
  <2>4. m.call \in Requests
    BY <2>3 DEF FrameType
  <2>5. x \in SUBSET FrameType /\ o \in SUBSET Requests /\ x \subseteq lsp[s].asked \cup {m}
    BY <1>1, <2>3, <2>4 DEF SessionType, Path
  <2>6. \A k, c : m.id = k /\ m.call = c => Mark(lsp[s], k, c)
    BY <2>3 DEF Mark
  <2> HIDE DEF m, x, o
  <2>s. r \in SessionType
    <3>1. <<>> \in Seq(FrameType) /\ lsp[s] \in SessionType
      BY <1>1
    <3> QED BY <2>5, <3>1, SetWrote
  <2>7. /\ r.driver = "drive" /\ r.alive = lsp[s].alive /\ r.stop = lsp[s].stop
        /\ r.cmd = <<>> /\ r.next = lsp[s].next /\ r.asked = x
        /\ r.wire = lsp[s].wire /\ r.pending = lsp[s].pending /\ r.inbox = lsp[s].inbox
        /\ r.path = lsp[s].path /\ r.value = lsp[s].value
    BY <1>1 DEF SessionType
  <2> HIDE DEF r
  <2>8. ASSUME NEW k, NEW c, Mark(r, k, c) PROVE Mark(lsp[s], k, c)
    <3>1. CASE m.id = k /\ m.call = c
      BY <2>6, <3>1
    <3>2. CASE ~(m.id = k /\ m.call = c)
      BY <2>5, <2>7, <2>8, <3>2 DEF Mark
    <3> QED BY <3>1, <3>2
  <2>9. ServedStep(s, r)
    BY <2>1, <2>s, <2>7, <2>8 DEF ServedStep, Active
  <2> QED BY <1>1, <2>1, <2>9 DEF Serves, hosts
<1> QED BY <1>2, <1>3, <1>4

LEMMA CleanedServes ==
  ASSUME Shape, NEW s \in Sessions, Cleaned(s)
  PROVE  Serves(s)
<1>1. lsp \in [Sessions -> SessionType] /\ UNCHANGED hosts /\ lsp[s].driver = "clean"
  BY DEF Shape, Types, Cleaned
<1> DEFINE a == IF lsp[s].cmd # <<>> THEN "failed" ELSE lsp[s].ack
<1>2. PICK ok \in BOOLEAN :
         lsp' = [lsp EXCEPT ![s] = [lsp[s] EXCEPT !.driver = "done", !.alive = FALSE, !.ack = a,
                    !.cmd = <<>>, !.wire = <<>>, !.pending = <<>>, !.asked = {}, !.opened = {},
                    !.talk = 0, !.clean = ok \/ lsp[s].stop]]
  BY <1>1 DEF Cleaned
<1> DEFINE f == ok \/ lsp[s].stop
           r == [lsp[s] EXCEPT !.driver = "done", !.alive = FALSE, !.ack = a, !.cmd = <<>>,
                    !.wire = <<>>, !.pending = <<>>, !.asked = {}, !.opened = {}, !.talk = 0, !.clean = f]
<1>3. a \in {"none", "ok", "failed"} /\ f \in BOOLEAN
  BY <1>1 DEF SessionType
<1>4. lsp' = [lsp EXCEPT ![s] = r]
  BY <1>2
<1> HIDE DEF a, f
<1>s. r \in SessionType
  BY <1>1, <1>3, SetDone
<1>5. /\ r.driver = "done" /\ r.alive = FALSE /\ r.stop = lsp[s].stop
      /\ r.cmd = <<>> /\ r.next = lsp[s].next /\ r.asked = {}
      /\ r.wire = <<>> /\ r.pending = <<>> /\ r.inbox = lsp[s].inbox
      /\ r.path = lsp[s].path /\ r.value = lsp[s].value
  BY <1>1 DEF SessionType
<1> HIDE DEF r
<1>6. \A k, c : Mark(r, k, c) => Mark(lsp[s], k, c)
  BY <1>5 DEF Mark
<1>7. ServedStep(s, r)
  BY <1>1, <1>s, <1>5, <1>6 DEF ServedStep, Active
<1> QED BY <1>1, <1>4, <1>7 DEF Serves, hosts

LEMMA ServerServes ==
  ASSUME Shape, NEW s \in Sessions, Answer(s) \/ Talk(s)
  PROVE  Serves(s)
<1>1. lsp \in [Sessions -> SessionType]
  BY DEF Shape, Types
<1>2. \E m \in LspMessage, x \in SUBSET lsp[s].asked, n \in Nat :
         /\ Driving(s) /\ UNCHANGED hosts
         /\ lsp' = [lsp EXCEPT ![s] = [lsp[s] EXCEPT !.asked = x, !.talk = n, !.wire = Append(lsp[s].wire, m)]]
         /\ m \in Replied \cup Noise => Mark(lsp[s], m.id, m.call) \/ m.id = 0
  <2>0. lsp[s].asked \in SUBSET FrameType /\ lsp[s].talk \in Nat /\ lsp[s].opened \in SUBSET Requests
    BY <1>1 DEF SessionType
  <2>1. CASE Answer(s)
    <3>1. PICK f \in lsp[s].asked, how \in {"result", "error", "odd"} :
             Sends(s, [kind |-> "answer", id |-> f.id, call |-> f.call, outcome |-> how],
                   [lsp[s] EXCEPT !.asked = @ \ {f}])
      BY <2>1 DEF Answer
    <3> DEFINE m == [kind |-> "answer", id |-> f.id, call |-> f.call, outcome |-> how]
               x == lsp[s].asked \ {f}
    <3>2. f.id \in Nat /\ f.call \in Requests
      BY <2>0 DEF FrameType
    <3>3. m \in LspMessage /\ m.id = f.id /\ m.call = f.call
      BY <3>2 DEF LspMessage, Replied
    <3>4. Mark(lsp[s], m.id, m.call)
      BY <3>3 DEF Mark
    <3> HIDE DEF m
    <3>5. lsp' = [lsp EXCEPT ![s] = [[lsp[s] EXCEPT !.asked = x] EXCEPT !.wire = Append(@, m)]]
      BY <3>1 DEF Sends, m
    <3>6. x \in SUBSET lsp[s].asked
      OBVIOUS
    <3> HIDE DEF x
    <3>7. [[lsp[s] EXCEPT !.asked = x] EXCEPT !.wire = Append(@, m)]
            = [lsp[s] EXCEPT !.asked = x, !.talk = lsp[s].talk, !.wire = Append(lsp[s].wire, m)]
      BY <1>1 DEF SessionType
    <3>8. Driving(s) /\ UNCHANGED hosts
      BY <3>1 DEF Sends
    <3>9. lsp' = [lsp EXCEPT ![s] = [lsp[s] EXCEPT !.asked = x, !.talk = lsp[s].talk,
                                                   !.wire = Append(lsp[s].wire, m)]]
      BY <3>5, <3>7
    <3> QED BY <2>0, <3>3, <3>4, <3>6, <3>8, <3>9
  <2>2. CASE Talk(s)
    <3>1. PICK m \in [kind : {"publish"}, path : lsp[s].opened, version : {0, 1}]
                  \cup [kind : {"request"}]
                  \cup [kind : {"noise"}, id : {0}, call : {NoPath}, outcome : {"result"}] :
             Sends(s, m, [lsp[s] EXCEPT !.talk = @ + 1])
      BY <2>2 DEF Talk
    <3>2. m \in LspMessage /\ (m \in Replied \cup Noise => m.id = 0)
      <4>1. CASE m \in [kind : {"publish"}, path : lsp[s].opened, version : {0, 1}]
        <5>1. m \in Publish
          BY <2>0, <4>1 DEF Publish
        <5>2. m \notin Replied \cup Noise
          BY <5>1 DEF Publish, Replied, Noise
        <5> QED BY <5>1, <5>2 DEF LspMessage
      <4>2. CASE m \in [kind : {"request"}]
        BY <4>2 DEF LspMessage, AskFrames, Replied, Noise
      <4>3. CASE m \in [kind : {"noise"}, id : {0}, call : {NoPath}, outcome : {"result"}]
        BY <4>3 DEF LspMessage, Noise
      <4> QED BY <3>1, <4>1, <4>2, <4>3
    <3>3. lsp' = [lsp EXCEPT ![s] = [[lsp[s] EXCEPT !.talk = lsp[s].talk + 1] EXCEPT !.wire = Append(@, m)]]
      BY <3>1 DEF Sends
    <3> DEFINE n == lsp[s].talk + 1
    <3>4. n \in Nat
      BY <2>0
    <3> HIDE DEF n
    <3>5. [[lsp[s] EXCEPT !.talk = n] EXCEPT !.wire = Append(@, m)]
            = [lsp[s] EXCEPT !.asked = lsp[s].asked, !.talk = n, !.wire = Append(lsp[s].wire, m)]
      BY <1>1 DEF SessionType
    <3>6. Driving(s) /\ UNCHANGED hosts
      BY <3>1 DEF Sends
    <3>7. lsp' = [lsp EXCEPT ![s] = [lsp[s] EXCEPT !.asked = lsp[s].asked, !.talk = n,
                                                   !.wire = Append(lsp[s].wire, m)]]
      BY <3>3, <3>5 DEF n
    <3> QED BY <3>2, <3>4, <3>6, <3>7
  <2> QED BY <2>1, <2>2
<1>3. PICK m \in LspMessage, x \in SUBSET lsp[s].asked, n \in Nat :
         /\ Driving(s) /\ UNCHANGED hosts
         /\ lsp' = [lsp EXCEPT ![s] = [lsp[s] EXCEPT !.asked = x, !.talk = n, !.wire = Append(lsp[s].wire, m)]]
         /\ m \in Replied \cup Noise => Mark(lsp[s], m.id, m.call) \/ m.id = 0
  BY <1>2
<1> DEFINE w == lsp[s].wire
           y == Append(w, m)
           r == [lsp[s] EXCEPT !.asked = x, !.talk = n, !.wire = y]
<1>4. w \in Seq(LspMessage) /\ x \in SUBSET FrameType
  BY <1>1 DEF SessionType
<1>5. /\ y \in Seq(LspMessage)
      /\ \A i \in DOMAIN y : (i \in DOMAIN w /\ y[i] = w[i]) \/ y[i] = m
  <2> HIDE DEF w
  <2> QED BY <1>4
<1>6. lsp' = [lsp EXCEPT ![s] = r]
  BY <1>3
<1> HIDE DEF y
<1>s. r \in SessionType
  BY <1>1, <1>4, <1>5, SetSent
<1>7. /\ r.driver = lsp[s].driver /\ r.alive = lsp[s].alive /\ r.stop = lsp[s].stop
      /\ r.cmd = lsp[s].cmd /\ r.next = lsp[s].next /\ r.asked = x
      /\ r.wire = y /\ r.pending = lsp[s].pending /\ r.inbox = lsp[s].inbox
      /\ r.path = lsp[s].path /\ r.value = lsp[s].value
  BY <1>1 DEF SessionType
<1> HIDE DEF r
<1>8. ASSUME NEW k, NEW c, Mark(r, k, c) PROVE Mark(lsp[s], k, c) \/ k = 0
  <2>1. CASE m \in Replied \cup Noise /\ m.id = k /\ m.call = c
    BY <1>3, <2>1
  <2>2. CASE ~(m \in Replied \cup Noise /\ m.id = k /\ m.call = c)
    BY <1>5, <1>7, <1>8, <2>2 DEF Mark
  <2> QED BY <2>1, <2>2
<1>9. lsp[s].driver = "send" => lsp[s].cmd # <<>>
  BY DEF Shape, SendsWhatItHas
<1>10. ServedStep(s, r)
  BY <1>3, <1>s, <1>7, <1>8, <1>9 DEF ServedStep, Active, Driving
<1> QED BY <1>3, <1>6, <1>10 DEF Serves, hosts

LEMMA DriverMoves ==
  ASSUME Shape, NEW s \in Sessions,
         \/ Output(s) \/ Handle(s) \/ Take(s) \/ Wrote(s) \/ Broken(s) \/ Cleaned(s)
         \/ Answer(s) \/ Talk(s)
  PROVE  Serves(s)
<1>1. CASE Broken(s)
  BY <1>1, OverServes DEF Broken
<1> QED BY <1>1, OutputServes, HandleServes, WriteServes, CleanedServes, ServerServes

--------------------------------------------------------------------------------
(* Every step keeps the shape, who has a session, and whose answers are    *)
(* whose.                                                                  *)

Keeps == Shape' /\ (Owned => Owned') /\ (Owned /\ Own => Own')

(* The call that has a session is alone.                                   *)
LEMMA Alone ==
  ASSUME Shape, Owned, NEW c \in Requests, call[c].with # 0
  PROVE  /\ lock = c /\ lock \notin {"free", "close"} /\ cached = 0
         /\ closing \notin {"joining", "returned"}
         /\ \A d \in Requests \ {c} : call[d].with = 0 /\ call[d].at \in {"idle", "lock", "over"}
<1>1. lock = c
  BY DEF Owned, Locking
<1>2. lock \notin {"free", "close"}
  BY <1>1, LspAssumption
<1>3. cached = 0 /\ closing \notin {"joining", "returned"}
  BY <1>2 DEF Owned, Locking, Shutting
<1>4. \A d \in Requests \ {c} : call[d].with = 0
  BY <1>1 DEF Owned, Locking
<1> QED BY <1>1, <1>2, <1>3, <1>4 DEF Shape, HasSession

(* Nobody has one while the lock is free.                                  *)
LEMMA Nobody ==
  ASSUME Shape, Owned, lock \in {"free", "close"}
  PROVE  \A d \in Requests : call[d].with = 0 /\ call[d].at \in {"idle", "lock", "over"}
<1>1. \A d \in Requests : lock # d
  BY LspAssumption
<1> QED BY <1>1 DEF Owned, Locking, Shape, HasSession

(* Only call c and session s change, and nobody else has a session.        *)
LEMMA OwnKept ==
  ASSUME Shape, Own, NEW c \in Requests, NEW s \in Sessions,
         \A d \in Requests \ {c} :
            /\ call'[d] = call[d]
            /\ call[d].with = 0 /\ call[d].at \in {"idle", "lock", "over"},
         \A t \in Sessions \ {s} : lsp'[t] = lsp[t],
         \A k, d : Mark(lsp'[s], k, d) => k <= lsp'[s].next,
         lsp'[s].value # <<>> => lsp'[s].value[1].path = lsp'[s].path,
         call'[c].with # 0 /\ call'[c].wait \in {"ack", "answer"} /\ call'[c].id # 0 =>
            /\ call'[c].with = s /\ call'[c].id = lsp'[s].next
            /\ \A d : Mark(lsp'[s], call'[c].id, d) => d = c,
         call'[c].wait = "answer" => call'[c].id # 0,
         /\ call'[c].op # "workspaceSymbol"
         /\ \/ call'[c].at \in {"ask", "close"}
            \/ call'[c].at = "open" /\ call'[c].wait # "write"
         => call'[c].with = s /\ lsp'[s].path = c,
         call'[c].op = call[c].op, Right(c, call'[c].result)
  PROVE  Own'
<1>1. NumberedIds'
  BY DEF Own, NumberedIds
<1>2. OwnId'
  BY DEF OwnId
<1>3. Waits'
  BY DEF Own, Waits
<1>4. Tracked'
  <2>1. \A t \in Sessions : lsp'[t].value # <<>> => lsp'[t].value[1].path = lsp'[t].path
    BY DEF Own, Tracked
  <2>2. ASSUME NEW d \in Requests, HasDocument(d)',
               \/ call'[d].at \in {"ask", "close"}
               \/ call'[d].at = "open" /\ call'[d].wait # "write"
        PROVE  lsp'[call'[d].with].path = Path(d)
    BY <2>2 DEF HasDocument, Path
  <2> QED BY <2>1, <2>2 DEF Tracked, Path
<1>5. AnswersOwn'
  <2>1. ASSUME NEW d \in Requests, call'[d].result # <<>>
        PROVE  LET m == call'[d].result[1]
               IN  IF m.kind = "publish" THEN m.path = Path(d) /\ m.version >= 1 /\ call'[d].op = "diagnostics"
                   ELSE m.call = d /\ m.outcome = "result"
    <3>1. CASE d = c
      BY <2>1, <3>1 DEF Right
    <3>2. CASE d # c
      BY <2>1, <3>2 DEF Own, AnswersOwn
    <3> QED BY <3>1, <3>2
  <2> QED BY <2>1 DEF AnswersOwn, Path
<1> QED BY <1>1, <1>2, <1>3, <1>4, <1>5 DEF Own

(* The calls are where they were.                                          *)
LEMMA ShapeKept ==
  ASSUME Shape, NEW s \in Sessions, lsp' \in [Sessions -> SessionType],
         \A t \in Sessions \ {s} : lsp'[t] = lsp[t],
         lsp'[s].driver = "send" => lsp'[s].cmd # <<>>
  PROVE  SendsWhatItHas'
  BY DEF Shape, SendsWhatItHas

LEMMA GoesKeeps ==
  ASSUME Shape, NEW c \in Requests, GoesOn(c)
  PROVE  Keeps
<1>0. PICK q, step, result : Goes(c, q, step, result)
  BY DEF GoesOn
<1>s. PICK s \in Sessions : s = call[c].with /\ s # 0
  BY <1>0, CallHas DEF Goes
<1>1. /\ call[c].with # 0 /\ Read(s, q) /\ UNCHANGED tool
      /\ step \in Steps \cup {"closing"} /\ result \in Seq(LspMessage)
      /\ q \in [Sessions -> SessionType] /\ GoOn(c, s, q, step, result)
      /\ \A t \in Sessions \ {s} : q[t] = lsp[t]
  BY <1>0, <1>s DEF Goes, Read, Says
<1>2. /\ call' \in [Requests -> CallType]
      /\ \A d \in Requests \ {c} : call'[d] = call[d]
      /\ call'[c].at = step /\ call'[c].with = s /\ call'[c].wait = "write"
      /\ call'[c].op = call[c].op /\ call'[c].result = result
      /\ lsp' \in [Sessions -> SessionType]
      /\ \A t \in Sessions \ {s} : lsp'[t] = lsp[t]
      /\ step = "closing" => lsp'[s] = Stop(s, q)[s]
      /\ step # "closing" => lsp'[s] = q[s]
  <2>1. Types
    BY DEF Shape
  <2>2. /\ call' \in [Requests -> CallType]
        /\ \A d \in Requests \ {c} : call'[d] = call[d]
        /\ call'[c].at = step /\ call'[c].with = s /\ call'[c].wait = "write"
        /\ call'[c].op = call[c].op /\ call'[c].result = result
        /\ lsp' \in [Sessions -> SessionType]
        /\ \A t \in Sessions \ {s} : lsp'[t] = q[t]
        /\ step = "closing" => lsp'[s] = Stop(s, q)[s]
        /\ step # "closing" => lsp'[s] = q[s]
    BY <1>1, <2>1, GoOnOutcome, Zenon
  <2> QED BY <1>1, <2>2
<1>3. lsp'[s].driver = "send" => lsp'[s].cmd # <<>>
  <2>1. q[s].driver = "send" => q[s].cmd # <<>>
    BY <1>1 DEF Read, Shape, SendsWhatItHas
  <2>2. Stop(s, q)[s].driver # "send"
    BY <1>1, Stopped
  <2> QED BY <1>2, <2>1, <2>2
<1>4. Shape'
  <2>1. Types'
    BY <1>1, <1>2 DEF Shape, Types, tool
  <2>2. HasSession'
    BY <1>s, <1>1, <1>2 DEF Shape, HasSession, Steps
  <2>3. SendsWhatItHas'
    BY <1>1, <1>2, <1>3, ShapeKept
  <2> QED BY <2>1, <2>2, <2>3 DEF Shape
<1>5. ASSUME Owned PROVE Owned'
  <2>1. /\ \A d \in Requests : call'[d].with = call[d].with
        /\ cached' = cached /\ drivers' = drivers /\ lock' = lock /\ shut' = shut /\ closing' = closing
    BY <1>s, <1>1, <1>2 DEF tool
  <2>2. lsp[s].driver # "none" /\ closing # "returned"
    BY <1>s, <1>5, Alone DEF Owned, Started
  <2>3. lsp'[s].alive = lsp[s].alive /\ (Active(s)' <=> Active(s)) /\ lsp'[s].driver # "none"
    <3>1. CASE step # "closing"
      BY <1>1, <1>2, <2>2, <3>1 DEF Read, Active
    <3>2. CASE step = "closing"
      <4>1. /\ lsp'[s].alive = q[s].alive
            /\ lsp'[s].driver = IF q[s].driver \in {"clean", "done"} THEN q[s].driver ELSE "drive"
        BY <1>1, <1>2, <3>2, Stopped
      <4>2. q[s].alive = lsp[s].alive /\ q[s].driver = lsp[s].driver
            /\ lsp[s].driver \in {"none", "drive", "send", "reply", "clean", "done"}
        BY <1>1 DEF Read, Shape, Types, SessionType
      <4> QED BY <2>2, <4>1, <4>2 DEF Active
    <3> QED BY <3>1, <3>2
  <2>4. \A t \in Sessions \ {s} : lsp'[t] = lsp[t] /\ (Active(t)' <=> Active(t))
    BY <1>2 DEF Active
  <2>5. Watched'
    BY <1>5, <2>1, <2>3, <2>4 DEF Owned, Watched
  <2>6. Had'
    <3>1. call'[c].with = s
      BY <1>2
    <3> QED BY <1>5, <2>1, <2>4, <3>1 DEF Owned, Had
  <2>7. Started'
    <3>1. \A t \in Sessions : lsp[t].driver # "none" => lsp'[t].driver # "none"
      BY <2>3, <2>4
    <3>2. cached \in Sessions \cup {0} /\ \A d \in Requests : call[d].with \in Sessions \cup {0}
      BY DEF Shape, Types, CallType
    <3> QED BY <1>5, <2>1, <3>1, <3>2 DEF Owned, Started
  <2>8. Locking' /\ Shutting'
    BY <1>5, <2>1, <2>2 DEF Owned, Locking, Shutting
  <2> QED BY <2>5, <2>6, <2>7, <2>8 DEF Owned
<1>6. ASSUME Owned, Own PROVE Own'
  <2>1. \A d \in Requests \ {c} : call[d].with = 0 /\ call[d].at \in {"idle", "lock", "over"}
    BY <1>1, <1>6, Alone
  <2>2. (\A k, d : Mark(lsp'[s], k, d) => k <= lsp'[s].next)
        /\ (lsp'[s].value # <<>> => lsp'[s].value[1].path = lsp'[s].path)
    <3>1. CASE step = "closing"
      <4>1. lsp'[s] = Stop(s, q)[s]
        BY <1>2, <3>1
      <4>2. Stop(s, q)[s].value = <<>> /\ \A k, d : ~Mark(Stop(s, q)[s], k, d)
        BY <1>1, Stopped, Zenon
      <4>3. lsp'[s].value = <<>> /\ \A k, d : ~Mark(lsp'[s], k, d)
        BY <4>1, <4>2, Zenon
      <4> QED BY <4>3
    <3>2. CASE step # "closing"
      <4>1. /\ lsp'[s].next = lsp[s].next /\ \A k, d : Mark(lsp'[s], k, d) => Mark(lsp[s], k, d)
            /\ lsp'[s].value = lsp[s].value /\ lsp'[s].path = lsp[s].path
        BY <1>0, <1>s, <1>1, <1>2, <3>2 DEF Goes, Read, Tracks
      <4> QED BY <1>6, <4>1 DEF Own, NumberedIds, Tracked
    <3> QED BY <3>1, <3>2
  <2>3. /\ call'[c].op # "workspaceSymbol"
        /\ \/ call'[c].at \in {"ask", "close"}
           \/ call'[c].at = "open" /\ call'[c].wait # "write"
        => call'[c].with = s /\ lsp'[s].path = c
    BY <1>0, <1>s, <1>2, <1>6 DEF Goes, Tracks, HasDocument, Path
  <2>4. Right(c, call'[c].result)
    BY <1>0, <1>2, <1>6 DEF Goes, Says
  <2> QED BY <1>1, <1>2, <1>6, <2>1, <2>2, <2>3, <2>4, OwnKept
<1> QED BY <1>4, <1>5, <1>6 DEF Keeps

LEMMA ReturnsKeeps ==
  ASSUME Shape, NEW c \in Requests, GivesBack(c)
  PROVE  Keeps
<1>0. PICK q, result : Returns(c, q, result)
  BY DEF GivesBack
<1>s. PICK s \in Sessions : s = call[c].with /\ s # 0
  BY <1>0, CallHas DEF Returns
<1>1. /\ call[c].with # 0 /\ Read(s, q) /\ (Tracks(s, q) \/ Forgets(s, q))
      /\ result \in Seq(LspMessage) /\ lsp' = q /\ cached' = s /\ lock' = "free"
      /\ drivers' = drivers /\ shut' = shut /\ closing' = closing
      /\ q \in [Sessions -> SessionType]
      /\ \A t \in Sessions \ {s} : q[t] = lsp[t]
  BY <1>0, <1>s DEF Returns, Read, Says
<1>2. /\ call' \in [Requests -> CallType]
      /\ \A d \in Requests \ {c} : call'[d] = call[d]
      /\ call'[c].at = "over" /\ call'[c].with = 0 /\ call'[c].wait = "no"
      /\ call'[c].op = call[c].op /\ call'[c].result = result
  <2>1. Types /\ call' = Gone(c, result)
    BY <1>0 DEF Shape, Returns
  <2> QED BY <1>1, <2>1, GoneOutcome
<1>4. Shape'
  <2>1. Types'
    BY <1>1, <1>2 DEF Shape, Types
  <2>2. HasSession'
    BY <1>2 DEF Shape, HasSession
  <2>3. SendsWhatItHas'
    <3>1. lsp'[s].driver = "send" => lsp'[s].cmd # <<>>
      BY <1>1 DEF Read, Shape, SendsWhatItHas
    <3> QED BY <1>1, <3>1, ShapeKept
  <2> QED BY <2>1, <2>2, <2>3 DEF Shape
<1>5. ASSUME Owned PROVE Owned'
  <2>1. /\ lock = c /\ cached = 0 /\ closing \notin {"joining", "returned"}
        /\ \A d \in Requests \ {c} : call[d].with = 0
    BY <1>1, <1>5, Alone
  <2>2. \A d \in Requests : call'[d].with = 0
    BY <1>2, <2>1
  <2>3. \A t \in Sessions : /\ lsp'[t].alive = lsp[t].alive /\ lsp'[t].stop = lsp[t].stop
                            /\ lsp'[t].driver = lsp[t].driver
    BY <1>1 DEF Read
  <2>4. \A t \in Sessions : Active(t)' <=> Active(t)
    BY <2>3 DEF Active
  <2>5. Watched'
    BY <1>1, <1>5, <2>3, <2>4 DEF Owned, Watched
  <2>6. Had'
    <3>1. \A t \in Sessions : Active(t) /\ ~lsp[t].stop => t = s
      BY <1>5, <1>s, <2>1, LspAssumption DEF Owned, Had
    <3> QED BY <1>1, <2>3, <2>4, <3>1 DEF Had
  <2>7. Started'
    <3>1. lsp[s].driver # "none"
      BY <1>s, <1>5 DEF Owned, Started
    <3>2. cached' = s /\ lsp'[s].driver # "none"
      BY <1>1, <2>3, <3>1
    <3> QED BY <2>2, <3>2 DEF Started
  <2>8. \A d \in Requests : lock' # d
    BY <1>1, LspAssumption
  <2>9. Locking' /\ Shutting'
    BY <1>1, <1>5, <2>1, <2>2, <2>8 DEF Owned, Locking, Shutting
  <2> QED BY <2>5, <2>6, <2>7, <2>9 DEF Owned
<1>6. ASSUME Owned, Own PROVE Own'
  <2>1. \A d \in Requests \ {c} : call[d].with = 0 /\ call[d].at \in {"idle", "lock", "over"}
    BY <1>1, <1>6, Alone
  <2>2. (\A k, d : Mark(lsp'[s], k, d) => k <= lsp'[s].next)
        /\ (lsp'[s].value # <<>> => lsp'[s].value[1].path = lsp'[s].path)
    BY <1>1, <1>6 DEF Read, Tracks, Forgets, Own, NumberedIds, Tracked
  <2>3. Right(c, call'[c].result)
    BY <1>0, <1>2, <1>6 DEF Returns, Says
  <2> QED BY <1>1, <1>2, <1>6, <2>1, <2>2, <2>3, OwnKept
<1> QED BY <1>4, <1>5, <1>6 DEF Keeps

LEMMA StutterKeeps ==
  ASSUME Shape, UNCHANGED lspVars
  PROVE  Keeps
<1>0. /\ lsp' = lsp /\ call' = call /\ cached' = cached /\ drivers' = drivers /\ lock' = lock
      /\ shut' = shut /\ closing' = closing
  BY DEF lspVars
<1>1. Shape'
  BY <1>0 DEF Shape, Types, HasSession, SendsWhatItHas
<1>2. Owned => Owned'
  BY <1>0 DEF Owned, Watched, Had, Started, Locking, Shutting, Active
<1>3. Own => Own'
  BY <1>0 DEF Own, NumberedIds, OwnId, Waits, Tracked, AnswersOwn, HasDocument, Path
<1> QED BY <1>1, <1>2, <1>3 DEF Keeps

LEMMA LooksKeeps ==
  ASSUME Shape, NEW c \in Requests, Looks(c)
  PROVE  Keeps
<1>s. PICK s \in Sessions : s = call[c].with /\ s # 0
  BY CallHas DEF Looks
<1>1. /\ Read(s, lsp') /\ Tracks(s, lsp')
      /\ cached' = cached /\ drivers' = drivers /\ lock' = lock /\ shut' = shut /\ closing' = closing
  BY <1>s DEF Looks, tool
<1>2. /\ call' \in [Requests -> CallType]
      /\ \A d \in Requests \ {c} : call'[d] = call[d]
      /\ call'[c].at = call[c].at /\ call'[c].with = call[c].with /\ call'[c].op = call[c].op
      /\ call'[c].result = call[c].result /\ call'[c].id = call[c].id
      /\ \/ call'[c].wait = call[c].wait
         \/ call[c].wait = "ack" /\ call[c].id # 0 /\ call'[c].wait = "answer"
  <2>1. call \in [Requests -> CallType]
    BY DEF Shape, Types
  <2>2. CASE call' = call
    BY <2>1, <2>2
  <2>3. CASE call' = [call EXCEPT ![c].read = @ + 1]
    <3> DEFINE n == call[c].read + 1
    <3>1. n \in Nat
      BY <2>1 DEF CallType
    <3>2. call' = [call EXCEPT ![c].read = n]
      BY <2>3
    <3> HIDE DEF n
    <3> QED BY <2>1, <3>1, <3>2 DEF CallType
  <2>4. CASE call[c].wait = "ack" /\ call[c].id # 0 /\ call' = [call EXCEPT ![c].wait = "answer"]
    BY <2>1, <2>4 DEF CallType
  <2> QED BY <2>2, <2>3, <2>4 DEF Looks
<1>3. /\ lsp' \in [Sessions -> SessionType]
      /\ \A t \in Sessions \ {s} : lsp'[t] = lsp[t]
      /\ \A t \in Sessions : /\ lsp'[t].driver = lsp[t].driver /\ lsp'[t].alive = lsp[t].alive
                             /\ lsp'[t].stop = lsp[t].stop /\ lsp'[t].cmd = lsp[t].cmd
  BY <1>1 DEF Read
<1>4. Shape'
  BY <1>1, <1>2, <1>3 DEF Shape, Types, HasSession, SendsWhatItHas
<1>5. ASSUME Owned PROVE Owned'
  <2>1. \A d \in Requests : call'[d].with = call[d].with
    BY <1>2
  <2>2. \A t \in Sessions : Active(t)' <=> Active(t)
    BY <1>3 DEF Active
  <2>3. Watched' /\ Had'
    BY <1>1, <1>3, <1>5, <2>1, <2>2 DEF Owned, Watched, Had
  <2>4. Started'
    <3>1. cached \in Sessions \cup {0} /\ \A d \in Requests : call[d].with \in Sessions \cup {0}
      BY DEF Shape, Types, CallType
    <3> QED BY <1>1, <1>3, <1>5, <2>1, <3>1 DEF Owned, Started
  <2>5. Locking' /\ Shutting'
    BY <1>1, <1>5, <2>1, <2>2 DEF Owned, Locking, Shutting
  <2> QED BY <2>3, <2>4, <2>5 DEF Owned
<1>6. ASSUME Owned, Own PROVE Own'
  <2>1. \A d \in Requests \ {c} : call[d].with = 0 /\ call[d].at \in {"idle", "lock", "over"}
    BY <1>s, <1>6, Alone
  <2>2. /\ lsp'[s].next = lsp[s].next /\ \A k, d : Mark(lsp'[s], k, d) => Mark(lsp[s], k, d)
        /\ lsp'[s].value = lsp[s].value /\ lsp'[s].path = lsp[s].path
    BY <1>1 DEF Read, Tracks
  <2>3. (\A k, d : Mark(lsp'[s], k, d) => k <= lsp'[s].next)
        /\ (lsp'[s].value # <<>> => lsp'[s].value[1].path = lsp'[s].path)
    BY <1>6, <2>2 DEF Own, NumberedIds, Tracked
  <2>4. call'[c].with # 0 /\ call'[c].wait \in {"ack", "answer"} /\ call'[c].id # 0 =>
            /\ call'[c].with = s /\ call'[c].id = lsp'[s].next
            /\ \A d : Mark(lsp'[s], call'[c].id, d) => d = c
    BY <1>s, <1>2, <1>6, <2>2 DEF Own, OwnId
  <2>5. call'[c].wait = "answer" => call'[c].id # 0
    BY <1>2, <1>6 DEF Own, Waits
  <2>6. /\ call'[c].op # "workspaceSymbol"
        /\ \/ call'[c].at \in {"ask", "close"}
           \/ call'[c].at = "open" /\ call'[c].wait # "write"
        => call'[c].with = s /\ lsp'[s].path = c
    BY <1>s, <1>2, <1>6, <2>2 DEF Own, Tracked, HasDocument, Path
  <2>7. Right(c, call'[c].result)
    BY <1>2, <1>6 DEF Own, AnswersOwn, Right
  <2> QED BY <1>2, <1>3, <1>6, <2>1, <2>3, <2>4, <2>5, <2>6, <2>7, OwnKept
<1> QED BY <1>4, <1>5, <1>6 DEF Keeps

(* A call that has no session yet begins, or gives up; a cached session    *)
(* that has ended is dropped.                                              *)
LEMMA AsideKeeps ==
  ASSUME Shape, NEW c \in Requests, NEW at \in {"lock", "over"}, call[c].at \in {"idle", "lock"},
         call' = [call EXCEPT ![c].at = at], UNCHANGED <<lsp, drivers, lock, shut, closing>>,
         cached' = cached \/ (cached' = 0 /\ (cached # 0 => finished(cached)))
  PROVE  Keeps
<1>1. /\ call' \in [Requests -> CallType]
      /\ \A d \in Requests \ {c} : call'[d] = call[d]
      /\ call'[c] = [call[c] EXCEPT !.at = at]
      /\ call'[c].at = at /\ call'[c].with = call[c].with /\ call'[c].op = call[c].op
      /\ call'[c].result = call[c].result /\ call'[c].id = call[c].id
      /\ call'[c].wait = call[c].wait
  <2>1. call \in [Requests -> CallType]
    BY DEF Shape, Types
  <2> QED BY <2>1 DEF CallType
<1>2. \A d \in Requests : call'[d].with = call[d].with /\ call'[d].op = call[d].op
      /\ call'[d].result = call[d].result /\ call'[d].id = call[d].id /\ call'[d].wait = call[d].wait
  BY <1>1
<1>3. lsp' = lsp /\ drivers' = drivers /\ lock' = lock /\ shut' = shut /\ closing' = closing
  OBVIOUS
<1>4. Shape'
  BY <1>1, <1>2, <1>3 DEF Shape, Types, HasSession, SendsWhatItHas
<1>5. ASSUME Owned PROVE Owned'
  <2>1. Watched' /\ Started' /\ Locking' /\ Shutting'
    BY <1>2, <1>3, <1>5 DEF Owned, Watched, Started, Locking, Shutting, Active
  <2>2. Had'
    <3>1. \A t \in Sessions : Active(t) /\ cached = t => cached' = t \/ t = 0
      BY DEF Active, finished
    <3>2. 0 \notin Sessions
      BY LspAssumption
    <3> QED BY <1>2, <1>3, <1>5, <3>1, <3>2 DEF Owned, Had, Active
  <2> QED BY <2>1, <2>2 DEF Owned
<1>6. ASSUME Own PROVE Own'
  <2>1. NumberedIds' /\ OwnId' /\ Waits'
    BY <1>2, <1>3, <1>6 DEF Own, NumberedIds, OwnId, Waits
  <2>3. AnswersOwn'
    BY <1>2, <1>6 DEF Own, AnswersOwn, Path
  <2>2. Tracked'
    BY <1>1, <1>2, <1>3, <1>6 DEF Own, Tracked, HasDocument, Path
  <2> QED BY <2>1, <2>2, <2>3 DEF Own
<1> QED BY <1>4, <1>5, <1>6 DEF Keeps

(* The lock, with the cached session or a new one.                         *)
LEMMA TakesKeeps ==
  ASSUME Shape, NEW c \in Requests, call[c].at = "lock", lock = "free", shut # "told",
         NEW s \in Sessions, NEW q \in [Sessions -> SessionType],
         NEW step \in {"init", "open", "ask", "closing"}, HasDocument(c) => step # "ask",
         \A t \in Sessions \ {s} : q[t] = lsp[t],
         q[s].driver # "none", q[s].driver = "send" => q[s].cmd # <<>>,
         Owned => /\ q[s].alive <=> q[s].driver \in {"drive", "send", "reply", "clean"}
                  /\ q[s].alive => s \in drivers'
                  /\ cached # 0 /\ cached # s => finished(cached),
         Own => /\ \A k, d : Mark(q[s], k, d) => k <= q[s].next
                /\ q[s].value # <<>> => q[s].value[1].path = q[s].path,
         GoOn(c, s, q, step, <<>>),
         drivers' \in {drivers, drivers \cup {s}},
         cached' = 0, lock' = c, shut' = shut, closing' = closing
  PROVE  Keeps
<1>s. s # 0
  BY LspAssumption
<1>1. /\ call' \in [Requests -> CallType]
      /\ \A d \in Requests \ {c} : call'[d] = call[d]
      /\ call'[c].at = step /\ call'[c].with = s /\ call'[c].wait = "write"
      /\ call'[c].op = call[c].op /\ call'[c].result = <<>>
      /\ lsp' \in [Sessions -> SessionType]
      /\ \A t \in Sessions \ {s} : lsp'[t] = lsp[t]
      /\ step = "closing" => lsp'[s] = Stop(s, q)[s]
      /\ step # "closing" => lsp'[s] = q[s]
  <2>1. Types /\ <<>> \in Seq(LspMessage) /\ step \in Steps \cup {"closing"}
    BY DEF Shape, Steps
  <2>2. /\ call' \in [Requests -> CallType]
        /\ \A d \in Requests \ {c} : call'[d] = call[d]
        /\ call'[c].at = step /\ call'[c].with = s /\ call'[c].wait = "write"
        /\ call'[c].op = call[c].op /\ call'[c].result = <<>>
        /\ lsp' \in [Sessions -> SessionType]
        /\ \A t \in Sessions \ {s} : lsp'[t] = q[t]
        /\ step = "closing" => lsp'[s] = Stop(s, q)[s]
        /\ step # "closing" => lsp'[s] = q[s]
    BY <2>1, GoOnOutcome, Zenon
  <2> QED BY <2>2
<1>2. /\ Stop(s, q)[s].alive = q[s].alive
      /\ Stop(s, q)[s].driver = IF q[s].driver \in {"clean", "done"} THEN q[s].driver ELSE "drive"
      /\ Stop(s, q)[s].value = <<>> /\ \A k, d : ~Mark(Stop(s, q)[s], k, d)
  BY Stopped, Zenon
<1>3. /\ lsp'[s].driver = "send" => lsp'[s].cmd # <<>>
      /\ lsp'[s].driver # "none" /\ lsp'[s].alive = q[s].alive
      /\ lsp'[s].driver \in {"drive", "send", "reply", "clean"}
            <=> q[s].driver \in {"drive", "send", "reply", "clean"}
  <2>1. q[s].driver \in {"none", "drive", "send", "reply", "clean", "done"}
    BY DEF SessionType
  <2>2. CASE step = "closing"
    <3>1. lsp'[s] = Stop(s, q)[s]
      BY <1>1, <2>2
    <3>2. /\ lsp'[s].alive = q[s].alive
          /\ lsp'[s].driver = IF q[s].driver \in {"clean", "done"} THEN q[s].driver ELSE "drive"
      BY <1>2, <3>1, Zenon
    <3> QED BY <2>1, <3>2
  <2>3. CASE step # "closing"
    BY <1>1, <2>3
  <2> QED BY <2>2, <2>3
<1>4. Shape'
  <2>1. Types'
    BY <1>1 DEF Shape, Types
  <2>2. HasSession'
    BY <1>s, <1>1 DEF Shape, HasSession
  <2>3. SendsWhatItHas'
    BY <1>1, <1>3, ShapeKept
  <2> QED BY <2>1, <2>2, <2>3 DEF Shape
<1>5. ASSUME Owned PROVE Owned'
  <2>1. \A d \in Requests : call[d].with = 0
    BY <1>5, Nobody
  <2>2. closing \notin {"waiting", "joining", "returned"}
    BY <1>5 DEF Owned, Shutting
  <2>3. \A t \in Sessions \ {s} : lsp'[t] = lsp[t] /\ (Active(t)' <=> Active(t))
    BY <1>1 DEF Active
  <2>4. (lsp'[s].alive <=> Active(s)') /\ (Active(s)' => s \in drivers')
    BY <1>3, <1>5 DEF Active
  <2>5. Watched'
    BY <1>5, <2>3, <2>4 DEF Owned, Watched
  <2>6. Had'
    <3>1. call'[c].with = s
      BY <1>1
    <3>2. \A t \in Sessions \ {s} : Active(t) => lsp[t].stop
      <4>1. ASSUME NEW t \in Sessions \ {s}, Active(t), ~lsp[t].stop PROVE FALSE
        <5>1. cached = t
          BY <1>5, <2>1, <4>1, LspAssumption DEF Owned, Had
        <5>2. t # 0
          BY LspAssumption
        <5>3. finished(t)
          BY <1>5, <5>1, <5>2
        <5> QED BY <4>1, <5>3 DEF Active, finished
      <4> QED BY <4>1
    <3> QED BY <2>3, <3>1, <3>2 DEF Had
  <2>7. Started'
    <3>1. \A d \in Requests : call'[d].with \in {0, s}
      BY <1>1, <2>1
    <3> QED BY <1>3, <3>1 DEF Started
  <2>8. Locking'
    <3>1. \A d \in Requests : call'[d].with # 0 <=> d = c
      BY <1>s, <1>1, <2>1
    <3>2. lock' \notin {"free", "close"} /\ closing' # "joining"
      BY <2>2, LspAssumption
    <3> QED BY <3>1, <3>2 DEF Locking
  <2>9. Shutting'
    BY <2>2 DEF Shutting
  <2> QED BY <2>5, <2>6, <2>7, <2>8, <2>9 DEF Owned
<1>6. ASSUME Owned, Own PROVE Own'
  <2>1. \A d \in Requests \ {c} : call[d].with = 0 /\ call[d].at \in {"idle", "lock", "over"}
    BY <1>6, Nobody
  <2>2. (\A k, d : Mark(lsp'[s], k, d) => k <= lsp'[s].next)
        /\ (lsp'[s].value # <<>> => lsp'[s].value[1].path = lsp'[s].path)
    <3>1. CASE step = "closing"
      <4>1. lsp'[s] = Stop(s, q)[s]
        BY <1>1, <3>1
      <4>2. lsp'[s].value = <<>> /\ \A k, d : ~Mark(lsp'[s], k, d)
        BY <1>2, <4>1, Zenon
      <4> QED BY <4>2
    <3>2. CASE step # "closing"
      <4>1. lsp'[s] = q[s]
        BY <1>1, <3>2
      <4> QED BY <1>6, <4>1
    <3> QED BY <3>1, <3>2
  <2>3. ~(call'[c].op # "workspaceSymbol" /\ call'[c].at \in {"ask", "close"})
    BY <1>1 DEF HasDocument
  <2>4. Right(c, call'[c].result)
    BY <1>1 DEF Right
  <2> QED BY <1>1, <1>6, <2>1, <2>2, <2>3, <2>4, OwnKept
<1> QED BY <1>4, <1>5, <1>6 DEF Keeps

LEMMA LockedKeeps ==
  ASSUME Shape, NEW c \in Requests, Locked(c)
  PROVE  Keeps
<1>0. /\ call[c].at = "lock" /\ lock = "free" /\ shut # "told" /\ cached' = 0
      /\ shut' = shut /\ closing' = closing
  BY DEF Locked, Polled
<1>f. \A b \in BOOLEAN : /\ FirstStep(c, b) \in {"init", "open", "ask", "closing"}
                         /\ HasDocument(c) => FirstStep(c, b) # "ask"
  BY DEF FirstStep
<1>t. lsp \in [Sessions -> SessionType] /\ cached \in Sessions \cup {0}
  BY DEF Shape, Types
<1>1. CASE /\ cached # 0 /\ ~finished(cached) /\ GoOn(c, cached, lsp, FirstStep(c, FALSE), <<>>)
           /\ lock' = c /\ drivers' = drivers
  <2>1. PICK s \in Sessions : s = cached
    BY <1>1, <1>t
  <2>2. CASE lsp[s].driver = "none"
    <3>1. ~Owned
      BY <1>1, <2>1, <2>2 DEF Owned, Started
    <3>2. Shape'
      <4> DEFINE step == FirstStep(c, FALSE)
      <4>0. step \in {"init", "open", "ask", "closing"}
        BY <1>f
      <4>2. GoOn(c, s, lsp, step, <<>>)
        BY <1>1, <2>1
      <4> HIDE DEF step
      <4>1. Types /\ <<>> \in Seq(LspMessage) /\ step \in Steps \cup {"closing"}
        BY <4>0 DEF Shape, Steps
      <4>3. /\ call' \in [Requests -> CallType]
            /\ \A d \in Requests \ {c} : call'[d] = call[d]
            /\ call'[c].at = step /\ call'[c].with = s /\ call'[c].wait = "write"
            /\ call'[c].op = call[c].op /\ call'[c].result = <<>>
            /\ lsp' \in [Sessions -> SessionType]
            /\ \A t \in Sessions \ {s} : lsp'[t] = lsp[t]
            /\ step = "closing" => lsp'[s] = Stop(s, lsp)[s]
            /\ step # "closing" => lsp'[s] = lsp[s]
        BY <1>t, <4>1, <4>2, GoOnOutcome, Zenon
      <4>4. Stop(s, lsp)[s].driver = "drive"
        BY <1>t, <2>2, Stopped
      <4>5. lsp'[s].driver # "send"
        BY <2>2, <4>3, <4>4
      <4>6. Types'
        BY <1>0, <1>1, <4>3 DEF Shape, Types
      <4>7. HasSession'
        BY <1>1, <2>1, <4>0, <4>3 DEF Shape, HasSession
      <4>8. SendsWhatItHas'
        BY <4>3, <4>5, ShapeKept
      <4> QED BY <4>6, <4>7, <4>8 DEF Shape
    <3> QED BY <3>1, <3>2 DEF Keeps
  <2>3. CASE lsp[s].driver # "none"
    <3>1. lsp[s].driver = "send" => lsp[s].cmd # <<>>
      BY DEF Shape, SendsWhatItHas
    <3>2. Owned => /\ lsp[s].alive <=> lsp[s].driver \in {"drive", "send", "reply", "clean"}
                   /\ lsp[s].alive => s \in drivers'
                   /\ cached # 0 /\ cached # s => finished(cached)
      BY <1>1, <2>1 DEF Owned, Watched, Active
    <3>3. Own => /\ \A k, d : Mark(lsp[s], k, d) => k <= lsp[s].next
                 /\ lsp[s].value # <<>> => lsp[s].value[1].path = lsp[s].path
      BY DEF Own, NumberedIds, Tracked
    <3>4. GoOn(c, s, lsp, FirstStep(c, FALSE), <<>>)
      BY <1>1, <2>1
    <3> QED BY <1>0, <1>f, <1>t, <1>1, <2>3, <3>1, <3>2, <3>3, <3>4, TakesKeeps
  <2> QED BY <2>2, <2>3
<1>2. CASE /\ cached # 0 => finished(cached) /\ lsp[cached].clean
           /\ \E s \in Sessions, pull \in BOOLEAN :
                /\ lsp[s].driver = "none" /\ \A t \in Sessions : t < s => lsp[t].driver # "none"
                /\ drivers' = drivers \cup {s}
                /\ GoOn(c, s, [lsp EXCEPT ![s] = [NewSession EXCEPT !.driver = "drive", !.alive = TRUE, !.pull = pull]],
                        FirstStep(c, TRUE), <<>>)
           /\ lock' = c
  <2>1. PICK s \in Sessions, pull \in BOOLEAN :
           /\ drivers' = drivers \cup {s}
           /\ GoOn(c, s, [lsp EXCEPT ![s] = [NewSession EXCEPT !.driver = "drive", !.alive = TRUE, !.pull = pull]],
                   FirstStep(c, TRUE), <<>>)
    BY <1>2
  <2> DEFINE r == [NewSession EXCEPT !.driver = "drive", !.alive = TRUE, !.pull = pull]
             q == [lsp EXCEPT ![s] = r]
  <2>2. r \in SessionType
    BY NewTypes DEF SessionType
  <2>3. /\ r.driver = "drive" /\ r.alive = TRUE /\ r.value = <<>>
        /\ r.cmd = <<>> /\ r.asked = {} /\ r.wire = <<>> /\ r.pending = <<>> /\ r.inbox = <<>>
    BY DEF NewSession
  <2> HIDE DEF r
  <2>4. \A k, d : ~Mark(r, k, d)
    BY <2>3 DEF Mark
  <2>5. q \in [Sessions -> SessionType] /\ q[s] = r /\ \A t \in Sessions \ {s} : q[t] = lsp[t]
    BY <1>t, <2>2
  <2>6. GoOn(c, s, q, FirstStep(c, TRUE), <<>>)
    BY <2>1 DEF r
  <2> HIDE DEF q
  <2>7. q[s].driver # "none" /\ (q[s].driver = "send" => q[s].cmd # <<>>)
    BY <2>3, <2>5
  <2>8. Owned => /\ q[s].alive <=> q[s].driver \in {"drive", "send", "reply", "clean"}
                 /\ q[s].alive => s \in drivers'
                 /\ cached # 0 /\ cached # s => finished(cached)
    BY <1>2, <2>1, <2>3, <2>5
  <2>9. Own => /\ \A k, d : Mark(q[s], k, d) => k <= q[s].next
               /\ q[s].value # <<>> => q[s].value[1].path = q[s].path
    BY <2>3, <2>4, <2>5
  <2> DEFINE step == FirstStep(c, TRUE)
  <2>10. /\ step \in {"init", "open", "ask", "closing"} /\ (HasDocument(c) => step # "ask")
         /\ GoOn(c, s, q, step, <<>>)
    BY <1>f, <2>6
  <2>11. lock' = c /\ drivers' \in {drivers, drivers \cup {s}}
    BY <1>2, <2>1
  <2> HIDE DEF step
  <2> QED BY <1>0, <2>5, <2>7, <2>8, <2>9, <2>10, <2>11, TakesKeeps
<1>3. CASE /\ cached # 0 => finished(cached)
           /\ call' = [call EXCEPT ![c].at = "over"]
           /\ UNCHANGED <<lsp, drivers, lock>>
  BY <1>0, <1>3, AsideKeeps
<1> QED BY <1>1, <1>2, <1>3 DEF Locked

(* The fields of a session that Session::write sets.                       *)
LEMMA SetWritten ==
  ASSUME NEW q \in SessionType, NEW x \in Seq(FrameType), NEW n \in Nat,
         NEW p \in Requests \cup {NoPath}, NEW v \in Seq(Publish)
  PROVE  [q EXCEPT !.cmd = x, !.ack = "none", !.next = n, !.path = p, !.value = v] \in SessionType
<1>1. \A r \in SessionType : [r EXCEPT !.cmd = x] \in SessionType
  BY DEF SessionType
<1>2. \A r \in SessionType : [r EXCEPT !.ack = "none"] \in SessionType
  BY DEF SessionType
<1>3. \A r \in SessionType : [r EXCEPT !.next = n] \in SessionType
  BY DEF SessionType
<1>4. \A r \in SessionType : [r EXCEPT !.path = p] \in SessionType
  BY DEF SessionType
<1>5. \A r \in SessionType : [r EXCEPT !.value = v] \in SessionType
  BY DEF SessionType
<1> QED BY <1>1, <1>2, <1>3, <1>4, <1>5, Zenon

(* The marks of a session are ids.                                         *)
LEMMA MarkNumber ==
  ASSUME NEW q \in SessionType
  PROVE  \A k, d : Mark(q, k, d) => k \in Nat
<1>1. \A m \in Replied \cup Noise : m.id \in Nat
  BY DEF Replied, Noise
<1>2. \A m \in FrameType : m.id \in Nat
  BY DEF FrameType
<1> DEFINE x == q.cmd
           b == q.inbox
<1>3. x \in Seq(FrameType) /\ b \in Seq(Replied \cup Noise) /\ q.asked \subseteq FrameType
  BY DEF SessionType
<1> HIDE DEF x, b
<1>4. (\A i \in DOMAIN x : x[i] \in FrameType) /\ \A i \in DOMAIN b : b[i] \in Replied \cup Noise
  BY <1>3
<1> QED BY <1>1, <1>2, <1>3, <1>4 DEF Mark, x, b

LEMMA WriteKeeps ==
  ASSUME Shape, NEW c \in Requests, Write(c)
  PROVE  Keeps
<1>0. call[c].at \in Steps /\ call[c].wait = "write" /\ UNCHANGED tool
  BY DEF Write, Steps
<1>s. PICK s \in Sessions : s = call[c].with /\ s # 0
  BY <1>0, CallHas
<1>t. lsp \in [Sessions -> SessionType] /\ call \in [Requests -> CallType]
  BY DEF Shape, Types
<1> DEFINE m == Frame(c)
           x == <<m>>
           n == IF m.id = 0 THEN lsp[s].next ELSE m.id
           p == IF m.step = "open" THEN c ELSE lsp[s].path
           v == IF m.step = "open" THEN <<>> ELSE lsp[s].value
           r == [lsp[s] EXCEPT !.cmd = x, !.ack = "none", !.next = n, !.path = p, !.value = v]
<1>1. lsp' = [lsp EXCEPT ![s] = r]
  BY <1>s DEF Write, Path
<1>2. call' = [call EXCEPT ![c].wait = "ack", ![c].id = m.id, ![c].read = 0]
  BY DEF Write
<1>3. /\ m \in FrameType /\ m.step = call[c].at /\ m.call = c
      /\ m.id = 0 \/ m.id = lsp[s].next + 1
  <2>1. lsp[s].next \in Nat
    BY <1>t DEF SessionType
  <2> DEFINE i == IF call[c].at \in {"init", "ask"} THEN lsp[s].next + 1 ELSE 0
  <2>2. i \in Nat /\ (i = 0 \/ i = lsp[s].next + 1)
    BY <2>1
  <2>3. m = [step |-> call[c].at, call |-> c, id |-> i]
    BY <1>s DEF Frame, Session
  <2> HIDE DEF m, i
  <2> QED BY <1>0, <2>2, <2>3 DEF FrameType
<1> HIDE DEF m
<1>4. x \in Seq(FrameType) /\ x # <<>> /\ \A i \in DOMAIN x : x[i] = m
  BY <1>3
<1>5. /\ lsp[s].next \in Nat /\ n \in Nat /\ lsp[s].next <= n
      /\ m.id # 0 => n = m.id /\ n = lsp[s].next + 1
      /\ m.id <= n
  BY <1>3, <1>t DEF SessionType
<1>6. p \in Requests \cup {NoPath} /\ v \in Seq(Publish)
  BY <1>t DEF SessionType
<1>7. call[c].at = "open" => p = c /\ v = <<>>
  BY <1>3
<1>8. call[c].at # "open" => p = lsp[s].path /\ v = lsp[s].value
  BY <1>3
<1> HIDE DEF x, n, p, v
<1>9. r \in SessionType
  BY <1>t, <1>4, <1>5, <1>6, SetWritten
<1>10. /\ r.driver = lsp[s].driver /\ r.alive = lsp[s].alive /\ r.stop = lsp[s].stop
       /\ r.cmd = x /\ r.next = n /\ r.path = p /\ r.value = v
       /\ r.asked = lsp[s].asked /\ r.wire = lsp[s].wire /\ r.pending = lsp[s].pending
       /\ r.inbox = lsp[s].inbox
  BY <1>t DEF SessionType
<1> HIDE DEF r
<1>11. \A k, d : Mark(r, k, d) => Mark(lsp[s], k, d) \/ (k = m.id /\ d = c)
  BY <1>3, <1>4, <1>10 DEF Mark
<1>12. /\ lsp' \in [Sessions -> SessionType] /\ lsp'[s] = r
       /\ \A t \in Sessions \ {s} : lsp'[t] = lsp[t]
       /\ \A t \in Sessions : /\ lsp'[t].driver = lsp[t].driver /\ lsp'[t].alive = lsp[t].alive
                              /\ lsp'[t].stop = lsp[t].stop
  BY <1>t, <1>1, <1>9, <1>10
<1>13. /\ call' \in [Requests -> CallType]
       /\ \A d \in Requests \ {c} : call'[d] = call[d]
       /\ call'[c].at = call[c].at /\ call'[c].with = call[c].with /\ call'[c].op = call[c].op
       /\ call'[c].result = call[c].result /\ call'[c].id = m.id /\ call'[c].wait = "ack"
  <2>1. m.id \in Nat
    BY <1>3 DEF FrameType
  <2> QED BY <1>t, <1>2, <2>1, ZenonT(60) DEF CallType
<1>14. Shape'
  <2>1. Types' /\ HasSession'
    BY <1>0, <1>12, <1>13 DEF Shape, Types, HasSession, tool
  <2>2. SendsWhatItHas'
    BY <1>4, <1>10, <1>12, ShapeKept
  <2> QED BY <2>1, <2>2 DEF Shape
<1>15. ASSUME Owned PROVE Owned'
  <2>1. /\ \A d \in Requests : call'[d].with = call[d].with
        /\ cached' = cached /\ drivers' = drivers /\ lock' = lock /\ shut' = shut /\ closing' = closing
    BY <1>0, <1>13 DEF tool
  <2>2. \A t \in Sessions : Active(t)' <=> Active(t)
    BY <1>12 DEF Active
  <2>3. Watched' /\ Had'
    BY <1>12, <1>15, <2>1, <2>2 DEF Owned, Watched, Had
  <2>4. Started'
    <3>1. cached \in Sessions \cup {0} /\ \A d \in Requests : call[d].with \in Sessions \cup {0}
      BY DEF Shape, Types, CallType
    <3> QED BY <1>12, <1>15, <2>1, <3>1 DEF Owned, Started
  <2>5. Locking' /\ Shutting'
    BY <1>15, <2>1, <2>2 DEF Owned, Locking, Shutting
  <2> QED BY <2>3, <2>4, <2>5 DEF Owned
<1>16. ASSUME Owned, Own PROVE Own'
  <2>1. \A d \in Requests \ {c} : call[d].with = 0 /\ call[d].at \in {"idle", "lock", "over"}
    BY <1>s, <1>16, Alone
  <2>2. \A k, d : Mark(lsp[s], k, d) => k <= lsp[s].next
    BY <1>16 DEF Own, NumberedIds
  <2>3. \A k, d : Mark(lsp[s], k, d) => k \in Nat
    <3>1. lsp[s] \in SessionType
      BY <1>t
    <3> QED BY <3>1, MarkNumber
  <2>4. \A k, d : Mark(lsp'[s], k, d) => k <= lsp'[s].next
    <3>1. \A k, d : Mark(r, k, d) => k <= n
      BY <1>5, <1>11, <2>2, <2>3
    <3> QED BY <1>10, <1>12, <3>1
  <2>5. lsp'[s].value # <<>> => lsp'[s].value[1].path = lsp'[s].path
    BY <1>7, <1>8, <1>10, <1>12, <1>16 DEF Own, Tracked
  <2>6. call'[c].with # 0 /\ call'[c].wait \in {"ack", "answer"} /\ call'[c].id # 0 =>
            /\ call'[c].with = s /\ call'[c].id = lsp'[s].next
            /\ \A d : Mark(lsp'[s], call'[c].id, d) => d = c
    <3>1. m.id # 0 => m.id = n /\ \A d : Mark(r, m.id, d) => d = c
      BY <1>5, <1>11, <2>2
    <3> QED BY <1>s, <1>10, <1>12, <1>13, <3>1
  <2>7. /\ call'[c].op # "workspaceSymbol"
        /\ \/ call'[c].at \in {"ask", "close"}
           \/ call'[c].at = "open" /\ call'[c].wait # "write"
        => call'[c].with = s /\ lsp'[s].path = c
    BY <1>s, <1>7, <1>8, <1>10, <1>12, <1>13, <1>16 DEF Own, Tracked, HasDocument, Path
  <2>8. Right(c, call'[c].result)
    BY <1>13, <1>16 DEF Own, AnswersOwn, Right
  <2> QED BY <1>12, <1>13, <1>16, <2>1, <2>4, <2>5, <2>6, <2>7, <2>8, OwnKept
<1> QED BY <1>14, <1>15, <1>16 DEF Keeps

(* A call leaves, and its session with it, ended or told to stop.          *)
LEMMA LeavesKeeps ==
  ASSUME Shape, NEW c \in Requests, call' = Gone(c, <<>>),
         \/ lsp' = lsp /\ (call[c].with # 0 => finished(call[c].with))
         \/ call[c].with # 0 /\ lsp' = Stop(call[c].with, lsp),
         lock' = (IF lock = c THEN "free" ELSE lock) \/ (lock' = "free" /\ call[c].with # 0),
         UNCHANGED <<cached, drivers, shut, closing>>
  PROVE  Keeps
<1>0. cached' = cached /\ drivers' = drivers /\ shut' = shut /\ closing' = closing
  OBVIOUS
<1>t. Types /\ lsp \in [Sessions -> SessionType] /\ call[c].with \in Sessions \cup {0}
      /\ 0 \notin Sessions
  BY LspAssumption DEF Shape, Types, CallType
<1>1. /\ call' \in [Requests -> CallType]
      /\ \A d \in Requests \ {c} : call'[d] = call[d]
      /\ call'[c].at = "over" /\ call'[c].with = 0 /\ call'[c].wait = "no"
      /\ call'[c].op = call[c].op /\ call'[c].result = <<>>
  <2>1. <<>> \in Seq(LspMessage)
    OBVIOUS
  <2> QED BY <1>t, <2>1, GoneOutcome
<1>l. lock' \in Requests \cup {"free", "close"}
  BY DEF Shape, Types
<1>o. ASSUME Owned
      PROVE  /\ \A d \in Requests : lock' = d <=> call'[d].with # 0
             /\ lock' = "close" <=> lock = "close"
             /\ lock' # "free" => lock # "free"
  <2>1. lock = c <=> call[c].with # 0
    BY <1>o DEF Owned, Locking
  <2>2. lock' = IF lock = c THEN "free" ELSE lock
    BY <2>1
  <2>3. \A d \in Requests : d # "free" /\ d # "close"
    BY LspAssumption
  <2> QED BY <1>o, <1>1, <2>2, <2>3 DEF Owned, Locking
<1>2. CASE lsp' = lsp /\ (call[c].with # 0 => finished(call[c].with))
  <2>1. Shape'
    BY <1>0, <1>1, <1>2, <1>l DEF Shape, Types, HasSession, SendsWhatItHas
  <2>2. ASSUME Owned PROVE Owned'
    <3>1. Watched' /\ Started'
      BY <1>0, <1>1, <1>2, <2>2 DEF Owned, Watched, Started, Active
    <3>2. Had'
      <4>1. \A t \in Sessions : Active(t) => call[c].with # t
        BY <1>2, <1>t DEF Active, finished
      <4> QED BY <1>0, <1>1, <1>2, <2>2, <4>1 DEF Owned, Had, Active
    <3>3. Locking'
      BY <1>0, <1>o, <2>2 DEF Owned, Locking
    <3>4. Shutting'
      <4>1. lock = "free" => lock' = "free"
        BY <1>o, <2>2
      <4> QED BY <1>0, <1>2, <2>2, <4>1 DEF Owned, Shutting, Active
    <3> QED BY <3>1, <3>2, <3>3, <3>4 DEF Owned
  <2>3. ASSUME Own PROVE Own'
    <3>1. NumberedIds' /\ OwnId' /\ Waits'
      BY <1>1, <1>2, <2>3, ZenonT(60) DEF Own, NumberedIds, OwnId, Waits
    <3>2. Tracked'
      BY <1>1, <1>2, <2>3 DEF Own, Tracked, HasDocument, Path
    <3>3. AnswersOwn'
      BY <1>1, <2>3 DEF Own, AnswersOwn, Path
    <3> QED BY <3>1, <3>2, <3>3 DEF Own
  <2> QED BY <2>1, <2>2, <2>3 DEF Keeps
<1>3. CASE call[c].with # 0 /\ lsp' = Stop(call[c].with, lsp)
  <2>s. PICK s \in Sessions : s = call[c].with /\ s # 0
    BY <1>3, <1>t
  <2>1. /\ lsp' \in [Sessions -> SessionType]
        /\ \A t \in Sessions \ {s} : lsp'[t] = lsp[t]
        /\ lsp'[s].alive = lsp[s].alive /\ lsp'[s].stop
        /\ lsp'[s].driver = IF lsp[s].driver \in {"clean", "done"} THEN lsp[s].driver ELSE "drive"
        /\ lsp'[s].value = <<>>
        /\ \A k, d : ~Mark(lsp'[s], k, d)
    <3>1. /\ Stop(s, lsp) \in [Sessions -> SessionType]
          /\ \A t \in Sessions \ {s} : Stop(s, lsp)[t] = lsp[t]
          /\ Stop(s, lsp)[s].alive = lsp[s].alive /\ Stop(s, lsp)[s].stop
          /\ Stop(s, lsp)[s].driver = IF lsp[s].driver \in {"clean", "done"} THEN lsp[s].driver ELSE "drive"
          /\ Stop(s, lsp)[s].value = <<>> /\ Stop(s, lsp)[s].next = 0
          /\ \A k, d : ~Mark(Stop(s, lsp)[s], k, d)
      BY <1>t, Stopped, Zenon
    <3>2. lsp' = Stop(s, lsp)
      BY <1>3, <2>s
    <3> QED BY <3>1, <3>2, Zenon
  <2>2. Shape'
    <3>1. Types' /\ HasSession'
      BY <1>0, <1>1, <1>l, <2>1 DEF Shape, Types, HasSession
    <3>2. lsp'[s].driver # "send"
      BY <2>1
    <3>3. SendsWhatItHas'
      BY <2>1, <3>2, ShapeKept
    <3> QED BY <3>1, <3>3 DEF Shape
  <2>3. ASSUME Owned PROVE Owned'
    <3>1. /\ lock = c /\ cached = 0 /\ closing \notin {"joining", "returned"}
          /\ \A d \in Requests \ {c} : call[d].with = 0
      BY <1>3, <2>3, Alone
    <3>2. lsp[s].driver # "none"
      BY <2>s, <2>3 DEF Owned, Started
    <3>3. Active(s)' <=> Active(s)
      <4>1. lsp[s].driver \in {"none", "drive", "send", "reply", "clean", "done"}
        BY <1>t DEF SessionType
      <4> QED BY <2>1, <3>2, <4>1 DEF Active
    <3>4. \A t \in Sessions \ {s} : lsp'[t] = lsp[t] /\ (Active(t)' <=> Active(t))
      BY <2>1 DEF Active
    <3>5. Watched'
      BY <1>0, <2>1, <2>3, <3>3, <3>4 DEF Owned, Watched
    <3>6. Had'
      <4>1. \A t \in Sessions \ {s} : Active(t) => lsp[t].stop
        BY <1>t, <2>s, <2>3, <3>1 DEF Owned, Had
      <4> QED BY <2>1, <3>4, <4>1 DEF Had
    <3>7. Started'
      BY <1>0, <1>1, <3>1 DEF Started
    <3>8. Locking' /\ Shutting'
      BY <1>0, <1>o, <2>3, <3>1 DEF Owned, Locking, Shutting
    <3> QED BY <3>5, <3>6, <3>7, <3>8 DEF Owned
  <2>4. ASSUME Owned, Own PROVE Own'
    <3>1. \A d \in Requests \ {c} : call[d].with = 0 /\ call[d].at \in {"idle", "lock", "over"}
      BY <1>3, <2>4, Alone
    <3>2. Right(c, call'[c].result)
      BY <1>1 DEF Right
    <3> QED BY <1>1, <2>1, <2>4, <3>1, <3>2, OwnKept
  <2> QED BY <2>2, <2>3, <2>4 DEF Keeps
<1> QED BY <1>2, <1>3

LEMMA ServesKeeps ==
  ASSUME Shape, NEW s \in Sessions, Serves(s)
  PROVE  Keeps
<1>0. PICK r : ServedStep(s, r) /\ lsp' = [lsp EXCEPT ![s] = r]
  BY DEF Serves
<1>1. /\ call' = call /\ cached' = cached /\ drivers' = drivers /\ lock' = lock
      /\ shut' = shut /\ closing' = closing
  BY DEF Serves, tool
<1>2. /\ lsp' \in [Sessions -> SessionType] /\ lsp'[s] = r
      /\ \A t \in Sessions \ {s} : lsp'[t] = lsp[t]
  BY <1>0 DEF Shape, Types, ServedStep
<1>3. Shape'
  <2>1. Types' /\ HasSession'
    BY <1>1, <1>2 DEF Shape, Types, HasSession
  <2>2. SendsWhatItHas'
    BY <1>0, <1>2, ShapeKept DEF ServedStep
  <2> QED BY <2>1, <2>2 DEF Shape
<1>4. ASSUME Owned PROVE Owned'
  <2>0. /\ Active(s) /\ r.stop = lsp[s].stop /\ r.driver # "none"
        /\ r.alive <=> r.driver \in {"drive", "send", "reply", "clean"}
    <3>1. lsp[s].alive /\ Active(s)
      BY <1>0, <1>4 DEF Owned, Watched, ServedStep
    <3> QED BY <1>0, <3>1 DEF ServedStep
  <2>1. \A t \in Sessions \ {s} : lsp'[t] = lsp[t] /\ (Active(t)' <=> Active(t))
    BY <1>2 DEF Active
  <2>2. lsp'[s].alive <=> Active(s)'
    BY <1>2, <2>0 DEF Active
  <2>3. Watched'
    BY <1>1, <1>4, <2>0, <2>1, <2>2 DEF Owned, Watched
  <2>4. Had'
    <3>1. \A t \in Sessions : lsp'[t].stop = lsp[t].stop /\ (Active(t)' => Active(t))
      BY <1>2, <2>0, <2>1
    <3> QED BY <1>1, <1>4, <3>1 DEF Owned, Had
  <2>5. Started'
    <3>1. \A t \in Sessions : lsp[t].driver # "none" => lsp'[t].driver # "none"
      BY <1>2, <2>0
    <3>2. cached \in Sessions \cup {0} /\ \A d \in Requests : call[d].with \in Sessions \cup {0}
      BY DEF Shape, Types, CallType
    <3> QED BY <1>1, <1>4, <3>1, <3>2 DEF Owned, Started
  <2>6. Locking'
    BY <1>1, <1>4 DEF Owned, Locking
  <2>7. Shutting'
    BY <1>1, <1>4, <2>0 DEF Owned, Shutting
  <2> QED BY <2>3, <2>4, <2>5, <2>6, <2>7 DEF Owned
<1>5. ASSUME Own PROVE Own'
  <2>1. \A t \in Sessions : /\ lsp'[t].next = lsp[t].next /\ lsp'[t].path = lsp[t].path
                            /\ \A k, d : Mark(lsp'[t], k, d) => Mark(lsp[t], k, d) \/ k = 0
    BY <1>0, <1>2 DEF ServedStep
  <2>2. NumberedIds'
    <3>1. \A t \in Sessions : 0 <= lsp[t].next
      <4>1. \A t \in Sessions : lsp[t].next \in Nat
        BY DEF Shape, Types, SessionType
      <4> QED BY <4>1
    <3> QED BY <1>5, <2>1, <3>1 DEF Own, NumberedIds
  <2>3. \A d \in Requests : call[d].with # 0 => call[d].with \in Sessions
    BY DEF Shape, Types, CallType
  <2>4. OwnId'
    BY <1>1, <1>5, <2>1, <2>3 DEF Own, OwnId
  <2>5. Waits' /\ AnswersOwn'
    BY <1>1, <1>5 DEF Own, Waits, AnswersOwn, Path
  <2>6. Tracked'
    <3>1. \A t \in Sessions : lsp'[t].value # <<>> => lsp'[t].value[1].path = lsp'[t].path
      BY <1>0, <1>2, <1>5 DEF ServedStep, Own, Tracked
    <3>2. \A d \in Requests : call[d].at \in {"open", "ask", "close"} => call[d].with # 0
      BY DEF Shape, HasSession
    <3> QED BY <1>1, <1>5, <2>1, <2>3, <3>1, <3>2 DEF Own, Tracked, HasDocument, Path
  <2> QED BY <2>2, <2>4, <2>5, <2>6 DEF Own
<1> QED BY <1>3, <1>4, <1>5 DEF Keeps

LEMMA LspCloseKeeps ==
  ASSUME Shape, CloseStores \/ CloseTells \/ CloseJoined \/ CloseDropped
  PROVE  Keeps
<1>1. /\ lsp' = lsp /\ call' = call /\ cached' = cached
      /\ \/ drivers' = drivers
         \/ drivers' = {} /\ \A s \in drivers : finished(s)
  BY DEF CloseStores, CloseTells, CloseJoined, CloseDropped
<1>2. Shape'
  <2>1. Types'
    BY <1>1 DEF Shape, Types, CloseStores, CloseTells, CloseJoined, CloseDropped
  <2> QED BY <1>1, <2>1 DEF Shape, HasSession, SendsWhatItHas
<1>3. ASSUME Owned PROVE Owned'
  <2>1. Watched' /\ Had' /\ Started'
    BY <1>1, <1>3 DEF Owned, Watched, Had, Started, Active, finished
  <2>2. Locking' /\ Shutting'
    <3>1. \A d \in Requests : d # "free" /\ d # "close"
      BY LspAssumption
    <3>2. CASE CloseStores
      BY <1>1, <1>3, <3>2 DEF Owned, Locking, Shutting, Active, CloseStores
    <3>3. CASE CloseTells
      BY <1>1, <1>3, <3>3 DEF Owned, Locking, Shutting, Active, CloseTells
    <3>4. CASE CloseDropped
      BY <1>1, <1>3, <3>1, <3>4 DEF Owned, Locking, Shutting, Active, CloseDropped
    <3>5. CASE CloseJoined
      <4>1. \A s \in Sessions : ~Active(s)
        BY <1>3, <3>5 DEF Owned, Watched, CloseJoined, Active, finished
      <4>2. lock = "close" /\ cached = 0 /\ shut = "told"
        BY <1>3, <3>5 DEF Owned, Locking, Shutting, CloseJoined
      <4> QED BY <1>1, <1>3, <3>1, <3>5, <4>1, <4>2 DEF Owned, Locking, Shutting, Active, CloseJoined
    <3> QED BY <3>2, <3>3, <3>4, <3>5
  <2> QED BY <2>1, <2>2 DEF Owned
<1>4. ASSUME Own PROVE Own'
  BY <1>1, <1>4 DEF Own, NumberedIds, OwnId, Waits, Tracked, AnswersOwn, HasDocument, Path
<1> QED BY <1>2, <1>3, <1>4 DEF Keeps

LEMMA CloseLocksKeeps ==
  ASSUME Shape, CloseLocks
  PROVE  Keeps
<1>0. /\ closing = "waiting" /\ lock = "free" /\ closing' = "joining" /\ lock' = "close" /\ cached' = 0
      /\ call' = call /\ drivers' = drivers /\ shut' = shut
      /\ lsp' = IF cached = 0 THEN lsp ELSE Stop(cached, lsp)
  BY DEF CloseLocks
<1>t. lsp \in [Sessions -> SessionType] /\ cached \in Sessions \cup {0}
  BY DEF Shape, Types
<1>1. /\ lsp' \in [Sessions -> SessionType]
      /\ \A t \in Sessions : t # cached => lsp'[t] = lsp[t]
      /\ cached # 0 =>
            /\ lsp'[cached].alive = lsp[cached].alive /\ lsp'[cached].stop
            /\ lsp'[cached].driver = IF lsp[cached].driver \in {"clean", "done"} THEN lsp[cached].driver ELSE "drive"
            /\ lsp'[cached].value = <<>>
            /\ \A k, d : ~Mark(lsp'[cached], k, d)
  <2>1. CASE cached = 0
    BY <1>0, <1>t, <2>1
  <2>2. CASE cached # 0
    <3>s. PICK s \in Sessions : s = cached
      BY <1>t, <2>2
    <3>1. /\ Stop(s, lsp) \in [Sessions -> SessionType]
          /\ \A t \in Sessions \ {s} : Stop(s, lsp)[t] = lsp[t]
          /\ Stop(s, lsp)[s].alive = lsp[s].alive /\ Stop(s, lsp)[s].stop
          /\ Stop(s, lsp)[s].driver = IF lsp[s].driver \in {"clean", "done"} THEN lsp[s].driver ELSE "drive"
          /\ Stop(s, lsp)[s].value = <<>> /\ Stop(s, lsp)[s].next = 0
          /\ \A k, d : ~Mark(Stop(s, lsp)[s], k, d)
      BY <1>t, Stopped, Zenon
    <3>2. lsp' = Stop(s, lsp)
      BY <1>0, <2>2, <3>s
    <3>3. /\ lsp' \in [Sessions -> SessionType]
          /\ \A t \in Sessions \ {s} : lsp'[t] = lsp[t]
          /\ lsp'[s].alive = lsp[s].alive /\ lsp'[s].stop
          /\ lsp'[s].driver = IF lsp[s].driver \in {"clean", "done"} THEN lsp[s].driver ELSE "drive"
          /\ lsp'[s].value = <<>> /\ \A k, d : ~Mark(lsp'[s], k, d)
      BY <3>1, <3>2, Zenon
    <3> QED BY <3>s, <3>3
  <2> QED BY <2>1, <2>2
<1>2. Shape'
  <2>1. Types' /\ HasSession'
    BY <1>0, <1>1 DEF Shape, Types, HasSession
  <2>2. SendsWhatItHas'
    <3>1. ASSUME NEW t \in Sessions, lsp'[t].driver = "send" PROVE lsp'[t].cmd # <<>>
      <4>1. t # cached
        BY <1>1, <3>1, LspAssumption
      <4> QED BY <1>1, <3>1, <4>1 DEF Shape, SendsWhatItHas
    <3> QED BY <3>1 DEF SendsWhatItHas
  <2> QED BY <2>1, <2>2 DEF Shape
<1>3. ASSUME Owned PROVE Owned'
  <2>1. \A d \in Requests : call[d].with = 0
    BY <1>0, <1>3, Nobody
  <2>2. \A t \in Sessions : (Active(t)' <=> Active(t)) /\ lsp'[t].alive = lsp[t].alive
    <3>1. ASSUME NEW t \in Sessions PROVE (Active(t)' <=> Active(t)) /\ lsp'[t].alive = lsp[t].alive
      <4>1. CASE t # cached
        BY <1>1, <4>1 DEF Active
      <4>2. CASE t = cached
        <5>1. t # 0 /\ lsp[t].driver \in {"none", "drive", "send", "reply", "clean", "done"}
          BY <1>t, LspAssumption DEF SessionType
        <5>2. lsp[t].driver # "none"
          BY <1>3, <4>2, <5>1 DEF Owned, Started
        <5>3. /\ lsp'[t].alive = lsp[t].alive
              /\ lsp'[t].driver = IF lsp[t].driver \in {"clean", "done"} THEN lsp[t].driver ELSE "drive"
          BY <1>1, <4>2, <5>1
        <5> QED BY <5>1, <5>2, <5>3 DEF Active
      <4> QED BY <4>1, <4>2
    <3> QED BY <3>1
  <2>3. Watched'
    BY <1>0, <1>3, <2>2 DEF Owned, Watched
  <2>4. Had'
    <3>1. ASSUME NEW t \in Sessions, Active(t)' PROVE lsp'[t].stop
      <4>1. CASE t # cached
        <5>1. t # 0
          BY LspAssumption
        <5>2. lsp[t].stop
          BY <1>3, <2>1, <2>2, <3>1, <4>1, <5>1 DEF Owned, Had
        <5> QED BY <1>1, <4>1, <5>2
      <4>2. CASE t = cached
        BY <1>1, <4>2, LspAssumption
      <4> QED BY <4>1, <4>2
    <3> QED BY <3>1 DEF Had
  <2>5. Started'
    BY <1>0, <2>1 DEF Started
  <2>6. Locking'
    <3>1. \A d \in Requests : d # "close"
      BY LspAssumption
    <3> QED BY <1>0, <2>1, <3>1 DEF Locking
  <2>7. Shutting'
    BY <1>0, <1>3 DEF Owned, Shutting
  <2> QED BY <2>3, <2>4, <2>5, <2>6, <2>7 DEF Owned
<1>4. ASSUME Owned, Own PROVE Own'
  <2>1. \A d \in Requests : call[d].with = 0 /\ call[d].at \in {"idle", "lock", "over"}
    BY <1>0, <1>4, Nobody
  <2>2. ASSUME NEW t \in Sessions
        PROVE  /\ \A k, d : Mark(lsp'[t], k, d) => k <= lsp'[t].next
               /\ lsp'[t].value # <<>> => lsp'[t].value[1].path = lsp'[t].path
    <3>1. CASE t # cached
      BY <1>1, <1>4, <3>1 DEF Own, NumberedIds, Tracked
    <3>2. CASE t = cached
      <4>1. t # 0
        BY LspAssumption
      <4>2. lsp'[t].value = <<>> /\ \A k, d : ~Mark(lsp'[t], k, d)
        BY <1>1, <3>2, <4>1
      <4> QED BY <4>2
    <3> QED BY <3>1, <3>2
  <2>3. NumberedIds'
    BY <2>2 DEF NumberedIds
  <2>4. OwnId' /\ Waits' /\ AnswersOwn'
    BY <1>0, <1>4, <2>1 DEF Own, OwnId, Waits, AnswersOwn, Path
  <2>5. Tracked'
    BY <1>0, <2>1, <2>2 DEF Tracked
  <2> QED BY <2>3, <2>4, <2>5 DEF Own
<1> QED BY <1>2, <1>3, <1>4 DEF Keeps

--------------------------------------------------------------------------------
(* The theorems.                                                           *)

LspInv == Shape /\ Owned /\ Own

LEMMA NextKeeps ==
  ASSUME Shape, [LspNext]_lspVars
  PROVE  Keeps
<1>1. ASSUME NEW c \in Requests,
             \/ Requested(c) \/ Locked(c) \/ Write(c) \/ Acked(c) \/ Receive(c) \/ WaitDiagnostics(c)
             \/ Interrupted(c) \/ Closed(c) \/ CallDropped(c)
      PROVE  Keeps
  <2>1. CASE Requested(c)
    BY <2>1, AsideKeeps DEF Requested, tool
  <2>2. CASE Locked(c)
    BY <2>2, LockedKeeps
  <2>3. CASE Write(c)
    BY <2>3, WriteKeeps
  <2>4. CASE Acked(c) \/ Receive(c) \/ WaitDiagnostics(c) \/ Interrupted(c)
    <3>1. GoesOn(c) \/ GivesBack(c) \/ Looks(c) \/ CallGivesUp(c)
      BY <2>4, CallMoves
    <3>2. CASE CallGivesUp(c)
      BY <3>2, AsideKeeps DEF CallGivesUp, tool
    <3> QED BY <3>1, <3>2, GoesKeeps, ReturnsKeeps, LooksKeeps
  <2>5. CASE Closed(c)
    <3>1. call[c].with # 0
      BY <2>5, CallHas DEF Closed
    <3> QED BY <2>5, <3>1, LeavesKeeps DEF Closed
  <2>6. CASE CallDropped(c)
    BY <2>6, LeavesKeeps DEF CallDropped
  <2> QED BY <1>1, <2>1, <2>2, <2>3, <2>4, <2>5, <2>6
<1>2. ASSUME NEW s \in Sessions,
             \/ Output(s) \/ Handle(s) \/ Take(s) \/ Wrote(s) \/ Broken(s) \/ Cleaned(s)
             \/ Answer(s) \/ Talk(s)
      PROVE  Keeps
  BY <1>2, DriverMoves, ServesKeeps
<1>3. CASE CloseStores \/ CloseTells \/ CloseLocks \/ CloseJoined \/ CloseDropped
  BY <1>3, LspCloseKeeps, CloseLocksKeeps
<1>4. CASE UNCHANGED lspVars
  BY <1>4, StutterKeeps
<1> QED BY <1>1, <1>2, <1>3, <1>4 DEF LspNext

LEMMA LspInitInv == LspInit => LspInv
<1> SUFFICES ASSUME LspInit PROVE LspInv
  OBVIOUS
<1>0. lsp = [s \in Sessions |-> NewSession] /\ cached = 0 /\ drivers = {} /\ lock = "free"
      /\ shut = "no" /\ closing = "no"
  BY DEF LspInit
<1>1. PICK plan \in Operations : call = [c \in Requests |-> NewCall(plan[c])]
  BY DEF LspInit
<1>2. \A c \in Requests : plan[c] \in LspOps
  BY <1>1, LspAssumption DEF LspOps
<1>3. /\ call \in [Requests -> CallType]
      /\ \A c \in Requests : /\ call[c].at = "idle" /\ call[c].with = 0 /\ call[c].wait = "no"
                             /\ call[c].result = <<>>
  <2>1. \A what \in LspOps : /\ NewCall(what).at = "idle" /\ NewCall(what).with = 0 /\ NewCall(what).wait = "no"
                           /\ NewCall(what).result = <<>>
    BY DEF NewCall
  <2>2. \A c \in Requests : call[c] = NewCall(plan[c]) /\ call[c] \in CallType
    BY <1>1, <1>2, NewTypes
  <2>3. call \in [Requests -> CallType]
    BY <1>1, <1>2, NewTypes, Zenon
  <2> QED BY <1>2, <2>1, <2>2, <2>3
<1>4. /\ lsp \in [Sessions -> SessionType]
      /\ \A s \in Sessions : lsp[s] = NewSession
  BY <1>0, NewTypes
<1>5. /\ NewSession.driver = "none" /\ NewSession.alive = FALSE /\ NewSession.value = <<>>
      /\ NewSession.cmd = <<>> /\ NewSession.asked = {} /\ NewSession.wire = <<>>
      /\ NewSession.pending = <<>> /\ NewSession.inbox = <<>>
  BY DEF NewSession
<1>6. \A k, c : ~Mark(NewSession, k, c)
  BY <1>5 DEF Mark
<1>7. Shape
  BY <1>0, <1>3, <1>4, <1>5 DEF Shape, Types, HasSession, SendsWhatItHas
<1>8. Owned
  <2>1. \A s \in Sessions : ~Active(s) /\ ~lsp[s].alive
    BY <1>4, <1>5 DEF Active
  <2>2. \A d \in Requests : d # "free"
    BY LspAssumption
  <2> QED BY <1>0, <1>3, <2>1, <2>2 DEF Owned, Watched, Had, Started, Locking, Shutting
<1>9. Own
  BY <1>3, <1>4, <1>5, <1>6 DEF Own, NumberedIds, OwnId, Waits, Tracked, AnswersOwn
<1> QED BY <1>7, <1>8, <1>9 DEF LspInv

LEMMA InvKept == LspSpec => []LspInv
<1>1. LspInv /\ [LspNext]_lspVars => LspInv'
  BY NextKeeps DEF LspInv, Keeps
<1> QED BY LspInitInv, <1>1, PTL DEF LspSpec

(* Sessions, calls and messages keep their types, whatever the server      *)
(* sends and in whatever order calls, drivers and close run.               *)
THEOREM LspTyped == LspSpec => []Types
<1>1. LspInv => Types
  BY DEF LspInv, Shape
<1> QED BY InvKept, <1>1, PTL

(* Whatever is dropped, times out or fails, a server's process has a       *)
(* driver that close joins; a driver whose session nobody has is told to   *)
(* stop; the call that has a session holds the lock; and after close no    *)
(* driver runs (Sessions, Drop for Session, LspTool::close, bounded).      *)
THEOREM LspServersOwned == LspSpec => []ServersOwned
<1>1. LspInv => ServersOwned
  BY DEF LspInv, Owned, Watched, Had, Locking, Shutting, ServersOwned
<1> QED BY InvKept, <1>1, PTL

(* What a call returns answers its own request or was published for its    *)
(* own document, whatever earlier calls of the same session left behind    *)
(* (Session::call, track_document, published).                             *)
THEOREM LspAnswersOwn == LspSpec => []AnswersOwn
<1>1. LspInv => AnswersOwn
  BY DEF LspInv, Own
<1> QED BY InvKept, <1>1, PTL
================================================================================

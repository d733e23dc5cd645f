----------------------------------- MODULE Mcp -----------------------------------
(***************************************************************************)
(* The MCP client of adk-mcp (Client in its ClientManager, over one of the *)
(* three transports) and the MCP server (ServerMode).  Over streamable     *)
(* HTTP the client talks to the server; over stdio and legacy SSE it talks *)
(* to an external peer that may repeat itself, send requests of its own,   *)
(* answer with an error or not at all.                                     *)
(*                                                                         *)
(* A caller may drop its future at every await, time may run out at every  *)
(* await, requests may be lost, and the server may be closed at any time.  *)
(* Arguments, results, schemas and credentials are left out; a catalog is  *)
(* whether its one tool is read-only.                                      *)
(***************************************************************************)
EXTENDS Integers, Sequences, FiniteSets

CONSTANTS
    Kinds,        \* transport_type of the configuration: "stdio", "sse", "http"
    Tenants, Me,  \* tenants of the server, and the one this client belongs to
    Sids,         \* session ids the server may draw
    MaxSessions, MaxSessionsPerTenant,
    MaxCalls,     \* bound on tools/call
    MaxItems,     \* limits.max_items: messages read for one answer
    MaxPages,     \* limits.max_pages
    MaxNoise,     \* bound on what a peer says unasked
    MaxOutsiders, \* bound on requests of other clients of the server
    MaxFaults,    \* bound on time limits, lost requests, failed hooks, dropped futures
    MaxReconnects,
    MaxReads,     \* bound on discoveries and reads of resources and prompts
    MaxEvents,    \* bound on all of these together over HTTP,
    MaxPeerEvents, \* and over stdio and SSE
    None

ASSUME ConstantsAssumption ==
    /\ Kinds \subseteq {"stdio", "sse", "http"} /\ Me \in Tenants
    /\ {MaxSessions, MaxSessionsPerTenant, MaxCalls, MaxItems, MaxPages,
        MaxNoise, MaxOutsiders, MaxFaults, MaxReconnects, MaxReads, MaxEvents,
        MaxPeerEvents} \subseteq Nat
    /\ None \notin Sids \cup Tenants \cup {"ro", "rw"}

VARIABLES
    kind,      \* transport_type of the server's configuration
    allowed,   \* whether configuration and grant allow the tool
    drifted,   \* history: reconnect has told the host that the catalog changed
    cl,        \* Client: its state, pinned tools and cached resources
    defs,      \* the definitions the manager published
    op,        \* the operation that holds the client's mutex
    tr,        \* the transport: next_id, poisoned, closed, session
    line,      \* messages on their way to the client
    inbox,     \* requests an external peer has not answered yet
    catalog,   \* what the peer lists
    bind,      \* bindings of the server's sessions
    owner,     \* the tenant a session id was drawn for, for good
    down,      \* sessions.closed
    serving,   \* requests the server works on
    outcome,   \* what a caller of tools/call was told, per call
    ran,       \* how often a call was executed by the peer
    spent      \* what was used of the bounds

client == <<cl, defs, op, tr>>
server == <<bind, owner, down, serving>>
vars == <<kind, allowed, drifted, client, line, inbox, catalog, server, outcome, ran, spent>>

Calls == 1..MaxCalls
Remote == kind # "stdio"
Catalogs == {"ro", "rw"}
Handshake == <<"initialize", "notifications/initialized", "tools/list">>

(* What may be left of a handshake, and what an operation is.              *)
Handshakes == {Handshake, <<"notifications/initialized", "tools/list">>, <<"tools/list">>}

Ops == [name : {"new", "list", "read", "call", "reconnect"},
        todo : Handshakes \cup {<<"list">>, <<"read">>, <<"tools/call">>},
        at : {"approve", "audit", "prepare", "wait", "report"},
        what : {"tools", "resources", "prompts"}, call : Nat,
        prev : {"New", "Ready", "Failed", "Closed"}, old : Catalogs \cup {None},
        id : Nat, pages : Nat, seen : Nat,
        res : {"none", "ok", "remote", "policy", "other", "unknown"}]

ASSUME NoneAssumption == None \notin Ops

NewTransport == [next_id |-> 1, poisoned |-> FALSE, closed |-> FALSE, session |-> None]

Init ==
    /\ kind \in Kinds /\ allowed \in BOOLEAN /\ catalog \in Catalogs
    /\ cl = [state |-> "New", tools |-> None, cached |-> {}]
    /\ defs = None /\ op = None /\ tr = NewTransport /\ drifted = FALSE
    /\ line = <<>> /\ inbox = {}
    /\ bind = [s \in Sids |-> None] /\ owner = [s \in Sids |-> None]
    /\ down = FALSE /\ serving = {}
    /\ outcome = [n \in Calls |-> "none"] /\ ran = [n \in Calls |-> 0]
    /\ spent = [calls |-> 0, noise |-> 0, outsiders |-> 0, faults |-> 0, reconnects |-> 0,
                reads |-> 0]

Spend(what) ==
    /\ spent.calls + spent.noise + spent.outsiders + spent.faults
          + spent.reconnects + spent.reads
          < IF kind = "http" THEN MaxEvents ELSE MaxPeerEvents
    /\ spent' = [spent EXCEPT ![what] = @ + 1]
Fault == spent.faults < MaxFaults /\ Spend("faults")

-----------------------------------------------------------------------------
(* Operations of the client.  An operation has the mutex of its client and *)
(* is a list of exchanges; "at" is the await it is at:                     *)
(*   "approve" hooks.approve or break_glass   "audit"   audit(Attempted)   *)
(*   "prepare" destination and credentials    "wait"    request sent       *)
(*   "report"  the outcome is being audited                                *)

NewOp(name, todo, at) ==
    [name |-> name, todo |-> todo, at |-> at, what |-> "tools", call |-> 0, prev |-> "New", old |-> cl.tools,
     id |-> 0, pages |-> 0, seen |-> 0, res |-> "none"]

Tell(n, what) == outcome' = IF n = 0 THEN outcome ELSE [outcome EXCEPT ![n] = what]

(* Nobody waits any longer for what was sent.                              *)
Unwaited(requests) == {[r EXCEPT !.mine = FALSE] : r \in requests}
Abandon == serving' = Unwaited(serving) /\ inbox' = Unwaited(inbox)

ServerRequest(mine, tenant, sid, method, left, call) ==
    [mine |-> mine, tenant |-> tenant, sid |-> sid, method |-> method, left |-> left,
     call |-> call, pc |-> "arrive"]

(* Transport::close: nothing is sent or read any more, a process is        *)
(* killed; a session of the server is asked to be deleted.                 *)
ClosedTransport == [tr EXCEPT !.poisoned = TRUE, !.closed = TRUE, !.session = None]
Hangup == IF kind = "stdio" THEN {} ELSE Unwaited(inbox)
DeleteSession ==
    IF tr.session # None THEN {ServerRequest(FALSE, Me, tr.session, "DELETE", 1, 0)} ELSE {}

ready == cl.state = "Ready"
Free == op = None /\ defs # None

(* ClientManager::new for a client just connected.                         *)
new ==
    /\ op = None /\ defs = None /\ cl.state = "New"
    /\ op' = NewOp("new", Handshake, "audit")
    /\ UNCHANGED <<kind, allowed, drifted, cl, defs, tr, line, inbox, catalog, server, outcome, ran, spent>>

(* A cache younger than its time to live answers a discovery and changes   *)
(* nothing; otherwise it is dropped before the server is asked.            *)
discover(what) ==
    /\ Free /\ ready /\ spent.reads < MaxReads /\ Spend("reads")
    /\ cl' = [cl EXCEPT !.cached = @ \ {what}]
    /\ op' = [NewOp("list", <<"list">>, "audit") EXCEPT !.what = what]
    /\ UNCHANGED <<kind, allowed, drifted, defs, tr, line, inbox, catalog, server, outcome, ran>>

list_resources == discover("resources")
list_prompts == discover("prompts")

(* Only what has been discovered can be read.                              *)
fetch(what) ==
    /\ Free /\ ready /\ what \in cl.cached /\ spent.reads < MaxReads /\ Spend("reads")
    /\ op' = [NewOp("read", <<"read">>, "audit") EXCEPT !.what = what]
    /\ UNCHANGED <<kind, allowed, drifted, cl, defs, tr, line, inbox, catalog, server, outcome, ran>>

read_resource == fetch("resources")
get_prompt == fetch("prompts")

invalidate_discovery ==
    /\ op = None /\ cl.cached # {}
    /\ cl' = [cl EXCEPT !.cached = {}]
    /\ UNCHANGED <<kind, allowed, drifted, defs, op, tr, line, inbox, catalog, server, outcome, ran, spent>>

remote_read_only == Remote => cl.tools = "ro"

(* call_tool_inner up to the hooks: what is refused without asking, what   *)
(* the host is asked about, what goes ahead.                               *)
call_tool ==
    /\ Free /\ spent.calls < MaxCalls
    /\ LET n == spent.calls + 1
           Refuse == Tell(n, "failed") /\ UNCHANGED op
           Go(at) == /\ op' = [NewOp("call", <<"tools/call">>, at) EXCEPT !.call = n]
                     /\ UNCHANGED outcome
       IN IF ~ready \/ cl.tools = None \/ ~remote_read_only THEN Refuse
          ELSE IF ~allowed \/ cl.tools = "rw" THEN Go("approve")
          ELSE Go("audit")
    /\ Spend("calls")
    /\ UNCHANGED <<kind, allowed, drifted, cl, defs, tr, line, inbox, catalog, server, ran>>

(* break_glass and approve answer, or fail, which counts as no.            *)
Decide ==
    /\ op # None /\ op.at = "approve"
    /\ \/ op' = [op EXCEPT !.at = "audit"] /\ UNCHANGED outcome
       \/ op' = None /\ Tell(op.call, "failed")
    /\ UNCHANGED <<kind, allowed, drifted, cl, defs, tr, line, inbox, catalog, server, ran, spent>>

close ==
    /\ Free /\ cl.state # "Closed"
    /\ cl' = [cl EXCEPT !.state = "Closed"]
    /\ tr' = ClosedTransport /\ serving' = serving \cup DeleteSession
    /\ line' = <<>> /\ inbox' = Hangup
    /\ UNCHANGED <<kind, allowed, drifted, defs, op, catalog, bind, owner, down, outcome, ran, spent>>

(* ClientManager::reconnect: the old transport is closed and a fresh one,  *)
(* to a peer that may list something else by now, is shaken hands with.    *)
reconnect ==
    /\ Free /\ spent.reconnects < MaxReconnects /\ Spend("reconnects")
    /\ cl' = [state |-> "New", tools |-> None, cached |-> {}]
    /\ tr' = NewTransport /\ serving' = serving \cup DeleteSession
    /\ line' = <<>> /\ inbox' = Hangup
    /\ catalog' \in Catalogs
    /\ op' = NewOp("reconnect", Handshake, "audit")
    /\ UNCHANGED <<kind, allowed, drifted, defs, bind, owner, down, outcome, ran>>

-----------------------------------------------------------------------------
(* One exchange.                                                           *)

Method == Head(op.todo)
Notifies == Method = "notifications/initialized"
Listing == Method \in {"tools/list", "list"}

(* The transport returns res.                                              *)
Returned(res) == op' = [op EXCEPT !.at = "report", !.res = res]

(* The transport's own exchange: refused, too large or out of ids; or the  *)
(* transport is poisoned until the answer is in.                           *)
Begin ==
    \/ /\ ~tr.closed /\ ~tr.poisoned
       /\ tr' = [tr EXCEPT !.next_id = @ + 1, !.poisoned = TRUE]
       /\ op' = [op EXCEPT !.at = "prepare", !.id = tr.next_id, !.seen = 0, !.prev = cl.state]
       /\ UNCHANGED spent
    \/ /\ IF tr.closed \/ tr.poisoned THEN UNCHANGED spent ELSE Fault
       /\ op' = [op EXCEPT !.at = "report", !.res = "other", !.prev = cl.state]
       /\ UNCHANGED tr

(* audit(Attempted) is done, and the session is poisoned before the        *)
(* transport is polled.  A notification is not audited.                    *)
Attempt ==
    /\ op # None /\ op.at = "audit"
    /\ Begin
    /\ cl' = [cl EXCEPT !.state = "Failed"]
    /\ UNCHANGED <<kind, allowed, drifted, defs, line, inbox, catalog, server, outcome, ran>>

(* A manager is only made of a client whose handshake and catalog worked,  *)
(* and a client that has reconnected lists its tools or is closed.         *)
FailedOp(state) ==
    IF op.name = "new" \/ (op.name = "reconnect" /\ Method = "tools/list")
    THEN /\ cl' = [cl EXCEPT !.state = "Closed"]
         /\ tr' = ClosedTransport /\ serving' = serving \cup DeleteSession
    ELSE /\ cl' = [cl EXCEPT !.state = state]
         /\ UNCHANGED <<tr, serving>>

(* The audit hook fails: nothing was sent, the session is as it was.       *)
AttemptFails ==
    /\ op # None /\ op.at = "audit" /\ ~Notifies /\ Fault
    /\ op' = None /\ Tell(op.call, "failed")
    /\ FailedOp(cl.state)
    /\ UNCHANGED <<kind, allowed, drifted, defs, line, inbox, catalog, bind, owner, down, ran>>

(* Remote transports resolve, check and fetch credentials for each request *)
(* first.  What fails there was not sent.                                  *)
NotPrepared ==
    /\ op # None /\ op.at = "prepare" /\ Remote /\ Fault
    /\ tr' = [tr EXCEPT !.poisoned = FALSE]
    /\ \E res \in {"policy", "other"} : Returned(res)
    /\ UNCHANGED <<kind, allowed, drifted, cl, defs, line, inbox, catalog, server, outcome, ran>>

(* The request is written.  Over HTTP it goes to the server, and what      *)
(* comes back on this connection is the answer to it; otherwise to the     *)
(* peer, whose messages come on one stream.                                *)
Dispatch ==
    /\ op # None /\ op.at = "prepare"
    /\ IF kind = "http"
       THEN /\ serving' = serving \cup
                    {ServerRequest(TRUE, Me, tr.session, Method, 1, op.call)}
            /\ UNCHANGED inbox
       ELSE /\ inbox' = IF Notifies THEN inbox
                        ELSE inbox \cup {[mine |-> TRUE, id |-> op.id, call |-> op.call]}
            /\ UNCHANGED serving
    /\ IF kind # "http" /\ Notifies
       THEN Returned("ok") /\ tr' = [tr EXCEPT !.poisoned = FALSE]
       ELSE op' = [op EXCEPT !.at = "wait"] /\ UNCHANGED tr
    /\ UNCHANGED <<kind, allowed, drifted, cl, defs, line, catalog, bind, owner, down, outcome, ran, spent>>

(* reply: an answer is only one to the request with its id.                *)
SameId(m, id) == m.id = id

(* The id of a session comes with the answer to initialize.                *)
accept_session(m) == IF m.sid # None THEN m.sid ELSE tr.session

(* incoming: at most MaxItems messages are read for one answer.            *)
Answers(m) == m.kind \in {"result", "error"} /\ op.seen < MaxItems /\ SameId(m, op.id)
Asks(m) == m.kind = "request" /\ op.seen < MaxItems

(* One message is read.  A request of the peer is answered and the next    *)
(* message read; the response is taken; anything else ends the exchange,   *)
(* and the transport is not used again: its process is killed, its stream  *)
(* dropped.                                                                *)
Incoming ==
    /\ op # None /\ op.at = "wait" /\ line # <<>>
    /\ LET m == Head(line)
       IN \/ /\ Asks(m)
             /\ op' = [op EXCEPT !.seen = @ + 1] /\ line' = Tail(line)
             /\ UNCHANGED <<tr, inbox, serving>>
          \/ /\ Answers(m)
             /\ tr' = [tr EXCEPT !.poisoned = FALSE, !.session = accept_session(m)]
             /\ Returned(IF m.kind = "error" THEN "remote"
                         ELSE IF m.valid THEN "ok" ELSE "unknown")
             /\ line' = Tail(line) /\ UNCHANGED <<inbox, serving>>
          \/ /\ ~Asks(m) /\ ~Answers(m)
             /\ Returned("unknown") /\ line' = <<>> /\ Abandon /\ UNCHANGED tr
    /\ UNCHANGED <<kind, allowed, drifted, cl, defs, catalog, bind, owner, down, outcome, ran, spent>>

(* Time runs out or the connection breaks: what was sent stays sent, and   *)
(* the transport stays poisoned.                                           *)
Timeout ==
    /\ op # None /\ op.at \in {"prepare", "wait"} /\ Fault
    /\ Returned("unknown") /\ line' = <<>> /\ Abandon
    /\ UNCHANGED <<kind, allowed, drifted, cl, defs, tr, catalog, bind, owner, down, outcome, ran>>

(* The caller is cancelled or its deadline passes: it is told to reconcile. *)
(* A manager that was being made is gone with it.                          *)
Dropped ==
    /\ op # None /\ Fault
    /\ op' = None /\ Abandon /\ line' = <<>>
    /\ Tell(op.call, "unknown")
    /\ cl' = IF op.name = "new" THEN [cl EXCEPT !.state = "Closed"] ELSE cl
    /\ UNCHANGED <<kind, allowed, drifted, defs, tr, catalog, bind, owner, down, ran>>

-----------------------------------------------------------------------------
(* The end of an exchange and of an operation.                             *)

(* Fault: an exchange that broke off is reported like one that never began. *)
VerdictOfBroken(res) == IF res = "ok" THEN "completed" ELSE "failed"

(* What the caller of tools/call is told.                                  *)
Verdict(res) == CASE res = "ok" -> "completed" [] res = "unknown" -> "unknown"
                  [] OTHER -> "failed"

(* Client::exchange puts the session's state back only for these.          *)
Reusable(res) == res \in {"ok", "remote", "policy"}

(* Fault: whatever the server lists after a reconnect is accepted.         *)
CatalogAccepted(old) == TRUE

(* ClientManager::reconnect compares the new catalog with the pinned one.  *)
CatalogKept(old) == old = catalog

(* The last exchange of an operation succeeded.                            *)
Succeed ==
    \/ /\ Method = "tools/list" /\ (op.name = "new" \/ CatalogKept(op.old))
       /\ cl' = [cl EXCEPT !.tools = catalog, !.state = "Ready"]
       /\ defs' = IF op.name = "new" THEN catalog ELSE defs
       /\ UNCHANGED <<drifted, tr, serving>>
    \/ /\ Method = "tools/list" /\ op.name = "reconnect" /\ ~CatalogKept(op.old)
       /\ cl' = [cl EXCEPT !.tools = catalog, !.state = "Closed"]
       /\ tr' = ClosedTransport /\ serving' = serving \cup DeleteSession
       /\ drifted' = TRUE /\ UNCHANGED defs
    \/ /\ Method # "tools/list"
       /\ cl' = [cl EXCEPT !.state = "Ready",
                           !.cached = IF Method = "list" THEN @ \cup {op.what} ELSE @]
       /\ UNCHANGED <<drifted, defs, tr, serving>>

(* The next page of a discovery (the server here lists all on one), or the *)
(* next exchange of a handshake.                                           *)
Continue ==
    /\ op.res = "ok" /\ UNCHANGED <<drifted, defs, tr, serving, outcome>>
    /\ \/ /\ Listing /\ op.pages + 1 < MaxPages
          /\ op' = [op EXCEPT !.at = "audit", !.pages = @ + 1]
          /\ cl' = [cl EXCEPT !.state = "Ready"]
       \/ /\ Len(op.todo) > 1
          /\ op' = [op EXCEPT !.todo = Tail(@), !.at = "audit"]
          /\ cl' = [cl EXCEPT !.state = IF Notifies THEN "Ready" ELSE "Failed"]

(* The outcome is audited, and the operation goes on or ends.  A list that *)
(* is malformed, too long or repeats a cursor, and a protocol version that *)
(* is not supported, end it with an error although the exchange was fine.  *)
Report ==
    /\ op # None /\ op.at = "report"
    /\ \/ Continue
       \/ /\ op.res = "ok" /\ Len(op.todo) = 1
          /\ Succeed /\ op' = None /\ Tell(op.call, Verdict("ok"))
       \/ /\ op.res # "ok" \/ Listing \/ Method = "initialize"
          /\ FailedOp(IF op.res = "ok" /\ Listing THEN "Ready"
                      ELSE IF op.res # "ok" /\ Reusable(op.res) /\ ~Notifies THEN op.prev
                      ELSE "Failed")
          /\ op' = None /\ Tell(op.call, Verdict(op.res))
          /\ UNCHANGED <<drifted, defs>>
    /\ UNCHANGED <<kind, allowed, line, inbox, catalog, bind, owner, down, ran, spent>>

(* The audit fails: for the caller the outcome is not known either.        *)
ReportFails ==
    /\ op # None /\ op.at = "report" /\ ~Notifies /\ Fault
    /\ op' = None /\ Tell(op.call, "unknown")
    /\ FailedOp("Failed")
    /\ UNCHANGED <<kind, allowed, drifted, defs, line, inbox, catalog, bind, owner, down, ran>>

-----------------------------------------------------------------------------
(* An external peer over stdio or legacy SSE.                              *)

Message(k, id, sid, valid) == [kind |-> k, id |-> id, sid |-> sid, valid |-> valid]

(* It executes a request or refuses it, and answers, if anybody listens.   *)
PeerServes ==
    \E r \in inbox :
       /\ inbox' = inbox \ {r}
       /\ \E k \in {"result", "error"}, valid \in BOOLEAN :
             /\ line' = IF r.mine THEN Append(line, Message(k, r.id, None, valid)) ELSE line
             /\ ran' = IF r.call # 0 /\ k = "result" THEN [ran EXCEPT ![r.call] = @ + 1] ELSE ran
       /\ UNCHANGED <<kind, allowed, drifted, client, catalog, server, outcome, spent>>

(* It sends a request, repeats an answer, or ends its stream.              *)
PeerNoise ==
    /\ kind # "http" /\ ~tr.closed /\ spent.noise < MaxNoise /\ Spend("noise")
    /\ \/ line' = Append(line, Message("request", 0, None, TRUE))
       \/ \E id \in 1..(tr.next_id - 1) :
             /\ op # None /\ op.at \in {"prepare", "wait"} => id # op.id
             /\ line' = Append(line, Message("result", id, None, TRUE))
       \/ line' = Append(line, Message("end", 0, None, TRUE))
    /\ UNCHANGED <<kind, allowed, drifted, client, inbox, catalog, server, outcome, ran>>

(* A request is lost on its way.                                           *)
Lost ==
    /\ Fault
    /\ \/ \E r \in inbox : inbox' = inbox \ {r} /\ UNCHANGED serving
       \/ \E r \in serving : r.pc = "arrive" /\ serving' = serving \ {r} /\ UNCHANGED inbox
    /\ UNCHANGED <<kind, allowed, drifted, client, line, catalog, bind, owner, down, outcome, ran>>

-----------------------------------------------------------------------------
(* The server.  A request is at "arrive", "resolve" (the tenant is being   *)
(* resolved), "body" (the rest is being read, one message of a batch is    *)
(* next) or "exec" (the host's callback has the call).                     *)

Prune(b) == [s \in Sids |-> IF b[s] # None /\ b[s].expired THEN None ELSE b[s]]

(* The answer goes back if the client still waits for it.                  *)
Respond(r, m) ==
    /\ serving' = serving \ {r}
    /\ line' = IF r.mine THEN Append(line, m) ELSE line

Status(r) == Respond(r, Message("status", 0, None, TRUE))
Result(r, sid) == Respond(r, Message("result", op.id, sid, TRUE))

ServerOnly == UNCHANGED <<kind, allowed, drifted, client, inbox, catalog, outcome, spent>>

Arrive ==
    \E r \in serving :
       /\ r.pc = "arrive"
       /\ IF down THEN Status(r)
          ELSE serving' = (serving \ {r}) \cup {[r EXCEPT !.pc = "resolve"]} /\ UNCHANGED line
       /\ UNCHANGED <<bind, owner, down, ran>> /\ ServerOnly

(* A session serves the tenant it was made for, and nobody else.           *)
Admits(s, tenant) == Prune(bind)[s] # None /\ Prune(bind)[s].tenant = tenant

(* The tenant is known: a request with a session id is admitted and the    *)
(* session is seen, or deleted.                                            *)
Resolved ==
    \E r \in serving :
       /\ r.pc = "resolve"
       /\ LET pruned == Prune(bind)
              Read == /\ serving' = (serving \ {r}) \cup {[r EXCEPT !.pc = "body"]}
                      /\ UNCHANGED line
          IN \/ r.sid = None /\ Read /\ UNCHANGED bind
             \/ r.sid # None /\ down /\ Status(r) /\ UNCHANGED bind
             \/ r.sid # None /\ ~down /\ ~Admits(r.sid, r.tenant) /\ Status(r) /\ bind' = pruned
             \/ /\ r.sid # None /\ ~down /\ Admits(r.sid, r.tenant)
                /\ IF r.method = "DELETE"
                   THEN bind' = [pruned EXCEPT ![r.sid] = None] /\ Status(r)
                   ELSE bind' = [pruned EXCEPT ![r.sid].expired = FALSE] /\ Read
       /\ UNCHANGED <<owner, down, ran>> /\ ServerOnly

Bound(b) == {s \in Sids : b[s] # None}
Full(tenant) ==
    \/ Cardinality(Bound(Prune(bind))) >= MaxSessions
    \/ Cardinality({s \in Bound(Prune(bind)) : Prune(bind)[s].tenant = tenant})
          >= MaxSessionsPerTenant

(* Fault: an initialize under way when the server is closed adds its session. *)
RefusesNever == FALSE

(* initialize: looked at again under the lock that adds the binding.       *)
Refuses == down

initialize ==
    \E r \in serving :
       /\ r.pc = "body" /\ r.method = "initialize"
       /\ \/ /\ r.sid # None /\ Respond(r, Message("error", op.id, None, TRUE))
             /\ UNCHANGED <<bind, owner>>
          \/ /\ r.sid = None /\ (Refuses \/ Full(r.tenant)) /\ Status(r)
             /\ UNCHANGED <<bind, owner>>
          \/ /\ r.sid = None /\ ~Refuses /\ ~Full(r.tenant)
             /\ \E s \in Sids :
                   /\ owner[s] = None
                   /\ owner' = [owner EXCEPT ![s] = r.tenant]
                   /\ bind' = [Prune(bind) EXCEPT ![s] =
                                  [tenant |-> r.tenant, initialized |-> FALSE, expired |-> FALSE]]
                   /\ Result(r, s)
       /\ UNCHANGED <<down, ran>> /\ ServerOnly

(* dispatch of any other message: the session must still be there and be   *)
(* initialized.  A list is answered, a call of a tool goes to the host.    *)
dispatch ==
    \E r \in serving :
       /\ r.pc = "body" /\ r.method # "initialize"
       /\ LET Held == r.sid # None /\ ~down /\ bind[r.sid] # None
              Live == Held /\ bind[r.sid].initialized
          IN \/ ~Held /\ Status(r) /\ UNCHANGED bind
             \/ /\ Held /\ r.method = "notifications/initialized"
                /\ bind' = [bind EXCEPT ![r.sid].initialized = TRUE] /\ Result(r, None)
             \/ /\ Held /\ ~Live /\ r.method # "notifications/initialized"
                /\ Status(r) /\ UNCHANGED bind
             \/ /\ Live /\ r.method \in {"tools/list", "list", "read"}
                /\ Result(r, None) /\ UNCHANGED bind
             \/ /\ Live /\ r.method = "tools/call"
                /\ serving' = (serving \ {r}) \cup {[r EXCEPT !.pc = "exec"]}
                /\ UNCHANGED <<bind, line>>
             \/ /\ Live /\ r.method \in {"tools/call", "read"}   \* unknown, invalid, refused
                /\ Respond(r, Message("error", op.id, None, TRUE)) /\ UNCHANGED bind
       /\ UNCHANGED <<owner, down, ran>> /\ ServerOnly

(* The messages of a batch are dispatched one after the other, each to a   *)
(* session that may be gone by then.                                       *)
NextMessage(r) == serving' = (serving \ {r}) \cup {[r EXCEPT !.pc = "body", !.left = @ - 1]}

(* The callback has executed the tool or refused to; its answer is the     *)
(* call's result, also when it failed, unless its outcome is unknown or    *)
(* the result is too large.                                                *)
execute_mcp_tool ==
    \E r \in serving :
       /\ r.pc = "exec"
       /\ ran' = IF r.call # 0 THEN [ran EXCEPT ![r.call] = @ + 1] ELSE ran
       /\ \/ r.left = 1 /\ Result(r, None)
          \/ /\ r.left > 1 /\ UNCHANGED line
             /\ NextMessage(r)
          \/ Status(r)
       /\ UNCHANGED <<bind, owner, down>> /\ ServerOnly

(* The time limit around a request; a callback under way may have run.     *)
ServerTimeout ==
    \E r \in serving :
       /\ r.pc \in {"resolve", "body", "exec"} /\ Fault /\ Status(r)
       /\ \/ UNCHANGED ran
          \/ r.pc = "exec" /\ r.call # 0 /\ ran' = [ran EXCEPT ![r.call] = @ + 1]
       /\ UNCHANGED <<bind, owner, down, kind, allowed, drifted, client, inbox, catalog, outcome>>

Expire ==
    \E s \in Bound(bind) :
       /\ ~bind[s].expired /\ bind' = [bind EXCEPT ![s].expired = TRUE]
       /\ UNCHANGED <<owner, down, serving, line, ran>> /\ ServerOnly

CloseServer ==
    /\ ~down /\ kind = "http" /\ down' = TRUE /\ bind' = [s \in Sids |-> None]
    /\ UNCHANGED <<owner, serving, line, ran>> /\ ServerOnly

(* Other clients of the server, who may know each other's session ids.     *)
Outsider ==
    /\ kind = "http" /\ spent.outsiders < MaxOutsiders /\ Spend("outsiders")
    /\ \E t \in Tenants, s \in {s \in Sids : owner[s] # None} \cup {None},
          m \in {"initialize", "notifications/initialized", "tools/call", "DELETE"},
          left \in 1..2 :
          /\ m # "tools/call" => left = 1
          /\ m = "DELETE" => s # None
          /\ serving' = serving \cup {ServerRequest(FALSE, t, s, m, left, 0)}
    /\ UNCHANGED <<kind, allowed, drifted, client, line, inbox, catalog, bind, owner, down, outcome, ran>>

-----------------------------------------------------------------------------
Next ==
    \/ new \/ list_resources \/ list_prompts \/ read_resource \/ get_prompt
    \/ invalidate_discovery \/ call_tool
    \/ Decide \/ close \/ reconnect
    \/ Attempt \/ AttemptFails \/ NotPrepared \/ Dispatch \/ Incoming \/ Timeout \/ Dropped
    \/ Report \/ ReportFails
    \/ PeerServes \/ PeerNoise \/ Lost
    \/ Arrive \/ Resolved \/ initialize \/ dispatch \/ execute_mcp_tool \/ ServerTimeout
    \/ Expire \/ CloseServer \/ Outsider

Spec == Init /\ [][Next]_vars

-----------------------------------------------------------------------------
(* A caller of tools/call is told the truth, whatever happens later: a call *)
(* reported as failed is never executed, one reported as completed has been *)
(* executed, and none is executed twice.  (Client::exchange poisons the     *)
(* session before it sends and reports what it cannot know as               *)
(* ReconciliationRequired; no transport replays a request.)                 *)
OutcomeHonest ==
    \A n \in Calls :
       /\ ran[n] <= 1
       /\ outcome[n] = "failed" => ran[n] = 0
       /\ outcome[n] = "completed" => ran[n] = 1

(* reconnect rejects a catalog that is not the one its manager published to *)
(* the engine: a client that can be called decides by the latter what needs *)
(* an approval, whatever the servers it was reconnected to list.            *)
DriftRejected ==
    (defs # None /\ op = None /\ ready /\ cl.tools # None) => cl.tools = defs

(* Over any number of reconnects to servers that list something else, and   *)
(* dropped or failed attempts at them, a client that can be called has the  *)
(* catalog its manager published, or the host was told by an earlier        *)
(* reconnect that the catalog has changed and the manager is to be replaced. *)
CatalogPinned == drifted \/ DriftRejected

(* The host only executes for a tenant what came in on its session.         *)
TenantBound ==
    \A r \in serving : r.pc = "exec" => owner[r.sid] = r.tenant

(* A closed server has no sessions, and the limits on them hold.            *)
SessionTable ==
    /\ down => Bound(bind) = {}
    /\ Cardinality(Bound(bind)) <= MaxSessions
    /\ \A t \in Tenants :
          Cardinality({s \in Bound(bind) : bind[s].tenant = t}) <= MaxSessionsPerTenant

(* Whatever a session is deleted, expired or closed under, the host only    *)
(* ever executes for a tenant what came in on a session of that tenant; a   *)
(* closed server has no sessions, also when an initialize was under way,    *)
(* and the limits hold, in all and per tenant.  (admit, prune, dispatch.)   *)
SessionsSound == TenantBound /\ SessionTable
================================================================================

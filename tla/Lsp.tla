------------------------------- MODULE Lsp -------------------------------
(***************************************************************************)
(* The language server client (adk-tools/src/lsp.rs, lsp_protocol.rs).  A  *)
(* call of the tool takes the lock of the sessions, takes the session of   *)
(* its server out of the cache or starts one, initializes it, opens its    *)
(* document, asks, and puts the session back; one that fails is closed.  A *)
(* driver task owns the server's process and its pipes.  Calls time out,   *)
(* are cancelled or dropped at any await while the host closes the tool,   *)
(* and servers answer late, talk unasked, stop reading, or die.            *)
(*                                                                         *)
(* All calls have one key.  How a process group is ended is in Shell, what *)
(* is made of bytes and answers in LspText.  A server that died is one     *)
(* that is silent until its driver sees it.                                *)
(***************************************************************************)
EXTENDS Integers, Sequences

CONSTANTS
    Requests,      \* calls of the tool
    Operations,    \* what the calls may be for: functions from Requests
    Sessions,      \* numbers of sessions, in the order of their starts
    MaxMessages,   \* ServerConfig::max_messages
    MaxTalk,       \* bound: the messages a server sends without being asked
    NoPath         \* the empty path

ASSUME LspAssumption ==
    /\ \A plan \in Operations : plan \in [Requests -> {"diagnostics", "hover", "workspaceSymbol"}]
    /\ Sessions \subseteq Nat \ {0} /\ MaxMessages \in Nat \ {0} /\ MaxTalk \in Nat
    /\ NoPath \notin Requests /\ "free" \notin Requests /\ "close" \notin Requests

VARIABLES
    lsp,      \* a session with its driver and its server
    call,     \* where a call is
    cached,   \* the session in Sessions::cached, or 0
    drivers,  \* Sessions::drivers
    lock,     \* who holds the lock of the sessions
    shut,     \* LspTool::closed: no, stored, told (close_notify)
    closing   \* where close is: no, waiting, joining, returned

lspVars == <<lsp, call, cached, drivers, lock, shut, closing>>

NewSession ==
    [driver  |-> "none",   \* drive, send, reply, clean, done
     clean   |-> TRUE,     \* whether the cleanup succeeded
     alive   |-> FALSE,    \* the server's process
     stop    |-> FALSE,    \* Session::stop was sent
     cmd     |-> <<>>,     \* Session::writes
     ack     |-> "none",   \* Write::done
     wire    |-> <<>>,     \* what the server wrote and nobody read
     pending |-> <<>>,     \* Driver::pending
     inbox   |-> <<>>,     \* Session::messages
     path    |-> NoPath,   \* Published
     value   |-> <<>>,
     next    |-> 0,        \* next_id
     pull    |-> FALSE,    \* pull_diagnostics, which the server declares
     asked   |-> {},       \* requests the server has not answered
     opened  |-> {},       \* documents the server has seen
     talk    |-> 0]

NewCall(op) == [op |-> op, at |-> "idle", wait |-> "no", with |-> 0, id |-> 0, read |-> 0, result |-> <<>>]

LspInit ==
    /\ lsp = [s \in Sessions |-> NewSession]
    /\ \E plan \in Operations : call = [c \in Requests |-> NewCall(plan[c])]
    /\ cached = 0 /\ drivers = {} /\ lock = "free" /\ shut = "no" /\ closing = "no"

Active(s) == lsp[s].driver \in {"drive", "send", "reply", "clean"}

Driving(s) == lsp[s].driver \in {"drive", "send", "reply"}

finished(s) == lsp[s].driver = "done"

\* A call has a document of its own, but for workspaceSymbol.
Path(c) == c

HasDocument(c) == call[c].op # "workspaceSymbol"

(***************************************************************************)
(* Calls.  All awaits but that of Session::close are in bounded, which the *)
(* host's close, the caller's cancellation, its deadline and a timeout     *)
(* end; once close has notified, bounded returns before its future is      *)
(* polled again.                                                           *)
(***************************************************************************)
InBounded(c) == call[c].at \in {"lock", "init", "initialized", "open", "ask", "close"}

Polled(c, at) == call[c].at = at /\ shut # "told"

tool == <<cached, drivers, lock, shut, closing>>

\* The choice of the server and the document come first; a closed tool refuses.
Requested(c) ==
    /\ call[c].at = "idle" /\ shut = "no"
    /\ call' = [call EXCEPT ![c].at = "lock"]
    /\ UNCHANGED <<lsp, tool>>

\* The first step of a session, unless bounded refuses.
FirstStep(c, fresh) ==
    IF shut # "no" THEN "closing" ELSE IF fresh THEN "init" ELSE IF HasDocument(c) THEN "open" ELSE "ask"

\* Drop for Session. Nobody sees what a driver that is told to stop still reads or
\* writes, so that is left out.
Stop(s, sessions) ==
    [sessions EXCEPT ![s] =
        [NewSession EXCEPT !.driver = IF sessions[s].driver \in {"clean", "done"} THEN sessions[s].driver ELSE "drive",
                           !.alive = sessions[s].alive, !.stop = TRUE]]

\* A call goes on to a step, or to Session::close, which sends stop.
GoOn(c, s, sessions, step, result) ==
    /\ call' = [call EXCEPT ![c].at = step, ![c].wait = "write", ![c].with = s, ![c].result = result]
    /\ lsp' = IF step = "closing" THEN Stop(s, sessions) ELSE sessions

\* Fault: the tool is not looked at again once it was found open.
LockedLate(c) ==
    /\ call[c].at = "lock" /\ lock = "free"
    /\ cached' = 0
    /\ \/ /\ cached # 0 /\ ~finished(cached)
          /\ GoOn(c, cached, lsp, IF HasDocument(c) THEN "open" ELSE "ask", <<>>)
          /\ lock' = c
          /\ UNCHANGED drivers
       \/ /\ cached # 0 => finished(cached) /\ lsp[cached].clean
          /\ \E s \in Sessions, pull \in BOOLEAN :
                /\ lsp[s].driver = "none" /\ \A t \in Sessions : t < s => lsp[t].driver # "none"
                /\ drivers' = drivers \cup {s}
                /\ GoOn(c, s, [lsp EXCEPT ![s] = [NewSession EXCEPT !.driver = "drive", !.alive = TRUE, !.pull = pull]],
                        "init", <<>>)
          /\ lock' = c
       \/ /\ cached # 0 => finished(cached)
          /\ call' = [call EXCEPT ![c].at = "over"]
          /\ UNCHANGED <<lsp, drivers, lock>>
    /\ UNCHANGED <<shut, closing>>

\* The lock, and the cached session if its driver runs; else Session::start, which the
\* executor may refuse. The driver of a finished session may have failed to clean up.
Locked(c) ==
    /\ Polled(c, "lock") /\ lock = "free"
    /\ cached' = 0
    /\ \/ /\ cached # 0 /\ ~finished(cached)
          /\ GoOn(c, cached, lsp, FirstStep(c, FALSE), <<>>)
          /\ lock' = c
          /\ UNCHANGED drivers
       \/ /\ cached # 0 => finished(cached) /\ lsp[cached].clean
          /\ \E s \in Sessions, pull \in BOOLEAN :
                /\ lsp[s].driver = "none" /\ \A t \in Sessions : t < s => lsp[t].driver # "none"
                /\ drivers' = drivers \cup {s}
                /\ GoOn(c, s, [lsp EXCEPT ![s] = [NewSession EXCEPT !.driver = "drive", !.alive = TRUE, !.pull = pull]],
                        FirstStep(c, TRUE), <<>>)
          /\ lock' = c
       \/ /\ cached # 0 => finished(cached)
          /\ call' = [call EXCEPT ![c].at = "over"]
          /\ UNCHANGED <<lsp, drivers, lock>>
    /\ UNCHANGED <<shut, closing>>

Session(c) == lsp[call[c].with]

\* A request has the next id, a notification none.
Frame(c) ==
    [step |-> call[c].at, call |-> c,
     id |-> IF call[c].at \in {"init", "ask"} THEN Session(c).next + 1 ELSE 0]

\* A question that waits for what the server publishes sends nothing.
Pushed(c) == call[c].at = "ask" /\ call[c].op = "diagnostics" /\ ~Session(c).pull

\* Fault: ids start again with every call.
WriteSameIds(c) ==
    LET s == call[c].with
        m == [Frame(c) EXCEPT !.id = IF call[c].at \in {"init", "ask"} THEN 1 ELSE 0]
    IN  /\ call[c].at \in {"init", "initialized", "open", "ask", "close"} /\ shut # "told"
        /\ call[c].wait = "write" /\ ~Pushed(c) /\ ~finished(s)
        /\ lsp' = [lsp EXCEPT ![s] = [lsp[s] EXCEPT !.cmd = <<m>>, !.ack = "none",
                      !.path = IF m.step = "open" THEN Path(c) ELSE @,
                      !.value = IF m.step = "open" THEN <<>> ELSE @]]
        /\ call' = [call EXCEPT ![c].wait = "ack", ![c].id = m.id, ![c].read = 0]
        /\ UNCHANGED tool

\* Session::write up to its second await, after track_document and next_id.
Write(c) ==
    LET s == call[c].with
        m == Frame(c)
    IN  /\ call[c].at \in {"init", "initialized", "open", "ask", "close"} /\ shut # "told"
        /\ call[c].wait = "write" /\ ~Pushed(c) /\ ~finished(s)
        /\ lsp' = [lsp EXCEPT ![s] = [lsp[s] EXCEPT !.cmd = <<m>>, !.ack = "none",
                      !.next = IF m.id = 0 THEN @ ELSE m.id,
                      !.path = IF m.step = "open" THEN Path(c) ELSE @,
                      !.value = IF m.step = "open" THEN <<>> ELSE @]]
        /\ call' = [call EXCEPT ![c].wait = "ack", ![c].id = m.id, ![c].read = 0]
        /\ UNCHANGED tool

\* track_document("").
Untracked(s, sessions) == [sessions EXCEPT ![s].path = NoPath, ![s].value = <<>>]

Gone(c, result) == [call EXCEPT ![c] = [NewCall(@.op) EXCEPT !.at = "over", !.result = result]]

\* The call has its result, an empty one if it failed. Only the session of a call that
\* succeeded is kept.
Finish(c, sessions, result) ==
    LET s == call[c].with
    IN  IF result = <<>> THEN GoOn(c, s, sessions, "closing", result) /\ UNCHANGED tool
        ELSE /\ call' = Gone(c, result)
             /\ lsp' = sessions
             /\ cached' = s
             /\ lock' = "free"
             /\ UNCHANGED <<drivers, shut, closing>>

\* What follows a step. The document is closed whether or not there is a result.
Advance(c, sessions, result) ==
    LET s == call[c].with
        To(step) == GoOn(c, s, sessions, step, result) /\ UNCHANGED tool
    IN  CASE call[c].at = "init" -> To("initialized")
          [] call[c].at = "initialized" -> To(FirstStep(c, FALSE))
          [] call[c].at = "open" -> To("ask")
          [] call[c].at = "ask" /\ HasDocument(c) -> To("close")
          [] call[c].at = "ask" /\ ~HasDocument(c) -> Finish(c, sessions, result)
          [] call[c].at = "close" -> Finish(c, Untracked(s, sessions), result)

\* published(1): what was published without a version counts as current.
published(s) == IF lsp[s].value # <<>> /\ lsp[s].value[1].version >= 1 THEN lsp[s].value ELSE <<>>

\* A step failed. Diagnostics that were asked for may have been published all the same.
Fail(c, sessions) ==
    IF call[c].at = "ask"
    THEN Advance(c, sessions,
                 IF call[c].op = "diagnostics" /\ ~Pushed(c) THEN published(call[c].with) ELSE <<>>)
    ELSE GoOn(c, call[c].with, sessions, "closing", <<>>) /\ UNCHANGED tool

Awaits(c, wait) == InBounded(c) /\ call[c].at # "lock" /\ shut # "told" /\ call[c].wait = wait

\* The end of Session::write: Write::done, or a driver that is gone.
Acked(c) ==
    LET s == call[c].with
    IN  \/ /\ Awaits(c, "ack") /\ lsp[s].ack = "ok" /\ call[c].id = 0
           /\ Advance(c, lsp, call[c].result)
       \/ /\ Awaits(c, "ack") /\ lsp[s].ack = "ok" /\ call[c].id # 0
          /\ call' = [call EXCEPT ![c].wait = "answer"]
          /\ UNCHANGED <<lsp, tool>>
       \/ /\ \/ Awaits(c, "ack") /\ lsp[s].ack = "failed"
             \/ Awaits(c, "write") /\ ~Pushed(c) /\ finished(s)
          /\ Fail(c, lsp)

\* The loop of Session::call: an answer, one to another request, or none any more.
Receive(c) ==
    LET s == call[c].with
        m == Head(lsp[s].inbox)
        rest == [lsp EXCEPT ![s].inbox = Tail(@)]
    IN  \/ /\ Awaits(c, "answer") /\ lsp[s].inbox # <<>> /\ m.id = call[c].id
           /\ CASE m.outcome = "result" -> Advance(c, rest, <<m>>)
                [] m.outcome = "odd" /\ call[c].at = "ask" -> Advance(c, rest, <<>>)
                [] OTHER -> Fail(c, rest)
        \/ /\ Awaits(c, "answer") /\ lsp[s].inbox # <<>> /\ m.id # call[c].id
           /\ IF call[c].read + 1 < MaxMessages
              THEN /\ call' = [call EXCEPT ![c].read = @ + 1]
                   /\ lsp' = rest
                   /\ UNCHANGED tool
              ELSE Fail(c, rest)
        \/ /\ Awaits(c, "answer") /\ lsp[s].inbox = <<>> /\ finished(s)
           /\ Fail(c, lsp)

\* The loop of Session::wait_diagnostics, which takes messages only to see the end.
WaitDiagnostics(c) ==
    LET s == call[c].with
    IN  /\ Awaits(c, "write") /\ Pushed(c)
        /\ \/ published(s) # <<>> /\ Advance(c, lsp, published(s))
           \/ /\ published(s) = <<>> /\ lsp[s].inbox # <<>>
              /\ lsp' = [lsp EXCEPT ![s].inbox = Tail(@)]
              /\ UNCHANGED <<call, tool>>
           \/ published(s) = <<>> /\ lsp[s].inbox = <<>> /\ finished(s) /\ Fail(c, lsp)

\* bounded ends early: closed, cancelled, or out of time.
Interrupted(c) ==
    \/ /\ call[c].at = "lock"
       /\ call' = [call EXCEPT ![c].at = "over"]
       /\ UNCHANGED <<lsp, tool>>
    \/ /\ InBounded(c) /\ call[c].at # "lock"
       /\ GoOn(c, call[c].with, lsp, "closing", <<>>)
       /\ UNCHANGED tool

\* Session::close has joined the driver.
Closed(c) ==
    /\ call[c].at = "closing" /\ finished(call[c].with)
    /\ call' = Gone(c, <<>>)
    /\ lock' = "free"
    /\ UNCHANGED <<lsp, cached, drivers, shut, closing>>

\* The future of the call is dropped, and with it its session and its lock.
CallDropped(c) ==
    /\ call[c].at \notin {"idle", "over"}
    /\ call' = Gone(c, <<>>)
    /\ lsp' = IF call[c].with = 0 THEN lsp ELSE Stop(call[c].with, lsp)
    /\ lock' = IF lock = c THEN "free" ELSE lock
    /\ UNCHANGED <<cached, drivers, shut, closing>>

(***************************************************************************)
(* The driver.                                                             *)
(***************************************************************************)
\* drive is over: a command that was being written is answered.
Over(s) == [lsp EXCEPT ![s] = [lsp[s] EXCEPT !.driver = "clean",
                !.ack = IF lsp[s].driver = "send" THEN "failed" ELSE @,
                !.cmd = IF lsp[s].driver = "send" THEN <<>> ELSE @]]

hosts == <<call, tool>>

\* next_output, in drive or while send waits, and Framer::feed: any part of what the
\* server wrote.
Output(s) ==
    /\ Driving(s) /\ lsp[s].wire # <<>> /\ (lsp[s].driver = "drive" => lsp[s].pending = <<>>)
    /\ \E n \in 1..Len(lsp[s].wire) :
          lsp' = IF Len(lsp[s].pending) + n > MaxMessages THEN Over(s)
                 ELSE [lsp EXCEPT ![s].pending = @ \o SubSeq(lsp[s].wire, 1, n),
                                  ![s].wire = SubSeq(@, n + 1, Len(@))]
    /\ UNCHANGED hosts

\* One message of drive: a request of the server is replied to, diagnostics of the
\* tracked document are kept, answers are passed on as long as there is room.
Handle(s) ==
    LET m == Head(lsp[s].pending)
        rest == [lsp[s] EXCEPT !.pending = Tail(@)]
    IN  /\ lsp[s].driver = "drive" /\ lsp[s].pending # <<>>
        /\ lsp' = CASE m.kind = "request" -> [lsp EXCEPT ![s] = [rest EXCEPT !.driver = "reply"]]
                    [] m.kind = "publish" ->
                          [lsp EXCEPT ![s] = [rest EXCEPT !.value = IF lsp[s].path = m.path THEN <<m>> ELSE @]]
                    [] OTHER ->
                          IF Len(lsp[s].inbox) < MaxMessages THEN [lsp EXCEPT ![s] = [rest EXCEPT !.inbox = Append(@, m)]]
                          ELSE Over(s)
        /\ UNCHANGED hosts

Take(s) ==
    /\ lsp[s].driver = "drive" /\ lsp[s].pending = <<>> /\ lsp[s].cmd # <<>>
    /\ lsp' = [lsp EXCEPT ![s].driver = "send"]
    /\ UNCHANGED hosts

\* The end of send: the pipe took the frame. The server has it.
Wrote(s) ==
    LET m == lsp[s].cmd[1]
    IN  /\ lsp[s].driver \in {"send", "reply"}
        /\ lsp' = [lsp EXCEPT ![s] =
                      IF lsp[s].driver = "reply" THEN [lsp[s] EXCEPT !.driver = "drive"]
                      ELSE [lsp[s] EXCEPT !.driver = "drive", !.cmd = <<>>, !.ack = "ok",
                               !.asked = IF m.id # 0 THEN @ \cup {m} ELSE @,
                               !.opened = IF m.step = "open" THEN @ \cup {Path(m.call)} ELSE @]]
        /\ UNCHANGED hosts

\* The server exited, its output is too long, lost, or no messages, or a reply took
\* too long; or Session::stop.
Broken(s) ==
    /\ Driving(s)
    /\ lsp' = Over(s)
    /\ UNCHANGED hosts

\* The end of Driver::run: cancel_and_wait, and the channels are dropped.
Cleaned(s) ==
    /\ lsp[s].driver = "clean"
    /\ \E ok \in BOOLEAN :
          lsp' = [lsp EXCEPT ![s] = [lsp[s] EXCEPT !.driver = "done", !.alive = FALSE,
                     !.ack = IF lsp[s].cmd # <<>> THEN "failed" ELSE @,
                     !.cmd = <<>>, !.wire = <<>>, !.pending = <<>>, !.asked = {}, !.opened = {}, !.talk = 0,
                     !.clean = ok \/ lsp[s].stop]]
    /\ UNCHANGED hosts

(***************************************************************************)
(* The server.                                                             *)
(***************************************************************************)
Sends(s, m, server) ==
    /\ Driving(s) /\ ~lsp[s].stop /\ Len(lsp[s].wire) <= MaxMessages
    /\ lsp' = [lsp EXCEPT ![s] = [server EXCEPT !.wire = Append(@, m)]]
    /\ UNCHANGED hosts

\* An answer to any request, late or early, once.
Answer(s) ==
    \E m \in lsp[s].asked, outcome \in {"result", "error", "odd"} :
        Sends(s, [kind |-> "answer", id |-> m.id, call |-> m.call, outcome |-> outcome],
              [lsp[s] EXCEPT !.asked = @ \ {m}])

\* Diagnostics of any document it has seen, for its version or an older one, requests
\* of its own, and messages that answer nothing.
Talk(s) ==
    /\ lsp[s].talk < MaxTalk
    /\ \E m \in [kind : {"publish"}, path : lsp[s].opened, version : {0, 1}]
                  \cup [kind : {"request"}] \cup [kind : {"noise"}, id : {0}, call : {NoPath}, outcome : {"result"}] :
          Sends(s, m, [lsp[s] EXCEPT !.talk = @ + 1])

(***************************************************************************)
(* The host's close.                                                       *)
(***************************************************************************)
CloseStores ==
    /\ closing = "no"
    /\ closing' = "stored"
    /\ shut' = IF shut = "no" THEN "stored" ELSE shut
    /\ UNCHANGED <<lsp, call, cached, drivers, lock>>

CloseTells ==
    /\ closing = "stored"
    /\ closing' = "waiting"
    /\ shut' = "told"
    /\ UNCHANGED <<lsp, call, cached, drivers, lock>>

\* Dropping the cached session stops its driver.
CloseLocks ==
    /\ closing = "waiting" /\ lock = "free"
    /\ closing' = "joining"
    /\ lock' = "close"
    /\ cached' = 0
    /\ lsp' = IF cached = 0 THEN lsp ELSE Stop(cached, lsp)
    /\ UNCHANGED <<call, drivers, shut>>

CloseJoined ==
    /\ closing = "joining"
    /\ \A s \in drivers : finished(s)
    /\ closing' = "returned"
    /\ drivers' = {}
    /\ lock' = "free"
    /\ UNCHANGED <<lsp, call, cached, shut>>

\* The future of close is dropped, and close may be called again.
CloseDropped ==
    /\ closing \in {"waiting", "joining"}
    /\ closing' = "no"
    /\ lock' = IF closing = "joining" THEN "free" ELSE lock
    /\ UNCHANGED <<lsp, call, cached, drivers, shut>>

LspNext ==
    \/ \E c \in Requests :
          \/ Requested(c) \/ Locked(c) \/ Write(c) \/ Acked(c) \/ Receive(c) \/ WaitDiagnostics(c)
          \/ Interrupted(c) \/ Closed(c) \/ CallDropped(c)
    \/ \E s \in Sessions :
          \/ Output(s) \/ Handle(s) \/ Take(s) \/ Wrote(s) \/ Broken(s) \/ Cleaned(s)
          \/ Answer(s) \/ Talk(s)
    \/ CloseStores \/ CloseTells \/ CloseLocks \/ CloseJoined \/ CloseDropped

LspSpec == LspInit /\ [][LspNext]_lspVars

(***************************************************************************)
(* Properties.                                                             *)
(***************************************************************************)
\* Whatever is dropped, times out or fails, a server's process has a driver that close
\* will join; a driver whose session nobody has is told to stop, so that there is one
\* server at a time; the call that has it is the one that has the lock; and after
\* close there is none, and never one again (Sessions, Drop for Session,
\* LspTool::close, bounded).
ServersOwned ==
    /\ \A s \in Sessions : lsp[s].alive => Active(s) /\ s \in drivers
    /\ \A s \in Sessions : Active(s) /\ ~lsp[s].stop => cached = s \/ \E c \in Requests : call[c].with = s
    /\ \A c \in Requests : lock = c <=> call[c].with # 0
    /\ closing = "returned" => cached = 0 /\ \A s \in Sessions : ~Active(s)

\* What a call returns answers its own request, however late other answers of the same
\* session come, or was published for its own document and not for an older version
\* (Session::call, track_document, published).
AnswersOwn ==
    \A c \in Requests : call[c].result # <<>> =>
        LET m == call[c].result[1]
        IN  IF m.kind = "publish" THEN m.path = Path(c) /\ m.version >= 1 /\ call[c].op = "diagnostics"
            ELSE m.call = c /\ m.outcome = "result"
=============================================================================

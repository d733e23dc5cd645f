---------------------------- MODULE ProviderWire ----------------------------
(***************************************************************************)
(* What a provider client reads off the wire (adk-providers/src/error.rs,  *)
(* sse.rs): which failures the runner may retry and after how long, which  *)
(* complaints a request can be repaired for, and the framing of server     *)
(* sent events.                                                            *)
(***************************************************************************)
EXTENDS Integers, Sequences, SequencesExt

(***************************************************************************)
(* error.rs. Status 0 is no status, "" an absent or unknown text. A        *)
(* failure is given as its status and its advice.                          *)
(***************************************************************************)
Least(a, b) == IF a < b THEN a ELSE b

Transient(status) == status = 429 \/ status \in 500..599

\* RequestFailure::retryable of RequestFailure::http, shouldRetry being the
\* x-should-retry header.
http(status, shouldRetry) ==
    [status |-> status, retry |-> CASE shouldRetry = "true" -> TRUE
                                    [] shouldRetry = "false" -> FALSE
                                    [] OTHER -> Transient(status)]

\* RequestFailure::transport.
transport(kind) == [status |-> 0, retry |-> kind \in {"connect", "timeout", "body"}]

classified(status, retry) == [status |-> status, retry |-> retry]

error_status(code) == IF code \in 400..599 THEN code ELSE 0

\* The code or else the status of an error, then its type.
envelope_error(code, status, type, fallback) ==
    LET given == IF error_status(code) # 0 THEN error_status(code) ELSE error_status(status)
    IN  CASE given # 0 -> classified(given, Transient(given))
          [] given = 0 /\ type = "rate_limit_error" -> classified(429, TRUE)
          [] given = 0 /\ type = "overloaded_error" -> classified(529, TRUE)
          [] given = 0 /\ type = "api_error" -> classified(500, TRUE)
          [] OTHER -> classified(fallback, fallback >= 500)

Failing == {"failed", "cancelled", "canceled"}

KnownCodes == {"server_error", "server_is_overloaded", "rate_limit_exceeded", "vector_store_timeout"}

\* response_error, for the status of a response, a code that is a number or a
\* text, and the reason it is incomplete. An empty set is no error.
response_error(status, usable, number, code, incomplete) ==
    CASE status \notin Failing /\ usable -> {}
      [] status \notin Failing \cup {"incomplete"} /\ ~usable -> {classified(0, TRUE)}
      [] (status \in Failing \/ (status = "incomplete" /\ ~usable)) /\ error_status(number) # 0 ->
           {classified(number, Transient(number))}
      [] OTHER -> {classified(0, \/ code \in KnownCodes
                                 \/ status = "failed" /\ code = ""
                                 \/ status = "incomplete" /\ incomplete = "")}

\* provider_error, for a body with the type and status, an envelope and a first
\* choice; no envelope is {}.
provider_error(type, status, failure, envelope, choice, finish) ==
    IF type \in Failing \/ status \in Failing THEN failure
    ELSE IF type = "incomplete" \/ status = "incomplete" THEN {}
    ELSE IF envelope # {} THEN {envelope_error(e.code, e.status, e.type, 400) : e \in envelope}
    ELSE IF choice # {} THEN {envelope_error(e.code, e.status, e.type, 502) : e \in choice}
    ELSE IF finish = "error" THEN {classified(502, TRUE)} ELSE {}

\* retry_after, in milliseconds: the milliseconds, the seconds, and the first of
\* the resets that are ahead; 0 is an absent or invalid header.
retry_after(ms, seconds, resets) ==
    CASE ms > 0 -> 1000 * (IF ms < 1000 THEN 1 ELSE Least(ms \div 1000, 300))
      [] ms <= 0 /\ seconds > 0 -> 1000 * Least(seconds, 300)
      [] OTHER -> LET ahead == {Least(r, 300000) : r \in {r \in resets : r > 0}}
                  IN  IF ahead = {} THEN 0 ELSE CHOOSE r \in ahead : \A s \in ahead : r <= s

\* request_repair, for the words a 400 has.
request_repair(status, words) ==
    CASE status # 400 -> "none"
      [] status = 400 /\ "thinking.type" \in words -> "thinking"
      [] status = 400 /\ "thinking.type" \notin words /\ {"reasoning", "effort"} \subseteq words -> "effort"
      [] status = 400 /\ "thinking.type" \notin words /\ "effort" \in words /\ "reasoning" \notin words ->
           "adaptive_effort"
      [] OTHER -> "none"

(***************************************************************************)
(* sse.rs. A line is data when its first byte is "d"; a line that is not   *)
(* is an event name, a comment or an extension.                            *)
(***************************************************************************)
NewDecoder == [line |-> <<>>, data |-> <<>>, bytes |-> 0, after_cr |-> FALSE, failed |-> FALSE,
               events |-> <<>>]

\* Decoder::finish_line. The lines of one event are joined by newlines.
finish_line(d) ==
    IF d.line = <<>>
    THEN [d EXCEPT !.bytes = 0, !.data = <<>>,
                   !.events = IF d.data = <<>> THEN @ ELSE Append(@, Front(d.data))]
    ELSE [d EXCEPT !.line = <<>>,
                   !.data = IF Head(d.line) = "d" THEN Append(@ \o Tail(d.line), "\n") ELSE @]

\* Decoder::feed of one byte.
feed(d, byte, limit) ==
    CASE d.failed -> d
      [] ~d.failed /\ d.after_cr /\ byte = "\n" -> [d EXCEPT !.after_cr = FALSE]
      [] ~d.failed /\ ~(d.after_cr /\ byte = "\n") /\ byte \in {"\r", "\n"} ->
           finish_line([d EXCEPT !.after_cr = byte = "\r"])
      [] ~d.failed /\ byte \notin {"\r", "\n"} /\ d.bytes = limit ->
           [d EXCEPT !.failed = TRUE, !.line = <<>>, !.data = <<>>, !.after_cr = FALSE]
      [] OTHER -> [d EXCEPT !.after_cr = FALSE, !.bytes = @ + 1, !.line = Append(@, byte)]

feed_inner(d, chunk, limit) == FoldLeft(LAMBDA e, byte : feed(e, byte, limit), d, chunk)

\* Decoder::finish: whether the end of the body is not inside a frame.
finish(d) == d.line = <<>> /\ d.data = <<>>
=============================================================================

----------------------------- MODULE MCProvider -----------------------------
(* Instances of Provider for TLC.                                          *)
EXTENDS Provider, ProviderWire

Fresh == [access |-> 1, refresh |-> 1, account |-> "a", revision |-> 0, age |-> 0]

Plain == [mode |-> "api_key", protocol |-> "responses", jwt |-> FALSE, pinned |-> FALSE,
          requests |-> 1, direct |-> FALSE, material |-> Fresh, shape |-> Shape("none", "none"),
          disables |-> FALSE, statuses |-> {}, stream |-> FALSE]

\* Three requests that share a pinned Anthropic session, two that share the others,
\* direct consumers, bodies the server complains of, and a stream of each protocol.
MCConfigs ==
    {[Plain EXCEPT !.mode = "anthropic", !.protocol = "anthropic", !.pinned = TRUE,
                   !.requests = 3, !.statuses = {"401"}],
     [Plain EXCEPT !.mode = "openai", !.jwt = TRUE, !.disables = TRUE, !.requests = 2, !.statuses = {"401"}],
     [Plain EXCEPT !.mode = "openai", !.direct = TRUE, !.requests = 2,
                   !.material = [Fresh EXCEPT !.account = ""]],
     [Plain EXCEPT !.mode = "copilot", !.protocol = "chat", !.requests = 2,
                   !.statuses = {"401"}, !.material = [Fresh EXCEPT !.access = 0]],
     [Plain EXCEPT !.protocol = "anthropic", !.requests = 2, !.statuses = {"400", "401"},
                   !.shape = Shape("adaptive", "xhigh")],
     [Plain EXCEPT !.statuses = {"400"}, !.shape = Shape("none", "max")],
     [Plain EXCEPT !.stream = TRUE],
     [Plain EXCEPT !.stream = TRUE, !.protocol = "chat"],
     [Plain EXCEPT !.stream = TRUE, !.protocol = "anthropic"]}

Symmetry == Permutations(Requests)

Codes == {0, 200, 399, 400, 404, 429, 499, 500, 529, 599, 600}

Statuses == {"", "completed", "failed", "cancelled", "incomplete"}

\* However a server gives a status (on the response, in an error envelope, in a
\* failed response), the runner gets the same advice.
ASSUME StatusesAgree ==
    \A status \in Codes : error_status(status) # 0 =>
        /\ envelope_error(status, 0, "", 400) = http(status, "")
        /\ response_error("failed", FALSE, status, "", "") = {http(status, "")}
        /\ provider_error("error", "", {}, {[code |-> 0, status |-> status, type |-> "api_error"]}, {}, "")
             = {http(status, "")}

\* Output that can be used is an error only of a response that failed, and a
\* request the server found wrong is never advised again.
ASSUME UsableOutput ==
    \A status \in Statuses, code \in {"", "server_error", "invalid_image"}, number \in Codes :
        /\ response_error(status, TRUE, number, code, "") # {} <=> status \in Failing
        /\ \A e \in response_error(status, FALSE, number, code, "max_output_tokens") :
              e.retry => e.status = 0 \/ Transient(e.status)

\* Waits are at most five minutes, and milliseconds are preferred and never rounded
\* to no wait.
ASSUME WaitsBounded ==
    \A ms \in {0, 1, 999, 1000, 1999, 400000}, seconds \in {-1, 0, 1, 400},
       resets \in SUBSET {-5, 0, 1, 2000, 400000} :
        /\ retry_after(ms, seconds, resets) \in 0..300000
        /\ ms > 0 => retry_after(ms, seconds, resets) \in 1000..300000
        /\ ms > 0 /\ ms < 300000 => retry_after(ms, seconds, resets) <= IF ms < 1000 THEN 1000 ELSE ms

\* A request is repaired for one complaint, whatever else the message says.
ASSUME RepairsClassified ==
    \A words \in SUBSET {"thinking.type", "reasoning", "effort", "model"} :
        /\ request_repair(400, words) = "none" <=> words \cap {"thinking.type", "effort"} = {}
        /\ request_repair(429, words) = "none"

Bytes == {"d", "a", "\r", "\n"}

Inputs == UNION {[1..n -> Bytes] : n \in 0..6}

Decoded(input) == feed_inner(NewDecoder, input, 3)

\* The reference for line ends: a line feed after a carriage return is dropped,
\* every other end is a line feed.
Lines(input) ==
    SelectSeq([i \in DOMAIN input |->
                  IF input[i] = "\n" /\ i > 1 /\ input[i - 1] = "\r" THEN "" ELSE
                  IF input[i] = "\r" THEN "\n" ELSE input[i]], LAMBDA b : b # "")

\* What a decoder makes of a body does not depend on the line ends the server uses,
\* and a body that may end holds nothing back.
ASSUME FramesWhole ==
    \A input \in Inputs :
        /\ Decoded(input).events = Decoded(Lines(input)).events
        /\ Decoded(input).failed = Decoded(Lines(input)).failed
        /\ finish(Decoded(input)) =>
              feed_inner(Decoded(input), <<"\n", "\n">>, 3).events = Decoded(input).events
=============================================================================

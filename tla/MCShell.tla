------------------------------ MODULE MCShell ------------------------------
(* An instance of Shell for TLC, and what ShellOutput computes.            *)
EXTENDS Shell, ShellOutput

\* A terminal, and a background job whose number a synchronous one may take.
MCPlans == {<<"term">>, <<"bash", "sync">>}

\* A process writes the numbers from 1 in pieces; after some of them the model polls.
Step == [size : {1, 3, 6}, lost : BOOLEAN, poll : BOOLEAN]

Histories == UNION {[1..n -> Step] : n \in 1..3}

Bytes(from, n) == [i \in 1..n |-> from + i]

\* The bytes of a job that was polled as in h: its buffer, what polls said, and
\* what polls should have said.
Polled(state, step) ==
    LET data == Bytes(state.buffer.total, step.size)
        after == BufferAppend(state.buffer, data, step.lost, 1)
        seen == consume(after)
    IN  IF step.poll
        THEN [buffer |-> seen.buffer, fresh |-> <<>>, lost |-> FALSE,
              honest |-> state.honest
                 /\ IsSuffix(seen.text, state.fresh \o data)
                 /\ (seen.gap <=> state.lost \/ step.lost \/ seen.text # state.fresh \o data)]
        ELSE [buffer |-> after, fresh |-> state.fresh \o data, lost |-> state.lost \/ step.lost,
              honest |-> state.honest]

Job(cap, terminal, h) ==
    FoldLeft(Polled, [buffer |-> NewBuffer(cap, terminal), fresh |-> <<>>, lost |-> FALSE, honest |-> TRUE], h)

\* A poll gives the newest bytes since the last one, none of them twice, and says so
\* when some are missing; what is kept is bounded, and shows the first and the last
\* bytes with every byte at most once.
ASSUME PollsHonest ==
    \A h \in Histories, cap \in {5, 8}, terminal \in BOOLEAN :
        LET result == Job(cap, terminal, h)
            b == result.buffer
        IN  /\ result.honest
            /\ Len(full(b)) <= cap
            /\ b.total <= cap => full(b) = Bytes(0, b.total)
            /\ b.total > cap => /\ IsPrefix(b.head, Bytes(0, b.total))
                                /\ IsSuffix(b.tail, Bytes(0, b.total))
                                /\ Len(b.head) + Len(b.tail) = IF terminal THEN cap ELSE cap - 1

\* The monitor learns of every byte that Output had no room for.
ASSUME DiscardsTold ==
    \A sizes \in UNION {[1..n -> 0..3] : n \in 0..3} :
        LET data == [i \in DOMAIN sizes |-> Bytes(10 * i, sizes[i])]
            output == FoldLeft(LAMBDA o, d : OutputAppend(o, d, 4), NewOutput, data)
        IN  /\ IsPrefix(output.bytes, FlattenSeq(data)) /\ Len(output.bytes) <= 4
            /\ output.truncated <=> output.bytes # FlattenSeq(data)

\* What a terminal shows is within its limit and accounts for every byte.
ASSUME TerminalAccounted ==
    \A n \in 0..9 :
        LET shown == terminal_limit(Bytes(0, n), 4)
        IN  /\ Len(shown.first) + Len(shown.last) <= 4
            /\ Len(shown.first) + shown.omitted + Len(shown.last) = n

\* Every command has a time limit, at most the host's, whatever the host or the
\* model asks for.
ASSUME TimeLimited ==
    \A default, max \in {-1, 0, 1, 999, 5000, 700000}, requested \in {-1, 0, 1, 700001}, async \in BOOLEAN :
        LET limits == from_environment(default, max, 0)
        IN  /\ timeout(limits, requested, async) \in 1..limits.max
            /\ requested <= 0 => timeout(limits, requested, async) \in 1000..limits.max

\* A call never has more access than the host allows, nor than the policy without an
\* exception; and a tool that is offered is not refused to the host's own access.
ASSUME AccessBounded ==
    \A host, policy \in 0..2, adapter, exception, remote \in BOOLEAN :
        /\ access(adapter, host, policy, exception) <= host
        /\ access(adapter, host, policy, exception) > policy => policy = 0 /\ exception /\ ~adapter
        /\ \A name \in tools(host, remote) : ~refused(name, access(FALSE, host, host, FALSE), remote)
=============================================================================

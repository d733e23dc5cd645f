---------------------------- MODULE ShellOutput ----------------------------
(***************************************************************************)
(* What the shell tools keep of a job's output: Output of the sandbox      *)
(* (adk-sandbox/src/session.rs) between two polls of the monitor, and      *)
(* Buffer (adk-tools/src/shell_buffer.rs) between two polls of the model;  *)
(* and the time and the access a command is given (shell.rs).  Bytes are   *)
(* members of a sequence; the notes appended to a text are its flags.      *)
(***************************************************************************)
EXTENDS Integers, Sequences, SequencesExt

Smaller(a, b) == IF a < b THEN a ELSE b

Larger(a, b) == IF a > b THEN a ELSE b

Prefix(s, n) == SubSeq(s, 1, Smaller(n, Len(s)))

Suffix(s, n) == SubSeq(s, Len(s) - Smaller(n, Len(s)) + 1, Len(s))

(***************************************************************************)
(* Output: bytes up to the limit, and whether any were discarded since the *)
(* last take.                                                              *)
(***************************************************************************)
NewOutput == [bytes |-> <<>>, truncated |-> FALSE]

OutputAppend(output, bytes, limit) ==
    LET kept == Smaller(Larger(limit - Len(output.bytes), 0), Len(bytes))
    IN  [bytes |-> output.bytes \o Prefix(bytes, kept),
         truncated |-> output.truncated \/ kept # Len(bytes)]

(***************************************************************************)
(* Buffer: a terminal keeps the last cap bytes, a command its first and    *)
(* its last ones with an omission of the given length between them.        *)
(***************************************************************************)
NewBuffer(cap, terminal) ==
    [head |-> <<>>, tail |-> <<>>, total |-> 0, cap |-> cap, capped |-> FALSE,
     lost |-> FALSE, unread_lost |-> FALSE, cursor |-> 0, terminal |-> terminal]

append_tail(tail, data, limit) ==
    IF Len(data) >= limit THEN Suffix(data, limit)
    ELSE Suffix(tail, Smaller(Len(tail), limit - Len(data))) \o data

\* The first append that does not fit splits what was kept.
Split(b, data, head_limit, tail_limit) ==
    [b EXCEPT !.head = Prefix(Prefix(@, head_limit) \o data, head_limit),
              !.tail = append_tail(append_tail(@, b.head, tail_limit), data, tail_limit),
              !.capped = TRUE]

Kept(b, data, available) ==
    CASE b.terminal -> [b EXCEPT !.tail = append_tail(@, data, b.cap), !.capped = b.total > b.cap]
      [] ~b.terminal /\ ~b.capped /\ Len(b.head) + Len(data) <= b.cap -> [b EXCEPT !.head = @ \o data]
      [] ~b.terminal /\ ~b.capped /\ Len(b.head) + Len(data) > b.cap ->
           Split(b, data, available \div 2, available - available \div 2)
      [] OTHER -> [b EXCEPT !.tail = append_tail(@, data, available - available \div 2)]

BufferAppend(b, data, lost, omission) ==
    Kept([b EXCEPT !.lost = @ \/ lost, !.unread_lost = @ \/ lost, !.total = @ + Len(data)],
         data, Larger(b.cap - omission, 0))

\* full, without its notes; Omission stands for the text between head and tail.
full(b) == b.head \o (IF b.capped /\ ~b.terminal THEN <<"omission">> ELSE <<>>) \o b.tail

\* consume gives what is new, whether some of it is gone, and the buffer after it.
Source(b) == IF b.capped \/ b.terminal THEN b.tail ELSE b.head

consume(b) ==
    [text |-> Suffix(Source(b), Larger(b.total - b.cursor, 0)),
     gap |-> b.unread_lost \/ b.total - b.cursor > Len(Source(b)),
     buffer |-> [b EXCEPT !.cursor = b.total, !.unread_lost = FALSE]]

\* terminal_limit: the first and the last half, and how many bytes were omitted.
terminal_limit(out, limit) ==
    IF Len(out) <= limit THEN [first |-> out, omitted |-> 0, last |-> <<>>]
    ELSE [first |-> Prefix(out, limit \div 2), omitted |-> Len(out) - limit,
          last |-> Suffix(out, limit \div 2)]

(***************************************************************************)
(* Limits. A setting that is absent, not a number or not positive is 0.    *)
(***************************************************************************)
positive(setting, fallback) == IF setting > 0 THEN setting ELSE fallback

from_environment(default, max, bytes) ==
    LET given == Larger(positive(default, 120000), 1000)
    IN  [default |-> given,
         max |-> Larger(Larger(positive(max, 600000), 1000), given),
         bytes |-> Larger(Smaller(positive(bytes, 102400), 10485760), 4096)]

timeout(limits, requested, asynchronous) ==
    CASE requested > 0 -> Smaller(requested, limits.max)
      [] requested <= 0 /\ asynchronous -> limits.max
      [] OTHER -> limits.default

(***************************************************************************)
(* Access: 0 is read only, 1 workspace write, 2 full access.               *)
(***************************************************************************)
\* ShellTool::access: the host's ceiling, and the policy's unless it is read only with
\* an exception for the tool by name.
access(adapter, host, policy, exception) ==
    IF adapter THEN 0
    ELSE Smaller(host, IF policy = 0 /\ exception THEN host ELSE policy)

tools(host, git_remote_writes) ==
    {"Bash"} \cup (IF host # 0 THEN {"BashStart", "BashPoll", "BashKill"} ELSE {})
             \cup (IF host = 2 /\ git_remote_writes THEN {"Terminal"} ELSE {})

\* What run and terminal refuse for the access of a call, before any job.
refused(name, allowed, git_remote_writes) ==
    \/ name = "BashStart" /\ allowed = 0
    \/ name = "Terminal" /\ (~git_remote_writes \/ allowed # 2)
=============================================================================

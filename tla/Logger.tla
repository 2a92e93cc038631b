------------------------------- MODULE Logger -------------------------------
(***************************************************************************)
(* The logger of the server: one builder, in which a call puts its line    *)
(* together field by field, and one mutex.  A line is a sequence of pieces, *)
(* each the message it is part of.  The server logs at INFO and every call *)
(* it makes is at INFO or above, so no call returns before the lock.       *)
(***************************************************************************)
EXTENDS Sequences

CONSTANTS
    Callers,    \* goroutines
    Nobody      \* the mutex is free

ASSUME LoggerAssumption == Nobody \notin Callers

VARIABLES
    holder,     \* mu
    buf,        \* buf
    lines       \* the lines written to out

logVars == <<holder, buf, lines>>

Message == Callers \X {"request", "panic"}

\* New.
LogInit ==
    /\ holder = Nobody
    /\ buf = <<>>
    /\ lines = {}

\* log, up to the middle of the fields: the builder is reset under the lock.
LogBegin(c, msg) ==
    /\ holder = Nobody
    /\ holder' = c
    /\ buf' = << <<c, msg>> >>
    /\ UNCHANGED lines

\* log, the rest of the fields, the write to out and the release of the lock;
\* what is left in the builder is not read again.
LogEnd(c, msg) ==
    /\ lines' = lines \cup {Append(buf, <<c, msg>>)}
    /\ buf' = <<>>
    /\ holder' = Nobody

\* The builder and the output hold pieces of messages.
LogTypeOK ==
    /\ holder \in Callers \cup {Nobody}
    /\ buf \in Seq(Message)
    /\ lines \subseteq Seq(Message)

\* Every line that was written is one message, from its first field to its
\* newline, however the calls of concurrent requests interleave.
LinesWhole == \A line \in lines : \E m \in Message : line = <<m, m>>

=============================================================================

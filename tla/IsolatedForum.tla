---------------------------- MODULE IsolatedForum ---------------------------
(***************************************************************************)
(* The forum when no request changes what another one is at work on.       *)
(*                                                                         *)
(* The services do not see to that: a goroutine may write a stale clone    *)
(* back, or store something after its check went stale.  Executions in     *)
(* which it never happens are those of requests that come one at a time,   *)
(* and of any number at a time that work on different records.             *)
(***************************************************************************)
EXTENDS Forum

\* What goroutine r has read and will rely on is left alone in this step: the
\* board, thread or comment it checked or cloned, the comments of the thread it
\* adds one to, and the slug it found free.
LeftAlone(r) ==
    LET q == req[r]
    IN  /\ q.op = "board.update" =>
              /\ boards'[q.id] = boards[q.id]
              /\ \A b \in BoardIds :
                    boards'[b] # Absent /\ boards'[b].slug = q.board.slug
                    => boards[b] # Absent /\ boards[b].slug = q.board.slug
        /\ q.op = "thread.create" => boards'[q.board] = boards[q.board]
        /\ q.op \in {"thread.update", "comment.checked", "comment.stored"} =>
              threads'[q.id] = threads[q.id]
        /\ q.op \in {"comment.checked", "comment.stored"} =>
              threadIdx'[q.id] = threadIdx[q.id]
        /\ q.op = "comment.update" => comments'[q.id] = comments[q.id]

\* No goroutine that waits between two store calls is interfered with.
Undisturbed == \A r \in Requests : req'[r] = req[r] => LeftAlone(r)

IsolatedNext == ForumNext /\ Undisturbed

IsolatedSpec == ForumInit /\ [][IsolatedNext]_forumVars

-----------------------------------------------------------------------------

\* The comment of a creation that has not counted it yet is on thread t.
Uncounted(t) == \E r \in Requests : req[r].op = "comment.stored" /\ req[r].id = t

\* The threads with every stored comment counted.
CountedThreads ==
    [t \in ThreadIds |->
        IF threads[t] # Absent /\ Uncounted(t) THEN IncrementReply(threads[t])
                                               ELSE threads[t]]

\* Requests that leave each other alone behave as if each were one step: a
\* creation happens when its record is stored, an update when it is written
\* back, and between the calls of an operation nobody can tell.
Atomically == INSTANCE AtomicForum WITH threads <- CountedThreads

ImplementsAtomicForum == Atomically!AtomicSpec

=============================================================================

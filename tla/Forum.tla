-------------------------------- MODULE Forum -------------------------------
(***************************************************************************)
(* Boards, threads and comments together: the request goroutines run the   *)
(* operations of BoardService, ThreadService and CommentService, which     *)
(* share the board and the thread store, and interleave between any two    *)
(* store calls.                                                            *)
(***************************************************************************)
EXTENDS BoardService, ThreadService, CommentService

forumVars == <<boardVars, threadVars, commentVars, handlerVars>>

ForumInit ==
    /\ BoardStoreInit
    /\ ThreadStoreInit
    /\ CommentStoreInit
    /\ HandlersInit

ForumNext ==
    \E r \in Requests :
        \/ BoardStep(r) /\ UNCHANGED <<threadVars, commentVars>>
        \/ ThreadStep(r) /\ UNCHANGED commentVars
        \/ CommentStep(r) /\ UNCHANGED boardVars

ForumSpec == ForumInit /\ [][ForumNext]_forumVars

-----------------------------------------------------------------------------

\* The stores, their indexes and the goroutines hold values of their Go types.
ForumTypeOK ==
    /\ boards \in [BoardIds -> Board \cup {Absent}]
    /\ slugIdx \in [Slugs -> BoardIds \cup {Absent}]
    /\ threads \in [ThreadIds -> Thread \cup {Absent}]
    /\ boardIdx \in [BoardIds -> Seq(ThreadIds)]
    /\ comments \in [CommentIds -> Comment \cup {Absent}]
    /\ threadIdx \in [ThreadIds -> Seq(CommentIds)]
    /\ req \in [Requests -> {Idle} \cup BoardRequest \cup ThreadRequest \cup CommentRequest]
    /\ issued \subseteq BoardIds \cup ThreadIds \cup CommentIds

-----------------------------------------------------------------------------
(* What any interleaving of requests keeps.                                *)

\* However the write-backs of comment creations and thread updates interleave,
\* a thread never claims more replies than CountByThread counts for it.
ReplyCountBounded ==
    \A t \in ThreadIds :
        threads[t] # Absent => threads[t].replyCount <= CountByThread(t)

\* What must hold of the state q a goroutine keeps between two store calls.
SnapshotConsistent(q) ==
    /\ q.op = "thread.create" => q.board \in issued
    /\ q.op \in {"thread.update", "comment.checked", "comment.stored"} =>
          /\ q.id \in issued
          /\ q.thread.replyCount <= CountByThread(q.id)
          /\ threads[q.id] # Absent => threads[q.id].boardId = q.thread.boardId
    /\ q.op = "comment.stored" => q.thread.replyCount + 1 <= CountByThread(q.id)
    /\ q.op = "comment.update" =>
          /\ comments[q.id] # Absent
          /\ comments[q.id].threadId = q.comment.threadId

\* The thread or the comment a goroutine holds may be stale or already deleted
\* when it is written back, but it is never one of another board or thread, and
\* never one with more replies than the thread has comments; and no goroutine
\* works on an identifier that was never stored.
SnapshotsConsistent ==
    \A r \in Requests : SnapshotConsistent(req[r])

\* A write-back that comes after the deletion of its thread does not bring the
\* thread back: once deleted, a thread is gone for good.
DeletedThreadStaysGone ==
    [][\A t \in ThreadIds :
          t \in issued /\ threads[t] = Absent => threads'[t] = Absent]_forumVars

\* Nothing is stored under, and nothing refers to, an identifier newID has not
\* returned: a thread without its board, or a comment without its thread, is
\* left over from a deletion.
ReferencesWereStored ==
    /\ \A b \in BoardIds : boards[b] # Absent => b \in issued
    /\ \A t \in ThreadIds :
          threads[t] # Absent => t \in issued /\ threads[t].boardId \in issued
    /\ \A c \in CommentIds :
          comments[c] # Absent => c \in issued /\ comments[c].threadId \in issued

\* Every index fits its store: boards are found by their slug, threads by their
\* board and comments by their thread, and no entry outlives its record.
IndexesExact == SlugIndexExact /\ ThreadIndexExact /\ CommentIndexExact

-----------------------------------------------------------------------------
(* What the services promise of each operation, and keep as long as no     *)
(* request changes what another one is at work on.                         *)

\* A reply is counted once, when its creation returns ("Update thread reply
\* count"): without a creation in flight the count is the number of comments.
ReplyCountExact ==
    (\A r \in Requests : req[r].op # "comment.stored") =>
        \A t \in ThreadIds :
            threads[t] # Absent => threads[t].replyCount = CountByThread(t)

\* Creating a comment writes the reply count and the time of the last reply:
\* the lock of a stored thread changes only when an update asks for it.
LockChangesOnlyOnRequest ==
    [][\A t \in ThreadIds :
          /\ threads[t] # Absent /\ threads'[t] # Absent
          /\ threads'[t].isLocked # threads[t].isLocked
          => \E r \in Requests :
                /\ req[r].op = "thread.update" /\ req[r].id = t
                /\ req[r].lock = IF threads'[t].isLocked THEN "locked" ELSE "open"]_forumVars

\* A counted view is never lost again.
ViewCountNeverFalls ==
    [][\A t \in ThreadIds :
          threads[t] # Absent /\ threads'[t] # Absent
          => threads'[t].viewCount >= threads[t].viewCount]_forumVars

\* A soft-deleted comment stays deleted ("comment is deleted" refuses an update).
DeletedCommentStaysDeleted ==
    [][\A c \in CommentIds :
          comments[c] # Absent /\ comments[c].isDeleted
          => comments'[c] # Absent /\ comments'[c].isDeleted]_forumVars

\* A thread is stored only in a board that exists and is not locked.
ThreadsOnlyInOpenBoards ==
    [][\A t \in ThreadIds :
          threads[t] = Absent /\ threads'[t] # Absent
          => LET b == threads'[t].boardId
             IN  boards[b] # Absent /\ ~boards[b].isLocked]_forumVars

\* A comment is stored only in a thread that exists and is not locked.
CommentsOnlyInOpenThreads ==
    [][\A c \in CommentIds :
          comments[c] = Absent /\ comments'[c] # Absent
          => LET t == comments'[c].threadId
             IN  threads[t] # Absent /\ ~threads[t].isLocked]_forumVars

\* Nothing is posted where the board or the thread is locked or gone.
PostedOnlyWhereOpen == ThreadsOnlyInOpenBoards /\ CommentsOnlyInOpenThreads

=============================================================================

--------------------------- MODULE CommentService ---------------------------
(***************************************************************************)
(* CommentService over MemoryCommentStore and MemoryThreadStore.  Create   *)
(* keeps the clone of the thread it checked through the store of the       *)
(* comment, and then writes that clone back with its reply counted.        *)
(***************************************************************************)
EXTENDS ThreadStore, CommentStore

\* IncrementReply and the fields Create writes with it.
IncrementReply(thread) == [thread EXCEPT !.replyCount = @ + 1]

\* A Create that does not look at the lock of the thread.
CommentCreateCheck_IgnoresLock(r) ==
    /\ req[r] = Idle
    /\ \E t \in ThreadIds :
          /\ threads[t] # Absent
          /\ Continue(r, [op |-> "comment.checked", id |-> t, thread |-> threads[t]])
    /\ UNCHANGED <<threadVars, commentVars, issued>>

\* Create, up to the check that the thread exists and is not locked.
CommentCreateCheck(r) ==
    /\ req[r] = Idle
    /\ \E t \in ThreadIds :
          /\ threads[t] # Absent
          /\ ~threads[t].isLocked
          /\ Continue(r, [op |-> "comment.checked", id |-> t, thread |-> threads[t]])
    /\ UNCHANGED <<threadVars, commentVars, issued>>

\* A Create that counts its reply in the clone before it stores the comment,
\* and again when it writes the clone back.
CommentCreateStore_CountsEarly(r) ==
    /\ req[r].op = "comment.checked"
    /\ \E id \in CommentIds :
          /\ NewID(id)
          /\ CommentStoreCreate(id, [threadId |-> req[r].id, isDeleted |-> FALSE])
    /\ Continue(r, [op |-> "comment.stored", id |-> req[r].id,
                    thread |-> IncrementReply(req[r].thread)])
    /\ UNCHANGED threadVars

\* Create, the store of the comment; the thread is not looked at again.
CommentCreateStore(r) ==
    /\ req[r].op = "comment.checked"
    /\ \E id \in CommentIds :
          /\ NewID(id)
          /\ CommentStoreCreate(id, [threadId |-> req[r].id, isDeleted |-> FALSE])
    /\ Continue(r, [op |-> "comment.stored", id |-> req[r].id, thread |-> req[r].thread])
    /\ UNCHANGED threadVars

\* A Create that counts its reply twice.
CommentCreateCount_Twice(r) ==
    /\ req[r].op = "comment.stored"
    /\ ThreadStoreUpdate(req[r].id, IncrementReply(IncrementReply(req[r].thread)))
    /\ Return(r)
    /\ UNCHANGED <<commentVars, issued>>

\* A Create that forgets to count its reply.
CommentCreateCount_Skips(r) ==
    /\ req[r].op = "comment.stored"
    /\ Return(r)
    /\ UNCHANGED <<threadVars, commentVars, issued>>

\* Create, the write of the thread read at the check, its reply counted; the
\* error of a thread deleted meanwhile is dropped.
CommentCreateCount(r) ==
    /\ req[r].op = "comment.stored"
    /\ ThreadStoreUpdate(req[r].id, IncrementReply(req[r].thread))
    /\ Return(r)
    /\ UNCHANGED <<commentVars, issued>>

\* Update, up to the validation of the clone the new body is applied to.
CommentUpdateRead(r) ==
    /\ req[r] = Idle
    /\ \E c \in CommentIds :
          /\ comments[c] # Absent
          /\ ~comments[c].isDeleted
          /\ Continue(r, [op |-> "comment.update", id |-> c, comment |-> comments[c]])
    /\ UNCHANGED <<threadVars, commentVars, issued>>

\* Update, the write of the whole clone.
CommentUpdateWrite(r) ==
    /\ req[r].op = "comment.update"
    /\ CommentStoreUpdate(req[r].id, req[r].comment)
    /\ Return(r)
    /\ UNCHANGED <<threadVars, issued>>

CommentDelete(r) ==
    /\ req[r] = Idle
    /\ \E c \in CommentIds : SoftDelete(c)
    /\ UNCHANGED <<threadVars, handlerVars>>

CommentStep(r) ==
    \/ CommentCreateCheck(r)
    \/ CommentCreateStore(r)
    \/ CommentCreateCount(r)
    \/ CommentUpdateRead(r)
    \/ CommentUpdateWrite(r)
    \/ CommentDelete(r)

CommentRequest ==
    [op : {"comment.checked", "comment.stored"}, id : ThreadIds, thread : Thread]
    \cup [op : {"comment.update"}, id : CommentIds, comment : Comment]

=============================================================================

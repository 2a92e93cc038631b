---------------------------- MODULE CommentStore ----------------------------
(***************************************************************************)
(* MemoryCommentStore: the comments by identifier and the index from a     *)
(* thread to the identifiers of its comments.  Nothing removes a comment;  *)
(* SoftDelete marks it.  The body, the author and the vote counts are      *)
(* payload that no code of the store or of CommentService decides on.  The *)
(* dirty flag and the save loop are not part of this module.               *)
(***************************************************************************)
EXTENDS Handlers, Integers, Sequences

VARIABLES
    comments,   \* items: the comment stored under each identifier
    threadIdx   \* threadIdx: the comment identifiers of each thread, in order

commentVars == <<comments, threadIdx>>

Comment == [threadId : ThreadIds, isDeleted : BOOLEAN]

ASSUME CommentAssumption == Absent \notin Comment

CommentStoreInit ==
    /\ comments = [c \in CommentIds |-> Absent]
    /\ threadIdx = [t \in ThreadIds |-> <<>>]

CommentStoreCreate(id, comment) ==
    /\ comments[id] = Absent
    /\ comments' = [comments EXCEPT ![id] = comment]
    /\ threadIdx' = [threadIdx EXCEPT ![comment.threadId] = Append(@, id)]

CommentStoreUpdate(id, comment) ==
    /\ comments' = ReplacePresent(comments, id, comment)
    /\ UNCHANGED threadIdx

\* A SoftDelete that works as a switch.
SoftDelete_Toggles(id) ==
    /\ comments[id] # Absent
    /\ comments' = [comments EXCEPT ![id].isDeleted = ~@]
    /\ UNCHANGED threadIdx

\* SoftDelete marks the stored comment and leaves it in the index.
SoftDelete(id) ==
    /\ comments[id] # Absent
    /\ comments' = [comments EXCEPT ![id].isDeleted = TRUE]
    /\ UNCHANGED threadIdx

\* CountByThread counts the soft-deleted comments too.
CountByThread(thread) == Len(threadIdx[thread])

\* What List reads for a thread: the comments of the thread, each once, and
\* no identifier without a record, because List dereferences it.
CommentIndexExact ==
    /\ \A t \in ThreadIds :
          \A i \in 1..Len(threadIdx[t]) :
              /\ comments[threadIdx[t][i]] # Absent
              /\ comments[threadIdx[t][i]].threadId = t
              /\ \A k \in 1..Len(threadIdx[t]) : threadIdx[t][i] = threadIdx[t][k] => i = k
    /\ \A c \in CommentIds :
          comments[c] # Absent =>
              \E i \in 1..Len(threadIdx[comments[c].threadId]) :
                  threadIdx[comments[c].threadId][i] = c

=============================================================================

----------------------------- MODULE ThreadStore ----------------------------
(***************************************************************************)
(* MemoryThreadStore: the threads by identifier and the index from a board *)
(* to the identifiers of its threads, which List reads the threads of a    *)
(* board through.  A record keeps the board, the lock and the two counters;*)
(* title, body and the pin are payload an Update replaces exactly as it    *)
(* replaces the lock.  The dirty flag and the save loop are not part of    *)
(* this module.                                                            *)
(***************************************************************************)
EXTENDS Handlers, Integers, Sequences

VARIABLES
    threads,    \* items: the thread stored under each identifier
    boardIdx    \* boardIdx: the thread identifiers of each board, in order

threadVars == <<threads, boardIdx>>

Thread ==
    [boardId : BoardIds, isLocked : BOOLEAN, viewCount : Nat, replyCount : Nat]

ASSUME ThreadAssumption == Absent \notin Thread

ThreadStoreInit ==
    /\ threads = [t \in ThreadIds |-> Absent]
    /\ boardIdx = [b \in BoardIds |-> <<>>]

\* The slice without its i-th element: append(ids[:i], ids[i+1:]...).
WithoutIndex(ids, i) ==
    [j \in 1..(Len(ids) - 1) |-> IF j < i THEN ids[j] ELSE ids[j + 1]]

\* The slice without the first occurrence of id, if it has one.
WithoutFirst(ids, id) ==
    LET found == {i \in 1..Len(ids) : ids[i] = id}
    IN  IF found = {} THEN ids
        ELSE WithoutIndex(ids, CHOOSE i \in found : \A k \in found : i <= k)

ThreadStoreCreate(id, thread) ==
    /\ threads[id] = Absent
    /\ threads' = [threads EXCEPT ![id] = thread]
    /\ boardIdx' = [boardIdx EXCEPT ![thread.boardId] = Append(@, id)]

\* An Update that does not look whether the thread is still there.
ThreadStoreUpdate_NoCheck(id, thread) ==
    /\ threads' = [threads EXCEPT ![id] = thread]
    /\ UNCHANGED boardIdx

\* Update: a thread that is gone stays gone (ErrNotFound).
ThreadStoreUpdate(id, thread) ==
    /\ threads' = ReplacePresent(threads, id, thread)
    /\ UNCHANGED boardIdx

\* A Delete that leaves the board index alone.
ThreadStoreDelete_KeepsIndex(id) ==
    /\ threads[id] # Absent
    /\ threads' = [threads EXCEPT ![id] = Absent]
    /\ UNCHANGED boardIdx

ThreadStoreDelete(id) ==
    /\ threads[id] # Absent
    /\ boardIdx' = [boardIdx EXCEPT ![threads[id].boardId] = WithoutFirst(@, id)]
    /\ threads' = [threads EXCEPT ![id] = Absent]

\* IncrementViewCount adds to the stored record under the write lock.
IncrementViewCount(id) ==
    /\ threads' = IF threads[id] = Absent THEN threads
                  ELSE [threads EXCEPT ![id].viewCount = @ + 1]
    /\ UNCHANGED boardIdx

\* What List reads for a board: every indexed identifier must have a record,
\* because Matches dereferences it.
ThreadIndexExact ==
    /\ \A b \in BoardIds :
          \A i \in 1..Len(boardIdx[b]) :
              /\ threads[boardIdx[b][i]] # Absent
              /\ threads[boardIdx[b][i]].boardId = b
              /\ \A k \in 1..Len(boardIdx[b]) : boardIdx[b][i] = boardIdx[b][k] => i = k
    /\ \A t \in ThreadIds :
          threads[t] # Absent =>
              \E i \in 1..Len(boardIdx[threads[t].boardId]) :
                  boardIdx[threads[t].boardId][i] = t

=============================================================================

---------------------------- MODULE ThreadService ---------------------------
(***************************************************************************)
(* ThreadService over MemoryThreadStore and MemoryBoardStore.  Create      *)
(* looks at the board in one call and stores the thread in a later one;    *)
(* Update and GetByID read a clone and come back to the store with it.     *)
(***************************************************************************)
EXTENDS BoardStore, ThreadStore

\* The reads of one thread the model lets its view count grow to.
CONSTANT MaxViews

ASSUME MaxViewsAssumption == MaxViews \in Nat

\* UpdateThreadRequest.IsLocked: Unset when the payload leaves the field out.
Unset == "unset"

NewThread(board) ==
    [boardId |-> board, isLocked |-> FALSE, viewCount |-> 0, replyCount |-> 0]

\* A Create that does not look at the lock of the board.
ThreadCreateCheck_IgnoresLock(r) ==
    /\ req[r] = Idle
    /\ \E b \in BoardIds :
          /\ boards[b] # Absent
          /\ Continue(r, [op |-> "thread.create", board |-> b])
    /\ UNCHANGED <<boardVars, threadVars, issued>>

\* A Create that takes a board that is not there for one that is not locked.
ThreadCreateCheck_NoBoardCheck(r) ==
    /\ req[r] = Idle
    /\ \E b \in BoardIds :
          /\ boards[b] # Absent => ~boards[b].isLocked
          /\ Continue(r, [op |-> "thread.create", board |-> b])
    /\ UNCHANGED <<boardVars, threadVars, issued>>

\* Create, up to the check that the board exists and is not locked.
ThreadCreateCheck(r) ==
    /\ req[r] = Idle
    /\ \E b \in BoardIds :
          /\ boards[b] # Absent
          /\ ~boards[b].isLocked
          /\ Continue(r, [op |-> "thread.create", board |-> b])
    /\ UNCHANGED <<boardVars, threadVars, issued>>

\* Create, the store call; the board is not looked at again.
ThreadCreateStore(r) ==
    /\ req[r].op = "thread.create"
    /\ \E id \in ThreadIds :
          /\ NewID(id)
          /\ ThreadStoreCreate(id, NewThread(req[r].board))
    /\ Return(r)
    /\ UNCHANGED boardVars

\* GetByID, the read.
ThreadGetRead(r) ==
    /\ req[r] = Idle
    /\ \E t \in ThreadIds :
          /\ threads[t] # Absent
          /\ threads[t].viewCount < MaxViews
          /\ Continue(r, [op |-> "thread.get", id |-> t])
    /\ UNCHANGED <<boardVars, threadVars, issued>>

\* GetByID, the best-effort count of the view.
ThreadGetCount(r) ==
    /\ req[r].op = "thread.get"
    /\ IncrementViewCount(req[r].id)
    /\ Return(r)
    /\ UNCHANGED <<boardVars, issued>>

\* An Apply that takes a lock left out of the payload for false.
ApplyLock_DefaultsOpen(thread, lock) == [thread EXCEPT !.isLocked = lock = "locked"]

\* An Apply that makes a new thread of the payload.
ApplyLock_Replaces(thread, lock) ==
    [NewThread(thread.boardId) EXCEPT
        !.isLocked = IF lock = Unset THEN thread.isLocked ELSE lock = "locked",
        !.replyCount = thread.replyCount]

\* UpdateThreadRequest.Apply on a clone of the thread.
ApplyLock(thread, lock) ==
    IF lock = Unset THEN thread ELSE [thread EXCEPT !.isLocked = lock = "locked"]

\* Update, up to the validation of the clone the payload is applied to.
ThreadUpdateRead(r) ==
    /\ req[r] = Idle
    /\ \E t \in ThreadIds, lock \in {Unset, "locked", "open"} :
          /\ threads[t] # Absent
          /\ Continue(r, [op |-> "thread.update", id |-> t, lock |-> lock,
                          thread |-> ApplyLock(threads[t], lock)])
    /\ UNCHANGED <<boardVars, threadVars, issued>>

\* Update, the write of the whole clone.
ThreadUpdateWrite(r) ==
    /\ req[r].op = "thread.update"
    /\ ThreadStoreUpdate(req[r].id, req[r].thread)
    /\ Return(r)
    /\ UNCHANGED <<boardVars, issued>>

ThreadDelete(r) ==
    /\ req[r] = Idle
    /\ \E t \in ThreadIds : ThreadStoreDelete(t)
    /\ UNCHANGED <<boardVars, handlerVars>>

ThreadStep(r) ==
    \/ ThreadCreateCheck(r)
    \/ ThreadCreateStore(r)
    \/ ThreadGetRead(r)
    \/ ThreadGetCount(r)
    \/ ThreadUpdateRead(r)
    \/ ThreadUpdateWrite(r)
    \/ ThreadDelete(r)

ThreadRequest ==
    [op : {"thread.create"}, board : BoardIds]
    \cup [op : {"thread.get"}, id : ThreadIds]
    \cup [op : {"thread.update"}, id : ThreadIds,
          lock : {Unset, "locked", "open"}, thread : Thread]

=============================================================================

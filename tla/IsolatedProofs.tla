---------------------------- MODULE IsolatedProofs --------------------------
(***************************************************************************)
(* Proofs about the forum when no request changes what another one is at   *)
(* work on, for any number of requests: what the services promise of each  *)
(* operation, and that every operation is then one step of AtomicForum.    *)
(*                                                                         *)
(* The argument is that the clone a goroutine holds between two store      *)
(* calls is what the store still has, and that the only replies not        *)
(* counted yet are those of creations in flight, one for each thread.      *)
(***************************************************************************)
EXTENDS BoardProofs

\* What goroutine r checked or read is still so when it comes back to a store.
UpToDate(r) ==
    /\ req[r].op = "thread.create" =>
          boards[req[r].board] # Absent /\ ~boards[req[r].board].isLocked
    /\ req[r].op = "thread.update" =>
          /\ threads[req[r].id] # Absent
          /\ req[r].thread = ApplyLock(threads[req[r].id], req[r].lock)
    /\ req[r].op \in {"comment.checked", "comment.stored"} =>
          threads[req[r].id] # Absent /\ req[r].thread = threads[req[r].id]
    /\ req[r].op = "comment.checked" => ~threads[req[r].id].isLocked
    /\ req[r].op = "comment.update" =>
          /\ comments[req[r].id] # Absent /\ ~comments[req[r].id].isDeleted
          /\ req[r].comment = comments[req[r].id]

\* The comments of thread t that are not counted yet.
NotCounted(t) == IF Uncounted(t) THEN 1 ELSE 0

Counted ==
    \A t \in ThreadIds :
        threads[t] # Absent => CountByThread(t) = threads[t].replyCount + NotCounted(t)

\* No two creations have a comment to count on the same thread.
OneUncounted ==
    \A r, s \in Requests :
        req[r].op = "comment.stored" /\ req[s].op = "comment.stored" /\ req[r].id = req[s].id
        => r = s

IsolatedInv ==
    /\ ForumInv
    /\ \A r \in Requests : UpToDate(r)
    /\ Counted
    /\ OneUncounted

\* A step of goroutine r.
StepOf(r) ==
    \/ BoardStep(r) /\ UNCHANGED <<threadVars, commentVars>>
    \/ ThreadStep(r) /\ UNCHANGED commentVars
    \/ CommentStep(r) /\ UNCHANGED boardVars

-----------------------------------------------------------------------------
(* What the operations do to a thread.                                     *)

\* Counting a reply leaves the lock and the views.
LEMMA CountLeavesRest ==
    ASSUME NEW thread \in Thread
    PROVE  /\ IncrementReply(thread).isLocked = thread.isLocked
           /\ IncrementReply(thread).viewCount = thread.viewCount
  BY DEF Thread, IncrementReply

\* An update leaves the views, and the lock is as the payload says.
LEMMA ApplyLeavesRest ==
    ASSUME NEW thread \in Thread, NEW lock \in {Unset, "locked", "open"}
    PROVE  /\ ApplyLock(thread, lock).viewCount = thread.viewCount
           /\ ApplyLock(thread, lock).isLocked # thread.isLocked =>
                 lock = IF ApplyLock(thread, lock).isLocked THEN "locked" ELSE "open"
<1>1. CASE lock = Unset
  BY <1>1 DEF ApplyLock
<1>2. CASE lock # Unset
  <2>1. ApplyLock(thread, lock) = [thread EXCEPT !.isLocked = lock = "locked"]
    BY <1>2 DEF ApplyLock
  <2>2. (lock = "locked") \in BOOLEAN /\ thread.isLocked \in BOOLEAN
    BY DEF Thread
  <2>3. ApplyLock(thread, lock).viewCount = thread.viewCount
    BY <2>1 DEF Thread
  <2>4. ApplyLock(thread, lock).isLocked = (lock = "locked")
    BY <2>1 DEF Thread
  <2> QED
    BY <1>2, <2>2, <2>3, <2>4
<1> QED
  BY <1>1, <1>2

\* Counting a view leaves the lock, and takes no view away.
LEMMA ViewLeavesRest ==
    ASSUME threads \in [ThreadIds -> Thread \cup {Absent}],
           NEW id \in ThreadIds, IncrementViewCount(id), NEW t \in ThreadIds, threads[t] # Absent
    PROVE  /\ threads'[t].isLocked = threads[t].isLocked
           /\ threads'[t].viewCount >= threads[t].viewCount
<1>0. threads[t] \in Thread /\ threads[t].viewCount \in Nat
  BY DEF Thread
<1>1. CASE threads[id] = Absent \/ t # id
  BY <1>0, <1>1 DEF IncrementViewCount
<1>2. CASE threads[id] # Absent /\ t = id
  <2> DEFINE viewed == [threads[id] EXCEPT !.viewCount = threads[id].viewCount + 1]
  <2>1. threads' = [threads EXCEPT ![id] = viewed]
    BY <1>2 DEF IncrementViewCount
  <2>2. /\ viewed.isLocked = threads[id].isLocked
        /\ viewed.viewCount = threads[id].viewCount + 1
    BY <1>0, <1>2 DEF Thread
  <2> HIDE DEF viewed
  <2> QED
    BY <1>0, <1>2, <2>1, <2>2
<1> QED
  BY <1>1, <1>2
\* The replies on thread t that goroutine r has stored and not counted.
Owes(r, t) == IF req[r].op = "comment.stored" /\ req[r].id = t THEN 1 ELSE 0

\* What a step does to threads that stay: the lock changes as an update asks,
\* no view is lost, and a reply is counted by the creation that stored it.
ThreadsKept(r) ==
    \A t \in ThreadIds : threads[t] # Absent /\ threads'[t] # Absent =>
        /\ threads'[t].viewCount >= threads[t].viewCount
        /\ threads'[t].isLocked # threads[t].isLocked =>
              /\ req[r].op = "thread.update" /\ req[r].id = t
              /\ req[r].lock = IF threads'[t].isLocked THEN "locked" ELSE "open"
        /\ CommentCreateCount(r) =>
              threads'[t].replyCount = threads[t].replyCount + Owes(r, t)
        /\ ~CommentCreateCount(r) => threads'[t].replyCount = threads[t].replyCount

\* Every step keeps threads that way.
LEMMA StepKeepsThreads ==
    ASSUME NEW r \in Requests, ForumInv, UpToDate(r), StepOf(r), ForumTypeOK' PROVE ThreadsKept(r)
<1> USE DEF ForumInv, ForumTypeOK
<1> SUFFICES ASSUME NEW t \in ThreadIds, threads[t] # Absent, threads'[t] # Absent
             PROVE  /\ threads'[t].viewCount >= threads[t].viewCount
                    /\ threads'[t].isLocked # threads[t].isLocked =>
                          /\ req[r].op = "thread.update" /\ req[r].id = t
                          /\ req[r].lock = IF threads'[t].isLocked THEN "locked" ELSE "open"
                    /\ CommentCreateCount(r) =>
                          threads'[t].replyCount = threads[t].replyCount + Owes(r, t)
                    /\ ~CommentCreateCount(r) => threads'[t].replyCount = threads[t].replyCount
  BY DEF ThreadsKept
<1>0. /\ threads[t] \in Thread /\ threads[t].viewCount \in Nat /\ threads[t].replyCount \in Nat
      /\ req[r] \in AnyRequest
  BY DEF Thread, AnyRequest
<1>1. CASE ThreadCreateStore(r)
  <2>1. threads'[t] = threads[t]
    BY <1>1 DEF ThreadCreateStore, ThreadStoreCreate
  <2>2. ~CommentCreateCount(r)
    BY <1>1 DEF ThreadCreateStore, CommentCreateCount
  <2> QED
    BY <1>0, <2>1, <2>2
<1>2. CASE ThreadGetCount(r)
  <2>1. req[r].id \in ThreadIds /\ IncrementViewCount(req[r].id)
    BY <1>0, <1>2, RequestFields DEF ThreadGetCount
  <2>2. ~CommentCreateCount(r)
    BY <1>2 DEF ThreadGetCount, CommentCreateCount
  <2> QED
    BY <2>1, <2>2, IncrementViewThread, ViewLeavesRest
<1>3. CASE ThreadUpdateWrite(r)
  <2>1. /\ req[r].op = "thread.update" /\ req[r].id \in ThreadIds /\ req[r].thread \in Thread
        /\ threads' = ReplacePresent(threads, req[r].id, req[r].thread)
    BY <1>0, <1>3, RequestFields DEF ThreadUpdateWrite, ThreadStoreUpdate
  <2>2. req[r].lock \in {Unset, "locked", "open"}
    <3>1. req[r] \in ThreadRequest
      BY <1>0, <2>1 DEF AnyRequest, BoardRequest, CommentRequest, Idle
    <3>2. req[r] \in [op : {"thread.update"}, id : ThreadIds,
                      lock : {Unset, "locked", "open"}, thread : Thread]
      BY <2>1, <3>1 DEF ThreadRequest
    <3> QED
      BY <3>2
  <2>3. ~CommentCreateCount(r)
    BY <2>1 DEF CommentCreateCount
  <2>4. threads'[t] = IF t = req[r].id THEN req[r].thread ELSE threads[t]
    BY <2>1, ThreadWriteBack
  <2>5. t = req[r].id => req[r].thread = ApplyLock(threads[t], req[r].lock)
    BY <2>1 DEF UpToDate
  <2>6. CASE t = req[r].id
    <3> DEFINE new == ApplyLock(threads[t], req[r].lock)
    <3>1. threads'[t] = new
      BY <2>4, <2>5, <2>6
    <3>2. /\ new.replyCount = threads[t].replyCount /\ new.viewCount = threads[t].viewCount
          /\ new.isLocked # threads[t].isLocked =>
                req[r].lock = IF new.isLocked THEN "locked" ELSE "open"
      <4>1. PICK thread \in Thread : thread = threads[t]
        BY <1>0
      <4>2. PICK lock \in {Unset, "locked", "open"} : lock = req[r].lock
        BY <2>2
      <4>3. ApplyLock(thread, lock).replyCount = thread.replyCount
        BY ApplyLockThread
      <4>4. /\ ApplyLock(thread, lock).viewCount = thread.viewCount
            /\ ApplyLock(thread, lock).isLocked # thread.isLocked =>
                  lock = IF ApplyLock(thread, lock).isLocked THEN "locked" ELSE "open"
        BY ApplyLeavesRest
      <4> QED
        BY <4>1, <4>2, <4>3, <4>4
    <3> HIDE DEF new
    <3> QED
      BY <1>0, <2>1, <2>3, <2>6, <3>1, <3>2
  <2>7. CASE t # req[r].id
    BY <1>0, <2>3, <2>4, <2>7
  <2> QED
    BY <2>6, <2>7
<1>4. CASE ThreadDelete(r)
  <2>1. threads'[t] = threads[t]
    BY <1>4 DEF ThreadDelete, ThreadStoreDelete
  <2>2. ~CommentCreateCount(r)
    BY <1>4 DEF ThreadDelete, CommentCreateCount, Idle
  <2> QED
    BY <1>0, <2>1, <2>2
<1>5. CASE CommentCreateCount(r)
  <2>1. /\ req[r].op = "comment.stored" /\ req[r].id \in ThreadIds /\ req[r].thread \in Thread
        /\ threads' = ReplacePresent(threads, req[r].id, IncrementReply(req[r].thread))
    BY <1>0, <1>5, RequestFields DEF CommentCreateCount, ThreadStoreUpdate
  <2> DEFINE counted == IncrementReply(req[r].thread)
  <2>2. counted \in Thread
    BY <2>1, IncrementReplyThread
  <2>3. threads'[t] = IF t = req[r].id THEN counted ELSE threads[t]
    BY <2>1, <2>2, ThreadWriteBack
  <2>4. t = req[r].id => req[r].thread = threads[t]
    BY <2>1 DEF UpToDate
  <2>5. CASE t = req[r].id
    <3>1. /\ threads'[t].replyCount = threads[t].replyCount + 1
          /\ threads'[t].isLocked = threads[t].isLocked
          /\ threads'[t].viewCount = threads[t].viewCount
      BY <1>0, <2>3, <2>4, <2>5, IncrementReplyThread, CountLeavesRest
    <3> QED
      BY <1>0, <1>5, <2>1, <2>5, <3>1 DEF Owes
  <2>6. CASE t # req[r].id
    BY <1>0, <1>5, <2>3, <2>6 DEF Owes
  <2> QED
    BY <2>5, <2>6
<1>6. CASE UNCHANGED threadVars /\ ~CommentCreateCount(r)
  BY <1>0, <1>6 DEF threadVars
<1> QED
  BY <1>1, <1>2, <1>3, <1>4, <1>5, <1>6 DEF StepOf, ThreadStep, CommentStep, BoardStep,
     ThreadCreateCheck, ThreadGetRead, ThreadUpdateRead, CommentCreateCheck,
     CommentCreateStore, CommentUpdateRead, CommentUpdateWrite, CommentDelete,
     BoardCreate, BoardUpdateRead, BoardUpdateWrite, BoardDelete
-----------------------------------------------------------------------------
(* The invariant.                                                          *)

\* A goroutine that returns, or that is idle, holds nothing.
LEMMA IdleUpToDate ==
    ASSUME NEW r \in Requests, req'[r] = Idle PROVE UpToDate(r)' /\ (\A t : Owes(r, t)' = 0)
  BY DEF UpToDate, Owes, Idle

\* What is left alone stays up to date.
LEMMA WaitKeepsUpToDate ==
    ASSUME NEW r \in Requests, UpToDate(r), req'[r] = req[r], LeftAlone(r)
    PROVE  UpToDate(r)'
  BY DEF UpToDate, LeftAlone

\* What goroutine r reads in a step is up to date after it.
LEMMA StepKeepsUpToDate ==
    ASSUME NEW r \in Requests, ForumInv, UpToDate(r), StepOf(r), ForumTypeOK' PROVE UpToDate(r)'
<1> USE DEF ForumInv, ForumTypeOK
<1>0. \A q : req' = [req EXCEPT ![r] = q] => req'[r] = q
  OBVIOUS
<1>1. CASE req'[r] = Idle
  BY <1>1, IdleUpToDate
<1>2. CASE ThreadCreateCheck(r)
  <2>1. PICK b \in BoardIds : /\ boards[b] # Absent /\ ~boards[b].isLocked
                              /\ req'[r] = [op |-> "thread.create", board |-> b]
    BY <1>0, <1>2 DEF ThreadCreateCheck, Continue
  <2>2. boards' = boards
    BY <1>2 DEF ThreadCreateCheck, boardVars
  <2> QED
    BY <2>1, <2>2 DEF UpToDate
<1>3. CASE ThreadGetRead(r)
  <2>1. PICK t \in ThreadIds : req'[r] = [op |-> "thread.get", id |-> t]
    BY <1>0, <1>3 DEF ThreadGetRead, Continue
  <2> QED
    BY <2>1 DEF UpToDate
<1>4. CASE ThreadUpdateRead(r)
  <2>1. PICK t \in ThreadIds, lock \in {Unset, "locked", "open"} :
           /\ threads[t] # Absent
           /\ req'[r] = [op |-> "thread.update", id |-> t, lock |-> lock,
                         thread |-> ApplyLock(threads[t], lock)]
    BY <1>0, <1>4 DEF ThreadUpdateRead, Continue
  <2>2. threads' = threads
    BY <1>4 DEF ThreadUpdateRead, threadVars
  <2> QED
    BY <2>1, <2>2 DEF UpToDate, ApplyLock
<1>5. CASE CommentCreateCheck(r)
  <2>1. PICK t \in ThreadIds :
           /\ threads[t] # Absent /\ ~threads[t].isLocked
           /\ req'[r] = [op |-> "comment.checked", id |-> t, thread |-> threads[t]]
    BY <1>0, <1>5 DEF CommentCreateCheck, Continue
  <2>2. threads' = threads
    BY <1>5 DEF CommentCreateCheck, threadVars
  <2> QED
    BY <2>1, <2>2 DEF UpToDate
<1>6. CASE CommentCreateStore(r)
  <2>1. req'[r] = [op |-> "comment.stored", id |-> req[r].id, thread |-> req[r].thread]
    BY <1>0, <1>6 DEF CommentCreateStore, Continue
  <2>2. threads' = threads /\ req[r].op = "comment.checked"
    BY <1>6 DEF CommentCreateStore, threadVars
  <2> QED
    BY <2>1, <2>2 DEF UpToDate
<1>7. CASE CommentUpdateRead(r)
  <2>1. PICK c \in CommentIds :
           /\ comments[c] # Absent /\ ~comments[c].isDeleted
           /\ req'[r] = [op |-> "comment.update", id |-> c, comment |-> comments[c]]
    BY <1>0, <1>7 DEF CommentUpdateRead, Continue
  <2>2. comments' = comments
    BY <1>7 DEF CommentUpdateRead, commentVars
  <2> QED
    BY <2>1, <2>2 DEF UpToDate
<1>8. CASE BoardUpdateRead(r)
  <2>1. req'[r].op = "board.update"
    BY <1>0, <1>8 DEF BoardUpdateRead, Continue
  <2> QED
    BY <2>1 DEF UpToDate
<1>9. CASE \/ BoardCreate(r) \/ BoardUpdateWrite(r) \/ BoardDelete(r)
           \/ ThreadCreateStore(r) \/ ThreadGetCount(r) \/ ThreadUpdateWrite(r) \/ ThreadDelete(r)
           \/ CommentCreateCount(r) \/ CommentUpdateWrite(r) \/ CommentDelete(r)
  <2>1. req'[r] = Idle
    BY <1>0, <1>9 DEF BoardCreate, BoardUpdateWrite, BoardDelete, ThreadCreateStore,
       ThreadGetCount, ThreadUpdateWrite, ThreadDelete, CommentCreateCount,
       CommentUpdateWrite, CommentDelete, Return, Continue, handlerVars
  <2> QED
    BY <2>1, IdleUpToDate
<1> QED
  BY <1>2, <1>3, <1>4, <1>5, <1>6, <1>7, <1>8, <1>9
     DEF StepOf, BoardStep, ThreadStep, CommentStep
\* Only issued threads have comments.
LEMMA NewThreadHasNone ==
    ASSUME ForumInv, NEW t \in ThreadIds, t \notin issued PROVE CountByThread(t) = 0
<1>1. threadIdx[t] \in Seq(CommentIds) /\ Len(threadIdx[t]) \in Nat
  BY DEF ForumInv, ForumTypeOK
<1>2. ASSUME Len(threadIdx[t]) # 0 PROVE FALSE
  <2>1. 1 \in 1 .. Len(threadIdx[t]) /\ threadIdx[t][1] \in CommentIds
    BY <1>1, <1>2
  <2>2. comments[threadIdx[t][1]] # Absent /\ comments[threadIdx[t][1]].threadId = t
    BY <2>1 DEF ForumInv, CommentIndexExact
  <2> QED
    BY <2>1, <2>2 DEF ForumInv, ReferencesWereStored
<1> QED
  BY <1>2 DEF CountByThread

\* A goroutine makes the step, the others wait.
LEMMA OthersWait ==
    ASSUME ForumTypeOK, NEW r \in Requests, StepOf(r)
    PROVE  \A s \in Requests : s # r => req'[s] = req[s]
  BY DEF ForumTypeOK, StepOf, BoardStep, BoardCreate, BoardUpdateRead, BoardUpdateWrite,
     BoardDelete, ThreadStep, ThreadCreateCheck, ThreadCreateStore, ThreadGetRead,
     ThreadGetCount, ThreadUpdateRead, ThreadUpdateWrite, ThreadDelete, CommentStep,
     CommentCreateCheck, CommentCreateStore, CommentCreateCount, CommentUpdateRead,
     CommentUpdateWrite, CommentDelete, Continue, Return, handlerVars

\* How a step changes what a goroutine owes: storing a comment adds a reply to
\* count, counting it takes it away, and nothing else changes it.
LEMMA StepOwes ==
    ASSUME ForumTypeOK, NEW r \in Requests, StepOf(r)
    PROVE  /\ req'[r].op = "comment.stored" =>
                 /\ CommentCreateStore(r) /\ req'[r].id = req[r].id
           /\ req[r].op = "comment.stored" => CommentCreateCount(r)
<1>0. \A q : req' = [req EXCEPT ![r] = q] => req'[r] = q
  BY DEF ForumTypeOK
<1>1. CASE CommentCreateStore(r)
  BY <1>0, <1>1 DEF CommentCreateStore, Continue
<1>2. CASE ~CommentCreateStore(r)
  BY <1>0, <1>2
     DEF StepOf, BoardStep, BoardCreate, BoardUpdateRead, BoardUpdateWrite, BoardDelete,
     ThreadStep, ThreadCreateCheck, ThreadCreateStore, ThreadGetRead, ThreadGetCount,
     ThreadUpdateRead, ThreadUpdateWrite, ThreadDelete,
     CommentStep, CommentCreateCheck, CommentUpdateRead, CommentUpdateWrite,
     CommentCreateCount, CommentDelete, Idle, Return, Continue, handlerVars
<1> QED
  BY <1>1, <1>2

\* Who stores a comment on a thread disturbs no other creation that has one to
\* count on it.
LEMMA StoresAlone ==
    ASSUME ForumTypeOK, Undisturbed, NEW r \in Requests, StepOf(r), CommentCreateStore(r),
           NEW s \in Requests, s # r, req[s].op = "comment.stored"
    PROVE  req[s].id # req[r].id
<1> SUFFICES ASSUME req[s].id = req[r].id PROVE FALSE
  OBVIOUS
<1>1. PICK id \in CommentIds :
         CommentStoreCreate(id, [threadId |-> req[r].id, isDeleted |-> FALSE])
  BY DEF CommentCreateStore
<1>2. req[r].op = "comment.checked" /\ req[r].id \in ThreadIds
  BY RequestFields DEF CommentCreateStore, ForumTypeOK, AnyRequest
<1>3. threadIdx'[req[r].id] = Append(threadIdx[req[r].id], id)
  BY <1>1, <1>2 DEF CommentStoreCreate, ForumTypeOK
<1>4. threadIdx'[req[s].id] = threadIdx[req[s].id]
  BY OthersWait DEF Undisturbed, LeftAlone
<1>5. threadIdx[req[r].id] \in Seq(CommentIds)
  BY <1>2 DEF ForumTypeOK
<1> QED
  BY <1>3, <1>4, <1>5

\* So there is never more than one.
LEMMA StepKeepsOneUncounted ==
    ASSUME ForumTypeOK, OneUncounted, Undisturbed, NEW r \in Requests, StepOf(r)
    PROVE  OneUncounted'
<1> SUFFICES ASSUME NEW x \in Requests, NEW y \in Requests, x # y,
                    req'[x].op = "comment.stored", req'[y].op = "comment.stored",
                    req'[x].id = req'[y].id
             PROVE  FALSE
  BY DEF OneUncounted
<1>1. CASE x # r /\ y # r
  BY <1>1, OthersWait DEF OneUncounted
<1>2. CASE x = r
  BY <1>2, OthersWait, StepOwes, StoresAlone
<1>3. CASE y = r
  BY <1>3, OthersWait, StepOwes, StoresAlone
<1> QED
  BY <1>1, <1>2, <1>3

\* What is not counted on a thread, apart from what the goroutine that makes the
\* step owes, is as before.
LEMMA NotCountedStep ==
    ASSUME ForumTypeOK, OneUncounted, Undisturbed, NEW r \in Requests, StepOf(r),
           NEW t \in ThreadIds
    PROVE  NotCounted(t)' - Owes(r, t)' = NotCounted(t) - Owes(r, t)
<1> DEFINE Others == \E s \in Requests : s # r /\ req[s].op = "comment.stored" /\ req[s].id = t
<1>1. NotCounted(t) - Owes(r, t) = IF Others THEN 1 ELSE 0
  BY DEF NotCounted, Uncounted, Owes, OneUncounted
<1>2. OneUncounted'
  BY StepKeepsOneUncounted
<1>3. Others' <=> Others
  BY OthersWait
<1>4. NotCounted(t)' - Owes(r, t)' = IF Others' THEN 1 ELSE 0
  BY <1>2 DEF NotCounted, Uncounted, Owes, OneUncounted
<1> QED
  BY <1>1, <1>3, <1>4

\* Every step keeps the replies counted.
LEMMA StepKeepsCounted ==
    ASSUME IsolatedInv, Undisturbed, NEW r \in Requests, StepOf(r), ForumTypeOK'
    PROVE  Counted'
<1> USE DEF IsolatedInv, ForumInv, ForumTypeOK
<1>0. \A q : req' = [req EXCEPT ![r] = q] => req'[r] = q
  OBVIOUS
<1>1. ThreadsKept(r)
  BY StepKeepsThreads
<1> SUFFICES ASSUME NEW t \in ThreadIds, threads'[t] # Absent
             PROVE  CountByThread(t)' = threads'[t].replyCount + NotCounted(t)'
  BY DEF Counted
<1>2. /\ threads[t] # Absent =>
            threads[t].replyCount \in Nat
            /\ CountByThread(t) = threads[t].replyCount + NotCounted(t)
      /\ threads'[t].replyCount \in Nat
      /\ NotCounted(t)' - Owes(r, t)' = NotCounted(t) - Owes(r, t)
      /\ NotCounted(t) \in Int /\ NotCounted(t)' \in Int
      /\ Owes(r, t) \in Int /\ Owes(r, t)' \in Int
  <2>1. NotCounted(t) \in Int /\ Owes(r, t) \in Int
    BY DEF NotCounted, Owes
  <2>2. NotCounted(t)' \in Int /\ Owes(r, t)' \in Int
    BY DEF NotCounted, Owes
  <2> QED
    BY <2>1, <2>2, NotCountedStep DEF Counted, Thread
<1>3. CASE ThreadCreateStore(r)
  <2>1. PICK id \in ThreadIds : NewID(id) /\ ThreadStoreCreate(id, NewThread(req[r].board))
    BY <1>3 DEF ThreadCreateStore
  <2>2. /\ threadIdx' = threadIdx /\ req'[r] = Idle
        /\ req[r].op = "thread.create"
    BY <1>0, <1>3 DEF StepOf, ThreadCreateStore, commentVars, Return, Continue,
       CommentStep, CommentCreateCheck, CommentCreateStore, CommentCreateCount,
       CommentUpdateRead, CommentUpdateWrite, CommentDelete, Idle,
       BoardStep, threadVars, BoardCreate, BoardUpdateRead, BoardUpdateWrite, BoardDelete
  <2>3. Owes(r, t)' = 0 /\ Owes(r, t) = 0
    BY <2>2, IdleUpToDate DEF Owes
  <2>4. CASE t = id
    <3>1. CountByThread(t) = 0
      BY <2>1, <2>4, NewThreadHasNone DEF NewID
    <3>2. threads'[t].replyCount = 0
      BY <2>1, <2>4 DEF ThreadStoreCreate, NewThread
    <3>3. NotCounted(t) = 0
      BY <2>1, <2>4 DEF NewID, SnapshotsConsistent, SnapshotConsistent, NotCounted, Uncounted
    <3> QED
      BY <1>2, <2>2, <2>3, <3>1, <3>2, <3>3 DEF CountByThread
  <2>5. CASE t # id
    <3>1. threads'[t] = threads[t]
      BY <2>1, <2>5 DEF ThreadStoreCreate
    <3> QED
      BY <1>2, <2>2, <2>3, <3>1 DEF CountByThread
  <2> QED
    BY <2>4, <2>5
<1>4. CASE ~ThreadCreateStore(r)
  <2>1. threads[t] # Absent
    <3>1. CASE ThreadGetCount(r)
      <4>1. req[r].id \in ThreadIds /\ IncrementViewCount(req[r].id)
        BY <3>1, RequestFields DEF ThreadGetCount, AnyRequest
      <4> QED
        BY <4>1, IncrementViewThread
    <3>2. CASE ThreadUpdateWrite(r)
      BY <3>2 DEF ThreadUpdateWrite, ThreadStoreUpdate, ReplacePresent
    <3>3. CASE CommentCreateCount(r)
      BY <3>3 DEF CommentCreateCount, ThreadStoreUpdate, ReplacePresent
    <3>4. CASE ThreadDelete(r)
      BY <3>4 DEF ThreadDelete, ThreadStoreDelete
    <3>5. CASE UNCHANGED threadVars
      BY <3>5 DEF threadVars
    <3> QED
      BY <1>4, <3>1, <3>2, <3>3, <3>4, <3>5 DEF StepOf, ThreadStep, CommentStep,
         ThreadCreateCheck, ThreadGetRead, ThreadUpdateRead, CommentCreateCheck,
         CommentCreateStore, CommentUpdateRead, CommentUpdateWrite, CommentDelete
  <2>2. CASE CommentCreateStore(r)
    <3>1. PICK id \in CommentIds :
             CommentStoreCreate(id, [threadId |-> req[r].id, isDeleted |-> FALSE])
      BY <2>2 DEF CommentCreateStore
    <3>2. /\ req[r].op = "comment.checked" /\ req[r].id \in ThreadIds
          /\ req'[r] = [op |-> "comment.stored", id |-> req[r].id, thread |-> req[r].thread]
      BY <1>0, <2>2, RequestFields DEF CommentCreateStore, Continue, AnyRequest
    <3>3. threadIdx' = [threadIdx EXCEPT ![req[r].id] = Append(threadIdx[req[r].id], id)]
      BY <3>1 DEF CommentStoreCreate
    <3>4. threads' = threads
      BY <2>2 DEF CommentCreateStore, threadVars
    <3>5. Owes(r, t) = 0 /\ Owes(r, t)' = IF req[r].id = t THEN 1 ELSE 0
      BY <3>2 DEF Owes
    <3>6. CASE t = req[r].id
      <4>1. Len(threadIdx'[t]) = Len(threadIdx[t]) + 1
        BY <3>2, <3>3, <3>6
      <4> QED
        BY <1>2, <2>1, <3>4, <3>5, <3>6, <4>1 DEF CountByThread
    <3>7. CASE t # req[r].id
      <4>1. threadIdx'[t] = threadIdx[t]
        BY <3>3, <3>7
      <4> QED
        BY <1>2, <2>1, <3>4, <3>5, <3>7, <4>1 DEF CountByThread
    <3> QED
      BY <3>6, <3>7
  <2>3. CASE CommentCreateCount(r)
    <3>1. req'[r] = Idle /\ threadIdx' = threadIdx
      BY <1>0, <2>3 DEF CommentCreateCount, Return, Continue, commentVars
    <3>2. Owes(r, t)' = 0
      BY <3>1, IdleUpToDate
    <3>3. threads'[t].replyCount = threads[t].replyCount + Owes(r, t)
      BY <1>1, <2>1, <2>3 DEF ThreadsKept
    <3> QED
      BY <1>2, <2>1, <3>1, <3>2, <3>3 DEF CountByThread
  <2>4. CASE ~CommentCreateStore(r) /\ ~CommentCreateCount(r)
    <3>1. threads'[t].replyCount = threads[t].replyCount
      BY <1>1, <2>1, <2>4 DEF ThreadsKept
    <3>2. threadIdx' = threadIdx
      BY <2>4 DEF StepOf, CommentStep, CommentCreateCheck, CommentUpdateRead,
         CommentUpdateWrite, CommentStoreUpdate, CommentDelete, SoftDelete, commentVars
    <3>3. Owes(r, t) = 0 /\ Owes(r, t)' = 0
      BY <2>4, StepOwes DEF Owes
    <3> QED
      BY <1>2, <2>1, <3>1, <3>2, <3>3 DEF CountByThread
  <2> QED
    BY <2>2, <2>3, <2>4
<1> QED
  BY <1>3, <1>4


\* The invariant is inductive for requests that leave each other alone.
LEMMA IsolatedInvInit == ForumInit => IsolatedInv
<1> SUFFICES ASSUME ForumInit PROVE IsolatedInv
  OBVIOUS
<1>1. (\A r \in Requests : req[r] = Idle) /\ \A t \in ThreadIds : threads[t] = Absent
  BY DEF ForumInit, HandlersInit, ThreadStoreInit
<1>2. (\A r \in Requests : UpToDate(r)) /\ Counted /\ OneUncounted
  BY <1>1 DEF UpToDate, Counted, OneUncounted, Idle
<1> QED
  BY <1>2, ForumInvInit DEF IsolatedInv

LEMMA IsolatedInvNext == IsolatedInv /\ [IsolatedNext]_forumVars => IsolatedInv'
<1> SUFFICES ASSUME IsolatedInv, [IsolatedNext]_forumVars PROVE IsolatedInv'
  OBVIOUS
<1>1. ForumInv'
  BY ForumInvNext DEF IsolatedInv, IsolatedNext
<1>2. CASE IsolatedNext
  <2>1. PICK r \in Requests : StepOf(r)
    BY <1>2 DEF IsolatedNext, ForumNext, StepOf
  <2>2. ForumTypeOK /\ ForumTypeOK' /\ Undisturbed
    BY <1>1, <1>2 DEF IsolatedInv, ForumInv, IsolatedNext
  <2>3. ASSUME NEW s \in Requests PROVE UpToDate(s)'
    <3>1. CASE s = r
      BY <2>1, <2>2, <3>1, StepKeepsUpToDate DEF IsolatedInv
    <3>2. CASE s # r
      BY <2>1, <2>2, <3>2, OthersWait, WaitKeepsUpToDate DEF IsolatedInv, Undisturbed
    <3> QED
      BY <3>1, <3>2
  <2>4. Counted'
    BY <2>1, <2>2, StepKeepsCounted
  <2>5. OneUncounted'
    BY <2>1, <2>2, StepKeepsOneUncounted DEF IsolatedInv
  <2> QED
    BY <1>1, <2>3, <2>4, <2>5 DEF IsolatedInv
<1>3. CASE UNCHANGED forumVars
  BY <1>1, <1>3 DEF forumVars, boardVars, threadVars, commentVars, handlerVars, IsolatedInv,
     UpToDate, Counted, CountByThread, NotCounted, Uncounted, OneUncounted
<1> QED
  BY <1>2, <1>3

LEMMA IsolatedInvariant == IsolatedSpec => []IsolatedInv
  BY IsolatedInvInit, IsolatedInvNext, PTL DEF IsolatedSpec

\* A step is one of some goroutine, and keeps threads as it should.
LEMMA IsolatedStep ==
    ASSUME IsolatedInv, IsolatedNext
    PROVE  \E r \in Requests : StepOf(r) /\ UpToDate(r) /\ ForumTypeOK /\ ThreadsKept(r)
<1>1. PICK r \in Requests : StepOf(r)
  BY DEF IsolatedNext, ForumNext, StepOf
<1>2. ForumInv /\ UpToDate(r) /\ ForumTypeOK
  BY DEF IsolatedInv, ForumInv
<1>3. ForumTypeOK'
  BY <1>2, ForumNextType DEF IsolatedNext
<1> QED
  BY <1>1, <1>2, <1>3, StepKeepsThreads

-----------------------------------------------------------------------------
(* The promises.                                                           *)

\* Without a creation in flight a thread claims as many replies as it has.
THEOREM RepliesExact == IsolatedSpec => []ReplyCountExact
<1>1. IsolatedInv => ReplyCountExact
  <2> SUFFICES ASSUME IsolatedInv, \A r \in Requests : req[r].op # "comment.stored",
                      NEW t \in ThreadIds, threads[t] # Absent
               PROVE  threads[t].replyCount = CountByThread(t)
    BY DEF ReplyCountExact
  <2>1. threads[t].replyCount \in Nat
    BY DEF IsolatedInv, ForumInv, ForumTypeOK, Thread
  <2>2. NotCounted(t) = 0
    BY DEF NotCounted, Uncounted
  <2> QED
    BY <2>1, <2>2 DEF IsolatedInv, Counted
<1> QED
  BY <1>1, IsolatedInvariant, PTL

\* The lock of a stored thread changes as an update of it asks, and only then.
THEOREM LocksSound == IsolatedSpec => LockChangesOnlyOnRequest
<1>1. ASSUME IsolatedInv, IsolatedNext
      PROVE  \A t \in ThreadIds :
                /\ threads[t] # Absent /\ threads'[t] # Absent
                /\ threads'[t].isLocked # threads[t].isLocked
                => \E r \in Requests :
                      /\ req[r].op = "thread.update" /\ req[r].id = t
                      /\ req[r].lock = IF threads'[t].isLocked THEN "locked" ELSE "open"
  BY <1>1, IsolatedStep DEF ThreadsKept
<1> QED
  BY <1>1, IsolatedInvariant, PTL DEF IsolatedSpec, LockChangesOnlyOnRequest

\* No operation takes a counted view away.
THEOREM ViewsSound == IsolatedSpec => ViewCountNeverFalls
<1>1. ASSUME IsolatedInv, IsolatedNext
      PROVE  \A t \in ThreadIds :
                threads[t] # Absent /\ threads'[t] # Absent
                => threads'[t].viewCount >= threads[t].viewCount
  BY <1>1, IsolatedStep DEF ThreadsKept
<1> QED
  BY <1>1, IsolatedInvariant, PTL DEF IsolatedSpec, ViewCountNeverFalls

\* A deleted comment is never written back as one that is not.
THEOREM DeletionsSound == IsolatedSpec => DeletedCommentStaysDeleted
<1>1. ASSUME IsolatedInv, IsolatedNext, NEW c \in CommentIds,
             comments[c] # Absent, comments[c].isDeleted
      PROVE  comments'[c] # Absent /\ comments'[c].isDeleted
  <2>1. PICK r \in Requests : StepOf(r) /\ UpToDate(r) /\ ForumTypeOK
    BY <1>1, IsolatedStep
  <2>2. CASE CommentUpdateWrite(r)
    <3>1. /\ req[r].op = "comment.update"
          /\ comments' = ReplacePresent(comments, req[r].id, req[r].comment)
      BY <2>2 DEF CommentUpdateWrite, CommentStoreUpdate
    <3>2. req[r].id \in CommentIds /\ ~comments[req[r].id].isDeleted
      BY <1>1, <2>1, <3>1, RequestFields DEF UpToDate, ForumTypeOK, AnyRequest
    <3> QED
      BY <1>1, <2>1, <3>1, <3>2 DEF ReplacePresent, ForumTypeOK
  <2>3. CASE CommentDelete(r)
    <3>1. PICK d \in CommentIds : SoftDelete(d)
      BY <2>3 DEF CommentDelete
    <3>2. comments'[c] # Absent
      BY <1>1, <2>1, <3>1, SoftDeleteComment DEF ForumTypeOK
    <3>3. comments[c] \in Comment
      BY <1>1, <2>1 DEF ForumTypeOK
    <3>4. comments'[c].isDeleted
      BY <1>1, <2>1, <3>1, <3>3 DEF SoftDelete, ForumTypeOK, Comment
    <3> QED
      BY <3>2, <3>4
  <2>4. CASE CommentCreateStore(r)
    BY <1>1, <2>1, <2>4 DEF CommentCreateStore, CommentStoreCreate, ForumTypeOK
  <2>5. CASE UNCHANGED comments
    BY <1>1, <2>5
  <2> QED
    BY <2>1, <2>2, <2>3, <2>4, <2>5 DEF StepOf, CommentStep, CommentCreateCheck,
       CommentCreateCount, CommentUpdateRead, commentVars
<1>2. ASSUME IsolatedInv, IsolatedNext
      PROVE  \A c \in CommentIds :
                comments[c] # Absent /\ comments[c].isDeleted
                => comments'[c] # Absent /\ comments'[c].isDeleted
  BY <1>1, <1>2
<1> QED
  BY <1>2, IsolatedInvariant, PTL DEF IsolatedSpec, DeletedCommentStaysDeleted

\* A thread is stored only in a board that is there and open.
THEOREM OpenBoardsSound == IsolatedSpec => ThreadsOnlyInOpenBoards
<1>1. ASSUME IsolatedInv, IsolatedNext, NEW t \in ThreadIds, threads[t] = Absent, threads'[t] # Absent
      PROVE  boards[threads'[t].boardId] # Absent /\ ~boards[threads'[t].boardId].isLocked
  <2>1. PICK r \in Requests : StepOf(r) /\ UpToDate(r) /\ ForumTypeOK
    BY <1>1, IsolatedStep
  <2>2. ThreadCreateStore(r)
    <3>1. CASE ThreadGetCount(r)
      <4>1. req[r].id \in ThreadIds /\ IncrementViewCount(req[r].id)
        BY <2>1, <3>1, RequestFields DEF ThreadGetCount, AnyRequest, ForumTypeOK
      <4> QED
        BY <1>1, <2>1, <4>1, IncrementViewThread DEF ForumTypeOK
    <3>2. CASE ThreadUpdateWrite(r)
      BY <1>1, <2>1, <3>2 DEF ThreadUpdateWrite, ThreadStoreUpdate, ReplacePresent, ForumTypeOK
    <3>3. CASE CommentCreateCount(r)
      BY <1>1, <2>1, <3>3 DEF CommentCreateCount, ThreadStoreUpdate, ReplacePresent, ForumTypeOK
    <3>4. CASE ThreadDelete(r)
      BY <1>1, <2>1, <3>4 DEF ThreadDelete, ThreadStoreDelete, ForumTypeOK
    <3>5. CASE UNCHANGED threadVars
      BY <1>1, <3>5 DEF threadVars
    <3> QED
      BY <2>1, <3>1, <3>2, <3>3, <3>4, <3>5 DEF StepOf, ThreadStep, CommentStep,
         ThreadCreateCheck, ThreadGetRead, ThreadUpdateRead, CommentCreateCheck,
         CommentCreateStore, CommentUpdateRead, CommentUpdateWrite, CommentDelete
  <2>3. PICK id \in ThreadIds : ThreadStoreCreate(id, NewThread(req[r].board))
    BY <2>2 DEF ThreadCreateStore
  <2>4. t = id /\ threads'[t] = NewThread(req[r].board)
    BY <1>1, <2>1, <2>3 DEF ThreadStoreCreate, ForumTypeOK
  <2>5. threads'[t].boardId = req[r].board
    BY <2>4 DEF NewThread
  <2> QED
    BY <2>1, <2>2, <2>5 DEF ThreadCreateStore, UpToDate
<1>2. ASSUME IsolatedInv, IsolatedNext
      PROVE  \A t \in ThreadIds :
                threads[t] = Absent /\ threads'[t] # Absent
                => LET b == threads'[t].boardId
                   IN  boards[b] # Absent /\ ~boards[b].isLocked
  BY <1>1, <1>2
<1> QED
  BY <1>2, IsolatedInvariant, PTL DEF IsolatedSpec, ThreadsOnlyInOpenBoards

\* A comment is stored only in a thread that is there and open.
THEOREM OpenThreadsSound == IsolatedSpec => CommentsOnlyInOpenThreads
<1>1. ASSUME IsolatedInv, IsolatedNext, NEW c \in CommentIds,
             comments[c] = Absent, comments'[c] # Absent
      PROVE  threads[comments'[c].threadId] # Absent /\ ~threads[comments'[c].threadId].isLocked
  <2>1. PICK r \in Requests : StepOf(r) /\ UpToDate(r) /\ ForumTypeOK
    BY <1>1, IsolatedStep
  <2>2. CommentCreateStore(r)
    <3>1. CASE CommentUpdateWrite(r)
      BY <1>1, <2>1, <3>1 DEF CommentUpdateWrite, CommentStoreUpdate, ReplacePresent, ForumTypeOK
    <3>2. CASE CommentDelete(r)
      BY <1>1, <2>1, <3>2 DEF CommentDelete, SoftDelete, ForumTypeOK
    <3>3. CASE UNCHANGED comments
      BY <1>1, <3>3
    <3> QED
      BY <2>1, <3>1, <3>2, <3>3 DEF StepOf, CommentStep, CommentCreateCheck,
         CommentCreateCount, CommentUpdateRead, commentVars
  <2>3. PICK id \in CommentIds :
           CommentStoreCreate(id, [threadId |-> req[r].id, isDeleted |-> FALSE])
    BY <2>2 DEF CommentCreateStore
  <2>4. comments'[c] = [threadId |-> req[r].id, isDeleted |-> FALSE]
    BY <1>1, <2>1, <2>3 DEF CommentStoreCreate, ForumTypeOK
  <2> QED
    BY <2>1, <2>2, <2>4 DEF CommentCreateStore, UpToDate
<1>2. ASSUME IsolatedInv, IsolatedNext
      PROVE  \A c \in CommentIds :
                comments[c] = Absent /\ comments'[c] # Absent
                => LET t == comments'[c].threadId
                   IN  threads[t] # Absent /\ ~threads[t].isLocked
  BY <1>1, <1>2
<1> QED
  BY <1>2, IsolatedInvariant, PTL DEF IsolatedSpec, CommentsOnlyInOpenThreads

\* Nothing is posted where it is closed.
THEOREM PostingsSound == IsolatedSpec => PostedOnlyWhereOpen
  BY OpenBoardsSound, OpenThreadsSound DEF PostedOnlyWhereOpen

\* With updates that take slugs they found free, the slugs are kept too.
LEMMA IsolatedSlugInv ==
    ASSUME Renames # "any"
    PROVE  IsolatedSpec => [](SlugInv /\ IsolatedInv)
<1>1. SlugInv /\ IsolatedInv /\ [IsolatedNext]_forumVars => SlugInv'
  <2> SUFFICES ASSUME SlugInv, IsolatedInv, IsolatedNext PROVE SlugInv'
    BY DEF forumVars, boardVars, handlerVars, SlugInv, SlugHeld, SlugTaken, SlugIndexExact
  <2> QED
    BY InvIndexes, RenamesAssumption, SlugInvNext DEF IsolatedInv, SlugsApart, IsolatedNext
<1> QED
  BY <1>1, SlugInvInit, IsolatedInvariant, PTL DEF IsolatedSpec

\* The slug index is the inverse of the boards' slugs, when updates take slugs
\* they found free.
THEOREM IsolatedSlugsExact ==
    ASSUME Renames # "any"
    PROVE  IsolatedSpec => []SlugIndexExact
<1>1. SlugInv => SlugIndexExact
  BY DEF SlugInv
<1> QED
  BY <1>1, IsolatedSlugInv, PTL

-----------------------------------------------------------------------------
(* One request at a time.                                                  *)

\* There is one request at a time.
OneRequest == \E r \in Requests : Requests = {r}

\* A goroutine that makes a step is idle, or goes on to another place.
LEMMA StepGoesOn ==
    ASSUME ForumTypeOK, NEW r \in Requests, StepOf(r)
    PROVE  req[r] = Idle \/ req'[r].op # req[r].op
<1>0. \A q : req' = [req EXCEPT ![r] = q] => req'[r] = q
  BY DEF ForumTypeOK
<1> QED
  BY <1>0 DEF StepOf, BoardStep, BoardCreate, BoardUpdateRead, BoardUpdateWrite, BoardDelete,
     ThreadStep, ThreadCreateCheck, ThreadCreateStore, ThreadGetRead, ThreadGetCount,
     ThreadUpdateRead, ThreadUpdateWrite, ThreadDelete,
     CommentStep, CommentCreateCheck, CommentCreateStore, CommentUpdateRead,
     CommentUpdateWrite, CommentCreateCount, CommentDelete, Idle, Return, Continue

LEMMA OneRequestUndisturbed ==
    ASSUME OneRequest, ForumTypeOK, ForumNext PROVE Undisturbed
<1>1. PICK r \in Requests : StepOf(r)
  BY DEF ForumNext, StepOf
<1>2. Requests = {r}
  BY DEF OneRequest
<1>3. req'[r] = req[r] => LeftAlone(r)
  BY <1>1, StepGoesOn DEF LeftAlone, Idle
<1> QED
  BY <1>2, <1>3 DEF Undisturbed

\* With one request at a time nobody is there to interfere.
THEOREM OneRequestIsolated ==
    ASSUME OneRequest PROVE ForumSpec => IsolatedSpec
<1>1. ForumTypeOK /\ [ForumNext]_forumVars => [IsolatedNext]_forumVars
  BY OneRequestUndisturbed DEF IsolatedNext
<1> QED
  BY <1>1, ForumTypeCorrect, PTL DEF ForumSpec, IsolatedSpec

-----------------------------------------------------------------------------
(* Every operation is one step of AtomicForum.                             *)

AtomicStep == Atomically!AtomicNext \/ UNCHANGED Atomically!atomicVars

\* Only a creation of a comment changes what is not counted.
LEMMA UncountedKept ==
    ASSUME ForumTypeOK, NEW r \in Requests, StepOf(r),
           ~CommentCreateStore(r), ~CommentCreateCount(r)
    PROVE  \A t \in ThreadIds : Uncounted(t)' <=> Uncounted(t)
  BY OthersWait, StepOwes DEF Uncounted

\* The threads an observer sees.
LEMMA CountedType ==
    ASSUME ForumTypeOK
    PROVE  /\ CountedThreads \in [ThreadIds -> Thread \cup {Absent}]
           /\ \A t \in ThreadIds : CountedThreads[t] = Absent <=> threads[t] = Absent
<1>1. ASSUME NEW t \in ThreadIds, threads[t] # Absent
      PROVE  IncrementReply(threads[t]) \in Thread
  BY <1>1, IncrementReplyThread DEF ForumTypeOK
<1> QED
  BY <1>1, ThreadAssumption DEF CountedThreads, ForumTypeOK

\* A thread that no creation is about to count is what the store has.
LEMMA CountedIsStored ==
    ASSUME NEW t \in ThreadIds, ~Uncounted(t) PROVE CountedThreads[t] = threads[t]
  BY DEF CountedThreads

\* A step that leaves the threads and what is not counted leaves what is seen.
LEMMA CountedKept ==
    ASSUME threads' = threads, \A t \in ThreadIds : Uncounted(t)' <=> Uncounted(t)
    PROVE  CountedThreads' = CountedThreads
  BY DEF CountedThreads

LEMMA BoardStepAtomic ==
    ASSUME SlugInv, IsolatedInv, NEW r \in Requests,
           BoardStep(r), UNCHANGED <<threadVars, commentVars>>
    PROVE  AtomicStep
<1>0. ForumTypeOK /\ StepOf(r) /\ req[r] \in AnyRequest
  BY DEF IsolatedInv, ForumInv, ForumTypeOK, StepOf, AnyRequest
<1>1. ~CommentCreateStore(r) /\ ~CommentCreateCount(r)
  BY DEF BoardStep, BoardCreate, BoardUpdateRead, BoardUpdateWrite, BoardDelete,
     CommentCreateStore, CommentCreateCount, Idle
<1>2. CountedThreads' = CountedThreads /\ comments' = comments
  BY <1>0, <1>1, UncountedKept, CountedKept DEF threadVars, commentVars
<1>3. CASE BoardCreate(r)
  <2>1. PICK id \in BoardIds, slug \in Slugs \cup {NoSlug} :
          /\ NewID(id)
          /\ BoardStoreCreate(id, [slug |-> slug, isLocked |-> FALSE])
    BY <1>3 DEF BoardCreate
  <2>2. slug \in Slugs => ~Atomically!Taken(slug)
    BY <2>1, HandlersAssumption DEF BoardStoreCreate, SlugInv, SlugIndexExact, Atomically!Taken
  <2>3. Atomically!CreateBoard(id, slug)
    BY <1>2, <2>1, <2>2
       DEF NewID, BoardStoreCreate, Atomically!CreateBoard, Atomically!NewRecord
  <2> QED
    BY <2>3 DEF AtomicStep, Atomically!AtomicNext
<1>4. CASE BoardUpdateRead(r)
  BY <1>2, <1>4 DEF BoardUpdateRead, boardVars, AtomicStep, Atomically!atomicVars
<1>5. CASE BoardUpdateWrite(r)
  <2>1. PICK id \in BoardIds, board \in Board :
          /\ req[r].op = "board.update" /\ id = req[r].id /\ board = req[r].board
          /\ boards' = ReplacePresent(boards, id, board)
          /\ issued' = issued
    BY <1>0, <1>5, RequestFields DEF BoardUpdateWrite, BoardStoreUpdate
  <2>2. CASE boards[id] = Absent
    BY <1>2, <2>1, <2>2 DEF ReplacePresent, AtomicStep, Atomically!atomicVars
  <2>3. CASE boards[id] # Absent
    <3>1. /\ board.slug \in Slugs \cup {NoSlug} /\ board.isLocked \in BOOLEAN
          /\ board = [slug |-> board.slug, isLocked |-> board.isLocked]
      BY DEF Board
    <3>2. board.slug # boards[id].slug =>
             board.slug \in Slugs /\ ~Atomically!Taken(board.slug)
      BY <2>1, <2>3 DEF SlugInv, SlugHeld, SlugTaken, Atomically!Taken
    <3>3. Atomically!UpdateBoard(id, board.slug, board.isLocked)
      BY <1>2, <2>1, <2>3, <3>1, <3>2 DEF ReplacePresent, Atomically!UpdateBoard
    <3> QED
      BY <3>1, <3>3 DEF AtomicStep, Atomically!AtomicNext
  <2> QED
    BY <2>2, <2>3
<1>6. CASE BoardDelete(r)
  <2>1. PICK id \in BoardIds : Atomically!DeleteBoard(id)
    BY <1>2, <1>6 DEF BoardDelete, BoardStoreDelete, handlerVars, Atomically!DeleteBoard
  <2> QED
    BY <2>1 DEF AtomicStep, Atomically!AtomicNext
<1> QED
  BY <1>3, <1>4, <1>5, <1>6 DEF BoardStep

\* What a creation has still to count keeps its thread as it is.
LEMMA UncountedLeftAlone ==
    ASSUME ForumTypeOK, Undisturbed, NEW r \in Requests, StepOf(r), req[r].op # "comment.stored",
           NEW t \in ThreadIds, Uncounted(t)
    PROVE  threads'[t] = threads[t]
  BY OthersWait DEF Uncounted, Undisturbed, LeftAlone

LEMMA ThreadStepAtomic ==
    ASSUME IsolatedInv, Undisturbed, NEW r \in Requests,
           ThreadStep(r), UNCHANGED commentVars
    PROVE  AtomicStep
<1>0. /\ ForumTypeOK /\ StepOf(r) /\ req[r] \in AnyRequest /\ UpToDate(r)
      /\ threads \in [ThreadIds -> Thread \cup {Absent}]
  BY DEF IsolatedInv, ForumInv, ForumTypeOK, StepOf, AnyRequest
<1>1. /\ ~CommentCreateStore(r) /\ ~CommentCreateCount(r) /\ req[r].op # "comment.stored"
      /\ boards' = boards /\ comments' = comments
  BY DEF ThreadStep, ThreadCreateCheck, ThreadCreateStore, ThreadGetRead, ThreadGetCount,
     ThreadUpdateRead, ThreadUpdateWrite, ThreadDelete, CommentCreateStore, CommentCreateCount,
     Idle, boardVars, commentVars
<1>2. \A t \in ThreadIds : Uncounted(t)' <=> Uncounted(t)
  BY <1>0, <1>1, UncountedKept
<1>3. ASSUME threads' = threads, issued' = issued PROVE AtomicStep
  BY <1>1, <1>2, <1>3, CountedKept DEF AtomicStep, Atomically!atomicVars
<1>4. CASE ThreadCreateCheck(r) \/ ThreadGetRead(r) \/ ThreadUpdateRead(r)
  BY <1>3, <1>4 DEF ThreadCreateCheck, ThreadGetRead, ThreadUpdateRead, threadVars
<1>5. CASE ThreadCreateStore(r)
  <2>1. PICK id \in ThreadIds, b \in BoardIds :
          /\ b = req[r].board /\ req[r].op = "thread.create"
          /\ NewID(id) /\ ThreadStoreCreate(id, NewThread(b))
    BY <1>0, <1>5, RequestFields DEF ThreadCreateStore
  <2>2. ~Uncounted(id)
    BY <2>1 DEF NewID, Uncounted, IsolatedInv, ForumInv, SnapshotsConsistent, SnapshotConsistent
  <2>3. CountedThreads' = [CountedThreads EXCEPT ![id] = NewThread(b)]
    BY <1>0, <1>2, <2>1, <2>2 DEF CountedThreads, ThreadStoreCreate
  <2>4. Atomically!CreateThread(id, b)
    BY <1>0, <1>1, <2>1, <2>3
       DEF UpToDate, NewID, NewThread, Atomically!CreateThread, Atomically!NewRecord
  <2> QED
    BY <2>4 DEF AtomicStep, Atomically!AtomicNext
<1>6. CASE ThreadGetCount(r)
  <2>1. PICK id \in ThreadIds : IncrementViewCount(id) /\ issued' = issued
    BY <1>0, <1>6, RequestFields DEF ThreadGetCount
  <2>2. CASE threads[id] = Absent
    BY <1>3, <2>1, <2>2 DEF IncrementViewCount
  <2>3. CASE threads[id] # Absent
    <3>1. PICK n \in Nat : n = threads[id].viewCount
      BY <1>0, <2>3 DEF Thread
    <3>2. threads' = [threads EXCEPT ![id] = [threads[id] EXCEPT !.viewCount = n + 1]]
      BY <2>1, <2>3, <3>1 DEF IncrementViewCount
    <3>3. threads'[id] # threads[id]
      <4>1. threads'[id].viewCount = n + 1
        BY <1>0, <2>3, <3>2 DEF Thread
      <4> QED
        BY <3>1, <4>1
    <3>4. ~Uncounted(id)
      BY <1>0, <1>1, <3>3, UncountedLeftAlone
    <3>5. CountedThreads' = [CountedThreads EXCEPT ![id].viewCount = @ + 1]
      BY <1>0, <1>2, <3>1, <3>2, <3>4 DEF CountedThreads
    <3>6. Atomically!ViewThread(id)
      BY <1>0, <1>1, <2>1, <2>3, <3>5, CountedType DEF Atomically!ViewThread
    <3> QED
      BY <3>6 DEF AtomicStep, Atomically!AtomicNext
  <2> QED
    BY <2>2, <2>3
<1>7. CASE ThreadUpdateWrite(r)
  <2>1. PICK id \in ThreadIds :
          /\ id = req[r].id /\ threads[id] # Absent
          /\ req[r].thread = ApplyLock(threads[id], req[r].lock)
          /\ threads' = [threads EXCEPT ![id] = ApplyLock(threads[id], req[r].lock)]
          /\ issued' = issued
    BY <1>0, <1>7, RequestFields
       DEF ThreadUpdateWrite, ThreadStoreUpdate, ReplacePresent, UpToDate
  <2>2. CASE req[r].lock = Unset \/ Uncounted(id)
    <3>1. threads'[id] = threads[id]
      BY <1>0, <1>1, <2>1, <2>2, UncountedLeftAlone DEF ApplyLock
    <3>2. threads' = threads
      BY <1>0, <2>1, <3>1
    <3> QED
      BY <1>3, <2>1, <3>2
  <2>3. CASE req[r].lock # Unset /\ ~Uncounted(id)
    <3>1. PICK locked \in BOOLEAN : locked = (req[r].lock = "locked")
      OBVIOUS
    <3>2. threads' = [threads EXCEPT ![id] = [threads[id] EXCEPT !.isLocked = locked]]
      BY <2>1, <2>3, <3>1 DEF ApplyLock
    <3>3. CountedThreads' = [CountedThreads EXCEPT ![id].isLocked = locked]
      BY <1>0, <1>2, <2>1, <2>3, <3>2 DEF CountedThreads
    <3>4. Atomically!UpdateThread(id, locked)
      BY <1>0, <1>1, <2>1, <3>3, CountedType DEF Atomically!UpdateThread
    <3> QED
      BY <3>4 DEF AtomicStep, Atomically!AtomicNext
  <2> QED
    BY <2>2, <2>3
<1>8. CASE ThreadDelete(r)
  <2>1. PICK id \in ThreadIds :
          /\ threads[id] # Absent /\ threads' = [threads EXCEPT ![id] = Absent]
          /\ issued' = issued
    BY <1>8 DEF ThreadDelete, ThreadStoreDelete, handlerVars
  <2>2. CountedThreads' = [CountedThreads EXCEPT ![id] = Absent]
    BY <1>0, <1>2, <2>1 DEF CountedThreads
  <2>3. Atomically!DeleteThread(id)
    BY <1>0, <1>1, <2>1, <2>2, CountedType DEF Atomically!DeleteThread
  <2> QED
    BY <2>3 DEF AtomicStep, Atomically!AtomicNext
<1> QED
  BY <1>4, <1>5, <1>6, <1>7, <1>8 DEF ThreadStep

LEMMA CommentStepAtomic ==
    ASSUME IsolatedInv, Undisturbed, NEW r \in Requests,
           CommentStep(r), UNCHANGED boardVars
    PROVE  AtomicStep
<1>0. /\ ForumTypeOK /\ StepOf(r) /\ req[r] \in AnyRequest /\ UpToDate(r)
      /\ threads \in [ThreadIds -> Thread \cup {Absent}]
      /\ comments \in [CommentIds -> Comment \cup {Absent}]
      /\ boards' = boards
  BY DEF IsolatedInv, ForumInv, ForumTypeOK, StepOf, AnyRequest, boardVars
<1>1. ASSUME ~CommentCreateStore(r), ~CommentCreateCount(r), threads' = threads
      PROVE  CountedThreads' = CountedThreads
  BY <1>0, <1>1, UncountedKept, CountedKept
<1>2. CASE CommentCreateCheck(r) \/ CommentUpdateRead(r)
  <2>1. ~CommentCreateStore(r) /\ ~CommentCreateCount(r)
    BY <1>2 DEF CommentCreateCheck, CommentUpdateRead, CommentCreateStore, CommentCreateCount,
       Idle
  <2> QED
    BY <1>0, <1>1, <1>2, <2>1
       DEF CommentCreateCheck, CommentUpdateRead, threadVars, commentVars,
       AtomicStep, Atomically!atomicVars
<1>3. CASE CommentCreateStore(r)
  <2>1. PICK id \in ThreadIds, c \in CommentIds :
          /\ id = req[r].id /\ req[r].op = "comment.checked"
          /\ NewID(c) /\ CommentStoreCreate(c, [threadId |-> id, isDeleted |-> FALSE])
          /\ threads' = threads
          /\ req' = [req EXCEPT ![r] = [op |-> "comment.stored", id |-> id,
                                        thread |-> req[r].thread]]
    BY <1>0, <1>3, RequestFields DEF CommentCreateStore, threadVars, Continue
  <2>2. threads[id] # Absent /\ ~threads[id].isLocked
    BY <1>0, <2>1 DEF UpToDate
  <2>3. ~Uncounted(id)
    BY <1>0, <1>3, <2>1, StoresAlone DEF Uncounted
  <2>4. req'[r] = [op |-> "comment.stored", id |-> id, thread |-> req[r].thread]
    BY <1>0, <2>1 DEF ForumTypeOK
  <2>5. Uncounted(id)'
    BY <2>4 DEF Uncounted
  <2>6. \A t \in ThreadIds : t # id => (Uncounted(t)' <=> Uncounted(t))
    BY <1>0, <2>1, <2>4, OthersWait DEF Uncounted
  <2>7. CountedThreads' = [CountedThreads EXCEPT ![id] = IncrementReply(threads[id])]
    BY <2>1, <2>2, <2>3, <2>5, <2>6 DEF CountedThreads
  <2>8. CountedThreads[id] = threads[id]
    BY <2>3, CountedIsStored
  <2>9. Atomically!CreateComment(c, id)
    BY <1>0, <2>1, <2>2, <2>7, <2>8
       DEF IncrementReply, NewID, CommentStoreCreate,
       Atomically!CreateComment, Atomically!NewRecord
  <2> QED
    BY <2>9 DEF AtomicStep, Atomically!AtomicNext
<1>4. CASE CommentCreateCount(r)
  <2>1. PICK id \in ThreadIds :
          /\ id = req[r].id /\ req[r].op = "comment.stored" /\ threads[id] # Absent
          /\ threads' = [threads EXCEPT ![id] = IncrementReply(threads[id])]
          /\ comments' = comments /\ issued' = issued
          /\ req'[r] = Idle
    BY <1>0, <1>4, RequestFields
       DEF CommentCreateCount, ThreadStoreUpdate, ReplacePresent, UpToDate, commentVars,
       Return, Continue, ForumTypeOK
  <2>2. Uncounted(id)
    BY <2>1 DEF Uncounted
  <2>3. ~Uncounted(id)'
    BY <1>0, <2>1, OthersWait DEF Uncounted, IsolatedInv, OneUncounted, Idle
  <2>4. \A t \in ThreadIds : t # id => (Uncounted(t)' <=> Uncounted(t))
    BY <1>0, <2>1, OthersWait DEF Uncounted, Idle
  <2>5. IncrementReply(threads[id]) # Absent
    BY <1>0, <2>1, IncrementReplyThread, ThreadAssumption
  <2>6. CountedThreads' = CountedThreads
    BY <1>0, <2>1, <2>2, <2>3, <2>4, <2>5 DEF CountedThreads
  <2> QED
    BY <1>0, <2>1, <2>6 DEF AtomicStep, Atomically!atomicVars
<1>5. CASE CommentUpdateWrite(r)
  <2>1. comments' = comments
    <3>1. PICK c \in CommentIds :
            comments' = ReplacePresent(comments, c, req[r].comment) /\ req[r].comment = comments[c]
      BY <1>0, <1>5, RequestFields DEF CommentUpdateWrite, CommentStoreUpdate, UpToDate
    <3> QED
      BY <1>0, <3>1 DEF ReplacePresent
  <2>2. ~CommentCreateStore(r) /\ ~CommentCreateCount(r)
    BY <1>5 DEF CommentUpdateWrite, CommentCreateStore, CommentCreateCount
  <2> QED
    BY <1>0, <1>1, <1>5, <2>1, <2>2
       DEF CommentUpdateWrite, threadVars, AtomicStep, Atomically!atomicVars
<1>6. CASE CommentDelete(r)
  <2>1. ~CommentCreateStore(r) /\ ~CommentCreateCount(r)
    BY <1>6 DEF CommentDelete, CommentCreateStore, CommentCreateCount, Idle
  <2>2. PICK c \in CommentIds : Atomically!DeleteComment(c)
    BY <1>0, <1>1, <1>6, <2>1
       DEF CommentDelete, SoftDelete, threadVars, handlerVars, Atomically!DeleteComment
  <2> QED
    BY <2>2 DEF AtomicStep, Atomically!AtomicNext
<1> QED
  BY <1>2, <1>3, <1>4, <1>5, <1>6 DEF CommentStep

\* Requests that leave each other alone behave as if every operation were one
\* step: the steps at which a record is stored, written back, counted or
\* deleted map to steps of AtomicForum, the others cannot be told.
THEOREM OperationsAtomic ==
    ASSUME Renames # "any"
    PROVE  IsolatedSpec => ImplementsAtomicForum
<1>1. ForumInit => Atomically!AtomicInit
  BY DEF ForumInit, BoardStoreInit, ThreadStoreInit, CommentStoreInit, HandlersInit,
     CountedThreads, Atomically!AtomicInit
<1>2. SlugInv /\ IsolatedInv /\ [IsolatedNext]_forumVars
        => [Atomically!AtomicNext]_(Atomically!atomicVars)
  <2> SUFFICES ASSUME SlugInv, IsolatedInv, [IsolatedNext]_forumVars PROVE AtomicStep
    BY DEF AtomicStep
  <2>1. CASE IsolatedNext
    BY <2>1, BoardStepAtomic, ThreadStepAtomic, CommentStepAtomic DEF IsolatedNext, ForumNext
  <2>2. CASE UNCHANGED forumVars
    BY <2>2 DEF forumVars, boardVars, threadVars, commentVars, handlerVars,
       CountedThreads, Uncounted, AtomicStep, Atomically!atomicVars
  <2> QED
    BY <2>1, <2>2
<1> QED
  BY <1>1, <1>2, IsolatedSlugInv, PTL
     DEF IsolatedSpec, ImplementsAtomicForum, Atomically!AtomicSpec

=============================================================================

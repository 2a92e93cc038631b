----------------------------- MODULE ForumProofs ----------------------------
(***************************************************************************)
(* Proofs about Forum for any number of goroutines, boards, threads and    *)
(* comments.                                                               *)
(***************************************************************************)
EXTENDS Forum, TLAPS

\* What a goroutine may hold between two store calls.
AnyRequest == {Idle} \cup BoardRequest \cup ThreadRequest \cup CommentRequest

-----------------------------------------------------------------------------
(* Lemmas about the helpers                                                *)

\* The op of a goroutine tells which fields it holds, and of which type.
LEMMA RequestFields ==
    ASSUME NEW q \in AnyRequest
    PROVE  /\ q.op = "board.update" => q.id \in BoardIds /\ q.board \in Board
           /\ q.op = "thread.create" => q.board \in BoardIds
           /\ q.op = "thread.get" => q.id \in ThreadIds
           /\ q.op = "thread.update" => q.id \in ThreadIds /\ q.thread \in Thread
           /\ q.op \in {"comment.checked", "comment.stored"} =>
                 q.id \in ThreadIds /\ q.thread \in Thread
           /\ q.op = "comment.update" => q.id \in CommentIds /\ q.comment \in Comment
BY DEF AnyRequest, BoardRequest, ThreadRequest, CommentRequest, Idle

\* An update leaves a board with a slug of its type.
LEMMA SlugChoicesType ==
    ASSUME boards \in [BoardIds -> Board \cup {Absent}],
           NEW id \in BoardIds, boards[id] # Absent
    PROVE  SlugChoices(id) \subseteq Slugs \cup {NoSlug}
BY RenamesAssumption DEF SlugChoices, Board

\* Dropping an element of a slice leaves a slice one element shorter.
LEMMA WithoutFirstType ==
    ASSUME NEW S, NEW ids \in Seq(S), NEW id
    PROVE  WithoutFirst(ids, id) \in Seq(S)
<1>1. CASE {i \in 1..Len(ids) : ids[i] = id} = {}
  BY <1>1 DEF WithoutFirst
<1>2. CASE {i \in 1..Len(ids) : ids[i] = id} # {}
  <2>1. Len(ids) \in Nat /\ Len(ids) >= 1
    BY <1>2
  <2>2. ASSUME NEW i PROVE WithoutIndex(ids, i) \in Seq(S)
    BY <2>1 DEF WithoutIndex
  <2> QED
    BY <1>2, <2>2 DEF WithoutFirst
<1> QED
  BY <1>1, <1>2

NoRepetition(ids) == \A i, k \in 1..Len(ids) : ids[i] = ids[k] => i = k

\* The slice out has id no more, and every other element of the slice ids once.
TakesOut(out, ids, id) ==
    /\ \A i \in 1..Len(out) :
          out[i] # id /\ \E j \in 1..Len(ids) : out[i] = ids[j]
    /\ NoRepetition(out)
    /\ \A j \in 1..Len(ids) :
          ids[j] # id => \E i \in 1..Len(out) : out[i] = ids[j]

\* From a slice without repetitions WithoutFirst takes id out and nothing else.
LEMMA WithoutFirstElements ==
    ASSUME NEW ids \in Seq(ThreadIds), NEW id \in ThreadIds,
           NoRepetition(ids), NEW out, out = WithoutFirst(ids, id)
    PROVE  TakesOut(out, ids, id)
<1> USE DEF NoRepetition, TakesOut
<1>1. CASE {i \in 1..Len(ids) : ids[i] = id} = {}
  <2>1. out = ids
    BY <1>1 DEF WithoutFirst
  <2>2. \A i \in 1..Len(ids) : ids[i] # id
    BY <1>1
  <2> QED
    BY <2>1, <2>2
<1>2. CASE {i \in 1..Len(ids) : ids[i] = id} # {}
  <2>1. PICK k \in 1..Len(ids) : ids[k] = id
    BY <1>2
  <2>2. {i \in 1..Len(ids) : ids[i] = id} = {k}
    BY <2>1
  <2>3. (CHOOSE i \in {k} : \A j \in {k} : i <= j) = k
    OBVIOUS
  <2>4. out = WithoutIndex(ids, k)
    BY <2>2, <2>3 DEF WithoutFirst
  <2>5. /\ Len(ids) \in Nat /\ Len(ids) >= 1
        /\ Len(out) = Len(ids) - 1
        /\ \A i \in 1..(Len(ids) - 1) : out[i] = IF i < k THEN ids[i] ELSE ids[i + 1]
    BY <2>1, <2>4 DEF WithoutIndex
  <2>6. \A i \in 1..Len(out) : out[i] # id /\ \E j \in 1..Len(ids) : out[i] = ids[j]
    BY <2>1, <2>5
  <2>7. \A i, m \in 1..Len(out) : out[i] = out[m] => i = m
    BY <2>1, <2>5
  <2>8. ASSUME NEW j \in 1..Len(ids), ids[j] # id
        PROVE  \E i \in 1..Len(out) : out[i] = ids[j]
    <3>1. CASE j < k
      BY <2>5, <3>1
    <3>2. CASE j > k
      <4>1. j - 1 \in 1..Len(out) /\ out[j - 1] = ids[j]
        BY <2>5, <3>2
      <4> QED
        BY <4>1
    <3> QED
      BY <2>1, <2>8, <3>1, <3>2
  <2> QED
    BY <2>6, <2>7, <2>8
<1> QED
  BY <1>1, <1>2

\* Replacing a stored record by one of its type keeps the map well typed.
LEMMA ReplacePresentType ==
    ASSUME NEW I, NEW T, NEW items \in [I -> T \cup {Absent}],
           NEW id \in I, NEW item \in T
    PROVE  ReplacePresent(items, id, item) \in [I -> T \cup {Absent}]
BY DEF ReplacePresent

\* Counting a reply changes the reply count of the record and nothing else.
LEMMA IncrementReplyThread ==
    ASSUME NEW thread \in Thread
    PROVE  /\ IncrementReply(thread) \in Thread
           /\ IncrementReply(thread).replyCount = thread.replyCount + 1
           /\ IncrementReply(thread).boardId = thread.boardId
<1>1. thread.replyCount + 1 \in Nat
  BY DEF Thread
<1> QED
  BY <1>1 DEF Thread, IncrementReply

\* An update applied to the record changes its lock and nothing else.
LEMMA ApplyLockThread ==
    ASSUME NEW thread \in Thread, NEW lock
    PROVE  /\ ApplyLock(thread, lock) \in Thread
           /\ ApplyLock(thread, lock).replyCount = thread.replyCount
           /\ ApplyLock(thread, lock).boardId = thread.boardId
<1>1. (lock = "locked") \in BOOLEAN
  OBVIOUS
<1> QED
  BY <1>1 DEF Thread, ApplyLock

\* Counting a view changes the view count of the thread and nothing else.
LEMMA IncrementViewThread ==
    ASSUME threads \in [ThreadIds -> Thread \cup {Absent}],
           NEW id \in ThreadIds, IncrementViewCount(id)
    PROVE  /\ threads' \in [ThreadIds -> Thread \cup {Absent}]
           /\ \A t \in ThreadIds :
                 /\ threads'[t] = Absent <=> threads[t] = Absent
                 /\ threads[t] # Absent =>
                       /\ threads'[t].replyCount = threads[t].replyCount
                       /\ threads'[t].boardId = threads[t].boardId
<1>1. CASE threads[id] = Absent
  BY <1>1 DEF IncrementViewCount
<1>2. CASE threads[id] # Absent
  <2>1. threads[id] \in Thread
    BY <1>2
  <2>2. threads[id].viewCount + 1 \in Nat
    BY <2>1 DEF Thread
  <2> DEFINE viewed == [threads[id] EXCEPT !.viewCount = threads[id].viewCount + 1]
  <2>3. threads' = [threads EXCEPT ![id] = viewed]
    BY <1>2 DEF IncrementViewCount
  <2>4. /\ viewed \in Thread
        /\ viewed.replyCount = threads[id].replyCount
        /\ viewed.boardId = threads[id].boardId
    BY <2>1, <2>2 DEF Thread
  <2> HIDE DEF viewed
  <2> QED
    BY <2>3, <2>4, <1>2, ThreadAssumption
<1> QED
  BY <1>1, <1>2

\* Soft deletion keeps the comment, its type and its thread.
LEMMA SoftDeleteComment ==
    ASSUME comments \in [CommentIds -> Comment \cup {Absent}],
           NEW id \in CommentIds, SoftDelete(id)
    PROVE  /\ comments' \in [CommentIds -> Comment \cup {Absent}]
           /\ \A c \in CommentIds :
                 comments[c] # Absent =>
                    comments'[c] # Absent /\ comments'[c].threadId = comments[c].threadId
<1>1. PICK comment \in Comment : comment = comments[id]
  BY DEF SoftDelete
<1>2. /\ [comment EXCEPT !.isDeleted = TRUE] \in Comment
      /\ [comment EXCEPT !.isDeleted = TRUE].threadId = comment.threadId
  BY DEF Comment
<1>3. comments' = [comments EXCEPT ![id] = [comment EXCEPT !.isDeleted = TRUE]]
  BY <1>1 DEF SoftDelete
<1> QED
  BY <1>1, <1>2, <1>3, CommentAssumption

-----------------------------------------------------------------------------
(* Type correctness                                                        *)

\* A step of a board request keeps the types.
LEMMA BoardStepType ==
    ASSUME ForumTypeOK, NEW r \in Requests,
           BoardStep(r), UNCHANGED <<threadVars, commentVars>>
    PROVE  ForumTypeOK'
<1> USE DEF AnyRequest, ForumTypeOK, threadVars, commentVars, boardVars, Continue, Return
<1>0. Idle \in AnyRequest
  BY DEF BoardRequest
<1>1. CASE BoardCreate(r)
  BY <1>1 DEF BoardCreate, NewID, BoardStoreCreate, Board
<1>2. CASE BoardUpdateRead(r)
  <2>1. PICK id \in BoardIds :
          /\ boards[id] # Absent
          /\ \E slug \in SlugChoices(id), locked \in BOOLEAN :
                Continue(r, [op |-> "board.update", id |-> id,
                             board |-> [slug |-> slug, isLocked |-> locked]])
    BY <1>2 DEF BoardUpdateRead
  <2>2. SlugChoices(id) \subseteq Slugs \cup {NoSlug}
    BY <2>1, SlugChoicesType
  <2> QED
    BY <1>2, <2>1, <2>2 DEF BoardUpdateRead, BoardRequest, Board
<1>3. CASE BoardUpdateWrite(r)
  <2>1. req[r].id \in BoardIds /\ req[r].board \in Board
    BY <1>3, RequestFields DEF BoardUpdateWrite
  <2>2. boards' \in [BoardIds -> Board \cup {Absent}]
    BY <1>3, <2>1, ReplacePresentType DEF BoardUpdateWrite, BoardStoreUpdate
  <2>3. slugIdx' \in [Slugs -> BoardIds \cup {Absent}]
    BY <1>3, <2>1 DEF BoardUpdateWrite, BoardStoreUpdate, Unindex
  <2> QED
    BY <1>0, <1>3, <2>2, <2>3 DEF BoardUpdateWrite
<1>4. CASE BoardDelete(r)
  BY <1>4 DEF BoardDelete, BoardStoreDelete, Unindex, handlerVars
<1> QED
  BY <1>1, <1>2, <1>3, <1>4 DEF BoardStep

\* A step of a thread request keeps the types.
LEMMA ThreadStepType ==
    ASSUME ForumTypeOK, NEW r \in Requests,
           ThreadStep(r), UNCHANGED commentVars
    PROVE  ForumTypeOK'
<1> USE DEF AnyRequest, ForumTypeOK, threadVars, commentVars, boardVars, Continue, Return
<1>0. Idle \in AnyRequest
  BY DEF BoardRequest
<1>1. CASE ThreadCreateCheck(r)
  BY <1>1 DEF ThreadCreateCheck, ThreadRequest
<1>2. CASE ThreadCreateStore(r)
  <2>1. PICK id \in ThreadIds : NewID(id) /\ ThreadStoreCreate(id, NewThread(req[r].board))
    BY <1>2 DEF ThreadCreateStore
  <2>2. req[r].board \in BoardIds
    BY <1>2, RequestFields DEF ThreadCreateStore
  <2>3. NewThread(req[r].board) \in Thread
    BY <2>2 DEF NewThread, Thread
  <2>4. NewThread(req[r].board).boardId = req[r].board
    BY DEF NewThread
  <2>5. boardIdx' \in [BoardIds -> Seq(ThreadIds)]
    BY <2>1, <2>2, <2>4 DEF ThreadStoreCreate
  <2> QED
    BY <1>0, <1>2, <2>1, <2>3, <2>5 DEF ThreadCreateStore, ThreadStoreCreate, NewID
<1>3. CASE ThreadGetRead(r)
  BY <1>3 DEF ThreadGetRead, ThreadRequest
<1>4. CASE ThreadGetCount(r)
  <2>1. req[r].id \in ThreadIds
    BY <1>4, RequestFields DEF ThreadGetCount
  <2>2. threads' \in [ThreadIds -> Thread \cup {Absent}]
    BY <1>4, <2>1, IncrementViewThread DEF ThreadGetCount
  <2> QED
    BY <1>0, <1>4, <2>2 DEF ThreadGetCount, IncrementViewCount
<1>5. CASE ThreadUpdateRead(r)
  <2>1. PICK t \in ThreadIds, lock \in {Unset, "locked", "open"} :
          /\ threads[t] # Absent
          /\ Continue(r, [op |-> "thread.update", id |-> t, lock |-> lock,
                          thread |-> ApplyLock(threads[t], lock)])
    BY <1>5 DEF ThreadUpdateRead
  <2>2. ApplyLock(threads[t], lock) \in Thread
    BY <2>1, ApplyLockThread
  <2> QED
    BY <1>5, <2>1, <2>2 DEF ThreadUpdateRead, ThreadRequest
<1>6. CASE ThreadUpdateWrite(r)
  <2>1. req[r].id \in ThreadIds /\ req[r].thread \in Thread
    BY <1>6, RequestFields DEF ThreadUpdateWrite
  <2>2. threads' \in [ThreadIds -> Thread \cup {Absent}]
    BY <1>6, <2>1, ReplacePresentType DEF ThreadUpdateWrite, ThreadStoreUpdate
  <2> QED
    BY <1>0, <1>6, <2>2 DEF ThreadUpdateWrite, ThreadStoreUpdate
<1>7. CASE ThreadDelete(r)
  <2>1. PICK t \in ThreadIds : ThreadStoreDelete(t)
    BY <1>7 DEF ThreadDelete
  <2>2. threads[t].boardId \in BoardIds
    BY <2>1 DEF ThreadStoreDelete, Thread
  <2>3. boardIdx' \in [BoardIds -> Seq(ThreadIds)]
    BY <2>1, <2>2, WithoutFirstType DEF ThreadStoreDelete
  <2> QED
    BY <1>7, <2>1, <2>3 DEF ThreadDelete, ThreadStoreDelete, handlerVars
<1> QED
  BY <1>1, <1>2, <1>3, <1>4, <1>5, <1>6, <1>7 DEF ThreadStep

\* A step of a comment request keeps the types.
LEMMA CommentStepType ==
    ASSUME ForumTypeOK, NEW r \in Requests,
           CommentStep(r), UNCHANGED boardVars
    PROVE  ForumTypeOK'
<1> USE DEF AnyRequest, ForumTypeOK, threadVars, commentVars, boardVars, Continue, Return
<1>0. Idle \in AnyRequest
  BY DEF BoardRequest
<1>1. CASE CommentCreateCheck(r)
  BY <1>1 DEF CommentCreateCheck, CommentRequest
<1>2. CASE CommentCreateStore(r)
  <2>1. PICK id \in CommentIds :
          /\ NewID(id)
          /\ CommentStoreCreate(id, [threadId |-> req[r].id, isDeleted |-> FALSE])
    BY <1>2 DEF CommentCreateStore
  <2>2. req[r].id \in ThreadIds /\ req[r].thread \in Thread
    BY <1>2, RequestFields DEF CommentCreateStore
  <2>3. comments' \in [CommentIds -> Comment \cup {Absent}]
    BY <2>1, <2>2 DEF CommentStoreCreate, Comment
  <2>4. threadIdx' \in [ThreadIds -> Seq(CommentIds)]
    BY <2>1, <2>2 DEF CommentStoreCreate
  <2>5. req' \in [Requests -> AnyRequest]
    BY <1>2, <2>2 DEF CommentCreateStore, CommentRequest
  <2> QED
    BY <1>2, <2>1, <2>3, <2>4, <2>5 DEF CommentCreateStore, NewID
<1>3. CASE CommentCreateCount(r)
  <2>1. req[r].id \in ThreadIds /\ req[r].thread \in Thread
    BY <1>3, RequestFields DEF CommentCreateCount
  <2>2. IncrementReply(req[r].thread) \in Thread
    BY <2>1, IncrementReplyThread
  <2>3. threads' \in [ThreadIds -> Thread \cup {Absent}]
    BY <1>3, <2>1, <2>2, ReplacePresentType DEF CommentCreateCount, ThreadStoreUpdate
  <2> QED
    BY <1>0, <1>3, <2>3 DEF CommentCreateCount, ThreadStoreUpdate
<1>4. CASE CommentUpdateRead(r)
  BY <1>4 DEF CommentUpdateRead, CommentRequest
<1>5. CASE CommentUpdateWrite(r)
  <2>1. req[r].id \in CommentIds /\ req[r].comment \in Comment
    BY <1>5, RequestFields DEF CommentUpdateWrite
  <2>2. comments' \in [CommentIds -> Comment \cup {Absent}]
    BY <1>5, <2>1, ReplacePresentType DEF CommentUpdateWrite, CommentStoreUpdate
  <2> QED
    BY <1>0, <1>5, <2>2 DEF CommentUpdateWrite, CommentStoreUpdate
<1>6. CASE CommentDelete(r)
  <2>1. comments' \in [CommentIds -> Comment \cup {Absent}]
    BY <1>6, SoftDeleteComment DEF CommentDelete
  <2> QED
    BY <1>6, <2>1 DEF CommentDelete, SoftDelete, handlerVars
<1> QED
  BY <1>1, <1>2, <1>3, <1>4, <1>5, <1>6 DEF CommentStep

\* The empty stores and the idle goroutines are of their types.
LEMMA ForumInitType == ForumInit => ForumTypeOK
BY DEF ForumInit, ForumTypeOK, BoardStoreInit, ThreadStoreInit, CommentStoreInit,
       HandlersInit, BoardRequest

\* Each operation of the three services keeps the types.
LEMMA ForumNextType == ForumTypeOK /\ [ForumNext]_forumVars => ForumTypeOK'
<1> SUFFICES ASSUME ForumTypeOK, [ForumNext]_forumVars PROVE ForumTypeOK'
  OBVIOUS
<1>1. CASE UNCHANGED forumVars
  BY <1>1 DEF forumVars, boardVars, threadVars, commentVars, handlerVars, ForumTypeOK
<1>2. CASE ForumNext
  BY <1>2, BoardStepType, ThreadStepType, CommentStepType DEF ForumNext
<1> QED
  BY <1>1, <1>2

\* The stores, the indexes and the goroutines of any number of requests keep
\* the types of their Go declarations.
THEOREM ForumTypeCorrect == ForumSpec => []ForumTypeOK
BY ForumInitType, ForumNextType, PTL DEF ForumSpec

-----------------------------------------------------------------------------
(* The inductive invariant.  A write-back puts a clone back that was read  *)
(* some steps earlier, so what is true of the stored threads is only kept  *)
(* if it is also true, with respect to the stores as they are now, of      *)
(* every clone in flight: SnapshotsConsistent says what survives the wait. *)

ForumInv ==
    /\ ForumTypeOK
    /\ ReferencesWereStored
    /\ SnapshotsConsistent
    /\ ReplyCountBounded
    /\ ThreadIndexExact
    /\ CommentIndexExact

\* The part of it that says where things are, whatever the threads count: what
\* a clone was read from has not moved, and identifiers are of things stored.
ClonePlaced(q) ==
    /\ q.op = "thread.create" => q.board \in issued
    /\ q.op \in {"thread.update", "comment.checked", "comment.stored"} =>
          /\ q.id \in issued
          /\ threads[q.id] # Absent => threads[q.id].boardId = q.thread.boardId
    /\ q.op = "comment.update" =>
          /\ comments[q.id] # Absent
          /\ comments[q.id].threadId = q.comment.threadId

ClonesPlaced == \A r \in Requests : ClonePlaced(req[r])

IndexInv ==
    /\ ForumTypeOK
    /\ ReferencesWereStored
    /\ ClonesPlaced
    /\ ThreadIndexExact
    /\ CommentIndexExact

\* It is a part of it.
LEMMA InvIndexes == ForumInv => IndexInv
BY DEF ForumInv, IndexInv, SnapshotsConsistent, SnapshotConsistent, ClonesPlaced, ClonePlaced

\* What every step does to the stores: identifiers and comments only get more,
\* no thread changes its board, no comment its thread, and none comes back.
StoresEvolve ==
    /\ issued \subseteq issued'
    /\ \A t \in ThreadIds :
          /\ CountByThread(t) <= CountByThread(t)'
          /\ t \in issued /\ threads'[t] # Absent =>
                threads[t] # Absent /\ threads'[t].boardId = threads[t].boardId
    /\ \A c \in CommentIds :
          comments[c] # Absent =>
             comments'[c] # Absent /\ comments'[c].threadId = comments[c].threadId

\* Writing a clone back leaves an absent record absent and changes no other.
LEMMA ThreadWriteBack ==
    ASSUME ForumTypeOK, NEW id \in ThreadIds, NEW thread \in Thread,
           threads' = ReplacePresent(threads, id, thread)
    PROVE  \A t \in ThreadIds :
              /\ threads'[t] = Absent <=> threads[t] = Absent
              /\ threads'[t] = IF t = id /\ threads[t] # Absent THEN thread ELSE threads[t]
BY ThreadAssumption DEF ReplacePresent, ForumTypeOK

\* The same for the clone of a comment.
LEMMA CommentWriteBack ==
    ASSUME ForumTypeOK, NEW id \in CommentIds, NEW comment \in Comment,
           comments' = ReplacePresent(comments, id, comment)
    PROVE  \A c \in CommentIds :
              /\ comments'[c] = Absent <=> comments[c] = Absent
              /\ comments'[c] = IF c = id /\ comments[c] # Absent THEN comment ELSE comments[c]
BY CommentAssumption DEF ReplacePresent, ForumTypeOK

\* Board requests do not touch threads and comments.
LEMMA BoardStepEvolves ==
    ASSUME IndexInv, NEW r \in Requests,
           BoardStep(r), UNCHANGED <<threadVars, commentVars>>
    PROVE  StoresEvolve
<1>1. issued \subseteq issued'
  BY DEF BoardStep, BoardCreate, BoardUpdateRead, BoardUpdateWrite, BoardDelete,
         NewID, handlerVars
<1>2. \A t \in ThreadIds : CountByThread(t) \in Nat
  BY DEF IndexInv, ForumTypeOK, CountByThread
<1> QED
  BY <1>1, <1>2 DEF StoresEvolve, threadVars, commentVars, CountByThread

\* Of a thread request, only the write of an update needs the invariant: its
\* clone has the board the stored thread has.
LEMMA ThreadStepEvolves ==
    ASSUME IndexInv, NEW r \in Requests,
           ThreadStep(r), UNCHANGED commentVars
    PROVE  StoresEvolve
<1> USE DEF IndexInv, ForumTypeOK
<1>0. /\ \A t \in ThreadIds : CountByThread(t) <= CountByThread(t)'
      /\ \A c \in CommentIds :
            comments[c] # Absent =>
               comments'[c] # Absent /\ comments'[c].threadId = comments[c].threadId
  BY DEF commentVars, CountByThread
<1> SUFFICES /\ issued \subseteq issued'
             /\ \A t \in issued \cap ThreadIds :
                   threads'[t] # Absent =>
                      threads[t] # Absent /\ threads'[t].boardId = threads[t].boardId
  BY <1>0 DEF StoresEvolve
<1>1. CASE ThreadCreateCheck(r) \/ ThreadGetRead(r) \/ ThreadUpdateRead(r)
  BY <1>1 DEF ThreadCreateCheck, ThreadGetRead, ThreadUpdateRead, threadVars
<1>2. CASE ThreadCreateStore(r)
  BY <1>2 DEF ThreadCreateStore, ThreadStoreCreate, NewID
<1>3. CASE ThreadGetCount(r)
  <2>1. req[r].id \in ThreadIds
    BY <1>3, RequestFields DEF ThreadGetCount, AnyRequest
  <2> QED
    BY <1>3, <2>1, IncrementViewThread DEF ThreadGetCount
<1>4. CASE ThreadUpdateWrite(r)
  <2>1. req[r].id \in ThreadIds /\ req[r].thread \in Thread
    BY <1>4, RequestFields DEF ThreadUpdateWrite, AnyRequest
  <2>2. threads[req[r].id] # Absent => threads[req[r].id].boardId = req[r].thread.boardId
    BY <1>4 DEF ThreadUpdateWrite, ClonesPlaced, ClonePlaced
  <2>3. threads' = ReplacePresent(threads, req[r].id, req[r].thread) /\ issued' = issued
    BY <1>4 DEF ThreadUpdateWrite, ThreadStoreUpdate
  <2> QED
    BY <2>1, <2>2, <2>3, ThreadWriteBack
<1>5. CASE ThreadDelete(r)
  BY <1>5 DEF ThreadDelete, ThreadStoreDelete, handlerVars
<1> QED
  BY <1>1, <1>2, <1>3, <1>4, <1>5 DEF ThreadStep

\* The write-back of a comment creation changes the board of its thread as
\* little; the store of a comment adds to the comments that are counted.
LEMMA CommentStepEvolves ==
    ASSUME IndexInv, NEW r \in Requests,
           CommentStep(r), UNCHANGED boardVars
    PROVE  StoresEvolve
<1> USE DEF IndexInv, ForumTypeOK
<1>0. \A t \in ThreadIds : CountByThread(t) \in Nat
  BY DEF CountByThread
<1>1. CASE CommentCreateCheck(r) \/ CommentUpdateRead(r)
  BY <1>0, <1>1 DEF CommentCreateCheck, CommentUpdateRead, threadVars, commentVars,
     CountByThread, StoresEvolve
<1>2. CASE CommentCreateStore(r)
  <2>1. PICK id \in CommentIds :
          /\ NewID(id)
          /\ CommentStoreCreate(id, [threadId |-> req[r].id, isDeleted |-> FALSE])
    BY <1>2 DEF CommentCreateStore
  <2>2. \A t \in ThreadIds : CountByThread(t) <= CountByThread(t)'
    BY <2>1 DEF CommentStoreCreate, CountByThread
  <2>3. \A c \in CommentIds :
           comments[c] # Absent =>
              comments'[c] # Absent /\ comments'[c].threadId = comments[c].threadId
    BY <2>1 DEF CommentStoreCreate
  <2> QED
    BY <1>2, <2>1, <2>2, <2>3 DEF CommentCreateStore, NewID, threadVars, StoresEvolve
<1>3. CASE CommentCreateCount(r)
  <2>1. req[r].id \in ThreadIds /\ req[r].thread \in Thread
    BY <1>3, RequestFields DEF CommentCreateCount, AnyRequest
  <2>2. threads[req[r].id] # Absent => threads[req[r].id].boardId = req[r].thread.boardId
    BY <1>3 DEF CommentCreateCount, ClonesPlaced, ClonePlaced
  <2>3. /\ threads' = ReplacePresent(threads, req[r].id, IncrementReply(req[r].thread))
        /\ issued' = issued /\ UNCHANGED commentVars
    BY <1>3 DEF CommentCreateCount, ThreadStoreUpdate
  <2>4. PICK thread \in Thread : /\ thread = IncrementReply(req[r].thread)
                                /\ thread.boardId = req[r].thread.boardId
    BY <2>1, IncrementReplyThread
  <2>5. \A t \in ThreadIds :
           /\ threads'[t] = Absent <=> threads[t] = Absent
           /\ threads'[t] = IF t = req[r].id /\ threads[t] # Absent THEN thread ELSE threads[t]
    BY <2>1, <2>3, <2>4, ThreadWriteBack
  <2>6. \A t \in ThreadIds :
           threads'[t] # Absent =>
              threads[t] # Absent /\ threads'[t].boardId = threads[t].boardId
    BY <2>2, <2>4, <2>5
  <2> QED
    BY <1>0, <2>3, <2>6 DEF StoresEvolve, commentVars, CountByThread
<1>4. CASE CommentUpdateWrite(r)
  <2>1. req[r].id \in CommentIds /\ req[r].comment \in Comment
    BY <1>4, RequestFields DEF CommentUpdateWrite, AnyRequest
  <2>2. comments[req[r].id].threadId = req[r].comment.threadId
    BY <1>4 DEF CommentUpdateWrite, ClonesPlaced, ClonePlaced
  <2>3. /\ comments' = ReplacePresent(comments, req[r].id, req[r].comment)
        /\ issued' = issued /\ UNCHANGED <<threadVars, threadIdx>>
    BY <1>4 DEF CommentUpdateWrite, CommentStoreUpdate
  <2>4. \A c \in CommentIds :
           comments[c] # Absent =>
              comments'[c] # Absent /\ comments'[c].threadId = comments[c].threadId
    BY <2>1, <2>2, <2>3, CommentWriteBack
  <2> QED
    BY <1>0, <2>3, <2>4 DEF StoresEvolve, threadVars, CountByThread
<1>5. CASE CommentDelete(r)
  <2>1. \A c \in CommentIds :
           comments[c] # Absent =>
              comments'[c] # Absent /\ comments'[c].threadId = comments[c].threadId
    BY <1>5, SoftDeleteComment DEF CommentDelete
  <2> QED
    BY <1>0, <1>5, <2>1 DEF CommentDelete, SoftDelete, handlerVars, threadVars,
       StoresEvolve, CountByThread
<1> QED
  BY <1>1, <1>2, <1>3, <1>4, <1>5 DEF CommentStep

\* A clone that waits stays consistent with the stores through every step of
\* the others, and a goroutine's own step leaves it with a consistent one.
LEMMA SnapshotsWait ==
    ASSUME ForumInv, ForumTypeOK', StoresEvolve, NEW r \in Requests, NEW q,
           req' = [req EXCEPT ![r] = q], SnapshotConsistent(q)'
    PROVE  SnapshotsConsistent'
<1> SUFFICES ASSUME NEW x \in Requests, x # r
             PROVE  SnapshotConsistent(req[x])'
  BY DEF SnapshotsConsistent, ForumInv, ForumTypeOK
<1>1. req'[x] = req[x]
  BY DEF ForumInv, ForumTypeOK
<1>2. SnapshotConsistent(req[x])
  BY DEF ForumInv, SnapshotsConsistent
<1> DEFINE p == req[x]
<1>3. /\ p.op = "thread.create" => p.board \in issued'
      /\ p.op \in {"thread.update", "comment.checked", "comment.stored"} => p.id \in issued'
  BY <1>2 DEF StoresEvolve, SnapshotConsistent
<1>4. ASSUME p.op \in {"thread.update", "comment.checked", "comment.stored"}
      PROVE  /\ p.thread.replyCount <= CountByThread(p.id)'
             /\ p.op = "comment.stored" =>
                   p.thread.replyCount + 1 <= CountByThread(p.id)'
             /\ threads'[p.id] # Absent => threads'[p.id].boardId = p.thread.boardId
  <2>1. p.id \in ThreadIds /\ p.thread \in Thread
    BY <1>4, RequestFields DEF AnyRequest, ForumInv, ForumTypeOK
  <2>2. p.thread.replyCount \in Nat
    BY <2>1 DEF Thread
  <2>3. CountByThread(p.id) \in Nat /\ CountByThread(p.id)' \in Nat
    BY <1>1, <2>1 DEF ForumInv, ForumTypeOK, CountByThread
  <2>4. CountByThread(p.id) <= CountByThread(p.id)'
    BY <1>1, <2>1 DEF StoresEvolve, CountByThread
  <2> QED
    BY <1>1, <1>2, <1>4, <2>1, <2>2, <2>3, <2>4 DEF SnapshotConsistent, StoresEvolve
<1>5. p.op = "comment.update" =>
         comments'[p.id] # Absent /\ comments'[p.id].threadId = p.comment.threadId
  <2>1. p.op = "comment.update" => p.id \in CommentIds
    BY RequestFields DEF AnyRequest, ForumInv, ForumTypeOK
  <2> QED
    BY <1>2, <2>1 DEF SnapshotConsistent, StoresEvolve
<1> QED
  BY <1>1, <1>3, <1>4, <1>5 DEF SnapshotConsistent, CountByThread

\* A goroutine that returns holds nothing.
LEMMA IdleConsistent == SnapshotConsistent(Idle)'
BY DEF SnapshotConsistent, Idle

\* Every step leaves every goroutine with a consistent clone, its own included.
LEMMA SnapshotsStep ==
    ASSUME ForumInv, ForumNext, ForumTypeOK', StoresEvolve
    PROVE  SnapshotsConsistent'
<1> USE DEF Continue, Return
<1>0. PICK r \in Requests :
        \/ BoardStep(r) /\ UNCHANGED <<threadVars, commentVars>>
        \/ ThreadStep(r) /\ UNCHANGED commentVars
        \/ CommentStep(r) /\ UNCHANGED boardVars
  BY DEF ForumNext
<1>1. CASE \/ BoardCreate(r) \/ BoardDelete(r) \/ ThreadDelete(r) \/ CommentDelete(r)
  <2>1. req' = [req EXCEPT ![r] = Idle] /\ req[r] = Idle
    BY <1>1 DEF BoardCreate, BoardDelete, ThreadDelete, CommentDelete, handlerVars,
       ForumInv, ForumTypeOK
  <2> QED
    BY <2>1, IdleConsistent, SnapshotsWait
<1>2. CASE \/ BoardUpdateWrite(r) \/ ThreadCreateStore(r) \/ ThreadGetCount(r)
           \/ ThreadUpdateWrite(r) \/ CommentCreateCount(r) \/ CommentUpdateWrite(r)
  <2>1. req' = [req EXCEPT ![r] = Idle]
    BY <1>2 DEF BoardUpdateWrite, ThreadCreateStore, ThreadGetCount, ThreadUpdateWrite,
       CommentCreateCount, CommentUpdateWrite
  <2> QED
    BY <2>1, IdleConsistent, SnapshotsWait
<1>3. CASE BoardUpdateRead(r)
  <2>1. PICK id \in BoardIds, locked \in BOOLEAN, slug \in Slugs \cup {NoSlug} :
          req' = [req EXCEPT ![r] = [op |-> "board.update", id |-> id,
                                     board |-> [slug |-> slug, isLocked |-> locked]]]
    BY <1>3, SlugChoicesType DEF BoardUpdateRead, ForumInv, ForumTypeOK
  <2>2. SnapshotConsistent([op |-> "board.update", id |-> id,
                            board |-> [slug |-> slug, isLocked |-> locked]])'
    BY DEF SnapshotConsistent
  <2> QED
    BY <2>1, <2>2, SnapshotsWait
<1>4. CASE ThreadGetRead(r)
  <2>1. PICK t \in ThreadIds : req' = [req EXCEPT ![r] = [op |-> "thread.get", id |-> t]]
    BY <1>4 DEF ThreadGetRead
  <2>2. SnapshotConsistent([op |-> "thread.get", id |-> t])'
    BY DEF SnapshotConsistent
  <2> QED
    BY <2>1, <2>2, SnapshotsWait
<1>5. CASE ThreadCreateCheck(r)
  <2>1. PICK b \in BoardIds :
          boards[b] # Absent /\ req' = [req EXCEPT ![r] = [op |-> "thread.create", board |-> b]]
    BY <1>5 DEF ThreadCreateCheck
  <2>2. b \in issued'
    BY <2>1 DEF ForumInv, ReferencesWereStored, StoresEvolve
  <2>3. SnapshotConsistent([op |-> "thread.create", board |-> b])'
    BY <2>2 DEF SnapshotConsistent
  <2> QED
    BY <2>1, <2>3, SnapshotsWait
<1>6. CASE ThreadUpdateRead(r)
  <2>1. PICK t \in ThreadIds, lock \in {Unset, "locked", "open"} :
          /\ threads[t] # Absent
          /\ req' = [req EXCEPT ![r] = [op |-> "thread.update", id |-> t, lock |-> lock,
                                        thread |-> ApplyLock(threads[t], lock)]]
    BY <1>6 DEF ThreadUpdateRead
  <2>2. threads[t] \in Thread /\ t \in issued /\ threads[t].replyCount <= CountByThread(t)
    BY <2>1 DEF ForumInv, ForumTypeOK, ReferencesWereStored, ReplyCountBounded
  <2>3. /\ ApplyLock(threads[t], lock).replyCount = threads[t].replyCount
        /\ ApplyLock(threads[t], lock).boardId = threads[t].boardId
    BY <2>2, ApplyLockThread
  <2>4. UNCHANGED <<threads, issued>> /\ CountByThread(t) <= CountByThread(t)'
    BY <1>6 DEF ThreadUpdateRead, threadVars, StoresEvolve
  <2>5. /\ threads[t].replyCount \in Nat
        /\ CountByThread(t) \in Nat /\ CountByThread(t)' \in Nat
    BY <2>2 DEF Thread, CountByThread, ForumInv, ForumTypeOK
  <2>6. PICK q : q = [op |-> "thread.update", id |-> t, lock |-> lock,
                      thread |-> ApplyLock(threads[t], lock)]
    OBVIOUS
  <2>7. SnapshotConsistent(q)'
    BY <2>2, <2>3, <2>4, <2>5, <2>6 DEF SnapshotConsistent, CountByThread
  <2> QED
    BY <2>1, <2>6, <2>7, SnapshotsWait
<1>7. CASE CommentCreateCheck(r)
  <2>1. PICK t \in ThreadIds :
          /\ threads[t] # Absent
          /\ req' = [req EXCEPT ![r] = [op |-> "comment.checked", id |-> t,
                                        thread |-> threads[t]]]
    BY <1>7 DEF CommentCreateCheck
  <2>2. t \in issued /\ threads[t].replyCount <= CountByThread(t)
    BY <2>1 DEF ForumInv, ReferencesWereStored, ReplyCountBounded
  <2>3. UNCHANGED <<threads, threadIdx, issued>>
    BY <1>7 DEF CommentCreateCheck, threadVars, commentVars
  <2>4. PICK q : q = [op |-> "comment.checked", id |-> t, thread |-> threads[t]]
    OBVIOUS
  <2>5. SnapshotConsistent(q)'
    BY <2>2, <2>3, <2>4 DEF SnapshotConsistent, CountByThread
  <2> QED
    BY <2>1, <2>4, <2>5, SnapshotsWait
<1>8. CASE CommentCreateStore(r)
  <2>1. PICK id \in CommentIds :
          CommentStoreCreate(id, [threadId |-> req[r].id, isDeleted |-> FALSE])
    BY <1>8 DEF CommentCreateStore
  <2>2. req[r].id \in ThreadIds /\ req[r].thread \in Thread
    BY <1>8, RequestFields DEF CommentCreateStore, AnyRequest, ForumInv, ForumTypeOK
  <2>3. /\ req[r].id \in issued
        /\ req[r].thread.replyCount <= CountByThread(req[r].id)
        /\ threads[req[r].id] # Absent => threads[req[r].id].boardId = req[r].thread.boardId
    BY <1>8 DEF CommentCreateStore, ForumInv, SnapshotsConsistent, SnapshotConsistent
  <2>4. Len(threadIdx'[req[r].id]) = CountByThread(req[r].id) + 1
    BY <2>1, <2>2 DEF CommentStoreCreate, CountByThread, ForumInv, ForumTypeOK
  <2>5. req[r].thread.replyCount \in Nat /\ CountByThread(req[r].id) \in Nat
    BY <2>2 DEF Thread, ForumInv, ForumTypeOK, CountByThread
  <2>6. UNCHANGED threads /\ issued \subseteq issued'
    BY <1>8 DEF CommentCreateStore, threadVars, StoresEvolve
  <2>7. PICK q : q = [op |-> "comment.stored", id |-> req[r].id, thread |-> req[r].thread]
    OBVIOUS
  <2>8. SnapshotConsistent(q)'
    BY <2>3, <2>4, <2>5, <2>6, <2>7 DEF SnapshotConsistent, CountByThread
  <2>9. req' = [req EXCEPT ![r] = q]
    BY <1>8, <2>7 DEF CommentCreateStore
  <2> QED
    BY <2>8, <2>9, SnapshotsWait
<1>9. CASE CommentUpdateRead(r)
  <2>1. PICK c \in CommentIds :
          /\ comments[c] # Absent
          /\ req' = [req EXCEPT ![r] = [op |-> "comment.update", id |-> c,
                                        comment |-> comments[c]]]
    BY <1>9 DEF CommentUpdateRead
  <2>2. UNCHANGED comments
    BY <1>9 DEF CommentUpdateRead, commentVars
  <2>3. PICK q : q = [op |-> "comment.update", id |-> c, comment |-> comments[c]]
    OBVIOUS
  <2>4. SnapshotConsistent(q)'
    BY <2>1, <2>2, <2>3 DEF SnapshotConsistent
  <2> QED
    BY <2>1, <2>3, <2>4, SnapshotsWait
<1> QED
  BY <1>0, <1>1, <1>2, <1>3, <1>4, <1>5, <1>6, <1>7, <1>8, <1>9
     DEF BoardStep, ThreadStep, CommentStep

\* Only the creations store something new, and under an identifier they issue.
LEMMA ReferencesStep ==
    ASSUME IndexInv, ForumNext, ForumTypeOK', StoresEvolve
    PROVE  ReferencesWereStored'
<1> USE DEF IndexInv, ForumTypeOK
<1>0. PICK r \in Requests :
        \/ BoardStep(r) /\ UNCHANGED <<threadVars, commentVars>>
        \/ ThreadStep(r) /\ UNCHANGED commentVars
        \/ CommentStep(r) /\ UNCHANGED boardVars
  BY DEF ForumNext
<1>1. ASSUME NEW b \in BoardIds, boards'[b] # Absent
      PROVE  boards[b] # Absent \/ b \in issued'
  <2>1. CASE BoardCreate(r)
    BY <1>1, <2>1 DEF BoardCreate, BoardStoreCreate, NewID
  <2>2. CASE BoardUpdateWrite(r)
    BY <1>1, <2>2 DEF BoardUpdateWrite, BoardStoreUpdate, ReplacePresent
  <2>3. CASE BoardDelete(r)
    BY <1>1, <2>3 DEF BoardDelete, BoardStoreDelete
  <2>4. CASE UNCHANGED boardVars
    BY <1>1, <2>4 DEF boardVars
  <2> QED
    BY <1>0, <2>1, <2>2, <2>3, <2>4 DEF BoardStep, BoardUpdateRead, ThreadStep,
       ThreadCreateCheck, ThreadCreateStore, ThreadGetRead, ThreadGetCount,
       ThreadUpdateRead, ThreadUpdateWrite, ThreadDelete
<1>2. ASSUME NEW t \in ThreadIds, threads'[t] # Absent, threads[t] = Absent
      PROVE  t \in issued' /\ threads'[t].boardId \in issued'
  <2>1. CASE ThreadCreateStore(r)
    <3>1. PICK id \in ThreadIds : NewID(id) /\ ThreadStoreCreate(id, NewThread(req[r].board))
      BY <2>1 DEF ThreadCreateStore
    <3>2. req[r].board \in issued
      BY <2>1 DEF ThreadCreateStore, ClonesPlaced, ClonePlaced
    <3> QED
      BY <1>2, <3>1, <3>2 DEF ThreadStoreCreate, NewID, NewThread
  <2>2. CASE ThreadGetCount(r)
    BY <1>2, <2>2, RequestFields, IncrementViewThread DEF ThreadGetCount, AnyRequest
  <2>3. CASE ThreadUpdateWrite(r) \/ CommentCreateCount(r)
    BY <1>2, <2>3 DEF ThreadUpdateWrite, CommentCreateCount, ThreadStoreUpdate, ReplacePresent
  <2>4. CASE ThreadDelete(r)
    BY <1>2, <2>4 DEF ThreadDelete, ThreadStoreDelete
  <2>5. CASE UNCHANGED threadVars
    BY <1>2, <2>5 DEF threadVars
  <2> QED
    BY <1>0, <2>1, <2>2, <2>3, <2>4, <2>5 DEF ThreadStep, CommentStep,
       ThreadCreateCheck, ThreadGetRead, ThreadUpdateRead, CommentCreateCheck,
       CommentCreateStore, CommentUpdateRead, CommentUpdateWrite, CommentDelete
<1>3. ASSUME NEW c \in CommentIds, comments'[c] # Absent, comments[c] = Absent
      PROVE  c \in issued' /\ comments'[c].threadId \in issued'
  <2>1. CASE CommentCreateStore(r)
    <3>1. PICK id \in CommentIds :
            /\ NewID(id)
            /\ CommentStoreCreate(id, [threadId |-> req[r].id, isDeleted |-> FALSE])
      BY <2>1 DEF CommentCreateStore
    <3>2. req[r].id \in issued
      BY <2>1 DEF CommentCreateStore, ClonesPlaced, ClonePlaced
    <3> QED
      BY <1>3, <3>1, <3>2 DEF CommentStoreCreate, NewID
  <2>2. CASE CommentUpdateWrite(r)
    BY <1>3, <2>2 DEF CommentUpdateWrite, CommentStoreUpdate, ReplacePresent
  <2>3. CASE CommentDelete(r)
    BY <1>3, <2>3 DEF CommentDelete, SoftDelete
  <2>4. CASE UNCHANGED commentVars
    BY <1>3, <2>4 DEF commentVars
  <2> QED
    BY <1>0, <2>1, <2>2, <2>3, <2>4 DEF CommentStep, CommentCreateCheck,
       CommentCreateCount, CommentUpdateRead
<1> QED
  BY <1>1, <1>2, <1>3 DEF ReferencesWereStored, StoresEvolve

\* A clone that is written back claims no more replies than are counted now,
\* because the count only grew while it waited.
LEMMA ReplyCountStep ==
    ASSUME ForumInv, ForumNext, ForumTypeOK', StoresEvolve
    PROVE  ReplyCountBounded'
<1> USE DEF ForumInv, ForumTypeOK
<1>0. PICK r \in Requests :
        \/ BoardStep(r) /\ UNCHANGED <<threadVars, commentVars>>
        \/ ThreadStep(r) /\ UNCHANGED commentVars
        \/ CommentStep(r) /\ UNCHANGED boardVars
  BY DEF ForumNext
<1> SUFFICES ASSUME NEW t \in ThreadIds, threads'[t] # Absent
             PROVE  threads'[t].replyCount <= CountByThread(t)'
  BY DEF ReplyCountBounded
<1>1. /\ threads'[t].replyCount \in Nat
      /\ CountByThread(t) \in Nat /\ CountByThread(t)' \in Nat
      /\ CountByThread(t) <= CountByThread(t)'
  BY DEF Thread, CountByThread, StoresEvolve
<1>2. threads[t] # Absent =>
         threads[t].replyCount \in Nat /\ threads[t].replyCount <= CountByThread(t)
  BY DEF Thread, ReplyCountBounded
<1>3. CASE ThreadCreateStore(r)
  BY <1>1, <1>2, <1>3 DEF ThreadCreateStore, ThreadStoreCreate, NewThread
<1>4. CASE ThreadGetCount(r)
  <2>1. req[r].id \in ThreadIds
    BY <1>4, RequestFields DEF ThreadGetCount, AnyRequest
  <2>2. threads[t] # Absent /\ threads'[t].replyCount = threads[t].replyCount
    BY <1>4, <2>1, IncrementViewThread DEF ThreadGetCount
  <2> QED
    BY <1>1, <1>2, <2>2
<1>5. CASE ThreadUpdateWrite(r)
  <2>1. req[r].id \in ThreadIds /\ req[r].thread \in Thread
    BY <1>5, RequestFields DEF ThreadUpdateWrite, AnyRequest
  <2>2. req[r].thread.replyCount <= CountByThread(req[r].id)
    BY <1>5 DEF ThreadUpdateWrite, SnapshotsConsistent, SnapshotConsistent
  <2>3. threads' = ReplacePresent(threads, req[r].id, req[r].thread)
    BY <1>5 DEF ThreadUpdateWrite, ThreadStoreUpdate
  <2> QED
    <3>1. threads[t] # Absent /\ threads'[t] \in {threads[t], req[r].thread}
      BY <2>1, <2>3, ThreadWriteBack
    <3>2. t # req[r].id => threads'[t] = threads[t]
      BY <2>1, <2>3, ThreadWriteBack
    <3>3. CASE threads'[t] = threads[t]
      BY <1>1, <1>2, <3>1, <3>3
    <3>4. CASE t = req[r].id /\ threads'[t] = req[r].thread
      BY <1>1, <2>2, <3>4
    <3> QED
      BY <3>1, <3>2, <3>3, <3>4
<1>6. CASE CommentCreateCount(r)
  <2>1. req[r].id \in ThreadIds /\ req[r].thread \in Thread
    BY <1>6, RequestFields DEF CommentCreateCount, AnyRequest
  <2>2. req[r].thread.replyCount + 1 <= CountByThread(req[r].id)
    BY <1>6 DEF CommentCreateCount, SnapshotsConsistent, SnapshotConsistent
  <2>3. threads' = ReplacePresent(threads, req[r].id, IncrementReply(req[r].thread))
    BY <1>6 DEF CommentCreateCount, ThreadStoreUpdate
  <2> QED
    <3> DEFINE counted == IncrementReply(req[r].thread)
    <3>1. counted \in Thread /\ counted.replyCount = req[r].thread.replyCount + 1
      BY <2>1, IncrementReplyThread
    <3>2. /\ threads[t] # Absent /\ threads'[t] \in {threads[t], counted}
          /\ t # req[r].id => threads'[t] = threads[t]
      BY <2>1, <2>3, <3>1, ThreadWriteBack
    <3>3. CASE threads'[t] = threads[t]
      BY <1>1, <1>2, <3>2, <3>3
    <3>4. CASE t = req[r].id /\ threads'[t] = counted
      BY <1>1, <2>2, <3>1, <3>4
    <3> QED
      BY <3>2, <3>3, <3>4
<1>7. CASE ThreadDelete(r)
  BY <1>1, <1>2, <1>7 DEF ThreadDelete, ThreadStoreDelete
<1>8. CASE UNCHANGED threadVars
  BY <1>1, <1>2, <1>8 DEF threadVars
<1> QED
  BY <1>0, <1>3, <1>4, <1>5, <1>6, <1>7, <1>8 DEF ThreadStep, CommentStep,
     ThreadCreateCheck, ThreadGetRead, ThreadUpdateRead, CommentCreateCheck,
     CommentCreateStore, CommentUpdateRead, CommentUpdateWrite, CommentDelete

\* The index stays exact under every step that leaves it alone and changes
\* neither which comments are stored nor their threads.
LEMMA CommentIndexKept ==
    ASSUME IndexInv, ForumTypeOK', threadIdx' = threadIdx,
           \A c \in CommentIds :
              /\ comments'[c] = Absent <=> comments[c] = Absent
              /\ comments[c] # Absent => comments'[c].threadId = comments[c].threadId
    PROVE  CommentIndexExact'
<1>1. \A t \in ThreadIds : \A i \in 1..Len(threadIdx[t]) : threadIdx[t][i] \in CommentIds
  BY DEF IndexInv, ForumTypeOK
<1>2. \A c \in CommentIds : comments[c] # Absent => comments[c].threadId \in ThreadIds
  BY DEF IndexInv, ForumTypeOK, Comment
<1> QED
  BY <1>1, <1>2 DEF CommentIndexExact, IndexInv

\* The new comment goes to the end of its thread's index; it is in no index
\* yet, because its identifier is fresh.
LEMMA CommentIndexGrows ==
    ASSUME IndexInv, ForumTypeOK', NEW id \in CommentIds, NEW t \in ThreadIds,
           CommentStoreCreate(id, [threadId |-> t, isDeleted |-> FALSE])
    PROVE  CommentIndexExact'
<1> USE DEF IndexInv, ForumTypeOK
<1>1. /\ comments[id] = Absent
      /\ comments' = [comments EXCEPT ![id] = [threadId |-> t, isDeleted |-> FALSE]]
      /\ threadIdx' = [threadIdx EXCEPT ![t] = Append(threadIdx[t], id)]
  BY DEF CommentStoreCreate
<1>2. comments'[id] # Absent /\ comments'[id].threadId = t
  <2>1. [threadId |-> t, isDeleted |-> FALSE] \in Comment
    BY DEF Comment
  <2> QED
    BY <1>1, <2>1, CommentAssumption
<1>3. \A u \in ThreadIds : \A i \in 1..Len(threadIdx[u]) :
         threadIdx[u][i] \in CommentIds /\ threadIdx[u][i] # id
  BY <1>1 DEF CommentIndexExact
<1>4. ASSUME NEW u \in ThreadIds, NEW i \in 1..Len(threadIdx'[u])
      PROVE  /\ comments'[threadIdx'[u][i]] # Absent
             /\ comments'[threadIdx'[u][i]].threadId = u
             /\ \A k \in 1..Len(threadIdx'[u]) : threadIdx'[u][i] = threadIdx'[u][k] => i = k
  BY <1>1, <1>2, <1>3, <1>4 DEF CommentIndexExact
<1>5. ASSUME NEW c \in CommentIds, comments'[c] # Absent
      PROVE  \E i \in 1..Len(threadIdx'[comments'[c].threadId]) :
                threadIdx'[comments'[c].threadId][i] = c
  <2>1. CASE c = id
    <3>1. threadIdx'[t] = Append(threadIdx[t], id) /\ threadIdx[t] \in Seq(CommentIds)
      BY <1>1
    <3>2. Len(threadIdx[t]) + 1 \in 1..Len(threadIdx'[t])
          /\ threadIdx'[t][Len(threadIdx[t]) + 1] = id
      BY <3>1
    <3> QED
      BY <1>2, <2>1, <3>2
  <2>2. CASE c # id
    <3>1. comments[c] # Absent /\ comments'[c] = comments[c]
          /\ comments[c].threadId \in ThreadIds
      BY <1>1, <1>5, <2>2 DEF Comment
    <3>2. PICK i \in 1..Len(threadIdx[comments[c].threadId]) :
            threadIdx[comments[c].threadId][i] = c
      BY <3>1 DEF CommentIndexExact
    <3>3. i \in 1..Len(threadIdx'[comments[c].threadId])
          /\ threadIdx'[comments[c].threadId][i] = c
      BY <1>1, <3>1, <3>2
    <3> QED
      BY <3>1, <3>3
  <2> QED
    BY <2>1, <2>2
<1> QED
  BY <1>4, <1>5 DEF CommentIndexExact

\* Only the store of a comment changes the index of the comments of a thread.
LEMMA CommentIndexStep ==
    ASSUME IndexInv, ForumNext, ForumTypeOK', StoresEvolve
    PROVE  CommentIndexExact'
<1> USE DEF IndexInv, ForumTypeOK
<1>0. PICK r \in Requests :
        \/ BoardStep(r) /\ UNCHANGED <<threadVars, commentVars>>
        \/ ThreadStep(r) /\ UNCHANGED commentVars
        \/ CommentStep(r) /\ UNCHANGED boardVars
  BY DEF ForumNext
<1>1. CASE CommentCreateStore(r)
  <2>1. req[r].id \in ThreadIds
    BY <1>1, RequestFields DEF CommentCreateStore, AnyRequest
  <2> QED
    BY <1>1, <2>1, CommentIndexGrows DEF CommentCreateStore
<1>2. CASE ~CommentCreateStore(r)
  <2>1. threadIdx' = threadIdx
    BY <1>0, <1>2 DEF CommentStep, CommentCreateCheck, CommentCreateCount,
       CommentUpdateRead, CommentUpdateWrite, CommentDelete, CommentStoreUpdate,
       SoftDelete, commentVars
  <2>2. \A c \in CommentIds : comments[c] = Absent => comments'[c] = Absent
    BY <1>0, <1>2 DEF CommentStep, CommentCreateCheck, CommentCreateCount,
       CommentUpdateRead, CommentUpdateWrite, CommentDelete, CommentStoreUpdate,
       SoftDelete, ReplacePresent, commentVars
  <2> QED
    BY <2>1, <2>2, CommentIndexKept DEF StoresEvolve
<1> QED
  BY <1>1, <1>2

\* The same for the index of the threads of a board.
LEMMA ThreadIndexKept ==
    ASSUME IndexInv, ForumTypeOK', boardIdx' = boardIdx,
           \A t \in ThreadIds :
              /\ threads'[t] = Absent <=> threads[t] = Absent
              /\ threads[t] # Absent => threads'[t].boardId = threads[t].boardId
    PROVE  ThreadIndexExact'
<1>1. \A b \in BoardIds : \A i \in 1..Len(boardIdx[b]) : boardIdx[b][i] \in ThreadIds
  BY DEF IndexInv, ForumTypeOK
<1>2. \A t \in ThreadIds : threads[t] # Absent => threads[t].boardId \in BoardIds
  BY DEF IndexInv, ForumTypeOK, Thread
<1> QED
  BY <1>1, <1>2 DEF ThreadIndexExact, IndexInv

\* The new thread goes to the end of its board's index; its identifier is
\* fresh, so it is in no index yet.
LEMMA ThreadIndexGrows ==
    ASSUME IndexInv, ForumTypeOK', NEW id \in ThreadIds, NEW b \in BoardIds,
           ThreadStoreCreate(id, NewThread(b))
    PROVE  ThreadIndexExact'
<1>1. NewThread(b) \in Thread /\ NewThread(b).boardId = b
  BY DEF NewThread, Thread
<1>2. /\ threads[id] = Absent
      /\ threads'[id] # Absent /\ threads'[id].boardId = b
      /\ \A t \in ThreadIds : t # id => threads'[t] = threads[t]
      /\ boardIdx'[b] = Append(boardIdx[b], id)
      /\ \A d \in BoardIds : d # b => boardIdx'[d] = boardIdx[d]
  BY <1>1, ThreadAssumption DEF ThreadStoreCreate, IndexInv, ForumTypeOK
<1>3. PICK ids \in Seq(ThreadIds) : ids = boardIdx[b]
  BY DEF IndexInv, ForumTypeOK
<1>4. PICK n \in Nat : n = Len(ids)
  BY <1>3
<1>5. PICK out : out = Append(ids, id)
  OBVIOUS
<1>6. /\ boardIdx'[b] = out /\ Len(out) = n + 1 /\ out[n + 1] = id
      /\ \A i \in 1..n : out[i] = ids[i]
  BY <1>2, <1>3, <1>4, <1>5
<1>7. ASSUME NEW d \in BoardIds, NEW i \in 1..Len(boardIdx[d])
      PROVE  /\ boardIdx[d][i] # id
             /\ threads'[boardIdx[d][i]] # Absent
             /\ threads'[boardIdx[d][i]].boardId = d
             /\ \A k \in 1..Len(boardIdx[d]) : boardIdx[d][i] = boardIdx[d][k] => i = k
  <2>1. boardIdx[d] \in Seq(ThreadIds)
    BY DEF IndexInv, ForumTypeOK
  <2>2. boardIdx[d][i] \in ThreadIds
    BY <2>1
  <2>3. /\ threads[boardIdx[d][i]] # Absent
        /\ threads[boardIdx[d][i]].boardId = d
        /\ \A k \in 1..Len(boardIdx[d]) : boardIdx[d][i] = boardIdx[d][k] => i = k
    BY <1>7 DEF IndexInv, ThreadIndexExact
  <2> QED
    BY <1>2, <2>2, <2>3
<1>8. ASSUME NEW d \in BoardIds, NEW i \in 1..Len(boardIdx'[d])
      PROVE  /\ threads'[boardIdx'[d][i]] # Absent
             /\ threads'[boardIdx'[d][i]].boardId = d
             /\ \A k \in 1..Len(boardIdx'[d]) : boardIdx'[d][i] = boardIdx'[d][k] => i = k
  <2>1. CASE d # b
    <3>1. boardIdx'[d] = boardIdx[d] /\ i \in 1..Len(boardIdx[d])
      BY <1>2, <1>8, <2>1
    <3> QED
      BY <1>7, <3>1
  <2>2. CASE d = b
    <3>1. i \in 1..(n + 1)
      BY <1>6, <1>8, <2>2
    <3>2. ASSUME NEW j \in 1..n
          PROVE  /\ out[j] # id
                 /\ threads'[out[j]] # Absent /\ threads'[out[j]].boardId = b
                 /\ \A k \in 1..n : out[j] = out[k] => j = k
      <4>1. /\ ids[j] # id
            /\ threads'[ids[j]] # Absent /\ threads'[ids[j]].boardId = b
            /\ \A k \in 1..n : ids[j] = ids[k] => j = k
        BY <1>3, <1>4, <1>7
      <4>2. \A k \in 1..n : out[k] = ids[k]
        BY <1>6
      <4> QED
        BY <4>1, <4>2
    <3>3. threads'[out[i]] # Absent /\ threads'[out[i]].boardId = b
      BY <1>2, <1>6, <3>1, <3>2
    <3>4. \A k \in 1..(n + 1) : out[i] = out[k] => i = k
      BY <1>6, <3>1, <3>2
    <3> QED
      BY <1>6, <2>2, <3>3, <3>4
  <2> QED
    BY <2>1, <2>2
<1>9. ASSUME NEW t \in ThreadIds, threads'[t] # Absent
      PROVE  \E i \in 1..Len(boardIdx'[threads'[t].boardId]) :
                boardIdx'[threads'[t].boardId][i] = t
  <2>1. CASE t = id
    <3>1. n + 1 \in 1..Len(boardIdx'[b]) /\ boardIdx'[b][n + 1] = id
      BY <1>6
    <3> QED
      BY <1>2, <2>1, <3>1
  <2>2. CASE t # id
    <3>1. threads[t] # Absent /\ threads'[t] = threads[t] /\ threads[t].boardId \in BoardIds
      BY <1>2, <1>9, <2>2 DEF IndexInv, ForumTypeOK, Thread
    <3>2. PICK i \in 1..Len(boardIdx[threads[t].boardId]) :
            boardIdx[threads[t].boardId][i] = t
      BY <3>1 DEF IndexInv, ThreadIndexExact
    <3>3. i \in 1..Len(boardIdx'[threads[t].boardId])
          /\ boardIdx'[threads[t].boardId][i] = t
      BY <1>2, <1>3, <1>4, <1>6, <3>1, <3>2
    <3> QED
      BY <3>1, <3>3
  <2> QED
    BY <2>1, <2>2
<1> QED
  BY <1>8, <1>9 DEF ThreadIndexExact

\* A deleted thread leaves its board's index; it was in no other.
LEMMA ThreadIndexShrinks ==
    ASSUME IndexInv, ForumTypeOK', NEW id \in ThreadIds, ThreadStoreDelete(id)
    PROVE  ThreadIndexExact'
<1>1. PICK b \in BoardIds :
        /\ threads[id] # Absent /\ b = threads[id].boardId
        /\ threads' = [threads EXCEPT ![id] = Absent]
        /\ boardIdx' = [boardIdx EXCEPT ![b] = WithoutFirst(boardIdx[b], id)]
  BY DEF ThreadStoreDelete, Thread, IndexInv, ForumTypeOK
<1>2. PICK ids \in Seq(ThreadIds) : ids = boardIdx[b]
  BY DEF IndexInv, ForumTypeOK
<1>3. PICK out : out = WithoutFirst(ids, id)
  OBVIOUS
<1>4. boardIdx'[b] = out /\ \A d \in BoardIds : d # b => boardIdx'[d] = boardIdx[d]
  BY <1>1, <1>2, <1>3 DEF IndexInv, ForumTypeOK
<1>5. TakesOut(out, ids, id)
  <2>1. NoRepetition(ids)
    BY <1>2 DEF IndexInv, ThreadIndexExact, NoRepetition
  <2> QED
    BY <1>3, <2>1, WithoutFirstElements
<1>6. \A t \in ThreadIds :
         /\ t # id => threads'[t] = threads[t]
         /\ threads'[t] # Absent => t # id
         /\ threads[t] # Absent => threads[t].boardId \in BoardIds
  BY <1>1 DEF IndexInv, ForumTypeOK, Thread
<1>7. ASSUME NEW d \in BoardIds, NEW i \in 1..Len(boardIdx[d])
      PROVE  /\ boardIdx[d][i] \in ThreadIds
             /\ threads[boardIdx[d][i]] # Absent
             /\ threads[boardIdx[d][i]].boardId = d
             /\ \A k \in 1..Len(boardIdx[d]) : boardIdx[d][i] = boardIdx[d][k] => i = k
  <2>1. boardIdx[d] \in Seq(ThreadIds)
    BY DEF IndexInv, ForumTypeOK
  <2>2. boardIdx[d][i] \in ThreadIds
    BY <2>1
  <2> QED
    BY <2>2 DEF IndexInv, ThreadIndexExact
<1>8. ASSUME NEW d \in BoardIds, NEW i \in 1..Len(boardIdx'[d])
      PROVE  /\ threads'[boardIdx'[d][i]] # Absent
             /\ threads'[boardIdx'[d][i]].boardId = d
             /\ \A k \in 1..Len(boardIdx'[d]) : boardIdx'[d][i] = boardIdx'[d][k] => i = k
  <2>1. CASE d = b
    <3>1. PICK j \in 1..Len(ids) : out[i] = ids[j] /\ out[i] # id
      BY <1>4, <1>5, <1>8, <2>1 DEF TakesOut
    <3>2. /\ out[i] \in ThreadIds
          /\ threads[out[i]] # Absent /\ threads[out[i]].boardId = b
      BY <1>2, <1>7, <3>1
    <3>3. threads'[out[i]] = threads[out[i]]
      BY <1>6, <3>1, <3>2
    <3> QED
      BY <1>4, <1>5, <1>8, <2>1, <3>2, <3>3 DEF TakesOut, NoRepetition
  <2>2. CASE d # b
    <3>1. boardIdx'[d] = boardIdx[d]
      BY <1>4, <2>2
    <3>2. boardIdx[d][i] # id
      BY <1>1, <1>7, <1>8, <2>2, <3>1
    <3> QED
      BY <1>6, <1>7, <1>8, <3>1, <3>2
  <2> QED
    BY <2>1, <2>2
<1>9. ASSUME NEW t \in ThreadIds, threads'[t] # Absent
      PROVE  \E i \in 1..Len(boardIdx'[threads'[t].boardId]) :
                boardIdx'[threads'[t].boardId][i] = t
  <2>1. /\ t # id /\ threads[t] # Absent /\ threads'[t] = threads[t]
        /\ threads[t].boardId \in BoardIds
    BY <1>6, <1>9
  <2>2. PICK j \in 1..Len(boardIdx[threads[t].boardId]) : boardIdx[threads[t].boardId][j] = t
    BY <2>1 DEF IndexInv, ThreadIndexExact
  <2>3. CASE threads[t].boardId = b
    <3>1. j \in 1..Len(ids) /\ ids[j] = t
      BY <1>2, <2>2, <2>3
    <3>2. PICK i \in 1..Len(out) : out[i] = ids[j]
      BY <1>5, <2>1, <3>1 DEF TakesOut
    <3> QED
      BY <1>4, <2>1, <2>3, <3>1, <3>2
  <2>4. CASE threads[t].boardId # b
    BY <1>4, <2>1, <2>2, <2>4
  <2> QED
    BY <2>3, <2>4
<1> QED
  BY <1>8, <1>9 DEF ThreadIndexExact

\* Only the store and the deletion of a thread change the index of a board.
LEMMA ThreadIndexStep ==
    ASSUME IndexInv, ForumNext, ForumTypeOK', StoresEvolve
    PROVE  ThreadIndexExact'
<1>0. PICK r \in Requests :
        \/ BoardStep(r) /\ UNCHANGED <<threadVars, commentVars>>
        \/ ThreadStep(r) /\ UNCHANGED commentVars
        \/ CommentStep(r) /\ UNCHANGED boardVars
  BY DEF ForumNext
<1>1. CASE ThreadCreateStore(r)
  <2>1. req[r].board \in BoardIds
    BY <1>1, RequestFields DEF ThreadCreateStore, AnyRequest, IndexInv, ForumTypeOK
  <2> QED
    BY <1>1, <2>1, ThreadIndexGrows DEF ThreadCreateStore
<1>2. CASE ThreadDelete(r)
  BY <1>2, ThreadIndexShrinks DEF ThreadDelete
<1>3. CASE ~ThreadCreateStore(r) /\ ~ThreadDelete(r)
  <2>1. boardIdx' = boardIdx
    BY <1>0, <1>3 DEF ThreadStep, ThreadCreateCheck, ThreadGetRead, ThreadGetCount,
       IncrementViewCount, ThreadUpdateRead, ThreadUpdateWrite, ThreadStoreUpdate,
       CommentStep, CommentCreateCheck, CommentCreateStore, CommentCreateCount,
       CommentUpdateRead, CommentUpdateWrite, CommentDelete, threadVars
  <2>2. ASSUME NEW t \in ThreadIds
        PROVE  threads'[t] = Absent <=> threads[t] = Absent
    <3>1. CASE ThreadGetCount(r)
      BY <3>1, RequestFields, IncrementViewThread
         DEF ThreadGetCount, AnyRequest, IndexInv, ForumTypeOK
    <3>2. CASE ThreadUpdateWrite(r)
      BY <3>2, RequestFields, ThreadWriteBack
         DEF ThreadUpdateWrite, ThreadStoreUpdate, AnyRequest, IndexInv, ForumTypeOK
    <3>3. CASE CommentCreateCount(r)
      BY <3>3, RequestFields, IncrementReplyThread, ThreadWriteBack
         DEF CommentCreateCount, ThreadStoreUpdate, AnyRequest, IndexInv, ForumTypeOK
    <3>4. CASE UNCHANGED threadVars
      BY <3>4 DEF threadVars
    <3> QED
      BY <1>0, <1>3, <3>1, <3>2, <3>3, <3>4 DEF ThreadStep, ThreadCreateCheck,
         ThreadGetRead, ThreadUpdateRead, CommentStep, CommentCreateCheck,
         CommentCreateStore, CommentUpdateRead, CommentUpdateWrite, CommentDelete
  <2>3. \A t \in ThreadIds :
           threads[t] # Absent => threads'[t].boardId = threads[t].boardId
    BY <2>2 DEF StoresEvolve, IndexInv, ReferencesWereStored
  <2> QED
    BY <2>1, <2>2, <2>3, ThreadIndexKept
<1> QED
  BY <1>1, <1>2, <1>3

-----------------------------------------------------------------------------
(* The theorems                                                            *)

\* The invariant holds of a forum with nothing in it.
LEMMA ForumInvInit == ForumInit => ForumInv
<1> SUFFICES ASSUME ForumInit PROVE ForumInv
  OBVIOUS
<1>1. /\ \A r \in Requests : req[r] = Idle
      /\ \A b \in BoardIds : boards[b] = Absent /\ boardIdx[b] = <<>>
      /\ \A t \in ThreadIds : threads[t] = Absent /\ threadIdx[t] = <<>>
      /\ \A c \in CommentIds : comments[c] = Absent
  BY DEF ForumInit, BoardStoreInit, ThreadStoreInit, CommentStoreInit, HandlersInit
<1>2. \A t \in ThreadIds : Len(threadIdx[t]) = 0
  BY <1>1
<1>3. \A b \in BoardIds : Len(boardIdx[b]) = 0
  BY <1>1
<1>4. SnapshotsConsistent
  <2>1. SnapshotConsistent(Idle)
    BY DEF SnapshotConsistent, Idle
  <2> QED
    BY <1>1, <2>1 DEF SnapshotsConsistent
<1> QED
  BY <1>1, <1>2, <1>3, <1>4, ForumInitType DEF ForumInv, ReferencesWereStored,
     ReplyCountBounded, ThreadIndexExact, CommentIndexExact

\* Every step lets the stores evolve as the clones in flight rely on.
LEMMA ForumNextEvolves == IndexInv /\ ForumNext => StoresEvolve
BY BoardStepEvolves, ThreadStepEvolves, CommentStepEvolves DEF ForumNext

\* The invariant is inductive.
LEMMA ForumInvNext == ForumInv /\ [ForumNext]_forumVars => ForumInv'
<1> SUFFICES ASSUME ForumInv, [ForumNext]_forumVars PROVE ForumInv'
  OBVIOUS
<1>1. ForumTypeOK'
  BY ForumNextType DEF ForumInv
<1>2. CASE UNCHANGED forumVars
  <2>1. /\ boards' = boards /\ threads' = threads /\ boardIdx' = boardIdx
        /\ comments' = comments /\ threadIdx' = threadIdx
        /\ req' = req /\ issued' = issued
    BY <1>2 DEF forumVars, boardVars, threadVars, commentVars, handlerVars
  <2>2. ReferencesWereStored'
    BY <2>1 DEF ForumInv, ReferencesWereStored
  <2>3. SnapshotsConsistent'
    BY <2>1 DEF ForumInv, SnapshotsConsistent, SnapshotConsistent, CountByThread
  <2>4. ReplyCountBounded'
    BY <2>1 DEF ForumInv, ReplyCountBounded, CountByThread
  <2>5. ThreadIndexExact' /\ CommentIndexExact'
    BY <2>1 DEF ForumInv, ThreadIndexExact, CommentIndexExact
  <2> QED
    BY <1>1, <2>2, <2>3, <2>4, <2>5 DEF ForumInv
<1>3. CASE ForumNext
  <2>1. IndexInv
    BY InvIndexes
  <2>2. StoresEvolve
    BY <1>3, <2>1, ForumNextEvolves
  <2> QED
    BY <1>1, <1>3, <2>1, <2>2, ReferencesStep, SnapshotsStep, ReplyCountStep,
       ThreadIndexStep, CommentIndexStep DEF ForumInv
<1> QED
  BY <1>2, <1>3

\* The inductive invariant holds of every run of the forum: the types, the
\* indexes, the reply counts and the clones in flight.
THEOREM ForumInvariant == ForumSpec => []ForumInv
BY ForumInvInit, ForumInvNext, PTL DEF ForumSpec

\* A thread never claims more replies than there are comments on it, however
\* many goroutines write stale clones of it back.
THEOREM RepliesBounded == ForumSpec => []ReplyCountBounded
<1>1. ForumInv => ReplyCountBounded
  BY DEF ForumInv
<1> QED
  BY <1>1, ForumInvariant, PTL

\* What a goroutine holds between two store calls stays consistent with the
\* stores.
THEOREM SnapshotsStayConsistent == ForumSpec => []SnapshotsConsistent
<1>1. ForumInv => SnapshotsConsistent
  BY DEF ForumInv
<1> QED
  BY <1>1, ForumInvariant, PTL

\* Listing the threads of a board meets every thread of the board once and no
\* identifier without a thread.
THEOREM ThreadIndexSound == ForumSpec => []ThreadIndexExact
<1>1. ForumInv => ThreadIndexExact
  BY DEF ForumInv
<1> QED
  BY <1>1, ForumInvariant, PTL

\* Listing the comments of a thread meets every comment of the thread once and
\* no identifier without a comment.
THEOREM CommentIndexSound == ForumSpec => []CommentIndexExact
<1>1. ForumInv => CommentIndexExact
  BY DEF ForumInv
<1> QED
  BY <1>1, ForumInvariant, PTL

\* No stored thread or comment refers to what was never stored.
THEOREM ReferencesSound == ForumSpec => []ReferencesWereStored
<1>1. ForumInv => ReferencesWereStored
  BY DEF ForumInv
<1> QED
  BY <1>1, ForumInvariant, PTL

\* No write-back of a stale clone brings a deleted thread back.
THEOREM DeletedThreadsStayGone == ForumSpec => DeletedThreadStaysGone
<1>1. ForumInv /\ [ForumNext]_forumVars =>
         [\A t \in ThreadIds :
             t \in issued /\ threads[t] = Absent => threads'[t] = Absent]_forumVars
  BY InvIndexes, ForumNextEvolves DEF StoresEvolve
<1> QED
  BY <1>1, ForumInvariant, PTL DEF ForumSpec, DeletedThreadStaysGone

=============================================================================

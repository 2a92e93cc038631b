---------------------------- MODULE RestartProofs ---------------------------
(***************************************************************************)
(* Proofs about the forum and its files, for any number of goroutines and  *)
(* records, whenever each file is saved and whenever the process ends.     *)
(*                                                                         *)
(* A restart puts the stores of three different times together.  What is   *)
(* proved of the forum needs more than that leaves: IndexInv is the part   *)
(* of its invariant that survives, as long as the same is true of what the *)
(* files hold (SavedInv).                                                  *)
(***************************************************************************)
EXTENDS ForumRestart, IsolatedProofs, FiniteSetTheorems

-----------------------------------------------------------------------------
(* The indexes a load builds                                               *)

\* An order of a finite set is a slice with each element of it once.
LEMMA OrdersAreSlices ==
    ASSUME NEW S, IsFiniteSet(S), NEW ids \in SetToSeqs(S)
    PROVE  /\ ids \in Seq(S)
           /\ \A x \in S : \E i \in 1..Len(ids) : ids[i] = x
           /\ NoRepetition(ids)
<1> DEFINE N == Cardinality(S)
<1>1. N \in Nat
  BY FS_CardinalityType
<1>2. ids \in [1..N -> S] /\ \A i, j \in 1..N : i # j => ids[i] # ids[j]
  BY DEF SetToSeqs
<1>3. ids \in Seq(S) /\ Len(ids) = N
  <2> HIDE DEF N
  <2> QED
    BY <1>1, <1>2
<1>4. \A x \in S : \E i \in 1..N : ids[i] = x
  <2>1. ids \in Injection(1..N, S)
    BY <1>2 DEF Injection, IsInjective
  <2>2. Cardinality(1..N) = N
    <3> HIDE DEF N
    <3> QED
      BY <1>1, FS_Interval
  <2>3. ids \in Surjection(1..N, S)
    BY <2>1, <2>2, FS_Injection
  <2> QED
    BY <2>3 DEF Surjection
<1> QED
  BY <1>2, <1>3, <1>4 DEF NoRepetition

\* The index idx has, for each owner in D, a slice with the keys in K it holds,
\* each once.
Slices(D, K, held, idx) ==
    /\ idx \in [D -> Seq(K)]
    /\ \A x \in D :
          /\ \A i \in 1..Len(idx[x]) : idx[x][i] \in held[x]
          /\ \A k \in held[x] : \E i \in 1..Len(idx[x]) : idx[x][i] = k
          /\ NoRepetition(idx[x])

\* A load builds such an index.
LEMMA IndexedSlices ==
    ASSUME NEW D, NEW K, IsFiniteSet(K), NEW held, NEW idx \in Indexed(held),
           DOMAIN held = D, \A x \in D : held[x] \subseteq K
    PROVE  Slices(D, K, held, idx)
<1>1. /\ idx \in [D -> UNION {SetToSeqs(held[x]) : x \in D}]
      /\ \A x \in D : idx[x] \in SetToSeqs(held[x])
  BY DEF Indexed
<1>2. ASSUME NEW x \in D
      PROVE  /\ idx[x] \in Seq(K)
             /\ \A i \in 1..Len(idx[x]) : idx[x][i] \in held[x]
             /\ \A k \in held[x] : \E i \in 1..Len(idx[x]) : idx[x][i] = k
             /\ NoRepetition(idx[x])
  <2>1. IsFiniteSet(held[x])
    BY FS_Subset
  <2>2. /\ idx[x] \in Seq(held[x])
        /\ \A k \in held[x] : \E i \in 1..Len(idx[x]) : idx[x][i] = k
        /\ NoRepetition(idx[x])
    BY <1>1, <2>1, OrdersAreSlices
  <2>3. \A i \in 1..Len(idx[x]) : idx[x][i] \in held[x]
    BY <2>2
  <2>4. idx[x] \in Seq(K)
    BY <2>2
  <2> QED
    BY <2>2, <2>3, <2>4
<1> QED
  BY <1>1, <1>2 DEF Slices

-----------------------------------------------------------------------------
(* Type correctness                                                        *)

\* The copies in the files are of the types of the stores.
SavedTypeOK ==
    /\ savedBoards \in [BoardIds -> Board \cup {Absent}]
    /\ savedThreads \in [ThreadIds -> Thread \cup {Absent}]
    /\ savedComments \in [CommentIds -> Comment \cup {Absent}]

\* What a store starts with is of the type of its file, and has only what the
\* file has.
LEMMA LoadedType ==
    ASSUME NEW K, NEW T, NEW saved \in [K -> T \cup {Absent}], NEW readable
    PROVE  /\ Loaded(saved, readable) \in [K -> T \cup {Absent}]
           /\ \A k \in K : Loaded(saved, readable)[k] \in {saved[k], Absent}
           /\ readable => Loaded(saved, readable) = saved
BY DEF Loaded

\* What a restart leaves in the stores and the indexes.
LEMMA LoadsType ==
    ASSUME SavedTypeOK, NEW x, NEW y, NEW z, LoadBoards(x), LoadThreads(y), LoadComments(z)
    PROVE  /\ boards' \in [BoardIds -> Board \cup {Absent}]
           /\ threads' \in [ThreadIds -> Thread \cup {Absent}]
           /\ comments' \in [CommentIds -> Comment \cup {Absent}]
           /\ slugIdx' \in [Slugs -> BoardIds \cup {Absent}]
           /\ boardIdx' \in [BoardIds -> Seq(ThreadIds)]
           /\ threadIdx' \in [ThreadIds -> Seq(CommentIds)]
<1>0. /\ boards' \in [BoardIds -> Board \cup {Absent}]
      /\ threads' \in [ThreadIds -> Thread \cup {Absent}]
      /\ comments' \in [CommentIds -> Comment \cup {Absent}]
  <2>1. boards' = Loaded(savedBoards, x)
    BY DEF LoadBoards
  <2>2. threads' = Loaded(savedThreads, y) /\ comments' = Loaded(savedComments, z)
    BY DEF LoadThreads, LoadComments
  <2> QED
    BY <2>1, <2>2, LoadedType DEF SavedTypeOK
<1>1. boardIdx' \in [BoardIds -> Seq(ThreadIds)]
  <2> DEFINE held == [b \in BoardIds |-> {t \in Keys(threads') : threads'[t].boardId = b}]
  <2>1. boardIdx' \in Indexed(held)
    BY DEF LoadThreads
  <2>2. DOMAIN held = BoardIds /\ \A b \in BoardIds : held[b] \subseteq ThreadIds
    BY <1>0 DEF Keys
  <2> HIDE DEF held
  <2> QED
    BY <2>1, <2>2, RestartAssumption, IndexedSlices DEF Slices
<1>2. threadIdx' \in [ThreadIds -> Seq(CommentIds)]
  <2> DEFINE held == [t \in ThreadIds |-> {c \in Keys(comments') : comments'[c].threadId = t}]
  <2>1. threadIdx' \in Indexed(held)
    BY DEF LoadComments
  <2>2. DOMAIN held = ThreadIds /\ \A t \in ThreadIds : held[t] \subseteq CommentIds
    BY <1>0 DEF Keys
  <2> HIDE DEF held
  <2> QED
    BY <2>1, <2>2, RestartAssumption, IndexedSlices DEF Slices
<1>3. slugIdx' \in [Slugs -> BoardIds \cup {Absent}]
  BY DEF LoadBoards
<1> QED
  BY <1>0, <1>1, <1>2, <1>3

\* What a restart does, file by file.
LEMMA RestartLoads ==
    ASSUME Restart
    PROVE  /\ LoadBoards("boards" \notin unread')
           /\ LoadThreads("threads" \notin unread')
           /\ LoadComments("comments" \notin unread')
           /\ boards' = Loaded(savedBoards, "boards" \notin unread')
           /\ threads' = Loaded(savedThreads, "threads" \notin unread')
           /\ comments' = Loaded(savedComments, "comments" \notin unread')
           /\ \A r \in Requests : req'[r] = Idle
           /\ UNCHANGED <<savedBoards, savedThreads, savedComments, issued, posted>>
           /\ unread' \subseteq Stores
BY DEF Restart, LoadBoards, LoadThreads, LoadComments, savedVars

\* What a restart puts into the stores was in the files.
LEMMA RestartFinds ==
    ASSUME SavedTypeOK, Restart
    PROVE  /\ \A b \in BoardIds : boards'[b] \in {savedBoards[b], Absent}
           /\ \A t \in ThreadIds : threads'[t] \in {savedThreads[t], Absent}
           /\ \A c \in CommentIds : comments'[c] \in {savedComments[c], Absent}
           /\ "comments" \notin unread' => comments' = savedComments
<1>1. /\ boards' = Loaded(savedBoards, "boards" \notin unread')
      /\ threads' = Loaded(savedThreads, "threads" \notin unread')
      /\ comments' = Loaded(savedComments, "comments" \notin unread')
  BY RestartLoads
<1>2. \A b \in BoardIds : boards'[b] \in {savedBoards[b], Absent}
  <2>1. savedBoards \in [BoardIds -> Board \cup {Absent}]
    BY DEF SavedTypeOK
  <2> QED
    BY <1>1, <2>1, LoadedType
<1>3. \A t \in ThreadIds : threads'[t] \in {savedThreads[t], Absent}
  <2>1. savedThreads \in [ThreadIds -> Thread \cup {Absent}]
    BY DEF SavedTypeOK
  <2> QED
    BY <1>1, <2>1, LoadedType
<1>4. \A c \in CommentIds : comments'[c] \in {savedComments[c], Absent}
  <2>1. savedComments \in [CommentIds -> Comment \cup {Absent}]
    BY DEF SavedTypeOK
  <2> QED
    BY <1>1, <2>1, LoadedType
<1>5. "comments" \notin unread' => comments' = savedComments
  BY <1>1 DEF Loaded
<1> QED
  BY <1>2, <1>3, <1>4, <1>5

\* A load makes stores of their types, and every save copies one.
LEMMA RestartNextType == RestartTypeOK /\ [RestartNext]_restartVars => RestartTypeOK'
<1> SUFFICES ASSUME RestartTypeOK, [RestartNext]_restartVars PROVE RestartTypeOK'
  OBVIOUS
<1> USE DEF RestartTypeOK
<1>1. CASE UNCHANGED restartVars
  BY <1>1 DEF restartVars, savedVars, forumVars, boardVars, threadVars, commentVars,
     handlerVars, ForumTypeOK
<1>2. CASE RequestStep
  <2>1. ForumTypeOK'
    BY <1>2, ForumNextType DEF RequestStep
  <2> QED
    BY <1>2, <2>1 DEF RequestStep, savedVars
<1>3. CASE SaveBoards \/ SaveThreads \/ SaveComments
  <2>1. UNCHANGED forumVars
    BY <1>3 DEF SaveBoards, SaveThreads, SaveComments
  <2>2. ForumTypeOK'
    BY <2>1, ForumNextType
  <2> QED
    BY <1>3, <2>2 DEF SaveBoards, SaveThreads, SaveComments, ForumTypeOK
<1>4. CASE Restart
  <2>1. SavedTypeOK
    BY DEF SavedTypeOK
  <2>2. /\ UNCHANGED <<issued, savedBoards, savedThreads, savedComments, posted>>
        /\ unread' \subseteq Stores
    BY <1>4, RestartLoads
  <2>3. req' = [r \in Requests |-> Idle]
    BY <1>4 DEF Restart
  <2> QED
    BY <1>4, <2>1, <2>2, <2>3, RestartLoads, LoadsType DEF ForumTypeOK
<1> QED
  BY <1>1, <1>2, <1>3, <1>4 DEF RestartNext

\* The files of a server that starts for the first time are those of an empty
\* forum.
LEMMA RestartInitType == RestartInit => RestartTypeOK
BY ForumInitType DEF RestartInit, RestartTypeOK, ForumTypeOK

\* The stores and the files hold values of their types, however often the
\* process is started again.
THEOREM RestartTypeCorrect == RestartSpec => []RestartTypeOK
BY RestartInitType, RestartNextType, PTL DEF RestartSpec

-----------------------------------------------------------------------------
(* What a goroutine holds after a step of its own                          *)

\* What goroutine r holds after a step, q, and where it has it from: the stores
\* as they are, or what it held before it stored a comment.
ReadFrom(r, q) ==
    /\ q.op = "thread.create" => q.board \in BoardIds /\ boards[q.board] # Absent
    /\ q.op \in {"thread.update", "comment.checked"} =>
          /\ q.id \in ThreadIds /\ threads[q.id] # Absent
          /\ q.thread.boardId = threads[q.id].boardId
          /\ q.thread.replyCount = threads[q.id].replyCount
          /\ UNCHANGED threads
    /\ q.op = "comment.stored" =>
          /\ req[r].op = "comment.checked"
          /\ q.id = req[r].id /\ q.thread = req[r].thread
          /\ UNCHANGED threads
          /\ Len(threadIdx'[q.id]) = Len(threadIdx[q.id]) + 1
    /\ q.op = "comment.update" =>
          /\ q.id \in CommentIds /\ comments[q.id] # Absent
          /\ q.comment = comments[q.id]
          /\ UNCHANGED comments

\* Every step is one of a goroutine that then holds such a state.
LEMMA StepReads ==
    ASSUME ForumTypeOK, ForumNext
    PROVE  \E r \in Requests : \E q : req' = [req EXCEPT ![r] = q] /\ ReadFrom(r, q)
<1> USE DEF Continue, Return, ReadFrom
<1>0. PICK r \in Requests :
        \/ BoardStep(r) /\ UNCHANGED <<threadVars, commentVars>>
        \/ ThreadStep(r) /\ UNCHANGED commentVars
        \/ CommentStep(r) /\ UNCHANGED boardVars
  BY DEF ForumNext
<1> SUFFICES \E q : req' = [req EXCEPT ![r] = q] /\ ReadFrom(r, q)
  OBVIOUS
<1>i. ReadFrom(r, Idle)
  BY DEF Idle
<1>1. CASE \/ BoardCreate(r) \/ BoardDelete(r) \/ ThreadDelete(r) \/ CommentDelete(r)
  <2>1. req' = [req EXCEPT ![r] = Idle]
    BY <1>1 DEF BoardCreate, BoardDelete, ThreadDelete, CommentDelete, handlerVars, ForumTypeOK
  <2> QED
    BY <1>i, <2>1
<1>2. CASE \/ BoardUpdateWrite(r) \/ ThreadCreateStore(r) \/ ThreadGetCount(r)
           \/ ThreadUpdateWrite(r) \/ CommentCreateCount(r) \/ CommentUpdateWrite(r)
  <2>1. req' = [req EXCEPT ![r] = Idle]
    BY <1>2 DEF BoardUpdateWrite, ThreadCreateStore, ThreadGetCount, ThreadUpdateWrite,
       CommentCreateCount, CommentUpdateWrite
  <2> QED
    BY <1>i, <2>1
<1>3. CASE BoardUpdateRead(r)
  <2>1. PICK id \in BoardIds, locked \in BOOLEAN, slug \in Slugs \cup {NoSlug} :
          req' = [req EXCEPT ![r] = [op |-> "board.update", id |-> id,
                                     board |-> [slug |-> slug, isLocked |-> locked]]]
    BY <1>3, SlugChoicesType DEF BoardUpdateRead, ForumTypeOK
  <2>2. PICK q : q = [op |-> "board.update", id |-> id,
                      board |-> [slug |-> slug, isLocked |-> locked]]
    OBVIOUS
  <2>3. ReadFrom(r, q)
    BY <2>2
  <2> QED
    BY <2>1, <2>2, <2>3
<1>4. CASE ThreadGetRead(r)
  <2>1. PICK t \in ThreadIds : req' = [req EXCEPT ![r] = [op |-> "thread.get", id |-> t]]
    BY <1>4 DEF ThreadGetRead
  <2>2. PICK q : q = [op |-> "thread.get", id |-> t]
    OBVIOUS
  <2>3. ReadFrom(r, q)
    BY <2>2
  <2> QED
    BY <2>1, <2>2, <2>3
<1>5. CASE ThreadCreateCheck(r)
  <2>1. PICK b \in BoardIds :
          boards[b] # Absent /\ req' = [req EXCEPT ![r] = [op |-> "thread.create", board |-> b]]
    BY <1>5 DEF ThreadCreateCheck
  <2>2. PICK q : q = [op |-> "thread.create", board |-> b]
    OBVIOUS
  <2>3. ReadFrom(r, q)
    BY <2>1, <2>2
  <2> QED
    BY <2>1, <2>2, <2>3
<1>6. CASE ThreadUpdateRead(r)
  <2>1. PICK t \in ThreadIds, lock \in {Unset, "locked", "open"} :
          /\ threads[t] # Absent
          /\ req' = [req EXCEPT ![r] = [op |-> "thread.update", id |-> t, lock |-> lock,
                                        thread |-> ApplyLock(threads[t], lock)]]
    BY <1>6 DEF ThreadUpdateRead
  <2>2. /\ ApplyLock(threads[t], lock).replyCount = threads[t].replyCount
        /\ ApplyLock(threads[t], lock).boardId = threads[t].boardId
    BY <2>1, ApplyLockThread DEF ForumTypeOK
  <2>3. UNCHANGED threads
    BY <1>6 DEF ThreadUpdateRead, threadVars
  <2>4. PICK q : q = [op |-> "thread.update", id |-> t, lock |-> lock,
                      thread |-> ApplyLock(threads[t], lock)]
    OBVIOUS
  <2>5. ReadFrom(r, q)
    BY <2>1, <2>2, <2>3, <2>4
  <2> QED
    BY <2>1, <2>4, <2>5
<1>7. CASE CommentCreateCheck(r)
  <2>1. PICK t \in ThreadIds :
          /\ threads[t] # Absent
          /\ req' = [req EXCEPT ![r] = [op |-> "comment.checked", id |-> t,
                                        thread |-> threads[t]]]
    BY <1>7 DEF CommentCreateCheck
  <2>2. UNCHANGED threads
    BY <1>7 DEF CommentCreateCheck, threadVars
  <2>3. PICK q : q = [op |-> "comment.checked", id |-> t, thread |-> threads[t]]
    OBVIOUS
  <2>4. ReadFrom(r, q)
    BY <2>1, <2>2, <2>3
  <2> QED
    BY <2>1, <2>3, <2>4
<1>8. CASE CommentCreateStore(r)
  <2>1. PICK id \in CommentIds :
          CommentStoreCreate(id, [threadId |-> req[r].id, isDeleted |-> FALSE])
    BY <1>8 DEF CommentCreateStore
  <2>2. req[r].id \in ThreadIds
    BY <1>8, RequestFields DEF CommentCreateStore, AnyRequest, ForumTypeOK
  <2>3. Len(threadIdx'[req[r].id]) = Len(threadIdx[req[r].id]) + 1
    BY <2>1, <2>2 DEF CommentStoreCreate, ForumTypeOK
  <2>4. /\ UNCHANGED threads /\ req[r].op = "comment.checked"
        /\ req' = [req EXCEPT ![r] = [op |-> "comment.stored", id |-> req[r].id,
                                      thread |-> req[r].thread]]
    BY <1>8 DEF CommentCreateStore, threadVars
  <2>5. PICK q : q = [op |-> "comment.stored", id |-> req[r].id, thread |-> req[r].thread]
    OBVIOUS
  <2>6. ReadFrom(r, q)
    BY <2>3, <2>4, <2>5
  <2> QED
    BY <2>4, <2>5, <2>6
<1>9. CASE CommentUpdateRead(r)
  <2>1. PICK c \in CommentIds :
          /\ comments[c] # Absent
          /\ req' = [req EXCEPT ![r] = [op |-> "comment.update", id |-> c,
                                        comment |-> comments[c]]]
    BY <1>9 DEF CommentUpdateRead
  <2>2. UNCHANGED comments
    BY <1>9 DEF CommentUpdateRead, commentVars
  <2>3. PICK q : q = [op |-> "comment.update", id |-> c, comment |-> comments[c]]
    OBVIOUS
  <2>4. ReadFrom(r, q)
    BY <2>1, <2>2, <2>3
  <2> QED
    BY <2>1, <2>3, <2>4
<1> HIDE DEF ReadFrom
<1> QED
  BY <1>0, <1>1, <1>2, <1>3, <1>4, <1>5, <1>6, <1>7, <1>8, <1>9
     DEF BoardStep, ThreadStep, CommentStep

-----------------------------------------------------------------------------
(* Reply counts after a restart                                            *)

\* The clone of a thread in flight counts no reply that nobody posted, and none
\* for the comment its goroutine has stored and not yet counted.
PostedClone(q) ==
    /\ q.op \in {"thread.update", "comment.checked", "comment.stored"} =>
          q.thread.replyCount <= posted[q.id]
    /\ q.op = "comment.stored" => q.thread.replyCount + 1 <= posted[q.id]

PostedInv ==
    /\ RestartTypeOK
    /\ RepliesWerePosted
    /\ \A r \in Requests : PostedClone(req[r])

\* The number of comments ever posted only grows, by one when one is stored.
LEMMA PostedGrows ==
    ASSUME RestartTypeOK, RequestStep, NEW t \in ThreadIds
    PROVE  /\ posted[t] \in Nat /\ posted'[t] \in Nat /\ posted[t] <= posted'[t]
           /\ Len(threadIdx'[t]) = Len(threadIdx[t]) + 1 => posted'[t] = posted[t] + 1
<1>1. posted[t] \in Nat /\ Len(threadIdx[t]) \in Nat
  BY DEF RestartTypeOK, ForumTypeOK
<1>2. posted'[t] = IF Len(threadIdx'[t]) > Len(threadIdx[t]) THEN posted[t] + 1 ELSE posted[t]
  BY DEF RequestStep
<1> QED
  BY <1>1, <1>2

\* A stored thread counts what it counted, nothing, or what a clone counted.
LEMMA PostedThreads ==
    ASSUME PostedInv, RequestStep, RestartTypeOK',
           NEW t \in ThreadIds, threads'[t] # Absent
    PROVE  threads'[t].replyCount <= posted'[t]
<1> USE DEF PostedInv, RestartTypeOK, ForumTypeOK
<1>0. PICK r \in Requests :
        \/ BoardStep(r) /\ UNCHANGED <<threadVars, commentVars>>
        \/ ThreadStep(r) /\ UNCHANGED commentVars
        \/ CommentStep(r) /\ UNCHANGED boardVars
  BY DEF RequestStep, ForumNext
<1>1. /\ threads'[t].replyCount \in Nat
      /\ posted[t] \in Nat /\ posted'[t] \in Nat /\ posted[t] <= posted'[t]
  <2>1. threads'[t].replyCount \in Nat
    BY DEF Thread
  <2> QED
    BY <2>1, PostedGrows
<1>2. threads[t] # Absent =>
         threads[t].replyCount \in Nat /\ threads[t].replyCount <= posted[t]
  BY DEF Thread, RepliesWerePosted
<1>3. CASE ThreadCreateStore(r)
  BY <1>1, <1>2, <1>3 DEF ThreadCreateStore, ThreadStoreCreate, NewThread
<1>4. CASE ThreadGetCount(r)
  <2>1. req[r].id \in ThreadIds
    BY <1>4, RequestFields DEF ThreadGetCount, AnyRequest
  <2>2. threads[t] # Absent /\ threads'[t].replyCount = threads[t].replyCount
    BY <1>4, <2>1, IncrementViewThread DEF ThreadGetCount
  <2> QED
    BY <1>1, <1>2, <2>2
<1>5. CASE ThreadUpdateWrite(r)
  <2>1. req[r].id \in ThreadIds /\ req[r].thread \in Thread
    BY <1>5, RequestFields DEF ThreadUpdateWrite, AnyRequest
  <2>2. req[r].thread.replyCount <= posted[req[r].id]
    BY <1>5 DEF ThreadUpdateWrite, PostedClone
  <2>3. threads' = ReplacePresent(threads, req[r].id, req[r].thread)
    BY <1>5 DEF ThreadUpdateWrite, ThreadStoreUpdate
  <2>4. /\ threads[t] # Absent /\ threads'[t] \in {threads[t], req[r].thread}
        /\ t # req[r].id => threads'[t] = threads[t]
    BY <2>1, <2>3, ThreadWriteBack
  <2>5. CASE threads'[t] = threads[t]
    BY <1>1, <1>2, <2>4, <2>5
  <2>6. CASE t = req[r].id /\ threads'[t] = req[r].thread
    BY <1>1, <2>2, <2>6
  <2> QED
    BY <2>4, <2>5, <2>6
<1>6. CASE CommentCreateCount(r)
  <2>1. req[r].id \in ThreadIds /\ req[r].thread \in Thread
    BY <1>6, RequestFields DEF CommentCreateCount, AnyRequest
  <2>2. req[r].thread.replyCount + 1 <= posted[req[r].id]
    BY <1>6 DEF CommentCreateCount, PostedClone
  <2>3. threads' = ReplacePresent(threads, req[r].id, IncrementReply(req[r].thread))
    BY <1>6 DEF CommentCreateCount, ThreadStoreUpdate
  <2> DEFINE counted == IncrementReply(req[r].thread)
  <2>4. counted \in Thread /\ counted.replyCount = req[r].thread.replyCount + 1
    BY <2>1, IncrementReplyThread
  <2>5. /\ threads[t] # Absent /\ threads'[t] \in {threads[t], counted}
        /\ t # req[r].id => threads'[t] = threads[t]
    BY <2>1, <2>3, <2>4, ThreadWriteBack
  <2>6. CASE threads'[t] = threads[t]
    BY <1>1, <1>2, <2>5, <2>6
  <2>7. CASE t = req[r].id /\ threads'[t] = counted
    BY <1>1, <2>2, <2>4, <2>7
  <2> QED
    BY <2>5, <2>6, <2>7
<1>7. CASE ThreadDelete(r)
  BY <1>1, <1>2, <1>7 DEF ThreadDelete, ThreadStoreDelete
<1>8. CASE UNCHANGED threadVars
  BY <1>1, <1>2, <1>8 DEF threadVars
<1> QED
  BY <1>0, <1>3, <1>4, <1>5, <1>6, <1>7, <1>8 DEF ThreadStep, CommentStep,
     ThreadCreateCheck, ThreadGetRead, ThreadUpdateRead, CommentCreateCheck,
     CommentCreateStore, CommentUpdateRead, CommentUpdateWrite, CommentDelete

\* A clone counts what the thread counted it was read from, and the goroutine
\* that stores a comment has posted one more.
LEMMA PostedClones ==
    ASSUME PostedInv, RequestStep, RestartTypeOK', NEW x \in Requests
    PROVE  PostedClone(req[x])'
<1> USE DEF PostedInv, RestartTypeOK, ForumTypeOK
<1>1. PICK r \in Requests : \E q : req' = [req EXCEPT ![r] = q] /\ ReadFrom(r, q)
  BY StepReads DEF RequestStep
<1>2. PICK q : req' = [req EXCEPT ![r] = q] /\ ReadFrom(r, q)
  BY <1>1
<1>3. ASSUME NEW p \in AnyRequest,
             p.op \in {"thread.update", "comment.checked", "comment.stored"}
      PROVE  /\ p.id \in ThreadIds /\ p.thread.replyCount \in Nat
             /\ posted[p.id] \in Nat /\ posted'[p.id] \in Nat
             /\ posted[p.id] <= posted'[p.id]
  <2>1. p.id \in ThreadIds /\ p.thread \in Thread
    BY <1>3, RequestFields
  <2> QED
    BY <2>1, PostedGrows DEF Thread
<1>4. CASE x # r
  <2>1. req'[x] = req[x] /\ req[x] \in AnyRequest
    BY <1>2, <1>4 DEF AnyRequest
  <2>2. PostedClone(req[x])
    OBVIOUS
  <2> QED
    BY <1>3, <2>1, <2>2 DEF PostedClone
<1>5. CASE x = r
  <2>1. req'[x] = q /\ q \in AnyRequest
    BY <1>2, <1>5 DEF AnyRequest
  <2>2. CASE q.op \in {"thread.update", "comment.checked"}
    <3>1. /\ threads[q.id] # Absent
          /\ q.thread.replyCount = threads[q.id].replyCount
      BY <1>2, <2>2 DEF ReadFrom
    <3>2. q.thread.replyCount <= posted[q.id]
      BY <1>3, <2>1, <2>2, <3>1 DEF RepliesWerePosted
    <3> QED
      BY <1>3, <2>1, <2>2, <3>2 DEF PostedClone
  <2>3. CASE q.op = "comment.stored"
    <3>1. /\ req[r].op = "comment.checked"
          /\ q.id = req[r].id /\ q.thread = req[r].thread
          /\ Len(threadIdx'[q.id]) = Len(threadIdx[q.id]) + 1
      BY <1>2, <2>3 DEF ReadFrom
    <3>2. q.thread.replyCount <= posted[q.id]
      BY <3>1 DEF PostedClone
    <3>3. posted'[q.id] = posted[q.id] + 1
      BY <1>3, <2>1, <2>3, <3>1, PostedGrows
    <3> QED
      BY <1>3, <2>1, <2>3, <3>2, <3>3 DEF PostedClone
  <2> QED
    BY <2>1, <2>2, <2>3 DEF PostedClone
<1> QED
  BY <1>4, <1>5

\* A save copies counts that are covered, and a restart puts copies back.
LEMMA PostedNext == PostedInv /\ [RestartNext]_restartVars => PostedInv'
<1> SUFFICES ASSUME PostedInv, [RestartNext]_restartVars PROVE PostedInv'
  OBVIOUS
<1>0. RestartTypeOK'
  BY RestartNextType DEF PostedInv
<1>1. CASE UNCHANGED restartVars
  BY <1>0, <1>1 DEF restartVars, savedVars, forumVars, threadVars, handlerVars,
     PostedInv, RepliesWerePosted, PostedClone
<1>2. CASE RequestStep
  <2>1. \A t \in ThreadIds : threads'[t] # Absent => threads'[t].replyCount <= posted'[t]
    BY <1>0, <1>2, PostedThreads
  <2>2. \A r \in Requests : PostedClone(req[r])'
    BY <1>0, <1>2, PostedClones
  <2>3. ASSUME NEW t \in ThreadIds, savedThreads'[t] # Absent
        PROVE  savedThreads'[t].replyCount <= posted'[t]
    <3>1. savedThreads' = savedThreads /\ savedThreads[t] \in Thread
      BY <1>2, <2>3 DEF RequestStep, savedVars, PostedInv, RestartTypeOK
    <3>2. savedThreads[t].replyCount \in Nat /\ savedThreads[t].replyCount <= posted[t]
      BY <2>3, <3>1 DEF PostedInv, RepliesWerePosted, Thread
    <3>3. posted[t] \in Nat /\ posted'[t] \in Nat /\ posted[t] <= posted'[t]
      BY <1>2, PostedGrows DEF PostedInv
    <3> QED
      BY <3>1, <3>2, <3>3
  <2> QED
    BY <1>0, <2>1, <2>2, <2>3 DEF PostedInv, RepliesWerePosted
<1>3. CASE SaveBoards \/ SaveThreads \/ SaveComments
  <2>1. UNCHANGED <<threads, req, posted>> /\ savedThreads' \in {savedThreads, threads}
    BY <1>3 DEF SaveBoards, SaveThreads, SaveComments, forumVars, threadVars, handlerVars
  <2> QED
    BY <1>0, <2>1 DEF PostedInv, RepliesWerePosted, PostedClone
<1>4. CASE Restart
  <2>1. /\ \A t \in ThreadIds : threads'[t] \in {savedThreads[t], Absent}
        /\ UNCHANGED <<savedThreads, posted>>
        /\ \A r \in Requests : req'[r] = Idle
    BY <1>4, RestartLoads, RestartFinds DEF PostedInv, RestartTypeOK, SavedTypeOK
  <2> QED
    BY <1>0, <2>1 DEF PostedInv, RepliesWerePosted, PostedClone, Idle
<1> QED
  BY <1>1, <1>2, <1>3, <1>4 DEF RestartNext

\* An empty forum counts nothing.
LEMMA PostedInit == RestartInit => PostedInv
<1> SUFFICES ASSUME RestartInit PROVE PostedInv
  OBVIOUS
<1>1. /\ \A t \in ThreadIds : threads[t] = Absent /\ savedThreads[t] = Absent
      /\ \A r \in Requests : req[r] = Idle
  BY DEF RestartInit, ForumInit, ThreadStoreInit, HandlersInit
<1> QED
  BY <1>1, RestartInitType DEF PostedInv, RepliesWerePosted, PostedClone, Idle

\* However old the file of the threads is against that of the comments, no
\* thread ever counts a reply that nobody posted.
THEOREM RestartedRepliesSound == RestartSpec => []RepliesWerePosted
<1>1. PostedInv => RepliesWerePosted
  BY DEF PostedInv
<1> QED
  BY <1>1, PostedInit, PostedNext, PTL DEF RestartSpec

-----------------------------------------------------------------------------
(* The indexes after a restart                                             *)

\* What the files hold was stored, their keys and what their records refer to;
\* and a comment in the file is still in the store, on the same thread, unless
\* the store could not load it.
SavedInv ==
    /\ \A b \in BoardIds : savedBoards[b] # Absent => b \in issued
    /\ \A t \in ThreadIds :
          savedThreads[t] # Absent => t \in issued /\ savedThreads[t].boardId \in issued
    /\ \A c \in CommentIds :
          savedComments[c] # Absent =>
             /\ c \in issued /\ savedComments[c].threadId \in issued
             /\ "comments" \notin unread =>
                   comments[c] # Absent /\ comments[c].threadId = savedComments[c].threadId

\* Where things are, in the stores and in the files.
PlacesInv ==
    /\ RestartTypeOK
    /\ IndexInv
    /\ SavedInv

\* No two boards in the file share a slug.
SavedSlugsUnique ==
    \A a, b \in BoardIds :
        /\ savedBoards[a] # Absent /\ savedBoards[b] # Absent
        /\ savedBoards[a].slug = savedBoards[b].slug /\ savedBoards[a].slug \in Slugs
        => a = b

FilesInv ==
    /\ PlacesInv
    /\ SlugInv
    /\ SavedSlugsUnique

\* A clone that waits stays where it was read, whatever the others do.
LEMMA ClonesStep ==
    ASSUME IndexInv, ForumNext, ForumTypeOK', StoresEvolve
    PROVE  ClonesPlaced'
<1> USE DEF IndexInv, ForumTypeOK
<1>1. PICK r \in Requests : \E q : req' = [req EXCEPT ![r] = q] /\ ReadFrom(r, q)
  BY StepReads
<1>2. PICK q : req' = [req EXCEPT ![r] = q] /\ ReadFrom(r, q)
  BY <1>1
<1>3. ASSUME NEW p \in AnyRequest, ClonePlaced(p)
      PROVE  ClonePlaced(p)'
  <2>1. /\ p.op \in {"thread.update", "comment.checked", "comment.stored"} =>
              p.id \in ThreadIds
        /\ p.op = "comment.update" => p.id \in CommentIds
    BY RequestFields
  <2> QED
    BY <1>3, <2>1 DEF ClonePlaced, StoresEvolve
<1>4. req[r] \in AnyRequest /\ req'[r] = q /\ q \in AnyRequest
  BY <1>2 DEF AnyRequest
<1>5. ClonePlaced(q)
  <2>1. q.op = "comment.stored" => ClonePlaced(req[r])
    BY DEF ClonesPlaced
  <2>2. ASSUME q.op \in {"thread.update", "comment.checked"} PROVE ClonePlaced(q)
    <3>1. /\ q.id \in ThreadIds /\ threads[q.id] # Absent
          /\ q.thread.boardId = threads[q.id].boardId
      BY <1>2, <2>2 DEF ReadFrom
    <3>2. q.id \in issued
      BY <3>1 DEF ReferencesWereStored
    <3> QED
      BY <2>2, <3>1, <3>2 DEF ClonePlaced
  <2>3. ASSUME q.op = "comment.stored" PROVE ClonePlaced(q)
    BY <1>2, <2>1, <2>3 DEF ReadFrom, ClonePlaced
  <2>4. ASSUME q.op \in {"thread.create", "comment.update"} PROVE ClonePlaced(q)
    BY <1>2, <2>4 DEF ReadFrom, ClonePlaced, ReferencesWereStored
  <2> QED
    BY <2>2, <2>3, <2>4 DEF ClonePlaced
<1>6. ASSUME NEW x \in Requests PROVE ClonePlaced(req[x])'
  <2>1. CASE x = r
    BY <1>3, <1>4, <1>5, <2>1 DEF ClonePlaced
  <2>2. CASE x # r
    <3>1. req'[x] = req[x] /\ req[x] \in AnyRequest /\ ClonePlaced(req[x])
      BY <1>2, <2>2 DEF AnyRequest, ClonesPlaced
    <3> QED
      BY <1>3, <3>1 DEF ClonePlaced
  <2> QED
    BY <2>1, <2>2
<1> QED
  BY <1>6 DEF ClonesPlaced

\* The part of the forum's invariant that a restart leaves is inductive alone.
LEMMA IndexInvNext == IndexInv /\ [ForumNext]_forumVars => IndexInv'
<1> SUFFICES ASSUME IndexInv, [ForumNext]_forumVars PROVE IndexInv'
  OBVIOUS
<1>1. ForumTypeOK'
  BY ForumNextType DEF IndexInv
<1>2. CASE UNCHANGED forumVars
  <2>1. /\ boards' = boards /\ threads' = threads /\ boardIdx' = boardIdx
        /\ comments' = comments /\ threadIdx' = threadIdx
        /\ req' = req /\ issued' = issued
    BY <1>2 DEF forumVars, boardVars, threadVars, commentVars, handlerVars
  <2>2. ReferencesWereStored' /\ ClonesPlaced'
    BY <2>1 DEF IndexInv, ReferencesWereStored, ClonesPlaced, ClonePlaced
  <2>3. ThreadIndexExact' /\ CommentIndexExact'
    BY <2>1 DEF IndexInv, ThreadIndexExact, CommentIndexExact
  <2> QED
    BY <1>1, <2>2, <2>3 DEF IndexInv
<1>3. CASE ForumNext
  <2>1. StoresEvolve
    BY <1>3, ForumNextEvolves
  <2> QED
    BY <1>1, <1>3, <2>1, ReferencesStep, ClonesStep, ThreadIndexStep, CommentIndexStep
       DEF IndexInv
<1> QED
  BY <1>2, <1>3

\* A load indexes every board it loads under its slug.
LEMMA LoadedSlugs ==
    ASSUME RestartTypeOK, SavedSlugsUnique, NEW readable, LoadBoards(readable)
    PROVE  SlugIndexExact'
<1> DEFINE items == Loaded(savedBoards, readable)
           Holders(s) == {b \in Keys(items) : items[b].slug = s}
<1>0. /\ items \in [BoardIds -> Board \cup {Absent}]
      /\ \A b \in BoardIds : items[b] \in {savedBoards[b], Absent}
  BY LoadedType DEF RestartTypeOK
<1>1. /\ boards' = items
      /\ \A s \in Slugs : IF Holders(s) = {} THEN slugIdx'[s] = Absent
                                            ELSE slugIdx'[s] \in Holders(s)
  BY DEF LoadBoards
<1> SUFFICES ASSUME NEW s \in Slugs, NEW id \in BoardIds
             PROVE  slugIdx'[s] = id <=> items[id] # Absent /\ items[id].slug = s
  BY <1>1 DEF SlugIndexExact
<1>2. DOMAIN items = BoardIds /\ id # Absent
  BY <1>0, HandlersAssumption
<1>3. id \in Holders(s) <=> items[id] # Absent /\ items[id].slug = s
  BY <1>2 DEF Keys
<1>4. \A b \in Holders(s) : id \in Holders(s) => b = id
  <2> HIDE DEF items
  <2> QED
    BY <1>0, <1>2 DEF Keys, SavedSlugsUnique
<1> HIDE DEF Holders, items
<1>5. CASE Holders(s) = {}
  BY <1>1, <1>2, <1>3, <1>5
<1>6. CASE Holders(s) # {}
  BY <1>1, <1>3, <1>4, <1>6
<1> QED
  BY <1>5, <1>6

\* A load indexes every thread it loads under its board.
LEMMA LoadedThreads ==
    ASSUME RestartTypeOK, NEW readable, LoadThreads(readable)
    PROVE  ThreadIndexExact'
<1> DEFINE items == Loaded(savedThreads, readable)
           held == [b \in BoardIds |-> {t \in Keys(items) : items[t].boardId = b}]
<1>0. items \in [ThreadIds -> Thread \cup {Absent}]
  BY LoadedType DEF RestartTypeOK
<1>1. threads' = items /\ boardIdx' \in Indexed(held)
  BY DEF LoadThreads
<1>2. /\ \A b \in BoardIds, t \in ThreadIds :
            t \in held[b] <=> items[t] # Absent /\ items[t].boardId = b
      /\ DOMAIN held = BoardIds
      /\ \A b \in BoardIds : held[b] \subseteq ThreadIds
  BY <1>0 DEF Keys
<1>3. \A t \in ThreadIds : items[t] # Absent => items[t].boardId \in BoardIds
  BY <1>0 DEF Thread
<1> HIDE DEF held, items
<1>4. \A b \in BoardIds :
         /\ \A i \in 1..Len(boardIdx'[b]) : boardIdx'[b][i] \in held[b]
         /\ \A t \in held[b] : \E i \in 1..Len(boardIdx'[b]) : boardIdx'[b][i] = t
         /\ NoRepetition(boardIdx'[b])
  <2>1. PICK idx \in Indexed(held) : idx = boardIdx'
    BY <1>1
  <2>2. /\ DOMAIN held = BoardIds /\ \A x \in BoardIds : held[x] \subseteq ThreadIds
        /\ IsFiniteSet(ThreadIds)
    BY <1>2, RestartAssumption
  <2>3. Slices(BoardIds, ThreadIds, held, idx)
    BY <2>2, IndexedSlices
  <2> QED
    BY <2>1, <2>3 DEF Slices
<1>5. ASSUME NEW b \in BoardIds, NEW i \in 1..Len(boardIdx'[b])
      PROVE  /\ threads'[boardIdx'[b][i]] # Absent
             /\ threads'[boardIdx'[b][i]].boardId = b
             /\ \A k \in 1..Len(boardIdx'[b]) : boardIdx'[b][i] = boardIdx'[b][k] => i = k
  <2>1. boardIdx'[b][i] \in held[b] /\ boardIdx'[b][i] \in ThreadIds
    BY <1>2, <1>4, <1>5
  <2> QED
    BY <1>1, <1>2, <1>4, <1>5, <2>1 DEF NoRepetition
<1>6. ASSUME NEW t \in ThreadIds, threads'[t] # Absent
      PROVE  \E i \in 1..Len(boardIdx'[threads'[t].boardId]) :
                boardIdx'[threads'[t].boardId][i] = t
  BY <1>1, <1>2, <1>3, <1>4, <1>6
<1> QED
  BY <1>5, <1>6 DEF ThreadIndexExact

\* A load indexes every comment it loads under its thread.
LEMMA LoadedComments ==
    ASSUME RestartTypeOK, NEW readable, LoadComments(readable)
    PROVE  CommentIndexExact'
<1> DEFINE items == Loaded(savedComments, readable)
           held == [t \in ThreadIds |-> {c \in Keys(items) : items[c].threadId = t}]
<1>0. items \in [CommentIds -> Comment \cup {Absent}]
  BY LoadedType DEF RestartTypeOK
<1>1. comments' = items /\ threadIdx' \in Indexed(held)
  BY DEF LoadComments
<1>2. /\ \A t \in ThreadIds, c \in CommentIds :
            c \in held[t] <=> items[c] # Absent /\ items[c].threadId = t
      /\ DOMAIN held = ThreadIds
      /\ \A t \in ThreadIds : held[t] \subseteq CommentIds
  BY <1>0 DEF Keys
<1>3. \A c \in CommentIds : items[c] # Absent => items[c].threadId \in ThreadIds
  BY <1>0 DEF Comment
<1> HIDE DEF held, items
<1>4. \A t \in ThreadIds :
         /\ \A i \in 1..Len(threadIdx'[t]) : threadIdx'[t][i] \in held[t]
         /\ \A c \in held[t] : \E i \in 1..Len(threadIdx'[t]) : threadIdx'[t][i] = c
         /\ NoRepetition(threadIdx'[t])
  <2>1. PICK idx \in Indexed(held) : idx = threadIdx'
    BY <1>1
  <2>2. /\ DOMAIN held = ThreadIds /\ \A x \in ThreadIds : held[x] \subseteq CommentIds
        /\ IsFiniteSet(CommentIds)
    BY <1>2, RestartAssumption
  <2>3. Slices(ThreadIds, CommentIds, held, idx)
    BY <2>2, IndexedSlices
  <2> QED
    BY <2>1, <2>3 DEF Slices
<1>5. ASSUME NEW t \in ThreadIds, NEW i \in 1..Len(threadIdx'[t])
      PROVE  /\ comments'[threadIdx'[t][i]] # Absent
             /\ comments'[threadIdx'[t][i]].threadId = t
             /\ \A k \in 1..Len(threadIdx'[t]) : threadIdx'[t][i] = threadIdx'[t][k] => i = k
  <2>1. threadIdx'[t][i] \in held[t] /\ threadIdx'[t][i] \in CommentIds
    BY <1>2, <1>4, <1>5
  <2> QED
    BY <1>1, <1>2, <1>4, <1>5, <2>1 DEF NoRepetition
<1>6. ASSUME NEW c \in CommentIds, comments'[c] # Absent
      PROVE  \E i \in 1..Len(threadIdx'[comments'[c].threadId]) :
                threadIdx'[comments'[c].threadId][i] = c
  BY <1>1, <1>2, <1>3, <1>4, <1>6
<1> QED
  BY <1>5, <1>6 DEF CommentIndexExact

\* A request loses no stored comment.
LEMMA CommentsKept ==
    ASSUME IndexInv, ForumNext, NEW c \in CommentIds, comments[c] # Absent
    PROVE  comments'[c] # Absent /\ comments'[c].threadId = comments[c].threadId
  BY ForumNextEvolves DEF StoresEvolve

\* What a save copies, and what a restart finds, was stored once; a step of a
\* request changes no file and takes no identifier back.
LEMMA SavedNext ==
    ASSUME PlacesInv, RestartNext
    PROVE  SavedInv'
<1>1. CASE RequestStep
  <2>1. UNCHANGED <<savedBoards, savedThreads, savedComments, unread>> /\ ForumNext
    BY <1>1 DEF RequestStep, savedVars
  <2>2. issued \subseteq issued'
    BY <2>1, ForumNextEvolves DEF PlacesInv, StoresEvolve
  <2>3. \A c \in CommentIds :
           savedComments[c] # Absent /\ "comments" \notin unread =>
              comments'[c] # Absent /\ comments'[c].threadId = savedComments[c].threadId
    BY <2>1, CommentsKept DEF PlacesInv, SavedInv
  <2> QED
    BY <2>1, <2>2, <2>3 DEF PlacesInv, SavedInv
<1>2. CASE SaveBoards
  <2>1. /\ savedBoards' = boards /\ UNCHANGED <<savedThreads, savedComments, comments, issued>>
        /\ "comments" \in unread => "comments" \in unread'
    BY <1>2 DEF SaveBoards, forumVars, handlerVars, commentVars
  <2> QED
    BY <2>1 DEF PlacesInv, SavedInv, IndexInv, ReferencesWereStored
<1>3. CASE SaveThreads
  <2>1. /\ savedThreads' = threads /\ UNCHANGED <<savedBoards, savedComments, comments, issued>>
        /\ "comments" \in unread => "comments" \in unread'
    BY <1>3 DEF SaveThreads, forumVars, handlerVars, commentVars
  <2> QED
    BY <2>1 DEF PlacesInv, SavedInv, IndexInv, ReferencesWereStored
<1>4. CASE SaveComments
  <2>1. savedComments' = comments /\ UNCHANGED <<savedBoards, savedThreads, comments, issued>>
    BY <1>4 DEF SaveComments, forumVars, handlerVars, commentVars
  <2> QED
    BY <2>1 DEF PlacesInv, SavedInv, IndexInv, ReferencesWereStored
<1>5. CASE Restart
  <2>1. /\ UNCHANGED <<savedBoards, savedThreads, savedComments, issued>>
        /\ "comments" \notin unread' => comments' = savedComments
    BY <1>5, RestartLoads, RestartFinds DEF PlacesInv, RestartTypeOK, SavedTypeOK
  <2> QED
    BY <2>1 DEF PlacesInv, SavedInv
<1> QED
  BY <1>1, <1>2, <1>3, <1>4, <1>5 DEF RestartNext

\* The stores a restart makes fit together as far as IndexInv says.
LEMMA RestartPlaces ==
    ASSUME PlacesInv, Restart, RestartTypeOK'
    PROVE  IndexInv'
<1>1. ThreadIndexExact' /\ CommentIndexExact'
  BY RestartLoads, LoadedThreads, LoadedComments DEF PlacesInv
<1>2. /\ \A b \in BoardIds : boards'[b] \in {savedBoards[b], Absent}
      /\ \A t \in ThreadIds : threads'[t] \in {savedThreads[t], Absent}
      /\ \A c \in CommentIds : comments'[c] \in {savedComments[c], Absent}
      /\ issued' = issued
      /\ \A r \in Requests : req'[r] = Idle
  BY RestartLoads, RestartFinds DEF PlacesInv, RestartTypeOK, SavedTypeOK
<1>3. ReferencesWereStored'
  BY <1>2 DEF ReferencesWereStored, PlacesInv, SavedInv
<1>4. ClonesPlaced'
  BY <1>2 DEF ClonesPlaced, ClonePlaced, Idle
<1> QED
  BY <1>1, <1>3, <1>4 DEF IndexInv, RestartTypeOK

\* The places are kept by every step, whatever updates do to slugs.
LEMMA PlacesInvNext == PlacesInv /\ [RestartNext]_restartVars => PlacesInv'
<1> SUFFICES ASSUME PlacesInv, [RestartNext]_restartVars PROVE PlacesInv'
  OBVIOUS
<1>1. RestartTypeOK'
  BY RestartNextType DEF PlacesInv
<1>2. CASE UNCHANGED restartVars
  <2>1. /\ [ForumNext]_forumVars
        /\ UNCHANGED <<savedBoards, savedThreads, savedComments, comments, issued, unread>>
    BY <1>2 DEF restartVars, savedVars, forumVars, handlerVars, commentVars
  <2>2. IndexInv'
    BY <2>1, IndexInvNext DEF PlacesInv
  <2> QED
    BY <1>1, <2>1, <2>2 DEF PlacesInv, SavedInv
<1>3. CASE RequestStep \/ SaveBoards \/ SaveThreads \/ SaveComments
  <2>1. [ForumNext]_forumVars
    BY <1>3 DEF RequestStep, SaveBoards, SaveThreads, SaveComments
  <2>2. IndexInv'
    BY <2>1, IndexInvNext DEF PlacesInv
  <2> QED
    BY <1>1, <1>3, <2>2, SavedNext DEF PlacesInv, RestartNext
<1>4. CASE Restart
  BY <1>1, <1>4, RestartPlaces, SavedNext DEF PlacesInv, RestartNext
<1> QED
  BY <1>2, <1>3, <1>4 DEF RestartNext

\* A forum with nothing in it, and files with nothing in them.
LEMMA FilesInvInit == RestartInit => FilesInv
<1> SUFFICES ASSUME RestartInit PROVE FilesInv
  OBVIOUS
<1>1. IndexInv /\ SlugInv
  BY ForumInvInit, InvIndexes, SlugInvInit DEF RestartInit
<1>2. /\ \A b \in BoardIds : savedBoards[b] = Absent
      /\ \A t \in ThreadIds : savedThreads[t] = Absent
      /\ \A c \in CommentIds : savedComments[c] = Absent
  BY DEF RestartInit, ForumInit, BoardStoreInit, ThreadStoreInit, CommentStoreInit
<1> QED
  BY <1>1, <1>2, RestartInitType DEF FilesInv, PlacesInv, SavedInv, SavedSlugsUnique

LEMMA PlacesInvariant == RestartSpec => []PlacesInv
<1>1. RestartInit => PlacesInv
  BY FilesInvInit DEF FilesInv
<1> QED
  BY <1>1, PlacesInvNext, PTL DEF RestartSpec

\* Whatever mixture of old and new files a restart finds, and whatever slugs
\* updates carry, threads are found by their board and comments by their
\* thread, and nothing refers to what was never stored.
THEOREM RestartedPlacesSound ==
    RestartSpec => [](ThreadIndexExact /\ CommentIndexExact /\ ReferencesWereStored)
<1>1. PlacesInv => ThreadIndexExact /\ CommentIndexExact /\ ReferencesWereStored
  BY DEF PlacesInv, IndexInv
<1> QED
  BY <1>1, PlacesInvariant, PTL

\* A thread that is gone from the store and from its file is gone for good.
THEOREM SavedDeletionsFinal == RestartSpec => SavedDeletionIsFinal
<1>1. ASSUME PlacesInv, RestartNext,
             NEW t \in ThreadIds, t \in issued, threads[t] = Absent, savedThreads[t] = Absent
      PROVE  threads'[t] = Absent /\ savedThreads'[t] = Absent
  <2>1. CASE RequestStep
    BY <1>1, <2>1, ForumNextEvolves DEF PlacesInv, StoresEvolve, RequestStep, savedVars
  <2>2. CASE SaveBoards \/ SaveThreads \/ SaveComments
    BY <1>1, <2>2 DEF SaveBoards, SaveThreads, SaveComments, forumVars, threadVars
  <2>3. CASE Restart
    BY <1>1, <2>3, RestartLoads, RestartFinds DEF PlacesInv, RestartTypeOK, SavedTypeOK
  <2> QED
    BY <1>1, <2>1, <2>2, <2>3 DEF RestartNext
<1>2. PlacesInv /\ [RestartNext]_restartVars
        => [\A t \in ThreadIds :
               t \in issued /\ threads[t] = Absent /\ savedThreads[t] = Absent
               => threads'[t] = Absent /\ savedThreads'[t] = Absent]_restartVars
  BY <1>1
<1> QED
  BY <1>2, PlacesInvariant, PTL DEF RestartSpec, SavedDeletionIsFinal

\* A comment that reached its file stays there and in the store, unless the
\* store could not load the file.
THEOREM SavedCommentsKept == RestartSpec => SavedCommentsStay
<1> DEFINE Kept(c, stored) == stored # Absent /\ stored.threadId = savedComments[c].threadId
<1>1. ASSUME PlacesInv, RestartNext, NEW c \in CommentIds, savedComments[c] # Absent,
             "comments" \notin unread
      PROVE  /\ Kept(c, savedComments'[c])
             /\ "comments" \notin unread' => Kept(c, comments'[c])
  <2>1. comments[c] # Absent /\ comments[c].threadId = savedComments[c].threadId
    BY <1>1 DEF PlacesInv, SavedInv
  <2>2. CASE RequestStep
    BY <1>1, <2>1, <2>2, CommentsKept DEF PlacesInv, RequestStep, savedVars
  <2>3. CASE SaveBoards \/ SaveThreads \/ SaveComments
    BY <1>1, <2>1, <2>3 DEF SaveBoards, SaveThreads, SaveComments, forumVars, commentVars
  <2>4. CASE Restart
    BY <1>1, <2>4, RestartLoads, RestartFinds DEF PlacesInv, RestartTypeOK, SavedTypeOK
  <2> QED
    BY <1>1, <2>2, <2>3, <2>4 DEF RestartNext
<1>2. PlacesInv /\ [RestartNext]_restartVars
        => [\A c \in CommentIds :
               savedComments[c] # Absent /\ "comments" \notin unread =>
                  /\ Kept(c, savedComments'[c])
                  /\ "comments" \notin unread' => Kept(c, comments'[c])]_restartVars
  BY <1>1
<1> QED
  BY <1>2, PlacesInvariant, PTL DEF RestartSpec, SavedCommentsStay

-----------------------------------------------------------------------------
(* Slugs after a restart                                                   *)

\* A step keeps the slugs exact and apart, in the store and in the file, when
\* a request that makes one keeps away from the slugs of clones in flight.
LEMMA FilesInvNext ==
    ASSUME FilesInv, [RestartNext]_restartVars, RequestStep => SlugsApart
    PROVE  FilesInv'
<1>1. PlacesInv'
  BY PlacesInvNext DEF FilesInv
<1>2. CASE RequestStep
  <2>1. SlugInv'
    BY <1>2, SlugInvNext DEF FilesInv, PlacesInv, RequestStep
  <2> QED
    BY <1>1, <1>2, <2>1 DEF FilesInv, SavedSlugsUnique, RequestStep, savedVars
<1>3. CASE UNCHANGED forumVars
  <2>1. SlugInv'
    BY <1>3 DEF FilesInv, forumVars, boardVars, handlerVars, SlugInv, SlugHeld, SlugTaken,
       SlugIndexExact
  <2>2. savedBoards' \in {savedBoards, boards}
    BY <1>3 DEF RestartNext, RequestStep, SaveBoards, SaveThreads, SaveComments, Restart,
       restartVars, savedVars
  <2>3. \A a, b \in BoardIds :
           /\ boards[a] # Absent /\ boards[b] # Absent
           /\ boards[a].slug = boards[b].slug /\ boards[a].slug \in Slugs
           => a = b
    BY DEF FilesInv, SlugInv, SlugIndexExact
  <2>4. SavedSlugsUnique'
    BY <2>2, <2>3 DEF FilesInv, SavedSlugsUnique
  <2> QED
    BY <1>1, <2>1, <2>4 DEF FilesInv
<1>4. CASE Restart
  <2>1. SlugIndexExact' /\ \A r \in Requests : req'[r] = Idle
    BY <1>4, RestartLoads, LoadedSlugs DEF FilesInv, PlacesInv
  <2>2. SlugInv'
    BY <2>1 DEF SlugInv, SlugHeld, Idle
  <2> QED
    BY <1>1, <1>4, <2>2 DEF FilesInv, SavedSlugsUnique, Restart, savedVars
<1> QED
  BY <1>2, <1>3, <1>4
     DEF RestartNext, SaveBoards, SaveThreads, SaveComments, restartVars

LEMMA FilesIndexes == FilesInv => IndexesExact
  BY DEF FilesInv, PlacesInv, IndexInv, SlugInv, IndexesExact

\* Whatever mixture of old and new files a restart finds, the indexes it builds
\* fit the stores it loads and stay exact.
THEOREM RestartedIndexesSound ==
    ASSUME Renames = "none"
    PROVE  RestartSpec => []IndexesExact
<1>1. FilesInv /\ [RestartNext]_restartVars => FilesInv'
  BY FilesInvNext DEF SlugsApart
<1> QED
  BY <1>1, FilesIndexes, FilesInvInit, PTL DEF RestartSpec

\* This is so although updates give boards new slugs, as long as they take free
\* ones and no request changes what another one is at work on.
THEOREM RestartedSlugsSound ==
    ASSUME Renames # "any"
    PROVE  RestartSpec /\ [][RequestStep => Undisturbed]_restartVars
             => []IndexesExact
<1>1. FilesInv /\ [RestartNext]_restartVars /\ [RequestStep => Undisturbed]_restartVars
        => FilesInv'
  <2> SUFFICES ASSUME FilesInv, [RestartNext]_restartVars,
                      [RequestStep => Undisturbed]_restartVars
               PROVE  FilesInv'
    OBVIOUS
  <2>1. UNCHANGED restartVars => Undisturbed
    BY DEF Undisturbed, LeftAlone, restartVars, forumVars, boardVars, threadVars, commentVars
  <2>2. RequestStep => SlugsApart
    BY <2>1, RenamesAssumption DEF SlugsApart
  <2> QED
    BY <2>2, FilesInvNext
<1> QED
  BY <1>1, FilesIndexes, FilesInvInit, PTL DEF RestartSpec

=============================================================================

---------------------------- MODULE ForumRestart ----------------------------
(***************************************************************************)
(* The forum with its files: each of the three stores is saved to a file   *)
(* of its own, at times of its own, and a process that ends is started     *)
(* again from what the files hold.                                         *)
(*                                                                         *)
(* StoreFile has the steps of a save.  Seen from a restart a save happens  *)
(* when the contents are copied under the lock: the file only ever holds   *)
(* one whole copy, and the saves of a store never overlap.                 *)
(*                                                                         *)
(* A file that cannot be read, or is no JSON, stops nothing: the store     *)
(* starts empty, and its next save replaces the file.                      *)
(***************************************************************************)
EXTENDS Forum, SequencesExt

ASSUME RestartAssumption == IsFiniteSet(ThreadIds) /\ IsFiniteSet(CommentIds)

VARIABLES
    savedBoards,    \* boards.json
    savedThreads,   \* threads.json
    savedComments,  \* comments.json
    posted,         \* history: how many comments were ever stored on a thread
    unread          \* history: the stores that could not load their file, and
                    \* have not replaced it yet

savedVars == <<savedBoards, savedThreads, savedComments>>
restartVars == <<forumVars, savedVars, posted, unread>>

Stores == {"boards", "threads", "comments"}

RestartInit ==
    /\ ForumInit
    /\ savedBoards = boards
    /\ savedThreads = threads
    /\ savedComments = comments
    /\ posted = [t \in ThreadIds |-> 0]
    /\ unread = {}

\* A step of a request.
RequestStep ==
    /\ ForumNext
    /\ posted' = [t \in ThreadIds |->
                     IF Len(threadIdx'[t]) > Len(threadIdx[t]) THEN posted[t] + 1 ELSE posted[t]]
    /\ UNCHANGED <<savedVars, unread>>

\* flush, of each store.
SaveBoards ==
    /\ savedBoards' = boards
    /\ unread' = unread \ {"boards"}
    /\ UNCHANGED <<forumVars, savedThreads, savedComments, posted>>

SaveThreads ==
    /\ savedThreads' = threads
    /\ unread' = unread \ {"threads"}
    /\ UNCHANGED <<forumVars, savedBoards, savedComments, posted>>

\* A flush that leaves out what is soft-deleted.
SaveComments_DropsDeleted ==
    /\ savedComments' = [c \in CommentIds |->
                            IF comments[c] # Absent /\ comments[c].isDeleted THEN Absent
                            ELSE comments[c]]
    /\ unread' = unread \ {"comments"}
    /\ UNCHANGED <<forumVars, savedBoards, savedThreads, posted>>

SaveComments ==
    /\ savedComments' = comments
    /\ unread' = unread \ {"comments"}
    /\ UNCHANGED <<forumVars, savedBoards, savedThreads, posted>>

Keys(items) == {i \in DOMAIN items : items[i] # Absent}

\* What a constructor finds in its file, if load can read it.
Loaded(saved, readable) ==
    IF readable THEN saved ELSE [i \in DOMAIN saved |-> Absent]

\* load of the board store, without the test for an empty slug.
LoadBoards_EmptySlugs(readable) ==
    LET items == Loaded(savedBoards, readable)
        Holders(s) == {b \in Keys(items) : items[b].slug = s}
    IN  /\ boards' = items
        /\ slugIdx' = [s \in {items[b].slug : b \in Keys(items)} \cup Slugs |->
                          IF Holders(s) = {} THEN Absent ELSE CHOOSE b \in Holders(s) : TRUE]

\* The constructor of the board store; of boards that share a slug the last one
\* in the file is indexed.
LoadBoards(readable) ==
    LET items == Loaded(savedBoards, readable)
        Holders(s) == {b \in Keys(items) : items[b].slug = s}
    IN  /\ boards' = items
        /\ slugIdx' \in {idx \in [Slugs -> BoardIds \cup {Absent}] :
               \A s \in Slugs : IF Holders(s) = {} THEN idx[s] = Absent
                                                   ELSE idx[s] \in Holders(s)}

\* The index a load may build: under each owner the keys it holds, each once, in
\* the order of the file, which is that of creation times.
Indexed(held) ==
    {idx \in [DOMAIN held -> UNION {SetToSeqs(held[x]) : x \in DOMAIN held}] :
        \A x \in DOMAIN held : idx[x] \in SetToSeqs(held[x])}

\* The constructor of the thread store.
LoadThreads(readable) ==
    LET items == Loaded(savedThreads, readable)
    IN  /\ threads' = items
        /\ boardIdx' \in Indexed([b \in BoardIds |->
                                     {t \in Keys(items) : items[t].boardId = b}])

\* A load of the comment store that leaves its index as it was.
LoadComments_KeepsIndex(readable) ==
    /\ comments' = Loaded(savedComments, readable)
    /\ UNCHANGED threadIdx

\* The constructor of the comment store.
LoadComments(readable) ==
    LET items == Loaded(savedComments, readable)
    IN  /\ comments' = items
        /\ threadIdx' \in Indexed([t \in ThreadIds |->
                                      {c \in Keys(items) : items[c].threadId = t}])

\* The process ends wherever its requests are, and NewServer makes the stores
\* from the files; any of them may fail to load.
Restart ==
    /\ unread' \in SUBSET Stores
    /\ LoadBoards("boards" \notin unread')
    /\ LoadThreads("threads" \notin unread')
    /\ LoadComments("comments" \notin unread')
    /\ req' = [r \in Requests |-> Idle]
    /\ UNCHANGED <<issued, savedVars, posted>>

RestartNext == RequestStep \/ SaveBoards \/ SaveThreads \/ SaveComments \/ Restart

RestartSpec == RestartInit /\ [][RestartNext]_restartVars

-----------------------------------------------------------------------------

\* The files hold what the stores may hold, and a restart makes stores that do.
RestartTypeOK ==
    /\ ForumTypeOK
    /\ savedBoards \in [BoardIds -> Board \cup {Absent}]
    /\ savedThreads \in [ThreadIds -> Thread \cup {Absent}]
    /\ savedComments \in [CommentIds -> Comment \cup {Absent}]
    /\ posted \in [ThreadIds -> Nat]
    /\ unread \subseteq Stores

\* The files may be of different times, so after a restart a thread may count
\* replies that are lost; but it never counts one that nobody posted.
RepliesWerePosted ==
    \A t \in ThreadIds :
        /\ threads[t] # Absent => threads[t].replyCount <= posted[t]
        /\ savedThreads[t] # Absent => savedThreads[t].replyCount <= posted[t]

\* A thread that is gone from the store and from the last copy taken of it stays
\* gone: neither a request that still holds a clone of it nor a later save or
\* restart brings it back.
SavedDeletionIsFinal ==
    [][\A t \in ThreadIds :
          t \in issued /\ threads[t] = Absent /\ savedThreads[t] = Absent
          => threads'[t] = Absent /\ savedThreads'[t] = Absent]_restartVars

\* A comment that reached the file stays in the file and in the store, on its
\* thread, whatever ends the process and whatever the other files have, with one
\* exception: a store that could not load the file starts without the comment,
\* and its next save takes the comment out of the file.
SavedCommentsStay ==
    [][\A c \in CommentIds :
          LET Kept(stored) == stored # Absent /\ stored.threadId = savedComments[c].threadId
          IN  savedComments[c] # Absent /\ "comments" \notin unread =>
                  /\ Kept(savedComments'[c])
                  /\ "comments" \notin unread' => Kept(comments'[c])]_restartVars

=============================================================================

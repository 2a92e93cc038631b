----------------------------- MODULE BoardProofs ----------------------------
(***************************************************************************)
(* The exactness of the slug index for any number of goroutines, boards    *)
(* and slugs: when no update changes a slug, and when updates take slugs   *)
(* they found free and no request interferes with another.                 *)
(*                                                                         *)
(* An update writes back the slug it read or chose some steps before, so   *)
(* the index can only be exact if the clone in flight has the slug of its  *)
(* board, or one that is still free; identifiers are not reused, so the    *)
(* board of a clone cannot have been replaced by another one meanwhile.    *)
(***************************************************************************)
EXTENDS ForumProofs, IsolatedForum

\* Some stored board has the slug s.
SlugTaken(s) == \E b \in BoardIds : boards[b] # Absent /\ boards[b].slug = s

\* The clone of a board in flight has the slug its board has, or a free one.
SlugHeld(q) ==
    q.op = "board.update" =>
        /\ q.id \in issued
        /\ boards[q.id] # Absent =>
              \/ q.board.slug = boards[q.id].slug
              \/ Renames # "none" /\ q.board.slug \in Slugs /\ ~SlugTaken(q.board.slug)

SlugInv ==
    /\ SlugIndexExact
    /\ \A r \in Requests : SlugHeld(req[r])

\* What keeps the slugs of a step apart from those of clones in flight.
SlugsApart == Renames = "none" \/ (Renames = "unused" /\ Undisturbed)

\* An empty index is the inverse of no boards.
LEMMA SlugInvInit == ForumInit => SlugInv
BY HandlersAssumption
   DEF ForumInit, BoardStoreInit, HandlersInit, Idle, SlugInv, SlugHeld, SlugIndexExact

\* A step that leaves the boards alone, and works on no board itself, keeps
\* the invariant.
LEMMA SlugInvElsewhere ==
    ASSUME SlugInv, ForumTypeOK, UNCHANGED boardVars, issued \subseteq issued',
           NEW r \in Requests, NEW q, q.op # "board.update",
           req' = req \/ req' = [req EXCEPT ![r] = q]
    PROVE  SlugInv'
<1>1. \A s \in Requests : req'[s] = req[s] \/ req'[s].op # "board.update"
  BY DEF ForumTypeOK
<1> QED
  BY <1>1 DEF SlugInv, SlugHeld, SlugTaken, SlugIndexExact, boardVars

\* A clone in flight keeps its slug or finds it still free, when the boards that
\* change are not its own, or keep their slugs.
LEMMA SlugStaysHeld ==
    ASSUME SlugsApart, ForumTypeOK, NEW q \in Requests, req'[q] = req[q],
           SlugHeld(req[q]), issued \subseteq issued',
           req[q].op = "board.update" =>
              \/ boards'[req[q].id] = Absent
              \/ /\ boards[req[q].id] # Absent
                 /\ \/ boards'[req[q].id].slug = boards[req[q].id].slug
                    \/ Renames = "unused"
    PROVE  SlugHeld(req[q])'
<1> SUFFICES ASSUME req[q].op = "board.update", boards'[req[q].id] # Absent
             PROVE  \/ req[q].board.slug = boards'[req[q].id].slug
                    \/ /\ Renames # "none" /\ req[q].board.slug \in Slugs
                       /\ ~SlugTaken(req[q].board.slug)'
  BY DEF SlugHeld
<1>1. CASE Renames = "none"
  BY <1>1 DEF SlugHeld
<1>2. CASE Renames = "unused" /\ Undisturbed
  <2>1. /\ boards'[req[q].id] = boards[req[q].id]
        /\ \A b \in BoardIds :
              boards'[b] # Absent /\ boards'[b].slug = req[q].board.slug
              => boards[b] # Absent /\ boards[b].slug = req[q].board.slug
    BY <1>2 DEF Undisturbed, LeftAlone
  <2> QED
    BY <1>2, <2>1 DEF SlugHeld, SlugTaken
<1> QED
  BY <1>1, <1>2 DEF SlugsApart

\* Each operation of the board service keeps index and boards inverse to each
\* other: a new identifier is held by no clone, and a clone that is written
\* back, or a board that goes, changes no slug of another board.
LEMMA SlugInvBoardStep ==
    ASSUME SlugsApart, SlugInv, ForumTypeOK, ReferencesWereStored,
           NEW r \in Requests, BoardStep(r)
    PROVE  SlugInv'
<1>0. /\ \A q \in Requests :
            req[q].op = "board.update" => req[q].id \in BoardIds /\ req[q].board \in Board
      /\ SlugIndexExact
      /\ \A q \in Requests : SlugHeld(req[q])
      /\ \A q \in Requests :
            req[q].op = "board.update" /\ boards[req[q].id] # Absent => req[q].id \in issued
  BY RequestFields DEF ForumTypeOK, AnyRequest, SlugInv, ReferencesWereStored
<1>1. CASE BoardCreate(r)
  <2>1. PICK id \in BoardIds, slug \in Slugs \cup {NoSlug} :
          /\ NewID(id)
          /\ BoardStoreCreate(id, [slug |-> slug, isLocked |-> FALSE])
          /\ req' = req
    BY <1>1 DEF BoardCreate
  <2>2. [slug |-> slug, isLocked |-> FALSE] \in Board
    BY DEF Board
  <2>3. /\ boards[id] = Absent
        /\ boards'[id] # Absent /\ boards'[id].slug = slug
        /\ \A b \in BoardIds : b # id => boards'[b] = boards[b]
        /\ slug \in Slugs => slugIdx[slug] = Absent
        /\ \A s \in Slugs : slugIdx'[s] = IF s = slug THEN id ELSE slugIdx[s]
    BY <2>1, <2>2, BoardAssumption DEF BoardStoreCreate, ForumTypeOK
  <2>4. SlugIndexExact'
    <3> SUFFICES ASSUME NEW s \in Slugs, NEW b \in BoardIds
                 PROVE  slugIdx'[s] = b <=> boards'[b] # Absent /\ boards'[b].slug = s
      BY DEF SlugIndexExact
    <3>1. slugIdx[s] = b <=> boards[b] # Absent /\ boards[b].slug = s
      BY <1>0 DEF SlugIndexExact
    <3>2. b # Absent /\ (s = slug => slugIdx[s] = Absent)
      BY <2>3, HandlersAssumption
    <3> QED
      BY <2>3, <3>1, <3>2
  <2>5. ASSUME NEW q \in Requests PROVE SlugHeld(req[q])'
    <3>1. req[q].op = "board.update" => req[q].id # id
      BY <1>0, <2>1 DEF NewID, SlugHeld
    <3>2. req[q].op = "board.update" => boards'[req[q].id] = boards[req[q].id]
      BY <1>0, <2>3, <3>1
    <3>3. issued \subseteq issued' /\ req'[q] = req[q]
      BY <2>1 DEF NewID
    <3>4. SlugHeld(req[q])
      BY <1>0
    <3> QED
      BY <3>2, <3>3, <3>4, SlugStaysHeld
  <2> QED
    BY <2>4, <2>5 DEF SlugInv
<1>2. CASE BoardUpdateRead(r)
  <2>1. PICK id \in BoardIds, locked \in BOOLEAN, slug \in Slugs \cup {NoSlug} :
          /\ boards[id] # Absent /\ slug \in SlugChoices(id)
          /\ req' = [req EXCEPT ![r] = [op |-> "board.update", id |-> id,
                                        board |-> [slug |-> slug, isLocked |-> locked]]]
    BY <1>2, SlugChoicesType DEF BoardUpdateRead, Continue, ForumTypeOK
  <2>2. /\ id \in issued
        /\ slug = boards[id].slug \/ (Renames # "none" /\ slug \in Slugs /\ ~SlugTaken(slug))
    <3>1. Renames \in {"none", "unused"}
      BY DEF SlugsApart
    <3> QED
      BY <2>1, <3>1 DEF SlugChoices, ReferencesWereStored, SlugTaken
  <2>3. UNCHANGED <<boards, slugIdx, issued>>
    BY <1>2 DEF BoardUpdateRead, boardVars
  <2>4. SlugIndexExact'
    BY <1>0, <2>3 DEF SlugIndexExact
  <2>5. \A q \in Requests : q # r => req'[q] = req[q]
    BY <2>1 DEF ForumTypeOK
  <2>6. req'[r] = [op |-> "board.update", id |-> id,
                   board |-> [slug |-> slug, isLocked |-> locked]]
    BY <2>1 DEF ForumTypeOK
  <2>7. SlugHeld(req[r])'
    BY <2>2, <2>3, <2>6 DEF SlugHeld, SlugTaken
  <2>8. \A q \in Requests : q # r => SlugHeld(req[q])'
    BY <1>0, <2>3, <2>5 DEF SlugHeld, SlugTaken
  <2> QED
    BY <2>4, <2>7, <2>8 DEF SlugInv
<1>3. CASE BoardUpdateWrite(r)
  <2> DEFINE id == req[r].id
             board == req[r].board
  <2>1. /\ req[r].op = "board.update" /\ id \in BoardIds /\ board \in Board
        /\ boards' = ReplacePresent(boards, id, board)
        /\ slugIdx' = IF /\ boards[id] # Absent
                         /\ boards[id].slug # board.slug
                         /\ board.slug # NoSlug
                      THEN [Unindex(boards[id].slug) EXCEPT ![board.slug] = id]
                      ELSE slugIdx
    BY <1>0, <1>3 DEF BoardUpdateWrite, BoardStoreUpdate
  <2>2. issued' = issued /\ req' = [req EXCEPT ![r] = Idle]
    BY <1>3 DEF BoardUpdateWrite, Return, Continue
  <2>3. \A b \in BoardIds : /\ boards'[b] = Absent <=> boards[b] = Absent
                            /\ b # id => boards'[b] = boards[b]
    BY <2>1, BoardAssumption DEF ReplacePresent, ForumTypeOK
  <2>4. boards[id] # Absent => boards'[id] = board
    BY <2>1 DEF ReplacePresent, ForumTypeOK
  <2>5. boards[id] # Absent =>
           \/ board.slug = boards[id].slug
           \/ Renames # "none" /\ board.slug \in Slugs /\ ~SlugTaken(board.slug)
    BY <1>0, <2>1 DEF SlugHeld
  <2> HIDE DEF id, board
  <2>6. SlugIndexExact'
    <3>1. CASE boards[id] = Absent \/ board.slug = boards[id].slug
      <4>1. slugIdx' = slugIdx
        BY <2>1, <3>1
      <4>2. \A b \in BoardIds : boards[b] # Absent => boards'[b].slug = boards[b].slug
        BY <2>3, <2>4, <3>1
      <4> QED
        BY <1>0, <2>3, <4>1, <4>2 DEF SlugIndexExact
    <3>2. CASE boards[id] # Absent /\ board.slug # boards[id].slug
      <4>1. board.slug \in Slugs /\ ~SlugTaken(board.slug) /\ board.slug # NoSlug
        BY <2>5, <3>2, BoardAssumption
      <4>2. \A s \in Slugs : slugIdx'[s] = IF s = board.slug THEN id
                                           ELSE IF s = boards[id].slug THEN Absent
                                           ELSE slugIdx[s]
        BY <2>1, <3>2, <4>1 DEF Unindex
      <4> SUFFICES ASSUME NEW s \in Slugs, NEW b \in BoardIds
                   PROVE  slugIdx'[s] = b <=> boards'[b] # Absent /\ boards'[b].slug = s
        BY DEF SlugIndexExact
      <4>3. slugIdx[s] = b <=> boards[b] # Absent /\ boards[b].slug = s
        BY <1>0 DEF SlugIndexExact
      <4>4. slugIdx[s] = id <=> boards[id].slug = s
        BY <1>0, <2>1, <3>2 DEF SlugIndexExact
      <4>5. CASE s = board.slug
        BY <2>1, <2>3, <2>4, <3>2, <4>1, <4>2, <4>5 DEF SlugTaken
      <4>6. CASE s # board.slug /\ s = boards[id].slug
        BY <2>1, <2>3, <2>4, <3>2, <4>2, <4>3, <4>4, <4>6, HandlersAssumption
      <4>7. CASE s # board.slug /\ s # boards[id].slug
        BY <2>1, <2>3, <2>4, <3>2, <4>2, <4>3, <4>4, <4>7
      <4> QED
        BY <4>5, <4>6, <4>7
    <3> QED
      BY <3>1, <3>2
  <2>7. ASSUME NEW q \in Requests PROVE SlugHeld(req[q])'
    <3>1. CASE q = r
      BY <2>2, <3>1 DEF SlugHeld, Idle, ForumTypeOK
    <3>2. CASE q # r
      <4>1. req'[q] = req[q] /\ issued \subseteq issued' /\ SlugHeld(req[q])
        BY <1>0, <2>2, <3>2 DEF ForumTypeOK
      <4>2. ASSUME req[q].op = "board.update"
            PROVE  \/ boards'[req[q].id] = Absent
                   \/ /\ boards[req[q].id] # Absent
                      /\ \/ boards'[req[q].id].slug = boards[req[q].id].slug
                         \/ Renames = "unused"
        <5>1. req[q].id \in BoardIds
          BY <1>0, <4>2
        <5> QED
          BY <2>3, <2>4, <2>5, <5>1 DEF SlugsApart
      <4> QED
        BY <4>1, <4>2, SlugStaysHeld
    <3> QED
      BY <3>1, <3>2
  <2> QED
    BY <2>6, <2>7 DEF SlugInv
<1>4. CASE BoardDelete(r)
  <2>1. PICK id \in BoardIds :
          /\ boards[id] # Absent
          /\ boards' = [boards EXCEPT ![id] = Absent]
          /\ slugIdx' = Unindex(boards[id].slug)
          /\ req' = req /\ issued' = issued
    BY <1>4 DEF BoardDelete, BoardStoreDelete, handlerVars
  <2>2. SlugIndexExact'
    BY <1>0, <2>1, HandlersAssumption DEF Unindex, SlugIndexExact, ForumTypeOK
  <2>3. \A b \in BoardIds : boards'[b] = Absent \/ boards'[b] = boards[b]
    BY <2>1 DEF ForumTypeOK
  <2>4. \A q \in Requests : SlugHeld(req[q])'
    BY <1>0, <2>1, <2>3 DEF SlugHeld, SlugTaken
  <2> QED
    BY <2>2, <2>4 DEF SlugInv
<1> QED
  BY <1>1, <1>2, <1>3, <1>4 DEF BoardStep

\* Requests on threads and comments leave the boards alone.
LEMMA SlugInvNext ==
    ASSUME SlugsApart, SlugInv, IndexInv, [ForumNext]_forumVars
    PROVE  SlugInv'
<1> USE DEF IndexInv, Continue, Return
<1>1. CASE UNCHANGED forumVars
  BY <1>1 DEF forumVars, boardVars, handlerVars, SlugInv, SlugHeld, SlugTaken, SlugIndexExact
<1>2. ASSUME NEW r \in Requests, BoardStep(r) PROVE SlugInv'
  BY <1>2, SlugInvBoardStep
<1>3. ASSUME NEW r \in Requests, ThreadStep(r) PROVE SlugInv'
  <2>1. /\ UNCHANGED boardVars
        /\ issued \subseteq issued'
    BY <1>3 DEF ThreadStep, ThreadCreateCheck, ThreadCreateStore, ThreadGetRead,
       ThreadGetCount, ThreadUpdateRead, ThreadUpdateWrite, ThreadDelete, NewID, handlerVars
  <2>2. \E q : q.op # "board.update" /\ (req' = req \/ req' = [req EXCEPT ![r] = q])
    BY <1>3 DEF ThreadStep, ThreadCreateCheck, ThreadCreateStore, ThreadGetRead,
       ThreadGetCount, ThreadUpdateRead, ThreadUpdateWrite, ThreadDelete, handlerVars, Idle
  <2> QED
    BY <2>1, <2>2, SlugInvElsewhere
<1>4. ASSUME NEW r \in Requests, CommentStep(r), UNCHANGED boardVars PROVE SlugInv'
  <2>1. issued \subseteq issued'
    BY <1>4 DEF CommentStep, CommentCreateCheck, CommentCreateStore, CommentCreateCount,
       CommentUpdateRead, CommentUpdateWrite, CommentDelete, NewID, handlerVars
  <2>2. \E q : q.op # "board.update" /\ (req' = req \/ req' = [req EXCEPT ![r] = q])
    BY <1>4 DEF CommentStep, CommentCreateCheck, CommentCreateStore, CommentCreateCount,
       CommentUpdateRead, CommentUpdateWrite, CommentDelete, handlerVars, Idle
  <2> QED
    BY <1>4, <2>1, <2>2, SlugInvElsewhere
<1> QED
  BY <1>1, <1>2, <1>3, <1>4 DEF ForumNext

\* As long as no update carries a slug, the slug index is the inverse of the
\* boards' slugs, however creations, updates and deletions interleave.
THEOREM SlugIndexCorrect ==
    ASSUME Renames = "none"
    PROVE  ForumSpec => []SlugIndexExact
<1>1. SlugInv /\ ForumInv /\ [ForumNext]_forumVars => SlugInv'
  BY InvIndexes, SlugInvNext DEF SlugsApart
<1>2. SlugInv => SlugIndexExact
  BY DEF SlugInv
<1> QED
  BY <1>1, <1>2, SlugInvInit, ForumInvariant, PTL DEF ForumSpec

\* So each of the three indexes fits its store.
THEOREM IndexesSound ==
    ASSUME Renames = "none"
    PROVE  ForumSpec => []IndexesExact
<1>1. SlugIndexExact /\ ThreadIndexExact /\ CommentIndexExact => IndexesExact
  BY DEF IndexesExact
<1> QED
  BY <1>1, SlugIndexCorrect, ThreadIndexSound, CommentIndexSound, PTL

=============================================================================

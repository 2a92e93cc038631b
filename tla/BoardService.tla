---------------------------- MODULE BoardService ----------------------------
(***************************************************************************)
(* BoardService over MemoryBoardStore: Create and Delete are one store     *)
(* call, Update reads a clone and writes it back in a second call, so two  *)
(* updates, or an update and a create, interleave between the two.         *)
(***************************************************************************)
EXTENDS BoardStore

\* Which slugs the payload of an update carries: "none" (the field is left
\* out), "unused" (only a slug no stored board has), "any".
CONSTANT Renames

ASSUME RenamesAssumption == Renames \in {"none", "unused", "any"}

\* The slugs UpdateBoardRequest.Apply may leave in the clone of a board.
SlugChoices(id) ==
    CASE Renames = "none" -> {boards[id].slug}
      [] Renames = "unused" ->
            {boards[id].slug} \cup
            {s \in Slugs : \A b \in BoardIds : boards[b] # Absent => boards[b].slug # s}
      [] Renames = "any" -> Slugs \cup {NoSlug}

\* Create: the slug is the caller's or slugify of the name, which may be empty.
BoardCreate(r) ==
    /\ req[r] = Idle
    /\ \E id \in BoardIds, slug \in Slugs \cup {NoSlug} :
          /\ NewID(id)
          /\ BoardStoreCreate(id, [slug |-> slug, isLocked |-> FALSE])
    /\ UNCHANGED req

\* Update, up to the validation of the clone the payload is applied to.
BoardUpdateRead(r) ==
    /\ req[r] = Idle
    /\ \E id \in BoardIds :
          /\ boards[id] # Absent
          /\ \E slug \in SlugChoices(id), locked \in BOOLEAN :
                Continue(r, [op |-> "board.update", id |-> id,
                             board |-> [slug |-> slug, isLocked |-> locked]])
    /\ UNCHANGED <<boardVars, issued>>

\* Update, the write of the clone; a board deleted meanwhile stays deleted.
BoardUpdateWrite(r) ==
    /\ req[r].op = "board.update"
    /\ BoardStoreUpdate(req[r].id, req[r].board)
    /\ Return(r)
    /\ UNCHANGED issued

BoardDelete(r) ==
    /\ req[r] = Idle
    /\ \E id \in BoardIds : BoardStoreDelete(id)
    /\ UNCHANGED handlerVars

BoardStep(r) ==
    \/ BoardCreate(r)
    \/ BoardUpdateRead(r)
    \/ BoardUpdateWrite(r)
    \/ BoardDelete(r)

\* What a goroutine in the middle of a board update holds.
BoardRequest == [op : {"board.update"}, id : BoardIds, board : Board]

-----------------------------------------------------------------------------

\* The slug index is the inverse of the boards' slugs: every stored board is
\* found by its slug, and an indexed slug leads to a stored board that has it.
\* GetBySlug and the conflict check of Create rest on this.
SlugIndexExact ==
    \A s \in Slugs, id \in BoardIds :
        slugIdx[s] = id <=> boards[id] # Absent /\ boards[id].slug = s

\* No two stored boards share a non-empty slug ("URL-friendly name, unique").
SlugUnique ==
    \A a, b \in BoardIds :
        /\ boards[a] # Absent /\ boards[b] # Absent
        /\ boards[a].slug = boards[b].slug /\ boards[a].slug # NoSlug
        => a = b

=============================================================================

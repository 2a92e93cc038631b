----------------------------- MODULE BoardStore -----------------------------
(***************************************************************************)
(* MemoryBoardStore: the boards by identifier and the index from a slug to *)
(* the identifier of the board that holds it.  A record keeps the fields   *)
(* other code decides on, the slug and the lock; the name, description and *)
(* display order are payload.  The dirty flag and the save loop are not    *)
(* part of this module.                                                    *)
(***************************************************************************)
EXTENDS Handlers

CONSTANTS
    Slugs,      \* the non-empty slugs
    NoSlug      \* the empty slug

VARIABLES
    boards,     \* items: the board stored under each identifier
    slugIdx     \* slugIdx: the identifier indexed under each slug

boardVars == <<boards, slugIdx>>

Board == [slug : Slugs \cup {NoSlug}, isLocked : BOOLEAN]

ASSUME BoardAssumption ==
    /\ NoSlug \notin Slugs
    /\ Absent \notin Board

BoardStoreInit ==
    /\ boards = [b \in BoardIds |-> Absent]
    /\ slugIdx = [s \in Slugs |-> Absent]

\* delete(s.slugIdx, slug); the empty slug is never a key.
Unindex(slug) == [s \in Slugs |-> IF s = slug THEN Absent ELSE slugIdx[s]]

\* A Create that indexes the empty slug too.
BoardStoreCreate_IndexesEmptySlug(id, board) ==
    /\ boards[id] = Absent
    /\ board.slug \in Slugs => slugIdx[board.slug] = Absent
    /\ boards' = [boards EXCEPT ![id] = board]
    /\ slugIdx' = [s \in Slugs \cup {board.slug} |->
                      IF s = board.slug THEN id ELSE slugIdx[s]]

BoardStoreCreate(id, board) ==
    /\ boards[id] = Absent
    /\ board.slug \in Slugs => slugIdx[board.slug] = Absent
    /\ boards' = [boards EXCEPT ![id] = board]
    /\ slugIdx' = [s \in Slugs |-> IF s = board.slug THEN id ELSE slugIdx[s]]

\* An Update that forgets to drop the entry of the slug it replaces.
BoardStoreUpdate_KeepsOldSlug(id, board) ==
    /\ boards' = ReplacePresent(boards, id, board)
    /\ slugIdx' = IF /\ boards[id] # Absent
                     /\ boards[id].slug # board.slug
                     /\ board.slug # NoSlug
                  THEN [slugIdx EXCEPT ![board.slug] = id]
                  ELSE slugIdx

\* Update re-indexes a board whose slug changes to a non-empty one.  It does
\* not look whether the new slug is taken.
BoardStoreUpdate(id, board) ==
    /\ boards' = ReplacePresent(boards, id, board)
    /\ slugIdx' = IF /\ boards[id] # Absent
                     /\ boards[id].slug # board.slug
                     /\ board.slug # NoSlug
                  THEN [Unindex(boards[id].slug) EXCEPT ![board.slug] = id]
                  ELSE slugIdx

BoardStoreDelete(id) ==
    /\ boards[id] # Absent
    /\ slugIdx' = Unindex(boards[id].slug)
    /\ boards' = [boards EXCEPT ![id] = Absent]

=============================================================================

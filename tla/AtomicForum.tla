----------------------------- MODULE AtomicForum ----------------------------
(***************************************************************************)
(* What BoardService, ThreadService and CommentService promise together:   *)
(* every operation is one step on the boards, the threads and the          *)
(* comments.  There are no goroutines, no clones and no indexes; a lock    *)
(* holds at the moment something is created, a slug has one board, a reply *)
(* is counted with its comment.                                            *)
(***************************************************************************)
EXTENDS Integers

CONSTANTS
    BoardIds, ThreadIds, CommentIds,    \* identifiers
    Slugs,                              \* the non-empty slugs
    NoSlug,                             \* the empty slug
    Absent                              \* no record under an identifier

VARIABLES
    boards, threads, comments,          \* the records
    issued                              \* the identifiers given so far

atomicVars == <<boards, threads, comments, issued>>

\* A record is added under a new identifier.
NewRecord(items, id, record) ==
    /\ id \notin issued
    /\ issued' = issued \cup {id}
    /\ items' = [items EXCEPT ![id] = record]

\* Some board has the slug s.
Taken(s) == \E b \in BoardIds : boards[b] # Absent /\ boards[b].slug = s

AtomicInit ==
    /\ boards = [b \in BoardIds |-> Absent]
    /\ threads = [t \in ThreadIds |-> Absent]
    /\ comments = [c \in CommentIds |-> Absent]
    /\ issued = {}

CreateBoard(b, slug) ==
    /\ slug \in Slugs => ~Taken(slug)
    /\ NewRecord(boards, b, [slug |-> slug, isLocked |-> FALSE])
    /\ UNCHANGED <<threads, comments>>

UpdateBoard(b, slug, locked) ==
    /\ boards[b] # Absent
    /\ slug # boards[b].slug => slug \in Slugs /\ ~Taken(slug)
    /\ boards' = [boards EXCEPT ![b] = [slug |-> slug, isLocked |-> locked]]
    /\ UNCHANGED <<threads, comments, issued>>

DeleteBoard(b) ==
    /\ boards[b] # Absent
    /\ boards' = [boards EXCEPT ![b] = Absent]
    /\ UNCHANGED <<threads, comments, issued>>

CreateThread(t, b) ==
    /\ boards[b] # Absent /\ ~boards[b].isLocked
    /\ NewRecord(threads, t, [boardId |-> b, isLocked |-> FALSE,
                              viewCount |-> 0, replyCount |-> 0])
    /\ UNCHANGED <<boards, comments>>

ViewThread(t) ==
    /\ threads[t] # Absent
    /\ threads' = [threads EXCEPT ![t].viewCount = @ + 1]
    /\ UNCHANGED <<boards, comments, issued>>

UpdateThread(t, locked) ==
    /\ threads[t] # Absent
    /\ threads' = [threads EXCEPT ![t].isLocked = locked]
    /\ UNCHANGED <<boards, comments, issued>>

DeleteThread(t) ==
    /\ threads[t] # Absent
    /\ threads' = [threads EXCEPT ![t] = Absent]
    /\ UNCHANGED <<boards, comments, issued>>

CreateComment(c, t) ==
    /\ threads[t] # Absent /\ ~threads[t].isLocked
    /\ NewRecord(comments, c, [threadId |-> t, isDeleted |-> FALSE])
    /\ threads' = [threads EXCEPT ![t].replyCount = @ + 1]
    /\ UNCHANGED boards

DeleteComment(c) ==
    /\ comments[c] # Absent
    /\ comments' = [comments EXCEPT ![c].isDeleted = TRUE]
    /\ UNCHANGED <<boards, threads, issued>>

AtomicNext ==
    \/ \E b \in BoardIds :
          \/ \E slug \in Slugs \cup {NoSlug} :
                CreateBoard(b, slug) \/ \E locked \in BOOLEAN : UpdateBoard(b, slug, locked)
          \/ DeleteBoard(b)
          \/ \E t \in ThreadIds : CreateThread(t, b)
    \/ \E t \in ThreadIds :
          \/ ViewThread(t) \/ DeleteThread(t)
          \/ \E locked \in BOOLEAN : UpdateThread(t, locked)
          \/ \E c \in CommentIds : CreateComment(c, t)
    \/ \E c \in CommentIds : DeleteComment(c)

AtomicSpec == AtomicInit /\ [][AtomicNext]_atomicVars

=============================================================================

\* Two requests that leave each other alone, on two boards, two threads and one
\* comment.
CONSTANTS
    Requests = {r1, r2}
    BoardIds = {b1, b2}
    ThreadIds = {t1, t2}
    CommentIds = {c1}
    Slugs = {s1, s2}
    NoSlug = NoSlug
    Absent = Absent
    Renames = "unused"
    MaxViews = 1
SYMMETRY Symmetry
SPECIFICATION IsolatedSpec
INVARIANT SlugIndexExact
INVARIANT ReplyCountExact
PROPERTY LockChangesOnlyOnRequest
PROPERTY ViewCountNeverFalls
PROPERTY DeletedCommentStaysDeleted
PROPERTY PostedOnlyWhereOpen
PROPERTY ImplementsAtomicForum
\* Every identifier may be used up and everything deleted: then nothing is left to do.
CHECK_DEADLOCK FALSE

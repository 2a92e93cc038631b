\* Two requests at a time on two boards, two threads, two comments and one slug.
CONSTANTS
    Requests = {r1, r2}
    BoardIds = {b1, b2}
    ThreadIds = {t1, t2}
    CommentIds = {c1, c2}
    Slugs = {s1}
    NoSlug = NoSlug
    Absent = Absent
    Renames = "none"
    MaxViews = 0
SYMMETRY Symmetry
SPECIFICATION ForumSpec
INVARIANT ForumTypeOK
INVARIANT IndexesExact
INVARIANT ReplyCountBounded
INVARIANT SnapshotsConsistent
INVARIANT ReferencesWereStored
PROPERTY DeletedThreadStaysGone
\* Every identifier may be used up and everything deleted: then nothing is left to do.
CHECK_DEADLOCK FALSE

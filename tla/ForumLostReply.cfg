\* An update of a thread and a comment on it at the same time.
CONSTANTS
    Requests = {r1, r2}
    BoardIds = {b1}
    ThreadIds = {t1}
    CommentIds = {c1}
    Slugs = {}
    NoSlug = NoSlug
    Absent = Absent
    Renames = "none"
    MaxViews = 0
SYMMETRY Symmetry
SPECIFICATION ForumSpec
INVARIANT ReplyCountExact
\* Every identifier may be used up and everything deleted: then nothing is left to do.
CHECK_DEADLOCK FALSE

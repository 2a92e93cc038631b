\* Two requests at a time, cut short anywhere, on one board, one thread and one
\* comment; the files are saved, and fail to load, independently.
CONSTANTS
    Requests = {r1, r2}
    BoardIds = {b1}
    ThreadIds = {t1}
    CommentIds = {c1}
    Slugs = {s1}
    NoSlug = NoSlug
    Absent = Absent
    Renames = "none"
    MaxViews = 0
SYMMETRY Symmetry
SPECIFICATION RestartSpec
INVARIANT RestartTypeOK
INVARIANT IndexesExact
INVARIANT RepliesWerePosted
PROPERTY SavedDeletionIsFinal
PROPERTY SavedCommentsStay

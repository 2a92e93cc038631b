\* Two requests at a time on one board, one thread, one comment and one report; they
\* may cast votes of the same user. Users share no key, so a second adds no race.
CONSTANTS
    Requests = {r1, r2}
    BoardIds = {b1}
    ThreadIds = {t1}
    CommentIds = {c1}
    Slugs = {}
    NoSlug = NoSlug
    Absent = Absent
    Renames = "none"
    MaxViews = 0
    Users = {u1}
    ReportIds = {p1}
    Subjects = {s1, s2}
SYMMETRY Symmetry
SPECIFICATION FeedbackSpec
INVARIANT FeedbackTypeOK
INVARIANT VoteTargetsWereStored
PROPERTY ReportsStayClosed
PROPERTY ImplementsForum
\* Every identifier may be used up while both requests wait to create something.
CHECK_DEADLOCK FALSE

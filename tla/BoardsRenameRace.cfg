\* Renames to unused slugs, two requests at a time: an update races a creation or
\* another update for one slug.
CONSTANTS
    Requests = {r1, r2}
    BoardIds = {b1, b2, b3}
    ThreadIds = {}
    CommentIds = {}
    Slugs = {s1, s2}
    NoSlug = NoSlug
    Absent = Absent
    Renames = "unused"
    MaxViews = 0
SYMMETRY Symmetry
SPECIFICATION ForumSpec
INVARIANT SlugUnique
\* Every identifier may be used up and every board deleted: then nothing is left to do.
CHECK_DEADLOCK FALSE

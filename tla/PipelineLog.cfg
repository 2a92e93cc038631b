\* One request of a client with a good token.
CONSTANTS
    Requests = {r1}
    Callers = {r1}
    Nobody = Nobody
    Tokens = {k1}
    Users = {u1}
    Absent = Absent
    Life = 1
    Timeout = 1
    MaxTime = 3
SPECIFICATION PipelineSpec
INVARIANT RequestsLogged
CHECK_DEADLOCK FALSE

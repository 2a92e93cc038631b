\* One request and two tokens, over three ticks; a token is good in the tick in
\* which Register begins and has expired in the next, and a request has one tick.
CONSTANTS
    Requests = {r1}
    Callers = {r1}
    Nobody = Nobody
    Tokens = {k1, k2}
    Users = {u1}
    Absent = Absent
    Life = 0
    Timeout = 1
    MaxTime = 2
SPECIFICATION PipelineSpec
INVARIANT PipelineTypeOK
INVARIANT ValidateIsExact
INVARIANT StaleTokensBounded
INVARIANT RefusedWithoutEffect
INVARIANT OnlyGoodTokensAct
PROPERTY AnswerIsFinal
PROPERTY NobodyWaits
\* The server need not start another request: then nothing is left to do.
CHECK_DEADLOCK FALSE

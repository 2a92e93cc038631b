------------------------------- MODULE Pipeline -----------------------------
(***************************************************************************)
(* The middleware a request goes through, as NewServer stacks it:          *)
(*   Limit(Timeout(RequireAuth(Recovery(Logging(RequestID(mux))))))        *)
(* Limit and Timeout run on the goroutine of the connection; Timeout       *)
(* starts another one for everything below it and waits for the end of     *)
(* that goroutine or for the deadline, whichever comes first.  Both write  *)
(* to one response, whose first WriteHeader counts.  The response is sent  *)
(* when the goroutine of the connection returns, if the client is still    *)
(* there and the write deadline of the server has not passed.              *)
(*                                                                         *)
(* What the limiter decides is RateLimiter's, what a handler does is       *)
(* Forum's: here a request may be turned away, and a handler may have an   *)
(* effect and may never return.                                            *)
(***************************************************************************)
EXTENDS Authenticator, Logger

CONSTANTS
    Requests,   \* the requests, each with its two goroutines
    Timeout     \* cfg.Timeout

ASSUME PipelineAssumption ==
    /\ Callers = Requests
    /\ Timeout \in Nat

VARIABLES
    authOn,     \* cfg.AuthToken # ""; never changes
    process,    \* "up", or "raced" when a data race ended it
    conn,       \* where the goroutine of the connection is
    work,       \* where the goroutine started by Timeout is
    deadline,   \* when the context of the request is done
    status,     \* the status of the response: that of the first WriteHeader
    told,       \* what the client gets: a status, or Gone
    offered,    \* the token in the Authorization header, or Absent
    effect,     \* whether the handler changed a store
    spent       \* history: whether the token was used up when the request came

requestVars == <<conn, work, deadline, status, told, offered, effect, spent>>
pipelineVars == <<authVars, logVars, authOn, process, requestVars>>

NoStatus == 0

\* The client closed the connection, or saw it closed without an answer.
Gone == 1

PipelineInit ==
    /\ AuthInit
    /\ LogInit
    /\ authOn \in BOOLEAN
    /\ process = "up"
    /\ conn = [r \in Requests |-> "new"]
    /\ work = [r \in Requests |-> "none"]
    /\ deadline = [r \in Requests |-> 0]
    /\ status = [r \in Requests |-> NoStatus]
    /\ told = [r \in Requests |-> NoStatus]
    /\ offered = [r \in Requests |-> Absent]
    /\ effect = [r \in Requests |-> FALSE]
    /\ spent = [r \in Requests |-> FALSE]

ConnAt(r, place) == conn' = [conn EXCEPT ![r] = place]
WorkAt(r, place) == work' = [work EXCEPT ![r] = place]

\* WriteHeader, through the recorder of Timeout, which has its mutex.
WriteHeader(r, code) ==
    status' = [status EXCEPT ![r] = IF @ = NoStatus THEN code ELSE @]

-----------------------------------------------------------------------------
(* The goroutine of the connection: Limit and Timeout.                     *)

\* A token that was revoked or has expired.
Spent(k) ==
    \/ k \in revoked
    \/ \E g \in granted : g.token = k /\ now > g.expiresAt

\* What the client gets of an answer.
Deliver(r, outcomes) == \E t \in outcomes : told' = [told EXCEPT ![r] = t]

\* A write deadline that leaves time for the answer of Timeout.
WriteDeadlineOver_Longer(r) == Timeout > 0 /\ now > deadline[r]

\* WriteTimeout is cfg.Timeout too, and net/http starts it when it has read the
\* header, before Timeout starts that of the context; zero is no write deadline.
WriteDeadlineOver(r) == Timeout > 0 /\ now >= deadline[r]

\* An answer that leaves the server now: it arrives, unless the client has left
\* or the write deadline is over, or it is lost on the way.
Sent(r, code) ==
    {Gone} \cup (IF told[r] = Gone \/ WriteDeadlineOver(r) THEN {} ELSE {code})

\* The client closes the connection while the server is at work.
Leave(r) ==
    /\ conn[r] = "waiting"
    /\ told[r] = NoStatus
    /\ told' = [told EXCEPT ![r] = Gone]
    /\ UNCHANGED <<conn, work, deadline, status, offered, effect, spent, authVars, logVars>>

\* Limit, a request over the limit.
TurnAway(r) ==
    /\ conn[r] = "new"
    /\ ConnAt(r, "returned")
    /\ WriteHeader(r, 429)
    /\ Deliver(r, {429, Gone})
    /\ UNCHANGED <<work, deadline, offered, effect, spent, authVars, logVars>>

\* Timeout: the deadline and the goroutine.
Admit(r) ==
    /\ conn[r] = "new"
    /\ now + Timeout <= MaxTime
    /\ \E k \in Tokens \cup {Absent} :
          /\ offered' = [offered EXCEPT ![r] = k]
          /\ spent' = [spent EXCEPT ![r] = Spent(k)]
    /\ deadline' = [deadline EXCEPT ![r] = now + Timeout]
    /\ ConnAt(r, "waiting")
    /\ WorkAt(r, IF authOn THEN "authorizing" ELSE "handling")
    /\ UNCHANGED <<status, told, effect, authVars, logVars>>

\* Timeout, the goroutine is done; the response is sent.
Return(r) ==
    /\ conn[r] = "waiting"
    /\ work[r] = "done"
    /\ ConnAt(r, "returned")
    /\ Deliver(r, Sent(r, status[r]))
    /\ UNCHANGED <<work, deadline, status, offered, effect, spent, authVars, logVars>>

\* A Timeout that waits for its goroutine first.
Expire_AfterHandler(r) ==
    /\ conn[r] = "waiting"
    /\ work[r] = "done"
    /\ now >= deadline[r] \/ told[r] = Gone
    /\ ConnAt(r, "late")
    /\ UNCHANGED <<work, deadline, status, told, offered, effect, spent, authVars, logVars>>

\* Timeout, the context is done, because of its deadline or because the client
\* has left; select may take this when both are ready.
Expire(r) ==
    /\ conn[r] = "waiting"
    /\ now >= deadline[r] \/ told[r] = Gone
    /\ ConnAt(r, "late")
    /\ UNCHANGED <<work, deadline, status, told, offered, effect, spent, authVars, logVars>>

\* Timeout, its own answer, in a response that may have a status already.
AnswerLate(r) ==
    /\ conn[r] = "late"
    /\ ConnAt(r, "returned")
    /\ WriteHeader(r, 503)
    /\ Deliver(r, Sent(r, IF status[r] = NoStatus THEN 503 ELSE status[r]))
    /\ UNCHANGED <<work, deadline, offered, effect, spent, authVars, logVars>>

\* Nothing stops the goroutine of Timeout from setting a header while the
\* answer to a late request reads the same map: the runtime may end the process.
SetsHeader(r) == work[r] \in {"handling", "replying", "refusing", "failing"}

HeaderRace(r) ==
    /\ process = "up"
    /\ conn[r] = "late"
    /\ SetsHeader(r)
    /\ process' = "raced"
    /\ UNCHANGED <<authOn, authVars, logVars, requestVars>>

ConnStep(r) == TurnAway(r) \/ Admit(r) \/ Return(r) \/ Expire(r) \/ AnswerLate(r)

-----------------------------------------------------------------------------
(* The goroutine of Timeout: RequireAuth, Recovery, Logging, RequestID and *)
(* the handler.                                                            *)

\* A RequireAuth that asks for a token, whatever it is.
Authorize_AnyToken(r) ==
    /\ work[r] = "authorizing"
    /\ WorkAt(r, IF offered[r] # Absent THEN "handling" ELSE "refusing")
    /\ UNCHANGED <<conn, deadline, status, told, offered, effect, spent, authVars, logVars>>

\* RequireAuth; the token is not looked at again.
Authorize(r) ==
    /\ work[r] = "authorizing"
    /\ WorkAt(r, IF offered[r] # Absent /\ Validate(offered[r]) # Absent
                 THEN "handling" ELSE "refusing")
    /\ UNCHANGED <<conn, deadline, status, told, offered, effect, spent, authVars, logVars>>

\* A RequireAuth that goes on after its error.
Refuse_NoReturn(r) ==
    /\ work[r] = "refusing"
    /\ WriteHeader(r, 401)
    /\ WorkAt(r, "handling")
    /\ UNCHANGED <<conn, deadline, told, offered, effect, spent, authVars, logVars>>

\* RequireAuth, its error, and the end of the goroutine.
Refuse(r) ==
    /\ work[r] = "refusing"
    /\ WriteHeader(r, 401)
    /\ WorkAt(r, "done")
    /\ UNCHANGED <<conn, deadline, told, offered, effect, spent, authVars, logVars>>

\* RequestID and the handler, up to its answer; it does not look at the context.
Handle(r) ==
    /\ work[r] = "handling"
    /\ effect' \in {effect, [effect EXCEPT ![r] = TRUE]}
    /\ WorkAt(r, "replying")
    /\ UNCHANGED <<conn, deadline, status, told, offered, spent, authVars, logVars>>

\* The answer of the handler, whatever it is: the recorder of Logging has no
\* mutex, so WriteHeader panics, Logging never logs the request, and Recovery
\* begins its line in the log.
Reply(r) ==
    /\ work[r] = "replying"
    /\ LogBegin(r, "panic")
    /\ WorkAt(r, "logging")
    /\ UNCHANGED <<conn, deadline, status, told, offered, effect, spent, authVars>>

\* Recovery, the rest of its line.
RecoverLogEnd(r) ==
    /\ work[r] = "logging"
    /\ LogEnd(r, "panic")
    /\ WorkAt(r, "failing")
    /\ UNCHANGED <<conn, deadline, status, told, offered, effect, spent, authVars>>

\* A Recovery inside Logging, whose answer panics again, with nobody to recover.
Fail_Escapes(r) ==
    /\ work[r] = "failing"
    /\ WorkAt(r, "escaped")
    /\ UNCHANGED <<conn, deadline, status, told, offered, effect, spent, authVars, logVars>>

\* Recovery, its answer, and the end of the goroutine.
Fail(r) ==
    /\ work[r] = "failing"
    /\ WriteHeader(r, 500)
    /\ WorkAt(r, "done")
    /\ UNCHANGED <<conn, deadline, told, offered, effect, spent, authVars, logVars>>

WorkStep(r) ==
    \/ Authorize(r) \/ Refuse(r) \/ Handle(r)
    \/ Reply(r) \/ RecoverLogEnd(r) \/ Fail(r)

-----------------------------------------------------------------------------

RequestStep(r) == ConnStep(r) \/ WorkStep(r) \/ Leave(r)

\* A step of a process that goes on, under the configuration it has.
Running == process = "up" /\ UNCHANGED <<authOn, process>>

PipelineNext ==
    \/ Running /\ AuthNext /\ UNCHANGED <<logVars, requestVars>>
    \/ \E r \in Requests :
          \/ Running /\ RequestStep(r)
          \/ HeaderRace(r)

\* The clock goes on and a connection's goroutine that can run runs.  A handler
\* need not return.
PipelineFairness ==
    /\ WF_pipelineVars(Running /\ Tick /\ UNCHANGED <<logVars, requestVars>>)
    /\ \A r \in Requests :
          WF_pipelineVars(Running /\ (Return(r) \/ Expire(r) \/ AnswerLate(r)))

PipelineSpec == PipelineInit /\ [][PipelineNext]_pipelineVars /\ PipelineFairness

-----------------------------------------------------------------------------

\* The goroutines and the response hold values of their types.
PipelineTypeOK ==
    /\ AuthTypeOK
    /\ LogTypeOK
    /\ authOn \in BOOLEAN
    /\ process \in {"up", "raced"}
    /\ conn \in [Requests -> {"new", "waiting", "late", "returned"}]
    /\ work \in [Requests -> {"none", "authorizing", "refusing", "handling",
                              "replying", "logging", "failing", "done"}]
    /\ deadline \in [Requests -> Nat]
    /\ status \in [Requests -> {NoStatus, 401, 429, 500, 503}]
    /\ told \in [Requests -> {NoStatus, Gone, 401, 429, 500, 503}]
    /\ offered \in [Requests -> Tokens \cup {Absent}]
    /\ effect \in [Requests -> BOOLEAN]
    /\ spent \in [Requests -> BOOLEAN]

\* A client that is told 401 or 429 knows that nothing was changed.
RefusedWithoutEffect ==
    \A r \in Requests : status[r] \in {401, 429} => ~effect[r]

\* With authentication on, only a request with a registered token changes
\* anything, and none whose token was revoked or expired when it came, whatever
\* registrations, revocations and clean-ups go on meanwhile.
OnlyGoodTokensAct ==
    \A r \in Requests :
        authOn /\ effect[r] => ~spent[r] /\ \E g \in granted : g.token = offered[r]

\* What the client is told is final: once it has a status, its request has no
\* effect any more.  The one exception is a server without a timeout at all
\* (Timeout = 0), where the answer 503 arrives while the handler goes on.
AnswerIsFinal ==
    [][\A r \in Requests :
          told[r] \notin {NoStatus, Gone} /\ effect'[r] # effect[r] =>
              Timeout = 0 /\ told[r] = 503]_pipelineVars

\* Nobody waits for ever: the client of every request that was let in gets an
\* answer or sees the connection close, and the goroutine of the connection
\* returns, even if the handler never does; no panic ends the process first.
NobodyWaits ==
    \A r \in Requests :
        conn[r] = "waiting" ~>
            \/ conn[r] = "returned" /\ told[r] # NoStatus
            \/ process = "raced"

\* "Logging middleware logs requests": a request that got through to its
\* handler has its line in the log when its goroutine is done.
RequestsLogged ==
    \A r \in Requests :
        work[r] = "done" /\ effect[r] => << <<r, "request">>, <<r, "request">> >> \in lines

=============================================================================

----------------------------- MODULE RateLimiter ----------------------------
(***************************************************************************)
(* RateLimiter: the times of a client's admitted requests, from which its  *)
(* next request drops those that have left the window before it counts.    *)
(* The mutex is held from the first access to the last, and the clock is   *)
(* read under it, so one request is one step.  Time is counted in ticks;   *)
(* any number of requests may come within one.                             *)
(***************************************************************************)
EXTENDS Integers, FiniteSets

CONSTANTS
    Clients,    \* the keys clientIP makes of requests
    Limit,      \* FORUMGO_RATE_LIMIT
    Window,     \* FORUMGO_RATE_WINDOW, in ticks
    MaxTime     \* the tick at which the clock of the model stops

\* A limit below zero refuses everything, as zero does.
ASSUME RateLimiterAssumption ==
    Limit \in Nat /\ Window \in Nat /\ MaxTime \in Nat

VARIABLES
    now,        \* time.Now
    requests,   \* requests: the kept admissions of each client
    admitted,   \* every admission of each client, which the code forgets
    verdict     \* the answer to each client's latest request, or "none"

limiterVars == <<now, requests, admitted, verdict>>

\* NewRateLimiter: the map is empty, and a missing key reads as no entries.
LimiterInit ==
    /\ now = 0
    /\ requests = [c \in Clients |-> {}]
    /\ admitted = [c \in Clients |-> {}]
    /\ verdict = [c \in Clients |-> "none"]

\* A filter that takes "not before" for "after".
Valid_NotBefore(c) == {e \in requests[c] : e.at >= now - Window}

\* The kept entries after the cutoff.
Valid(c) == {e \in requests[c] : e.at > now - Window}

\* An admission at time t.  Its number tells it from others of the same tick.
Admission(c, t) == [nr |-> Cardinality(admitted[c]), at |-> t]

\* An Admit that keeps the time the entry expires at.
Admit_KeepsExpiry(c) ==
    /\ Cardinality(Valid(c)) < Limit
    /\ requests' = [requests EXCEPT ![c] = Valid(c) \cup {Admission(c, now + Window)}]
    /\ admitted' = [admitted EXCEPT ![c] = @ \cup {Admission(c, now)}]
    /\ verdict' = [verdict EXCEPT ![c] = "admitted"]
    /\ UNCHANGED now

\* An Admit whose comparison is off by one.
Admit_OneMore(c) ==
    /\ Cardinality(Valid(c)) <= Limit
    /\ requests' = [requests EXCEPT ![c] = Valid(c) \cup {Admission(c, now)}]
    /\ admitted' = [admitted EXCEPT ![c] = @ \cup {Admission(c, now)}]
    /\ verdict' = [verdict EXCEPT ![c] = "admitted"]
    /\ UNCHANGED now

\* The request is kept and passed on to the next handler.
Admit(c) ==
    /\ Cardinality(Valid(c)) < Limit
    /\ requests' = [requests EXCEPT ![c] = Valid(c) \cup {Admission(c, now)}]
    /\ admitted' = [admitted EXCEPT ![c] = @ \cup {Admission(c, now)}]
    /\ verdict' = [verdict EXCEPT ![c] = "admitted"]
    /\ UNCHANGED now

\* 429: the request leaves no entry, the expired ones go all the same.
Refuse(c) ==
    /\ Cardinality(Valid(c)) >= Limit
    /\ requests' = [requests EXCEPT ![c] = Valid(c)]
    /\ verdict' = [verdict EXCEPT ![c] = "refused"]
    /\ UNCHANGED <<now, admitted>>

\* A request of client c.
LimitRequest(c) == Admit(c) \/ Refuse(c)

\* The clock moves on.
Tick ==
    /\ now < MaxTime
    /\ now' = now + 1
    /\ UNCHANGED <<requests, admitted, verdict>>

LimiterNext ==
    \/ Tick
    \/ \E c \in Clients : LimitRequest(c)

LimiterSpec == LimiterInit /\ [][LimiterNext]_limiterVars

-----------------------------------------------------------------------------

\* Every kept or admitted entry has a number and a time that has been; the
\* answer to a client's latest request is known, if there was one.
LimiterTypeOK ==
    /\ now \in Nat
    /\ requests \in [Clients -> SUBSET [nr : Nat, at : 0..now]]
    /\ admitted \in [Clients -> SUBSET [nr : Nat, at : 0..now]]
    /\ verdict \in [Clients -> {"none", "admitted", "refused"}]

\* The admissions of client c in the window that ended, or will end, at t.
AdmittedIn(c, t) == {e \in admitted[c] : e.at > t - Window /\ e.at <= t}

\* Wherever the window is put, at any moment so far, it holds at most Limit
\* admitted requests of a client, although entries are dropped all the time.
WindowsBounded ==
    \A c \in Clients : \A t \in 0..now : Cardinality(AdmittedIn(c, t)) <= Limit

\* The limiter answers each request as one with the whole history would: what
\* it dropped mattered no more, and no request is refused while there is room.
Ideal == INSTANCE SlidingWindow

ImplementsSlidingWindow == Ideal!WindowSpec

=============================================================================

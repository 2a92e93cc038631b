------------------------------- MODULE Router -------------------------------
(***************************************************************************)
(* Router.Handler: the patterns it registers, one after the other, with a  *)
(* ServeMux, which panics when a pattern conflicts with an earlier one.    *)
(* A pattern is a method and the segments below /api/v1; AnySegment stands *)
(* for a wildcard, whatever its name.                                      *)
(***************************************************************************)
EXTENDS Integers, Sequences

VARIABLES
    registered,     \* how many patterns are registered
    panicked        \* whether HandleFunc has panicked

routerVars == <<registered, panicked>>

AnySegment == "{}"

\* The method a request must have and the segments its path must have.
Get(path) == [method |-> "GET", path |-> path]
Post(path) == [method |-> "POST", path |-> path]
Put(path) == [method |-> "PUT", path |-> path]
Delete(path) == [method |-> "DELETE", path |-> path]

Patterns ==
    << Get(<<"boards">>), Post(<<"boards">>),
       Get(<<"boards", "by-slug", AnySegment>>),
       Get(<<"boards", AnySegment>>), Put(<<"boards", AnySegment>>),
       Delete(<<"boards", AnySegment>>),
       Get(<<"boards", AnySegment, "threads">>),
       Get(<<"threads">>), Post(<<"threads">>),
       Get(<<"threads", AnySegment>>), Put(<<"threads", AnySegment>>),
       Delete(<<"threads", AnySegment>>),
       Get(<<"threads", AnySegment, "comments">>), Post(<<"comments">>),
       Get(<<"comments", AnySegment>>), Put(<<"comments", AnySegment>>),
       Delete(<<"comments", AnySegment>>),
       Post(<<"threads", AnySegment, "vote">>), Post(<<"comments", AnySegment, "vote">>),
       Post(<<"reports">>) >>

\* Whether p matches every request that q matches.
Covers(p, q) ==
    /\ p.method = q.method
    /\ Len(p.path) = Len(q.path)
    /\ \A i \in 1..Len(p.path) : p.path[i] \in {AnySegment, q.path[i]}

\* Whether some request matches both.
Overlap(p, q) ==
    /\ p.method = q.method
    /\ Len(p.path) = Len(q.path)
    /\ \A i \in 1..Len(p.path) :
          \/ p.path[i] = q.path[i]
          \/ AnySegment \in {p.path[i], q.path[i]}

\* The more specific of two patterns takes a request that matches both; when
\* there is none, or they are the same, they conflict.
Conflict(p, q) == Overlap(p, q) /\ (Covers(p, q) <=> Covers(q, p))

RouterInit ==
    /\ registered = 0
    /\ panicked = FALSE

\* HandleFunc, the next pattern of Handler.
Register ==
    /\ ~panicked
    /\ registered < Len(Patterns)
    /\ IF \E i \in 1..registered : Conflict(Patterns[i], Patterns[registered + 1])
       THEN panicked' = TRUE /\ UNCHANGED registered
       ELSE registered' = registered + 1 /\ UNCHANGED panicked

RouterSpec == RouterInit /\ [][Register]_routerVars /\ WF_routerVars(Register)

-----------------------------------------------------------------------------

\* "Handler returns the top-level HTTP handler with all routes registered."
AllRoutesRegistered == <>(registered = Len(Patterns))

=============================================================================

------------------------------ MODULE Handlers ------------------------------
(***************************************************************************)
(* The request goroutines every service runs on.                           *)
(*                                                                         *)
(* net/http runs each request on a goroutine of its own, and a service     *)
(* method calls the stores one at a time.  Every store method holds its    *)
(* store's mutex from its first access to its last, and no method holds    *)
(* two, so one store call is one atomic step; what a goroutine keeps       *)
(* between two calls (the clone GetByID returned, the fields of the        *)
(* payload) is its entry of req.  A call that returns an error before it   *)
(* has changed anything is a stuttering step: its early return is the      *)
(* guard of the action.                                                    *)
(***************************************************************************)

CONSTANTS
    Requests,   \* the request goroutines that may be in flight together
    BoardIds,   \* the identifiers newID may return for a board,
    ThreadIds,  \* for a thread,
    CommentIds, \* and for a comment
    Absent      \* what a map lookup that misses stands for

ASSUME HandlersAssumption ==
    Absent \notin BoardIds \cup ThreadIds \cup CommentIds

VARIABLES
    req,        \* req[r]: what goroutine r holds between two store calls
    issued      \* every identifier newID has returned

handlerVars == <<req, issued>>

Idle == [op |-> "idle"]

\* Goroutine r goes on with the local state s.
Continue(r, s) == req' = [req EXCEPT ![r] = s]

\* Goroutine r returns to its caller.
Return(r) == Continue(r, Idle)

\* newID: sixteen random bytes, taken never to repeat.
NewID(id) ==
    /\ id \notin issued
    /\ issued' = issued \cup {id}

HandlersInit ==
    /\ req = [r \in Requests |-> Idle]
    /\ issued = {}

\* A store's Update: the record is replaced only if its key is present.
ReplacePresent(items, id, item) ==
    IF items[id] = Absent THEN items ELSE [items EXCEPT ![id] = item]

=============================================================================

---------------------------- MODULE SlidingWindow ---------------------------
(***************************************************************************)
(* What a sliding-window rate limiter promises, with the whole history at  *)
(* hand: a request is admitted exactly when fewer than Limit requests of   *)
(* its client were admitted in the Window that ends now.                   *)
(***************************************************************************)
EXTENDS Integers, FiniteSets

CONSTANTS
    Clients,    \* what requests are told apart by
    Limit,      \* the requests a client may make
    Window      \* in this much time

VARIABLES
    now,        \* the clock
    admitted,   \* every admission of each client: its number and its time
    verdict     \* the answer to each client's latest request

Recent(c) == {e \in admitted[c] : e.at > now - Window}

Answer(c) ==
    IF Cardinality(Recent(c)) < Limit
    THEN /\ admitted' = [admitted EXCEPT ![c] =
                            @ \cup {[nr |-> Cardinality(@), at |-> now]}]
         /\ verdict' = [verdict EXCEPT ![c] = "admitted"]
    ELSE /\ verdict' = [verdict EXCEPT ![c] = "refused"]
         /\ UNCHANGED admitted

WindowInit ==
    /\ now = 0
    /\ admitted = [c \in Clients |-> {}]
    /\ verdict = [c \in Clients |-> "none"]

WindowNext ==
    \/ now' = now + 1 /\ UNCHANGED <<admitted, verdict>>
    \/ \E c \in Clients : Answer(c) /\ UNCHANGED now

WindowSpec == WindowInit /\ [][WindowNext]_<<now, admitted, verdict>>

=============================================================================

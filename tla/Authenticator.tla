---------------------------- MODULE Authenticator ---------------------------
(***************************************************************************)
(* The authenticator: a map of bearer tokens to users, a map of tokens to  *)
(* the time they expire, and one clean-up goroutine per registration.      *)
(* Register takes the time before it takes the lock, so a token may be old *)
(* when it is stored; everything under the lock is one step.               *)
(***************************************************************************)
EXTENDS Integers

CONSTANTS
    Tokens,     \* what 32 random bytes may be; none comes twice
    Users,
    Absent,     \* no such key in the map
    Life,       \* 24 * time.Hour
    MaxTime     \* bound of the model: the clock stops there

ASSUME AuthenticatorAssumption ==
    /\ Life \in Nat /\ MaxTime \in Nat
    /\ Absent \notin Users \cup Int

VARIABLES
    now,            \* the clock
    tokens,         \* tokens
    expires,        \* expires
    registering,    \* the calls of Register that wait for the lock
    cleaners,       \* how many clean-up goroutines wait for the lock
    granted,        \* history: the registrations that returned
    revoked,        \* history: the tokens revoked
    lastStore       \* history: when a token was last stored

authVars == <<now, tokens, expires, registering, cleaners, granted, revoked, lastStore>>

Registration == [token : Tokens, user : Users, expiresAt : Nat]

\* NewAuthenticator.
AuthInit ==
    /\ now = 0
    /\ tokens = [k \in Tokens |-> Absent]
    /\ expires = [k \in Tokens |-> Absent]
    /\ registering = {}
    /\ cleaners = 0
    /\ granted = {}
    /\ revoked = {}
    /\ lastStore = 0

\* The clock.
Tick ==
    /\ now < MaxTime
    /\ now' = now + 1
    /\ UNCHANGED <<tokens, expires, registering, cleaners, granted, revoked, lastStore>>

\* Register, up to the lock: a new token and the time it expires.
RegisterBegin(u) ==
    /\ \E k \in Tokens :
          /\ \A g \in granted \cup registering : g.token # k
          /\ registering' = registering \cup
                 {[token |-> k, user |-> u, expiresAt |-> now + Life]}
    /\ UNCHANGED <<now, tokens, expires, cleaners, granted, revoked, lastStore>>

\* A Register that starts no clean-up.
RegisterStore_NoCleaner(g) ==
    /\ g \in registering
    /\ registering' = registering \ {g}
    /\ tokens' = [tokens EXCEPT ![g.token] = g.user]
    /\ expires' = [expires EXCEPT ![g.token] = g.expiresAt]
    /\ granted' = granted \cup {g}
    /\ lastStore' = now
    /\ UNCHANGED <<now, cleaners, revoked>>

\* Register, under the lock.
RegisterStore(g) ==
    /\ g \in registering
    /\ registering' = registering \ {g}
    /\ tokens' = [tokens EXCEPT ![g.token] = g.user]
    /\ expires' = [expires EXCEPT ![g.token] = g.expiresAt]
    /\ cleaners' = cleaners + 1
    /\ granted' = granted \cup {g}
    /\ lastStore' = now
    /\ UNCHANGED <<now, revoked>>

\* Revoke; a token that is not there is an error and changes nothing.
Revoke(k) ==
    /\ tokens[k] # Absent
    /\ tokens' = [tokens EXCEPT ![k] = Absent]
    /\ expires' = [expires EXCEPT ![k] = Absent]
    /\ revoked' = revoked \cup {k}
    /\ UNCHANGED <<now, registering, cleaners, granted, lastStore>>

\* now.After(exp), for a token that has a time.
Expired(k) == expires[k] # Absent /\ now > expires[k]

\* A clean-up that takes the tokens that expire now as well.
CleanExpired_NotBefore ==
    /\ cleaners > 0
    /\ cleaners' = cleaners - 1
    /\ LET Gone(k) == expires[k] # Absent /\ now >= expires[k]
       IN  /\ tokens' = [k \in Tokens |-> IF Gone(k) THEN Absent ELSE tokens[k]]
           /\ expires' = [k \in Tokens |-> IF Gone(k) THEN Absent ELSE expires[k]]
    /\ UNCHANGED <<now, registering, granted, revoked, lastStore>>

\* cleanExpired.
CleanExpired ==
    /\ cleaners > 0
    /\ cleaners' = cleaners - 1
    /\ tokens' = [k \in Tokens |-> IF Expired(k) THEN Absent ELSE tokens[k]]
    /\ expires' = [k \in Tokens |-> IF Expired(k) THEN Absent ELSE expires[k]]
    /\ UNCHANGED <<now, registering, granted, revoked, lastStore>>

\* Validate: the user of the token, or Absent.
Validate(k) == IF tokens[k] = Absent \/ Expired(k) THEN Absent ELSE tokens[k]

AuthNext ==
    \/ Tick
    \/ \E u \in Users : RegisterBegin(u)
    \/ \E g \in registering : RegisterStore(g)
    \/ \E k \in Tokens : Revoke(k)
    \/ CleanExpired

-----------------------------------------------------------------------------

\* The maps, the goroutines and the history hold values of their types.
AuthTypeOK ==
    /\ now \in Nat /\ lastStore \in Nat /\ cleaners \in Nat
    /\ tokens \in [Tokens -> Users \cup {Absent}]
    /\ expires \in [Tokens -> Nat \cup {Absent}]
    /\ registering \subseteq Registration
    /\ granted \subseteq Registration
    /\ revoked \subseteq Tokens

\* A token is good for its user from the return of Register up to its expiry
\* or its revocation, whether and whenever the clean-up goroutines run.
ValidateIsExact ==
    \A k \in Tokens, u \in Users :
        Validate(k) = u <=>
            \E g \in granted :
                /\ g.token = k /\ g.user = u
                /\ k \notin revoked
                /\ now <= g.expiresAt

\* Expired tokens do not pile up: when no clean-up is pending, every token in
\* the map was good when a token was last stored.
StaleTokensBounded ==
    cleaners = 0 =>
        \A k \in Tokens : tokens[k] # Absent => expires[k] >= lastStore

=============================================================================

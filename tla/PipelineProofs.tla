---------------------------- MODULE PipelineProofs --------------------------
(***************************************************************************)
(* Proofs about the middleware: first the authenticator and the logger by  *)
(* themselves, then the requests that go through both.                     *)
(***************************************************************************)
EXTENDS Pipeline, SequenceTheorems, TLAPS

(* The authenticator.                                                      *)

\* A new authenticator is of its types.
LEMMA AuthInitType == AuthInit => AuthTypeOK
  BY DEF AuthInit, AuthTypeOK

\* Every step of the authenticator keeps its types.
LEMMA AuthStepType ==
    ASSUME AuthTypeOK, AuthNext PROVE AuthTypeOK'
<1> USE AuthenticatorAssumption DEF AuthTypeOK
<1>1. CASE Tick
  BY <1>1 DEF Tick
<1>2. ASSUME NEW u \in Users, RegisterBegin(u) PROVE AuthTypeOK'
  <2>1. registering' \subseteq Registration
    BY <1>2 DEF RegisterBegin, Registration
  <2> QED
    BY <1>2, <2>1 DEF RegisterBegin
<1>3. ASSUME NEW g \in registering, RegisterStore(g) PROVE AuthTypeOK'
  <2>1. g.token \in Tokens /\ g.user \in Users /\ g.expiresAt \in Nat
    BY DEF Registration
  <2> QED
    BY <1>3, <2>1 DEF RegisterStore
<1>4. ASSUME NEW k \in Tokens, Revoke(k) PROVE AuthTypeOK'
  BY <1>4 DEF Revoke
<1>5. CASE CleanExpired
  BY <1>5 DEF CleanExpired
<1> QED
  BY <1>1, <1>2, <1>3, <1>4, <1>5 DEF AuthNext

\* A token is registered once: what was granted and what waits for the lock
\* are different tokens, and only a granted one is in the map or was revoked.
TokensOnce ==
    /\ \A g, h \in granted \cup registering : g.token = h.token => g = h
    /\ \A g \in registering : g \notin granted
    /\ \A k \in revoked : \E g \in granted : g.token = k

\* The map has the live registrations, and nothing but registrations that were
\* granted and not revoked.
MapsAreGrants ==
    /\ \A k \in Tokens : tokens[k] # Absent =>
          /\ k \notin revoked
          /\ \E g \in granted : g.token = k /\ g.user = tokens[k] /\ g.expiresAt = expires[k]
    /\ \A g \in granted : g.token \notin revoked /\ now <= g.expiresAt =>
          tokens[g.token] = g.user /\ expires[g.token] = g.expiresAt

\* When no clean-up is pending, no token in the map is older than the last store.
AuthInv == AuthTypeOK /\ TokensOnce /\ MapsAreGrants /\ lastStore <= now /\ StaleTokensBounded

\* A new authenticator has nothing.
LEMMA AuthInitInv == AuthInit => AuthInv
  BY AuthInitType
     DEF AuthInit, AuthInv, AuthTypeOK, TokensOnce, MapsAreGrants, StaleTokensBounded

\* No step registers a token twice.
LEMMA TokensStayOnce ==
    ASSUME AuthInv, AuthNext PROVE TokensOnce'
<1> USE DEF AuthInv, TokensOnce
<1>1. CASE Tick
  BY <1>1 DEF Tick
<1>2. ASSUME NEW u \in Users, RegisterBegin(u) PROVE TokensOnce'
  <2>1. PICK k \in Tokens :
           /\ \A g \in granted \cup registering : g.token # k
           /\ registering' = registering \cup
                  {[token |-> k, user |-> u, expiresAt |-> now + Life]}
    BY <1>2 DEF RegisterBegin
  <2>2. granted' = granted /\ revoked' = revoked
    BY <1>2 DEF RegisterBegin
  <2> QED
    BY <2>1, <2>2
<1>3. ASSUME NEW g \in registering, RegisterStore(g) PROVE TokensOnce'
  BY <1>3 DEF RegisterStore
<1>4. ASSUME NEW k \in Tokens, Revoke(k) PROVE TokensOnce'
  BY <1>4 DEF Revoke, MapsAreGrants
<1>5. CASE CleanExpired
  BY <1>5 DEF CleanExpired
<1> QED
  BY <1>1, <1>2, <1>3, <1>4, <1>5 DEF AuthNext

\* No step loses a live registration, or leaves another one in the map.
LEMMA MapsStayGrants ==
    ASSUME AuthInv, AuthNext PROVE MapsAreGrants'
<1> USE DEF AuthInv, MapsAreGrants
<1>1. CASE Tick
  BY <1>1 DEF Tick, AuthTypeOK, Registration
<1>2. ASSUME NEW u \in Users, RegisterBegin(u) PROVE MapsAreGrants'
  BY <1>2 DEF RegisterBegin
<1>3. ASSUME NEW g \in registering, RegisterStore(g) PROVE MapsAreGrants'
  <2>1. g.token \in Tokens /\ g.user \in Users /\ g.expiresAt \in Nat
    BY DEF Registration, AuthTypeOK
  <2>2. g.token \notin revoked
    BY DEF TokensOnce
  <2>3. \A h \in granted : h.token # g.token
    BY DEF TokensOnce
  <2>4. granted' = granted \cup {g} /\ revoked' = revoked /\ now' = now
    BY <1>3 DEF RegisterStore
  <2>5. /\ tokens' = [tokens EXCEPT ![g.token] = g.user]
        /\ expires' = [expires EXCEPT ![g.token] = g.expiresAt]
    BY <1>3 DEF RegisterStore
  <2>6. ASSUME NEW k \in Tokens, tokens'[k] # Absent
        PROVE  /\ k \notin revoked'
               /\ \E h \in granted' : h.token = k /\ h.user = tokens'[k] /\ h.expiresAt = expires'[k]
    BY <2>1, <2>2, <2>4, <2>5, <2>6 DEF AuthTypeOK
  <2>7. ASSUME NEW h \in granted', h.token \notin revoked', now' <= h.expiresAt
        PROVE  tokens'[h.token] = h.user /\ expires'[h.token] = h.expiresAt
    BY <2>1, <2>3, <2>4, <2>5, <2>7 DEF AuthTypeOK, Registration
  <2> QED
    BY <2>6, <2>7
<1>4. ASSUME NEW k \in Tokens, Revoke(k) PROVE MapsAreGrants'
  <2>1. /\ tokens' = [tokens EXCEPT ![k] = Absent]
        /\ expires' = [expires EXCEPT ![k] = Absent]
        /\ revoked' = revoked \cup {k} /\ granted' = granted /\ now' = now
    BY <1>4 DEF Revoke
  <2> QED
    BY <2>1 DEF AuthTypeOK, Registration
<1>5. CASE CleanExpired
  <2>1. /\ tokens' = [k \in Tokens |-> IF Expired(k) THEN Absent ELSE tokens[k]]
        /\ expires' = [k \in Tokens |-> IF Expired(k) THEN Absent ELSE expires[k]]
        /\ revoked' = revoked /\ granted' = granted /\ now' = now
    BY <1>5 DEF CleanExpired
  <2>2. ASSUME NEW g \in granted, g.token \notin revoked, now <= g.expiresAt
        PROVE  ~Expired(g.token)
    BY <2>2 DEF Expired, AuthTypeOK, Registration
  <2> QED
    BY <2>1, <2>2 DEF AuthTypeOK, Registration
<1> QED
  BY <1>1, <1>2, <1>3, <1>4, <1>5 DEF AuthNext

\* A clean-up leaves what is good now; a store makes a clean-up pending.
LEMMA StaleStayBounded ==
    ASSUME AuthInv, AuthNext PROVE (lastStore <= now /\ StaleTokensBounded)'
<1> USE DEF AuthInv, StaleTokensBounded
<1>1. CASE Tick
  BY <1>1 DEF Tick, AuthTypeOK
<1>2. ASSUME NEW u \in Users, RegisterBegin(u) PROVE (lastStore <= now /\ StaleTokensBounded)'
  BY <1>2 DEF RegisterBegin
<1>3. ASSUME NEW g \in registering, RegisterStore(g)
      PROVE  (lastStore <= now /\ StaleTokensBounded)'
  BY <1>3 DEF RegisterStore, AuthTypeOK
<1>4. ASSUME NEW k \in Tokens, Revoke(k) PROVE (lastStore <= now /\ StaleTokensBounded)'
  BY <1>4 DEF Revoke, AuthTypeOK
<1>5. CASE CleanExpired
  <2>1. /\ tokens' = [k \in Tokens |-> IF Expired(k) THEN Absent ELSE tokens[k]]
        /\ expires' = [k \in Tokens |-> IF Expired(k) THEN Absent ELSE expires[k]]
        /\ lastStore' = lastStore /\ now' = now
    BY <1>5 DEF CleanExpired
  <2>2. ASSUME NEW k \in Tokens, tokens'[k] # Absent PROVE expires'[k] >= lastStore'
    <3>1. tokens[k] # Absent /\ ~Expired(k) /\ expires'[k] = expires[k]
      BY <2>1, <2>2
    <3>2. expires[k] \in Nat
      BY <3>1, AuthenticatorAssumption DEF MapsAreGrants, AuthTypeOK, Registration
    <3>3. expires[k] # Absent
      BY <3>2, AuthenticatorAssumption
    <3> QED
      BY <2>1, <3>1, <3>2, <3>3 DEF Expired, AuthTypeOK
  <2> QED
    BY <2>1, <2>2
<1> QED
  BY <1>1, <1>2, <1>3, <1>4, <1>5 DEF AuthNext

\* Every step of the authenticator, or of anything else, keeps its invariant.
LEMMA AuthStepInv ==
    ASSUME AuthInv, AuthNext \/ UNCHANGED authVars PROVE AuthInv'
<1>1. CASE AuthNext
  BY <1>1, AuthStepType, TokensStayOnce, MapsStayGrants, StaleStayBounded DEF AuthInv
<1>2. CASE UNCHANGED authVars
  BY <1>2 DEF authVars, AuthInv, AuthTypeOK, TokensOnce, MapsAreGrants, StaleTokensBounded
<1> QED
  BY <1>1, <1>2

\* With the invariant, Validate accepts a token just while it is good.
LEMMA InvValidatesExactly == AuthInv => ValidateIsExact
<1> SUFFICES ASSUME AuthInv, NEW k \in Tokens, NEW u \in Users
             PROVE  Validate(k) = u <=>
                       \E g \in granted : /\ g.token = k /\ g.user = u
                                          /\ k \notin revoked
                                          /\ now <= g.expiresAt
  BY DEF ValidateIsExact
<1>0. u # Absent
  BY AuthenticatorAssumption
<1>1. ASSUME Validate(k) = u
      PROVE  \E g \in granted : /\ g.token = k /\ g.user = u
                                /\ k \notin revoked
                                /\ now <= g.expiresAt
  <2>1. tokens[k] = u /\ ~Expired(k)
    BY <1>0, <1>1 DEF Validate
  <2>2. PICK g \in granted : g.token = k /\ g.user = u /\ g.expiresAt = expires[k]
    BY <1>0, <2>1 DEF AuthInv, MapsAreGrants
  <2>3. g.expiresAt \in Nat /\ now \in Nat
    BY DEF AuthInv, AuthTypeOK, Registration
  <2>4. now <= g.expiresAt
    BY <2>1, <2>2, <2>3, AuthenticatorAssumption DEF Expired
  <2> QED
    BY <1>0, <2>1, <2>2, <2>4 DEF AuthInv, MapsAreGrants
<1>2. ASSUME NEW g \in granted, g.token = k, g.user = u, k \notin revoked, now <= g.expiresAt
      PROVE  Validate(k) = u
  <2>1. tokens[k] = u /\ expires[k] = g.expiresAt
    BY <1>2 DEF AuthInv, MapsAreGrants
  <2>2. ~Expired(k)
    BY <1>2, <2>1 DEF Expired, AuthInv, AuthTypeOK, Registration
  <2> QED
    BY <1>0, <2>1, <2>2 DEF Validate
<1> QED
  BY <1>1, <1>2

-----------------------------------------------------------------------------
(* Types.                                                                  *)

\* The server starts in states of the types.
LEMMA PipelineInitType == PipelineInit => PipelineTypeOK
<1> SUFFICES ASSUME PipelineInit PROVE PipelineTypeOK
  OBVIOUS
<1>1. AuthTypeOK
  BY AuthInitType DEF PipelineInit
<1>2. LogTypeOK
  BY DEF PipelineInit, LogInit, LogTypeOK
<1> QED
  BY <1>1, <1>2 DEF PipelineInit, PipelineTypeOK, NoStatus, Gone

\* Every step keeps the types of the requests.
RequestTypeOK ==
    /\ conn \in [Requests -> {"new", "waiting", "late", "returned"}]
    /\ work \in [Requests -> {"none", "authorizing", "refusing", "handling",
                              "replying", "logging", "failing", "done"}]
    /\ deadline \in [Requests -> Nat]
    /\ status \in [Requests -> {NoStatus, 401, 429, 500, 503}]
    /\ told \in [Requests -> {NoStatus, Gone, 401, 429, 500, 503}]
    /\ offered \in [Requests -> Tokens \cup {Absent}]
    /\ effect \in [Requests -> BOOLEAN]
    /\ spent \in [Requests -> BOOLEAN]

\* A step of the connection's goroutine keeps the types of the requests.
LEMMA ConnStepType ==
    ASSUME PipelineTypeOK, NEW r \in Requests, ConnStep(r) PROVE RequestTypeOK'
<1> USE DEF PipelineTypeOK, RequestTypeOK, ConnAt, WorkAt, WriteHeader, NoStatus
<1>1. CASE TurnAway(r)
  BY <1>1 DEF TurnAway, Deliver, Gone
<1>2. CASE Admit(r)
  <2>1. PICK k \in Tokens \cup {Absent} :
           /\ offered' = [offered EXCEPT ![r] = k]
           /\ spent' = [spent EXCEPT ![r] = Spent(k)]
    BY <1>2 DEF Admit
  <2>2. Spent(k) \in BOOLEAN
    BY DEF Spent
  <2>3. offered' \in [Requests -> Tokens \cup {Absent}] /\ spent' \in [Requests -> BOOLEAN]
    BY <2>1, <2>2
  <2>4. now + Timeout \in Nat
    BY PipelineAssumption DEF AuthTypeOK
  <2>5. deadline' \in [Requests -> Nat]
    BY <1>2, <2>4 DEF Admit
  <2> QED
    BY <1>2, <2>3, <2>5 DEF Admit
<1>3. CASE Return(r)
  BY <1>3 DEF Return, Deliver, Sent, Gone
<1>4. CASE Expire(r)
  BY <1>4 DEF Expire
<1>5. CASE AnswerLate(r)
  BY <1>5 DEF AnswerLate, Deliver, Sent, Gone
<1> QED
  BY <1>1, <1>2, <1>3, <1>4, <1>5 DEF ConnStep

\* A client that leaves keeps the types of the requests.
LEMMA LeaveType ==
    ASSUME PipelineTypeOK, NEW r \in Requests, Leave(r) PROVE RequestTypeOK'
BY DEF Leave, PipelineTypeOK, RequestTypeOK, Gone

\* A step of the handler's goroutine keeps the types of the requests.
LEMMA WorkStepType ==
    ASSUME PipelineTypeOK, NEW r \in Requests, WorkStep(r) PROVE RequestTypeOK'
<1> USE DEF PipelineTypeOK, RequestTypeOK, WorkAt, WriteHeader, NoStatus
<1>1. CASE Authorize(r)
  BY <1>1 DEF Authorize
<1>2. CASE Refuse(r)
  BY <1>2 DEF Refuse
<1>3. CASE Handle(r)
  <2>1. effect' \in [Requests -> BOOLEAN]
    <3>1. CASE effect' = effect
      BY <3>1
    <3>2. CASE effect' = [effect EXCEPT ![r] = TRUE]
      BY <3>2
    <3> QED
      BY <1>3, <3>1, <3>2 DEF Handle
  <2> QED
    BY <1>3, <2>1 DEF Handle
<1>4. CASE Reply(r)
  BY <1>4 DEF Reply
<1>5. CASE RecoverLogEnd(r)
  BY <1>5 DEF RecoverLogEnd
<1>6. CASE Fail(r)
  BY <1>6 DEF Fail
<1> QED
  BY <1>1, <1>2, <1>3, <1>4, <1>5, <1>6 DEF WorkStep

\* What a step may do to the log: nothing, begin a line, or end one.
LEMMA LogSteps ==
    ASSUME NEW r \in Requests, RequestStep(r)
    PROVE  \/ UNCHANGED logVars
           \/ Reply(r)
           \/ RecoverLogEnd(r)
  BY DEF RequestStep, Leave, ConnStep, WorkStep, TurnAway, Admit, Return, Expire, AnswerLate,
         Authorize, Refuse, Handle, Fail

\* A request changes nothing of the authenticator.
LEMMA RequestsLeaveTokens ==
    ASSUME NEW r \in Requests, RequestStep(r) PROVE UNCHANGED authVars
  BY DEF RequestStep, Leave, ConnStep, WorkStep, TurnAway, Admit, Return, Expire, AnswerLate,
         Authorize, Refuse, Handle, Reply, RecoverLogEnd, Fail

\* Every step keeps the types of the log.
LEMMA LogStepType ==
    ASSUME PipelineTypeOK, NEW r \in Requests, RequestStep(r)
    PROVE  LogTypeOK'
<1> USE DEF LogTypeOK, PipelineTypeOK
<1>0. r \in Callers /\ <<r, "panic">> \in Message
  BY PipelineAssumption DEF Message
<1>1. CASE UNCHANGED logVars
  BY <1>1 DEF logVars
<1>2. CASE Reply(r)
  <2>1. holder' = r /\ buf' = << <<r, "panic">> >> /\ UNCHANGED lines
    BY <1>2 DEF Reply, LogBegin
  <2> QED
    BY <1>0, <2>1
<1>3. CASE RecoverLogEnd(r)
  <2>1. /\ lines' = lines \cup {Append(buf, <<r, "panic">>)}
        /\ buf' = <<>> /\ holder' = Nobody
    BY <1>3 DEF RecoverLogEnd, LogEnd
  <2>2. Append(buf, <<r, "panic">>) \in Seq(Message)
    BY <1>0
  <2> DEFINE line == Append(buf, <<r, "panic">>)  all == Seq(Message)
  <2>3. lines \subseteq all /\ line \in all /\ lines' = lines \cup {line}
    BY <2>1, <2>2
  <2>6. lines' \subseteq all
    <3> HIDE DEF line, all
    <3> QED
      BY <2>3
  <2>4. <<>> \in Seq(Message)
    BY EmptySeq
  <2>5. holder' \in Callers \cup {Nobody}
    BY <2>1
  <2> HIDE DEF Message
  <2> QED
    BY <2>1, <2>4, <2>5, <2>6
<1> QED
  BY <1>1, <1>2, <1>3, LogSteps

\* The types of the whole pipeline are kept by every step.
LEMMA PipelineStepType ==
    ASSUME PipelineTypeOK, [PipelineNext]_pipelineVars PROVE PipelineTypeOK'
<1>1. CASE Running /\ AuthNext /\ UNCHANGED <<logVars, requestVars>>
  <2>1. AuthTypeOK'
    BY <1>1, AuthStepType DEF PipelineTypeOK
  <2> QED
    BY <1>1, <2>1 DEF Running, PipelineTypeOK, LogTypeOK, logVars, requestVars
<1>2. ASSUME NEW r \in Requests, Running, RequestStep(r) PROVE PipelineTypeOK'
  <2>1. RequestTypeOK'
    BY <1>2, ConnStepType, WorkStepType, LeaveType DEF RequestStep
  <2>2. LogTypeOK'
    BY <1>2, LogStepType
  <2>3. AuthTypeOK'
    BY <1>2, RequestsLeaveTokens DEF authVars, PipelineTypeOK, AuthTypeOK
  <2> QED
    BY <1>2, <2>1, <2>2, <2>3 DEF Running, PipelineTypeOK, RequestTypeOK
<1>3. ASSUME NEW r \in Requests, HeaderRace(r) PROVE PipelineTypeOK'
  BY <1>3 DEF HeaderRace, PipelineTypeOK, AuthTypeOK, LogTypeOK, authVars, logVars, requestVars
<1>4. CASE UNCHANGED pipelineVars
  BY <1>4 DEF pipelineVars, PipelineTypeOK, AuthTypeOK, LogTypeOK, authVars, logVars, requestVars
<1> QED
  BY <1>1, <1>2, <1>3, <1>4 DEF PipelineNext

\* The goroutines, the response, the authenticator and the log keep their types.
THEOREM PipelineTypeCorrect == PipelineSpec => []PipelineTypeOK
  BY PipelineInitType, PipelineStepType, PTL DEF PipelineSpec

-----------------------------------------------------------------------------
(* The authenticator and the log within the pipeline.                      *)

\* A step is one of the authenticator, or leaves it alone.
LEMMA AuthWithin ==
    ASSUME [PipelineNext]_pipelineVars PROVE AuthNext \/ UNCHANGED authVars
  BY RequestsLeaveTokens DEF PipelineNext, HeaderRace, pipelineVars

\* However requests go through, the authenticator keeps its invariant.
LEMMA AuthInvHolds == PipelineSpec => []AuthInv
<1>1. PipelineInit => AuthInv
  BY AuthInitInv DEF PipelineInit
<1>2. ASSUME AuthInv, [PipelineNext]_pipelineVars PROVE AuthInv'
  BY <1>2, AuthWithin, AuthStepInv
<1> QED
  BY <1>1, <1>2, PTL DEF PipelineSpec

\* A token is good from its registration to its expiry or revocation, whatever
\* the clean-up goroutines do.
THEOREM TokensSound == PipelineSpec => []ValidateIsExact
  BY AuthInvHolds, InvValidatesExactly, PTL

\* When no clean-up is pending, no token in the map had expired at the last store.
THEOREM StaleTokensSound == PipelineSpec => []StaleTokensBounded
<1>1. AuthInv => StaleTokensBounded
  BY DEF AuthInv
<1> QED
  BY <1>1, AuthInvHolds, PTL

\* What is appended to a sequence of one.
LEMMA AppendToOne ==
    ASSUME NEW S, NEW s \in Seq(S), NEW e \in S, Len(s) = 1
    PROVE  /\ Append(s, e) \in Seq(S) /\ Len(Append(s, e)) = 2
           /\ Append(s, e)[1] = s[1] /\ Append(s, e)[2] = e
<1>1. /\ Append(s, e) \in Seq(S) /\ Len(Append(s, e)) = Len(s) + 1
      /\ \A i \in 1 .. Len(s) : Append(s, e)[i] = s[i]
      /\ Append(s, e)[Len(s) + 1] = e
  BY ONLY AppendProperties
<1> QED
  BY <1>1

\* Two pieces make a line.
LEMMA TwoPieces ==
    ASSUME NEW S, NEW e \in S PROVE Append(<<e>>, e) = <<e, e>>
<1> DEFINE two == <<e, e>>  line == Append(<<e>>, e)
<1>1. <<e>> \in Seq(S) /\ Len(<<e>>) = 1 /\ <<e>>[1] = e
  OBVIOUS
<1>2. two \in Seq(S) /\ Len(two) = 2 /\ two[1] = e /\ two[2] = e
  OBVIOUS
<1>3. line \in Seq(S) /\ Len(line) = 2 /\ line[1] = e /\ line[2] = e
  BY <1>1, AppendToOne
<1> HIDE DEF two, line
<1>4. \A i \in 1 .. Len(line) : line[i] = two[i]
  BY <1>2, <1>3
<1>5. line = two
  BY <1>2, <1>3, <1>4, SeqEqual
<1> QED
  BY <1>5 DEF two, line

\* Whoever is in the middle of a line holds the mutex, and the builder has the
\* beginning of that line and nothing else.
LogInv ==
    /\ LinesWhole
    /\ \A r \in Requests : work[r] = "logging" => holder = r /\ buf = << <<r, "panic">> >>

\* Every step keeps the lines whole.
LEMMA LogStepInv ==
    ASSUME PipelineTypeOK, LogInv, [PipelineNext]_pipelineVars PROVE LogInv'
<1> USE DEF LogInv, LinesWhole
<1>1. CASE Running /\ AuthNext /\ UNCHANGED <<logVars, requestVars>>
  BY <1>1 DEF logVars, requestVars
<1>2. ASSUME NEW r \in Requests, RequestStep(r) PROVE LogInv'
  <2>1. CASE Reply(r)
    <3>1. /\ holder = Nobody /\ holder' = r /\ buf' = << <<r, "panic">> >> /\ lines' = lines
          /\ work' = [work EXCEPT ![r] = "logging"]
      BY <2>1 DEF Reply, LogBegin, WorkAt
    <3>2. \A q \in Requests : q # Nobody
      BY PipelineAssumption, LoggerAssumption
    <3> QED
      BY <3>1, <3>2 DEF PipelineTypeOK
  <2>2. CASE RecoverLogEnd(r)
    <3>1. /\ work[r] = "logging"
          /\ lines' = lines \cup {Append(buf, <<r, "panic">>)}
          /\ work' = [work EXCEPT ![r] = "failing"]
      BY <2>2 DEF RecoverLogEnd, LogEnd, WorkAt
    <3>2. holder = r /\ buf = << <<r, "panic">> >>
      BY <3>1
    <3>3. <<r, "panic">> \in Message
      BY PipelineAssumption DEF Message
    <3>4. Append(buf, <<r, "panic">>) = << <<r, "panic">>, <<r, "panic">> >>
      BY <3>2, <3>3, TwoPieces
    <3>5. \A line \in lines' : \E m \in Message : line = <<m, m>>
      BY <3>1, <3>3, <3>4
    <3>6. \A q \in Requests : work'[q] # "logging"
      BY <3>1, <3>2 DEF PipelineTypeOK
    <3> QED
      BY <3>5, <3>6
  <2>3. CASE ~Reply(r) /\ ~RecoverLogEnd(r)
    <3>1. UNCHANGED logVars
      BY <1>2, <2>3, LogSteps
    <3>2. \A q \in Requests : work'[q] = "logging" => work[q] = "logging"
      BY <1>2, <2>3
         DEF RequestStep, Leave, ConnStep, WorkStep, TurnAway, Admit, Return, Expire, AnswerLate, Authorize,
             Refuse, Handle, Fail, WorkAt, PipelineTypeOK
    <3> QED
      BY <3>1, <3>2 DEF logVars
  <2> QED
    BY <2>1, <2>2, <2>3
<1>3. ASSUME NEW r \in Requests, HeaderRace(r) PROVE LogInv'
  BY <1>3 DEF HeaderRace, logVars, requestVars
<1>4. CASE UNCHANGED pipelineVars
  BY <1>4 DEF pipelineVars, logVars, requestVars
<1> QED
  BY <1>1, <1>2, <1>3, <1>4 DEF PipelineNext

\* Every line in the log is one message, however many requests fail at once.
THEOREM LogSound == PipelineSpec => []LinesWhole
<1>1. PipelineInit => LogInv
  BY DEF PipelineInit, LogInit, LogInv, LinesWhole
<1>2. LogInv => LinesWhole
  BY DEF LogInv
<1> QED
  BY <1>1, <1>2, LogStepInv, PipelineTypeCorrect, PTL DEF PipelineSpec

\* Granted registrations and revoked tokens stay, and time goes on.
LEMMA AuthGrows ==
    ASSUME AuthTypeOK, AuthNext \/ UNCHANGED authVars
    PROVE  granted \subseteq granted' /\ revoked \subseteq revoked' /\ now <= now'
<1>1. CASE Tick
  BY <1>1 DEF Tick, AuthTypeOK
<1>2. CASE UNCHANGED authVars
  BY <1>2 DEF authVars, AuthTypeOK
<1>3. CASE AuthNext /\ ~Tick
  BY <1>3 DEF AuthNext, RegisterBegin, RegisterStore, Revoke, CleanExpired, AuthTypeOK
<1> QED
  BY <1>1, <1>2, <1>3

-----------------------------------------------------------------------------
(* The answer of a request.                                                *)

\* Where the two goroutines of a request may be, given what was answered and
\* what was done.
RequestInv(r) ==
    /\ conn[r] = "new" => work[r] = "none" /\ status[r] = NoStatus
    /\ effect[r] => work[r] \in {"replying", "logging", "failing", "done"}
    /\ status[r] = 429 => work[r] = "none"
    /\ status[r] \in {401, 500} => work[r] = "done"
    /\ status[r] = 401 => ~effect[r]
    /\ work[r] = "refusing" => ~effect[r]
    /\ conn[r] = "returned" => work[r] \in {"none", "done"} \/ status[r] = 503
    /\ work[r] = "done" => status[r] # NoStatus
    /\ conn[r] = "late" => told[r] = Gone \/ now >= deadline[r]
    /\ told[r] \notin {NoStatus, Gone} =>
          /\ conn[r] = "returned"
          /\ work[r] \in {"none", "done"} \/ (Timeout = 0 /\ told[r] = 503)

AnswerInv == \A r \in Requests : RequestInv(r)

\* A step of one request is nothing to the others.
LEMMA OthersAlone ==
    ASSUME PipelineTypeOK, NEW r \in Requests, RequestStep(r),
           NEW q \in Requests, q # r
    PROVE  /\ conn'[q] = conn[q] /\ work'[q] = work[q] /\ status'[q] = status[q]
           /\ told'[q] = told[q] /\ deadline'[q] = deadline[q]
           /\ effect'[q] = effect[q] /\ offered'[q] = offered[q] /\ spent'[q] = spent[q]
<1> USE DEF PipelineTypeOK, ConnAt, WorkAt, WriteHeader
<1>1. CASE ConnStep(r)
  BY <1>1 DEF ConnStep, TurnAway, Admit, Return, Expire, AnswerLate, Deliver
<1>2. CASE WorkStep(r)
  BY <1>2 DEF WorkStep, Authorize, Refuse, Handle, Reply, RecoverLogEnd, Fail
<1>3. CASE Leave(r)
  BY <1>3 DEF Leave
<1> QED
  BY <1>1, <1>2, <1>3 DEF RequestStep

\* A step of the connection's goroutine keeps the invariant of its request.
LEMMA ConnStepInv ==
    ASSUME PipelineTypeOK, NEW r \in Requests, RequestInv(r), ConnStep(r)
    PROVE  RequestInv(r)'
<1> USE DEF PipelineTypeOK, RequestInv, ConnAt, WorkAt, WriteHeader, NoStatus, Gone
<1>1. CASE TurnAway(r)
  BY <1>1 DEF TurnAway, Deliver
<1>2. CASE Admit(r)
  BY <1>2 DEF Admit
<1>3. CASE Return(r)
  BY <1>3 DEF Return, Deliver, Sent
<1>4. CASE Expire(r)
  BY <1>4 DEF Expire, authVars
<1>5. CASE AnswerLate(r)
  <2>1. Timeout \in Nat
    BY PipelineAssumption
  <2>2. told'[r] \in {Gone} \cup (IF Timeout > 0 THEN {} ELSE {IF status[r] = NoStatus THEN 503 ELSE status[r]})
    BY <1>5, <2>1 DEF AnswerLate, Deliver, Sent, WriteDeadlineOver
  <2>3. conn'[r] = "returned" /\ work' = work /\ effect' = effect /\ status'[r] = IF status[r] = NoStatus THEN 503 ELSE status[r]
    BY <1>5 DEF AnswerLate
  <2> QED
    BY <2>1, <2>2, <2>3
<1> QED
  BY <1>1, <1>2, <1>3, <1>4, <1>5 DEF ConnStep

\* A step of the handler's goroutine keeps the invariant of its request.
LEMMA WorkStepInv ==
    ASSUME PipelineTypeOK, NEW r \in Requests, RequestInv(r), WorkStep(r)
    PROVE  RequestInv(r)'
<1> USE DEF PipelineTypeOK, RequestInv, WorkAt, WriteHeader, NoStatus, authVars
<1>1. CASE Authorize(r)
  BY <1>1 DEF Authorize
<1>2. CASE Refuse(r)
  BY <1>2 DEF Refuse
<1>3. CASE Handle(r)
  <2>1. /\ work'[r] = "replying" /\ conn' = conn /\ status' = status /\ work[r] = "handling"
        /\ told' = told /\ deadline' = deadline /\ now' = now
    BY <1>3 DEF Handle
  <2> QED
    BY <2>1
<1>4. CASE Reply(r)
  BY <1>4 DEF Reply
<1>5. CASE RecoverLogEnd(r)
  BY <1>5 DEF RecoverLogEnd
<1>6. CASE Fail(r)
  BY <1>6 DEF Fail
<1> QED
  BY <1>1, <1>2, <1>3, <1>4, <1>5, <1>6 DEF WorkStep

\* A client that leaves is told nothing more.
LEMMA LeaveInv ==
    ASSUME PipelineTypeOK, NEW r \in Requests, RequestInv(r), Leave(r)
    PROVE  RequestInv(r)'
BY DEF Leave, PipelineTypeOK, RequestInv, NoStatus, Gone, authVars

\* Every step keeps the invariant of every request.
LEMMA AnswerStepInv ==
    ASSUME PipelineTypeOK, AnswerInv, [PipelineNext]_pipelineVars PROVE AnswerInv'
<1>1. CASE UNCHANGED requestVars
  <2>1. now \in Nat /\ now' \in Nat /\ now <= now' /\ deadline \in [Requests -> Nat]
    BY AuthWithin, AuthGrows, AuthStepType DEF PipelineTypeOK, AuthTypeOK, authVars
  <2> QED
    BY <1>1, <2>1 DEF requestVars, AnswerInv, RequestInv
<1>2. ASSUME NEW r \in Requests, RequestStep(r) PROVE AnswerInv'
  <2>1. RequestInv(r)'
    BY <1>2, ConnStepInv, WorkStepInv, LeaveInv DEF AnswerInv, RequestStep
  <2>2. ASSUME NEW q \in Requests, q # r PROVE RequestInv(q)'
    BY <1>2, <2>2, OthersAlone, RequestsLeaveTokens DEF AnswerInv, RequestInv, authVars
  <2> QED
    BY <2>1, <2>2 DEF AnswerInv
<1> QED
  BY <1>1, <1>2 DEF PipelineNext, HeaderRace, pipelineVars

\* The invariant of the answers, of every execution.
LEMMA AnswerInvHolds == PipelineSpec => []AnswerInv
<1>1. PipelineInit => AnswerInv
  BY DEF PipelineInit, AnswerInv, RequestInv, NoStatus, Gone
<1> QED
  BY <1>1, AnswerStepInv, PipelineTypeCorrect, PTL DEF PipelineSpec

\* A refusal, by the limiter or for want of a token, means that nothing changed.
THEOREM RefusalsSound == PipelineSpec => []RefusedWithoutEffect
<1>1. AnswerInv => RefusedWithoutEffect
  BY DEF AnswerInv, RequestInv, RefusedWithoutEffect
<1> QED
  BY <1>1, AnswerInvHolds, PTL

\* No status that a client gets is followed by an effect of its request, unless
\* the server has no timeout.
THEOREM AnswersAreFinal == PipelineSpec => AnswerIsFinal
<1> DEFINE Final(r) ==
      told[r] \notin {NoStatus, Gone} /\ effect'[r] # effect[r] =>
          Timeout = 0 /\ told[r] = 503
<1>1. ASSUME PipelineTypeOK, AnswerInv, [PipelineNext]_pipelineVars, NEW r \in Requests
      PROVE  Final(r)
  <2>1. CASE UNCHANGED requestVars
    BY <1>1, <2>1 DEF requestVars
  <2>2. ASSUME NEW q \in Requests, RequestStep(q), effect'[r] # effect[r]
        PROVE  told[r] \notin {NoStatus, Gone} => Timeout = 0 /\ told[r] = 503
    <3>1. q = r
      BY <1>1, <2>2, OthersAlone
    <3>2. Handle(r)
      BY <1>1, <2>2, <3>1
         DEF RequestStep, Leave, ConnStep, TurnAway, Admit, Return, Expire, AnswerLate,
             WorkStep, Authorize, Refuse, Reply, RecoverLogEnd, Fail
    <3>3. work[r] = "handling"
      BY <3>2 DEF Handle
    <3> QED
      BY <1>1, <3>3 DEF AnswerInv, RequestInv
  <2> QED
    BY <1>1, <2>1, <2>2 DEF PipelineNext, HeaderRace, pipelineVars
<1>2. ASSUME PipelineTypeOK, AnswerInv, [PipelineNext]_pipelineVars
      PROVE  [\A r \in Requests : Final(r)]_pipelineVars
  BY <1>1, <1>2
<1> QED
  BY <1>2, AnswerInvHolds, PipelineTypeCorrect, PTL DEF PipelineSpec, AnswerIsFinal

-----------------------------------------------------------------------------
(* The token of a request.                                                 *)

\* What was used up when the request came is used up; what got a request
\* through to its handler was registered and was not used up then.
TokenInv ==
    \A r \in Requests :
        /\ spent[r] => Spent(offered[r])
        /\ conn[r] = "new" => work[r] = "none" /\ ~effect[r]
        /\ authOn /\ (effect[r] \/ work[r] = "handling") =>
              ~spent[r] /\ \E g \in granted : g.token = offered[r]

\* A used-up token is never good again.
LEMMA SpentStays ==
    ASSUME AuthTypeOK, AuthNext \/ UNCHANGED authVars, NEW k, Spent(k) PROVE Spent(k)'
<1>1. granted \subseteq granted' /\ revoked \subseteq revoked' /\ now <= now'
  BY AuthGrows
<1>2. now \in Nat /\ now' \in Nat
  BY AuthStepType DEF authVars, AuthTypeOK
<1>3. \A g \in granted : g.expiresAt \in Nat
  BY DEF AuthTypeOK, Registration
<1> QED
  BY <1>1, <1>2, <1>3 DEF Spent

\* A token that RequireAuth accepts was registered and is not used up.
LEMMA AcceptedIsGood ==
    ASSUME AuthInv, NEW k \in Tokens, Validate(k) # Absent
    PROVE  ~Spent(k) /\ \E g \in granted : g.token = k
<1>1. tokens[k] # Absent /\ ~Expired(k)
  BY DEF Validate
<1>2. k \notin revoked
  BY <1>1 DEF AuthInv, MapsAreGrants
<1>3. PICK g \in granted : g.token = k /\ g.expiresAt = expires[k]
  BY <1>1 DEF AuthInv, MapsAreGrants
<1>4. g.expiresAt \in Nat /\ now \in Nat
  BY DEF AuthInv, AuthTypeOK, Registration
<1>5. now <= g.expiresAt
  BY <1>1, <1>3, <1>4, AuthenticatorAssumption DEF Expired
<1>6. \A h \in granted : h.token = k => h = g
  BY <1>3 DEF AuthInv, TokensOnce
<1> QED
  BY <1>2, <1>3, <1>4, <1>5, <1>6 DEF Spent

\* A step of a request keeps the invariant of its token.
LEMMA RequestTokenInv ==
    ASSUME PipelineTypeOK, AuthInv, TokenInv, NEW r \in Requests, authOn' = authOn,
           RequestStep(r)
    PROVE  TokenInv'
<1>1. now' = now /\ granted' = granted /\ revoked' = revoked
  BY RequestsLeaveTokens DEF authVars
<1>2. \A k : Spent(k)' <=> Spent(k)
  BY <1>1 DEF Spent
<1> DEFINE Inv(q) ==
      /\ spent[q] => Spent(offered[q])
      /\ conn[q] = "new" => work[q] = "none" /\ ~effect[q]
      /\ authOn /\ (effect[q] \/ work[q] = "handling") =>
            ~spent[q] /\ \E g \in granted : g.token = offered[q]
<1>3. ASSUME NEW q \in Requests, q # r PROVE Inv(q)'
  BY <1>1, <1>2, <1>3, OthersAlone DEF TokenInv, Spent
<1>4. Inv(r)'
  <2> USE DEF PipelineTypeOK, ConnAt, WorkAt, TokenInv
  <2>1. CASE Admit(r)
    <3>1. PICK k \in Tokens \cup {Absent} :
             /\ offered' = [offered EXCEPT ![r] = k]
             /\ spent' = [spent EXCEPT ![r] = Spent(k)]
      BY <2>1 DEF Admit
    <3>2. offered'[r] = k /\ spent'[r] = Spent(k)
      BY <3>1
    <3>3. conn'[r] = "waiting" /\ ~effect'[r] /\ (authOn => work'[r] = "authorizing")
      BY <2>1 DEF Admit
    <3> QED
      BY <1>1, <3>2, <3>3 DEF Spent
  <2>2. CASE Authorize(r)
    <3>1. /\ offered' = offered /\ spent' = spent /\ effect' = effect /\ conn' = conn
          /\ work[r] = "authorizing"
      BY <2>2 DEF Authorize
    <3>2. ~effect[r] \/ ~authOn \/ (~spent[r] /\ \E g \in granted : g.token = offered[r])
      OBVIOUS
    <3>3. ASSUME work'[r] = "handling"
          PROVE  ~spent[r] /\ \E g \in granted : g.token = offered[r]
      <4>1. offered[r] # Absent /\ Validate(offered[r]) # Absent
        BY <2>2, <3>3 DEF Authorize
      <4>2. offered[r] \in Tokens
        BY <4>1
      <4> QED
        BY <4>1, <4>2, AcceptedIsGood
    <3> QED
      BY <1>1, <3>1, <3>2, <3>3 DEF Spent
  <2>3. CASE Handle(r)
    <3>1. /\ offered' = offered /\ spent' = spent /\ conn' = conn
          /\ work[r] = "handling" /\ work'[r] = "replying"
      BY <2>3 DEF Handle
    <3>2. conn[r] # "new"
      BY <3>1
    <3> QED
      BY <1>1, <3>1, <3>2 DEF Spent
  <2>4. CASE ~Admit(r) /\ ~Authorize(r) /\ ~Handle(r)
    <3>1. offered' = offered /\ spent' = spent /\ effect' = effect
      BY <2>4 DEF RequestStep, Leave, ConnStep, TurnAway, Return, Expire, AnswerLate, WorkStep, Refuse, Reply,
                  RecoverLogEnd, Fail
    <3>2. /\ conn'[r] = "new" => conn[r] = "new" /\ work'[r] = work[r]
          /\ work'[r] = "handling" => work[r] = "handling"
      BY <2>4 DEF RequestStep, Leave, ConnStep, TurnAway, Return, Expire, AnswerLate, WorkStep, Refuse, Reply,
                  RecoverLogEnd, Fail
    <3> QED
      BY <1>1, <3>1, <3>2 DEF Spent
  <2> QED
    BY <2>1, <2>2, <2>3, <2>4
<1> QED
  BY <1>3, <1>4 DEF TokenInv

\* Every step keeps it.
LEMMA TokenStepInv ==
    ASSUME PipelineTypeOK, AuthInv, TokenInv, [PipelineNext]_pipelineVars PROVE TokenInv'
<1>1. CASE UNCHANGED <<authOn, requestVars>>
  <2>1. AuthTypeOK /\ (AuthNext \/ UNCHANGED authVars)
    BY AuthWithin DEF AuthInv
  <2>2. \A k : Spent(k) => Spent(k)'
    BY <2>1, SpentStays
  <2>3. granted \subseteq granted'
    BY <2>1, AuthGrows
  <2> QED
    BY <1>1, <2>2, <2>3 DEF requestVars, TokenInv
<1>2. ASSUME NEW r \in Requests, authOn' = authOn, RequestStep(r) PROVE TokenInv'
  BY <1>2, RequestTokenInv
<1> QED
  BY <1>1, <1>2 DEF PipelineNext, Running, HeaderRace, pipelineVars

\* With authentication on, only requests with a token that was registered, and
\* not used up when they came, have effects.
THEOREM OnlyGoodTokensSound == PipelineSpec => []OnlyGoodTokensAct
<1>1. PipelineInit => TokenInv
  BY DEF PipelineInit, TokenInv
<1>2. TokenInv => OnlyGoodTokensAct
  BY DEF TokenInv, OnlyGoodTokensAct
<1> QED
  BY <1>1, <1>2, TokenStepInv, AuthInvHolds, PipelineTypeCorrect, PTL DEF PipelineSpec

=============================================================================

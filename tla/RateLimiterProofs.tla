-------------------------- MODULE RateLimiterProofs -------------------------
(***************************************************************************)
(* Proofs about RateLimiter, for every limit, window and set of clients:   *)
(* its types, that no window holds more than Limit admissions of a client, *)
(* and that dropping expired entries changes no answer.                    *)
(***************************************************************************)
EXTENDS RateLimiter, FiniteSetTheorems, TLAPS

\* What is kept was admitted, and what was admitted and dropped has left the
\* window for good.
KeepsWhatCounts ==
    \A c \in Clients :
        /\ IsFiniteSet(admitted[c])
        /\ requests[c] \subseteq admitted[c]
        /\ \A e \in admitted[c] \ requests[c] : e.at <= now - Window

LimiterInv == LimiterTypeOK /\ KeepsWhatCounts

-----------------------------------------------------------------------------

\* Types and the relation of kept and admitted entries hold at first.
LEMMA LimiterInvInit == LimiterInit => LimiterInv
<1> SUFFICES ASSUME LimiterInit PROVE LimiterInv
  OBVIOUS
<1> USE DEF LimiterInit
<1>1. LimiterTypeOK
  BY DEF LimiterTypeOK
<1>2. KeepsWhatCounts
  BY FS_EmptySet DEF KeepsWhatCounts
<1> QED
  BY <1>1, <1>2 DEF LimiterInv

\* The number of a new admission is a number, and it is made now.
LEMMA AdmissionType ==
    ASSUME LimiterInv, NEW c \in Clients
    PROVE  Admission(c, now) \in [nr : Nat, at : 0..now]
<1>1. Cardinality(admitted[c]) \in Nat
  BY FS_CardinalityType DEF LimiterInv, KeepsWhatCounts
<1>2. now \in 0..now
  BY DEF LimiterInv, LimiterTypeOK
<1> QED
  BY <1>1, <1>2 DEF Admission

\* Each kind of step keeps the types.
LEMMA LimiterTypeStep ==
    ASSUME LimiterInv, [LimiterNext]_limiterVars
    PROVE  LimiterTypeOK'
<1> USE RateLimiterAssumption DEF LimiterInv, LimiterTypeOK
<1>1. ASSUME NEW c \in Clients, Admit(c) PROVE LimiterTypeOK'
  <2>1. Admission(c, now) \in [nr : Nat, at : 0..now]
    BY AdmissionType
  <2>2. Valid(c) \subseteq requests[c]
    BY DEF Valid
  <2> QED
    BY <1>1, <2>1, <2>2 DEF Admit
<1>2. ASSUME NEW c \in Clients, Refuse(c) PROVE LimiterTypeOK'
  BY <1>2 DEF Refuse, Valid
<1>3. CASE Tick
  <2>1. [nr : Nat, at : 0..now] \subseteq [nr : Nat, at : 0..(now + 1)]
    OBVIOUS
  <2> QED
    BY <1>3, <2>1 DEF Tick
<1>4. CASE UNCHANGED limiterVars
  BY <1>4 DEF limiterVars
<1> QED
  BY <1>1, <1>2, <1>3, <1>4 DEF LimiterNext, LimitRequest

\* Each kind of step drops only what has left the window.
LEMMA KeepsWhatCountsStep ==
    ASSUME LimiterInv, [LimiterNext]_limiterVars
    PROVE  KeepsWhatCounts'
<1> USE RateLimiterAssumption DEF LimiterInv, LimiterTypeOK, KeepsWhatCounts
<1> SUFFICES ASSUME NEW d \in Clients
             PROVE  /\ IsFiniteSet(admitted'[d])
                    /\ requests'[d] \subseteq admitted'[d]
                    /\ \A e \in admitted'[d] \ requests'[d] : e.at <= now' - Window
  OBVIOUS
<1> DEFINE Dropped(c) == requests[c] \ Valid(c)
<1>1. \A c \in Clients : \A e \in Dropped(c) : e.at <= now - Window
  BY DEF Valid
<1>2. ASSUME NEW c \in Clients, Admit(c)
      PROVE  /\ IsFiniteSet(admitted'[d])
             /\ requests'[d] \subseteq admitted'[d]
             /\ \A e \in admitted'[d] \ requests'[d] : e.at <= now' - Window
  <2>1. CASE c = d
    <3>1. admitted'[d] = admitted[d] \cup {Admission(d, now)}
      BY <1>2, <2>1 DEF Admit
    <3>2. requests'[d] = Valid(d) \cup {Admission(d, now)}
      BY <1>2, <2>1 DEF Admit
    <3>3. now' = now
      BY <1>2 DEF Admit
    <3>4. IsFiniteSet(admitted'[d])
      <4>1. IsFiniteSet(admitted[d])
        OBVIOUS
      <4> HIDE DEF LimiterInv, LimiterTypeOK, KeepsWhatCounts
      <4>2. IsFiniteSet(admitted[d] \cup {Admission(d, now)})
        BY <4>1, FS_AddElement
      <4> QED
        BY <3>1, <4>2
    <3>5. Valid(d) \subseteq admitted[d]
      BY DEF Valid
    <3> QED
      BY <1>1, <3>1, <3>2, <3>3, <3>4, <3>5
  <2>2. CASE c # d
    BY <1>2, <2>2 DEF Admit
  <2> QED
    BY <2>1, <2>2
<1>3. ASSUME NEW c \in Clients, Refuse(c)
      PROVE  /\ IsFiniteSet(admitted'[d])
             /\ requests'[d] \subseteq admitted'[d]
             /\ \A e \in admitted'[d] \ requests'[d] : e.at <= now' - Window
  BY <1>1, <1>3 DEF Refuse, Valid
<1>4. CASE Tick
  <2>1. now' = now + 1 /\ UNCHANGED <<requests, admitted>>
    BY <1>4 DEF Tick
  <2>2. \A e \in admitted[d] : e.at \in Int
    OBVIOUS
  <2> QED
    BY <2>1, <2>2
<1>5. CASE UNCHANGED limiterVars
  BY <1>5 DEF limiterVars
<1> QED
  BY <1>2, <1>3, <1>4, <1>5 DEF LimiterNext, LimitRequest

\* The invariant the theorems rest on.
THEOREM LimiterInvariant == LimiterSpec => []LimiterInv
<1>1. LimiterInv /\ [LimiterNext]_limiterVars => LimiterInv'
  BY LimiterTypeStep, KeepsWhatCountsStep DEF LimiterInv
<1> QED
  BY LimiterInvInit, <1>1, PTL DEF LimiterSpec

\* The limiter's variables keep their types.
THEOREM LimiterTypeCorrect == LimiterSpec => []LimiterTypeOK
<1>1. LimiterInv => LimiterTypeOK
  BY DEF LimiterInv
<1> QED
  BY LimiterInvariant, <1>1, PTL

-----------------------------------------------------------------------------

\* The entries that are left after the cutoff are the admissions inside the
\* window that ends now.
LEMMA ValidIsRecent ==
    ASSUME LimiterInv, NEW c \in Clients
    PROVE  /\ Valid(c) = AdmittedIn(c, now)
           /\ Valid(c) = Ideal!Recent(c)
<1> USE RateLimiterAssumption DEF LimiterInv, LimiterTypeOK, KeepsWhatCounts
<1>1. \A e \in admitted[c] : e.at \in Int /\ e.at <= now
  OBVIOUS
<1>2. \A e \in admitted[c] : e.at > now - Window => e \in requests[c]
  BY <1>1
<1> QED
  BY <1>1, <1>2 DEF Valid, AdmittedIn, Ideal!Recent

\* The sliding window counts as the limiter does.
LEMMA SameCardinality == \A S : Ideal!Cardinality(S) = Cardinality(S)
  BY DEF Ideal!Cardinality, Cardinality

\* The limiter answers every request as the ideal sliding window does.
THEOREM LimiterIsSlidingWindow == LimiterSpec => ImplementsSlidingWindow
<1>1. LimiterInit => Ideal!WindowInit
  BY DEF LimiterInit, Ideal!WindowInit
<1>2. LimiterInv /\ [LimiterNext]_limiterVars
        => [Ideal!WindowNext]_<<now, admitted, verdict>>
  <2> SUFFICES ASSUME LimiterInv, [LimiterNext]_limiterVars
               PROVE  [Ideal!WindowNext]_<<now, admitted, verdict>>
    OBVIOUS
  <2>1. ASSUME NEW c \in Clients, Admit(c)
        PROVE  Ideal!Answer(c) /\ UNCHANGED now
    BY <2>1, ValidIsRecent, SameCardinality DEF Admit, Admission, Ideal!Answer
  <2>2. ASSUME NEW c \in Clients, Refuse(c)
        PROVE  Ideal!Answer(c) /\ UNCHANGED now
    <3>1. Cardinality(Valid(c)) \in Nat
      <4>1. IsFiniteSet(admitted[c]) /\ Valid(c) \subseteq admitted[c]
        BY DEF LimiterInv, KeepsWhatCounts, Valid
      <4> QED
        BY <4>1, FS_Subset, FS_CardinalityType
    <3>2. ~ (Cardinality(Ideal!Recent(c)) < Limit)
      BY <2>2, <3>1, ValidIsRecent, RateLimiterAssumption DEF Refuse
    <3> QED
      BY <2>2, <3>2, SameCardinality DEF Refuse, Ideal!Answer
  <2>3. CASE Tick
    BY <2>3 DEF Tick, Ideal!WindowNext
  <2>4. CASE UNCHANGED limiterVars
    BY <2>4 DEF limiterVars
  <2> QED
    BY <2>1, <2>2, <2>3, <2>4 DEF LimiterNext, LimitRequest, Ideal!WindowNext
<1> QED
  BY <1>1, <1>2, LimiterInvariant, PTL DEF LimiterSpec, ImplementsSlidingWindow, Ideal!WindowSpec

-----------------------------------------------------------------------------

\* The admissions of a window are finitely many.
LEMMA AdmittedInFinite ==
    ASSUME LimiterInv, NEW c \in Clients, NEW t \in Int
    PROVE  /\ IsFiniteSet(AdmittedIn(c, t))
           /\ Cardinality(AdmittedIn(c, t)) \in Nat
<1>1. IsFiniteSet(admitted[c]) /\ AdmittedIn(c, t) \subseteq admitted[c]
  BY DEF LimiterInv, KeepsWhatCounts, AdmittedIn
<1> QED
  BY <1>1, FS_Subset, FS_CardinalityType

\* A step keeps every window within the limit: an admission enters only the
\* window that ends now, which had room, and a tick opens a window that holds
\* no more than the one that ended before it.
LEMMA WindowsBoundedStep ==
    ASSUME LimiterInv, WindowsBounded, [LimiterNext]_limiterVars
    PROVE  WindowsBounded'
<1> USE RateLimiterAssumption
<1>0. now \in Nat /\ \A c \in Clients : \A e \in admitted[c] : e.at \in Int /\ e.at <= now
  BY DEF LimiterInv, LimiterTypeOK
<1>1. ASSUME NEW c \in Clients, Admit(c) PROVE WindowsBounded'
  <2> SUFFICES ASSUME NEW d \in Clients, NEW t \in 0..now'
               PROVE  Cardinality(AdmittedIn(d, t)') <= Limit
    BY DEF WindowsBounded, AdmittedIn
  <2>0. now' = now /\ t \in 0..now /\ t \in Int
    BY <1>0, <1>1 DEF Admit
  <2>1. CASE d = c /\ t = now
    <3>1. AdmittedIn(d, t)' \subseteq Valid(c) \cup {Admission(c, now)}
      <4>1. admitted'[c] = admitted[c] \cup {Admission(c, now)}
        BY <1>1 DEF Admit, LimiterInv, LimiterTypeOK
      <4>2. AdmittedIn(d, t)' \subseteq AdmittedIn(c, now) \cup {Admission(c, now)}
        BY <2>1, <4>1 DEF AdmittedIn
      <4> QED
        BY <4>2, ValidIsRecent
    <3>2. IsFiniteSet(Valid(c)) /\ Cardinality(Valid(c)) \in Nat
      BY <1>0, AdmittedInFinite, ValidIsRecent
    <3>3. /\ IsFiniteSet(Valid(c) \cup {Admission(c, now)})
          /\ Cardinality(Valid(c) \cup {Admission(c, now)}) <= Cardinality(Valid(c)) + 1
          /\ Cardinality(Valid(c) \cup {Admission(c, now)}) \in Nat
      <4> DEFINE Kept == Valid(c)
                 New == Admission(c, now)
      <4>1. IsFiniteSet(Kept) /\ Cardinality(Kept) \in Nat
        BY <3>2
      <4> HIDE DEF Kept, New
      <4>2. /\ IsFiniteSet(Kept \cup {New})
            /\ Cardinality(Kept \cup {New}) =
                  IF New \in Kept THEN Cardinality(Kept) ELSE Cardinality(Kept) + 1
        BY <4>1, FS_AddElement
      <4>3. Cardinality(Kept \cup {New}) <= Cardinality(Kept) + 1
            /\ Cardinality(Kept \cup {New}) \in Nat
        BY <4>1, <4>2
      <4> QED
        BY <4>2, <4>3 DEF Kept, New
    <3>4. Cardinality(AdmittedIn(d, t)')
             <= Cardinality(Valid(c) \cup {Admission(c, now)})
      BY <3>1, <3>3, FS_Subset
    <3>5. Cardinality(AdmittedIn(d, t)') \in Nat
      BY <3>1, <3>3, FS_Subset, FS_CardinalityType
    <3>6. Cardinality(Valid(c)) < Limit
      BY <1>1 DEF Admit
    <3> QED
      BY <3>2, <3>3, <3>4, <3>5, <3>6
  <2>2. CASE ~ (d = c /\ t = now)
    <3>1. AdmittedIn(d, t)' = AdmittedIn(d, t)
      <4>1. CASE d # c
        BY <1>1, <4>1 DEF Admit, AdmittedIn, LimiterInv, LimiterTypeOK
      <4>2. CASE d = c /\ t < now
        <5>1. Admission(c, now).at = now
          BY DEF Admission
        <5>2. admitted'[d] = admitted[d] \cup {Admission(c, now)}
          BY <1>1, <4>2 DEF Admit, LimiterInv, LimiterTypeOK
        <5> QED
          BY <1>0, <2>0, <4>2, <5>1, <5>2 DEF AdmittedIn
      <4> QED
        BY <2>0, <2>2, <4>1, <4>2, <1>0
    <3> QED
      BY <2>0, <3>1 DEF WindowsBounded
  <2> QED
    BY <2>1, <2>2
<1>2. ASSUME NEW c \in Clients, Refuse(c) PROVE WindowsBounded'
  BY <1>2 DEF Refuse, WindowsBounded, AdmittedIn
<1>3. CASE Tick
  <2> SUFFICES ASSUME NEW d \in Clients, NEW t \in 0..now'
               PROVE  Cardinality(AdmittedIn(d, t)') <= Limit
    BY DEF WindowsBounded, AdmittedIn
  <2>0. now' = now + 1 /\ admitted' = admitted /\ t \in Int
    BY <1>0, <1>3 DEF Tick
  <2>1. AdmittedIn(d, t)' = AdmittedIn(d, t)
    BY <2>0 DEF AdmittedIn
  <2>2. CASE t \in 0..now
    BY <2>1, <2>2 DEF WindowsBounded
  <2>3. CASE t = now + 1
    <3>1. AdmittedIn(d, t) \subseteq AdmittedIn(d, now)
      BY <1>0, <2>3 DEF AdmittedIn
    <3>2. IsFiniteSet(AdmittedIn(d, now)) /\ Cardinality(AdmittedIn(d, now)) \in Nat
      BY <1>0, AdmittedInFinite
    <3>3. Cardinality(AdmittedIn(d, t)) <= Cardinality(AdmittedIn(d, now))
      BY <3>1, <3>2, FS_Subset
    <3>4. Cardinality(AdmittedIn(d, t)) \in Nat
      BY <2>0, AdmittedInFinite
    <3>5. Cardinality(AdmittedIn(d, now)) <= Limit
      <4>1. now \in 0..now
        BY <1>0
      <4> QED
        BY <4>1 DEF WindowsBounded
    <3> QED
      BY <2>1, <3>2, <3>3, <3>4, <3>5
  <2> QED
    BY <1>0, <2>0, <2>2, <2>3
<1>4. CASE UNCHANGED limiterVars
  BY <1>4 DEF limiterVars, WindowsBounded, AdmittedIn
<1> QED
  BY <1>1, <1>2, <1>3, <1>4 DEF LimiterNext, LimitRequest

\* No window of any client ever holds more than Limit admitted requests.
THEOREM WindowsStayBounded == LimiterSpec => []WindowsBounded
<1>1. LimiterInit => WindowsBounded
  <2> SUFFICES ASSUME LimiterInit, NEW c \in Clients, NEW t \in 0..now
               PROVE  Cardinality(AdmittedIn(c, t)) <= Limit
    BY DEF WindowsBounded
  <2>1. AdmittedIn(c, t) = {}
    BY DEF LimiterInit, AdmittedIn
  <2> QED
    BY <2>1, FS_EmptySet, RateLimiterAssumption
<1>2. LimiterInv /\ WindowsBounded /\ [LimiterNext]_limiterVars => WindowsBounded'
  BY WindowsBoundedStep
<1> QED
  BY <1>1, <1>2, LimiterInvariant, PTL DEF LimiterSpec

=============================================================================

-------------------------- MODULE RateLimiterProofs --------------------------
(***************************************************************************)
(* TLAPS proofs about RateLimiter: for any number of requests, addresses,  *)
(* limit and window length, the slices stay within the limit and so does   *)
(* every window of time.                                                   *)
(***************************************************************************)
EXTENDS RateLimiter, FiniteSetTheorems, TLAPS

\* What pruning must not forget: an admitted request that was not overtaken is
\* still in the slice unless a call has read the clock a full window after it.
Kept ==
    \A r \in Requests \ overtaken :
        phase[r] = "admitted" /\ stamp[r] + Window > latest[source[r]]
            => r \in windows[source[r]]

\* The inductive invariant; the limit is stated for every window, not only for
\* those TLC enumerates.
IInv ==
    /\ TypeOK
    /\ WindowWithinLimit
    /\ Kept
    /\ \A i \in IPs, t \in Nat : Cardinality(AdmittedInOrder(i, t)) <= Limit

\* Cardinality is monotone on sets of requests.
LEMMA SmallerSet ==
    ASSUME NEW S \in SUBSET Requests, NEW T, T \subseteq S
    PROVE  /\ Cardinality(S) \in Nat /\ Cardinality(T) \in Nat
           /\ Cardinality(T) <= Cardinality(S)
<1>1. IsFiniteSet(S)
  BY FS_Subset, RequestsAssumption
<1>2. IsFiniteSet(T) /\ Cardinality(T) <= Cardinality(S)
  BY <1>1, FS_Subset
<1> QED
  BY <1>1, <1>2, FS_CardinalityType

\* One more request makes a set at most one larger.
LEMMA OneMore ==
    ASSUME NEW S \in SUBSET Requests, NEW r \in Requests, NEW T,
           T \subseteq S \cup {r}, Cardinality(S) < Limit
    PROVE  Cardinality(T) <= Limit
<1>1. IsFiniteSet(S)
  BY FS_Subset, RequestsAssumption
<1>2. Cardinality(S) \in Nat /\ Cardinality(S \cup {r}) \in Nat
  BY SmallerSet
<1>3. Cardinality(S \cup {r}) = IF r \in S THEN Cardinality(S) ELSE Cardinality(S) + 1
  BY <1>1, FS_AddElement, Zenon
<1>4. Cardinality(T) <= Cardinality(S \cup {r}) /\ Cardinality(T) \in Nat
  BY SmallerSet
<1> QED
  BY <1>2, <1>3, <1>4, LimitAssumption

\* No set of admitted requests grows when nothing new is admitted in order.
LEMMA NothingAdmitted ==
    ASSUME IInv,
           \A i \in IPs, t \in Nat : AdmittedInOrder(i, t)' \subseteq AdmittedInOrder(i, t)
    PROVE  \A i \in IPs, t \in Nat : Cardinality(AdmittedInOrder(i, t))' <= Limit
<1> TAKE i \in IPs, t \in Nat
<1>1. AdmittedInOrder(i, t) \in SUBSET Requests
  BY DEF AdmittedInOrder
<1>2. /\ Cardinality(AdmittedInOrder(i, t)) \in Nat
      /\ Cardinality(AdmittedInOrder(i, t)') \in Nat
      /\ Cardinality(AdmittedInOrder(i, t)') <= Cardinality(AdmittedInOrder(i, t))
  BY <1>1, SmallerSet
<1> QED
  BY <1>2, LimitAssumption DEF IInv

\* Reading the clock only touches a request that is not admitted.
LEMMA ReadClockKeeps ==
    ASSUME IInv, NEW r \in Requests, ReadClock(r)
    PROVE  IInv'
<1> USE DEF IInv
<1>1. TypeOK'
  BY DEF TypeOK, ReadClock
<1>2. WindowWithinLimit'
  BY DEF WindowWithinLimit, ReadClock
<1>3. Kept'
  BY DEF Kept, ReadClock, TypeOK
<1>4. \A i \in IPs, t \in Nat : AdmittedInOrder(i, t)' \subseteq AdmittedInOrder(i, t)
  BY DEF AdmittedInOrder, ReadClock, TypeOK
<1> QED
  BY <1>1, <1>2, <1>3, <1>4, NothingAdmitted

\* Admission: a request in order finds in the slice all those it shares a
\* window with, and there were fewer than the limit.
LEMMA AdmitKeeps ==
    ASSUME IInv, NEW r \in Requests, Admit(r)
    PROVE  IInv'
<1> USE DEF IInv
<1> DEFINE j == source[r]
           valid == Valid(j, stamp[r])
<1>1. /\ j \in IPs /\ stamp[r] \in Nat /\ latest[j] \in Nat
      /\ valid \in SUBSET Requests /\ Cardinality(valid) < Limit
  BY DEF TypeOK, Admit, Valid, HasRoom
<1>2. TypeOK'
  BY <1>1 DEF TypeOK, Admit, Note
<1>3. WindowWithinLimit'
  <2> SUFFICES ASSUME NEW i \in IPs
               PROVE  Cardinality(windows'[i]) <= Limit
    BY DEF WindowWithinLimit
  <2>1. CASE i = j
    <3>1. windows'[i] = valid \cup {r}
      BY <2>1, <1>1 DEF Admit, TypeOK
    <3> QED
      BY <3>1, <1>1, OneMore
  <2>2. CASE i # j
    BY <2>2, <1>1 DEF Admit, TypeOK, WindowWithinLimit
  <2> QED
    BY <2>1, <2>2
<1>4. Kept'
  <2> SUFFICES ASSUME NEW q \in Requests \ overtaken',
                      phase'[q] = "admitted",
                      stamp'[q] + Window > latest'[source'[q]]
               PROVE  q \in windows'[source'[q]]
    BY DEF Kept
  <2>1. CASE q = r
    BY <2>1, <1>1 DEF Admit, TypeOK
  <2>2. CASE q # r /\ source[q] = j
    <3>1. phase[q] = "admitted" /\ stamp'[q] = stamp[q] /\ q \notin overtaken
      BY <2>2 DEF Admit, TypeOK
    <3>2. latest'[j] >= stamp[r] /\ latest'[j] >= latest[j] /\ latest'[j] \in Nat
      BY <1>1 DEF Admit, Note, TypeOK
    <3>3. stamp[q] \in Nat /\ Window \in Nat /\ stamp[q] + Window > latest'[j]
      BY <2>2, <3>1, LimitAssumption DEF Admit, TypeOK
    <3>4. stamp[q] + Window > latest[j] /\ stamp[q] + Window > stamp[r]
      BY <1>1, <3>2, <3>3
    <3>5. q \in windows[j]
      BY <2>2, <3>1, <3>4 DEF Kept
    <3> QED
      BY <1>1, <2>2, <3>4, <3>5 DEF Admit, TypeOK, Valid
  <2>3. CASE q # r /\ source[q] # j
    <3>1. phase[q] = "admitted" /\ stamp'[q] = stamp[q] /\ q \notin overtaken
      BY <2>3 DEF Admit, TypeOK
    <3>2. /\ source[q] \in IPs /\ source'[q] = source[q]
          /\ latest'[source[q]] = latest[source[q]]
          /\ windows'[source[q]] = windows[source[q]]
      BY <2>3 DEF Admit, Note, TypeOK
    <3> QED
      BY <3>1, <3>2 DEF Kept
  <2> QED
    BY <2>1, <2>2, <2>3
<1>5. ASSUME NEW i \in IPs, NEW t \in Nat
      PROVE  Cardinality(AdmittedInOrder(i, t))' <= Limit
  <2>1. AdmittedInOrder(i, t)' \subseteq AdmittedInOrder(i, t) \cup {r}
    BY DEF AdmittedInOrder, Admit, TypeOK
  <2>2. CASE r \notin AdmittedInOrder(i, t)'
    <3>1. AdmittedInOrder(i, t)' \subseteq AdmittedInOrder(i, t)
      BY <2>1, <2>2
    <3>2. AdmittedInOrder(i, t) \in SUBSET Requests
      BY DEF AdmittedInOrder
    <3>3. /\ Cardinality(AdmittedInOrder(i, t)) \in Nat
          /\ Cardinality(AdmittedInOrder(i, t)') \in Nat
          /\ Cardinality(AdmittedInOrder(i, t)') <= Cardinality(AdmittedInOrder(i, t))
      BY <3>1, <3>2, SmallerSet
    <3> QED
      BY <3>3, LimitAssumption
  <2>3. CASE r \in AdmittedInOrder(i, t)'
    <3>1. /\ i = j /\ stamp[r] < t + Window
          /\ ~(stamp[r] < latest[j])
      BY <2>3, <1>1 DEF AdmittedInOrder, Admit, TypeOK
    <3>2. ASSUME NEW q \in AdmittedInOrder(i, t)
          PROVE  q \in valid
      <4>1. /\ q \in Requests \ overtaken /\ phase[q] = "admitted"
            /\ source[q] = j /\ stamp[q] \in Nat /\ t <= stamp[q]
        BY <3>1 DEF AdmittedInOrder, TypeOK
      <4>2. stamp[q] + Window > stamp[r] /\ stamp[q] + Window > latest[j]
        BY <1>1, <3>1, <4>1, LimitAssumption
      <4>3. q \in windows[j]
        BY <4>1, <4>2 DEF Kept
      <4> QED
        BY <4>2, <4>3 DEF Valid
    <3>3. AdmittedInOrder(i, t)' \subseteq valid \cup {r}
      BY <2>1, <3>2
    <3> QED
      BY <3>3, <1>1, OneMore
  <2> QED
    BY <2>2, <2>3
<1> QED
  BY <1>2, <1>3, <1>4, <1>5

\* A step that only prunes, the addresses of I with the cutoff of now.
LEMMA PruneKeeps ==
    ASSUME IInv, TypeOK', NEW I \in SUBSET IPs, NEW now \in Nat,
           windows' = [i \in IPs |-> IF i \in I THEN Valid(i, now) ELSE windows[i]],
           Note(I, now),
           \A r \in Requests : phase'[r] = "admitted" <=> phase[r] = "admitted",
           UNCHANGED <<source, stamp, overtaken>>
    PROVE  IInv'
<1> USE DEF IInv
<1>1. WindowWithinLimit'
  <2> SUFFICES ASSUME NEW i \in IPs
               PROVE  Cardinality(windows'[i]) <= Limit
    BY DEF WindowWithinLimit
  <2>1. windows[i] \in SUBSET Requests /\ windows'[i] \subseteq windows[i]
    BY DEF TypeOK, Valid
  <2>2. /\ Cardinality(windows[i]) \in Nat /\ Cardinality(windows'[i]) \in Nat
        /\ Cardinality(windows'[i]) <= Cardinality(windows[i])
    BY <2>1, SmallerSet
  <2> QED
    BY <2>2, LimitAssumption DEF WindowWithinLimit
<1>2. Kept'
  <2> SUFFICES ASSUME NEW q \in Requests \ overtaken,
                      phase[q] = "admitted",
                      stamp[q] + Window > latest'[source[q]]
               PROVE  q \in windows'[source[q]]
    BY DEF Kept
  <2>1. /\ source[q] \in IPs /\ stamp[q] \in Nat /\ latest[source[q]] \in Nat
        /\ Window \in Nat
    BY LimitAssumption DEF TypeOK
  <2>2. /\ latest'[source[q]] \in Nat /\ latest'[source[q]] >= latest[source[q]]
        /\ source[q] \in I => latest'[source[q]] >= now
    BY <2>1 DEF Note
  <2>3. stamp[q] + Window > latest[source[q]]
    BY <2>1, <2>2
  <2>4. q \in windows[source[q]]
    BY <2>3 DEF Kept
  <2>5. source[q] \in I => stamp[q] + Window > now
    BY <2>1, <2>2
  <2> QED
    BY <2>1, <2>4, <2>5 DEF Valid
<1>3. \A i \in IPs, t \in Nat : AdmittedInOrder(i, t)' \subseteq AdmittedInOrder(i, t)
  BY DEF AdmittedInOrder
<1> QED
  BY <1>1, <1>2, <1>3, NothingAdmitted

\* A denied request prunes its own address.
LEMMA DenyKeeps ==
    ASSUME IInv, NEW r \in Requests, Deny(r)
    PROVE  IInv'
<1> USE DEF IInv
<1>1. source[r] \in IPs /\ stamp[r] \in Nat
  BY DEF TypeOK
<1>2. TypeOK'
  BY <1>1 DEF TypeOK, Deny, Note, Valid
<1>3. windows' = [i \in IPs |-> IF i \in {source[r]} THEN Valid(i, stamp[r])
                                ELSE windows[i]]
  BY <1>1 DEF Deny, TypeOK
<1>4. \A q \in Requests : phase'[q] = "admitted" <=> phase[q] = "admitted"
  BY DEF Deny, TypeOK
<1> QED
  BY <1>1, <1>2, <1>3, <1>4, PruneKeeps DEF Deny

\* cleanup prunes every address.
LEMMA SweepKeeps ==
    ASSUME IInv, Sweep
    PROVE  IInv'
<1> USE DEF IInv
<1>1. sweepAt \in Nat
  BY DEF TypeOK
<1>2. TypeOK'
  BY <1>1 DEF TypeOK, Sweep, Note, Valid
<1>3. windows' = [i \in IPs |-> IF i \in IPs THEN Valid(i, sweepAt) ELSE windows[i]]
  BY DEF Sweep
<1>4. \A q \in Requests : phase'[q] = "admitted" <=> phase[q] = "admitted"
  BY DEF Sweep
<1> QED
  BY <1>1, <1>2, <1>3, <1>4, PruneKeeps DEF Sweep

\* Every step of the limiter keeps the inductive invariant.
LEMMA InductiveStep ==
    ASSUME IInv, [Next]_vars
    PROVE  IInv'
<1>1. CASE \E r \in Requests : ReadClock(r) \/ Admit(r) \/ Deny(r)
  BY <1>1, ReadClockKeeps, AdmitKeeps, DenyKeeps
<1>2. CASE Sweep
  BY <1>2, SweepKeeps
<1>3. CASE SweepReadClock \/ Tick \/ UNCHANGED vars
  <2>1. UNCHANGED <<phase, source, stamp, windows, latest, overtaken>>
    BY <1>3 DEF SweepReadClock, Tick, vars
  <2>2. TypeOK'
    <3> USE DEF IInv, TypeOK
    <3>1. CASE SweepReadClock
      BY <3>1 DEF SweepReadClock
    <3>2. CASE Tick
      <4>1. clock' \in Nat
        BY <3>2 DEF Tick
      <4> QED
        BY <4>1, <3>2, Zenon DEF Tick
    <3>3. CASE UNCHANGED vars
      BY <3>3, Zenon DEF vars
    <3> QED
      BY <1>3, <3>1, <3>2, <3>3
  <2> QED
    BY <2>1, <2>2 DEF IInv, WindowWithinLimit, Kept, AdmittedInOrder
<1> QED
  BY <1>1, <1>2, <1>3 DEF Next

\* It holds at the start and so in every state.
LEMMA InductiveInvariant == Spec => []IInv
<1>1. Init => IInv
  <2> SUFFICES ASSUME Init PROVE IInv
    OBVIOUS
  <2>1. TypeOK /\ Kept
    BY DEF Init, TypeOK, Kept
  <2>2. WindowWithinLimit
    BY FS_EmptySet, LimitAssumption DEF Init, WindowWithinLimit
  <2>3. ASSUME NEW i \in IPs, NEW t \in Nat
        PROVE  Cardinality(AdmittedInOrder(i, t)) <= Limit
    <3>1. AdmittedInOrder(i, t) = {}
      BY DEF Init, AdmittedInOrder
    <3> QED
      BY <3>1, FS_EmptySet, LimitAssumption
  <2> QED
    BY <2>1, <2>2, <2>3 DEF IInv
<1> QED
  BY <1>1, InductiveStep, PTL DEF Spec

\* The variables keep their types.
THEOREM TypeCorrect == Spec => []TypeOK
BY InductiveInvariant, PTL DEF IInv

\* A slice never holds more timestamps than the limit.
THEOREM SliceIsBounded == Spec => []WindowWithinLimit
BY InductiveInvariant, PTL DEF IInv

\* The limit holds in every window of time for requests that were not overtaken
\* on their way to the mutex.
THEOREM RateIsLimited == Spec => []InOrderWithinLimit
<1>1. IInv => InOrderWithinLimit
  BY TimeAssumption DEF IInv, InOrderWithinLimit
<1> QED
  BY <1>1, InductiveInvariant, PTL
=============================================================================

------------------------- MODULE RateLimiter_proofs -------------------------
(***************************************************************************)
(* For every limit, window, delay and number of clients and requests: the  *)
(* limiter admits no more than it should, and refuses no client for what   *)
(* the client did not do.                                                  *)
(***************************************************************************)
EXTENDS RateLimiter, FiniteSetTheorems, TLAPS

\* A request reaches the lock within Skew of its instant.
WaitIsShort == \A r \in Waiting : request[r].now <= clock /\ clock <= request[r].now + Skew

\* No attempt is of the future, and one that is not counted any more is too old
\* for the requests that reach the lock from now on, even for a delayed one.
DroppedIsOld ==
    \A k \in Sources : \A a \in granted[k] :
        a.at <= clock /\ (a \in hits[k] \/ a.at <= clock - Window)

\* The limiter counts only what it admitted.
CountedWasGranted == \A k \in Sources : hits[k] \subseteq granted[k]

\* The number of an attempt is new.
Numbered == \A k \in Sources : \A a \in granted[k] : a.n <= Cardinality(granted[k])

IInv == TypeOK /\ WaitIsShort /\ DroppedIsOld /\ CountedWasGranted /\ Numbered /\ WindowBound

\* A part of a finite set is finite and no larger.
LEMMA Part ==
    ASSUME NEW S, IsFiniteSet(S), NEW T \in SUBSET S
    PROVE  IsFiniteSet(T) /\ Cardinality(T) \in Nat /\ Cardinality(S) \in Nat /\ Cardinality(T) <= Cardinality(S)
BY FS_Subset, FS_CardinalityType

\* Adding one member makes a finite set larger by one at most.
LEMMA OneMore ==
    ASSUME NEW S, IsFiniteSet(S), NEW x
    PROVE  /\ IsFiniteSet(S \cup {x})
           /\ Cardinality(S) \in Nat /\ Cardinality(S \cup {x}) \in Nat
           /\ Cardinality(S \cup {x}) <= Cardinality(S) + 1
BY FS_AddElement, FS_CardinalityType

LEMMA InitIInv == Init => IInv
<1> SUFFICES ASSUME Init PROVE IInv
  OBVIOUS
<1>1. IsFiniteSet({}) /\ Cardinality({}) = 0
  BY FS_EmptySet
<1>2. TypeOK
  BY <1>1, LimitAssumption, TimeAssumption DEF Init, TypeOK
<1>3. WaitIsShort /\ DroppedIsOld /\ CountedWasGranted /\ Numbered
  BY DEF Init, WaitIsShort, Waiting, DroppedIsOld, CountedWasGranted, Numbered
<1>4. WindowBound
  <2>1. ASSUME NEW k \in Sources, NEW from, NEW to
        PROVE  GrantedIn(k, from, to) = {}
    BY DEF Init, GrantedIn
  <2> QED BY <1>1, <2>1, LimitAssumption DEF WindowBound
<1> QED BY <1>2, <1>3, <1>4 DEF IInv

-----------------------------------------------------------------------------

\* allow prunes with the cutoff of a request that is not early: what it drops is
\* too old for every request after it.
LEMMA Pruned ==
    ASSUME TypeOK, WaitIsShort, DroppedIsOld, CountedWasGranted, NEW r \in Waiting
    PROVE  LET k == request[r].source
               kept == Kept(k, request[r].now)
           IN  /\ r \in Requests /\ k \in Sources /\ request[r].now \in 1 .. MaxTime
               /\ kept \subseteq hits[k] /\ IsFiniteSet(kept) /\ Cardinality(kept) \in Nat
               /\ \A a \in granted[k] : a \in kept \/ a.at <= request[r].now + Skew - Window
<1> DEFINE k == request[r].source
<1> DEFINE kept == Kept(k, request[r].now)
<1>1. r \in Requests /\ k \in Sources /\ request[r].now \in 1 .. MaxTime
  BY DEF TypeOK, Waiting
<1>2. kept \subseteq hits[k]
  BY DEF Kept
<1>3. IsFiniteSet(kept) /\ Cardinality(kept) \in Nat
  BY <1>1, <1>2, Part DEF TypeOK
<1>4. ASSUME NEW a \in granted[k]
      PROVE  a \in kept \/ a.at <= request[r].now + Skew - Window
  <2>1. a.at \in Int /\ clock \in Int
    BY <1>1 DEF TypeOK, Attempts
  <2>2. CASE a \in hits[k]
    BY <1>1, <2>1, <2>2, LimitAssumption, SkewAssumption DEF Kept
  <2>3. CASE a \notin hits[k]
    BY <1>1, <2>1, <2>3, LimitAssumption, SkewAssumption DEF DroppedIsOld, WaitIsShort
  <2> QED BY <2>2, <2>3
<1> QED BY <1>1, <1>2, <1>3, <1>4

LEMMA NextIInv == IInv /\ [Next]_vars => IInv'
<1> SUFFICES ASSUME IInv, [Next]_vars PROVE IInv'
  OBVIOUS
<1>0. TypeOK /\ WaitIsShort /\ DroppedIsOld /\ CountedWasGranted /\ Numbered /\ WindowBound
  BY DEF IInv
<1>1. CASE Tick
  <2>1. TypeOK'
    BY <1>0, <1>1, TimeAssumption DEF Tick, TypeOK
  <2>2. WaitIsShort'
    BY <1>0, <1>1, SkewAssumption DEF Tick, TypeOK, WaitIsShort, Waiting
  <2>3. DroppedIsOld'
    BY <1>0, <1>1, LimitAssumption DEF Tick, TypeOK, Attempts, DroppedIsOld
  <2>4. CountedWasGranted' /\ Numbered' /\ WindowBound'
    BY <1>0, <1>1 DEF Tick, CountedWasGranted, Numbered, WindowBound, GrantedIn
  <2> QED BY <2>1, <2>2, <2>3, <2>4 DEF IInv
<1>2. ASSUME NEW r \in Requests, NEW source \in Sources, Login(r, source)
      PROVE  IInv'
  <2>1. TypeOK'
    BY <1>0, <1>2 DEF Login, TypeOK
  <2>2. WaitIsShort'
    BY <1>0, <1>2, SkewAssumption DEF Login, TypeOK, WaitIsShort, Waiting
  <2>3. DroppedIsOld' /\ CountedWasGranted' /\ Numbered' /\ WindowBound'
    BY <1>0, <1>2 DEF Login, DroppedIsOld, CountedWasGranted, Numbered, WindowBound, GrantedIn
  <2> QED BY <2>1, <2>2, <2>3 DEF IInv
<1>3. ASSUME NEW r \in Requests, Refuse(r)
      PROVE  IInv'
  <2> DEFINE k == request[r].source
  <2> DEFINE kept == Kept(k, request[r].now)
  <2>1. /\ r \in Waiting /\ k \in Sources /\ kept \subseteq hits[k] /\ IsFiniteSet(kept)
        /\ hits' = [hits EXCEPT ![k] = kept]
        /\ request' = [request EXCEPT ![r] = NoRequest] /\ UNCHANGED <<clock, granted>>
    BY <1>0, <1>3, Pruned DEF Refuse, Count
  <2>2. TypeOK'
    BY <1>0, <2>1, Part, LimitAssumption DEF TypeOK
  <2>3. WaitIsShort'
    BY <1>0, <2>1 DEF TypeOK, WaitIsShort, Waiting
  <2>4. DroppedIsOld'
    <3>1. request[r].now \in Int /\ request[r].now <= clock /\ clock \in Int
      BY <1>0, <2>1 DEF TypeOK, Waiting, WaitIsShort
    <3>2. ASSUME NEW a \in granted[k], a \notin kept
          PROVE  a.at <= clock - Window
      <4>1. a.at \in Int
        BY <1>0, <2>1 DEF TypeOK, Attempts
      <4> QED BY <1>0, <2>1, <3>1, <3>2, <4>1, LimitAssumption DEF DroppedIsOld, Kept
    <3> QED BY <1>0, <2>1, <3>2 DEF TypeOK, DroppedIsOld
  <2>5. CountedWasGranted' /\ Numbered' /\ WindowBound'
    BY <1>0, <2>1 DEF TypeOK, CountedWasGranted, Numbered, WindowBound, GrantedIn
  <2> QED BY <2>2, <2>3, <2>4, <2>5 DEF IInv
<1>4. ASSUME NEW r \in Requests, Admit(r)
      PROVE  IInv'
  <2> DEFINE k == request[r].source
  <2> DEFINE now == request[r].now
  <2> DEFINE kept == Kept(k, now)
  <2>1. /\ r \in Waiting /\ k \in Sources /\ now \in 1 .. MaxTime
        /\ kept \subseteq hits[k] /\ IsFiniteSet(kept) /\ Cardinality(kept) \in Nat
        /\ \A a \in granted[k] : a \in kept \/ a.at <= now + Skew - Window
    BY <1>0, <1>4, Pruned DEF Admit
  <2>2. PICK x \in Attempts :
          /\ x.at = now /\ x.n = Cardinality(granted[k]) + 1 /\ Cardinality(kept) < Max
          /\ hits' = [hits EXCEPT ![k] = kept \cup {x}]
          /\ granted' = [granted EXCEPT ![k] = @ \cup {x}]
          /\ request' = [request EXCEPT ![r] = NoRequest] /\ UNCHANGED clock
    <3>1. Cardinality(granted[k]) + 1 \in Nat
      BY <1>0, <2>1, FS_CardinalityType DEF TypeOK
    <3>2. Attempt(r) \in Attempts /\ Attempt(r).at = now /\ Attempt(r).n = Cardinality(granted[k]) + 1
      BY <2>1, <3>1 DEF Attempt, Attempts
    <3> QED BY <1>4, <3>2 DEF Admit, Count
  <2>3. IsFiniteSet(kept \cup {x}) /\ Cardinality(kept \cup {x}) \in Nat /\ Cardinality(kept \cup {x}) <= Max
    <3> HIDE DEF kept
    <3>1. Cardinality(kept \cup {x}) \in Nat /\ Cardinality(kept \cup {x}) <= Cardinality(kept) + 1 /\ IsFiniteSet(kept \cup {x})
      BY <2>1, OneMore
    <3> QED BY <2>1, <2>2, <3>1, LimitAssumption
  <2>4. TypeOK'
    <3>1. kept \cup {x} \subseteq Attempts
      BY <1>0, <2>1 DEF TypeOK
    <3>2. IsFiniteSet(granted[k])
      BY <1>0, <2>1 DEF TypeOK
    <3>3. IsFiniteSet(granted[k] \cup {x})
      BY <3>2, OneMore
    <3>4. clock' \in 1 .. MaxTime /\ request' \in [Requests -> [source : Sources, now : 1 .. MaxTime] \cup {NoRequest}]
      BY <1>0, <2>2 DEF TypeOK
    <3>5. hits' \in [Sources -> SUBSET Attempts] /\ granted' \in [Sources -> SUBSET Attempts]
      BY <1>0, <2>1, <2>2, <3>1 DEF TypeOK
    <3>6. ASSUME NEW e \in Sources
          PROVE  IsFiniteSet(granted'[e]) /\ IsFiniteSet(hits'[e]) /\ Cardinality(hits'[e]) <= Max
      <4>1. CASE e = k
        BY <1>0, <2>2, <2>3, <3>3, <4>1 DEF TypeOK
      <4>2. CASE e # k
        BY <1>0, <2>2, <4>2 DEF TypeOK
      <4> QED BY <4>1, <4>2
    <3> HIDE DEF k
    <3> QED BY <3>4, <3>5, <3>6 DEF TypeOK
  <2>5. WaitIsShort'
    BY <1>0, <2>1, <2>2 DEF TypeOK, WaitIsShort, Waiting
  <2>6. CountedWasGranted'
    BY <1>0, <2>1, <2>2 DEF TypeOK, CountedWasGranted
  <2>7. DroppedIsOld'
    <3>1. now <= clock /\ clock \in Int
      BY <1>0, <2>1 DEF TypeOK, WaitIsShort
    <3>2. ASSUME NEW a \in granted[k], a \notin kept
          PROVE  a.at <= clock - Window
      BY <1>0, <2>1, <3>1, <3>2, LimitAssumption DEF TypeOK, Attempts, DroppedIsOld, Kept
    <3> QED BY <1>0, <2>1, <2>2, <3>1, <3>2 DEF TypeOK, DroppedIsOld
  <2>8. Numbered'
    <3>1. IsFiniteSet(granted[k]) /\ Cardinality(granted[k]) \in Nat /\ \A a \in granted[k] : a.n \in Nat
      BY <1>0, <2>1, FS_CardinalityType DEF TypeOK, Attempts
    <3>2. x \notin granted[k]
      BY <1>0, <2>1, <2>2, <3>1 DEF Numbered
    <3>3. Cardinality(granted[k] \cup {x}) = Cardinality(granted[k]) + 1
      BY <3>1, <3>2, FS_AddElement
    <3>4. granted'[k] = granted[k] \cup {x} /\ \A j \in Sources : j # k => granted'[j] = granted[j]
      BY <1>0, <2>1, <2>2 DEF TypeOK
    <3> QED BY <1>0, <2>2, <3>1, <3>3, <3>4 DEF Numbered
  <2>9. WindowBound'
    <3> SUFFICES ASSUME NEW j \in Sources, NEW end \in 1 .. MaxTime
                 PROVE  Cardinality(GrantedIn(j, end - (Window - Skew), end)') <= Max
      BY DEF WindowBound
    <3> DEFINE old == GrantedIn(j, end - (Window - Skew), end)
    <3> DEFINE new == GrantedIn(j, end - (Window - Skew), end)'
    <3>1. CASE j # k \/ ~(x.at <= end)
      <4>1. new = old
        BY <1>0, <2>1, <2>2, <3>1 DEF TypeOK, GrantedIn
      <4> QED BY <1>0, <4>1 DEF WindowBound
    <3>2. CASE j = k /\ x.at <= end
      <4>1. new \subseteq kept \cup {x}
        BY <1>0, <2>1, <2>2, <3>2, LimitAssumption, SkewAssumption DEF TypeOK, Attempts, GrantedIn
      <4> QED BY <2>3, <4>1, Part, LimitAssumption
    <3> QED BY <3>1, <3>2
  <2> QED BY <2>4, <2>5, <2>6, <2>7, <2>8, <2>9 DEF IInv
<1>5. CASE UNCHANGED vars
  BY <1>0, <1>5 DEF vars, IInv, TypeOK, WaitIsShort, Waiting, DroppedIsOld, CountedWasGranted, Numbered, WindowBound, GrantedIn
<1> QED BY <1>1, <1>2, <1>3, <1>4, <1>5 DEF Next

LEMMA Inductive == Spec => []IInv
BY InitIInv, NextIInv, PTL DEF Spec

-----------------------------------------------------------------------------

\* Every variable keeps its type; in particular no address has more than Max
\* attempts on its list.
THEOREM TypeCorrect == Spec => []TypeOK
<1>1. IInv => TypeOK
  BY DEF IInv
<1> QED BY <1>1, Inductive, PTL

\* However requests are delayed before the lock, no window shortened by that
\* delay admits more than Max attempts of an address.
THEOREM NeverTooMany == Spec => []WindowBound
<1>1. IInv => WindowBound
  BY DEF IInv
<1> QED BY <1>1, Inductive, PTL

\* allow refuses a client only when Max attempts of its own were admitted in the
\* window up to then.
THEOREM RefusedWithCause == Spec => RefusalIsEarned
<1>1. IInv /\ [Next]_vars
        => [\A r \in Waiting :
              request'[r] = NoRequest /\ UNCHANGED granted
                  => Cardinality(GrantedIn(request[r].source, request[r].now - Window, request[r].now + Skew)) >= Max]_vars
  <2> SUFFICES ASSUME IInv, [Next]_vars, ~UNCHANGED vars,
                      NEW r \in Waiting, request'[r] = NoRequest, UNCHANGED granted
               PROVE  Cardinality(GrantedIn(request[r].source, request[r].now - Window, request[r].now + Skew)) >= Max
    OBVIOUS
  <2>0. TypeOK /\ WaitIsShort /\ DroppedIsOld /\ CountedWasGranted /\ Numbered
    BY DEF IInv
  <2> DEFINE k == request[r].source
  <2> DEFINE kept == Kept(k, request[r].now)
  <2> DEFINE mine == GrantedIn(k, request[r].now - Window, request[r].now + Skew)
  <2>1. /\ r \in Requests /\ k \in Sources /\ request[r].now \in 1 .. MaxTime
        /\ kept \subseteq hits[k] /\ Cardinality(kept) \in Nat
    BY <2>0, Pruned
  <2>2. kept \subseteq mine
    BY <2>0, <2>1, SkewAssumption DEF TypeOK, Attempts, Kept, GrantedIn, CountedWasGranted, DroppedIsOld, WaitIsShort
  <2>3. Cardinality(kept) <= Cardinality(mine) /\ Cardinality(mine) \in Nat
    <3>1. IsFiniteSet(granted[k]) /\ mine \subseteq granted[k]
      BY <2>0, <2>1 DEF TypeOK, GrantedIn
    <3>2. IsFiniteSet(mine)
      BY <3>1, Part
    <3> QED BY <2>2, <3>2, Part
  <2>4. Cardinality(kept) >= Max
    <3>1. Refuse(r) \/ Admit(r)
      BY <2>0, <2>1 DEF Next, vars, Tick, Login, Refuse, Admit, Count, TypeOK, Waiting
    <3>2. ~Admit(r)
      <4> SUFFICES ASSUME Admit(r) PROVE FALSE
        OBVIOUS
      <4>1. granted[k] = granted[k] \cup {Attempt(r)}
        BY <2>0, <2>1 DEF Admit, TypeOK
      <4>2. Attempt(r).n = Cardinality(granted[k]) + 1 /\ Cardinality(granted[k]) \in Nat
        BY <2>0, <2>1, FS_CardinalityType DEF TypeOK, Attempt
      <4> QED BY <2>0, <2>1, <4>1, <4>2 DEF Numbered
    <3> QED BY <3>1, <3>2 DEF Refuse
  <2> QED BY <2>1, <2>3, <2>4, LimitAssumption
<1> QED BY <1>1, Inductive, PTL DEF Spec, RefusalIsEarned

=============================================================================

----------------------------- MODULE RateLimiter -----------------------------
(***************************************************************************)
(* The limiter of login attempts (src/internal/web/ratelimit.go) under     *)
(* concurrent requests.                                                    *)
(*                                                                         *)
(* handleLogin reads the clock and calls allow, which waits for a mutex:   *)
(* the instants that allow sees are not in order.  Skew bounds the time    *)
(* between the two.                                                        *)
(*                                                                         *)
(* The list of instants that allow keeps is a set of attempts, numbered so *)
(* that two at one instant differ: allow only counts the list and drops    *)
(* what is too old.                                                        *)
(***************************************************************************)
EXTENDS Integers, FiniteSets

CONSTANTS
    Sources,   \* client addresses, the limiter's keys
    Requests,  \* handler slots: login requests in progress
    Max,       \* attempts admitted per window
    Window,    \* its length
    Skew,      \* bound on the delay between time.Now() and the lock
    MaxTime    \* bound on the clock

ASSUME LimitAssumption == Max \in Nat \ {0} /\ Window \in Nat \ {0}
ASSUME SkewAssumption == Skew \in Nat /\ Skew < Window
ASSUME TimeAssumption == MaxTime \in Nat \ {0}

VARIABLES
    clock,    \* time.Now()
    hits,     \* rl.hits: per key, the attempts that count
    request,  \* per slot: the source and the instant of the attempt, or idle
    granted   \* history: per key, every attempt ever admitted

vars == <<clock, hits, request, granted>>

NoRequest == [source |-> "none", now |-> 0]
Waiting == {r \in Requests : request[r] # NoRequest}

Init ==
    /\ clock = 1
    /\ hits = [k \in Sources |-> {}]
    /\ request = [r \in Requests |-> NoRequest]
    /\ granted = [k \in Sources |-> {}]

\* A request that waits is let in at most Skew later.
Tick ==
    /\ clock < MaxTime
    /\ \A r \in Waiting : clock < request[r].now + Skew
    /\ clock' = clock + 1
    /\ UNCHANGED <<hits, request, granted>>

\* handleLogin up to the lock.
Login(r, source) ==
    /\ r \notin Waiting
    /\ request' = [request EXCEPT ![r] = [source |-> source, now |-> clock]]
    /\ UNCHANGED <<clock, hits, granted>>

\* Mutant of Kept: the window is one tick short.
MutantKeptShort(source, now) == {a \in hits[source] : a.at > now - Window + 1}

\* The attempts after now - window.
Kept(source, now) == {a \in hits[source] : a.at > now - Window}

\* allow answers: the attempts that are too old are dropped, and more are added.
Count(r, more) ==
    LET source == request[r].source
    IN  /\ hits' = [hits EXCEPT ![source] = Kept(source, request[r].now) \cup more]
        /\ request' = [request EXCEPT ![r] = NoRequest]
        /\ UNCHANGED clock

\* Mutant of Refuse: the refused attempt counts as well.
MutantRefuseCounts(r) ==
    /\ r \in Waiting
    /\ Cardinality(Kept(request[r].source, request[r].now)) >= Max
    /\ Count(r, {[at |-> request[r].now, n |-> 0]})
    /\ UNCHANGED granted

\* allow answers false; the attempt is not kept.
Refuse(r) ==
    /\ r \in Waiting
    /\ Cardinality(Kept(request[r].source, request[r].now)) >= Max
    /\ Count(r, {})
    /\ UNCHANGED granted

\* The attempt of slot r, numbered.
Attempt(r) == [at |-> request[r].now, n |-> Cardinality(granted[request[r].source]) + 1]

\* Mutant of Admit: ">" written for ">=", so Max + 1 attempts are kept.
MutantAdmitOneMore(r) ==
    /\ r \in Waiting
    /\ Cardinality(Kept(request[r].source, request[r].now)) <= Max
    /\ Count(r, {Attempt(r)})
    /\ granted' = [granted EXCEPT ![request[r].source] = @ \cup {Attempt(r)}]

\* allow answers true.
Admit(r) ==
    /\ r \in Waiting
    /\ Cardinality(Kept(request[r].source, request[r].now)) < Max
    /\ Count(r, {Attempt(r)})
    /\ granted' = [granted EXCEPT ![request[r].source] = @ \cup {Attempt(r)}]

Next ==
    \/ Tick
    \/ \E r \in Requests :
          \/ \E source \in Sources : Login(r, source)
          \/ Refuse(r)
          \/ Admit(r)

Spec == Init /\ [][Next]_vars

-----------------------------------------------------------------------------
(* Properties.                                                             *)

Attempts == [at : 1 .. MaxTime, n : Nat]

TypeOK ==
    /\ clock \in 1 .. MaxTime
    /\ {hits, granted} \subseteq [Sources -> SUBSET Attempts]
    /\ \A k \in Sources : IsFiniteSet(granted[k]) /\ IsFiniteSet(hits[k]) /\ Cardinality(hits[k]) <= Max
    /\ request \in [Requests -> [source : Sources, now : 1 .. MaxTime] \cup {NoRequest}]

\* The attempts of source k admitted with an instant in (from, to].
GrantedIn(k, from, to) == {a \in granted[k] : a.at > from /\ a.at <= to}

\* No window, wherever it begins, admits more than Max attempts of a source.
\* Requests that reach the lock out of order can let a later one prune hits that
\* an earlier one should have counted, which costs at most Skew of the window.
WindowBound ==
    \A k \in Sources, end \in 1 .. MaxTime :
        Cardinality(GrantedIn(k, end - (Window - Skew), end)) <= Max

\* A refused client has itself used up the window up to its attempt:
\* neither refused attempts nor those of other addresses keep it out.
RefusalIsEarned ==
    [][\A r \in Waiting :
          request'[r] = NoRequest /\ UNCHANGED granted
              => Cardinality(GrantedIn(request[r].source, request[r].now - Window, request[r].now + Skew)) >= Max]_vars

=============================================================================

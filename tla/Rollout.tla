------------------------------ MODULE Rollout ------------------------------
(***************************************************************************)
(* What a caller of Pipeline.Deploy may count on, without connections,     *)
(* temporary files, errors or phases: the content goes live on a target    *)
(* only after every target validated it, an abort is final and changes no  *)
(* target, and the outcome reported is what happened on the servers        *)
(* (src/internal/deploy/result.go).                                        *)
(***************************************************************************)
EXTENDS Naturals, FiniteSets

CONSTANTS Slots, Servers, SrvOf

VARIABLES
    targets,    \* the slots of this deploy
    ready,      \* slots whose server validated the content
    verdict,    \* "open", "commit" or "abort"
    live,       \* servers that have the content as their zone file
    asked,      \* servers that have been told to load it
    serving,    \* servers that have loaded it
    confirmed,  \* slots the result reports as moved
    outcome     \* "none" until Deploy returns

rvars == <<targets, ready, verdict, live, asked, serving, confirmed, outcome>>

Init ==
    /\ targets \in SUBSET Slots
    /\ ready = {} /\ live = {} /\ asked = {} /\ serving = {} /\ confirmed = {}
    /\ verdict = "open" /\ outcome = "none"

\* Deploy returns an error before it contacts any server.
Reject ==
    /\ verdict = "open" /\ ready = {}
    /\ verdict' = "abort" /\ outcome' = "error"
    /\ UNCHANGED <<targets, ready, live, asked, serving, confirmed>>

Validate(i) ==
    /\ verdict = "open" /\ i \in targets
    /\ ready' = ready \cup {i}
    /\ UNCHANGED <<targets, verdict, live, asked, serving, confirmed, outcome>>

Abort ==
    /\ verdict = "open" /\ ready # targets
    /\ verdict' = "abort"
    /\ UNCHANGED <<targets, ready, live, asked, serving, confirmed, outcome>>

Commit ==
    /\ verdict = "open" /\ ready = targets /\ targets # {}
    /\ verdict' = "commit"
    /\ UNCHANGED <<targets, ready, live, asked, serving, confirmed, outcome>>

\* The content goes live on a target; the result may miss the confirmation.
GoLive(i) ==
    /\ verdict = "commit" /\ outcome = "none" /\ i \in targets
    /\ live' = live \cup {SrvOf[i]}
    /\ confirmed' \in {confirmed, confirmed \cup {i}}
    /\ UNCHANGED <<targets, ready, verdict, asked, serving, outcome>>

Ask(i) ==
    /\ verdict = "commit" /\ outcome = "none" /\ i \in targets
    /\ SrvOf[i] \in live
    /\ asked' = asked \cup {SrvOf[i]}
    /\ UNCHANGED <<targets, ready, verdict, live, serving, confirmed, outcome>>

\* The name server loads the content, even after Deploy has returned.
Serve(s) ==
    /\ s \in asked
    /\ serving' = serving \cup {s}
    /\ UNCHANGED <<targets, ready, verdict, live, asked, confirmed, outcome>>

Finish ==
    /\ outcome = "none"
    /\ \/ verdict = "abort" /\ outcome' = "failed"
       \/ verdict = "commit" /\ outcome' = "partial"
       \/ /\ verdict = "commit" /\ outcome' = "success"
          /\ confirmed = targets
          /\ \A i \in targets : SrvOf[i] \in asked
    /\ UNCHANGED <<targets, ready, verdict, live, asked, serving, confirmed>>

RNext ==
    \/ Reject \/ Abort \/ Commit \/ Finish
    \/ \E i \in Slots : Validate(i) \/ GoLive(i) \/ Ask(i)
    \/ \E s \in Servers : Serve(s)

RSpec == Init /\ [][RNext]_rvars

=============================================================================

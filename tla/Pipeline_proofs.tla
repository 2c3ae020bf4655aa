--------------------------- MODULE Pipeline_proofs ---------------------------
(***************************************************************************)
(* For every target list, every assignment of slots to servers and every   *)
(* set of faults: Deploy validates everywhere before it changes anything,  *)
(* never exposes a torn file, reports only what happened, and implements   *)
(* Rollout.                                                                *)
(***************************************************************************)
EXTENDS Pipeline, WellFoundedInduction, TLAPS

\* The calls a goroutine of each phase can be at.
CallsOf(ph) ==
    CASE ph = "stage"   -> {"dial", "upload", "checkzone"}
      [] ph = "cleanup" -> {"rm"}
      [] ph = "commit"  -> {"mv", "reload"}
      [] ph = "verify"  -> {"query"}
      [] OTHER          -> {}

Committed == phase \in {"commit", "verify"} \/ status \in {"partial", "success"}

\* Goroutines run for targets, in the phase their call belongs to; the barrier
\* has been passed by all targets or by none.
Control ==
    /\ \A i \in Slots : at[i] # "none" => i \in targets /\ at[i] \in CallsOf(phase)
    /\ phase = "returned" <=> status # "none"
    /\ Committed => targets # {} /\ \A i \in targets : "checked" \in reached[i]
    /\ phase \in {"stage", "cleanup"} => targets # {}
    /\ \A i \in Slots : reached[i] # {} => i \in targets
    /\ phase = "local" \/ status = "error" => \A i \in Slots : reached[i] = {}

\* Until then nothing but temporary files has changed, and a slot whose file
\* was validated, or is to be moved, has a complete one.
Staging ==
    /\ ~Committed =>
          /\ queued = {}
          /\ \A s \in Servers : file[s] = "old" /\ loaded[s] = "old"
          /\ \A i \in Slots : reached[i] \subseteq {"staged", "checked"}
    /\ phase = "stage" => \A i \in Slots :
          /\ at[i] # "none" => "checked" \notin reached[i]
          /\ at[i] = "checkzone" \/ "checked" \in reached[i] => tmp[i] = "new"
    /\ \A i \in Slots : at[i] = "mv" => tmp[i] = "new"

\* After it the servers' files are ahead of what named has, and both are ahead
\* of what the result says.
Going ==
    /\ \A s \in Servers : file[s] \in {"old", "new"} /\ loaded[s] \in {"old", "new"}
    /\ \A s \in Servers : s \in queued \/ loaded[s] = "new" => file[s] = "new"
    /\ \A i \in Slots :
          /\ at[i] = "reload" => "moved" \in reached[i]
          /\ "moved" \in reached[i] => file[SrvOf[i]] = "new"
          /\ "reloaded" \in reached[i] => SrvOf[i] \in queued \/ loaded[SrvOf[i]] = "new"
          /\ "verified" \in reached[i] => ServesNewSerial(SrvOf[i])
    /\ status = "success" => \A i \in targets : {"moved", "reloaded"} \subseteq reached[i]

\* A temporary file is still in use, or its cleanup or its move has failed.
Temps ==
    /\ \A i \in Slots : at[i] \in {"upload", "checkzone"} => i \in conns
    /\ \A i \in Slots : tmp[i] # "absent" =>
          \/ phase = "stage" /\ i \in conns
          \/ phase = "cleanup" /\ at[i] = "rm"
          \/ phase = "commit" /\ at[i] = "mv"
          \/ Committed /\ err[i] = "move" /\ at[i] \in {"none", "query"}
          \/ (phase = "cleanup" \/ status = "failed") /\ i \in logged

IInv == TypeOK /\ Control /\ Staging /\ Going /\ Temps

LEMMA Outcomes ==
    ASSUME NEW op, NEW o \in RunOutcomes(op)
    PROVE  o.did \in BOOLEAN /\ o.ok \in BOOLEAN /\ (o.ok => o.did)
<1>1. CASE o = [did |-> TRUE, ok |-> TRUE]
  BY <1>1
<1>2. CASE o = [did |-> FALSE, ok |-> FALSE]
  BY <1>2
<1>3. CASE o \in [did : BOOLEAN, ok : {FALSE}]
  BY <1>3
<1> QED BY <1>1, <1>2, <1>3 DEF RunOutcomes

LEMMA InitIInv == Init => IInv
<1> SUFFICES ASSUME Init PROVE IInv
  OBVIOUS
<1>1. TypeOK
  BY DEF Init, TypeOK, Phases, Calls, Flags, Errors
<1>2. Control
  BY DEF Init, Control, Committed
<1>3. Staging
  BY DEF Init, Staging, Committed
<1>4. Going
  BY ServersAssumption DEF Init, Going
<1>5. Temps
  BY DEF Init, Temps
<1> QED BY <1>1, <1>2, <1>3, <1>4, <1>5 DEF IInv

-----------------------------------------------------------------------------
USE DEF Phases, Calls, Flags, Errors, Committed, ServesNewSerial, slotVars

LEMMA NextIInv == IInv /\ [Next]_vars => IInv'
<1> SUFFICES ASSUME IInv, [Next]_vars PROVE IInv'
  OBVIOUS
<1>0. SrvOf \in [Slots -> Servers]
  BY ServersAssumption
<1>1. CASE NoTargets
  <2>1. TypeOK'
    BY <1>1 DEF NoTargets, IInv, TypeOK
  <2>2. Control'
    BY <1>1 DEF NoTargets, IInv, Control
  <2>3. Staging'
    BY <1>1 DEF NoTargets, IInv, Control, Staging
  <2>4. Going'
    BY <1>1 DEF NoTargets, IInv, Going
  <2>5. Temps'
    BY <1>1 DEF NoTargets, IInv, Control, Temps
  <2> QED BY <2>1, <2>2, <2>3, <2>4, <2>5 DEF IInv
<1>2. CASE LocalReject
  <2>1. TypeOK'
    BY <1>2 DEF LocalReject, IInv, TypeOK
  <2>2. Control'
    BY <1>2 DEF LocalReject, IInv, Control, CallsOf
  <2>3. Staging'
    BY <1>2 DEF LocalReject, IInv, Control, Staging
  <2>4. Going'
    BY <1>2 DEF LocalReject, IInv, Going
  <2>5. Temps'
    BY <1>2 DEF LocalReject, IInv, Control, Temps
  <2> QED BY <2>1, <2>2, <2>3, <2>4, <2>5 DEF IInv
<1>3. CASE StartStage
  <2>1. TypeOK'
    BY <1>3 DEF StartStage, IInv, TypeOK
  <2>2. Control'
    BY <1>3 DEF StartStage, IInv, Control, CallsOf
  <2>3. Staging'
    BY <1>3 DEF StartStage, IInv, Control, Staging
  <2>4. Going'
    BY <1>3 DEF StartStage, IInv, Going
  <2>5. Temps'
    BY <1>3 DEF StartStage, IInv, Control, Temps
  <2> QED BY <2>1, <2>2, <2>3, <2>4, <2>5 DEF IInv
<1>4. CASE StartCommit
  <2>1. TypeOK'
    BY <1>4 DEF StartCommit, IInv, TypeOK
  <2>2. Control'
    BY <1>4 DEF StartCommit, IInv, Control, CallsOf
  <2>3. Staging'
    BY <1>4 DEF StartCommit, IInv, Staging
  <2>4. Going'
    BY <1>4 DEF StartCommit, IInv, Going
  <2>5. Temps'
    BY <1>4 DEF StartCommit, IInv, TypeOK, Temps
  <2> QED BY <2>1, <2>2, <2>3, <2>4, <2>5 DEF IInv
<1>5. CASE StartCleanup
  <2>1. TypeOK'
    BY <1>5 DEF StartCleanup, IInv, TypeOK
  <2>2. Control'
    BY <1>5 DEF StartCleanup, IInv, TypeOK, Control, CallsOf
  <2>3. Staging'
    BY <1>5 DEF StartCleanup, IInv, Staging
  <2>4. Going'
    BY <1>5 DEF StartCleanup, IInv, Going
  <2>5. Temps'
    BY <1>5 DEF StartCleanup, IInv, Temps
  <2> QED BY <2>1, <2>2, <2>3, <2>4, <2>5 DEF IInv
<1>6. CASE ReturnFailed
  <2>1. TypeOK'
    BY <1>6 DEF ReturnFailed, IInv, TypeOK
  <2>2. Control'
    BY <1>6 DEF ReturnFailed, AllEnded, IInv, Control
  <2>3. Staging'
    BY <1>6 DEF ReturnFailed, IInv, Control, Staging
  <2>4. Going'
    BY <1>6 DEF ReturnFailed, IInv, Going
  <2>5. Temps'
    BY <1>6 DEF ReturnFailed, AllEnded, IInv, Control, Temps
  <2> QED BY <2>1, <2>2, <2>3, <2>4, <2>5 DEF IInv
<1>7. CASE StartVerify
  <2>1. TypeOK'
    BY <1>7 DEF StartVerify, IInv, TypeOK
  <2>2. Control'
    BY <1>7 DEF StartVerify, IInv, Control, CallsOf
  <2>3. Staging'
    BY <1>7 DEF StartVerify, Staging
  <2>4. Going'
    BY <1>7 DEF StartVerify, IInv, Going
  <2>5. Temps'
    BY <1>7 DEF StartVerify, AllEnded, IInv, Control, Temps
  <2> QED BY <2>1, <2>2, <2>3, <2>4, <2>5 DEF IInv
<1>8. CASE ReturnDone
  <2>1. TypeOK'
    BY <1>8 DEF ReturnDone, IInv, TypeOK
  <2>2. Control'
    BY <1>8 DEF ReturnDone, AllEnded, IInv, Control
  <2>3. Staging'
    BY <1>8 DEF ReturnDone, IInv, Staging
  <2>4. Going'
    BY <1>8 DEF ReturnDone, IInv, Going
  <2>5. Temps'
    BY <1>8 DEF ReturnDone, AllEnded, IInv, Control, Temps
  <2> QED BY <2>1, <2>2, <2>3, <2>4, <2>5 DEF IInv
<1>9. CASE Cancel
  <2>1. TypeOK'
    BY <1>9 DEF Cancel, IInv, TypeOK
  <2>2. Control'
    BY <1>9 DEF Cancel, IInv, Control
  <2>3. Staging'
    BY <1>9 DEF Cancel, IInv, Staging
  <2>4. Going'
    BY <1>9 DEF Cancel, IInv, Going
  <2>5. Temps'
    BY <1>9 DEF Cancel, IInv, Temps
  <2> QED BY <2>1, <2>2, <2>3, <2>4, <2>5 DEF IInv
<1>10. ASSUME NEW i \in Slots, Dial(i)
      PROVE  IInv'
  <2>1. TypeOK'
    BY <1>10 DEF Dial, Goto, Fail, IInv, TypeOK, Control
  <2>2. Control'
    BY <1>10 DEF Dial, Goto, Fail, IInv, TypeOK, Control, CallsOf
  <2>3. Staging'
    BY <1>10 DEF Dial, Goto, Fail, IInv, TypeOK, Staging
  <2>4. Going'
    BY <1>10 DEF Dial, Goto, Fail, IInv, TypeOK, Going
  <2>5. Temps'
    BY <1>10 DEF Dial, Goto, Fail, IInv, TypeOK, Temps
  <2> QED BY <2>1, <2>2, <2>3, <2>4, <2>5 DEF IInv
<1>11. ASSUME NEW i \in Slots, Upload(i)
      PROVE  IInv'
  <2>1. TypeOK'
    BY <1>11 DEF Upload, Goto, Fail, Pass, IInv, TypeOK
  <2>2. Control'
    BY <1>11 DEF Upload, Goto, Fail, Pass, IInv, TypeOK, Control, CallsOf
  <2>3. Staging'
    BY <1>11 DEF Upload, Goto, Fail, Pass, IInv, TypeOK, Staging
  <2>4. Going'
    BY <1>11 DEF Upload, Goto, Fail, Pass, IInv, TypeOK, Going
  <2>5. Temps'
    BY <1>11 DEF Upload, Goto, Fail, Pass, IInv, TypeOK, Temps
  <2> QED BY <2>1, <2>2, <2>3, <2>4, <2>5 DEF IInv
<1>12. ASSUME NEW i \in Slots, Checkzone(i)
      PROVE  IInv'
  <2>1. TypeOK'
    BY <1>12 DEF Checkzone, Goto, Fail, Pass, IInv, TypeOK
  <2>2. Control'
    BY <1>12 DEF Checkzone, Goto, Fail, Pass, IInv, TypeOK, Control
  <2>3. Staging'
    BY <1>12 DEF Checkzone, Goto, Fail, Pass, IInv, TypeOK, Staging
  <2>4. Going'
    BY <1>12 DEF Checkzone, Goto, Fail, Pass, IInv, TypeOK, Going
  <2>5. Temps'
    BY <1>12 DEF Checkzone, Goto, Fail, Pass, IInv, TypeOK, Temps
  <2> QED BY <2>1, <2>2, <2>3, <2>4, <2>5 DEF IInv
<1>13. ASSUME NEW i \in Slots, Remove(i)
      PROVE  IInv'
  <2>1. TypeOK'
    BY <1>13 DEF Remove, Goto, IInv, TypeOK
  <2>2. Control'
    BY <1>13 DEF Remove, Goto, IInv, Control
  <2>3. Staging'
    BY <1>13 DEF Remove, Goto, IInv, Staging
  <2>4. Going'
    BY <1>13 DEF Remove, Goto, IInv, Going
  <2>5. Temps'
    BY <1>13, Outcomes DEF Remove, Goto, IInv, TypeOK, Temps
  <2> QED BY <2>1, <2>2, <2>3, <2>4, <2>5 DEF IInv
<1>14. ASSUME NEW i \in Slots, Move(i)
      PROVE  IInv'
  <2>1. TypeOK'
    BY <1>0, <1>14 DEF Move, Goto, Fail, Pass, IInv, TypeOK
  <2>2. Control'
    BY <1>14 DEF Move, Goto, Fail, Pass, IInv, TypeOK, Control, CallsOf
  <2>3. Staging'
    BY <1>14 DEF Move, Goto, Fail, Pass, IInv, TypeOK, Staging
  <2>4. Going'
    BY <1>0, <1>14, Outcomes DEF Move, Goto, Fail, Pass, IInv, TypeOK, Staging, Going
  <2>5. Temps'
    BY <1>14, Outcomes DEF Move, Goto, Fail, Pass, IInv, TypeOK, Temps
  <2> QED BY <2>1, <2>2, <2>3, <2>4, <2>5 DEF IInv
<1>15. ASSUME NEW i \in Slots, Reload(i)
      PROVE  IInv'
  <2>1. TypeOK'
    BY <1>0, <1>15 DEF Reload, Goto, Fail, Pass, IInv, TypeOK
  <2>2. Control'
    BY <1>15 DEF Reload, Goto, Fail, Pass, IInv, TypeOK, Control
  <2>3. Staging'
    BY <1>15 DEF Reload, Goto, Fail, Pass, IInv, TypeOK, Staging
  <2>4. Going'
    BY <1>15, Outcomes DEF Reload, Goto, Fail, Pass, IInv, TypeOK, Going
  <2>5. Temps'
    BY <1>15 DEF Reload, Goto, Fail, Pass, IInv, TypeOK, Temps
  <2> QED BY <2>1, <2>2, <2>3, <2>4, <2>5 DEF IInv
<1>16. ASSUME NEW i \in Slots, Verify(i)
      PROVE  IInv'
  <2>1. TypeOK'
    BY <1>16 DEF Verify, Goto, Pass, IInv, TypeOK
  <2>2. Control'
    BY <1>16 DEF Verify, Goto, Pass, IInv, TypeOK, Control
  <2>3. Staging'
    BY <1>16 DEF Verify, Goto, Pass, IInv, TypeOK, Staging
  <2>4. Going'
    BY <1>16 DEF Verify, Goto, Pass, IInv, TypeOK, Going
  <2>5. Temps'
    BY <1>16 DEF Verify, Goto, Pass, IInv, TypeOK, Temps
  <2> QED BY <2>1, <2>2, <2>3, <2>4, <2>5 DEF IInv
<1>17. ASSUME NEW s \in Servers, Load(s)
      PROVE  IInv'
  <2>1. TypeOK'
    BY <1>17 DEF Load, IInv, TypeOK
  <2>2. Control'
    BY <1>17 DEF Load, IInv, Control
  <2>3. Staging'
    BY <1>17 DEF Load, IInv, Staging
  <2>4. Going'
    BY <1>17 DEF Load, IInv, TypeOK, Going
  <2>5. Temps'
    BY <1>17 DEF Load, IInv, Temps
  <2> QED BY <2>1, <2>2, <2>3, <2>4, <2>5 DEF IInv
<1>18. CASE UNCHANGED vars
  BY <1>18 DEF vars, IInv, TypeOK, Control, Staging, Going, Temps
<1> QED BY <1>1, <1>2, <1>3, <1>4, <1>5, <1>6, <1>7, <1>8, <1>9, <1>10, <1>11, <1>12, <1>13, <1>14, <1>15, <1>16, <1>17, <1>18 DEF Next, Deploy, Goroutine, Returned

LEMMA Inductive == Spec => []IInv
BY InitIInv, NextIInv, PTL DEF Spec

-----------------------------------------------------------------------------

\* Every variable keeps its type, for any number of slots and servers.
THEOREM TypeCorrect == Spec => []TypeOK
<1>1. IInv => TypeOK
  BY DEF IInv
<1> QED BY <1>1, Inductive, PTL

\* Two phases: no server's zone file changes before every target has validated.
THEOREM TwoPhase == Spec => []ValidatedEverywhereFirst
<1>1. IInv => ValidatedEverywhereFirst
  BY DEF IInv, Control, Staging, ValidatedEverywhereFirst
<1> QED BY <1>1, Inductive, PTL

\* named reads and serves complete zone files only.
THEOREM NeverTorn == Spec => []NoTornZoneFile
<1>1. IInv => NoTornZoneFile
  BY DEF IInv, Going, NoTornZoneFile
<1> QED BY <1>1, Inductive, PTL

\* The flags and the status of a Result are true of the servers; Verified is true of
\* the serial that is served, as pipeline.go compares it.
THEOREM TruthfulReport == Spec => []ReportIsTrue
<1>1. IInv => ReportIsTrue
  <2> SUFFICES ASSUME IInv PROVE ReportIsTrue
    OBVIOUS
  <2>1. status = "success" => AllMoved
    BY DEF IInv, Control, Going, AllMoved
  <2>2. status \in {"failed", "error"} => ~Committed
    BY DEF IInv, Control
  <2> QED BY <2>1, <2>2 DEF IInv, TypeOK, Staging, Going, ReportIsTrue
<1> QED BY <1>1, Inductive, PTL

\* No temporary file is forgotten without a trace.
THEOREM NoForgottenTemp == Spec => []NoSilentLeak
<1>1. IInv => NoSilentLeak
  BY DEF IInv, Temps, NoSilentLeak
<1> QED BY <1>1, Inductive, PTL

\* DESIGN.md, "abort and clean up if any fails": so it does where a removal can fail
\* neither by itself, nor with the link, nor with the request's context.
THEOREM CleanupIsComplete ==
    ASSUME Faults \cap {"rm", "link", "cancel"} = {}
    PROVE  Spec => []AbortCleansUp
<1> DEFINE Quiet == ~ctxDone /\ logged = {}
<1>1. Init => Quiet
  BY DEF Init
<1>2. IInv /\ Quiet /\ [Next]_vars => Quiet'
  <2> SUFFICES ASSUME IInv, Quiet, [Next]_vars PROVE Quiet'
    OBVIOUS
  <2>1. CASE Deploy
    BY <2>1 DEF Deploy, NoTargets, LocalReject, StartStage, StartCommit, StartCleanup, ReturnFailed,
                StartVerify, ReturnDone
  <2>2. ASSUME NEW i \in Slots, Remove(i) PROVE Quiet'
    <3>1. "rm" \notin Faults /\ "link" \notin Faults /\ ~ctxDone
      OBVIOUS
    <3>2. RunOutcomes("rm") = {[did |-> TRUE, ok |-> TRUE]}
      BY <3>1 DEF RunOutcomes
    <3>3. \A o \in RunOutcomes("rm") : o.ok
      BY <3>2
    <3> QED BY <2>2, <3>1, <3>3 DEF Remove
  <2>3. ASSUME NEW i \in Slots, Goroutine(i), ~Remove(i) PROVE Quiet'
    BY <2>3 DEF Goroutine, Dial, Upload, Checkzone, Move, Reload, Verify
  <2>4. ~Cancel
    BY DEF Cancel
  <2>5. ASSUME NEW s \in Servers, Load(s) PROVE Quiet'
    BY <2>5 DEF Load
  <2>6. CASE UNCHANGED vars
    BY <2>6 DEF vars
  <2> QED BY <2>1, <2>2, <2>3, <2>4, <2>5, <2>6 DEF Next, Returned
<1>3. IInv /\ Quiet => AbortCleansUp
  <2> SUFFICES ASSUME IInv, Quiet, status = "failed", NEW i \in Slots PROVE tmp[i] = "absent"
    BY DEF AbortCleansUp
  <2>1. phase = "returned" /\ ~Committed
    BY DEF IInv, Control
  <2> QED BY <2>1 DEF IInv, Temps
<1> QED BY <1>1, <1>2, <1>3, Inductive, PTL DEF Spec

-----------------------------------------------------------------------------
(* Termination, as far as it is a matter of safety: every step uses up a     *)
(* phase or a call, and until the last phase is over there is one to take.   *)

\* A step of a goroutine uses up one of its calls.
LEMMA CallUsed ==
    ASSUME TypeOK, NEW i \in Slots, NEW call \in Calls, at' = [at EXCEPT ![i] = call], phase' = phase,
           \/ at[i] \in {"dial", "upload", "checkzone", "rm", "mv", "reload", "query"} /\ call = "none"
           \/ at[i] = "dial" /\ call = "upload"
           \/ at[i] = "upload" /\ call = "checkzone"
           \/ at[i] = "mv" /\ call = "reload"
    PROVE  /\ PhasesLeft' = PhasesLeft
           /\ \A k \in Slots : CallsLeft(k)' <= CallsLeft(k)
           /\ \E k \in Slots : CallsLeft(k)' < CallsLeft(k)
<1>1. PhasesLeft' = PhasesLeft
  BY DEF PhasesLeft
<1>2. at'[i] = call /\ \A k \in Slots \ {i} : at'[k] = at[k]
  BY DEF TypeOK
<1>3. \A k \in Slots \ {i} : CallsLeft(k)' = CallsLeft(k) /\ CallsLeft(k) \in Nat
  BY <1>2 DEF CallsLeft
<1>4. CallsLeft(i)' < CallsLeft(i) /\ CallsLeft(i)' <= CallsLeft(i)
  BY <1>2 DEF CallsLeft
<1> QED BY <1>1, <1>3, <1>4

LEMMA StepUsesUp ==
    ASSUME IInv, [Next]_vars, ~UNCHANGED deployVars
    PROVE  \/ PhasesLeft' < PhasesLeft
           \/ /\ PhasesLeft' = PhasesLeft
              /\ \A k \in Slots : CallsLeft(k)' <= CallsLeft(k)
              /\ \E k \in Slots : CallsLeft(k)' < CallsLeft(k)
<1>0. TypeOK
  BY DEF IInv
<1>1. CASE Deploy
  <2>1. PhasesLeft' < PhasesLeft
    BY <1>1 DEF Deploy, NoTargets, LocalReject, StartStage, StartCommit, StartCleanup, ReturnFailed,
                StartVerify, ReturnDone, PhasesLeft
  <2> QED BY <2>1
<1>2. ASSUME NEW i \in Slots, Dial(i) PROVE \E call \in {"none", "upload"} : Goto(i, call)
  BY <1>2 DEF Dial, Fail
<1>3. ASSUME NEW i \in Slots, Upload(i) PROVE \E call \in {"none", "checkzone"} : Goto(i, call)
  BY <1>3 DEF Upload, Pass, Fail
<1>4. ASSUME NEW i \in Slots, Move(i) PROVE \E call \in {"none", "reload"} : Goto(i, call)
  BY <1>4 DEF Move, Pass, Fail
<1>5. ASSUME NEW i \in Slots, Checkzone(i) \/ Remove(i) \/ Reload(i) \/ Verify(i) PROVE Goto(i, "none")
  BY <1>5 DEF Checkzone, Remove, Reload, Verify, Pass, Fail
<1>6. ASSUME NEW i \in Slots, Goroutine(i) PROVE phase' = phase
  BY <1>6 DEF Goroutine, Dial, Upload, Checkzone, Remove, Move, Reload, Verify
<1>7. ASSUME NEW i \in Slots, Goroutine(i)
      PROVE  /\ PhasesLeft' = PhasesLeft
             /\ \A k \in Slots : CallsLeft(k)' <= CallsLeft(k)
             /\ \E k \in Slots : CallsLeft(k)' < CallsLeft(k)
  <2>1. PICK call \in Calls :
           /\ Goto(i, call)
           /\ \/ at[i] \in {"dial", "upload", "checkzone", "rm", "mv", "reload", "query"} /\ call = "none"
              \/ at[i] = "dial" /\ call = "upload"
              \/ at[i] = "upload" /\ call = "checkzone"
              \/ at[i] = "mv" /\ call = "reload"
    <3>1. CASE Dial(i)
      BY <3>1, <1>2 DEF Dial
    <3>2. CASE Upload(i)
      BY <3>2, <1>3 DEF Upload
    <3>3. CASE Move(i)
      BY <3>3, <1>4 DEF Move
    <3>4. CASE Checkzone(i) \/ Remove(i) \/ Reload(i) \/ Verify(i)
      BY <3>4, <1>5 DEF Checkzone, Remove, Reload, Verify
    <3> QED BY <1>7, <3>1, <3>2, <3>3, <3>4 DEF Goroutine
  <2> QED BY <1>0, <1>6, <1>7, <2>1, CallUsed DEF Goto
<1>8. ~Cancel /\ ~(\E s \in Servers : Load(s)) /\ ~UNCHANGED vars
  BY DEF Cancel, Load, deployVars, vars
<1> QED BY <1>1, <1>7, <1>8 DEF Next, Returned

\* pipeline.go, Deploy: no failure, cancellation or late answer sends Deploy or a
\* goroutine back to what it has done; the steps of a deploy are bounded.
THEOREM DeployIsBounded == Spec => NoStepTwice
<1>1. IInv /\ [Next]_vars =>
        [~UNCHANGED deployVars =>
            \/ PhasesLeft' < PhasesLeft
            \/ /\ PhasesLeft' = PhasesLeft
               /\ \A i \in Slots : CallsLeft(i)' <= CallsLeft(i)
               /\ \E i \in Slots : CallsLeft(i)' < CallsLeft(i)]_vars
  BY StepUsesUp
<1> QED BY <1>1, Inductive, PTL DEF Spec, NoStepTwice

\* The goroutine of slot i is at a call of this phase, and it is its turn: only the
\* removals of a cleanup wait for one another.
ItsTurn(i) ==
    /\ at[i] \in CallsOf(phase)
    /\ phase = "cleanup" => \A j \in targets : at[j] = "rm" => i <= j

LEMMA FirstOf == ASSUME NEW S \in SUBSET Nat, S # {} PROVE \E i \in S : \A j \in S : i <= j
<1>1. PICK i \in S : \A j \in S : ~(<<j, i>> \in OpToRel(<, Nat))
  BY NatLessThanWellFounded, WFMin
<1>2. ASSUME NEW j \in S PROVE i <= j
  <2>1. <<j, i>> \in Nat \X Nat
    OBVIOUS
  <2>2. ~(j < i)
    BY <1>1, <2>1 DEF OpToRel
  <2> QED BY <2>2
<1> QED BY <1>2

\* pipeline.go, Deploy: wg.Wait never waits for a goroutine that has nothing left to do.
\* Until Deploy returns, it goes on itself or a goroutine has a call to make.
THEOREM NobodyWaitsInVain ==
    Spec => [](phase # "returned" => phase = "local" \/ AllEnded \/ \E i \in targets : ItsTurn(i))
<1>1. IInv => (phase # "returned" => phase = "local" \/ AllEnded \/ \E i \in targets : ItsTurn(i))
  <2> SUFFICES ASSUME IInv, phase \notin {"returned", "local"}, ~AllEnded
               PROVE  \E i \in targets : ItsTurn(i)
    OBVIOUS
  <2>1. PICK i \in targets : at[i] # "none"
    BY DEF AllEnded
  <2>2. targets \subseteq Nat /\ targets \subseteq Slots
    BY SlotsAssumption DEF IInv, TypeOK
  <2>3. \A k \in targets : at[k] # "none" => at[k] \in CallsOf(phase)
    BY <2>2 DEF IInv, Control
  <2>4. CASE phase # "cleanup"
    BY <2>1, <2>3, <2>4 DEF ItsTurn
  <2>5. CASE phase = "cleanup"
    <3> DEFINE waiting == {k \in targets : at[k] = "rm"}
    <3>1. at[i] = "rm"
      BY <2>1, <2>3, <2>5 DEF CallsOf
    <3>2. waiting \in SUBSET Nat /\ waiting # {}
      BY <2>2, <3>1
    <3>3. PICK k \in waiting : \A j \in waiting : k <= j
      BY <3>2, FirstOf
    <3> QED BY <2>3, <3>3 DEF ItsTurn
  <2> QED BY <2>4, <2>5
<1> QED BY <1>1, Inductive, PTL

-----------------------------------------------------------------------------
(* Deploy implements Rollout: each step that moves, reports or decides maps  *)
(* to the Rollout action of that kind, all others to a stutter.              *)

LEMMA InitRollout == Init => Promise!Init
BY DEF Init, Promise!Init, Verdict

LEMMA StepRollout == IInv /\ IInv' /\ [Next]_vars => [Promise!RNext]_(Promise!rvars)
<1> SUFFICES ASSUME IInv, IInv', [Next]_vars PROVE [Promise!RNext]_(Promise!rvars)
  OBVIOUS
<1>0. SrvOf \in [Slots -> Servers]
  BY ServersAssumption
<1>1. CASE NoTargets
  <2>1. Promise!Reject
    BY <1>1 DEF NoTargets, Promise!Reject, Verdict, IInv, Control
  <2> QED BY <2>1 DEF Promise!RNext
<1>2. CASE LocalReject
  <2>1. Promise!Reject
    BY <1>2 DEF LocalReject, Promise!Reject, Verdict, IInv, TypeOK, Control
  <2> QED BY <2>1 DEF Promise!RNext
<1>3. CASE StartStage
  <2>1. UNCHANGED Promise!rvars
    BY <1>3 DEF StartStage, Promise!rvars, Verdict
  <2> QED BY <2>1 DEF Promise!RNext
<1>4. CASE StartCommit
  <2>1. Promise!Commit
    BY <1>4 DEF StartCommit, Promise!Commit, Verdict, IInv, Control
  <2> QED BY <2>1 DEF Promise!RNext
<1>5. CASE StartCleanup
  <2>1. Promise!Abort
    BY <1>5 DEF StartCleanup, Promise!Abort, Verdict, IInv, Control
  <2> QED BY <2>1 DEF Promise!RNext
<1>6. CASE ReturnFailed
  <2>1. Promise!Finish
    BY <1>6 DEF ReturnFailed, Promise!Finish, Verdict, IInv, Control
  <2> QED BY <2>1 DEF Promise!RNext
<1>7. CASE StartVerify
  <2>1. UNCHANGED Promise!rvars
    BY <1>7 DEF StartVerify, Promise!rvars, Verdict
  <2> QED BY <2>1 DEF Promise!RNext
<1>8. CASE ReturnDone
  <2>1. Promise!Finish
    BY <1>0, <1>8 DEF ReturnDone, Promise!Finish, Verdict, IInv, TypeOK, Control, Going
  <2> QED BY <2>1 DEF Promise!RNext
<1>9. CASE Cancel
  <2>1. UNCHANGED Promise!rvars
    BY <1>9 DEF Cancel, Promise!rvars, Verdict
  <2> QED BY <2>1 DEF Promise!RNext
<1>10. ASSUME NEW i \in Slots, Dial(i)
      PROVE  [Promise!RNext]_(Promise!rvars)
  <2>1. UNCHANGED Promise!rvars
    BY <1>10 DEF Dial, Fail, Promise!rvars, Verdict
  <2> QED BY <2>1 DEF Promise!RNext
<1>11. ASSUME NEW i \in Slots, Upload(i)
      PROVE  [Promise!RNext]_(Promise!rvars)
  <2>1. UNCHANGED Promise!rvars
    BY <1>11 DEF Upload, Pass, Fail, Promise!rvars, Verdict, IInv, TypeOK
  <2> QED BY <2>1 DEF Promise!RNext
<1>12. ASSUME NEW i \in Slots, Checkzone(i)
      PROVE  [Promise!RNext]_(Promise!rvars)
  <2>1. Promise!Validate(i) \/ UNCHANGED Promise!rvars
    BY <1>12 DEF Checkzone, Pass, Fail, Promise!Validate, Promise!rvars, Verdict, IInv, TypeOK, Control
  <2> QED BY <2>1 DEF Promise!RNext
<1>13. ASSUME NEW i \in Slots, Remove(i)
      PROVE  [Promise!RNext]_(Promise!rvars)
  <2>1. UNCHANGED Promise!rvars
    BY <1>13 DEF Remove, Promise!rvars, Verdict
  <2> QED BY <2>1 DEF Promise!RNext
<1>14. ASSUME NEW i \in Slots, Move(i)
      PROVE  [Promise!RNext]_(Promise!rvars)
  <2>1. Promise!GoLive(i) \/ UNCHANGED Promise!rvars
    BY <1>0, <1>14 DEF Move, Pass, Fail, Promise!GoLive, Promise!rvars, Verdict, IInv, TypeOK, Control, Going
  <2> QED BY <2>1 DEF Promise!RNext
<1>15. ASSUME NEW i \in Slots, Reload(i)
      PROVE  [Promise!RNext]_(Promise!rvars)
  <2>1. Promise!Ask(i) \/ UNCHANGED Promise!rvars
    BY <1>15 DEF Reload, Pass, Fail, Promise!Ask, Promise!rvars, Verdict, IInv, TypeOK, Control, Going
  <2> QED BY <2>1 DEF Promise!RNext
<1>16. ASSUME NEW i \in Slots, Verify(i)
      PROVE  [Promise!RNext]_(Promise!rvars)
  <2>1. UNCHANGED Promise!rvars
    BY <1>16 DEF Verify, Pass, Promise!rvars, Verdict, IInv, TypeOK
  <2> QED BY <2>1 DEF Promise!RNext
<1>17. ASSUME NEW s \in Servers, Load(s)
      PROVE  [Promise!RNext]_(Promise!rvars)
  <2>1. Promise!Serve(s)
    BY <1>17 DEF Load, Promise!Serve, Verdict, IInv, TypeOK, Going
  <2> QED BY <2>1 DEF Promise!RNext
<1>18. CASE UNCHANGED vars
  BY <1>18 DEF vars, Promise!rvars, Verdict
<1> QED BY <1>1, <1>2, <1>3, <1>4, <1>5, <1>6, <1>7, <1>8, <1>9, <1>10, <1>11, <1>12, <1>13, <1>14, <1>15, <1>16, <1>17, <1>18 DEF Next, Deploy, Goroutine, Returned

\* Deploy keeps the promise of Rollout, whatever fails.
THEOREM DeployKeepsPromise == Spec => ImplementsRollout
<1>1. Init => Promise!Init
  BY InitRollout
<1>2. IInv /\ IInv' /\ [Next]_vars => [Promise!RNext]_(Promise!rvars)
  BY StepRollout
<1> QED BY <1>1, <1>2, Inductive, PTL DEF Spec, ImplementsRollout, Promise!RSpec

=============================================================================

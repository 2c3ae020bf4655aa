-------------------------- MODULE DeployFlow_proofs --------------------------
(***************************************************************************)
(* For any servers, policies, failures and overlap of deploys: the text of *)
(* a snapshot has replaced the zone file of every server of its deploy.    *)
(***************************************************************************)
EXTENDS DeployFlow, SequenceTheorems, TLAPS

\* What a deploy has done by the step it is at.
Progress(d) ==
    /\ deploy[d].pc = "records" => deploy[d].text.soa \in Settings
    /\ deploy[d].pc \in {"stage", "commit", "setserial", "insert"} => deploy[d].text \in Texts
    /\ deploy[d].pc \in {"commit", "setserial", "insert"} => deploy[d].targets # {}
    /\ deploy[d].pc \in {"setserial", "insert"} => deploy[d].targets = deploy[d].moved
    /\ deploy[d].pc \in {"idle", "build", "records", "stage"} => deploy[d].moved = {}
    /\ \A s \in deploy[d].moved : <<s, deploy[d].text>> \in deploy[d].placed

IInv ==
    /\ TypeOK
    /\ \A d \in Deploys : Progress(d)
    /\ SnapshotWasDeployed

\* nextSerial stays in the serial space.
LEMMA NextSerialType ==
    ASSUME NEW policy, NEW current \in Serials, NEW instant, Stamp(policy, instant) \in Serials
    PROVE  NextSerial(policy, current, instant) \in Serials
BY HalfAssumption DEF NextSerial, Succ, Serials, MaxSerial, SerialMod

LEMMA ZeroIsSerial == 0 \in Serials
BY HalfAssumption DEF Serials, MaxSerial, SerialMod

LEMMA IdleState == Idle \in DeployStates
BY ZeroIsSerial DEF Idle, NoText, DeployStates

LEMMA InitIInv == Init => IInv
<1> SUFFICES ASSUME Init PROVE IInv
  OBVIOUS
<1>1. TypeOK
  <2>1. zone \in [soa : Settings, recs : Contents, serial : Serials, targets : SUBSET Servers]
    BY ModesAssumption DEF Init
  <2>2. clock \in DOMAIN mode.times /\ bumpedAt \in 0 .. Len(mode.times)
    BY ModesAssumption DEF Init
  <2>3. snapshots \in Seq(SnapshotRows)
    BY DEF Init
  <2>4. deploy \in [Deploys -> DeployStates]
    BY IdleState DEF Init
  <2> QED BY <2>1, <2>2, <2>3, <2>4, BoundAssumption DEF Init, TypeOK
<1>2. ASSUME NEW d \in Deploys PROVE Progress(d)
  BY DEF Init, Progress, Idle
<1>3. SnapshotWasDeployed
  BY DEF Init, SnapshotWasDeployed
<1> QED BY <1>1, <1>2, <1>3 DEF IInv

-----------------------------------------------------------------------------
(* Two facts about the sequence of snapshots.                              *)

LEMMA SnapshotRow ==
    ASSUME snapshots \in Seq(SnapshotRows), NEW k \in DOMAIN snapshots
    PROVE  snapshots[k] \in SnapshotRows
BY ElementOfSeq, LenProperties

\* What Prune keeps: a suffix of what there was.
LEMMA PruneSuffix ==
    ASSUME snapshots \in Seq(SnapshotRows), Len(snapshots) > Keep
    PROVE  LET rest == SubSeq(snapshots, Len(snapshots) - Keep + 1, Len(snapshots))
           IN  /\ rest \in Seq(SnapshotRows)
               /\ \A k \in DOMAIN rest : \E j \in DOMAIN snapshots : rest[k] = snapshots[j]
<1> DEFINE n == Len(snapshots)
           m == n - Keep + 1
           rest == SubSeq(snapshots, m, n)
<1>1. n \in Nat /\ DOMAIN snapshots = 1 .. n
  BY LenProperties
<1>2. m \in Int /\ m .. n \subseteq DOMAIN snapshots /\ m <= n /\ n - m + 1 = Keep
  BY <1>1, KeepAssumption
<1>3. \A i \in m .. n : snapshots[i] \in SnapshotRows
  BY <1>2, SnapshotRow
<1>4. /\ rest \in Seq(SnapshotRows) /\ Len(rest) = Keep
      /\ \A i \in 1 .. Keep : rest[i] = snapshots[m + i - 1]
  <2>1. n \in Int /\ n - m + 1 = Keep
    BY <1>1, <1>2
  <2>2. Len(rest) = n - m + 1
    BY <1>2, <1>3, <2>1, SubSeqProperties
  <2>3. rest \in Seq(SnapshotRows) /\ \A i \in 1 .. n - m + 1 : rest[i] = snapshots[m + i - 1]
    BY <1>2, <1>3, <2>1, SubSeqProperties
  <2> QED BY <2>1, <2>2, <2>3
<1>5. DOMAIN rest = 1 .. Keep
  BY <1>4, LenProperties
<1>6. ASSUME NEW k \in DOMAIN rest PROVE \E j \in DOMAIN snapshots : rest[k] = snapshots[j]
  <2>1. m + k - 1 \in DOMAIN snapshots
    BY <1>1, <1>2, <1>5, <1>6, KeepAssumption
  <2> QED BY <1>4, <1>5, <1>6, <2>1
<1> QED BY <1>4, <1>6

-----------------------------------------------------------------------------
USE DEF storeVars, serverVars

LEMMA NextIInv == IInv /\ [Next]_vars => IInv'
<1> SUFFICES ASSUME IInv, [Next]_vars PROVE IInv'
  OBVIOUS
<1>0. ASSUME NEW d \in Deploys PROVE deploy[d] \in DeployStates /\ deploy \in [Deploys -> DeployStates]
  BY DEF IInv, TypeOK
<1>1. ASSUME NEW soa \in Settings, EditSettings(soa) PROVE IInv'
  <2>1. TypeOK'
    BY <1>1 DEF IInv, TypeOK, EditSettings
  <2>2. ASSUME NEW e \in Deploys PROVE Progress(e)'
    BY <1>1 DEF IInv, Progress, EditSettings
  <2>3. SnapshotWasDeployed'
    BY <1>1 DEF IInv, SnapshotWasDeployed, EditSettings
  <2> QED BY <2>1, <2>2, <2>3 DEF IInv
<1>2. ASSUME NEW recs \in Contents, EditRecords(recs) PROVE IInv'
  <2>1. TypeOK'
    BY <1>2 DEF IInv, TypeOK, EditRecords
  <2>2. ASSUME NEW e \in Deploys PROVE Progress(e)'
    BY <1>2 DEF IInv, Progress, EditRecords
  <2>3. SnapshotWasDeployed'
    BY <1>2 DEF IInv, SnapshotWasDeployed, EditRecords
  <2> QED BY <2>1, <2>2, <2>3 DEF IInv
<1>3. ASSUME NEW targets \in TargetSets, EditTargets(targets) PROVE IInv'
  <2>1. TypeOK'
    BY <1>3, TargetsAssumption DEF IInv, TypeOK, EditTargets
  <2>2. ASSUME NEW e \in Deploys PROVE Progress(e)'
    BY <1>3 DEF IInv, Progress, EditTargets
  <2>3. SnapshotWasDeployed'
    BY <1>3 DEF IInv, SnapshotWasDeployed, EditTargets
  <2> QED BY <2>1, <2>2, <2>3 DEF IInv
<1>4. ASSUME NEW k \in DOMAIN snapshots, Rollback(k) PROVE IInv'
  <2>1. TypeOK'
    BY <1>4, SnapshotRow DEF IInv, TypeOK, Rollback, SnapshotRows, Texts
  <2>2. ASSUME NEW e \in Deploys PROVE Progress(e)'
    BY <1>4 DEF IInv, Progress, Rollback
  <2>3. SnapshotWasDeployed'
    BY <1>4 DEF IInv, SnapshotWasDeployed, Rollback
  <2> QED BY <2>1, <2>2, <2>3 DEF IInv
<1>5. CASE Tick
  <2>1. TypeOK'
    BY <1>5 DEF IInv, TypeOK, Tick
  <2>2. ASSUME NEW e \in Deploys PROVE Progress(e)'
    BY <1>5 DEF IInv, Progress, Tick
  <2>3. SnapshotWasDeployed'
    BY <1>5 DEF IInv, SnapshotWasDeployed, Tick
  <2> QED BY <2>1, <2>2, <2>3 DEF IInv
<1>6. ASSUME NEW d \in Deploys, GetZone(d) PROVE IInv'
  <2> DEFINE new == [Idle EXCEPT !.pc = "build", !.targets = zone.targets]
  <2>a. new \in DeployStates
    <3>1. zone.targets \subseteq Servers
      BY DEF IInv, TypeOK
    <3> QED BY <3>1, ZeroIsSerial DEF DeployStates, Idle, NoText
  <2>1. TypeOK'
    BY <1>6, <2>a, BoundAssumption DEF IInv, TypeOK, GetZone
  <2>2. ASSUME NEW e \in Deploys PROVE Progress(e)'
    BY <1>6 DEF IInv, Progress, GetZone, Idle
  <2>3. SnapshotWasDeployed'
    BY <1>6 DEF IInv, SnapshotWasDeployed, GetZone
  <2> QED BY <2>1, <2>2, <2>3 DEF IInv
<1>7. ASSUME NEW d \in Deploys, BuildZone(d) PROVE IInv'
  <2> DEFINE new == [deploy[d] EXCEPT !.pc = "records",
                                      !.text = [NoText EXCEPT !.soa = zone.soa, !.serial = zone.serial]]
  <2>a. new \in DeployStates
    <3>1. zone.soa \in Settings /\ zone.serial \in Serials /\ deploy[d] \in DeployStates
      BY DEF IInv, TypeOK
    <3> QED BY <3>1 DEF DeployStates, NoText
  <2>b. deploy' = [deploy EXCEPT ![d] = new]
    BY <1>7, <1>0 DEF BuildZone, DeployStates
  <2>1. TypeOK'
    BY <1>7, <2>a DEF IInv, TypeOK, BuildZone
  <2>2. ASSUME NEW e \in Deploys PROVE Progress(e)'
    BY <1>7 DEF IInv, TypeOK, Progress, BuildZone
  <2>3. SnapshotWasDeployed'
    BY <1>7 DEF IInv, SnapshotWasDeployed, BuildZone
  <2> QED BY <2>1, <2>2, <2>3 DEF IInv
<1>8. ASSUME NEW d \in Deploys, BuildRecords(d) PROVE IInv'
  <2> DEFINE new == [deploy[d] EXCEPT !.pc = "stage", !.text.recs = zone.recs,
                                      !.text.serial = NextSerial(mode.policy, @, mode.times[clock])]
  <2>a. new \in DeployStates
    <3>1. deploy[d].text.serial \in Serials /\ Stamp(mode.policy, mode.times[clock]) \in Serials
      BY ModesAssumption DEF IInv, TypeOK, DeployStates
    <3>2. NextSerial(mode.policy, deploy[d].text.serial, mode.times[clock]) \in Serials
      BY <3>1, NextSerialType
    <3>3. zone.recs \in Contents /\ deploy[d] \in DeployStates
      BY DEF IInv, TypeOK
    <3> QED BY <3>2, <3>3 DEF DeployStates
  <2>b. deploy' = [deploy EXCEPT ![d] = new]
    BY <1>8, <1>0 DEF BuildRecords, DeployStates
  <2>1. TypeOK'
    BY <1>8, <2>a DEF IInv, TypeOK, BuildRecords
  <2>2. ASSUME NEW e \in Deploys PROVE Progress(e)'
    <3>1. CASE e = d
      <4>1. deploy'[e] = new /\ new.pc = "stage" /\ new.moved = deploy[d].moved
        BY <2>b, <3>1 DEF IInv, TypeOK, DeployStates
      <4>5. deploy[d].moved = {}
        BY <1>8 DEF IInv, Progress, BuildRecords
      <4>2. new.text.soa \in Settings
        <5>1. deploy[d] \in DeployStates /\ deploy[d].text.soa \in Settings
          BY <1>8 DEF IInv, TypeOK, Progress, BuildRecords
        <5> QED BY <5>1 DEF DeployStates
      <4>3. new.text.recs \in Contents
        <5>1. deploy[d] \in DeployStates /\ zone.recs \in Contents
          BY DEF IInv, TypeOK
        <5> QED BY <5>1 DEF DeployStates
      <4>4. new.text \in Texts
        BY <2>a, <4>2, <4>3 DEF DeployStates, Texts
      <4> QED BY <4>1, <4>4, <4>5 DEF Progress
    <3>2. CASE e # d
      BY <2>b, <3>2 DEF IInv, TypeOK, Progress
    <3> QED BY <3>1, <3>2
  <2>3. SnapshotWasDeployed'
    BY <1>8 DEF IInv, SnapshotWasDeployed, BuildRecords
  <2> QED BY <2>1, <2>2, <2>3 DEF IInv
<1>9. ASSUME NEW d \in Deploys, Abort(d) PROVE IInv'
  <2>1. TypeOK'
    BY <1>9, IdleState DEF IInv, TypeOK, Abort
  <2>2. ASSUME NEW e \in Deploys PROVE Progress(e)'
    BY <1>9 DEF IInv, Progress, Abort, Idle
  <2>3. SnapshotWasDeployed'
    BY <1>9 DEF IInv, SnapshotWasDeployed, Abort
  <2> QED BY <2>1, <2>2, <2>3 DEF IInv
<1>10. ASSUME NEW d \in Deploys, Commit(d) PROVE IInv'
  <2> DEFINE new == [deploy[d] EXCEPT !.pc = "commit", !.toMove = deploy[d].targets]
  <2>a. new \in DeployStates
    BY <1>0 DEF DeployStates
  <2>b. deploy' = [deploy EXCEPT ![d] = new]
    BY <1>10, <1>0 DEF Commit, DeployStates
  <2>1. TypeOK'
    BY <1>10, <2>a DEF IInv, TypeOK, Commit
  <2>2. ASSUME NEW e \in Deploys PROVE Progress(e)'
    BY <1>10 DEF IInv, TypeOK, Progress, Commit
  <2>3. SnapshotWasDeployed'
    BY <1>10 DEF IInv, SnapshotWasDeployed, Commit
  <2> QED BY <2>1, <2>2, <2>3 DEF IInv
<1>11. ASSUME NEW d \in Deploys, Report(d) PROVE IInv'
  <2>1. TypeOK'
    <3> DEFINE new == [deploy[d] EXCEPT !.pc = "setserial"]
    <3>1. new \in DeployStates
      BY <1>0 DEF DeployStates
    <3>2. \/ deploy' = [deploy EXCEPT ![d] = new]
          \/ deploy' = [deploy EXCEPT ![d] = Idle]
      BY <1>11 DEF Report
    <3>3. deploy' \in [Deploys -> DeployStates]
      BY <1>0, <3>1, <3>2, IdleState
    <3> QED BY <1>11, <3>3 DEF IInv, TypeOK, Report
  <2>2. ASSUME NEW e \in Deploys PROVE Progress(e)'
    BY <1>11 DEF IInv, Progress, Report, Idle, Rolled
  <2>3. SnapshotWasDeployed'
    BY <1>11 DEF IInv, SnapshotWasDeployed, Report
  <2> QED BY <2>1, <2>2, <2>3 DEF IInv
<1>12. ASSUME NEW d \in Deploys, SetSerial(d) PROVE IInv'
  <2> DEFINE new == [deploy[d] EXCEPT !.pc = "insert"]
  <2>a. new \in DeployStates
    BY <1>0 DEF DeployStates
  <2>b. deploy' = [deploy EXCEPT ![d] = new]
    BY <1>12 DEF SetSerial
  <2>1. TypeOK'
    <3>1. deploy[d].text.serial \in Serials
      BY DEF IInv, TypeOK, DeployStates
    <3> QED BY <1>12, <2>a, <2>b, <3>1 DEF IInv, TypeOK, SetSerial
  <2>2. ASSUME NEW e \in Deploys PROVE Progress(e)'
    BY <1>12 DEF IInv, Progress, SetSerial
  <2>3. SnapshotWasDeployed'
    BY <1>12 DEF IInv, SnapshotWasDeployed, SetSerial
  <2> QED BY <2>1, <2>2, <2>3 DEF IInv
<1>13. ASSUME NEW d \in Deploys, InsertSnapshot(d) PROVE IInv'
  <2> DEFINE new == [deploy[d] EXCEPT !.pc = "prune"]
  <2>a. new \in DeployStates
    BY <1>0 DEF DeployStates
  <2>b. deploy' = [deploy EXCEPT ![d] = new]
    BY <1>13 DEF InsertSnapshot
  <2>1. TypeOK'
    <3> DEFINE row == [text |-> deploy[d].text, targets |-> deploy[d].targets,
                       placed |-> deploy[d].placed]
    <3>1. row \in SnapshotRows
      BY <1>13 DEF IInv, TypeOK, Progress, InsertSnapshot, DeployStates, SnapshotRows
    <3>2. Append(snapshots, row) \in Seq(SnapshotRows)
      BY <3>1 DEF IInv, TypeOK
    <3> QED BY <1>13, <2>a, <2>b, <3>2 DEF IInv, TypeOK, InsertSnapshot
  <2>2. ASSUME NEW e \in Deploys PROVE Progress(e)'
    BY <1>13 DEF IInv, Progress, InsertSnapshot
  <2>3. SnapshotWasDeployed'
    BY <1>13 DEF IInv, SnapshotWasDeployed, InsertSnapshot, Progress
  <2> QED BY <2>1, <2>2, <2>3 DEF IInv
<1>14. ASSUME NEW d \in Deploys, Prune(d) PROVE IInv'
  <2>1. TypeOK'
    <3>1. snapshots' \in Seq(SnapshotRows)
      BY <1>14, PruneSuffix DEF IInv, TypeOK, Prune
    <3>2. deploy' \in [Deploys -> DeployStates]
      BY <1>14, IdleState DEF IInv, TypeOK, Prune
    <3> QED BY <1>14, <3>1, <3>2 DEF IInv, TypeOK, Prune
  <2>2. ASSUME NEW e \in Deploys PROVE Progress(e)'
    BY <1>14 DEF IInv, Progress, Prune, Idle
  <2>3. SnapshotWasDeployed'
    <3>1. snapshots \in Seq(SnapshotRows) /\ SnapshotWasDeployed
      BY DEF IInv, TypeOK
    <3>2. \A k \in DOMAIN snapshots' : \E j \in DOMAIN snapshots : snapshots'[k] = snapshots[j]
      BY <1>14, <3>1, PruneSuffix DEF Prune
    <3> QED BY <3>1, <3>2 DEF SnapshotWasDeployed
  <2> QED BY <2>1, <2>2, <2>3 DEF IInv
<1>15. ASSUME NEW d \in Deploys, NEW s \in Servers, Move(d, s) PROVE IInv'
  <2>1. TypeOK'
    <3>1. deploy[d].text \in Texts
      BY <1>15 DEF IInv, Progress, Move
    <3>2. file' \in [Servers -> Texts \cup {NoText}] /\ strayed' \subseteq Servers
      BY <1>15, <3>1 DEF IInv, TypeOK, Move, Place
    <3>3. deploy' \in [Deploys -> DeployStates]
      <4>1. /\ deploy[d] \in DeployStates /\ deploy \in [Deploys -> DeployStates] /\ s \in Servers
            /\ <<s, deploy[d].text>> \in Servers \X Texts
        BY <1>15, <3>1 DEF IInv, TypeOK
      <4> DEFINE moved == [deploy[d] EXCEPT !.toMove = @ \ {s}, !.toReload = @ \cup {s},
                                            !.moved = @ \cup {s}, !.placed = @ \cup {<<s, deploy[d].text>>}]
                 lost == [deploy[d] EXCEPT !.toMove = @ \ {s}, !.placed = @ \cup {<<s, deploy[d].text>>}]
                 failed == [deploy[d] EXCEPT !.toMove = @ \ {s}]
      <4>2. moved \in DeployStates /\ lost \in DeployStates /\ failed \in DeployStates
        <5>1. moved \in DeployStates
          BY <4>1 DEF DeployStates
        <5>2. lost \in DeployStates
          BY <4>1 DEF DeployStates
        <5>3. failed \in DeployStates
          BY <4>1 DEF DeployStates
        <5> QED BY <5>1, <5>2, <5>3
      <4>3. \/ deploy' = [deploy EXCEPT ![d] = moved]
            \/ deploy' = [deploy EXCEPT ![d] = lost]
            \/ deploy' = [deploy EXCEPT ![d] = failed]
        BY <1>15, <4>1 DEF Move, DeployStates
      <4> QED BY <4>1, <4>2, <4>3
    <3> QED BY <1>15, <3>2, <3>3 DEF IInv, TypeOK, Move
  <2>2. ASSUME NEW e \in Deploys PROVE Progress(e)'
    <3>1. CASE e = d
      BY <1>15, <3>1 DEF IInv, TypeOK, Progress, Move, DeployStates
    <3>2. CASE e # d
      BY <1>15, <3>2 DEF IInv, TypeOK, Progress, Move
    <3> QED BY <3>1, <3>2
  <2>3. SnapshotWasDeployed'
    BY <1>15 DEF IInv, SnapshotWasDeployed, Move
  <2> QED BY <2>1, <2>2, <2>3 DEF IInv
<1>16. ASSUME NEW d \in Deploys, NEW s \in Servers, Reload(d, s) PROVE IInv'
  <2> DEFINE new == [deploy[d] EXCEPT !.toReload = @ \ {s}]
  <2>a. new \in DeployStates
    BY <1>0 DEF DeployStates
  <2>b. deploy' = [deploy EXCEPT ![d] = new]
    BY <1>16 DEF Reload
  <2>1. TypeOK'
    BY <1>16, <2>a DEF IInv, TypeOK, Reload
  <2>2. ASSUME NEW e \in Deploys PROVE Progress(e)'
    BY <1>16 DEF IInv, Progress, Reload
  <2>3. SnapshotWasDeployed'
    BY <1>16 DEF IInv, SnapshotWasDeployed, Reload
  <2> QED BY <2>1, <2>2, <2>3 DEF IInv
<1>17. CASE Crash
  <2>1. TypeOK'
    BY <1>17, IdleState DEF IInv, TypeOK, Crash
  <2>2. ASSUME NEW e \in Deploys PROVE Progress(e)'
    BY <1>17 DEF Progress, Crash, Idle
  <2>3. SnapshotWasDeployed'
    BY <1>17 DEF IInv, SnapshotWasDeployed, Crash
  <2> QED BY <2>1, <2>2, <2>3 DEF IInv
<1>18. CASE UNCHANGED vars
  BY <1>18 DEF vars, IInv, TypeOK, Progress, SnapshotWasDeployed
<1> QED BY <1>1, <1>2, <1>3, <1>4, <1>5, <1>6, <1>7, <1>8, <1>9,
       <1>10, <1>11, <1>12, <1>13, <1>14, <1>15, <1>16, <1>17, <1>18 DEF Next

LEMMA Inductive == Spec => []IInv
BY InitIInv, NextIInv, PTL DEF Spec

\* Every variable keeps its type, for any modes that the assumptions allow.
THEOREM TypeCorrect == Spec => []TypeOK
<1>1. IInv => TypeOK
  BY DEF IInv
<1> QED BY <1>1, Inductive, PTL

\* However deploys, edits, rollbacks and restarts interleave, the text of a snapshot,
\* with its serial, is one that its own deploy wrote over the zone file of every
\* server it was for, and there are some.
THEOREM SnapshotsAreDeployed == Spec => []SnapshotWasDeployed
<1>1. IInv => SnapshotWasDeployed
  BY DEF IInv
<1> QED BY <1>1, Inductive, PTL

=============================================================================

------------------------ MODULE DeployHistory_proofs ------------------------
(***************************************************************************)
(* What the snapshots of a zone say: how many they are, for any overlap of *)
(* deploys; and, as long as deploys run one at a time, that the latest is  *)
(* in place, that its serial is the stored one, and that every reload      *)
(* brings a newer one.                                                     *)
(***************************************************************************)
EXTENDS DeployFlow_proofs, FiniteSetTheorems

USE DEF storeVars, serverVars

Pruning == {d \in Deploys : deploy[d].pc = "prune"}

\* Only one deploy is between two steps.
Alone == \A d, e \in InFlight : d = e

\* The servers to which a deploy has really written its text.
Wrote(d) == {s \in Servers : <<s, deploy[d].text>> \in deploy[d].placed}

\* What a deploy has placed is still there, and it has placed nothing early.
InPlace(d) ==
    /\ deploy[d].pc \in {"idle", "build", "records", "stage"} => deploy[d].placed = {}
    /\ \A s \in Wrote(d) : file[s] = deploy[d].text

LatestInPlace ==
    snapshots # <<>> => \A s \in Latest.targets \ strayed : file[s] = Latest.text

\* Between SetSerial and InsertSnapshot the row is ahead of the snapshots.
SerialStored ==
    /\ \A d \in Deploys : deploy[d].pc = "insert" => zone.serial = deploy[d].text.serial
    /\ (\A d \in Deploys : deploy[d].pc # "insert") /\ snapshots # <<>>
          => zone.serial = Latest.text.serial

Steady == mode.events \cap {"rollback", "crash"} = {}

CountInv ==
    /\ IInv
    /\ IsFiniteSet(InFlight)
    /\ HistoryBounded

AloneInv ==
    /\ IInv
    /\ ~mode.overlap =>
          /\ Alone
          /\ \A d \in Deploys : InPlace(d)
          /\ LatestInPlace
          /\ Steady => SerialStored

-----------------------------------------------------------------------------
(* Steps and where they leave a deploy.                                    *)

\* A deploy's own step, of which the other deploys see nothing.
Own(d) ==
    \/ GetZone(d) \/ BuildZone(d) \/ BuildRecords(d) \/ Abort(d) \/ Commit(d) \/ Report(d)
    \/ SetSerial(d) \/ InsertSnapshot(d) \/ Prune(d)
    \/ \E s \in Servers : Move(d, s) \/ Reload(d, s)

LEMMA OthersUndisturbed ==
    ASSUME TypeOK, NEW d \in Deploys, Own(d)
    PROVE  /\ \A e \in Deploys \ {d} : deploy'[e] = deploy[e]
           /\ InFlight' \subseteq InFlight \cup {d}
           /\ mode' = mode
<1>1. /\ deploy \in [Deploys -> DeployStates]
      /\ \A e \in Deploys \ {d} : deploy'[e] = deploy[e]
  BY DEF TypeOK, Own, GetZone, BuildZone, BuildRecords, Abort, Commit, Report, SetSerial,
         InsertSnapshot, Prune, Move, Reload
<1>2. mode' = mode
  BY DEF Own, GetZone, BuildZone, BuildRecords, Abort, Commit, Report, SetSerial,
         InsertSnapshot, Prune, Move, Reload
<1> QED BY <1>1, <1>2 DEF InFlight

LEMMA FromOrToIdle ==
    ASSUME TypeOK, NEW d \in Deploys, GetZone(d) \/ Abort(d) \/ Report(d)
    PROVE  /\ UNCHANGED <<zone, snapshots, file, strayed>>
           /\ {deploy[d].pc, deploy'[d].pc} \subseteq {"idle", "build", "stage", "commit", "setserial"}
           /\ \/ deploy'[d].placed = {}
              \/ /\ deploy'[d].placed = deploy[d].placed /\ deploy'[d].text = deploy[d].text
                 /\ deploy'[d].pc = "setserial"
<1>0. deploy \in [Deploys -> DeployStates]
  BY DEF TypeOK
<1>1. CASE GetZone(d)
  BY <1>0, <1>1 DEF GetZone, Idle
<1>2. CASE Abort(d)
  BY <1>0, <1>2 DEF Abort, Idle
<1>3. CASE Report(d)
  <2>1. CASE deploy[d].moved = deploy[d].targets
    BY <1>0, <1>3, <2>1 DEF Report, Rolled, DeployStates
  <2>2. CASE deploy[d].moved # deploy[d].targets
    BY <1>0, <1>3, <2>2 DEF Report, Rolled, Idle
  <2> QED BY <2>1, <2>2
<1> QED BY <1>1, <1>2, <1>3

\* A step of the operators or of the clock.
Outside ==
    \/ \E soa \in Settings : EditSettings(soa)
    \/ \E recs \in Contents : EditRecords(recs)
    \/ \E targets \in TargetSets : EditTargets(targets)
    \/ \E k \in DOMAIN snapshots : Rollback(k)
    \/ Tick
    \/ UNCHANGED vars

LEMMA OutsideLeaves ==
    ASSUME TypeOK, Outside
    PROVE  /\ UNCHANGED <<mode, snapshots, deploy, file, strayed>>
           /\ Steady => zone'.serial = zone.serial
<1>1. UNCHANGED <<mode, snapshots, deploy, file, strayed>>
  BY DEF Outside, EditSettings, EditRecords, EditTargets, Rollback, Tick, vars
<1>2. ASSUME Steady PROVE zone'.serial = zone.serial
  BY <1>2 DEF Steady, TypeOK, Outside, EditSettings, EditRecords, EditTargets, Rollback, Tick, vars
<1> QED BY <1>1, <1>2

LEMMA Steps == ASSUME [Next]_vars PROVE Outside \/ Crash \/ \E d \in Deploys : Own(d)
BY DEF Next, Outside, Own

\* Prune keeps the latest snapshot, and at most Keep of them.
LEMMA PruneKeepsLatest ==
    ASSUME snapshots \in Seq(SnapshotRows), NEW d \in Deploys, Prune(d)
    PROVE  /\ Len(snapshots)' <= Keep /\ Len(snapshots)' \in Nat
           /\ snapshots' # <<>> => snapshots # <<>> /\ Latest' = Latest
<1> DEFINE n == Len(snapshots)
           m == n - Keep + 1
           rest == SubSeq(snapshots, m, n)
<1>1. n \in Nat /\ DOMAIN snapshots = 1 .. n
  BY LenProperties
<1>2. CASE n <= Keep
  BY <1>1, <1>2, KeepAssumption DEF Prune, Latest
<1>3. CASE n > Keep
  <2>1. m \in Int /\ m .. n \subseteq DOMAIN snapshots /\ m <= n /\ n - m + 1 = Keep
    BY <1>1, <1>3, KeepAssumption
  <2>2. \A i \in m .. n : snapshots[i] \in SnapshotRows
    BY <2>1, SnapshotRow
  <2>3. Len(rest) = n - m + 1 /\ \A i \in 1 .. n - m + 1 : rest[i] = snapshots[m + i - 1]
    BY <1>1, <2>1, <2>2, SubSeqProperties
  <2>4. rest[Keep] = snapshots[n] /\ Len(rest) = Keep
    BY <1>1, <2>1, <2>3, KeepAssumption
  <2>5. snapshots' = rest /\ snapshots # <<>>
    BY <1>1, <1>3, KeepAssumption DEF Prune
  <2> QED BY <2>4, <2>5, KeepAssumption DEF Latest
<1> QED BY <1>1, <1>2, <1>3, KeepAssumption

\* What the row that InsertSnapshot adds becomes.
LEMMA InsertBecomesLatest ==
    ASSUME snapshots \in Seq(SnapshotRows), NEW d \in Deploys, InsertSnapshot(d)
    PROVE  /\ Len(snapshots)' = Len(snapshots) + 1
           /\ Latest'.text = deploy[d].text /\ Latest'.targets = deploy[d].targets
BY DEF InsertSnapshot, Latest

-----------------------------------------------------------------------------
(* The number of snapshots.                                                *)

LEMMA InitCountInv == Init => CountInv
<1> SUFFICES ASSUME Init PROVE CountInv
  OBVIOUS
<1>1. InFlight = {} /\ Pruning = {} /\ Len(snapshots) = 0
  BY DEF Init, InFlight, Pruning, Idle
<1>2. HistoryBounded
  <2>1. Cardinality(Pruning) = 0
    BY <1>1, FS_EmptySet
  <2> QED BY <1>1, <2>1, KeepAssumption DEF HistoryBounded, Pruning
<1> QED BY <1>1, <1>2, FS_EmptySet, InitIInv DEF CountInv

LEMMA NextCountInv == CountInv /\ [Next]_vars => CountInv'
<1> SUFFICES ASSUME CountInv, [Next]_vars PROVE CountInv'
  OBVIOUS
<1>0. IInv' /\ TypeOK /\ snapshots \in Seq(SnapshotRows) /\ Len(snapshots) \in Nat
  BY NextIInv, LenProperties DEF CountInv, IInv, TypeOK
<1>1. CASE Outside
  <2>1. UNCHANGED <<mode, snapshots, deploy>>
    BY <1>0, <1>1, OutsideLeaves
  <2> QED BY <1>0, <2>1 DEF CountInv, HistoryBounded, InFlight
<1>2. CASE Crash
  <2>1. InFlight' = {} /\ "crash" \in mode'.events
    BY <1>2 DEF Crash, InFlight, Idle
  <2> QED BY <1>0, <2>1, FS_EmptySet DEF CountInv, HistoryBounded
<1>3. ASSUME NEW d \in Deploys, Own(d) PROVE CountInv'
  <2>1. /\ \A e \in Deploys \ {d} : deploy'[e] = deploy[e]
        /\ InFlight' \subseteq InFlight \cup {d} /\ mode' = mode
    BY <1>0, <1>3, OthersUndisturbed
  <2>2. IsFiniteSet(InFlight')
    BY <2>1, FS_AddElement, FS_Subset DEF CountInv
  <2>3. /\ IsFiniteSet(Pruning) /\ Cardinality(Pruning) \in Nat
        /\ IsFiniteSet(Pruning') /\ Cardinality(Pruning') \in Nat
    <3>1. Pruning \subseteq InFlight /\ Pruning' \subseteq InFlight'
      BY DEF Pruning, InFlight
    <3> QED BY <2>2, <3>1, FS_Subset, FS_CardinalityType DEF CountInv
  <2>4. "crash" \notin mode.events => Len(snapshots) <= Keep + Cardinality(Pruning)
    BY DEF CountInv, HistoryBounded, Pruning
  <2>5. "crash" \notin mode.events => Len(snapshots)' <= Keep + Cardinality(Pruning')
    <3>1. CASE InsertSnapshot(d)
      <4>1. Pruning' = Pruning \cup {d} /\ d \notin Pruning
        BY <1>0, <2>1, <3>1 DEF Pruning, InsertSnapshot, TypeOK
      <4>2. Cardinality(Pruning') = Cardinality(Pruning) + 1
        BY <2>3, <4>1, FS_AddElement
      <4>3. Len(snapshots)' = Len(snapshots) + 1
        BY <1>0, <3>1, InsertBecomesLatest
      <4> QED BY <1>0, <2>3, <2>4, <4>2, <4>3, KeepAssumption
    <3>2. CASE Prune(d)
      <4>1. Len(snapshots)' <= Keep /\ Len(snapshots)' \in Nat
        BY <1>0, <3>2, PruneKeepsLatest
      <4> QED BY <2>3, <4>1, KeepAssumption
    <3>3. CASE ~InsertSnapshot(d) /\ ~Prune(d)
      <4>1. snapshots' = snapshots
        BY <1>3, <3>3 DEF Own, GetZone, BuildZone, BuildRecords, Abort, Commit, Report, SetSerial,
                          Move, Reload
      <4>2. deploy[d].pc # "prune" /\ deploy'[d].pc # "prune"
        <5>1. deploy \in [Deploys -> DeployStates]
          BY <1>0 DEF TypeOK
        <5>2. CASE GetZone(d) \/ Abort(d) \/ Report(d)
          BY <1>0, <5>2, FromOrToIdle
        <5>3. CASE BuildZone(d) \/ Commit(d) \/ SetSerial(d)
          BY <5>1, <5>3 DEF BuildZone, Commit, SetSerial, DeployStates
        <5>4. CASE BuildRecords(d)
          BY <5>1, <5>4 DEF BuildRecords, DeployStates
        <5>5. ASSUME NEW s \in Servers, Move(d, s) PROVE deploy[d].pc # "prune" /\ deploy'[d].pc # "prune"
          BY <5>1, <5>5 DEF Move, DeployStates
        <5>6. ASSUME NEW s \in Servers, Reload(d, s) PROVE deploy[d].pc # "prune" /\ deploy'[d].pc # "prune"
          BY <5>1, <5>6 DEF Reload, DeployStates
        <5> QED BY <1>3, <3>3, <5>2, <5>3, <5>4, <5>5, <5>6 DEF Own
      <4>3. Pruning' = Pruning
        BY <2>1, <4>2 DEF Pruning
      <4> QED BY <2>4, <4>1, <4>3
    <3> QED BY <3>1, <3>2, <3>3
  <2>6. HistoryBounded'
    BY <2>1, <2>5 DEF HistoryBounded, Pruning
  <2> QED BY <1>0, <2>2, <2>6 DEF CountInv
<1> QED BY <1>1, <1>2, <1>3, Steps

\* store.go, Publish: deploys may overlap as they like, and snapshots exceed
\* Keep by no more than the prunes still to come, unless the daemon stops before one.
THEOREM HistoryStaysBounded == Spec => []HistoryBounded
<1>1. CountInv => HistoryBounded
  BY DEF CountInv
<1> QED BY <1>1, InitCountInv, NextCountInv, PTL DEF Spec

-----------------------------------------------------------------------------
(* One deploy at a time.                                                   *)

LEMMA InitAloneInv == Init => AloneInv
BY InitIInv DEF Init, AloneInv, Alone, InFlight, InPlace, LatestInPlace, SerialStored, Idle, Wrote

LEMMA NextAloneInv == AloneInv /\ [Next]_vars => AloneInv'
<1> SUFFICES ASSUME AloneInv, [Next]_vars PROVE AloneInv'
  OBVIOUS
<1>0. /\ IInv /\ IInv' /\ TypeOK /\ TypeOK'
      /\ snapshots \in Seq(SnapshotRows) /\ deploy \in [Deploys -> DeployStates]
  BY NextIInv DEF AloneInv, IInv, TypeOK
<1>1. CASE Outside
  <2>1. UNCHANGED <<mode, snapshots, deploy, file, strayed>> /\ (Steady => zone'.serial = zone.serial)
    BY <1>0, <1>1, OutsideLeaves
  <2>2. Alone' = Alone /\ LatestInPlace' = LatestInPlace /\ Steady' = Steady
    BY <2>1 DEF Alone, InFlight, LatestInPlace, Latest, Steady
  <2>3. \A e \in Deploys : InPlace(e)' = InPlace(e)
    BY <2>1 DEF InPlace, Wrote
  <2>4. Steady /\ SerialStored => SerialStored'
    BY <2>1 DEF SerialStored, Latest
  <2> QED BY <1>0, <2>1, <2>2, <2>3, <2>4 DEF AloneInv
<1>2. CASE Crash
  <2>1. InFlight' = {} /\ ~Steady' /\ UNCHANGED <<mode, snapshots, file, strayed>>
    BY <1>2 DEF Crash, InFlight, Idle, Steady
  <2>2. Alone' /\ LatestInPlace' = LatestInPlace
    BY <2>1 DEF Alone, LatestInPlace, Latest
  <2>3. \A e \in Deploys : InPlace(e)'
    BY <1>2 DEF Crash, InPlace, Idle, Wrote
  <2> QED BY <1>0, <2>1, <2>2, <2>3 DEF AloneInv
<1>3. ASSUME NEW d \in Deploys, Own(d), ~mode.overlap
      PROVE  Alone' /\ (\A e \in Deploys : InPlace(e)') /\ LatestInPlace' /\ (Steady => SerialStored')
  <2>1. /\ \A e \in Deploys \ {d} : deploy'[e] = deploy[e]
        /\ InFlight' \subseteq InFlight \cup {d} /\ mode' = mode
    BY <1>0, <1>3, OthersUndisturbed
  <2>2. /\ Alone /\ LatestInPlace /\ (Steady => SerialStored)
        /\ \A e \in Deploys : InPlace(e)
    BY <1>3 DEF AloneInv
  \* Nobody else is between two steps.
  <2>3. InFlight \subseteq {d}
    <3>1. CASE deploy[d].pc # "idle"
      BY <2>2, <3>1 DEF Alone, InFlight
    <3>2. CASE deploy[d].pc = "idle"
      <4>1. GetZone(d)
        BY <1>3, <3>2 DEF Own, BuildZone, BuildRecords, Abort, Commit, Report, SetSerial,
                          InsertSnapshot, Prune, Move, Reload, Rolled
      <4> QED BY <1>3, <4>1 DEF GetZone
    <3> QED BY <3>1, <3>2
  <2>4. \A e \in Deploys \ {d} : deploy[e].pc = "idle" /\ deploy'[e].pc = "idle" /\ deploy'[e].placed = {}
    BY <2>1, <2>2, <2>3 DEF InFlight, InPlace
  <2>5. Alone'
    BY <2>1, <2>3 DEF Alone
  <2>6. \A e \in Deploys \ {d} : InPlace(e)'
    BY <2>4 DEF InPlace, Wrote
  \* It is enough to look at d itself.
  <2>7. SUFFICES InPlace(d)' /\ LatestInPlace' /\ (Steady => SerialStored')
    BY <2>5, <2>6
  <2>8. CASE GetZone(d) \/ Abort(d) \/ Report(d)
    <3>1. /\ UNCHANGED <<zone, snapshots, file, strayed>>
          /\ deploy[d].pc # "insert" /\ deploy'[d].pc # "insert"
          /\ \/ deploy'[d].placed = {}
             \/ /\ deploy'[d].placed = deploy[d].placed /\ deploy'[d].text = deploy[d].text
                /\ deploy'[d].pc = "setserial"
      BY <1>0, <2>8, FromOrToIdle
    <3> QED BY <2>2, <2>4, <3>1 DEF LatestInPlace, SerialStored, Latest, InPlace, Wrote
  <2>9. CASE BuildZone(d) \/ BuildRecords(d)
    <3>1. UNCHANGED <<zone, snapshots, file, strayed>>
      BY <2>9 DEF BuildZone, BuildRecords
    <3>2. deploy[d].placed = {} /\ deploy'[d].placed = {}
      BY <1>0, <2>2, <2>9 DEF InPlace, BuildZone, BuildRecords, DeployStates
    <3>3. deploy[d].pc # "insert" /\ deploy'[d].pc # "insert"
      BY <1>0, <2>9 DEF BuildZone, BuildRecords, DeployStates
    <3> QED BY <2>2, <2>4, <3>1, <3>2, <3>3 DEF LatestInPlace, SerialStored, Latest, InPlace, Wrote
  <2>10. CASE Commit(d)
    <3>1. UNCHANGED <<zone, snapshots, file, strayed>>
      BY <2>10 DEF Commit
    <3>2. /\ deploy'[d].placed = deploy[d].placed /\ deploy'[d].placed = {}
          /\ deploy[d].pc # "insert" /\ deploy'[d].pc # "insert"
      BY <1>0, <2>2, <2>10 DEF InPlace, Commit, DeployStates
    <3> QED BY <2>2, <2>4, <3>1, <3>2 DEF LatestInPlace, SerialStored, Latest, InPlace, Wrote
  <2>11. ASSUME NEW s \in Servers, Move(d, s)
         PROVE  InPlace(d)' /\ LatestInPlace' /\ (Steady => SerialStored')
    <3>1. /\ UNCHANGED <<zone, snapshots>>
          /\ \/ file' = [file EXCEPT ![s] = deploy[d].text] /\ strayed' = strayed \cup {s}
             \/ UNCHANGED <<file, strayed>> /\ deploy'[d].placed = deploy[d].placed
      BY <1>0, <2>11 DEF Move, Place, DeployStates
    <3>2. /\ deploy'[d].placed \subseteq deploy[d].placed \cup {<<s, deploy[d].text>>}
          /\ deploy'[d].text = deploy[d].text
          /\ deploy[d].pc = "commit" /\ deploy'[d].pc = "commit"
      BY <1>0, <2>11 DEF Move, DeployStates
    <3>3. /\ DOMAIN file = Servers
          /\ snapshots # <<>> => Latest.targets \subseteq Servers
      <4>1. DOMAIN file = Servers
        BY <1>0 DEF TypeOK
      <4>2. snapshots # <<>> => Len(snapshots) \in DOMAIN snapshots
        BY <1>0, LenProperties, EmptySeq
      <4> QED BY <1>0, <4>1, <4>2, SnapshotRow DEF Latest, SnapshotRows
    <3>4. InPlace(d)'
      BY <2>2, <2>11, <3>1, <3>2, <3>3 DEF InPlace, Wrote
    <3>5. LatestInPlace'
      BY <2>2, <3>1, <3>3 DEF LatestInPlace, Latest
    <3> QED BY <2>2, <2>4, <3>1, <3>2, <3>4, <3>5 DEF SerialStored, Latest
  <2>12. ASSUME NEW s \in Servers, Reload(d, s)
         PROVE  InPlace(d)' /\ LatestInPlace' /\ (Steady => SerialStored')
    <3>1. UNCHANGED <<zone, snapshots, file, strayed>>
      BY <2>12 DEF Reload
    <3>2. /\ deploy'[d].placed = deploy[d].placed /\ deploy'[d].text = deploy[d].text
          /\ deploy[d].pc = "commit" /\ deploy'[d].pc = "commit"
      BY <1>0, <2>12 DEF Reload, DeployStates
    <3> QED BY <2>2, <2>4, <3>1, <3>2 DEF LatestInPlace, SerialStored, Latest, InPlace, Wrote
  <2>13. CASE SetSerial(d)
    <3>1. UNCHANGED <<snapshots, file, strayed>> /\ zone'.serial = deploy[d].text.serial
      BY <1>0, <2>13 DEF SetSerial, TypeOK
    <3>2. /\ deploy'[d].placed = deploy[d].placed /\ deploy'[d].text = deploy[d].text
          /\ deploy'[d].pc = "insert"
      BY <1>0, <2>13 DEF SetSerial, DeployStates
    <3> QED BY <2>2, <2>4, <3>1, <3>2 DEF LatestInPlace, SerialStored, Latest, InPlace, Wrote
  <2>14. CASE InsertSnapshot(d)
    <3>1. /\ UNCHANGED <<zone, file>> /\ strayed' = strayed \ deploy[d].targets
          /\ deploy[d].pc = "insert"
      BY <2>14 DEF InsertSnapshot
    <3>2. Latest'.text = deploy[d].text /\ Latest'.targets = deploy[d].targets
      BY <1>0, <2>14, InsertBecomesLatest
    <3>3. /\ deploy'[d].placed = deploy[d].placed /\ deploy'[d].text = deploy[d].text
          /\ deploy'[d].pc = "prune"
      BY <1>0, <2>14 DEF InsertSnapshot, DeployStates
    <3>4. deploy[d].targets \subseteq Wrote(d)
      BY <1>0, <3>1 DEF IInv, Progress, TypeOK, DeployStates, Wrote
    <3>5. LatestInPlace'
      BY <2>2, <3>1, <3>2, <3>4 DEF LatestInPlace, InPlace
    <3>6. Steady => SerialStored'
      BY <2>2, <2>4, <3>1, <3>2, <3>3 DEF SerialStored
    <3> QED BY <2>2, <3>1, <3>3, <3>5, <3>6 DEF InPlace, Wrote
  <2>15. CASE Prune(d)
    <3>1. UNCHANGED <<zone, file, strayed>> /\ deploy[d].pc = "prune" /\ deploy'[d] = Idle
      BY <1>0, <2>15 DEF Prune
    <3>2. snapshots' # <<>> => snapshots # <<>> /\ Latest' = Latest
      BY <1>0, <2>15, PruneKeepsLatest
    <3>3. LatestInPlace'
      BY <2>2, <3>1, <3>2 DEF LatestInPlace
    <3>4. Steady => SerialStored'
      BY <2>2, <2>4, <3>1, <3>2 DEF SerialStored, Idle
    <3> QED BY <3>1, <3>3, <3>4 DEF InPlace, Idle, Wrote
  <2> QED BY <1>3, <2>8, <2>9, <2>10, <2>11, <2>12, <2>13, <2>14, <2>15 DEF Own
<1>4. ASSUME NEW d \in Deploys, Own(d) PROVE AloneInv'
  <2>1. mode' = mode
    BY <1>0, <1>4, OthersUndisturbed
  <2> QED BY <1>0, <1>3, <1>4, <2>1 DEF AloneInv, Steady
<1> QED BY <1>1, <1>2, <1>4, Steps

LEMMA AloneInvariant == Spec => []AloneInv
BY InitAloneInv, NextAloneInv, PTL DEF Spec

\* store.go, Dirty: when deploys run one at a time, a zone that shows as published
\* is in place on the servers of its latest snapshot that no unpublished deploy changed,
\* whatever fails, is rolled back or restarted.
THEOREM CleanZoneIsLive == Spec => [](~mode.overlap => CleanMeansLive)
<1>1. AloneInv => (~mode.overlap => CleanMeansLive)
  BY DEF AloneInv, LatestInPlace, CleanMeansLive, Clean
<1> QED BY <1>1, AloneInvariant, PTL

\* zones.go, handleDeploy and Publish: when deploys run one at a time and neither a
\* rollback nor a restart comes in, the next deploy is bumped from the published serial.
THEOREM PublishedSerialIsStored == Spec => [](~mode.overlap => StoredSerialIsPublished)
<1>1. AloneInv => (~mode.overlap => StoredSerialIsPublished)
  BY DEF AloneInv, Steady, SerialStored, StoredSerialIsPublished, InFlight
<1> QED BY <1>1, AloneInvariant, PTL

-----------------------------------------------------------------------------
(* Reloads.                                                                *)

NewerThan(d, s) == served[s] # NoText => SeqGT(deploy[d].text.serial, served[s].serial)

\* Whatever a deploy is still to load is newer than what is served there.
Ahead(d) ==
    /\ deploy[d].pc = "stage" => \A s \in Servers : NewerThan(d, s)
    /\ deploy[d].pc = "commit" => \A s \in deploy[d].toMove \cup deploy[d].toReload : NewerThan(d, s)
    /\ deploy[d].toReload \subseteq Wrote(d) \ deploy[d].toMove

Wanted(t) == Stamp(mode.policy, mode.times[t])

LEMMA WantedType ==
    ASSUME TypeOK, NEW t \in DOMAIN mode.times
    PROVE  Wanted(t) \in Serials
BY ModesAssumption DEF TypeOK, Wanted

LEMMA OthersIdle ==
    ASSUME AloneInv, ~mode.overlap, NEW d \in Deploys, Own(d)
    PROVE  /\ \A e \in Deploys \ {d} : deploy[e].pc = "idle" /\ deploy'[e] = deploy[e]
           /\ GetZone(d) => InFlight = {}
           /\ ~GetZone(d) => InFlight = {d}
<1>0. TypeOK /\ Alone
  BY DEF AloneInv, IInv
<1>1. GetZone(d) => InFlight = {}
  BY DEF GetZone
<1>2. ~GetZone(d) => deploy[d].pc # "idle"
  BY DEF Own, BuildZone, BuildRecords, Abort, Commit, Report, SetSerial,
         InsertSnapshot, Prune, Move, Reload, Rolled
<1>3. ~GetZone(d) => InFlight = {d}
  BY <1>0, <1>2 DEF Alone, InFlight
<1>4. \A e \in Deploys \ {d} : deploy'[e] = deploy[e]
  BY <1>0, OthersUndisturbed
<1> QED BY <1>1, <1>3, <1>4 DEF InFlight

\* A text stays newer until it is loaded.
LEMMA AheadStays ==
    ASSUME AloneInv, ~mode.overlap, NEW d \in Deploys, Own(d), Ahead(d), ~BuildRecords(d)
    PROVE  Ahead(d)'
<1>0. deploy \in [Deploys -> DeployStates] /\ InPlace(d) /\ TypeOK
  BY DEF AloneInv, IInv, TypeOK
<1>1. ASSUME deploy'[d].pc \notin {"stage", "commit"},
             \/ deploy'[d].toReload = {}
             \/ /\ deploy'[d].toReload = deploy[d].toReload /\ deploy'[d].placed = deploy[d].placed
                /\ deploy'[d].toMove = deploy[d].toMove
                /\ deploy[d].toReload # {} => deploy'[d].text = deploy[d].text
      PROVE  Ahead(d)'
  BY <1>1 DEF Ahead, Idle, Wrote
<1>2. CASE GetZone(d) \/ Abort(d) \/ Prune(d)
  <2>1. deploy'[d].pc \in {"build", "idle"} /\ deploy'[d].toReload = {}
    <3>1. CASE GetZone(d)
      BY <1>0, <3>1 DEF GetZone, Idle
    <3>2. CASE Abort(d) \/ Prune(d)
      BY <1>0, <3>2 DEF Abort, Prune, Idle
    <3> QED BY <1>2, <3>1, <3>2
  <2> QED BY <1>1, <2>1
<1>6. CASE BuildZone(d) \/ SetSerial(d) \/ InsertSnapshot(d)
  BY <1>0, <1>1, <1>6 DEF BuildZone, SetSerial, InsertSnapshot, DeployStates
<1>7. CASE Report(d)
  <2>1. CASE deploy[d].moved = deploy[d].targets
    BY <1>0, <1>1, <1>7, <2>1 DEF Report, DeployStates
  <2>2. CASE deploy[d].moved # deploy[d].targets
    BY <1>0, <1>1, <1>7, <2>2 DEF Report, Idle
  <2> QED BY <2>1, <2>2
<1>3. CASE Commit(d)
  <2>1. /\ deploy[d].pc = "stage" /\ served' = served /\ deploy[d].targets \subseteq Servers
        /\ deploy'[d].text = deploy[d].text /\ deploy'[d].pc = "commit"
        /\ deploy'[d].toMove = deploy[d].targets /\ deploy'[d].toReload = deploy[d].toReload
    BY <1>0, <1>3 DEF Commit, DeployStates
  <2>2. deploy[d].toReload = {}
    BY <1>0, <2>1 DEF Ahead, InPlace, Wrote
  <2> QED BY <2>1, <2>2 DEF Ahead, NewerThan
<1>4. ASSUME NEW s \in Servers, Move(d, s) PROVE Ahead(d)'
  <2>1. /\ deploy[d].pc = "commit" /\ served' = served
        /\ deploy'[d].text = deploy[d].text /\ deploy'[d].pc = "commit"
        /\ deploy'[d].toMove = deploy[d].toMove \ {s} /\ s \in deploy[d].toMove
        /\ \/ deploy'[d].toReload = deploy[d].toReload /\ deploy[d].placed \subseteq deploy'[d].placed
           \/ /\ deploy'[d].toReload = deploy[d].toReload \cup {s}
              /\ deploy'[d].placed = deploy[d].placed \cup {<<s, deploy[d].text>>}
    BY <1>0, <1>4 DEF Move, DeployStates
  <2> QED BY <2>1 DEF Ahead, NewerThan, Wrote
<1>5. ASSUME NEW s \in Servers, Reload(d, s) PROVE Ahead(d)'
  <2>1. /\ deploy[d].pc = "commit" /\ s \in deploy[d].toReload /\ \A r \in Servers \ {s} : served'[r] = served[r]
        /\ deploy'[d].text = deploy[d].text /\ deploy'[d].pc = "commit"
        /\ deploy'[d].toMove = deploy[d].toMove /\ deploy'[d].toReload = deploy[d].toReload \ {s}
        /\ deploy'[d].placed = deploy[d].placed
        /\ deploy[d].toMove \cup deploy[d].toReload \subseteq Servers
    BY <1>0, <1>5 DEF Reload, DeployStates, TypeOK
  <2> QED BY <2>1 DEF Ahead, NewerThan, Wrote
<1> QED BY <1>2, <1>3, <1>4, <1>5, <1>6, <1>7 DEF Own

-----------------------------------------------------------------------------
(* Serials that are stamps.                                                *)

Rising ==
    /\ mode.spaced
    /\ \A t \in DOMAIN mode.times : Wanted(t) < Half /\ \A x \in mode.initSerials : x < Wanted(t)
    /\ \A t, u \in DOMAIN mode.times : t < u => Wanted(t) < Wanted(u)

\* Below every stamp that a later deploy can take.
Old(v) == \A t \in DOMAIN mode.times : t > bumpedAt => v < Wanted(t)

AllOld ==
    /\ Old(zone.serial)
    /\ \A k \in DOMAIN snapshots : Old(snapshots[k].text.serial)
    /\ \A s \in Servers : served[s] # NoText => Old(served[s].serial)
    /\ \A s \in Servers : file[s] # NoText => Old(file[s].serial)
    /\ \A d \in Deploys :
          deploy[d].pc \in {"records", "stage", "commit", "setserial", "insert"} => Old(deploy[d].text.serial)

\* BumpSerial takes the stamp, which is above everything there is.
LEMMA StampTaken ==
    ASSUME TypeOK, Rising, AllOld, NEW d \in Deploys, BuildRecords(d)
    PROVE  /\ deploy'[d].text.serial = Wanted(clock) /\ deploy'[d].pc = "stage"
           /\ bumpedAt' = clock /\ clock \in DOMAIN mode.times /\ clock > bumpedAt
           /\ \A v \in Serials : Old(v) => Old(v)'
           /\ Old(deploy[d].text.serial)'
<1>0. /\ deploy \in [Deploys -> DeployStates] /\ clock \in DOMAIN mode.times
      /\ DOMAIN mode.times \subseteq Nat /\ bumpedAt \in Nat
      /\ deploy[d].text.serial \in Serials
  BY ModesAssumption DEF TypeOK, DeployStates
<1>1. deploy[d].pc = "records" /\ clock > bumpedAt /\ bumpedAt' = clock /\ UNCHANGED <<mode, clock>>
  BY DEF BuildRecords, Rising
<1>2. deploy'[d].pc = "stage"
      /\ deploy'[d].text.serial = NextSerial(mode.policy, deploy[d].text.serial, mode.times[clock])
  BY <1>0 DEF BuildRecords, DeployStates
<1>3. deploy[d].text.serial < Wanted(clock) /\ Wanted(clock) \in Serials
  BY <1>0, <1>1, WantedType DEF AllOld, Old
<1>4. deploy'[d].text.serial = Wanted(clock)
  BY <1>0, <1>2, <1>3, HalfAssumption DEF NextSerial, Wanted, Serials, MaxSerial, SerialMod
<1>5. ASSUME NEW v \in Serials, Old(v) PROVE Old(v)'
  BY <1>0, <1>1, <1>5 DEF Old, Wanted
<1>6. Old(deploy[d].text.serial)'
  BY <1>0, <1>1, <1>4 DEF Old, Wanted, Rising
<1> QED BY <1>0, <1>1, <1>2, <1>4, <1>5, <1>6

LEMMA StampIsAhead ==
    ASSUME TypeOK, Rising, AllOld, NEW d \in Deploys, BuildRecords(d), NEW s \in Servers
    PROVE  NewerThan(d, s)'
<1>1. /\ deploy'[d].text.serial = Wanted(clock) /\ clock \in DOMAIN mode.times /\ clock > bumpedAt
      /\ served' = served
  BY StampTaken DEF BuildRecords
<1>2. Wanted(clock) \in Serials /\ Wanted(clock) < Half
  BY <1>1, WantedType DEF Rising
<1>3. ASSUME served[s] # NoText PROVE SeqGT(Wanted(clock), served[s].serial)
  <2>1. served[s].serial < Wanted(clock) /\ served[s].serial \in Serials
    BY <1>1, <1>3 DEF AllOld, Old, TypeOK, Texts
  <2> QED BY <1>2, <2>1, HalfAssumption DEF SeqGT, Serials, MaxSerial, SerialMod
<1> QED BY <1>1, <1>3 DEF NewerThan

LEMMA NextAllOld ==
    ASSUME IInv, IInv', Rising, AllOld, [Next]_vars
    PROVE  AllOld'
<1>0. /\ TypeOK /\ deploy \in [Deploys -> DeployStates] /\ snapshots \in Seq(SnapshotRows)
      /\ \A v : (bumpedAt' = bumpedAt /\ mode' = mode) => (Old(v)' = Old(v))
  BY DEF IInv, TypeOK, Old, Wanted
<1>1. CASE Outside
  <2>1. UNCHANGED <<mode, bumpedAt, snapshots, deploy, file, served>>
    BY <1>1 DEF Outside, EditSettings, EditRecords, EditTargets, Rollback, Tick, vars
  <2>2. zone'.serial = zone.serial \/ \E k \in DOMAIN snapshots : zone'.serial = snapshots[k].text.serial
    BY <1>0, <1>1 DEF TypeOK, Outside, EditSettings, EditRecords, EditTargets, Rollback, Tick, vars
  <2>3. Old(zone'.serial)
    BY <2>2 DEF AllOld
  <2> QED BY <1>0, <2>1, <2>3 DEF AllOld
<1>2. CASE Crash
  <2>1. UNCHANGED <<mode, bumpedAt, zone, snapshots, file, served>> /\ \A d \in Deploys : deploy'[d].pc = "idle"
    BY <1>2 DEF Crash, Idle
  <2> QED BY <1>0, <2>1 DEF AllOld
<1>3. ASSUME NEW d \in Deploys, BuildRecords(d) PROVE AllOld'
  <2>1. /\ Old(deploy[d].text.serial)'
        /\ \A v \in Serials : Old(v) => Old(v)'
    BY <1>0, <1>3, StampTaken
  <2>2. UNCHANGED <<zone, snapshots, file, served>> /\ \A e \in Deploys \ {d} : deploy'[e] = deploy[e]
    BY <1>0, <1>3 DEF BuildRecords
  <2>3. zone.serial \in Serials /\ \A k \in DOMAIN snapshots : snapshots[k].text.serial \in Serials
    BY <1>0, SnapshotRow DEF TypeOK, SnapshotRows, Texts
  <2>4. \A s \in Servers : /\ served[s] # NoText => served[s].serial \in Serials
                           /\ file[s] # NoText => file[s].serial \in Serials
    BY <1>0 DEF TypeOK, Texts
  <2>5. \A e \in Deploys : deploy[e].text.serial \in Serials
    BY <1>0 DEF DeployStates
  <2> QED BY <2>1, <2>2, <2>3, <2>4, <2>5 DEF AllOld
<1>4. ASSUME NEW d \in Deploys, Own(d), ~BuildRecords(d) PROVE AllOld'
  <2>0. /\ \A e \in Deploys \ {d} : deploy'[e] = deploy[e]
        /\ mode' = mode /\ bumpedAt' = bumpedAt
    <3>1. bumpedAt' = bumpedAt
      BY <1>4 DEF Own, GetZone, BuildZone, Abort, Commit, Report, SetSerial, InsertSnapshot, Prune, Move, Reload
    <3> QED BY <1>0, <1>4, <3>1, OthersUndisturbed
  <2> DEFINE StillOld ==
                /\ Old(zone'.serial)
                /\ \A k \in DOMAIN snapshots' : Old(snapshots'[k].text.serial)
                /\ \A s \in Servers : served'[s] # NoText => Old(served'[s].serial)
                /\ \A s \in Servers : file'[s] # NoText => Old(file'[s].serial)
                /\ deploy'[d].pc \in {"records", "stage", "commit", "setserial", "insert"}
                      => Old(deploy'[d].text.serial)
  <2>1. SUFFICES StillOld
    BY <1>0, <2>0 DEF AllOld
  <2>2. CASE GetZone(d) \/ Abort(d) \/ Report(d)
    <3>1. UNCHANGED <<zone, snapshots, file, served>>
      BY <2>2 DEF GetZone, Abort, Report
    <3>2. \/ deploy'[d].pc \in {"idle", "build"}
          \/ deploy[d].pc = "commit" /\ deploy'[d].text = deploy[d].text
      <4>1. CASE GetZone(d)
        BY <1>0, <4>1 DEF GetZone, Idle
      <4>2. CASE Abort(d)
        BY <1>0, <4>2 DEF Abort, Idle
      <4>3. CASE Report(d) /\ deploy[d].moved = deploy[d].targets
        BY <1>0, <4>3 DEF Report, Rolled, DeployStates
      <4>4. CASE Report(d) /\ deploy[d].moved # deploy[d].targets
        BY <1>0, <4>4 DEF Report, Idle
      <4> QED BY <2>2, <4>1, <4>2, <4>3, <4>4
    <3> QED BY <3>1, <3>2 DEF AllOld
  <2>3. CASE BuildZone(d)
    <3>1. UNCHANGED <<zone, snapshots, file, served>> /\ deploy'[d].text.serial = zone.serial
      BY <1>0, <2>3 DEF BuildZone, NoText
    <3> QED BY <3>1 DEF AllOld
  <2>4. CASE Commit(d)
    <3>1. /\ UNCHANGED <<zone, snapshots, file, served>>
          /\ deploy[d].pc = "stage" /\ deploy'[d].text = deploy[d].text
      BY <1>0, <2>4 DEF Commit, DeployStates
    <3> QED BY <3>1 DEF AllOld
  <2>5. ASSUME NEW s \in Servers, Move(d, s) PROVE StillOld
    <3>1. /\ UNCHANGED <<zone, snapshots, served>> /\ deploy[d].pc = "commit"
          /\ deploy'[d].text = deploy[d].text
          /\ \A r \in Servers : file'[r] = file[r] \/ file'[r] = deploy[d].text
      BY <1>0, <2>5 DEF Move, Place, DeployStates, TypeOK
    <3> QED BY <3>1 DEF AllOld
  <2>6. ASSUME NEW s \in Servers, Reload(d, s) PROVE StillOld
    <3>1. /\ UNCHANGED <<zone, snapshots, file>> /\ deploy[d].pc = "commit"
          /\ deploy'[d].text = deploy[d].text
          /\ \A r \in Servers : served'[r] = served[r] \/ served'[r] = file[r]
      BY <1>0, <2>6 DEF Reload, DeployStates, TypeOK
    <3> QED BY <3>1 DEF AllOld
  <2>7. CASE SetSerial(d)
    <3>1. /\ UNCHANGED <<snapshots, file, served>> /\ zone'.serial = deploy[d].text.serial
          /\ deploy[d].pc = "setserial" /\ deploy'[d].text = deploy[d].text
      BY <1>0, <2>7 DEF SetSerial, DeployStates, TypeOK
    <3> QED BY <3>1 DEF AllOld
  <2>8. CASE InsertSnapshot(d)
    <3>1. UNCHANGED <<zone, file, served>> /\ deploy[d].pc = "insert" /\ deploy'[d].pc = "prune"
      BY <1>0, <2>8 DEF InsertSnapshot, DeployStates
    <3>2. \A k \in DOMAIN snapshots' :
             (k \in DOMAIN snapshots /\ snapshots'[k] = snapshots[k]) \/ snapshots'[k].text = deploy[d].text
      BY <1>0, <2>8 DEF InsertSnapshot
    <3> QED BY <3>1, <3>2 DEF AllOld
  <2>9. CASE Prune(d)
    <3>1. UNCHANGED <<zone, file, served>> /\ deploy'[d].pc = "idle"
      BY <1>0, <2>9 DEF Prune, Idle
    <3>2. \A k \in DOMAIN snapshots' : \E j \in DOMAIN snapshots : snapshots'[k] = snapshots[j]
      BY <1>0, <2>9, PruneSuffix DEF Prune
    <3> QED BY <3>1, <3>2 DEF AllOld
  <2> QED BY <1>4, <2>2, <2>3, <2>4, <2>5, <2>6, <2>7, <2>8, <2>9 DEF Own
<1> QED BY <1>1, <1>2, <1>3, <1>4, Steps

-----------------------------------------------------------------------------
(* Serials counted up from the stored one.                                 *)

Undisturbed ==
    /\ mode.events \cap {"move", "lost", "crash", "rollback"} = {}
    /\ \A t \in DOMAIN mode.times : Wanted(t) + MaxDeploys < Half

\* The largest stamp that leaves room for the deploys of a behaviour.
Room == Half - 1 - MaxDeploys

\* BumpSerial took seen to current in n deploys: by increments, or by a stamp and
\* increments on top of it; after a wrap, those over the top are among the n.
Lags(seen, current, n) ==
    /\ seen <= current =>
         /\ seen + n <= current
         /\ current = seen + n \/ current <= Room + n
    /\ seen > current =>
         /\ SerialMod - seen <= n
         /\ current <= Room + n - (SerialMod - seen)

\* No server is more deploys behind than that.
Behind(current, most) ==
    \A s \in Servers : served[s] # NoText => \E n \in 0 .. most : Lags(served[s].serial, current, n)

\* How far the servers are behind what the deploy under way makes the newest serial.
Counted(d) ==
    /\ deploy[d].pc # "idle" => started >= 1
    /\ deploy[d].pc = "records" => deploy[d].text.serial = zone.serial
    /\ deploy[d].pc \in {"build", "records", "stage"} => Behind(zone.serial, started - 1)
    /\ deploy[d].pc \in {"commit", "setserial"} => Behind(deploy[d].text.serial, started)
    /\ deploy[d].pc \in {"insert", "prune"} => Behind(zone.serial, started)
    /\ deploy[d].pc = "stage" => Behind(deploy[d].text.serial, started)
    /\ deploy[d].pc = "commit" => deploy[d].targets = deploy[d].moved \cup deploy[d].toMove

AllCounted ==
    /\ \A d \in Deploys : Counted(d)
    /\ InFlight = {} => Behind(zone.serial, started)

LEMMA LagGrows ==
    ASSUME NEW seen \in Serials, NEW current \in Serials, NEW n \in Nat, n < MaxDeploys,
           Lags(seen, current, n), NEW stamp \in Serials, stamp + MaxDeploys < Half
    PROVE  Lags(seen, IF stamp <= current THEN Succ(current) ELSE stamp, n + 1)
<1>0. Half \in Nat /\ Half > 1 /\ MaxDeploys \in Nat
  BY HalfAssumption, BoundAssumption
<1>1. CASE stamp <= current /\ current = MaxSerial
  BY <1>0, <1>1 DEF Lags, Succ, Serials, MaxSerial, SerialMod, Room
<1>2. CASE stamp <= current /\ current # MaxSerial
  BY <1>0, <1>2 DEF Lags, Succ, Serials, MaxSerial, SerialMod, Room
<1>3. CASE stamp > current
  BY <1>0, <1>3 DEF Lags, Serials, MaxSerial, SerialMod, Room
<1> QED BY <1>0, <1>1, <1>2, <1>3 DEF Serials, MaxSerial, SerialMod

LEMMA LagIsNewer ==
    ASSUME NEW seen \in Serials, NEW current \in Serials, NEW n \in 1 .. MaxDeploys,
           Lags(seen, current, n), MaxDeploys < Half
    PROVE  SeqGT(current, seen)
<1>0. Half \in Nat /\ Half > 1 /\ MaxDeploys \in Nat
  BY HalfAssumption, BoundAssumption
<1>1. CASE seen <= current
  BY <1>0, <1>1 DEF Lags, SeqGT, Serials, MaxSerial, SerialMod, Room
<1>2. CASE seen > current
  BY <1>0, <1>2 DEF Lags, SeqGT, Serials, MaxSerial, SerialMod, Room
<1> QED BY <1>1, <1>2 DEF Serials

LEMMA BehindMore ==
    ASSUME NEW current, NEW m \in Int, Behind(current, m - 1)
    PROVE  Behind(current, m)
BY DEF Behind

\* BumpSerial puts every server one deploy further behind, and so behind.
LEMMA BumpIsAhead ==
    ASSUME TypeOK, Undisturbed, AllCounted, NEW d \in Deploys, BuildRecords(d)
    PROVE  /\ Behind(deploy'[d].text.serial, started)
           /\ \A s \in Servers : NewerThan(d, s)'
<1>0. /\ deploy \in [Deploys -> DeployStates] /\ clock \in DOMAIN mode.times
      /\ zone.serial \in Serials /\ started \in 0 .. MaxDeploys /\ MaxDeploys \in Nat
  BY BoundAssumption DEF TypeOK
<1>1. /\ deploy[d].pc = "records" /\ deploy[d].text.serial = zone.serial
      /\ started >= 1 /\ Behind(zone.serial, started - 1)
  BY DEF BuildRecords, AllCounted, Counted
<1> DEFINE stamp == Wanted(clock)
           next == IF stamp <= zone.serial THEN Succ(zone.serial) ELSE stamp
<1>2. deploy'[d].text.serial = next /\ served' = served
  BY <1>0, <1>1 DEF BuildRecords, DeployStates, NextSerial, Wanted
<1>3. stamp \in Serials /\ stamp + MaxDeploys < Half
  BY <1>0, WantedType DEF Undisturbed
<1>4. next \in Serials /\ MaxDeploys < Half
  BY <1>0, <1>3, HalfAssumption DEF Succ, Serials, MaxSerial, SerialMod
<1>5. ASSUME NEW s \in Servers, served[s] # NoText
      PROVE  \E n \in 1 .. started : Lags(served[s].serial, next, n)
  <2>1. PICK n \in 0 .. started - 1 : Lags(served[s].serial, zone.serial, n)
    BY <1>1, <1>5 DEF Behind
  <2>2. served[s].serial \in Serials
    BY <1>5 DEF TypeOK, Texts
  <2>3. n \in Nat /\ n < MaxDeploys /\ n + 1 \in 1 .. started
    BY <1>0, <2>1
  <2>4. Lags(served[s].serial, next, n + 1)
    BY <1>0, <1>3, <2>1, <2>2, <2>3, LagGrows
  <2> QED BY <2>3, <2>4
<1> HIDE DEF next
<1>6. Behind(next, started)
  BY <1>0, <1>5 DEF Behind
<1>7. ASSUME NEW s \in Servers, served[s] # NoText
      PROVE  SeqGT(next, served[s].serial)
  <2>1. PICK n \in 1 .. started : Lags(served[s].serial, next, n)
    BY <1>5, <1>7
  <2>2. served[s].serial \in Serials
    BY <1>7 DEF TypeOK, Texts
  <2> QED BY <1>0, <1>4, <2>1, <2>2, LagIsNewer
<1> QED BY <1>2, <1>6, <1>7 DEF NewerThan

\* What a server loads from the deploy under way is the newest serial.
LEMMA LoadedIsCurrent ==
    ASSUME TypeOK, NEW d \in Deploys, NEW s \in Servers, Reload(d, s), file[s] = deploy[d].text,
           Behind(deploy[d].text.serial, started)
    PROVE  Behind(deploy[d].text.serial, started)'
<1>0. started \in Nat /\ deploy[d].text.serial \in Serials /\ served \in [Servers -> Texts \cup {NoText}]
  BY DEF TypeOK, DeployStates
<1>1. /\ deploy'[d].text = deploy[d].text /\ started' = started
      /\ \A r \in Servers : served'[r] = served[r] \/ served'[r] = deploy[d].text
  BY <1>0 DEF Reload, TypeOK, DeployStates
<1>2. Lags(deploy[d].text.serial, deploy[d].text.serial, 0)
  BY <1>0 DEF Lags, Serials
<1> QED BY <1>0, <1>1, <1>2 DEF Behind

LEMMA NextAllCounted ==
    ASSUME AloneInv, ~mode.overlap, Undisturbed, AllCounted, \A d \in Deploys : Ahead(d), [Next]_vars
    PROVE  AllCounted'
<1>0. /\ TypeOK /\ deploy \in [Deploys -> DeployStates] /\ started \in Nat
      /\ zone \in [soa : Settings, recs : Contents, serial : Serials, targets : SUBSET Servers]
      /\ \A d \in Deploys : InPlace(d) /\ Progress(d)
  BY DEF AloneInv, IInv, TypeOK
<1>1. CASE Outside
  <2>1. UNCHANGED <<deploy, started, served>> /\ zone'.serial = zone.serial
    <3>1. UNCHANGED <<deploy, started, served>>
      BY <1>1 DEF Outside, EditSettings, EditRecords, EditTargets, Rollback, Tick, vars
    <3>2. Steady
      BY DEF Undisturbed, Steady
    <3> QED BY <1>0, <1>1, <3>1, <3>2, OutsideLeaves
  <2> QED BY <2>1 DEF AllCounted, Counted, Behind, InFlight
<1>2. ~Crash
  BY DEF Crash, Undisturbed
<1>3. ASSUME NEW d \in Deploys, Own(d) PROVE AllCounted'
  <2>0. \A e \in Deploys \ {d} : deploy'[e] = deploy[e] /\ deploy'[e].pc = "idle"
    BY <1>3, OthersIdle
  <2> DEFINE Rest == Counted(d)' /\ (deploy'[d].pc = "idle" => Behind(zone.serial, started)')
  <2>1. SUFFICES Rest
    BY <2>0 DEF AllCounted, Counted, InFlight
  <2>2. Counted(d)
    BY DEF AllCounted
  <2>3. CASE GetZone(d)
    <3>1. /\ deploy'[d].pc = "build" /\ started' = started + 1 /\ UNCHANGED <<zone, served>>
      BY <1>0, <2>3 DEF GetZone, Idle
    <3>2. Behind(zone.serial, started)
      BY <1>3, <2>3, OthersIdle DEF AllCounted
    <3>3. Behind(zone.serial, started - 1)'
      BY <1>0, <3>1, <3>2 DEF Behind
    <3> QED BY <1>0, <3>1, <3>3 DEF Counted
  <2>4. CASE BuildZone(d)
    <3>1. /\ deploy[d].pc = "build" /\ deploy'[d].pc = "records" /\ UNCHANGED <<zone, served, started>>
          /\ deploy'[d].text.serial = zone.serial
      BY <1>0, <2>4 DEF BuildZone, NoText, DeployStates
    <3> QED BY <2>2, <3>1 DEF Counted, Behind
  <2>5. CASE BuildRecords(d)
    <3>1. /\ deploy[d].pc = "records" /\ deploy'[d].pc = "stage" /\ UNCHANGED <<zone, served, started>>
      BY <1>0, <2>5 DEF BuildRecords, DeployStates
    <3>2. Behind(deploy'[d].text.serial, started)
      BY <1>0, <2>5, BumpIsAhead
    <3> QED BY <2>2, <3>1, <3>2 DEF Counted, Behind
  <2>6. CASE Abort(d)
    <3>1. deploy[d].pc = "stage" /\ deploy'[d].pc = "idle" /\ UNCHANGED <<zone, served, started>>
      BY <1>0, <2>6 DEF Abort, Idle
    <3>2. Behind(zone.serial, started)
      BY <1>0, <2>2, <3>1, BehindMore DEF Counted
    <3> QED BY <3>1, <3>2 DEF Counted, Behind
  <2>7. CASE Commit(d)
    <3>1. /\ deploy[d].pc = "stage" /\ deploy'[d].pc = "commit" /\ UNCHANGED <<zone, served, started>>
          /\ deploy'[d].text = deploy[d].text /\ deploy'[d].targets = deploy[d].targets
          /\ deploy'[d].toMove = deploy[d].targets /\ deploy'[d].moved = deploy[d].moved
      BY <1>0, <2>7 DEF Commit, DeployStates
    <3>2. deploy[d].moved = {}
      BY <1>0, <3>1 DEF InPlace, Progress
    <3> QED BY <2>2, <3>1, <3>2 DEF Counted, Behind
  <2>8. ASSUME NEW s \in Servers, Move(d, s) PROVE Rest
    <3>1. /\ deploy[d].pc = "commit" /\ deploy'[d].pc = "commit" /\ UNCHANGED <<zone, served, started>>
          /\ deploy'[d].text = deploy[d].text /\ deploy'[d].targets = deploy[d].targets
          /\ s \in deploy[d].toMove
          /\ deploy'[d].toMove = deploy[d].toMove \ {s} /\ deploy'[d].moved = deploy[d].moved \cup {s}
      BY <1>0, <2>8 DEF Move, DeployStates, Undisturbed
    <3> QED BY <2>2, <3>1 DEF Counted, Behind
  <2>9. ASSUME NEW s \in Servers, Reload(d, s) PROVE Rest
    <3>1. /\ deploy[d].pc = "commit" /\ deploy'[d].pc = "commit" /\ UNCHANGED <<zone, started>>
          /\ deploy'[d].targets = deploy[d].targets /\ s \in deploy[d].toReload
          /\ deploy'[d].toMove = deploy[d].toMove /\ deploy'[d].moved = deploy[d].moved
      BY <1>0, <2>9 DEF Reload, DeployStates
    <3>2. file[s] = deploy[d].text
      BY <1>0, <3>1 DEF InPlace, Ahead
    <3>3. Behind(deploy[d].text.serial, started)'
      BY <1>0, <2>2, <2>9, <3>1, <3>2, LoadedIsCurrent DEF Counted
    <3> QED BY <2>2, <3>1, <3>3 DEF Counted
  <2>10. CASE Report(d)
    <3>1. deploy[d].pc = "commit" /\ deploy[d].moved = deploy[d].targets
      BY <2>2, <2>10 DEF Report, Rolled, Counted
    <3>2. /\ deploy'[d].pc = "setserial" /\ deploy'[d].text = deploy[d].text
          /\ UNCHANGED <<zone, served, started>>
      BY <1>0, <2>10, <3>1 DEF Report, DeployStates
    <3> QED BY <2>2, <3>1, <3>2 DEF Counted, Behind
  <2>11. CASE SetSerial(d)
    <3>1. /\ deploy[d].pc = "setserial" /\ deploy'[d].pc = "insert"
          /\ zone'.serial = deploy[d].text.serial /\ UNCHANGED <<served, started>>
      BY <1>0, <2>11 DEF SetSerial, DeployStates
    <3> QED BY <2>2, <3>1 DEF Counted, Behind
  <2>12. CASE InsertSnapshot(d)
    <3>1. deploy[d].pc = "insert" /\ deploy'[d].pc = "prune" /\ UNCHANGED <<zone, served, started>>
      BY <1>0, <2>12 DEF InsertSnapshot, DeployStates
    <3> QED BY <2>2, <3>1 DEF Counted, Behind
  <2>13. CASE Prune(d)
    <3>1. deploy[d].pc = "prune" /\ deploy'[d].pc = "idle" /\ UNCHANGED <<zone, served, started>>
      BY <1>0, <2>13 DEF Prune, Idle
    <3> QED BY <2>2, <3>1 DEF Counted, Behind
  <2> QED BY <1>3, <2>3, <2>4, <2>5, <2>6, <2>7, <2>8, <2>9, <2>10, <2>11, <2>12, <2>13 DEF Own
<1> QED BY <1>1, <1>2, <1>3, Steps

-----------------------------------------------------------------------------
(* Reloads, in both kinds of modes.                                        *)

ReloadInv ==
    /\ AloneInv
    /\ Orderly(mode)
    /\ \A d \in Deploys : Ahead(d)
    /\ Rising => AllOld
    /\ Undisturbed => AllCounted

LEMMA OrderlyKinds == ASSUME Orderly(mode) PROVE ~mode.overlap /\ (Rising \/ Undisturbed)
BY DEF Orderly, GrowingStamps, NeverBack, Rising, Undisturbed, Wanted

LEMMA RisingStartsOld == ASSUME Init, Rising PROVE AllOld
<1>1. served = [s \in Servers |-> NoText] /\ file = [s \in Servers |-> NoText] /\ snapshots = <<>>
  BY DEF Init
<1>2. Old(zone.serial)
  BY DEF Init, Rising, Old
<1>3. \A d \in Deploys : deploy[d].pc = "idle"
  BY DEF Init, Idle
<1> QED BY <1>1, <1>2, <1>3 DEF AllOld

LEMMA ModeStays == AloneInv /\ [Next]_vars => mode' = mode
<1> SUFFICES ASSUME AloneInv, [Next]_vars PROVE mode' = mode
  OBVIOUS
<1>0. TypeOK
  BY DEF AloneInv, IInv
<1>1. Outside \/ Crash => mode' = mode
  BY <1>0, OutsideLeaves DEF Crash
<1> QED BY <1>0, <1>1, Steps, OthersUndisturbed

LEMMA InitReloadInv == Init /\ Orderly(mode) => ReloadInv
<1> SUFFICES ASSUME Init, Orderly(mode) PROVE ReloadInv
  OBVIOUS
<1>1. AloneInv /\ Orderly(mode)
  BY InitAloneInv
<1>2. \A d \in Deploys : deploy[d] = Idle /\ deploy[d].pc = "idle" /\ deploy[d].toReload = {}
  BY DEF Init, Idle
<1>3. \A d \in Deploys : Ahead(d)
  BY <1>2 DEF Ahead
<1>4. Rising => AllOld
  BY RisingStartsOld
<1>5. AllCounted
  <2>1. served = [s \in Servers |-> NoText]
    BY DEF Init
  <2> QED BY <1>2, <2>1 DEF AllCounted, Counted, Behind
<1> QED BY <1>1, <1>3, <1>4, <1>5 DEF ReloadInv

LEMMA NextReloadInv == ReloadInv /\ [Next]_vars => ReloadInv'
<1> SUFFICES ASSUME ReloadInv, [Next]_vars PROVE ReloadInv'
  OBVIOUS
<1>0. AloneInv /\ AloneInv' /\ IInv /\ IInv' /\ TypeOK /\ ~mode.overlap /\ (Rising \/ Undisturbed)
  BY NextAloneInv, OrderlyKinds DEF ReloadInv, AloneInv, IInv
<1>1. mode' = mode
  BY <1>0, ModeStays
<1>2. Orderly(mode)' /\ Rising' = Rising /\ Undisturbed' = Undisturbed
  BY <1>1 DEF ReloadInv, Rising, Undisturbed, Wanted
<1>3. Rising => AllOld'
  BY <1>0, NextAllOld DEF ReloadInv
<1>4. Undisturbed => AllCounted'
  BY <1>0, NextAllCounted DEF ReloadInv
<1>5. \A d \in Deploys : Ahead(d)'
  <2>1. CASE Outside
    <3>1. UNCHANGED <<deploy, served>>
      BY <2>1 DEF Outside, EditSettings, EditRecords, EditTargets, Rollback, Tick, vars
    <3> QED BY <3>1 DEF ReloadInv, Ahead, NewerThan, Wrote
  <2>2. CASE Crash
    <3>1. \A d \in Deploys : deploy'[d].pc = "idle" /\ deploy'[d].toReload = {}
      BY <2>2 DEF Crash, Idle
    <3> QED BY <3>1 DEF Ahead
  <2>3. ASSUME NEW d \in Deploys, Own(d) PROVE \A e \in Deploys : Ahead(e)'
    <3>1. \A e \in Deploys \ {d} : deploy[e].pc = "idle" /\ deploy'[e] = deploy[e]
      BY <1>0, <2>3, OthersIdle
    <3>2. \A e \in Deploys \ {d} : Ahead(e)'
      BY <3>1 DEF ReloadInv, Ahead, Wrote
    <3>3. CASE BuildRecords(d)
      <4>1. \A s \in Servers : NewerThan(d, s)'
        BY <1>0, <3>3, StampIsAhead, BumpIsAhead DEF ReloadInv
      <4>2. deploy'[d].pc = "stage" /\ deploy'[d].toReload = deploy[d].toReload
        BY <1>0, <3>3 DEF BuildRecords, TypeOK, DeployStates
      <4>4. deploy[d].toReload = {}
        BY <1>0, <3>3 DEF BuildRecords, AloneInv, InPlace, ReloadInv, Ahead, Wrote
      <4>3. Ahead(d)'
        BY <4>1, <4>2, <4>4 DEF Ahead
      <4> QED BY <3>2, <4>3
    <3>4. CASE ~BuildRecords(d)
      BY <1>0, <2>3, <3>2, <3>4, AheadStays DEF ReloadInv
    <3> QED BY <3>3, <3>4
  <2> QED BY <2>1, <2>2, <2>3, Steps
<1> QED BY <1>0, <1>2, <1>3, <1>4, <1>5 DEF ReloadInv

\* Only a reload changes what is served, to the text of the deploy.
LEMMA LoadsNewer ==
    ASSUME ReloadInv, [Next]_vars, NEW s \in Servers, served'[s] # served[s], served[s] # NoText
    PROVE  SeqGT(served'[s].serial, served[s].serial)
<1>0. AloneInv /\ TypeOK /\ ~mode.overlap
  BY OrderlyKinds DEF ReloadInv, AloneInv, IInv
<1>1. PICK d \in Deploys, r \in Servers : Reload(d, r)
  <2>1. Outside => UNCHANGED served
    BY DEF Outside, EditSettings, EditRecords, EditTargets, Rollback, Tick, vars
  <2>2. Crash => UNCHANGED served
    BY DEF Crash
  <2>3. PICK d \in Deploys : Own(d)
    BY <2>1, <2>2, Steps
  <2>4. GetZone(d) \/ BuildZone(d) \/ BuildRecords(d) => UNCHANGED served
    BY DEF GetZone, BuildZone, BuildRecords
  <2>5. Abort(d) \/ Commit(d) \/ Report(d) => UNCHANGED served
    BY DEF Abort, Commit, Report
  <2>6. SetSerial(d) \/ InsertSnapshot(d) \/ Prune(d) => UNCHANGED served
    BY DEF SetSerial, InsertSnapshot, Prune
  <2>7. \A r \in Servers : Move(d, r) => UNCHANGED served
    BY DEF Move
  <2>8. ~ UNCHANGED served
    OBVIOUS
  <2> QED BY <2>3, <2>4, <2>5, <2>6, <2>7, <2>8 DEF Own
<1>2. deploy[d].pc = "commit" /\ s = r /\ s \in deploy[d].toReload /\ served'[s] = file[s]
  BY <1>0, <1>1 DEF Reload, TypeOK
<1>3. file[s] = deploy[d].text /\ NewerThan(d, s)
  BY <1>0, <1>2 DEF ReloadInv, Ahead, AloneInv, InPlace
<1> QED BY <1>2, <1>3 DEF NewerThan

\* serial.go: BumpSerial advances the serial "so BIND treats the zone as changed".
\* One deploy at a time, with stamps that grow from deploy to deploy or with nothing
\* that leaves a deploy half moved, every reload brings named a newer serial, over
\* aborts, skipped targets, failed reloads and the wrap of uint32.
THEOREM ReloadsAreNewer == Spec => OrderlyReloads
<1> DEFINE Inv == AloneInv /\ (Orderly(mode) => ReloadInv)
<1>1. Init => Inv
  BY InitAloneInv, InitReloadInv
<1>2. Inv /\ [Next]_vars => Inv'
  BY ModeStays, NextAloneInv, NextReloadInv
<1>3. Inv /\ [Next]_vars
        => [Orderly(mode) =>
              \A s \in Servers :
                  served'[s] # served[s] /\ served[s] # NoText
                      => SeqGT(served'[s].serial, served[s].serial)]_vars
  BY LoadsNewer
<1> QED BY <1>1, <1>2, <1>3, PTL DEF Spec, OrderlyReloads

-----------------------------------------------------------------------------
(* The order of the snapshots.                                             *)

\* What is to be published is newer than what has been.
Publishing == {"stage", "commit", "setserial", "insert"}

TextAhead(d) ==
    deploy[d].pc \in Publishing =>
        \A k \in DOMAIN snapshots : SeqGT(deploy[d].text.serial, snapshots[k].text.serial)

\* No snapshot is more deploys behind than that.
SnapsBehind(current, most) ==
    \A k \in DOMAIN snapshots : \E n \in 0 .. most : Lags(snapshots[k].text.serial, current, n)

\* The row is never behind the snapshots; it is ahead of them when the daemon has
\* stopped before INSERT.
SnapsCounted(d) ==
    /\ deploy[d].pc # "idle" => started >= 1
    /\ deploy[d].pc \in {"records", "insert"} => deploy[d].text.serial = zone.serial
    /\ deploy[d].pc \in {"build", "records", "stage", "commit", "setserial"} => SnapsBehind(zone.serial, started - 1)
    /\ deploy[d].pc \in Publishing => SnapsBehind(deploy[d].text.serial, started)
    /\ deploy[d].pc = "prune" => SnapsBehind(zone.serial, started)

AllSnapsCounted ==
    /\ \A d \in Deploys : SnapsCounted(d)
    /\ InFlight = {} => SnapsBehind(zone.serial, started)

\* The serial of the row is never taken back.
Unrolled ==
    /\ "rollback" \notin mode.events
    /\ \A t \in DOMAIN mode.times : Wanted(t) + MaxDeploys < Half

OrderInv ==
    /\ AloneInv
    /\ Chronological(mode)
    /\ HistoryIsOrdered
    /\ \A d \in Deploys : TextAhead(d)
    /\ Rising => AllOld
    /\ Unrolled => AllSnapsCounted

LEMMA ChronologicalKinds == ASSUME Chronological(mode) PROVE ~mode.overlap /\ (Rising \/ Unrolled)
BY DEF Chronological, GrowingStamps, NeverBack, Rising, Unrolled, Wanted

LEMMA SnapsMore ==
    ASSUME started \in Nat, NEW current, SnapsBehind(current, started - 1)
    PROVE  SnapsBehind(current, started)
BY DEF SnapsBehind

LEMMA SnapshotSerial ==
    ASSUME TypeOK, NEW k \in DOMAIN snapshots
    PROVE  snapshots[k].text.serial \in Serials
BY SnapshotRow DEF TypeOK, SnapshotRows, Texts

\* A stamp is above the serial of every snapshot.
LEMMA StampTopsHistory ==
    ASSUME TypeOK, Rising, AllOld, NEW d \in Deploys, BuildRecords(d)
    PROVE  TextAhead(d)'
<1>1. /\ deploy'[d].text.serial = Wanted(clock) /\ clock \in DOMAIN mode.times /\ clock > bumpedAt
      /\ snapshots' = snapshots
  BY StampTaken DEF BuildRecords
<1>2. Wanted(clock) \in Serials /\ Wanted(clock) < Half
  BY <1>1, WantedType DEF Rising
<1>3. ASSUME NEW k \in DOMAIN snapshots PROVE SeqGT(Wanted(clock), snapshots[k].text.serial)
  <2>1. snapshots[k].text.serial < Wanted(clock) /\ snapshots[k].text.serial \in Serials
    BY <1>1, SnapshotSerial DEF AllOld, Old
  <2> QED BY <1>2, <2>1, HalfAssumption DEF SeqGT, Serials, MaxSerial, SerialMod
<1> QED BY <1>1, <1>3 DEF TextAhead

\* BumpSerial puts every snapshot one deploy further behind.
LEMMA BumpTopsHistory ==
    ASSUME TypeOK, Unrolled, AllSnapsCounted, NEW d \in Deploys, BuildRecords(d)
    PROVE  SnapsBehind(deploy'[d].text.serial, started) /\ TextAhead(d)'
<1>0. /\ deploy \in [Deploys -> DeployStates] /\ clock \in DOMAIN mode.times
      /\ zone.serial \in Serials /\ started \in 0 .. MaxDeploys /\ MaxDeploys \in Nat
  BY BoundAssumption DEF TypeOK
<1>1. /\ deploy[d].pc = "records" /\ deploy[d].text.serial = zone.serial
      /\ started >= 1 /\ SnapsBehind(zone.serial, started - 1)
  BY DEF BuildRecords, AllSnapsCounted, SnapsCounted
<1> DEFINE stamp == Wanted(clock)
           next == IF stamp <= zone.serial THEN Succ(zone.serial) ELSE stamp
<1>2. deploy'[d].text.serial = next /\ snapshots' = snapshots
  BY <1>0, <1>1 DEF BuildRecords, DeployStates, NextSerial, Wanted
<1>3. stamp \in Serials /\ stamp + MaxDeploys < Half
  BY <1>0, WantedType DEF Unrolled
<1>4. next \in Serials /\ MaxDeploys < Half
  BY <1>0, <1>3, HalfAssumption DEF Succ, Serials, MaxSerial, SerialMod
<1>5. ASSUME NEW k \in DOMAIN snapshots
      PROVE  \E n \in 1 .. started : Lags(snapshots[k].text.serial, next, n)
  <2>1. PICK n \in 0 .. started - 1 : Lags(snapshots[k].text.serial, zone.serial, n)
    BY <1>1 DEF SnapsBehind
  <2>2. n \in Nat /\ n < MaxDeploys /\ n + 1 \in 1 .. started
    BY <1>0, <2>1
  <2>3. Lags(snapshots[k].text.serial, next, n + 1)
    BY <1>0, <1>3, <2>1, <2>2, SnapshotSerial, LagGrows
  <2> QED BY <2>2, <2>3
<1> HIDE DEF next
<1>6. SnapsBehind(next, started)
  BY <1>0, <1>5 DEF SnapsBehind
<1>7. ASSUME NEW k \in DOMAIN snapshots PROVE SeqGT(next, snapshots[k].text.serial)
  <2>1. PICK n \in 1 .. started : Lags(snapshots[k].text.serial, next, n)
    BY <1>5
  <2> QED BY <1>0, <1>4, <2>1, SnapshotSerial, LagIsNewer
<1> QED BY <1>2, <1>6, <1>7 DEF TextAhead

\* A text stays newer until it is published.
LEMMA TextStaysAhead ==
    ASSUME TypeOK, NEW d \in Deploys, Own(d), ~BuildRecords(d), TextAhead(d)
    PROVE  TextAhead(d)'
<1>0. deploy \in [Deploys -> DeployStates]
  BY DEF TypeOK
<1>1. CASE deploy'[d].pc \notin Publishing
  BY <1>1 DEF TextAhead
<1>2. ASSUME deploy[d].pc \in Publishing, deploy'[d].text = deploy[d].text, snapshots' = snapshots
      PROVE  TextAhead(d)'
  BY <1>2 DEF TextAhead
<1>3. CASE GetZone(d) \/ Abort(d) \/ Prune(d)
  <2>1. CASE GetZone(d)
    BY <1>0, <1>1, <2>1 DEF GetZone, Idle, Publishing
  <2>2. CASE Abort(d) \/ Prune(d)
    BY <1>0, <1>1, <2>2 DEF Abort, Prune, Idle, Publishing
  <2> QED BY <1>3, <2>1, <2>2
<1>4. CASE BuildZone(d) \/ InsertSnapshot(d)
  BY <1>0, <1>1, <1>4 DEF BuildZone, InsertSnapshot, DeployStates, Publishing
<1>5. CASE Commit(d) \/ SetSerial(d)
  BY <1>0, <1>2, <1>5 DEF Commit, SetSerial, DeployStates, Publishing
<1>6. CASE Report(d)
  <2>1. CASE deploy[d].moved = deploy[d].targets
    BY <1>0, <1>2, <1>6, <2>1 DEF Report, Rolled, DeployStates, Publishing
  <2>2. CASE deploy[d].moved # deploy[d].targets
    BY <1>0, <1>1, <1>6, <2>2 DEF Report, Idle, Publishing
  <2> QED BY <2>1, <2>2
<1>7. ASSUME NEW s \in Servers, Move(d, s) PROVE TextAhead(d)'
  BY <1>0, <1>2, <1>7 DEF Move, DeployStates, Publishing
<1>8. ASSUME NEW s \in Servers, Reload(d, s) PROVE TextAhead(d)'
  BY <1>0, <1>2, <1>8 DEF Reload, DeployStates, Publishing
<1> QED BY <1>3, <1>4, <1>5, <1>6, <1>7, <1>8 DEF Own

LEMMA NextAllSnapsCounted ==
    ASSUME AloneInv, ~mode.overlap, Unrolled, AllSnapsCounted, [Next]_vars
    PROVE  AllSnapsCounted'
<1>0. /\ TypeOK /\ deploy \in [Deploys -> DeployStates] /\ started \in Nat
      /\ snapshots \in Seq(SnapshotRows) /\ zone.serial \in Serials
      /\ zone \in [soa : Settings, recs : Contents, serial : Serials, targets : SUBSET Servers]
  BY DEF AloneInv, IInv, TypeOK
<1>2. CASE Outside
  <2>1. UNCHANGED <<deploy, started, snapshots>> /\ zone'.serial = zone.serial
    BY <1>0, <1>2 DEF Unrolled, Outside, EditSettings, EditRecords, EditTargets, Rollback, Tick, vars
  <2> QED BY <2>1 DEF AllSnapsCounted, SnapsCounted, SnapsBehind, InFlight
<1>3. CASE Crash
  <2>1. /\ UNCHANGED <<zone, snapshots, started>> /\ InFlight # {}
        /\ \A d \in Deploys : deploy'[d].pc = "idle"
    BY <1>3 DEF Crash, Idle
  <2>2. SnapsBehind(zone.serial, started)
    <3>1. PICK d \in Deploys : deploy[d].pc # "idle" /\ SnapsCounted(d)
      BY <2>1 DEF InFlight, AllSnapsCounted
    <3>2. CASE deploy[d].pc \in {"build", "records", "stage", "commit", "setserial"}
      BY <1>0, <3>1, <3>2, SnapsMore DEF SnapsCounted
    <3>3. CASE deploy[d].pc \in {"insert", "prune"}
      BY <3>1, <3>3 DEF SnapsCounted, Publishing
    <3> QED BY <1>0, <3>1, <3>2, <3>3 DEF DeployStates
  <2> QED BY <2>1, <2>2 DEF AllSnapsCounted, SnapsCounted, SnapsBehind, Publishing
<1>4. ASSUME NEW d \in Deploys, Own(d) PROVE AllSnapsCounted'
  <2>0. \A e \in Deploys \ {d} : deploy'[e] = deploy[e] /\ deploy'[e].pc = "idle"
    BY <1>4, OthersIdle
  <2> DEFINE Rest == SnapsCounted(d)' /\ (deploy'[d].pc = "idle" => SnapsBehind(zone.serial, started)')
  <2>1. SUFFICES Rest
    BY <2>0 DEF AllSnapsCounted, SnapsCounted, InFlight, Publishing
  <2>2. SnapsCounted(d)
    BY DEF AllSnapsCounted
  <2>3. CASE GetZone(d)
    <3>1. /\ deploy'[d].pc = "build" /\ started' = started + 1 /\ UNCHANGED <<zone, snapshots>>
      BY <1>0, <2>3 DEF GetZone, Idle
    <3>2. SnapsBehind(zone.serial, started)
      BY <1>4, <2>3, OthersIdle DEF AllSnapsCounted
    <3>3. SnapsBehind(zone.serial, started - 1)'
      BY <1>0, <3>1, <3>2 DEF SnapsBehind
    <3> QED BY <1>0, <3>1, <3>3 DEF SnapsCounted, Publishing
  <2>4. CASE BuildZone(d)
    <3>1. /\ deploy[d].pc = "build" /\ deploy'[d].pc = "records" /\ UNCHANGED <<zone, snapshots, started>>
          /\ deploy'[d].text.serial = zone.serial
      BY <1>0, <2>4 DEF BuildZone, NoText, DeployStates
    <3> QED BY <2>2, <3>1 DEF SnapsCounted, SnapsBehind, Publishing
  <2>5. CASE BuildRecords(d)
    <3>1. /\ deploy[d].pc = "records" /\ deploy'[d].pc = "stage" /\ UNCHANGED <<zone, snapshots, started>>
      BY <1>0, <2>5 DEF BuildRecords, DeployStates
    <3>2. SnapsBehind(deploy'[d].text.serial, started)
      BY <1>0, <2>5, BumpTopsHistory
    <3> QED BY <2>2, <3>1, <3>2 DEF SnapsCounted, SnapsBehind, Publishing
  <2>6. CASE Abort(d)
    <3>1. deploy[d].pc = "stage" /\ deploy'[d].pc = "idle" /\ UNCHANGED <<zone, snapshots, started>>
      BY <1>0, <2>6 DEF Abort, Idle
    <3>2. SnapsBehind(zone.serial, started)
      BY <1>0, <2>2, <3>1, SnapsMore DEF SnapsCounted
    <3> QED BY <3>1, <3>2 DEF SnapsCounted, SnapsBehind, Publishing
  <2>7. CASE Commit(d) \/ (\E s \in Servers : Move(d, s) \/ Reload(d, s))
    <3>1. /\ deploy[d].pc \in {"stage", "commit"} /\ deploy'[d].pc = "commit" /\ UNCHANGED <<zone, snapshots, started>>
          /\ deploy'[d].text = deploy[d].text
      <4>1. CASE Commit(d)
        BY <1>0, <4>1 DEF Commit, DeployStates
      <4>2. ASSUME NEW s \in Servers, Move(d, s)
            PROVE  /\ deploy[d].pc = "commit" /\ deploy'[d].pc = "commit" /\ UNCHANGED <<zone, snapshots, started>>
                   /\ deploy'[d].text = deploy[d].text
        BY <1>0, <4>2 DEF Move, DeployStates
      <4>3. ASSUME NEW s \in Servers, Reload(d, s)
            PROVE  /\ deploy[d].pc = "commit" /\ deploy'[d].pc = "commit" /\ UNCHANGED <<zone, snapshots, started>>
                   /\ deploy'[d].text = deploy[d].text
        BY <1>0, <4>3 DEF Reload, DeployStates
      <4> QED BY <2>7, <4>1, <4>2, <4>3
    <3> QED BY <2>2, <3>1 DEF SnapsCounted, SnapsBehind, Publishing
  <2>8. CASE Report(d)
    <3>1. deploy[d].pc = "commit" /\ UNCHANGED <<zone, snapshots, started>>
      BY <2>8 DEF Report, Rolled
    <3>2. CASE deploy[d].moved = deploy[d].targets
      <4>1. deploy'[d].pc = "setserial" /\ deploy'[d].text = deploy[d].text
        BY <1>0, <2>8, <3>2 DEF Report, DeployStates
      <4> QED BY <2>2, <3>1, <4>1 DEF SnapsCounted, SnapsBehind, Publishing
    <3>3. CASE deploy[d].moved # deploy[d].targets
      <4>1. deploy'[d].pc = "idle"
        BY <1>0, <2>8, <3>3 DEF Report, Idle
      <4>2. SnapsBehind(zone.serial, started)
        BY <1>0, <2>2, <3>1, SnapsMore DEF SnapsCounted
      <4> QED BY <3>1, <4>1, <4>2 DEF SnapsCounted, SnapsBehind, Publishing
    <3> QED BY <3>2, <3>3
  <2>9. CASE SetSerial(d)
    <3>1. /\ deploy[d].pc = "setserial" /\ deploy'[d].pc = "insert" /\ deploy'[d].text = deploy[d].text
          /\ zone'.serial = deploy[d].text.serial /\ UNCHANGED <<snapshots, started>>
      BY <1>0, <2>9 DEF SetSerial, DeployStates
    <3> QED BY <2>2, <3>1 DEF SnapsCounted, SnapsBehind, Publishing
  <2>10. CASE InsertSnapshot(d)
    <3>1. /\ deploy[d].pc = "insert" /\ deploy'[d].pc = "prune" /\ UNCHANGED <<zone, started>>
          /\ deploy[d].text.serial = zone.serial
      BY <1>0, <2>2, <2>10 DEF InsertSnapshot, DeployStates, SnapsCounted
    <3>2. \A k \in DOMAIN snapshots' :
             (k \in DOMAIN snapshots /\ snapshots'[k] = snapshots[k]) \/ snapshots'[k].text = deploy[d].text
      BY <1>0, <2>10 DEF InsertSnapshot
    <3>3. Lags(zone.serial, zone.serial, 0)
      BY <1>0 DEF Lags, Serials
    <3>4. SnapsBehind(zone.serial, started)
      BY <2>2, <3>1 DEF SnapsCounted, Publishing
    <3>5. SnapsBehind(zone.serial, started)'
      BY <1>0, <3>1, <3>2, <3>3, <3>4 DEF SnapsBehind
    <3> QED BY <1>0, <2>2, <3>1, <3>5 DEF SnapsCounted, Publishing
  <2>11. CASE Prune(d)
    <3>1. deploy[d].pc = "prune" /\ deploy'[d].pc = "idle" /\ UNCHANGED <<zone, started>>
      BY <1>0, <2>11 DEF Prune, Idle
    <3>2. \A k \in DOMAIN snapshots' : \E j \in DOMAIN snapshots : snapshots'[k] = snapshots[j]
      BY <1>0, <2>11, PruneSuffix DEF Prune
    <3>3. SnapsBehind(zone.serial, started)
      BY <2>2, <3>1 DEF SnapsCounted
    <3>4. SnapsBehind(zone.serial, started)'
      BY <3>1, <3>2, <3>3 DEF SnapsBehind
    <3> QED BY <3>1, <3>4 DEF SnapsCounted, Publishing
  <2> QED BY <1>4, <2>3, <2>4, <2>5, <2>6, <2>7, <2>8, <2>9, <2>10, <2>11 DEF Own
<1> QED BY <1>2, <1>3, <1>4, Steps

\* A newer snapshot goes to the end, and a prune takes away the front.
LEMMA OrderKept ==
    ASSUME TypeOK, NEW d \in Deploys, Own(d), TextAhead(d), HistoryIsOrdered
    PROVE  HistoryIsOrdered'
<1>0. snapshots \in Seq(SnapshotRows) /\ Len(snapshots) \in Nat /\ DOMAIN snapshots = 1 .. Len(snapshots)
  BY LenProperties DEF TypeOK
<1>1. CASE InsertSnapshot(d)
  <2>1. /\ DOMAIN snapshots' = 1 .. Len(snapshots) + 1
        /\ \A k \in 1 .. Len(snapshots) : snapshots'[k] = snapshots[k]
        /\ snapshots'[Len(snapshots) + 1].text = deploy[d].text
    BY <1>0, <1>1 DEF InsertSnapshot
  <2>2. \A k \in 1 .. Len(snapshots) : SeqGT(deploy[d].text.serial, snapshots[k].text.serial)
    BY <1>0, <1>1 DEF InsertSnapshot, TextAhead, Publishing
  <2>3. ASSUME NEW k \in DOMAIN snapshots', NEW m \in DOMAIN snapshots', k < m
        PROVE  SeqGT(snapshots'[m].text.serial, snapshots'[k].text.serial)
    <3>1. k \in 1 .. Len(snapshots) /\ (m \in 1 .. Len(snapshots) \/ m = Len(snapshots) + 1)
      BY <1>0, <2>1, <2>3
    <3>2. CASE m \in 1 .. Len(snapshots)
      BY <1>0, <2>1, <2>3, <3>1, <3>2 DEF HistoryIsOrdered
    <3>3. CASE m = Len(snapshots) + 1
      BY <2>1, <2>2, <3>1, <3>3
    <3> QED BY <3>1, <3>2, <3>3
  <2> QED BY <2>3 DEF HistoryIsOrdered
<1>2. CASE Prune(d) /\ Len(snapshots) > Keep
  <2> DEFINE n == Len(snapshots)
             first == n - Keep
             rest == SubSeq(snapshots, first + 1, n)
  <2>1. /\ first \in Nat /\ Keep \in Nat /\ first + Keep = n
        /\ first + 1 <= n /\ \A i \in first + 1 .. n : snapshots[i] \in SnapshotRows
    BY <1>0, <1>2, KeepAssumption, SnapshotRow
  <2>2. rest \in Seq(SnapshotRows) /\ Len(rest) = n - (first + 1) + 1
        /\ \A i \in 1 .. n - (first + 1) + 1 : rest[i] = snapshots[(first + 1) + i - 1]
    BY <1>0, <2>1, SubSeqProperties
  <2>3. DOMAIN rest = 1 .. Keep /\ \A i \in 1 .. Keep : rest[i] = snapshots[first + i]
    <3>1. n - (first + 1) + 1 = Keep /\ \A i \in 1 .. Keep : (first + 1) + i - 1 = first + i
      BY <1>0, <2>1
    <3> QED BY <2>2, <3>1, LenProperties
  <2>4. snapshots' = rest
    BY <1>2, <2>1 DEF Prune
  <2> HIDE DEF rest, first, n
  <2>5. ASSUME NEW k \in 1 .. Keep, NEW m \in 1 .. Keep, k < m
        PROVE  SeqGT(rest[m].text.serial, rest[k].text.serial)
    <3>1. first + k \in DOMAIN snapshots /\ first + m \in DOMAIN snapshots /\ first + k < first + m
      BY <1>0, <2>1, <2>5 DEF n
    <3> QED BY <2>3, <3>1 DEF HistoryIsOrdered
  <2> QED BY <2>3, <2>4, <2>5 DEF HistoryIsOrdered
<1>3. CASE Prune(d) /\ ~(Len(snapshots) > Keep)
  BY <1>3 DEF Prune, HistoryIsOrdered
<1>4. CASE ~InsertSnapshot(d) /\ ~Prune(d)
  <2>1. snapshots' = snapshots
    <3>1. GetZone(d) \/ BuildZone(d) \/ BuildRecords(d) \/ Abort(d) => snapshots' = snapshots
      BY DEF GetZone, BuildZone, BuildRecords, Abort
    <3>2. Commit(d) \/ Report(d) \/ SetSerial(d) => snapshots' = snapshots
      BY DEF Commit, Report, SetSerial
    <3>3. \A s \in Servers : Move(d, s) \/ Reload(d, s) => snapshots' = snapshots
      BY DEF Move, Reload
    <3> QED BY <1>4, <3>1, <3>2, <3>3 DEF Own
  <2> QED BY <2>1 DEF HistoryIsOrdered
<1> QED BY <1>1, <1>2, <1>3, <1>4

LEMMA InitOrderInv == Init /\ Chronological(mode) => OrderInv
<1> SUFFICES ASSUME Init, Chronological(mode) PROVE OrderInv
  OBVIOUS
<1>1. snapshots = <<>> /\ \A d \in Deploys : deploy[d].pc = "idle"
  BY DEF Init, Idle
<1>2. HistoryIsOrdered /\ \A c, m : SnapsBehind(c, m)
  BY <1>1 DEF HistoryIsOrdered, SnapsBehind
<1>3. (\A d \in Deploys : TextAhead(d)) /\ AllSnapsCounted
  BY <1>1, <1>2 DEF TextAhead, AllSnapsCounted, SnapsCounted, Publishing
<1>4. AloneInv /\ Chronological(mode)
  BY InitAloneInv
<1>5. Rising => AllOld
  BY RisingStartsOld
<1> QED BY <1>2, <1>3, <1>4, <1>5 DEF OrderInv

LEMMA NextOrderInv == OrderInv /\ [Next]_vars => OrderInv'
<1> SUFFICES ASSUME OrderInv, [Next]_vars PROVE OrderInv'
  OBVIOUS
<1>0. /\ AloneInv /\ AloneInv' /\ IInv /\ IInv' /\ TypeOK /\ ~mode.overlap /\ (Rising \/ Unrolled)
      /\ deploy \in [Deploys -> DeployStates]
  BY NextAloneInv, ChronologicalKinds DEF OrderInv, AloneInv, IInv, TypeOK
<1>1. Chronological(mode)' /\ Rising' = Rising /\ Unrolled' = Unrolled
  <2>1. mode' = mode
    BY <1>0, ModeStays
  <2> QED BY <2>1 DEF OrderInv, Rising, Unrolled, Wanted
<1>2. /\ Rising => AllOld'
      /\ Unrolled => AllSnapsCounted'
  BY <1>0, NextAllOld, NextAllSnapsCounted DEF OrderInv
<1>3. HistoryIsOrdered' /\ \A d \in Deploys : TextAhead(d)'
  <2>1. CASE Outside
    <3>1. UNCHANGED <<deploy, snapshots>>
      BY <1>0, <2>1, OutsideLeaves
    <3> QED BY <3>1 DEF OrderInv, HistoryIsOrdered, TextAhead
  <2>2. CASE Crash
    <3>1. UNCHANGED snapshots /\ \A d \in Deploys : deploy'[d].pc = "idle"
      BY <2>2 DEF Crash, Idle
    <3> QED BY <3>1 DEF OrderInv, HistoryIsOrdered, TextAhead, Publishing
  <2>3. ASSUME NEW d \in Deploys, Own(d) PROVE HistoryIsOrdered' /\ \A e \in Deploys : TextAhead(e)'
    <3>1. \A e \in Deploys \ {d} : deploy[e].pc = "idle" /\ deploy'[e] = deploy[e]
      BY <1>0, <2>3, OthersIdle
    <3>2. \A e \in Deploys \ {d} : TextAhead(e)'
      BY <3>1 DEF TextAhead, Publishing
    <3>3. TextAhead(d)'
      <4>1. CASE BuildRecords(d)
        BY <1>0, <4>1, StampTopsHistory, BumpTopsHistory DEF OrderInv
      <4>2. CASE ~BuildRecords(d)
        BY <1>0, <2>3, <4>2, TextStaysAhead DEF OrderInv
      <4> QED BY <4>1, <4>2
    <3>4. HistoryIsOrdered'
      BY <1>0, <2>3, OrderKept DEF OrderInv
    <3> QED BY <3>2, <3>3, <3>4
  <2> QED BY <2>1, <2>2, <2>3, Steps
<1> QED BY <1>0, <1>1, <1>2, <1>3 DEF OrderInv

\* serial.go and store.go, Publish: one deploy at a time, with growing stamps or without
\* rollbacks, a secondary or a reader of the history that has an earlier snapshot takes
\* every later one for newer.  Aborts, targets that fail after others were changed and
\* restarts between any two steps, those of Publish too, do not disturb this.
THEOREM SnapshotsAreOrdered == Spec => [](Chronological(mode) => HistoryIsOrdered)
<1> DEFINE Inv == AloneInv /\ (Chronological(mode) => OrderInv)
<1>1. Init => Inv
  BY InitAloneInv, InitOrderInv
<1>2. Inv /\ [Next]_vars => Inv'
  BY ModeStays, NextAloneInv, NextOrderInv
<1>3. Inv => (Chronological(mode) => HistoryIsOrdered)
  BY DEF OrderInv
<1> QED BY <1>1, <1>2, <1>3, PTL DEF Spec

-----------------------------------------------------------------------------
(* The zone that shows as published.                                       *)

Homing == {"commit", "setserial", "insert"}

\* What has been moved without a snapshot is the work of the deploy under way, which
\* will be published.
Homed ==
    /\ (\A d \in Deploys : deploy[d].pc \notin Homing) => strayed = {}
    /\ \A d \in Deploys : deploy[d].pc \in Homing => strayed \subseteq deploy[d].targets
    /\ \A d \in Deploys : deploy[d].pc = "commit" => deploy[d].targets = deploy[d].moved \cup deploy[d].toMove

HomeInv == AloneInv /\ (Confirmed => Homed)

LEMMA HomedKept ==
    ASSUME AloneInv, Confirmed, Homed, NEW d \in Deploys, Own(d)
    PROVE  Homed'
<1>0. /\ deploy \in [Deploys -> DeployStates] /\ Progress(d)
      /\ deploy[d].targets \subseteq Servers
  BY DEF AloneInv, IInv, TypeOK, DeployStates
<1>1. \A e \in Deploys \ {d} : deploy[e].pc = "idle" /\ deploy'[e] = deploy[e]
  BY OthersIdle DEF Confirmed
<1>2. /\ deploy[d].pc \notin Homing => strayed = {}
      /\ deploy[d].pc \in Homing => strayed \subseteq deploy[d].targets
      /\ deploy[d].pc = "commit" => deploy[d].targets = deploy[d].moved \cup deploy[d].toMove
  BY <1>1 DEF Homed, Homing
\* It is enough to look at d itself.
<1> DEFINE Home ==
      /\ deploy'[d].pc \notin Homing => strayed' = {}
      /\ deploy'[d].pc \in Homing => strayed' \subseteq deploy'[d].targets
      /\ deploy'[d].pc = "commit" => deploy'[d].targets = deploy'[d].moved \cup deploy'[d].toMove
<1>3. SUFFICES Home
  BY <1>1 DEF Homed, Homing
<1>4. CASE GetZone(d)
  BY <1>0, <1>2, <1>4 DEF GetZone, Idle, Homing
<1>5. CASE BuildZone(d) \/ BuildRecords(d) \/ Abort(d)
  <2>1. CASE BuildZone(d)
    BY <1>0, <1>2, <2>1 DEF BuildZone, DeployStates, Homing
  <2>2. CASE BuildRecords(d)
    BY <1>0, <1>2, <2>2 DEF BuildRecords, DeployStates, Homing
  <2>3. CASE Abort(d)
    BY <1>0, <1>2, <2>3 DEF Abort, Idle, Homing
  <2> QED BY <1>5, <2>1, <2>2, <2>3
<1>6. CASE Commit(d)
  <2>1. /\ deploy'[d].pc = "commit" /\ strayed' = strayed /\ strayed = {}
        /\ deploy'[d].targets = deploy[d].targets /\ deploy'[d].toMove = deploy[d].targets
        /\ deploy'[d].moved = deploy[d].moved
    BY <1>0, <1>2, <1>6 DEF Commit, DeployStates, Homing
  <2>2. deploy[d].moved = {}
    BY <1>0, <1>6 DEF AloneInv, InPlace, Commit, Progress, Confirmed
  <2> QED BY <2>1, <2>2 DEF Homing
<1>7. ASSUME NEW s \in Servers, Move(d, s) PROVE Home
  <2>1. /\ deploy[d].pc = "commit" /\ deploy'[d].pc = "commit" /\ s \in deploy[d].toMove
        /\ strayed' = strayed \cup {s} /\ deploy'[d].targets = deploy[d].targets
        /\ deploy'[d].toMove = deploy[d].toMove \ {s} /\ deploy'[d].moved = deploy[d].moved \cup {s}
    BY <1>0, <1>7 DEF Move, Place, Confirmed, DeployStates
  <2> QED BY <1>2, <2>1 DEF Homing
<1>8. ASSUME NEW s \in Servers, Reload(d, s) PROVE Home
  <2>1. /\ deploy[d].pc = "commit" /\ deploy'[d].pc = "commit" /\ strayed' = strayed
        /\ deploy'[d].targets = deploy[d].targets
        /\ deploy'[d].toMove = deploy[d].toMove /\ deploy'[d].moved = deploy[d].moved
    BY <1>0, <1>8 DEF Reload, DeployStates
  <2> QED BY <1>2, <2>1 DEF Homing
<1>9. CASE Report(d)
  <2>1. deploy[d].pc = "commit" /\ deploy[d].moved = deploy[d].targets
    BY <1>2, <1>9 DEF Report, Rolled
  <2>2. /\ deploy'[d].pc = "setserial" /\ strayed' = strayed
        /\ deploy'[d].targets = deploy[d].targets
    BY <1>0, <1>9, <2>1 DEF Report, DeployStates
  <2> QED BY <1>2, <2>1, <2>2 DEF Homing
<1>10. CASE SetSerial(d)
  BY <1>0, <1>2, <1>10 DEF SetSerial, DeployStates, Homing
<1>11. CASE InsertSnapshot(d)
  <2>1. /\ deploy[d].pc = "insert" /\ deploy'[d].pc = "prune" /\ strayed' = strayed \ deploy[d].targets
    BY <1>0, <1>11 DEF InsertSnapshot, DeployStates
  <2> QED BY <1>2, <2>1 DEF Homing
<1>12. CASE Prune(d)
  BY <1>0, <1>2, <1>12 DEF Prune, Idle, Homing
<1> QED BY <1>4, <1>5, <1>6, <1>7, <1>8, <1>9, <1>10, <1>11, <1>12 DEF Own

LEMMA NextHomeInv == HomeInv /\ [Next]_vars => HomeInv'
<1> SUFFICES ASSUME HomeInv, [Next]_vars PROVE HomeInv'
  OBVIOUS
<1>0. AloneInv /\ AloneInv' /\ TypeOK
  BY NextAloneInv DEF HomeInv, AloneInv, IInv
<1>1. CASE Outside
  <2>1. UNCHANGED <<mode, deploy, strayed>>
    BY <1>0, <1>1, OutsideLeaves
  <2> QED BY <1>0, <2>1 DEF HomeInv, Homed, Confirmed
<1>2. CASE Crash
  <2>1. ~Confirmed'
    BY <1>2 DEF Crash, Confirmed
  <2> QED BY <1>0, <2>1 DEF HomeInv
<1>3. ASSUME NEW d \in Deploys, Own(d) PROVE HomeInv'
  <2>1. mode' = mode
    BY <1>0, <1>3, OthersUndisturbed
  <2> QED BY <1>0, <1>3, <2>1, HomedKept DEF HomeInv, Confirmed
<1> QED BY <1>1, <1>2, <1>3, Steps

\* store.go, Dirty, and result.go, AllMoved: where deploys run one at a time, no mv fails
\* or goes unanswered and the daemon is not restarted in a deploy, a zone that shows as
\* published is what its servers have.  Without one of the three it need not be: the
\* runs deploy_overlap_stale and deploy_partial_revert.
THEOREM PublishedZoneIsLive == Spec => []ConfirmedIsLive
<1>1. Init => HomeInv
  BY InitAloneInv DEF Init, Idle, HomeInv, Homed, Homing
<1>2. ASSUME HomeInv, Confirmed PROVE PublishedIsLive
  <2>1. SUFFICES ASSUME InFlight = {}, Clean, NEW s \in Latest.targets
                 PROVE  file[s].soa = zone.soa /\ file[s].recs = zone.recs
    BY DEF PublishedIsLive
  <2>2. strayed = {}
    BY <1>2, <2>1 DEF HomeInv, Homed, Homing, InFlight
  <2>3. file[s] = Latest.text
    BY <1>2, <2>1, <2>2 DEF HomeInv, AloneInv, LatestInPlace, Clean, Confirmed
  <2>4. file[s] = Render(zone)
    BY <2>1, <2>3 DEF Clean
  <2> QED BY <2>4 DEF Render
<1>3. HomeInv => ConfirmedIsLive
  BY <1>2 DEF ConfirmedIsLive
<1> QED BY <1>1, <1>3, NextHomeInv, PTL DEF Spec

=============================================================================

----------------------------- MODULE DeployFlow -----------------------------
(***************************************************************************)
(* The life of one zone: operators edit it, deploy it and roll it back     *)
(* while earlier deploys are still under way (src/internal/web/zones.go,   *)
(* src/internal/store/store.go), over the deploy pipeline, which appears   *)
(* here as Rollout describes it: validate everywhere, then move and reload *)
(* target by target.                                                       *)
(*                                                                         *)
(* handleDeploy holds no lock.  Its reads of the database, its remote      *)
(* commands and the statements of Publish are separate steps, and the      *)
(* steps of two deploys, of an edit and of a rollback interleave.  The     *)
(* database executes one statement or transaction at a time.               *)
(*                                                                         *)
(* A text is a rendered zone: its SOA settings, its records and the serial *)
(* in its SOA.  Zone creation and deletion are in ZoneStore.               *)
(***************************************************************************)
EXTENDS Serial, Sequences, FiniteSets

CONSTANTS
    Servers,     \* the servers of the configuration file
    Deploys,     \* handler slots: how many deploys of the zone may overlap
    Settings,    \* values of the SOA settings of the zone
    Contents,    \* values of its records
    Modes,       \* environments of a run: see Init
    TargetSets,  \* target lists an operator may choose
    Keep,        \* cfg.SnapshotsKeep
    MaxDeploys   \* bound: deploys in one behaviour

ASSUME KeepAssumption == Keep \in Nat \ {0}
ASSUME TargetsAssumption == TargetSets \subseteq SUBSET Servers
ASSUME BoundAssumption == MaxDeploys \in Nat
ASSUME ModesAssumption ==
    \A m \in Modes :
        /\ m.initSerials \subseteq Serials
        /\ Len(m.times) \in Nat \ {0} /\ DOMAIN m.times = 1 .. Len(m.times)
        /\ \A t \in DOMAIN m.times : Stamp(m.policy, m.times[t]) \in Serials

VARIABLES
    mode,       \* the serial policy and what may go wrong in this behaviour
    clock,      \* the wall clock, an index into the readings mode.times
    zone,       \* the row of the zone and its records
    snapshots,  \* its snapshots, oldest first, with the servers they were for
    deploy,     \* per handler slot: the deploy in progress, and as history what it
                \* has really written: pairs of a server and a text (placed)
    started,    \* deploys started so far
    bumpedAt,   \* the clock when BumpSerial last ran
    file,       \* per server: the zone file
    served,     \* per server: what named has loaded
    strayed     \* history: servers moved by a deploy that did not get published

vars == <<mode, clock, zone, snapshots, deploy, started, bumpedAt, file, served, strayed>>

storeVars == <<zone, snapshots>>
serverVars == <<file, served>>

Texts == [soa : Settings, recs : Contents, serial : Serials]
NoText == [soa |-> "none", recs |-> "none", serial |-> 0]

\* zone.Build followed by Render.
Render(z) == [soa |-> z.soa, recs |-> z.recs, serial |-> z.serial]

Idle == [pc |-> "idle", targets |-> {}, text |-> NoText, toMove |-> {}, toReload |-> {}, moved |-> {}, placed |-> {}]

InFlight == {d \in Deploys : deploy[d].pc # "idle"}

\* Created with serial 0, or imported with any serial of InitSerials; nothing has
\* been deployed.
Init ==
    /\ mode \in Modes
    /\ clock = 1
    /\ zone \in [soa : Settings, recs : Contents, serial : mode.initSerials, targets : {Servers}]
    /\ snapshots = <<>>
    /\ deploy = [d \in Deploys |-> Idle]
    /\ started = 0
    /\ bumpedAt = 0
    /\ file = [s \in Servers |-> NoText]
    /\ served = [s \in Servers |-> NoText]
    /\ strayed = {}

-----------------------------------------------------------------------------
(* Operators and time.                                                     *)

\* handleUpdateSettings and the record handlers: one statement each.
EditSettings(soa) ==
    /\ zone' = [zone EXCEPT !.soa = soa]
    /\ UNCHANGED <<mode, clock, snapshots, deploy, started, bumpedAt, serverVars, strayed>>

EditRecords(recs) ==
    /\ zone' = [zone EXCEPT !.recs = recs]
    /\ UNCHANGED <<mode, clock, snapshots, deploy, started, bumpedAt, serverVars, strayed>>

EditTargets(targets) ==
    /\ "targets" \in mode.events
    /\ zone' = [zone EXCEPT !.targets = targets]
    /\ UNCHANGED <<mode, clock, snapshots, deploy, started, bumpedAt, serverVars, strayed>>

\* RestoreSnapshot: settings, records and serial come from the snapshot, the
\* targets stay.  A snapshot's text never changes, so its SELECT and the
\* transaction that follows are one step.
Rollback(k) ==
    /\ "rollback" \in mode.events
    /\ zone' = [soa |-> snapshots[k].text.soa, recs |-> snapshots[k].text.recs,
                serial |-> snapshots[k].text.serial, targets |-> zone.targets]
    /\ UNCHANGED <<mode, clock, snapshots, deploy, started, bumpedAt, serverVars, strayed>>

\* The clock is bounded by mode.times.
Tick ==
    /\ clock < Len(mode.times)
    /\ clock' = clock + 1
    /\ UNCHANGED <<mode, zone, snapshots, deploy, started, bumpedAt, serverVars, strayed>>

-----------------------------------------------------------------------------
(* handleDeploy.                                                           *)

GetZone(d) ==
    /\ deploy[d].pc = "idle"
    /\ started < MaxDeploys
    /\ mode.overlap \/ InFlight = {}
    /\ started' = started + 1
    /\ deploy' = [deploy EXCEPT ![d] = [Idle EXCEPT !.pc = "build", !.targets = zone.targets]]
    /\ UNCHANGED <<mode, clock, storeVars, bumpedAt, serverVars, strayed>>

\* Build's own GetZone: a second read of the row.
BuildZone(d) ==
    /\ deploy[d].pc = "build"
    /\ deploy' = [deploy EXCEPT ![d].pc = "records",
                                ![d].text = [NoText EXCEPT !.soa = zone.soa, !.serial = zone.serial]]
    /\ UNCHANGED <<mode, clock, storeVars, started, bumpedAt, serverVars, strayed>>

\* Build's Records, then BumpSerial and Render.  In a mode with spacing no two
\* deploys read the same clock.
BuildRecords(d) ==
    /\ deploy[d].pc = "records"
    /\ mode.spaced => clock > bumpedAt
    /\ bumpedAt' = clock
    /\ deploy' = [deploy EXCEPT ![d].pc = "stage",
                                ![d].text.recs = zone.recs,
                                ![d].text.serial = NextSerial(mode.policy, @, mode.times[clock])]
    /\ UNCHANGED <<mode, clock, storeVars, started, serverVars, strayed>>

\* Deploy returns an error, or a target did not validate the text.
Abort(d) ==
    /\ deploy[d].pc = "stage"
    /\ deploy[d].targets = {} \/ "abort" \in mode.events
    /\ deploy' = [deploy EXCEPT ![d] = Idle]
    /\ UNCHANGED <<mode, clock, storeVars, started, bumpedAt, serverVars, strayed>>

Commit(d) ==
    /\ deploy[d].pc = "stage"
    /\ deploy[d].targets # {}
    /\ deploy' = [deploy EXCEPT ![d].pc = "commit", ![d].toMove = deploy[d].targets]
    /\ UNCHANGED <<mode, clock, storeVars, started, bumpedAt, serverVars, strayed>>

\* The text replaces the zone file of a target.
Place(d, s) ==
    /\ file' = [file EXCEPT ![s] = deploy[d].text]
    /\ strayed' = strayed \cup {s}

\* mv on one target: done; done but its answer lost; or not done.
Move(d, s) ==
    /\ deploy[d].pc = "commit" /\ s \in deploy[d].toMove
    /\ \/ /\ Place(d, s)
          /\ deploy' = [deploy EXCEPT ![d].toMove = @ \ {s}, ![d].toReload = @ \cup {s},
                                      ![d].moved = @ \cup {s}, ![d].placed = @ \cup {<<s, deploy[d].text>>}]
       \/ /\ "lost" \in mode.events
          /\ Place(d, s)
          /\ deploy' = [deploy EXCEPT ![d].toMove = @ \ {s},
                                      ![d].placed = @ \cup {<<s, deploy[d].text>>}]
       \/ /\ "move" \in mode.events
          /\ deploy' = [deploy EXCEPT ![d].toMove = @ \ {s}]
          /\ UNCHANGED <<file, strayed>>
    /\ UNCHANGED <<mode, clock, storeVars, started, bumpedAt, served>>

\* rndc reload: named loads the zone file as it is now, or does not reload.
Reload(d, s) ==
    /\ deploy[d].pc = "commit" /\ s \in deploy[d].toReload
    /\ \/ served' = [served EXCEPT ![s] = file[s]]
       \/ "reload" \in mode.events /\ UNCHANGED served
    /\ deploy' = [deploy EXCEPT ![d].toReload = @ \ {s}]
    /\ UNCHANGED <<mode, clock, storeVars, started, bumpedAt, file, strayed>>

\* Every goroutine has ended.
Rolled(d) == deploy[d].pc = "commit" /\ deploy[d].toMove = {} /\ deploy[d].toReload = {}

\* Mutant of Report: any deploy that changed a target is published.
MutantReportPartial(d) ==
    /\ Rolled(d)
    /\ deploy' = [deploy EXCEPT ![d] = IF deploy[d].moved # {} THEN [@ EXCEPT !.pc = "setserial"] ELSE Idle]
    /\ UNCHANGED <<mode, clock, storeVars, started, bumpedAt, serverVars, strayed>>

\* Deploy has returned: Publish follows if AllMoved.
Report(d) ==
    /\ Rolled(d)
    /\ deploy' = [deploy EXCEPT ![d] =
                     IF deploy[d].moved = deploy[d].targets THEN [@ EXCEPT !.pc = "setserial"] ELSE Idle]
    /\ UNCHANGED <<mode, clock, storeVars, started, bumpedAt, serverVars, strayed>>

-----------------------------------------------------------------------------
(* Publish: three statements.                                              *)

\* Mutant of SetSerial: the serial deployed is not stored.
MutantSetSerialSkips(d) ==
    /\ deploy[d].pc = "setserial"
    /\ deploy' = [deploy EXCEPT ![d].pc = "insert"]
    /\ UNCHANGED <<mode, clock, zone, snapshots, started, bumpedAt, serverVars, strayed>>

SetSerial(d) ==
    /\ deploy[d].pc = "setserial"
    /\ zone' = [zone EXCEPT !.serial = deploy[d].text.serial]
    /\ deploy' = [deploy EXCEPT ![d].pc = "insert"]
    /\ UNCHANGED <<mode, clock, snapshots, started, bumpedAt, serverVars, strayed>>

\* Mutant of InsertSnapshot: the zone is rendered again, as it is now.
MutantInsertSnapshotRenders(d) ==
    /\ deploy[d].pc = "insert"
    /\ snapshots' = Append(snapshots, [text |-> Render(zone), targets |-> deploy[d].targets,
                                        placed |-> deploy[d].placed])
    /\ strayed' = strayed \ deploy[d].targets
    /\ deploy' = [deploy EXCEPT ![d].pc = "prune"]
    /\ UNCHANGED <<mode, clock, zone, started, bumpedAt, serverVars>>

InsertSnapshot(d) ==
    /\ deploy[d].pc = "insert"
    /\ snapshots' = Append(snapshots, [text |-> deploy[d].text, targets |-> deploy[d].targets,
                                        placed |-> deploy[d].placed])
    /\ strayed' = strayed \ deploy[d].targets
    /\ deploy' = [deploy EXCEPT ![d].pc = "prune"]
    /\ UNCHANGED <<mode, clock, zone, started, bumpedAt, serverVars>>

\* Mutant of Prune: off by one, so Keep + 1 snapshots stay.
MutantPruneOffByOne(d) ==
    /\ deploy[d].pc = "prune"
    /\ snapshots' = IF Len(snapshots) > Keep + 1
                    THEN SubSeq(snapshots, Len(snapshots) - Keep, Len(snapshots))
                    ELSE snapshots
    /\ deploy' = [deploy EXCEPT ![d] = Idle]
    /\ UNCHANGED <<mode, clock, zone, started, bumpedAt, serverVars, strayed>>

\* DELETE all but the newest Keep; the handler then answers.
Prune(d) ==
    /\ deploy[d].pc = "prune"
    /\ snapshots' = IF Len(snapshots) > Keep
                    THEN SubSeq(snapshots, Len(snapshots) - Keep + 1, Len(snapshots))
                    ELSE snapshots
    /\ deploy' = [deploy EXCEPT ![d] = Idle]
    /\ UNCHANGED <<mode, clock, zone, started, bumpedAt, serverVars, strayed>>

\* The daemon stops between two steps and is started again: the deploys in
\* progress are gone, the database and the servers keep what they have.
Crash ==
    /\ "crash" \in mode.events
    /\ InFlight # {}
    /\ deploy' = [d \in Deploys |-> Idle]
    /\ UNCHANGED <<mode, clock, storeVars, started, bumpedAt, serverVars, strayed>>

Next ==
    \/ \E soa \in Settings : EditSettings(soa)
    \/ \E recs \in Contents : EditRecords(recs)
    \/ \E targets \in TargetSets : EditTargets(targets)
    \/ \E k \in DOMAIN snapshots : Rollback(k)
    \/ Tick
    \/ \E d \in Deploys :
          \/ GetZone(d) \/ BuildZone(d) \/ BuildRecords(d)
          \/ Abort(d) \/ Commit(d) \/ Report(d)
          \/ SetSerial(d) \/ InsertSnapshot(d) \/ Prune(d)
          \/ \E s \in Servers : Move(d, s) \/ Reload(d, s)
    \/ Crash

Spec == Init /\ [][Next]_vars

-----------------------------------------------------------------------------
(* Properties.                                                             *)

SnapshotRows == [text : Texts, targets : SUBSET Servers, placed : SUBSET (Servers \X Texts)]

DeployStates ==
    [pc : {"idle", "build", "records", "stage", "commit", "setserial", "insert", "prune"},
     targets : SUBSET Servers,
     text : [soa : Settings \cup {"none"}, recs : Contents \cup {"none"}, serial : Serials],
     toMove : SUBSET Servers, toReload : SUBSET Servers, moved : SUBSET Servers,
     placed : SUBSET (Servers \X Texts)]

TypeOK ==
    /\ mode \in Modes
    /\ clock \in DOMAIN mode.times
    /\ zone \in [soa : Settings, recs : Contents, serial : Serials, targets : SUBSET Servers]
    /\ snapshots \in Seq(SnapshotRows)
    /\ deploy \in [Deploys -> DeployStates]
    /\ started \in 0 .. MaxDeploys
    /\ bumpedAt \in 0 .. Len(mode.times)
    /\ {file, served} \subseteq [Servers -> Texts \cup {NoText}]
    /\ strayed \subseteq Servers

Latest == snapshots[Len(snapshots)]

\* ~Dirty: the zone shows as published.
Clean == snapshots # <<>> /\ Render(zone) = Latest.text

\* The serials are stamps, and grow from deploy to deploy.
GrowingStamps(m) ==
    LET stamp(t) == Stamp(m.policy, m.times[t])
    IN  /\ m.spaced
        /\ \A t \in DOMAIN m.times : stamp(t) < Half /\ \A x \in m.initSerials : x < stamp(t)
        /\ \A t, u \in DOMAIN m.times : t < u => stamp(t) < stamp(u)

\* Nothing that happens takes a serial back, and no deploy counts up into a stamp.
NeverBack(m, events) ==
    /\ m.events \cap events = {}
    /\ \A t \in DOMAIN m.times : Stamp(m.policy, m.times[t]) + MaxDeploys < Half

\* The modes in which reloads bring newer serials: one deploy at a time, and either
\* growing stamps, or every deploy that moves anything gets published.
Orderly(m) ==
    /\ ~m.overlap
    /\ GrowingStamps(m) \/ NeverBack(m, {"move", "lost", "crash", "rollback"})

\* For the snapshots to be in order it is enough that nothing is rolled back:
\* whatever failed and wherever the daemon stopped, the row has the latest serial
\* published, or a newer one.
Chronological(m) ==
    /\ ~m.overlap
    /\ GrowingStamps(m) \/ NeverBack(m, {"rollback"})

\* serial.go: BumpSerial advances the serial "so BIND treats the zone as
\* changed".  Whatever named loads next is newer than what it serves.
ReloadIsNewer ==
    [][\A s \in Servers :
          served'[s] # served[s] /\ served[s] # NoText
              => SeqGT(served'[s].serial, served[s].serial)]_vars

\* So it is in the orderly modes, over aborts, skipped targets, failed reloads, the wrap
\* and, where the stamps grow, any fault, rollback or restart.
OrderlyReloads ==
    [][Orderly(mode) =>
          \A s \in Servers :
              served'[s] # served[s] /\ served[s] # NoText
                  => SeqGT(served'[s].serial, served[s].serial)]_vars

\* What is published later is newer for whoever has an earlier snapshot, however many
\* deploys were aborted, left partial or cut off by a restart in between, and however
\* many times the zone was rolled back if the serials are growing stamps.
HistoryIsOrdered ==
    \A k, m \in DOMAIN snapshots :
        k < m => SeqGT(snapshots[m].text.serial, snapshots[k].text.serial)

\* DESIGN.md: snapshots are "the rendered zone text actually deployed".  The text
\* of each one, with its serial, has replaced the zone file of every server its
\* deploy was for, however the zone was edited, deployed or rolled back meanwhile.
SnapshotWasDeployed ==
    \A k \in DOMAIN snapshots :
        /\ snapshots[k].targets # {}
        /\ \A s \in snapshots[k].targets : <<s, snapshots[k].text>> \in snapshots[k].placed

\* A zone that shows as published is in place on the servers of its last
\* snapshot, apart from those a later deploy moved without being published.
CleanMeansLive ==
    Clean => \A s \in Latest.targets \ strayed : file[s] = Latest.text

\* The serial the next deploy will be bumped from is the published one, so long
\* as nothing is rolled back and the daemon does not stop inside Publish.
StoredSerialIsPublished ==
    (InFlight = {} /\ snapshots # <<>> /\ mode.events \cap {"rollback", "crash"} = {})
        => zone.serial = Latest.text.serial

\* Overlapping deploys may exceed the limit by the prunes still to come.  More stays
\* behind after a crash between INSERT and DELETE or a DELETE that fails (store.go
\* returns its error), until the next deploy prunes; neither is in these modes.
HistoryBounded ==
    "crash" \notin mode.events =>
        Len(snapshots) <= Keep + Cardinality({d \in Deploys : deploy[d].pc = "prune"})

\* store.go: "Dirty reports whether the zone has changes since its last deploy",
\* and result.go lets a caller whose deploy moved everywhere "safely record it as
\* the new published state".  With no deploy under way, the servers of a zone that
\* shows as published have its settings and records, whatever the serial.
PublishedIsLive ==
    InFlight = {} /\ Clean =>
        \A s \in Latest.targets : file[s].soa = zone.soa /\ file[s].recs = zone.recs

\* Deploys run one at a time, every mv answers what it did, and the daemon does not
\* stop in one of them.
Confirmed == ~mode.overlap /\ mode.events \cap {"move", "lost", "crash"} = {}

\* Then it is so, whatever else fails and whenever the zone is edited or rolled back:
\* what Publish stores is what handleDeploy rendered and sent, not the row of the moment.
ConfirmedIsLive == Confirmed => PublishedIsLive

=============================================================================

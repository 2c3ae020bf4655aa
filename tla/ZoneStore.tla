------------------------------ MODULE ZoneStore ------------------------------
(***************************************************************************)
(* The zone database (src/internal/store/store.go): zones, their records   *)
(* and their snapshots, under the handlers that create, import, edit,      *)
(* delete, publish and restore them.                                       *)
(*                                                                         *)
(* The connection pool has one connection, so a statement or a transaction *)
(* is one step.  A method or handler that runs several is a job, whose     *)
(* statements interleave with those of other jobs and with the one-        *)
(* statement edits.  Ids come from AUTOINCREMENT counters.                 *)
(*                                                                         *)
(* Of the SOA settings and of the data of a record there is the TTL, which *)
(* Build fills in where it is 0; the others are carried along like it.  An *)
(* entry is a record without its id.  A rendered zone (a content) is its   *)
(* SOA TTL, its serial and its entries in render order.                    *)
(***************************************************************************)
EXTENDS Integers, Sequences, FiniteSets

CONSTANTS
    Zones,        \* zone names
    Ttls,         \* TTLs that forms and files give; 0 is a blank or an explicit 0
    Keys,         \* the sort keys (name, type) of records, in their order
    ImportBodies, \* the record lists of the zone files offered for import
    Jobs,         \* handler slots for the operations of several statements
    Keep,         \* snapshots kept per zone
    MaxRecordId,  \* bound on records.id
    MaxSnapshotId, \* bound on snapshots.id
    MaxOps        \* bound on the operations started in one behaviour

ASSUME KeysAssumption == Keys \subseteq Nat /\ Ttls \subseteq Nat
ASSUME KeepAssumption == Keep \in Nat \ {0}
ASSUME BoundAssumption == MaxRecordId \in Nat /\ MaxSnapshotId \in Nat /\ MaxOps \in Nat
ASSUME BodiesAssumption == \A body \in ImportBodies : body \in Seq([key : Keys, ttl : Ttls])

VARIABLES
    zones,        \* per name: its row, or NoRow
    records,      \* the rows of records
    snapshots,    \* the rows of snapshots
    recordSeq,    \* sqlite_sequence of records: the last id given out
    snapshotSeq,  \* sqlite_sequence of snapshots
    job,          \* per slot: the operation in progress
    ops,          \* operations started, bounded by MaxOps
    retired       \* history: ids of deleted records and snapshots

vars == <<zones, records, snapshots, recordSeq, snapshotSeq, job, ops, retired>>

NoRow == [soa |-> 0, serial |-> 0]
NoJob == [op |-> "none", zone |-> "none", content |-> [soa |-> 0, serial |-> 0, body |-> <<>>]]

Exists(z) == zones[z] # NoRow

RecordsOf(z) == {r \in records : r.zone = z}
SnapshotsOf(z) == {s \in snapshots : s.zone = z}
Newest(rows) == CHOOSE r \in rows : \A q \in rows : q.id <= r.id

\* applyDefaults, NormalizeRecord and Build put a default for a TTL of 0.
DefaultTtl == 3600
OrElse(ttl, default) == IF ttl = 0 THEN default ELSE ttl

\* ORDER BY name, type, id.
Before(a, b) == a.key < b.key \/ (a.key = b.key /\ a.id < b.id)
Rank(rows, r) == Cardinality({q \in rows : Before(q, r)}) + 1
Sorted(rows) == [k \in 1 .. Cardinality(rows) |-> CHOOSE r \in rows : Rank(rows, r) = k]

\* Records.
Rows(z) == Sorted(RecordsOf(z))

\* Build: a record with TTL 0 is rendered with the TTL of the zone.
Built(soa, serial, rows) ==
    LET ttl == OrElse(soa, DefaultTtl)
    IN  [soa |-> ttl, serial |-> serial,
         body |-> [k \in DOMAIN rows |-> [key |-> rows[k].key, ttl |-> OrElse(rows[k].ttl, ttl)]]]

Content(z) == Built(zones[z].soa, zones[z].serial, Rows(z))

Init ==
    /\ zones = [z \in Zones |-> NoRow]
    /\ records = {} /\ snapshots = {}
    /\ recordSeq = 0 /\ snapshotSeq = 0
    /\ job = [j \in Jobs |-> NoJob]
    /\ ops = 0
    /\ retired = [records |-> {}, snapshots |-> {}]

\* One more operation begins.
Begin == ops < MaxOps /\ ops' = ops + 1

Ids(rows) == {r.id : r \in rows}

\* Mutant of LastRecordId: without AUTOINCREMENT, the largest id in the table.
MutantLastRecordId == IF records = {} THEN 0 ELSE Newest(records).id

\* The id that the next INSERT goes on from.
LastRecordId == recordSeq

\* The rows that inserting a list of entries into a zone adds.
NewRows(z, body) ==
    {[id |-> LastRecordId + k, zone |-> z, key |-> body[k].key, ttl |-> body[k].ttl] : k \in DOMAIN body}

\* Ids are bounded by MaxRecordId.
Insert(kept, z, body) ==
    /\ LastRecordId + Len(body) <= MaxRecordId
    /\ records' = kept \cup NewRows(z, body)
    /\ recordSeq' = LastRecordId + Len(body)

-----------------------------------------------------------------------------
(* Operations of one statement.                                            *)

\* Mutant of DeleteZone: PRAGMA foreign_keys forgotten, so nothing cascades.
MutantDeleteZoneOnly(z) ==
    /\ Begin
    /\ Exists(z)
    /\ zones' = [zones EXCEPT ![z] = NoRow]
    /\ UNCHANGED <<records, snapshots, recordSeq, snapshotSeq, job, retired>>

\* DELETE with ON DELETE CASCADE on both tables.
DeleteZone(z) ==
    /\ Begin
    /\ Exists(z)
    /\ zones' = [zones EXCEPT ![z] = NoRow]
    /\ records' = records \ RecordsOf(z)
    /\ snapshots' = snapshots \ SnapshotsOf(z)
    /\ retired' = [records |-> retired.records \cup Ids(RecordsOf(z)),
                   snapshots |-> retired.snapshots \cup Ids(SnapshotsOf(z))]
    /\ UNCHANGED <<recordSeq, snapshotSeq, job>>

UpdateZoneSettings(z, ttl) ==
    /\ Begin
    /\ Exists(z)
    /\ zones' = [zones EXCEPT ![z].soa = OrElse(ttl, DefaultTtl)]
    /\ UNCHANGED <<records, snapshots, recordSeq, snapshotSeq, job, retired>>

\* NormalizeRecord: a blank TTL is not that of the zone but 3600.
Normalized(entry) == [entry EXCEPT !.ttl = OrElse(@, DefaultTtl)]

\* The foreign key refuses a record of no zone.
AddRecord(z, entry) ==
    /\ Begin
    /\ Exists(z)
    /\ Insert(records, z, <<Normalized(entry)>>)
    /\ UNCHANGED <<zones, snapshots, snapshotSeq, job, retired>>

\* The id comes from a page rendered at any time before; a stale one finds no row.
UpdateRecord(z, id, entry) ==
    /\ Begin
    /\ \E r \in RecordsOf(z) :
          /\ r.id = id
          /\ records' = (records \ {r}) \cup {[r EXCEPT !.key = entry.key, !.ttl = Normalized(entry).ttl]}
    /\ UNCHANGED <<zones, snapshots, recordSeq, snapshotSeq, job, retired>>

DeleteRecord(z, id) ==
    /\ Begin
    /\ \E r \in RecordsOf(z) : r.id = id /\ records' = records \ {r}
    /\ retired' = [retired EXCEPT !.records = @ \cup {id}]
    /\ UNCHANGED <<zones, snapshots, recordSeq, snapshotSeq, job>>

-----------------------------------------------------------------------------
(* Operations of several statements.                                       *)

Start(j, op, z, content) ==
    /\ Begin
    /\ job[j] = NoJob
    /\ job' = [job EXCEPT ![j] = [op |-> op, zone |-> z, content |-> content]]
    /\ UNCHANGED <<zones, records, snapshots, recordSeq, snapshotSeq, retired>>

At(j, op) == job[j].op = op
Step(j, op) == job' = [job EXCEPT ![j].op = op]
Finish(j) == job' = [job EXCEPT ![j] = NoJob]

\* handleCreateZone finds no zone of that name; the INSERT comes later.
CreateCheck(j, z, ttl) ==
    /\ ~Exists(z)
    /\ Start(j, "create", z, [soa |-> OrElse(ttl, DefaultTtl), serial |-> 0, body |-> <<>>])

\* So does ImportZone, which keeps the TTLs of the records as the file has them.
\* The serial of the file is 0 here: nothing below compares serials of two zones.
ImportCheck(j, z, ttl, body) ==
    /\ ~Exists(z)
    /\ Start(j, "import", z, [soa |-> OrElse(ttl, DefaultTtl), serial |-> 0, body |-> body])

NewRow(content) == [soa |-> content.soa, serial |-> content.serial]

\* The primary key refuses a zone that was created since the check.
CreateZone(j) ==
    /\ At(j, "create")
    /\ zones' = IF Exists(job[j].zone) THEN zones
                ELSE [zones EXCEPT ![job[j].zone] = NewRow(job[j].content)]
    /\ Finish(j)
    /\ UNCHANGED <<records, snapshots, recordSeq, snapshotSeq, ops, retired>>

\* Mutant of ImportZone: INSERT OR REPLACE.
MutantImportReplaces(j) ==
    /\ At(j, "import")
    /\ zones' = [zones EXCEPT ![job[j].zone] = NewRow(job[j].content)]
    /\ Insert(records, job[j].zone, job[j].content.body)
    /\ Finish(j)
    /\ UNCHANGED <<snapshots, snapshotSeq, ops, retired>>

\* The row and the records in one transaction, which fails likewise.
ImportZone(j) ==
    /\ At(j, "import")
    /\ \/ /\ ~Exists(job[j].zone)
          /\ zones' = [zones EXCEPT ![job[j].zone] = NewRow(job[j].content)]
          /\ Insert(records, job[j].zone, job[j].content.body)
       \/ /\ Exists(job[j].zone)
          /\ UNCHANGED <<zones, records, recordSeq>>
    /\ Finish(j)
    /\ UNCHANGED <<snapshots, snapshotSeq, ops, retired>>

\* RestoreSnapshot's SELECT, with the zone and the id of the history page.
RestoreSelect(j, z, id) ==
    \E s \in SnapshotsOf(z) : s.id = id /\ Start(j, "restore", z, s.content)

\* Mutant of RestoreCommit: the records restored join the current ones.
MutantRestoreMerges(j) ==
    /\ At(j, "restore")
    /\ Exists(job[j].zone)
    /\ LET z == job[j].zone
           old == job[j].content
       IN  /\ zones' = [zones EXCEPT ![z] = NewRow(old)]
           /\ Insert(records, z, old.body)
    /\ Finish(j)
    /\ UNCHANGED <<snapshots, snapshotSeq, ops, retired>>

\* Its transaction: UPDATE the row, DELETE the records, INSERT those of the
\* content.  The UPDATE of a deleted zone touches no row and goes unnoticed; its
\* first INSERT breaks the foreign key and rolls everything back.
RestoreCommit(j) ==
    /\ At(j, "restore")
    /\ LET z == job[j].zone
           old == job[j].content
       IN  \/ /\ Exists(z)
              /\ zones' = [zones EXCEPT ![z] = NewRow(old)]
              /\ Insert(records \ RecordsOf(z), z, old.body)
              /\ retired' = [retired EXCEPT !.records = @ \cup Ids(RecordsOf(z))]
           \/ /\ ~Exists(z)
              /\ UNCHANGED <<zones, records, recordSeq, retired>>
    /\ Finish(j)
    /\ UNCHANGED <<snapshots, snapshotSeq, ops>>

\* A deploy: Build reads the row, then the records, and the serial is bumped.
BuildZone(j, z) ==
    /\ Exists(z)
    /\ Start(j, "records", z, [soa |-> zones[z].soa, serial |-> zones[z].serial + 1, body |-> <<>>])

BuildRecords(j) ==
    /\ At(j, "records")
    /\ job' = [job EXCEPT ![j].op = "deployed",
                          ![j].content = Built(@.soa, @.serial, Rows(job[j].zone))]
    /\ UNCHANGED <<zones, records, snapshots, recordSeq, snapshotSeq, ops, retired>>

\* The zone does not build, its deploy did not reach every target, or SetSerial
\* finds no zone.
GiveUp(j) ==
    /\ At(j, "records") \/ At(j, "deployed")
    /\ Finish(j)
    /\ UNCHANGED <<zones, records, snapshots, recordSeq, snapshotSeq, ops, retired>>

\* Mutant of SetSerial: the rows that the UPDATE touched are not counted.
MutantSetSerialUnchecked(j) ==
    /\ At(j, "deployed")
    /\ zones' = [zones EXCEPT ![job[j].zone].serial = job[j].content.serial]
    /\ Step(j, "insert")
    /\ UNCHANGED <<records, snapshots, recordSeq, snapshotSeq, ops, retired>>

\* Publish, first statement: an UPDATE that finds no row ends it.
SetSerial(j) ==
    /\ At(j, "deployed")
    /\ Exists(job[j].zone)
    /\ zones' = [zones EXCEPT ![job[j].zone].serial = job[j].content.serial]
    /\ Step(j, "insert")
    /\ UNCHANGED <<records, snapshots, recordSeq, snapshotSeq, ops, retired>>

\* Second: the foreign key refuses a snapshot of a zone deleted since.  Ids are
\* bounded by MaxSnapshotId.
InsertSnapshot(j) ==
    /\ At(j, "insert")
    /\ \/ /\ Exists(job[j].zone)
          /\ snapshotSeq < MaxSnapshotId
          /\ snapshots' = snapshots \cup {[id |-> snapshotSeq + 1, zone |-> job[j].zone, content |-> job[j].content]}
          /\ snapshotSeq' = snapshotSeq + 1
          /\ Step(j, "prune")
       \/ /\ ~Exists(job[j].zone)
          /\ UNCHANGED <<snapshots, snapshotSeq>>
          /\ Finish(j)
    /\ UNCHANGED <<zones, records, recordSeq, ops, retired>>

\* The newest Keep of a set of rows (ORDER BY id DESC LIMIT keep).
NewestKept(rows) == {s \in rows : Cardinality({t \in rows : t.id > s.id}) < Keep}

\* Mutant of Surplus: the inner SELECT lacks its WHERE zone=?.
MutantSurplusAllZones(z) == SnapshotsOf(z) \ NewestKept(snapshots)

Surplus(z) == SnapshotsOf(z) \ NewestKept(SnapshotsOf(z))

\* Third: DELETE the others of the zone.
Prune(j) ==
    /\ At(j, "prune")
    /\ snapshots' = snapshots \ Surplus(job[j].zone)
    /\ retired' = [retired EXCEPT !.snapshots = @ \cup Ids(Surplus(job[j].zone))]
    /\ Finish(j)
    /\ UNCHANGED <<zones, records, recordSeq, snapshotSeq, ops>>

Entries == [key : Keys, ttl : Ttls]

Next ==
    \/ \E z \in Zones :
          \/ DeleteZone(z)
          \/ \E ttl \in Ttls : UpdateZoneSettings(z, ttl)
          \/ \E entry \in Entries : AddRecord(z, entry)
          \/ \E id \in 1 .. MaxRecordId :
                DeleteRecord(z, id) \/ \E entry \in Entries : UpdateRecord(z, id, entry)
          \/ \E j \in Jobs :
                \/ \E ttl \in Ttls :
                      CreateCheck(j, z, ttl) \/ \E body \in ImportBodies : ImportCheck(j, z, ttl, body)
                \/ \E id \in 1 .. MaxSnapshotId : RestoreSelect(j, z, id)
                \/ BuildZone(j, z)
    \/ \E j \in Jobs :
          \/ CreateZone(j) \/ ImportZone(j) \/ RestoreCommit(j)
          \/ BuildRecords(j) \/ GiveUp(j) \/ SetSerial(j) \/ InsertSnapshot(j) \/ Prune(j)

Spec == Init /\ [][Next]_vars

-----------------------------------------------------------------------------
(* Properties.                                                             *)

ZoneRows == [soa : Nat \ {0}, serial : Nat]
RecordRows == [id : 1 .. MaxRecordId, zone : Zones, key : Keys, ttl : Nat]
Contents == [soa : Nat \ {0}, serial : Nat, body : Seq([key : Keys, ttl : Nat])]
SnapshotRows == [id : 1 .. MaxSnapshotId, zone : Zones, content : Contents]
Ops == {"create", "import", "restore", "records", "deployed", "insert", "prune"}
JobStates == [op : Ops, zone : Zones, content : Contents]

\* Every zone, and all that is deployed, published or restored, has a SOA TTL; every
\* record belongs to a zone of the table's names and has an id within the counters' bounds.
TypeOK ==
    /\ zones \in [Zones -> ZoneRows \cup {NoRow}]
    /\ records \subseteq RecordRows /\ IsFiniteSet(records)
    /\ snapshots \subseteq SnapshotRows
    /\ recordSeq \in 0 .. MaxRecordId /\ snapshotSeq \in 0 .. MaxSnapshotId
    /\ ops \in 0 .. MaxOps
    /\ job \in [Jobs -> JobStates \cup {NoJob}]

\* No record or snapshot outlives its zone, so that a zone created under the name
\* of a deleted one starts empty.
NothingOrphaned == \A row \in records \cup snapshots : Exists(row.zone)

\* Pages carry ids and send them back later.  The id of a record or a snapshot
\* that is gone (deleted, replaced by a restore, pruned, lost with its zone) never
\* comes to mean another one, so a stale form does nothing.
NoIdComesBack ==
    /\ Ids(records) \cap retired.records = {}
    /\ Ids(snapshots) \cap retired.snapshots = {}
    /\ \A table \in {records, snapshots} : \A a, b \in table : a.id = b.id => a = b

\* RestoreSnapshot: whatever was edited since its SELECT, the zone then renders as
\* the snapshot does, entry for entry in the same order; this is why restoring
\* the latest snapshot leaves the zone clean (store_test.go).
RestoreIsExact ==
    [][\A j \in Jobs, z \in Zones :
          At(j, "restore") /\ job[j].zone = z /\ job'[j] = NoJob /\ Exists(z)
              => Content(z)' = job[j].content]_vars

\* Rows are those of a list, in its order, under consecutive ids.
Lists(rows, z, body) ==
    \E last \in 0 .. MaxRecordId :
        rows = {[id |-> last + k, zone |-> z, key |-> body[k].key, ttl |-> body[k].ttl] : k \in DOMAIN body}

\* An operator whose create or import succeeded gets the zone asked for: its SOA, its
\* serial and its records with their TTLs, in the order of the file, and never one
\* mixed with the zone of a handler that passed the check at the same time, with
\* what a zone deleted under that name has left, or with another import's rows.
CreatedAsAsked ==
    [][\A j \in Jobs, z \in Zones :
          job[j].op \in {"create", "import"} /\ job[j].zone = z /\ job'[j] = NoJob /\ ~UNCHANGED <<zones, records>>
              => /\ ~Exists(z)
                 /\ zones'[z] = NewRow(job[j].content)
                 /\ Lists(RecordsOf(z)', z, job[j].content.body)]_vars

\* The latest snapshot of a zone, which Dirty compares with, is replaced by newer
\* ones only: pruning, of this zone or of another, leaves it.
LatestOnlySucceeded ==
    [][\A z \in Zones :
          SnapshotsOf(z) # {} /\ Exists(z)'
              => /\ SnapshotsOf(z)' # {}
                 /\ Newest(SnapshotsOf(z))'.id >= Newest(SnapshotsOf(z)).id]_vars

=============================================================================

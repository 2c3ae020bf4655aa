-------------------------- MODULE ZoneStore_proofs --------------------------
(***************************************************************************)
(* For any number of zones, records, snapshots, handlers and operations:   *)
(* the ORDER BY of Records is a sort, no row outlives its zone, and no id  *)
(* comes back.                                                             *)
(***************************************************************************)
EXTENDS ZoneStore, FiniteSetTheorems, TLAPS

-----------------------------------------------------------------------------
(* The order of the records.                                               *)

\* The rank of a row is a position in the result.
LEMMA RankInRange ==
    ASSUME NEW rows, IsFiniteSet(rows), NEW r \in rows, \A q \in rows : q.key \in Nat /\ q.id \in Nat
    PROVE  Cardinality(rows) \in Nat /\ Rank(rows, r) \in 1 .. Cardinality(rows)
<1> DEFINE lower == {q \in rows : Before(q, r)}
<1>1. lower \in SUBSET (rows \ {r})
  BY DEF Before
<1>2. IsFiniteSet(rows \ {r}) /\ Cardinality(rows \ {r}) = Cardinality(rows) - 1
  BY FS_RemoveElement
<1>3. Cardinality(rows) \in Nat
  BY FS_CardinalityType
<1>4. Cardinality(lower) \in Nat /\ Cardinality(lower) <= Cardinality(rows \ {r})
  <2> HIDE DEF lower
  <2> QED BY <1>1, <1>2, FS_Subset, FS_CardinalityType
<1> QED BY <1>2, <1>3, <1>4 DEF Rank

\* A row that comes before another has the lower rank.
LEMMA RankIsOrder ==
    ASSUME NEW rows, IsFiniteSet(rows), NEW a \in rows, NEW b \in rows,
           \A q \in rows : q.key \in Nat /\ q.id \in Nat, Before(a, b)
    PROVE  Rank(rows, a) < Rank(rows, b)
<1> DEFINE lower(r) == {q \in rows : Before(q, r)}
<1>1. lower(a) \in SUBSET lower(b)
  BY DEF Before
<1>2. a \in lower(b) /\ a \notin lower(a)
  BY DEF Before
<1>3. IsFiniteSet(lower(b))
  <2>1. lower(b) \in SUBSET rows
    OBVIOUS
  <2> HIDE DEF lower
  <2> QED BY <2>1, FS_Subset
<1>4. /\ Cardinality(lower(a)) \in Nat /\ Cardinality(lower(b)) \in Nat
      /\ Cardinality(lower(a)) < Cardinality(lower(b))
  <2> HIDE DEF lower
  <2>1. IsFiniteSet(lower(a)) /\ Cardinality(lower(a)) <= Cardinality(lower(b))
        /\ Cardinality(lower(a)) # Cardinality(lower(b))
    BY <1>1, <1>2, <1>3, FS_Subset
  <2>2. Cardinality(lower(a)) \in Nat /\ Cardinality(lower(b)) \in Nat
    BY <1>3, <2>1, FS_CardinalityType
  <2> QED BY <2>1, <2>2
<1> QED BY <1>4 DEF Rank

\* ORDER BY name, type, id of rows with distinct ids gives each row exactly once,
\* in order.
THEOREM RowsAreSorted ==
    ASSUME NEW rows, IsFiniteSet(rows), \A q \in rows : q.key \in Nat /\ q.id \in Nat,
           \A a, b \in rows : a.id = b.id => a = b
    PROVE  LET out == Sorted(rows)
           IN  /\ DOMAIN out = 1 .. Cardinality(rows) /\ Cardinality(rows) \in Nat
               /\ \A k \in DOMAIN out : out[k] \in rows
               /\ \A r \in rows : \E k \in DOMAIN out : out[k] = r
               /\ \A i, k \in DOMAIN out : i < k => Before(out[i], out[k])
<1> DEFINE n == Cardinality(rows)
<1> DEFINE rank == [r \in rows |-> Rank(rows, r)]
<1> DEFINE out == Sorted(rows)
<1>1. n \in Nat
  BY FS_CardinalityType
<1>2. \A r \in rows : Rank(rows, r) \in 1 .. n
  BY RankInRange
<1>3. \A a, b \in rows : a # b => Before(a, b) \/ Before(b, a)
  BY DEF Before
<1>4. \A a, b \in rows : Rank(rows, a) = Rank(rows, b) => a = b
  <2> SUFFICES ASSUME NEW a \in rows, NEW b \in rows, Rank(rows, a) = Rank(rows, b), a # b
               PROVE  FALSE
    OBVIOUS
  <2>1. Rank(rows, a) < Rank(rows, b) \/ Rank(rows, b) < Rank(rows, a)
    BY <1>3, RankIsOrder
  <2> QED BY <1>2, <2>1
<1>5. \A k \in 1 .. n : \E r \in rows : Rank(rows, r) = k
  <2>1. rank \in Injection(rows, 1 .. n)
    BY <1>2, <1>4 DEF Injection, IsInjective
  <2>2. IsFiniteSet(1 .. n) /\ Cardinality(1 .. n) = n
    BY <1>1, FS_Interval
  <2>3. rank \in Surjection(rows, 1 .. n)
    <3> HIDE DEF rank
    <3> QED BY <2>1, <2>2, FS_Injection
  <2> QED BY <2>3 DEF Surjection
<1>6. DOMAIN out = 1 .. n /\ \A k \in 1 .. n : out[k] \in rows /\ Rank(rows, out[k]) = k
  BY <1>5 DEF Sorted
<1>7. \A r \in rows : \E k \in 1 .. n : out[k] = r
  BY <1>2, <1>4, <1>6
<1>8. \A i, k \in 1 .. n : i < k => Before(out[i], out[k])
  <2> SUFFICES ASSUME NEW i \in 1 .. n, NEW k \in 1 .. n, i < k
               PROVE  Before(out[i], out[k])
    OBVIOUS
  <2>1. out[i] \in rows /\ out[k] \in rows /\ Rank(rows, out[i]) = i /\ Rank(rows, out[k]) = k
    BY <1>6
  <2>2. CASE Before(out[k], out[i])
    <3>1. k < i
      BY <2>1, <2>2, RankIsOrder
    <3> QED BY <1>1, <3>1
  <2>3. out[i] # out[k]
    BY <1>1, <2>1
  <2> QED BY <1>3, <2>1, <2>2, <2>3
<1> QED BY <1>1, <1>6, <1>7, <1>8

-----------------------------------------------------------------------------
(* The tables.                                                             *)

\* Ids, of the rows there are and of those that are gone, are ids given out.
Numbered ==
    /\ \A r \in records : r.id \in 1 .. recordSeq
    /\ \A s \in snapshots : s.id \in 1 .. snapshotSeq
    /\ retired \in [records : SUBSET (1 .. recordSeq), snapshots : SUBSET (1 .. snapshotSeq)]

\* What the three invariants and Numbered are about.
tables == <<zones, records, snapshots, recordSeq, snapshotSeq, retired>>

TablesOK == NothingOrphaned /\ Numbered /\ NoIdComesBack

IInv == TypeOK /\ TablesOK

Rows0 == [key : Keys, ttl : Nat]

LEMMA RecordTypes ==
    ASSUME TypeOK, NEW r \in records
    PROVE  r.key \in Keys /\ r.key \in Nat /\ r.id \in Nat /\ r.ttl \in Nat /\ r.zone \in Zones
<1>1. r \in RecordRows
  BY DEF TypeOK
<1>2. MaxRecordId \in Nat
  BY BoundAssumption
<1>3. r.key \in Keys /\ r.id \in 1 .. MaxRecordId /\ r.ttl \in Nat /\ r.zone \in Zones
  BY <1>1 DEF RecordRows
<1>4. r.id \in Nat
  BY <1>2, <1>3
<1>5. r.key \in Nat
  BY <1>3, KeysAssumption
<1> QED BY <1>3, <1>4, <1>5

\* A function on 1 .. n is a sequence.
LEMMA IsSequence ==
    ASSUME NEW n \in Nat, NEW S, NEW f, f \in [1 .. n -> S]
    PROVE  f \in Seq(S)
OBVIOUS

LEMMA ElementsOf ==
    ASSUME NEW S, NEW f \in Seq(S)
    PROVE  Len(f) \in Nat /\ DOMAIN f = 1 .. Len(f) /\ \A k \in 1 .. Len(f) : f[k] \in S
OBVIOUS

\* Ids given out before stay below those given out later.
LEMMA Earlier ==
    ASSUME NEW S, NEW m \in Nat, NEW n \in Nat, m <= n, \A id \in S : id \in 1 .. m
    PROVE  S \subseteq 1 .. n /\ \A id \in (m + 1) .. n : id \notin S
OBVIOUS

LEMMA SameTables == ASSUME TablesOK, UNCHANGED tables PROVE TablesOK'
BY DEF tables, TablesOK, NothingOrphaned, Exists, Numbered, NoIdComesBack, Ids

\* Build gives a content in which no TTL is 0, whatever is stored.
LEMMA BuiltType ==
    ASSUME TypeOK, NoIdComesBack, NEW soa \in Nat, NEW serial \in Nat, NEW z \in Zones
    PROVE  Built(soa, serial, Rows(z)) \in Contents
<1> DEFINE rows == RecordsOf(z)
<1>1. rows \subseteq records
  BY DEF RecordsOf
<1>2. IsFiniteSet(rows)
  BY <1>1, FS_Subset DEF TypeOK
<1>3. \A q \in rows : q.key \in Keys /\ q.key \in Nat /\ q.id \in Nat /\ q.ttl \in Nat
  BY <1>1, RecordTypes
<1>4. \A a, b \in rows : a.id = b.id => a = b
  BY <1>1 DEF NoIdComesBack
<1>5. /\ DOMAIN Rows(z) = 1 .. Cardinality(rows) /\ Cardinality(rows) \in Nat
      /\ \A k \in DOMAIN Rows(z) : Rows(z)[k] \in rows
  BY <1>2, <1>3, <1>4, RowsAreSorted DEF Rows
<1>6. OrElse(soa, DefaultTtl) \in Nat \ {0}
  BY DEF OrElse, DefaultTtl
<1> DEFINE body == [k \in DOMAIN Rows(z) |-> [key |-> Rows(z)[k].key, ttl |-> OrElse(Rows(z)[k].ttl, OrElse(soa, DefaultTtl))]]
<1>7. \A k \in DOMAIN Rows(z) : body[k] \in Rows0
  BY <1>3, <1>5, <1>6 DEF OrElse, Rows0
<1>8. body \in Seq(Rows0)
  <2>1. body \in [1 .. Cardinality(rows) -> Rows0]
    BY <1>5, <1>7
  <2> HIDE DEF body, rows
  <2> QED BY <1>5, <2>1, IsSequence
<1> QED BY <1>6, <1>8 DEF Built, Contents, Rows0

\* Inserting entries adds rows of the zone, with ids that were never given out.
LEMMA Inserted ==
    ASSUME TypeOK, Numbered, NEW z \in Zones, NEW kept \in SUBSET records,
           NEW body \in Seq(Rows0), Insert(kept, z, body)
    PROVE  /\ records' \subseteq RecordRows
           /\ IsFiniteSet(records')
           /\ recordSeq' \in recordSeq .. MaxRecordId
           /\ kept \subseteq records'
           /\ \A r \in records' \ kept : r.zone = z /\ r.id \in (recordSeq + 1) .. recordSeq'
           /\ \A a, b \in records' \ kept : a.id = b.id => a = b
<1> DEFINE n == Len(body)
<1> DEFINE row == [k \in 1 .. n |-> [id |-> recordSeq + k, zone |-> z, key |-> body[k].key, ttl |-> body[k].ttl]]
<1> DEFINE new == NewRows(z, body)
<1>1. n \in Nat /\ DOMAIN body = 1 .. n /\ \A k \in 1 .. n : body[k] \in Rows0
  BY ElementsOf
<1>2. /\ recordSeq \in Nat /\ MaxRecordId \in Nat /\ recordSeq + n <= MaxRecordId
      /\ records' = kept \cup new /\ recordSeq' = recordSeq + n
  BY BoundAssumption DEF TypeOK, Insert, LastRecordId
<1>3. new = {row[k] : k \in 1 .. n}
  BY <1>1 DEF NewRows, LastRecordId
<1>4. \A r \in new : \E k \in 1 .. n : r = row[k]
  BY <1>3
<1>5. new \subseteq RecordRows
  BY <1>1, <1>2, <1>4 DEF Rows0, RecordRows
<1>6. IsFiniteSet(new)
  <2>1. row \in Surjection(1 .. n, new)
    BY <1>3 DEF Surjection
  <2> QED BY <1>1, <2>1, FS_Surjection, FS_Interval
<1>7. IsFiniteSet(kept \cup new)
  BY <1>6, FS_Subset, FS_Union DEF TypeOK
<1>8. \A r \in new : r.zone = z /\ r.id \in (recordSeq + 1) .. recordSeq'
  BY <1>1, <1>2, <1>4
<1>9. \A a, b \in new : a.id = b.id => a = b
  BY <1>1, <1>2, <1>4
<1>10. kept \subseteq RecordRows
  BY DEF TypeOK
<1> QED BY <1>1, <1>2, <1>5, <1>7, <1>8, <1>9, <1>10

\* The rows kept or replaced by new ones leave the records in order, if the zone
\* exists afterwards and the others go to the retired ones.
LEMMA InsertKeepsOrder ==
    ASSUME TypeOK, TablesOK, NEW z \in Zones, NEW kept \in SUBSET records,
           NEW body \in Seq(Rows0), Insert(kept, z, body),
           Exists(z)', \A r \in kept : Exists(r.zone)', \A s \in snapshots : Exists(s.zone)',
           retired' = [retired EXCEPT !.records = @ \cup Ids(records \ kept)],
           UNCHANGED <<snapshots, snapshotSeq>>
    PROVE  TablesOK'
<1>0. NothingOrphaned /\ Numbered /\ NoIdComesBack
  BY DEF TablesOK
<1>1. /\ recordSeq \in Nat /\ recordSeq' \in recordSeq .. MaxRecordId
      /\ kept \subseteq records'
      /\ \A r \in records' \ kept : r.zone = z /\ r.id \in (recordSeq + 1) .. recordSeq'
      /\ \A a, b \in records' \ kept : a.id = b.id => a = b
  <2>1. recordSeq \in Nat
    BY BoundAssumption DEF TypeOK
  <2> QED BY <1>0, <2>1, Inserted
<1>11. recordSeq \in Nat /\ recordSeq' \in Nat /\ recordSeq <= recordSeq'
  BY <1>1, BoundAssumption
<1>2. NothingOrphaned'
  BY <1>1 DEF NothingOrphaned
<1>3. /\ retired'.snapshots = retired.snapshots
      /\ retired'.records = retired.records \cup Ids(records \ kept)
      /\ DOMAIN retired' = {"records", "snapshots"}
  BY <1>0 DEF Numbered
<1>4. \A id \in retired'.records : id \in 1 .. recordSeq
  BY <1>0, <1>3 DEF Numbered, Ids
<1>5. Numbered'
  <2>1. \A r \in records' : r.id \in 1 .. recordSeq'
    BY <1>0, <1>1 DEF Numbered
  <2>2. retired'.records \subseteq 1 .. recordSeq'
    BY <1>11, <1>4, Earlier
  <2>3. retired' \in [records : SUBSET (1 .. recordSeq'), snapshots : SUBSET (1 .. snapshotSeq)]
    BY <1>0, <1>3, <2>2 DEF Numbered
  <2> QED BY <1>0, <2>1, <2>3 DEF Numbered
<1>6. NoIdComesBack'
  <2>1. \A r \in records' : r.id \notin retired'.records
    <3>1. \A r \in kept : r.id \notin Ids(records \ kept) /\ r.id \notin retired.records
      BY <1>0 DEF NoIdComesBack, Ids
    <3>2. \A r \in records' \ kept : r.id \notin retired'.records
      <4>1. \A id \in (recordSeq + 1) .. recordSeq' : id \notin retired'.records
        BY <1>11, <1>4, Earlier
      <4> QED BY <1>1, <4>1
    <3> QED BY <1>3, <3>1, <3>2
  <2>2. \A a, b \in records' : a.id = b.id => a = b
    <3>1. \A a, b \in kept : a.id = b.id => a = b
      BY <1>0 DEF NoIdComesBack
    <3>2. \A a \in kept : a.id \in 1 .. recordSeq
      BY <1>0 DEF Numbered
    <3> QED BY <1>1, <3>1, <3>2
  <2> QED BY <1>0, <1>3, <2>1, <2>2 DEF NoIdComesBack, Ids
<1> QED BY <1>2, <1>5, <1>6 DEF TablesOK

\* A zone row that is written, and not deleted, disturbs nothing.
LEMMA SameRows ==
    ASSUME TypeOK, TablesOK, \A z \in Zones : Exists(z) => Exists(z)',
           UNCHANGED <<records, snapshots, recordSeq, snapshotSeq, retired>>
    PROVE  TablesOK'
<1>1. \A row \in records \cup snapshots : row.zone \in Zones
  BY DEF TypeOK, RecordRows, SnapshotRows
<1>2. NothingOrphaned'
  BY <1>1 DEF TablesOK, NothingOrphaned
<1> QED BY <1>2 DEF TablesOK, Numbered, NoIdComesBack, Ids

\* The row written for a content is a row.
LEMMA RowIsRow == NoRow \notin ZoneRows
BY DEF NoRow, ZoneRows

\* The import bodies are sequences of entries; nothing is known of other functions.
LEMMA EntriesAreRows ==
    ASSUME NEW body, body \in Seq([key : Keys, ttl : Ttls])
    PROVE  body \in Seq([key : Keys, ttl : Nat])
<1> DEFINE S == [key : Keys, ttl : Ttls]
<1> DEFINE T == [key : Keys, ttl : Nat]
<1>1. S \subseteq T
  BY KeysAssumption
<1> HIDE DEF S, T
<1>2. body \in Seq(S)
  BY DEF S
<1>3. Len(body) \in Nat /\ body \in [1 .. Len(body) -> T]
  BY <1>1, <1>2
<1>4. body \in Seq(T)
  BY <1>3, IsSequence
<1> QED BY <1>4 DEF T

\* Records are inserted and the row of their zone is written.
LEMMA InsertType ==
    ASSUME TypeOK, Numbered, NEW z \in Zones, NEW kept \in SUBSET records,
           NEW body \in Seq(Rows0), Insert(kept, z, body),
           NEW row \in ZoneRows, zones' = [zones EXCEPT ![z] = row],
           job' \in [Jobs -> JobStates \cup {NoJob}], UNCHANGED <<snapshots, snapshotSeq, ops>>
    PROVE  TypeOK'
<1>1. recordSeq \in Nat /\ MaxRecordId \in Nat
  BY BoundAssumption DEF TypeOK
<1>2. records' \subseteq RecordRows /\ IsFiniteSet(records') /\ recordSeq' \in recordSeq .. MaxRecordId
  BY <1>1, Inserted
<1>3. recordSeq' \in 0 .. MaxRecordId
  BY <1>1, <1>2
<1> QED BY <1>2, <1>3 DEF TypeOK

-----------------------------------------------------------------------------
(* Jobs.                                                                   *)

\* A job in progress carries a zone and a content.
LEMMA JobInProgress ==
    ASSUME TypeOK, NEW j \in Jobs, NEW op \in Ops, At(j, op)
    PROVE  /\ job[j].zone \in Zones /\ job[j].content \in Contents
           /\ job[j].content.body \in Seq(Rows0) /\ NewRow(job[j].content) \in ZoneRows
           /\ job[j].content.soa \in Nat /\ job[j].content.serial \in Nat
<1>1. job[j] # NoJob
  BY DEF At, NoJob, Ops
<1>2. job[j].zone \in Zones /\ job[j].content \in Contents
  BY <1>1 DEF TypeOK, JobStates
<1> QED BY <1>2 DEF Contents, NewRow, ZoneRows, Rows0

\* A job that begins changes no table.
LEMMA StartType ==
    ASSUME TypeOK, NEW j \in Jobs, NEW op \in Ops, NEW z \in Zones, NEW content \in Contents,
           Start(j, op, z, content)
    PROVE  TypeOK' /\ UNCHANGED tables
<1>1. job' \in [Jobs -> JobStates \cup {NoJob}]
  <2>1. [op |-> op, zone |-> z, content |-> content] \in JobStates
    BY DEF JobStates
  <2> HIDE DEF NoJob
  <2> QED BY <2>1 DEF Start, TypeOK
<1>2. ops' \in 0 .. MaxOps
  BY BoundAssumption DEF Start, Begin, TypeOK
<1> QED BY <1>1, <1>2 DEF Start, TypeOK, tables

LEMMA FinishType ==
    ASSUME TypeOK, NEW j \in Jobs, Finish(j)
    PROVE  job' \in [Jobs -> JobStates \cup {NoJob}]
BY DEF TypeOK, Finish

LEMMA StepType ==
    ASSUME TypeOK, NEW j \in Jobs, NEW op \in Ops, NEW next \in Ops, At(j, op), Step(j, next)
    PROVE  job' \in [Jobs -> JobStates \cup {NoJob}]
<1>1. job[j] \in JobStates
  BY DEF TypeOK, At, NoJob, Ops
<1>2. [job[j] EXCEPT !.op = next] \in JobStates
  BY <1>1 DEF JobStates
<1>3. job' = [job EXCEPT ![j] = [job[j] EXCEPT !.op = next]]
  BY DEF Step
<1> QED BY <1>2, <1>3 DEF TypeOK

LEMMA BeginType ==
    ASSUME TypeOK, Begin
    PROVE  ops' \in 0 .. MaxOps
BY BoundAssumption DEF TypeOK, Begin

-----------------------------------------------------------------------------
(* Rows that go.                                                           *)

\* Rows of records and of snapshots that are deleted with their ids retired leave
\* the others in order, if the zones of the others are still there.
LEMMA DeleteKeepsOrder ==
    ASSUME TablesOK, NEW some, NEW others,
           records' = records \ some, snapshots' = snapshots \ others,
           some \subseteq records, others \subseteq snapshots,
           retired' = [records |-> retired.records \cup Ids(some),
                       snapshots |-> retired.snapshots \cup Ids(others)],
           \A row \in records' \cup snapshots' : Exists(row.zone)',
           UNCHANGED <<recordSeq, snapshotSeq>>
    PROVE  TablesOK'
<1>0. NothingOrphaned /\ Numbered /\ NoIdComesBack
  BY DEF TablesOK
<1>1. NothingOrphaned'
  BY DEF NothingOrphaned
<1>2. Numbered'
  BY <1>0 DEF Numbered, Ids
<1>3. \A a, b \in records : a.id = b.id => a = b
  BY <1>0 DEF NoIdComesBack
<1>4. \A a, b \in snapshots : a.id = b.id => a = b
  BY <1>0 DEF NoIdComesBack
<1>5. Ids(records') \cap retired'.records = {} /\ Ids(snapshots') \cap retired'.snapshots = {}
  BY <1>0, <1>3, <1>4 DEF NoIdComesBack, Ids
<1>6. NoIdComesBack'
  BY <1>3, <1>4, <1>5 DEF NoIdComesBack
<1> QED BY <1>1, <1>2, <1>6 DEF TablesOK

LEMMA InitIInv == Init => IInv
<1> SUFFICES ASSUME Init PROVE IInv
  OBVIOUS
<1>1. TypeOK
  BY BoundAssumption, FS_EmptySet DEF Init, TypeOK
<1>2. TablesOK
  BY DEF Init, TablesOK, NothingOrphaned, Numbered, NoIdComesBack, Ids
<1> QED BY <1>1, <1>2 DEF IInv

-----------------------------------------------------------------------------
(* The operations.                                                         *)

LEMMA DeleteZoneIInv == ASSUME IInv, NEW z \in Zones, DeleteZone(z) PROVE IInv'
<1>0. TypeOK /\ TablesOK
  BY DEF IInv
<1>1. TypeOK'
  <2>1. zones' \in [Zones -> ZoneRows \cup {NoRow}]
    BY <1>0 DEF DeleteZone, TypeOK
  <2>2. records' \subseteq RecordRows /\ IsFiniteSet(records') /\ snapshots' \subseteq SnapshotRows
    BY <1>0, FS_Subset DEF DeleteZone, TypeOK
  <2> QED BY <1>0, <2>1, <2>2, BeginType DEF DeleteZone, TypeOK
<1>2. TablesOK'
  <2>1. RecordsOf(z) \subseteq records /\ SnapshotsOf(z) \subseteq snapshots
    BY DEF RecordsOf, SnapshotsOf
  <2>2. \A row \in records' \cup snapshots' : row.zone \in Zones /\ row.zone # z /\ Exists(row.zone)
    BY <1>0 DEF DeleteZone, TablesOK, NothingOrphaned, RecordsOf, SnapshotsOf, TypeOK, RecordRows, SnapshotRows
  <2>3. \A row \in records' \cup snapshots' : Exists(row.zone)'
    BY <1>0, <2>2 DEF DeleteZone, Exists, TypeOK
  <2> QED BY <1>0, <2>1, <2>3, DeleteKeepsOrder DEF DeleteZone
<1> QED BY <1>1, <1>2 DEF IInv

LEMMA UpdateZoneSettingsIInv ==
    ASSUME IInv, NEW z \in Zones, NEW ttl \in Ttls, UpdateZoneSettings(z, ttl)
    PROVE  IInv'
<1>0. TypeOK /\ TablesOK
  BY DEF IInv
<1>1. zones[z] \in ZoneRows /\ zones' = [zones EXCEPT ![z] = [zones[z] EXCEPT !.soa = OrElse(ttl, DefaultTtl)]]
  BY <1>0 DEF UpdateZoneSettings, Exists, TypeOK
<1>2. [zones[z] EXCEPT !.soa = OrElse(ttl, DefaultTtl)] \in ZoneRows
  BY <1>1, KeysAssumption DEF ZoneRows, OrElse, DefaultTtl
<1>3. TypeOK'
  BY <1>0, <1>1, <1>2, BeginType DEF UpdateZoneSettings, TypeOK
<1>4. \A q \in Zones : Exists(q) => Exists(q)'
  BY <1>0, <1>1, <1>2 DEF Exists, TypeOK, ZoneRows, NoRow
<1>5. TablesOK'
  BY <1>0, <1>4, SameRows DEF UpdateZoneSettings
<1> QED BY <1>3, <1>5 DEF IInv

LEMMA AddRecordIInv ==
    ASSUME IInv, NEW z \in Zones, NEW entry \in Entries, AddRecord(z, entry)
    PROVE  IInv'
<1>0. TypeOK /\ TablesOK
  BY DEF IInv
<1>1. <<Normalized(entry)>> \in Seq(Rows0)
  BY KeysAssumption DEF Normalized, OrElse, DefaultTtl, Entries, Rows0
<1>2. records' \subseteq RecordRows /\ IsFiniteSet(records') /\ recordSeq' \in 0 .. MaxRecordId
  <2>1. Insert(records, z, <<Normalized(entry)>>) /\ Numbered
    BY <1>0 DEF AddRecord, TablesOK
  <2>2. records \in SUBSET records /\ recordSeq \in Nat /\ MaxRecordId \in Nat
    BY <1>0, BoundAssumption DEF TypeOK
  <2>3. records' \subseteq RecordRows /\ IsFiniteSet(records') /\ recordSeq' \in recordSeq .. MaxRecordId
    BY <1>0, <1>1, <2>1, <2>2, Inserted
  <2> QED BY <2>2, <2>3
<1>3. TypeOK'
  BY <1>0, <1>2, BeginType DEF AddRecord, TypeOK
<1>4. Exists(z)' /\ (\A r \in records : Exists(r.zone)') /\ \A s \in snapshots : Exists(s.zone)'
  BY <1>0 DEF AddRecord, Exists, TablesOK, NothingOrphaned
<1>5. retired' = [retired EXCEPT !.records = @ \cup Ids(records \ records)]
  BY <1>0 DEF AddRecord, TablesOK, Numbered, Ids
<1>6. TablesOK'
  BY <1>0, <1>1, <1>4, <1>5, InsertKeepsOrder DEF AddRecord
<1> QED BY <1>3, <1>6 DEF IInv

LEMMA UpdateRecordIInv ==
    ASSUME IInv, NEW z \in Zones, NEW id \in 1 .. MaxRecordId, NEW entry \in Entries,
           UpdateRecord(z, id, entry)
    PROVE  IInv'
<1>0. TypeOK /\ TablesOK /\ NothingOrphaned /\ Numbered /\ NoIdComesBack
  BY DEF IInv, TablesOK
<1>1. PICK r \in records :
        /\ r.zone = z
        /\ records' = (records \ {r}) \cup {[r EXCEPT !.key = entry.key, !.ttl = Normalized(entry).ttl]}
  BY DEF UpdateRecord, RecordsOf
<1> DEFINE new == [r EXCEPT !.key = entry.key, !.ttl = Normalized(entry).ttl]
<1>2. r \in RecordRows
  BY <1>0 DEF TypeOK
<1>3. entry.key \in Keys /\ Normalized(entry).ttl \in Nat
  BY KeysAssumption DEF Normalized, OrElse, DefaultTtl, Entries
<1>4. new \in RecordRows /\ new.id = r.id /\ new.zone = r.zone
  BY <1>2, <1>3 DEF RecordRows
<1> HIDE DEF new
<1>5. records' = (records \ {r}) \cup {new}
  BY <1>1 DEF new
<1>6. IsFiniteSet(records')
  BY <1>0, <1>5, FS_RemoveElement, FS_AddElement DEF TypeOK
<1>7. TypeOK'
  BY <1>0, <1>4, <1>5, <1>6, BeginType DEF UpdateRecord, TypeOK
<1>8. TablesOK'
  <2>1. NothingOrphaned'
    BY <1>0, <1>1, <1>4, <1>5 DEF UpdateRecord, NothingOrphaned, Exists
  <2>2. Numbered'
    BY <1>0, <1>4, <1>5 DEF UpdateRecord, Numbered
  <2>3. Ids(records') \subseteq Ids(records)
    BY <1>4, <1>5 DEF Ids
  <2>4. \A a, b \in records' : a.id = b.id => a = b
    BY <1>0, <1>4, <1>5 DEF NoIdComesBack
  <2>5. NoIdComesBack'
    BY <1>0, <2>3, <2>4 DEF UpdateRecord, NoIdComesBack, Ids
  <2> QED BY <2>1, <2>2, <2>5 DEF TablesOK
<1> QED BY <1>7, <1>8 DEF IInv

LEMMA DeleteRecordIInv ==
    ASSUME IInv, NEW z \in Zones, NEW id \in 1 .. MaxRecordId, DeleteRecord(z, id)
    PROVE  IInv'
<1>0. TypeOK /\ TablesOK
  BY DEF IInv
<1>1. PICK r \in records : r.id = id /\ records' = records \ {r}
  BY DEF DeleteRecord, RecordsOf
<1>2. TypeOK'
  BY <1>0, <1>1, BeginType, FS_Subset DEF DeleteRecord, TypeOK
<1>3. Ids({r}) = {id} /\ Ids({}) = {} /\ snapshots' = snapshots \ {}
  BY <1>1 DEF Ids, DeleteRecord
<1>4. retired' = [records |-> retired.records \cup Ids({r}), snapshots |-> retired.snapshots \cup Ids({})]
  BY <1>0, <1>3 DEF DeleteRecord, TablesOK, Numbered
<1>5. \A row \in records' \cup snapshots' : Exists(row.zone)'
  BY <1>0, <1>1 DEF DeleteRecord, TablesOK, NothingOrphaned, Exists
<1>6. TablesOK'
  <2>1. {r} \subseteq records /\ {} \subseteq snapshots /\ UNCHANGED <<recordSeq, snapshotSeq>>
    BY <1>1 DEF DeleteRecord
  <2> QED BY <1>0, <1>1, <1>3, <1>4, <1>5, <2>1, DeleteKeepsOrder
<1> QED BY <1>2, <1>6 DEF IInv

LEMMA StartsIInv ==
    ASSUME IInv, NEW j \in Jobs, NEW z \in Zones,
           \/ \E ttl \in Ttls : CreateCheck(j, z, ttl)
           \/ \E ttl \in Ttls, body \in ImportBodies : ImportCheck(j, z, ttl, body)
           \/ \E id \in 1 .. MaxSnapshotId : RestoreSelect(j, z, id)
           \/ BuildZone(j, z)
    PROVE  IInv'
<1>0. TypeOK /\ TablesOK
  BY DEF IInv
<1>1. PICK op \in Ops, content \in Contents : Start(j, op, z, content)
  <2>1. CASE \E ttl \in Ttls : CreateCheck(j, z, ttl)
    <3>1. PICK ttl \in Ttls : CreateCheck(j, z, ttl)
      BY <2>1
    <3>2. [soa |-> OrElse(ttl, DefaultTtl), serial |-> 0, body |-> <<>>] \in Contents
      BY KeysAssumption DEF Contents, OrElse, DefaultTtl
    <3> QED BY <3>1, <3>2 DEF CreateCheck, Ops
  <2>2. CASE \E ttl \in Ttls, body \in ImportBodies : ImportCheck(j, z, ttl, body)
    <3>1. PICK ttl \in Ttls, body \in ImportBodies : ImportCheck(j, z, ttl, body)
      BY <2>2
    <3>2. body \in Seq([key : Keys, ttl : Nat])
      BY BodiesAssumption, KeysAssumption, EntriesAreRows DEF Rows0
    <3>3. OrElse(ttl, DefaultTtl) \in Nat \ {0}
      BY KeysAssumption DEF OrElse, DefaultTtl
    <3>4. [soa |-> OrElse(ttl, DefaultTtl), serial |-> 0, body |-> body] \in Contents
      BY <3>2, <3>3 DEF Contents
    <3> QED BY <3>1, <3>4 DEF ImportCheck, Ops
  <2>3. CASE \E id \in 1 .. MaxSnapshotId : RestoreSelect(j, z, id)
    <3>1. PICK s \in snapshots : Start(j, "restore", z, s.content)
      BY <2>3 DEF RestoreSelect, SnapshotsOf
    <3>2. s.content \in Contents
      BY <1>0 DEF TypeOK, SnapshotRows
    <3> QED BY <3>1, <3>2 DEF Ops
  <2>4. CASE BuildZone(j, z)
    <3>1. zones[z] \in ZoneRows
      BY <1>0, <2>4 DEF BuildZone, Exists, TypeOK
    <3>2. [soa |-> zones[z].soa, serial |-> zones[z].serial + 1, body |-> <<>>] \in Contents
      BY <3>1 DEF Contents, ZoneRows
    <3> QED BY <2>4, <3>2 DEF BuildZone, Ops
  <2> QED BY <2>1, <2>2, <2>3, <2>4
<1> QED BY <1>0, <1>1, StartType, SameTables DEF IInv

LEMMA CreateZoneIInv == ASSUME IInv, NEW j \in Jobs, CreateZone(j) PROVE IInv'
<1>0. TypeOK /\ TablesOK
  BY DEF IInv
<1>1. NewRow(job[j].content) \in ZoneRows
  BY <1>0, JobInProgress DEF CreateZone, Ops
<1>2. job' \in [Jobs -> JobStates \cup {NoJob}]
  BY <1>0, FinishType DEF CreateZone
<1>3. TypeOK'
  BY <1>0, <1>1, <1>2 DEF CreateZone, TypeOK
<1>4. \A q \in Zones : Exists(q) => Exists(q)'
  BY <1>0, <1>1, RowIsRow DEF CreateZone, Exists, TypeOK
<1>5. TablesOK'
  BY <1>0, <1>4, SameRows DEF CreateZone
<1> QED BY <1>3, <1>5 DEF IInv

LEMMA ImportZoneIInv == ASSUME IInv, NEW j \in Jobs, ImportZone(j) PROVE IInv'
<1>0. TypeOK /\ TablesOK
  BY DEF IInv
<1>1. PICK z \in Zones, body \in Seq(Rows0), row \in ZoneRows :
        z = job[j].zone /\ body = job[j].content.body /\ row = NewRow(job[j].content)
  BY <1>0, JobInProgress DEF ImportZone, Ops
<1>2. job' \in [Jobs -> JobStates \cup {NoJob}]
  BY <1>0, FinishType DEF ImportZone
<1>3. CASE Exists(z)
  <2>1. UNCHANGED tables
    BY <1>1, <1>3 DEF ImportZone, tables
  <2>2. TypeOK'
    BY <1>0, <1>2, <2>1 DEF ImportZone, TypeOK, tables
  <2> QED BY <1>0, <2>1, <2>2, SameTables DEF IInv
<1>4. CASE ~Exists(z)
  <2>1. zones' = [zones EXCEPT ![z] = row] /\ Insert(records, z, body)
    BY <1>1, <1>4 DEF ImportZone
  <2>2. /\ snapshots' = snapshots /\ snapshotSeq' = snapshotSeq /\ ops' = ops /\ retired' = retired
    BY DEF ImportZone
  <2>3. TypeOK'
    BY <1>0, <1>1, <1>2, <2>1, <2>2, InsertType DEF TablesOK
  <2>4. \A q \in Zones : Exists(q) => Exists(q)'
    BY <1>0, <1>1, <2>1, RowIsRow DEF Exists, TypeOK
  <2>5. Exists(z)'
    BY <1>0, <1>1, <2>1, RowIsRow DEF Exists, TypeOK
  <2>6. \A r \in records \cup snapshots : Exists(r.zone)'
    BY <1>0, <2>4 DEF TypeOK, RecordRows, SnapshotRows, TablesOK, NothingOrphaned
  <2>7. retired' = [retired EXCEPT !.records = @ \cup Ids(records \ records)]
    BY <1>0, <2>2 DEF TablesOK, Numbered, Ids
  <2>8. TablesOK'
    BY <1>0, <1>1, <2>1, <2>2, <2>5, <2>6, <2>7, InsertKeepsOrder
  <2> QED BY <2>3, <2>8 DEF IInv
<1> QED BY <1>3, <1>4

LEMMA RestoreCommitIInv == ASSUME IInv, NEW j \in Jobs, RestoreCommit(j) PROVE IInv'
<1>0. TypeOK /\ TablesOK
  BY DEF IInv
<1>1. PICK z \in Zones, body \in Seq(Rows0), row \in ZoneRows :
        z = job[j].zone /\ body = job[j].content.body /\ row = NewRow(job[j].content)
  BY <1>0, JobInProgress DEF RestoreCommit, Ops
<1>2. job' \in [Jobs -> JobStates \cup {NoJob}]
  BY <1>0, FinishType DEF RestoreCommit
<1>3. CASE ~Exists(z)
  <2>1. UNCHANGED tables
    BY <1>1, <1>3 DEF RestoreCommit, tables
  <2>2. TypeOK'
    BY <1>0, <1>2, <2>1 DEF RestoreCommit, TypeOK, tables
  <2> QED BY <1>0, <2>1, <2>2, SameTables DEF IInv
<1>4. CASE Exists(z)
  <2> DEFINE kept == records \ RecordsOf(z)
  <2>1. /\ zones' = [zones EXCEPT ![z] = row] /\ Insert(kept, z, body)
        /\ retired' = [retired EXCEPT !.records = @ \cup Ids(RecordsOf(z))]
    BY <1>1, <1>4 DEF RestoreCommit
  <2>2. snapshots' = snapshots /\ snapshotSeq' = snapshotSeq /\ ops' = ops
    BY DEF RestoreCommit
  <2>3. kept \in SUBSET records /\ RecordsOf(z) = records \ kept
    BY DEF RecordsOf
  <2> HIDE DEF kept
  <2>4. TypeOK'
    BY <1>0, <1>1, <1>2, <2>1, <2>2, <2>3, InsertType DEF TablesOK
  <2>5. \A q \in Zones : Exists(q) => Exists(q)'
    BY <1>0, <1>1, <2>1, RowIsRow DEF Exists, TypeOK
  <2>6. Exists(z)'
    BY <1>0, <1>1, <2>1, RowIsRow DEF Exists, TypeOK
  <2>7. \A r \in records \cup snapshots : Exists(r.zone)'
    BY <1>0, <2>5 DEF TypeOK, RecordRows, SnapshotRows, TablesOK, NothingOrphaned
  <2>8. TablesOK'
    BY <1>0, <1>1, <2>1, <2>2, <2>3, <2>6, <2>7, InsertKeepsOrder
  <2> QED BY <2>4, <2>8 DEF IInv
<1> QED BY <1>3, <1>4

LEMMA BuildRecordsIInv == ASSUME IInv, NEW j \in Jobs, BuildRecords(j) PROVE IInv'
<1>0. TypeOK /\ TablesOK /\ NoIdComesBack
  BY DEF IInv, TablesOK
<1>1. At(j, "records") /\ "records" \in Ops
  BY DEF BuildRecords, Ops
<1>2. /\ job[j] \in JobStates /\ job[j].zone \in Zones
      /\ job[j].content.soa \in Nat /\ job[j].content.serial \in Nat
  <2>1. job[j] \in JobStates
    BY <1>0, <1>1 DEF TypeOK, At, NoJob, Ops
  <2> QED BY <1>0, <1>1, <2>1, JobInProgress
<1>3. PICK content \in Contents :
        job' = [job EXCEPT ![j] = [job[j] EXCEPT !.op = "deployed", !.content = content]]
  BY <1>0, <1>2, BuiltType DEF BuildRecords
<1>4. [job[j] EXCEPT !.op = "deployed", !.content = content] \in JobStates
  BY <1>2 DEF JobStates, Ops
<1>5. job' \in [Jobs -> JobStates \cup {NoJob}]
  BY <1>0, <1>3, <1>4 DEF TypeOK
<1>6. UNCHANGED tables /\ ops' = ops
  BY DEF BuildRecords, tables
<1>7. TypeOK'
  BY <1>0, <1>5, <1>6 DEF TypeOK, tables
<1> QED BY <1>0, <1>6, <1>7, SameTables DEF IInv

LEMMA GiveUpIInv == ASSUME IInv, NEW j \in Jobs, GiveUp(j) PROVE IInv'
<1>0. TypeOK /\ TablesOK
  BY DEF IInv
<1>1. UNCHANGED tables /\ ops' = ops
  BY DEF GiveUp, tables
<1>2. job' \in [Jobs -> JobStates \cup {NoJob}]
  BY <1>0, FinishType DEF GiveUp
<1>3. TypeOK'
  BY <1>0, <1>1, <1>2 DEF TypeOK, tables
<1> QED BY <1>0, <1>1, <1>3, SameTables DEF IInv

LEMMA SetSerialIInv == ASSUME IInv, NEW j \in Jobs, SetSerial(j) PROVE IInv'
<1>0. TypeOK /\ TablesOK
  BY DEF IInv
<1>1. PICK z \in Zones : z = job[j].zone /\ job[j].content.serial \in Nat
  BY <1>0, JobInProgress DEF SetSerial, Ops
<1>2. zones[z] \in ZoneRows
  BY <1>0, <1>1 DEF SetSerial, Exists, TypeOK
<1>3. PICK row \in ZoneRows : zones' = [zones EXCEPT ![z] = row]
  <2>1. zones' = [zones EXCEPT ![z] = [zones[z] EXCEPT !.serial = job[j].content.serial]]
    BY <1>1 DEF SetSerial
  <2>2. [zones[z] EXCEPT !.serial = job[j].content.serial] \in ZoneRows
    BY <1>1, <1>2 DEF ZoneRows
  <2> QED BY <2>1, <2>2
<1>4. job' \in [Jobs -> JobStates \cup {NoJob}]
  BY <1>0, StepType DEF SetSerial, Ops
<1>5. TypeOK'
  BY <1>0, <1>3, <1>4 DEF SetSerial, TypeOK
<1>6. \A q \in Zones : Exists(q) => Exists(q)'
  BY <1>0, <1>3, RowIsRow DEF Exists, TypeOK
<1>7. TablesOK'
  BY <1>0, <1>6, SameRows DEF SetSerial
<1> QED BY <1>5, <1>7 DEF IInv

LEMMA InsertSnapshotIInv == ASSUME IInv, NEW j \in Jobs, InsertSnapshot(j) PROVE IInv'
<1>0. TypeOK /\ TablesOK /\ NothingOrphaned /\ Numbered /\ NoIdComesBack
  BY DEF IInv, TablesOK
<1>1. CASE ~Exists(job[j].zone)
  <2>1. UNCHANGED tables /\ ops' = ops /\ Finish(j)
    BY <1>1 DEF InsertSnapshot, tables
  <2>2. TypeOK'
    BY <1>0, <2>1, FinishType DEF TypeOK, tables
  <2> QED BY <1>0, <2>1, <2>2, SameTables DEF IInv
<1>2. CASE Exists(job[j].zone)
  <2> DEFINE row == [id |-> snapshotSeq + 1, zone |-> job[j].zone, content |-> job[j].content]
  <2>1. /\ snapshots' = snapshots \cup {row} /\ snapshotSeq' = snapshotSeq + 1 /\ snapshotSeq < MaxSnapshotId
        /\ Step(j, "prune") /\ UNCHANGED <<zones, records, recordSeq, ops, retired>>
    BY <1>2 DEF InsertSnapshot
  <2>2. snapshotSeq \in Nat /\ MaxSnapshotId \in Nat
    BY <1>0, BoundAssumption DEF TypeOK
  <2>3. job[j].zone \in Zones /\ job[j].content \in Contents
    BY <1>0, JobInProgress DEF InsertSnapshot, Ops
  <2>4. row \in SnapshotRows
    BY <2>1, <2>2, <2>3 DEF SnapshotRows
  <2>5. row.id = snapshotSeq + 1 /\ Exists(row.zone)
    BY <1>2
  <2> HIDE DEF row
  <2>6. job' \in [Jobs -> JobStates \cup {NoJob}]
    BY <1>0, <2>1, StepType DEF InsertSnapshot, Ops
  <2>7. TypeOK'
    BY <1>0, <2>1, <2>2, <2>4, <2>6 DEF TypeOK
  <2>8. NothingOrphaned'
    BY <1>0, <2>1, <2>5 DEF NothingOrphaned, Exists
  <2>9. \A id \in 1 .. snapshotSeq : id \in 1 .. snapshotSeq' /\ id # row.id
    BY <2>1, <2>2, <2>5
  <2>10. row.id \in 1 .. snapshotSeq'
    BY <2>1, <2>2, <2>5
  <2>11. Numbered'
    <3>1. retired.snapshots \subseteq 1 .. snapshotSeq'
      BY <1>0, <2>9 DEF Numbered
    <3>2. retired \in [records : SUBSET (1 .. recordSeq), snapshots : SUBSET (1 .. snapshotSeq')]
      BY <1>0, <3>1 DEF Numbered
    <3>3. \A s \in snapshots' : s.id \in 1 .. snapshotSeq'
      BY <1>0, <2>1, <2>9, <2>10 DEF Numbered
    <3> QED BY <1>0, <2>1, <3>2, <3>3 DEF Numbered
  <2>12. NoIdComesBack'
    <3>1. \A s \in snapshots : s.id # row.id
      BY <1>0, <2>9 DEF Numbered
    <3>2. row.id \notin retired.snapshots
      BY <1>0, <2>9 DEF Numbered
    <3>3. \A a, b \in snapshots' : a.id = b.id => a = b
      BY <1>0, <2>1, <3>1 DEF NoIdComesBack
    <3>4. Ids(snapshots') \cap retired'.snapshots = {}
      BY <1>0, <2>1, <3>2 DEF NoIdComesBack, Ids
    <3>5. Ids(records') \cap retired'.records = {} /\ \A a, b \in records' : a.id = b.id => a = b
      BY <1>0, <2>1 DEF NoIdComesBack, Ids
    <3> QED BY <3>3, <3>4, <3>5 DEF NoIdComesBack
  <2> QED BY <2>7, <2>8, <2>11, <2>12 DEF IInv, TablesOK
<1> QED BY <1>1, <1>2

LEMMA PruneIInv == ASSUME IInv, NEW j \in Jobs, Prune(j) PROVE IInv'
<1>0. TypeOK /\ TablesOK
  BY DEF IInv
<1> DEFINE some == Surplus(job[j].zone)
<1>1. some \subseteq snapshots
  BY DEF Surplus, SnapshotsOf
<1>2. /\ snapshots' = snapshots \ some /\ retired' = [retired EXCEPT !.snapshots = @ \cup Ids(some)]
      /\ Finish(j) /\ UNCHANGED <<zones, records, recordSeq, snapshotSeq, ops>>
  BY DEF Prune
<1> HIDE DEF some
<1>3. job' \in [Jobs -> JobStates \cup {NoJob}]
  BY <1>0, <1>2, FinishType
<1>4. TypeOK'
  BY <1>0, <1>2, <1>3 DEF TypeOK
<1>5. \A row \in records' \cup snapshots' : Exists(row.zone)'
  BY <1>0, <1>2 DEF TablesOK, NothingOrphaned, Exists
<1>6. retired' = [records |-> retired.records \cup Ids({}), snapshots |-> retired.snapshots \cup Ids(some)]
  <2>1. retired.records \cup Ids({}) = retired.records
    BY DEF Ids
  <2> QED BY <1>0, <1>2, <2>1 DEF TablesOK, Numbered
<1>7. records' = records \ {} /\ {} \subseteq records
  BY <1>2
<1>8. TablesOK'
  <2>1. TablesOK /\ snapshots' = snapshots \ some /\ UNCHANGED <<recordSeq, snapshotSeq>>
    BY <1>0, <1>2
  <2> QED BY <2>1, <1>1, <1>5, <1>6, <1>7, DeleteKeepsOrder
<1> QED BY <1>4, <1>8 DEF IInv

\* The invariant is inductive.
LEMMA NextIInv == IInv /\ [Next]_vars => IInv'
<1> SUFFICES ASSUME IInv, [Next]_vars PROVE IInv'
  OBVIOUS
<1>1. CASE UNCHANGED vars
  <2>1. TypeOK /\ TablesOK
    BY DEF IInv
  <2>2. TypeOK'
    BY <1>1, <2>1 DEF vars, TypeOK
  <2>3. UNCHANGED tables
    BY <1>1 DEF vars, tables
  <2> QED BY <2>1, <2>2, <2>3, SameTables DEF IInv
<1>2. CASE \E z \in Zones : DeleteZone(z)
  BY <1>2, DeleteZoneIInv
<1>3. CASE \E z \in Zones, ttl \in Ttls : UpdateZoneSettings(z, ttl)
  BY <1>3, UpdateZoneSettingsIInv
<1>4. CASE \E z \in Zones, entry \in Entries : AddRecord(z, entry)
  BY <1>4, AddRecordIInv
<1>5. CASE \E z \in Zones, id \in 1 .. MaxRecordId : DeleteRecord(z, id)
  BY <1>5, DeleteRecordIInv
<1>6. CASE \E z \in Zones, id \in 1 .. MaxRecordId, entry \in Entries : UpdateRecord(z, id, entry)
  BY <1>6, UpdateRecordIInv
<1>7. CASE \E z \in Zones, j \in Jobs :
             \/ \E ttl \in Ttls : CreateCheck(j, z, ttl)
             \/ \E ttl \in Ttls, body \in ImportBodies : ImportCheck(j, z, ttl, body)
             \/ \E id \in 1 .. MaxSnapshotId : RestoreSelect(j, z, id)
             \/ BuildZone(j, z)
  BY <1>7, StartsIInv
<1>8. CASE \E j \in Jobs : CreateZone(j)
  BY <1>8, CreateZoneIInv
<1>9. CASE \E j \in Jobs : ImportZone(j)
  BY <1>9, ImportZoneIInv
<1>10. CASE \E j \in Jobs : RestoreCommit(j)
  BY <1>10, RestoreCommitIInv
<1>11. CASE \E j \in Jobs : BuildRecords(j)
  BY <1>11, BuildRecordsIInv
<1>12. CASE \E j \in Jobs : GiveUp(j)
  BY <1>12, GiveUpIInv
<1>13. CASE \E j \in Jobs : SetSerial(j)
  BY <1>13, SetSerialIInv
<1>14. CASE \E j \in Jobs : InsertSnapshot(j)
  BY <1>14, InsertSnapshotIInv
<1>15. CASE \E j \in Jobs : Prune(j)
  BY <1>15, PruneIInv
<1>16. CASE \E z \in Zones :
              \/ DeleteZone(z)
              \/ \E ttl \in Ttls : UpdateZoneSettings(z, ttl)
              \/ \E entry \in Entries : AddRecord(z, entry)
              \/ \E id \in 1 .. MaxRecordId :
                    DeleteRecord(z, id) \/ \E entry \in Entries : UpdateRecord(z, id, entry)
              \/ \E j \in Jobs :
                    \/ \E ttl \in Ttls :
                          CreateCheck(j, z, ttl) \/ \E body \in ImportBodies : ImportCheck(j, z, ttl, body)
                    \/ \E id \in 1 .. MaxSnapshotId : RestoreSelect(j, z, id)
                    \/ BuildZone(j, z)
  BY <1>2, <1>3, <1>4, <1>5, <1>6, <1>7, <1>16
<1> QED
  BY <1>1, <1>8, <1>9, <1>10, <1>11, <1>12, <1>13, <1>14, <1>15, <1>16 DEF Next

LEMMA Inductive == Spec => []IInv
BY InitIInv, NextIInv, PTL DEF Spec

-----------------------------------------------------------------------------
(* The theorems.                                                           *)

\* The tables and the jobs have their types; above all, whatever is deployed,
\* published or about to be restored has a TTL in the SOA.
THEOREM TypeCorrect == Spec => []TypeOK
<1>1. IInv => TypeOK
  BY DEF IInv
<1> QED BY <1>1, Inductive, PTL

\* Whichever handlers interleave, no record and no snapshot outlives its zone.
THEOREM NoOrphans == Spec => []NothingOrphaned
<1>1. IInv => NothingOrphaned
  BY DEF IInv, TablesOK
<1> QED BY <1>1, Inductive, PTL

\* The id in a page that was rendered long ago never comes to mean another row.
THEOREM IdsAreFresh == Spec => []NoIdComesBack
<1>1. IInv => NoIdComesBack
  BY DEF IInv, TablesOK
<1> QED BY <1>1, Inductive, PTL

=============================================================================

-------------------------- MODULE ZoneSteps_proofs --------------------------
(***************************************************************************)
(* For any number of zones, records, snapshots, handlers and operations,   *)
(* what the steps of the store do: a restore is exact, a zone is created   *)
(* as it was asked for, and the latest snapshot only gives way to a newer  *)
(* one.                                                                    *)
(***************************************************************************)
EXTENDS ZoneStore_proofs

\* What Build gives: entries in render order with their TTLs filled in.
Canonical(content) ==
    /\ \A k \in DOMAIN content.body : content.body[k].ttl # 0
    /\ \A i, k \in DOMAIN content.body : i < k => content.body[i].key <= content.body[k].key

SnapshotsCanonical == \A s \in snapshots : Canonical(s.content)

\* What a job carries on its way into a table.
CarriesWell(state) ==
    /\ state.op \in {"deployed", "insert", "restore"} => Canonical(state.content)
    /\ state.op = "create" => state.content.body = <<>>

SInv ==
    /\ IInv
    /\ SnapshotsCanonical
    /\ \A j \in Jobs : CarriesWell(job[j])

-----------------------------------------------------------------------------
(* Contents.                                                               *)

LEMMA BuiltIsCanonical ==
    ASSUME TypeOK, NoIdComesBack, NEW soa \in Nat, NEW serial \in Nat, NEW z \in Zones
    PROVE  Canonical(Built(soa, serial, Rows(z)))
<1> DEFINE rows == RecordsOf(z)
<1>1. rows \subseteq records
  BY DEF RecordsOf
<1>2. IsFiniteSet(rows)
  BY <1>1, FS_Subset DEF TypeOK
<1>3. \A q \in rows : q.key \in Nat /\ q.id \in Nat /\ q.ttl \in Nat
  BY <1>1, RecordTypes
<1>4. \A a, b \in rows : a.id = b.id => a = b
  BY <1>1 DEF NoIdComesBack
<1>5. /\ \A k \in DOMAIN Rows(z) : Rows(z)[k] \in rows
      /\ \A i, k \in DOMAIN Rows(z) : i < k => Before(Rows(z)[i], Rows(z)[k])
  BY <1>2, <1>3, <1>4, RowsAreSorted DEF Rows
<1>6. \A i, k \in DOMAIN Rows(z) : i < k => Rows(z)[i].key <= Rows(z)[k].key
  BY <1>3, <1>5 DEF Before
<1>7. OrElse(soa, DefaultTtl) \in Nat \ {0}
  BY DEF OrElse, DefaultTtl
<1>8. \A k \in DOMAIN Rows(z) : OrElse(Rows(z)[k].ttl, OrElse(soa, DefaultTtl)) # 0
  BY <1>7 DEF OrElse
<1> QED BY <1>6, <1>8 DEF Canonical, Built

\* A bijection from the first n numbers counts a set.
LEMMA Counted ==
    ASSUME NEW n \in Nat, NEW S, NEW f, DOMAIN f = 1 .. n, f = [k \in 1 .. n |-> f[k]],
           S = {f[k] : k \in 1 .. n}, \A i, k \in 1 .. n : f[i] = f[k] => i = k
    PROVE  IsFiniteSet(S) /\ Cardinality(S) = n
<1>1. f \in Bijection(1 .. n, S)
  BY DEF Bijection, Injection, Surjection, IsInjective
<1>2. ExistsBijection(1 .. n, S)
  BY <1>1 DEF ExistsBijection
<1>3. IsFiniteSet(S)
  BY <1>2, FS_NatBijection
<1> QED BY <1>2, <1>3, FS_CountingElements

\* An INSERT per entry.
LEMMA NewRowsCounted ==
    ASSUME NEW z, NEW body \in Seq(Rows0), recordSeq \in Nat
    PROVE  Cardinality(NewRows(z, body)) = Len(body)
<1> DEFINE n == Len(body)
<1> DEFINE row == [k \in 1 .. n |-> [id |-> recordSeq + k, zone |-> z, key |-> body[k].key, ttl |-> body[k].ttl]]
<1>1. n \in Nat /\ DOMAIN body = 1 .. n
  BY ElementsOf
<1>2. NewRows(z, body) = {row[k] : k \in 1 .. n}
  BY <1>1 DEF NewRows, LastRecordId
<1>3. \A i, k \in 1 .. n : row[i] = row[k] => i = k
  <2>1. \A k \in 1 .. n : row[k].id = recordSeq + k
    OBVIOUS
  <2> HIDE DEF row
  <2> QED BY <1>1, <2>1
<1>4. DOMAIN row = 1 .. n /\ row = [k \in 1 .. n |-> row[k]]
  OBVIOUS
<1> HIDE DEF row
<1> QED BY <1>1, <1>2, <1>3, <1>4, Counted

\* Inserting a list of entries that are in render order, and ordering the rows,
\* gives the list back.
LEMMA InsertedInOrder ==
    ASSUME NEW z, NEW body \in Seq(Rows0), recordSeq \in Nat, KeysAssumption,
           \A i, k \in DOMAIN body : i < k => body[i].key <= body[k].key
    PROVE  LET out == Sorted(NewRows(z, body))
           IN  /\ Cardinality(NewRows(z, body)) = Len(body)
               /\ DOMAIN out = 1 .. Len(body)
               /\ \A k \in 1 .. Len(body) : out[k].key = body[k].key /\ out[k].ttl = body[k].ttl
<1> DEFINE n == Len(body)
<1> DEFINE row == [k \in 1 .. n |-> [id |-> recordSeq + k, zone |-> z, key |-> body[k].key, ttl |-> body[k].ttl]]
<1> DEFINE new == NewRows(z, body)
<1>1. n \in Nat /\ DOMAIN body = 1 .. n /\ \A k \in 1 .. n : body[k].key \in Nat
  <2>1. n \in Nat /\ DOMAIN body = 1 .. n /\ \A k \in 1 .. n : body[k] \in Rows0
    BY ElementsOf
  <2> QED BY <2>1, KeysAssumption DEF Rows0
<1>2. new = {row[k] : k \in 1 .. n}
  BY <1>1 DEF NewRows, LastRecordId
<1>3. \A k \in 1 .. n : row[k].id = recordSeq + k /\ row[k].key = body[k].key /\ row[k].ttl = body[k].ttl
  OBVIOUS
<1>4. DOMAIN row = 1 .. n /\ row = [k \in 1 .. n |-> row[k]]
  OBVIOUS
<1> HIDE DEF row, new, n
<1>5. \A i, k \in 1 .. n : row[i] = row[k] => i = k
  BY <1>1, <1>3
<1>6. \A i, k \in 1 .. n : Before(row[i], row[k]) <=> i < k
  <2> SUFFICES ASSUME NEW i \in 1 .. n, NEW k \in 1 .. n PROVE Before(row[i], row[k]) <=> i < k
    OBVIOUS
  <2>1. /\ i \in Nat /\ k \in Nat /\ body[i].key \in Nat /\ body[k].key \in Nat
        /\ i < k => body[i].key <= body[k].key
        /\ k < i => body[k].key <= body[i].key
    <3>1. i \in DOMAIN body /\ k \in DOMAIN body
      BY <1>1
    <3>2. (i < k => body[i].key <= body[k].key) /\ (k < i => body[k].key <= body[i].key)
      BY <3>1
    <3>3. i \in Nat /\ k \in Nat /\ body[i].key \in Nat /\ body[k].key \in Nat
      BY <1>1
    <3> QED BY <3>2, <3>3
  <2>2. Before(row[i], row[k])
          <=> (body[i].key < body[k].key \/ (body[i].key = body[k].key /\ recordSeq + i < recordSeq + k))
    <3>1. row[i].key = body[i].key /\ row[i].id = recordSeq + i
      BY <1>3
    <3>2. row[k].key = body[k].key /\ row[k].id = recordSeq + k
      BY <1>3
    <3> QED BY <3>1, <3>2 DEF Before
  <2>3. CASE i < k
    BY <2>1, <2>2, <2>3
  <2>4. CASE k <= i
    BY <2>1, <2>2, <2>4
  <2> QED BY <2>1, <2>3, <2>4
<1>7. Cardinality(new) = n
  BY NewRowsCounted DEF new, n
<1>8. ASSUME NEW k \in 1 .. n PROVE Rank(new, row[k]) = k
  <2>0. PICK m \in Nat : k = m + 1
    <3>1. k - 1 \in Nat /\ k = (k - 1) + 1
      BY <1>1
    <3> QED BY <3>1
  <2> DEFINE lower == {q \in new : Before(q, row[k])}
  <2> DEFINE first == [i \in 1 .. m |-> row[i]]
  <2>1. 1 .. m \subseteq 1 .. n /\ \A i \in 1 .. n : i < k <=> i \in 1 .. m
    BY <1>1, <2>0
  <2>2. lower = {first[i] : i \in 1 .. m}
    BY <1>2, <1>6, <2>1
  <2>3. \A i, p \in 1 .. m : first[i] = first[p] => i = p
    BY <1>5, <2>1
  <2>4. DOMAIN first = 1 .. m /\ first = [i \in 1 .. m |-> first[i]]
    OBVIOUS
  <2>5. Cardinality(lower) = m
    <3> HIDE DEF lower, first
    <3> QED BY <2>2, <2>3, <2>4, Counted
  <2> QED BY <2>0, <2>5 DEF Rank
<1>9. ASSUME NEW k \in 1 .. n PROVE (CHOOSE r \in new : Rank(new, r) = k) = row[k]
  BY <1>2, <1>8
<1>10. /\ DOMAIN Sorted(new) = 1 .. n
       /\ \A k \in 1 .. n : Sorted(new)[k] = row[k]
  BY <1>7, <1>9 DEF Sorted
<1> QED BY <1>3, <1>7, <1>10 DEF new, n

\* Build gives back a content that needs no defaults.
LEMMA BuiltBack ==
    ASSUME NEW c \in Contents, Canonical(c), NEW out, DOMAIN out = 1 .. Len(c.body),
           \A k \in 1 .. Len(c.body) : out[k].key = c.body[k].key /\ out[k].ttl = c.body[k].ttl
    PROVE  Built(c.soa, c.serial, out) = c
<1> DEFINE n == Len(c.body)
<1>1. c.body \in Seq(Rows0) /\ c.soa # 0 /\ c = [soa |-> c.soa, serial |-> c.serial, body |-> c.body]
  BY DEF Contents, Rows0
<1>2. n \in Nat /\ DOMAIN c.body = 1 .. n /\ \A k \in 1 .. n : c.body[k] \in Rows0
  BY <1>1, ElementsOf
<1>3. \A k \in 1 .. n : OrElse(out[k].ttl, c.soa) = c.body[k].ttl
  BY <1>2 DEF Canonical, OrElse
<1>4. \A k \in 1 .. n : [key |-> out[k].key, ttl |-> OrElse(out[k].ttl, c.soa)] = c.body[k]
  BY <1>2, <1>3 DEF Rows0
<1>5. c.body = [k \in 1 .. n |-> c.body[k]]
  BY <1>1, <1>2
<1>6. [k \in DOMAIN out |-> [key |-> out[k].key, ttl |-> OrElse(out[k].ttl, c.soa)]] = c.body
  BY <1>4, <1>5
<1>7. OrElse(c.soa, DefaultTtl) = c.soa
  BY <1>1 DEF OrElse
<1> QED BY <1>1, <1>6, <1>7 DEF Built

-----------------------------------------------------------------------------
(* The invariant.                                                          *)

LEMMA InitSInv == Init => SInv
BY InitIInv DEF Init, SInv, SnapshotsCanonical, CarriesWell, NoJob

\* What a step must show: how it changes one job, and which snapshots it adds.
LEMMA JobStep ==
    ASSUME SInv, IInv', NEW j \in Jobs, NEW new, job' = [job EXCEPT ![j] = new], CarriesWell(new),
           \A s \in snapshots' : s \in snapshots \/ Canonical(s.content)
    PROVE  SInv'
<1>1. job \in [Jobs -> JobStates \cup {NoJob}]
  BY DEF SInv, IInv, TypeOK
<1>2. \A i \in Jobs : CarriesWell(job'[i])
  BY <1>1 DEF SInv
<1>3. SnapshotsCanonical'
  BY DEF SInv, SnapshotsCanonical
<1> QED BY <1>2, <1>3 DEF SInv, CarriesWell

LEMMA JobEnds ==
    ASSUME SInv, IInv', NEW j \in Jobs, Finish(j), snapshots' \subseteq snapshots
    PROVE  SInv'
<1>1. CarriesWell(NoJob)
  BY DEF CarriesWell, NoJob
<1> QED BY <1>1, JobStep DEF Finish

LEMMA NoJobStep ==
    ASSUME SInv, IInv', job' = job, snapshots' \subseteq snapshots
    PROVE  SInv'
BY DEF SInv, SnapshotsCanonical, CarriesWell

\* The steps of no job.
Edits ==
    \/ \E z \in Zones :
          \/ DeleteZone(z)
          \/ \E ttl \in Ttls : UpdateZoneSettings(z, ttl)
          \/ \E entry \in Entries : AddRecord(z, entry)
          \/ \E id \in 1 .. MaxRecordId :
                DeleteRecord(z, id) \/ \E entry \in Entries : UpdateRecord(z, id, entry)
    \/ UNCHANGED vars

Starts(j, z) ==
    \/ \E ttl \in Ttls :
          CreateCheck(j, z, ttl) \/ \E body \in ImportBodies : ImportCheck(j, z, ttl, body)
    \/ \E id \in 1 .. MaxSnapshotId : RestoreSelect(j, z, id)
    \/ BuildZone(j, z)

Moves(j) ==
    \/ CreateZone(j) \/ ImportZone(j) \/ RestoreCommit(j)
    \/ BuildRecords(j) \/ GiveUp(j) \/ SetSerial(j) \/ InsertSnapshot(j) \/ Prune(j)

LEMMA Steps ==
    ASSUME [Next]_vars
    PROVE  Edits \/ (\E j \in Jobs, z \in Zones : Starts(j, z)) \/ \E j \in Jobs : Moves(j)
BY DEF Next, Edits, Starts, Moves

LEMMA EditsLeave == ASSUME Edits PROVE job' = job /\ snapshots' \subseteq snapshots
BY DEF Edits, DeleteZone, UpdateZoneSettings, AddRecord, DeleteRecord, UpdateRecord, vars

LEMMA NextSInv == SInv /\ [Next]_vars => SInv'
<1> SUFFICES ASSUME SInv, [Next]_vars PROVE SInv'
  OBVIOUS
<1>0. IInv' /\ TypeOK /\ TablesOK /\ NoIdComesBack
  BY NextIInv DEF SInv, IInv, TablesOK
<1>1. CASE Edits
  BY <1>0, <1>1, EditsLeave, NoJobStep
<1>2. ASSUME NEW j \in Jobs, NEW z \in Zones, Starts(j, z) PROVE SInv'
  <2>1. PICK new : CarriesWell(new) /\ job' = [job EXCEPT ![j] = new] /\ snapshots' = snapshots
    <3>1. CASE \E ttl \in Ttls : CreateCheck(j, z, ttl)
      <4>1. PICK ttl \in Ttls : CreateCheck(j, z, ttl)
        BY <3>1
      <4> DEFINE new == [op |-> "create", zone |-> z,
                         content |-> [soa |-> OrElse(ttl, DefaultTtl), serial |-> 0, body |-> <<>>]]
      <4>2. CarriesWell(new)
        BY DEF CarriesWell
      <4>3. job' = [job EXCEPT ![j] = new] /\ snapshots' = snapshots
        BY <4>1 DEF CreateCheck, Start
      <4> QED BY <4>2, <4>3
    <3>2. CASE \E ttl \in Ttls, body \in ImportBodies : ImportCheck(j, z, ttl, body)
      <4>1. PICK ttl \in Ttls, body \in ImportBodies : ImportCheck(j, z, ttl, body)
        BY <3>2
      <4> DEFINE new == [op |-> "import", zone |-> z,
                         content |-> [soa |-> OrElse(ttl, DefaultTtl), serial |-> 0, body |-> body]]
      <4>2. CarriesWell(new)
        BY DEF CarriesWell
      <4>3. job' = [job EXCEPT ![j] = new] /\ snapshots' = snapshots
        BY <4>1 DEF ImportCheck, Start
      <4> QED BY <4>2, <4>3
    <3>3. CASE \E id \in 1 .. MaxSnapshotId : RestoreSelect(j, z, id)
      <4>1. PICK s \in snapshots : Start(j, "restore", z, s.content)
        BY <3>3 DEF RestoreSelect, SnapshotsOf
      <4> DEFINE new == [op |-> "restore", zone |-> z, content |-> s.content]
      <4>2. CarriesWell(new)
        BY DEF SInv, SnapshotsCanonical, CarriesWell
      <4>3. job' = [job EXCEPT ![j] = new] /\ snapshots' = snapshots
        BY <4>1 DEF Start
      <4> QED BY <4>2, <4>3
    <3>4. CASE BuildZone(j, z)
      <4> DEFINE new == [op |-> "records", zone |-> z,
                         content |-> [soa |-> zones[z].soa, serial |-> zones[z].serial + 1, body |-> <<>>]]
      <4>2. CarriesWell(new)
        BY DEF CarriesWell
      <4>3. job' = [job EXCEPT ![j] = new] /\ snapshots' = snapshots
        BY <3>4 DEF BuildZone, Start
      <4> QED BY <4>2, <4>3
    <3> QED BY <1>2, <3>1, <3>2, <3>3, <3>4 DEF Starts
  <2> QED BY <1>0, <2>1, JobStep
<1>3. ASSUME NEW j \in Jobs, Moves(j) PROVE SInv'
  <2>0. CarriesWell(job[j]) /\ job \in [Jobs -> JobStates \cup {NoJob}]
    BY <1>0 DEF SInv, TypeOK
  <2>1. CASE CreateZone(j) \/ ImportZone(j) \/ RestoreCommit(j) \/ GiveUp(j)
    <3>1. Finish(j) /\ snapshots' = snapshots
      BY <2>1 DEF CreateZone, ImportZone, RestoreCommit, GiveUp
    <3> QED BY <1>0, <3>1, JobEnds
  <2>2. CASE Prune(j)
    <3>1. Finish(j) /\ snapshots' \subseteq snapshots
      BY <2>2 DEF Prune
    <3> QED BY <1>0, <3>1, JobEnds
  <2>3. CASE BuildRecords(j)
    <3> DEFINE content == Built(job[j].content.soa, job[j].content.serial, Rows(job[j].zone))
    <3>1. job[j] \in JobStates /\ At(j, "records") /\ "records" \in Ops
      BY <2>0, <2>3 DEF BuildRecords, At, NoJob, Ops
    <3>2. PICK z \in Zones, soa \in Nat, serial \in Nat :
            z = job[j].zone /\ soa = job[j].content.soa /\ serial = job[j].content.serial
      BY <1>0, <3>1, JobInProgress
    <3>3. Canonical(content)
      BY <1>0, <3>2, BuiltIsCanonical
    <3>4. job' = [job EXCEPT ![j] = [job[j] EXCEPT !.op = "deployed", !.content = content]] /\ snapshots' = snapshots
      BY <2>0, <2>3 DEF BuildRecords
    <3> DEFINE new == [job[j] EXCEPT !.op = "deployed", !.content = content]
    <3> HIDE DEF content
    <3>5. new.op = "deployed" /\ new.content = content
      BY <3>1 DEF JobStates
    <3>6. CarriesWell(new)
      BY <3>3, <3>5 DEF CarriesWell
    <3> QED BY <1>0, <3>4, <3>6, JobStep
  <2>4. CASE SetSerial(j)
    <3>1. job[j] \in JobStates /\ job[j].op = "deployed"
      BY <2>0, <2>4 DEF SetSerial, At, NoJob
    <3> DEFINE new == [job[j] EXCEPT !.op = "insert"]
    <3>2. job' = [job EXCEPT ![j] = new] /\ snapshots' = snapshots
      BY <2>4 DEF SetSerial, Step
    <3>3. CarriesWell(new)
      BY <2>0, <3>1 DEF CarriesWell, JobStates
    <3> QED BY <1>0, <3>2, <3>3, JobStep
  <2>5. CASE InsertSnapshot(j)
    <3>1. job[j] \in JobStates /\ job[j].op = "insert" /\ Canonical(job[j].content)
      BY <2>0, <2>5 DEF InsertSnapshot, At, NoJob, CarriesWell
    <3>2. CASE ~Exists(job[j].zone)
      <4>1. Finish(j) /\ snapshots' = snapshots
        BY <2>5, <3>2 DEF InsertSnapshot
      <4> QED BY <1>0, <4>1, JobEnds
    <3>3. CASE Exists(job[j].zone)
      <4> DEFINE new == [job[j] EXCEPT !.op = "prune"]
      <4>1. job' = [job EXCEPT ![j] = new]
        BY <2>5, <3>3 DEF InsertSnapshot, Step
      <4>2. CarriesWell(new)
        BY <3>1 DEF CarriesWell, JobStates
      <4>3. \A s \in snapshots' : s \in snapshots \/ Canonical(s.content)
        BY <2>5, <3>1, <3>3 DEF InsertSnapshot
      <4> QED BY <1>0, <4>1, <4>2, <4>3, JobStep
    <3> QED BY <3>2, <3>3
  <2> QED BY <1>3, <2>1, <2>2, <2>3, <2>4, <2>5 DEF Moves
<1> QED BY <1>1, <1>2, <1>3, Steps

LEMMA StepInvariant == Spec => []SInv
BY InitSInv, NextSInv, PTL DEF Spec

-----------------------------------------------------------------------------
(* A restore.                                                              *)

\* A job in progress ends by a step of its own.
LEMMA EndsItself ==
    ASSUME TypeOK, NEW j \in Jobs, job[j] # NoJob, job'[j] = NoJob, [Next]_vars
    PROVE  Moves(j)
<1>0. job \in [Jobs -> JobStates \cup {NoJob}]
  BY DEF TypeOK
<1>1. ~Edits
  BY EditsLeave
<1>2. ASSUME NEW i \in Jobs, NEW z \in Zones, Starts(i, z) PROVE FALSE
  <2>1. job[i] = NoJob /\ \E new : job' = [job EXCEPT ![i] = new]
    BY <1>2 DEF Starts, CreateCheck, ImportCheck, RestoreSelect, BuildZone, Start
  <2> QED BY <1>0, <2>1
<1>3. ASSUME NEW i \in Jobs, Moves(i), i # j PROVE FALSE
  <2>1. \E new : job' = [job EXCEPT ![i] = new]
    <3>1. CASE CreateZone(i) \/ ImportZone(i) \/ RestoreCommit(i) \/ GiveUp(i) \/ Prune(i)
      BY <3>1 DEF CreateZone, ImportZone, RestoreCommit, GiveUp, Prune, Finish
    <3>2. CASE BuildRecords(i)
      BY <1>0, <3>2 DEF BuildRecords
    <3>3. CASE SetSerial(i) \/ InsertSnapshot(i)
      BY <1>0, <3>3 DEF SetSerial, InsertSnapshot, Step, Finish
    <3> QED BY <1>3, <3>1, <3>2, <3>3 DEF Moves
  <2> QED BY <1>0, <1>3, <2>1
<1> QED BY <1>1, <1>2, <1>3, Steps

\* store.go, RestoreSnapshot: whatever was edited, deleted or created since its
\* SELECT, a zone that is restored renders entry for entry as the snapshot does.
THEOREM RestoreRendersTheSame == Spec => RestoreIsExact
<1>1. SInv /\ [Next]_vars
        => [\A j \in Jobs, z \in Zones :
              At(j, "restore") /\ job[j].zone = z /\ job'[j] = NoJob /\ Exists(z)
                  => Content(z)' = job[j].content]_vars
  <2> SUFFICES ASSUME SInv, [Next]_vars, NEW j \in Jobs, NEW z \in Zones,
                      At(j, "restore"), job[j].zone = z, job'[j] = NoJob, Exists(z)
               PROVE  Content(z)' = job[j].content
    OBVIOUS
  <2>0. TypeOK /\ recordSeq \in Nat /\ "restore" \in Ops
    BY BoundAssumption DEF SInv, IInv, TypeOK, Ops
  <2>1. job[j] # NoJob
    BY DEF At, NoJob
  <2>2. RestoreCommit(j)
    <3>1. Moves(j)
      BY <2>0, <2>1, EndsItself
    <3> QED BY <3>1 DEF Moves, CreateZone, ImportZone, BuildRecords, GiveUp, SetSerial, InsertSnapshot,
                        Prune, At
  <2>3. PICK content \in Contents : content = job[j].content /\ content.body \in Seq(Rows0) /\ Canonical(content)
    BY <2>0, JobInProgress DEF SInv, CarriesWell, At
  <2>4. /\ zones' = [zones EXCEPT ![z] = NewRow(content)]
        /\ records' = (records \ RecordsOf(z)) \cup NewRows(z, content.body)
    BY <2>2, <2>3 DEF RestoreCommit, Insert
  <2>5. zones'[z].soa = content.soa /\ zones'[z].serial = content.serial
    BY <2>0, <2>4 DEF TypeOK, NewRow
  <2>6. RecordsOf(z)' = NewRows(z, content.body)
    BY <2>4 DEF RecordsOf, NewRows
  <2>7. Rows(z)' = Sorted(NewRows(z, content.body))
    BY <2>6 DEF Rows
  <2>8. /\ DOMAIN Rows(z)' = 1 .. Len(content.body)
        /\ \A k \in 1 .. Len(content.body) :
              Rows(z)'[k].key = content.body[k].key /\ Rows(z)'[k].ttl = content.body[k].ttl
    BY <2>0, <2>3, <2>7, KeysAssumption, InsertedInOrder DEF Canonical
  <2>9. Built(content.soa, content.serial, Rows(z)') = content
    BY <2>3, <2>8, BuiltBack
  <2> QED BY <2>3, <2>5, <2>9 DEF Content
<1> QED BY <1>1, StepInvariant, PTL DEF Spec, RestoreIsExact

-----------------------------------------------------------------------------
(* A new zone.                                                             *)

\* store.go, CreateZone and ImportZone: whoever passed the check first or last, a
\* create or an import that changes something makes the zone it was asked for: its
\* SOA, its serial and exactly its records, in their order, under a name not in use.
THEOREM ZoneIsCreatedAsAsked == Spec => CreatedAsAsked
<1>1. SInv /\ [Next]_vars
        => [\A j \in Jobs, z \in Zones :
              job[j].op \in {"create", "import"} /\ job[j].zone = z /\ job'[j] = NoJob /\ ~UNCHANGED <<zones, records>>
                  => /\ ~Exists(z)
                     /\ zones'[z] = NewRow(job[j].content)
                     /\ Lists(RecordsOf(z)', z, job[j].content.body)]_vars
  <2> SUFFICES ASSUME SInv, [Next]_vars, NEW j \in Jobs, NEW z \in Zones,
                      job[j].op \in {"create", "import"}, job[j].zone = z, job'[j] = NoJob,
                      ~UNCHANGED <<zones, records>>
               PROVE  /\ ~Exists(z)
                      /\ zones'[z] = NewRow(job[j].content)
                      /\ Lists(RecordsOf(z)', z, job[j].content.body)
    OBVIOUS
  <2>0. TypeOK /\ NothingOrphaned /\ recordSeq \in 0 .. MaxRecordId
    BY BoundAssumption DEF SInv, IInv, TypeOK, TablesOK
  <2>1. CreateZone(j) \/ ImportZone(j)
    <3>1. job[j] # NoJob
      BY DEF NoJob
    <3>2. Moves(j)
      BY <2>0, <3>1, EndsItself
    <3> QED BY <3>2 DEF Moves, RestoreCommit, BuildRecords, GiveUp, SetSerial, InsertSnapshot, Prune, At
  <2>2. PICK content \in Contents : content = job[j].content /\ content.body \in Seq(Rows0) /\ NewRow(content) \in ZoneRows
    <3>1. \E op \in Ops : At(j, op)
      BY DEF At, Ops
    <3> QED BY <2>0, <3>1, JobInProgress
  <2>3. ~Exists(z) /\ zones' = [zones EXCEPT ![z] = NewRow(content)]
    BY <2>1, <2>2 DEF CreateZone, ImportZone
  <2>4. zones'[z] = NewRow(content)
    BY <2>0, <2>3 DEF TypeOK
  <2>5. RecordsOf(z) = {}
    BY <2>0, <2>3 DEF RecordsOf, NothingOrphaned
  <2>6. CASE CreateZone(j)
    <3>1. content.body = <<>>
      BY <2>2, <2>6 DEF SInv, CarriesWell, CreateZone, At
    <3>2. RecordsOf(z)' = {}
      BY <2>5, <2>6 DEF CreateZone, RecordsOf
    <3>3. DOMAIN content.body = {}
      BY <3>1
    <3>4. Lists(RecordsOf(z)', z, content.body)
      BY <2>0, <3>2, <3>3 DEF Lists
    <3> QED BY <2>2, <2>3, <2>4, <3>4
  <2>7. CASE ImportZone(j)
    <3>1. records' = records \cup NewRows(z, content.body)
      BY <2>2, <2>3, <2>7 DEF ImportZone, Insert
    <3>2. RecordsOf(z)' = NewRows(z, content.body)
      BY <2>5, <3>1 DEF RecordsOf, NewRows
    <3>3. Lists(RecordsOf(z)', z, content.body)
      BY <2>0, <3>2 DEF Lists, NewRows, LastRecordId
    <3> QED BY <2>2, <2>3, <2>4, <3>3
  <2> QED BY <2>1, <2>6, <2>7
<1> QED BY <1>1, StepInvariant, PTL DEF Spec, CreatedAsAsked

-----------------------------------------------------------------------------
(* The latest snapshot.                                                    *)

\* A finite set of numbers has a largest: ordered as rows, the last.
LEMMA Largest ==
    ASSUME NEW S, IsFiniteSet(S), S \subseteq Nat, S # {}
    PROVE  \E m \in S : \A n \in S : n <= m
<1> DEFINE row == [n \in S |-> [key |-> 0, id |-> n]]
<1> DEFINE rows == {row[n] : n \in S}
<1> DEFINE out == Sorted(rows)
<1> DEFINE last == Cardinality(rows)
<1>1. IsFiniteSet(rows)
  <2>1. row \in Surjection(S, rows)
    BY DEF Surjection
  <2> HIDE DEF row, rows
  <2> QED BY <2>1, FS_Surjection
<1>2. \A q \in rows : q.key \in Nat /\ q.id \in S /\ q.id \in Nat
  OBVIOUS
<1>3. \A a, b \in rows : a.id = b.id => a = b
  OBVIOUS
<1>4. \A n \in S : row[n] \in rows /\ row[n].id = n
  OBVIOUS
<1> HIDE DEF row, rows
<1>5. /\ DOMAIN out = 1 .. last /\ last \in Nat
      /\ \A k \in 1 .. last : out[k] \in rows
      /\ \A r \in rows : \E k \in 1 .. last : out[k] = r
      /\ \A i, k \in 1 .. last : i < k => Before(out[i], out[k])
  <2>1. /\ DOMAIN out = 1 .. last /\ last \in Nat
        /\ \A k \in DOMAIN out : out[k] \in rows
        /\ \A r \in rows : \E k \in DOMAIN out : out[k] = r
        /\ \A i, k \in DOMAIN out : i < k => Before(out[i], out[k])
    BY <1>1, <1>2, <1>3, RowsAreSorted, Zenon
  <2> HIDE DEF out, last
  <2> QED BY <2>1
<1> HIDE DEF out, last
<1>6. last \in 1 .. last
  <2>1. PICK r \in rows : TRUE
    BY <1>4
  <2> QED BY <1>5, <2>1
<1>7. \A i \in 1 .. last : out[i].id <= out[last].id
  <2> SUFFICES ASSUME NEW i \in 1 .. last PROVE out[i].id <= out[last].id
    OBVIOUS
  <2>1. out[i] \in rows /\ out[last] \in rows
    BY <1>5, <1>6
  <2>2. i = last \/ Before(out[i], out[last])
    BY <1>5, <1>6
  <2>3. \A r \in rows : r.key = 0
    BY DEF row, rows
  <2> QED BY <1>2, <2>1, <2>2, <2>3 DEF Before
<1>8. out[last].id \in S
  BY <1>2, <1>5, <1>6
<1>9. \A n \in S : n <= out[last].id
  BY <1>4, <1>5, <1>7
<1> QED BY <1>8, <1>9

LEMMA NewestIsNewest ==
    ASSUME NEW rows, rows # {}, \A r \in rows : r.id \in 1 .. MaxSnapshotId
    PROVE  Newest(rows) \in rows /\ \A q \in rows : q.id <= Newest(rows).id
<1> DEFINE S == {r.id : r \in rows}
<1>1. S \subseteq 1 .. MaxSnapshotId /\ S \subseteq Nat /\ S # {}
  BY BoundAssumption
<1>2. IsFiniteSet(S)
  <2> HIDE DEF S
  <2>1. 1 \in Int /\ MaxSnapshotId \in Int
    BY BoundAssumption
  <2>2. IsFiniteSet(1 .. MaxSnapshotId)
    BY <2>1, FS_Interval
  <2> QED BY <1>1, <2>2, FS_Subset
<1>3. \E m \in S : \A n \in S : n <= m
  <2> HIDE DEF S
  <2> QED BY <1>1, <1>2, Largest
<1>4. \E r \in rows : \A q \in rows : q.id <= r.id
  BY <1>3
<1> QED BY <1>4 DEF Newest

\* store.go, Publish and its DELETE: the snapshot that Dirty compares with is
\* followed by newer ones only, however deploys overlap and whatever they prune.
THEOREM LatestSnapshotStays == Spec => LatestOnlySucceeded
<1>1. IInv /\ IInv' /\ [Next]_vars
        => [\A z \in Zones :
              SnapshotsOf(z) # {} /\ Exists(z)'
                  => /\ SnapshotsOf(z)' # {}
                     /\ Newest(SnapshotsOf(z))'.id >= Newest(SnapshotsOf(z)).id]_vars
  <2> SUFFICES ASSUME IInv, IInv', [Next]_vars, NEW z \in Zones, SnapshotsOf(z) # {}, Exists(z)'
               PROVE  /\ SnapshotsOf(z)' # {}
                      /\ Newest(SnapshotsOf(z))'.id >= Newest(SnapshotsOf(z)).id
    OBVIOUS
  <2>0. TypeOK /\ TypeOK'
    BY DEF IInv
  <2>1. /\ \A r \in SnapshotsOf(z) : r.id \in 1 .. MaxSnapshotId
        /\ \A r \in SnapshotsOf(z)' : r.id \in 1 .. MaxSnapshotId
    BY <2>0 DEF TypeOK, SnapshotRows, SnapshotsOf
  <2>2. PICK old \in SnapshotsOf(z) : old = Newest(SnapshotsOf(z)) /\ \A q \in SnapshotsOf(z) : q.id <= old.id
    BY <2>1, NewestIsNewest
  \* The steps that take snapshots away leave this one.
  <2>3. old \in snapshots'
    <3>1. CASE Edits
      <4>1. ASSUME NEW y \in Zones, DeleteZone(y) PROVE old \in snapshots'
        <5>1. y # z
          BY <2>0, <4>1 DEF DeleteZone, Exists, TypeOK
        <5> QED BY <4>1, <5>1 DEF DeleteZone, SnapshotsOf
      <4>2. CASE ~\E y \in Zones : DeleteZone(y)
        BY <3>1, <4>2 DEF Edits, UpdateZoneSettings, AddRecord, DeleteRecord, UpdateRecord, vars, SnapshotsOf
      <4> QED BY <4>1, <4>2
    <3>2. ASSUME NEW j \in Jobs, NEW y \in Zones, Starts(j, y) PROVE old \in snapshots'
      BY <3>2 DEF Starts, CreateCheck, ImportCheck, RestoreSelect, BuildZone, Start, SnapshotsOf
    <3>3. ASSUME NEW j \in Jobs, Moves(j) PROVE old \in snapshots'
      <4>1. CASE Prune(j)
        <5>1. old \notin Surplus(job[j].zone)
          <6>1. CASE job[j].zone = z
            <7>1. {t \in SnapshotsOf(z) : t.id > old.id} = {}
              <8>1. \A t \in SnapshotsOf(z) : ~(t.id > old.id)
                BY <2>1, <2>2, BoundAssumption
              <8> QED BY <8>1
            <7>2. Cardinality({t \in SnapshotsOf(z) : t.id > old.id}) < Keep
              BY <7>1, FS_EmptySet, KeepAssumption
            <7> QED BY <6>1, <7>2 DEF Surplus, NewestKept
          <6>2. CASE job[j].zone # z
            BY <6>2 DEF Surplus, SnapshotsOf
          <6> QED BY <6>1, <6>2
        <5> QED BY <4>1, <5>1 DEF Prune, SnapshotsOf
      <4>2. CASE ~Prune(j)
        BY <3>3, <4>2 DEF Moves, CreateZone, ImportZone, RestoreCommit, BuildRecords, GiveUp, SetSerial,
                          InsertSnapshot, SnapshotsOf
      <4> QED BY <4>1, <4>2
    <3> QED BY <3>1, <3>2, <3>3, Steps
  <2>4. old \in SnapshotsOf(z)'
    BY <2>3 DEF SnapshotsOf
  <2> DEFINE rows == SnapshotsOf(z)'
  <2>5. Newest(rows) \in rows /\ \A q \in rows : q.id <= Newest(rows).id
    BY <2>1, <2>4, NewestIsNewest
  <2>6. Newest(SnapshotsOf(z))' = Newest(rows)
    BY DEF Newest
  <2> QED BY <2>1, <2>2, <2>4, <2>5, <2>6
<1> QED BY <1>1, Inductive, PTL DEF Spec, LatestOnlySucceeded

=============================================================================

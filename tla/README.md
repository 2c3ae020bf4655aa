# A verification of mrdns

mrdns is a small admin tool for BIND zones: one Go daemon with a web interface,
an SQLite database that is the only source of truth, and a pipeline that copies
a rendered zone to a set of name servers over SSH. This directory models its
core in TLA+, checks the models with TLC and proves some of their properties
with TLAPS. Paths below are relative to the repository (`src/` in
`PROJECT.json`). `PROJECT.json` ties every definition to the lines it models.

## 1. Inventory

| Component | State | Operations | Interacts with |
|---|---|---|---|
| SOA serials `internal/zone/serial.go` | the serial of a zone (uint32) | `BumpSerial` under the policies `date`, `unixtime`, `increment` | wall clock; handler; secondaries that compare serials |
| Deploy pipeline `internal/deploy/pipeline.go`, `result.go` | per target: connection, temporary path, `ServerResult` | `Deploy`: local check, stage and validate, barrier, commit and reload, verify, cleanup | SSH transport, named, caller's context |
| SSH transport `internal/deploy/ssh.go` | a connection, an SFTP client | `dialSSH`, `Upload`, `Run`, `Close`, `dnsVerifySerial` | name servers |
| Deploy handler `internal/web/zones.go` | none of its own; one run per request | `handleDeploy`, `handleRollback`, status pages | store, pipeline, clock; no lock between requests |
| Zone store `internal/store/store.go` | tables `zones`, `records`, `snapshots` | create, import, settings, record edits, delete, `Build`, `Publish`, `Dirty`, `RestoreSnapshot`; defaults for blank TTLs | one SQL connection, so one statement or transaction at a time |
| Zone editing handlers `internal/web/zones.go` | none | forms to store calls; ids travel through pages | store |
| Login rate limiter `internal/web/ratelimit.go` | per address, the instants admitted | `allow` | clock, concurrent logins |
| Zone text `internal/zone/build.go`, `zone.go`, `check.go` | parsed records | `Build`, `Parse`, `Render`, `DataRecords`, `Check` | named-checkzone |
| Record editing rules `internal/zone/edit.go` | parsed records | `Add`, `Remove`, `Replace`, `NormalizeRecord` | handlers |
| Sessions `internal/web/session.go`, `middleware.go`, `handlers.go` | signed cookies in the browser, a key on the server | `handleLoginForm`, `handleLogin`, `handleLogout`, `requireAuth`, the check of form tokens | limiter; every handler behind `requireAuth`; the other tabs of the browser |
| Diff, audit log, metrics, configuration, pages | text output; values read once | | |
| Daemon `cmd/mrdns/main.go`, `import.go` | | start, shutdown with a limit of 10 s; a command that imports into the same database from a second process | all |

What is hard in it:

- **Concurrency.** One goroutine per target in each phase of a deploy;
  one goroutine per HTTP request, with no lock per zone. Two deploys of a zone,
  an edit and a rollback interleave between statements. Two tabs share one cookie.
- **Failure.** A target fails at any step; a remote command is done while its
  answer is lost; the browser leaves and the request's context is cancelled in the
  middle; a server stops answering and holds its goroutine; the daemon stops
  between two statements of `Publish`, or under open pages.
- **Ordering.** named loads a zone after `rndc reload` has answered; serials
  must move forward on the serial circle although clocks and policies do not;
  login attempts reach the limiter out of clock order.
- **Long sequences.** Partial deploy, undo, rollback, redeploy.

What makes each part correct:

- serials: whatever a secondary missed, it sees the next serial as newer;
- pipeline: nothing changes anywhere before everything is validated everywhere; a
  file is never torn; the result is true; no call is made twice, and it returns unless a server stops answering,
  and one that does so after the barrier does not keep the content from the others;
- handler and published state: a snapshot was deployed everywhere it says; a
  zone shown as published is live; the next reload is newer than the last, and a later
  snapshot newer than an earlier one;
- store: no row outlives its zone, ids never come back, a restore is exact,
  pruning keeps the newest;
- limiter: no window admits more than the limit, nobody is refused for what
  others did;
- sessions: a page needs a recent login, a restart of the daemon costs no more logins than the limit
  once over, an honest form is not refused without a cause, each redirect leads closer to a page.

`PROJECT.json` lists the hazards one by one, at their lines.

## 2. The modules

| Module | Models | Role |
|---|---|---|
| `Serial` | `serial.go`, and the comparison of RFC 1982 | operators, shared |
| `SerialHistory` | a zone's serials through deploys, seen by a secondary | state machine |
| `SerialHistory_proofs` | | proofs |
| `Rollout` | what a caller of `Deploy` may rely on | abstract specification |
| `Pipeline` | one call of `Deploy` | detailed specification, implements `Rollout` |
| `Pipeline_proofs` | | proofs |
| `DeployFlow` | one zone: edits, deploys, rollbacks, restarts | composes `Serial` with the store and with the pipeline as `Rollout` describes it |
| `DeployFlow_proofs`, `DeployHistory_proofs` | | proofs; the second extends the first |
| `ZoneStore` | the database under concurrent handlers | state machine |
| `ZoneStore_proofs`, `ZoneSteps_proofs` | | proofs; the second extends the first |
| `RateLimiter` | `allow` under concurrent logins | state machine |
| `RateLimiter_proofs` | | proofs |
| `Sessions` | login, logout and the check of every request, for one browser | composes with `RateLimiter`, which it extends |
| `Sessions_proofs` | | proofs; extends those of the limiter |
| `MC*` | | values of the constants for TLC |

### Serial, SerialHistory

A serial is a member of a ring of `2 * Half` numbers; `Half` is 2^31 in the
program and a small number in the runs, so that every serial is reached. An
instant is the pair of readings the policies take from `time.Time`: civil date and
Unix seconds. `NextSerial` is `nextSerial` with its two comparisons written
once: the policy's stamp is used when it is above the current serial, otherwise
the serial is incremented with wrap. `SerialHistory` adds a secondary server
that transfers the zone now and then and misses up to `MaxMissed` deploys.

### Pipeline, Rollout

An entry of `Request.Targets` is a slot. Slots may name the same server, because
the form's list is not deduplicated (`zones.go:462`), or one that the
configuration file does not have. `phase` is where `Deploy` is; `at[i]` is the call
that slot i's goroutine makes next, "none" when it has ended, so a phase's
`wg.Wait` is `AllEnded`. The fields of `ServerResult` are `reached` (flags) and
`err` (kind of the error). A remote command has one of `RunOutcomes`: done or not,
success reported or not; what was not done is never reported as success.
`Silent` is a set of servers that may stop answering: `Bounded(i)` tells the calls that
return by themselves, which are the third phase's DNS queries and those to other servers.
Servers have a zone file, the zone that named serves, and a reload to do.
`Verify` compares serials, as the code does, not contents. A server of `SameSerial` served
`NewSerial` before, with other content, as it may after a rollback or a partial deploy: it is
verified whether or not it has loaded the new content (`ServesNewSerial`).
`Load` (named) and `Cancel` (net/http) are external.

`Rollout` has neither connections nor temporary files nor phases: targets validate,
then either the deploy aborts for good, or it commits, and content goes live
target by target. `Pipeline!ImplementsRollout` is the refinement.

### DeployFlow

One row `zone` with its records, its `snapshots`, up to two deploys in
progress, and per server the zone file and what is served. Each statement of
`handleDeploy`, `Build` and `Publish` is an action. The remote part is reduced to
what `Rollout` allows: abort, or move and reload target by target, with a move
that is done but not confirmed. `mode` fixes, per behaviour, the policy and
the failures that may happen; a run names its modes. `placed` and `strayed` are
history: the pairs of a server and a text that a deploy has really written over its zone file, which
its snapshot keeps, and the servers changed by a deploy that was not published. So
`SnapshotWasDeployed` compares the text that was stored, serial included, with those that
were written, target by target. Two things are coarser here than elsewhere: `Rollback` is one step
(`ZoneStore` has its SELECT and its transaction), and `Reload` is the answer of rndc and named's load
at once (`Pipeline` has both).

### ZoneStore

Two zone names, their rows, records and snapshots, and AUTOINCREMENT counters.
A method with several statements outside a transaction is a job, one action per
statement. A page sends back any id it ever showed, so `UpdateRecord`, `DeleteRecord`
and `RestoreSelect` try every id. `retired` is a history of the ids of deleted rows.

Of the columns the model keeps those on which the text of a zone depends: the
sort key of a record (name and type), its TTL, the zone's SOA TTL and the serial.
A TTL of 0 is a blank field or an explicit 0, and the code fills it in at three
places in two ways: `applyDefaults` and `NormalizeRecord` put 3600 (`OrElse`,
`Normalized`), `Build` puts the zone's TTL (`Built`). An import stores the record's 0, a restore
stores what `Build` made of it. `Sorted` is `ORDER BY name, type, id`, by the
rank of a row among the others, so that no recursion is needed and the theorem
`RowsAreSorted` can be proved about it. `CreatedAsAsked` states the whole result of a create
or an import: the row of the zone and the records, key by key and TTL by TTL, in the order of the file.

### RateLimiter

`handleLogin` reads the clock (`Login`), then `allow` takes the lock
(`Refuse` or `Admit`), at most `Skew` ticks later. The list of instants is a set of numbered
attempts; `granted` is the history of all of them.

### Sessions

The server keeps no sessions: a cookie is a signed record, here its number in the
sequence `issued`; the browser's `jar` is the number of its cookie, or 0. The token in a
form is known by the session it was rendered for (`page[t].session`). The fields `at`, `life`
and `fresh` of an issued session are history: when and in which life of the daemon it was
signed, and whether the request that got it had no valid session. `answer` is the last
answer given.

A tab of the browser is a slot of the limiter, so that the limiter's `Login`, `Refuse` and
`Admit` are parts of `LoginArrives`, `LoginLimited` and `LoginAdmitted`. A request carries the
cookie of the moment it was sent, other tabs log in and out in between, and a
redirect is followed with the jar of that moment. `Send` is the user and the browser, outside the program.
`Restart` empties the limiter, drops
the requests in flight and, if the configuration has no key (`Ephemeral`), changes the key.
Time passes between any two steps.

As the limiter forgets at a restart what it has admitted, its history `granted` begins anew with it,
and `past` keeps that of each earlier life of the daemon and when it ended. `LoginsPerStart` counts
over all of them: a window across a restart may admit the limit twice, and does, but a
window never admits more than the limit once more for each restart in it.

## 3. The runs

| Run | Question | Instance |
|---|---|---|
| `serial_history` | does a lagging secondary always catch up? | ring of 32, stamps 0 to 9, up to 5 missed deploys |
| `serial_wraps` | is the next serial always a larger number? **No.** | the same |
| `pipeline` | is one deploy correct? | 4 slots on 2 servers and an unknown name, every fault, one server that may stop answering |
| `pipeline_cleanup` | does an aborted deploy clean up? **Not when its request was cancelled.** | the same, cancellation only |
| `deploy_sequential` | do store, pages and servers agree, one deploy at a time? | 2 servers, 3 deploys, 3 policies, 6 modes |
| `deploy_overlap` | what still holds when deploys overlap? | 2 servers, 2 contents, 3 deploys, 2 at a time; aborts, failed and lost mv and rollbacks, or lost mv, restarts and target changes |
| `deploy_overlap_stale` | is a zone shown as published live? **Not after an overlap.** | 2 deploys, no fault |
| `deploy_partial_revert` | is it after a partial deploy? **Not when the edit is undone.** | 2 deploys, a mv may fail |
| `deploy_after_rollback` | does a reload always bring a newer serial? **Not after a rollback under `increment`.** | 3 deploys, rollbacks |
| `zone_store` | do rows, ids and snapshots stay consistent, and is a restore exact? | 2 zones, 2 jobs, 6 operations, 2 keys, TTLs 0 and 300, 4 record and 2 snapshot ids |
| `rate_limiter` | does the limit hold, and only it? | 2 addresses, 3 requests, limit 2 in a window of 3 |
| `sessions` | is who is served logged in, and does the login always lead somewhere? | 2 tabs, 5 user actions, sessions of 2 ticks in a time of 3, limit 1 in a window of 2, 1 restart with a new key |

The five runs marked with a "No" are the findings of `PROJECT.json`: each quotes
the sentence of the repository that TLC refutes. For each a theorem says where the sentence
is right:

| Refuted in | Right where | Theorem |
|---|---|---|
| `serial_wraps` | the serial is not the largest uint32 | `NextSerialIsLarger` |
| `pipeline_cleanup` | no rm fails, no link is lost, no request is cancelled | `CleanupIsComplete` |
| `deploy_overlap_stale`, `deploy_partial_revert` | deploys run one at a time, every mv answers what it did, and no restart comes into one | `PublishedZoneIsLive` |
| `deploy_after_rollback` | the stamps grow from deploy to deploy, or nothing takes the row back | `ReloadsAreNewer` |

**Why the bounds are enough.** The ring of 32 puts the stamps, the half circle and
the wrap in every relative position that five deploys can reach. In `pipeline`
two servers are what the barrier, a lost answer and a partial result need, the
third slot makes one server appear twice, and the fourth makes an unknown one; every
subset of the slots is a target list. In `DeployFlow` three deploys give a first
published text, a failed or overlapping one, and the one that
trips over it; `Keep` of 1 or 2 makes pruning happen. In `ZoneStore` six operations
are enough for create, two edits, deploy, delete and create again, or for two deploys
with a restore, and the second zone shows what leaks across zones; the file
offered for import lists its two records out of order and one of them with TTL 0, so that
a restore has something to get wrong. In
`RateLimiter` time covers two windows with the limit reached in each. In `Sessions`
two tabs are what a replaced or spoilt form needs; five actions of the user are
form, login, a second form, logout or login, and the first tab's form; time outlasts a
session and a window; and one restart separates two keys and two limiters. Each bound
is a constant that its module names: `MaxMissed`, `MaxDeploys`, `mode.times`,
`MaxOps`, `MaxRecordId`, `MaxSnapshotId`, `MaxTime`, `MaxRestarts`.

**Symmetry.** `zone_store` (zone names, job slots) and `rate_limiter` (addresses,
request slots) use symmetry sets. Their properties are invariants and action
properties, for which this is sound. The other runs use none.

**Deadlock** is checked in `serial_history` and `pipeline`. In the others the
bounds stop the behaviour, so it is not.

**Modes of `deploy_sequential`.** That every reload is newer holds, one deploy at a
time, for all failures and rollbacks under `unixtime` when deploys read
different seconds, since the stamp does not come from the stored serial. Under `date` and
`increment` the next serial comes from the stored one. There it holds as long as
no answer of a mv is lost, no mv fails, nothing is rolled back and the daemon does not stop
between the first mv and `Publish`; with those it fails, as `deploy_after_rollback`
shows for the rollback. So the run has modes of two kinds. In `OrderlyModes` reloads are newer, which is
what `OrderlyReloads` says. `FaultModes` add lost and failed moves and restarts under `date` and `increment`; there the
order of the snapshots stands all the same, because a serial gets
into the row before its snapshot is made. Only a rollback breaks it under these policies. `HistoryBounded` is about
modes without a restart; a DELETE that fails without one would likewise leave a
snapshot too many until the next deploy, and is not modelled.

## 4. Fairness

Two modules have liveness properties.

`Pipeline`: `Fairness` says that `Deploy` goes on (the Go scheduler runs what can run),
that each goroutine goes on as long as its next call is `Bounded`, and that named does
a reload it has accepted. As a goroutine's remote call is one step, fairness of the
goroutine also says that the call answers. The code bounds the TCP dial by 10 s (`ssh.go`)
and the DNS query by 5 s. It bounds neither the SSH handshake, nor the start of SFTP, nor
`Upload`; a cancelled context makes `Run` signal the command, and then wait for it
all the same. So nothing is assumed of a call to a server of `Silent`: it may answer, at any
time, or never. Under that, `Terminates` says that `Deploy` returns unless a goroutine waits
for ever on such a server, that is, that no early return loses a `wg.Done` and no phase waits for
anything else; it does not say that a hung server is survived, which the code does not do.
`OthersAreCommitted` says what it does do: from the commit phase on, the goroutine of a target on
another server ends, so no server is left between its mv and its reload by the silence
of another. `SuccessIsServed` needs named's fairness.

What `Terminates` rests on apart from fairness is checked, and proved, as safety. Each step of
`Deploy` uses up a phase or a remote call that no step gives back (`NoStepTwice`), so there are
only so many of them; and as long as it has not returned, it can go on or a goroutine has a call to make
(`NobodyWaitsInVain`). Only that an enabled step is taken is left to the fairness and to TLC.

`Sessions`: weak fairness of `Serve(t)`, the answer to the request of each tab. A
handler of the login waits for nothing but the limiter's lock, which is held while a
list is counted. Nothing is assumed of the user, of the clock or of restarts. Here too the measure is a
property of its own: `Hops(t)`, the answers a tab still waits for if nothing else changes, falls
with every answer (`RedirectsGetCloser`). It is at most 4, and rises only by what users, clocks
and restarts do.

No fairness is assumed of `Cancel` or of any fault.

## 5. Proofs

`SerialHistory_proofs`, for every ring size, calendar, set of instants and
number of missed deploys, under the assumptions of `Serial` and `SerialHistory`
(weights are positive, and no stamp plus the missed deploys reaches half the ring:
with 32 bits, dates up to the end of the year 2147 leave 360,000 deploys to miss, seconds
leave more than 300 million today and none after January 2038):

- `NextSerialIsNewer`, `NextSerialIsLarger`: one step of `nextSerial`.
- `LaterDateIsLarger`, `SerialReadsAsDate`: what `YYYYMMDDnn` promises, for weights that keep
  days out of the months and months out of the years (`Decimal`) and dates whose number fits in a
  serial, which with 32 bits are those up to the year 4294. `ReloadsAreNewer` and `SnapshotsAreOrdered` assume
  that stamps grow; for dates this is why they do from one day to the next.
- `TypeCorrect`, `LagIsAccounted`, `SecondaryCatchesUp`. `LaggingSecondaryCatchesUp` is not
  inductive: one step ahead on the circle says nothing about the next. `Lag` is. It
  says how the primary got ahead: by increments only, or by a stamp and at
  most as many increments as deploys were missed; once the serial has wrapped, the increments that
  took it over the top are among those counted. `serial_history` checks `Lag` as well.

`Pipeline_proofs`, for any slots, servers, assignment of slots to servers,
configuration and faults:

- `TypeCorrect`, `TwoPhase`, `NeverTorn`, `TruthfulReport`, `NoForgottenTemp`:
  the five invariants that the run `pipeline` checks. What `TruthfulReport` says of `verified` is that the
  server serves the new serial; with it the new content, unless it is in `SameSerial`.
- `DeployKeepsPromise`: the safety part of the refinement of `Rollout`.
- `DeployIsBounded` (`NoStepTwice`) and `NobodyWaitsInVain`: the safety core of termination. For the
  second one looks at the first slot that has not ended, which exists by the order of the
  natural numbers (`FirstOf`), since the removals of a cleanup go one after another.
- `CleanupIsComplete`, about configurations of `Faults` without `rm`, `link` and `cancel`. Then
  nothing is ever logged as left behind, and `Temps` says that what is neither logged nor
  failed at its mv is gone.

All rest on one inductive invariant, `IInv`. The properties alone are not inductive: that
a failed deploy changed nothing needs that nothing is moved before the barrier
(`Staging`), that a moved file is complete needs that a slot at its mv has a complete
temporary file (`Staging`), which needs to know at which call each slot is
(`Control`); that flags are true needs that a server's file never goes back to the old one
(`Going`); and that no file is forgotten needs to know who still has to
remove it (`Temps`). The proof goes through the 17 actions, one step per action and
one per conjunct.

`DeployFlow_proofs`, for any servers, settings, contents, target lists, number of
overlapping deploys, fault modes and clock readings (the stamps of which must fit in a serial,
`ModesAssumption`):

- `TypeCorrect` and `SnapshotsAreDeployed`. `SnapshotWasDeployed` is not
  inductive, since it says nothing of a deploy that is about to write its row. `Progress` does:
  on what a deploy knows it moved its own text was placed, it publishes only if it moved all its
  targets, which are some, and its text is complete once it is staged. No other deploy, edit,
  rollback or restart disturbs this, because a deploy's targets and text are its own.
  Pruning keeps a suffix of the snapshots (`PruneSuffix`).

`DeployHistory_proofs`, under the same assumptions:

- `HistoryStaysBounded`, for any overlap. Only an INSERT makes the list longer, and it brings one
  more deploy to its prune, which cuts the list to `Keep`. Counting deploys needs that they are finitely many, so the invariant also says that
  of those under way.
- `CleanZoneIsLive` and `PublishedSerialIsStored`, as theorems about the modes in which deploys do
  not overlap; with overlap, `deploy_overlap_stale` shows a clean zone that is not live. Then only one deploy
  is between two steps (`Alone`), what it has placed is still there (`InPlace`), and so the
  text of the latest snapshot is in place where no unpublished deploy has been since
  (`LatestInPlace`). Failures, rollbacks and restarts are all allowed. The second theorem is
  about modes without rollback and crash, as its property says; its invariant `SerialStored`
  also covers the moment between SetSerial and the INSERT.
- `ReloadsAreNewer`, (`OrderlyReloads`), in modes that are `Orderly`, as the `OrderlyModes` of `deploy_sequential` are (TLC
  evaluates that as `ModesAreOrderly`). A text stays newer than what is served until it is loaded (`Ahead`), once
  `BumpSerial` has made it so; for that there are two arguments. Stamps that grow from deploy to
  deploy are above every serial in the row, the snapshots and the servers (`AllOld`), whatever fails
  or is rolled back. Otherwise the row follows the servers: each of them is behind
  it by a number of deploys that accounts for the difference (`Lags`, as in `SerialHistory`, here for
  servers that were skipped or did not reload), and `MaxDeploys` and the stamps together stay
  below half the ring.
- `SnapshotsAreOrdered`, in modes that are `Chronological`: growing stamps, or no rollback. Moves may fail or
  go unanswered, and the daemon may stop, in the second kind too (TLC evaluates `ModesAreChronological`). The
  arguments are the same two, applied to the snapshots instead of the servers. The invariant says of a text on its way to a row that it is newer than every
  snapshot there is (`TextAhead`), and that every snapshot is behind the row by a number of deploys that
  accounts for the difference, wherever a deploy is cut off (`SnapsCounted`): the row is ahead of the snapshots between SetSerial and
  INSERT, never behind them. A prune does not disturb the order because it takes away the
  front.
- `PublishedZoneIsLive` (`ConfirmedIsLive`), about modes without overlap, crash, and mv that fail or go
  unanswered. Its invariant is `Homed`: what a deploy has moved belongs to the deploy under way, which
  will have moved all its targets when it reports, and none of it is left over when the deploy is done.

`ZoneStore_proofs`, for any zones, keys, TTLs, import files, jobs and number of snapshots kept:

- `RowsAreSorted`: for any finite set of rows with distinct ids, `Sorted` is a sequence of its
  rows in which each stands once and every row comes before the later ones. `Rank` is an
  injection into `1 .. Cardinality(rows)`, hence a bijection.
- `TypeCorrect`, `NoOrphans`, `IdsAreFresh`. The inductive part is `TablesOK`: no row is
  orphaned, no id comes back, and every id in a table or in `retired` is at most its counter
  (`Numbered`), without which a new id could be an old one. `TypeOK` is more than types here:
  whatever a job carries to `Publish` or `RestoreSnapshot` has a SOA TTL that is not 0.
  A snapshot inserted for a zone that was deleted meanwhile is what `NoOrphans` turns
  on: each INSERT looks for its zone in its own statement.

`ZoneSteps_proofs`, under the same assumptions, about single steps of the store:

- `RestoreRendersTheSame`. Its invariant says that contents on the way into a table are
  canonical: TTLs filled in and keys in order. Rows inserted from a canonical body get rising ids, so
  a row's `Rank` is its place in the body and `Sorted` gives the body back.
- `ZoneIsCreatedAsAsked`: no record carries the name of a zone that is not there (`NothingOrphaned`), so after the
  INSERTs the records of the zone are those just made, one per entry of the file with its key and TTL, under rising
  ids; and the row is the one asked for, since the statement that makes it finds none under that name.
- `LatestSnapshotStays`: a prune takes away the lowest ranks only, and a new id is above all others
  (`Numbered`).

`RateLimiter_proofs`, for any addresses, requests, limit, window and delay shorter
than the window:

- `TypeCorrect`, which includes that a key never has more than `Max` attempts.
- `NeverTooMany`: every attempt admitted after the latest one admitted less
  `Window - Skew` is still among the hits, because whatever dropped it read the clock at
  most `Skew` later; so they are no more than `Max`.
- `RefusedWithCause`: hits were all admitted, so a refusal shows `Max` of them.

`Sessions_proofs`, for any lifetime of sessions, number of tabs, limits and restarts,
with or without a configured key:

- `SessionTypes`, `PagesNeedALogin`, `MismatchHasCause`. The invariant (`SessionsOK`, `AnswerOK`) says
  that a session expires `TTL` after it was signed, has the key of the life it was
  signed in, and that numbers of cookies in the jar, in pages and in requests are of sessions
  that were issued, which appending to `issued` does not change.
- `LoginsAreLimited` (`LoginsPerStart`). Each step of the composition is
  a step of `RateLimiter`, leaves it alone, or is a restart, which empties it (`LimiterSteps`). So the bound
  of the limiter holds within each life, and what an earlier life admitted is kept as it was when it ended (`LivesInv`, which also says that
  lives follow one another in time). A window that sees attempts of several lives contains the end of each but the last of
  these (`EndedButOne`), and the attempts of all of them are at most `Max` for each (`AtMostMaxEach`, by an
  injection that numbers those of each life from 1 to `Max`).
- `RedirectsEnd`: `Hops` falls with every answer, by cases over the handlers.

Every invariant and every action property that the runs show is also a theorem. Model-checked only:
liveness (`Terminates`, `OthersAreCommitted`, `SuccessIsServed`, `NavigationEnds`), which
is outside what the prover handles.
`AlwaysStrictlyLarger`, `AbortCleansUp` and `PublishedIsLive` do not hold; neither does
`ReloadIsNewer` once rollbacks are allowed under `increment`. The theorems about these
state the restriction in which they are right (the table of section 3).

## 6. Not modelled

- The syntax of zone files and of single records: it is parsed and printed by
  `miekg/dns`. What mrdns adds to it, defaults, TTLs and order, is in `ZoneStore`. That a
  rendered zone parses back to the same settings and records is taken as given.
  `Zone.Add`, `Remove` and `Replace` (`edit.go`) are called by tests only.
- The diff page: a function of two texts, the difference of two sets of lines, the definition
  of which would be its own reference.
- Audit log and metrics: one locked append and atomic counters that no code reads.
- The recoverer, the log of requests and the timeouts of the HTTP server. The stop of the
  daemon is modelled where it can hurt: in the middle of a deploy (`DeployFlow!Crash`) and
  under open pages (`Sessions!Restart`). A stop that waits for handlers is one where no `Crash`
  happens; after 10 s it is a `Crash`.
- `Run`'s inner goroutine and channel: all they do is make a cancelled context the error of the
  command, which is an outcome of `RunOutcomes`.
- The configuration file: its values are constants here, and what may change between
  two lives of the daemon (policy, cookie key) is an action. Paths and the checks of the file are left out.
- Pages: templates over what other components hold.
- Columns that no property tells apart are one value; creation times are left out.

## 7. Plan

Written, in this order: `Serial`, `SerialHistory`, `Pipeline` with `Rollout`,
`DeployFlow`, `ZoneStore`, `RateLimiter`, the proofs of the first three, `Silent` servers in
`Pipeline`, TTLs and order in `ZoneStore`, `Sessions`, and the proofs of the last three and of the histories of `DeployFlow`.

Left, by importance:

1. A statement of what `DeployFlow` takes over from `Rollout`. A refinement mapping needs one deploy,
   while a handler slot is used by one deploy after another, and `Rollout` validates target by target what
   `DeployFlow` does in the one step `Commit`. A theorem about single steps of a slot would do.
2. What still holds of a clean zone when deploys overlap: `PublishedIsLive` does not, and a weaker claim
   that a user could rely on has not been found.
3. Larger instances of `sessions`: two browsers, two addresses.

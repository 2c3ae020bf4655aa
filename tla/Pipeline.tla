------------------------------ MODULE Pipeline ------------------------------
(***************************************************************************)
(* One call of Pipeline.Deploy (src/internal/deploy/pipeline.go): stage    *)
(* and validate the new zone file on every target, and only then move it   *)
(* into place and reload on any.                                           *)
(*                                                                         *)
(* Deploy runs one goroutine per entry of Request.Targets in each of its   *)
(* three phases and waits for all of them before the next.  An entry is a  *)
(* slot: two slots may name the same server, because the target list of a  *)
(* zone is not deduplicated.  Each goroutine's remote call is one step.    *)
(*                                                                         *)
(* The servers' files are "old" (what was there before), "new" (the bytes  *)
(* being deployed), "partial" (an upload that broke off) or "absent".      *)
(***************************************************************************)
EXTENDS Naturals, FiniteSets

CONSTANTS
    Slots,       \* positions in Request.Targets
    Servers,     \* server names
    SrvOf,       \* the server a slot names
    Configured,  \* the servers of the configuration file
    Faults,      \* which calls may fail; "link" and "cancel" see below
    Silent,      \* servers whose SSH side may stop answering, at any time and for ever
    SameSerial   \* servers that served NewSerial before, with another content

ASSUME SlotsAssumption == Slots \subseteq Nat /\ IsFiniteSet(Slots)
ASSUME ServersAssumption == SrvOf \in [Slots -> Servers] /\ Configured \subseteq Servers
ASSUME FaultsAssumption ==
    Faults \subseteq {"local", "dial", "upload", "checkzone", "mv", "reload", "rm", "verify",
                      "link", "cancel"}
ASSUME SilentAssumption == Silent \subseteq Servers
ASSUME SerialAssumption == SameSerial \subseteq Servers

VARIABLES
    targets,  \* Request.Targets
    phase,    \* where Deploy is; "verify" is its third phase
    at,       \* per slot: the call its goroutine makes next
    reached,  \* per slot: the flags of its ServerResult that are true
    err,      \* per slot: the kind of ServerResult.Err
    conns,    \* slots with an open connection (and a recorded temp path)
    tmp,      \* per slot: its temporary file on the server
    file,     \* per server: the zone file named reads
    loaded,   \* per server: the zone named serves
    queued,   \* servers whose named has a reload of the zone to do
    ctxDone,  \* the request's context is cancelled
    logged,   \* slots for which "cleanup staged temp failed" was logged
    status    \* Result.Status, or "error" when Deploy returns an error

vars == <<targets, phase, at, reached, err, conns, tmp, file, loaded, queued, ctxDone, logged, status>>

slotVars == <<at, reached, err, conns, tmp, file, loaded, queued, logged>>

Phases == {"local", "stage", "cleanup", "commit", "verify", "returned"}
Calls == {"none", "dial", "upload", "checkzone", "rm", "mv", "reload", "query"}
Flags == {"staged", "checked", "moved", "reloaded", "verified"}
Errors == {"none", "unknown", "connect", "upload", "checkzone", "move", "reload"}

Init ==
    /\ targets \in SUBSET Slots
    /\ phase = "local"
    /\ at = [i \in Slots |-> "none"]
    /\ reached = [i \in Slots |-> {}]
    /\ err = [i \in Slots |-> "none"]
    /\ conns = {}
    /\ tmp = [i \in Slots |-> "absent"]
    /\ file = [s \in Servers |-> "old"]
    /\ loaded = [s \in Servers |-> "old"]
    /\ queued = {}
    /\ ctxDone = FALSE
    /\ logged = {}
    /\ status = "none"

-----------------------------------------------------------------------------
\* What a remote command may come to: whether it took effect, and whether Run
\* reported success.  A command can fail by itself.  A broken link loses it or
\* its answer.  So does a cancelled context: Run has started the command when
\* it looks at the context, kills it, and answers ctx.Err().
RunOutcomes(op) ==
    {[did |-> TRUE, ok |-> TRUE]}
        \cup {o \in {[did |-> FALSE, ok |-> FALSE]} : op \in Faults}
        \cup {o \in [did : BOOLEAN, ok : {FALSE}] : ctxDone \/ "link" \in Faults}

\* named-checkzone, run locally, exits with an error or is killed with the context.
LocalCheckMayFail == "local" \in Faults \/ ctxDone

\* The key, the known hosts, the connection, the handshake or the start of SFTP
\* fails; with a cancelled context the connection always does.
MayNotConnect == "dial" \in Faults \/ ctxDone

\* The SOA query times out, or has no answer.
MayNotAnswer == "verify" \in Faults \/ ctxDone

\* The goroutine of slot i goes on to its next call, or ends.
Goto(i, call) == at' = [at EXCEPT ![i] = call]

Pass(i, flag, call) ==
    /\ reached' = [reached EXCEPT ![i] = @ \cup {flag}]
    /\ Goto(i, call)
    /\ UNCHANGED err

\* Mutant of Fail: an early return that skips wg.Done.
MutantFailForgetsDone(i, kind) ==
    /\ err' = [err EXCEPT ![i] = kind]
    /\ UNCHANGED <<at, reached>>

Fail(i, kind) ==
    /\ err' = [err EXCEPT ![i] = kind]
    /\ Goto(i, "none")
    /\ UNCHANGED reached

\* wg.Wait: every goroutine of the phase has ended.
AllEnded == \A i \in targets : at[i] = "none"

-----------------------------------------------------------------------------
(* Before the first phase.                                                 *)

NoTargets ==
    /\ phase = "local" /\ targets = {}
    /\ phase' = "returned" /\ status' = "error"
    /\ UNCHANGED <<targets, ctxDone, slotVars>>

LocalReject ==
    /\ phase = "local" /\ targets # {}
    /\ LocalCheckMayFail
    /\ phase' = "returned" /\ status' = "error"
    /\ UNCHANGED <<targets, ctxDone, slotVars>>

\* Mutant of StartStage: a goroutine for every configured server, whether the
\* request names it or not.
MutantStartStageEverywhere ==
    /\ phase = "local" /\ targets # {}
    /\ phase' = "stage"
    /\ at' = [i \in Slots |-> IF SrvOf[i] \in Configured THEN "dial" ELSE "none"]
    /\ UNCHANGED <<targets, reached, err, conns, tmp, file, loaded, queued, ctxDone, logged, status>>

\* named-checkzone accepts the zone, or cannot be run, which is only a warning.
StartStage ==
    /\ phase = "local" /\ targets # {}
    /\ phase' = "stage"
    /\ at' = [i \in Slots |-> IF i \in targets THEN "dial" ELSE "none"]
    /\ UNCHANGED <<targets, reached, err, conns, tmp, file, loaded, queued, ctxDone, logged, status>>

-----------------------------------------------------------------------------
(* Phase 1: stage and validate.                                            *)

Dial(i) ==
    /\ phase = "stage" /\ at[i] = "dial"
    /\ \/ /\ SrvOf[i] \notin Configured
          /\ Fail(i, "unknown")
          /\ UNCHANGED conns
       \/ /\ SrvOf[i] \in Configured /\ MayNotConnect
          /\ Fail(i, "connect")
          /\ UNCHANGED conns
       \/ /\ SrvOf[i] \in Configured /\ ~ctxDone
          /\ conns' = conns \cup {i}
          /\ Goto(i, "upload")
          /\ UNCHANGED <<reached, err>>
    /\ UNCHANGED <<targets, phase, tmp, file, loaded, queued, ctxDone, logged, status>>

\* Mutant of Upload: written straight to the zone file, with no temporary name.
MutantUploadInPlace(i) ==
    /\ phase = "stage" /\ at[i] = "upload"
    /\ \/ /\ file' = [file EXCEPT ![SrvOf[i]] = "new"]
          /\ Pass(i, "staged", "checkzone")
       \/ /\ "upload" \in Faults \/ "link" \in Faults
          /\ \E left \in {"old", "partial"} : file' = [file EXCEPT ![SrvOf[i]] = left]
          /\ Fail(i, "upload")
    /\ tmp' = [tmp EXCEPT ![i] = "new"]
    /\ UNCHANGED <<targets, phase, conns, loaded, queued, ctxDone, logged, status>>

\* Creates the temporary file, writes it and sets its mode.  It ignores the
\* context, and a failure may leave any of these done.
Upload(i) ==
    /\ phase = "stage" /\ at[i] = "upload"
    /\ \/ /\ tmp' = [tmp EXCEPT ![i] = "new"]
          /\ Pass(i, "staged", "checkzone")
       \/ /\ "upload" \in Faults \/ "link" \in Faults
          /\ \E left \in {"absent", "partial", "new"} : tmp' = [tmp EXCEPT ![i] = left]
          /\ Fail(i, "upload")
    /\ UNCHANGED <<targets, phase, conns, file, loaded, queued, ctxDone, logged, status>>

Checkzone(i) ==
    /\ phase = "stage" /\ at[i] = "checkzone"
    /\ \E o \in RunOutcomes("checkzone") :
          IF o.ok THEN Pass(i, "checked", "none") ELSE Fail(i, "checkzone")
    /\ UNCHANGED <<targets, phase, conns, tmp, file, loaded, queued, ctxDone, logged, status>>

-----------------------------------------------------------------------------
(* The barrier: one target that is not validated aborts the deploy.        *)

\* Mutant of StartCommit: the targets that validated go ahead without the rest.
MutantStartCommitAnyway ==
    /\ phase = "stage" /\ AllEnded
    /\ \E i \in targets : "checked" \in reached[i]
    /\ phase' = "commit"
    /\ at' = [i \in Slots |-> IF i \in targets /\ "checked" \in reached[i] THEN "mv" ELSE "none"]
    /\ UNCHANGED <<targets, reached, err, conns, tmp, file, loaded, queued, ctxDone, logged, status>>

StartCommit ==
    /\ phase = "stage" /\ AllEnded
    /\ \A i \in targets : "checked" \in reached[i]
    /\ phase' = "commit"
    /\ at' = [i \in Slots |-> IF i \in targets THEN "mv" ELSE "none"]
    /\ UNCHANGED <<targets, reached, err, conns, tmp, file, loaded, queued, ctxDone, logged, status>>

\* Mutant of StartCleanup: only the slots whose upload succeeded are cleaned.
MutantStartCleanupStaged ==
    /\ phase = "stage" /\ AllEnded
    /\ \E i \in targets : "checked" \notin reached[i]
    /\ phase' = "cleanup"
    /\ at' = [i \in Slots |-> IF "staged" \in reached[i] THEN "rm" ELSE "none"]
    /\ UNCHANGED <<targets, reached, err, conns, tmp, file, loaded, queued, ctxDone, logged, status>>

StartCleanup ==
    /\ phase = "stage" /\ AllEnded
    /\ \E i \in targets : "checked" \notin reached[i]
    /\ phase' = "cleanup"
    /\ at' = [i \in Slots |-> IF i \in conns THEN "rm" ELSE "none"]
    /\ UNCHANGED <<targets, reached, err, conns, tmp, file, loaded, queued, ctxDone, logged, status>>

\* cleanup goes through the slots in order, with the request's own context.
Remove(i) ==
    /\ phase = "cleanup" /\ at[i] = "rm"
    /\ \A j \in targets : at[j] = "rm" => i <= j
    /\ \E o \in RunOutcomes("rm") :
          /\ tmp' = IF o.did THEN [tmp EXCEPT ![i] = "absent"] ELSE tmp
          /\ logged' = IF o.ok THEN logged ELSE logged \cup {i}
    /\ Goto(i, "none")
    /\ UNCHANGED <<targets, phase, reached, err, conns, file, loaded, queued, ctxDone, status>>

\* closeAll, and return with StatusFailed.
ReturnFailed ==
    /\ phase = "cleanup" /\ AllEnded
    /\ conns' = {}
    /\ phase' = "returned" /\ status' = "failed"
    /\ UNCHANGED <<targets, at, reached, err, tmp, file, loaded, queued, ctxDone, logged>>

-----------------------------------------------------------------------------
(* Phase 2: commit and reload.                                             *)

\* Mutant of Move: the flag is set before the command's answer is looked at.
MutantMoveFlagFirst(i) ==
    /\ phase = "commit" /\ at[i] = "mv"
    /\ \E o \in RunOutcomes("mv") :
          /\ file' = IF o.did THEN [file EXCEPT ![SrvOf[i]] = tmp[i]] ELSE file
          /\ tmp' = IF o.did THEN [tmp EXCEPT ![i] = "absent"] ELSE tmp
          /\ Pass(i, "moved", IF o.ok THEN "reload" ELSE "none")
    /\ UNCHANGED <<targets, phase, conns, loaded, queued, ctxDone, logged, status>>

\* Mutant of Move: the targets are committed one after the other.
MutantMoveInTurn(i) ==
    /\ phase = "commit" /\ at[i] = "mv"
    /\ \A j \in targets : j < i => at[j] = "none"
    /\ \E o \in RunOutcomes("mv") :
          /\ file' = IF o.did THEN [file EXCEPT ![SrvOf[i]] = tmp[i]] ELSE file
          /\ tmp' = IF o.did THEN [tmp EXCEPT ![i] = "absent"] ELSE tmp
          /\ IF o.ok THEN Pass(i, "moved", "reload") ELSE Fail(i, "move")
    /\ UNCHANGED <<targets, phase, conns, loaded, queued, ctxDone, logged, status>>

\* mv -f inside the zone directory: a rename.
Move(i) ==
    /\ phase = "commit" /\ at[i] = "mv"
    /\ \E o \in RunOutcomes("mv") :
          /\ file' = IF o.did THEN [file EXCEPT ![SrvOf[i]] = tmp[i]] ELSE file
          /\ tmp' = IF o.did THEN [tmp EXCEPT ![i] = "absent"] ELSE tmp
          /\ IF o.ok THEN Pass(i, "moved", "reload") ELSE Fail(i, "move")
    /\ UNCHANGED <<targets, phase, conns, loaded, queued, ctxDone, logged, status>>

\* The reload command answers when the server has accepted it; named loads the
\* zone file in its own time.
Reload(i) ==
    /\ phase = "commit" /\ at[i] = "reload"
    /\ \E o \in RunOutcomes("reload") :
          /\ queued' = IF o.did THEN queued \cup {SrvOf[i]} ELSE queued
          /\ IF o.ok THEN Pass(i, "reloaded", "none") ELSE Fail(i, "reload")
    /\ UNCHANGED <<targets, phase, conns, tmp, file, loaded, ctxDone, logged, status>>

-----------------------------------------------------------------------------
(* Phase 3: ask the servers that reloaded for their serial, and return.    *)

StartVerify ==
    /\ phase = "commit" /\ AllEnded
    /\ phase' = "verify"
    /\ at' = [i \in Slots |-> IF "reloaded" \in reached[i] THEN "query" ELSE "none"]
    /\ UNCHANGED <<targets, reached, err, conns, tmp, file, loaded, queued, ctxDone, logged, status>>

\* The SOA that server s answers with has Request.NewSerial.  A rollback, or a
\* deploy that reached only some targets, lets two contents have one serial.
ServesNewSerial(s) == loaded[s] = "new" \/ (loaded[s] = "old" /\ s \in SameSerial)

\* A failed query or another serial is only logged.
Verify(i) ==
    /\ phase = "verify" /\ at[i] = "query"
    /\ \/ /\ ServesNewSerial(SrvOf[i])
          /\ Pass(i, "verified", "none")
       \/ /\ ~ServesNewSerial(SrvOf[i]) \/ MayNotAnswer
          /\ Goto(i, "none")
          /\ UNCHANGED <<reached, err>>
    /\ UNCHANGED <<targets, phase, conns, tmp, file, loaded, queued, ctxDone, logged, status>>

\* Result.AllMoved.
AllMoved == targets # {} /\ \A i \in targets : "moved" \in reached[i]

\* Mutant of ReturnDone: the status looks at the moves only.
MutantReturnDoneMovedOnly ==
    /\ phase = "verify" /\ AllEnded
    /\ conns' = {}
    /\ phase' = "returned"
    /\ status' = IF AllMoved THEN "success" ELSE "partial"
    /\ UNCHANGED <<targets, at, reached, err, tmp, file, loaded, queued, ctxDone, logged>>

\* closeAll, and return with StatusSuccess or StatusPartial.
ReturnDone ==
    /\ phase = "verify" /\ AllEnded
    /\ conns' = {}
    /\ phase' = "returned"
    /\ status' = IF \A i \in targets : {"moved", "reloaded"} \subseteq reached[i]
                 THEN "success" ELSE "partial"
    /\ UNCHANGED <<targets, at, reached, err, tmp, file, loaded, queued, ctxDone, logged>>

-----------------------------------------------------------------------------
\* The browser goes away: net/http cancels the context of the request.
Cancel ==
    /\ "cancel" \in Faults /\ ~ctxDone /\ phase # "returned"
    /\ ctxDone' = TRUE
    /\ UNCHANGED <<targets, phase, status, slotVars>>

\* named on server s.
Load(s) ==
    /\ s \in queued
    /\ loaded' = [loaded EXCEPT ![s] = file[s]]
    /\ queued' = queued \ {s}
    /\ UNCHANGED <<targets, phase, at, reached, err, conns, tmp, file, ctxDone, logged, status>>

Deploy ==
    \/ NoTargets \/ LocalReject \/ StartStage
    \/ StartCommit \/ StartCleanup \/ ReturnFailed
    \/ StartVerify \/ ReturnDone

Goroutine(i) ==
    \/ Dial(i) \/ Upload(i) \/ Checkzone(i) \/ Remove(i)
    \/ Move(i) \/ Reload(i) \/ Verify(i)

Returned == phase = "returned" /\ UNCHANGED vars

Next ==
    \/ Deploy
    \/ \E i \in Slots : Goroutine(i)
    \/ \E s \in Servers : Load(s)
    \/ Cancel
    \/ Returned

\* The SOA query has a timeout of its own.  Nothing bounds the handshake, the
\* start of SFTP, an upload or a command: a cancelled context makes Run signal the
\* command and then wait for it all the same.
Bounded(i) == phase = "verify" \/ SrvOf[i] \notin Silent

\* Deploy and every goroutine keep going as the calls answer, and named does the
\* reloads it accepted.  A call to a silent server may never return.
Fairness ==
    /\ WF_vars(Deploy)
    /\ \A i \in Slots : WF_vars(Bounded(i) /\ Goroutine(i))
    /\ \A s \in Servers : WF_vars(Load(s))

Spec == Init /\ [][Next]_vars /\ Fairness

-----------------------------------------------------------------------------
(* Properties.                                                             *)

TypeOK ==
    /\ targets \subseteq Slots
    /\ phase \in Phases
    /\ at \in [Slots -> Calls]
    /\ reached \in [Slots -> SUBSET Flags]
    /\ err \in [Slots -> Errors]
    /\ conns \subseteq targets
    /\ tmp \in [Slots -> {"absent", "partial", "new"}]
    /\ file \in [Servers -> {"old", "partial", "new", "absent"}]
    /\ loaded \in [Servers -> {"old", "partial", "new", "absent"}]
    /\ queued \subseteq Servers
    /\ ctxDone \in BOOLEAN
    /\ logged \subseteq Slots
    /\ status \in {"none", "error", "failed", "partial", "success"}

\* Deploy's comment: it "stages + validates on every target before committing +
\* reloading on any".  A server whose file changed proves that the checks of
\* all the others passed.
ValidatedEverywhereFirst ==
    (\E s \in Servers : file[s] # "old") => \A i \in targets : "checked" \in reached[i]

\* named never finds a partial upload, or nothing, under the zone file's name.
NoTornZoneFile == \A s \in Servers : {file[s], loaded[s]} \subseteq {"old", "new"}

\* result.go: what the flags and the status say holds on the servers.  AllMoved
\* may be taken for "the content reached every target", Verified for "SOA serial
\* confirmed live", and "failed" for "aborted before any target was changed".
\* Verified is about the serial only: it confirms the content of a server that did
\* not serve this serial before, and nothing of one that did.
ReportIsTrue ==
    /\ \A i \in targets : "moved" \in reached[i] => file[SrvOf[i]] = "new"
    /\ \A i \in targets : "verified" \in reached[i] => ServesNewSerial(SrvOf[i])
    /\ status = "success" => AllMoved
    /\ status \in {"failed", "error"} =>
          \A s \in Servers : file[s] = "old" /\ loaded[s] = "old"

\* A temporary file Deploy leaves behind on a server shows in the log or in the
\* result: its removal was logged as failed, or its slot reports a failed move.
NoSilentLeak ==
    phase = "returned" =>
        \A i \in Slots : tmp[i] # "absent" => i \in logged \/ err[i] = "move"

\* DESIGN.md, "Deploy pipeline": "abort and clean up if any fails".  Cleanup runs
\* with the request's context: when its cancellation is what failed the deploy,
\* the removals fail with it.
AbortCleansUp == status = "failed" => \A i \in Slots : tmp[i] = "absent"

\* The phases of Deploy still to come, and the calls of a slot in its phase.
PhasesLeft ==
    CASE phase = "local"                -> 4
      [] phase = "stage"                -> 3
      [] phase \in {"cleanup", "commit"} -> 2
      [] phase = "verify"               -> 1
      [] OTHER                          -> 0

CallsLeft(i) ==
    CASE at[i] = "dial"              -> 3
      [] at[i] \in {"upload", "mv"}  -> 2
      [] at[i] = "none"              -> 0
      [] OTHER                       -> 1

deployVars == <<targets, phase, at, reached, err, conns, tmp, file, logged, status>>

\* Whatever fails, is cancelled or answers late, each step of Deploy uses up a phase
\* or a call: no call is retried, no phase entered again, and an early return counts
\* as the end of its goroutine.  Deploy takes a bounded number of steps.
NoStepTwice ==
    [][~UNCHANGED deployVars =>
          \/ PhasesLeft' < PhasesLeft
          \/ /\ PhasesLeft' = PhasesLeft
             /\ \A i \in Slots : CallsLeft(i)' <= CallsLeft(i)
             /\ \E i \in Slots : CallsLeft(i)' < CallsLeft(i)]_vars

\* Deploy returns, unless a goroutine waits for ever on a server that has stopped
\* answering: no early return leaves a phase waiting, and nothing else does.
Terminates ==
    \/ <>(phase = "returned")
    \/ <>[](\E i \in targets : at[i] # "none" /\ ~Bounded(i))

\* Once Deploy commits, a server that stops answering does not keep the content
\* from the others: the goroutine of every other target goes through its calls,
\* whatever becomes of Deploy itself.
OthersAreCommitted ==
    \A i \in Slots : SrvOf[i] \notin Silent =>
        ((phase = "commit" /\ at[i] # "none") ~> at[i] = "none")

\* A deploy reported as a success is served by every target in the end, though
\* the result does not wait for it.
SuccessIsServed ==
    (status = "success") ~> \A i \in targets : loaded[SrvOf[i]] = "new"

-----------------------------------------------------------------------------
(* Deploy implements Rollout.                                              *)

Verdict ==
    CASE phase \in {"local", "stage"} -> "open"
      [] phase \in {"commit", "verify"} \/ status \in {"partial", "success"} -> "commit"
      [] OTHER -> "abort"

Promise == INSTANCE Rollout WITH
    ready <- {i \in targets : "checked" \in reached[i]},
    verdict <- Verdict,
    live <- {s \in Servers : file[s] = "new"},
    asked <- queued \cup {s \in Servers : loaded[s] = "new"},
    serving <- {s \in Servers : loaded[s] = "new"},
    confirmed <- {i \in targets : "moved" \in reached[i]},
    outcome <- status

\* Every behaviour of Deploy, seen through the servers' files and the result, is
\* one that Rollout allows.
ImplementsRollout == Promise!RSpec

=============================================================================

---------------------------- MODULE MCDeployFlow ----------------------------
(* A ring of 16 serials; three seconds of one day, or two days.              *)
EXTENDS DeployFlow

CONSTANTS ns1, ns2

Reading(day, second) == [date |-> [year |-> 1, month |-> 1, day |-> day], unix |-> second]

Seconds == <<Reading(1, 2), Reading(1, 3), Reading(1, 4)>>
Days == <<Reading(1, 2), Reading(2, 9)>>
Still == <<Reading(1, 2)>>

MCTargetSets == {{ns1, ns2}, {ns1}, {}}

Mode(policy, events, overlap, times, serials) ==
    [policy |-> policy, events |-> events, overlap |-> overlap, times |-> times,
     spaced |-> policy = "unixtime", initSerials |-> serials]

AllEvents == {"abort", "move", "lost", "reload", "crash", "rollback", "targets"}

\* One deploy at a time.  With unixtime serials and deploys in different seconds
\* anything may go wrong.  The other policies start next to the wrap of uint32 too:
\* first with every move confirmed, ...
OrderlyModes ==
    {Mode("unixtime", AllEvents, FALSE, Seconds, {0}),
     Mode("date", {"abort", "reload"}, FALSE, Days, {0, MaxSerial - 1}),
     Mode("increment", {"abort", "reload", "targets"}, FALSE, Still, {0, MaxSerial - 1})}

\* ... then with whatever may go wrong on a server, and a daemon that stops between
\* two steps.
FaultModes ==
    {Mode("increment", AllEvents \ {"crash", "rollback"}, FALSE, Still, {MaxSerial - 1}),
     Mode("increment", AllEvents \ {"abort", "reload", "rollback"}, FALSE, Still, {MaxSerial - 1}),
     Mode("date", {"abort", "move", "lost", "crash"}, FALSE, Days, {0, MaxSerial - 1})}

SequentialModes == OrderlyModes \cup FaultModes

ASSUME ModesAreOrderly == \A m \in OrderlyModes : Orderly(m)
ASSUME ModesAreChronological == \A m \in SequentialModes : Chronological(m)

\* Two deploys at a time: what may fail on a server, or a daemon that stops and
\* targets that change meanwhile.
OverlapModes ==
    {Mode("increment", {"abort", "move", "lost", "rollback"}, TRUE, Still, {0}),
     Mode("increment", {"lost", "crash", "targets"}, TRUE, Still, {0})}

\* Nothing fails.
OverlapOnly == {Mode("increment", {}, TRUE, Still, {0})}

\* One mv fails, and one deploy runs at a time.
PartialOnly == {Mode("increment", {"move"}, FALSE, Still, {0})}

RollbackOnly == {Mode("increment", {"rollback"}, FALSE, Still, {0})}

=============================================================================

---------------------------- MODULE SerialHistory ----------------------------
(***************************************************************************)
(* The serials one zone goes through when every deploy succeeds, seen by a *)
(* secondary server that transfers the zone only now and then.             *)
(*                                                                         *)
(* The serial starts anywhere: a created zone starts at 0 and an imported  *)
(* one at whatever serial its zone file had.  Each deploy reads a wall     *)
(* clock that may have been set back.  The policy is read from the         *)
(* configuration file when the daemon starts, so it changes only across a  *)
(* restart.                                                                *)
(***************************************************************************)
EXTENDS Serial

CONSTANTS
    Instants,    \* the clock readings a deploy may see
    StampBound,  \* no stamp of these instants exceeds this (2147 for "date")
    MaxMissed    \* deploys a secondary may miss between two transfers

ASSUME MissedAssumption == MaxMissed \in Nat /\ StampBound \in Nat /\ StampBound + MaxMissed < Half
ASSUME StampAssumption ==
    \A policy \in Policies, instant \in Instants : Stamp(policy, instant) \in 0 .. StampBound

VARIABLES
    policy,  \* cfg.SerialPolicy
    serial,  \* the serial of the zone, stored and served by the primary
    seen,    \* the serial of the secondary's copy
    missed   \* deploys since that copy was taken

vars == <<policy, serial, seen, missed>>

Init ==
    /\ policy \in Policies
    /\ serial \in Serials
    /\ seen = serial
    /\ missed = 0

\* A deploy that reaches every target: BumpSerial, then Publish of the result.
BumpSerial(instant) ==
    /\ missed < MaxMissed
    /\ serial' = NextSerial(policy, serial, instant)
    /\ missed' = missed + 1
    /\ UNCHANGED <<policy, seen>>

\* The daemon is restarted with another serial_policy.
Reconfigure(p) ==
    /\ policy' = p
    /\ UNCHANGED <<serial, seen, missed>>

\* The secondary checks the primary's serial and transfers a newer zone.
Refresh ==
    /\ SeqGT(serial, seen)
    /\ seen' = serial
    /\ missed' = 0
    /\ UNCHANGED <<policy, serial>>

Next ==
    \/ \E instant \in Instants : BumpSerial(instant)
    \/ \E p \in Policies : Reconfigure(p)
    \/ Refresh

Spec == Init /\ [][Next]_vars

-----------------------------------------------------------------------------

TypeOK ==
    /\ policy \in Policies
    /\ serial \in Serials
    /\ seen \in Serials
    /\ missed \in 0 .. MaxMissed

\* However the policies, the wrap of uint32 and a clock that runs backwards
\* combine, a secondary that missed deploys still sees the primary's serial as
\* newer: nextSerial never moves the zone half way round the serial circle.
LaggingSecondaryCatchesUp == missed > 0 => SeqGT(serial, seen)

\* serial.go says of BumpSerial "It always produces a strictly larger serial".
\* The increment of the largest uint32 is 0.
AlwaysStrictlyLarger ==
    \A instant \in Instants : NextSerial(policy, serial, instant) > serial

\* The inductive invariant behind LaggingSecondaryCatchesUp.  Going up from the
\* secondary's copy the serial was either only incremented, or it sits at most
\* the missed increments above a stamp; once it wrapped, the increments that
\* took it over the top are among the missed ones.
Lag ==
    /\ seen <= serial =>
         /\ seen + missed <= serial
         /\ serial = seen + missed \/ serial <= StampBound + missed
    /\ seen > serial =>
         /\ SerialMod - seen <= missed
         /\ serial <= StampBound + missed - (SerialMod - seen)

=============================================================================

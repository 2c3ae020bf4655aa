------------------------------- MODULE Serial -------------------------------
(***************************************************************************)
(* How mrdns chooses the SOA serial of the next deploy                     *)
(* (src/internal/zone/serial.go), and the order in which a name server     *)
(* that already holds a zone compares two serials (RFC 1982).              *)
(*                                                                         *)
(* A serial is a uint32.  The width is a constant so that the whole ring   *)
(* can be enumerated: Half is 2^31 in the program.  An instant (the        *)
(* program's time.Time) is a record of the two readings the policies take: *)
(* its civil date and its seconds since the epoch.                         *)
(***************************************************************************)
EXTENDS Integers

CONSTANTS
    Half,          \* half of the serial space: 2^31
    YearWeight,    \* 1000000: YYYYMMDDnn written as a decimal number
    MonthWeight,   \* 10000
    DayWeight      \* 100: the two digits nn left to same-day deploys

ASSUME HalfAssumption == Half \in Nat \ {0, 1}
ASSUME WeightAssumption == {YearWeight, MonthWeight, DayWeight} \subseteq Nat \ {0}

SerialMod == 2 * Half
MaxSerial == SerialMod - 1
Serials == 0 .. MaxSerial

\* The policies of the configuration file; any other string acts as "date".
Policies == {"date", "unixtime", "increment"}

\* Mutant of Succ: computed in a wider integer, so it leaves the serial space.
MutantSucc(current) == current + 1

\* current + 1 in uint32 arithmetic.
Succ(current) == IF current = MaxSerial THEN 0 ELSE current + 1

\* YYYYMMDD00 of a civil date.
DateSerial(date) ==
    (date.year * YearWeight + date.month * MonthWeight + date.day * DayWeight) % SerialMod

\* The serial a policy would like to use at an instant; "increment" has none
\* and asks for nothing above the current serial.
Stamp(policy, instant) ==
    CASE policy = "unixtime"  -> instant.unix % SerialMod
      [] policy = "increment" -> 0
      [] OTHER                -> DateSerial(instant.date)

\* Mutant of NextSerial: a clock that has not advanced since the last deploy
\* gives the same serial again ("<" written for "<=").
MutantNextSerialRepeats(policy, current, instant) ==
    LET wanted == Stamp(policy, instant)
    IN  IF wanted < current THEN Succ(current) ELSE wanted

\* Mutant of NextSerial: the clock is trusted, so a clock set back takes the
\* serial back.
MutantNextSerialTrustsClock(policy, current, instant) ==
    IF policy = "increment" THEN Succ(current) ELSE Stamp(policy, instant)

NextSerial(policy, current, instant) ==
    LET wanted == Stamp(policy, instant)
    IN  IF wanted <= current THEN Succ(current) ELSE wanted

\* RFC 1982: what a name server takes for "a newer version of the zone".
SeqGT(a, b) ==
    \/ a > b /\ a - b < Half
    \/ a < b /\ b - a > Half

=============================================================================

------------------------ MODULE SerialHistory_proofs ------------------------
(***************************************************************************)
(* For every width of the serial, every set of clock readings and every    *)
(* bound that leaves the stamps and the missed deploys below half of the   *)
(* ring: serials stay uint32 values and a lagging secondary catches up.    *)
(***************************************************************************)
EXTENDS SerialHistory, TLAPS

LEMMA StampInRange ==
    ASSUME NEW p \in Policies, NEW instant \in Instants
    PROVE  Stamp(p, instant) \in 0 .. StampBound
BY StampAssumption

\* nextSerial, for every policy, serial and clock reading: the result is a
\* uint32, and it is either the increment or a later stamp.
LEMMA NextSerialCases ==
    ASSUME NEW p \in Policies, NEW current \in Serials, NEW instant \in Instants
    PROVE  /\ NextSerial(p, current, instant) \in Serials
           /\ \/ NextSerial(p, current, instant) = Succ(current)
              \/ /\ NextSerial(p, current, instant) > current
                 /\ NextSerial(p, current, instant) <= StampBound
<1>1. /\ Half \in Nat /\ Half > 1
      /\ StampBound \in Nat /\ StampBound < Half
  BY HalfAssumption, MissedAssumption
<1>2. Stamp(p, instant) \in 0 .. StampBound
  BY StampInRange
<1>3. Succ(current) \in Serials
  BY <1>1 DEF Succ, Serials, MaxSerial, SerialMod
<1> QED BY <1>1, <1>2, <1>3 DEF NextSerial, Serials, MaxSerial, SerialMod

\* One deploy in isolation: BumpSerial's result is newer than the serial it
\* replaces in the order name servers use, whatever the policy and the clock.
THEOREM NextSerialIsNewer ==
    ASSUME NEW p \in Policies, NEW current \in Serials, NEW instant \in Instants
    PROVE  SeqGT(NextSerial(p, current, instant), current)
<1>1. Half \in Nat /\ Half > 1 /\ StampBound \in Nat /\ StampBound < Half
  BY HalfAssumption, MissedAssumption
<1>2. SeqGT(Succ(current), current)
  BY <1>1 DEF Succ, Serials, MaxSerial, SerialMod, SeqGT
<1>3. ASSUME NEW n \in Serials, n > current, n <= StampBound
      PROVE  SeqGT(n, current)
  BY <1>1, <1>3 DEF SeqGT, Serials, MaxSerial, SerialMod
<1> QED BY <1>2, <1>3, NextSerialCases

\* serial.go's "always produces a strictly larger serial" holds below the
\* largest uint32, which is the only exception.
THEOREM NextSerialIsLarger ==
    ASSUME NEW p \in Policies, NEW current \in Serials, NEW instant \in Instants,
           current # MaxSerial
    PROVE  NextSerial(p, current, instant) > current
BY NextSerialCases DEF Succ, Serials, MaxSerial, SerialMod

-----------------------------------------------------------------------------
(* The date policy: YYYYMMDDnn.                                            *)

Dates == [year : Nat, month : 1 .. 12, day : 1 .. 31]

Earlier(d, e) ==
    \/ d.year < e.year
    \/ d.year = e.year /\ d.month < e.month
    \/ d.year = e.year /\ d.month = e.month /\ d.day < e.day

\* Days do not run into months nor months into years, as with 100, 10000 and 1000000.
Decimal == 31 * DayWeight <= MonthWeight /\ 11 * MonthWeight + 31 * DayWeight <= YearWeight

\* The date as a number, and the dates it does not overflow for: up to the year 4294.
Number(d) == d.year * YearWeight + d.month * MonthWeight + d.day * DayWeight
Fits(d) == Number(d) + DayWeight < SerialMod

LEMMA FittingSerial == ASSUME NEW d \in Dates, Fits(d) PROVE DateSerial(d) = Number(d) /\ Number(d) \in Nat
<1>1. d.year \in Nat /\ d.month \in Nat /\ d.day \in Nat
  BY DEF Dates
<1>2. YearWeight \in Nat /\ MonthWeight \in Nat /\ DayWeight \in Nat
  BY WeightAssumption
<1>3. /\ d.year * YearWeight \in Nat /\ d.month * MonthWeight \in Nat /\ d.day * DayWeight \in Nat
  BY <1>1, <1>2
<1>4. Number(d) \in Nat
  BY <1>3 DEF Number
<1>5. SerialMod \in Nat /\ Number(d) < SerialMod
  BY <1>2, <1>4, HalfAssumption DEF Fits, SerialMod
<1> HIDE DEF Number
<1>6. Number(d) % SerialMod = Number(d)
  BY <1>4, <1>5
<1> QED BY <1>4, <1>6 DEF DateSerial, Number

\* A multiple more is at least the weight more.
LEMMA TimesMore ==
    ASSUME NEW a \in Nat, NEW b \in Nat, a < b, NEW w \in Nat
    PROVE  a * w + w <= b * w
<1>1. PICK k \in Nat : b = a + 1 + k
  <2>1. b - a - 1 \in Nat /\ b = a + 1 + (b - a - 1)
    OBVIOUS
  <2> QED BY <2>1
<1>2. b * w = a * w + w + k * w
  BY <1>1
<1>3. k * w \in Nat /\ a * w \in Nat
  OBVIOUS
<1> QED BY <1>2, <1>3

LEMMA LaterIsMore ==
    ASSUME Decimal, NEW d \in Dates, NEW e \in Dates, Earlier(d, e)
    PROVE  Number(d) + DayWeight <= Number(e)
<1>1. /\ d.year \in Nat /\ d.month \in 1 .. 12 /\ d.day \in 1 .. 31
      /\ e.year \in Nat /\ e.month \in 1 .. 12 /\ e.day \in 1 .. 31
  BY DEF Dates
<1>2. YearWeight \in Nat /\ MonthWeight \in Nat /\ DayWeight \in Nat
  BY WeightAssumption
<1>3. \A w \in Nat, n \in 1 .. 31 : w <= n * w /\ n * w <= 31 * w
  OBVIOUS
<1>4. \A w \in Nat, n \in 1 .. 12 : w <= n * w /\ n * w <= 12 * w
  OBVIOUS
<1> DEFINE dy == d.year * YearWeight   ey == e.year * YearWeight
           dm == d.month * MonthWeight em == e.month * MonthWeight
           dd == d.day * DayWeight     ed == e.day * DayWeight
<1>5. /\ dy \in Nat /\ ey \in Nat /\ dm \in Nat /\ em \in Nat /\ dd \in Nat /\ ed \in Nat
      /\ MonthWeight <= em /\ dm <= 12 * MonthWeight
      /\ DayWeight <= ed /\ dd <= 31 * DayWeight
  BY <1>1, <1>2, <1>3, <1>4
<1>6. /\ d.year < e.year => dy + YearWeight <= ey
      /\ d.month < e.month => dm + MonthWeight <= em
      /\ d.day < e.day => dd + DayWeight <= ed
  <2>1. /\ d.year \in Nat /\ d.month \in Nat /\ d.day \in Nat
        /\ e.year \in Nat /\ e.month \in Nat /\ e.day \in Nat
    BY <1>1
  <2>2. d.year < e.year => dy + YearWeight <= ey
    BY <1>2, <2>1, TimesMore
  <2>3. d.month < e.month => dm + MonthWeight <= em
    BY <1>2, <2>1, TimesMore
  <2>4. d.day < e.day => dd + DayWeight <= ed
    BY <1>2, <2>1, TimesMore
  <2> QED BY <2>2, <2>3, <2>4
<1>7. /\ d.year = e.year => dy = ey
      /\ d.month = e.month => dm = em
  OBVIOUS
<1>8. Number(d) = dy + dm + dd /\ Number(e) = ey + em + ed
  BY DEF Number
<1> HIDE DEF dy, ey, dm, em, dd, ed
<1> QED BY <1>2, <1>5, <1>6, <1>7, <1>8 DEF Earlier, Decimal

\* serial.go, dateSerial: a later date gives a larger serial, and between the two there
\* is room for the deploys of the earlier day.
THEOREM LaterDateIsLarger ==
    ASSUME Decimal, NEW d \in Dates, NEW e \in Dates, Earlier(d, e), Fits(d), Fits(e)
    PROVE  DateSerial(d) + DayWeight <= DateSerial(e)
BY FittingSerial, LaterIsMore

\* The serial reads as the date and a number of the deploy in that day.
Reads(v, d) == DateSerial(d) <= v /\ v < DateSerial(d) + DayWeight

\* serial.go, "YYYYMMDDnn": the serial goes on reading as the date of the latest
\* deploy, as long as the clock is not set back and nn has not reached its last value
\* on the same day.
THEOREM SerialReadsAsDate ==
    ASSUME Decimal, NEW instant, instant.date \in Dates, Fits(instant.date),
           NEW d \in Dates, Fits(d), NEW current \in Serials, Reads(current, d),
           \/ Earlier(d, instant.date)
           \/ d = instant.date /\ current + 1 < DateSerial(d) + DayWeight
    PROVE  Reads(NextSerial("date", current, instant), instant.date)
<1> DEFINE e == instant.date
<1>1. /\ DayWeight \in Nat \ {0} /\ Half \in Nat
      /\ DateSerial(d) \in Nat /\ DateSerial(d) + DayWeight < SerialMod
      /\ DateSerial(e) \in Nat /\ DateSerial(e) + DayWeight < SerialMod
  BY WeightAssumption, HalfAssumption, FittingSerial DEF Fits
<1>2. Stamp("date", instant) = DateSerial(e)
  BY DEF Stamp
<1>3. current \in Nat
  BY <1>1 DEF Serials, MaxSerial, SerialMod
<1>4. CASE Earlier(d, e)
  <2>1. DateSerial(d) + DayWeight <= DateSerial(e)
    BY <1>4, LaterDateIsLarger
  <2>2. NextSerial("date", current, instant) = DateSerial(e)
    BY <1>1, <1>2, <1>3, <2>1 DEF NextSerial, Reads
  <2> QED BY <1>1, <2>2 DEF Reads
<1>5. CASE d = e /\ current + 1 < DateSerial(d) + DayWeight
  <2>1. Succ(current) = current + 1
    BY <1>1, <1>3, <1>5 DEF Succ, MaxSerial, SerialMod
  <2>2. NextSerial("date", current, instant) = current + 1
    BY <1>2, <1>5, <2>1 DEF NextSerial, Reads
  <2> QED BY <1>1, <1>3, <1>5, <2>2 DEF Reads
<1> QED BY <1>4, <1>5

-----------------------------------------------------------------------------

IInv == TypeOK /\ Lag

LEMMA InitIInv == Init => IInv
<1> SUFFICES ASSUME Init PROVE IInv
  OBVIOUS
<1> QED BY HalfAssumption, MissedAssumption
        DEF Init, IInv, TypeOK, Lag, Serials, MaxSerial, SerialMod

LEMMA NextIInv == IInv /\ [Next]_vars => IInv'
<1> SUFFICES ASSUME IInv, [Next]_vars PROVE IInv'
  OBVIOUS
<1>0. /\ Half \in Nat /\ Half > 1
      /\ StampBound \in Nat /\ MaxMissed \in Nat /\ StampBound + MaxMissed < Half
  BY HalfAssumption, MissedAssumption
<1>1. ASSUME NEW instant \in Instants, BumpSerial(instant)
      PROVE  IInv'
  <2>1. /\ serial' \in Serials
        /\ \/ serial' = Succ(serial)
           \/ serial' > serial /\ serial' <= StampBound
    BY <1>1, NextSerialCases DEF BumpSerial, IInv, TypeOK
  <2>2. missed' = missed + 1 /\ missed' \in 0 .. MaxMissed /\ seen' = seen /\ policy' = policy
    BY <1>0, <1>1 DEF BumpSerial, IInv, TypeOK
  <2>3. TypeOK'
    BY <2>1, <2>2 DEF IInv, TypeOK
  <2>4. Lag'
    <3>1. CASE serial' = Succ(serial) /\ serial # MaxSerial
      BY <1>0, <2>1, <2>2, <3>1
      DEF IInv, TypeOK, Lag, Succ, Serials, MaxSerial, SerialMod
    <3>2. CASE serial' = Succ(serial) /\ serial = MaxSerial
      BY <1>0, <2>1, <2>2, <3>2
      DEF IInv, TypeOK, Lag, Succ, Serials, MaxSerial, SerialMod
    <3>3. CASE serial' > serial /\ serial' <= StampBound
      BY <1>0, <2>1, <2>2, <3>3
      DEF IInv, TypeOK, Lag, Serials, MaxSerial, SerialMod
    <3> QED BY <2>1, <3>1, <3>2, <3>3
  <2> QED BY <2>3, <2>4 DEF IInv
<1>2. ASSUME NEW p \in Policies, Reconfigure(p)
      PROVE  IInv'
  BY <1>2 DEF Reconfigure, IInv, TypeOK, Lag
<1>3. CASE Refresh
  BY <1>0, <1>3 DEF Refresh, IInv, TypeOK, Lag, Serials, MaxSerial, SerialMod
<1>4. CASE UNCHANGED vars
  BY <1>4 DEF vars, IInv, TypeOK, Lag
<1> QED BY <1>1, <1>2, <1>3, <1>4 DEF Next

LEMMA LagImpliesCatchUp == IInv => LaggingSecondaryCatchesUp
<1> SUFFICES ASSUME IInv, missed > 0 PROVE SeqGT(serial, seen)
  BY DEF LaggingSecondaryCatchesUp
<1>0. /\ Half \in Nat /\ StampBound \in Nat /\ MaxMissed \in Nat
      /\ StampBound + MaxMissed < Half
  BY HalfAssumption, MissedAssumption
<1>1. CASE seen <= serial
  BY <1>0, <1>1 DEF IInv, TypeOK, Lag, SeqGT, Serials, MaxSerial, SerialMod
<1>2. CASE seen > serial
  BY <1>0, <1>2 DEF IInv, TypeOK, Lag, SeqGT, Serials, MaxSerial, SerialMod
<1> QED BY <1>1, <1>2 DEF IInv, TypeOK, Serials

\* Serials and the count of missed deploys stay in range in every behaviour.
THEOREM TypeCorrect == Spec => []TypeOK
<1>1. IInv => TypeOK
  BY DEF IInv
<1> QED BY <1>1, InitIInv, NextIInv, PTL DEF Spec

\* BumpSerial only ever gets ahead of a secondary by increments, one per deploy, or by
\* a stamp and such increments on top of it; after a wrap the increments over the
\* top are among those.
THEOREM LagIsAccounted == Spec => []Lag
<1>1. IInv => Lag
  BY DEF IInv
<1> QED BY <1>1, InitIInv, NextIInv, PTL DEF Spec

\* A secondary that missed up to MaxMissed deploys, through policy changes,
\* clocks set back and the wrap of uint32, still finds the primary's serial
\* newer than its own.
THEOREM SecondaryCatchesUp == Spec => []LaggingSecondaryCatchesUp
BY InitIInv, NextIInv, LagImpliesCatchUp, PTL DEF Spec

=============================================================================

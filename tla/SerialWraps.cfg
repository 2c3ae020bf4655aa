SPECIFICATION Spec
CONSTANTS
    Half = 16
    YearWeight = 1
    MonthWeight = 2
    DayWeight = 3
    Instants <- MCInstants
    StampBound = 9
    MaxMissed = 5
INVARIANTS
    AlwaysStrictlyLarger

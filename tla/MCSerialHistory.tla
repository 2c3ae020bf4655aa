--------------------------- MODULE MCSerialHistory ---------------------------
(* A ring of 32 serials and two days of a toy calendar: date stamps 6 to 9,  *)
(* seconds that overlap them.                                                *)
EXTENDS SerialHistory

MCInstants ==
    {[date |-> [year |-> 1, month |-> 1, day |-> d], unix |-> u] : d \in 1 .. 2, u \in {0, 5, 8, 9}}

=============================================================================

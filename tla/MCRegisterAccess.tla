--------------------------- MODULE MCRegisterAccess ---------------------------
(***************************************************************************)
(* Constants for RegisterAccess: the two UARTs of iob_core_tb.c.  One of    *)
(* the two values has the divisor latch access bit; both are written to LC. *)
(***************************************************************************)
EXTENDS RegisterAccess

MCBase == {0, 32}
MCByte == {3, 131}
MCCalls == [op : {"get"}, reg : M!Getter]
           \cup [op : {"set"}, reg : M!Setter, value : {131}]
           \cup {[op |-> "set", reg |-> "lc", value |-> 3], [op |-> "init", msb |-> 131, lsb |-> 3]}
=============================================================================

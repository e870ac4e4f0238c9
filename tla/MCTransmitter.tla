--------------------------- MODULE MCTransmitter ----------------------------
(***************************************************************************)
(* Constants for model checking Transmitter.tla.  The line modes cover the  *)
(* three lengths of the stop bits, words of 5, 6 and 8 bits, parity on and  *)
(* off; all 64 modes are covered by SerialLink.tla.                         *)
(***************************************************************************)
EXTENDS Transmitter

\* The byte whose bits, least significant first, are b.
Bits(b) == [i \in 0 .. 7 |-> b[i + 1]]

MCData == {Bits(<<1, 0, 0, 1, 1, 0, 1, 0>>), Bits(<<0, 1, 1, 1, 0, 0, 0, 1>>)}

Mode(bits, sb, pe, ep, sp) ==
  [bits |-> bits, sb |-> sb, pe |-> pe, ep |-> ep, sp |-> sp, bc |-> FALSE]

MCLineModes == {Mode(5, FALSE, FALSE, FALSE, FALSE), Mode(5, TRUE, TRUE, FALSE, FALSE),
                Mode(6, TRUE, FALSE, TRUE, FALSE),   Mode(7, FALSE, TRUE, TRUE, FALSE),
                Mode(8, FALSE, TRUE, TRUE, TRUE),    Mode(8, TRUE, TRUE, FALSE, TRUE)}
=============================================================================

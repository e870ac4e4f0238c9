---------------------------- MODULE MCSerialLink ----------------------------
(***************************************************************************)
(* Constants for model checking SerialLink.tla: all line modes (with parity *)
(* off, the two bits that choose the kind of parity are off too), three     *)
(* characters (all zeros, all ones, and one that differs from its mirror    *)
(* image and has odd weight in each word length), and the divisor latch     *)
(* values 1 (a tick at every clock) and 2.                                  *)
(***************************************************************************)
EXTENDS SerialLink

Bits(b) == [i \in 0 .. 7 |-> b[i + 1]]

MCData == {Bits(<<0, 0, 0, 0, 0, 0, 0, 0>>), Bits(<<1, 1, 1, 1, 1, 1, 1, 1>>),
           Bits(<<1, 1, 0, 1, 0, 0, 0, 0>>)}

MCLineModes == {m \in LCR : ~m.bc /\ (~m.pe => ~m.ep /\ ~m.sp)}
=============================================================================

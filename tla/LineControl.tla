---------------------------- MODULE LineControl -----------------------------
(***************************************************************************)
(* The line control register and what the serial engines derive from it.    *)
(* uart_transmitter.v, uart_receiver.v and uart_regs.v each decode the      *)
(* register on their own; the operators here are the decodings, named once. *)
(***************************************************************************)
EXTENDS Naturals, FiniteSets

Bit  == {0, 1}
Byte == [0 .. 7 -> Bit]

\* bits: word length (lcr[1:0] + 5); sb: more than one stop bit; pe: parity
\* enable; ep, sp: even and stick parity; bc: break control.
LCR == [bits : 5 .. 8, sb : BOOLEAN, pe : BOOLEAN,
        ep : BOOLEAN, sp : BOOLEAN, bc : BOOLEAN]

\* The reset value 8'b00000011: eight bits, no parity, one stop bit.
ResetLCR == [bits |-> 8, sb |-> FALSE, pe |-> FALSE,
             ep |-> FALSE, sp |-> FALSE, bc |-> FALSE]

\* ^d[n-1:0]
Xor(d, n) == Cardinality({i \in 0 .. (n - 1) : d[i] = 1}) % 2

\* The parity bit sent for a word whose bits xor to x.
ParityBit(lcr, x) ==
  CASE ~lcr.ep /\ ~lcr.sp -> 1 - x
    [] ~lcr.ep /\  lcr.sp -> 1
    []  lcr.ep /\ ~lcr.sp -> x
    []  lcr.ep /\  lcr.sp -> 0

\* lcr[3:0] as the tables of the receiver and of the register file index it.
Index(lcr) == (IF lcr.pe THEN 8 ELSE 0) + (IF lcr.sb THEN 4 ELSE 0) + lcr.bits - 5

\* Timeout counter preset of the receiver.
TocValue(lcr) ==
  CASE Index(lcr) = 0               -> 447
    [] Index(lcr) = 4               -> 479
    [] Index(lcr) \in {1, 8}        -> 511
    [] Index(lcr) = 12              -> 543
    [] Index(lcr) \in {2, 5, 9}     -> 575
    [] Index(lcr) \in {3, 6, 10, 13} -> 639
    [] Index(lcr) \in {7, 11, 14}   -> 703
    [] OTHER                        -> 767

\* A mutant of BrcValue: the low eight bits, toc_value[7:0].
BrcValueUnshifted(lcr) == TocValue(lcr) % 256

\* Break counter preset of the receiver: toc_value[9:2].
BrcValue(lcr) == TocValue(lcr) \div 4

\* THRE blocking counter preset of the register file.
BlockValue(lcr) ==
  CASE Index(lcr) = 0               -> 95
    [] Index(lcr) = 4               -> 103
    [] Index(lcr) \in {1, 8}        -> 111
    [] Index(lcr) = 12              -> 119
    [] Index(lcr) \in {2, 5, 9}     -> 127
    [] Index(lcr) \in {3, 6, 10, 13} -> 143
    [] Index(lcr) \in {7, 11, 14}   -> 159
    [] OTHER                        -> 175
-----------------------------------------------------------------------------
(***************************************************************************)
(* The reference: an asynchronous serial frame, in sixteenths of a bit.     *)
(***************************************************************************)

ParityBits(lcr) == IF lcr.pe THEN 1 ELSE 0

\* Start bit, data bits and parity bit.
WordTicks(lcr) == 16 * (1 + lcr.bits + ParityBits(lcr))

StopTicks(lcr) == IF ~lcr.sb THEN 16 ELSE IF lcr.bits = 5 THEN 24 ELSE 32

FrameTicks(lcr) == WordTicks(lcr) + StopTicks(lcr)

\* The level of the line t ticks after the start of the frame of character d.
Level(d, lcr, t) ==
  LET cell == t \div 16
  IN  CASE cell = 0                        -> 0
        [] cell \in 1 .. lcr.bits          -> d[cell - 1]
        [] cell = lcr.bits + 1 /\ lcr.pe   -> ParityBit(lcr, Xor(d, lcr.bits))
        [] OTHER                           -> 1
=============================================================================

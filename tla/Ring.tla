-------------------------------- MODULE Ring --------------------------------
(***************************************************************************)
(* The pointer arithmetic shared by uart_tfifo.v and uart_rfifo.v.  Both    *)
(* FIFOs keep their characters in a memory of Depth words addressed by two  *)
(* registers, top and bottom, of log2(Depth) bits: adding one to the        *)
(* register that holds Depth - 1 gives 0.                                   *)
(***************************************************************************)
EXTENDS Naturals

CONSTANT Depth      \* UART_FIFO_DEPTH (256 in uart_defines.vh)

ASSUME DepthAssumption == Depth \in Nat \ {0}

Address == 0 .. (Depth - 1)

\* "pointer + 1'b1" in a register of UART_FIFO_POINTER_W bits.
Inc(p) == IF p = Depth - 1 THEN 0 ELSE p + 1

\* The address k places above p: k additions of 1 to p, for k <= Depth.
Slot(p, k) == IF p + k < Depth THEN p + k ELSE p + k - Depth

\* The n words from address b of the memory m upwards.
Stored(m, b, n) == [i \in 1 .. n |-> m[Slot(b, i - 1)]]
=============================================================================

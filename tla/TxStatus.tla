------------------------------ MODULE TxStatus ------------------------------
(***************************************************************************)
(* The transmit side of uart_regs.v: writes of the transmitter (TR), FIFO   *)
(* control (FC) and interrupt enable (IE) registers, reads of the interrupt *)
(* identification (II), bits 5 (THRE) and 6 (TEMT) of the line status, the  *)
(* counter that delays THRE by a character time, and the THRE interrupt,    *)
(* with the transmitter of Transmitter.tla.  The other interrupts stay      *)
(* disabled here.                                                           *)
(*                                                                          *)
(* A step is one rising edge of clk.  access is the register access whose   *)
(* one-cycle wb_re_i or wb_we_i pulse falls in the cycle; uart_wb.v leaves  *)
(* two cycles between two of them.                                          *)
(***************************************************************************)
EXTENDS LineControl, Sequences

CONSTANTS Depth,      \* UART_FIFO_DEPTH
          Data,       \* the characters written
          LineModes,  \* the line modes
          Registers,  \* the registers software accesses
          CtsLevels,  \* the levels of CTS
          EnableLevels,  \* {TRUE}: a tick in every cycle (divisor 1)
          Burst       \* does software write several characters after it saw
                      \* THRE once?

ASSUME DepthAssumption == Depth \in Nat \ {0}

ASSUME ValuesAssumption == Data \subseteq Byte /\ LineModes \subseteq LCR

VARIABLES lcr, enable, cts_pad_i,    \* inputs; enable: baud generator
          access, gap,               \* bus: the access, cycles since the last
          tf_push, wb_dat_i, tx_reset,
          ram, top, bottom, tf_count, tstate, counter, bit_counter, shift_out,
          bit_out, parity_xor, stx_o_tmp, tf_pop, \* the transmitter
          block_cnt,
          lsr5r, lsr5_d, lsr6r, lsr6_d,
          ier,                       \* THRE interrupt enabled
          thre_int_d, thre_int_pnd, int_o, iir

tx   == <<tf_push, wb_dat_i, tx_reset, ram, top, bottom, tf_count, tstate,
          counter, bit_counter, shift_out, bit_out, parity_xor, stx_o_tmp, tf_pop>>
lsr  == <<block_cnt, lsr5r, lsr5_d, lsr6r, lsr6_d>>
interrupt == <<ier, thre_int_d, thre_int_pnd, int_o, iir>>
vars == <<lcr, enable, cts_pad_i, access, gap, tx, lsr, interrupt>>

\* "Transmitter only works when CTS is high"
Tx == INSTANCE Transmitter WITH
        enable <- enable /\ cts_pad_i, ClearAnyTime <- FALSE,
        cur <- CHOOSE c \in Data : TRUE

Idle     == [reg |-> "none"]
ReadII   == [reg |-> "II"]
WriteTR  == [reg : {"TR"}, data : Data]
WriteFC  == [reg : {"FC"}, clear : BOOLEAN]
WriteIE  == [reg : {"IE"}, thre : BOOLEAN]
Accesses == {a \in {ReadII} \union WriteTR \union WriteFC \union WriteIE :
               a.reg \in Registers}

fifo_write == access.reg = "TR"
iir_read   == access = ReadII

Reset ==
  /\ Tx!Reset
  /\ tf_push = FALSE /\ tx_reset = FALSE
  /\ block_cnt = 0
  /\ lsr5r = TRUE /\ lsr5_d = TRUE
  /\ lsr6r = TRUE /\ lsr6_d = TRUE
  /\ ier = FALSE
  /\ thre_int_d = FALSE /\ thre_int_pnd = FALSE
  /\ int_o = FALSE /\ iir = "none"

\* The strobes follow the access by one cycle and last one cycle; the data
\* lines still carry what was written.
RegisterAccess ==
  /\ tf_push' = fifo_write
  /\ wb_dat_i' = IF fifo_write THEN access.data ELSE wb_dat_i
  /\ tx_reset' = (access.reg = "FC" /\ access.clear)
  /\ ier' = IF access.reg = "IE" THEN access.thre ELSE ier

BlockCounterUnderflows ==
  block_cnt' = CASE lsr5r /\ fifo_write             -> BlockValue(lcr)
                 [] ~(lsr5r /\ fifo_write) /\ enable -> block_cnt - 1
                 [] OTHER                           -> block_cnt

BlockCounterStopsAtOne ==
  block_cnt' = CASE lsr5r /\ fifo_write                              -> BlockValue(lcr)
                 [] ~(lsr5r /\ fifo_write) /\ enable /\ block_cnt > 1 -> block_cnt - 1
                 [] OTHER                                            -> block_cnt

\* Counts the time of one character minus its stop bit, from a write made
\* while THRE was set.
BlockCounter ==
  block_cnt' = CASE lsr5r /\ fifo_write                              -> BlockValue(lcr)
                 [] ~(lsr5r /\ fifo_write) /\ enable /\ block_cnt # 0 -> block_cnt - 1
                 [] OTHER                                            -> block_cnt

thre_set_en == block_cnt = 0
lsr5 == tf_count = 0 /\ thre_set_en
lsr6WithoutState == tf_count = 0 /\ thre_set_en
lsr6 == tf_count = 0 /\ thre_set_en /\ tstate = "s_idle"

\* Set when the condition rises, cleared by a write, which wins.
Empty ==
  /\ lsr5_d' = lsr5
  /\ lsr6_d' = lsr6
  /\ lsr5r' = (~fifo_write /\ (lsr5r \/ (lsr5 /\ ~lsr5_d)))
  /\ lsr6r' = (~fifo_write /\ (lsr6r \/ (lsr6 /\ ~lsr6_d)))

thre_int == ier /\ lsr5r

InterruptClearedByAnyRead ==
  /\ thre_int_d' = thre_int
  /\ thre_int_pnd' = (/\ ~(fifo_write \/ iir_read)
                      /\ (thre_int /\ ~thre_int_d) \/ (thre_int_pnd /\ ier))
  /\ int_o' = (thre_int_pnd /\ ~(fifo_write /\ iir_read))
  /\ iir' = IF thre_int_pnd THEN "THRE" ELSE "none"

\* The read of the identification register removes the interrupt only when
\* the register shows it.
Interrupt ==
  /\ thre_int_d' = thre_int
  /\ thre_int_pnd' = (/\ ~(fifo_write \/ (iir_read /\ iir = "THRE"))
                      /\ (thre_int /\ ~thre_int_d) \/ (thre_int_pnd /\ ier))
  /\ int_o' = (thre_int_pnd /\ ~(fifo_write /\ iir_read))
  /\ iir' = IF thre_int_pnd THEN "THRE" ELSE "none"

\* One edge of clk.
Clock == Tx!Clock /\ RegisterAccess /\ BlockCounter /\ Empty /\ Interrupt

\* Software writes a character after it saw THRE; with Burst, more of them at
\* any time later, as long as the FIFO has room.
MayWrite == IF Burst THEN tf_count' < Depth /\ ~tf_push' ELSE lsr5r'

\* The FIFO is cleared only while no character is about to be loaded (see
\* TransmitterClear.cfg).
Drive ==
  /\ enable' \in EnableLevels /\ cts_pad_i' \in CtsLevels
  /\ gap' = CASE access # Idle            -> 0
              [] access = Idle /\ gap < 2 -> gap + 1
              [] OTHER                    -> 2
  /\ access' \in {Idle} \union
       {a \in Accesses : /\ gap' = 2
                         /\ a.reg = "TR" => MayWrite
                         /\ a.reg = "FC" /\ a.clear => lsr6r'}
  /\ UNCHANGED lcr

Init == /\ Reset
        /\ lcr \in LineModes
        /\ wb_dat_i \in Data
        /\ enable \in EnableLevels /\ cts_pad_i \in CtsLevels
        /\ access = Idle /\ gap = 2

Next == Clock /\ Drive

Spec == Init /\ [][Next]_vars

\* Ticks of the baud generator keep coming while CTS is high.
FairSpec == Spec /\ WF_vars(Next /\ enable' /\ cts_pad_i')
-----------------------------------------------------------------------------
(* Properties *)

TypeOK ==
  /\ Tx!TypeOK
  /\ access \in Accesses \union {Idle} /\ gap \in 0 .. 2
  /\ enable \in EnableLevels /\ cts_pad_i \in CtsLevels
  /\ block_cnt \in 0 .. 175
  /\ {lsr5r, lsr5_d, lsr6r, lsr6_d, ier} \subseteq BOOLEAN
  /\ {thre_int_d, thre_int_pnd, int_o} \subseteq BOOLEAN
  /\ iir \in {"none", "THRE"}

\* "transmitter fifo is empty" (uart_regs.v:617, 679): while THRE is set no
\* character waits in the FIFO or is on its way to it.  Software that saw it
\* writes a FIFO full.
ThreTruthful == lsr5r => tf_count = 0 /\ ~tf_push

\* And while TEMT is set, the bit uart16550_txready polls, the transmitter is
\* idle as well: it is safe to change the line mode or to turn the clock off.
StatusTruthful ==
  ThreTruthful /\ (lsr6r => tf_count = 0 /\ ~tf_push /\ tstate = "s_idle")

\* After a write, THRE and TEMT are set again: software that polls them does
\* not wait for ever, although both are set by an edge only.
ComesEmpty == /\ fifo_write ~> lsr5r
              /\ ~lsr6r ~> (lsr6r \/ fifo_write)

\* Software that wrote and waits for the THRE interrupt gets it, or has
\* written again or masked it before.
AsksForMore == (~lsr5r /\ ier) ~> (int_o \/ ~ier \/ fifo_write)
=============================================================================

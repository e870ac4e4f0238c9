---------------------------- MODULE Transmitter -----------------------------
(***************************************************************************)
(* uart_transmitter.v: the transmitter FIFO and the state machine that      *)
(* serialises its characters.  A step is one rising edge of clk; the state  *)
(* machine moves only at edges with enable = 1 (a tick of the sixteen times *)
(* baud clock while CTS allows sending).                                    *)
(***************************************************************************)
EXTENDS LineControl, Sequences

CONSTANTS Depth,        \* UART_FIFO_DEPTH
          Data,         \* the characters written to the transmitter
          LineModes,    \* the values written to the line control register
          ClearAnyTime  \* may software clear the FIFO while a character is
                        \* about to be loaded?

ASSUME DepthAssumption == Depth \in Nat \ {0}

\* The bus carries bytes; the line control register holds a value of LCR.
ASSUME ValuesAssumption == Data \subseteq Byte /\ LineModes \subseteq LCR

VARIABLES lcr, tf_push, wb_dat_i, enable, tx_reset,   \* input wires
          ram, top, bottom, tf_count,                 \* the transmitter FIFO
          tstate,       \* state of the machine
          counter,      \* ticks left of the current bit
          bit_counter,  \* data bits left after the current one
          shift_out,    \* the data bits after the current one
          bit_out,      \* the bit being sent
          parity_xor,
          stx_o_tmp,    \* level of the line, before break control
          tf_pop,       \* read strobe of the FIFO
          cur           \* history: the character loaded last

inputs  == <<lcr, tf_push, wb_dat_i, enable, tx_reset>>
fifo    == <<ram, top, bottom, tf_count>>
machine == <<tstate, counter, bit_counter, shift_out, bit_out, parity_xor,
             stx_o_tmp, tf_pop>>
vars    == <<inputs, fifo, machine, cur>>

States == {"s_idle", "s_pop_byte", "s_send_start", "s_send_byte",
           "s_send_parity", "s_send_stop"}

\* The overrun output is left unconnected, so that register is not kept: it
\* stays at its reset value when its reset_status input is held at 1.
fifo_tx == INSTANCE TFifo WITH Char <- Data, push <- tf_push, pop <- tf_pop,
                               data_in <- wb_dat_i, fifo_reset <- tx_reset,
                               reset_status <- TRUE, overrun <- FALSE,
                               count <- tf_count

tf_data_out == fifo_tx!data_out

Reset == /\ fifo_tx!Reset
         /\ tstate = "s_idle"
         /\ stx_o_tmp = 1
         /\ counter = 0
         /\ shift_out = [i \in 0 .. 6 |-> 0]
         /\ bit_out = 0
         /\ parity_xor = 0
         /\ tf_pop = FALSE
         /\ bit_counter = 0

\* The pad: break control forces the line low.
stx_pad_o == IF lcr.bc THEN 0 ELSE stx_o_tmp

\* A bit takes one tick with counter = 0, then one for each value down to 1.
Countdown(first) == counter' = IF counter = 0 THEN first ELSE counter - 1
LastTick == counter = 1

IdleNeverLooks ==
  /\ tstate = "s_idle"
  /\ stx_o_tmp' = 1
  /\ tstate' = "s_pop_byte" /\ tf_pop' = FALSE
  /\ UNCHANGED <<counter, bit_counter, shift_out, bit_out, parity_xor>>

Idle ==
  /\ tstate = "s_idle"
  /\ stx_o_tmp' = 1
  /\ IF tf_count = 0 THEN UNCHANGED <<tstate, tf_pop>>
                     ELSE tstate' = "s_pop_byte" /\ tf_pop' = FALSE
  /\ UNCHANGED <<counter, bit_counter, shift_out, bit_out, parity_xor>>

\* Loads the character at the head of the FIFO without a second look at
\* tf_count.
PopByte ==
  /\ tstate = "s_pop_byte"
  /\ tf_pop' = TRUE
  /\ bit_counter' = lcr.bits - 1
  /\ parity_xor' = Xor(tf_data_out, lcr.bits)
  /\ bit_out' = tf_data_out[0]
  /\ shift_out' = [i \in 0 .. 6 |-> tf_data_out[i + 1]]
  /\ tstate' = "s_send_start"
  /\ UNCHANGED <<counter, stx_o_tmp>>

SendStart ==
  /\ tstate = "s_send_start"
  /\ tf_pop' = FALSE
  /\ Countdown(15)
  /\ tstate' = IF LastTick THEN "s_send_byte" ELSE tstate
  /\ stx_o_tmp' = 0
  /\ UNCHANGED <<bit_counter, shift_out, bit_out, parity_xor>>

\* {shift_out[5:0], bit_out} <= {shift_out[6:1], shift_out[0]}
Shift == /\ bit_out' = shift_out[0]
         /\ shift_out' = [i \in 0 .. 6 |-> shift_out[IF i < 6 THEN i + 1 ELSE 6]]

SendByte ==
  /\ tstate = "s_send_byte"
  /\ Countdown(15)
  /\ stx_o_tmp' = bit_out
  /\ \/ ~LastTick /\ UNCHANGED <<tstate, bit_counter, shift_out, bit_out>>
     \/ /\ LastTick /\ bit_counter > 0
        /\ bit_counter' = bit_counter - 1
        /\ Shift
        /\ UNCHANGED tstate
     \/ /\ LastTick /\ bit_counter = 0 /\ ~lcr.pe
        /\ tstate' = "s_send_stop"
        /\ UNCHANGED <<bit_counter, shift_out, bit_out>>
     \/ /\ LastTick /\ bit_counter = 0 /\ lcr.pe
        /\ bit_out' = ParityBit(lcr, parity_xor)
        /\ tstate' = "s_send_parity"
        /\ UNCHANGED <<bit_counter, shift_out>>
  /\ UNCHANGED <<parity_xor, tf_pop>>

SendParity ==
  /\ tstate = "s_send_parity"
  /\ Countdown(15)
  /\ tstate' = IF LastTick THEN "s_send_stop" ELSE tstate
  /\ stx_o_tmp' = bit_out
  /\ UNCHANGED <<bit_counter, shift_out, bit_out, parity_xor, tf_pop>>

SendStopFull ==
  /\ tstate = "s_send_stop"
  /\ Countdown(CASE ~lcr.sb                  -> 15
                 []  lcr.sb /\ lcr.bits = 5  -> 23
                 []  lcr.sb /\ lcr.bits # 5  -> 29)
  /\ tstate' = IF LastTick THEN "s_idle" ELSE tstate
  /\ stx_o_tmp' = 1
  /\ UNCHANGED <<bit_counter, shift_out, bit_out, parity_xor, tf_pop>>

\* Three ticks short of the stop bits: the tick with counter = 0, s_idle and
\* s_pop_byte make up for them.
SendStop ==
  /\ tstate = "s_send_stop"
  /\ Countdown(CASE ~lcr.sb                  -> 13
                 []  lcr.sb /\ lcr.bits = 5  -> 21
                 []  lcr.sb /\ lcr.bits # 5  -> 29)
  /\ tstate' = IF LastTick THEN "s_idle" ELSE tstate
  /\ stx_o_tmp' = 1
  /\ UNCHANGED <<bit_counter, shift_out, bit_out, parity_xor, tf_pop>>

\* "tf_pop must be 1 cycle width"
Disabled ==
  /\ tf_pop' = FALSE
  /\ UNCHANGED <<tstate, counter, bit_counter, shift_out, bit_out, parity_xor,
                 stx_o_tmp>>

Machine ==
  \/ ~enable /\ Disabled
  \/ /\ enable
     /\ Idle \/ PopByte \/ SendStart \/ SendByte \/ SendParity \/ SendStop

\* One edge of clk.
Clock == Machine /\ fifo_tx!Clock

Loading == enable /\ tstate = "s_pop_byte"

Observe == cur' = IF Loading THEN tf_data_out ELSE cur

\* uart_wb.v leaves at least two cycles between two accesses, so a character
\* and a clear command never arrive in adjacent cycles.
BusFree == ~tf_push /\ ~tx_reset

\* No character is about to be loaded (in the next cycle).
ClearIsSafe == CASE tstate' = "s_pop_byte" -> FALSE
                 [] tstate' = "s_idle"     -> tf_count' = 0
                 [] OTHER                  -> TRUE

\* The line control register is written only while nothing is being sent.
Quiet == tstate' = "s_idle" /\ tf_count' = 0

Drive == /\ tf_push' \in IF BusFree THEN BOOLEAN ELSE {FALSE}
         /\ wb_dat_i' \in IF tf_push' THEN Data ELSE {wb_dat_i}
         /\ tx_reset' \in IF BusFree /\ ~tf_push' /\ (ClearAnyTime \/ ClearIsSafe)
                           THEN BOOLEAN ELSE {FALSE}
         /\ lcr' \in IF Quiet /\ ~tf_push' THEN LineModes ELSE {lcr}
         /\ enable' \in BOOLEAN

Init == /\ Reset
        /\ lcr \in LineModes
        /\ tf_push = FALSE /\ wb_dat_i \in Data
        /\ enable = FALSE /\ tx_reset = FALSE
        /\ cur \in Data

Next == Clock /\ Observe /\ Drive

\* enable is a tick of the baud clock and CTS: ticks keep coming.
Tick == Next /\ enable'

Spec     == Init /\ [][Next]_vars
FairSpec == Spec /\ WF_vars(Tick)
-----------------------------------------------------------------------------
(* Properties *)

TypeOK == /\ lcr \in LineModes /\ wb_dat_i \in Data
          /\ tf_push \in BOOLEAN /\ enable \in BOOLEAN /\ tx_reset \in BOOLEAN
          /\ fifo_tx!TypeOK
          /\ tstate \in States
          /\ counter \in 0 .. 29
          /\ bit_counter \in 0 .. 7
          /\ shift_out \in [0 .. 6 -> Bit]
          /\ bit_out \in Bit
          /\ parity_xor \in Bit
          /\ stx_o_tmp \in Bit
          /\ tf_pop \in BOOLEAN
          /\ cur \in Data

\* The state machine loads a character only when the FIFO has one: the count
\* it saw in s_idle still holds at the tick of s_pop_byte, any number of clock
\* cycles later.  ("fixed parity sending and tx_fifo resets over- and underrun",
\* uart_transmitter.v:115.)
NoUnderrun == tstate = "s_pop_byte" => tf_count > 0

\* The characters not yet loaded.  In the cycle after a load the head of the
\* FIFO is the character just loaded: it leaves at the end of that cycle.
Pending == IF tf_pop /\ tf_count > 0 THEN Tail(fifo_tx!Contents)
                                     ELSE fifo_tx!Contents

\* Ticks of the current frame already on the line.
TicksOfBit == IF counter = 0 THEN 0 ELSE 16 - counter
FrameTick ==
  CASE tstate = "s_send_start"  -> TicksOfBit
    [] tstate = "s_send_byte"   -> 16 * (lcr.bits - bit_counter) + TicksOfBit
    [] tstate = "s_send_parity" -> 16 * (lcr.bits + 1) + TicksOfBit
    [] tstate = "s_send_stop"   -> WordTicks(lcr) + (IF counter = 0 THEN 0
                                     ELSE StopTicks(lcr) - 2 - counter)
    [] OTHER -> 0

Phase == CASE tstate = "s_idle" -> "idle" [] tstate = "s_pop_byte" -> "load"
           [] OTHER -> "frame"

Abstract == INSTANCE Serializer WITH q <- Pending, phase <- Phase,
                                     t <- FrameTick, line <- stx_o_tmp

\* The FIFO, the shift register and the counters together put on the line,
\* tick by tick, the frames of the characters written, in order, each with its
\* parity bit and the full length of its stop bits.
ImplementsSerializer == Abstract!Spec

=============================================================================

------------------------------ MODULE RxStatus ------------------------------
(***************************************************************************)
(* The receive side of uart_regs.v: reads of the receiver buffer (RB) and   *)
(* the line status (LS), writes of the FIFO control (FC) and the interrupt  *)
(* enable (IE) registers, bits 0 to 4 and 7 of the line status, the line    *)
(* status, data available and timeout interrupts, with the receiver FIFO    *)
(* (RFifo.tla) and the timeout counter of uart_receiver.v.  The transmitter *)
(* and modem interrupts stay disabled here.                                 *)
(*                                                                          *)
(* A step is one rising edge of clk.  access is the register access whose   *)
(* one-cycle wb_re_i or wb_we_i pulse falls in the cycle; uart_wb.v leaves  *)
(* two cycles between two of them.                                          *)
(***************************************************************************)
EXTENDS Naturals, FiniteSets

CONSTANTS Depth,          \* UART_FIFO_DEPTH
          Char,           \* the characters received
          ErrorSets,      \* the sets of errors a character comes with
          TriggerLevels,  \* the receiver FIFO trigger levels
          Timeout,        \* toc_value
          PushSpacing,    \* the cycles between two received characters
          Registers       \* the registers software accesses

ASSUME ErrorSetsAssumption == {} \in ErrorSets

\* A character takes longer than a cycle, so its push pulse is alone.
ASSUME NumbersAssumption == /\ Depth \in Nat \ {0}
                            /\ Timeout \in Nat
                            /\ PushSpacing \in Nat \ {0}

VARIABLES rf_push_pulse, rf_data_in, \* from the receiver
          since,                     \* cycles since the last push
          enable,                    \* tick of the baud generator
          access, gap,               \* bus: the access, cycles since the last
          rf_pop, rx_reset, lsr_mask_d,
          ram, fifo, rfifo_flags, top, bottom, rf_count, rf_overrun,
          error_count,               \* the receiver FIFO
          lsr0r, lsr0_d,             \* data ready
          lsr1r, lsr1_d,             \* overrun error
          lsr_err, err_d,            \* the bits set among 2 (parity error),
                                     \* 3 (framing error) and 4 (break)
          lsr7r, lsr7_d,             \* error in the FIFO
          ier,                       \* the bits set among RDA and RLS
          trigger_level, counter_t,
          rls_int_d, rda_int_d, ti_int_d,
          rls_int_pnd, rda_int_pnd, ti_int_pnd,
          int_o, iir

inputs    == <<rf_push_pulse, rf_data_in, since, enable, access, gap>>
rfifo     == <<ram, fifo, rfifo_flags, top, bottom, rf_count, rf_overrun,
               error_count>>
strobes   == <<rf_pop, rx_reset, lsr_mask_d>>
lsr       == <<lsr0r, lsr0_d, lsr1r, lsr1_d, lsr_err, err_d, lsr7r, lsr7_d>>
control   == <<ier, trigger_level, counter_t>>
interrupt == <<rls_int_d, rda_int_d, ti_int_d, rls_int_pnd, rda_int_pnd,
               ti_int_pnd, int_o, iir>>
vars      == <<inputs, rfifo, strobes, lsr, control, interrupt>>

Idle    == [reg |-> "none"]
ReadRB  == [reg |-> "RB"]
ReadLS  == [reg |-> "LS"]
WriteFC == [reg : {"FC"}, clear : BOOLEAN, level : TriggerLevels]
WriteIE == [reg : {"IE"}, bits : SUBSET {"RDA", "RLS"}]

Accesses == {a \in {ReadRB, ReadLS} \union WriteFC \union WriteIE : a.reg \in Registers}

fifo_read == access = ReadRB

\* High in the cycle of a read of the line status only.
lsr_mask == access = ReadLS /\ ~lsr_mask_d

Rf == INSTANCE RFifo WITH
        Flags <- ErrorSets, NoFlags <- {},
        push <- rf_push_pulse, pop <- rf_pop, data_in <- rf_data_in,
        fifo_reset <- rx_reset, reset_status <- lsr_mask,
        count <- rf_count, overrun <- rf_overrun, collided <- FALSE

Reset ==
  /\ Rf!Reset
  /\ rf_pop = FALSE /\ rx_reset = FALSE /\ lsr_mask_d = FALSE
  /\ lsr0r = FALSE /\ lsr0_d = FALSE
  /\ lsr1r = FALSE /\ lsr1_d = FALSE
  /\ lsr_err = {} /\ err_d = {}
  /\ lsr7r = FALSE /\ lsr7_d = FALSE
  /\ ier = {}
  /\ counter_t = Timeout
  /\ rls_int_d = FALSE /\ rda_int_d = FALSE /\ ti_int_d = FALSE
  /\ rls_int_pnd = FALSE /\ rda_int_pnd = FALSE /\ ti_int_pnd = FALSE
  /\ int_o = FALSE /\ iir = "none"

\* The strobes follow the access by one cycle; a clear lasts one cycle.
RegisterAccess ==
  /\ rf_pop' = (~rf_pop /\ fifo_read)
  /\ lsr_mask_d' = (access = ReadLS)
  /\ IF access.reg = "FC"
       THEN rx_reset' = access.clear /\ trigger_level' = access.level
       ELSE rx_reset' = FALSE /\ UNCHANGED trigger_level
  /\ ier' = IF access.reg = "IE" THEN access.bits ELSE ier

DataReadyForgetsPush ==
  LET lsr0 == rf_count = 0 /\ rf_push_pulse
      last == rf_count = 1 /\ rf_pop
  IN  /\ lsr0_d' = lsr0
      /\ lsr0r' = (~(last \/ rx_reset) /\ (lsr0r \/ (lsr0 /\ ~lsr0_d)))

\* Data ready: set by a push into the empty FIFO, cleared by the pop of the
\* last character or by a clear.
DataReady ==
  LET lsr0 == rf_count = 0 /\ rf_push_pulse
      last == rf_count = 1 /\ rf_pop /\ ~rf_push_pulse
  IN  /\ lsr0_d' = lsr0
      /\ lsr0r' = (~(last \/ rx_reset) /\ (lsr0r \/ (lsr0 /\ ~lsr0_d)))

lsr7 == Rf!error_bit \/ rf_overrun

ErrorsClearedByData ==
  /\ lsr1_d' = rf_overrun
  /\ err_d' = rfifo_flags
  /\ lsr7_d' = lsr7
  /\ lsr1r' = (~lsr_mask /\ ~fifo_read /\ (lsr1r \/ (rf_overrun /\ ~lsr1_d)))
  /\ lsr_err' = IF lsr_mask THEN {} ELSE lsr_err \union (rfifo_flags \ err_d)
  /\ lsr7r' = (~lsr_mask /\ (lsr7r \/ (lsr7 /\ ~lsr7_d)))

\* Bits 1 to 4 and 7 are set when their condition rises and cleared by a read
\* of the line status, which wins.
Errors ==
  /\ lsr1_d' = rf_overrun
  /\ err_d' = rfifo_flags
  /\ lsr7_d' = lsr7
  /\ lsr1r' = (~lsr_mask /\ (lsr1r \/ (rf_overrun /\ ~lsr1_d)))
  /\ lsr_err' = IF lsr_mask THEN {} ELSE lsr_err \union (rfifo_flags \ err_d)
  /\ lsr7r' = (~lsr_mask /\ (lsr7r \/ (lsr7 /\ ~lsr7_d)))

TimeoutCounterUnderflows ==
  counter_t' = CASE rf_push_pulse \/ rf_pop \/ rf_count = 0 -> Timeout
                 [] ~(rf_push_pulse \/ rf_pop \/ rf_count = 0)
                      /\ enable -> counter_t - 1
                 [] OTHER       -> counter_t

\* As the comment at uart_receiver.v:471 has it ("or above trigger level").
TimeoutCounterBelowTrigger ==
  counter_t' = CASE rf_push_pulse \/ rf_pop \/ rf_count = 0
                      \/ rf_count >= trigger_level       -> Timeout
                 [] ~(rf_push_pulse \/ rf_pop \/ rf_count = 0)
                      /\ rf_count < trigger_level
                      /\ enable /\ counter_t # 0         -> counter_t - 1
                 [] OTHER                                -> counter_t

\* Restarted by every push and pop and while the FIFO is empty.
TimeoutCounter ==
  counter_t' = CASE rf_push_pulse \/ rf_pop \/ rf_count = 0 -> Timeout
                 [] ~(rf_push_pulse \/ rf_pop \/ rf_count = 0)
                      /\ enable /\ counter_t # 0            -> counter_t - 1
                 [] OTHER                                   -> counter_t

rls_int == "RLS" \in ier /\ (lsr1r \/ lsr_err # {})
rda_int == "RDA" \in ier /\ rf_count >= trigger_level
ti_int  == "RDA" \in ier /\ counter_t = 0 /\ rf_count > 0

PendingClearedByData ==
  /\ rls_int_d' = rls_int /\ rda_int_d' = rda_int /\ ti_int_d' = ti_int
  /\ rls_int_pnd' = (/\ ~lsr_mask /\ ~fifo_read
                     /\ (rls_int /\ ~rls_int_d) \/ (rls_int_pnd /\ "RLS" \in ier))
  /\ rda_int_pnd' = (/\ ~(rf_count = trigger_level /\ fifo_read)
                     /\ (rda_int /\ ~rda_int_d) \/ (rda_int_pnd /\ "RDA" \in ier))
  /\ ti_int_pnd'  = (/\ ~fifo_read
                     /\ (ti_int /\ ~ti_int_d) \/ (ti_int_pnd /\ "RDA" \in ier))

\* Each pending flag is set when its condition rises; its reset condition
\* wins; masking removes it.
Pending ==
  /\ rls_int_d' = rls_int /\ rda_int_d' = rda_int /\ ti_int_d' = ti_int
  /\ rls_int_pnd' = (/\ ~lsr_mask
                     /\ (rls_int /\ ~rls_int_d) \/ (rls_int_pnd /\ "RLS" \in ier))
  /\ rda_int_pnd' = (/\ ~(rf_count = trigger_level /\ fifo_read)
                     /\ (rda_int /\ ~rda_int_d) \/ (rda_int_pnd /\ "RDA" \in ier))
  /\ ti_int_pnd'  = (/\ ~fifo_read
                     /\ (ti_int /\ ~ti_int_d) \/ (ti_int_pnd /\ "RDA" \in ier))

\* The interrupt line and the identification register look at different
\* conditions: the line at rda_int_pnd, the register at rda_int.
Interrupt ==
  /\ int_o' = IF rls_int_pnd THEN ~lsr_mask
                             ELSE rda_int_pnd \/ (ti_int_pnd /\ ~fifo_read)
  /\ iir' = CASE rls_int_pnd                              -> "RLS"
              [] ~rls_int_pnd /\ rda_int                  -> "RDA"
              [] ~rls_int_pnd /\ ~rda_int /\ ti_int_pnd   -> "TI"
              [] OTHER                                    -> "none"

\* One edge of clk.
Clock == /\ Rf!Clock
         /\ RegisterAccess
         /\ DataReady
         /\ Errors
         /\ TimeoutCounter
         /\ Pending
         /\ Interrupt

NoWord == [char |-> CHOOSE c \in Char : TRUE, flags |-> {}]

\* Cycles since e held, up to a bound.
CyclesSince(e, n, bound) == IF e THEN 0 ELSE IF n < bound THEN n + 1 ELSE bound

\* Software reads the receiver buffer only while the line status shows data
\* ready (uart16550_getc).
Drive ==
  /\ since' = CyclesSince(rf_push_pulse, since, PushSpacing)
  /\ rf_push_pulse' \in IF since' = PushSpacing THEN BOOLEAN ELSE {FALSE}
  /\ rf_data_in' \in IF rf_push_pulse' THEN Rf!Word ELSE {NoWord}
  /\ enable' \in BOOLEAN
  /\ gap' = CyclesSince(access # Idle, gap, 2)
  /\ access' \in {Idle} \union
                 {a \in Accesses : gap' = 2 /\ (a = ReadRB => lsr0r')}

Init == /\ Reset
        /\ trigger_level \in TriggerLevels
        /\ rf_push_pulse = FALSE /\ rf_data_in = NoWord /\ since = PushSpacing
        /\ enable = FALSE
        /\ access = Idle /\ gap = 2

Next == Clock /\ Drive

Spec == Init /\ [][Next]_vars

\* Ticks of the baud generator keep coming.
FairSpec == Spec /\ WF_vars(Next /\ enable')
-----------------------------------------------------------------------------
(* Properties *)

TypeOK ==
  /\ Rf!TypeOK
  /\ access \in Accesses \union {Idle} /\ gap \in 0 .. 2
  /\ since \in 0 .. PushSpacing
  /\ enable \in BOOLEAN
  /\ rf_pop \in BOOLEAN /\ rx_reset \in BOOLEAN /\ lsr_mask_d \in BOOLEAN
  /\ {lsr0r, lsr0_d, lsr1r, lsr1_d, lsr7r, lsr7_d} \subseteq BOOLEAN
  /\ {lsr_err, err_d} \subseteq SUBSET UNION ErrorSets
  /\ ier \subseteq {"RDA", "RLS"}
  /\ trigger_level \in TriggerLevels
  /\ counter_t \in 0 .. Timeout
  /\ {rls_int_d, rda_int_d, ti_int_d} \subseteq BOOLEAN
  /\ {rls_int_pnd, rda_int_pnd, ti_int_pnd, int_o} \subseteq BOOLEAN
  /\ iir \in {"none", "RLS", "RDA", "TI"}

\* Bit 0 of the line status, a flip-flop with set and reset conditions of its
\* own, always agrees with the counter of the FIFO, however pushes, pops,
\* overruns and clears fall.
DataReadyTruthful == lsr0r <=> rf_count > 0

\* rts_pad_o is ~rf_overrun: an overrun holds off the sender until software
\* reads the line status.  While it does, the line status shows the overrun
\* (from the next cycle on), so that software knows it has to.
OverrunIsVisible == rf_overrun /\ lsr1_d => lsr1r

\* An error shown in the line status and enabled always has its interrupt
\* pending, one cycle later, however a read of the line status, a new error
\* and a change of the mask meet.
LineStatusInterruptNotLost == rls_int /\ rls_int_d => rls_int_pnd

QuietLine == ~rf_push_pulse /\ access = Idle

\* Characters left in the FIFO are never forgotten: once neither the line nor
\* software does anything more, the interrupt line goes up and stays up, if
\* the data available interrupt is enabled.  (The level may have been missed;
\* the timeout counter then makes up for it.)
NothingForgotten ==
  <>[]QuietLine => <>[](rf_count > 0 /\ "RDA" \in ier => int_o)

\* "Interrupt pending when 0" (uart_defines.vh:180, bit 0 of the
\* identification register): while the interrupt line is up and no access is
\* going on, the register shows an interrupt pending.
InterruptHasCause == int_o /\ gap = 2 => iir # "none"
=============================================================================

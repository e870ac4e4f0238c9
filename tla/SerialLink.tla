----------------------------- MODULE SerialLink -----------------------------
(***************************************************************************)
(* Transmitter.tla and Receiver.tla joined by a line, as uart_regs.v joins  *)
(* them: through the pads and the synchroniser of another UART with the     *)
(* same line mode and divisor but a baud clock of its own (the two UARTs of *)
(* iob_uut.v, CTS tied high), or directly inside one UART in loopback mode. *)
(* A step is one edge of the common clk.                                    *)
(***************************************************************************)
EXTENDS LineControl, Sequences

CONSTANTS Data,       \* the characters sent
          LineModes,  \* the line modes, without break
          Divisors    \* values of the divisor latch

\* A divisor of zero stops both clocks.
ASSUME LinkAssumption == /\ Data # {} /\ Data \subseteq Byte
                         /\ LineModes \subseteq {m \in LCR : ~m.bc}
                         /\ Divisors \subseteq Nat \ {0}

VARIABLES lcr, loopback, dl,
          tf_push, wb_dat_i, tx_reset, ram, top, bottom, tf_count,
          tstate, counter, bit_counter, shift_out, bit_out, parity_xor,
          stx_o_tmp, tf_pop, cur,
          dlc, enable,            \* baud generator of the sender
          dlc2, enable2,          \* baud generator of the receiver
          flop_0, sync_dat_o,     \* the synchroniser
          rstate, rcounter16, rbit_counter, rshift, rparity, rparity_xor,
          rparity_error, rframing_error, rf_data_in, rf_push, rf_push_q,
          counter_b,
          breakTicks,  \* environment: ticks since break control was set
          flight       \* history: words sent and not yet received

tx    == <<tf_push, wb_dat_i, tx_reset, ram, top, bottom, tf_count, tstate,
           counter, bit_counter, shift_out, bit_out, parity_xor, stx_o_tmp,
           tf_pop, cur>>
rx    == <<rstate, rcounter16, rbit_counter, rshift, rparity, rparity_xor,
           rparity_error, rframing_error, rf_data_in, rf_push, rf_push_q,
           counter_b>>
clocks == <<dlc, enable, dlc2, enable2>>
vars == <<lcr, loopback, dl, tx, clocks, flop_0, sync_dat_o, rx, breakTicks, flight>>

\* The FIFO of the sender holds one character: software writes the next one
\* when it is empty.
Tx == INSTANCE Transmitter WITH Depth <- 1, LineModes <- LCR, ClearAnyTime <- FALSE

\* handle loopback
serial_out == Tx!stx_pad_o
stx_pad_o  == IF loopback THEN 1 ELSE serial_out
serial_in  == IF loopback THEN serial_out ELSE sync_dat_o
rx_enable  == IF loopback THEN enable ELSE enable2

Rx == INSTANCE Receiver WITH srx_pad_i <- serial_in, enable <- rx_enable

Synchronise == flop_0' = stx_pad_o /\ sync_dat_o' = flop_0

DivideByOneMore(count, pulse) ==
  /\ count' = IF count = 0 THEN dl ELSE count - 1
  /\ pulse' = (dl > 0 /\ count = 0)

\* The frequency divider of uart_regs.v and the enable pulse it generates.
Divide(count, pulse) ==
  /\ count' = IF count = 0 THEN dl - 1 ELSE count - 1
  /\ pulse' = (dl > 0 /\ count = 0)

Word(c) == [char  |-> [i \in 0 .. 7 |-> IF i < lcr.bits THEN c[i] ELSE 0],
            flags |-> Rx!NoFlags]
Break   == [char |-> Rx!ZeroByte, flags |-> Rx!BreakFlag]

\* Software writes characters while the line is idle or in a stop bit.  The
\* bound MaxInFlight never applies (DeliveredIsSent); it keeps the model finite
\* when a mutant loses words.
MaxInFlight == 2
Write == /\ tf_push' \in IF /\ Len(flight) < MaxInFlight
                            /\ tf_count' = 0 /\ ~tf_push /\ ~lcr.bc /\ ~lcr'.bc
                            /\ tstate' \in {"s_idle", "s_send_stop"}
                         THEN BOOLEAN ELSE {FALSE}
         /\ wb_dat_i' \in IF tf_push' THEN Data ELSE {wb_dat_i}

\* Break control is set when the transmitter is empty, and held for at least
\* two bits more than a character time.
BreakLength == FrameTicks(lcr) + 32
IdleLine    == tstate = "s_idle" /\ tf_count = 0 /\ ~tf_push

BreakControl ==
  /\ lcr' \in CASE ~lcr.bc /\ IdleLine /\ flight = << >> ->
                     {lcr, [lcr EXCEPT !.bc = TRUE]}
                [] lcr.bc /\ breakTicks = BreakLength ->
                     {lcr, [lcr EXCEPT !.bc = FALSE]}
                [] OTHER -> {lcr}
  /\ breakTicks' = CASE ~lcr.bc -> 0
                     [] lcr.bc /\ enable /\ breakTicks < BreakLength -> breakTicks + 1
                     [] OTHER -> breakTicks

Flight ==
  flight' = (IF Rx!rf_push_pulse /\ flight # << >> THEN Tail(flight) ELSE flight)
            \o (IF Tx!Loading THEN <<Word(Tx!tf_data_out)>> ELSE << >>)
            \o (IF lcr'.bc /\ ~lcr.bc THEN <<Break>> ELSE << >>)

\* What the data registers hold before the first character is of no matter.
PowerUp == CHOOSE c \in Data : TRUE

Init ==
  /\ lcr \in LineModes /\ loopback \in BOOLEAN /\ dl \in Divisors
  /\ Tx!Reset /\ tf_push = FALSE /\ tx_reset = FALSE
  /\ wb_dat_i = PowerUp /\ cur = PowerUp /\ ram = [a \in {0} |-> PowerUp]
  /\ dlc = 0
  /\ dlc2 \in IF loopback THEN {0} ELSE 0 .. (dl - 1)
  /\ enable = FALSE /\ enable2 = FALSE
  /\ flop_0 = 1 /\ sync_dat_o = 1
  /\ Rx!Reset
  /\ breakTicks = 0 /\ flight = << >>

Next == /\ Tx!Clock /\ Tx!Observe
        /\ Rx!Clock
        /\ Synchronise
        /\ Divide(dlc, enable) /\ Divide(dlc2, enable2)
        /\ BreakControl
        /\ Write
        /\ Flight
        /\ UNCHANGED <<loopback, dl, tx_reset>>

Spec == Init /\ [][Next]_vars /\ WF_vars(Next)
-----------------------------------------------------------------------------
(* Properties *)

TypeOK == /\ Tx!TypeOK
          /\ Rx!TypeOK
          /\ flop_0 \in Bit /\ sync_dat_o \in Bit
          /\ dlc \in 0 .. (dl - 1) /\ dlc2 \in 0 .. (dl - 1)

\* Every word the receiver pushes into its FIFO is the one sent, and the only
\* one on the line: the same character cut to the word length, with no parity,
\* framing or break flag; and for a break, whatever its length, one zero word
\* with the break flag.  So back-to-back frames keep the receiver in step.
DeliveredIsSent == Rx!rf_push_pulse => flight = <<rf_data_in>>

\* Every word sent is received.
EverythingArrives == [](flight # << >> => <>(flight = << >>))
=============================================================================

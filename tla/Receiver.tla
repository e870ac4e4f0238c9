------------------------------ MODULE Receiver ------------------------------
(***************************************************************************)
(* uart_receiver.v without its FIFO (RFifo.tla) and its timeout counter     *)
(* (RxStatus.tla): the state machine that samples the line, the strobe that *)
(* pushes a received word, and the break counter.  A step is one rising     *)
(* edge of clk; the machine moves only at edges with enable = 1.            *)
(***************************************************************************)
EXTENDS LineControl

VARIABLES lcr, srx_pad_i, enable,   \* input wires
          rstate,         \* state of the machine
          rcounter16,     \* ticks left of the current bit
          rbit_counter,   \* data bits left after the current one
          rshift,         \* the data bits received
          rparity,        \* the parity bit received
          rparity_xor, rparity_error, rframing_error,
          rf_data_in,     \* the word to push
          rf_push, rf_push_q,
          counter_b       \* ticks the line must stay low to make a break

inputs   == <<lcr, srx_pad_i, enable>>
machine  == <<rstate, rcounter16, rbit_counter, rshift, rparity, rparity_xor,
              rparity_error, rframing_error, rf_data_in, rf_push>>
rxvars   == <<machine, rf_push_q, counter_b>>

States == {"sr_idle", "sr_rec_start", "sr_rec_bit", "sr_rec_parity",
           "sr_rec_stop", "sr_check_parity", "sr_rec_prepare", "sr_end_bit",
           "sr_ca_lc_parity", "sr_wait1", "sr_push"}

\* The three flags received with a character: break, parity, framing.
Flags == [bi : BOOLEAN, pe : BOOLEAN, fe : BOOLEAN]
NoFlags   == [bi |-> FALSE, pe |-> FALSE, fe |-> FALSE]
BreakFlag == [bi |-> TRUE,  pe |-> FALSE, fe |-> FALSE]

ZeroByte == [i \in 0 .. 7 |-> 0]

Reset == /\ rstate = "sr_idle"
         /\ rcounter16 = 0 /\ rbit_counter = 0
         /\ rparity_xor = 0 /\ rparity = 0
         /\ rframing_error = FALSE /\ rparity_error = FALSE
         /\ rshift = ZeroByte
         /\ rf_push = FALSE /\ rf_push_q = FALSE
         /\ rf_data_in = [char |-> ZeroByte, flags |-> NoFlags]
         /\ counter_b = 159

break_error == counter_b = 0

\* rf_push stays high until the machine reaches its next state, any number of
\* cycles later; the FIFO is pushed in the first of them only.
rf_push_pulse == rf_push /\ ~rf_push_q

Middle  == rcounter16 = 7
LastOne == rcounter16 = 0
Countdown == rcounter16' = (rcounter16 + 15) % 16

Idle ==
  /\ rstate = "sr_idle"
  /\ rf_push' = FALSE
  /\ rf_data_in' = [char |-> ZeroByte, flags |-> NoFlags]
  /\ rcounter16' = 14
  /\ rstate' = IF srx_pad_i = 0 /\ ~break_error THEN "sr_rec_start" ELSE rstate
  /\ UNCHANGED <<rbit_counter, rshift, rparity, rparity_xor, rparity_error,
                 rframing_error>>

RecStart ==
  /\ rstate = "sr_rec_start"
  /\ rf_push' = FALSE
  /\ Countdown
  /\ rstate' = CASE Middle /\ srx_pad_i = 1 -> "sr_idle"
                 [] Middle /\ srx_pad_i = 0 -> "sr_rec_prepare"
                 [] OTHER -> rstate
  /\ UNCHANGED <<rbit_counter, rshift, rparity, rparity_xor, rparity_error,
                 rframing_error, rf_data_in>>

\* Of the two assignments to rcounter16 the last one, the decrement, wins.
RecPrepare ==
  /\ rstate = "sr_rec_prepare"
  /\ rbit_counter' = lcr.bits - 1
  /\ Countdown
  /\ IF LastOne THEN rstate' = "sr_rec_bit" /\ rshift' = ZeroByte
                ELSE UNCHANGED <<rstate, rshift>>
  /\ UNCHANGED <<rparity, rparity_xor, rparity_error, rframing_error,
                 rf_data_in, rf_push>>

\* rshift[n-1:0] <= {srx_pad_i, rshift[n-1:1]}
ShiftIn == rshift' = [i \in 0 .. 7 |-> CASE i < lcr.bits - 1 -> rshift[i + 1]
                                         [] i = lcr.bits - 1 -> srx_pad_i
                                         [] OTHER            -> rshift[i]]

RecBit ==
  /\ rstate = "sr_rec_bit"
  /\ Countdown
  /\ rstate' = IF LastOne THEN "sr_end_bit" ELSE rstate
  /\ IF Middle THEN ShiftIn ELSE UNCHANGED rshift
  /\ UNCHANGED <<rbit_counter, rparity, rparity_xor, rparity_error,
                 rframing_error, rf_data_in, rf_push>>

EndBit ==
  /\ rstate = "sr_end_bit"
  /\ rcounter16' = 14
  /\ \/ /\ rbit_counter > 0
        /\ rstate' = "sr_rec_bit"
        /\ rbit_counter' = rbit_counter - 1
        /\ UNCHANGED rparity_error
     \/ /\ rbit_counter = 0 /\ lcr.pe
        /\ rstate' = "sr_rec_parity"
        /\ UNCHANGED <<rbit_counter, rparity_error>>
     \/ /\ rbit_counter = 0 /\ ~lcr.pe
        /\ rstate' = "sr_rec_stop"
        /\ rparity_error' = FALSE
        /\ UNCHANGED rbit_counter
  /\ UNCHANGED <<rshift, rparity, rparity_xor, rframing_error, rf_data_in, rf_push>>

RecParity ==
  /\ rstate = "sr_rec_parity"
  /\ Countdown
  /\ IF Middle THEN rparity' = srx_pad_i /\ rstate' = "sr_ca_lc_parity"
               ELSE UNCHANGED <<rparity, rstate>>
  /\ UNCHANGED <<rbit_counter, rshift, rparity_xor, rparity_error,
                 rframing_error, rf_data_in, rf_push>>

\* ^{rshift, rparity}
CalcParity ==
  /\ rstate = "sr_ca_lc_parity"
  /\ Countdown
  /\ rparity_xor' = (Xor(rshift, 8) + rparity) % 2
  /\ rstate' = "sr_check_parity"
  /\ UNCHANGED <<rbit_counter, rshift, rparity, rparity_error, rframing_error,
                 rf_data_in, rf_push>>

CheckParity ==
  /\ rstate = "sr_check_parity"
  /\ Countdown
  /\ rparity_error' = CASE ~lcr.ep /\ ~lcr.sp -> rparity_xor = 0
                        [] ~lcr.ep /\  lcr.sp -> rparity = 0
                        []  lcr.ep /\ ~lcr.sp -> rparity_xor = 1
                        []  lcr.ep /\  lcr.sp -> rparity = 1
  /\ rstate' = "sr_wait1"
  /\ UNCHANGED <<rbit_counter, rshift, rparity, rparity_xor, rframing_error,
                 rf_data_in, rf_push>>

Wait1 ==
  /\ rstate = "sr_wait1"
  /\ IF LastOne THEN rstate' = "sr_rec_stop" /\ rcounter16' = 14
                ELSE Countdown /\ UNCHANGED rstate
  /\ UNCHANGED <<rbit_counter, rshift, rparity, rparity_xor, rparity_error,
                 rframing_error, rf_data_in, rf_push>>

RecStop ==
  /\ rstate = "sr_rec_stop"
  /\ Countdown
  /\ IF Middle THEN rframing_error' = (srx_pad_i = 0) /\ rstate' = "sr_push"
               ELSE UNCHANGED <<rframing_error, rstate>>
  /\ UNCHANGED <<rbit_counter, rshift, rparity, rparity_xor, rparity_error,
                 rf_data_in, rf_push>>

ReceivedWord == [char  |-> rshift,
                 flags |-> [bi |-> FALSE, pe |-> rparity_error, fe |-> rframing_error]]

\* A mutant of Push: a break is not stored.
PushLosesBreak ==
  /\ rstate = "sr_push"
  /\ \/ /\ break_error
        /\ rstate' = "sr_idle"
        /\ UNCHANGED <<rf_data_in, rf_push, rcounter16>>
     \/ /\ ~break_error /\ (srx_pad_i = 1 \/ ~rframing_error)
        /\ rf_data_in' = ReceivedWord
        /\ rf_push' = TRUE
        /\ IF srx_pad_i = 1 THEN rstate' = "sr_idle" /\ UNCHANGED rcounter16
                            ELSE rstate' = "sr_rec_start" /\ rcounter16' = 14
     \/ /\ ~break_error /\ srx_pad_i = 0 /\ rframing_error
        /\ UNCHANGED <<rf_data_in, rf_push, rcounter16, rstate>>
  /\ UNCHANGED <<rbit_counter, rshift, rparity, rparity_xor, rparity_error,
                 rframing_error>>

\* A line high again (or a break) ends the word; a line already low again
\* after a good stop bit is the next start bit; a line low since a bad stop
\* bit is waited out.
Push ==
  /\ rstate = "sr_push"
  /\ \/ /\ break_error
        /\ rf_data_in' = [char |-> ZeroByte, flags |-> BreakFlag]
        /\ rf_push' = TRUE
        /\ rstate' = "sr_idle"
        /\ UNCHANGED rcounter16
     \/ /\ ~break_error /\ srx_pad_i = 1
        /\ rf_data_in' = ReceivedWord
        /\ rf_push' = TRUE
        /\ rstate' = "sr_idle"
        /\ UNCHANGED rcounter16
     \/ /\ ~break_error /\ srx_pad_i = 0 /\ ~rframing_error
        /\ rf_data_in' = ReceivedWord
        /\ rf_push' = TRUE
        /\ rcounter16' = 14
        /\ rstate' = "sr_rec_start"
     \/ /\ ~break_error /\ srx_pad_i = 0 /\ rframing_error
        /\ UNCHANGED <<rf_data_in, rf_push, rcounter16, rstate>>
  /\ UNCHANGED <<rbit_counter, rshift, rparity, rparity_xor, rparity_error,
                 rframing_error>>

BreakCounter ==
  counter_b' = CASE srx_pad_i = 1                              -> BrcValue(lcr)
                 [] srx_pad_i = 0 /\ enable /\ counter_b # 0   -> counter_b - 1
                 [] OTHER                                      -> counter_b

Machine ==
  \/ ~enable /\ UNCHANGED machine
  \/ /\ enable
     /\ \/ Idle \/ RecStart \/ RecPrepare \/ RecBit \/ EndBit \/ RecParity
        \/ CalcParity \/ CheckParity \/ Wait1 \/ RecStop \/ Push

\* One edge of clk.
Clock == Machine /\ BreakCounter /\ rf_push_q' = rf_push

TypeOK == /\ rstate \in States
          /\ rcounter16 \in 0 .. 15
          /\ rbit_counter \in 0 .. 7
          /\ rshift \in Byte
          /\ rparity \in Bit /\ rparity_xor \in Bit
          /\ rparity_error \in BOOLEAN /\ rframing_error \in BOOLEAN
          /\ rf_data_in \in [char : Byte, flags : Flags]
          /\ rf_push \in BOOLEAN /\ rf_push_q \in BOOLEAN
          /\ counter_b \in 0 .. 191
=============================================================================

-------------------------- MODULE SerialLinkProofs ---------------------------
(***************************************************************************)
(* A word pushed by the receiver is the word that was sent (SerialLink.tla).*)
(*                                                                          *)
(* The two ends share no clock and no handshake, so the invariant says      *)
(* where each of them is.  The sender is at a tick of its frame, Sent,      *)
(* which the proofs of the transmitter define.  The receiver is at a tick   *)
(* of the word, given by its state and counters, and that tick is a         *)
(* function of Sent: what the synchroniser hides and which clock ticks      *)
(* first, both constants of the phase of the two clocks (Seen).  The state  *)
(* of the receiver before each tick is Receiving(n); a break is counted by  *)
(* counter_b instead.  By that count the receiver is back at s_idle six or  *)
(* seven ticks before the end of the shortest stop bit, and it is at most   *)
(* three ticks behind the sender, so it is idle again before the next start *)
(* bit comes: that is FrameLinkStep.                                        *)
(***************************************************************************)
EXTENDS SerialLink, Integers, SequenceTheorems, FiniteSetTheorems, TLAPS

(***************************************************************************)
(* The transmitter of the link is that of TransmitterProofs.                *)
(***************************************************************************)

TxP == INSTANCE TransmitterProofs
         WITH Depth <- 1, LineModes <- LCR, ClearAnyTime <- FALSE

\* What TransmitterProofs assumes of its constants.
LEMMA TransmitterAssumptions ==
  /\ 1 \in Nat \ {0}
  /\ Data \subseteq TxP!Byte /\ LCR \subseteq TxP!LCR
BY LinkAssumption DEF TxP!Byte, TxP!Bit, TxP!LCR, Byte, Bit, LCR

\* The engines decode the line mode alike.
LEMMA SameDecoding ==
  /\ \A d, n : Tx!Xor(d, n) = Xor(d, n) /\ TxP!Xor(d, n) = Xor(d, n) /\ Rx!Xor(d, n) = Xor(d, n)
  /\ \A m, x : Tx!ParityBit(m, x) = ParityBit(m, x) /\ TxP!ParityBit(m, x) = ParityBit(m, x)
  /\ \A m : /\ TxP!WordTicks(m) = WordTicks(m) /\ TxP!StopTicks(m) = StopTicks(m)
            /\ TxP!FrameTicks(m) = FrameTicks(m)
            /\ TxP!ParityBits(m) = ParityBits(m)
            /\ Rx!BrcValue(m) = BrcValue(m)
<1>1. \A d, n : Tx!Xor(d, n) = Xor(d, n)
  BY DEF Tx!Xor, Xor, Tx!Cardinality, Cardinality
<1>2. \A d, n : TxP!Xor(d, n) = Xor(d, n)
  BY DEF TxP!Xor, Xor, TxP!Cardinality, Cardinality
<1>3. \A d, n : Rx!Xor(d, n) = Xor(d, n)
  BY DEF Rx!Xor, Xor, Rx!Cardinality, Cardinality
<1>4. \A m, x : Tx!ParityBit(m, x) = ParityBit(m, x) /\ TxP!ParityBit(m, x) = ParityBit(m, x)
  BY DEF Tx!ParityBit, TxP!ParityBit, ParityBit
<1>5. \A m : /\ TxP!WordTicks(m) = WordTicks(m) /\ TxP!StopTicks(m) = StopTicks(m)
             /\ TxP!FrameTicks(m) = FrameTicks(m)
             /\ TxP!ParityBits(m) = ParityBits(m)
  BY DEF TxP!WordTicks, WordTicks, TxP!StopTicks, StopTicks, TxP!FrameTicks, FrameTicks,
         TxP!ParityBits, ParityBits
<1>6. \A m : Rx!BrcValue(m) = BrcValue(m)
  BY DEF Rx!BrcValue, BrcValue, Rx!TocValue, TocValue, Rx!Index, Index
<1> QED BY <1>1, <1>2, <1>3, <1>4, <1>5, <1>6

\* So do their steps.
LEMMA SameTransmitter ==
  /\ Tx!Clock <=> TxP!Clock
  /\ Tx!Observe <=> TxP!Observe
  /\ Tx!Loading <=> TxP!Loading
  /\ Tx!tf_data_out = TxP!tf_data_out
<1>1. Tx!tf_data_out = TxP!tf_data_out
  BY DEF Tx!tf_data_out, TxP!tf_data_out, Tx!fifo_tx!data_out, TxP!fifo_tx!data_out
<1>2. Tx!Loading <=> TxP!Loading
  BY DEF Tx!Loading, TxP!Loading
<1>3. Tx!fifo_tx!Clock <=> TxP!fifo_tx!Clock
  <2>1. \A a : Tx!fifo_tx!Inc(a) = TxP!fifo_tx!Inc(a)
    BY DEF Tx!fifo_tx!Inc, TxP!fifo_tx!Inc
  <2> QED BY <2>1
     DEF Tx!fifo_tx!Clock, TxP!fifo_tx!Clock, Tx!fifo_tx!WriteRam, TxP!fifo_tx!WriteRam,
         Tx!fifo_tx!Overrun, TxP!fifo_tx!Overrun, Tx!fifo_tx!PushChar, TxP!fifo_tx!PushChar,
         Tx!fifo_tx!PushFull, TxP!fifo_tx!PushFull, Tx!fifo_tx!PopChar, TxP!fifo_tx!PopChar,
         Tx!fifo_tx!PushPop, TxP!fifo_tx!PushPop, Tx!fifo_tx!Hold, TxP!fifo_tx!Hold,
         Tx!fifo_tx!Clear, TxP!fifo_tx!Clear
<1>4. Tx!Machine <=> TxP!Machine
  BY <1>1, SameDecoding
     DEF Tx!Machine, TxP!Machine, Tx!Disabled, TxP!Disabled, Tx!Idle, TxP!Idle,
         Tx!PopByte, TxP!PopByte, Tx!SendStart, TxP!SendStart, Tx!SendByte, TxP!SendByte,
         Tx!SendParity, TxP!SendParity, Tx!SendStop, TxP!SendStop, Tx!Countdown, TxP!Countdown,
         Tx!LastTick, TxP!LastTick, Tx!Shift, TxP!Shift
<1>5. Tx!Clock <=> TxP!Clock
  BY <1>3, <1>4 DEF Tx!Clock, TxP!Clock
<1>6. Tx!Observe <=> TxP!Observe
  BY <1>1, <1>2 DEF Tx!Observe, TxP!Observe
<1> QED BY <1>1, <1>2, <1>5, <1>6

\* The types of the transmitter are those of its proofs.
LEMMA SameTransmitterTypes ==
  /\ Tx!TypeOK <=> TxP!TypeOK
  /\ (Tx!TypeOK <=> TxP!TypeOK)'
BY DEF Tx!TypeOK, TxP!TypeOK, Tx!fifo_tx!TypeOK, TxP!fifo_tx!TypeOK, Tx!fifo_tx!AnyInputs,
       TxP!fifo_tx!AnyInputs, Tx!fifo_tx!Address, TxP!fifo_tx!Address, Tx!States, TxP!States,
       Tx!Bit, TxP!Bit

(***************************************************************************)
(* What the transmitter does at an edge.                                    *)
(***************************************************************************)

\* A frame is on the line, and its ticks.
Sending == tstate \notin {"s_idle", "s_pop_byte"}
Sent    == TxP!FrameTick
LineAt(k) == IF k <= 0 THEN 1 ELSE Level(cur, lcr, k - 1)

\* The transmitter is as TransmitterProofs describes it, and never cleared;
\* break control is set only while it is empty.
TxInv == /\ TxP!SerialInv /\ TxP!MachineTypes /\ TxP!TypeOK
         /\ tx_reset = FALSE
         /\ lcr.bc => IdleLine

\* An empty transmitter stays empty until the next write.
LEMMA EmptyStaysEmpty ==
  ASSUME TxP!Clock, IdleLine, tf_count \in 0 .. 1
  PROVE  tstate' = "s_idle" /\ tf_count' = 0
<1>1. tf_count' = 0
  BY DEF TxP!Clock, IdleLine, TxP!fifo_tx!Clock, TxP!fifo_tx!PushChar, TxP!fifo_tx!PushFull,
         TxP!fifo_tx!PopChar, TxP!fifo_tx!PushPop, TxP!fifo_tx!Hold, TxP!fifo_tx!Clear
<1>2. tstate' = "s_idle"
  BY DEF TxP!Clock, IdleLine, TxP!Machine, TxP!Disabled, TxP!Idle, TxP!PopByte,
         TxP!SendStart, TxP!SendByte, TxP!SendParity, TxP!SendStop
<1> QED BY <1>1, <1>2

\* What happens to the line mode: nothing, or break control is set or reset
\* while the line is idle.
LEMMA ModeStep ==
  ASSUME BreakControl, lcr \in LCR, lcr.bc => IdleLine
  PROVE  /\ lcr' \in LCR
         /\ lcr' # lcr => /\ IdleLine
                          /\ \/ ~lcr.bc /\ lcr' = [lcr EXCEPT !.bc = TRUE] /\ flight = << >>
                             \/ /\ lcr.bc /\ lcr' = [lcr EXCEPT !.bc = FALSE]
                                /\ breakTicks = BreakLength
         /\ UNCHANGED <<lcr.bits, lcr.pe, lcr.sb, lcr.ep, lcr.sp>>
<1>1. lcr.bc \in BOOLEAN
  BY DEF LCR
<1>2. CASE lcr' = lcr
  BY <1>2
<1>3. CASE lcr' # lcr /\ ~lcr.bc
  <2>1. lcr' = [lcr EXCEPT !.bc = TRUE] /\ IdleLine /\ flight = << >>
    BY <1>3 DEF BreakControl
  <2> QED BY <1>3, <2>1 DEF LCR
<1>4. CASE lcr' # lcr /\ lcr.bc
  <2>1. lcr' = [lcr EXCEPT !.bc = FALSE] /\ breakTicks = BreakLength
    BY <1>4 DEF BreakControl
  <2> QED BY <1>4, <2>1 DEF LCR
<1> QED BY <1>2, <1>3, <1>4

\* Software of the link drives the transmitter as that of TransmitterProofs.
LEMMA DriveStep ==
  ASSUME Next, TxInv
  PROVE  TxP!Next
<1>1. /\ TxP!Clock /\ TxP!Observe
  BY SameTransmitter DEF Next
<1>2. /\ lcr \in LCR /\ tf_count \in 0 .. 1 /\ tx_reset = FALSE
      /\ lcr.bc => IdleLine
  BY DEF TxInv, TxP!SerialInv, TxP!FifoInv, TxP!LoadInv
<1>3. BreakControl /\ Write /\ tx_reset' = tx_reset /\ enable' \in BOOLEAN
  BY DEF Next, Divide
<1>4. /\ tf_push' \in IF TxP!BusFree THEN BOOLEAN ELSE {FALSE}
      /\ tf_push' => ~lcr.bc /\ ~lcr'.bc
      /\ wb_dat_i' \in IF tf_push' THEN Data ELSE {wb_dat_i}
  BY <1>2, <1>3 DEF Write, TxP!BusFree
<1>5. lcr' # lcr => TxP!Quiet /\ ~tf_push'
  <2>1. lcr' # lcr => IdleLine /\ (lcr.bc \/ lcr'.bc)
    <3>1. lcr.bc \in BOOLEAN /\ [lcr EXCEPT !.bc = TRUE].bc = TRUE
      BY <1>2 DEF LCR
    <3> QED BY <1>2, <1>3, <3>1, ModeStep
  <2> QED BY <1>1, <1>2, <1>4, <2>1, EmptyStaysEmpty DEF TxP!Quiet
<1>6. lcr' \in IF TxP!Quiet /\ ~tf_push' THEN LCR ELSE {lcr}
  <2>1. lcr' \in LCR
    BY <1>2, <1>3, ModeStep
  <2> QED BY <1>5, <2>1
<1>7. TxP!Drive
  BY <1>2, <1>3, <1>4, <1>6 DEF TxP!Drive
<1> QED BY <1>1, <1>7 DEF TxP!Next

\* So what is proved of the transmitter holds of that of the link.
LEMMA TxInvInit == Init => TxInv
<1> SUFFICES ASSUME Init PROVE TxInv
  OBVIOUS
<1>1. PowerUp \in Data
  BY LinkAssumption DEF PowerUp
<1>2. lcr \in LCR /\ ~lcr.bc
  BY LinkAssumption DEF Init
<1>3. TxP!Reset
  BY DEF Init, Tx!Reset, TxP!Reset, Tx!fifo_tx!Reset, TxP!fifo_tx!Reset,
         Tx!fifo_tx!Address, TxP!fifo_tx!Address
<1>4. TxP!Init
  BY <1>1, <1>2, <1>3 DEF Init, TxP!Init
<1>5. TxP!SerialInv /\ TxP!MachineTypes /\ TxP!TypeOK
  BY <1>4, TransmitterAssumptions, TxP!SerialInvInit, TxP!TypesInit
<1> QED BY <1>2, <1>5 DEF TxInv, Init

\* Every edge of the link keeps what is proved of the transmitter.
LEMMA TxInvNext ==
  ASSUME Next, TxInv
  PROVE  TxInv'
<1>1. TxP!Next
  BY DriveStep
<1>2. TxP!SerialInv'
  BY <1>1, TransmitterAssumptions, TxP!SerialInvNext DEF TxInv
<1>3. TxP!MachineTypes' /\ TxP!TypeOK'
  BY <1>1, <1>2, TransmitterAssumptions, TxP!TypesStep DEF TxInv
<1>4. tx_reset' = FALSE
  BY DEF Next, TxInv
<1>5. lcr'.bc => IdleLine'
  <2>1. /\ lcr \in LCR /\ tf_count \in 0 .. 1 /\ (lcr.bc => IdleLine)
        /\ BreakControl /\ Write /\ TxP!Clock
    BY <1>1 DEF Next, TxInv, TxP!SerialInv, TxP!FifoInv, TxP!LoadInv, TxP!Next
  <2>2. ASSUME lcr'.bc PROVE IdleLine
    BY <2>1, <2>2, ModeStep
  <2>3. lcr'.bc => ~tf_push'
    BY <2>1 DEF Write
  <2> QED BY <2>1, <2>2, <2>3, EmptyStaysEmpty DEF IdleLine
<1> QED BY <1>2, <1>3, <1>4, <1>5 DEF TxInv

\* The frames of TransmitterProofs are those of LineControl.tla.
LEMMA SameFrames ==
  \A d, m, k : TxP!Abstract!Level(d, m, k) = Level(d, m, k)
<1>1. \A d, n : TxP!Abstract!Xor(d, n) = Xor(d, n)
  BY DEF TxP!Abstract!Xor, Xor, TxP!Abstract!Cardinality, Cardinality
<1>2. \A m, x : TxP!Abstract!ParityBit(m, x) = ParityBit(m, x)
  BY DEF TxP!Abstract!ParityBit, ParityBit
<1> QED BY <1>1, <1>2 DEF TxP!Abstract!Level, Level

\* Facts about line modes.
LEMMA ModeFacts ==
  ASSUME NEW m \in LCR
  PROVE  /\ m.bits \in 5 .. 8 /\ m.sb \in BOOLEAN /\ m.pe \in BOOLEAN /\ m.bc \in BOOLEAN
         /\ ParityBits(m) \in {0, 1}
         /\ StopTicks(m) \in {16, 24, 32}
         /\ WordTicks(m) = 16 * (1 + m.bits + ParityBits(m))
         /\ FrameTicks(m) = WordTicks(m) + StopTicks(m)
BY DEF LCR, StopTicks, ParityBits, WordTicks, FrameTicks

\* A frame has as many ticks as its length says, less the one on the line and
\* the two in which the next character is looked for and loaded.
LEMMA SentRange ==
  ASSUME TxInv
  PROVE  /\ lcr \in LCR /\ cur \in Data /\ tstate \in TxP!States /\ enable \in BOOLEAN
         /\ tf_count \in 0 .. 1 /\ tf_push \in BOOLEAN /\ tx_reset = FALSE
         /\ tstate = "s_pop_byte" => tf_count > 0
         /\ Sending => Sent \in 0 .. (FrameTicks(lcr) - 3)
<1>1. /\ lcr \in LCR /\ cur \in Data /\ tstate \in TxP!States /\ enable \in BOOLEAN
      /\ tf_count \in 0 .. 1 /\ tf_push \in BOOLEAN /\ tx_reset = FALSE
      /\ tstate = "s_pop_byte" => tf_count > 0
  BY DEF TxInv, TxP!SerialInv, TxP!FifoInv, TxP!LoadInv, TxP!NoUnderrun
<1>2. /\ lcr.bits \in 5 .. 8 /\ ParityBits(lcr) \in {0, 1} /\ StopTicks(lcr) \in {16, 24, 32}
      /\ WordTicks(lcr) = 16 * (1 + lcr.bits + ParityBits(lcr))
      /\ FrameTicks(lcr) = WordTicks(lcr) + StopTicks(lcr)
      /\ lcr.pe => ParityBits(lcr) = 1
  BY <1>1, ModeFacts DEF ParityBits
<1>3. TxP!WordTicks(lcr) = WordTicks(lcr) /\ TxP!StopTicks(lcr) = StopTicks(lcr)
  BY SameDecoding
<1>4. TxP!FrameInv
  BY DEF TxInv, TxP!SerialInv
<1>5. counter \in 0 .. 15 => TxP!TicksOfBit \in 0 .. 15
  BY DEF TxP!TicksOfBit
<1>6. CASE tstate = "s_send_start"
  <2>1. counter \in 0 .. 15 /\ Sent = TxP!TicksOfBit
    BY <1>4, <1>6 DEF TxP!FrameInv, TxP!WordStates, Sent, TxP!FrameTick
  <2> QED BY <1>1, <1>2, <1>5, <2>1
<1>7. CASE tstate = "s_send_byte"
  <2>1. /\ counter \in 0 .. 15 /\ bit_counter \in 0 .. (lcr.bits - 1)
        /\ Sent = 16 * (lcr.bits - bit_counter) + TxP!TicksOfBit
    BY <1>4, <1>7 DEF TxP!FrameInv, TxP!WordStates, Sent, TxP!FrameTick
  <2> QED BY <1>1, <1>2, <1>5, <2>1
<1>8. CASE tstate = "s_send_parity"
  <2>1. /\ counter \in 0 .. 15 /\ lcr.pe
        /\ Sent = 16 * (lcr.bits + 1) + TxP!TicksOfBit
    BY <1>4, <1>8 DEF TxP!FrameInv, TxP!WordStates, Sent, TxP!FrameTick
  <2> QED BY <1>1, <1>2, <1>5, <2>1
<1>9. CASE tstate = "s_send_stop"
  <2>1. /\ counter \in 0 .. (StopTicks(lcr) - 3)
        /\ Sent = WordTicks(lcr) + (IF counter = 0 THEN 0 ELSE StopTicks(lcr) - 2 - counter)
    BY <1>3, <1>4, <1>9 DEF TxP!FrameInv, Sent, TxP!FrameTick
  <2> QED BY <1>1, <1>2, <2>1
<1> QED BY <1>1, <1>6, <1>7, <1>8, <1>9 DEF Sending, TxP!States

\* The line mode and the character stay while a frame is sent.
LEMMA SameFrame ==
  ASSUME TxInv, Next
  PROVE  /\ tstate' # "s_idle" => lcr' = lcr
         /\ tstate # "s_pop_byte" => cur' = cur
         /\ Sending => lcr' = lcr
<1>1. TxP!Next /\ TxP!SerialInv
  BY DriveStep DEF TxInv
<1>2. /\ tstate' # "s_idle" => lcr' = lcr
      /\ ~TxP!Loading => cur' = cur
  BY <1>1, TransmitterAssumptions, TxP!SameFrame
<1>3. Sending => lcr' = lcr
  BY DEF Next, BreakControl, IdleLine, Sending, TxInv
<1> QED BY <1>2, <1>3 DEF TxP!Loading

\* While a frame is sent each tick of the sender puts the next one of its
\* sixteenths of a bit on the line, and three ticks short of its length the
\* transmitter is idle again.
LEMMA FrameStep ==
  ASSUME TxInv, TxInv', Next, Sending
  PROVE  /\ ~enable => Sending' /\ Sent' = Sent /\ stx_o_tmp' = stx_o_tmp
         /\ enable => /\ stx_o_tmp' = Level(cur, lcr, Sent)
                      /\ \/ Sent = FrameTicks(lcr) - 3 /\ tstate' = "s_idle"
                         \/ Sent # FrameTicks(lcr) - 3 /\ Sending' /\ Sent' = Sent + 1
<1>1. TxP!Next /\ TxP!SerialInv /\ TxP!SerialInv'
  BY DriveStep DEF TxInv
<1>2. \/ TxP!Abstract!Wait \/ TxP!Abstract!Look \/ TxP!Abstract!Load
      \/ TxP!Abstract!Send
  BY <1>1, TransmitterAssumptions, TxP!MachineStepImplementsSerializerStep
<1>3. /\ TxP!Phase = "frame"
      /\ TxP!Phase' = "frame" => Sending'
      /\ TxP!Phase' = "idle" => tstate' = "s_idle"
  BY DEF TxP!Phase, Sending
<1>4. TxP!Abstract!FrameTicks(lcr) = FrameTicks(lcr)
  BY DEF TxP!Abstract!FrameTicks, FrameTicks, TxP!Abstract!WordTicks, WordTicks,
         TxP!Abstract!StopTicks, StopTicks, TxP!Abstract!ParityBits, ParityBits
<1>5. CASE TxP!Abstract!Wait
  BY <1>3, <1>5 DEF TxP!Abstract!Wait, Sent
<1>6. CASE TxP!Abstract!Send
  BY <1>3, <1>4, <1>6, SameFrames DEF TxP!Abstract!Send, Sent
<1> QED BY <1>2, <1>3, <1>5, <1>6 DEF TxP!Abstract!Look, TxP!Abstract!Load, TxP!Abstract!Loading

\* Between frames the line is high, and a character seen is loaded at the next
\* tick.
LEMMA IdleStep ==
  ASSUME TxInv, Next, ~Sending
  PROVE  /\ ~enable => tstate' = tstate /\ stx_o_tmp' = stx_o_tmp
         /\ enable /\ tstate = "s_idle" =>
              /\ tstate' = IF tf_count = 0 THEN "s_idle" ELSE "s_pop_byte"
              /\ stx_o_tmp' = 1
         /\ enable /\ tstate = "s_pop_byte" =>
              /\ Sending' /\ Sent' = 0 /\ stx_o_tmp' = stx_o_tmp
              /\ Tx!Loading /\ cur' = Tx!tf_data_out /\ lcr' = lcr
<1>1. TxP!Machine /\ TxP!Observe /\ TxP!FrameInv /\ enable \in BOOLEAN
  BY DriveStep, SentRange DEF TxP!Next, TxP!Clock, TxInv, TxP!SerialInv
<1>2. tstate \in {"s_idle", "s_pop_byte"}
  BY DEF Sending
<1>3. CASE ~enable
  BY <1>1, <1>3 DEF TxP!Machine, TxP!Disabled
<1>4. CASE enable /\ tstate = "s_idle"
  BY <1>1, <1>4 DEF TxP!Machine, TxP!Idle, TxP!PopByte, TxP!SendStart,
     TxP!SendByte, TxP!SendParity, TxP!SendStop
<1>5. CASE enable /\ tstate = "s_pop_byte"
  <2>1. TxP!PopByte
    BY <1>1, <1>5 DEF TxP!Machine, TxP!Idle, TxP!SendStart, TxP!SendByte, TxP!SendParity,
       TxP!SendStop
  <2>2. /\ tstate' = "s_send_start" /\ stx_o_tmp' = stx_o_tmp /\ counter' = 0
    BY <1>1, <1>5, <2>1 DEF TxP!PopByte, TxP!FrameInv
  <2>3. Sent' = 0 /\ Sending'
    BY <2>2 DEF Sent, TxP!FrameTick, TxP!TicksOfBit, Sending
  <2>4. Tx!Loading /\ cur' = Tx!tf_data_out
    BY <1>1, <1>5, SameTransmitter DEF TxP!Observe, Tx!Loading
  <2>5. lcr' = lcr
    BY <2>2, SameFrame
  <2> QED BY <1>5, <2>2, <2>3, <2>4, <2>5
<1> QED BY <1>1, <1>2, <1>3, <1>4, <1>5

\* The FIFO holds a character only after one was written.
LEMMA CountStep ==
  ASSUME TxInv, Next
  PROVE  tf_count' > 0 => tf_count > 0 \/ tf_push
<1>1. TxP!fifo_tx!Clock /\ tf_count \in 0 .. 1 /\ tf_push \in BOOLEAN
  BY DriveStep, SentRange DEF TxP!Next, TxP!Clock
<1> QED BY <1>1
   DEF TxP!fifo_tx!Clock, TxP!fifo_tx!PushChar, TxP!fifo_tx!PushFull,
       TxP!fifo_tx!PopChar, TxP!fifo_tx!PushPop, TxP!fifo_tx!Hold, TxP!fifo_tx!Clear

(***************************************************************************)
(* The clocks of the two ends.                                              *)
(***************************************************************************)

\* The counts of the dividers.
Dividers == /\ dl \in Nat \ {0} /\ loopback \in BOOLEAN
            /\ dlc \in 0 .. (dl - 1) /\ dlc2 \in 0 .. (dl - 1)

\* Once the dividers have started, a pulse comes with the last count.
ClockInv == /\ Dividers
            /\ enable \in BOOLEAN /\ (enable <=> dlc = dl - 1)
            /\ enable2 \in BOOLEAN /\ (enable2 <=> dlc2 = dl - 1)

\* The sender's ticks in the last clock cycle and in the last two.
Ticked1 == IF dl = 1 \/ dlc = dl - 2 THEN 1 ELSE 0
Ticked2 == CASE dl = 1                             -> 2
             [] dl = 2 \/ dlc \in {dl - 2, dl - 3} -> 1
             [] OTHER                              -> 0

\* dlc at the receiver's next tick, which is the same at every tick, and the
\* ticks of the sender that the synchroniser then still hides.
Meets  == IF dlc > dlc2 THEN dlc - dlc2 - 1 ELSE dlc - dlc2 - 1 + dl
Hidden == CASE dl = 1                               -> 2
            [] dl = 2 \/ Meets \in {dl - 2, dl - 3} -> 1
            [] OTHER                                -> 0

\* Does the sender tick before the receiver?
Lead == IF ~loopback /\ dlc2 # dl - 1 /\ (dlc = dl - 1 \/ dlc < dlc2) THEN 1 ELSE 0

\* The ticks of an edge.
Tick  == IF enable THEN 1 ELSE 0
Tick2 == IF rx_enable THEN 1 ELSE 0

\* One edge of the dividers.
LEMMA DividersStep ==
  ASSUME Dividers, Next
  PROVE  /\ dl' = dl /\ loopback' = loopback
         /\ dlc' = IF dlc = 0 THEN dl - 1 ELSE dlc - 1
         /\ dlc2' = IF dlc2 = 0 THEN dl - 1 ELSE dlc2 - 1
         /\ enable' \in BOOLEAN /\ (enable' <=> dlc = 0)
         /\ enable2' \in BOOLEAN /\ (enable2' <=> dlc2 = 0)
         /\ ClockInv'
<1>1. dl > 0
  BY DEF Dividers
<1>2. Divide(dlc, enable) /\ Divide(dlc2, enable2) /\ UNCHANGED <<loopback, dl, tx_reset>>
  BY DEF Next
<1>3. enable' = (dl > 0 /\ dlc = 0) /\ enable2' = (dl > 0 /\ dlc2 = 0)
  BY <1>2 DEF Divide
<1>4. /\ enable' \in BOOLEAN /\ (enable' <=> dlc = 0)
      /\ enable2' \in BOOLEAN /\ (enable2' <=> dlc2 = 0)
  BY <1>1, <1>3, Zenon
<1>5. /\ dlc' = IF dlc = 0 THEN dl - 1 ELSE dlc - 1
      /\ dlc2' = IF dlc2 = 0 THEN dl - 1 ELSE dlc2 - 1
  BY <1>2 DEF Divide
<1>6. ClockInv'
  BY <1>2, <1>4, <1>5 DEF Dividers, ClockInv
<1> QED BY <1>2, <1>4, <1>5, <1>6

\* The phase between the two clocks stays as it is.  When the receiver ticks,
\* the sender is not ahead, and of its ticks the synchroniser hides Hidden.
LEMMA ClockStep ==
  ASSUME ClockInv, Next
  PROVE  /\ ClockInv'
         /\ Ticked1 \in 0 .. 1 /\ Ticked2 \in 0 .. 2
         /\ Ticked1' = Tick /\ Ticked2' = Ticked1 + Tick
         /\ Hidden \in 0 .. 2 /\ Hidden' = Hidden
         /\ Lead \in 0 .. 1 /\ Lead' \in 0 .. 1
         /\ loopback => Lead = 0 /\ Lead' = 0
         /\ ~loopback => Lead' = Lead + Tick2 - Tick
         /\ ~loopback /\ rx_enable => Hidden = Ticked2 /\ Lead = 0
<1>1. /\ dl \in Nat \ {0} /\ loopback \in BOOLEAN
      /\ dlc \in 0 .. (dl - 1) /\ dlc2 \in 0 .. (dl - 1)
      /\ (enable <=> dlc = dl - 1) /\ (enable2 <=> dlc2 = dl - 1)
  BY DEF ClockInv, Dividers
<1>2. /\ dl' = dl /\ loopback' = loopback
      /\ dlc' = IF dlc = 0 THEN dl - 1 ELSE dlc - 1
      /\ dlc2' = IF dlc2 = 0 THEN dl - 1 ELSE dlc2 - 1
      /\ enable' \in BOOLEAN /\ (enable' <=> dlc = 0)
      /\ enable2' \in BOOLEAN /\ (enable2' <=> dlc2 = 0)
  BY DividersStep DEF ClockInv
<1>3. ClockInv'
  BY DividersStep DEF ClockInv
<1>4. Ticked1 \in 0 .. 1 /\ Ticked2 \in 0 .. 2 /\ Lead \in 0 .. 1 /\ Hidden \in 0 .. 2
  BY DEF Ticked1, Ticked2, Lead, Hidden
<1>5. Ticked1' = Tick /\ Ticked2' = Ticked1 + Tick
  <2>1. CASE dl = 1
    BY <1>1, <1>2, <2>1 DEF Ticked1, Ticked2, Tick
  <2>2. CASE dl # 1 /\ enable
    <3>1. dlc' = dl - 2 /\ dlc # dl - 2
      BY <1>1, <1>2, <2>2
    <3> QED BY <1>1, <1>2, <2>2, <3>1 DEF Ticked1, Ticked2, Tick
  <2>3. CASE dl # 1 /\ ~enable
    <3>1. dlc' # dl - 2 /\ (dl # 2 => (dlc' = dl - 3 <=> dlc = dl - 2))
      BY <1>1, <1>2, <2>3
    <3>2. dl = 2 => dlc = dl - 2
      BY <1>1, <2>3
    <3> QED BY <1>1, <1>2, <2>3, <3>1, <3>2 DEF Ticked1, Ticked2, Tick
  <2> QED BY <2>1, <2>2, <2>3
<1>6. Meets' = Meets
  BY <1>1, <1>2 DEF Meets
<1>7. Hidden' = Hidden
  BY <1>2, <1>6 DEF Hidden
<1>8. Lead' \in 0 .. 1 /\ (loopback => Lead = 0 /\ Lead' = 0)
  BY <1>2 DEF Lead
<1>9. ~loopback => Lead' = Lead + Tick2 - Tick
  <2>1. CASE enable /\ enable2
    BY <1>1, <1>2, <2>1 DEF Lead, Tick, Tick2, rx_enable
  <2>2. CASE enable /\ ~enable2
    BY <1>1, <1>2, <2>2 DEF Lead, Tick, Tick2, rx_enable
  <2>3. CASE ~enable /\ enable2
    BY <1>1, <1>2, <2>3 DEF Lead, Tick, Tick2, rx_enable
  <2>4. CASE ~enable /\ ~enable2
    BY <1>1, <1>2, <2>4 DEF Lead, Tick, Tick2, rx_enable
  <2> QED BY <1>1, <2>1, <2>2, <2>3, <2>4
<1>10. ASSUME ~loopback, rx_enable PROVE Hidden = Ticked2 /\ Lead = 0
  BY <1>1, <1>10 DEF Hidden, Ticked2, Lead, Meets, rx_enable
<1> QED BY <1>3, <1>4, <1>5, <1>7, <1>8, <1>9, <1>10

(***************************************************************************)
(* The receiver: its registers.                                             *)
(***************************************************************************)

\* The break counter counts one tick less than a character time.
LEMMA PresetValue ==
  ASSUME NEW m \in LCR
  PROVE  BrcValue(m) = FrameTicks(m) - 1 /\ BrcValue(m) \in 111 .. 191
<1>1. m.bits \in 5 .. 8 /\ m.sb \in BOOLEAN /\ m.pe \in BOOLEAN
  BY ModeFacts
<1>2. FrameTicks(m) = 16 * (1 + m.bits + (IF m.pe THEN 1 ELSE 0))
                        + (IF ~m.sb THEN 16 ELSE IF m.bits = 5 THEN 24 ELSE 32)
  BY DEF FrameTicks, WordTicks, StopTicks, ParityBits
<1>3. Index(m) = (IF m.pe THEN 8 ELSE 0) + (IF m.sb THEN 4 ELSE 0) + m.bits - 5
  BY DEF Index
<1>4. ASSUME NEW b \in 5 .. 8, m.bits = b
      PROVE  BrcValue(m) = FrameTicks(m) - 1 /\ FrameTicks(m) \in 112 .. 192
  <2>1. CASE m.pe /\ m.sb
    <3>1. Index(m) = 7 + b /\ FrameTicks(m) = 16 * (2 + b) + (IF b = 5 THEN 24 ELSE 32)
      BY <1>2, <1>3, <1>4, <2>1
    <3> QED BY <1>4, <3>1 DEF BrcValue, TocValue
  <2>2. CASE m.pe /\ ~m.sb
    <3>1. Index(m) = 3 + b /\ FrameTicks(m) = 16 * (2 + b) + 16
      BY <1>2, <1>3, <1>4, <2>2
    <3> QED BY <1>4, <3>1 DEF BrcValue, TocValue
  <2>3. CASE ~m.pe /\ m.sb
    <3>1. Index(m) = b - 1 /\ FrameTicks(m) = 16 * (1 + b) + (IF b = 5 THEN 24 ELSE 32)
      BY <1>2, <1>3, <1>4, <2>3
    <3> QED BY <1>4, <3>1 DEF BrcValue, TocValue
  <2>4. CASE ~m.pe /\ ~m.sb
    <3>1. Index(m) = b - 5 /\ FrameTicks(m) = 16 * (1 + b) + 16
      BY <1>2, <1>3, <1>4, <2>4
    <3> QED BY <1>4, <3>1 DEF BrcValue, TocValue
  <2> QED BY <1>1, <2>1, <2>2, <2>3, <2>4
<1> QED BY <1>1, <1>4

\* A counter of four bits.
LEMMA DownStep ==
  ASSUME rcounter16 \in 0 .. 15
  PROVE  /\ (rcounter16 + 15) % 16 \in 0 .. 15
         /\ rcounter16 > 0 => (rcounter16 + 15) % 16 = rcounter16 - 1
         /\ rcounter16 = 0 => (rcounter16 + 15) % 16 = 15
OBVIOUS

\* The word registers and the state stay in range.
RxTypes == /\ rstate \in Rx!States
           /\ rcounter16 \in 0 .. 15
           /\ rbit_counter \in 0 .. 7
           /\ rshift \in Byte
           /\ rparity \in Bit /\ rparity_xor \in Bit
           /\ rparity_error \in BOOLEAN /\ rframing_error \in BOOLEAN
           /\ rf_data_in \in [char : Byte, flags : Rx!Flags]
           /\ rf_push \in BOOLEAN

\* A step of the machine keeps its registers in range.
LEMMA RxMachineTypes ==
  ASSUME Rx!Machine, RxTypes, lcr \in LCR, serial_in \in Bit
  PROVE  RxTypes'
<1> USE DEF Rx!Middle, Rx!LastOne
<1>1. lcr.bits \in 5 .. 8 /\ lcr.bits - 1 \in 0 .. 7
  BY ModeFacts
<1>2. Rx!ZeroByte \in Byte /\ Rx!NoFlags \in Rx!Flags /\ Rx!BreakFlag \in Rx!Flags
  BY DEF Rx!ZeroByte, Byte, Bit, Rx!NoFlags, Rx!BreakFlag, Rx!Flags
<1>3. Rx!Countdown => rcounter16' \in 0 .. 15
  BY DownStep DEF Rx!Countdown, RxTypes
<1>4. [char |-> Rx!ZeroByte, flags |-> Rx!NoFlags] \in [char : Byte, flags : Rx!Flags]
  BY <1>2
<1>5. CASE ~rx_enable /\ UNCHANGED Rx!machine
  BY <1>5 DEF Rx!machine, RxTypes
<1>6. CASE Rx!Idle
  <2>1. rf_data_in' \in [char : Byte, flags : Rx!Flags]
    BY <1>4, <1>6 DEF Rx!Idle
  <2>2. rstate' \in Rx!States /\ rcounter16' \in 0 .. 15
    BY <1>6 DEF Rx!Idle, Rx!States
  <2>3. /\ rf_push' \in BOOLEAN
        /\ UNCHANGED <<rbit_counter, rshift, rparity, rparity_xor, rparity_error,
                       rframing_error>>
    BY <1>6 DEF Rx!Idle
  <2> QED BY <2>1, <2>2, <2>3 DEF RxTypes
<1>7. CASE Rx!RecStart
  BY <1>3, <1>7 DEF Rx!RecStart, RxTypes, Rx!States
<1>8. CASE Rx!RecPrepare
  BY <1>1, <1>2, <1>3, <1>8 DEF Rx!RecPrepare, RxTypes, Rx!States
<1>9. CASE Rx!RecBit
  <2>1. rshift' \in Byte
    <3>1. CASE Rx!Middle
      <4>1. rshift' = [i \in 0 .. 7 |-> CASE i < lcr.bits - 1 -> rshift[i + 1]
                                          [] i = lcr.bits - 1 -> serial_in
                                          [] OTHER            -> rshift[i]]
        BY <1>9, <3>1 DEF Rx!RecBit, Rx!ShiftIn
      <4>2. rshift \in [0 .. 7 -> Bit]
        BY DEF RxTypes, Byte
      <4>3. ASSUME NEW i \in 0 .. 7
            PROVE  (CASE i < lcr.bits - 1 -> rshift[i + 1]
                      [] i = lcr.bits - 1 -> serial_in
                      [] OTHER            -> rshift[i]) \in Bit
        <5>1. i < lcr.bits - 1 => i + 1 \in 0 .. 7
          BY <1>1
        <5> QED BY <1>1, <4>2, <5>1
      <4> QED BY <4>1, <4>3 DEF Byte
    <3>2. CASE ~Rx!Middle
      BY <1>9, <3>2 DEF Rx!RecBit, RxTypes
    <3> QED BY <3>1, <3>2
  <2> QED BY <1>3, <1>9, <2>1 DEF Rx!RecBit, RxTypes, Rx!States
<1>10. CASE Rx!EndBit
  <2>1. rparity_error' \in BOOLEAN
    BY <1>10 DEF Rx!EndBit, RxTypes
  <2>2. /\ rstate' \in Rx!States /\ rcounter16' \in 0 .. 15 /\ rbit_counter' \in 0 .. 7
    BY <1>10 DEF Rx!EndBit, RxTypes, Rx!States
  <2> QED BY <1>10, <2>1, <2>2 DEF Rx!EndBit, RxTypes
<1>11. CASE Rx!RecParity
  BY <1>3, <1>11 DEF Rx!RecParity, RxTypes, Rx!States
<1>12. CASE Rx!CalcParity
  <2>1. rparity_xor' \in Bit
    <3>1. rparity_xor' = (Xor(rshift, 8) + rparity) % 2
      BY <1>12, SameDecoding DEF Rx!CalcParity
    <3>2. Xor(rshift, 8) \in Bit
      BY TransmitterAssumptions, TxP!XorIsBit, SameDecoding DEF TxP!Bit, Bit
    <3> QED BY <3>1, <3>2 DEF RxTypes, Bit
  <2> QED BY <1>3, <1>12, <2>1 DEF Rx!CalcParity, RxTypes, Rx!States
<1>13. CASE Rx!CheckParity
  <2>1. rparity_error' \in BOOLEAN
    <3>1. lcr.ep \in BOOLEAN /\ lcr.sp \in BOOLEAN
      BY DEF LCR
    <3> QED BY <1>13, <3>1 DEF Rx!CheckParity
  <2> QED BY <1>3, <1>13, <2>1 DEF Rx!CheckParity, RxTypes, Rx!States
<1>14. CASE Rx!Wait1
  BY <1>3, <1>14 DEF Rx!Wait1, RxTypes, Rx!States
<1>15. CASE Rx!RecStop
  <2>1. rframing_error' \in BOOLEAN
    BY <1>15 DEF Rx!RecStop, RxTypes
  <2> QED BY <1>3, <1>15, <2>1 DEF Rx!RecStop, RxTypes, Rx!States
<1>16. CASE Rx!Push
  <2>1. Rx!ReceivedWord \in [char : Byte, flags : Rx!Flags]
    BY DEF Rx!ReceivedWord, RxTypes, Rx!Flags
  <2>2. [char |-> Rx!ZeroByte, flags |-> Rx!BreakFlag] \in [char : Byte, flags : Rx!Flags]
    BY <1>2
  <2>3. rf_data_in' \in [char : Byte, flags : Rx!Flags]
    BY <1>16, <2>1, <2>2 DEF Rx!Push, RxTypes
  <2>4. rstate' \in Rx!States /\ rcounter16' \in 0 .. 15
    BY <1>16 DEF Rx!Push, RxTypes, Rx!States
  <2>5. rf_push' \in BOOLEAN
    BY <1>16 DEF Rx!Push, RxTypes
  <2> QED BY <1>16, <2>3, <2>4, <2>5 DEF Rx!Push, RxTypes
<1> QED BY <1>5, <1>6, <1>7, <1>8, <1>9, <1>10, <1>11, <1>12, <1>13, <1>14, <1>15, <1>16
        DEF Rx!Machine

\* And so do the registers around the machine.
LEMMA RxTypesStep ==
  ASSUME Rx!Clock, Rx!TypeOK, lcr \in LCR, serial_in \in Bit
  PROVE  Rx!TypeOK'
<1>1. RxTypes /\ counter_b \in 0 .. 191
  BY DEF Rx!TypeOK, RxTypes, Rx!Byte, Byte, Rx!Bit, Bit
<1>2. RxTypes'
  BY <1>1, RxMachineTypes DEF Rx!Clock
<1>3. counter_b' \in 0 .. 191
  <2>1. Rx!BrcValue(lcr) \in 0 .. 191
    BY PresetValue, SameDecoding
  <2> QED BY <1>1, <2>1 DEF Rx!Clock, Rx!BreakCounter
<1>4. rf_push_q' \in BOOLEAN
  BY <1>1 DEF Rx!Clock, RxTypes
<1> QED BY <1>2, <1>3, <1>4 DEF Rx!TypeOK, RxTypes, Rx!Byte, Byte, Rx!Bit, Bit

(***************************************************************************)
(* The receiver: its place in a word.                                       *)
(***************************************************************************)

\* The tick at which it pushes the word.
Last(m) == WordTicks(m) + (IF m.pe THEN 8 ELSE 9)

\* State and counters before tick n of a word.
Position(n) ==
  LET b == lcr.bits IN
  \/ rstate = "sr_rec_start" /\ n \in 1 .. 8 /\ rcounter16 = 15 - n
  \/ rstate = "sr_rec_prepare" /\ n \in 9 .. 15 /\ rcounter16 = 15 - n
  \/ /\ rstate = "sr_rec_bit" /\ rbit_counter \in 0 .. (b - 1) /\ rcounter16 \in 0 .. 15
     /\ n = 16 * (b - rbit_counter) + 15 - rcounter16
  \/ /\ rstate = "sr_end_bit" /\ rbit_counter \in 0 .. (b - 1)
     /\ n = 16 * (b - rbit_counter) + 16
  \/ /\ rstate = "sr_rec_parity" /\ lcr.pe /\ rcounter16 \in 7 .. 14
     /\ n = 16 * (b + 1) + 15 - rcounter16
  \/ rstate = "sr_ca_lc_parity" /\ lcr.pe /\ rcounter16 = 6 /\ n = 16 * (b + 1) + 9
  \/ rstate = "sr_check_parity" /\ lcr.pe /\ rcounter16 = 5 /\ n = 16 * (b + 1) + 10
  \/ /\ rstate = "sr_wait1" /\ lcr.pe /\ rcounter16 \in 0 .. 4
     /\ n = 16 * (b + 1) + 15 - rcounter16
  \/ /\ rstate = "sr_rec_stop" /\ rcounter16 \in 7 .. 14
     /\ n = IF lcr.pe THEN 16 * (b + 2) + 14 - rcounter16 ELSE 16 * (b + 1) + 15 - rcounter16
  \/ rstate = "sr_push" /\ n = Last(lcr)

\* The state tells which of the actions a tick is.
LEMMA MachineAt ==
  ASSUME Rx!Machine, rx_enable
  PROVE  /\ rstate = "sr_idle" => Rx!Idle
         /\ rstate = "sr_rec_start" => Rx!RecStart
         /\ rstate = "sr_rec_prepare" => Rx!RecPrepare
         /\ rstate = "sr_rec_bit" => Rx!RecBit
         /\ rstate = "sr_end_bit" => Rx!EndBit
         /\ rstate = "sr_rec_parity" => Rx!RecParity
         /\ rstate = "sr_ca_lc_parity" => Rx!CalcParity
         /\ rstate = "sr_check_parity" => Rx!CheckParity
         /\ rstate = "sr_wait1" => Rx!Wait1
         /\ rstate = "sr_rec_stop" => Rx!RecStop
         /\ rstate = "sr_push" => Rx!Push
BY DEF Rx!Machine, Rx!Idle, Rx!RecStart, Rx!RecPrepare, Rx!RecBit, Rx!EndBit, Rx!RecParity,
       Rx!CalcParity, Rx!CheckParity, Rx!Wait1, Rx!RecStop, Rx!Push

\* Every tick of a word leads to the next place, up to the push, if the line is
\* low in the middle of the start bit.
LEMMA PositionStep ==
  ASSUME Rx!Machine, rx_enable, lcr \in LCR, lcr'.bits = lcr.bits, lcr'.pe = lcr.pe,
         NEW n \in 1 .. (Last(lcr) - 1), Position(n), n = 8 => serial_in = 0
  PROVE  Position(n + 1)' /\ (~rf_push => ~rf_push')
<1> USE DEF Rx!Middle, Rx!LastOne
<1>b. PICK b \in 5 .. 8 : b = lcr.bits
  BY ModeFacts
<1>1. Last(lcr) = IF lcr.pe THEN 16 * (b + 2) + 8 ELSE 16 * (b + 1) + 9
  BY <1>b DEF Last, WordTicks, ParityBits
<1>2. lcr'.bits = b /\ lcr'.pe = lcr.pe /\ lcr.pe \in BOOLEAN /\ Last(lcr)' = Last(lcr)
  BY <1>b, ModeFacts DEF Last, WordTicks, ParityBits
<1>3. ASSUME NEW k \in 1 .. 15, rcounter16 = k, Rx!Countdown PROVE rcounter16' = k - 1
  BY <1>3 DEF Rx!Countdown
<1>4. ASSUME rcounter16 = 0, Rx!Countdown PROVE rcounter16' = 15
  BY <1>4 DEF Rx!Countdown
<1>5. CASE rstate = "sr_rec_start"
  <2>1. n \in 1 .. 8 /\ rcounter16 = 15 - n
    BY <1>5 DEF Position
  <2>2. Rx!RecStart
    BY <1>5, MachineAt
  <2>3. rcounter16' = 15 - (n + 1) /\ rf_push' = FALSE
    BY <1>3, <2>1, <2>2 DEF Rx!RecStart
  <2>4. CASE n = 8
    <3>1. rstate' = "sr_rec_prepare"
      BY <2>1, <2>2, <2>4 DEF Rx!RecStart
    <3> QED BY <2>3, <2>4, <3>1 DEF Position
  <2>5. CASE n # 8
    <3>1. rstate' = "sr_rec_start"
      BY <1>5, <2>1, <2>2, <2>5 DEF Rx!RecStart
    <3> QED BY <2>1, <2>3, <2>5, <3>1 DEF Position
  <2> QED BY <2>4, <2>5
<1>6. CASE rstate = "sr_rec_prepare"
  <2>1. n \in 9 .. 15 /\ rcounter16 = 15 - n
    BY <1>6 DEF Position
  <2>2. Rx!RecPrepare
    BY <1>6, MachineAt
  <2>3. CASE n = 15
    <3>1. rstate' = "sr_rec_bit" /\ rbit_counter' = b - 1 /\ rcounter16' = 15 /\ rf_push' = rf_push
      BY <1>4, <1>b, <2>1, <2>2, <2>3 DEF Rx!RecPrepare
    <3> QED BY <1>2, <2>3, <3>1 DEF Position
  <2>4. CASE n # 15
    <3>1. rstate' = "sr_rec_prepare" /\ rcounter16' = 15 - (n + 1) /\ rf_push' = rf_push
      BY <1>3, <1>6, <2>1, <2>2, <2>4 DEF Rx!RecPrepare
    <3> QED BY <2>1, <2>4, <3>1 DEF Position
  <2> QED BY <2>3, <2>4
<1>7. CASE rstate = "sr_rec_bit"
  <2>1. /\ rbit_counter \in 0 .. (b - 1) /\ rcounter16 \in 0 .. 15
        /\ n = 16 * (b - rbit_counter) + 15 - rcounter16
    BY <1>b, <1>7 DEF Position
  <2>2. Rx!RecBit
    BY <1>7, MachineAt
  <2>3. rbit_counter' = rbit_counter /\ rf_push' = rf_push
    BY <2>2 DEF Rx!RecBit
  <2>4. CASE rcounter16 = 0
    <3>1. rstate' = "sr_end_bit"
      BY <2>2, <2>4 DEF Rx!RecBit
    <3> QED BY <1>2, <2>1, <2>3, <2>4, <3>1 DEF Position
  <2>5. CASE rcounter16 # 0
    <3>1. rstate' = "sr_rec_bit" /\ rcounter16' = rcounter16 - 1
      BY <1>3, <1>7, <2>1, <2>2, <2>5 DEF Rx!RecBit
    <3> QED BY <1>2, <2>1, <2>3, <2>5, <3>1 DEF Position
  <2> QED BY <2>4, <2>5
<1>8. CASE rstate = "sr_end_bit"
  <2>1. rbit_counter \in 0 .. (b - 1) /\ n = 16 * (b - rbit_counter) + 16
    BY <1>b, <1>8 DEF Position
  <2>2. Rx!EndBit
    BY <1>8, MachineAt
  <2>3. rcounter16' = 14 /\ rf_push' = rf_push
    BY <2>2 DEF Rx!EndBit
  <2>4. CASE rbit_counter > 0
    <3>1. rstate' = "sr_rec_bit" /\ rbit_counter' = rbit_counter - 1
      BY <2>2, <2>4 DEF Rx!EndBit
    <3> QED BY <1>2, <2>1, <2>3, <2>4, <3>1 DEF Position
  <2>5. CASE rbit_counter = 0 /\ lcr.pe
    <3>1. rstate' = "sr_rec_parity" /\ n = 16 * b + 16
      BY <2>1, <2>2, <2>5 DEF Rx!EndBit
    <3> QED BY <1>2, <2>3, <2>5, <3>1 DEF Position
  <2>6. CASE rbit_counter = 0 /\ ~lcr.pe
    <3>1. rstate' = "sr_rec_stop" /\ n = 16 * b + 16
      BY <2>1, <2>2, <2>6 DEF Rx!EndBit
    <3> QED BY <1>2, <2>3, <2>6, <3>1 DEF Position
  <2> QED BY <2>1, <2>4, <2>5, <2>6
<1>9. CASE rstate = "sr_rec_parity"
  <2>1. lcr.pe /\ rcounter16 \in 7 .. 14 /\ n = 16 * (b + 1) + 15 - rcounter16
    BY <1>b, <1>9 DEF Position
  <2>2. Rx!RecParity
    BY <1>9, MachineAt
  <2>3. rcounter16' = rcounter16 - 1 /\ rf_push' = rf_push
    BY <1>3, <2>1, <2>2 DEF Rx!RecParity
  <2>4. rstate' = IF rcounter16 = 7 THEN "sr_ca_lc_parity" ELSE "sr_rec_parity"
    BY <1>9, <2>2 DEF Rx!RecParity
  <2> QED BY <1>2, <2>1, <2>3, <2>4 DEF Position
<1>10. CASE rstate = "sr_ca_lc_parity"
  <2>1. lcr.pe /\ rcounter16 = 6 /\ n = 16 * (b + 1) + 9
    BY <1>b, <1>10 DEF Position
  <2>2. rstate' = "sr_check_parity" /\ rcounter16' = 5 /\ rf_push' = rf_push
    BY <1>3, <1>10, <2>1, MachineAt DEF Rx!CalcParity
  <2> QED BY <1>2, <2>1, <2>2 DEF Position
<1>11. CASE rstate = "sr_check_parity"
  <2>1. lcr.pe /\ rcounter16 = 5 /\ n = 16 * (b + 1) + 10
    BY <1>b, <1>11 DEF Position
  <2>2. rstate' = "sr_wait1" /\ rcounter16' = 4 /\ rf_push' = rf_push
    BY <1>3, <1>11, <2>1, MachineAt DEF Rx!CheckParity
  <2> QED BY <1>2, <2>1, <2>2 DEF Position
<1>12. CASE rstate = "sr_wait1"
  <2>1. lcr.pe /\ rcounter16 \in 0 .. 4 /\ n = 16 * (b + 1) + 15 - rcounter16
    BY <1>b, <1>12 DEF Position
  <2>2. Rx!Wait1
    BY <1>12, MachineAt
  <2>3. CASE rcounter16 = 0
    <3>1. rstate' = "sr_rec_stop" /\ rcounter16' = 14 /\ rf_push' = rf_push
      BY <2>2, <2>3 DEF Rx!Wait1
    <3> QED BY <1>2, <2>1, <2>3, <3>1 DEF Position
  <2>4. CASE rcounter16 # 0
    <3>1. rstate' = "sr_wait1" /\ rcounter16' = rcounter16 - 1 /\ rf_push' = rf_push
      BY <1>3, <1>12, <2>1, <2>2, <2>4 DEF Rx!Wait1
    <3> QED BY <1>2, <2>1, <2>4, <3>1 DEF Position
  <2> QED BY <2>3, <2>4
<1>13. CASE rstate = "sr_rec_stop"
  <2>1. /\ rcounter16 \in 7 .. 14
        /\ n = IF lcr.pe THEN 16 * (b + 2) + 14 - rcounter16 ELSE 16 * (b + 1) + 15 - rcounter16
    BY <1>b, <1>13 DEF Position
  <2>2. Rx!RecStop
    BY <1>13, MachineAt
  <2>3. rcounter16' = rcounter16 - 1 /\ rf_push' = rf_push
    BY <1>3, <2>1, <2>2 DEF Rx!RecStop
  <2>4. CASE rcounter16 = 7
    <3>1. rstate' = "sr_push" /\ n + 1 = Last(lcr)
      BY <1>1, <1>2, <2>1, <2>2, <2>4 DEF Rx!RecStop
    <3> QED BY <1>2, <2>3, <3>1 DEF Position
  <2>5. CASE rcounter16 # 7
    <3>1. rstate' = "sr_rec_stop"
      BY <1>13, <2>2, <2>5 DEF Rx!RecStop
    <3> QED BY <1>2, <2>1, <2>3, <2>5, <3>1 DEF Position
  <2> QED BY <2>4, <2>5
<1>14. rstate # "sr_push"
  BY DEF Position
<1> QED BY <1>5, <1>6, <1>7, <1>8, <1>9, <1>10, <1>11, <1>12, <1>13, <1>14 DEF Position

(***************************************************************************)
(* The receiver: what it has of the character that is sent.                 *)
(***************************************************************************)

\* The first k bits of the character are at the top of the shift register.
Shifted(k) == \A i \in 0 .. 7 : /\ i >= lcr.bits => rshift[i] = 0
                                /\ i < lcr.bits /\ i >= lcr.bits - k =>
                                     rshift[i] = cur[i - (lcr.bits - k)]

InWord == {"sr_rec_parity", "sr_ca_lc_parity", "sr_check_parity", "sr_wait1",
           "sr_rec_stop", "sr_push"}

\* The bits and the parity bit received are those sent.
Contents ==
  /\ rstate = "sr_rec_bit" =>
       Shifted(lcr.bits - 1 - rbit_counter + (IF rcounter16 < 7 THEN 1 ELSE 0))
  /\ rstate = "sr_end_bit" => Shifted(lcr.bits - rbit_counter)
  /\ rstate \in InWord => Shifted(lcr.bits)
  /\ rstate \in {"sr_ca_lc_parity", "sr_check_parity"} =>
       rparity = ParityBit(lcr, Xor(cur, lcr.bits))
  /\ rstate = "sr_check_parity" => rparity_xor = (Xor(cur, lcr.bits) + rparity) % 2
  /\ rstate \in {"sr_wait1", "sr_rec_stop", "sr_push"} => rparity_error = FALSE
  /\ rstate = "sr_push" => rframing_error = FALSE

\* The level of the line within cell c of a frame.
LEMMA LevelInCell ==
  ASSUME NEW m \in LCR, NEW d, NEW c \in Nat, NEW r \in 0 .. 15
  PROVE  /\ c = 0 => Level(d, m, 16 * c + r) = 0
         /\ c \in 1 .. m.bits => Level(d, m, 16 * c + r) = d[c - 1]
         /\ c = m.bits + 1 /\ m.pe => Level(d, m, 16 * c + r) = ParityBit(m, Xor(d, m.bits))
         /\ c >= m.bits + 1 + ParityBits(m) => Level(d, m, 16 * c + r) = 1
<1>1. \A k : TxP!Level(d, m, k) = Level(d, m, k)
  BY SameDecoding DEF TxP!Level, Level
<1>2. /\ c = 0 => TxP!Level(d, m, 16 * c + r) = 0
      /\ c \in 1 .. m.bits => TxP!Level(d, m, 16 * c + r) = d[c - 1]
      /\ c = m.bits + 1 /\ m.pe =>
           TxP!Level(d, m, 16 * c + r) = TxP!ParityBit(m, TxP!Xor(d, m.bits))
      /\ c >= m.bits + 1 + TxP!ParityBits(m) => TxP!Level(d, m, 16 * c + r) = 1
  BY TransmitterAssumptions, TxP!LevelInCell
<1> QED BY <1>1, <1>2, SameDecoding

\* The same bits in the shift register.
LEMMA ShiftedStays ==
  ASSUME NEW k, Shifted(k), rshift' = rshift, cur' = cur, lcr'.bits = lcr.bits
  PROVE  Shifted(k)'
BY DEF Shifted

\* One more bit.
LEMMA ShiftedStep ==
  ASSUME lcr \in LCR, NEW k \in 0 .. (lcr.bits - 1), Shifted(k), Rx!ShiftIn,
         serial_in = cur[k], cur' = cur, lcr'.bits = lcr.bits
  PROVE  Shifted(k + 1)'
<1>b. PICK b \in 5 .. 8 : b = lcr.bits
  BY ModeFacts
<1>1. \A i \in 0 .. 7 : /\ i < b - 1 => rshift'[i] = rshift[i + 1]
                        /\ i = b - 1 => rshift'[i] = cur[k]
                        /\ i >= b => rshift'[i] = rshift[i]
  BY <1>b DEF Rx!ShiftIn
<1>2. \A i \in 0 .. 7 : /\ i >= b => rshift[i] = 0
                        /\ i < b /\ i >= b - k => rshift[i] = cur[i - (b - k)]
  BY <1>b DEF Shifted
<1>3. ASSUME NEW i \in 0 .. 7
      PROVE  /\ i >= b => rshift'[i] = 0
             /\ i < b /\ i >= b - (k + 1) => rshift'[i] = cur[i - (b - (k + 1))]
  <2>1. CASE i >= b
    BY <1>1, <1>2, <2>1
  <2>2. CASE i = b - 1
    <3>1. i - (b - (k + 1)) = k
      BY <1>b, <2>2
    <3> QED BY <1>1, <2>2, <3>1
  <2>3. CASE i < b - 1
    <3>1. i + 1 \in 0 .. 7 /\ i + 1 < b /\ ~(i >= b)
      BY <2>3
    <3>2. ASSUME i >= b - (k + 1) PROVE rshift'[i] = cur[i - (b - (k + 1))]
      <4>1. i + 1 >= b - k /\ (i + 1) - (b - k) = i - (b - (k + 1))
        BY <1>b, <3>2
      <4>2. rshift[i + 1] = cur[(i + 1) - (b - k)]
        BY <1>2, <3>1, <4>1
      <4> QED BY <1>1, <2>3, <4>1, <4>2
    <3> QED BY <3>1, <3>2
  <2> QED BY <2>1, <2>2, <2>3
<1> QED BY <1>b, <1>3 DEF Shifted

\* The parity of the word received is that of the word sent.
LEMMA ParityOfShifted ==
  ASSUME lcr \in LCR, Shifted(lcr.bits)
  PROVE  Xor(rshift, 8) = Xor(cur, lcr.bits)
<1>b. PICK b \in 5 .. 8 : b = lcr.bits
  BY ModeFacts
<1>1. \A i \in 0 .. 7 : /\ i >= b => rshift[i] = 0
                        /\ i < b => rshift[i] = cur[i]
  <2>1. \A i \in 0 .. 7 : /\ i >= b => rshift[i] = 0
                          /\ i < b /\ i >= b - b => rshift[i] = cur[i - (b - b)]
    BY <1>b DEF Shifted
  <2>2. \A i \in 0 .. 7 : i >= b - b /\ i - (b - b) = i
    BY <1>b
  <2> QED BY <2>1, <2>2
<1>2. {i \in 0 .. (8 - 1) : rshift[i] = 1} = {i \in 0 .. (b - 1) : cur[i] = 1}
  BY <1>1
<1> QED BY <1>b, <1>2 DEF Xor

\* Every tick of a word that samples the line at tick n of the frame keeps them.
LEMMA ContentsStep ==
  ASSUME Rx!Machine, rx_enable, lcr \in LCR, lcr' = lcr, cur' = cur,
         NEW n \in 1 .. (Last(lcr) - 1), Position(n), Contents,
         serial_in = Level(cur, lcr, n), Position(n + 1)'
  PROVE  Contents'
<1> USE DEF Rx!Middle, Rx!LastOne
<1>b. PICK b \in 5 .. 8 : b = lcr.bits
  BY ModeFacts
<1>1. lcr'.bits = b /\ lcr.pe \in BOOLEAN /\ lcr.ep \in BOOLEAN /\ lcr.sp \in BOOLEAN
  BY <1>b DEF LCR
<1>2. ASSUME NEW k \in 1 .. 15, rcounter16 = k, Rx!Countdown PROVE rcounter16' = k - 1
  BY <1>2 DEF Rx!Countdown
<1>3. \A k : Shifted(k) /\ rshift' = rshift => Shifted(k)'
  BY ShiftedStays
<1>x. PICK x \in Bit : x = Xor(cur, lcr.bits)
  BY <1>b, TransmitterAssumptions, TxP!XorIsBit, SameDecoding DEF TxP!Bit, Bit
<1>5. CASE rstate = "sr_rec_start"
  <2>1. rstate' \in {"sr_rec_start", "sr_rec_prepare", "sr_idle"}
    BY <1>5, MachineAt DEF Rx!RecStart
  <2> QED BY <2>1 DEF Contents, InWord
<1>6. CASE rstate = "sr_rec_prepare"
  <2>1. Rx!RecPrepare
    BY <1>6, MachineAt
  <2>2. CASE rcounter16 = 0
    <3>1. /\ rstate' = "sr_rec_bit" /\ rbit_counter' = b - 1 /\ rcounter16' = 15
          /\ rshift' = Rx!ZeroByte
      BY <1>b, <2>1, <2>2 DEF Rx!RecPrepare, Rx!Countdown
    <3>2. Shifted(0)'
      BY <1>1, <3>1 DEF Shifted, Rx!ZeroByte
    <3>3. b - 1 - rbit_counter' + (IF rcounter16' < 7 THEN 1 ELSE 0) = 0
      BY <3>1
    <3>4. Shifted(lcr.bits - 1 - rbit_counter + (IF rcounter16 < 7 THEN 1 ELSE 0))'
      BY <1>1, <3>2, <3>3
    <3> QED BY <3>1, <3>4 DEF Contents, InWord
  <2>3. CASE rcounter16 # 0
    BY <1>6, <2>1, <2>3 DEF Rx!RecPrepare, Contents, InWord
  <2> QED BY <2>2, <2>3
<1>7. CASE rstate = "sr_rec_bit"
  <2>1. /\ rbit_counter \in 0 .. (b - 1) /\ rcounter16 \in 0 .. 15
        /\ n = 16 * (b - rbit_counter) + 15 - rcounter16
    BY <1>b, <1>7 DEF Position
  <2>2. Rx!RecBit /\ rbit_counter' = rbit_counter
    BY <1>7, MachineAt DEF Rx!RecBit
  <2>k. PICK k \in 0 .. (b - 1) : k = b - 1 - rbit_counter
    BY <2>1
  <2>3. Shifted(k + (IF rcounter16 < 7 THEN 1 ELSE 0))
    BY <1>7, <1>b, <2>k DEF Contents
  <2>4. CASE rcounter16 = 7
    <3>1. rcounter16' = 6 /\ rstate' = "sr_rec_bit" /\ Rx!ShiftIn
      BY <1>2, <1>7, <2>2, <2>4 DEF Rx!RecBit
    <3>2. serial_in = cur[k]
      <4>c. PICK c \in Nat : c = k + 1
        BY <2>k
      <4>1. n = 16 * c + 8 /\ c \in 1 .. b /\ c - 1 = k
        BY <2>1, <2>4, <2>k, <4>c
      <4> QED BY <1>b, <4>1, LevelInCell
    <3>3. Shifted(k)
      BY <2>3, <2>4, <2>k
    <3>4. Shifted(k + 1)'
      BY <1>b, <3>1, <3>2, <3>3, ShiftedStep
    <3>5. b - 1 - rbit_counter' + (IF rcounter16' < 7 THEN 1 ELSE 0) = k + 1
      BY <2>1, <2>2, <2>k, <3>1
    <3>6. Shifted(lcr.bits - 1 - rbit_counter + (IF rcounter16 < 7 THEN 1 ELSE 0))'
      BY <1>1, <3>4, <3>5
    <3> QED BY <3>1, <3>6 DEF Contents, InWord
  <2>5. CASE rcounter16 = 0
    <3>1. rstate' = "sr_end_bit" /\ rshift' = rshift
      BY <2>2, <2>5 DEF Rx!RecBit
    <3>2. Shifted(k + 1)
      BY <2>3, <2>5
    <3>3. Shifted(k + 1)' /\ b - rbit_counter' = k + 1
      BY <1>3, <2>1, <2>2, <2>k, <3>1, <3>2
    <3>4. Shifted(lcr.bits - rbit_counter)'
      BY <1>1, <3>3
    <3> QED BY <3>1, <3>4 DEF Contents, InWord
  <2>6. CASE rcounter16 # 0 /\ rcounter16 # 7
    <3>1. rstate' = "sr_rec_bit" /\ rshift' = rshift /\ rcounter16' = rcounter16 - 1
      BY <1>2, <1>7, <2>1, <2>2, <2>6 DEF Rx!RecBit
    <3>2. b - 1 - rbit_counter' + (IF rcounter16' < 7 THEN 1 ELSE 0)
            = k + (IF rcounter16 < 7 THEN 1 ELSE 0)
      BY <2>1, <2>2, <2>6, <2>k, <3>1
    <3>3. Shifted(lcr.bits - 1 - rbit_counter + (IF rcounter16 < 7 THEN 1 ELSE 0))'
      <4>j. PICK j : j = k + (IF rcounter16 < 7 THEN 1 ELSE 0)
        OBVIOUS
      <4>1. Shifted(j)'
        BY <1>3, <2>3, <3>1, <4>j
      <4>2. lcr'.bits - 1 - rbit_counter' + (IF rcounter16' < 7 THEN 1 ELSE 0) = j
        BY <1>1, <3>2, <4>j
      <4> QED BY <4>1, <4>2
    <3> QED BY <3>1, <3>3 DEF Contents, InWord
  <2> QED BY <2>4, <2>5, <2>6
<1>8. CASE rstate = "sr_end_bit"
  <2>1. rbit_counter \in 0 .. (b - 1)
    BY <1>b, <1>8 DEF Position
  <2>2. Rx!EndBit /\ rcounter16' = 14 /\ rshift' = rshift
    BY <1>8, MachineAt DEF Rx!EndBit
  <2>k. PICK k \in 1 .. b : k = b - rbit_counter
    BY <2>1
  <2>3. Shifted(k)'
    BY <1>3, <1>8, <1>b, <2>2, <2>k DEF Contents
  <2>4. CASE rbit_counter > 0
    <3>1. rstate' = "sr_rec_bit" /\ rbit_counter' = rbit_counter - 1
      BY <2>2, <2>4 DEF Rx!EndBit
    <3>2. lcr'.bits - 1 - rbit_counter' + (IF rcounter16' < 7 THEN 1 ELSE 0) = k
      BY <1>1, <2>1, <2>2, <2>k, <3>1
    <3>3. Shifted(lcr.bits - 1 - rbit_counter + (IF rcounter16 < 7 THEN 1 ELSE 0))'
      BY <2>3, <3>2
    <3> QED BY <3>1, <3>3 DEF Contents, InWord
  <2>5. CASE rbit_counter = 0
    <3>1. /\ rstate' \in {"sr_rec_parity", "sr_rec_stop"}
          /\ rstate' = "sr_rec_stop" => rparity_error' = FALSE
      BY <2>2, <2>5 DEF Rx!EndBit
    <3>2. Shifted(lcr.bits)'
      BY <1>1, <2>3, <2>5, <2>k
    <3> QED BY <3>1, <3>2 DEF Contents, InWord
  <2> QED BY <2>1, <2>4, <2>5
<1>9. ASSUME rstate \in InWord, rshift' = rshift PROVE Shifted(lcr.bits)'
  BY <1>1, <1>3, <1>9, <1>b DEF Contents
<1>10. CASE rstate = "sr_rec_parity"
  <2>1. Rx!RecParity /\ rshift' = rshift
    BY <1>10, MachineAt DEF Rx!RecParity
  <2>2. Shifted(lcr.bits)'
    BY <1>9, <1>10, <2>1 DEF InWord
  <2>3. CASE rcounter16 = 7
    <3>1. rstate' = "sr_ca_lc_parity" /\ rparity' = serial_in
      BY <2>1, <2>3 DEF Rx!RecParity
    <3>c. PICK c \in Nat : c = b + 1
      OBVIOUS
    <3>2. n = 16 * c + 8 /\ lcr.pe
      BY <1>10, <1>b, <2>3, <3>c DEF Position
    <3>d. c = lcr.bits + 1
      BY <1>b, <3>c
    <3>r. \A r \in 0 .. 15 : Level(cur, lcr, 16 * c + r) = ParityBit(lcr, Xor(cur, lcr.bits))
      BY <3>2, <3>d, LevelInCell, Zenon
    <3>8. 8 \in 0 .. 15
      OBVIOUS
    <3>3. Level(cur, lcr, 16 * c + 8) = ParityBit(lcr, Xor(cur, lcr.bits))
      BY <3>r, <3>8, Zenon
    <3>4. serial_in = ParityBit(lcr, Xor(cur, lcr.bits))
      BY <3>2, <3>3
    <3> QED BY <2>2, <3>1, <3>4 DEF Contents, InWord
  <2>4. CASE rcounter16 # 7
    <3>1. rstate' = "sr_rec_parity"
      BY <1>10, <2>1, <2>4 DEF Rx!RecParity
    <3> QED BY <2>2, <3>1 DEF Contents, InWord
  <2> QED BY <2>3, <2>4
<1>11. CASE rstate = "sr_ca_lc_parity"
  <2>1. Rx!CalcParity /\ rshift' = rshift /\ rparity' = rparity /\ rstate' = "sr_check_parity"
    BY <1>11, MachineAt DEF Rx!CalcParity
  <2>2. Shifted(lcr.bits)' /\ Shifted(lcr.bits) /\ rparity = ParityBit(lcr, Xor(cur, lcr.bits))
    BY <1>9, <1>11, <2>1 DEF InWord, Contents
  <2>3. rparity_xor' = (Xor(cur, lcr.bits) + rparity) % 2
    BY <2>1, <2>2, ParityOfShifted, SameDecoding DEF Rx!CalcParity
  <2> QED BY <2>1, <2>2, <2>3 DEF Contents, InWord
<1>12. CASE rstate = "sr_check_parity"
  <2>1. Rx!CheckParity /\ rshift' = rshift /\ rstate' = "sr_wait1"
    BY <1>12, MachineAt DEF Rx!CheckParity
  <2>2. /\ Shifted(lcr.bits)'
        /\ rparity = ParityBit(lcr, x)
        /\ rparity_xor = (x + rparity) % 2
    BY <1>9, <1>12, <1>x, <2>1 DEF InWord, Contents
  <2>3. rparity_error' = FALSE
    <3>1. CASE ~lcr.ep /\ ~lcr.sp
      <4>1. rparity = 1 - x
        BY <2>2, <3>1 DEF ParityBit
      <4>2. rparity_xor # 0
        BY <2>2, <4>1 DEF Bit
      <4> QED BY <2>1, <3>1, <4>2 DEF Rx!CheckParity
    <3>2. CASE ~lcr.ep /\ lcr.sp
      <4>1. rparity # 0
        BY <2>2, <3>2 DEF ParityBit
      <4> QED BY <2>1, <3>2, <4>1 DEF Rx!CheckParity
    <3>3. CASE lcr.ep /\ ~lcr.sp
      <4>1. rparity = x
        BY <2>2, <3>3 DEF ParityBit
      <4>2. rparity_xor # 1
        BY <2>2, <4>1 DEF Bit
      <4> QED BY <2>1, <3>3, <4>2 DEF Rx!CheckParity
    <3>4. CASE lcr.ep /\ lcr.sp
      <4>1. rparity # 1
        BY <2>2, <3>4 DEF ParityBit
      <4> QED BY <2>1, <3>4, <4>1 DEF Rx!CheckParity
    <3> QED BY <1>1, <3>1, <3>2, <3>3, <3>4
  <2> QED BY <2>1, <2>2, <2>3 DEF Contents, InWord
<1>13. CASE rstate = "sr_wait1"
  <2>1. /\ rshift' = rshift /\ rparity_error' = rparity_error
        /\ rstate' \in {"sr_wait1", "sr_rec_stop"}
    BY <1>13, MachineAt DEF Rx!Wait1
  <2>2. Shifted(lcr.bits)' /\ rparity_error = FALSE
    BY <1>9, <1>13, <2>1 DEF InWord, Contents
  <2> QED BY <2>1, <2>2 DEF Contents, InWord
<1>14. CASE rstate = "sr_rec_stop"
  <2>1. Rx!RecStop /\ rshift' = rshift /\ rparity_error' = rparity_error
    BY <1>14, MachineAt DEF Rx!RecStop
  <2>2. Shifted(lcr.bits)' /\ rparity_error = FALSE
    BY <1>9, <1>14, <2>1 DEF InWord, Contents
  <2>3. CASE rcounter16 = 7
    <3>1. rstate' = "sr_push" /\ rframing_error' = (serial_in = 0)
      BY <2>1, <2>3 DEF Rx!RecStop
    <3>2. serial_in = 1
      <4>c. PICK c \in Nat : c = b + 1 + ParityBits(lcr)
        BY <1>1 DEF ParityBits
      <4>1. n = 16 * c + (IF lcr.pe THEN 7 ELSE 8)
        BY <1>14, <1>b, <2>3, <4>c DEF Position, ParityBits
      <4>2. c >= lcr.bits + 1 + ParityBits(lcr)
        BY <1>b, <1>1, <4>c DEF ParityBits
      <4>3. (IF lcr.pe THEN 7 ELSE 8) \in 0 .. 15
        OBVIOUS
      <4> QED BY <4>1, <4>2, <4>3, LevelInCell
    <3>3. serial_in # 0
      BY <3>2
    <3>4. rframing_error' = FALSE
      BY <3>1, <3>3, Zenon
    <3> QED BY <2>1, <2>2, <3>1, <3>4 DEF Contents, InWord
  <2>4. CASE rcounter16 # 7
    <3>1. rstate' = "sr_rec_stop"
      BY <1>14, <2>1, <2>4 DEF Rx!RecStop
    <3> QED BY <2>1, <2>2, <3>1 DEF Contents, InWord
  <2> QED BY <2>3, <2>4
<1>15. rstate # "sr_push"
  <2>1. Last(lcr) = IF lcr.pe THEN 16 * (b + 2) + 8 ELSE 16 * (b + 1) + 9
    BY <1>b DEF Last, WordTicks, ParityBits
  <2> QED BY <2>1 DEF Position
<1> QED BY <1>5, <1>6, <1>7, <1>8, <1>10, <1>11, <1>12, <1>13, <1>14, <1>15 DEF Position

(***************************************************************************)
(* The words on their way.                                                  *)
(***************************************************************************)

\* Sequences of at most one word.
LEMMA OneWord ==
  ASSUME NEW w
  PROVE  /\ <<w>> # << >> /\ Tail(<<w>>) = << >>
         /\ <<w>> \o << >> = <<w>> /\ << >> \o <<w>> = <<w>>
         /\ << >> \o << >> = << >>
OBVIOUS

\* The words on their way when the receiver has taken one.
Rest == IF Rx!rf_push_pulse /\ flight # << >> THEN Tail(flight) ELSE flight

\* A word leaves when the receiver pushes it, one comes with a load or with a
\* break.
LEMMA FlightStep ==
  ASSUME Flight, NEW w, flight = << >> \/ flight = <<w>>
  PROVE  /\ ~Tx!Loading /\ ~(lcr'.bc /\ ~lcr.bc) => flight' = Rest
         /\ flight = << >> /\ Tx!Loading /\ ~(lcr'.bc /\ ~lcr.bc) =>
              flight' = <<Word(Tx!tf_data_out)>>
         /\ flight = << >> /\ ~Tx!Loading /\ lcr'.bc /\ ~lcr.bc => flight' = <<Break>>
<1>1. Rest = << >> \/ Rest = <<w>>
  BY OneWord DEF Rest
<1>2. flight = << >> => Rest = << >>
  BY DEF Rest
<1>3. flight' = Rest \o (IF Tx!Loading THEN <<Word(Tx!tf_data_out)>> ELSE << >>)
                     \o (IF lcr'.bc /\ ~lcr.bc THEN <<Break>> ELSE << >>)
  BY DEF Flight, Rest
<1>4. Rest \o << >> = Rest
  BY <1>1, OneWord, Zenon
<1>5. ASSUME ~Tx!Loading, ~(lcr'.bc /\ ~lcr.bc) PROVE flight' = Rest
  <2>1. flight' = Rest \o << >> \o << >>
    BY <1>3, <1>5, Zenon
  <2> QED BY <1>4, <2>1, Zenon
<1>6. ASSUME flight = << >>, Tx!Loading, ~(lcr'.bc /\ ~lcr.bc)
      PROVE  flight' = <<Word(Tx!tf_data_out)>>
  <2>1. flight' = Rest \o <<Word(Tx!tf_data_out)>> \o << >>
    BY <1>3, <1>6, Zenon
  <2>2. Rest = << >>
    BY <1>2, <1>6
  <2> QED BY <2>1, <2>2, OneWord, Zenon
<1>7. ASSUME flight = << >>, ~Tx!Loading, lcr'.bc, ~lcr.bc PROVE flight' = <<Break>>
  <2>1. flight' = Rest \o << >> \o <<Break>>
    BY <1>3, <1>7, Zenon
  <2>2. Rest = << >>
    BY <1>2, <1>7
  <2> QED BY <2>1, <2>2, OneWord, Zenon
<1> QED BY <1>5, <1>6, <1>7

\* Nothing is being pushed.
NoPush == rf_push => rf_push_q

\* Then no word leaves.
LEMMA RestStays ==
  /\ NoPush => Rest = flight
  /\ ~NoPush /\ (\E w : flight = <<w>>) => Rest = << >>
<1>1. NoPush <=> ~Rx!rf_push_pulse
  BY DEF NoPush, Rx!rf_push_pulse
<1>2. ASSUME ~NoPush, NEW w, flight = <<w>> PROVE Rest = << >>
  BY <1>1, <1>2, OneWord DEF Rest
<1> QED BY <1>1, <1>2 DEF Rest

(***************************************************************************)
(* The receiver during a frame.                                             *)
(***************************************************************************)

Preset == BrcValue(lcr)

\* The receiver before its tick n of the frame that is sent.
Receiving(n) ==
  \/ /\ n <= 0
     /\ rstate = "sr_idle" /\ NoPush /\ flight = <<Word(cur)>> /\ counter_b = Preset
  \/ /\ n >= 1 /\ n <= Last(lcr)
     /\ Position(n) /\ Contents
     /\ ~rf_push /\ (n >= 2 => ~rf_push_q) /\ flight = <<Word(cur)>>
     /\ counter_b \in Nat /\ counter_b >= Preset - n
  \/ /\ n = Last(lcr) + 1
     /\ rstate = "sr_idle" /\ rf_push /\ rf_data_in = Word(cur)
     /\ flight = IF rf_push_q THEN << >> ELSE <<Word(cur)>>
  \/ /\ n > Last(lcr) + 1
     /\ rstate = "sr_idle" /\ ~rf_push /\ flight = << >>

\* Lengths of a word and a frame.
LEMMA Lengths ==
  ASSUME NEW m \in LCR
  PROVE  /\ WordTicks(m) \in 96 .. 160
         /\ Last(m) \in (WordTicks(m) + 8) .. (WordTicks(m) + 9)
         /\ BrcValue(m) \in (WordTicks(m) + 15) .. (WordTicks(m) + 31)
         /\ BrcValue(m) = FrameTicks(m) - 1
         /\ FrameTicks(m) \in (WordTicks(m) + 16) .. (WordTicks(m) + 32)
<1>1. /\ m.bits \in 5 .. 8 /\ ParityBits(m) \in {0, 1} /\ StopTicks(m) \in {16, 24, 32}
      /\ WordTicks(m) = 16 * (1 + m.bits + ParityBits(m))
      /\ FrameTicks(m) = WordTicks(m) + StopTicks(m)
  BY ModeFacts
<1>2. BrcValue(m) = FrameTicks(m) - 1
  BY PresetValue
<1>3. Last(m) = WordTicks(m) + 8 \/ Last(m) = WordTicks(m) + 9
  BY DEF Last
<1> QED BY <1>1, <1>2, <1>3

\* The line is high after the word, and low in the middle of its start bit.
LEMMA LevelAround ==
  ASSUME NEW m \in LCR, NEW d, NEW k \in Nat
  PROVE  /\ k >= WordTicks(m) => Level(d, m, k) = 1
         /\ k <= 15 => Level(d, m, k) = 0
<1>1. PICK c \in Nat, r \in 0 .. 15 : k = 16 * c + r
  <2>1. k \div 16 \in Nat /\ k % 16 \in 0 .. 15 /\ k = 16 * (k \div 16) + (k % 16)
    OBVIOUS
  <2> QED BY <2>1
<1>2. m.bits \in 5 .. 8 /\ ParityBits(m) \in {0, 1}
      /\ WordTicks(m) = 16 * (1 + m.bits + ParityBits(m))
  BY ModeFacts
<1>3. ASSUME k >= WordTicks(m) PROVE Level(d, m, k) = 1
  <2>1. c >= m.bits + 1 + ParityBits(m)
    BY <1>1, <1>2, <1>3
  <2>2. Level(d, m, 16 * c + r) = 1
    BY <2>1, LevelInCell
  <2> QED BY <1>1, <2>2
<1>4. ASSUME k <= 15 PROVE Level(d, m, k) = 0
  <2>1. c = 0
    BY <1>1, <1>4
  <2>2. Level(d, m, 16 * c + r) = 0
    BY <2>1, LevelInCell
  <2> QED BY <1>1, <2>2
<1> QED BY <1>3, <1>4

\* A frame that goes on.
SameWord == lcr' = lcr /\ cur' = cur /\ flight' = Rest

\* Between two ticks the receiver stays where it is; the break counter may be
\* set anew.
LEMMA ReceivingWaits ==
  ASSUME Rx!Clock, ~rx_enable, lcr \in LCR, serial_in \in Bit, SameWord,
         NEW n \in Int, Receiving(n)
  PROVE  Receiving(n)'
<1>1. /\ UNCHANGED <<rstate, rcounter16, rbit_counter, rshift, rparity, rparity_xor,
                     rparity_error, rframing_error, rf_data_in, rf_push>>
      /\ rf_push_q' = rf_push
  BY DEF Rx!Clock, Rx!Machine, Rx!machine
<1>2. counter_b' = counter_b \/ counter_b' = Preset
  BY SameDecoding DEF Rx!Clock, Rx!BreakCounter, Preset
<1>3. /\ Last(lcr) \in Nat /\ Preset \in Nat
      /\ Last(lcr)' = Last(lcr) /\ Preset' = Preset /\ Word(cur)' = Word(cur)
  BY Lengths DEF SameWord, Last, WordTicks, ParityBits, Preset, BrcValue, TocValue, Index, Word
<1>4. CASE n <= 0
  <2>1. /\ rstate = "sr_idle" /\ NoPush /\ flight = <<Word(cur)>> /\ counter_b = Preset
    BY <1>3, <1>4 DEF Receiving
  <2>2. flight' = flight
    BY <2>1, RestStays DEF SameWord
  <2>3. NoPush'
    BY <1>1 DEF NoPush
  <2> QED BY <1>1, <1>2, <1>3, <1>4, <2>1, <2>2, <2>3 DEF Receiving
<1>5. CASE n >= 1 /\ n <= Last(lcr)
  <2>1. /\ Position(n) /\ Contents /\ ~rf_push /\ flight = <<Word(cur)>>
        /\ counter_b \in Nat /\ counter_b >= Preset - n
    BY <1>3, <1>5 DEF Receiving
  <2>2. flight' = flight
    BY <2>1, RestStays DEF SameWord, NoPush
  <2>3. Position(n)'
    BY <1>1, <1>3, <2>1 DEF Position, SameWord
  <2>4. Contents'
    BY <1>1, <2>1 DEF Contents, SameWord, Shifted
  <2>5. counter_b' \in Nat /\ counter_b' >= Preset' - n
    BY <1>2, <1>3, <1>5, <2>1
  <2>6. ~rf_push' /\ ~rf_push_q' /\ n <= Last(lcr)' /\ flight' = <<Word(cur)>>'
    BY <1>1, <1>3, <1>5, <2>1, <2>2
  <2> QED BY <1>5, <2>3, <2>4, <2>5, <2>6 DEF Receiving
<1>6. CASE n = Last(lcr) + 1
  <2>1. /\ rstate = "sr_idle" /\ rf_push /\ rf_data_in = Word(cur)
        /\ flight = IF rf_push_q THEN << >> ELSE <<Word(cur)>>
    BY <1>3, <1>6 DEF Receiving
  <2>2. flight' = << >>
    <3>1. CASE rf_push_q
      BY <2>1, <3>1, RestStays DEF SameWord, NoPush
    <3>2. CASE ~rf_push_q
      BY <2>1, <3>2, RestStays DEF SameWord, NoPush
    <3> QED BY <3>1, <3>2
  <2> QED BY <1>1, <1>3, <1>6, <2>1, <2>2 DEF Receiving
<1>7. CASE n > Last(lcr) + 1
  <2>1. rstate = "sr_idle" /\ ~rf_push /\ flight = << >>
    BY <1>3, <1>7 DEF Receiving
  <2>2. flight' = << >>
    BY <2>1, RestStays DEF SameWord, NoPush
  <2> QED BY <1>1, <1>3, <1>7, <2>1, <2>2 DEF Receiving
<1> QED BY <1>3, <1>4, <1>5, <1>6, <1>7

\* An idle receiver that does not see a start bit.
LEMMA IdleReceiver ==
  ASSUME Rx!Clock, rstate = "sr_idle", rx_enable => serial_in # 0 \/ counter_b = 0
  PROVE  /\ rstate' = "sr_idle" /\ NoPush'
         /\ rx_enable => ~rf_push'
         /\ ~rx_enable => rf_push' = rf_push
         /\ rf_push_q' = rf_push
<1>1. rf_push_q' = rf_push
  BY DEF Rx!Clock
<1>2. CASE rx_enable
  <2>1. Rx!Idle
    BY <1>2, MachineAt DEF Rx!Clock
  <2>2. rstate' = "sr_idle" /\ rf_push' = FALSE
    BY <1>2, <2>1 DEF Rx!Idle, Rx!break_error
  <2> QED BY <1>1, <1>2, <2>2 DEF NoPush
<1>3. CASE ~rx_enable
  <2>1. rstate' = rstate /\ rf_push' = rf_push
    BY <1>3 DEF Rx!Clock, Rx!Machine, Rx!machine
  <2> QED BY <1>1, <1>3, <2>1 DEF NoPush
<1> QED BY <1>2, <1>3

\* Every tick of the receiver that samples tick n of the frame leads to the
\* next one: the word is received as it was sent and pushed.
LEMMA ReceivingStep ==
  ASSUME Rx!Clock, rx_enable, RxTypes, lcr \in LCR, SameWord,
         NEW n \in Int, Receiving(n),
         serial_in = IF n < 0 THEN 1 ELSE Level(cur, lcr, n)
  PROVE  Receiving(n + 1)'
<1>1. rf_push_q' = rf_push /\ Rx!Machine
  BY DEF Rx!Clock
<1>2. counter_b' = CASE serial_in = 1                   -> Preset
                     [] serial_in = 0 /\ counter_b # 0  -> counter_b - 1
                     [] OTHER                           -> counter_b
  BY SameDecoding DEF Rx!Clock, Rx!BreakCounter, Preset
<1>3. /\ WordTicks(lcr) \in 96 .. 160
      /\ Last(lcr) \in (WordTicks(lcr) + 8) .. (WordTicks(lcr) + 9)
      /\ Preset \in (WordTicks(lcr) + 15) .. (WordTicks(lcr) + 31)
  BY Lengths DEF Preset
<1>0. Last(lcr) \in Nat /\ Preset \in Nat
  BY <1>3
<1>4. /\ Last(lcr)' = Last(lcr) /\ Preset' = Preset /\ Word(cur)' = Word(cur)
  BY DEF SameWord, Last, WordTicks, ParityBits, Preset, BrcValue, TocValue, Index, Word
<1>5. CASE n <= 0
  <2>1. /\ rstate = "sr_idle" /\ NoPush /\ flight = <<Word(cur)>> /\ counter_b = Preset
    BY <1>0, <1>5 DEF Receiving
  <2>2. flight' = <<Word(cur)>>'
    BY <1>4, <2>1, RestStays DEF SameWord
  <2>3. CASE n < 0
    <3>1. serial_in = 1
      BY <2>3
    <3>2. rstate' = "sr_idle" /\ NoPush' /\ counter_b' = Preset'
      BY <1>2, <1>4, <2>1, <3>1, IdleReceiver
    <3> QED BY <2>2, <2>3, <3>2 DEF Receiving
  <2>4. CASE n = 0
    <3>1. serial_in = 0
      <4>1. Level(cur, lcr, 0) = 0
        BY LevelAround
      <4> QED BY <2>4, <4>1
    <3>2. counter_b' = Preset - 1
      BY <1>2, <1>3, <2>1, <3>1
    <3>3. rstate' = "sr_rec_start" /\ rcounter16' = 14 /\ rf_push' = FALSE
      BY <1>1, <1>3, <2>1, <3>1, MachineAt DEF Rx!Idle, Rx!break_error
    <3>4. Position(1)' /\ Contents'
      BY <3>3 DEF Position, Contents, InWord
    <3>5. counter_b' \in Nat /\ counter_b' >= Preset' - 1 /\ 1 <= Last(lcr)'
      BY <1>3, <1>4, <3>2
    <3>6. Receiving(1)'
      BY <2>2, <3>3, <3>4, <3>5 DEF Receiving
    <3> QED BY <2>4, <3>6
  <2> QED BY <1>5, <2>3, <2>4
<1>6. CASE n >= 1 /\ n <= Last(lcr)
  <2>1. /\ Position(n) /\ Contents
        /\ ~rf_push /\ (n >= 2 => ~rf_push_q) /\ flight = <<Word(cur)>>
        /\ counter_b \in Nat /\ counter_b >= Preset - n
        /\ serial_in = Level(cur, lcr, n)
    BY <1>0, <1>6 DEF Receiving
  <2>2. flight' = <<Word(cur)>>'
    BY <1>4, <2>1, RestStays DEF SameWord, NoPush
  <2>3. CASE n < Last(lcr)
    <3>1. n \in 1 .. (Last(lcr) - 1)
      BY <1>3, <1>6, <2>3
    <3>2. n = 8 => serial_in = 0
      BY <2>1, LevelAround
    <3>3. Position(n + 1)' /\ ~rf_push'
      BY <1>1, <2>1, <3>1, <3>2, PositionStep DEF SameWord
    <3>4. Contents'
      BY <1>1, <2>1, <3>1, <3>3, ContentsStep DEF SameWord
    <3>5. counter_b' \in Nat /\ counter_b' >= Preset' - (n + 1)
      BY <1>2, <1>3, <1>4, <1>6, <2>1
    <3>6. n + 1 >= 1 /\ n + 1 <= Last(lcr)' /\ ~rf_push_q'
      BY <1>1, <1>3, <1>4, <2>1, <3>1
    <3> QED BY <2>2, <3>3, <3>4, <3>5, <3>6 DEF Receiving
  <2>4. CASE n = Last(lcr)
    <3>1. rstate = "sr_push"
      <4>b. PICK b \in 5 .. 8 : b = lcr.bits
        BY ModeFacts
      <4>1. Last(lcr) = IF lcr.pe THEN 16 * (b + 2) + 8 ELSE 16 * (b + 1) + 9
        BY <4>b DEF Last, WordTicks, ParityBits
      <4> QED BY <2>1, <2>4, <4>b, <4>1 DEF Position
    <3>2. serial_in = 1
      BY <1>3, <1>6, <2>1, <2>4, LevelAround
    <3>3. ~Rx!break_error
      BY <1>3, <2>1, <2>4 DEF Rx!break_error
    <3>p. Rx!Push
      BY <1>1, <3>1, MachineAt
    <3>4. rf_data_in' = Rx!ReceivedWord /\ rf_push' = TRUE /\ rstate' = "sr_idle"
      <4>1. serial_in # 0
        BY <3>2
      <4> QED BY <3>2, <3>3, <3>p, <4>1 DEF Rx!Push
    <3>5. Rx!ReceivedWord = Word(cur)
      <4>1. Shifted(lcr.bits) /\ rparity_error = FALSE /\ rframing_error = FALSE
        BY <2>1, <3>1 DEF Contents, InWord
      <4>2. rshift = [i \in 0 .. 7 |-> IF i < lcr.bits THEN cur[i] ELSE 0]
        <5>b. PICK b \in 5 .. 8 : b = lcr.bits
          BY ModeFacts
        <5>1. ASSUME NEW i \in 0 .. 7 PROVE rshift[i] = IF i < b THEN cur[i] ELSE 0
          <6>1. /\ i >= b => rshift[i] = 0
                /\ i < b /\ i >= b - b => rshift[i] = cur[i - (b - b)]
            BY <4>1, <5>b DEF Shifted
          <6>2. i >= b - b /\ i - (b - b) = i
            BY <5>b
          <6> QED BY <6>1, <6>2
        <5>2. rshift \in [0 .. 7 -> Bit]
          BY DEF RxTypes, Byte
        <5> QED BY <5>b, <5>1, <5>2
      <4> QED BY <4>1, <4>2 DEF Rx!ReceivedWord, Word, Rx!NoFlags
    <3>6. rf_push_q' = FALSE /\ n + 1 = Last(lcr)' + 1
      BY <1>1, <1>4, <2>1, <2>4, RestStays
    <3> QED BY <1>4, <2>2, <3>4, <3>5, <3>6 DEF Receiving
  <2> QED BY <1>3, <1>6, <2>3, <2>4
<1>7. CASE n > Last(lcr)
  <2>1. rstate = "sr_idle"
    BY <1>0, <1>7 DEF Receiving
  <2>2. serial_in = 1
    BY <1>3, <1>7, LevelAround
  <2>3. rstate' = "sr_idle" /\ ~rf_push'
    BY <2>1, <2>2, IdleReceiver
  <2>4. flight' = << >>
    <3>1. CASE n = Last(lcr) + 1
      <4>1. rf_push /\ flight = IF rf_push_q THEN << >> ELSE <<Word(cur)>>
        BY <1>0, <3>1 DEF Receiving
      <4>2. CASE rf_push_q
        BY <4>1, <4>2, RestStays DEF SameWord, NoPush
      <4>3. CASE ~rf_push_q
        BY <4>1, <4>3, RestStays DEF SameWord, NoPush
      <4> QED BY <4>2, <4>3
    <3>2. CASE n > Last(lcr) + 1
      <4>1. ~rf_push /\ flight = << >>
        BY <1>0, <3>2 DEF Receiving
      <4> QED BY <4>1, RestStays DEF SameWord, NoPush
    <3> QED BY <1>3, <1>7, <3>1, <3>2
  <2>5. n + 1 > Last(lcr)' + 1
    BY <1>3, <1>4, <1>7
  <2> QED BY <2>3, <2>4, <2>5 DEF Receiving
<1> QED BY <1>3, <1>5, <1>6, <1>7

(***************************************************************************)
(* The link during a frame.                                                 *)
(***************************************************************************)

\* The ticks of the receiver since it could see the frame, when it ticks next.
Seen == IF loopback THEN Sent - 1 ELSE Sent - 1 - Hidden + Lead

\* While a frame is sent,
FrameLink == /\ Sending /\ ~lcr.bc
             /\ stx_o_tmp = LineAt(Sent)
             /\ ~loopback => /\ flop_0 = LineAt(Sent - Ticked1)
                             /\ sync_dat_o = LineAt(Sent - Ticked2)
             /\ \E n \in Int : n = Seen /\ Receiving(n)

\* between frames, where the end of a break may still be in the synchroniser,
IdleLink == /\ ~Sending /\ ~lcr.bc
            /\ stx_o_tmp = 1
            /\ rstate = "sr_idle" /\ NoPush /\ flight = << >>
            /\ ~loopback => /\ tf_push => flop_0 = 1
                            /\ tf_count > 0 => flop_0 = 1 /\ sync_dat_o = 1
                            /\ sync_dat_o = 0 => counter_b = 0
                            /\ flop_0 = 0 => sync_dat_o = 0
            /\ tstate = "s_pop_byte" => counter_b = Preset

\* The registers of both ends.
Registers == /\ TxInv /\ Rx!TypeOK
             /\ flop_0 \in Bit /\ sync_dat_o \in Bit
             /\ breakTicks \in Nat /\ loopback \in BOOLEAN

\* What follows from their types.
LEMMA RegisterFacts ==
  ASSUME Registers
  PROVE  /\ TxInv /\ RxTypes /\ counter_b \in 0 .. 191
         /\ lcr \in LCR /\ stx_o_tmp \in Bit /\ serial_in \in Bit
         /\ loopback \in BOOLEAN
         /\ flop_0 \in Bit /\ sync_dat_o \in Bit /\ breakTicks \in Nat
         /\ serial_in = IF loopback THEN (IF lcr.bc THEN 0 ELSE stx_o_tmp) ELSE sync_dat_o
<1>1. /\ TxInv /\ RxTypes /\ counter_b \in 0 .. 191
      /\ flop_0 \in Bit /\ sync_dat_o \in Bit /\ breakTicks \in Nat /\ loopback \in BOOLEAN
  BY DEF Registers, Rx!TypeOK, RxTypes, Rx!Byte, Byte, Rx!Bit, Bit
<1>2. lcr \in LCR /\ stx_o_tmp \in Bit
  BY <1>1, SentRange DEF TxInv, TxP!MachineTypes, TxP!Bit, Bit
<1>3. serial_in = IF loopback THEN (IF lcr.bc THEN 0 ELSE stx_o_tmp) ELSE sync_dat_o
  BY DEF serial_in, serial_out, Tx!stx_pad_o
<1>4. serial_in \in Bit
  BY <1>1, <1>2, <1>3 DEF Bit
<1> QED BY <1>1, <1>2, <1>3, <1>4

\* What the synchroniser takes in.
LEMMA SynchroniserStep ==
  ASSUME Next
  PROVE  /\ flop_0' = IF loopback THEN 1 ELSE IF lcr.bc THEN 0 ELSE stx_o_tmp
         /\ sync_dat_o' = flop_0
         /\ loopback' = loopback
BY DEF Next, Synchronise, stx_pad_o, serial_out, Tx!stx_pad_o

\* The break counter.
LEMMA CounterStep ==
  ASSUME Next
  PROVE  /\ serial_in = 1 => counter_b' = Preset
         /\ serial_in = 0 /\ rx_enable /\ counter_b # 0 => counter_b' = counter_b - 1
         /\ serial_in = 0 /\ (~rx_enable \/ counter_b = 0) => counter_b' = counter_b
BY SameDecoding DEF Next, Rx!Clock, Rx!BreakCounter, Preset

\* A receiver in a frame has at most that word to receive.
LEMMA ReceivingFlight ==
  ASSUME NEW n, Receiving(n)
  PROVE  flight = << >> \/ flight = <<Word(cur)>>
BY DEF Receiving

\* A tick of the receiver samples the tick of the frame that it has come to.
LEMMA SampledLevel ==
  ASSUME Next, Registers, ClockInv, FrameLink, rx_enable,
         NEW n \in Int, n = Seen
  PROVE  serial_in = IF n < 0 THEN 1 ELSE Level(cur, lcr, n)
<1>s. PICK s \in Nat : s = Sent
  BY SentRange, RegisterFacts DEF FrameLink
<1>1. /\ stx_o_tmp = LineAt(s)
      /\ ~lcr.bc
      /\ ~loopback => sync_dat_o = LineAt(s - Ticked2)
      /\ n = IF loopback THEN s - 1 ELSE s - 1 - Hidden + Lead
  BY <1>s DEF FrameLink, Seen
<1>2. CASE loopback
  <2>1. serial_in = LineAt(s) /\ n = s - 1
    BY <1>1, <1>2, RegisterFacts
  <2> QED BY <2>1 DEF LineAt
<1>3. CASE ~loopback
  <2>1. Hidden = Ticked2 /\ Lead = 0 /\ Hidden \in 0 .. 2
    BY <1>3, ClockStep
  <2>2. serial_in = LineAt(s - Ticked2)
    BY <1>1, <1>3, RegisterFacts
  <2>3. s - Ticked2 = n + 1
    BY <1>1, <1>3, <2>1
  <2>4. serial_in = LineAt(n + 1)
    BY <2>2, <2>3
  <2>5. n + 1 - 1 = n /\ (n + 1 <= 0 <=> n < 0)
    OBVIOUS
  <2> QED BY <2>4, <2>5 DEF LineAt
<1> QED BY <1>2, <1>3

\* During a frame the link stays in step, and at its end both ends are idle.
LEMMA FrameLinkStep ==
  ASSUME Next, Registers, Registers', ClockInv, FrameLink
  PROVE  FrameLink' \/ IdleLink'
<1>1. /\ lcr' = lcr /\ cur' = cur /\ ~Tx!Loading /\ Sending /\ ~lcr.bc /\ lcr \in LCR
      /\ TxInv /\ TxInv' /\ RxTypes
  BY SameFrame, RegisterFacts DEF FrameLink, Sending, Tx!Loading, Registers
<1>n. PICK n \in Int : n = Seen /\ Receiving(n)
  BY DEF FrameLink
<1>s. PICK s \in 0 .. (FrameTicks(lcr) - 3) : s = Sent
  BY <1>1, SentRange
<1>2. SameWord
  BY <1>1, <1>n, ReceivingFlight, FlightStep DEF SameWord, Next
<1>3. Rx!Clock
  BY DEF Next
<1>k. PICK k \in Int : k = n + Tick2
  BY DEF Tick2
<1>4. Receiving(k)'
  <2>1. CASE rx_enable
    <3>1. serial_in = IF n < 0 THEN 1 ELSE Level(cur, lcr, n)
      BY <1>n, <2>1, SampledLevel
    <3>2. Receiving(n + 1)'
      BY <1>1, <1>2, <1>3, <1>n, <2>1, <3>1, ReceivingStep
    <3>3. k = n + 1
      BY <1>k, <2>1 DEF Tick2
    <3> QED BY <3>2, <3>3
  <2>2. CASE ~rx_enable
    <3>1. Receiving(n)'
      BY <1>1, <1>2, <1>3, <1>n, <2>2, ReceivingWaits, RegisterFacts
    <3>2. k = n
      BY <1>k, <2>2 DEF Tick2
    <3> QED BY <3>1, <3>2
  <2> QED BY <2>1, <2>2
<1>5. /\ Ticked1 \in 0 .. 1 /\ Hidden \in 0 .. 2 /\ Lead \in 0 .. 1 /\ Lead' \in 0 .. 1
      /\ Ticked1' = Tick /\ Ticked2' = Ticked1 + Tick /\ Hidden' = Hidden
      /\ loopback => Lead = 0 /\ Lead' = 0
      /\ ~loopback => Lead' = Lead + Tick2 - Tick
      /\ Tick \in 0 .. 1 /\ Tick2 \in 0 .. 1
      /\ loopback => Tick2 = Tick
  BY ClockStep DEF Tick, Tick2, rx_enable
<1>6. /\ flop_0' = IF loopback THEN 1 ELSE stx_o_tmp
      /\ sync_dat_o' = flop_0 /\ loopback' = loopback
  BY <1>1, SynchroniserStep
<1>7. /\ stx_o_tmp = LineAt(s)
      /\ ~loopback => flop_0 = LineAt(s - Ticked1)
      /\ n = IF loopback THEN s - 1 ELSE s - 1 - Hidden + Lead
  BY <1>n, <1>s DEF FrameLink, Seen
<1>8. CASE Sending' /\ Sent' = s + Tick /\ stx_o_tmp' = LineAt(s + Tick)
  <2>1. \A j : LineAt(j)' = LineAt(j)
    BY <1>1 DEF LineAt
  <2>2. stx_o_tmp' = LineAt(Sent)'
    BY <1>1, <1>8 DEF LineAt
  <2>3. ASSUME ~loopback'
        PROVE  flop_0' = LineAt(Sent - Ticked1)' /\ sync_dat_o' = LineAt(Sent - Ticked2)'
    <3>1. flop_0' = LineAt(s) /\ sync_dat_o' = LineAt(s - Ticked1)
      BY <1>6, <1>7, <2>3
    <3>2. Sent' - Ticked1' = s /\ Sent' - Ticked2' = s - Ticked1
      BY <1>5, <1>8
    <3> QED BY <1>1, <3>1, <3>2 DEF LineAt
  <2>4. k = Seen'
    <3>1. CASE loopback
      <4>1. Seen' = Sent' - 1
        BY <1>6, <3>1 DEF Seen
      <4> QED BY <1>5, <1>7, <1>8, <1>k, <3>1, <4>1
    <3>2. CASE ~loopback
      <4>1. Seen' = Sent' - 1 - Hidden' + Lead'
        BY <1>6, <3>2 DEF Seen
      <4> QED BY <1>5, <1>7, <1>8, <1>k, <3>2, <4>1
    <3> QED BY <3>1, <3>2
  <2>5. (\E i \in Int : i = Seen /\ Receiving(i))'
    BY <1>4, <2>4
  <2> QED BY <1>1, <1>8, <2>2, <2>3, <2>5 DEF FrameLink
<1>9. CASE enable /\ s = FrameTicks(lcr) - 3 /\ tstate' = "s_idle"
               /\ stx_o_tmp' = Level(cur, lcr, s)
  <2>1. /\ WordTicks(lcr) \in 96 .. 160
        /\ Last(lcr) \in (WordTicks(lcr) + 8) .. (WordTicks(lcr) + 9)
        /\ FrameTicks(lcr) \in (WordTicks(lcr) + 16) .. (WordTicks(lcr) + 32)
    BY <1>1, Lengths
  <2>2. k > Last(lcr) + 1
    BY <1>5, <1>7, <1>9, <1>k, <2>1 DEF Tick
  <2>3. Last(lcr)' = Last(lcr)
    BY <1>1 DEF Last, WordTicks, ParityBits
  <2>4. rstate' = "sr_idle" /\ ~rf_push' /\ flight' = << >>
    <3>1. Receiving(k)' /\ k > Last(lcr)' + 1 /\ Last(lcr)' \in Nat
      BY <1>4, <2>1, <2>2, <2>3
    <3> QED BY <3>1 DEF Receiving
  <2>5. stx_o_tmp' = 1
    BY <1>1, <1>9, <2>1, LevelAround
  <2>6. stx_o_tmp = 1
    <3>1. s - 1 >= WordTicks(lcr) /\ s - 1 \in Nat /\ ~(s <= 0)
      BY <1>9, <2>1
    <3> QED BY <1>1, <1>7, <3>1, LevelAround DEF LineAt
  <2>7. ~loopback => flop_0 = 1
    <3>t. PICK t \in 0 .. 1 : t = Ticked1
      BY <1>5
    <3>1. s - t - 1 >= WordTicks(lcr) /\ s - t - 1 \in Nat /\ ~(s - t <= 0)
      BY <1>9, <2>1
    <3>2. LineAt(s - t) = 1
      BY <1>1, <3>1, LevelAround DEF LineAt
    <3> QED BY <1>7, <3>2, <3>t
  <2>8. NoPush' /\ ~Sending' /\ tstate' # "s_pop_byte" /\ ~lcr'.bc
    BY <1>1, <1>9, <2>4 DEF NoPush, Sending
  <2>9. ~loopback' => flop_0' = 1 /\ sync_dat_o' = 1
    BY <1>6, <2>6, <2>7
  <2> QED BY <2>4, <2>5, <2>8, <2>9 DEF IdleLink
<1>10. enable \in BOOLEAN
  BY <1>1, SentRange
<1>11. CASE ~enable
  <2>1. Sending' /\ Sent' = s /\ stx_o_tmp' = stx_o_tmp /\ Tick = 0
    BY <1>1, <1>11, <1>s, FrameStep DEF Tick
  <2>2. s + Tick = s
    BY <2>1
  <2> QED BY <1>7, <1>8, <2>1, <2>2
<1>12. CASE enable
  <2>1. /\ stx_o_tmp' = Level(cur, lcr, s) /\ Tick = 1
        /\ \/ s = FrameTicks(lcr) - 3 /\ tstate' = "s_idle"
           \/ Sending' /\ Sent' = s + 1
    BY <1>1, <1>12, <1>s, FrameStep DEF Tick
  <2>2. LineAt(s + 1) = Level(cur, lcr, s)
    <3>1. s + 1 - 1 = s /\ ~(s + 1 <= 0)
      OBVIOUS
    <3> QED BY <3>1 DEF LineAt
  <2> QED BY <1>8, <1>9, <1>12, <2>1, <2>2
<1> QED BY <1>10, <1>11, <1>12

(***************************************************************************)
(* The link between frames.                                                 *)
(***************************************************************************)

\* Between frames the receiver stays idle, what the end of a break left in the
\* synchroniser leaves it, and the break counter is set anew before a frame.
LEMMA IdleEdge ==
  ASSUME Next, Registers, IdleLink
  PROVE  /\ rstate' = "sr_idle" /\ NoPush'
         /\ flop_0' = 1
         /\ ~loopback => /\ sync_dat_o' = 0 => counter_b' = 0
                         /\ tf_count' > 0 => sync_dat_o' = 1
         /\ loopback \/ tf_count > 0 => serial_in = 1 /\ counter_b' = Preset
<1>1. /\ ~lcr.bc /\ stx_o_tmp = 1
      /\ rstate = "sr_idle" /\ NoPush
      /\ ~loopback => /\ tf_push => flop_0 = 1
                      /\ tf_count > 0 => flop_0 = 1 /\ sync_dat_o = 1
                      /\ sync_dat_o = 0 => counter_b = 0
                      /\ flop_0 = 0 => sync_dat_o = 0
  BY DEF IdleLink
<1>2. /\ TxInv /\ RxTypes /\ loopback \in BOOLEAN /\ flop_0 \in Bit /\ sync_dat_o \in Bit
      /\ serial_in = IF loopback THEN 1 ELSE sync_dat_o
  BY <1>1, RegisterFacts
<1>3. /\ flop_0' = 1 /\ sync_dat_o' = flop_0 /\ loopback' = loopback
  BY <1>1, SynchroniserStep
<1>4. serial_in # 0 \/ counter_b = 0
  BY <1>1, <1>2 DEF Bit
<1>5. rstate' = "sr_idle" /\ NoPush'
  BY <1>1, <1>4, IdleReceiver DEF Next
<1>6. ASSUME ~loopback, sync_dat_o' = 0 PROVE counter_b' = 0
  BY <1>1, <1>2, <1>3, <1>6, CounterStep
<1>7. ASSUME ~loopback, tf_count' > 0 PROVE sync_dat_o' = 1
  BY <1>1, <1>2, <1>3, <1>7, CountStep
<1>8. ASSUME loopback \/ tf_count > 0 PROVE serial_in = 1 /\ counter_b' = Preset
  BY <1>1, <1>2, <1>8, CounterStep
<1> QED BY <1>3, <1>5, <1>6, <1>7, <1>8

\* The phases are small numbers.
LEMMA PhaseRanges ==
  /\ Ticked1 \in 0 .. 1 /\ Ticked2 \in 0 .. 2 /\ Hidden \in 0 .. 2 /\ Lead \in 0 .. 1
  /\ Ticked1' \in 0 .. 1 /\ Ticked2' \in 0 .. 2 /\ Hidden' \in 0 .. 2 /\ Lead' \in 0 .. 1
BY DEF Ticked1, Ticked2, Hidden, Lead

\* While the line mode stays, the link stays idle or a frame begins.
LEMMA IdleLinkStep ==
  ASSUME Next, Registers, Registers', IdleLink, lcr' = lcr
  PROVE  FrameLink' \/ IdleLink'
<1>1. /\ ~Sending /\ ~lcr.bc /\ stx_o_tmp = 1 /\ NoPush /\ flight = << >>
      /\ ~loopback => (tf_count > 0 => flop_0 = 1)
      /\ tstate \in {"s_idle", "s_pop_byte"}
  BY DEF IdleLink, Sending
<1>2. /\ TxInv /\ tf_count \in 0 .. 1 /\ enable \in BOOLEAN
      /\ (tstate = "s_pop_byte" => tf_count > 0)
  BY RegisterFacts, SentRange
<1>3. /\ rstate' = "sr_idle" /\ NoPush'
      /\ flop_0' = 1 /\ sync_dat_o' = flop_0 /\ loopback' = loopback
      /\ ~loopback => /\ sync_dat_o' = 0 => counter_b' = 0
                      /\ tf_count' > 0 => sync_dat_o' = 1
      /\ tf_count > 0 => counter_b' = Preset
  BY IdleEdge, SynchroniserStep
<1>4. Preset' = Preset
  BY DEF Preset, BrcValue, TocValue, Index
<1>5. CASE enable /\ tstate = "s_pop_byte"
  <2>1. /\ Sending' /\ Sent' = 0 /\ stx_o_tmp' = 1
        /\ Tx!Loading /\ cur' = Tx!tf_data_out
    BY <1>1, <1>2, <1>5, IdleStep
  <2>2. flight' = <<Word(Tx!tf_data_out)>>
    BY <1>1, <2>1, FlightStep DEF Next
  <2>3. flight' = <<Word(cur)>>'
    BY <2>1, <2>2 DEF Word
  <2>4. PICK k \in Int : k = Seen' /\ k <= 0
    <3>1. Seen' = IF loopback' THEN Sent' - 1 ELSE Sent' - 1 - Hidden' + Lead'
      BY DEF Seen
    <3>2. PICK h \in 0 .. 2, l \in 0 .. 1 : h = Hidden' /\ l = Lead'
      BY PhaseRanges
    <3>3. Seen' = IF loopback' THEN 0 - 1 ELSE 0 - 1 - h + l
      BY <2>1, <3>1, <3>2
    <3> QED BY <3>3
  <2>5. counter_b' = Preset'
    BY <1>2, <1>3, <1>4, <1>5
  <2>6. Receiving(k)'
    BY <1>3, <2>3, <2>4, <2>5 DEF Receiving
  <2>7. (\E i \in Int : i = Seen /\ Receiving(i))'
    BY <2>4, <2>6
  <2>8. /\ LineAt(Sent)' = 1 /\ LineAt(Sent - Ticked1)' = 1 /\ LineAt(Sent - Ticked2)' = 1
    <3>1. PICK i \in 0 .. 1, j \in 0 .. 2 : i = Ticked1' /\ j = Ticked2'
      BY PhaseRanges
    <3>2. 0 <= 0 /\ 0 - i <= 0 /\ 0 - j <= 0
      OBVIOUS
    <3>3. Sent' <= 0 /\ Sent' - Ticked1' <= 0 /\ Sent' - Ticked2' <= 0
      BY <2>1, <3>1, <3>2
    <3> QED BY <3>3 DEF LineAt
  <2>9. ~loopback' => flop_0' = 1 /\ sync_dat_o' = 1
    BY <1>1, <1>2, <1>3, <1>5
  <2> QED BY <1>1, <2>1, <2>7, <2>8, <2>9 DEF FrameLink
<1>6. CASE ~(enable /\ tstate = "s_pop_byte")
  <2>1. /\ ~Tx!Loading
        /\ tstate' \in {"s_idle", "s_pop_byte"} /\ stx_o_tmp' = 1
        /\ tstate' = "s_pop_byte" => tf_count > 0
    <3>1. ~Tx!Loading
      BY <1>6 DEF Tx!Loading
    <3>2. CASE ~enable
      BY <1>1, <1>2, <3>1, <3>2, IdleStep
    <3>3. CASE enable /\ tstate = "s_idle"
      BY <1>1, <1>2, <3>1, <3>3, IdleStep
    <3> QED BY <1>1, <1>2, <1>6, <3>2, <3>3
  <2>2. flight' = << >>
    <3>1. flight' = Rest
      BY <1>1, <2>1, FlightStep DEF Next
    <3> QED BY <1>1, <3>1, RestStays
  <2>3. tstate' = "s_pop_byte" => counter_b' = Preset'
    BY <1>3, <1>4, <2>1
  <2>4. ~Sending' /\ ~lcr'.bc
    BY <1>1, <2>1 DEF Sending
  <2> QED BY <1>3, <2>1, <2>2, <2>3, <2>4 DEF IdleLink
<1> QED BY <1>5, <1>6

(***************************************************************************)
(* The link in a break.                                                     *)
(***************************************************************************)

\* A break that the receiver does not see yet,
BreakComes == /\ flight = <<Break>> /\ rstate = "sr_idle" /\ NoPush
              /\ ~loopback
              /\ \/ flop_0 = 1 /\ breakTicks = 0 /\ (sync_dat_o = 0 => counter_b = 0)
                 \/ flop_0 = 0 /\ sync_dat_o = 1 /\ breakTicks <= 1

\* one that it receives, the ticks of which it counts down,
Arrived == serial_in = 0 /\ (~loopback => flop_0 = 0)
Counted == Preset - counter_b
BreakSeen == /\ flight = <<Break>> /\ Arrived
             /\ breakTicks + Lead <= Counted + 3
             /\ counter_b \in 0 .. Preset
             /\ \/ Counted = 0 /\ rstate = "sr_idle" /\ NoPush
                \/ /\ Counted \in 1 .. Last(lcr)
                   /\ \E n \in Nat : n = Counted /\ Position(n)
                   /\ ~rf_push /\ (Counted >= 2 => ~rf_push_q)
                \/ /\ Counted > Last(lcr) /\ rstate = "sr_push"
                   /\ ~rf_push /\ ~rf_push_q
             /\ rstate = "sr_push" => rframing_error = TRUE

\* and one that it has received.
BreakKnown == /\ Arrived /\ counter_b = 0 /\ rstate = "sr_idle"
              /\ \/ NoPush /\ flight = << >>
                 \/ /\ rf_push /\ ~rf_push_q /\ flight = <<Break>> /\ rf_data_in = Break
                    /\ breakTicks + Lead <= Preset + 4

BreakLink == /\ lcr.bc /\ IdleLine /\ stx_o_tmp = 1
             /\ BreakComes \/ BreakSeen \/ BreakKnown

\* The transmitter rests while break control is set or reset, and in a break.
LEMMA BreakEdge ==
  ASSUME Next, Registers, IdleLine, stx_o_tmp = 1, lcr.bc \/ lcr'.bc
  PROVE  /\ IdleLine' /\ stx_o_tmp' = 1 /\ ~Tx!Loading
         /\ Last(lcr)' = Last(lcr) /\ Preset' = Preset
<1>1. TxInv /\ tf_count = 0 /\ tstate = "s_idle" /\ ~tf_push /\ enable \in BOOLEAN /\ ~Sending
  BY RegisterFacts, SentRange DEF IdleLine, Sending
<1>2. ~Tx!Loading
  BY <1>1 DEF Tx!Loading
<1>3. tstate' = "s_idle" /\ tf_count' = 0
  BY <1>1, DriveStep, EmptyStaysEmpty DEF TxP!Next
<1>4. ~tf_push'
  BY DEF Next, Write
<1>5. stx_o_tmp' = 1
  BY <1>1, IdleStep
<1>6. UNCHANGED <<lcr.bits, lcr.pe, lcr.sb, lcr.ep, lcr.sp>>
  BY ModeStep, RegisterFacts DEF Next, TxInv
<1>7. Last(lcr)' = Last(lcr) /\ Preset' = Preset
  BY <1>6 DEF Last, WordTicks, ParityBits, Preset, BrcValue, TocValue, Index
<1> QED BY <1>2, <1>3, <1>4, <1>5, <1>7 DEF IdleLine

\* Setting break control begins a break.
LEMMA BreakBegins ==
  ASSUME Next, Registers, IdleLink, IdleLine, lcr' = [lcr EXCEPT !.bc = TRUE]
  PROVE  BreakLink'
<1>1. /\ ~lcr.bc /\ stx_o_tmp = 1 /\ flight = << >> /\ lcr \in LCR /\ loopback \in BOOLEAN
  BY RegisterFacts DEF IdleLink
<1>2. lcr'.bc
  BY <1>1 DEF LCR
<1>3. /\ IdleLine' /\ stx_o_tmp' = 1 /\ ~Tx!Loading /\ Preset' = Preset
  BY <1>1, <1>2, BreakEdge
<1>4. flight' = <<Break>>
  BY <1>1, <1>2, <1>3, FlightStep DEF Next
<1>5. breakTicks' = 0
  BY <1>1 DEF Next, BreakControl
<1>6. /\ rstate' = "sr_idle" /\ NoPush' /\ flop_0' = 1 /\ loopback' = loopback
      /\ ~loopback => (sync_dat_o' = 0 => counter_b' = 0)
      /\ loopback => counter_b' = Preset
  BY IdleEdge, SynchroniserStep
<1>7. CASE ~loopback
  BY <1>2, <1>3, <1>4, <1>5, <1>6, <1>7 DEF BreakLink, BreakComes, Break
<1>8. CASE loopback
  <2>1. Arrived'
    BY <1>2, <1>6, <1>8 DEF Arrived, serial_in, serial_out, Tx!stx_pad_o
  <2>2. Preset \in Nat
    <3>1. Preset \in 111 .. 191
      BY <1>1, PresetValue, Zenon DEF Preset
    <3> QED BY <3>1
  <2>3. Counted' = 0 /\ counter_b' \in 0 .. Preset'
    BY <1>3, <1>6, <1>8, <2>2 DEF Counted
  <2>4. Lead' = 0
    BY <1>6, <1>8 DEF Lead
  <2>5. breakTicks' + Lead' <= Counted' + 3
    BY <1>5, <2>3, <2>4
  <2>6. BreakSeen'
    BY <1>4, <1>6, <2>1, <2>3, <2>5 DEF BreakSeen, Break
  <2> QED BY <1>2, <1>3, <2>6 DEF BreakLink
<1> QED BY <1>1, <1>7, <1>8

\* In a break the ticks counted keep pace with the sender's, and nothing but
\* the synchroniser comes between the line and the receiver.
LEMMA BreakTicks ==
  ASSUME Next, Registers, ClockInv, lcr.bc, lcr' = lcr
  PROVE  /\ breakTicks' \in Nat /\ breakTicks' <= breakTicks + 1
         /\ breakTicks' + Lead' <= breakTicks + Lead + Tick2
         /\ Tick2 \in 0 .. 1
         /\ flop_0' = IF loopback THEN 1 ELSE 0
         /\ sync_dat_o' = flop_0 /\ loopback' = loopback
         /\ serial_in = IF loopback THEN 0 ELSE sync_dat_o
         /\ serial_in' = IF loopback THEN 0 ELSE sync_dat_o'
<1>1. breakTicks \in Nat /\ enable \in BOOLEAN
  BY RegisterFacts, SentRange
<1>2. breakTicks' \in {breakTicks, breakTicks + Tick}
  BY DEF Next, BreakControl, Tick
<1>3. /\ flop_0' = IF loopback THEN 1 ELSE 0
      /\ sync_dat_o' = flop_0 /\ loopback' = loopback
  BY SynchroniserStep
<1>4. /\ serial_in = IF loopback THEN 0 ELSE sync_dat_o
      /\ serial_in' = IF loopback THEN 0 ELSE sync_dat_o'
  BY <1>3 DEF serial_in, serial_out, Tx!stx_pad_o
<1>5. /\ Lead \in 0 .. 1 /\ Lead' \in 0 .. 1
      /\ loopback => Lead = 0 /\ Lead' = 0
      /\ ~loopback => Lead' = Lead + Tick2 - Tick
      /\ Tick \in 0 .. 1 /\ Tick2 \in 0 .. 1
      /\ loopback => Tick2 = Tick
  BY ClockStep DEF Tick, Tick2, rx_enable
<1>6. PICK t \in 0 .. 1, t2 \in 0 .. 1, l \in 0 .. 1, q \in 0 .. 1 :
        t = Tick /\ t2 = Tick2 /\ l = Lead /\ q = Lead'
  BY <1>5
<1>7. (loopback => l = 0 /\ q = 0 /\ t2 = t) /\ (~loopback => q = l + t2 - t)
  BY <1>5, <1>6
<1>8. breakTicks' = breakTicks \/ breakTicks' = breakTicks + t
  BY <1>2, <1>6
<1>9. breakTicks' \in Nat /\ breakTicks' <= breakTicks + 1
  BY <1>1, <1>8
<1>10. breakTicks' + q <= breakTicks + l + t2
  <2>1. q - l <= t2 - t /\ t >= 0
    BY <1>7
  <2> QED BY <1>1, <1>8, <2>1
<1> QED BY <1>3, <1>4, <1>6, <1>9, <1>10

\* A low stop bit is a framing error.
LEMMA FramingStep ==
  ASSUME Rx!Clock, rx_enable, serial_in = 0, rstate # "sr_push"
  PROVE  rstate' = "sr_push" => rframing_error' = TRUE
<1> USE DEF Rx!Middle, Rx!LastOne
<1>1. Rx!Machine
  BY DEF Rx!Clock
<1>2. CASE Rx!RecStop
  <2>1. CASE rcounter16 = 7
    <3>1. rframing_error' = (serial_in = 0)
      BY <1>2, <2>1 DEF Rx!RecStop
    <3> QED BY <3>1, Zenon
  <2>2. CASE rcounter16 # 7
    BY <1>2, <2>2 DEF Rx!RecStop
  <2> QED BY <2>1, <2>2
<1>3. CASE ~Rx!RecStop
  BY <1>1, <1>3 DEF Rx!Machine, Rx!Idle, Rx!RecStart, Rx!RecPrepare, Rx!RecBit, Rx!EndBit,
     Rx!RecParity, Rx!CalcParity, Rx!CheckParity, Rx!Wait1, Rx!Push
<1> QED BY <1>2, <1>3

\* A break comes to the receiver in two edges.
LEMMA BreakComesStep ==
  ASSUME Next, Registers, ClockInv, lcr.bc, lcr' = lcr, flight' = Rest, BreakComes
  PROVE  BreakComes' \/ BreakSeen'
<1>1. /\ flight = <<Break>> /\ rstate = "sr_idle" /\ NoPush /\ ~loopback
      /\ \/ flop_0 = 1 /\ breakTicks = 0 /\ (sync_dat_o = 0 => counter_b = 0)
         \/ flop_0 = 0 /\ sync_dat_o = 1 /\ breakTicks <= 1
  BY DEF BreakComes
<1>2. /\ breakTicks' \in Nat /\ breakTicks' <= breakTicks + 1
      /\ flop_0' = 0 /\ sync_dat_o' = flop_0 /\ loopback' = loopback
      /\ serial_in = sync_dat_o /\ serial_in' = sync_dat_o'
  BY <1>1, BreakTicks
<1>3. flight' = <<Break>>
  BY <1>1, RestStays
<1>4. sync_dat_o \in Bit /\ breakTicks \in Nat /\ lcr \in LCR
  BY RegisterFacts
<1>5. rstate' = "sr_idle" /\ NoPush'
  BY <1>1, <1>2, <1>4, IdleReceiver DEF Bit, Next
<1>6. CASE flop_0 = 1 /\ breakTicks = 0
  <2>1. breakTicks' <= 1
    BY <1>2, <1>6
  <2> QED BY <1>1, <1>2, <1>3, <1>5, <1>6, <2>1 DEF BreakComes, Break
<1>7. CASE flop_0 = 0 /\ sync_dat_o = 1 /\ breakTicks <= 1
  <2>1. Preset \in 111 .. 191
    BY <1>4, PresetValue, Zenon DEF Preset
  <2>2. Preset' = Preset
    BY DEF Preset, BrcValue, TocValue, Index
  <2>3. counter_b' = Preset
    BY <1>2, <1>7, CounterStep
  <2>4. Counted' = 0 /\ counter_b' \in 0 .. Preset'
    BY <2>1, <2>2, <2>3 DEF Counted
  <2>5. Arrived'
    BY <1>1, <1>2, <1>7 DEF Arrived
  <2>6. breakTicks' + Lead' <= Counted' + 3
    <3>1. PICK l \in 0 .. 1 : l = Lead'
      BY PhaseRanges
    <3>2. PICK t \in 0 .. 2 : t = breakTicks'
      BY <1>2, <1>4, <1>7
    <3>3. t + l <= 0 + 3
      OBVIOUS
    <3> QED BY <2>4, <3>1, <3>2, <3>3
  <2> QED BY <1>3, <1>5, <2>4, <2>5, <2>6 DEF BreakSeen, Break
<1> QED BY <1>1, <1>6, <1>7

\* The receiver counts every tick of the break, takes it for a word with a
\* framing error, waits, and when the count is down pushes the break.
LEMMA BreakSeenStep ==
  ASSUME Next, Registers, ClockInv, lcr.bc, lcr' = lcr, flight' = Rest, BreakSeen
  PROVE  BreakSeen' \/ BreakKnown'
<1>1. /\ flight = <<Break>> /\ serial_in = 0 /\ (~loopback => flop_0 = 0)
      /\ breakTicks + Lead <= Counted + 3
      /\ counter_b \in 0 .. Preset
      /\ rstate = "sr_push" => rframing_error = TRUE
  BY DEF BreakSeen, Arrived
<1>2. Rx!Clock /\ Rx!Machine /\ rf_push_q' = rf_push /\ lcr \in LCR /\ breakTicks \in Nat
  BY RegisterFacts DEF Next, Rx!Clock
<1>3. /\ breakTicks' \in Nat /\ breakTicks' + Lead' <= breakTicks + Lead + Tick2
      /\ Arrived'
  <2>1. /\ breakTicks' \in Nat /\ breakTicks' + Lead' <= breakTicks + Lead + Tick2
        /\ flop_0' = IF loopback THEN 1 ELSE 0
        /\ sync_dat_o' = flop_0 /\ loopback' = loopback
        /\ serial_in' = IF loopback THEN 0 ELSE sync_dat_o'
    BY BreakTicks
  <2> QED BY <1>1, <2>1 DEF Arrived
<1>p. PICK p \in 111 .. 191 : p = Preset
  BY <1>2, PresetValue DEF Preset
<1>4. Preset' = p /\ Last(lcr)' = Last(lcr)
  BY <1>p DEF Preset, BrcValue, TocValue, Index, Last, WordTicks, ParityBits
<1>n. PICK n \in 0 .. p : n = Counted /\ counter_b = p - n
  BY <1>1, <1>p DEF Counted
<1>5. PICK l \in 0 .. 1, q \in 0 .. 1 : l = Lead /\ q = Lead'
  BY PhaseRanges
<1>6. /\ \/ n = 0 /\ rstate = "sr_idle" /\ NoPush
         \/ n \in 1 .. Last(lcr) /\ Position(n) /\ ~rf_push /\ (n >= 2 => ~rf_push_q)
         \/ n > Last(lcr) /\ rstate = "sr_push" /\ ~rf_push /\ ~rf_push_q
  BY <1>1, <1>n DEF BreakSeen
<1>t. PICK t \in Nat, u \in Nat : t = breakTicks /\ u = breakTicks'
  BY <1>2, <1>3
<1>u. t + l <= n + 3
  BY <1>1, <1>n, <1>5, <1>t
<1>7. Last(lcr) \in Nat /\ Last(lcr) + 6 <= p
  <2>1. /\ WordTicks(lcr) \in 96 .. 160
        /\ Last(lcr) \in (WordTicks(lcr) + 8) .. (WordTicks(lcr) + 9)
        /\ Preset \in (WordTicks(lcr) + 15) .. (WordTicks(lcr) + 31)
    BY <1>2, Lengths DEF Preset
  <2> QED BY <1>p, <2>1
<1>8. flight' = <<Break>>
  BY <1>1, <1>6, RestStays DEF NoPush
<1>9. CASE ~rx_enable
  <2>1. /\ UNCHANGED <<rstate, rcounter16, rbit_counter, rshift, rparity, rparity_xor,
                       rparity_error, rframing_error, rf_data_in, rf_push>>
    BY <1>2, <1>9 DEF Rx!Machine, Rx!machine
  <2>2. counter_b' = p - n
    BY <1>1, <1>9, <1>n, CounterStep
  <2>3. Counted' = n /\ counter_b' \in 0 .. Preset'
    BY <1>4, <2>2 DEF Counted
  <2>4. breakTicks' + Lead' <= Counted' + 3
    <3>1. u + q <= t + l + 0
      BY <1>3, <1>5, <1>9, <1>t DEF Tick2
    <3>2. u + q <= n + 3
      BY <1>u, <3>1
    <3> QED BY <1>5, <1>t, <2>3, <3>2
  <2>5. CASE n = 0 /\ rstate = "sr_idle" /\ NoPush
    <3>1. rstate' = "sr_idle" /\ NoPush'
      BY <1>2, <2>1, <2>5 DEF NoPush
    <3> QED BY <1>3, <1>8, <2>3, <2>4, <2>5, <3>1 DEF BreakSeen, Break
  <2>6. CASE n \in 1 .. Last(lcr) /\ Position(n) /\ ~rf_push
    <3>1. Position(n)'
      BY <2>1, <2>6 DEF Position
    <3>2. (\E k \in Nat : k = Counted /\ Position(k))'
      BY <2>3, <3>1
    <3>3. ~rf_push' /\ ~rf_push_q' /\ Counted' \in 1 .. Last(lcr)'
      BY <1>2, <1>4, <2>1, <2>3, <2>6
    <3>4. rstate' = "sr_push" => rframing_error' = TRUE
      BY <1>1, <2>1
    <3> QED BY <1>3, <1>8, <2>3, <2>4, <3>2, <3>3, <3>4 DEF BreakSeen, Break
  <2>7. CASE n > Last(lcr) /\ rstate = "sr_push" /\ ~rf_push
    <3>1. rstate' = "sr_push" /\ ~rf_push' /\ ~rf_push_q' /\ rframing_error' = TRUE
      BY <1>1, <1>2, <2>1, <2>7
    <3>2. Counted' > Last(lcr)'
      BY <1>4, <2>3, <2>7
    <3> QED BY <1>3, <1>8, <2>3, <2>4, <3>1, <3>2 DEF BreakSeen, Break
  <2> QED BY <1>6, <2>5, <2>6, <2>7
<1>10. CASE rx_enable /\ n < p
  <2>1. counter_b' = p - (n + 1)
    <3>1. counter_b # 0
      BY <1>10, <1>n
    <3>2. counter_b' = counter_b - 1
      BY <1>1, <1>10, <3>1, CounterStep
    <3> QED BY <1>n, <3>2
  <2>2. Counted' = n + 1 /\ counter_b' \in 0 .. Preset'
    BY <1>4, <1>10, <2>1 DEF Counted
  <2>3. breakTicks' + Lead' <= Counted' + 3
    <3>1. u + q <= t + l + 1
      BY <1>3, <1>5, <1>10, <1>t DEF Tick2
    <3>2. u + q <= n + 1 + 3
      BY <1>u, <3>1
    <3> QED BY <1>5, <1>t, <2>2, <3>2
  <2>4. CASE n = 0 /\ rstate = "sr_idle"
    <3>1. ~Rx!break_error
      BY <1>10, <1>n DEF Rx!break_error
    <3>2. rstate' = "sr_rec_start" /\ rcounter16' = 14 /\ rf_push' = FALSE
      BY <1>1, <1>2, <1>10, <2>4, <3>1, MachineAt DEF Rx!Idle
    <3>3. Position(1)' /\ Counted' = 1
      BY <2>2, <2>4, <3>2 DEF Position
    <3>4. (\E k \in Nat : k = Counted /\ Position(k))'
      BY <3>3
    <3>5. Counted' \in 1 .. Last(lcr)'
      <4>1. Last(lcr) >= 1
        <5>1. Last(lcr) \in (WordTicks(lcr) + 8) .. (WordTicks(lcr) + 9) /\ WordTicks(lcr) \in 96 .. 160
          BY <1>2, Lengths
        <5> QED BY <5>1
      <4> QED BY <1>4, <1>7, <3>3, <4>1
    <3>6. Counted' >= 2 => ~rf_push_q'
      BY <3>3
    <3> QED BY <1>3, <1>8, <2>2, <2>3, <3>2, <3>4, <3>5, <3>6 DEF BreakSeen, Break
  <2>5. CASE n \in 1 .. (Last(lcr) - 1) /\ Position(n) /\ ~rf_push
    <3>1. lcr'.bits = lcr.bits /\ lcr'.pe = lcr.pe
      OBVIOUS
    <3>2. Position(n + 1)' /\ ~rf_push'
      BY <1>1, <1>2, <1>10, <2>5, <3>1, PositionStep
    <3>3. (\E k \in Nat : k = Counted /\ Position(k))'
      BY <2>2, <3>2
    <3>4. ~rf_push_q' /\ Counted' \in 1 .. Last(lcr)'
      BY <1>2, <1>4, <1>7, <2>2, <2>5
    <3>5. rstate # "sr_push"
      BY <1>7, <2>5 DEF Position
    <3>6. rstate' = "sr_push" => rframing_error' = TRUE
      BY <1>1, <1>2, <1>10, <3>5, FramingStep
    <3> QED BY <1>3, <1>8, <2>2, <2>3, <3>2, <3>3, <3>4, <3>6 DEF BreakSeen, Break
  <2>6. CASE n >= Last(lcr) /\ rstate = "sr_push" /\ ~rf_push
    <3>1. ~Rx!break_error
      BY <1>10, <1>n DEF Rx!break_error
    <3>2. Rx!Push
      BY <1>2, <1>10, <2>6, MachineAt
    <3>3. rstate' = "sr_push" /\ ~rf_push' /\ rframing_error' = TRUE
      BY <1>1, <2>6, <3>1, <3>2 DEF Rx!Push
    <3>4. ~rf_push_q' /\ Counted' > Last(lcr)'
      BY <1>2, <1>4, <1>7, <2>2, <2>6
    <3> QED BY <1>3, <1>8, <2>2, <2>3, <3>3, <3>4 DEF BreakSeen, Break
  <2>7. ASSUME n = Last(lcr), Position(n) PROVE rstate = "sr_push"
    <3>b. PICK b \in 5 .. 8 : b = lcr.bits
      BY <1>2, ModeFacts
    <3>1. Last(lcr) = IF lcr.pe THEN 16 * (b + 2) + 8 ELSE 16 * (b + 1) + 9
      BY <3>b DEF Last, WordTicks, ParityBits
    <3> QED BY <2>7, <3>b, <3>1 DEF Position
  <2> QED BY <1>6, <1>7, <2>4, <2>5, <2>6, <2>7
<1>11. CASE rx_enable /\ n = p
  <2>1. counter_b = 0 /\ counter_b' = 0 /\ Rx!break_error
    <3>1. p - n = 0
      BY <1>11
    <3>2. counter_b = 0
      BY <1>n, <3>1
    <3> QED BY <1>1, <3>2, CounterStep DEF Rx!break_error
  <2>2. rstate = "sr_push" /\ ~rf_push
    BY <1>6, <1>7, <1>11
  <2>3. rf_data_in' = Break /\ rf_push' = TRUE /\ rstate' = "sr_idle" /\ rf_push_q' = FALSE
    BY <1>2, <1>11, <2>1, <2>2, MachineAt DEF Rx!Push, Break
  <2>4. breakTicks' + Lead' <= Preset' + 4
    <3>1. u + q <= t + l + 1
      BY <1>3, <1>5, <1>11, <1>t DEF Tick2
    <3>2. u + q <= p + 4
      BY <1>11, <1>u, <3>1
    <3> QED BY <1>4, <1>5, <1>t, <3>2
  <2> QED BY <1>3, <1>8, <2>1, <2>3, <2>4 DEF BreakKnown, Break
<1>12. rx_enable \in BOOLEAN
  BY RegisterFacts, SentRange DEF rx_enable, ClockInv
<1> QED BY <1>9, <1>10, <1>11, <1>12

\* A received break leaves the link, and nothing more is received of it.
LEMMA BreakKnownStep ==
  ASSUME Next, Registers, ClockInv, lcr.bc, lcr' = lcr, flight' = Rest, BreakKnown
  PROVE  BreakKnown'
<1>1. /\ serial_in = 0 /\ (~loopback => flop_0 = 0) /\ counter_b = 0 /\ rstate = "sr_idle"
      /\ \/ NoPush /\ flight = << >>
         \/ rf_push /\ ~rf_push_q /\ flight = <<Break>>
  BY DEF BreakKnown, Arrived
<1>2. Arrived'
  <2>1. /\ flop_0' = IF loopback THEN 1 ELSE 0
        /\ sync_dat_o' = flop_0 /\ loopback' = loopback
        /\ serial_in' = IF loopback THEN 0 ELSE sync_dat_o'
    BY BreakTicks
  <2> QED BY <1>1, <2>1 DEF Arrived
<1>3. rstate' = "sr_idle" /\ NoPush'
  BY <1>1, IdleReceiver DEF Next
<1>4. counter_b' = 0
  BY <1>1, CounterStep
<1>5. flight' = << >>
  BY <1>1, RestStays DEF NoPush
<1> QED BY <1>2, <1>3, <1>4, <1>5 DEF BreakKnown

\* Break control is reset only after the receiver has the break.
LEMMA BreakEnds ==
  ASSUME Next, Registers, Registers', BreakLink, lcr' # lcr
  PROVE  IdleLink'
<1>1. /\ lcr.bc /\ IdleLine /\ stx_o_tmp = 1 /\ lcr \in LCR /\ breakTicks \in Nat
      /\ loopback \in BOOLEAN
  BY RegisterFacts DEF BreakLink
<1>2. lcr' = [lcr EXCEPT !.bc = FALSE] /\ breakTicks = BreakLength
  BY <1>1, ModeStep DEF Next
<1>3. ~lcr'.bc
  BY <1>1, <1>2 DEF LCR
<1>4. IdleLine' /\ stx_o_tmp' = 1 /\ ~Tx!Loading
  BY <1>1, BreakEdge
<1>5. /\ FrameTicks(lcr) \in 112 .. 192 /\ Preset = FrameTicks(lcr) - 1
      /\ breakTicks = FrameTicks(lcr) + 32
  <2>1. /\ BrcValue(lcr) = FrameTicks(lcr) - 1 /\ WordTicks(lcr) \in 96 .. 160
        /\ FrameTicks(lcr) \in (WordTicks(lcr) + 16) .. (WordTicks(lcr) + 32)
    BY <1>1, Lengths
  <2> QED BY <1>2, <2>1 DEF BreakLength, Preset
<1>6. PICK l \in 0 .. 1 : l = Lead
  BY PhaseRanges
<1>7. ~BreakComes
  BY <1>5 DEF BreakComes
<1>8. ~BreakSeen
  <2>1. SUFFICES ASSUME BreakSeen PROVE FALSE
    OBVIOUS
  <2>2. breakTicks + l <= Counted + 3 /\ counter_b \in 0 .. Preset
    BY <1>6, <2>1 DEF BreakSeen
  <2>3. PICK p \in Nat : p = Preset /\ breakTicks = p + 33
    BY <1>5
  <2>4. PICK c \in 0 .. p : c = counter_b
    BY <2>2, <2>3
  <2>5. p + 33 + l <= p - c + 3
    BY <2>2, <2>3, <2>4 DEF Counted
  <2> QED BY <1>6, <2>3, <2>4, <2>5
<1>9. /\ serial_in = 0 /\ (~loopback => flop_0 = 0) /\ counter_b = 0 /\ rstate = "sr_idle"
      /\ NoPush /\ flight = << >>
  <2>1. BreakKnown
    BY <1>7, <1>8 DEF BreakLink
  <2>2. ~(breakTicks + Lead <= Preset + 4)
    BY <1>5, <1>6
  <2> QED BY <2>1, <2>2 DEF BreakKnown, Arrived
<1>10. rstate' = "sr_idle" /\ NoPush'
  BY <1>9, IdleReceiver DEF Next
<1>11. flight' = << >>
  <2>1. flight' = Rest
    BY <1>1, <1>4, <1>9, FlightStep DEF Next
  <2> QED BY <1>9, <2>1, RestStays
<1>12. counter_b' = 0
  BY <1>9, CounterStep
<1>13. ~loopback' => sync_dat_o' = 0
  BY <1>9, SynchroniserStep
<1>14. ~tf_push' /\ tf_count' = 0 /\ tstate' = "s_idle" /\ ~Sending'
  BY <1>4 DEF IdleLine, Sending
<1> QED BY <1>3, <1>4, <1>10, <1>11, <1>12, <1>13, <1>14 DEF IdleLink

\* So a break stays one until it is known and break control is reset.
LEMMA BreakLinkStep ==
  ASSUME Next, Registers, Registers', ClockInv, BreakLink
  PROVE  BreakLink' \/ IdleLink'
<1>1. /\ lcr.bc /\ IdleLine /\ stx_o_tmp = 1
      /\ BreakComes \/ BreakSeen \/ BreakKnown
  BY DEF BreakLink
<1>2. CASE lcr' = lcr
  <2>1. IdleLine' /\ stx_o_tmp' = 1 /\ ~Tx!Loading
    BY <1>1, BreakEdge
  <2>2. flight' = Rest
    <3>1. flight = << >> \/ flight = <<Break>>
      BY <1>1 DEF BreakComes, BreakSeen, BreakKnown
    <3> QED BY <1>1, <2>1, <3>1, FlightStep DEF Next
  <2>3. BreakComes' \/ BreakSeen' \/ BreakKnown'
    BY <1>1, <1>2, <2>2, BreakComesStep, BreakSeenStep, BreakKnownStep
  <2> QED BY <1>1, <1>2, <2>1, <2>3 DEF BreakLink
<1> QED BY <1>2, BreakEnds

(***************************************************************************)
(* The link.                                                                *)
(***************************************************************************)

\* Idle, in a frame or in a break; the pulses fit the counts after the first edge.
LinkInv == /\ Registers /\ Dividers
           /\ IdleLink \/ (ClockInv /\ (FrameLink \/ BreakLink))

\* Both ends begin idle.
LEMMA LinkInvInit == Init => LinkInv
<1> SUFFICES ASSUME Init PROVE LinkInv
  OBVIOUS
<1>1. /\ lcr \in LCR /\ ~lcr.bc /\ loopback \in BOOLEAN /\ dl \in Nat \ {0}
  BY LinkAssumption DEF Init
<1>2. Dividers
  BY <1>1 DEF Init, Dividers
<1>3. Rx!TypeOK
  <2>1. /\ rstate \in Rx!States /\ rcounter16 \in 0 .. 15 /\ rbit_counter \in 0 .. 7
        /\ rparity \in Rx!Bit /\ rparity_xor \in Rx!Bit
        /\ rparity_error \in BOOLEAN /\ rframing_error \in BOOLEAN
        /\ rf_push \in BOOLEAN /\ rf_push_q \in BOOLEAN
        /\ counter_b \in 0 .. 191
    <3>1. Rx!Reset
      BY DEF Init
    <3>2. rf_push \in BOOLEAN /\ rf_push_q \in BOOLEAN
      BY <3>1 DEF Rx!Reset
    <3>3. rparity_error \in BOOLEAN /\ rframing_error \in BOOLEAN
      BY <3>1 DEF Rx!Reset
    <3>4. /\ rstate \in Rx!States /\ rcounter16 \in 0 .. 15 /\ rbit_counter \in 0 .. 7
          /\ rparity \in Rx!Bit /\ rparity_xor \in Rx!Bit
          /\ counter_b \in 0 .. 191
      BY <3>1 DEF Rx!Reset, Rx!States, Rx!Bit
    <3> QED BY <3>2, <3>3, <3>4
  <2>2. Rx!ZeroByte \in Rx!Byte /\ Rx!NoFlags \in Rx!Flags
    BY DEF Rx!ZeroByte, Rx!Byte, Rx!Bit, Rx!NoFlags, Rx!Flags
  <2>3. rshift \in Rx!Byte /\ rf_data_in \in [char : Rx!Byte, flags : Rx!Flags]
    BY <2>2 DEF Init, Rx!Reset
  <2> QED BY <2>1, <2>3 DEF Rx!TypeOK
<1>4. Registers
  BY <1>1, <1>3, TxInvInit DEF Init, Registers, Bit
<1>5. IdleLink
  BY <1>1 DEF Init, Tx!Reset, Rx!Reset, IdleLink, Sending, NoPush
<1> QED BY <1>2, <1>4, <1>5 DEF LinkInv

\* The registers of both ends stay in range.
LEMMA RegistersStep ==
  ASSUME Next, Registers
  PROVE  Registers'
<1>1. TxInv /\ lcr \in LCR /\ serial_in \in Bit /\ breakTicks \in Nat
      /\ stx_o_tmp \in Bit /\ flop_0 \in Bit /\ loopback \in BOOLEAN /\ Rx!TypeOK
  BY RegisterFacts DEF Registers
<1>2. TxInv'
  BY <1>1, TxInvNext
<1>3. Rx!TypeOK'
  BY <1>1, RxTypesStep DEF Next
<1>4. flop_0' \in Bit /\ sync_dat_o' \in Bit /\ loopback' \in BOOLEAN
  BY <1>1, SynchroniserStep DEF Bit
<1>5. breakTicks' \in Nat
  <2>1. breakTicks' \in {0, breakTicks, breakTicks + 1}
    BY DEF Next, BreakControl
  <2> QED BY <1>1, <2>1
<1> QED BY <1>2, <1>3, <1>4, <1>5 DEF Registers

\* Every edge leaves the link idle, in a frame or in a break.
LEMMA LinkInvNext ==
  ASSUME Next, LinkInv
  PROVE  LinkInv'
<1>1. Registers /\ Registers' /\ Dividers
  BY RegistersStep DEF LinkInv
<1>2. ClockInv' /\ Dividers'
  BY <1>1, DividersStep DEF ClockInv
<1>3. CASE IdleLink
  <2>1. lcr \in LCR /\ ~lcr.bc
    BY <1>1, <1>3, RegisterFacts DEF IdleLink
  <2>2. lcr' = lcr \/ (IdleLine /\ lcr' = [lcr EXCEPT !.bc = TRUE])
    BY <2>1, ModeStep DEF Next
  <2>3. FrameLink' \/ IdleLink' \/ BreakLink'
    BY <1>1, <1>3, <2>2, IdleLinkStep, BreakBegins
  <2> QED BY <1>1, <1>2, <2>3 DEF LinkInv
<1>4. CASE ClockInv /\ FrameLink
  <2>1. FrameLink' \/ IdleLink'
    BY <1>1, <1>4, FrameLinkStep
  <2> QED BY <1>1, <1>2, <2>1 DEF LinkInv
<1>5. CASE ClockInv /\ BreakLink
  <2>1. BreakLink' \/ IdleLink'
    BY <1>1, <1>5, BreakLinkStep
  <2> QED BY <1>1, <1>2, <2>1 DEF LinkInv
<1> QED BY <1>3, <1>4, <1>5 DEF LinkInv

\* Steps that leave the link alone leave it as it is.
LEMMA LinkInvStays ==
  ASSUME UNCHANGED vars, LinkInv
  PROVE  LinkInv'
<1> USE DEF vars, tx, rx, clocks
<1>1. Registers'
  <2>1. TxP!SerialInv'
    <3>1. UNCHANGED TxP!vars
      BY DEF TxP!vars, TxP!inputs, TxP!fifo, TxP!machine
    <3> QED BY <3>1, TransmitterAssumptions, TxP!SerialInvNext DEF LinkInv, Registers, TxInv
  <2>2. TxP!MachineTypes' /\ TxP!TypeOK'
    BY DEF LinkInv, Registers, TxInv, TxP!MachineTypes, TxP!TypeOK, TxP!fifo_tx!TypeOK,
           TxP!fifo_tx!AnyInputs, TxP!fifo_tx!Address
  <2>3. TxInv'
    BY <2>1, <2>2 DEF LinkInv, Registers, TxInv, IdleLine
  <2>4. Rx!TypeOK'
    BY DEF LinkInv, Registers, Rx!TypeOK
  <2> QED BY <2>3, <2>4 DEF LinkInv, Registers
<1>2. Dividers' /\ (ClockInv => ClockInv')
  BY DEF LinkInv, Dividers, ClockInv
<1>3. IdleLink => IdleLink'
  BY DEF IdleLink, Sending, NoPush, Preset
<1>4. /\ Last(lcr)' = Last(lcr) /\ Preset' = Preset /\ Word(cur)' = Word(cur)
      /\ (NoPush <=> NoPush') /\ serial_in' = serial_in /\ Lead' = Lead
      /\ \A n \in Int : Position(n) => Position(n)'
  BY DEF Last, WordTicks, ParityBits, Preset, Word, NoPush, serial_in, serial_out,
         Tx!stx_pad_o, Position, Lead
<1>5. FrameLink => FrameLink'
  <2> SUFFICES ASSUME FrameLink PROVE FrameLink'
    OBVIOUS
  <2>1. PICK n \in Int : n = Seen /\ Receiving(n)
    BY DEF FrameLink
  <2>2. Sent' = Sent /\ Ticked1' = Ticked1 /\ Ticked2' = Ticked2 /\ Hidden' = Hidden
    BY DEF Sent, TxP!FrameTick, TxP!TicksOfBit, Ticked1, Ticked2, Hidden, Meets
  <2>3. n = Seen'
    BY <1>4, <2>1, <2>2 DEF Seen
  <2>4. Contents => Contents'
    BY DEF Contents, Shifted
  <2>5. Receiving(n)'
    BY <1>4, <2>1, <2>4 DEF Receiving
  <2>6. (\E k \in Int : k = Seen /\ Receiving(k))'
    BY <2>3, <2>5
  <2>7. /\ Sending' /\ ~lcr'.bc
        /\ stx_o_tmp' = LineAt(Sent)'
        /\ ~loopback' => /\ flop_0' = LineAt(Sent - Ticked1)'
                         /\ sync_dat_o' = LineAt(Sent - Ticked2)'
    BY <2>2 DEF FrameLink, Sending, LineAt
  <2> QED BY <2>6, <2>7 DEF FrameLink
<1>6. BreakLink => BreakLink'
  <2> SUFFICES ASSUME BreakLink PROVE BreakLink'
    OBVIOUS
  <2>1. Counted' = Counted /\ (Arrived => Arrived') /\ IdleLine'
    BY <1>4 DEF Counted, Arrived, BreakLink, IdleLine
  <2>2. BreakComes => BreakComes'
    BY <1>4 DEF BreakComes, Break
  <2>3. BreakSeen => BreakSeen'
    <3> SUFFICES ASSUME BreakSeen PROVE BreakSeen'
      OBVIOUS
    <3>1. (\E n \in Nat : n = Counted /\ Position(n)) =>
            (\E n \in Nat : n = Counted /\ Position(n))'
      BY <1>4, <2>1
    <3> QED BY <1>4, <2>1, <3>1 DEF BreakSeen, Break
  <2>4. BreakKnown => BreakKnown'
    BY <1>4, <2>1 DEF BreakKnown, Break
  <2> QED BY <2>1, <2>2, <2>3, <2>4 DEF BreakLink
<1> QED BY <1>1, <1>2, <1>3, <1>5, <1>6 DEF LinkInv

\* The link is always in one of its conditions.
LEMMA LinkInvAlways == Spec => []LinkInv
<1>1. LinkInv /\ [Next]_vars => LinkInv'
  BY LinkInvNext, LinkInvStays
<1> QED BY <1>1, LinkInvInit, PTL DEF Spec

\* The registers of both ends, the synchroniser and the dividers stay in range
\* for every set of characters, line modes and divisors but zero.
THEOREM LinkTypeCorrect == Spec => []TypeOK
<1>1. LinkInv => TypeOK
  BY SameTransmitterTypes DEF LinkInv, Registers, TxInv, Dividers, TypeOK
<1> QED BY <1>1, LinkInvAlways, PTL

\* Whatever is sent at any divisor and in any line mode, between two UARTs whose
\* clocks have any phase or within one in loopback mode, with or without breaks:
\* a word pushed is the one sent and the only one on its way, so no word is
\* lost, repeated, mangled or made up, back to back or after a break.
THEOREM DeliveredIsAlwaysSent == Spec => []DeliveredIsSent
<1>1. ASSUME LinkInv, Rx!rf_push_pulse PROVE flight = <<rf_data_in>>
  <2>1. rf_push /\ ~rf_push_q /\ ~NoPush
    BY <1>1 DEF Rx!rf_push_pulse, NoPush
  <2>2. CASE FrameLink
    <3>1. PICK n \in Int : Receiving(n)
      BY <2>2 DEF FrameLink
    <3> QED BY <2>1, <3>1 DEF Receiving
  <2>3. CASE BreakLink
    <3>1. flight = <<Break>> /\ rf_data_in = Break
      BY <2>1, <2>3 DEF BreakLink, BreakComes, BreakSeen, BreakKnown
    <3> QED BY <3>1
  <2>4. ~IdleLink
    BY <2>1 DEF IdleLink
  <2> QED BY <1>1, <2>2, <2>3, <2>4 DEF LinkInv
<1>2. LinkInv => DeliveredIsSent
  BY <1>1 DEF DeliveredIsSent
<1> QED BY <1>2, LinkInvAlways, PTL
=============================================================================

-------------------------- MODULE TransmitterProofs -------------------------
(***************************************************************************)
(* The transmitter never loads a character from an empty FIFO, and what it  *)
(* puts on the line is the frames of a queue of characters (Serializer),    *)
(* for every depth, line mode and pace of the baud clock, provided that the *)
(* FIFO is not cleared between the tick that saw a character and the tick   *)
(* that loads it.  (TransmitterClear.cfg shows that this is needed.)        *)
(***************************************************************************)
EXTENDS Transmitter, SequenceTheorems, FiniteSetTheorems, TLAPS

\* The read strobe is high only in the first cycle after a load.
PopInv == tf_pop => tstate = "s_send_start"

\* A clear finds no character that is about to be loaded.
ClearInv == tx_reset => /\ tstate # "s_pop_byte"
                        /\ tstate = "s_idle" => tf_count = 0

\* The character seen at the tick of s_idle is still there.
LoadInv == /\ tf_count \in 0 .. Depth
           /\ tf_pop \in BOOLEAN /\ tf_push \in BOOLEAN /\ tx_reset \in BOOLEAN
           /\ PopInv
           /\ ClearInv
           /\ NoUnderrun

\* What an edge does to the number of characters stored.
LEMMA CountStep ==
  ASSUME fifo_tx!Clock, tf_count \in 0 .. Depth,
         tf_pop \in BOOLEAN, tf_push \in BOOLEAN, tx_reset \in BOOLEAN
  PROVE  /\ tf_count' \in 0 .. Depth
         /\ ~tf_pop /\ ~tx_reset => tf_count' >= tf_count
BY DepthAssumption
   DEF fifo_tx!Clock, fifo_tx!PushChar, fifo_tx!PushFull, fifo_tx!PopChar,
       fifo_tx!PushPop, fifo_tx!Hold, fifo_tx!Clear

\* The machine comes to a load from s_idle only if it sees a character there,
\* and raises the read strobe with the load only.
LEMMA MachineStep ==
  ASSUME Machine, tf_pop \in BOOLEAN, PopInv
  PROVE  /\ tf_pop' \in BOOLEAN
         /\ PopInv'
         /\ tstate' = "s_pop_byte" =>
              tstate = "s_pop_byte" \/ (tstate = "s_idle" /\ tf_count # 0)
<1>1. CASE Disabled
  BY <1>1 DEF Disabled, PopInv
<1>2. CASE Idle
  BY <1>2 DEF Idle, PopInv
<1>3. CASE PopByte
  BY <1>3 DEF PopByte, PopInv
<1>4. CASE SendStart
  BY <1>4 DEF SendStart, PopInv
<1>5. CASE SendByte
  BY <1>5 DEF SendByte, PopInv
<1>6. CASE SendParity
  BY <1>6 DEF SendParity, PopInv
<1>7. CASE SendStop
  BY <1>7 DEF SendStop, PopInv
<1> QED BY <1>1, <1>2, <1>3, <1>4, <1>5, <1>6, <1>7 DEF Machine

\* The inputs of the next cycle, where a clear is only given when it is safe.
LEMMA DriveStep ==
  ASSUME Drive, ~ClearAnyTime
  PROVE  /\ tf_push' \in BOOLEAN /\ tx_reset' \in BOOLEAN
         /\ ClearInv'
<1>1. tf_push' \in BOOLEAN /\ tx_reset' \in BOOLEAN
  BY DEF Drive
<1>2. tx_reset' => ClearIsSafe
  BY DEF Drive
<1>3. ASSUME ClearIsSafe
      PROVE  /\ tstate' # "s_pop_byte"
             /\ tstate' = "s_idle" => tf_count' = 0
  BY <1>3 DEF ClearIsSafe
<1> QED BY <1>1, <1>2, <1>3 DEF ClearInv

\* After reset nothing is stored and nothing is about to be loaded.
LEMMA LoadInvInit == Init => LoadInv
<1> SUFFICES ASSUME Init PROVE LoadInv
  OBVIOUS
<1>1. tf_count = 0 /\ tstate = "s_idle"
  BY DEF Init, Reset, fifo_tx!Reset
<1>2. tf_pop = FALSE /\ tf_push = FALSE /\ tx_reset = FALSE
  BY DEF Init, Reset
<1>3. tf_count \in 0 .. Depth
  BY <1>1, DepthAssumption
<1>4. PopInv /\ ClearInv /\ NoUnderrun
  BY <1>1, <1>2 DEF PopInv, ClearInv, NoUnderrun
<1> QED BY <1>2, <1>3, <1>4 DEF LoadInv

\* Between the two ticks nothing takes a character out of the FIFO.
LEMMA LoadInvNext ==
  ASSUME ~ClearAnyTime, LoadInv, [Next]_vars
  PROVE  LoadInv'
<1>1. CASE Next
  <2>1. /\ tf_count \in 0 .. Depth /\ PopInv /\ ClearInv /\ NoUnderrun
        /\ tf_pop \in BOOLEAN /\ tf_push \in BOOLEAN /\ tx_reset \in BOOLEAN
    BY DEF LoadInv
  <2>2. /\ tf_pop' \in BOOLEAN
        /\ PopInv'
        /\ tstate' = "s_pop_byte" =>
             tstate = "s_pop_byte" \/ (tstate = "s_idle" /\ tf_count # 0)
    BY <1>1, <2>1, MachineStep DEF Next, Clock
  <2>3. tf_count' \in 0 .. Depth /\ (~tf_pop /\ ~tx_reset => tf_count' >= tf_count)
    BY <1>1, <2>1, CountStep DEF Next, Clock
  <2>4. tf_push' \in BOOLEAN /\ tx_reset' \in BOOLEAN /\ ClearInv'
    BY <1>1, DriveStep DEF Next
  <2>5. ASSUME tstate' = "s_pop_byte" PROVE tf_count' > 0
    <3>1. CASE tstate = "s_pop_byte"
      <4>1. ~tf_pop /\ ~tx_reset /\ tf_count > 0
        BY <2>1, <3>1 DEF PopInv, ClearInv, NoUnderrun
      <4> QED BY <2>1, <2>3, <4>1
    <3>2. CASE tstate = "s_idle" /\ tf_count # 0
      <4>1. ~tf_pop /\ ~tx_reset
        BY <2>1, <3>2 DEF PopInv, ClearInv
      <4> QED BY <2>1, <2>3, <3>2, <4>1
    <3> QED BY <2>2, <2>5, <3>1, <3>2
  <2> QED BY <2>2, <2>3, <2>4, <2>5 DEF LoadInv, NoUnderrun
<1>2. CASE UNCHANGED vars
  BY <1>2 DEF vars, inputs, fifo, machine, LoadInv, PopInv, ClearInv, NoUnderrun
<1> QED BY <1>1, <1>2

\* A character is loaded only when there is one: the count seen at the tick of
\* s_idle, used again without a look at the next tick, however many cycles
\* later, is still good.
THEOREM NeverUnderruns == ASSUME ~ClearAnyTime PROVE Spec => []NoUnderrun
<1>1. LoadInv /\ [Next]_vars => LoadInv'
  BY LoadInvNext
<1>2. LoadInv => NoUnderrun
  BY DEF LoadInv
<1> QED BY <1>1, <1>2, LoadInvInit, PTL DEF Spec

(***************************************************************************)
(* The transmitter implements the serialiser.                               *)
(***************************************************************************)

\* The proofs about the FIFO, for the FIFO of the transmitter.
Fifo == INSTANCE TFifoProofs WITH Char <- Data, push <- tf_push, pop <- tf_pop,
                                  data_in <- wb_dat_i, fifo_reset <- tx_reset,
                                  reset_status <- TRUE, overrun <- FALSE,
                                  count <- tf_count

\* The inputs and the FIFO.
FifoInv == /\ lcr \in LineModes /\ wb_dat_i \in Data /\ cur \in Data
           /\ enable \in BOOLEAN
           /\ tstate \in States
           /\ Fifo!Inv
           /\ tf_pop => tf_count > 0

\* Bit k of the character is next on the line, the bits above it follow.
BitInHand(k) == /\ bit_out = cur[k]
                /\ \A i \in 0 .. 6 : i + k + 1 <= 7 => shift_out[i] = cur[i + k + 1]

WordStates == {"s_send_start", "s_send_byte", "s_send_parity"}

\* The counters and the shift register are where the character and the tick
\* of its frame put them.
FrameInv ==
  /\ tstate \in {"s_idle", "s_pop_byte"} => counter = 0
  /\ tstate \in WordStates => counter \in 0 .. 15 /\ parity_xor = Xor(cur, lcr.bits)
  /\ tstate = "s_send_start" => bit_counter = lcr.bits - 1 /\ BitInHand(0)
  /\ tstate = "s_send_byte" => /\ bit_counter \in 0 .. (lcr.bits - 1)
                               /\ BitInHand(lcr.bits - 1 - bit_counter)
  /\ tstate = "s_send_parity" => lcr.pe /\ bit_out = ParityBit(lcr, Xor(cur, lcr.bits))
  /\ tstate = "s_send_stop" => counter \in 0 .. (StopTicks(lcr) - 3)

SerialInv == LoadInv /\ FifoInv /\ FrameInv

\* The FIFO of the transmitter and that of the proofs are the same FIFO.
LEMMA SameFifo ==
  /\ fifo_tx!Clock <=> Fifo!Clock
  /\ fifo_tx!Contents = Fifo!Contents
  /\ fifo_tx!data_out = ram[bottom]
  /\ fifo_tx!Reset => Fifo!Reset
<1>1. fifo_tx!Contents = Fifo!Contents
  BY DEF fifo_tx!Contents, Fifo!Contents, fifo_tx!Stored, Fifo!Stored, fifo_tx!Slot, Fifo!Slot
<1>2. fifo_tx!data_out = ram[bottom]
  BY DEF fifo_tx!data_out
<1>3. fifo_tx!Reset => Fifo!Reset
  BY DEF fifo_tx!Reset, Fifo!Reset, fifo_tx!Address, Fifo!Address
<1>4. \A a : fifo_tx!Inc(a) = Fifo!Inc(a)
  BY DEF fifo_tx!Inc, Fifo!Inc
<1>5. fifo_tx!Clock <=> Fifo!Clock
  BY <1>4 DEF fifo_tx!Clock, Fifo!Clock, fifo_tx!WriteRam, Fifo!WriteRam,
         fifo_tx!Overrun, Fifo!Overrun, fifo_tx!PushChar, Fifo!PushChar,
         fifo_tx!PushFull, Fifo!PushFull, fifo_tx!PopChar, Fifo!PopChar,
         fifo_tx!PushPop, Fifo!PushPop, fifo_tx!Hold, Fifo!Hold, fifo_tx!Clear, Fifo!Clear
<1> QED BY <1>1, <1>2, <1>3, <1>5

\* The contents of the FIFO after a step.
LEMMA SameContentsNext == fifo_tx!Contents' = Fifo!Contents'
BY DEF fifo_tx!Contents, Fifo!Contents, fifo_tx!Stored, Fifo!Stored, fifo_tx!Slot, Fifo!Slot

\* The characters stored are a queue of bytes, with the head at data_out.
LEMMA ContentsFacts ==
  ASSUME Fifo!Inv
  PROVE  /\ Fifo!Contents \in Seq(Data) /\ Len(Fifo!Contents) = tf_count
         /\ tf_count \in 0 .. Depth
         /\ tf_count > 0 => /\ Fifo!Contents # << >>
                            /\ Head(Fifo!Contents) = ram[bottom]
                            /\ ram[bottom] \in Data
<1>1. /\ ram \in Fifo!Memory(Data) /\ bottom \in Fifo!Address /\ tf_count \in 0 .. Depth
  BY DEF Fifo!Inv, Fifo!TypeOK, Fifo!Memory
<1>2. /\ Fifo!Contents \in Seq(Data) /\ Len(Fifo!Contents) = tf_count
      /\ \A i \in 1 .. tf_count : Fifo!Contents[i] = ram[Fifo!Slot(bottom, i - 1)]
  BY <1>1, Fifo!StoredIsASequence, DepthAssumption DEF Fifo!Contents
<1>3. ASSUME tf_count > 0
      PROVE  /\ Fifo!Contents # << >>
             /\ Head(Fifo!Contents) = ram[bottom]
             /\ ram[bottom] \in Data
  <2>1. Fifo!Contents # << >>
    BY <1>2, <1>3, EmptySeq
  <2>2. Head(Fifo!Contents) = Fifo!Contents[1] /\ 1 \in 1 .. tf_count
    BY <1>2, <1>3, <2>1, HeadTailProperties
  <2>3. Fifo!Slot(bottom, 1 - 1) = bottom
    BY <1>1, DepthAssumption DEF Fifo!Slot, Fifo!Address
  <2> QED BY <1>1, <1>2, <2>1, <2>2, <2>3 DEF Fifo!Memory
<1> QED BY <1>1, <1>2, <1>3

\* An edge keeps the FIFO in order.
LEMMA FifoInvNext ==
  ASSUME Fifo!Inv, Fifo!Clock,
         tf_pop' \in BOOLEAN, tf_push' \in BOOLEAN, tx_reset' \in BOOLEAN, wb_dat_i' \in Data
  PROVE  Fifo!Inv'
<1>1. Fifo!Next
  BY DEF Fifo!Next, Fifo!Drive
<1> QED BY <1>1, Fifo!InvNext, DepthAssumption

\* The tail of an extended sequence, and of a sequence with a new head.
LEMMA TailOfAppend ==
  ASSUME NEW S, NEW s \in Seq(S), s # << >>, NEW x \in S
  PROVE  Tail(Append(s, x)) = Append(Tail(s), x)
OBVIOUS

LEMMA TailOfCons ==
  ASSUME NEW S, NEW s \in Seq(S), s # << >>, NEW x \in S
  PROVE  Tail(<<x>> \o Tail(s)) = Tail(s)
OBVIOUS

\* A machine that loads raises the read strobe for one cycle.
LEMMA StrobeStep ==
  ASSUME Machine, LoadInv, enable \in BOOLEAN
  PROVE  tf_pop' = Loading
<1>1. tf_pop \in BOOLEAN /\ (tf_pop => tstate = "s_send_start")
  BY DEF LoadInv, PopInv
<1>2. CASE ~enable /\ Disabled
  BY <1>2 DEF Loading, Disabled
<1>3. CASE enable /\ Idle
  BY <1>1, <1>3 DEF Loading, Idle
<1>4. CASE enable /\ PopByte
  BY <1>4 DEF Loading, PopByte
<1>5. CASE enable /\ SendStart
  BY <1>5 DEF Loading, SendStart
<1>6. CASE enable /\ SendByte
  BY <1>1, <1>6 DEF Loading, SendByte
<1>7. CASE enable /\ SendParity
  BY <1>1, <1>7 DEF Loading, SendParity
<1>8. CASE enable /\ SendStop
  BY <1>1, <1>8 DEF Loading, SendStop
<1> QED BY <1>2, <1>3, <1>4, <1>5, <1>6, <1>7, <1>8 DEF Machine

\* Between a load and the edge at which the character leaves, the queue of the
\* serialiser is one character ahead of the FIFO.
LEMMA QueueStep ==
  ASSUME SerialInv, SerialInv', Clock
  PROVE  Abstract!Queue
<1> DEFINE C == Fifo!Contents
<1>1. Fifo!Inv /\ Fifo!Inv' /\ Fifo!Clock
  BY SameFifo DEF SerialInv, FifoInv, Clock
<1>2. Fifo!Queue!Next
  BY <1>1, Fifo!ClockImplementsQueueStep, DepthAssumption
<1>3. /\ C \in Seq(Data) /\ Len(C) = tf_count /\ tf_count \in 0 .. Depth
      /\ wb_dat_i \in Data
      /\ tf_count > 0 <=> C # << >>
  BY <1>1, ContentsFacts, EmptySeq DEF SerialInv, FifoInv
<1>4. /\ Pending = IF tf_pop THEN Tail(C) ELSE C
      /\ Pending' = IF tf_pop' THEN Tail(C') ELSE C'
  BY SameFifo, SameContentsNext DEF SerialInv, FifoInv, Pending
<1>5. Phase = "load" <=> tstate = "s_pop_byte"
  BY DEF Phase
<1>6. /\ tf_pop' = Loading
      /\ Abstract!Loading <=> Loading
      /\ Loading => ~tf_pop /\ ~tx_reset /\ C # << >>
      /\ tf_pop => C # << >>
  <2>1. tf_pop' = Loading
    BY StrobeStep DEF Clock, SerialInv, FifoInv
  <2>2. Abstract!Loading <=> Loading
    BY <1>5 DEF Abstract!Loading, Loading
  <2> HIDE DEF C
  <2>3. Loading => ~tf_pop /\ ~tx_reset /\ C # << >>
    BY <1>3 DEF Loading, SerialInv, LoadInv, PopInv, ClearInv, NoUnderrun
  <2> QED BY <2>1, <2>2, <2>3, <1>3 DEF SerialInv, FifoInv
<1>7. tf_pop \in BOOLEAN /\ tf_push \in BOOLEAN /\ tx_reset \in BOOLEAN
  BY DEF SerialInv, LoadInv
<1> HIDE DEF C
<1> DEFINE rest == IF Loading THEN Tail(Pending) ELSE Pending
<1>8. Pending' = CASE tx_reset                              -> << >>
                   [] ~tx_reset /\ ~tf_push                 -> rest
                   [] ~tx_reset /\ tf_push /\ Len(Pending) < Depth -> Append(rest, wb_dat_i)
                   [] OTHER -> IF Loading THEN rest ELSE <<wb_dat_i>> \o Tail(Pending)
  <2>1. CASE tx_reset
    <3>1. C' = << >>
      BY <1>2, <2>1 DEF Fifo!Queue!Next, Fifo!Queue!Put,
            Fifo!Queue!ReplaceOldest, Fifo!Queue!Take, Fifo!Queue!TakeAndPut,
            Fifo!Queue!Lost, Fifo!Queue!Idle, Fifo!Queue!Clear, C
    <3> QED BY <1>4, <1>6, <2>1, <3>1
  <2>2. CASE ~tx_reset /\ ~tf_push
    <3>1. C' = IF tf_pop THEN Tail(C) ELSE C
      BY <1>2, <1>6, <2>2 DEF Fifo!Queue!Next, Fifo!Queue!Put,
            Fifo!Queue!ReplaceOldest, Fifo!Queue!Take, Fifo!Queue!TakeAndPut,
            Fifo!Queue!Lost, Fifo!Queue!Idle, Fifo!Queue!Clear, C
    <3>2. Pending' = rest
      BY <1>4, <1>6, <3>1
    <3> HIDE DEF rest
    <3> QED BY <2>2, <3>2
  <2>3. CASE ~tx_reset /\ tf_push /\ Len(Pending) < Depth
    <3>1. CASE tf_pop
      <4>1. C' = Append(Tail(C), wb_dat_i)
        BY <1>2, <1>6, <2>3, <3>1 DEF Fifo!Queue!Next, Fifo!Queue!Put,
            Fifo!Queue!ReplaceOldest, Fifo!Queue!Take, Fifo!Queue!TakeAndPut,
            Fifo!Queue!Lost, Fifo!Queue!Idle, Fifo!Queue!Clear, C
      <4>2. Pending' = Append(rest, wb_dat_i)
        BY <1>4, <1>6, <3>1, <4>1
      <4> HIDE DEF rest
      <4> QED BY <2>3, <4>2
    <3>2. CASE ~tf_pop
      <4>0. Pending = C /\ Len(C) # Depth
        BY <1>3, <1>4, <2>3, <3>2, DepthAssumption
      <4>1. C' = Append(C, wb_dat_i)
        BY <1>2, <2>3, <3>2, <4>0 DEF Fifo!Queue!Next, Fifo!Queue!Put,
            Fifo!Queue!ReplaceOldest, Fifo!Queue!Take, Fifo!Queue!TakeAndPut,
            Fifo!Queue!Lost, Fifo!Queue!Idle, Fifo!Queue!Clear, C
      <4>2. ASSUME Loading PROVE Tail(Append(C, wb_dat_i)) = Append(Tail(C), wb_dat_i)
        BY <1>3, <1>6, <4>2, TailOfAppend
      <4>3. Pending' = Append(rest, wb_dat_i)
        BY <1>4, <1>6, <4>0, <4>1, <4>2
      <4> HIDE DEF rest
      <4> QED BY <2>3, <4>3
    <3> QED BY <1>7, <3>1, <3>2
  <2>4. CASE ~tx_reset /\ tf_push /\ ~(Len(Pending) < Depth)
    <3>1. ~tf_pop
      <4>1. ASSUME tf_pop PROVE Len(Pending) = tf_count - 1
        BY <1>3, <1>4, <1>6, <4>1, HeadTailProperties
      <4> QED BY <1>3, <2>4, <4>1, DepthAssumption
    <3>2. Pending = C /\ Len(C) = Depth
      BY <1>3, <1>4, <2>4, <3>1, DepthAssumption
    <3>3. C' = <<wb_dat_i>> \o Tail(C)
      BY <1>2, <2>4, <3>1, <3>2 DEF Fifo!Queue!Next, Fifo!Queue!Put,
            Fifo!Queue!ReplaceOldest, Fifo!Queue!Take, Fifo!Queue!TakeAndPut,
            Fifo!Queue!Lost, Fifo!Queue!Idle, Fifo!Queue!Clear, C
    <3>4. C # << >>
      BY <1>3, <3>2, DepthAssumption
    <3>5. Tail(<<wb_dat_i>> \o Tail(C)) = Tail(C)
      BY <1>3, <3>4, TailOfCons
    <3>6. Pending' = IF Loading THEN rest ELSE <<wb_dat_i>> \o Tail(Pending)
      BY <1>4, <1>6, <3>2, <3>3, <3>5
    <3> HIDE DEF rest
    <3> QED BY <2>4, <3>6
  <2> HIDE DEF rest
  <2> QED BY <1>7, <2>1, <2>2, <2>3, <2>4
<1> QED BY <1>6, <1>8 DEF Abstract!Queue

\* The modes have words of five to eight bits.
LEMMA ModeFacts ==
  ASSUME NEW m \in LineModes
  PROVE  /\ m.bits \in 5 .. 8 /\ m.sb \in BOOLEAN /\ m.pe \in BOOLEAN
         /\ StopTicks(m) \in {16, 24, 32}
BY ValuesAssumption DEF LCR, StopTicks

\* The line mode stays and the character too while its frame is sent.
LEMMA SameFrame ==
  ASSUME Next, SerialInv
  PROVE  /\ tstate' # "s_idle" => lcr' = lcr
         /\ ~Loading => cur' = cur
         /\ lcr' \in LineModes /\ cur' \in Data
<1>1. /\ lcr' \in IF Quiet /\ ~tf_push' THEN LineModes ELSE {lcr}
      /\ cur' = IF Loading THEN tf_data_out ELSE cur
  BY DEF Next, Drive, Observe
<1>2. tstate' # "s_idle" => lcr' = lcr
  BY <1>1 DEF Quiet
<1>3. lcr' \in LineModes
  BY <1>1 DEF SerialInv, FifoInv
<1>4. ASSUME Loading PROVE tf_data_out \in Data
  <2>1. tf_count > 0 /\ Fifo!Inv
    BY <1>4 DEF Loading, SerialInv, FifoInv, LoadInv, NoUnderrun
  <2> QED BY <2>1, ContentsFacts, SameFifo DEF tf_data_out
<1> QED BY <1>1, <1>2, <1>3, <1>4 DEF SerialInv, FifoInv

\* The presets of the stop bits are three short of their length.
LEMMA StopLength ==
  ASSUME NEW m \in LineModes
  PROVE  StopTicks(m) - 3 = CASE ~m.sb                -> 13
                              []  m.sb /\ m.bits = 5  -> 21
                              []  m.sb /\ m.bits # 5  -> 29
<1>1. m.sb \in BOOLEAN
  BY ModeFacts
<1>2. CASE ~m.sb
  BY <1>2 DEF StopTicks
<1>3. CASE m.sb /\ m.bits = 5
  BY <1>3 DEF StopTicks
<1>4. CASE m.sb /\ m.bits # 5
  BY <1>4 DEF StopTicks
<1> QED BY <1>1, <1>2, <1>3, <1>4

\* One tick of a bit.
LEMMA BitTick ==
  ASSUME counter \in 0 .. 15, Countdown(15)
  PROVE  /\ counter' \in 0 .. 15
         /\ TicksOfBit \in 0 .. 15
         /\ LastTick => TicksOfBit = 15 /\ counter' = 0 /\ TicksOfBit' = 0
         /\ ~LastTick => TicksOfBit < 15 /\ TicksOfBit' = TicksOfBit + 1
BY DEF Countdown, LastTick, TicksOfBit

\* Shifting brings the next bit.
LEMMA ShiftStep ==
  ASSUME NEW k \in 0 .. 6, BitInHand(k), Shift, cur' = cur, cur \in Data
  PROVE  BitInHand(k + 1)'
<1>1. bit_out' = cur[k + 1]
  BY DEF BitInHand, Shift
<1>2. ASSUME NEW i \in 0 .. 6, i + (k + 1) + 1 <= 7
      PROVE  shift_out'[i] = cur[i + (k + 1) + 1]
  <2>1. i < 6 /\ i + 1 \in 0 .. 6 /\ (i + 1) + k + 1 <= 7 /\ (i + 1) + k + 1 = i + (k + 1) + 1
    BY <1>2
  <2>2. shift_out'[i] = shift_out[i + 1]
    BY <2>1 DEF Shift
  <2> QED BY <2>1, <2>2 DEF BitInHand
<1> QED BY <1>1, <1>2 DEF BitInHand

\* Every tick leaves the counters and the shift register where the character
\* and the tick put them: one step per state.
LEMMA FrameInvNext ==
  ASSUME SerialInv, Next
  PROVE  FrameInv'
<1>1. /\ lcr \in LineModes /\ cur \in Data /\ tstate \in States
      /\ lcr.bits \in 5 .. 8 /\ lcr.pe \in BOOLEAN
      /\ StopTicks(lcr) \in {16, 24, 32}
  BY ModeFacts DEF SerialInv, FifoInv
<1>2. FrameInv
  BY DEF SerialInv
<1>3. /\ tstate' # "s_idle" => lcr' = lcr
      /\ ~Loading => cur' = cur
  BY SameFrame
<1>4. CASE ~enable /\ Disabled
  <2>1. cur' = cur /\ UNCHANGED <<tstate, counter, bit_counter, shift_out, bit_out, parity_xor>>
    BY <1>3, <1>4 DEF Loading, Disabled
  <2>2. CASE tstate = "s_idle"
    BY <1>2, <2>1, <2>2 DEF FrameInv, WordStates
  <2>3. CASE tstate # "s_idle"
    BY <1>2, <1>3, <2>1, <2>3 DEF FrameInv, WordStates, BitInHand
  <2> QED BY <2>2, <2>3
<1>5. CASE enable /\ Idle
  BY <1>2, <1>5 DEF Idle, FrameInv, WordStates
<1>6. CASE enable /\ PopByte
  <2>1. Loading /\ cur' = tf_data_out /\ lcr' = lcr /\ counter' = 0 /\ tstate' = "s_send_start"
    BY <1>2, <1>3, <1>6 DEF PopByte, Loading, FrameInv, Next, Observe
  <2>2. bit_counter' = lcr.bits - 1 /\ parity_xor' = Xor(cur', lcr.bits)
    BY <1>6, <2>1 DEF PopByte
  <2>3. BitInHand(0)'
    BY <1>6, <2>1 DEF PopByte, BitInHand
  <2> QED BY <2>1, <2>2, <2>3 DEF FrameInv, WordStates
<1>7. CASE enable /\ SendStart
  <2>1. /\ cur' = cur /\ UNCHANGED <<bit_counter, shift_out, bit_out, parity_xor>>
        /\ tstate = "s_send_start" /\ tstate' \in {"s_send_start", "s_send_byte"} /\ lcr' = lcr
    BY <1>3, <1>7 DEF Loading, SendStart
  <2>2. /\ counter' \in 0 .. 15 /\ parity_xor = Xor(cur, lcr.bits)
        /\ bit_counter = lcr.bits - 1 /\ BitInHand(0)
    BY <1>2, <1>7, <2>1, BitTick DEF FrameInv, WordStates, SendStart
  <2>3. BitInHand(0)' /\ lcr.bits - 1 - bit_counter' = 0 /\ bit_counter' \in 0 .. (lcr.bits - 1)
    BY <1>1, <2>1, <2>2 DEF BitInHand
  <2> QED BY <2>1, <2>2, <2>3 DEF FrameInv, WordStates
<1>8. CASE enable /\ SendByte
  <2>1. /\ cur' = cur /\ UNCHANGED parity_xor /\ tstate = "s_send_byte"
        /\ tstate' \in {"s_send_byte", "s_send_parity", "s_send_stop"} /\ lcr' = lcr
    BY <1>3, <1>8 DEF Loading, SendByte
  <2>k. PICK k \in 0 .. 7 : k = lcr.bits - 1 - bit_counter
    BY <1>1, <1>2, <2>1 DEF FrameInv
  <2>2. /\ counter \in 0 .. 15 /\ counter' \in 0 .. 15 /\ parity_xor = Xor(cur, lcr.bits)
        /\ bit_counter \in 0 .. (lcr.bits - 1) /\ BitInHand(k)
        /\ LastTick => counter' = 0
    BY <1>2, <1>8, <2>1, <2>k, BitTick DEF FrameInv, WordStates, SendByte
  <2>3. CASE ~LastTick
    <3>1. UNCHANGED <<tstate, bit_counter, shift_out, bit_out>>
      BY <1>8, <2>3 DEF SendByte
    <3>2. BitInHand(lcr.bits - 1 - bit_counter)'
      BY <2>1, <2>2, <2>k, <3>1 DEF BitInHand
    <3> QED BY <2>1, <2>2, <3>1, <3>2 DEF FrameInv, WordStates
  <2>4. CASE LastTick /\ bit_counter > 0
    <3>1. bit_counter' = bit_counter - 1 /\ Shift /\ tstate' = tstate
      BY <1>8, <2>4 DEF SendByte
    <3>2. k \in 0 .. 6 /\ k + 1 = lcr'.bits - 1 - bit_counter' /\ bit_counter' \in 0 .. (lcr.bits - 1)
      BY <1>1, <2>1, <2>2, <2>4, <2>k, <3>1
    <3>3. BitInHand(k + 1)'
      BY <1>1, <2>1, <2>2, <3>1, <3>2, ShiftStep
    <3>4. BitInHand(lcr.bits - 1 - bit_counter)'
      BY <3>2, <3>3 DEF BitInHand
    <3> QED BY <2>1, <2>2, <3>1, <3>2, <3>4 DEF FrameInv, WordStates
  <2>5. CASE LastTick /\ bit_counter = 0 /\ ~lcr.pe
    <3>1. tstate' = "s_send_stop" /\ counter' = 0 /\ 0 \in 0 .. (StopTicks(lcr) - 3)
      BY <1>1, <1>8, <2>2, <2>5 DEF SendByte
    <3> QED BY <2>1, <3>1 DEF FrameInv, WordStates
  <2>6. CASE LastTick /\ bit_counter = 0 /\ lcr.pe
    <3>1. tstate' = "s_send_parity" /\ bit_out' = ParityBit(lcr, parity_xor)
      BY <1>8, <2>2, <2>6 DEF SendByte
    <3> QED BY <2>1, <2>2, <2>6, <3>1 DEF FrameInv, WordStates
  <2> QED BY <2>2, <2>3, <2>4, <2>5, <2>6
<1>9. CASE enable /\ SendParity
  <2>1. /\ cur' = cur /\ UNCHANGED <<bit_out, parity_xor>> /\ tstate = "s_send_parity"
        /\ lcr' = lcr
        /\ \/ tstate' = "s_send_parity" /\ ~LastTick
           \/ tstate' = "s_send_stop" /\ LastTick
    BY <1>3, <1>9 DEF Loading, SendParity
  <2>2. /\ counter' \in 0 .. 15 /\ parity_xor = Xor(cur, lcr.bits)
        /\ lcr.pe /\ bit_out = ParityBit(lcr, Xor(cur, lcr.bits))
        /\ LastTick => counter' = 0
    BY <1>2, <1>9, <2>1, BitTick DEF FrameInv, WordStates, SendParity
  <2>3. 0 \in 0 .. (StopTicks(lcr) - 3)
    BY <1>1
  <2> QED BY <2>1, <2>2, <2>3 DEF FrameInv, WordStates
<1>10. CASE enable /\ SendStop
  <2>1. /\ tstate = "s_send_stop" /\ counter \in 0 .. (StopTicks(lcr) - 3)
        /\ \/ tstate' = "s_send_stop" /\ ~LastTick /\ lcr' = lcr
           \/ tstate' = "s_idle" /\ LastTick
    BY <1>2, <1>3, <1>10 DEF SendStop, FrameInv
  <2>2. counter' = IF counter = 0 THEN StopTicks(lcr) - 3 ELSE counter - 1
    BY <1>1, <1>10, StopLength DEF SendStop, Countdown
  <2>3. counter' \in 0 .. (StopTicks(lcr) - 3) /\ (LastTick => counter' = 0)
    BY <1>1, <2>1, <2>2 DEF LastTick
  <2> QED BY <2>1, <2>3 DEF FrameInv, WordStates
<1> QED BY <1>4, <1>5, <1>6, <1>7, <1>8, <1>9, <1>10 DEF Next, Clock, Machine

\* After reset nothing is stored and nothing is on the line.
LEMMA SerialInvInit == Init => SerialInv
<1> SUFFICES ASSUME Init PROVE SerialInv
  OBVIOUS
<1>1. LoadInv
  BY LoadInvInit
<1>2. Fifo!Inv
  <2>1. Fifo!Reset /\ Fifo!AnyInputs
    BY SameFifo DEF Init, Reset, Fifo!AnyInputs
  <2> QED BY <2>1, Fifo!InvInit, DepthAssumption DEF Fifo!Init
<1>3. tstate = "s_idle" /\ counter = 0 /\ tf_pop = FALSE
  BY DEF Init, Reset
<1>4. FifoInv
  BY <1>2, <1>3 DEF Init, FifoInv, States
<1>5. FrameInv
  BY <1>3 DEF FrameInv, WordStates
<1> QED BY <1>1, <1>4, <1>5 DEF SerialInv

\* The invariant is inductive.
LEMMA SerialInvNext ==
  ASSUME ~ClearAnyTime, SerialInv, [Next]_vars
  PROVE  SerialInv'
<1>1. LoadInv'
  BY LoadInvNext DEF SerialInv
<1>2. CASE Next
  <2>1. Clock /\ Drive /\ SerialInv
    BY <1>2 DEF Next
  <2>2. /\ lcr' \in LineModes /\ cur' \in Data
    BY <1>2, SameFrame
  <2>3. wb_dat_i' \in Data /\ enable' \in BOOLEAN
    BY <2>1 DEF Drive, SerialInv, FifoInv
  <2>4. Fifo!Inv'
    <3>1. tf_pop' \in BOOLEAN /\ tf_push' \in BOOLEAN /\ tx_reset' \in BOOLEAN
      BY <1>1 DEF LoadInv
    <3>2. Fifo!Inv /\ Fifo!Clock
      BY <2>1, SameFifo DEF Clock, SerialInv, FifoInv
    <3> QED BY <2>3, <3>1, <3>2, FifoInvNext
  <2>5. tstate' \in States
    <3>1. tstate \in States
      BY DEF SerialInv, FifoInv
    <3> QED BY <2>1, <3>1 DEF Clock, Machine, Disabled, Idle, PopByte, SendStart, SendByte,
                              SendParity, SendStop, States
  <2>6. ASSUME tf_pop' PROVE tf_count' > 0
    <3>1. Loading /\ LoadInv
      BY <2>1, <2>6, StrobeStep DEF Clock, SerialInv, FifoInv
    <3>2. tf_count \in 0 .. Depth /\ tf_count > 0 /\ ~tf_pop /\ ~tx_reset
      BY <3>1 DEF Loading, LoadInv, PopInv, ClearInv, NoUnderrun
    <3>3. tf_count' \in 0 .. Depth /\ tf_count' >= tf_count
      BY <2>1, <3>1, <3>2, CountStep DEF Clock, LoadInv
    <3> QED BY <3>2, <3>3
  <2>7. FifoInv'
    BY <2>2, <2>3, <2>4, <2>5, <2>6 DEF FifoInv
  <2> QED BY <1>1, <1>2, <2>7, FrameInvNext DEF SerialInv
<1>3. CASE UNCHANGED vars
  <2>1. FrameInv'
    BY <1>3 DEF vars, inputs, fifo, machine, SerialInv, FrameInv, WordStates, BitInHand
  <2>2. Fifo!Inv'
    <3>1. UNCHANGED Fifo!vars /\ Fifo!Inv
      BY <1>3 DEF vars, inputs, fifo, machine, Fifo!vars, Fifo!inputs, Fifo!registers,
                  SerialInv, FifoInv
    <3> QED BY <3>1, Fifo!InvNext, DepthAssumption
  <2>3. FifoInv'
    BY <1>3, <2>2 DEF vars, inputs, fifo, machine, SerialInv, FifoInv
  <2> QED BY <1>1, <2>1, <2>3 DEF SerialInv
<1> QED BY <1>2, <1>3

\* The frames of Serializer.tla are those of LineControl.tla.
LEMMA SameFrames ==
  /\ \A d, m, n : Abstract!Level(d, m, n) = Level(d, m, n)
  /\ \A m : Abstract!FrameTicks(m) = FrameTicks(m)
<1>1. \A d, n : Abstract!Xor(d, n) = Xor(d, n)
  BY DEF Abstract!Xor, Xor, Abstract!Cardinality, Cardinality
<1>2. \A m, x : Abstract!ParityBit(m, x) = ParityBit(m, x)
  BY DEF Abstract!ParityBit, ParityBit
<1>3. \A d, m, n : Abstract!Level(d, m, n) = Level(d, m, n)
  BY <1>1, <1>2 DEF Abstract!Level, Level
<1>4. \A m : Abstract!FrameTicks(m) = FrameTicks(m)
  BY DEF Abstract!FrameTicks, FrameTicks, Abstract!WordTicks, WordTicks,
         Abstract!StopTicks, StopTicks, Abstract!ParityBits, ParityBits
<1> QED BY <1>3, <1>4

\* The level of the line within cell c of a frame.
LEMMA LevelInCell ==
  ASSUME NEW m \in LineModes, NEW d, NEW c \in Nat, NEW r \in 0 .. 15
  PROVE  /\ c = 0 => Level(d, m, 16 * c + r) = 0
         /\ c \in 1 .. m.bits => Level(d, m, 16 * c + r) = d[c - 1]
         /\ c = m.bits + 1 /\ m.pe => Level(d, m, 16 * c + r) = ParityBit(m, Xor(d, m.bits))
         /\ c >= m.bits + 1 + ParityBits(m) => Level(d, m, 16 * c + r) = 1
<1>1. (16 * c + r) \div 16 = c
  OBVIOUS
<1>2. Level(d, m, 16 * c + r) =
        CASE c = 0                        -> 0
          [] c \in 1 .. m.bits            -> d[c - 1]
          [] c = m.bits + 1 /\ m.pe       -> ParityBit(m, Xor(d, m.bits))
          [] OTHER                        -> 1
  BY <1>1 DEF Level
<1>3. m.bits \in 5 .. 8 /\ m.pe \in BOOLEAN
  BY ModeFacts
<1>4. CASE c = 0
  BY <1>2, <1>3, <1>4 DEF ParityBits
<1>5. CASE c \in 1 .. m.bits
  <2>1. c # 0 /\ c # m.bits + 1 /\ ~(c >= m.bits + 1 + ParityBits(m))
    BY <1>3, <1>5 DEF ParityBits
  <2>2. Level(d, m, 16 * c + r) = d[c - 1]
    BY <1>2, <1>5, <2>1
  <2> QED BY <1>5, <2>1, <2>2
<1>6. CASE c = m.bits + 1 /\ m.pe
  <2>1. c # 0 /\ c \notin 1 .. m.bits /\ ~(c >= m.bits + 1 + ParityBits(m))
    BY <1>3, <1>6 DEF ParityBits
  <2>2. Level(d, m, 16 * c + r) = ParityBit(m, Xor(d, m.bits))
    BY <1>2, <1>6, <2>1
  <2> QED BY <1>6, <2>1, <2>2
<1>7. CASE c # 0 /\ c \notin 1 .. m.bits /\ ~(c = m.bits + 1 /\ m.pe)
  <2>1. Level(d, m, 16 * c + r) = 1
    BY <1>2, <1>7
  <2> QED BY <1>7, <2>1
<1> QED BY <1>4, <1>5, <1>6, <1>7

\* The line is high from the first stop bit on, to the end of the frame.
LEMMA LevelInStop ==
  ASSUME NEW m \in LineModes, NEW d, NEW u \in 0 .. 31
  PROVE  Level(d, m, WordTicks(m) + u) = 1
<1>1. /\ m.bits \in 5 .. 8 /\ ParityBits(m) \in {0, 1}
      /\ WordTicks(m) = 16 * (1 + m.bits + ParityBits(m))
  BY ModeFacts DEF ParityBits, WordTicks
<1>2. PICK c \in Nat : c = 1 + m.bits + ParityBits(m)
  BY <1>1
<1>3. CASE u \in 0 .. 15
  <2>1. WordTicks(m) + u = 16 * c + u /\ c >= m.bits + 1 + ParityBits(m)
    BY <1>1, <1>2
  <2> QED BY <1>3, <2>1, LevelInCell
<1>4. CASE u \in 16 .. 31
  <2>1. /\ u - 16 \in 0 .. 15 /\ c + 1 \in Nat /\ c + 1 >= m.bits + 1 + ParityBits(m)
        /\ WordTicks(m) + u = 16 * (c + 1) + (u - 16)
    BY <1>1, <1>2, <1>4
  <2> QED BY <2>1, LevelInCell
<1> QED BY <1>3, <1>4

\* Every step of the machine is the serialiser waiting, looking for a
\* character, loading it, or putting the next tick of its frame on the line.
LEMMA MachineStepImplementsSerializerStep ==
  ASSUME SerialInv, SerialInv', Next
  PROVE  Abstract!Wait \/ Abstract!Look \/ Abstract!Load \/ Abstract!Send
<1>1. /\ lcr \in LineModes /\ cur \in Data /\ tstate \in States
      /\ lcr.bits \in 5 .. 8 /\ lcr.pe \in BOOLEAN
      /\ StopTicks(lcr) \in {16, 24, 32}
  BY ModeFacts DEF SerialInv, FifoInv
<1>2. FrameInv /\ FrameInv'
  BY DEF SerialInv
<1>3. /\ tstate' # "s_idle" => lcr' = lcr
      /\ ~Loading => cur' = cur
  BY SameFrame
<1>4. WordTicks(lcr) = 16 * (1 + lcr.bits + ParityBits(lcr)) /\ ParityBits(lcr) \in {0, 1}
  BY DEF WordTicks, ParityBits
<1>5. ASSUME NEW s \in {"s_send_start", "s_send_byte", "s_send_parity", "s_send_stop"},
             tstate = s, enable, cur' = cur,
             stx_o_tmp' = Level(cur, lcr, FrameTick),
             \/ /\ FrameTick = FrameTicks(lcr) - 3 /\ FrameTick' = 0
                /\ tstate' = "s_idle"
             \/ /\ FrameTick # FrameTicks(lcr) - 3 /\ FrameTick' = FrameTick + 1
                /\ tstate' \in {"s_send_start", "s_send_byte", "s_send_parity", "s_send_stop"}
      PROVE  Abstract!Send
  <2>1. Phase = "frame"
    BY <1>5 DEF Phase
  <2>2. tstate' = "s_idle" => Phase' = "idle"
    BY DEF Phase
  <2>3. tstate' \in {"s_send_start", "s_send_byte", "s_send_parity", "s_send_stop"}
          => Phase' = "frame"
    BY DEF Phase
  <2> QED BY <1>5, <2>1, <2>2, <2>3, SameFrames DEF Abstract!Send
<1>6. CASE ~enable /\ Disabled
  <2>1. /\ cur' = cur
        /\ UNCHANGED <<tstate, counter, bit_counter, shift_out, bit_out, parity_xor, stx_o_tmp>>
    BY <1>3, <1>6 DEF Loading, Disabled
  <2>2. UNCHANGED Phase
    BY <2>1 DEF Phase
  <2>3. UNCHANGED FrameTick
    <3>1. CASE tstate = "s_idle"
      BY <2>1, <3>1 DEF FrameTick
    <3>2. CASE tstate # "s_idle"
      BY <1>3, <2>1, <3>2 DEF FrameTick, TicksOfBit
    <3> QED BY <3>1, <3>2
  <2> QED BY <1>6, <2>1, <2>2, <2>3 DEF Abstract!Wait
<1>7. CASE enable /\ Idle
  <2>1. /\ cur' = cur /\ tstate = "s_idle" /\ stx_o_tmp' = 1
        /\ tstate' = IF tf_count = 0 THEN "s_idle" ELSE "s_pop_byte"
    BY <1>3, <1>7 DEF Loading, Idle
  <2>2. Phase = "idle" /\ Phase' = IF tf_count = 0 THEN "idle" ELSE "load"
    BY <2>1 DEF Phase
  <2>3. FrameTick = 0 /\ FrameTick' = 0
    BY <2>1 DEF FrameTick
  <2>4. tf_count = 0 <=> Pending = << >>
    <3>1. ~tf_pop /\ Fifo!Inv
      BY <2>1 DEF SerialInv, LoadInv, PopInv, FifoInv
    <3>2. Pending = Fifo!Contents
      BY <3>1, SameFifo DEF Pending
    <3>3. Fifo!Contents \in Seq(Data) /\ Len(Fifo!Contents) = tf_count
      BY <3>1, ContentsFacts
    <3> QED BY <3>2, <3>3, EmptySeq
  <2>5. Abstract!Look
    BY <1>7, <2>1, <2>2, <2>3, <2>4 DEF Abstract!Look
  <2> QED BY <2>5
<1>8. CASE enable /\ PopByte
  <2>1. /\ Loading /\ tstate = "s_pop_byte" /\ tstate' = "s_send_start"
        /\ stx_o_tmp' = stx_o_tmp /\ counter' = counter /\ counter = 0
        /\ cur' = ram[bottom]
    BY <1>2, <1>8, SameFifo DEF PopByte, Loading, FrameInv, Next, Observe, tf_data_out
  <2>2. Phase = "load" /\ Phase' = "frame"
    BY <2>1 DEF Phase
  <2>3. FrameTick = 0 /\ FrameTick' = 0
    BY <2>1 DEF FrameTick, TicksOfBit
  <2>4. ~tf_pop /\ Fifo!Inv /\ tf_count > 0
    BY <2>1 DEF SerialInv, LoadInv, PopInv, NoUnderrun, FifoInv
  <2>5. Pending = Fifo!Contents
    BY <2>4, SameFifo DEF Pending
  <2>6. Pending # << >> /\ Head(Pending) = ram[bottom]
    BY <2>4, <2>5, ContentsFacts
  <2> QED BY <1>8, <2>1, <2>2, <2>3, <2>6 DEF Abstract!Load, Abstract!Loading
<1>9. CASE enable /\ SendStart
  <2>1. /\ cur' = cur /\ tstate = "s_send_start" /\ lcr' = lcr /\ stx_o_tmp' = 0
        /\ bit_counter' = bit_counter /\ bit_counter = lcr.bits - 1
        /\ \/ tstate' = "s_send_start" /\ ~LastTick
           \/ tstate' = "s_send_byte" /\ LastTick
    BY <1>2, <1>3, <1>9 DEF Loading, SendStart, FrameInv
  <2>2. /\ TicksOfBit \in 0 .. 15
        /\ LastTick => TicksOfBit = 15 /\ TicksOfBit' = 0
        /\ ~LastTick => TicksOfBit < 15 /\ TicksOfBit' = TicksOfBit + 1
    BY <1>2, <1>9, BitTick DEF FrameInv, WordStates, SendStart
  <2>3. FrameTick = 16 * 0 + TicksOfBit
    BY <2>1, <2>2 DEF FrameTick
  <2>4. FrameTick' = FrameTick + 1
    BY <1>1, <2>1, <2>2, <2>3 DEF FrameTick
  <2>5. FrameTick # FrameTicks(lcr) - 3
    BY <1>1, <1>4, <2>2, <2>3 DEF FrameTicks
  <2>6. Level(cur, lcr, FrameTick) = 0
    BY <1>1, <2>2, <2>3, LevelInCell
  <2> QED BY <1>5, <1>9, <2>1, <2>4, <2>5, <2>6
<1>10. CASE enable /\ SendByte
  <2>1. /\ cur' = cur /\ tstate = "s_send_byte" /\ lcr' = lcr /\ stx_o_tmp' = bit_out
        /\ bit_counter \in 0 .. (lcr.bits - 1)
        /\ BitInHand(lcr.bits - 1 - bit_counter)
        /\ \/ tstate' = "s_send_byte" /\ ~LastTick /\ bit_counter' = bit_counter
           \/ tstate' = "s_send_byte" /\ LastTick /\ bit_counter' = bit_counter - 1
           \/ tstate' = "s_send_stop" /\ LastTick /\ bit_counter = 0 /\ ~lcr.pe
           \/ tstate' = "s_send_parity" /\ LastTick /\ bit_counter = 0 /\ lcr.pe
    BY <1>2, <1>3, <1>10 DEF Loading, SendByte, FrameInv
  <2>2. /\ TicksOfBit \in 0 .. 15
        /\ LastTick => TicksOfBit = 15 /\ TicksOfBit' = 0 /\ counter' = 0
        /\ ~LastTick => TicksOfBit < 15 /\ TicksOfBit' = TicksOfBit + 1
    BY <1>2, <1>10, BitTick DEF FrameInv, WordStates, SendByte
  <2>c. PICK c \in 1 .. lcr.bits : c = lcr.bits - bit_counter
    BY <1>1, <2>1
  <2>3. FrameTick = 16 * c + TicksOfBit
    BY <2>1, <2>c DEF FrameTick
  <2>4. FrameTick' = FrameTick + 1
    <3>1. CASE tstate' = "s_send_byte"
      <4>1. FrameTick' = 16 * (lcr.bits - bit_counter') + TicksOfBit'
        BY <2>1, <3>1 DEF FrameTick
      <4> QED BY <1>1, <2>1, <2>2, <2>3, <2>c, <3>1, <4>1
    <3>2. CASE tstate' = "s_send_parity"
      <4>1. FrameTick' = 16 * (lcr.bits + 1) + TicksOfBit'
        BY <2>1, <3>2 DEF FrameTick
      <4> QED BY <1>1, <2>1, <2>2, <2>3, <2>c, <3>2, <4>1
    <3>3. CASE tstate' = "s_send_stop"
      <4>1. FrameTick' = WordTicks(lcr) + 0 /\ ParityBits(lcr) = 0
        BY <2>1, <2>2, <3>3 DEF FrameTick, ParityBits
      <4> QED BY <1>1, <1>4, <2>1, <2>2, <2>3, <2>c, <3>3, <4>1
    <3> QED BY <2>1, <3>1, <3>2, <3>3
  <2>5. FrameTick # FrameTicks(lcr) - 3
    BY <1>1, <1>4, <2>2, <2>3 DEF FrameTicks
  <2>6. Level(cur, lcr, FrameTick) = bit_out
    <3>1. Level(cur, lcr, FrameTick) = cur[c - 1]
      BY <1>1, <2>2, <2>3, LevelInCell
    <3> QED BY <1>1, <2>1, <2>c, <3>1 DEF BitInHand
  <2> QED BY <1>5, <1>10, <2>1, <2>4, <2>5, <2>6
<1>11. CASE enable /\ SendParity
  <2>1. /\ cur' = cur /\ tstate = "s_send_parity" /\ lcr' = lcr /\ stx_o_tmp' = bit_out
        /\ lcr.pe /\ bit_out = ParityBit(lcr, Xor(cur, lcr.bits))
        /\ \/ tstate' = "s_send_parity" /\ ~LastTick
           \/ tstate' = "s_send_stop" /\ LastTick
    BY <1>2, <1>3, <1>11 DEF Loading, SendParity, FrameInv
  <2>2. /\ TicksOfBit \in 0 .. 15
        /\ LastTick => TicksOfBit = 15 /\ TicksOfBit' = 0 /\ counter' = 0
        /\ ~LastTick => TicksOfBit < 15 /\ TicksOfBit' = TicksOfBit + 1
    BY <1>2, <1>11, BitTick DEF FrameInv, WordStates, SendParity
  <2>3. FrameTick = 16 * (lcr.bits + 1) + TicksOfBit /\ ParityBits(lcr) = 1
    BY <2>1 DEF FrameTick, ParityBits
  <2>4. FrameTick' = FrameTick + 1
    <3>1. CASE tstate' = "s_send_parity"
      <4>1. FrameTick' = 16 * (lcr.bits + 1) + TicksOfBit'
        BY <2>1, <3>1 DEF FrameTick
      <4> QED BY <1>1, <2>1, <2>2, <2>3, <3>1, <4>1
    <3>2. CASE tstate' = "s_send_stop"
      <4>1. FrameTick' = WordTicks(lcr) + 0
        BY <2>1, <2>2, <3>2 DEF FrameTick
      <4> QED BY <1>1, <1>4, <2>1, <2>2, <2>3, <3>2, <4>1
    <3> QED BY <2>1, <3>1, <3>2
  <2>5. FrameTick # FrameTicks(lcr) - 3
    BY <1>1, <1>4, <2>2, <2>3 DEF FrameTicks
  <2>6. Level(cur, lcr, FrameTick) = bit_out
    <3>1. PICK c \in Nat : c = lcr.bits + 1
      BY <1>1
    <3>2. Level(cur, lcr, 16 * c + TicksOfBit) = ParityBit(lcr, Xor(cur, lcr.bits))
      BY <1>1, <2>1, <2>2, <3>1, LevelInCell
    <3> QED BY <2>1, <2>3, <3>1, <3>2
  <2> QED BY <1>5, <1>11, <2>1, <2>4, <2>5, <2>6
<1>12. CASE enable /\ SendStop
  <2>1. /\ cur' = cur /\ tstate = "s_send_stop" /\ stx_o_tmp' = 1
        /\ counter \in 0 .. (StopTicks(lcr) - 3)
        /\ \/ tstate' = "s_send_stop" /\ ~LastTick /\ lcr' = lcr
           \/ tstate' = "s_idle" /\ LastTick
    BY <1>2, <1>3, <1>12 DEF Loading, SendStop, FrameInv
  <2>2. counter' = IF counter = 0 THEN StopTicks(lcr) - 3 ELSE counter - 1
    BY <1>1, <1>12, StopLength DEF SendStop, Countdown
  <2> DEFINE u == IF counter = 0 THEN 0 ELSE StopTicks(lcr) - 2 - counter
  <2>3. FrameTick = WordTicks(lcr) + u
    BY <2>1 DEF FrameTick
  <2>4. CASE LastTick
    <3>1. tstate' = "s_idle" /\ FrameTick' = 0 /\ u = StopTicks(lcr) - 3
      BY <1>1, <2>1, <2>4 DEF LastTick, FrameTick
    <3>2. FrameTick = FrameTicks(lcr) - 3
      BY <1>1, <1>4, <2>3, <3>1 DEF FrameTicks
    <3>3. u \in 0 .. 31
      BY <1>1, <3>1
    <3> HIDE DEF u
    <3>4. Level(cur, lcr, FrameTick) = 1
      BY <1>1, <2>3, <3>3, LevelInStop
    <3> QED BY <1>5, <1>12, <2>1, <3>1, <3>2, <3>4
  <2>5. CASE ~LastTick
    <3>1. tstate' = "s_send_stop" /\ lcr' = lcr
      BY <2>1, <2>5
    <3>2. FrameTick' = WordTicks(lcr) + (IF counter' = 0 THEN 0 ELSE StopTicks(lcr) - 2 - counter')
      BY <3>1 DEF FrameTick
    <3>3. (IF counter' = 0 THEN 0 ELSE StopTicks(lcr) - 2 - counter') = u + 1 /\ u \in 0 .. (StopTicks(lcr) - 4)
      BY <1>1, <2>1, <2>2, <2>5 DEF LastTick
    <3> HIDE DEF u
    <3>4. FrameTick' = FrameTick + 1 /\ FrameTick # FrameTicks(lcr) - 3
      BY <1>1, <1>4, <2>3, <3>2, <3>3 DEF FrameTicks
    <3>5. u \in 0 .. 31
      BY <1>1, <3>3
    <3>6. Level(cur, lcr, FrameTick) = 1
      BY <1>1, <2>3, <3>5, LevelInStop
    <3> QED BY <1>5, <1>12, <2>1, <3>1, <3>4, <3>6
  <2> QED BY <2>4, <2>5
<1> QED BY <1>6, <1>7, <1>8, <1>9, <1>10, <1>11, <1>12 DEF Next, Clock, Machine

\* Characters leave the transmitter as the frames of Serializer.tla, tick by
\* tick, for every depth, every line mode, all characters and every pace of
\* the baud clock, if the FIFO is not cleared while one is about to be loaded.
THEOREM TransmitterImplementsSerializer ==
  ASSUME ~ClearAnyTime PROVE Spec => ImplementsSerializer
<1>1. Init => Abstract!Init
  <2> SUFFICES ASSUME Init PROVE Abstract!Init
    OBVIOUS
  <2>1. tstate = "s_idle" /\ stx_o_tmp = 1 /\ tf_pop = FALSE /\ tf_count = 0
    BY DEF Init, Reset, fifo_tx!Reset
  <2>2. Fifo!Contents = << >>
    BY <2>1, SerialInvInit, ContentsFacts, EmptySeq DEF SerialInv, FifoInv
  <2> QED BY <2>1, <2>2, SameFifo DEF Abstract!Init, Pending, Phase, FrameTick
<1>2. SerialInv /\ [Next]_vars => SerialInv'
  BY SerialInvNext
<1>3. SerialInv /\ SerialInv' /\ [Next]_vars
        => [Abstract!Next]_<<lcr, tf_push, wb_dat_i, enable, tx_reset,
                             Pending, Phase, FrameTick, cur, stx_o_tmp>>
  <2>1. ASSUME SerialInv, SerialInv', Next PROVE Abstract!Next
    <3>1. Abstract!Queue
      BY <2>1, QueueStep DEF Next
    <3> QED BY <2>1, <3>1, MachineStepImplementsSerializerStep DEF Abstract!Next
  <2>2. ASSUME UNCHANGED vars
        PROVE  UNCHANGED <<lcr, tf_push, wb_dat_i, enable, tx_reset,
                           Pending, Phase, FrameTick, cur, stx_o_tmp>>
    BY <2>2 DEF vars, inputs, fifo, machine, Pending, fifo_tx!Contents, fifo_tx!Stored,
                fifo_tx!Slot, Phase, FrameTick, TicksOfBit
  <2> QED BY <2>1, <2>2
<1> QED BY <1>1, <1>2, <1>3, SerialInvInit, PTL DEF Spec, ImplementsSerializer, Abstract!Spec

(***************************************************************************)
(* Registers in range.                                                      *)
(***************************************************************************)

\* The parity of a word is a bit.
LEMMA XorIsBit ==
  ASSUME NEW d, NEW n \in 5 .. 8
  PROVE  Xor(d, n) \in Bit
<1> DEFINE S == {i \in 0 .. (n - 1) : d[i] = 1}
<1>1. IsFiniteSet(0 .. (n - 1))
  BY FS_Interval
<1>2. IsFiniteSet(S)
  BY <1>1, FS_Subset
<1>3. Cardinality(S) \in Nat
  BY <1>2, FS_CardinalityType
<1> HIDE DEF S
<1>4. Cardinality(S) % 2 \in {0, 1}
  BY <1>3
<1> QED BY <1>4 DEF S, Xor, Bit

\* The registers of the machine that serialises.
MachineTypes == /\ tstate \in States
                /\ counter \in 0 .. 29
                /\ bit_counter \in 0 .. 7
                /\ shift_out \in [0 .. 6 -> Bit]
                /\ bit_out \in Bit
                /\ parity_xor \in Bit
                /\ stx_o_tmp \in Bit
                /\ tf_pop \in BOOLEAN

\* Each counter is decremented only above zero and starts at 29 or less.
LEMMA MachineTypesStep ==
  ASSUME Machine, MachineTypes, lcr \in LineModes,
         tf_data_out \in Data
  PROVE  MachineTypes'
<1>1. /\ lcr.bits \in 5 .. 8
      /\ tf_data_out \in [0 .. 7 -> Bit]
  BY ValuesAssumption DEF LCR, Byte
<1>2. ASSUME NEW first \in 0 .. 29, Countdown(first) PROVE counter' \in 0 .. 29
  BY <1>2 DEF Countdown, MachineTypes
<1>3. CASE Disabled
  BY <1>3 DEF Disabled, MachineTypes
<1>4. CASE Idle
  BY <1>4 DEF Idle, MachineTypes, States, Bit
<1>5. CASE PopByte
  <2>1. bit_counter' \in 0 .. 7
    BY <1>1, <1>5 DEF PopByte
  <2>2. parity_xor' \in Bit
    <3>1. parity_xor' = Xor(tf_data_out, lcr.bits)
      BY <1>5 DEF PopByte
    <3> QED BY <1>1, <3>1, XorIsBit
  <2>3. bit_out' \in Bit /\ shift_out' \in [0 .. 6 -> Bit]
    BY <1>1, <1>5 DEF PopByte
  <2>4. tstate' \in States /\ tf_pop' \in BOOLEAN
    BY <1>5 DEF PopByte, States
  <2> QED BY <1>5, <2>1, <2>2, <2>3, <2>4 DEF PopByte, MachineTypes
<1>6. CASE SendStart
  <2>1. counter' \in 0 .. 29
    BY <1>2, <1>6 DEF SendStart
  <2> QED BY <1>6, <2>1 DEF SendStart, MachineTypes, States, Bit
<1>7. CASE SendByte
  <2>1. counter' \in 0 .. 29
    BY <1>2, <1>7 DEF SendByte
  <2>2. bit_counter' \in 0 .. 7
    BY <1>7 DEF SendByte, MachineTypes
  <2>3. ParityBit(lcr, parity_xor) \in Bit
    BY DEF ParityBit, MachineTypes, Bit
  <2>4. bit_out' \in Bit
    <3>1. bit_out' \in {bit_out, shift_out[0], ParityBit(lcr, parity_xor)}
      BY <1>7 DEF SendByte, Shift, ParityBit
    <3> QED BY <2>3, <3>1 DEF MachineTypes
  <2>5. shift_out' \in [0 .. 6 -> Bit]
    BY <1>7 DEF SendByte, Shift, MachineTypes
  <2>6. tstate' \in States /\ stx_o_tmp' \in Bit
    BY <1>7 DEF SendByte, MachineTypes, States
  <2> QED BY <1>7, <2>1, <2>2, <2>4, <2>5, <2>6 DEF SendByte, MachineTypes
<1>8. CASE SendParity
  <2>1. counter' \in 0 .. 29
    BY <1>2, <1>8 DEF SendParity
  <2> QED BY <1>8, <2>1 DEF SendParity, MachineTypes, States
<1>9. CASE SendStop
  <2>1. \E first \in {13, 21, 29} : Countdown(first)
    BY <1>9 DEF SendStop
  <2>2. counter' \in 0 .. 29
    BY <1>2, <2>1
  <2> QED BY <1>9, <2>2 DEF SendStop, MachineTypes, States, Bit
<1> QED BY <1>3, <1>4, <1>5, <1>6, <1>7, <1>8, <1>9 DEF Machine

\* The registers of the FIFO are those of its proofs.
LEMMA SameFifoTypes == (fifo_tx!TypeOK <=> Fifo!TypeOK) /\ (fifo_tx!TypeOK <=> Fifo!TypeOK)'
BY DEF fifo_tx!TypeOK, Fifo!TypeOK, fifo_tx!AnyInputs, Fifo!AnyInputs,
       fifo_tx!Address, Fifo!Address

\* Every register stays in range.
LEMMA TypesStep ==
  ASSUME SerialInv, SerialInv', MachineTypes, Next
  PROVE  MachineTypes' /\ TypeOK'
<1>1. tf_data_out \in Data
  <2>1. ram \in [Fifo!Address -> Data] /\ bottom \in Fifo!Address
    BY DEF SerialInv, FifoInv, Fifo!Inv, Fifo!TypeOK
  <2> QED BY <2>1, SameFifo DEF tf_data_out
<1>2. MachineTypes'
  BY <1>1, MachineTypesStep DEF Next, Clock, SerialInv, FifoInv
<1>3. fifo_tx!TypeOK'
  BY SameFifoTypes DEF SerialInv, FifoInv, Fifo!Inv
<1> QED BY <1>2, <1>3 DEF SerialInv, LoadInv, FifoInv, MachineTypes, TypeOK

\* After reset they are in range.
LEMMA TypesInit == Init => MachineTypes /\ TypeOK
<1> SUFFICES ASSUME Init PROVE MachineTypes /\ TypeOK
  OBVIOUS
<1>1. MachineTypes
  <2>1. /\ tstate = "s_idle" /\ stx_o_tmp = 1 /\ counter = 0 /\ bit_out = 0
        /\ parity_xor = 0 /\ bit_counter = 0 /\ tf_pop \in BOOLEAN
    BY DEF Init, Reset
  <2>2. shift_out \in [0 .. 6 -> Bit]
    BY DEF Init, Reset, Bit
  <2> QED BY <2>1, <2>2 DEF MachineTypes, States, Bit
<1>2. SerialInv
  BY SerialInvInit
<1>3. fifo_tx!TypeOK
  BY <1>2, SameFifoTypes DEF SerialInv, FifoInv, Fifo!Inv
<1> QED BY <1>1, <1>2, <1>3 DEF SerialInv, LoadInv, FifoInv, MachineTypes, TypeOK

\* Every register of the transmitter stays in its range, for every depth, line
\* mode and pace of the baud clock, if the FIFO is not cleared while a character
\* is about to be loaded: the counters stop at zero, and a pop always finds the
\* character it takes away.
THEOREM TypeCorrect == ASSUME ~ClearAnyTime PROVE Spec => []TypeOK
<1> DEFINE Types == SerialInv /\ MachineTypes /\ TypeOK
<1>1. Init => Types
  BY SerialInvInit, TypesInit
<1>2. Types /\ [Next]_vars => Types'
  <2>1. CASE Next
    BY <2>1, SerialInvNext, TypesStep
  <2>2. CASE UNCHANGED vars
    BY <2>2, SerialInvNext
       DEF vars, inputs, fifo, machine, MachineTypes, TypeOK, fifo_tx!TypeOK,
           fifo_tx!AnyInputs, fifo_tx!Address
  <2> QED BY <2>1, <2>2
<1>3. Types => TypeOK
  OBVIOUS
<1> QED BY <1>1, <1>2, <1>3, PTL DEF Spec
=============================================================================

--------------------------- MODULE TxStatusProofs ---------------------------
(***************************************************************************)
(* The transmit side of the register file: THRE and TEMT never claim too    *)
(* much, for every depth of the FIFO, line mode, pace of the baud clock and *)
(* movement of CTS, if software writes one character each time it has seen  *)
(* THRE.  (TxThre.cfg shows what happens if it writes more.)                *)
(***************************************************************************)
EXTENDS TxStatus, FiniteSetTheorems, TLAPS

\* A write is made while THRE is set, and starts the counter that delays THRE:
\* the counter is still running when the character reaches the FIFO.
DelayInv == /\ fifo_write => lsr5r
            /\ tf_push => block_cnt # 0

TxInv == /\ tf_count \in 0 .. Depth
         /\ tf_push \in BOOLEAN /\ tf_pop \in BOOLEAN
         /\ DelayInv
         /\ StatusTruthful

\* The counter never starts at zero.
LEMMA BlockValueRange == BlockValue(lcr) \in 1 .. 175
BY DEF BlockValue

\* An edge without a push leaves an empty FIFO empty.
LEMMA EmptyStaysEmpty ==
  ASSUME Tx!fifo_tx!Clock, tf_count = 0, ~tf_push
  PROVE  tf_count' = 0
BY DepthAssumption
   DEF Tx!fifo_tx!Clock, Tx!fifo_tx!PushChar, Tx!fifo_tx!PushFull, Tx!fifo_tx!PopChar,
       Tx!fifo_tx!PushPop, Tx!fifo_tx!Hold, Tx!fifo_tx!Clear

\* What an edge does to the number of characters stored.
LEMMA CountStep ==
  ASSUME Tx!fifo_tx!Clock, tf_count \in 0 .. Depth, tf_push \in BOOLEAN, tf_pop \in BOOLEAN
  PROVE  tf_count' \in 0 .. Depth
BY DepthAssumption
   DEF Tx!fifo_tx!Clock, Tx!fifo_tx!PushChar, Tx!fifo_tx!PushFull, Tx!fifo_tx!PopChar,
       Tx!fifo_tx!PushPop, Tx!fifo_tx!Hold, Tx!fifo_tx!Clear

\* The machine stays in s_idle while the FIFO is empty.
LEMMA IdleStaysIdle ==
  ASSUME Tx!Machine, tstate = "s_idle", tf_count = 0
  PROVE  tstate' = "s_idle"
BY DEF Tx!Machine, Tx!Disabled, Tx!Idle, Tx!PopByte, Tx!SendStart, Tx!SendByte,
       Tx!SendParity, Tx!SendStop

\* The next write is made while THRE is set.
LEMMA WriteWaits ==
  ASSUME Drive, ~Burst
  PROVE  fifo_write' => lsr5r'
<1> SUFFICES ASSUME access'.reg = "TR" PROVE lsr5r'
  BY DEF fifo_write
<1>1. access' # Idle
  BY DEF Idle
<1>2. access'.reg = "TR" => MayWrite
  BY <1>1 DEF Drive
<1> QED BY <1>2 DEF MayWrite

LEMMA TxInvInit == Init => TxInv
<1> SUFFICES ASSUME Init PROVE TxInv
  OBVIOUS
<1>1. tf_count = 0 /\ tstate = "s_idle"
  BY DEF Init, Reset, Tx!Reset, Tx!fifo_tx!Reset
<1>2. tf_push = FALSE /\ tf_pop = FALSE /\ lsr5r = TRUE
  BY DEF Init, Reset, Tx!Reset
<1>3. ~fifo_write
  BY DEF Init, Idle, fifo_write
<1>4. tf_count \in 0 .. Depth
  BY <1>1, DepthAssumption
<1>5. DelayInv /\ StatusTruthful
  BY <1>1, <1>2, <1>3 DEF DelayInv, StatusTruthful, ThreTruthful
<1> QED BY <1>2, <1>4, <1>5 DEF TxInv

\* The bits are set again only at an edge where the counter has run out, so
\* that no character is on its way to the FIFO, and the FIFO is empty.
LEMMA TxInvNext ==
  ASSUME ~Burst, TxInv, [Next]_vars
  PROVE  TxInv'
<1>1. CASE Next
  <2>1. /\ tf_count \in 0 .. Depth /\ tf_push \in BOOLEAN /\ tf_pop \in BOOLEAN
        /\ DelayInv /\ ThreTruthful
        /\ lsr6r => tf_count = 0 /\ ~tf_push /\ tstate = "s_idle"
    BY DEF TxInv, StatusTruthful
  <2>2. /\ Tx!Machine /\ Tx!fifo_tx!Clock
        /\ RegisterAccess /\ BlockCounter /\ Empty
        /\ Drive
    BY <1>1 DEF Next, Clock, Tx!Clock
  <2>3. tf_push' = fifo_write
    BY <2>2 DEF RegisterAccess
  <2>4. tf_count' \in 0 .. Depth
    BY <2>1, <2>2, CountStep
  <2>5. tf_pop' \in BOOLEAN
    BY <2>1, <2>2
       DEF Tx!Machine, Tx!Disabled, Tx!Idle, Tx!PopByte, Tx!SendStart, Tx!SendByte,
           Tx!SendParity, Tx!SendStop
  <2>6. DelayInv'
    <3>1. fifo_write' => lsr5r'
      BY <2>2, WriteWaits
    <3>2. ASSUME fifo_write PROVE block_cnt' # 0
      <4>1. block_cnt' = BlockValue(lcr)
        BY <2>1, <2>2, <3>2 DEF DelayInv, BlockCounter
      <4> QED BY <4>1, BlockValueRange
    <3> QED BY <2>3, <3>1, <3>2 DEF DelayInv
  <2>7. /\ lsr5r' => ~fifo_write /\ (lsr5r \/ lsr5)
        /\ lsr6r' => ~fifo_write /\ (lsr6r \/ lsr6)
    BY <2>2 DEF Empty
  <2>8. lsr5r \/ lsr6r \/ lsr5 \/ lsr6 => tf_count = 0 /\ ~tf_push
    BY <2>1 DEF DelayInv, ThreTruthful, lsr5, lsr6, thre_set_en
  <2>9. lsr5r' \/ lsr6r' => tf_count' = 0 /\ ~tf_push'
    BY <2>2, <2>3, <2>7, <2>8, EmptyStaysEmpty
  <2>10. lsr6r' => tstate' = "s_idle"
    <3>1. lsr6r \/ lsr6 => tstate = "s_idle" /\ tf_count = 0
      BY <2>1 DEF lsr6
    <3> QED BY <2>2, <2>7, <3>1, IdleStaysIdle
  <2>11. StatusTruthful'
    BY <2>9, <2>10 DEF StatusTruthful, ThreTruthful
  <2>12. tf_push' \in BOOLEAN
    BY <2>3 DEF fifo_write
  <2> QED BY <2>4, <2>5, <2>6, <2>11, <2>12 DEF TxInv
<1>2. CASE UNCHANGED vars
  BY <1>2 DEF vars, tx, lsr, TxInv, DelayInv, StatusTruthful, ThreTruthful, fifo_write
<1> QED BY <1>1, <1>2

\* While THRE is set no character waits in the FIFO or is on its way to it, and
\* while TEMT is set the transmitter is idle as well, although both bits are
\* set by a rise, after a delay, and cleared by a write.
THEOREM StatusAlwaysTruthful == ASSUME ~Burst PROVE Spec => []StatusTruthful
<1>1. TxInv /\ [Next]_vars => TxInv'
  BY TxInvNext
<1>2. TxInv => StatusTruthful
  BY DEF TxInv
<1> QED BY <1>1, <1>2, TxInvInit, PTL DEF Spec

(***************************************************************************)
(* Registers in range.                                                      *)
(***************************************************************************)

\* The parity of a word is a bit.
LEMMA XorIsBit ==
  ASSUME NEW d, NEW n \in 5 .. 8
  PROVE  Xor(d, n) \in Bit
<1> DEFINE S == {i \in 0 .. (n - 1) : d[i] = 1}
<1>1. IsFiniteSet(0 .. (n - 1))
  BY FS_Interval
<1>2. IsFiniteSet(S)
  BY <1>1, FS_Subset
<1>3. Cardinality(S) \in Nat
  BY <1>2, FS_CardinalityType
<1> HIDE DEF S
<1>4. Cardinality(S) % 2 \in {0, 1}
  BY <1>3
<1> QED BY <1>4 DEF S, Xor, Bit

\* The registers of the transmitter FIFO.
LEMMA FifoTypesStep ==
  ASSUME Tx!fifo_tx!Clock, Tx!fifo_tx!TypeOK
  PROVE  /\ ram' \in [Tx!fifo_tx!Address -> Data]
         /\ top' \in Tx!fifo_tx!Address /\ bottom' \in Tx!fifo_tx!Address
         /\ tf_count' \in 0 .. Depth
<1>1. /\ ram \in [Tx!fifo_tx!Address -> Data] /\ wb_dat_i \in Data
      /\ top \in Tx!fifo_tx!Address /\ bottom \in Tx!fifo_tx!Address
      /\ tf_count \in 0 .. Depth /\ tf_push \in BOOLEAN /\ tf_pop \in BOOLEAN
  BY DEF Tx!fifo_tx!TypeOK, Tx!fifo_tx!AnyInputs
<1>2. /\ 0 \in Tx!fifo_tx!Address
      /\ \A p \in Tx!fifo_tx!Address : Tx!fifo_tx!Inc(p) \in Tx!fifo_tx!Address
  BY DepthAssumption DEF Tx!fifo_tx!Address, Tx!fifo_tx!Inc
<1>3. ram' \in [Tx!fifo_tx!Address -> Data]
  BY <1>1 DEF Tx!fifo_tx!Clock, Tx!fifo_tx!WriteRam
<1>4. top' \in Tx!fifo_tx!Address /\ bottom' \in Tx!fifo_tx!Address
  BY <1>1, <1>2
     DEF Tx!fifo_tx!Clock, Tx!fifo_tx!PushChar, Tx!fifo_tx!PushFull, Tx!fifo_tx!PopChar,
         Tx!fifo_tx!PushPop, Tx!fifo_tx!Hold, Tx!fifo_tx!Clear
<1> QED BY <1>1, <1>3, <1>4, CountStep

\* The registers of the machine that serialises.
MachineTypes == /\ tstate \in Tx!States
                /\ counter \in 0 .. 29
                /\ bit_counter \in 0 .. 7
                /\ shift_out \in [0 .. 6 -> Bit]
                /\ bit_out \in Bit
                /\ parity_xor \in Bit
                /\ stx_o_tmp \in Bit
                /\ tf_pop \in BOOLEAN

\* Each counter is decremented only above zero and starts at 29 or less.
LEMMA MachineTypesStep ==
  ASSUME Tx!Machine, MachineTypes, lcr \in LineModes,
         Tx!tf_data_out \in Data
  PROVE  MachineTypes'
<1>1. /\ lcr.bits \in 5 .. 8
      /\ Tx!tf_data_out \in [0 .. 7 -> Bit]
  BY ValuesAssumption DEF LCR, Byte
<1>2. ASSUME NEW first \in 0 .. 29, Tx!Countdown(first) PROVE counter' \in 0 .. 29
  BY <1>2 DEF Tx!Countdown, MachineTypes
<1>3. CASE Tx!Disabled
  BY <1>3 DEF Tx!Disabled, MachineTypes
<1>4. CASE Tx!Idle
  BY <1>4 DEF Tx!Idle, MachineTypes, Tx!States, Bit
<1>5. CASE Tx!PopByte
  <2>1. bit_counter' \in 0 .. 7
    BY <1>1, <1>5 DEF Tx!PopByte
  <2>2. parity_xor' \in Bit
    <3>1. parity_xor' = Tx!Xor(Tx!tf_data_out, lcr.bits)
      BY <1>5 DEF Tx!PopByte
    <3>2. Tx!Xor(Tx!tf_data_out, lcr.bits) = Xor(Tx!tf_data_out, lcr.bits)
      BY DEF Tx!Xor, Xor, Tx!Cardinality, Cardinality
    <3> QED BY <1>1, <3>1, <3>2, XorIsBit
  <2>3. bit_out' \in Bit /\ shift_out' \in [0 .. 6 -> Bit]
    BY <1>1, <1>5 DEF Tx!PopByte
  <2>4. tstate' \in Tx!States /\ tf_pop' \in BOOLEAN
    BY <1>5 DEF Tx!PopByte, Tx!States
  <2> QED BY <1>5, <2>1, <2>2, <2>3, <2>4 DEF Tx!PopByte, MachineTypes
<1>6. CASE Tx!SendStart
  <2>1. counter' \in 0 .. 29
    BY <1>2, <1>6 DEF Tx!SendStart
  <2> QED BY <1>6, <2>1 DEF Tx!SendStart, MachineTypes, Tx!States, Bit
<1>7. CASE Tx!SendByte
  <2>1. counter' \in 0 .. 29
    BY <1>2, <1>7 DEF Tx!SendByte
  <2>2. bit_counter' \in 0 .. 7
    BY <1>7 DEF Tx!SendByte, MachineTypes
  <2>3. ParityBit(lcr, parity_xor) \in Bit
    BY DEF ParityBit, MachineTypes, Bit
  <2>4. bit_out' \in Bit
    <3>1. bit_out' \in {bit_out, shift_out[0], ParityBit(lcr, parity_xor)}
      BY <1>7 DEF Tx!SendByte, Tx!Shift, Tx!ParityBit, ParityBit
    <3> QED BY <2>3, <3>1 DEF MachineTypes
  <2>6. shift_out' \in [0 .. 6 -> Bit]
    BY <1>7 DEF Tx!SendByte, Tx!Shift, MachineTypes
  <2>5. tstate' \in Tx!States /\ stx_o_tmp' \in Bit
    BY <1>7 DEF Tx!SendByte, MachineTypes, Tx!States
  <2> QED BY <1>7, <2>1, <2>2, <2>4, <2>5, <2>6 DEF Tx!SendByte, MachineTypes
<1>8. CASE Tx!SendParity
  <2>1. counter' \in 0 .. 29
    BY <1>2, <1>8 DEF Tx!SendParity
  <2> QED BY <1>8, <2>1 DEF Tx!SendParity, MachineTypes, Tx!States
<1>9. CASE Tx!SendStop
  <2>1. \E first \in {13, 21, 29} : Tx!Countdown(first)
    BY <1>9 DEF Tx!SendStop
  <2>2. counter' \in 0 .. 29
    BY <1>2, <2>1
  <2> QED BY <1>9, <2>2 DEF Tx!SendStop, MachineTypes, Tx!States, Bit
<1> QED BY <1>3, <1>4, <1>5, <1>6, <1>7, <1>8, <1>9 DEF Tx!Machine

\* The kinds of access differ in the register they name.
LEMMA AccessKinds ==
  \A a \in Accesses \union {Idle} :
    /\ a.reg = "TR" => a.data \in Data
    /\ a.reg = "IE" => a.thre \in BOOLEAN
BY DEF Accesses, Idle, ReadII, WriteTR, WriteFC, WriteIE

\* The bus, the status bits and the interrupt.
LEMMA StatusTypesStep ==
  ASSUME Next, TypeOK
  PROVE  /\ access' \in Accesses \union {Idle} /\ gap' \in 0 .. 2
         /\ enable' \in EnableLevels /\ cts_pad_i' \in CtsLevels
         /\ block_cnt' \in 0 .. 175
         /\ {lsr5r, lsr5_d, lsr6r, lsr6_d, ier}' \subseteq BOOLEAN
         /\ {thre_int_d, thre_int_pnd, int_o}' \subseteq BOOLEAN
         /\ iir' \in {"none", "THRE"}
<1>1. RegisterAccess /\ BlockCounter /\ Empty /\ Interrupt /\ Drive
  BY DEF Next, Clock
<1>2. /\ access \in Accesses \union {Idle} /\ gap \in 0 .. 2
      /\ block_cnt \in 0 .. 175
      /\ ier \in BOOLEAN /\ lsr5r \in BOOLEAN
  BY DEF TypeOK
<1>3. access' \in Accesses \union {Idle}
  BY <1>1 DEF Drive
<1>4. gap' \in 0 .. 2
  BY <1>1, <1>2 DEF Drive
<1>5. block_cnt' \in 0 .. 175
  BY <1>1, <1>2, BlockValueRange DEF BlockCounter
<1>6. lsr5r' \in BOOLEAN /\ lsr5_d' \in BOOLEAN /\ lsr6r' \in BOOLEAN /\ lsr6_d' \in BOOLEAN
  BY <1>1 DEF Empty, lsr5, lsr6
<1>7. ier' \in BOOLEAN
  BY <1>1, <1>2, AccessKinds DEF RegisterAccess
<1>8. thre_int_d' \in BOOLEAN /\ thre_int_pnd' \in BOOLEAN /\ int_o' \in BOOLEAN
  BY <1>1 DEF Interrupt, thre_int
<1>9. iir' \in {"none", "THRE"}
  BY <1>1 DEF Interrupt
<1>10. enable' \in EnableLevels /\ cts_pad_i' \in CtsLevels
  BY <1>1 DEF Drive
<1> QED BY <1>3, <1>4, <1>5, <1>6, <1>7, <1>8, <1>9, <1>10

\* Every register stays in range.
LEMMA TypesStep == ASSUME Next, TypeOK PROVE TypeOK'
<1>1. /\ Tx!Machine /\ Tx!fifo_tx!Clock /\ RegisterAccess /\ Drive
  BY DEF Next, Clock, Tx!Clock
<1>2. /\ lcr \in LineModes /\ wb_dat_i \in Data
      /\ Tx!fifo_tx!TypeOK
      /\ MachineTypes
      /\ access \in Accesses \union {Idle}
  BY DEF TypeOK, Tx!TypeOK, MachineTypes, Tx!Bit, Bit
<1>3. Tx!tf_data_out \in Data
  BY <1>2 DEF Tx!tf_data_out, Tx!fifo_tx!data_out, Tx!fifo_tx!TypeOK
<1>4. MachineTypes'
  BY <1>1, <1>2, <1>3, MachineTypesStep
<1>5. /\ tf_push' \in BOOLEAN /\ tx_reset' \in BOOLEAN
  BY <1>1 DEF RegisterAccess, fifo_write
<1>6. wb_dat_i' \in Data
  BY <1>1, <1>2, AccessKinds DEF RegisterAccess, fifo_write
<1>7. lcr' \in LineModes
  BY <1>1, <1>2 DEF Drive
<1>8. Tx!fifo_tx!TypeOK'
  <2>1. /\ ram' \in [Tx!fifo_tx!Address -> Data]
        /\ top' \in Tx!fifo_tx!Address /\ bottom' \in Tx!fifo_tx!Address
        /\ tf_count' \in 0 .. Depth
    BY <1>1, <1>2, FifoTypesStep
  <2>2. tf_pop' \in BOOLEAN
    BY <1>4 DEF MachineTypes
  <2> QED BY <1>5, <1>6, <2>1, <2>2
          DEF Tx!fifo_tx!TypeOK, Tx!fifo_tx!AnyInputs, Tx!fifo_tx!Address
<1>9. Tx!TypeOK'
  <2>1. (CHOOSE c \in Data : TRUE) \in Data
    BY <1>2
  <2> QED BY <1>4, <1>5, <1>6, <1>7, <1>8, <2>1 DEF Tx!TypeOK, MachineTypes, Tx!Bit, Bit, Tx!States
<1> QED BY <1>9, StatusTypesStep DEF TypeOK, Accesses

\* Every register of the transmit side stays in its range, for every depth and
\* all line modes: the counters of the machine and of THRE stop at zero, and
\* the FIFO neither overflows nor underflows.
THEOREM TypeCorrect == Spec => []TypeOK
<1>1. Init => TypeOK
  <2> SUFFICES ASSUME Init PROVE TypeOK
    OBVIOUS
  <2>1. /\ tf_count = 0 /\ top = 0 /\ bottom = 0
        /\ ram \in [Tx!fifo_tx!Address -> Data]
    BY DEF Init, Reset, Tx!Reset, Tx!fifo_tx!Reset
  <2>2. /\ tstate = "s_idle" /\ stx_o_tmp = 1 /\ counter = 0 /\ bit_out = 0
        /\ shift_out = [i \in 0 .. 6 |-> 0] /\ parity_xor = 0 /\ bit_counter = 0
        /\ tf_pop = FALSE
    BY DEF Init, Reset, Tx!Reset
  <2>3. MachineTypes
    <3>1. tstate \in Tx!States /\ tf_pop \in BOOLEAN
      BY <2>2 DEF Tx!States
    <3>2. /\ counter \in 0 .. 29 /\ bit_counter \in 0 .. 7
          /\ bit_out \in Bit /\ parity_xor \in Bit /\ stx_o_tmp \in Bit
      BY <2>2 DEF Bit
    <3>3. shift_out \in [0 .. 6 -> Bit]
      BY <2>2 DEF Bit
    <3> QED BY <3>1, <3>2, <3>3 DEF MachineTypes
  <2>4. /\ lcr \in LineModes /\ wb_dat_i \in Data
        /\ tf_push = FALSE /\ tx_reset = FALSE
    BY DEF Init, Reset
  <2>5. Tx!fifo_tx!TypeOK
    <3>1. 0 \in Tx!fifo_tx!Address /\ 0 \in 0 .. Depth
      BY DepthAssumption DEF Tx!fifo_tx!Address
    <3>2. Tx!fifo_tx!AnyInputs
      BY <2>2, <2>4 DEF Tx!fifo_tx!AnyInputs
    <3> QED BY <2>1, <3>1, <3>2 DEF Tx!fifo_tx!TypeOK
  <2>6. Tx!TypeOK
    <3>1. (CHOOSE c \in Data : TRUE) \in Data
      BY <2>4
    <3> QED BY <2>3, <2>4, <2>5, <3>1 DEF Tx!TypeOK, MachineTypes, Tx!Bit, Bit
  <2>7. /\ access = Idle /\ gap = 2 /\ block_cnt = 0
        /\ enable \in EnableLevels /\ cts_pad_i \in CtsLevels
    BY DEF Init, Reset
  <2>8. access \in Accesses \union {Idle}
    BY <2>7, Zenon
  <2>9. gap \in 0 .. 2 /\ block_cnt \in 0 .. 175
    BY <2>7
  <2>10. /\ lsr5r = TRUE /\ lsr5_d = TRUE /\ lsr6r = TRUE /\ lsr6_d = TRUE
         /\ ier = FALSE /\ thre_int_d = FALSE /\ thre_int_pnd = FALSE
         /\ int_o = FALSE /\ iir = "none"
    BY DEF Init, Reset
  <2>11. /\ {lsr5r, lsr5_d, lsr6r, lsr6_d, ier} \subseteq BOOLEAN
         /\ {thre_int_d, thre_int_pnd, int_o} \subseteq BOOLEAN
         /\ iir \in {"none", "THRE"}
    BY <2>10
  <2> QED BY <2>6, <2>7, <2>8, <2>9, <2>11 DEF TypeOK
<1>2. TypeOK /\ [Next]_vars => TypeOK'
  <2>1. TypeOK /\ UNCHANGED vars => TypeOK'
    BY DEF vars, tx, lsr, interrupt, TypeOK, Tx!TypeOK, Tx!fifo_tx!TypeOK,
           Tx!fifo_tx!AnyInputs, Tx!fifo_tx!Address, Accesses, Tx!States, Tx!Bit
  <2> QED BY <2>1, TypesStep
<1> QED BY <1>1, <1>2, PTL DEF Spec
=============================================================================

--------------------------- MODULE RxStatusProofs ---------------------------
(***************************************************************************)
(* The receive side of the register file: for every depth of the FIFO,      *)
(* trigger level, timeout and alphabet, the line status tells the truth     *)
(* about data and overruns, and the interrupt of an error is not lost.      *)
(* Bit 0 of the line status needs an invariant that relates it to the       *)
(* accesses: a pop is the cycle after a read of the receiver buffer, which  *)
(* software makes only while data are ready, and accesses are apart.        *)
(***************************************************************************)
EXTENDS RxStatus, TLAPS

\* The strobes of an access come in the cycle after it, when there is no other.
AccessInv == /\ access # Idle => gap = 2
             /\ rf_pop \/ rx_reset => gap = 0

\* A character asked for is there until it is popped.
ReadInv == /\ access = ReadRB => rf_count > 0
           /\ rf_pop => rf_count > 0

\* The delayed copy of the set condition of bit 0 is low when a character
\* comes, so that its rise is seen.
PushInv == lsr0_d => ~rf_push_pulse

RxInv == TypeOK /\ AccessInv /\ ReadInv /\ PushInv /\ DataReadyTruthful

(***************************************************************************)
(* The accesses.                                                            *)
(***************************************************************************)

\* The kinds of access differ in the register they name.
LEMMA AccessKinds ==
  /\ ReadRB # Idle
  /\ ReadLS # Idle
  /\ \A a \in Accesses \union {Idle} :
       /\ a.reg = "FC" => /\ a # Idle /\ a # ReadRB
                          /\ a.clear \in BOOLEAN /\ a.level \in TriggerLevels
       /\ a.reg = "IE" => a.bits \subseteq {"RDA", "RLS"}
BY DEF Accesses, Idle, ReadRB, ReadLS, WriteFC, WriteIE

\* The access of the next cycle, and the cycles since the last one.
LEMMA DriveAccess ==
  ASSUME Drive, gap \in 0 .. 2
  PROVE  /\ access' \in Accesses \union {Idle}
         /\ gap' \in 0 .. 2
         /\ access # Idle => gap' = 0
         /\ access' # Idle => gap' = 2
         /\ access' = ReadRB => lsr0r'
<1>1. gap' = IF access # Idle THEN 0 ELSE IF gap < 2 THEN gap + 1 ELSE 2
  BY DEF Drive, CyclesSince
<1>2. /\ access' \in Accesses \union {Idle}
      /\ access' # Idle => gap' = 2 /\ (access' = ReadRB => lsr0r')
  BY DEF Drive
<1> QED BY <1>1, <1>2, AccessKinds

\* The strobes of the next cycle are those of the access of this one.
LEMMA AccessInvStep ==
  ASSUME Next, AccessInv, TypeOK
  PROVE  AccessInv'
<1>1. gap \in 0 .. 2 /\ access \in Accesses \union {Idle}
  BY DEF TypeOK
<1>2. /\ access # Idle => gap' = 0
      /\ access' # Idle => gap' = 2
  BY <1>1, DriveAccess DEF Next
<1>3. rf_pop' => access # Idle
  BY AccessKinds DEF Next, Clock, RegisterAccess, fifo_read
<1>4. rx_reset' => access # Idle
  BY <1>1, AccessKinds DEF Next, Clock, RegisterAccess
<1> QED BY <1>2, <1>3, <1>4 DEF AccessInv

(***************************************************************************)
(* The counter of the FIFO, and bit 0 of the line status with it.           *)
(***************************************************************************)

\* What an edge does to the counter, when a pop finds a character.
LEMMA CountStep ==
  ASSUME Rf!Clock, rf_count \in 0 .. Depth, rf_pop => rf_count > 0
  PROVE  /\ rf_count' \in 0 .. Depth
         /\ rx_reset => rf_count' = 0
         /\ ~rx_reset /\ ~rf_pop => rf_count' >= rf_count
         /\ ~rx_reset /\ rf_push_pulse => rf_count' > 0
         /\ ~rx_reset /\ rf_pop /\ ~rf_push_pulse => rf_count' = rf_count - 1
         /\ ~rx_reset /\ ~rf_pop /\ ~rf_push_pulse => rf_count' = rf_count
BY NumbersAssumption
   DEF Rf!Clock, Rf!PushChar, Rf!PushFull, Rf!PopChar, Rf!PushPop, Rf!Hold, Rf!Clear

\* Bit 0 follows the counter: it is set by the push that finds the FIFO empty
\* and cleared by the pop that leaves it empty.
LEMMA DataReadyStep ==
  ASSUME Clock, TypeOK, ReadInv, PushInv, DataReadyTruthful
  PROVE  DataReadyTruthful'
<1>1. /\ rf_count \in 0 .. Depth /\ rf_pop \in BOOLEAN /\ rx_reset \in BOOLEAN
      /\ rf_push_pulse \in BOOLEAN /\ lsr0r \in BOOLEAN /\ lsr0_d \in BOOLEAN
  BY DEF TypeOK, Rf!TypeOK, Rf!AnyInputs
<1>2. Rf!Clock
  BY DEF Clock
<1>3. /\ rf_count' \in 0 .. Depth
      /\ rx_reset => rf_count' = 0
      /\ ~rx_reset /\ rf_push_pulse => rf_count' > 0
      /\ ~rx_reset /\ rf_pop /\ ~rf_push_pulse => rf_count' = rf_count - 1
      /\ ~rx_reset /\ ~rf_pop /\ ~rf_push_pulse => rf_count' = rf_count
  BY <1>1, <1>2, CountStep DEF ReadInv
<1>4. lsr0r' = (/\ ~((rf_count = 1 /\ rf_pop /\ ~rf_push_pulse) \/ rx_reset)
                /\ lsr0r \/ ((rf_count = 0 /\ rf_push_pulse) /\ ~lsr0_d))
  BY DEF Clock, DataReady
<1>5. CASE rx_reset
  BY <1>3, <1>4, <1>5 DEF DataReadyTruthful
<1>6. CASE ~rx_reset /\ rf_push_pulse
  BY <1>1, <1>3, <1>4, <1>6 DEF DataReadyTruthful, PushInv
<1>7. CASE ~rx_reset /\ rf_pop /\ ~rf_push_pulse
  BY <1>1, <1>3, <1>4, <1>7 DEF DataReadyTruthful, ReadInv
<1>8. CASE ~rx_reset /\ ~rf_pop /\ ~rf_push_pulse
  BY <1>1, <1>3, <1>4, <1>8 DEF DataReadyTruthful
<1> QED BY <1>1, <1>5, <1>6, <1>7, <1>8

\* A read is answered by a pop one cycle later, with no pop or clear between.
LEMMA ReadInvStep ==
  ASSUME Next, TypeOK, AccessInv, ReadInv, DataReadyTruthful'
  PROVE  ReadInv'
<1>1. /\ rf_count \in 0 .. Depth /\ gap \in 0 .. 2
      /\ rf_pop \in BOOLEAN /\ rx_reset \in BOOLEAN
  BY DEF TypeOK, Rf!TypeOK
<1>2. access' = ReadRB => rf_count' > 0
  BY <1>1, DriveAccess DEF Next, DataReadyTruthful
<1>3. ASSUME rf_pop' PROVE rf_count' > 0
  <2>1. access = ReadRB
    BY <1>3 DEF Next, Clock, RegisterAccess, fifo_read
  <2>2. ~rf_pop /\ ~rx_reset /\ rf_count > 0
    BY <2>1, AccessKinds DEF AccessInv, ReadInv
  <2>3. Rf!Clock
    BY DEF Next, Clock
  <2>4. rf_count' \in 0 .. Depth /\ rf_count' >= rf_count
    BY <1>1, <2>2, <2>3, CountStep
  <2> QED BY <1>1, <2>2, <2>4
<1> QED BY <1>2, <1>3 DEF ReadInv

\* Push pulses are at least PushSpacing cycles apart.
LEMMA PushInvStep ==
  ASSUME Next, TypeOK
  PROVE  PushInv'
<1> SUFFICES ASSUME lsr0_d' PROVE ~rf_push_pulse'
  BY DEF PushInv
<1>1. rf_push_pulse
  BY DEF Next, Clock, DataReady
<1>2. since' = 0
  BY <1>1 DEF Next, Drive, CyclesSince
<1>3. rf_push_pulse' \in {FALSE}
  BY <1>2, NumbersAssumption DEF Next, Drive
<1> QED BY <1>3

(***************************************************************************)
(* Registers in range.                                                      *)
(***************************************************************************)

\* The registers of the receiver FIFO.
LEMMA FifoTypesStep ==
  ASSUME Rf!Clock, Rf!TypeOK, rf_pop => rf_count > 0
  PROVE  /\ ram' \in [Rf!Address -> Char]
         /\ fifo' \in [Rf!Address -> ErrorSets]
         /\ rfifo_flags' \in ErrorSets
         /\ top' \in Rf!Address /\ bottom' \in Rf!Address
         /\ rf_count' \in 0 .. Depth
         /\ rf_overrun' \in BOOLEAN
         /\ error_count' \in 0 .. (Rf!CounterModulus - 1)
<1>1. /\ ram \in [Rf!Address -> Char] /\ fifo \in [Rf!Address -> ErrorSets]
      /\ rfifo_flags \in ErrorSets
      /\ top \in Rf!Address /\ bottom \in Rf!Address
      /\ rf_count \in 0 .. Depth /\ rf_overrun \in BOOLEAN
      /\ error_count \in 0 .. (Rf!CounterModulus - 1)
      /\ rf_data_in.char \in Char /\ rf_data_in.flags \in ErrorSets
  BY DEF Rf!TypeOK, Rf!AnyInputs, Rf!Word
<1>2. /\ 0 \in Rf!Address
      /\ \A p \in Rf!Address : Rf!Inc(p) \in Rf!Address
  BY NumbersAssumption DEF Rf!Address, Rf!Inc
<1>3. ram' \in [Rf!Address -> Char]
  BY <1>1 DEF Rf!Clock, Rf!WriteRam
<1>4. rf_overrun' \in BOOLEAN
  BY DEF Rf!Clock, Rf!Overrun
<1>5. rf_count' \in 0 .. Depth
  BY <1>1, CountStep
<1>6. top' \in Rf!Address /\ bottom' \in Rf!Address
  BY <1>1, <1>2
     DEF Rf!Clock, Rf!PushChar, Rf!PushFull, Rf!PopChar, Rf!PushPop, Rf!Hold, Rf!Clear
<1>7. fifo' \in [Rf!Address -> ErrorSets]
  BY <1>1, ErrorSetsAssumption
     DEF Rf!Clock, Rf!PushChar, Rf!PushFull, Rf!PopChar, Rf!PushPop, Rf!Hold, Rf!Clear
<1>8. rfifo_flags' \in ErrorSets
  <2>1. fifo[Rf!Inc(bottom)] \in ErrorSets
    BY <1>1, <1>2
  <2> QED
    BY <1>1, <2>1, ErrorSetsAssumption
       DEF Rf!Clock, Rf!PushChar, Rf!PushFull, Rf!PopChar, Rf!PushPop, Rf!Hold, Rf!Clear
<1>9. error_count' \in 0 .. (Rf!CounterModulus - 1)
  <2>1. UNCHANGED error_count \/ Rf!CountUp \/ Rf!CountDown \/ error_count' = 0
    BY DEF Rf!Clock, Rf!PushChar, Rf!PushFull, Rf!PopChar, Rf!PushPop, Rf!Hold, Rf!Clear
  <2> QED BY <1>1, <2>1, NumbersAssumption DEF Rf!CountUp, Rf!CountDown, Rf!CounterModulus
<1> QED BY <1>3, <1>4, <1>5, <1>6, <1>7, <1>8, <1>9

\* The inputs of the next cycle.
LEMMA InputTypesStep ==
  ASSUME Next, TypeOK
  PROVE  /\ rf_push_pulse' \in BOOLEAN /\ rf_data_in' \in Rf!Word
         /\ since' \in 0 .. PushSpacing /\ enable' \in BOOLEAN
<1>1. Drive
  BY DEF Next
<1>2. since \in 0 .. PushSpacing
  BY DEF TypeOK
<1>3. since' \in 0 .. PushSpacing
  BY <1>1, <1>2, NumbersAssumption DEF Drive, CyclesSince
<1>4. rf_push_pulse' \in BOOLEAN /\ enable' \in BOOLEAN
  BY <1>1 DEF Drive
<1>5. Char # {}
  <2>1. ram \in [Rf!Address -> Char] /\ 0 \in Rf!Address
    BY NumbersAssumption DEF TypeOK, Rf!TypeOK, Rf!Address
  <2> QED BY <2>1
<1>6. NoWord \in Rf!Word
  <2>1. (CHOOSE c \in Char : TRUE) \in Char
    BY <1>5
  <2> QED BY <2>1, ErrorSetsAssumption DEF NoWord, Rf!Word
<1>7. rf_data_in' \in Rf!Word
  BY <1>1, <1>6 DEF Drive
<1> QED BY <1>3, <1>4, <1>7

\* The bits of the line status and the interrupts.
LEMMA StatusTypesStep ==
  ASSUME Next, TypeOK
  PROVE  /\ {lsr0r, lsr0_d, lsr1r, lsr1_d, lsr7r, lsr7_d}' \subseteq BOOLEAN
         /\ {lsr_err, err_d}' \subseteq SUBSET UNION ErrorSets
         /\ counter_t' \in 0 .. Timeout
         /\ {rls_int_d, rda_int_d, ti_int_d}' \subseteq BOOLEAN
         /\ {rls_int_pnd, rda_int_pnd, ti_int_pnd, int_o}' \subseteq BOOLEAN
         /\ iir' \in {"none", "RLS", "RDA", "TI"}
<1>1. /\ RegisterAccess /\ DataReady /\ Errors /\ TimeoutCounter
      /\ Pending /\ Interrupt
  BY DEF Next, Clock
<1>2. lsr0r' \in BOOLEAN /\ lsr0_d' \in BOOLEAN
  BY <1>1 DEF DataReady
<1>3. rf_overrun \in BOOLEAN /\ rfifo_flags \in ErrorSets /\ rda_int_pnd \in BOOLEAN
  BY DEF TypeOK, Rf!TypeOK
<1>4. lsr1r' \in BOOLEAN /\ lsr1_d' \in BOOLEAN /\ lsr7r' \in BOOLEAN /\ lsr7_d' \in BOOLEAN
  BY <1>1, <1>3 DEF Errors, lsr7, Rf!error_bit
<1>5. lsr_err' \in SUBSET UNION ErrorSets /\ err_d' \in SUBSET UNION ErrorSets
  BY <1>1, <1>3 DEF Errors, TypeOK
<1>6. counter_t' \in 0 .. Timeout
  BY <1>1, NumbersAssumption DEF TimeoutCounter, TypeOK
<1>7. /\ rls_int_d' \in BOOLEAN /\ rda_int_d' \in BOOLEAN /\ ti_int_d' \in BOOLEAN
      /\ rls_int_pnd' \in BOOLEAN /\ rda_int_pnd' \in BOOLEAN /\ ti_int_pnd' \in BOOLEAN
  BY <1>1 DEF Pending, rls_int, rda_int, ti_int
<1>8. int_o' \in BOOLEAN
  BY <1>1, <1>3 DEF Interrupt, lsr_mask
<1>9. iir' \in {"none", "RLS", "RDA", "TI"}
  BY <1>1 DEF Interrupt
<1> QED BY <1>2, <1>4, <1>5, <1>6, <1>7, <1>8, <1>9

\* The strobes and the registers that software writes.
LEMMA ControlTypesStep ==
  ASSUME Next, TypeOK
  PROVE  /\ rf_pop' \in BOOLEAN /\ rx_reset' \in BOOLEAN /\ lsr_mask_d' \in BOOLEAN
         /\ ier' \subseteq {"RDA", "RLS"}
         /\ trigger_level' \in TriggerLevels
<1>1. RegisterAccess
  BY DEF Next, Clock
<1>2. /\ access \in Accesses \union {Idle}
      /\ ier \subseteq {"RDA", "RLS"} /\ trigger_level \in TriggerLevels
  BY DEF TypeOK
<1>3. rf_pop' \in BOOLEAN /\ lsr_mask_d' \in BOOLEAN
  BY <1>1 DEF RegisterAccess, fifo_read
<1>4. rx_reset' \in BOOLEAN /\ trigger_level' \in TriggerLevels
  BY <1>1, <1>2, AccessKinds DEF RegisterAccess
<1>5. ier' \subseteq {"RDA", "RLS"}
  BY <1>1, <1>2, AccessKinds DEF RegisterAccess
<1> QED BY <1>3, <1>4, <1>5

\* Every register stays in range, because a pop finds a character.
LEMMA TypesStep == ASSUME Next, TypeOK, ReadInv PROVE TypeOK'
<1>1. Rf!TypeOK'
  <2>1. Rf!Clock /\ Rf!TypeOK /\ (rf_pop => rf_count > 0)
    BY DEF Next, Clock, TypeOK, ReadInv
  <2>2. rf_push_pulse' \in BOOLEAN /\ rf_data_in' \in Rf!Word
    BY InputTypesStep
  <2>3. rf_pop' \in BOOLEAN /\ rx_reset' \in BOOLEAN
    BY ControlTypesStep
  <2>4. lsr_mask' \in BOOLEAN
    BY DEF lsr_mask
  <2>5. Rf!AnyInputs'
    BY <2>2, <2>3, <2>4 DEF Rf!AnyInputs, Rf!Word
  <2> QED BY <2>1, <2>5, FifoTypesStep DEF Rf!TypeOK, Rf!Address, Rf!CounterModulus
<1>2. access' \in Accesses \union {Idle} /\ gap' \in 0 .. 2
  BY DriveAccess DEF Next, TypeOK
<1> QED BY <1>1, <1>2, InputTypesStep, ControlTypesStep, StatusTypesStep DEF TypeOK, Accesses

(***************************************************************************)
(* The theorems.                                                            *)
(***************************************************************************)

\* After reset the FIFO is empty and no access is going on.
LEMMA RxInvInit == Init => RxInv
<1> SUFFICES ASSUME Init PROVE RxInv
  OBVIOUS
<1>1. /\ rf_count = 0 /\ rf_pop = FALSE /\ rx_reset = FALSE /\ lsr0r = FALSE
      /\ lsr0_d = FALSE /\ access = Idle /\ gap = 2
  BY DEF Init, Reset, Rf!Reset
<1>2. AccessInv /\ ReadInv /\ PushInv /\ DataReadyTruthful
  BY <1>1, AccessKinds DEF AccessInv, ReadInv, PushInv, DataReadyTruthful
<1>3. Rf!TypeOK
  <2>1. /\ ram \in [Rf!Address -> Char] /\ fifo \in [Rf!Address -> ErrorSets]
        /\ rfifo_flags = {} /\ top = 0 /\ bottom = 0 /\ rf_overrun = FALSE
        /\ error_count = 0
    BY DEF Init, Reset, Rf!Reset
  <2>2. 0 \in Rf!Address /\ 0 \in 0 .. Depth /\ 0 \in 0 .. (Rf!CounterModulus - 1)
    BY NumbersAssumption DEF Rf!Address, Rf!CounterModulus
  <2>3. NoWord \in Rf!Word
    <3>1. (CHOOSE c \in Char : TRUE) \in Char
      BY <2>1, <2>2
    <3> QED BY <3>1, ErrorSetsAssumption DEF NoWord, Rf!Word
  <2>4. Rf!AnyInputs
    BY <1>1, <2>3 DEF Init, Rf!AnyInputs, lsr_mask, Rf!Word
  <2> QED BY <1>1, <2>1, <2>2, <2>4, ErrorSetsAssumption DEF Rf!TypeOK
<1>4. since \in 0 .. PushSpacing /\ counter_t \in 0 .. Timeout
  BY NumbersAssumption DEF Init, Reset
<1>5. TypeOK
  <2>1. /\ lsr_mask_d = FALSE /\ enable = FALSE /\ ier = {}
        /\ lsr1r = FALSE /\ lsr1_d = FALSE /\ lsr7r = FALSE /\ lsr7_d = FALSE
        /\ lsr_err = {} /\ err_d = {} /\ trigger_level \in TriggerLevels
    BY DEF Init, Reset
  <2>2. /\ rls_int_d = FALSE /\ rda_int_d = FALSE /\ ti_int_d = FALSE
        /\ rls_int_pnd = FALSE /\ rda_int_pnd = FALSE /\ ti_int_pnd = FALSE
        /\ int_o = FALSE /\ iir = "none"
    BY DEF Init, Reset
  <2>3. access \in Accesses \union {Idle}
    BY <1>1, Zenon
  <2>4. ier \subseteq {"RDA", "RLS"}
    BY <2>1, Zenon
  <2>5. gap \in 0 .. 2
    BY <1>1
  <2>6. /\ rf_pop \in BOOLEAN /\ rx_reset \in BOOLEAN /\ lsr_mask_d \in BOOLEAN
    BY <1>1, <2>1
  <2>7. /\ {lsr0r, lsr0_d, lsr1r, lsr1_d, lsr7r, lsr7_d} \subseteq BOOLEAN
        /\ {lsr_err, err_d} \subseteq SUBSET UNION ErrorSets
    BY <1>1, <2>1
  <2>8. /\ {rls_int_d, rda_int_d, ti_int_d} \subseteq BOOLEAN
        /\ {rls_int_pnd, rda_int_pnd, ti_int_pnd, int_o} \subseteq BOOLEAN
        /\ iir \in {"none", "RLS", "RDA", "TI"}
    BY <2>2
  <2> QED BY <1>3, <1>4, <2>1, <2>3, <2>4, <2>5, <2>6, <2>7, <2>8 DEF TypeOK
<1> QED BY <1>2, <1>5 DEF RxInv

\* RxInv is kept by every edge of the clock.
LEMMA RxInvNext == RxInv /\ [Next]_vars => RxInv'
<1> SUFFICES ASSUME RxInv, [Next]_vars PROVE RxInv'
  OBVIOUS
<1>1. CASE Next
  <2>1. TypeOK /\ AccessInv /\ ReadInv /\ PushInv /\ DataReadyTruthful
    BY DEF RxInv
  <2>2. DataReadyTruthful'
    BY <1>1, <2>1, DataReadyStep DEF Next
  <2>3. ReadInv'
    BY <1>1, <2>1, <2>2, ReadInvStep
  <2>4. AccessInv' /\ PushInv'
    BY <1>1, <2>1, AccessInvStep, PushInvStep
  <2>5. TypeOK'
    BY <1>1, <2>1, TypesStep
  <2> QED BY <2>2, <2>3, <2>4, <2>5 DEF RxInv
<1>2. CASE UNCHANGED vars
  <2> USE <1>2 DEF vars, inputs, rfifo, strobes, lsr, control, interrupt
  <2>1. TypeOK'
    BY DEF RxInv, TypeOK, Rf!TypeOK, Rf!AnyInputs, Rf!Word, Rf!Address,
           Rf!CounterModulus, lsr_mask, Accesses
  <2>2. AccessInv' /\ ReadInv' /\ PushInv' /\ DataReadyTruthful'
    BY DEF RxInv, AccessInv, ReadInv, PushInv, DataReadyTruthful
  <2> QED BY <2>1, <2>2 DEF RxInv
<1> QED BY <1>1, <1>2

\* RxInv holds in every state.
LEMMA RxInvariant == Spec => []RxInv
BY RxInvInit, RxInvNext, PTL DEF Spec

\* Every register of the receive side and of its FIFO stays in its range, for
\* every depth, trigger level and timeout.
THEOREM TypeCorrect == Spec => []TypeOK
<1>1. RxInv => TypeOK
  BY DEF RxInv
<1> QED BY <1>1, RxInvariant, PTL

\* Bit 0 of the line status, which has set and reset conditions of its own,
\* is set exactly while the FIFO holds a character.
THEOREM DataReadyAlwaysTruthful == Spec => []DataReadyTruthful
<1>1. RxInv => DataReadyTruthful
  BY DEF RxInv
<1> QED BY <1>1, RxInvariant, PTL

\* While an overrun holds off the sender, software sees it in bit 1 of the
\* line status: the read that clears the bit clears the flag of the FIFO too.
THEOREM OverrunAlwaysVisible == Spec => []OverrunIsVisible
<1>1. Init => OverrunIsVisible
  BY DEF Init, Reset, OverrunIsVisible
<1>2. OverrunIsVisible /\ [Next]_vars => OverrunIsVisible'
  <2> SUFFICES ASSUME OverrunIsVisible, [Next]_vars, rf_overrun', lsr1_d'
               PROVE  lsr1r'
    BY DEF OverrunIsVisible
  <2>1. CASE Next
    <3>1. /\ lsr1_d' = rf_overrun
          /\ lsr1r' = (~lsr_mask /\ (lsr1r \/ (rf_overrun /\ ~lsr1_d)))
      BY <2>1 DEF Next, Clock, Errors
    <3>2. ~lsr_mask
      BY <2>1 DEF Next, Clock, Rf!Clock, Rf!Overrun
    <3> QED BY <3>1, <3>2 DEF OverrunIsVisible
  <2>2. CASE UNCHANGED vars
    BY <2>2 DEF vars, rfifo, lsr, OverrunIsVisible
  <2> QED BY <2>1, <2>2
<1> QED BY <1>1, <1>2, PTL DEF Spec

\* The interrupt of an error that is shown and enabled is pending: the read of
\* the line status that clears the flag clears the error too.
THEOREM LineStatusInterruptNeverLost == Spec => []LineStatusInterruptNotLost
<1>1. Init => LineStatusInterruptNotLost
  BY DEF Init, Reset, LineStatusInterruptNotLost
<1>2. LineStatusInterruptNotLost /\ [Next]_vars => LineStatusInterruptNotLost'
  <2> SUFFICES ASSUME LineStatusInterruptNotLost, [Next]_vars, rls_int', rls_int_d'
               PROVE  rls_int_pnd'
    BY DEF LineStatusInterruptNotLost
  <2>1. CASE Next
    <3>1. /\ rls_int_d' = rls_int
          /\ rls_int_pnd' = (/\ ~lsr_mask
                             /\ (rls_int /\ ~rls_int_d) \/ (rls_int_pnd /\ "RLS" \in ier))
      BY <2>1 DEF Next, Clock, Pending
    <3>2. lsr_mask => lsr1r' = FALSE /\ lsr_err' = {}
      BY <2>1 DEF Next, Clock, Errors
    <3>3. ~lsr_mask
      BY <3>2 DEF rls_int
    <3> QED BY <3>1, <3>3 DEF LineStatusInterruptNotLost, rls_int
  <2>2. CASE UNCHANGED vars
    BY <2>2 DEF vars, lsr, control, interrupt, LineStatusInterruptNotLost, rls_int
  <2> QED BY <2>1, <2>2
<1> QED BY <1>1, <1>2, PTL DEF Spec
=============================================================================

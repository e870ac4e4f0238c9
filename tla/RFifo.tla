------------------------------- MODULE RFifo --------------------------------
(***************************************************************************)
(* uart_rfifo.v with its memory raminfr.v: the receiver FIFO.  A word is a  *)
(* character with three error flags (break, parity, framing).  Characters   *)
(* live in raminfr, flags in the memory fifo; the flags of the oldest       *)
(* character are copied to the register rfifo_flags, and error_count counts *)
(* the words with a flag (it feeds bit 7 of the line status register).      *)
(*                                                                          *)
(* A step is one rising edge of clk.  Neither memory is reset.              *)
(***************************************************************************)
EXTENDS Ring, FiniteSets

CONSTANTS Char,     \* the characters
          Flags,    \* combinations of the three error flags
          NoFlags   \* 3'b000

ASSUME FlagsAssumption == NoFlags \in Flags

VARIABLES push, pop, data_in, fifo_reset, reset_status, \* input wires
          ram,         \* the characters
          fifo,        \* their flags
          rfifo_flags, \* flags of the oldest character
          top, bottom, count, overrun,
          error_count, \* words with a flag, UART_FIFO_COUNTER_W bits
          collided     \* history: since the last reset a character was pushed
                       \* and popped at one edge with at most one in the FIFO

inputs    == <<push, pop, data_in, fifo_reset, reset_status>>
registers == <<ram, fifo, rfifo_flags, top, bottom, count, overrun, error_count>>
vars      == <<inputs, registers, collided>>

Word == [char : Char, flags : Flags]

\* The counters have one bit more than the pointers.
CounterModulus == 2 * Depth

Flagged(f) == f # NoFlags

Reset == /\ ram \in [Address -> Char]
         /\ fifo \in [Address -> Flags]
         /\ rfifo_flags = NoFlags
         /\ top = 0 /\ bottom = 0 /\ count = 0
         /\ overrun = FALSE
         /\ error_count = 0

\* The output ports.
data_out  == [char |-> ram[bottom], flags |-> rfifo_flags]
error_bit == error_count # 0

WriteRamNextDoor ==
  ram' = IF push THEN [ram EXCEPT ![Inc(top)] = data_in.char] ELSE ram

WriteRam == ram' = IF push THEN [ram EXCEPT ![top] = data_in.char] ELSE ram

OverrunIgnored == overrun' = (~fifo_reset /\ ~reset_status /\ overrun)

\* Unlike in uart_tfifo.v a pop at the same edge prevents the overrun.
Overrun == overrun' = (/\ ~fifo_reset /\ ~reset_status
                       /\ overrun \/ (push /\ ~pop /\ count = Depth))

\* The counter wraps in both directions.
CountUp   == error_count' = IF error_count = CounterModulus - 1 THEN 0 ELSE error_count + 1
CountDown == error_count' = IF error_count = 0 THEN CounterModulus - 1 ELSE error_count - 1

PushCharForgetsHead ==
  /\ ~fifo_reset /\ push /\ ~pop
  /\ count < Depth
  /\ top' = Inc(top)
  /\ count' = count + 1
  /\ fifo' = [fifo EXCEPT ![top] = data_in.flags]
  /\ IF Flagged(data_in.flags) THEN CountUp ELSE UNCHANGED error_count
  /\ UNCHANGED <<bottom, rfifo_flags>>

PushChar ==
  /\ ~fifo_reset /\ push /\ ~pop
  /\ count < Depth
  /\ top' = Inc(top)
  /\ count' = count + 1
  /\ fifo' = [fifo EXCEPT ![top] = data_in.flags]
  /\ IF Flagged(data_in.flags) THEN CountUp ELSE UNCHANGED error_count
  /\ rfifo_flags' = IF count = 0 THEN data_in.flags ELSE rfifo_flags
  /\ UNCHANGED bottom

\* The pointers stay, but WriteRam stores the character over the oldest one.
PushFull ==
  /\ ~fifo_reset /\ push /\ ~pop
  /\ count = Depth
  /\ UNCHANGED <<top, bottom, count, fifo, rfifo_flags, error_count>>

PopCharFromEmpty ==
  /\ ~fifo_reset /\ ~push /\ pop
  /\ bottom' = Inc(bottom)
  /\ count' = count - 1
  /\ fifo' = [fifo EXCEPT ![bottom] = NoFlags]
  /\ IF Flagged(rfifo_flags) THEN CountDown ELSE UNCHANGED error_count
  /\ rfifo_flags' = fifo[Inc(bottom)]
  /\ UNCHANGED top

\* The flags of the next word are read whether there is one or not.
PopChar ==
  /\ ~fifo_reset /\ ~push /\ pop
  /\ count > 0
  /\ bottom' = Inc(bottom)
  /\ count' = count - 1
  /\ fifo' = [fifo EXCEPT ![bottom] = NoFlags]
  /\ IF Flagged(rfifo_flags) THEN CountDown ELSE UNCHANGED error_count
  /\ rfifo_flags' = fifo[Inc(bottom)]
  /\ UNCHANGED top

\* Both pointers move without a look at the counter, and rfifo_flags takes
\* the OLD contents of fifo: with one word stored, not the flags pushed.
PushPop ==
  /\ ~fifo_reset /\ push /\ pop
  /\ top' = Inc(top)
  /\ bottom' = Inc(bottom)
  /\ fifo' = [fifo EXCEPT ![top] = data_in.flags]
  /\ CASE Flagged(data_in.flags) /\ ~Flagged(rfifo_flags) -> CountUp
       [] ~Flagged(data_in.flags) /\ Flagged(rfifo_flags) -> CountDown
       [] OTHER -> UNCHANGED error_count
  /\ rfifo_flags' = fifo[Inc(bottom)]
  /\ UNCHANGED count

Hold ==
  /\ ~fifo_reset /\ ~push
  /\ pop => count = 0
  /\ UNCHANGED <<top, bottom, count, fifo, rfifo_flags, error_count>>

ClearKeepsErrors ==
  /\ fifo_reset
  /\ top' = 0 /\ bottom' = 0 /\ count' = 0
  /\ rfifo_flags' = NoFlags
  /\ UNCHANGED <<fifo, error_count>>

Clear ==
  /\ fifo_reset
  /\ top' = 0 /\ bottom' = 0 /\ count' = 0
  /\ rfifo_flags' = NoFlags
  /\ error_count' = 0
  /\ UNCHANGED fifo

\* One edge of clk.
Clock == /\ WriteRam
         /\ Overrun
         /\ PushChar \/ PushFull \/ PopChar \/ PushPop \/ Hold \/ Clear

Observe == collided' = (~fifo_reset /\ (collided \/ (push /\ pop /\ count <= 1)))

AnyInputs == /\ push \in BOOLEAN
             /\ pop \in BOOLEAN
             /\ data_in \in Word
             /\ fifo_reset \in BOOLEAN
             /\ reset_status \in BOOLEAN

\* The environment drives the inputs of the next cycle.
Drive == /\ push' \in BOOLEAN
         /\ pop' \in BOOLEAN
         /\ data_in' \in Word
         /\ fifo_reset' \in BOOLEAN
         /\ reset_status' \in BOOLEAN

Init == Reset /\ collided = FALSE /\ AnyInputs

Next == Clock /\ Observe /\ Drive

Spec == Init /\ [][Next]_vars

\* The software iob_uart16550.c:30-46 pops only after it saw a character.
PoliteNext == Next /\ (pop' => count' > 0)

PoliteSpec == Init /\ ~pop /\ [][PoliteNext]_vars
-----------------------------------------------------------------------------
(* Properties *)

TypeOK == /\ AnyInputs
          /\ ram \in [Address -> Char]
          /\ fifo \in [Address -> Flags]
          /\ rfifo_flags \in Flags
          /\ top \in Address
          /\ bottom \in Address
          /\ count \in 0 .. Depth
          /\ overrun \in BOOLEAN
          /\ error_count \in 0 .. (CounterModulus - 1)
          /\ collided \in BOOLEAN

\* top, bottom and count, updated by separate assignments in each case of
\* {push, pop}, always agree.
PointersAgree == top = Slot(bottom, count)

\* The addresses of the words stored, and of those that have a flag.
Occupied     == {Slot(bottom, i) : i \in 0 .. (count - 1)}
FlaggedWords == {a \in Occupied : Flagged(fifo[a])}

\* Unless a push met a pop with at most one word stored, the flags shown with
\* the oldest character are its own, and error_count is the number of stored
\* words with a flag: every increment made when such a word came is matched by
\* one decrement when that word leaves, however long after and whatever
\* overran the FIFO in between.
ErrorsBelongToWords ==
  ~collided => /\ count > 0 => rfifo_flags = fifo[bottom]
               /\ error_count = Cardinality(FlaggedWords)

Inv == TypeOK /\ PointersAgree /\ ErrorsBelongToWords

\* The words from bottom upwards, put together from the two memories.
Words    == [a \in Address |-> [char |-> ram[a], flags |-> fifo[a]]]
Contents == Stored(Words, bottom, count)

Queue == INSTANCE RxQueue WITH q <- Contents

\* The two memories implement the queue of RxQueue.tla, even when rfifo_flags
\* and error_count have gone wrong.
ImplementsQueue == Queue!Spec

\* A character overwritten by an overrun is reported: an edge that changes
\* the oldest character of the full FIFO sets overrun, unless the line status
\* is read at that very edge.
LossIsReported ==
  [][(~fifo_reset /\ bottom' = bottom /\ count > 0 /\ ram'[bottom] # ram[bottom])
       => overrun' \/ reset_status]_vars

\* "Additional logic for detection of error conditions (parity and framing)
\* inside the FIFO for the Line Status Register bit 7" (uart_rfifo.v:292-293):
\* error_bit is set exactly when a stored word has a flag, without the
\* reservation of ErrorsBelongToWords.
ErrorBitIsTruthful == error_bit <=> FlaggedWords # {}
=============================================================================

------------------------------- MODULE TFifo --------------------------------
(***************************************************************************)
(* uart_tfifo.v with its memory raminfr.v: the transmitter FIFO.  A step is *)
(* one rising edge of clk.  The input wires are variables that hold what    *)
(* the edge samples; Clock says what the edge does to the registers, and    *)
(* Next lets the environment drive the inputs of the following cycle.       *)
(*                                                                          *)
(* The memory is written at every edge with push = 1, whatever the counter  *)
(* says and even while the FIFO is being reset (raminfr has no reset).      *)
(***************************************************************************)
EXTENDS Ring

CONSTANT Char       \* the characters the memory words can hold

VARIABLES push, pop, data_in, fifo_reset, reset_status, \* input wires
          ram,      \* contents of raminfr
          top,      \* where the next pushed character is written
          bottom,   \* where the oldest character is read
          count,    \* characters stored
          overrun   \* sticky: a push found the FIFO full

inputs    == <<push, pop, data_in, fifo_reset, reset_status>>
registers == <<ram, top, bottom, count, overrun>>
vars      == <<inputs, registers>>

\* After wb_rst_i; the memory powers up with arbitrary contents.
Reset == /\ ram \in [Address -> Char]
         /\ top = 0
         /\ bottom = 0
         /\ count = 0
         /\ overrun = FALSE

\* The asynchronous read port of raminfr.
data_out == ram[bottom]

WriteRamNextDoor == ram' = IF push THEN [ram EXCEPT ![Inc(top)] = data_in] ELSE ram

\* The write port of raminfr.
WriteRam == ram' = IF push THEN [ram EXCEPT ![top] = data_in] ELSE ram

\* Set by a push at count = fifo_depth, also when a pop frees a place at that
\* very edge; a reset or a read of the line status clears it and wins.
Overrun == overrun' = (/\ ~fifo_reset /\ ~reset_status
                       /\ overrun \/ (push /\ count = Depth))

PushCharPastEnd ==
  /\ ~fifo_reset /\ push /\ ~pop
  /\ count <= Depth
  /\ top' = Inc(top)
  /\ count' = count + 1
  /\ UNCHANGED bottom

PushChar ==
  /\ ~fifo_reset /\ push /\ ~pop
  /\ count < Depth
  /\ top' = Inc(top)
  /\ count' = count + 1
  /\ UNCHANGED bottom

\* The pointers stay, but WriteRam stores the character over the oldest one.
PushFull ==
  /\ ~fifo_reset /\ push /\ ~pop
  /\ count = Depth
  /\ UNCHANGED <<top, bottom, count>>

PopChar ==
  /\ ~fifo_reset /\ ~push /\ pop
  /\ count > 0
  /\ bottom' = Inc(bottom)
  /\ count' = count - 1
  /\ UNCHANGED top

\* Both pointers move and the counter stays, without a look at the counter.
PushPop ==
  /\ ~fifo_reset /\ push /\ pop
  /\ top' = Inc(top)
  /\ bottom' = Inc(bottom)
  /\ UNCHANGED count

Hold ==
  /\ ~fifo_reset /\ ~push
  /\ pop => count = 0
  /\ UNCHANGED <<top, bottom, count>>

ClearKeepsBottom ==
  /\ fifo_reset
  /\ top' = 0
  /\ count' = 0
  /\ UNCHANGED bottom

Clear ==
  /\ fifo_reset
  /\ top' = 0
  /\ bottom' = 0
  /\ count' = 0

\* One edge of clk.
Clock == /\ WriteRam
         /\ Overrun
         /\ PushChar \/ PushFull \/ PopChar \/ PushPop \/ Hold \/ Clear

AnyInputs == /\ push \in BOOLEAN
             /\ pop \in BOOLEAN
             /\ data_in \in Char
             /\ fifo_reset \in BOOLEAN
             /\ reset_status \in BOOLEAN

\* The environment drives the inputs of the next cycle.
Drive == /\ push' \in BOOLEAN
         /\ pop' \in BOOLEAN
         /\ data_in' \in Char
         /\ fifo_reset' \in BOOLEAN
         /\ reset_status' \in BOOLEAN

Init == Reset /\ AnyInputs

Next == Clock /\ Drive

Spec == Init /\ [][Next]_vars
-----------------------------------------------------------------------------
(* Properties *)

\* Every register stays within its width: the pointers address the memory
\* and the counter of fifo_counter_w bits never exceeds fifo_depth.
TypeOK == /\ AnyInputs
          /\ ram \in [Address -> Char]
          /\ top \in Address
          /\ bottom \in Address
          /\ count \in 0 .. Depth
          /\ overrun \in BOOLEAN

\* The three registers always tell the same story: top is count places above
\* bottom.  Nothing in the code derives one from the others (each is updated
\* by its own assignment in each case of {push, pop}), and a single step that
\* moves one of them alone misplaces every character after it.
PointersAgree == top = Slot(bottom, count)

Inv == TypeOK /\ PointersAgree

\* The characters from bottom upwards, oldest first.
Contents == Stored(ram, bottom, count)

Queue == INSTANCE CharQueue WITH q <- Contents

\* The circular buffer implements the queue of CharQueue.tla, at every edge
\* and for every combination of push, pop, reset and overrun: the character
\* that leaves is the one that queue would deliver.
ImplementsQueue == Queue!Spec
=============================================================================

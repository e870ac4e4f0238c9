----------------------------- MODULE CharQueue ------------------------------
(***************************************************************************)
(* What a character FIFO of the UART does for its user, without pointers,   *)
(* memory or counter: a queue of at most Depth characters.  The variables   *)
(* push, pop, data_in and fifo_reset are its input wires; a step is one     *)
(* rising edge of clk, which samples them.  Characters leave in the order   *)
(* they came, with two exceptions that the code makes and that are          *)
(* therefore part of the promise:                                           *)
(*   - a character pushed into a full queue replaces the OLDEST one (the    *)
(*     memory is written at top, and top = bottom when the FIFO is full);   *)
(*   - a character pushed at the very edge at which the empty queue is      *)
(*     popped is lost.                                                      *)
(***************************************************************************)
EXTENDS Naturals, Sequences

CONSTANTS Depth, Char

VARIABLES q, push, pop, data_in, fifo_reset

Init == q = << >>

Put == /\ ~fifo_reset /\ push /\ ~pop
       /\ Len(q) < Depth
       /\ q' = Append(q, data_in)

ReplaceOldest == /\ ~fifo_reset /\ push /\ ~pop
                 /\ Len(q) = Depth
                 /\ q' = <<data_in>> \o Tail(q)

Take == /\ ~fifo_reset /\ ~push /\ pop
        /\ q # << >>
        /\ q' = Tail(q)

TakeAndPut == /\ ~fifo_reset /\ push /\ pop
              /\ q # << >>
              /\ q' = Append(Tail(q), data_in)

Lost == /\ ~fifo_reset /\ push /\ pop
        /\ q = << >>
        /\ UNCHANGED q

Idle == /\ ~fifo_reset /\ ~push
        /\ pop => q = << >>
        /\ UNCHANGED q

Clear == /\ fifo_reset
         /\ q' = << >>

Next == Put \/ ReplaceOldest \/ Take \/ TakeAndPut \/ Lost \/ Idle \/ Clear

Spec == Init /\ [][Next]_<<q, push, pop, data_in, fifo_reset>>
=============================================================================

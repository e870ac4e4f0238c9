------------------------------ MODULE RxQueue -------------------------------
(***************************************************************************)
(* What the memories of the receiver FIFO do: a queue of at most Depth      *)
(* received characters, each with the error flags it was received with.     *)
(* As in CharQueue.tla a character pushed at the very edge at which the     *)
(* empty queue is popped is lost.  A character pushed into a full queue     *)
(* overwrites the oldest CHARACTER but not its flags: the characters are    *)
(* written at every push, the flags only when there is room.                *)
(***************************************************************************)
EXTENDS Naturals, Sequences

CONSTANT Depth

VARIABLES q, push, pop, data_in, fifo_reset

Init == q = << >>

Put == /\ ~fifo_reset /\ push /\ ~pop
       /\ Len(q) < Depth
       /\ q' = Append(q, data_in)

OverwriteOldest == /\ ~fifo_reset /\ push /\ ~pop
                   /\ Len(q) = Depth
                   /\ q' = [q EXCEPT ![1].char = data_in.char]

Take == /\ ~fifo_reset /\ ~push /\ pop
        /\ q # << >>
        /\ q' = Tail(q)

TakeAndPut == /\ ~fifo_reset /\ push /\ pop
              /\ q # << >>
              /\ q' = Append(Tail(q), data_in)

Lost == /\ ~fifo_reset /\ push /\ pop
        /\ q = << >>
        /\ UNCHANGED q

Idle == /\ ~fifo_reset /\ ~push
        /\ pop => q = << >>
        /\ UNCHANGED q

Clear == /\ fifo_reset
         /\ q' = << >>

Next == \/ Put \/ OverwriteOldest \/ Take \/ TakeAndPut
        \/ Lost \/ Idle \/ Clear

Spec == Init /\ [][Next]_<<q, push, pop, data_in, fifo_reset>>
=============================================================================

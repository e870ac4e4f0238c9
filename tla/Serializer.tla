----------------------------- MODULE Serializer -----------------------------
(***************************************************************************)
(* What the transmitter does for its user: it keeps the characters written  *)
(* to it in a queue and puts their frames on the line, one after the other, *)
(* each lasting FrameTicks ticks of the baud clock.  No shift register, no  *)
(* bit counters: the level of the line at tick t of a frame is Level(cur,   *)
(* lcr, t).  Two ticks of each frame (the last of its stop bits) are spent  *)
(* looking for the next character and loading it.                           *)
(***************************************************************************)
EXTENDS LineControl, Sequences

CONSTANT Depth

VARIABLES lcr, tf_push, wb_dat_i, enable, tx_reset,   \* inputs
          q,        \* characters not yet loaded
          phase,    \* "idle", "load" or "frame"
          t,        \* ticks of the frame already on the line
          cur,      \* the character of the frame
          line

Init == q = << >> /\ phase = "idle" /\ t = 0 /\ line = 1

Loading == enable /\ phase = "load"

\* A write when the queue is full replaces the oldest character waiting, or is
\* itself lost if that character is being loaded at the same edge.
Queue ==
  LET rest == IF Loading THEN Tail(q) ELSE q
  IN  q' = CASE tx_reset                              -> << >>
             [] ~tx_reset /\ ~tf_push                 -> rest
             [] ~tx_reset /\ tf_push /\ Len(q) < Depth -> Append(rest, wb_dat_i)
             [] OTHER -> IF Loading THEN rest ELSE <<wb_dat_i>> \o Tail(q)

Wait == /\ ~enable
        /\ UNCHANGED <<phase, t, cur, line>>

Look == /\ enable /\ phase = "idle"
        /\ phase' = IF q = << >> THEN "idle" ELSE "load"
        /\ line' = 1
        /\ UNCHANGED <<t, cur>>

Load == /\ Loading
        /\ q # << >>
        /\ cur' = Head(q)
        /\ phase' = "frame"
        /\ UNCHANGED <<t, line>>

Send == /\ enable /\ phase = "frame"
        /\ line' = Level(cur, lcr, t)
        /\ IF t = FrameTicks(lcr) - 3 THEN t' = 0 /\ phase' = "idle"
                                      ELSE t' = t + 1 /\ UNCHANGED phase
        /\ UNCHANGED cur

Next == Queue /\ (Wait \/ Look \/ Load \/ Send)

Spec == Init /\ [][Next]_<<lcr, tf_push, wb_dat_i, enable, tx_reset,
                           q, phase, t, cur, line>>
=============================================================================

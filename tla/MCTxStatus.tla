----------------------------- MODULE MCTxStatus -----------------------------
(***************************************************************************)
(* Constants for model checking TxStatus.tla: the line mode with the        *)
(* shortest frame, and one character.                                       *)
(***************************************************************************)
EXTENDS TxStatus

MCData == {[i \in 0 .. 7 |-> i % 2]}

MCLineModes == {[bits |-> 5, sb |-> FALSE, pe |-> FALSE,
                 ep |-> FALSE, sp |-> FALSE, bc |-> FALSE]}
=============================================================================

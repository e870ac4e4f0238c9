---------------------------- MODULE MCFileTransfer ---------------------------
(***************************************************************************)
(* FileTransfer with 11 characters: two names; an empty file, one of two    *)
(* control characters, and one of every character whose size, 127, takes    *)
(* three bytes, 6, 0 and 1: the first has its top bit set, and is an ACK.   *)
(***************************************************************************)
EXTENDS FileTransfer

MCName == {<<1>>, <<2>>}
MCData == {<<>>, <<6, 8>>, [i \in 1 .. 127 |-> (i - 1) % 11]}
=============================================================================

---------------------------- MODULE MCLinuxDriver ----------------------------
(***************************************************************************)
(* Constants for LinuxDriver: two processes and two devices, and every      *)
(* stage of probe may fail.  The offsets reach the positions 0, 4, 8, 12    *)
(* and 16: MCR, VERSION, and three without a register to write.             *)
(***************************************************************************)
EXTENDS LinuxDriver

CONSTANTS p1, p2, d1, d2

MCFailing == Stage
MCOffset  == {4, -12}
=============================================================================

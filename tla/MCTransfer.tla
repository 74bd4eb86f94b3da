----------------------------- MODULE MCTransfer -----------------------------
(***************************************************************************)
(* Bounds for TLC: the configurations give Transfer a file, a window and   *)
(* an environment.                                                         *)
(***************************************************************************)
EXTENDS Transfer

\* END_OF_FILE takes a slot that a data packet had before, so that slots are
\* used again and the server's window closes before the end of the file.
ASSUME SlotsReused == NBlocks >= WindowSize
=============================================================================

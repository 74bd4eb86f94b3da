------------------------------ MODULE MCPollSet ------------------------------
(***************************************************************************)
(* Processes for TLC: with the usual three descriptors, without standard   *)
(* input or any, with so many that the table, of four entries here, ends   *)
(* just before or after the socket, and with all the system allows.        *)
(***************************************************************************)
EXTENDS PollSet

SmallSets == {{}, {1, 2}, {0, 1, 2}, {0, 1, 2, 3}, {0, 1, 2, 4}, {0, 1, 2, 3, 4},
              {0, 1, 2, 3, 4, 5}}
=============================================================================

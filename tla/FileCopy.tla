------------------------------ MODULE FileCopy ------------------------------
(***************************************************************************)
(* What a transfer promises, without packets or windows.  The output file  *)
(* is a growing prefix of the input file, in blocks; rcopy reports success  *)
(* when it is the whole file; the server child reports success only after  *)
(* rcopy has.  Either side may stop at any time without reporting success. *)
(***************************************************************************)
EXTENDS Pdu

VARIABLES
  copied,       \* the chunks written to the output file
  clientDone,   \* rcopy has ended with "Finished Transmission"
  serverDone    \* the server child has

File == [b \in Blocks |-> FileChunk(b)]

CopyInit ==
  /\ copied = << >>
  /\ clientDone = FALSE
  /\ serverDone = FALSE

CopyBlocks ==
  /\ ~clientDone
  /\ \E n \in Len(copied)..NBlocks : copied' = SubSeq(File, 1, n)
  /\ UNCHANGED <<clientDone, serverDone>>

\* flush() may write the last blocks in the step that ends rcopy.
ClientReports ==
  /\ ~clientDone
  /\ copied' = File
  /\ clientDone' = TRUE
  /\ UNCHANGED serverDone

ServerReports ==
  /\ clientDone
  /\ serverDone' = TRUE
  /\ UNCHANGED <<copied, clientDone>>

CopyNext == CopyBlocks \/ ClientReports \/ ServerReports

CopySpec == CopyInit /\ [][CopyNext]_<<copied, clientDone, serverDone>>
=============================================================================

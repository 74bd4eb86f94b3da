-------------------------------- MODULE Pdu --------------------------------
(***************************************************************************)
(* The packets of pdu.c and the file they carry.                           *)
(*                                                                         *)
(* A PDU is a 7 byte header (sequence number, checksum, flag) and a        *)
(* payload.  Bytes are abstracted to what the protocol distinguishes: the  *)
(* payload of a data packet is the index of the file block it carries (0   *)
(* when it carries anything else), the checksum is the bit "ok", which is  *)
(* what in_cksum(...) # 0 tells the receiver.  Lengths are kept, in bytes: *)
(* both programs compare them and choose how much of a buffer to send or   *)
(* to write by them.                                                       *)
(***************************************************************************)
EXTENDS Integers, Sequences

CONSTANTS
  NBlocks,   \* number of blocks that read(data_file, buf, buf_size) returns
  LastLen,   \* payload length of the last block
  BufSize    \* the buffer-size argument of rcopy

\* The file is cut by read(): every block but the last is full, the last has
\* at least one byte.  Sequence numbers are uint32_t in the code; NBlocks is
\* bounded so that none of them can wrap.
ASSUME FileAssumption ==
  /\ NBlocks \in Nat
  /\ NBlocks < 2147483647
  /\ BufSize \in Nat \ {0}
  /\ LastLen \in 1..BufSize

HeaderLen == 7

\* data_packet_len, the same value in both programs: it comes from the
\* buffer-size argument and travels in the FILENAME_INIT packet.
DataPacketLen == HeaderLen + BufSize

\* Lengths of packets on the wire; a length variable is 0 until it is assigned.
PacketLens == HeaderLen..DataPacketLen

Blocks == 1..NBlocks

BlockLen(b) == IF b = NBlocks THEN LastLen ELSE BufSize

\* What one write(output_file, ...) of the client appends to the output file:
\* the block whose bytes were written (0: bytes that are no block of the file)
\* and how many.
Chunk == [block : 0..NBlocks, len : 0..BufSize]

NoChunk == [block |-> 0, len |-> 0]

FileChunk(b) == [block |-> b, len |-> BlockLen(b)]

-----------------------------------------------------------------------------
(* Packets from the server process to rcopy. *)

DataFlags == {"FNAME_OK", "FNAME_BAD", "DATA", "END_OF_FILE",
              "SREJ_RETRAN", "DATA_TIMEOUT", "ZERO"}

DataPdu == [flag : DataFlags, seq : Nat, block : 0..NBlocks,
            len : PacketLens, ok : BOOLEAN]

CreatePdu(flag, seq, block, len) ==
  [flag |-> flag, seq |-> seq, block |-> block, len |-> len, ok |-> TRUE]

(* Packets from rcopy to the server process: RR, SREJ and EOF_ACK with the
   sequence number in the payload.  Their header carries clientSeqNum, which
   the server reads and never uses. *)

AckFlags == {"RR", "SREJ", "EOF_ACK"}

AckPdu == [flag : AckFlags, num : Nat, ok : BOOLEAN]

CreateAck(flag, num) == [flag |-> flag, num |-> num, ok |-> TRUE]

\* errorFlipBits::run turns one byte into its complement, which in_cksum
\* always notices.
FlipBits(p) == [p EXCEPT !.ok = FALSE]
=============================================================================

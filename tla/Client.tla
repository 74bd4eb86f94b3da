------------------------------- MODULE Client -------------------------------
(***************************************************************************)
(* rcopy.c from the state FILENAME on: its FILENAME_INIT packet has started *)
(* a child of the server, and one socket is open.  States keep the names of *)
(* enum State; the ends of the process, or of this socket, are told apart:  *)
(*   FINISHED    EOF_ACK sent                                              *)
(*   TIMED_OUT   nothing arrived for ten seconds                           *)
(*   NO_FILE     FNAME_BAD received                                        *)
(*   OPEN_ERROR  the output file cannot be opened                          *)
(*   RESTART     START_STATE again, which closes this socket               *)
(* WRITE is no state of the enum but the point in recv_data() and flush()  *)
(* between an RR and the write() that follows it.                          *)
(* The parameter of an action says that the server waits as well.          *)
(*                                                                         *)
(* Not in this module: the retry counter of filename(), which every packet *)
(* clears and which can reach its limit only over several sockets.         *)
(***************************************************************************)
EXTENDS Link, Window, FiniteSets

CONSTANTS
  OpenFails,       \* TRUE: open() of the output file may fail
  MaxWriteFaults   \* bound: write() calls that fail or fall short

ASSUME ClientAssumption == OpenFails \in BOOLEAN /\ MaxWriteFaults \in Nat

VARIABLES
  clientState,
  clientWindow,
  expected, highest,           \* next packet to write, last packet buffered
  lastLen, lastSeq,            \* final_packet_len, final_packet_seq of rcopy
  eofSeq,                      \* eof_seq
  output,                      \* what each write() has appended to the output file
  unwritten,                   \* data: the block whose write() comes next
  writeFaults                  \* what MaxWriteFaults has paid for

fileVars == <<output, unwritten, writeFaults>>

clientVars == <<clientState, clientWindow, expected, highest, lastLen, lastSeq,
                eofSeq, fileVars>>

ClientRunning == {"FILENAME", "FILE_OK", "RECV_DATA", "WRITE", "BUFFER", "FLUSH"}

ClientEnds == {"FINISHED", "TIMED_OUT", "NO_FILE", "OPEN_ERROR", "RESTART"}

\* States before and after the calloc of the buffer are told apart, because
\* seq % size divides by zero in the first ones.
NoClientWindow == {"FILENAME", "FILE_OK", "NO_FILE", "OPEN_ERROR", "RESTART"}

ClientTypeOK ==
  /\ clientState \in ClientRunning \cup ClientEnds
  /\ clientWindow \in IF clientState \in NoClientWindow THEN {NoWindow} ELSE WindowType
  /\ expected \in Nat
  /\ highest \in Nat
  /\ lastLen \in PacketLens \cup {0}
  /\ lastSeq \in Nat
  /\ eofSeq \in Nat
  /\ output \in Seq(Chunk)
  /\ unwritten \in Chunk
  /\ writeFaults \in 0..MaxWriteFaults
  /\ clientOpen = (clientState \in ClientRunning)

ClientInit ==
  /\ clientState = "FILENAME"
  /\ clientWindow = NoWindow
  /\ expected = 1
  /\ highest = 1
  /\ lastLen = 0
  /\ lastSeq = 0
  /\ eofSeq = 0
  /\ output = << >>
  /\ unwritten = NoChunk
  /\ writeFaults = 0

ClientExits(end) == clientState' = end /\ ClientCloses

\* The client waits in pollCall.
ClientIdle == clientState \in {"FILENAME", "RECV_DATA", "BUFFER"} \cup ClientEnds

Written(block, len) == [block |-> block, len |-> len - HeaderLen]

\* A write() that fails or falls short, taken to append nothing.
Short(chunk) == [chunk EXCEPT !.len = 0]

\* write(output_file, ...) of the chunks in turn.  Its result is ignored.
Writes(chunks) ==
  \E short \in SUBSET DOMAIN chunks :
    /\ writeFaults + Cardinality(short) <= MaxWriteFaults
    /\ writeFaults' = writeFaults + Cardinality(short)
    /\ output' = output \o [i \in DOMAIN chunks |->
                              IF i \in short THEN Short(chunks[i]) ELSE chunks[i]]

-----------------------------------------------------------------------------
(* filename() *)

FilenameTimer(serverIdle) ==
  /\ clientState = "FILENAME"
  /\ TimerExpires(serverIdle)
  /\ ClientExits("RESTART")
  /\ UNCHANGED <<toServer, serverOpen, dataFaults, ackFaults, disorder>>
  /\ UNCHANGED <<clientWindow, expected, highest, lastLen, lastSeq, eofSeq, fileVars>>

\* The flag is tested even when the checksum is wrong.  damaged: the flipped
\* byte is the flag, whose complement is no flag at all.
FilenameAnswered ==
  /\ clientState = "FILENAME"
  /\ toClient # << >>
  /\ LET p == Head(toClient) IN
     \E damaged \in IF p.ok THEN {FALSE} ELSE BOOLEAN :
       IF p.flag = "FNAME_BAD" /\ ~damaged
       THEN ClientExits("NO_FILE")
       ELSE /\ clientState' = IF p.ok \/ (p.flag = "DATA" /\ ~damaged)
                              THEN "FILE_OK" ELSE "FILENAME"
            /\ ClientReceives
  /\ UNCHANGED <<toServer, serverOpen, dataFaults, ackFaults, delays, disorder>>
  /\ UNCHANGED <<clientWindow, expected, highest, lastLen, lastSeq, eofSeq, fileVars>>

(* file_ok() *)
FileOk ==
  /\ clientState = "FILE_OK"
  /\ \/ /\ clientState' = "RECV_DATA"
        /\ clientWindow' = WindowCreate
        /\ UNCHANGED <<clientOpen, toClient>>
     \/ /\ OpenFails
        /\ ClientExits("OPEN_ERROR")
        /\ UNCHANGED clientWindow
  /\ UNCHANGED <<toServer, serverOpen, dataFaults, ackFaults, delays, disorder>>
  /\ UNCHANGED <<expected, highest, lastLen, lastSeq, eofSeq, fileVars>>

-----------------------------------------------------------------------------
(* recv_data() and buffer(): the parts they share *)

\* pollCall(10000): longer than the server takes to give up, so that the timer
\* is right only after the server has gone.
DataTimer ==
  /\ clientState \in {"RECV_DATA", "BUFFER"}
  /\ TimerExpires(~serverOpen)
  /\ ClientExits("TIMED_OUT")
  /\ UNCHANGED <<toServer, serverOpen, dataFaults, ackFaults, disorder>>
  /\ UNCHANGED <<clientWindow, expected, highest, lastLen, lastSeq, eofSeq, fileVars>>

DataCorrupted ==
  /\ clientState \in {"RECV_DATA", "BUFFER"}
  /\ toClient # << >>
  /\ ~Head(toClient).ok
  /\ ClientReceives
  /\ UNCHANGED <<toServer, serverOpen, dataFaults, ackFaults, delays, disorder>>
  /\ UNCHANGED clientVars

\* A whole packet is taken in the given state.
Takes(state) ==
  /\ clientState = state
  /\ toClient # << >>
  /\ Head(toClient).ok
  /\ UNCHANGED <<serverOpen, dataFaults, delays, disorder>>

\* What the flag and the length of a packet tell about the end of the file.
\* Only flag DATA tells the length of the last block: a block that arrives as
\* a retransmission does not.
Learns(p) ==
  /\ IF p.flag = "DATA" /\ p.len # DataPacketLen
     THEN lastLen' = p.len /\ lastSeq' = p.seq
     ELSE UNCHANGED <<lastLen, lastSeq>>
  /\ eofSeq' = IF p.flag = "END_OF_FILE" THEN p.seq ELSE eofSeq

(* recv_data() *)

RecvEof ==
  LET p == Head(toClient) IN
  /\ Takes("RECV_DATA")
  /\ p.seq = expected
  /\ p.flag = "END_OF_FILE"
  /\ Learns(p)
  /\ SendToServer(CreateAck("EOF_ACK", p.seq + 1))
  /\ ClientExits("FINISHED")
  /\ UNCHANGED <<clientWindow, expected, highest, fileVars>>

\* The RR goes out before the block is written.  expected and highest, which
\* only rcopy sees, are raised here rather than after the write().
RecvInOrder ==
  LET p == Head(toClient) IN
  /\ Takes("RECV_DATA")
  /\ p.seq = expected
  /\ p.flag # "END_OF_FILE"
  /\ Learns(p)
  /\ SendToServer(CreateAck("RR", p.seq + 1))
  /\ unwritten' = Written(p.block, p.len)
  /\ clientState' = "WRITE"
  /\ highest' = expected
  /\ expected' = expected + 1
  /\ ClientReceives
  /\ UNCHANGED <<clientWindow, output, writeFaults>>

RecvAhead ==
  LET p == Head(toClient) IN
  /\ Takes("RECV_DATA")
  /\ p.seq > expected
  /\ Learns(p)
  /\ SendToServer(CreateAck("SREJ", expected))
  /\ clientWindow' = WindowAdd(clientWindow, p.seq, p)
  /\ highest' = p.seq
  /\ clientState' = "BUFFER"
  /\ ClientReceives
  /\ UNCHANGED <<expected, fileVars>>

RecvOld ==
  LET p == Head(toClient) IN
  /\ Takes("RECV_DATA")
  /\ p.seq < expected
  /\ Learns(p)
  /\ SendToServer(CreateAck("RR", p.seq + 1))
  /\ ClientReceives
  /\ UNCHANGED <<clientState, clientWindow, expected, highest, fileVars>>

(* The write() after an RR, of recv_data() or at the end of flush() *)

WriteAcknowledged ==
  /\ clientState = "WRITE"
  /\ Writes(<<unwritten>>)
  /\ unwritten' = NoChunk
  /\ clientState' = "RECV_DATA"
  /\ UNCHANGED linkVars
  /\ UNCHANGED <<clientWindow, expected, highest, lastLen, lastSeq, eofSeq>>

(* buffer() *)

\* Back to recv_data() with the buffered packets left where they are.
BufferOld ==
  LET p == Head(toClient) IN
  /\ Takes("BUFFER")
  /\ p.seq < expected
  /\ SendBothToServer(CreateAck("SREJ", expected), CreateAck("RR", p.seq + 1))
  /\ clientState' = "RECV_DATA"
  /\ ClientReceives
  /\ UNCHANGED <<clientWindow, expected, highest, lastLen, lastSeq, eofSeq, fileVars>>

BufferInOrder ==
  LET p == Head(toClient) IN
  /\ Takes("BUFFER")
  /\ p.seq = expected
  /\ Learns(p)
  /\ Writes(<<Written(p.block, p.len)>>)
  /\ clientWindow' = WindowRemove(clientWindow, p.seq)
  /\ expected' = expected + 1
  /\ clientState' = "FLUSH"
  /\ ClientReceives
  /\ UNCHANGED <<toServer, ackFaults, highest, unwritten>>

\* highest is the last packet buffered, not the highest one.
BufferAhead ==
  LET p == Head(toClient) IN
  /\ Takes("BUFFER")
  /\ p.seq > expected
  /\ Learns(p)
  /\ clientWindow' = WindowAdd(clientWindow, p.seq, p)
  /\ highest' = p.seq
  /\ ClientReceives
  /\ UNCHANGED <<clientState, expected, fileVars, toServer, ackFaults>>

-----------------------------------------------------------------------------
(* flush() *)

\* Sequence numbers the loop gets through: it stops at highest, at the first
\* slot that is not valid (one it has been through included) and at eof_seq.
Passes(k) ==
  /\ k < highest
  /\ k - expected < clientWindow.size
  /\ WindowIsValid(clientWindow, k)
  /\ k # eofSeq

FlushRun == {k \in expected..(highest - 1) : \A j \in expected..k : Passes(j)}

\* Seeded bug: holes ignored.
FlushedToHighest == highest

\* expected after the loop
FlushedTo == expected + Cardinality(FlushRun)

\* Seeded bug: final_packet_len forgotten.
BufferedLenFull(seq) == DataPacketLen

\* Seeded bug: final_packet_len before it is known.
BufferedLenFinal(seq) == lastLen

BufferedLen(seq) == IF seq = lastSeq THEN lastLen ELSE DataPacketLen

\* What write() appends for the buffered packet seq: as many bytes as its
\* sequence number says, whatever the packet's own length was.
FromBuffer(seq) ==
  LET len == BufferedLen(seq)
  IN  Written(Content(SlotOf(clientWindow, seq), len), len)

Flushed == [i \in 1..Cardinality(FlushRun) |-> FromBuffer(expected + i - 1)]

WindowFlushed ==
  [clientWindow EXCEPT !.buf = [i \in DOMAIN @ |->
     IF \E k \in FlushRun : i = k % clientWindow.size
     THEN [@[i] EXCEPT !.valid = FALSE] ELSE @[i]]]

\* Common to the three ways flush() ends.
Flushes ==
  /\ clientState = "FLUSH"
  /\ UNCHANGED <<serverOpen, dataFaults, delays, disorder>>
  /\ UNCHANGED <<highest, lastLen, lastSeq, eofSeq>>

\* END_OF_FILE is the next packet and has been buffered.
FlushEof ==
  LET e == FlushedTo IN
  /\ Flushes
  /\ e = eofSeq
  /\ e >= highest \/ WindowIsValid(WindowFlushed, e)
  /\ IF e >= highest
     THEN SendBothToServer(CreateAck("RR", e), CreateAck("EOF_ACK", e))
     ELSE SendToServer(CreateAck("EOF_ACK", e))
  /\ Writes(Flushed)
  /\ UNCHANGED unwritten
  /\ clientWindow' = WindowFlushed
  /\ expected' = e
  /\ ClientExits("FINISHED")

\* Everything up to highest is written; the packet highest itself is written
\* without a look at its valid flag, after the RR of those before it.
FlushAll ==
  LET e == FlushedTo IN
  /\ Flushes
  /\ e >= highest
  /\ e # eofSeq
  /\ SendToServer(CreateAck("RR", e))
  /\ Writes(Flushed)
  /\ unwritten' = FromBuffer(e)
  /\ clientWindow' = WindowRemove(WindowFlushed, e)
  /\ expected' = e + 1
  /\ clientState' = "WRITE"
  /\ UNCHANGED <<toClient, clientOpen>>

\* Another packet is missing.
FlushHole ==
  LET e == FlushedTo IN
  /\ Flushes
  /\ e < highest
  /\ ~WindowIsValid(WindowFlushed, e)
  /\ SendBothToServer(CreateAck("SREJ", e), CreateAck("RR", e))
  /\ Writes(Flushed)
  /\ UNCHANGED unwritten
  /\ clientWindow' = WindowFlushed
  /\ expected' = e
  /\ clientState' = "BUFFER"
  /\ UNCHANGED <<toClient, clientOpen>>

-----------------------------------------------------------------------------

ClientReceivesData ==
  \/ DataCorrupted
  \/ RecvEof \/ RecvInOrder \/ RecvAhead \/ RecvOld
  \/ BufferOld \/ BufferInOrder \/ BufferAhead

\* One pass of the loop of processFile().
ClientNext(serverIdle) ==
  \/ FilenameTimer(serverIdle) \/ FilenameAnswered
  \/ FileOk
  \/ DataTimer
  \/ ClientReceivesData
  \/ WriteAcknowledged
  \/ FlushEof \/ FlushAll \/ FlushHole
=============================================================================

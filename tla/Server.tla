------------------------------- MODULE Server -------------------------------
(***************************************************************************)
(* The child process of server.c that serves one rcopy, from the state     *)
(* FILENAME on: process_client() and the state functions it calls.  The    *)
(* names of the states are those of enum State; EOF_POLL is the pollCall   *)
(* inside wait_on_eof_ack(), and the ends of the process are told apart:   *)
(*   FINISHED    EOF_ACK received                                          *)
(*   GONE        MAX_RETRANS timers expired in a row                       *)
(*   NO_FILE     open() failed                                             *)
(*   READ_ERROR  read() failed                                             *)
(*   SEND_ERROR  sendtoErr() was given no bytes and exited                 *)
(* Actions take the condition under which the peer is idle as a parameter: *)
(* a timer that expires while the peer waits too is not a late packet.     *)
(***************************************************************************)
EXTENDS Link, Window

CONSTANTS
  MaxRetrans,   \* MAX_RETRANS
  Failures      \* TRUE: open() and read() may fail

ASSUME ServerAssumption == MaxRetrans \in Nat /\ Failures \in BOOLEAN

VARIABLES
  serverState,
  serverWindow,
  seqNum,                 \* seq_num: of the next packet
  lastSeqNum,             \* last_seq_num: of the END_OF_FILE packet
  eofLen,                 \* eof_len
  finished,               \* finished: END_OF_FILE has been sent
  finalLen, finalSeq,     \* final_packet_len, final_packet_seq
  retryCount,             \* the static retryCount of wait_on_ack
  eofRetryCount,          \* the static retryCount of wait_on_eof_ack
  blocksRead              \* offset of data_file, in blocks

serverVars == <<serverState, serverWindow, seqNum, lastSeqNum, eofLen,
                finished, finalLen, finalSeq, retryCount, eofRetryCount,
                blocksRead>>

ServerRunning == {"FILENAME", "SEND_DATA", "WAIT_ON_ACK", "TIMEOUT_ON_ACK",
                  "WAIT_ON_EOF_ACK", "EOF_POLL"}

ServerEnds == {"FINISHED", "GONE", "NO_FILE", "READ_ERROR", "SEND_ERROR"}

ServerTypeOK ==
  /\ serverState \in ServerRunning \cup ServerEnds
  /\ serverWindow \in IF serverState = "FILENAME" THEN {NoWindow} ELSE WindowType
  /\ seqNum \in Nat
  /\ lastSeqNum \in Nat
  /\ eofLen \in PacketLens \cup {0}
  /\ finished \in BOOLEAN
  /\ finalLen \in PacketLens \cup {0}
  /\ finalSeq \in Nat
  /\ retryCount \in 0..(MaxRetrans + 1)
  /\ eofRetryCount \in 0..MaxRetrans
  /\ blocksRead \in 0..NBlocks
  /\ serverOpen = (serverState \in ServerRunning)

ServerInit ==
  /\ serverState = "FILENAME"
  /\ serverWindow = NoWindow
  /\ seqNum = 1
  /\ lastSeqNum = 0
  /\ eofLen = 0
  /\ finished = FALSE
  /\ finalLen = 0
  /\ finalSeq = 0
  /\ retryCount = 0
  /\ eofRetryCount = 0
  /\ blocksRead = 0

ServerExits(end) == serverState' = end /\ ServerCloses

\* The server waits in pollCall.
ServerIdle == serverState \in {"WAIT_ON_ACK", "EOF_POLL"} \cup ServerEnds

-----------------------------------------------------------------------------
(* filename() *)

ServerFilename ==
  /\ serverState = "FILENAME"
  /\ serverWindow' = WindowCreate
  /\ \/ /\ SendToClient(CreatePdu("FNAME_OK", 0, 0, HeaderLen))
        /\ serverState' = "SEND_DATA"
        /\ UNCHANGED <<serverOpen, toServer>>
     \/ /\ Failures
        /\ SendToClient(CreatePdu("FNAME_BAD", 0, 0, HeaderLen))
        /\ ServerExits("NO_FILE")
  /\ UNCHANGED <<clientOpen, ackFaults, delays, disorder>>
  /\ UNCHANGED <<seqNum, lastSeqNum, eofLen, finished, finalLen, finalSeq,
                 retryCount, eofRetryCount, blocksRead>>

-----------------------------------------------------------------------------
(* send_data() *)

SendDataWindowFull ==
  /\ serverState = "SEND_DATA"
  /\ WindowFull(serverWindow)
  /\ serverState' = "WAIT_ON_ACK"
  /\ UNCHANGED linkVars
  /\ UNCHANGED <<serverWindow, seqNum, lastSeqNum, eofLen, finished, finalLen,
                 finalSeq, retryCount, eofRetryCount, blocksRead>>

SendDataReadError ==
  /\ serverState = "SEND_DATA"
  /\ ~WindowFull(serverWindow)
  /\ Failures
  /\ ServerExits("READ_ERROR")
  /\ UNCHANGED <<toClient, clientOpen, dataFaults, ackFaults, delays, disorder>>
  /\ UNCHANGED <<serverWindow, seqNum, lastSeqNum, eofLen, finished, finalLen,
                 finalSeq, retryCount, eofRetryCount, blocksRead>>

\* read() returns 0: END_OF_FILE carries one byte and takes a place in the
\* window, but seq_num stays.
SendEof ==
  /\ serverState = "SEND_DATA"
  /\ ~WindowFull(serverWindow)
  /\ blocksRead = NBlocks
  /\ serverState' = "WAIT_ON_ACK"
  /\ IF finished
     THEN UNCHANGED <<serverWindow, lastSeqNum, eofLen, finished, toClient, dataFaults>>
     ELSE LET p == CreatePdu("END_OF_FILE", seqNum, 0, HeaderLen + 1) IN
          /\ SendToClient(p)
          /\ serverWindow' = WindowCurUpdate(WindowAdd(serverWindow, seqNum, p))
          /\ lastSeqNum' = seqNum
          /\ eofLen' = p.len
          /\ finished' = TRUE
  /\ UNCHANGED <<toServer, clientOpen, serverOpen, ackFaults, delays, disorder>>
  /\ UNCHANGED <<seqNum, finalLen, finalSeq, retryCount, eofRetryCount, blocksRead>>

SendBlock ==
  /\ serverState = "SEND_DATA"
  /\ ~WindowFull(serverWindow)
  /\ blocksRead < NBlocks
  /\ blocksRead' = blocksRead + 1
  /\ LET p == CreatePdu("DATA", seqNum, blocksRead',
                        HeaderLen + BlockLen(blocksRead')) IN
     /\ SendToClient(p)
     /\ IF p.len # DataPacketLen
        THEN finalLen' = p.len /\ finalSeq' = seqNum
        ELSE UNCHANGED <<finalLen, finalSeq>>
     /\ serverWindow' = WindowCurUpdate(WindowAdd(serverWindow, seqNum, p))
  /\ seqNum' = seqNum + 1
  /\ UNCHANGED <<toServer, clientOpen, serverOpen, ackFaults, delays, disorder>>
  /\ UNCHANGED <<serverState, lastSeqNum, eofLen, finished, retryCount, eofRetryCount>>

-----------------------------------------------------------------------------
(* A stored packet that is sent again.  The length is chosen by comparing a
   sequence number with final_packet_seq; with nothing sent in between,
   sendtoErr() ends the process when it is given a length of 0. *)

\* Seeded bug: final_packet_len forgotten.
StoredLenFull(seq) == DataPacketLen

StoredLen(seq) == IF seq = finalSeq THEN finalLen ELSE DataPacketLen

StoredPdu(slot, flag, len, ok) ==
  [flag |-> flag, seq |-> slot.seq, block |-> Content(slot, len),
   len |-> len, ok |-> ok]

\* Seeded bug: pollCall(0) with a full window.
WindowClosedByEof == finished

\* The window is closed: no packet can be sent before an RR.
WindowClosed == WindowFull(serverWindow) \/ finished

(* timeout_on_ack(): the lowest packet of the window, whose sequence number is
   read from the packet itself *)
TimeoutOnAck ==
  LET slot == SlotOf(serverWindow, serverWindow.lower)
      len  == StoredLen(slot.seq)
  IN
  /\ serverState = "TIMEOUT_ON_ACK"
  /\ serverWindow' = WindowRetag(serverWindow, serverWindow.lower, "DATA_TIMEOUT", len)
  /\ IF len = 0
     THEN ServerExits("SEND_ERROR") /\ UNCHANGED <<toClient, dataFaults>>
     ELSE /\ SendToClient(StoredPdu(slot, "DATA_TIMEOUT", len, TRUE))
          /\ serverState' = "WAIT_ON_ACK"
          /\ UNCHANGED <<toServer, serverOpen>>
  /\ UNCHANGED <<clientOpen, ackFaults, delays, disorder>>
  /\ UNCHANGED <<seqNum, lastSeqNum, eofLen, finished, finalLen, finalSeq,
                 retryCount, eofRetryCount, blocksRead>>

-----------------------------------------------------------------------------
(* wait_on_ack() *)

\* processSelect: the counter is raised before the limit is checked.
GiveUpOnAck ==
  /\ serverState = "WAIT_ON_ACK"
  /\ retryCount >= MaxRetrans
  /\ retryCount' = retryCount + 1
  /\ ServerExits("GONE")
  /\ UNCHANGED <<toClient, clientOpen, dataFaults, ackFaults, delays, disorder>>
  /\ UNCHANGED <<serverWindow, seqNum, lastSeqNum, eofLen, finished, finalLen,
                 finalSeq, eofRetryCount, blocksRead>>

\* pollCall(1000).  Its branch for a window that is not closed, pollCall(0), is
\* never executed: WaitsClosed in module Transfer.
AckTimer(clientIdle) ==
  /\ serverState = "WAIT_ON_ACK"
  /\ retryCount < MaxRetrans
  /\ retryCount' = retryCount + 1
  /\ IF WindowClosed THEN TimerExpires(clientIdle) ELSE UNCHANGED delays
  /\ serverState' = "TIMEOUT_ON_ACK"
  /\ UNCHANGED <<toClient, toServer, clientOpen, serverOpen, dataFaults, ackFaults, disorder>>
  /\ UNCHANGED <<serverWindow, seqNum, lastSeqNum, eofLen, finished, finalLen,
                 finalSeq, eofRetryCount, blocksRead>>

\* What the acknowledgement handlers have in common: the packet is taken and
\* the counter starts again.
TakesAck ==
  /\ serverState = "WAIT_ON_ACK"
  /\ retryCount < MaxRetrans
  /\ toServer # << >>
  /\ retryCount' = 0
  /\ UNCHANGED <<clientOpen, ackFaults, delays, disorder>>
  /\ UNCHANGED <<seqNum, lastSeqNum, eofLen, finished, finalLen, finalSeq,
                 eofRetryCount, blocksRead>>

AckCorrupted ==
  /\ TakesAck
  /\ ~Head(toServer).ok
  /\ ServerReceives
  /\ UNCHANGED <<serverState, serverWindow, toClient, dataFaults>>

\* send_srej(): the stored packet gets its new flag and checksum even when it
\* is the next packet and is not sent.
AckSrej ==
  LET srej == Head(toServer).num
      slot == SlotOf(serverWindow, srej)
      len  == StoredLen(srej)
  IN
  /\ TakesAck
  /\ Head(toServer).ok
  /\ Head(toServer).flag = "SREJ"
  /\ serverWindow' = WindowRetag(serverWindow, srej, "SREJ_RETRAN", len)
  /\ IF srej # seqNum /\ len = 0
     THEN ServerExits("SEND_ERROR") /\ UNCHANGED <<toClient, dataFaults>>
     ELSE /\ IF srej = seqNum
             THEN UNCHANGED <<toClient, dataFaults>>
             ELSE SendToClient(StoredPdu(slot, "SREJ_RETRAN", len, TRUE))
          /\ serverState' = "SEND_DATA"
          /\ ServerReceives

AckEof ==
  /\ TakesAck
  /\ Head(toServer).ok
  /\ Head(toServer).flag = "EOF_ACK"
  /\ ServerExits("FINISHED")
  /\ UNCHANGED <<serverWindow, toClient, dataFaults>>

\* The RR that follows the final packet.  final_packet_seq is 0 until a packet
\* shorter than the others has been sent.
FinalAck == finalSeq + 1

\* Seeded bug: done when all data is acknowledged.
AckFinalEnds ==
  /\ TakesAck
  /\ Head(toServer).ok /\ Head(toServer).flag = "RR" /\ Head(toServer).num = FinalAck
  /\ ServerExits("FINISHED")
  /\ UNCHANGED <<serverWindow, toClient, dataFaults>>

AckFinal ==
  /\ TakesAck
  /\ Head(toServer).ok
  /\ Head(toServer).flag = "RR"
  /\ Head(toServer).num = FinalAck
  /\ serverState' = "WAIT_ON_EOF_ACK"
  /\ ServerReceives
  /\ UNCHANGED <<serverWindow, toClient, dataFaults>>

AckData ==
  LET rr == Head(toServer).num IN
  /\ TakesAck
  /\ Head(toServer).ok
  /\ Head(toServer).flag = "RR"
  /\ rr # FinalAck
  /\ serverWindow' = WindowRemove(WindowSlide(serverWindow, rr), rr)
  /\ serverState' = "SEND_DATA"
  /\ ServerReceives
  /\ UNCHANGED <<toClient, dataFaults>>

-----------------------------------------------------------------------------
(* wait_on_eof_ack() *)

GiveUpOnEof ==
  /\ serverState = "WAIT_ON_EOF_ACK"
  /\ eofRetryCount > MaxRetrans - 1
  /\ ServerExits("GONE")
  /\ UNCHANGED <<toClient, clientOpen, dataFaults, ackFaults, delays, disorder>>
  /\ UNCHANGED <<serverWindow, seqNum, lastSeqNum, eofLen, finished, finalLen,
                 finalSeq, retryCount, eofRetryCount, blocksRead>>

\* The stored END_OF_FILE packet goes out as it is.  When its checksum was
\* last computed over another length, the bytes of an older packet decide
\* whether it is still right.
ResendEof ==
  LET slot == SlotOf(serverWindow, lastSeqNum) IN
  /\ serverState = "WAIT_ON_EOF_ACK"
  /\ eofRetryCount <= MaxRetrans - 1
  /\ IF eofLen = 0
     THEN ServerExits("SEND_ERROR") /\ UNCHANGED <<toClient, dataFaults>>
     ELSE /\ \E ok \in IF slot.sum = eofLen THEN {TRUE} ELSE BOOLEAN :
               SendToClient(StoredPdu(slot, slot.flag, eofLen, ok))
          /\ serverState' = "EOF_POLL"
          /\ UNCHANGED <<toServer, serverOpen>>
  /\ UNCHANGED <<clientOpen, ackFaults, delays, disorder>>
  /\ UNCHANGED <<serverWindow, seqNum, lastSeqNum, eofLen, finished, finalLen,
                 finalSeq, retryCount, eofRetryCount, blocksRead>>

\* Seeded bug: the attempt is not counted.
EofTimerUncounted(clientIdle) ==
  /\ serverState = "EOF_POLL"
  /\ TimerExpires(clientIdle)
  /\ serverState' = "WAIT_ON_EOF_ACK"
  /\ UNCHANGED <<toClient, toServer, clientOpen, serverOpen, dataFaults, ackFaults, disorder>>
  /\ UNCHANGED <<serverWindow, seqNum, lastSeqNum, eofLen, finished, finalLen,
                 finalSeq, retryCount, eofRetryCount, blocksRead>>

EofTimer(clientIdle) ==
  /\ serverState = "EOF_POLL"
  /\ TimerExpires(clientIdle)
  /\ eofRetryCount' = eofRetryCount + 1
  /\ serverState' = "WAIT_ON_EOF_ACK"
  /\ UNCHANGED <<toClient, toServer, clientOpen, serverOpen, dataFaults, ackFaults, disorder>>
  /\ UNCHANGED <<serverWindow, seqNum, lastSeqNum, eofLen, finished, finalLen,
                 finalSeq, retryCount, blocksRead>>

\* Anything but a whole EOF_ACK sends END_OF_FILE again; only a damaged packet
\* counts as an attempt.
EofAnswered ==
  /\ serverState = "EOF_POLL"
  /\ toServer # << >>
  /\ LET p == Head(toServer) IN
     /\ IF p.ok /\ p.flag = "EOF_ACK"
        THEN ServerExits("FINISHED")
        ELSE serverState' = "WAIT_ON_EOF_ACK" /\ ServerReceives
     /\ eofRetryCount' = IF p.ok THEN eofRetryCount ELSE eofRetryCount + 1
  /\ UNCHANGED <<toClient, clientOpen, dataFaults, ackFaults, delays, disorder>>
  /\ UNCHANGED <<serverWindow, seqNum, lastSeqNum, eofLen, finished, finalLen,
                 finalSeq, retryCount, blocksRead>>

-----------------------------------------------------------------------------

ServerSends == SendDataWindowFull \/ SendDataReadError \/ SendEof \/ SendBlock

ServerHearsAck == AckCorrupted \/ AckSrej \/ AckEof \/ AckFinal \/ AckData

\* One pass of the loop of process_client().
ServerNext(clientIdle) ==
  \/ ServerFilename
  \/ ServerSends
  \/ TimeoutOnAck
  \/ GiveUpOnAck \/ AckTimer(clientIdle) \/ ServerHearsAck
  \/ GiveUpOnEof \/ ResendEof \/ EofTimer(clientIdle) \/ EofAnswered
=============================================================================

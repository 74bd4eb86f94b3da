------------------------------ MODULE Transfer ------------------------------
(***************************************************************************)
(* One file transfer: a child of server.c and an rcopy socket joined by    *)
(* the link, and what is claimed of the two together.                      *)
(***************************************************************************)
EXTENDS Server, Client

vars == <<linkVars, serverVars, clientVars>>

Init == LinkInit /\ ServerInit /\ ClientInit

ServerStep == ServerNext(ClientIdle) /\ UNCHANGED clientVars

ClientStep == ClientNext(ServerIdle) /\ UNCHANGED serverVars

NetworkStep == NetworkDisorder /\ UNCHANGED <<serverVars, clientVars>>

\* Both processes have exited.
Terminated == ~serverOpen /\ ~clientOpen /\ UNCHANGED vars

Next == ServerStep \/ ClientStep \/ NetworkStep \/ Terminated

Spec == Init /\ [][Next]_vars

\* Each process runs whenever it is not blocked in pollCall, and a pollCall
\* returns when a packet is queued or its time is over.  The network owes
\* nothing.
FairSpec == Spec /\ WF_vars(ServerStep) /\ WF_vars(ClientStep)

TypeOK == LinkTypeOK /\ ServerTypeOK /\ ClientTypeOK

-----------------------------------------------------------------------------
(* Safety under every disturbance *)

\* rcopy's place in the file is inside the server's window: the server never
\* slides its window past a packet rcopy still expects, and rcopy never gets
\* ahead of what was sent.  window_slide() takes any RR and window_full()
\* compares for equality only, so nothing in either program says so.
WindowOrder ==
  serverState # "FILENAME" =>
    serverWindow.lower <= expected /\ expected <= serverWindow.current

\* The packets rcopy has called write() for, or is about to.
Taken == Len(output) + (IF clientState = "WRITE" THEN 1 ELSE 0)

\* An RR speaks only for packets rcopy has taken out of the socket and, but
\* for the one it is about to write, handed to write(): on the wire and after
\* the server has slid its window by it.  buffer() and flush() acknowledge late,
\* with values that are not the packet just received, and recv_data()
\* acknowledges before it writes.  Whether write() succeeds, the RR cannot tell.
AckedIsTaken ==
  /\ serverState # "FILENAME" => serverWindow.lower - 1 <= Taken
  /\ \A i \in 1..Len(toServer) :
       toServer[i].flag = "RR" => toServer[i].num - 1 <= Taken

\* The server reports a finished transmission only after rcopy has, whichever
\* packets were lost, late or repeated in between.
EndsAgree == serverState = "FINISHED" => clientState = "FINISHED"

\* The inductive invariant behind the three: everything numbered, on the wire,
\* in a slot or in a counter, lies below the server's current, and what rcopy
\* says never passes what it has taken.
SentBelowCurrent ==
  /\ seqNum <= serverWindow.current
  /\ \A i \in 1..Len(toClient) : toClient[i].seq < serverWindow.current
  /\ \A i \in 0..(WindowSize - 1) : serverWindow.buf[i].seq < serverWindow.current

HighestBelowCurrent ==
  /\ clientState = "BUFFER" => expected < highest
  /\ clientState = "FLUSH" => expected <= highest
  /\ clientState \in {"BUFFER", "FLUSH"} => highest < serverWindow.current

\* wait_on_ack() polls with a closed window only, hence never for 0 ms.
WaitsClosed ==
  serverState \in {"WAIT_ON_ACK", "TIMEOUT_ON_ACK"} => WindowClosed

AcksBelowExpected ==
  \A i \in 1..Len(toServer) :
    /\ toServer[i].flag # "EOF_ACK" => toServer[i].num <= expected
    /\ toServer[i].flag = "EOF_ACK" => clientState = "FINISHED"

TransferInv ==
  /\ IF serverState = "FILENAME"
     THEN /\ toClient = << >>
          /\ seqNum = 1
          /\ expected = 1
          /\ clientState \in {"FILENAME", "RESTART"}
     ELSE WindowOrder /\ SentBelowCurrent /\ HighestBelowCurrent
  /\ WaitsClosed
  /\ AcksBelowExpected
  /\ EndsAgree
  /\ 1 <= expected
  /\ Taken = expected - 1
  /\ lastSeq # 0 => lastLen # 0
  /\ serverState = "EOF_POLL" => eofRetryCount < MaxRetrans

-----------------------------------------------------------------------------
(* Safety of the window when packets keep their order and no timer expires
   early *)

\* No more packets than the window has slots wait for an RR (window_full).
WindowBound == serverWindow.current <= serverWindow.upper

\* A packet rcopy has not taken yet is still in its slot, "until receiving
\* RR" (send_data).
RetainedUntilAcked ==
  serverState # "FILENAME" =>
    \A s \in expected..(serverWindow.current - 1) : SlotOf(serverWindow, s).seq = s

\* An RR never moves the window back.
SlidesForward == [][serverState # "FILENAME" => serverWindow'.lower >= serverWindow.lower]_vars

\* What arrives as block s has the bytes and the length of block s, however
\* often it was sent: send_srej() and timeout_on_ack() choose the length by
\* comparing with final_packet_seq.
ResentExact ==
  \A i \in 1..Len(toClient) :
    LET p == toClient[i] IN
    p.ok /\ p.seq \in Blocks => p.block = p.seq /\ p.len = HeaderLen + BlockLen(p.seq)

\* When packets keep their order, the packet flush() ends with is in the
\* buffer; flush() writes that slot without a look at its valid flag.
FlushReady ==
  clientState \in {"BUFFER", "FLUSH"} =>
    /\ expected <= highest
    /\ WindowIsValid(clientWindow, highest)
    /\ SlotOf(clientWindow, highest).seq = highest

-----------------------------------------------------------------------------
(* The copy *)

Copy == INSTANCE FileCopy WITH
          copied <- output,
          clientDone <- clientState = "FINISHED",
          serverDone <- serverState = "FINISHED"

\* The transfer implements the abstract copy.
ImplementsCopy == Copy!CopySpec

\* Nor do lost or damaged RRs, SREJs and EOF_ACKs, timers that expire early
\* and a side that gives up ever spoil the copy: each step is one of the
\* abstract copy as long as no data packet was lost, repeated or overtaken and
\* no write() has failed.  (Afterwards it may not be: StaleBuffer, EofAsData,
\* and rcopy, which ignores what write() returns, goes on without the block.)
DataUndisturbed == dataFaults = 0 /\ disorder = 0 /\ writeFaults = 0

CopyStep ==
  [Copy!CopyNext]_<<output, clientState = "FINISHED", serverState = "FINISHED">>

CopiesWhileReliable == Copy!CopyInit /\ [][DataUndisturbed' => CopyStep]_vars

\* The output file is a prefix of the file at any time.
CopyPrefix == Len(output) <= NBlocks /\ output = SubSeq(Copy!File, 1, Len(output))

\* When rcopy reports success the files do not differ.
CopyComplete == clientState = "FINISHED" => output = Copy!File

\* The server is never ended by sendtoErr().
NoEmptySend == serverState # "SEND_ERROR"

-----------------------------------------------------------------------------
(* Liveness *)

\* Both programs end.
Termination == <>(~serverOpen /\ ~clientOpen)

\* Both programs end and report success, where nothing goes wrong.
Delivery ==
  <>(\/ dataFaults + ackFaults + delays + disorder > 0
     \/ serverState = "FINISHED" /\ clientState = "FINISHED")
=============================================================================

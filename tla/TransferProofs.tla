--------------------------- MODULE TransferProofs ---------------------------
(***************************************************************************)
(* Proofs about Transfer, for every file, window size and budget of        *)
(* disturbances: types, the order of the window and the counters of rcopy, *)
(* that an RR speaks only of packets rcopy has taken, and that the server  *)
(* reports success only after rcopy.  All rest on one inductive invariant, *)
(* TypeOK and TransferInv together.                                        *)
(***************************************************************************)
EXTENDS Transfer, SequenceTheorems, FiniteSetTheorems, TLAPS

-----------------------------------------------------------------------------
(* Packets and channels *)

\* Packets numbered below n.
SentPdu(n) == {p \in DataPdu : p.seq < n}

\* Acknowledgements that claim no more than rcopy has done: e is expected and
\* state its state.
HonestAck(e, state) ==
  {p \in AckPdu : /\ p.flag # "EOF_ACK" => p.num <= e
                  /\ p.flag = "EOF_ACK" => state = "FINISHED"}

\* The lengths of packets, which the assumptions on the file bound.
LEMMA Lengths ==
  /\ HeaderLen \in PacketLens
  /\ HeaderLen + 1 \in PacketLens
  /\ DataPacketLen \in PacketLens
  /\ \A b \in Blocks : HeaderLen + BlockLen(b) \in PacketLens
  /\ 0 \notin PacketLens
  /\ PacketLens \subseteq Nat
  /\ \A len \in PacketLens : len - HeaderLen \in 0..BufSize
BY FileAssumption DEF HeaderLen, PacketLens, DataPacketLen, BlockLen, Blocks

\* What createPDU makes is numbered with the sequence number it is given.
LEMMA CreatePduType ==
  ASSUME NEW flag \in DataFlags, NEW seq \in Nat, NEW block \in 0..NBlocks,
         NEW len \in PacketLens, NEW n, seq < n
  PROVE  CreatePdu(flag, seq, block, len) \in SentPdu(n)
BY DEF CreatePdu, SentPdu, DataPdu

\* An acknowledgement within what rcopy has done is honest.
LEMMA CreateAckType ==
  ASSUME NEW e, NEW state, NEW num \in Nat
  PROVE  /\ num <= e => /\ CreateAck("RR", num) \in HonestAck(e, state)
                        /\ CreateAck("SREJ", num) \in HonestAck(e, state)
         /\ state = "FINISHED" => CreateAck("EOF_ACK", num) \in HonestAck(e, state)
BY DEF CreateAck, HonestAck, AckPdu, AckFlags

\* A send leaves a channel of packets of S a channel of packets of S.
LEMMA PutType ==
  ASSUME NEW S, NEW chan \in Seq(S), NEW p \in S, FlipBits(p) \in S, NEW f \in Fates
  PROVE  Put(chan, p, f) \in Seq(S)
BY DEF Put

\* A receive does, too, and yields a packet of S.
LEMMA TakeType ==
  ASSUME NEW S, NEW chan \in Seq(S), chan # << >>
  PROVE  Head(chan) \in S /\ Tail(chan) \in Seq(S)
BY HeadTailProperties

\* So do the swaps and repetitions of the network.
LEMMA DisturbType ==
  ASSUME NEW S, NEW chan \in Seq(S), NEW new, Disturb(chan, new)
  PROVE  new \in Seq(S)
<1>1. ASSUME NEW i \in 1..(Len(chan) - 1), new = Swapped(chan, i)
      PROVE  new \in Seq(S)
  <2>1. chan[i] \in S /\ chan[i + 1] \in S
    BY <1>1, ElementOfSeq
  <2> DEFINE half == [chan EXCEPT ![i] = chan[i + 1]]
  <2>2. half \in Seq(S) /\ Len(half) = Len(chan)
    BY <2>1, ExceptSeq
  <2>3. [half EXCEPT ![i + 1] = chan[i]] \in Seq(S)
    BY <2>1, <2>2, ExceptSeq
  <2>4. new = [half EXCEPT ![i + 1] = chan[i]]
    BY <1>1 DEF Swapped
  <2> QED BY <2>3, <2>4
<1>2. ASSUME NEW i \in 1..Len(chan), new = Append(chan, chan[i])
      PROVE  new \in Seq(S)
  BY <1>2, ElementOfSeq, AppendProperties
<1> QED BY <1>1, <1>2 DEF Disturb

\* A damaged packet keeps its number.
LEMMA FlipDataType ==
  ASSUME NEW n, NEW p \in SentPdu(n)
  PROVE  FlipBits(p) \in SentPdu(n)
<1>1. p \in DataPdu /\ p.seq < n
  BY DEF SentPdu
<1>2. FlipBits(p) \in DataPdu /\ FlipBits(p).seq = p.seq
  BY <1>1 DEF FlipBits, DataPdu
<1> QED BY <1>1, <1>2 DEF SentPdu

LEMMA FlipAckType ==
  ASSUME NEW e, NEW state, NEW p \in HonestAck(e, state)
  PROVE  FlipBits(p) \in HonestAck(e, state)
<1>1. p \in AckPdu
  BY DEF HonestAck
<1>2. FlipBits(p) \in AckPdu /\ FlipBits(p).flag = p.flag /\ FlipBits(p).num = p.num
  BY <1>1 DEF FlipBits, AckPdu
<1> QED BY <1>2 DEF HonestAck

\* The three sends.
LEMMA SendToClientType ==
  ASSUME NEW n, toClient \in Seq(SentPdu(n)), NEW p \in SentPdu(n),
         dataFaults \in 0..MaxDataFaults, SendToClient(p)
  PROVE  toClient' \in Seq(SentPdu(n)) /\ dataFaults' \in 0..MaxDataFaults
<1>1. FlipBits(p) \in SentPdu(n)
  BY FlipDataType
<1>2. \A f \in Fates : Put(toClient, p, f) \in Seq(SentPdu(n))
  BY <1>1, PutType
<1> QED BY <1>2, LinkAssumption DEF SendToClient, Cost

LEMMA SendToServerType ==
  ASSUME NEW e, NEW state, toServer \in Seq(HonestAck(e, state)), NEW p \in HonestAck(e, state),
         ackFaults \in 0..MaxAckFaults, SendToServer(p)
  PROVE  toServer' \in Seq(HonestAck(e, state)) /\ ackFaults' \in 0..MaxAckFaults
<1>1. FlipBits(p) \in HonestAck(e, state)
  BY FlipAckType
<1>2. \A f \in Fates : Put(toServer, p, f) \in Seq(HonestAck(e, state))
  BY <1>1, PutType
<1> QED BY <1>2, LinkAssumption DEF SendToServer, Cost

LEMMA SendBothType ==
  ASSUME NEW e, NEW state, toServer \in Seq(HonestAck(e, state)),
         NEW p \in HonestAck(e, state), NEW q \in HonestAck(e, state),
         ackFaults \in 0..MaxAckFaults, SendBothToServer(p, q)
  PROVE  toServer' \in Seq(HonestAck(e, state)) /\ ackFaults' \in 0..MaxAckFaults
<1>1. FlipBits(p) \in HonestAck(e, state) /\ FlipBits(q) \in HonestAck(e, state)
  BY FlipAckType
<1>2. \A f, g \in Fates : Put(Put(toServer, p, f), q, g) \in Seq(HonestAck(e, state))
  BY <1>1, PutType
<1> QED BY <1>2, LinkAssumption DEF SendBothToServer, Cost

-----------------------------------------------------------------------------
(* Windows *)

\* A window whose slots are numbered below n.
SentWindow(n) == {w \in WindowType : \A i \in 0..(WindowSize - 1) : w.buf[i].seq < n}

LEMMA SlotIndex ==
  ASSUME NEW seq \in Nat
  PROVE  seq % WindowSize \in 0..(WindowSize - 1)
BY WindowAssumption

LEMMA WindowCreateType ==
  ASSUME NEW n \in Nat, 0 < n
  PROVE  WindowCreate \in SentWindow(n)
<1>1. EmptySlot \in Slot /\ EmptySlot.seq = 0
  BY FileAssumption DEF EmptySlot, Slot, DataFlags
<1>2. WindowCreate \in WindowType
  BY <1>1, WindowAssumption DEF WindowCreate, WindowType
<1>3. \A i \in 0..(WindowSize - 1) : WindowCreate.buf[i].seq < n
  BY <1>1 DEF WindowCreate
<1> QED BY <1>2, <1>3 DEF SentWindow

LEMMA SlotOfType ==
  ASSUME NEW n, NEW w \in SentWindow(n), NEW seq \in Nat
  PROVE  SlotOf(w, seq) \in Slot /\ SlotOf(w, seq).seq < n
BY SlotIndex DEF SentWindow, WindowType, SlotOf

LEMMA WindowSlideType ==
  ASSUME NEW n, NEW w \in SentWindow(n), NEW rr \in Nat
  PROVE  /\ WindowSlide(w, rr) \in SentWindow(n)
         /\ WindowSlide(w, rr).lower = rr
         /\ WindowSlide(w, rr).current = w.current
<1>1. \A u \in Nat : LET new == [w EXCEPT !.lower = rr, !.upper = u] IN
        /\ new \in WindowType
        /\ new.lower = rr
        /\ new.current = w.current
        /\ new.buf = w.buf
  BY DEF SentWindow, WindowType
<1>2. rr + w.size \in Nat
  BY WindowAssumption DEF SentWindow, WindowType
<1> QED BY <1>1, <1>2 DEF SentWindow, WindowSlide

LEMMA WindowCurUpdateType ==
  ASSUME NEW n, NEW w \in SentWindow(n)
  PROVE  /\ WindowCurUpdate(w) \in SentWindow(n)
         /\ WindowCurUpdate(w).lower = w.lower
         /\ WindowCurUpdate(w).current = w.current + 1
BY DEF SentWindow, WindowType, WindowCurUpdate

LEMMA WindowAddType ==
  ASSUME NEW n, NEW w \in SentWindow(n), NEW p \in SentPdu(n), NEW seq \in Nat
  PROVE  /\ WindowAdd(w, seq, p) \in SentWindow(n)
         /\ WindowAdd(w, seq, p).lower = w.lower
         /\ WindowAdd(w, seq, p).current = w.current
BY SlotIndex DEF SentWindow, WindowType, WindowAdd, SentPdu, DataPdu, Slot

LEMMA WindowRemoveType ==
  ASSUME NEW n, NEW w \in SentWindow(n), NEW seq \in Nat
  PROVE  /\ WindowRemove(w, seq) \in SentWindow(n)
         /\ WindowRemove(w, seq).lower = w.lower
         /\ WindowRemove(w, seq).current = w.current
BY ZenonT(30), SlotIndex DEF SentWindow, WindowType, WindowRemove, Slot

LEMMA WindowRetagType ==
  ASSUME NEW n, NEW w \in SentWindow(n), NEW seq \in Nat, NEW flag \in DataFlags,
         NEW len \in PacketLens \cup {0}
  PROVE  /\ WindowRetag(w, seq, flag, len) \in SentWindow(n)
         /\ WindowRetag(w, seq, flag, len).lower = w.lower
         /\ WindowRetag(w, seq, flag, len).current = w.current
<1>1. \A s \in Slot : Retag(s, flag, len) \in Slot /\ Retag(s, flag, len).seq = s.seq
  BY DEF Slot, Retag
<1>2. Retag(SlotOf(w, seq), flag, len) \in Slot /\ Retag(SlotOf(w, seq), flag, len).seq < n
  BY <1>1, SlotOfType
<1> QED BY <1>2, SlotIndex DEF SentWindow, WindowType, WindowRetag

\* A stored packet that is sent again keeps its number, whatever length is
\* chosen for it.
LEMMA StoredPduType ==
  ASSUME NEW n, NEW w \in SentWindow(n), NEW seq \in Nat, NEW flag \in DataFlags,
         NEW len \in PacketLens, NEW ok \in BOOLEAN
  PROVE  StoredPdu(SlotOf(w, seq), flag, len, ok) \in SentPdu(n)
<1> DEFINE slot == SlotOf(w, seq)
<1>1. slot \in Slot /\ slot.seq < n
  BY SlotOfType
<1>2. slot.seq \in Nat /\ Content(slot, len) \in 0..NBlocks
  BY <1>1, FileAssumption DEF Slot, Content
<1> HIDE DEF slot
<1>3. StoredPdu(slot, flag, len, ok) \in SentPdu(n)
  BY <1>1, <1>2 DEF StoredPdu, SentPdu, DataPdu
<1> QED BY <1>3 DEF slot

\* More sent, more written: the sets grow.
LEMMA Monotonic ==
  ASSUME NEW m \in Int, NEW n \in Int, m <= n
  PROVE  /\ \A s \in Seq(SentPdu(m)) : s \in Seq(SentPdu(n))
         /\ \A w \in SentWindow(m) : w \in SentWindow(n)
<1>1. SentPdu(m) \subseteq SentPdu(n)
  BY DEF SentPdu, DataPdu
<1>2. ASSUME NEW w \in SentWindow(m) PROVE w \in SentWindow(n)
  <2>1. w \in WindowType
    BY DEF SentWindow
  <2>2. ASSUME NEW i \in 0..(WindowSize - 1) PROVE w.buf[i].seq < n
    <3>1. w.buf[i] \in Slot
      BY <2>1 DEF WindowType
    <3>2. w.buf[i].seq \in Nat
      BY <3>1 DEF Slot
    <3>3. w.buf[i].seq < m
      BY DEF SentWindow
    <3> QED BY <3>2, <3>3
  <2> QED BY <2>1, <2>2 DEF SentWindow
<1> QED BY <1>1, <1>2, SeqMonotonic

LEMMA AckMonotonic ==
  ASSUME NEW d \in Nat, NEW e \in Nat, d <= e, NEW was, NEW state,
         was = "FINISHED" => state = "FINISHED"
  PROVE  \A s \in Seq(HonestAck(d, was)) : s \in Seq(HonestAck(e, state))
<1>1. HonestAck(d, was) \subseteq HonestAck(e, state)
  BY DEF HonestAck, AckPdu
<1> QED BY <1>1, SeqMonotonic

-----------------------------------------------------------------------------
(* Sockets are open as long as their processes run. *)

OpenInv ==
  /\ serverState \in ServerRunning \cup ServerEnds
  /\ serverOpen \in BOOLEAN
  /\ serverOpen <=> serverState \in ServerRunning
  /\ finished \in BOOLEAN
  /\ clientState \in ClientRunning \cup ClientEnds
  /\ clientOpen \in BOOLEAN
  /\ clientOpen <=> clientState \in ClientRunning

LEMMA ServerOpen ==
  ASSUME OpenInv, NEW idle, ServerNext(idle), UNCHANGED clientVars
  PROVE  OpenInv'
<1> USE DEF OpenInv, ServerRunning, ServerEnds, ServerExits, ServerCloses, ServerReceives,
            linkVars, clientVars
<1>1. CASE ServerFilename BY <1>1 DEF ServerFilename
<1>2. CASE SendDataWindowFull BY <1>2 DEF SendDataWindowFull
<1>3. CASE SendDataReadError BY <1>3 DEF SendDataReadError
<1>4. CASE SendEof BY <1>4 DEF SendEof
<1>5. CASE SendBlock BY <1>5 DEF SendBlock
<1>6. CASE TimeoutOnAck BY <1>6 DEF TimeoutOnAck
<1>7. CASE GiveUpOnAck BY <1>7 DEF GiveUpOnAck
<1>8. CASE AckTimer(idle) BY <1>8 DEF AckTimer
<1>9. CASE AckCorrupted BY <1>9 DEF AckCorrupted, TakesAck
<1>10. CASE AckSrej BY <1>10 DEF AckSrej, TakesAck
<1>11. CASE AckEof BY <1>11 DEF AckEof, TakesAck
<1>12. CASE AckFinal BY <1>12 DEF AckFinal, TakesAck
<1>13. CASE AckData BY <1>13 DEF AckData, TakesAck
<1>14. CASE GiveUpOnEof BY <1>14 DEF GiveUpOnEof
<1>15. CASE ResendEof BY <1>15 DEF ResendEof
<1>16. CASE EofTimer(idle) BY <1>16 DEF EofTimer
<1>17. CASE EofAnswered BY <1>17 DEF EofAnswered
<1> QED
  BY <1>1, <1>2, <1>3, <1>4, <1>5, <1>6, <1>7, <1>8, <1>9, <1>10, <1>11, <1>12,
     <1>13, <1>14, <1>15, <1>16, <1>17
     DEF ServerNext, ServerSends, ServerHearsAck

LEMMA ClientOpen ==
  ASSUME OpenInv, NEW idle, ClientNext(idle), UNCHANGED serverVars
  PROVE  OpenInv'
<1> USE DEF OpenInv, ClientRunning, ClientEnds, ClientExits, ClientCloses, ClientReceives,
            serverVars, clientVars, fileVars
<1>1. CASE FilenameTimer(idle) BY <1>1 DEF FilenameTimer
<1>2. CASE FilenameAnswered BY <1>2 DEF FilenameAnswered
<1>3. CASE FileOk BY <1>3 DEF FileOk
<1>4. CASE DataTimer BY <1>4 DEF DataTimer
<1>5. CASE DataCorrupted BY <1>5 DEF DataCorrupted
<1>6. CASE RecvEof BY <1>6 DEF RecvEof, Takes
<1>7. CASE RecvInOrder BY <1>7 DEF RecvInOrder, Takes
<1>8. CASE RecvAhead BY <1>8 DEF RecvAhead, Takes
<1>9. CASE RecvOld BY <1>9 DEF RecvOld, Takes
<1>10. CASE BufferOld BY <1>10 DEF BufferOld, Takes
<1>11. CASE BufferInOrder BY <1>11 DEF BufferInOrder, Takes
<1>12. CASE BufferAhead BY <1>12 DEF BufferAhead, Takes
<1>13. CASE FlushEof BY <1>13 DEF FlushEof, Flushes
<1>14. CASE FlushAll BY <1>14 DEF FlushAll, Flushes
<1>15. CASE FlushHole BY <1>15 DEF FlushHole, Flushes
<1>16. CASE WriteAcknowledged BY <1>16 DEF WriteAcknowledged, linkVars
<1> QED
  BY <1>1, <1>2, <1>3, <1>4, <1>5, <1>6, <1>7, <1>8, <1>9, <1>10, <1>11, <1>12,
     <1>13, <1>14, <1>15, <1>16
     DEF ClientNext, ClientReceivesData

LEMMA OpenStep == OpenInv /\ [Next]_vars => OpenInv'
<1> SUFFICES ASSUME OpenInv, [Next]_vars PROVE OpenInv'
  OBVIOUS
<1>1. CASE ServerStep
  BY <1>1, ServerOpen DEF ServerStep
<1>2. CASE ClientStep
  BY <1>2, ClientOpen DEF ClientStep
<1>3. CASE NetworkStep
  BY <1>3 DEF NetworkStep, NetworkDisorder, OpenInv, serverVars, clientVars
<1>4. CASE UNCHANGED vars
  BY <1>4 DEF vars, linkVars, OpenInv, serverVars, clientVars
<1> QED BY <1>1, <1>2, <1>3, <1>4 DEF Next, Terminated

-----------------------------------------------------------------------------
(* The counters of the server. *)

CounterInv ==
  /\ seqNum \in Nat
  /\ lastSeqNum \in Nat
  /\ eofLen \in PacketLens \cup {0}
  /\ finalLen \in PacketLens \cup {0}
  /\ finalSeq \in Nat
  /\ retryCount \in 0..(MaxRetrans + 1)
  /\ serverState # "GONE" => retryCount <= MaxRetrans
  /\ eofRetryCount \in 0..MaxRetrans
  /\ serverState = "EOF_POLL" => eofRetryCount < MaxRetrans
  /\ blocksRead \in 0..NBlocks

LEMMA ServerCounters ==
  ASSUME CounterInv, NEW idle, ServerNext(idle)
  PROVE  CounterInv'
<1>0. MaxRetrans \in Nat /\ NBlocks \in Nat
  BY ServerAssumption, FileAssumption
<1> USE <1>0 DEF CounterInv, ServerExits
<1>1. CASE ServerFilename BY <1>1 DEF ServerFilename
<1>2. CASE SendDataWindowFull BY <1>2 DEF SendDataWindowFull
<1>3. CASE SendDataReadError BY <1>3 DEF SendDataReadError
<1>4. CASE SendEof BY <1>4, Lengths DEF SendEof, CreatePdu
<1>5. CASE SendBlock BY <1>5, Lengths DEF SendBlock, CreatePdu, Blocks
<1>6. CASE TimeoutOnAck BY <1>6 DEF TimeoutOnAck
<1>7. CASE GiveUpOnAck BY <1>7 DEF GiveUpOnAck
<1>8. CASE AckTimer(idle) BY <1>8 DEF AckTimer
<1>9. CASE AckCorrupted BY <1>9 DEF AckCorrupted, TakesAck
<1>10. CASE AckSrej
  <2>1. serverState' \in {"SEND_ERROR", "SEND_DATA"}
    BY <1>10 DEF AckSrej
  <2>2. TakesAck
    BY <1>10 DEF AckSrej
  <2> QED BY <2>1, <2>2 DEF TakesAck
<1>11. CASE AckEof BY <1>11 DEF AckEof, TakesAck
<1>12. CASE AckFinal BY <1>12 DEF AckFinal, TakesAck
<1>13. CASE AckData BY <1>13 DEF AckData, TakesAck
<1>14. CASE GiveUpOnEof BY <1>14 DEF GiveUpOnEof
<1>15. CASE ResendEof BY <1>15 DEF ResendEof
<1>16. CASE EofTimer(idle) BY <1>16 DEF EofTimer
<1>17. CASE EofAnswered BY <1>17 DEF EofAnswered
<1> QED
  BY <1>1, <1>2, <1>3, <1>4, <1>5, <1>6, <1>7, <1>8, <1>9, <1>10, <1>11, <1>12,
     <1>13, <1>14, <1>15, <1>16, <1>17
     DEF ServerNext, ServerSends, ServerHearsAck

LEMMA CounterStep == CounterInv /\ [Next]_vars => CounterInv'
<1> SUFFICES ASSUME CounterInv, [Next]_vars PROVE CounterInv'
  OBVIOUS
<1>1. CASE ServerStep
  BY <1>1, ServerCounters DEF ServerStep
<1>2. CASE UNCHANGED serverVars
  BY <1>2 DEF CounterInv, serverVars
<1> QED BY <1>1, <1>2 DEF Next, ClientStep, NetworkStep, Terminated, vars

-----------------------------------------------------------------------------
(* Packets, windows and counters of rcopy: TransferInv, with what it says of
   the elements of channels and windows put into the sets they are taken
   from. *)

BudgetInv ==
  /\ dataFaults \in 0..MaxDataFaults
  /\ ackFaults \in 0..MaxAckFaults
  /\ delays \in 0..MaxDelays
  /\ disorder \in 0..MaxDisorder

ChannelInv ==
  /\ toClient \in Seq(SentPdu(serverWindow.current))
  /\ toServer \in Seq(HonestAck(expected, clientState))

ServerWindowInv ==
  /\ serverState = "FILENAME" => serverWindow = NoWindow /\ seqNum = 1
  /\ serverState # "FILENAME" => /\ serverWindow \in SentWindow(serverWindow.current)
                                 /\ seqNum <= serverWindow.current

ClientInv ==
  /\ clientState \in NoClientWindow => clientWindow = NoWindow
  /\ clientState \notin NoClientWindow => clientWindow \in SentWindow(serverWindow.current)
  /\ expected \in Nat
  /\ 1 <= expected
  /\ highest \in Nat
  /\ lastLen \in PacketLens \cup {0}
  /\ lastSeq \in Nat
  /\ lastSeq # 0 => lastLen # 0
  /\ eofSeq \in Nat
  /\ output \in Seq(Chunk)
  /\ unwritten \in Chunk
  /\ writeFaults \in 0..MaxWriteFaults
  /\ Taken = expected - 1

OrderInv ==
  /\ serverState = "FILENAME" => expected = 1 /\ clientState \in {"FILENAME", "RESTART"}
  /\ serverState # "FILENAME" => WindowOrder /\ HighestBelowCurrent
  /\ EndsAgree

SafeInv == BudgetInv /\ ChannelInv /\ ServerWindowInv /\ ClientInv /\ OrderInv

Inv == OpenInv /\ CounterInv /\ SafeInv

LEMMA NoWindowFacts == NoWindow.lower = 0 /\ NoWindow.current = 0
BY DEF NoWindow

LEMMA InitInv == Init => Inv
<1> SUFFICES ASSUME Init PROVE Inv
  OBVIOUS
<1>1. OpenInv
  BY DEF Init, LinkInit, ServerInit, ClientInit, OpenInv, ServerRunning, ClientRunning
<1>2. MaxRetrans \in Nat /\ NBlocks \in Nat
  BY ServerAssumption, FileAssumption
<1>3. CounterInv
  BY <1>2, SMT DEF Init, ServerInit, CounterInv
<1>4. BudgetInv
  BY LinkAssumption, SMT DEF Init, LinkInit, BudgetInv
<1>5. \A S : << >> \in Seq(S)
  BY EmptySeq
<1>6. ChannelInv
  BY <1>5 DEF Init, LinkInit, ChannelInv
<1>7. ServerWindowInv
  BY DEF Init, ServerInit, ServerWindowInv
<1>8. output \in Seq(Chunk) /\ Len(output) = 0
  BY EmptySeq DEF Init, ClientInit
<1>9. /\ clientState = "FILENAME"
      /\ clientWindow = NoWindow
      /\ expected = 1 /\ highest = 1
      /\ lastLen = 0 /\ lastSeq = 0 /\ eofSeq = 0
  BY DEF Init, ClientInit
<1>10. ClientInv
  <2>1. unwritten \in Chunk
    BY FileAssumption DEF Init, ClientInit, NoChunk, Chunk
  <2>2. writeFaults \in 0..MaxWriteFaults
    BY ClientAssumption, SMT DEF Init, ClientInit
  <2>3. Taken = 0
    BY <1>8, <1>9 DEF Taken
  <2> QED BY <1>8, <1>9, <2>1, <2>2, <2>3, SMT DEF ClientInv, NoClientWindow
<1>11. OrderInv
  BY SMT DEF Init, ServerInit, ClientInit, OrderInv, EndsAgree
<1> QED BY <1>1, <1>3, <1>4, <1>6, <1>7, <1>10, <1>11 DEF Inv, SafeInv

\* What the numbers are between.
LEMMA NumberFacts ==
  ASSUME Inv
  PROVE  /\ serverWindow.current \in Nat
         /\ serverWindow.lower \in Nat
         /\ serverWindow.lower <= expected
         /\ expected \in Nat
         /\ seqNum \in Nat
         /\ serverState # "FILENAME" => /\ expected <= serverWindow.current
                                        /\ seqNum <= serverWindow.current
                                        /\ 0 < serverWindow.current
         /\ serverState = "FILENAME" => serverWindow.current = 0
<1>1. CASE serverState = "FILENAME"
  BY <1>1, NoWindowFacts DEF Inv, SafeInv, ServerWindowInv, ClientInv, CounterInv
<1>2. CASE serverState # "FILENAME"
  <2>1. serverWindow \in WindowType
    BY <1>2 DEF Inv, SafeInv, ServerWindowInv, SentWindow
  <2>2. serverWindow.current \in Nat /\ serverWindow.lower \in Nat
    BY <2>1 DEF WindowType
  <2> QED BY <1>2, <2>2
       DEF Inv, SafeInv, ServerWindowInv, ClientInv, CounterInv, OrderInv, WindowOrder
<1> QED BY <1>1, <1>2

-----------------------------------------------------------------------------
(* Steps of the server. *)

\* What a step of the server owes to the invariant, given that the variables
\* of rcopy stay.
ServerOwes ==
  /\ BudgetInv'
  /\ toClient' \in Seq(SentPdu(serverWindow'.current))
  /\ toServer' \in Seq(HonestAck(expected, clientState))
  /\ serverState' # "FILENAME"
  /\ serverWindow' \in SentWindow(serverWindow'.current)
  /\ seqNum' <= serverWindow'.current
  /\ serverWindow.current <= serverWindow'.current
  /\ expected <= serverWindow'.current
  /\ serverWindow'.lower <= expected
  /\ serverState' = "FINISHED" => clientState = "FINISHED"

LEMMA ServerOwesSafe ==
  ASSUME Inv, ServerOwes, UNCHANGED clientVars
  PROVE  SafeInv'
<1>1. /\ serverWindow.current \in Nat
      /\ serverWindow'.current \in Nat
      /\ serverWindow'.lower \in Nat
  BY NumberFacts DEF ServerOwes, SentWindow, WindowType
<1>2. /\ clientState' = clientState /\ clientWindow' = clientWindow
      /\ expected' = expected /\ highest' = highest
      /\ lastLen' = lastLen /\ lastSeq' = lastSeq /\ eofSeq' = eofSeq
      /\ output' = output /\ unwritten' = unwritten /\ writeFaults' = writeFaults
      /\ Taken' = Taken
  BY DEF clientVars, fileVars, Taken
<1>3. ClientInv
  BY DEF Inv, SafeInv
<1>4. ChannelInv' /\ ServerWindowInv'
  BY <1>2 DEF ServerOwes, ChannelInv, ServerWindowInv
<1>5. ClientInv'
  <2>1. clientState \notin NoClientWindow => clientWindow \in SentWindow(serverWindow'.current)
    BY <1>1, <1>3, Monotonic DEF ClientInv, ServerOwes
  <2> QED BY <2>1, <1>2, <1>3 DEF ClientInv
<1>6. OrderInv'
  <2>1. HighestBelowCurrent'
    <3>1. highest \in Nat /\ expected \in Nat
      BY <1>3 DEF ClientInv
    <3>2. CASE clientState \in {"BUFFER", "FLUSH"}
      <4>1. serverState # "FILENAME" /\ HighestBelowCurrent
        BY <3>2 DEF Inv, SafeInv, OrderInv
      <4> QED BY <1>1, <1>2, <3>1, <4>1 DEF HighestBelowCurrent, ServerOwes
    <3>3. CASE clientState \notin {"BUFFER", "FLUSH"}
      BY <1>2, <3>3 DEF HighestBelowCurrent
    <3> QED BY <3>2, <3>3
  <2>2. WindowOrder' /\ EndsAgree'
    BY <1>2 DEF ServerOwes, WindowOrder, EndsAgree
  <2> QED BY <2>1, <2>2 DEF OrderInv, ServerOwes
<1> QED BY <1>4, <1>5, <1>6 DEF SafeInv, ServerOwes

LEMMA FilenameOwes ==
  ASSUME Inv, ServerFilename
  PROVE  ServerOwes
<1>1. /\ serverState = "FILENAME" /\ serverWindow.current = 0
      /\ expected = 1 /\ seqNum' = 1 /\ expected \in Nat
  BY NumberFacts DEF Inv, SafeInv, OrderInv, ServerWindowInv, ServerFilename
<1>2. /\ serverWindow' \in SentWindow(1)
      /\ serverWindow'.current = 1 /\ serverWindow'.lower = 1
  <2>1. WindowCreate \in SentWindow(1)
    BY WindowCreateType
  <2>2. WindowCreate.current = 1 /\ WindowCreate.lower = 1
    BY DEF WindowCreate
  <2> QED BY <2>1, <2>2 DEF ServerFilename
<1>3. toClient \in Seq(SentPdu(1))
  BY <1>1, Monotonic DEF Inv, SafeInv, ChannelInv
<1>4. \A flag \in {"FNAME_OK", "FNAME_BAD"} : CreatePdu(flag, 0, 0, HeaderLen) \in SentPdu(1)
  BY CreatePduType, Lengths, FileAssumption DEF DataFlags
<1>5. /\ toClient' \in Seq(SentPdu(1))
      /\ dataFaults' \in 0..MaxDataFaults
  BY <1>3, <1>4, SendToClientType DEF ServerFilename, Inv, SafeInv, BudgetInv
<1>6. toServer' \in Seq(HonestAck(expected, clientState))
  BY EmptySeq DEF ServerFilename, ServerExits, ServerCloses, Inv, SafeInv, ChannelInv
<1>7. BudgetInv'
  BY <1>5 DEF ServerFilename, Inv, SafeInv, BudgetInv
<1>8. serverState' \in {"SEND_DATA", "NO_FILE"}
  BY DEF ServerFilename, ServerExits
<1> QED BY <1>1, <1>2, <1>5, <1>6, <1>7, <1>8 DEF ServerOwes

\* Steps that touch neither the packets to rcopy nor the window, and either
\* keep, shorten or discard the channel to the server.
LEMMA QuietOwes ==
  ASSUME Inv, serverState # "FILENAME", serverState' # "FILENAME",
         UNCHANGED <<serverWindow, seqNum, toClient, dataFaults, ackFaults, disorder>>,
         delays' \in 0..MaxDelays,
         toServer' \in Seq(HonestAck(expected, clientState)),
         serverState' = "FINISHED" => clientState = "FINISHED"
  PROVE  ServerOwes
<1>1. BudgetInv'
  BY DEF Inv, SafeInv, BudgetInv
<1> QED
  BY <1>1, NumberFacts DEF Inv, SafeInv, ChannelInv, ServerWindowInv, ServerOwes

LEMMA TimerType ==
  ASSUME Inv, NEW idle, TimerExpires(idle)
  PROVE  delays' \in 0..MaxDelays
BY LinkAssumption DEF TimerExpires, Inv, SafeInv, BudgetInv

\* A packet taken by the server claims no more than rcopy has done.
LEMMA AckTaken ==
  ASSUME Inv, toServer # << >>
  PROVE  /\ Head(toServer) \in HonestAck(expected, clientState)
         /\ Head(toServer).num \in Nat
         /\ Head(toServer).flag # "EOF_ACK" => Head(toServer).num <= expected
         /\ Head(toServer).flag = "EOF_ACK" => clientState = "FINISHED"
         /\ Tail(toServer) \in Seq(HonestAck(expected, clientState))
<1>1. /\ Head(toServer) \in HonestAck(expected, clientState)
      /\ Tail(toServer) \in Seq(HonestAck(expected, clientState))
  BY TakeType DEF Inv, SafeInv, ChannelInv
<1> QED BY <1>1 DEF HonestAck, AckPdu

LEMMA QuietStepsOwe ==
  ASSUME Inv, NEW idle,
         \/ SendDataWindowFull \/ SendDataReadError
         \/ GiveUpOnAck \/ AckTimer(idle) \/ AckCorrupted \/ AckEof \/ AckFinal
         \/ GiveUpOnEof \/ EofTimer(idle) \/ EofAnswered
  PROVE  ServerOwes
<1>1. /\ toServer \in Seq(HonestAck(expected, clientState))
      /\ delays \in 0..MaxDelays
      /\ << >> \in Seq(HonestAck(expected, clientState))
  BY EmptySeq DEF Inv, SafeInv, ChannelInv, BudgetInv
<1> USE DEF ServerExits, ServerCloses
<1>2. CASE SendDataWindowFull
  BY <1>1, <1>2, QuietOwes DEF SendDataWindowFull, linkVars
<1>3. CASE SendDataReadError
  BY <1>1, <1>3, QuietOwes DEF SendDataReadError
<1>4. CASE GiveUpOnAck
  BY <1>1, <1>4, QuietOwes DEF GiveUpOnAck
<1>5. CASE AckTimer(idle)
  <2>1. delays' \in 0..MaxDelays
    BY <1>1, <1>5, TimerType DEF AckTimer
  <2> QED BY <1>1, <1>5, <2>1, QuietOwes DEF AckTimer
<1>6. CASE AckCorrupted
  BY <1>1, <1>6, AckTaken, QuietOwes DEF AckCorrupted, TakesAck, ServerReceives
<1>7. CASE AckEof
  BY <1>1, <1>7, AckTaken, QuietOwes DEF AckEof, TakesAck
<1>8. CASE AckFinal
  BY <1>1, <1>8, AckTaken, QuietOwes DEF AckFinal, TakesAck, ServerReceives
<1>9. CASE GiveUpOnEof
  BY <1>1, <1>9, QuietOwes DEF GiveUpOnEof
<1>10. CASE EofTimer(idle)
  BY <1>1, <1>10, TimerType, QuietOwes DEF EofTimer
<1>11. CASE EofAnswered
  <2>1. CASE Head(toServer).ok /\ Head(toServer).flag = "EOF_ACK"
    BY <1>1, <1>11, <2>1, AckTaken, QuietOwes DEF EofAnswered
  <2>2. CASE ~(Head(toServer).ok /\ Head(toServer).flag = "EOF_ACK")
    BY <1>1, <1>11, <2>2, AckTaken, QuietOwes DEF EofAnswered, ServerReceives
  <2> QED BY <2>1, <2>2
<1> QED
  BY <1>2, <1>3, <1>4, <1>5, <1>6, <1>7, <1>8, <1>9, <1>10, <1>11

\* The facts a step of the server starts from once it has left FILENAME.
LEMMA ServerReady ==
  ASSUME Inv, serverState # "FILENAME"
  PROVE  /\ serverWindow \in SentWindow(serverWindow.current)
         /\ serverWindow.size = WindowSize
         /\ toClient \in Seq(SentPdu(serverWindow.current))
         /\ toServer \in Seq(HonestAck(expected, clientState))
         /\ dataFaults \in 0..MaxDataFaults
         /\ BudgetInv
         /\ CounterInv
BY DEF Inv, SafeInv, ServerWindowInv, ChannelInv, BudgetInv, SentWindow, WindowType

\* send_data(): the packet added is numbered seq_num, and the window's current
\* moves past it.
LEMMA AddedOwes ==
  ASSUME Inv, serverState = "SEND_DATA", serverState' \in {"SEND_DATA", "WAIT_ON_ACK"},
         NEW flag \in DataFlags, NEW block \in 0..NBlocks, NEW len \in PacketLens,
         LET p == CreatePdu(flag, seqNum, block, len)
         IN  /\ SendToClient(p)
             /\ serverWindow' = WindowCurUpdate(WindowAdd(serverWindow, seqNum, p)),
         seqNum' \in {seqNum, seqNum + 1},
         UNCHANGED <<toServer, ackFaults, delays, disorder>>
  PROVE  ServerOwes
<1> DEFINE p == CreatePdu(flag, seqNum, block, len)
           n == serverWindow.current + 1
<1>1. /\ n \in Nat /\ seqNum \in Nat /\ seqNum < n
      /\ serverWindow.current \in Nat /\ expected \in Nat
      /\ serverWindow.lower <= expected /\ expected < n
  BY NumberFacts
<1>2. p \in SentPdu(n)
  BY <1>1, CreatePduType
<1>3. serverWindow \in SentWindow(n) /\ toClient \in Seq(SentPdu(n))
  BY <1>1, ServerReady, Monotonic
<1> DEFINE added == WindowAdd(serverWindow, seqNum, p)
<1>4. added \in SentWindow(n) /\ added.lower = serverWindow.lower /\ added.current = serverWindow.current
  BY <1>1, <1>2, <1>3, WindowAddType
<1>5. serverWindow' = WindowCurUpdate(added) /\ SendToClient(p)
  OBVIOUS
<1> HIDE DEF p, added
<1>6. /\ serverWindow' \in SentWindow(n)
      /\ serverWindow'.lower = serverWindow.lower
      /\ serverWindow'.current = n
  BY <1>4, <1>5, WindowCurUpdateType
<1>7. toClient' \in Seq(SentPdu(n)) /\ dataFaults' \in 0..MaxDataFaults
  BY <1>2, <1>3, <1>5, SendToClientType, ServerReady
<1>8. BudgetInv' /\ toServer' \in Seq(HonestAck(expected, clientState))
  BY <1>7, ServerReady DEF BudgetInv
<1> QED BY <1>1, <1>6, <1>7, <1>8 DEF ServerOwes

\* Steps that send a stored packet again, or end the process: the flag in the
\* slot is patched or stays.
LEMMA ResentOwes ==
  ASSUME Inv, serverState # "FILENAME", serverState' \notin {"FILENAME", "FINISHED"},
         UNCHANGED <<seqNum, ackFaults, disorder, delays>>,
         NEW seq \in Nat, NEW flag \in DataFlags, NEW len \in PacketLens \cup {0},
         serverWindow' \in {serverWindow, WindowRetag(serverWindow, seq, flag, len)},
         \/ UNCHANGED <<toClient, dataFaults>>
         \/ \E g \in DataFlags, ok \in BOOLEAN :
              len # 0 /\ SendToClient(StoredPdu(SlotOf(serverWindow, seq), g, len, ok)),
         toServer' \in Seq(HonestAck(expected, clientState))
  PROVE  ServerOwes
<1> DEFINE n == serverWindow.current
<1>1. serverWindow' \in SentWindow(n) /\ serverWindow'.lower = serverWindow.lower
      /\ serverWindow'.current = n
  BY ServerReady, WindowRetagType
<1>2. toClient' \in Seq(SentPdu(n)) /\ dataFaults' \in 0..MaxDataFaults
  <2>1. CASE UNCHANGED <<toClient, dataFaults>>
    BY <2>1, ServerReady
  <2>2. ASSUME NEW g \in DataFlags, NEW ok \in BOOLEAN, len # 0,
               SendToClient(StoredPdu(SlotOf(serverWindow, seq), g, len, ok))
        PROVE  toClient' \in Seq(SentPdu(n)) /\ dataFaults' \in 0..MaxDataFaults
    <3>1. StoredPdu(SlotOf(serverWindow, seq), g, len, ok) \in SentPdu(n)
      BY <2>2, ServerReady, StoredPduType
    <3> QED BY <2>2, <3>1, ServerReady, SendToClientType
  <2> QED BY <2>1, <2>2
<1>3. BudgetInv'
  BY <1>2, ServerReady DEF BudgetInv
<1> QED BY <1>1, <1>2, <1>3, NumberFacts DEF ServerOwes

LEMMA StoredLenType ==
  ASSUME Inv, NEW seq
  PROVE  StoredLen(seq) \in PacketLens \cup {0}
BY Lengths DEF StoredLen, Inv, CounterInv

LEMMA SendsOwe ==
  ASSUME Inv, SendEof \/ SendBlock
  PROVE  ServerOwes
<1>1. CASE SendEof
  <2>1. CASE finished
    <3>1. serverState = "SEND_DATA" /\ serverState' = "WAIT_ON_ACK"
      BY <1>1 DEF SendEof
    <3>2. /\ UNCHANGED <<serverWindow, seqNum, toClient, dataFaults, ackFaults, disorder>>
          /\ UNCHANGED <<delays, toServer>>
      BY <1>1, <2>1 DEF SendEof
    <3> QED BY <3>1, <3>2, QuietOwes, ServerReady DEF BudgetInv
  <2>2. CASE ~finished
    <3>1. "END_OF_FILE" \in DataFlags /\ 0 \in 0..NBlocks /\ HeaderLen + 1 \in PacketLens
      BY Lengths, FileAssumption DEF DataFlags
    <3> QED BY <1>1, <2>2, <3>1, AddedOwes DEF SendEof
  <2> QED BY <2>1, <2>2
<1>2. CASE SendBlock
  <2>1. blocksRead' \in Blocks
    BY <1>2, FileAssumption DEF SendBlock, Inv, CounterInv, Blocks
  <2>2. /\ "DATA" \in DataFlags /\ blocksRead' \in 0..NBlocks
        /\ HeaderLen + BlockLen(blocksRead') \in PacketLens
    BY <2>1, Lengths, FileAssumption DEF DataFlags, Blocks
  <2>3. /\ SendToClient(CreatePdu("DATA", seqNum, blocksRead', HeaderLen + BlockLen(blocksRead')))
        /\ serverWindow' = WindowCurUpdate(WindowAdd(serverWindow, seqNum,
             CreatePdu("DATA", seqNum, blocksRead', HeaderLen + BlockLen(blocksRead'))))
    BY <1>2 DEF SendBlock
  <2>4. /\ serverState = "SEND_DATA" /\ serverState' = "SEND_DATA"
        /\ seqNum' = seqNum + 1
        /\ UNCHANGED <<toServer, ackFaults, delays, disorder>>
    BY <1>2 DEF SendBlock
  <2> QED BY <2>2, <2>3, <2>4, AddedOwes
<1> QED BY <1>1, <1>2

LEMMA ResendsOwe ==
  ASSUME Inv, TimeoutOnAck \/ AckSrej \/ ResendEof
  PROVE  ServerOwes
<1>1. << >> \in Seq(HonestAck(expected, clientState))
  BY EmptySeq
<1>2. CASE TimeoutOnAck
  <2> DEFINE seq == serverWindow.lower
             len == StoredLen(SlotOf(serverWindow, seq).seq)
  <2>1. seq \in Nat /\ len \in PacketLens \cup {0} /\ "DATA_TIMEOUT" \in DataFlags
    BY NumberFacts, StoredLenType DEF DataFlags
  <2>2. serverState = "TIMEOUT_ON_ACK" /\ serverState' \in {"SEND_ERROR", "WAIT_ON_ACK"}
    BY <1>2 DEF TimeoutOnAck, ServerExits
  <2>3. /\ serverWindow' = WindowRetag(serverWindow, seq, "DATA_TIMEOUT", len)
        /\ UNCHANGED <<seqNum, ackFaults, disorder, delays>>
    BY <1>2 DEF TimeoutOnAck
  <2>4. \/ UNCHANGED <<toClient, dataFaults>>
        \/ len # 0 /\ SendToClient(StoredPdu(SlotOf(serverWindow, seq), "DATA_TIMEOUT", len, TRUE))
    BY <1>2 DEF TimeoutOnAck
  <2>5. toServer' \in Seq(HonestAck(expected, clientState))
    BY <1>1, <1>2, ServerReady DEF TimeoutOnAck, ServerExits, ServerCloses
  <2> HIDE DEF seq, len
  <2> QED BY <2>1, <2>2, <2>3, <2>4, <2>5, ResentOwes
<1>3. CASE AckSrej
  <2> DEFINE seq == Head(toServer).num
             len == StoredLen(seq)
  <2>1. TakesAck /\ toServer # << >>
    BY <1>3 DEF AckSrej, TakesAck
  <2>2. seq \in Nat /\ len \in PacketLens \cup {0} /\ "SREJ_RETRAN" \in DataFlags
    BY <2>1, AckTaken, StoredLenType DEF DataFlags
  <2>3. serverState = "WAIT_ON_ACK" /\ serverState' \in {"SEND_ERROR", "SEND_DATA"}
    BY <1>3, <2>1 DEF AckSrej, TakesAck, ServerExits
  <2>4. /\ serverWindow' = WindowRetag(serverWindow, seq, "SREJ_RETRAN", len)
        /\ UNCHANGED <<seqNum, ackFaults, disorder, delays>>
    BY <1>3, <2>1 DEF AckSrej, TakesAck
  <2>5. \/ UNCHANGED <<toClient, dataFaults>>
        \/ len # 0 /\ SendToClient(StoredPdu(SlotOf(serverWindow, seq), "SREJ_RETRAN", len, TRUE))
    BY <1>3 DEF AckSrej
  <2>6. toServer' \in Seq(HonestAck(expected, clientState))
    BY <1>1, <1>3, <2>1, AckTaken DEF AckSrej, ServerExits, ServerCloses, ServerReceives
  <2> HIDE DEF seq, len
  <2> QED BY <2>2, <2>3, <2>4, <2>5, <2>6, ResentOwes
<1>4. CASE ResendEof
  <2> DEFINE slot == SlotOf(serverWindow, lastSeqNum)
  <2>1. serverState = "WAIT_ON_EOF_ACK" /\ serverState' \in {"SEND_ERROR", "EOF_POLL"}
    BY <1>4 DEF ResendEof, ServerExits
  <2>2. lastSeqNum \in Nat /\ eofLen \in PacketLens \cup {0}
    BY DEF Inv, CounterInv
  <2>3. slot.flag \in DataFlags
    BY <2>1, <2>2, ServerReady, SlotOfType DEF Slot
  <2>4. UNCHANGED <<serverWindow, seqNum, ackFaults, disorder, delays>>
    BY <1>4 DEF ResendEof
  <2>5. \/ UNCHANGED <<toClient, dataFaults>>
        \/ \E ok \in BOOLEAN : eofLen # 0 /\ SendToClient(StoredPdu(slot, slot.flag, eofLen, ok))
    BY <1>4 DEF ResendEof
  <2>6. toServer' \in Seq(HonestAck(expected, clientState))
    BY <1>1, <1>4, <2>1, ServerReady DEF ResendEof, ServerExits, ServerCloses
  <2> QED BY <2>1, <2>2, <2>3, <2>4, <2>5, <2>6, ResentOwes
<1> QED BY <1>2, <1>3, <1>4

\* The window slides to an RR, which says no more than what rcopy expects.
LEMMA AckDataOwes ==
  ASSUME Inv, AckData
  PROVE  ServerOwes
<1> DEFINE n == serverWindow.current
           rr == Head(toServer).num
           slid == WindowSlide(serverWindow, rr)
<1>1. TakesAck /\ toServer # << >> /\ Head(toServer).flag = "RR"
  BY DEF AckData, TakesAck
<1>2. /\ serverState = "WAIT_ON_ACK" /\ serverState' = "SEND_DATA"
      /\ UNCHANGED <<seqNum, toClient, dataFaults, ackFaults, delays, disorder>>
      /\ toServer' = Tail(toServer)
  BY <1>1 DEF AckData, TakesAck, ServerReceives
<1>3. rr \in Nat /\ rr <= expected
  BY <1>1, AckTaken
<1>4. slid \in SentWindow(n) /\ slid.lower = rr /\ slid.current = n
  BY <1>2, <1>3, ServerReady, WindowSlideType
<1>5. serverWindow' = WindowRemove(slid, rr)
  BY DEF AckData
<1> HIDE DEF slid, rr
<1>6. serverWindow' \in SentWindow(n) /\ serverWindow'.lower = rr /\ serverWindow'.current = n
  BY <1>3, <1>4, <1>5, WindowRemoveType
<1>7. toServer' \in Seq(HonestAck(expected, clientState))
  BY <1>1, <1>2, AckTaken
<1>8. BudgetInv'
  BY <1>2, ServerReady DEF BudgetInv
<1> QED BY <1>2, <1>3, <1>6, <1>7, <1>8, NumberFacts, ServerReady DEF ServerOwes

LEMMA ServerSafe ==
  ASSUME Inv, NEW idle, ServerNext(idle), UNCHANGED clientVars
  PROVE  SafeInv'
<1>1. ServerOwes
  BY FilenameOwes, QuietStepsOwe, SendsOwe, ResendsOwe, AckDataOwes
     DEF ServerNext, ServerSends, ServerHearsAck
<1> QED BY <1>1, ServerOwesSafe

-----------------------------------------------------------------------------
(* Steps of rcopy. *)

\* What a step of rcopy owes to the invariant, given that the variables of the
\* server stay.
ClientOwes ==
  /\ BudgetInv'
  /\ toClient' \in Seq(SentPdu(serverWindow.current))
  /\ toServer' \in Seq(HonestAck(expected', clientState'))
  /\ ClientInv'
  /\ HighestBelowCurrent'
  /\ serverState = "FILENAME" => expected' = 1 /\ clientState' \in {"FILENAME", "RESTART"}
  /\ serverState # "FILENAME" => expected <= expected' /\ expected' <= serverWindow.current
  /\ clientState = "FINISHED" => clientState' = "FINISHED"

LEMMA ClientOwesSafe ==
  ASSUME Inv, ClientOwes, UNCHANGED serverVars
  PROVE  SafeInv'
<1>1. serverState' = serverState /\ serverWindow' = serverWindow /\ seqNum' = seqNum
  BY DEF serverVars
<1>2. ChannelInv' /\ ServerWindowInv'
  BY <1>1 DEF ClientOwes, ChannelInv, ServerWindowInv, Inv, SafeInv
<1>3. expected' \in Nat
  BY DEF ClientOwes, ClientInv
<1>4. OrderInv'
  BY <1>1, <1>3, NumberFacts
     DEF OrderInv, ClientOwes, WindowOrder, EndsAgree, Inv, SafeInv
<1> QED BY <1>2, <1>4 DEF SafeInv, ClientOwes

\* The facts a step of rcopy starts from.
LEMMA ClientReady ==
  ASSUME Inv
  PROVE  /\ toClient \in Seq(SentPdu(serverWindow.current))
         /\ toServer \in Seq(HonestAck(expected, clientState))
         /\ BudgetInv
         /\ ClientInv
         /\ HighestBelowCurrent
         /\ serverWindow.current \in Nat
         /\ serverState = "FILENAME" => expected = 1 /\ clientState \in {"FILENAME", "RESTART"}
         /\ serverState # "FILENAME" => expected <= serverWindow.current
<1>1. CASE serverState = "FILENAME"
  BY <1>1, NumberFacts DEF Inv, SafeInv, ChannelInv, OrderInv, HighestBelowCurrent
<1>2. CASE serverState # "FILENAME"
  BY <1>2, NumberFacts DEF Inv, SafeInv, ChannelInv, OrderInv
<1> QED BY <1>1, <1>2

\* A packet taken by rcopy has been numbered by the server.
LEMMA PduTaken ==
  ASSUME Inv, toClient # << >>
  PROVE  /\ Head(toClient) \in SentPdu(serverWindow.current)
         /\ Head(toClient).seq \in Nat
         /\ Head(toClient).seq < serverWindow.current
         /\ Head(toClient).block \in 0..NBlocks
         /\ Head(toClient).len \in PacketLens
         /\ Tail(toClient) \in Seq(SentPdu(serverWindow.current))
         /\ serverState # "FILENAME"
<1>1. /\ Head(toClient) \in SentPdu(serverWindow.current)
      /\ Tail(toClient) \in Seq(SentPdu(serverWindow.current))
  BY TakeType, ClientReady
<1>2. /\ Head(toClient).seq \in Nat
      /\ Head(toClient).seq < serverWindow.current
      /\ Head(toClient).block \in 0..NBlocks
      /\ Head(toClient).len \in PacketLens
  BY <1>1 DEF SentPdu, DataPdu
<1>3. serverState # "FILENAME"
  BY <1>2, NumberFacts
<1> QED BY <1>1, <1>2, <1>3

\* Steps of rcopy that keep what it has written and what it says.
LEMMA IdleOwes ==
  ASSUME Inv, UNCHANGED <<expected, highest, lastLen, lastSeq, eofSeq, fileVars>>,
         UNCHANGED <<toServer, dataFaults, ackFaults, disorder>>,
         delays' \in 0..MaxDelays,
         toClient' \in Seq(SentPdu(serverWindow.current)),
         UNCHANGED serverVars,
         clientState \notin {"FINISHED", "WRITE"}, clientState' \notin {"FINISHED", "WRITE"},
         clientState' \in {"BUFFER", "FLUSH"} => clientState' = clientState,
         serverState = "FILENAME" => clientState' \in {"FILENAME", "RESTART"},
         \/ clientState' \in NoClientWindow /\ clientWindow' = NoWindow
         \/ clientState' \notin NoClientWindow /\ clientWindow' \in SentWindow(serverWindow.current)
  PROVE  ClientOwes
<1>1. serverWindow' = serverWindow
  BY DEF serverVars
<1>2. BudgetInv'
  BY ClientReady DEF BudgetInv
<1>3. toServer' \in Seq(HonestAck(expected', clientState'))
  <2>1. expected \in Nat
    BY ClientReady DEF ClientInv
  <2> QED BY <2>1, ClientReady, AckMonotonic
<1>4. ClientInv'
  BY <1>1, ClientReady DEF ClientInv, fileVars, Taken
<1>5. HighestBelowCurrent'
  BY <1>1, ClientReady DEF HighestBelowCurrent
<1> QED BY <1>2, <1>3, <1>4, <1>5, ClientReady DEF ClientOwes, ClientInv

LEMMA IdleStepsOwe ==
  ASSUME Inv, UNCHANGED serverVars, NEW idle,
         FilenameTimer(idle) \/ FilenameAnswered \/ FileOk \/ DataTimer \/ DataCorrupted
  PROVE  ClientOwes
<1>1. << >> \in Seq(SentPdu(serverWindow.current))
  BY EmptySeq
<1>2. delays \in 0..MaxDelays
  BY ClientReady DEF BudgetInv
<1>3. /\ clientState \in NoClientWindow => clientWindow = NoWindow
      /\ clientState \notin NoClientWindow => clientWindow \in SentWindow(serverWindow.current)
  BY ClientReady DEF ClientInv
<1> USE DEF ClientExits, ClientCloses, NoClientWindow
<1>4. CASE FilenameTimer(idle)
  <2>1. delays' \in 0..MaxDelays
    BY <1>4, TimerType DEF FilenameTimer
  <2> QED BY <1>1, <1>3, <1>4, <2>1, IdleOwes DEF FilenameTimer
<1>5. CASE FilenameAnswered
  <2>1. /\ clientState = "FILENAME" /\ clientState' \in {"NO_FILE", "FILE_OK", "FILENAME"}
        /\ toClient # << >> /\ toClient' \in {<< >>, Tail(toClient)}
    BY <1>5 DEF FilenameAnswered, ClientReceives
  <2>2. toClient' \in Seq(SentPdu(serverWindow.current)) /\ serverState # "FILENAME"
    BY <1>1, <2>1, PduTaken
  <2>3. /\ UNCHANGED <<expected, highest, lastLen, lastSeq, eofSeq, fileVars>>
        /\ UNCHANGED <<toServer, dataFaults, ackFaults, disorder>>
        /\ UNCHANGED <<delays, clientWindow>>
    BY <1>5 DEF FilenameAnswered
  <2> QED BY <1>2, <1>3, <2>1, <2>2, <2>3, IdleOwes
<1>6. CASE FileOk
  <2>1. /\ clientState = "FILE_OK"
        /\ \/ /\ clientState' = "RECV_DATA" /\ clientWindow' = WindowCreate
              /\ toClient' = toClient
           \/ /\ clientState' = "OPEN_ERROR" /\ clientWindow' = clientWindow
              /\ toClient' = << >>
    BY <1>6 DEF FileOk
  <2>2. serverState # "FILENAME" /\ toClient' \in Seq(SentPdu(serverWindow.current))
    BY <1>1, <2>1, ClientReady
  <2>3. WindowCreate \in SentWindow(serverWindow.current)
    BY <2>2, NumberFacts, WindowCreateType
  <2>4. /\ UNCHANGED <<expected, highest, lastLen, lastSeq, eofSeq, fileVars>>
        /\ UNCHANGED <<toServer, dataFaults, ackFaults, disorder>>
        /\ UNCHANGED delays
    BY <1>6 DEF FileOk
  <2> QED BY <1>2, <1>3, <2>1, <2>2, <2>3, <2>4, IdleOwes
<1>7. CASE DataTimer
  <2>1. /\ clientState \in {"RECV_DATA", "BUFFER"} /\ clientState' = "TIMED_OUT"
        /\ toClient' = << >>
        /\ UNCHANGED <<expected, highest, lastLen, lastSeq, eofSeq, fileVars>>
        /\ UNCHANGED <<toServer, dataFaults, ackFaults, disorder>>
        /\ UNCHANGED clientWindow
    BY <1>7 DEF DataTimer
  <2>2. delays' \in 0..MaxDelays
    BY <1>7, TimerType DEF DataTimer
  <2>3. serverState # "FILENAME"
    BY <2>1, ClientReady
  <2> QED BY <1>1, <1>3, <2>1, <2>2, <2>3, IdleOwes
<1>8. CASE DataCorrupted
  <2>1. /\ clientState \in {"RECV_DATA", "BUFFER"} /\ clientState' = clientState
        /\ toClient # << >> /\ toClient' = Tail(toClient)
        /\ UNCHANGED <<expected, highest, lastLen, lastSeq, eofSeq, fileVars>>
        /\ UNCHANGED <<toServer, dataFaults, ackFaults, disorder>>
        /\ UNCHANGED <<delays, clientWindow>>
    BY <1>8 DEF DataCorrupted, clientVars, ClientReceives
  <2> QED BY <1>2, <1>3, <2>1, PduTaken, IdleOwes
<1> QED BY <1>4, <1>5, <1>6, <1>7, <1>8

\* Steps of rcopy that acknowledge, store or write.
BusyStates == {"RECV_DATA", "WRITE", "BUFFER", "FLUSH"}

LEMMA BusyOwes ==
  ASSUME Inv, UNCHANGED serverVars, clientState \in BusyStates,
         clientState' \in BusyStates \cup {"FINISHED"},
         UNCHANGED <<dataFaults, delays, disorder>>, ackFaults' \in 0..MaxAckFaults,
         toClient' \in Seq(SentPdu(serverWindow.current)),
         toServer' \in Seq(HonestAck(expected', clientState')),
         clientWindow' \in SentWindow(serverWindow.current),
         expected' \in Nat, expected <= expected', expected' <= serverWindow.current,
         highest' \in Nat,
         clientState' = "BUFFER" => expected' < highest',
         clientState' = "FLUSH" => expected' <= highest',
         clientState' \in {"BUFFER", "FLUSH"} => highest' < serverWindow.current,
         lastLen' \in PacketLens \cup {0}, lastSeq' \in Nat,
         lastSeq' # 0 => lastLen' # 0, eofSeq' \in Nat,
         output' \in Seq(Chunk), unwritten' \in Chunk, writeFaults' \in 0..MaxWriteFaults,
         Taken' = expected' - 1
  PROVE  ClientOwes
<1>1. serverWindow' = serverWindow
  BY DEF serverVars
<1>2. /\ BudgetInv'
      /\ serverState # "FILENAME"
  BY ClientReady DEF BudgetInv, BusyStates
<1>3. ClientInv'
  <2>1. clientState' \notin NoClientWindow
    BY DEF BusyStates, NoClientWindow
  <2>2. clientWindow' \in SentWindow(serverWindow'.current)
    BY <1>1
  <2>3. expected \in Nat /\ 1 <= expected
    BY ClientReady DEF ClientInv
  <2>4. 1 <= expected'
    BY <2>3
  <2> QED BY <2>1, <2>2, <2>4 DEF ClientInv
<1>4. HighestBelowCurrent'
  BY <1>1 DEF HighestBelowCurrent
<1> QED BY <1>2, <1>3, <1>4 DEF ClientOwes, BusyStates

LEMMA LearnsType ==
  ASSUME Inv, NEW p, p.seq \in Nat, p.len \in PacketLens, Learns(p)
  PROVE  /\ lastLen' \in PacketLens \cup {0}
         /\ lastSeq' \in Nat
         /\ lastSeq' # 0 => lastLen' # 0
         /\ eofSeq' \in Nat
BY Lengths, ClientReady DEF Learns, ClientInv

\* Writing a packet as it comes.
LEMMA WrittenType ==
  ASSUME NEW block \in 0..NBlocks, NEW len \in PacketLens
  PROVE  Written(block, len) \in Chunk
BY Lengths DEF Written, Chunk

\* So is one of which nothing arrives.
LEMMA ShortType ==
  ASSUME NEW c \in Chunk
  PROVE  Short(c) \in Chunk
<1>1. 0 \in 0..BufSize
  BY FileAssumption
<1> QED BY <1>1 DEF Short, Chunk

\* write() of some chunks makes as many pieces of the file, and the chunks
\* themselves when no call fails.
LEMMA WritesType ==
  ASSUME output \in Seq(Chunk), writeFaults \in 0..MaxWriteFaults,
         NEW chunks \in Seq(Chunk), Writes(chunks)
  PROVE  /\ output' \in Seq(Chunk)
         /\ Len(output') = Len(output) + Len(chunks)
         /\ writeFaults' \in 0..MaxWriteFaults
         /\ writeFaults <= writeFaults'
         /\ writeFaults' = 0 => output' = output \o chunks
<1>1. PICK short \in SUBSET DOMAIN chunks :
        /\ writeFaults + Cardinality(short) <= MaxWriteFaults
        /\ writeFaults' = writeFaults + Cardinality(short)
        /\ output' = output \o [i \in DOMAIN chunks |->
                                  IF i \in short THEN Short(chunks[i]) ELSE chunks[i]]
  BY DEF Writes
<1>2. DOMAIN chunks = 1..Len(chunks) /\ Len(chunks) \in Nat
  OBVIOUS
<1>3. IsFiniteSet(short) /\ Cardinality(short) \in Nat
  <2>1. short \subseteq 1..Len(chunks)
    BY <1>1, <1>2
  <2>2. IsFiniteSet(1..Len(chunks))
    BY <1>2, FS_Interval
  <2>3. IsFiniteSet(short)
    BY <2>1, <2>2, FS_Subset
  <2> QED BY <2>3, FS_CardinalityType
<1> DEFINE made == [i \in 1..Len(chunks) |->
                      IF i \in short THEN Short(chunks[i]) ELSE chunks[i]]
<1>4. \A c \in Chunk : Short(c) \in Chunk
  BY ShortType
<1>5. made \in Seq(Chunk) /\ Len(made) = Len(chunks)
  <2>1. \A i \in 1..Len(chunks) : chunks[i] \in Chunk
    BY ElementOfSeq
  <2> QED BY <1>2, <1>4, <2>1
<1>6. writeFaults' = 0 => made = chunks
  <2> SUFFICES ASSUME writeFaults' = 0 PROVE made = chunks
    OBVIOUS
  <2>1. short = {}
    BY <1>1, <1>3, FS_EmptySet
  <2> QED BY <1>2, <2>1
<1>7. output' = output \o made
  BY <1>1, <1>2
<1> HIDE DEF made
<1>8. output' \in Seq(Chunk) /\ Len(output') = Len(output) + Len(made)
  BY <1>5, <1>7, ConcatProperties
<1> QED BY <1>1, <1>3, <1>5, <1>6, <1>7, <1>8, ClientAssumption

\* One write() more.
LEMMA WriteType ==
  ASSUME output \in Seq(Chunk), writeFaults \in 0..MaxWriteFaults,
         NEW c \in Chunk, Writes(<<c>>)
  PROVE  /\ output' \in Seq(Chunk)
         /\ Len(output') = Len(output) + 1
         /\ writeFaults' \in 0..MaxWriteFaults
<1>1. <<c>> \in Seq(Chunk) /\ Len(<<c>>) = 1
  OBVIOUS
<1> QED BY <1>1, WritesType

\* recv_data() and buffer() with a whole packet in hand.
LEMMA ReceiveStepsOwe ==
  ASSUME Inv, UNCHANGED serverVars,
         \/ RecvEof \/ RecvInOrder \/ RecvAhead \/ RecvOld
         \/ BufferOld \/ BufferInOrder \/ BufferAhead
  PROVE  ClientOwes
<1> DEFINE p == Head(toClient)
           cur == serverWindow.current
<1>1. /\ toClient # << >>
      /\ clientState \in {"RECV_DATA", "BUFFER"}
      /\ UNCHANGED <<dataFaults, delays, disorder>>
  BY DEF RecvEof, RecvInOrder, RecvAhead, RecvOld, BufferOld, BufferInOrder, BufferAhead, Takes
<1>2. /\ p \in SentPdu(cur) /\ p.seq \in Nat /\ p.seq < cur /\ cur \in Nat
      /\ p.block \in 0..NBlocks /\ p.len \in PacketLens
      /\ Tail(toClient) \in Seq(SentPdu(cur))
      /\ << >> \in Seq(SentPdu(cur))
  BY <1>1, PduTaken, ClientReady, EmptySeq
<1>3. /\ clientWindow \in SentWindow(cur)
      /\ expected \in Nat /\ expected <= cur /\ highest \in Nat
      /\ output \in Seq(Chunk) /\ Len(output) = expected - 1
      /\ unwritten \in Chunk /\ writeFaults \in 0..MaxWriteFaults
      /\ clientState = "BUFFER" => expected < highest /\ highest < cur
  BY <1>1, ClientReady DEF ClientInv, NoClientWindow, HighestBelowCurrent, Taken
<1>4. /\ ackFaults \in 0..MaxAckFaults
      /\ toServer \in Seq(HonestAck(expected, clientState))
  BY ClientReady DEF BudgetInv
<1>5. Learns(p) => /\ lastLen' \in PacketLens \cup {0} /\ lastSeq' \in Nat
                   /\ lastSeq' # 0 => lastLen' # 0
                   /\ eofSeq' \in Nat
  BY <1>2, LearnsType
<1>6. WindowAdd(clientWindow, p.seq, p) \in SentWindow(cur)
  BY <1>2, <1>3, WindowAddType
<1>7. WindowRemove(clientWindow, p.seq) \in SentWindow(cur)
  BY <1>2, <1>3, WindowRemoveType
<1>8. \A e \in Nat, state \in BusyStates \cup {"FINISHED"} :
         expected <= e => toServer \in Seq(HonestAck(e, state))
  BY <1>1, <1>3, <1>4, AckMonotonic
<1>9. Written(p.block, p.len) \in Chunk
  BY <1>2, WrittenType
<1> USE DEF fileVars, Taken
<1> HIDE DEF p, cur
<1>10. CASE RecvEof
  <2>1. /\ Learns(p) /\ SendToServer(CreateAck("EOF_ACK", p.seq + 1))
        /\ clientState' = "FINISHED" /\ toClient' = << >>
        /\ UNCHANGED <<clientWindow, expected, highest, fileVars>>
    BY <1>10 DEF RecvEof, ClientExits, ClientCloses, p
  <2>2. CreateAck("EOF_ACK", p.seq + 1) \in HonestAck(expected, "FINISHED")
    BY <1>2, CreateAckType
  <2>3. toServer \in Seq(HonestAck(expected, "FINISHED"))
    BY <1>3, <1>8
  <2>4. toServer' \in Seq(HonestAck(expected, "FINISHED")) /\ ackFaults' \in 0..MaxAckFaults
    BY <2>1, <2>2, <2>3, <1>4, SendToServerType
  <2> QED
    BY <1>1, <1>2, <1>3, <1>5, <2>1, <2>4, BusyOwes DEF BusyStates, cur
<1>11. CASE RecvInOrder
  <2>1. /\ Learns(p) /\ p.seq = expected
        /\ SendToServer(CreateAck("RR", p.seq + 1))
        /\ unwritten' = Written(p.block, p.len)
        /\ highest' = expected /\ expected' = expected + 1
        /\ toClient' = Tail(toClient)
        /\ UNCHANGED <<clientWindow, output, writeFaults>>
        /\ clientState = "RECV_DATA" /\ clientState' = "WRITE"
    BY <1>11 DEF RecvInOrder, ClientReceives, Takes, p
  <2>2. CreateAck("RR", p.seq + 1) \in HonestAck(expected + 1, "WRITE")
    BY <1>2, <2>1, CreateAckType
  <2>3. toServer \in Seq(HonestAck(expected + 1, "WRITE"))
    BY <1>3, <1>8 DEF BusyStates
  <2>4. toServer' \in Seq(HonestAck(expected + 1, "WRITE")) /\ ackFaults' \in 0..MaxAckFaults
    BY <2>1, <2>2, <2>3, <1>4, SendToServerType
  <2> QED
    BY <1>1, <1>2, <1>3, <1>5, <1>9, <2>1, <2>4, BusyOwes DEF BusyStates, cur
<1>12. CASE RecvAhead
  <2>1. /\ Learns(p) /\ p.seq > expected
        /\ SendToServer(CreateAck("SREJ", expected))
        /\ clientWindow' = WindowAdd(clientWindow, p.seq, p)
        /\ highest' = p.seq /\ clientState' = "BUFFER"
        /\ toClient' = Tail(toClient)
        /\ UNCHANGED <<expected, fileVars>>
    BY <1>12 DEF RecvAhead, ClientReceives, p
  <2>2. CreateAck("SREJ", expected) \in HonestAck(expected, "BUFFER")
    BY <1>3, CreateAckType
  <2>3. toServer \in Seq(HonestAck(expected, "BUFFER"))
    BY <1>3, <1>8 DEF BusyStates
  <2>4. toServer' \in Seq(HonestAck(expected, "BUFFER")) /\ ackFaults' \in 0..MaxAckFaults
    BY <2>1, <2>2, <2>3, <1>4, SendToServerType
  <2> QED
    BY <1>1, <1>2, <1>3, <1>5, <1>6, <2>1, <2>4, BusyOwes DEF BusyStates, cur
<1>13. CASE RecvOld
  <2>1. /\ Learns(p) /\ p.seq < expected
        /\ SendToServer(CreateAck("RR", p.seq + 1))
        /\ clientState = "RECV_DATA"
        /\ toClient' = Tail(toClient)
        /\ UNCHANGED <<clientState, clientWindow, expected, highest, fileVars>>
    BY <1>13 DEF RecvOld, ClientReceives, Takes, p
  <2>2. CreateAck("RR", p.seq + 1) \in HonestAck(expected, "RECV_DATA")
    BY <1>2, <1>3, <2>1, CreateAckType
  <2>3. toServer' \in Seq(HonestAck(expected, "RECV_DATA")) /\ ackFaults' \in 0..MaxAckFaults
    BY <2>1, <2>2, <1>4, SendToServerType
  <2> QED
    BY <1>1, <1>2, <1>3, <1>5, <2>1, <2>3, BusyOwes DEF BusyStates, cur
<1>14. CASE BufferOld
  <2>1. /\ p.seq < expected
        /\ SendBothToServer(CreateAck("SREJ", expected), CreateAck("RR", p.seq + 1))
        /\ clientState' = "RECV_DATA"
        /\ toClient' = Tail(toClient)
        /\ UNCHANGED <<clientWindow, expected, highest, lastLen, lastSeq, eofSeq, fileVars>>
    BY <1>14 DEF BufferOld, ClientReceives, p
  <2>2. /\ CreateAck("RR", p.seq + 1) \in HonestAck(expected, "RECV_DATA")
        /\ CreateAck("SREJ", expected) \in HonestAck(expected, "RECV_DATA")
    BY <1>2, <1>3, <2>1, CreateAckType
  <2>3. toServer \in Seq(HonestAck(expected, "RECV_DATA"))
    BY <1>3, <1>8 DEF BusyStates
  <2>4. toServer' \in Seq(HonestAck(expected, "RECV_DATA")) /\ ackFaults' \in 0..MaxAckFaults
    BY <2>1, <2>2, <2>3, <1>4, SendBothType
  <2> QED
    BY <1>1, <1>2, <1>3, <2>1, <2>4, BusyOwes, ClientReady DEF BusyStates, cur, ClientInv
<1>15. CASE BufferInOrder
  <2>1. /\ Learns(p) /\ p.seq = expected /\ clientState = "BUFFER"
        /\ Writes(<<Written(p.block, p.len)>>)
        /\ clientWindow' = WindowRemove(clientWindow, p.seq)
        /\ expected' = expected + 1 /\ clientState' = "FLUSH"
        /\ toClient' = Tail(toClient)
        /\ UNCHANGED <<toServer, ackFaults, highest, unwritten>>
    BY <1>15 DEF BufferInOrder, ClientReceives, Takes, p
  <2>2. toServer \in Seq(HonestAck(expected + 1, "FLUSH"))
    BY <1>3, <1>8 DEF BusyStates
  <2>3. output' \in Seq(Chunk) /\ Len(output') = expected /\ writeFaults' \in 0..MaxWriteFaults
    BY <1>3, <1>9, <2>1, WriteType
  <2> QED
    BY <1>1, <1>2, <1>3, <1>4, <1>5, <1>7, <2>1, <2>2, <2>3, BusyOwes DEF BusyStates, cur
<1>16. CASE BufferAhead
  <2>1. /\ Learns(p) /\ p.seq > expected
        /\ clientWindow' = WindowAdd(clientWindow, p.seq, p)
        /\ highest' = p.seq
        /\ clientState = "BUFFER"
        /\ toClient' = Tail(toClient)
        /\ UNCHANGED <<clientState, expected, fileVars, toServer, ackFaults>>
    BY <1>16 DEF BufferAhead, ClientReceives, Takes, p
  <2> QED
    BY <1>1, <1>2, <1>3, <1>4, <1>5, <1>6, <2>1, BusyOwes DEF BusyStates, cur
<1> QED
  BY <1>10, <1>11, <1>12, <1>13, <1>14, <1>15, <1>16

\* The write() after an RR.
LEMMA WriteOwes ==
  ASSUME Inv, UNCHANGED serverVars, WriteAcknowledged
  PROVE  ClientOwes
<1>1. /\ clientState = "WRITE" /\ clientState' = "RECV_DATA"
      /\ Writes(<<unwritten>>) /\ unwritten' = NoChunk
      /\ UNCHANGED <<toClient, toServer, dataFaults, ackFaults, delays, disorder>>
      /\ UNCHANGED <<clientWindow, expected, highest, lastLen, lastSeq, eofSeq>>
  BY DEF WriteAcknowledged, linkVars
<1>2. /\ ClientInv /\ BudgetInv
      /\ clientWindow \in SentWindow(serverWindow.current)
      /\ toClient \in Seq(SentPdu(serverWindow.current))
      /\ toServer \in Seq(HonestAck(expected, clientState))
      /\ expected <= serverWindow.current
  BY <1>1, ClientReady DEF ClientInv, NoClientWindow
<1>3. Len(output) + 1 = expected - 1
  BY <1>1, <1>2 DEF ClientInv, Taken
<1>4. output' \in Seq(Chunk) /\ Len(output') = expected - 1 /\ writeFaults' \in 0..MaxWriteFaults
  BY <1>1, <1>2, <1>3, WriteType DEF ClientInv
<1>5. Taken' = expected' - 1 /\ unwritten' \in Chunk
  BY <1>1, <1>2, <1>4, FileAssumption DEF Taken, NoChunk, Chunk, ClientInv
<1>6. toServer \in Seq(HonestAck(expected, "RECV_DATA"))
  BY <1>1, <1>2, AckMonotonic DEF ClientInv
<1> QED
  BY <1>1, <1>2, <1>4, <1>5, <1>6, BusyOwes DEF BusyStates, ClientInv, BudgetInv

\* flush() stops at the highest packet buffered.
LEMMA FlushedToBound ==
  ASSUME expected \in Nat, highest \in Nat, expected <= highest
  PROVE  /\ Cardinality(FlushRun) \in Nat
         /\ FlushedTo \in expected..highest
         /\ Cardinality(FlushRun) = FlushedTo - expected
<1>1. /\ IsFiniteSet(expected..(highest - 1))
      /\ Cardinality(expected..(highest - 1)) = highest - expected
  <2>1. expected \in Int /\ highest - 1 \in Int
    OBVIOUS
  <2>2. /\ IsFiniteSet(expected..(highest - 1))
        /\ Cardinality(expected..(highest - 1))
             = IF expected > highest - 1 THEN 0 ELSE (highest - 1) - expected + 1
    BY <2>1, FS_Interval
  <2> QED BY <2>2
<1>2. FlushRun \subseteq expected..(highest - 1)
  BY DEF FlushRun
<1>3. IsFiniteSet(FlushRun) /\ Cardinality(FlushRun) <= highest - expected
  BY ZenonT(30), <1>1, <1>2, FS_Subset
<1>4. Cardinality(FlushRun) \in Nat
  BY <1>3, FS_CardinalityType
<1> QED BY <1>3, <1>4 DEF FlushedTo

\* What flush() writes for a buffered packet is as long as a block can be.
LEMMA FromBufferType ==
  ASSUME Inv, clientState = "FLUSH", NEW seq \in Nat, seq # 0
  PROVE  FromBuffer(seq) \in Chunk
<1>1. BufferedLen(seq) \in PacketLens
  BY Lengths, ClientReady DEF BufferedLen, ClientInv
<1>2. SlotOf(clientWindow, seq) \in Slot
  BY ClientReady, SlotOfType DEF ClientInv, NoClientWindow
<1>3. Content(SlotOf(clientWindow, seq), BufferedLen(seq)) \in 0..NBlocks
  BY <1>1, <1>2, FileAssumption DEF Content, Slot
<1> QED BY <1>1, <1>3, WrittenType DEF FromBuffer

LEMMA FlushedType ==
  ASSUME Inv, clientState = "FLUSH"
  PROVE  /\ Flushed \in Seq(Chunk)
         /\ Len(output) + Len(Flushed) = FlushedTo - 1
<1>1. expected \in Nat /\ 1 <= expected /\ highest \in Nat /\ expected <= highest
  BY ClientReady DEF ClientInv, HighestBelowCurrent
<1>2. Cardinality(FlushRun) \in Nat /\ Cardinality(FlushRun) = FlushedTo - expected
      /\ FlushedTo \in Nat
  BY <1>1, FlushedToBound
<1> DEFINE c == Cardinality(FlushRun)
<1>3. \A i \in 1..c : FromBuffer(expected + i - 1) \in Chunk
  <2> SUFFICES ASSUME NEW i \in 1..c PROVE FromBuffer(expected + i - 1) \in Chunk
    OBVIOUS
  <2>1. expected + i - 1 \in Nat /\ expected + i - 1 # 0
    BY <1>1, <1>2
  <2> QED BY <2>1, FromBufferType
<1>4. c \in Nat
  BY <1>2
<1> HIDE DEF c
<1>5. Flushed = [i \in 1..c |-> FromBuffer(expected + i - 1)]
  BY DEF Flushed, c
<1>6. Flushed \in Seq(Chunk) /\ Len(Flushed) = c
  BY <1>3, <1>4, <1>5
<1>7. Len(output) = expected - 1
  BY ClientReady DEF ClientInv, Taken
<1> QED BY <1>1, <1>2, <1>6, <1>7 DEF c

LEMMA WindowFlushedType ==
  ASSUME NEW n, clientWindow \in SentWindow(n)
  PROVE  WindowFlushed \in SentWindow(n)
<1> DEFINE emptied(s) == [s EXCEPT !.valid = FALSE]
           freed(i) == IF \E k \in FlushRun : i = k % clientWindow.size
                       THEN emptied(clientWindow.buf[i]) ELSE clientWindow.buf[i]
           buf == [i \in 0..(WindowSize - 1) |-> freed(i)]
<1>1. \A s \in Slot : emptied(s) \in Slot /\ emptied(s).seq = s.seq
  BY DEF Slot
<1> HIDE DEF emptied
<1>2. \A i \in 0..(WindowSize - 1) : freed(i) \in Slot /\ freed(i).seq < n
  BY <1>1 DEF SentWindow, WindowType
<1> HIDE DEF freed
<1>3. buf \in [0..(WindowSize - 1) -> Slot] /\ \A i \in 0..(WindowSize - 1) : buf[i].seq < n
  BY <1>2
<1>4. WindowFlushed = [clientWindow EXCEPT !.buf = buf]
  BY DEF WindowFlushed, freed, emptied, SentWindow, WindowType
<1> HIDE DEF buf
<1> QED BY <1>3, <1>4 DEF SentWindow, WindowType

LEMMA FlushStepsOwe ==
  ASSUME Inv, UNCHANGED serverVars, FlushEof \/ FlushAll \/ FlushHole
  PROVE  ClientOwes
<1> DEFINE e == FlushedTo
           cur == serverWindow.current
<1>1. /\ clientState = "FLUSH"
      /\ UNCHANGED <<dataFaults, delays, disorder>>
      /\ UNCHANGED <<highest, lastLen, lastSeq, eofSeq>>
  BY DEF FlushEof, FlushAll, FlushHole, Flushes
<1>2. /\ clientWindow \in SentWindow(cur)
      /\ cur \in Nat /\ expected \in Nat /\ 1 <= expected
      /\ highest \in Nat /\ expected <= highest /\ highest < cur
  BY <1>1, ClientReady DEF ClientInv, NoClientWindow, HighestBelowCurrent
<1>3. e \in Nat /\ expected <= e /\ e <= highest
  BY <1>2, FlushedToBound
<1>4. /\ Writes(Flushed)
      /\ output' \in Seq(Chunk) /\ Len(output') = e - 1
      /\ writeFaults' \in 0..MaxWriteFaults
  <2>1. Writes(Flushed)
    BY DEF FlushEof, FlushAll, FlushHole
  <2>2. output \in Seq(Chunk) /\ writeFaults \in 0..MaxWriteFaults
    BY ClientReady DEF ClientInv
  <2>3. Flushed \in Seq(Chunk) /\ Len(output) + Len(Flushed) = e - 1
    BY <1>1, FlushedType
  <2> QED BY <2>1, <2>2, <2>3, WritesType
<1>5. WindowFlushed \in SentWindow(cur)
  BY <1>2, WindowFlushedType
<1>6. /\ lastLen \in PacketLens \cup {0} /\ lastSeq \in Nat
      /\ lastSeq # 0 => lastLen # 0
      /\ eofSeq \in Nat /\ unwritten \in Chunk
      /\ ackFaults \in 0..MaxAckFaults
      /\ toClient \in Seq(SentPdu(cur)) /\ << >> \in Seq(SentPdu(cur))
  BY ClientReady, EmptySeq DEF ClientInv, BudgetInv
<1>7. \A d \in Nat, state \in BusyStates \cup {"FINISHED"} :
         expected <= d => toServer \in Seq(HonestAck(d, state))
  BY <1>1, <1>2, AckMonotonic, ClientReady
<1> HIDE DEF e, cur
<1>8. CASE FlushEof
  <2>1. /\ \/ SendBothToServer(CreateAck("RR", e), CreateAck("EOF_ACK", e))
           \/ SendToServer(CreateAck("EOF_ACK", e))
        /\ unwritten' = unwritten
        /\ clientWindow' = WindowFlushed
        /\ expected' = e
        /\ clientState' = "FINISHED" /\ toClient' = << >>
    BY <1>8 DEF FlushEof, ClientExits, ClientCloses, e
  <2>2. /\ CreateAck("RR", e) \in HonestAck(e, "FINISHED")
        /\ CreateAck("EOF_ACK", e) \in HonestAck(e, "FINISHED")
    BY <1>3, CreateAckType
  <2>3. toServer \in Seq(HonestAck(e, "FINISHED"))
    BY <1>3, <1>7
  <2>4. toServer' \in Seq(HonestAck(e, "FINISHED")) /\ ackFaults' \in 0..MaxAckFaults
    BY <1>6, <2>1, <2>2, <2>3, SendToServerType, SendBothType
  <2>5. Taken' = expected' - 1
    BY <1>3, <1>4, <2>1 DEF Taken
  <2> QED
    BY <1>1, <1>2, <1>3, <1>4, <1>5, <1>6, <2>1, <2>4, <2>5, BusyOwes DEF BusyStates, cur
<1>9. CASE FlushAll
  <2>1. /\ e >= highest
        /\ SendToServer(CreateAck("RR", e))
        /\ unwritten' = FromBuffer(e)
        /\ clientWindow' = WindowRemove(WindowFlushed, e)
        /\ expected' = e + 1
        /\ clientState' = "WRITE" /\ toClient' = toClient
    BY <1>9 DEF FlushAll, e
  <2>2. CreateAck("RR", e) \in HonestAck(e + 1, "WRITE")
    BY <1>3, CreateAckType
  <2>3. toServer \in Seq(HonestAck(e + 1, "WRITE"))
    BY <1>2, <1>3, <1>7 DEF BusyStates
  <2>4. toServer' \in Seq(HonestAck(e + 1, "WRITE")) /\ ackFaults' \in 0..MaxAckFaults
    BY <1>6, <2>1, <2>2, <2>3, SendToServerType
  <2>5. FromBuffer(e) \in Chunk
    BY <1>1, <1>2, <1>3, FromBufferType
  <2>6. Taken' = expected' - 1
    BY <1>3, <1>4, <2>1 DEF Taken
  <2>7. clientWindow' \in SentWindow(cur)
    BY <1>3, <1>5, <2>1, WindowRemoveType
  <2> QED
    BY <1>1, <1>2, <1>3, <1>4, <1>6, <2>1, <2>4, <2>5, <2>6, <2>7, BusyOwes DEF BusyStates, cur
<1>10. CASE FlushHole
  <2>1. /\ e < highest
        /\ SendBothToServer(CreateAck("SREJ", e), CreateAck("RR", e))
        /\ unwritten' = unwritten
        /\ clientWindow' = WindowFlushed
        /\ expected' = e
        /\ clientState' = "BUFFER" /\ toClient' = toClient
    BY <1>10 DEF FlushHole, e
  <2>2. /\ CreateAck("RR", e) \in HonestAck(e, "BUFFER")
        /\ CreateAck("SREJ", e) \in HonestAck(e, "BUFFER")
    BY <1>3, CreateAckType
  <2>3. toServer \in Seq(HonestAck(e, "BUFFER"))
    BY <1>3, <1>7 DEF BusyStates
  <2>4. toServer' \in Seq(HonestAck(e, "BUFFER")) /\ ackFaults' \in 0..MaxAckFaults
    BY <1>6, <2>1, <2>2, <2>3, SendBothType
  <2>5. Taken' = expected' - 1
    BY <1>3, <1>4, <2>1 DEF Taken
  <2> QED
    BY <1>1, <1>2, <1>3, <1>4, <1>5, <1>6, <2>1, <2>4, <2>5, BusyOwes DEF BusyStates, cur
<1> QED BY <1>8, <1>9, <1>10

LEMMA ClientSafe ==
  ASSUME Inv, NEW idle, ClientNext(idle), UNCHANGED serverVars
  PROVE  SafeInv'
<1>1. ClientOwes
  BY IdleStepsOwe, ReceiveStepsOwe, WriteOwes, FlushStepsOwe DEF ClientNext, ClientReceivesData
<1> QED BY <1>1, ClientOwesSafe

-----------------------------------------------------------------------------
(* The network, and the whole. *)

LEMMA NetworkSafe ==
  ASSUME Inv, NetworkStep
  PROVE  SafeInv'
<1>1. /\ UNCHANGED <<serverVars, clientVars, clientOpen, serverOpen, dataFaults, ackFaults, delays>>
      /\ disorder < MaxDisorder /\ disorder' = disorder + 1
      /\ \/ Disturb(toClient, toClient') /\ UNCHANGED toServer
         \/ Disturb(toServer, toServer') /\ UNCHANGED toClient
  BY DEF NetworkStep, NetworkDisorder
<1>2. BudgetInv'
  BY <1>1, ClientReady, LinkAssumption DEF BudgetInv
<1>3. /\ toClient' \in Seq(SentPdu(serverWindow.current))
      /\ toServer' \in Seq(HonestAck(expected, clientState))
  BY <1>1, ClientReady, DisturbType
<1> QED
  BY <1>1, <1>2, <1>3
     DEF SafeInv, ChannelInv, ServerWindowInv, ClientInv, OrderInv, WindowOrder,
         HighestBelowCurrent, EndsAgree, serverVars, clientVars, fileVars, Taken, Inv

LEMMA InvStep == Inv /\ [Next]_vars => Inv'
<1> SUFFICES ASSUME Inv, [Next]_vars PROVE Inv'
  OBVIOUS
<1>1. OpenInv' /\ CounterInv'
  BY OpenStep, CounterStep DEF Inv
<1>2. SafeInv'
  <2>1. CASE ServerStep
    BY <2>1, ServerSafe DEF ServerStep
  <2>2. CASE ClientStep
    BY <2>2, ClientSafe DEF ClientStep
  <2>3. CASE NetworkStep
    BY <2>3, NetworkSafe
  <2>4. CASE UNCHANGED vars
    BY <2>4
       DEF SafeInv, BudgetInv, ChannelInv, ServerWindowInv, ClientInv, OrderInv, WindowOrder,
           HighestBelowCurrent, EndsAgree, vars, linkVars, serverVars, clientVars, fileVars,
           Taken, Inv
  <2> QED BY <2>1, <2>2, <2>3, <2>4 DEF Next, Terminated
<1> QED BY <1>1, <1>2 DEF Inv

LEMMA Invariance == Spec => []Inv
BY InitInv, InvStep, PTL DEF Spec

-----------------------------------------------------------------------------
(* wait_on_ack() polls only when nothing more can be sent. *)

\* What patches a stored packet leaves the edges of the window alone.
LEMMA RetagKeepsFull ==
  ASSUME NEW w \in WindowType, NEW seq, NEW flag, NEW len
  PROVE  WindowFull(WindowRetag(w, seq, flag, len)) = WindowFull(w)
BY DEF WindowType, WindowRetag, WindowFull

LEMMA WaitStep == Inv /\ WaitsClosed /\ [Next]_vars => WaitsClosed'
<1> SUFFICES ASSUME Inv, WaitsClosed, [Next]_vars,
                    serverState' \in {"WAIT_ON_ACK", "TIMEOUT_ON_ACK"}
             PROVE  WindowClosed'
  BY DEF WaitsClosed
<1> USE DEF WaitsClosed, WindowClosed
<1>1. ASSUME NEW idle, ServerNext(idle) PROVE WindowClosed'
  <2> USE DEF ServerExits
  <2>1. CASE SendDataWindowFull
    BY <2>1 DEF SendDataWindowFull
  <2>2. CASE SendEof
    BY <2>2 DEF SendEof
  <2>3. CASE TimeoutOnAck
    <3>1. serverWindow \in WindowType
      BY <2>3, ServerReady DEF TimeoutOnAck, SentWindow
    <3>2. WindowClosed /\ finished' = finished
      BY <2>3 DEF TimeoutOnAck
    <3>3. WindowFull(serverWindow') = WindowFull(serverWindow)
      BY <2>3, <3>1, RetagKeepsFull DEF TimeoutOnAck
    <3> QED BY <3>2, <3>3 DEF WindowFull
  <2>4. CASE AckTimer(idle)
    BY <2>4 DEF AckTimer
  <2>5. CASE AckCorrupted
    BY <2>5 DEF AckCorrupted, TakesAck
  <2>6. CASE \/ ServerFilename \/ SendDataReadError \/ SendBlock \/ GiveUpOnAck
             \/ AckSrej \/ AckEof \/ AckFinal \/ AckData
             \/ GiveUpOnEof \/ ResendEof \/ EofTimer(idle) \/ EofAnswered
    BY <2>6
       DEF ServerFilename, SendDataReadError, SendBlock, GiveUpOnAck, AckSrej, AckEof,
           AckFinal, AckData, GiveUpOnEof, ResendEof, EofTimer, EofAnswered
  <2> QED
    BY <1>1, <2>1, <2>2, <2>3, <2>4, <2>5, <2>6 DEF ServerNext, ServerSends, ServerHearsAck
<1>2. CASE UNCHANGED serverVars
  BY <1>2 DEF serverVars
<1> QED
  BY <1>1, <1>2 DEF Next, ServerStep, ClientStep, NetworkStep, Terminated, vars

LEMMA WaitsAreClosed == Spec => []WaitsClosed
<1>1. Init => WaitsClosed
  BY DEF Init, ServerInit, WaitsClosed
<1> QED BY <1>1, Invariance, WaitStep, PTL DEF Spec

-----------------------------------------------------------------------------
(* What the invariant says. *)

\* Every variable of both programs keeps its type: the calloc'ed windows, the
\* counters of server.c and rcopy.c, and the packets of pdu.c.
THEOREM TypeCorrect == Spec => []TypeOK
<1>1. Inv => TypeOK
  <2> SUFFICES ASSUME Inv PROVE TypeOK
    OBVIOUS
  <2>1. SentPdu(serverWindow.current) \subseteq DataPdu /\ HonestAck(expected, clientState) \subseteq AckPdu
    BY DEF SentPdu, HonestAck
  <2>2. toClient \in Seq(DataPdu) /\ toServer \in Seq(AckPdu)
    BY <2>1, ClientReady, SeqMonotonic
  <2>3. LinkTypeOK
    BY <2>2 DEF Inv, OpenInv, SafeInv, BudgetInv, LinkTypeOK
  <2>4. serverOpen = (serverState \in ServerRunning) /\ clientOpen = (clientState \in ClientRunning)
    BY DEF Inv, OpenInv
  <2>5. serverWindow \in IF serverState = "FILENAME" THEN {NoWindow} ELSE WindowType
    BY DEF Inv, SafeInv, ServerWindowInv, SentWindow
  <2>6. ServerTypeOK
    BY <2>4, <2>5 DEF Inv, OpenInv, CounterInv, ServerTypeOK
  <2>7. clientWindow \in IF clientState \in NoClientWindow THEN {NoWindow} ELSE WindowType
    BY DEF Inv, SafeInv, ClientInv, SentWindow
  <2>8. ClientTypeOK
    BY <2>4, <2>7 DEF Inv, OpenInv, SafeInv, ClientInv, ClientTypeOK
  <2> QED BY <2>3, <2>6, <2>8 DEF TypeOK
<1> QED BY <1>1, Invariance, PTL

\* window_slide() and recv_data(), buffer(), flush() together: rcopy's next
\* packet is always inside the server's window, under every loss, damage,
\* delay, swap and repetition.
THEOREM Ordered == Spec => []WindowOrder
<1>1. Inv => WindowOrder
  BY DEF Inv, SafeInv, OrderInv, WindowOrder
<1> QED BY <1>1, Invariance, PTL

\* wait_on_ack() may forget what an RR names: recv_data(), buffer() and flush()
\* send it only for packets they have taken, all handed to write() but the one
\* recv_data() or flush() is about to write.
THEOREM AckedTaken == Spec => []AckedIsTaken
<1>1. Inv => AckedIsTaken
  <2> SUFFICES ASSUME Inv PROVE AckedIsTaken
    OBVIOUS
  <2>1. Taken = expected - 1 /\ expected \in Nat
    BY ClientReady DEF ClientInv
  <2>2. serverWindow.lower \in Nat /\ serverWindow.lower - 1 <= Taken
    BY <2>1, NumberFacts
  <2>3. ASSUME NEW i \in 1..Len(toServer), toServer[i].flag = "RR"
        PROVE  toServer[i].num - 1 <= Taken
    <3>1. toServer[i] \in HonestAck(expected, clientState)
      BY ClientReady, ElementOfSeq
    <3>2. toServer[i].num \in Nat /\ toServer[i].num <= expected
      BY <2>3, <3>1 DEF HonestAck, AckPdu
    <3> QED BY <2>1, <3>2
  <2> QED BY <2>2, <2>3 DEF AckedIsTaken
<1> QED BY <1>1, Invariance, PTL

\* wait_on_ack() and wait_on_eof_ack() reach FINISHED only after recv_data() or
\* flush() has sent EOF_ACK and rcopy has reported success.
THEOREM EndsAgreed == Spec => []EndsAgree
<1>1. Inv => EndsAgree
  BY DEF Inv, SafeInv, OrderInv
<1> QED BY <1>1, Invariance, PTL

\* The invariant as the runs check it.
THEOREM TransferSafe == Spec => []TransferInv
<1>1. Inv /\ WaitsClosed => TransferInv
  <2> SUFFICES ASSUME Inv, WaitsClosed PROVE TransferInv
    OBVIOUS
  <2>1. AcksBelowExpected
    <3> SUFFICES ASSUME NEW i \in 1..Len(toServer)
                 PROVE  /\ toServer[i].flag # "EOF_ACK" => toServer[i].num <= expected
                        /\ toServer[i].flag = "EOF_ACK" => clientState = "FINISHED"
      BY DEF AcksBelowExpected
    <3>1. toServer[i] \in HonestAck(expected, clientState)
      BY ClientReady, ElementOfSeq
    <3> QED BY <3>1 DEF HonestAck
  <2>2. EndsAgree /\ 1 <= expected /\ Taken = expected - 1 /\ (lastSeq # 0 => lastLen # 0)
    BY DEF Inv, SafeInv, OrderInv, ClientInv
  <2>3. serverState = "EOF_POLL" => eofRetryCount < MaxRetrans
    BY DEF Inv, CounterInv
  <2> DEFINE Ordering ==
        IF serverState = "FILENAME"
        THEN /\ toClient = << >>
             /\ seqNum = 1
             /\ expected = 1
             /\ clientState \in {"FILENAME", "RESTART"}
        ELSE WindowOrder /\ SentBelowCurrent /\ HighestBelowCurrent
  <2>4. Ordering
    <3>1. CASE serverState = "FILENAME"
      BY <3>1, NumberFacts, PduTaken, ClientReady DEF Inv, SafeInv, ServerWindowInv
    <3>2. CASE serverState # "FILENAME"
      <4>1. \A i \in 1..Len(toClient) : toClient[i].seq < serverWindow.current
        BY ClientReady, ElementOfSeq DEF SentPdu
      <4>2. \A i \in 0..(WindowSize - 1) : serverWindow.buf[i].seq < serverWindow.current
        BY <3>2, ServerReady DEF SentWindow
      <4>3. SentBelowCurrent
        BY <3>2, <4>1, <4>2, NumberFacts DEF SentBelowCurrent
      <4> QED BY <3>2, <4>3 DEF Inv, SafeInv, OrderInv
    <3> QED BY <3>1, <3>2
  <2> QED BY <2>1, <2>2, <2>3, <2>4 DEF TransferInv
<1> QED BY <1>1, Invariance, WaitsAreClosed, PTL

=============================================================================

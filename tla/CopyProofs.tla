----------------------------- MODULE CopyProofs -----------------------------
(***************************************************************************)
(* The transfer implements the abstract copy of FileCopy as long as no data *)
(* packet is lost, damaged, repeated or overtaken and no write() fails, for *)
(* every file, window and number of lost RRs and early timers.              *)
(*                                                                          *)
(* What the server may send is fixed by its own state (ServerCopyInv): a    *)
(* slot holds the block of its sequence number, and final_packet_len is the *)
(* length of the block final_packet_seq.  What is under way is then a       *)
(* stream without gaps (Stream): a packet that is sent again follows its    *)
(* original, so that rcopy finds the next block, or an old one, at the head *)
(* and never leaves recv_data().                                            *)
(***************************************************************************)
EXTENDS TransferProofs

-----------------------------------------------------------------------------
(* The server's side, whatever happens to its packets *)

PduLen(s) == HeaderLen + BlockLen(s)

\* A slot, or a packet whose checksum is right, holds what its number says.
Exact(p) ==
  /\ p.seq <= NBlocks + 1
  /\ p.seq \in Blocks => p.block = p.seq
  /\ p.flag = "END_OF_FILE" => p.seq = NBlocks + 1

SlotExact(slot) == Exact(slot) /\ (slot.seq \in Blocks => slot.len = PduLen(slot.seq))

PduExact(p) == p.ok => Exact(p) /\ (p.seq \in Blocks => p.len = PduLen(p.seq))

ServerCounted ==
  /\ seqNum = blocksRead + 1
  /\ \A s \in 1..(seqNum - 1) : StoredLen(s) = PduLen(s)
  /\ finalSeq < seqNum
  /\ finished => blocksRead = NBlocks /\ lastSeqNum = seqNum
  /\ ~finished => eofLen = 0

ServerStored ==
  IF serverState = "FILENAME"
  THEN seqNum = 1 /\ ~finished
  ELSE /\ serverWindow.current = IF finished THEN seqNum + 1 ELSE seqNum
       /\ \A i \in 0..(WindowSize - 1) : SlotExact(serverWindow.buf[i])
       /\ finished => SlotOf(serverWindow, seqNum).seq = seqNum

ServerCopyInv == ServerCounted /\ ServerStored

\* Two windows that differ at most in their lower edge, valid flags, checksums
\* and in the flags send_srej and timeout_on_ack put into stored packets.
SameSlots(w, v) ==
  /\ v.current = w.current
  /\ v.size = w.size
  /\ \A i \in 0..(WindowSize - 1) :
       /\ v.buf[i].seq = w.buf[i].seq
       /\ v.buf[i].block = w.buf[i].block
       /\ v.buf[i].len = w.buf[i].len
       /\ v.buf[i].flag \in {w.buf[i].flag, "SREJ_RETRAN", "DATA_TIMEOUT"}

LEMMA RetagKeeps ==
  ASSUME NEW n, NEW w \in SentWindow(n), NEW seq \in Nat,
         NEW flag \in {"SREJ_RETRAN", "DATA_TIMEOUT"}, NEW len
  PROVE  SameSlots(w, WindowRetag(w, seq, flag, len))
<1> DEFINE j == seq % WindowSize
<1>1. w \in WindowType /\ w.size = WindowSize
  BY DEF SentWindow, WindowType
<1>2. j \in 0..(WindowSize - 1)
  BY SlotIndex
<1>3. \A s \in Slot : /\ Retag(s, flag, len).seq = s.seq
                      /\ Retag(s, flag, len).block = s.block
                      /\ Retag(s, flag, len).len = s.len
                      /\ Retag(s, flag, len).flag = flag
  BY DEF Retag, Slot
<1>4. WindowRetag(w, seq, flag, len) = [w EXCEPT !.buf[j] = Retag(w.buf[j], flag, len)]
  BY <1>1 DEF WindowRetag, SlotOf
<1> HIDE DEF j
<1> QED BY <1>1, <1>2, <1>3, <1>4 DEF SameSlots, WindowType

LEMMA RemoveKeeps ==
  ASSUME NEW n, NEW w \in SentWindow(n), NEW seq \in Nat
  PROVE  SameSlots(w, WindowRemove(w, seq))
BY SlotIndex DEF SentWindow, WindowType, WindowRemove, Slot, SameSlots

LEMMA SlideKeeps ==
  ASSUME NEW n, NEW w \in SentWindow(n), NEW rr \in Nat
  PROVE  SameSlots(w, WindowSlide(w, rr))
BY DEF SentWindow, WindowType, WindowSlide, SameSlots

LEMMA SameSlotsTransitive ==
  ASSUME NEW u, NEW v, NEW w, SameSlots(u, v), SameSlots(v, w)
  PROVE  SameSlots(u, w)
BY DEF SameSlots

LEMMA SameSlotsReflexive ==
  ASSUME NEW w
  PROVE  SameSlots(w, w)
BY DEF SameSlots

\* What such windows hold is exact together.
LEMMA SameSlotsExact ==
  ASSUME NEW w, NEW v, SameSlots(w, v), w.size = WindowSize
  PROVE  /\ \A i \in 0..(WindowSize - 1) : SlotExact(w.buf[i]) => SlotExact(v.buf[i])
         /\ \A s \in Nat : SlotOf(v, s).seq = SlotOf(w, s).seq
<1>1. \A i \in 0..(WindowSize - 1) : SlotExact(w.buf[i]) => SlotExact(v.buf[i])
  BY DEF SameSlots, SlotExact, Exact
<1>2. ASSUME NEW s \in Nat PROVE SlotOf(v, s).seq = SlotOf(w, s).seq
  <2>1. s % WindowSize \in 0..(WindowSize - 1)
    BY SlotIndex
  <2> QED BY <2>1 DEF SameSlots, SlotOf
<1> QED BY <1>1, <1>2

\* Steps that send no new packet.
LEMMA ServerKeeps ==
  ASSUME Inv, ServerCopyInv, serverState # "FILENAME", serverState' # "FILENAME",
         UNCHANGED <<seqNum, blocksRead, finalSeq, finalLen, finished, lastSeqNum, eofLen>>,
         SameSlots(serverWindow, serverWindow')
  PROVE  ServerCopyInv'
<1>1. ServerCounted'
  BY DEF ServerCopyInv, ServerCounted, StoredLen
<1>2. serverWindow.size = WindowSize /\ seqNum \in Nat
  BY ServerReady DEF CounterInv
<1>3. ServerStored'
  <2>1. \A i \in 0..(WindowSize - 1) : SlotExact(serverWindow'.buf[i])
    BY <1>2, SameSlotsExact DEF ServerCopyInv, ServerStored
  <2>2. SlotOf(serverWindow', seqNum).seq = SlotOf(serverWindow, seqNum).seq
    BY <1>2, SameSlotsExact
  <2>3. serverWindow'.current = serverWindow.current
    BY DEF SameSlots
  <2> QED BY <2>1, <2>2, <2>3 DEF ServerCopyInv, ServerStored
<1> QED BY <1>1, <1>3 DEF ServerCopyInv

\* filename(): an empty window.
LEMMA FilenameStores ==
  ASSUME Inv, ServerCopyInv, ServerFilename
  PROVE  ServerCopyInv'
<1>1. serverState = "FILENAME" /\ serverState' \in {"SEND_DATA", "NO_FILE"}
  BY DEF ServerFilename, ServerExits
<1>2. UNCHANGED <<seqNum, blocksRead, finalSeq, finalLen, finished, lastSeqNum, eofLen>>
  BY DEF ServerFilename
<1>3. ServerCounted' /\ seqNum = 1 /\ ~finished
  BY <1>1, <1>2 DEF ServerCopyInv, ServerCounted, ServerStored, StoredLen
<1>4. SlotExact(EmptySlot)
  BY FileAssumption DEF SlotExact, Exact, EmptySlot, Blocks
<1>5. /\ serverWindow'.current = 1
      /\ \A i \in 0..(WindowSize - 1) : SlotExact(serverWindow'.buf[i])
  BY <1>4 DEF ServerFilename, WindowCreate
<1> QED BY <1>1, <1>2, <1>3, <1>5 DEF ServerCopyInv, ServerStored

\* window_add and window_cur_update: v is w with p in the slot of seq.
Added(w, v, seq, p) ==
  /\ v.current = w.current + 1
  /\ v.lower = w.lower
  /\ v.upper = w.upper
  /\ v.size = WindowSize
  /\ SlotOf(v, seq).seq = p.seq
  /\ \A i \in 0..(WindowSize - 1) :
       \/ v.buf[i] = w.buf[i]
       \/ /\ i = seq % WindowSize
          /\ v.buf[i].seq = p.seq
          /\ v.buf[i].block = p.block
          /\ v.buf[i].len = p.len
          /\ v.buf[i].flag = p.flag

LEMMA AddStores ==
  ASSUME NEW w \in WindowType, NEW seq \in Nat, NEW p, NEW v,
         v = WindowCurUpdate(WindowAdd(w, seq, p))
  PROVE  Added(w, v, seq, p)
<1> DEFINE j == seq % WindowSize
           added == [valid |-> TRUE, flag |-> p.flag, seq |-> p.seq, block |-> p.block,
                     len |-> p.len, sum |-> p.len]
<1>1. w \in WindowType /\ w.size = WindowSize
  BY DEF WindowType
<1>2. j \in 0..(WindowSize - 1)
  BY SlotIndex
<1>3. WindowAdd(w, seq, p) = [w EXCEPT !.buf[j] = added]
  BY <1>1 DEF WindowAdd
<1>4. added.seq = p.seq /\ added.block = p.block /\ added.len = p.len /\ added.flag = p.flag
  OBVIOUS
<1> HIDE DEF added
<1>5. /\ v.current = w.current + 1
      /\ v.lower = w.lower
      /\ v.upper = w.upper
      /\ v.size = WindowSize
      /\ v.buf = [w.buf EXCEPT ![j] = added]
  BY <1>1, <1>3 DEF WindowCurUpdate, WindowType
<1>6. SlotOf(v, seq) = v.buf[j]
  BY <1>5 DEF SlotOf
<1> HIDE DEF j
<1>7. v.buf[j] = added /\ \A i \in 0..(WindowSize - 1) : i # j => v.buf[i] = w.buf[i]
  BY <1>1, <1>2, <1>5 DEF WindowType
<1>8. \A i \in 0..(WindowSize - 1) :
         \/ v.buf[i] = w.buf[i]
         \/ i = j /\ v.buf[i] = added
  BY <1>7
<1> QED BY <1>4, <1>5, <1>6, <1>7, <1>8 DEF j, Added

LEMMA SendEofStores ==
  ASSUME Inv, ServerCopyInv, SendEof
  PROVE  ServerCopyInv'
<1>1. /\ serverState = "SEND_DATA" /\ serverState' = "WAIT_ON_ACK" /\ blocksRead = NBlocks
      /\ UNCHANGED <<seqNum, finalLen, finalSeq, blocksRead>>
  BY DEF SendEof
<1>2. CASE finished
  <2>1. UNCHANGED <<serverWindow, lastSeqNum, eofLen, finished>>
    BY <1>2 DEF SendEof
  <2> QED BY <1>1, <2>1, ServerKeeps, SameSlotsReflexive
<1>3. CASE ~finished
  <2> DEFINE p == CreatePdu("END_OF_FILE", seqNum, 0, HeaderLen + 1)
  <2>1. /\ serverWindow' = WindowCurUpdate(WindowAdd(serverWindow, seqNum, p))
        /\ lastSeqNum' = seqNum /\ finished' = TRUE
    BY <1>3 DEF SendEof
  <2>2. p.seq = seqNum /\ p.block = 0 /\ p.flag = "END_OF_FILE"
    BY DEF CreatePdu
  <2> HIDE DEF p
  <2>3. seqNum \in Nat /\ seqNum = NBlocks + 1 /\ NBlocks \in Nat
    BY <1>1, FileAssumption DEF ServerCopyInv, ServerCounted
  <2>4. serverWindow \in SentWindow(serverWindow.current)
    BY <1>1, ServerReady
  <2>5. /\ serverWindow'.current = serverWindow.current + 1
        /\ SlotOf(serverWindow', seqNum).seq = seqNum
        /\ \A i \in 0..(WindowSize - 1) :
             \/ serverWindow'.buf[i] = serverWindow.buf[i]
             \/ /\ serverWindow'.buf[i].seq = seqNum
                /\ serverWindow'.buf[i].flag = "END_OF_FILE"
    <3>1. serverWindow \in WindowType
      BY <2>4 DEF SentWindow
    <3>2. Added(serverWindow, serverWindow', seqNum, p)
      BY <2>1, <2>3, <3>1, AddStores
    <3> QED BY <2>2, <3>2 DEF Added
  <2>6. \A i \in 0..(WindowSize - 1) : SlotExact(serverWindow'.buf[i])
    <3>1. \A i \in 0..(WindowSize - 1) : SlotExact(serverWindow.buf[i])
      BY <1>1 DEF ServerCopyInv, ServerStored
    <3>2. seqNum \notin Blocks /\ seqNum <= NBlocks + 1
      BY <2>3 DEF Blocks
    <3>3. ASSUME NEW i \in 0..(WindowSize - 1),
                 serverWindow'.buf[i].seq = seqNum, serverWindow'.buf[i].flag = "END_OF_FILE"
          PROVE  SlotExact(serverWindow'.buf[i])
      BY <2>3, <3>2, <3>3 DEF SlotExact, Exact
    <3> QED BY <2>5, <3>1, <3>3
  <2>7. serverWindow.current = seqNum
    BY <1>1, <1>3 DEF ServerCopyInv, ServerStored
  <2>8. ServerCounted'
    BY <1>1, <2>1 DEF ServerCopyInv, ServerCounted, StoredLen
  <2> QED BY <1>1, <2>1, <2>5, <2>6, <2>7, <2>8 DEF ServerCopyInv, ServerStored
<1> QED BY <1>2, <1>3

\* send_data() notes the length of the one block that is not full.
LEMMA SendBlockCounts ==
  ASSUME Inv, ServerCopyInv, SendBlock
  PROVE  ServerCounted'
<1>1. /\ seqNum \in Nat /\ blocksRead \in Nat /\ blocksRead < NBlocks /\ NBlocks \in Nat
      /\ seqNum = blocksRead + 1
      /\ blocksRead' = blocksRead + 1
      /\ seqNum' = seqNum + 1
      /\ UNCHANGED <<finished, lastSeqNum, eofLen>>
      /\ finalSeq \in Nat /\ finalSeq < seqNum
  BY FileAssumption DEF SendBlock, Inv, CounterInv, ServerCopyInv, ServerCounted
<1>2. IF PduLen(seqNum) # DataPacketLen
      THEN finalLen' = PduLen(seqNum) /\ finalSeq' = seqNum
      ELSE UNCHANGED <<finalLen, finalSeq>>
  BY <1>1 DEF SendBlock, CreatePdu, PduLen
<1>3. \A s \in 1..(seqNum - 1) : StoredLen(s) = PduLen(s)
  BY DEF ServerCopyInv, ServerCounted
<1>4. \A s \in 1..(seqNum - 1) : PduLen(s) = DataPacketLen
  BY <1>1 DEF PduLen, BlockLen, DataPacketLen
<1>5. ASSUME NEW s \in 1..(seqNum' - 1) PROVE StoredLen(s)' = PduLen(s)
  <2>1. CASE s = seqNum
    BY <1>1, <1>2, <2>1 DEF StoredLen
  <2>2. CASE s # seqNum
    <3>1. s \in 1..(seqNum - 1)
      BY <1>1, <2>2
    <3> QED BY <1>2, <1>3, <1>4, <2>2, <3>1 DEF StoredLen
  <2> QED BY <2>1, <2>2
<1>6. finished = FALSE
  BY <1>1 DEF ServerCopyInv, ServerCounted, Inv, OpenInv
<1>7. eofLen = 0
  BY <1>6 DEF ServerCopyInv, ServerCounted
<1>8. finalSeq' < seqNum'
  BY <1>1, <1>2
<1> QED BY <1>1, <1>5, <1>6, <1>7, <1>8 DEF ServerCounted

LEMMA SendBlockStores ==
  ASSUME Inv, ServerCopyInv, SendBlock
  PROVE  ServerCopyInv'
<1> DEFINE p == CreatePdu("DATA", seqNum, blocksRead', HeaderLen + BlockLen(blocksRead'))
<1>1. /\ seqNum \in Nat /\ blocksRead \in Nat /\ blocksRead < NBlocks /\ NBlocks \in Nat
      /\ seqNum = blocksRead + 1
      /\ blocksRead' = seqNum
      /\ seqNum' = seqNum + 1
      /\ serverState = "SEND_DATA" /\ serverState' = serverState
      /\ finished' = finished
  BY FileAssumption DEF SendBlock, Inv, CounterInv, ServerCopyInv, ServerCounted
<1>2. p.seq = seqNum /\ p.block = seqNum /\ p.flag = "DATA" /\ p.len = PduLen(seqNum)
  BY <1>1 DEF CreatePdu, PduLen
<1>3. serverWindow' = WindowCurUpdate(WindowAdd(serverWindow, seqNum, p))
  BY DEF SendBlock
<1> HIDE DEF p
<1>4. serverWindow \in SentWindow(serverWindow.current)
  BY <1>1, ServerReady
<1>5. /\ serverWindow'.current = serverWindow.current + 1
      /\ \A i \in 0..(WindowSize - 1) :
           \/ serverWindow'.buf[i] = serverWindow.buf[i]
           \/ /\ serverWindow'.buf[i].seq = seqNum
              /\ serverWindow'.buf[i].block = seqNum
              /\ serverWindow'.buf[i].flag = "DATA"
              /\ serverWindow'.buf[i].len = PduLen(seqNum)
  <2>1. serverWindow \in WindowType
    BY <1>4 DEF SentWindow
  <2>2. Added(serverWindow, serverWindow', seqNum, p)
    BY <1>1, <1>3, <2>1, AddStores
  <2> QED BY <1>2, <2>2 DEF Added
<1>6. \A i \in 0..(WindowSize - 1) : SlotExact(serverWindow'.buf[i])
  <2>1. \A i \in 0..(WindowSize - 1) : SlotExact(serverWindow.buf[i])
    BY <1>1 DEF ServerCopyInv, ServerStored
  <2>2. ASSUME NEW i \in 0..(WindowSize - 1),
               serverWindow'.buf[i].seq = seqNum, serverWindow'.buf[i].block = seqNum,
               serverWindow'.buf[i].flag = "DATA", serverWindow'.buf[i].len = PduLen(seqNum)
        PROVE  SlotExact(serverWindow'.buf[i])
    BY <1>1, <2>2 DEF SlotExact, Exact
  <2> QED BY <1>5, <2>1, <2>2
<1>7. finished = FALSE
  BY <1>1 DEF ServerCopyInv, ServerCounted, Inv, OpenInv
<1>8. serverWindow.current = seqNum
  BY <1>1, <1>7 DEF ServerCopyInv, ServerStored
<1> QED BY <1>1, <1>5, <1>6, <1>7, <1>8, SendBlockCounts DEF ServerCopyInv, ServerStored

LEMMA ServerStores ==
  ASSUME Inv, ServerCopyInv, NEW idle, ServerNext(idle)
  PROVE  ServerCopyInv'
<1> DEFINE Kept == UNCHANGED <<seqNum, blocksRead, finalSeq, finalLen, finished, lastSeqNum, eofLen>>
<1>1. ASSUME Kept, serverState # "FILENAME", serverState' # "FILENAME", UNCHANGED serverWindow
      PROVE  ServerCopyInv'
  BY <1>1, ServerKeeps, SameSlotsReflexive
<1> USE DEF ServerExits
<1>2. CASE ServerFilename BY <1>2, FilenameStores
<1>3. CASE SendDataWindowFull BY <1>1, <1>3 DEF SendDataWindowFull
<1>4. CASE SendDataReadError BY <1>1, <1>4 DEF SendDataReadError
<1>5. CASE SendEof BY <1>5, SendEofStores
<1>6. CASE SendBlock BY <1>6, SendBlockStores
<1>7. CASE TimeoutOnAck
  <2>1. /\ Kept /\ serverState = "TIMEOUT_ON_ACK" /\ serverState' # "FILENAME"
    BY <1>7 DEF TimeoutOnAck
  <2>2. \E len : serverWindow' = WindowRetag(serverWindow, serverWindow.lower, "DATA_TIMEOUT", len)
    BY <1>7 DEF TimeoutOnAck
  <2>3. SameSlots(serverWindow, serverWindow')
    BY <2>1, <2>2, ServerReady, NumberFacts, RetagKeeps
  <2> QED BY <2>1, <2>3, ServerKeeps
<1>8. CASE GiveUpOnAck BY <1>1, <1>8 DEF GiveUpOnAck
<1>9. CASE AckTimer(idle) BY <1>1, <1>9 DEF AckTimer
<1>10. CASE AckCorrupted BY <1>1, <1>10 DEF AckCorrupted, TakesAck
<1>11. CASE AckSrej
  <2>1. TakesAck /\ serverState' \in {"SEND_ERROR", "SEND_DATA"}
    BY <1>11 DEF AckSrej
  <2>2. /\ Kept /\ serverState = "WAIT_ON_ACK" /\ toServer # << >>
    BY <2>1 DEF TakesAck
  <2>3. \E len : serverWindow' = WindowRetag(serverWindow, Head(toServer).num, "SREJ_RETRAN", len)
    BY <1>11 DEF AckSrej
  <2>4. SameSlots(serverWindow, serverWindow')
    BY <2>2, <2>3, ServerReady, AckTaken, RetagKeeps
  <2> QED BY <2>1, <2>2, <2>4, ServerKeeps
<1>12. CASE AckEof BY <1>1, <1>12 DEF AckEof, TakesAck
<1>13. CASE AckFinal BY <1>1, <1>13 DEF AckFinal, TakesAck
<1>14. CASE AckData
  <2>1. TakesAck /\ serverState' = "SEND_DATA"
    BY <1>14 DEF AckData
  <2>2. /\ Kept /\ serverState = "WAIT_ON_ACK" /\ toServer # << >>
    BY <2>1 DEF TakesAck
  <2> DEFINE rr == Head(toServer).num
             slid == WindowSlide(serverWindow, rr)
  <2>3. rr \in Nat /\ serverWindow \in SentWindow(serverWindow.current)
    BY <2>2, AckTaken, ServerReady
  <2>4. SameSlots(serverWindow, slid) /\ slid \in SentWindow(serverWindow.current)
    BY <2>3, SlideKeeps, WindowSlideType
  <2>5. SameSlots(slid, WindowRemove(slid, rr))
    BY <2>3, <2>4, RemoveKeeps
  <2>6. serverWindow' = WindowRemove(slid, rr)
    BY <1>14 DEF AckData
  <2>7. SameSlots(serverWindow, serverWindow')
    BY <2>4, <2>5, <2>6, SameSlotsTransitive
  <2> QED BY <2>1, <2>2, <2>7, ServerKeeps
<1>15. CASE GiveUpOnEof BY <1>1, <1>15 DEF GiveUpOnEof
<1>16. CASE ResendEof BY <1>1, <1>16 DEF ResendEof
<1>17. CASE EofTimer(idle) BY <1>1, <1>17 DEF EofTimer
<1>18. CASE EofAnswered BY <1>1, <1>18 DEF EofAnswered
<1> QED
  BY <1>2, <1>3, <1>4, <1>5, <1>6, <1>7, <1>8, <1>9, <1>10, <1>11, <1>12, <1>13,
     <1>14, <1>15, <1>16, <1>17, <1>18
     DEF ServerNext, ServerSends, ServerHearsAck

LEMMA ServerCopyStep == Inv /\ ServerCopyInv /\ [Next]_vars => ServerCopyInv'
<1> SUFFICES ASSUME Inv, ServerCopyInv, [Next]_vars PROVE ServerCopyInv'
  OBVIOUS
<1>1. CASE ServerStep
  BY <1>1, ServerStores DEF ServerStep
<1>2. CASE UNCHANGED serverVars
  BY <1>2 DEF serverVars, ServerCopyInv, ServerCounted, ServerStored, StoredLen
<1> QED BY <1>1, <1>2 DEF Next, ClientStep, NetworkStep, Terminated, vars

LEMMA ServerCopyInit == Init => ServerCopyInv
BY FileAssumption DEF Init, ServerInit, ServerCopyInv, ServerCounted, ServerStored, StoredLen

-----------------------------------------------------------------------------
(* What is under way to rcopy, which expects packet e, when the server has   *)
(* sent the packets below n.                                                 *)

\* Before position i, packet s.
Before(chan, i, s) == \E j \in 1..(i - 1) : chan[j].ok /\ chan[j].seq = s

EofBefore(chan, i) == \E j \in 1..(i - 1) : chan[j].ok /\ chan[j].flag = "END_OF_FILE"

\* The packet at position i can be taken when everything before it has been.
InTurn(chan, i, e) ==
  /\ PduExact(chan[i])
  /\ chan[i].ok /\ chan[i].seq > e => Before(chan, i, chan[i].seq - 1)
  /\ chan[i].ok /\ chan[i].seq = NBlocks + 1 /\ chan[i].flag # "END_OF_FILE" => EofBefore(chan, i)

Stream(chan, e, n) ==
  /\ \A i \in 1..Len(chan) : InTurn(chan, i, e)
  /\ \A s \in e..(n - 1) : Before(chan, Len(chan) + 1, s)

\* A packet sent again, or the next one.
LEMMA StreamAppend ==
  ASSUME NEW S, NEW chan \in Seq(S), NEW p \in S, NEW e \in Nat, NEW n \in Nat, NEW m \in {n, n + 1},
         Stream(chan, e, n), PduExact(p), p.seq \in Nat, p.seq <= n,
         m = n + 1 => p.ok /\ p.seq = n,
         p.ok /\ p.seq = NBlocks + 1 /\ p.flag # "END_OF_FILE" => EofBefore(chan, Len(chan) + 1)
  PROVE  Stream(Append(chan, p), e, m)
<1> DEFINE l == Len(chan)
           new == Append(chan, p)
<1>1. /\ l \in Nat /\ Len(new) = l + 1 /\ new[l + 1] = p
      /\ \A i \in 1..l : new[i] = chan[i]
  BY AppendProperties, LenProperties
<1> HIDE DEF l, new
<1>2. /\ \A i \in 1..l : InTurn(chan, i, e)
      /\ \A s \in e..(n - 1) : Before(chan, l + 1, s)
  BY DEF Stream, l
<1>3. \A i \in 1..(l + 1) : \A s : Before(chan, i, s) => Before(new, i, s)
  BY <1>1 DEF Before
<1>4. \A i \in 1..(l + 1) : EofBefore(chan, i) => EofBefore(new, i)
  BY <1>1 DEF EofBefore
<1>5. ASSUME NEW i \in 1..l PROVE InTurn(new, i, e)
  <2>1. InTurn(chan, i, e) /\ new[i] = chan[i] /\ i \in 1..(l + 1)
    BY <1>1, <1>2
  <2> QED BY <2>1, <1>3, <1>4 DEF InTurn
<1>6. InTurn(new, l + 1, e)
  <2>1. p.seq > e => p.seq - 1 \in e..(n - 1)
    OBVIOUS
  <2>2. p.seq > e => Before(new, l + 1, p.seq - 1)
    BY <1>1, <1>2, <1>3, <2>1
  <2>3. p.ok /\ p.seq = NBlocks + 1 /\ p.flag # "END_OF_FILE" => EofBefore(new, l + 1)
    BY <1>1, <1>4 DEF l
  <2> QED BY <1>1, <2>2, <2>3 DEF InTurn
<1>7. ASSUME NEW s \in e..(m - 1) PROVE Before(new, l + 2, s)
  <2>1. CASE s \in e..(n - 1)
    <3>1. Before(new, l + 1, s)
      BY <1>1, <1>2, <1>3, <2>1
    <3> QED BY <1>1, <3>1 DEF Before
  <2>2. CASE s \notin e..(n - 1)
    <3>1. m = n + 1 /\ s = n
      BY <2>2
    <3> QED BY <1>1, <3>1 DEF Before
  <2> QED BY <2>1, <2>2
<1>8. \A i \in 1..Len(new) : InTurn(new, i, e)
  <2> SUFFICES ASSUME NEW i \in 1..Len(new) PROVE InTurn(new, i, e)
    OBVIOUS
  <2>1. i \in 1..l \/ i = l + 1
    BY <1>1
  <2> QED BY <2>1, <1>5, <1>6
<1>9. Len(new) + 1 = l + 2
  BY <1>1
<1>10. \A s \in e..(m - 1) : Before(new, Len(new) + 1, s)
  BY <1>7, <1>9
<1> HIDE DEF new, l
<1>11. Stream(new, e, m)
  BY <1>8, <1>10 DEF Stream
<1> QED BY <1>11 DEF new

\* rcopy takes the first packet and expects d from then on.
LEMMA StreamTail ==
  ASSUME NEW S, NEW chan \in Seq(S), chan # << >>, NEW e \in Nat, NEW d \in Nat, NEW n \in Nat, e <= d,
         \A i \in 1..Len(chan) : chan[i].seq \in Nat,
         Stream(chan, e, n),
         chan[1].ok => chan[1].seq < d /\ chan[1].flag # "END_OF_FILE"
  PROVE  /\ Stream(Tail(chan), d, n)
         /\ EofBefore(chan, Len(chan) + 1) => EofBefore(Tail(chan), Len(Tail(chan)) + 1)
<1> DEFINE l == Len(chan)
           t == Tail(chan)
<1>1. /\ l \in Nat /\ 0 < l /\ Len(t) = l - 1
      /\ \A i \in 1..(l - 1) : t[i] = chan[i + 1]
  BY HeadTailProperties, LenProperties, EmptySeq
<1> HIDE DEF l, t
<1>2. /\ \A i \in 1..l : InTurn(chan, i, e)
      /\ \A s \in e..(n - 1) : Before(chan, l + 1, s)
  BY DEF Stream, l
<1>3. ASSUME NEW i \in 1..l, NEW s, s >= d, s \in Nat, Before(chan, i + 1, s)
      PROVE  Before(t, i, s)
  <2>1. PICK j \in 1..i : chan[j].ok /\ chan[j].seq = s
    BY <1>1, <1>3 DEF Before
  <2>2. j # 1
    BY <1>3, <2>1
  <2>3. j - 1 \in 1..(i - 1) /\ j - 1 \in 1..(l - 1) /\ (j - 1) + 1 = j
    BY <1>1, <2>2
  <2>4. t[j - 1] = chan[j]
    BY <1>1, <2>3
  <2> QED BY <2>1, <2>3, <2>4 DEF Before
<1>4. ASSUME NEW i \in 1..l, EofBefore(chan, i + 1)
      PROVE  EofBefore(t, i)
  <2>1. PICK j \in 1..i : chan[j].ok /\ chan[j].flag = "END_OF_FILE"
    BY <1>1, <1>4 DEF EofBefore
  <2>2. j # 1
    BY <2>1
  <2>3. j - 1 \in 1..(i - 1) /\ j - 1 \in 1..(l - 1) /\ (j - 1) + 1 = j
    BY <1>1, <2>2
  <2>4. t[j - 1] = chan[j]
    BY <1>1, <2>3
  <2> QED BY <2>1, <2>3, <2>4 DEF EofBefore
<1>5. ASSUME NEW i \in 1..(l - 1) PROVE InTurn(t, i, d)
  <2>1. t[i] = chan[i + 1] /\ InTurn(chan, i + 1, e) /\ i \in 1..l
    BY <1>1, <1>2
  <2>2. t[i].seq \in Nat
    BY <1>1, <2>1 DEF l
  <2>3. t[i].ok /\ t[i].seq > d => Before(t, i, t[i].seq - 1)
    <3>1. t[i].seq > d => t[i].seq > e /\ t[i].seq - 1 >= d /\ t[i].seq - 1 \in Nat
      BY <2>2
    <3>2. t[i].ok /\ t[i].seq > d => Before(chan, i + 1, t[i].seq - 1)
      BY <2>1, <3>1 DEF InTurn
    <3> QED BY <1>3, <2>1, <3>1, <3>2
  <2>4. t[i].ok /\ t[i].seq = NBlocks + 1 /\ t[i].flag # "END_OF_FILE" => EofBefore(t, i)
    BY <1>4, <2>1 DEF InTurn
  <2> QED BY <2>1, <2>3, <2>4 DEF InTurn
<1>6. ASSUME NEW s \in d..(n - 1) PROVE Before(t, l, s)
  <2>1. s \in e..(n - 1) /\ s \in Nat /\ s >= d /\ l \in 1..l
    BY <1>1
  <2>2. Before(chan, l + 1, s)
    BY <1>2, <2>1
  <2> QED BY <1>3, <2>1, <2>2
<1>7. EofBefore(chan, l + 1) => EofBefore(t, l)
  BY <1>1, <1>4
<1> QED BY <1>1, <1>5, <1>6, <1>7 DEF Stream, l, t

\* What rcopy finds is the packet it expects or an old one, and is what its
\* number says.
LEMMA StreamHead ==
  ASSUME NEW S, NEW chan \in Seq(S), chan # << >>, NEW e \in Nat, NEW n \in Nat,
         chan[1].seq \in Nat, Stream(chan, e, n), chan[1].ok
  PROVE  /\ Exact(chan[1])
         /\ chan[1].seq \in Blocks => chan[1].len = PduLen(chan[1].seq)
         /\ chan[1].seq <= e
         /\ chan[1].seq = NBlocks + 1 => chan[1].flag = "END_OF_FILE"
<1>1. 1 \in 1..Len(chan)
  BY LenProperties, EmptySeq
<1>2. InTurn(chan, 1, e)
  BY <1>1 DEF Stream
<1>3. \A s : ~Before(chan, 1, s)
  BY DEF Before
<1>4. ~EofBefore(chan, 1)
  BY DEF EofBefore
<1> QED BY <1>2, <1>3, <1>4 DEF InTurn, PduExact

-----------------------------------------------------------------------------
(* rcopy's side while no data packet has been disturbed *)

\* The answer of filename(), which rcopy's filename() takes.
Answered == toClient # << >> /\ toClient[1].ok /\ toClient[1].seq = 0

Flowing ==
  /\ Stream(toClient, expected, seqNum)
  /\ finished => EofBefore(toClient, Len(toClient) + 1)
  /\ \A i \in 1..Len(toServer) : toServer[i].flag # "SREJ"
  /\ clientState = "FILENAME" => serverState = "FILENAME" \/ Answered

Copied(n) == [b \in 1..n |-> FileChunk(b)]

ClientCopyInv ==
  /\ output = Copied(Len(output))
  /\ Len(output) <= NBlocks
  /\ clientState = "FINISHED" => Len(output) = NBlocks
  /\ clientState \notin {"BUFFER", "FLUSH"}
  /\ clientState = "WRITE" => /\ Len(output) < NBlocks
                              /\ unwritten = FileChunk(Len(output) + 1)
  /\ clientOpen => Flowing

CopyInv == ServerCopyInv /\ (DataUndisturbed => ClientCopyInv)

\* A write() that has failed stays on the bill.
LEMMA WriteFaultsGrow ==
  ASSUME Inv, NEW idle, ClientNext(idle)
  PROVE  writeFaults \in Nat /\ (writeFaults' = 0 => writeFaults = 0)
<1>1. /\ output \in Seq(Chunk) /\ writeFaults \in 0..MaxWriteFaults
      /\ unwritten \in Chunk /\ writeFaults \in Nat
  BY ClientReady, ClientAssumption DEF ClientInv
<1>2. ASSUME NEW chunks \in Seq(Chunk), Writes(chunks)
      PROVE  writeFaults' = 0 => writeFaults = 0
  BY <1>1, <1>2, WritesType, ClientAssumption
<1>3. \A c \in Chunk : <<c>> \in Seq(Chunk)
  OBVIOUS
<1>4. CASE WriteAcknowledged
  BY <1>1, <1>2, <1>3, <1>4 DEF WriteAcknowledged
<1>5. CASE BufferInOrder
  <2>1. Written(Head(toClient).block, Head(toClient).len) \in Chunk
    BY <1>5, PduTaken, WrittenType DEF BufferInOrder, Takes
  <2> QED BY <1>1, <1>2, <1>3, <1>5, <2>1 DEF BufferInOrder
<1>6. CASE FlushEof \/ FlushAll \/ FlushHole
  <2>1. Flushed \in Seq(Chunk)
    BY <1>6, FlushedType DEF FlushEof, FlushAll, FlushHole, Flushes
  <2>2. Writes(Flushed)
    BY <1>6 DEF FlushEof, FlushAll, FlushHole
  <2> QED BY <1>1, <1>2, <2>1, <2>2
<1>7. CASE \/ FilenameTimer(idle) \/ FilenameAnswered \/ FileOk \/ DataTimer \/ DataCorrupted
           \/ RecvEof \/ RecvInOrder \/ RecvAhead \/ RecvOld \/ BufferOld \/ BufferAhead
  BY <1>1, <1>7
     DEF FilenameTimer, FilenameAnswered, FileOk, DataTimer, DataCorrupted, RecvEof, RecvInOrder,
         RecvAhead, RecvOld, BufferOld, BufferAhead, clientVars, fileVars
<1> QED
  BY <1>1, <1>4, <1>5, <1>6, <1>7 DEF ClientNext, ClientReceivesData

\* Nothing undoes a disturbance.
LEMMA UndisturbedBefore ==
  ASSUME Inv, [Next]_vars, DataUndisturbed'
  PROVE  DataUndisturbed
<1>0. BudgetInv
  BY DEF Inv, SafeInv
<1>1. \A p : SendToClient(p) => \/ dataFaults' = dataFaults
                               \/ \E c \in {0, 1} : dataFaults' = dataFaults + c
  BY DEF SendToClient, Cost
<1>2. ASSUME NEW idle, ServerNext(idle)
      PROVE  /\ disorder' = disorder
             /\ \/ dataFaults' = dataFaults
                \/ \E c \in {0, 1} : dataFaults' = dataFaults + c
  <2>1. CASE ServerFilename BY <1>1, <2>1 DEF ServerFilename
  <2>2. CASE SendDataWindowFull \/ SendDataReadError
    BY <2>2 DEF SendDataWindowFull, SendDataReadError, linkVars
  <2>3. CASE SendEof
    <3>1. disorder' = disorder
      BY <2>3 DEF SendEof
    <3>2. dataFaults' = dataFaults \/ \E p : SendToClient(p)
      BY <2>3 DEF SendEof
    <3> QED BY <1>1, <3>1, <3>2
  <2>4. CASE SendBlock BY <1>1, <2>4 DEF SendBlock
  <2>5. CASE TimeoutOnAck BY <1>1, <2>5 DEF TimeoutOnAck
  <2>6. CASE GiveUpOnAck \/ AckTimer(idle) BY <2>6 DEF GiveUpOnAck, AckTimer
  <2>7. CASE AckCorrupted \/ AckEof \/ AckFinal \/ AckData
    BY <2>7 DEF AckCorrupted, AckEof, AckFinal, AckData, TakesAck
  <2>8. CASE AckSrej
    <3>1. TakesAck
      BY <2>8 DEF AckSrej
    <3>2. dataFaults' = dataFaults \/ \E p : SendToClient(p)
      BY <2>8 DEF AckSrej
    <3> QED BY <1>1, <3>1, <3>2 DEF TakesAck
  <2>9. CASE GiveUpOnEof \/ EofTimer(idle) \/ EofAnswered
    BY <2>9 DEF GiveUpOnEof, EofTimer, EofAnswered
  <2>10. CASE ResendEof BY <1>1, <2>10 DEF ResendEof
  <2> QED
    BY <1>2, <2>1, <2>2, <2>3, <2>4, <2>5, <2>6, <2>7, <2>8, <2>9, <2>10
       DEF ServerNext, ServerSends, ServerHearsAck
<1>3. ASSUME NEW idle, ClientNext(idle)
      PROVE  dataFaults' = dataFaults /\ disorder' = disorder
  <2> USE DEF Takes, Flushes
  <2>1. CASE FilenameTimer(idle) \/ FilenameAnswered \/ FileOk \/ DataTimer \/ DataCorrupted
    BY <2>1 DEF FilenameTimer, FilenameAnswered, FileOk, DataTimer, DataCorrupted
  <2>2. CASE RecvEof \/ RecvInOrder \/ RecvAhead \/ RecvOld
    BY <2>2 DEF RecvEof, RecvInOrder, RecvAhead, RecvOld, ClientExits
  <2>3. CASE BufferOld \/ BufferInOrder \/ BufferAhead
    BY <2>3 DEF BufferOld, BufferInOrder, BufferAhead
  <2>4. CASE FlushEof \/ FlushAll \/ FlushHole
    BY <2>4 DEF FlushEof, FlushAll, FlushHole
  <2>5. CASE WriteAcknowledged
    BY <2>5 DEF WriteAcknowledged, linkVars
  <2> QED BY <1>3, <2>1, <2>2, <2>3, <2>4, <2>5 DEF ClientNext, ClientReceivesData
<1>4. CASE ServerStep
  BY <1>0, <1>2, <1>4 DEF ServerStep, DataUndisturbed, BudgetInv, clientVars, fileVars
<1>5. CASE ClientStep
  BY <1>3, <1>5, WriteFaultsGrow DEF ClientStep, DataUndisturbed
<1>6. CASE NetworkStep
  BY <1>0, <1>6 DEF NetworkStep, NetworkDisorder, DataUndisturbed, BudgetInv, clientVars, fileVars
<1>7. CASE UNCHANGED vars
  BY <1>7 DEF vars, linkVars, clientVars, fileVars, DataUndisturbed
<1> QED BY <1>4, <1>5, <1>6, <1>7 DEF Next, Terminated

\* An undisturbed send.
LEMMA Arrives ==
  ASSUME Inv, NEW p, SendToClient(p), clientOpen, DataUndisturbed, DataUndisturbed'
  PROVE  toClient' = Append(toClient, p)
<1>1. PICK f \in Fates : dataFaults' = dataFaults + Cost(f) /\ toClient' = Put(toClient, p, f)
  BY DEF SendToClient
<1>2. f = "sent"
  BY <1>1 DEF Cost, Fates, DataUndisturbed
<1> QED BY <1>1, <1>2 DEF Put

\* What a stored packet holds and how long it is sent.
LEMMA StoredExact ==
  ASSUME Inv, ServerCopyInv, serverState # "FILENAME", NEW s \in Nat, NEW slot, slot = SlotOf(serverWindow, s)
  PROVE  /\ slot \in Slot
         /\ Exact(slot)
         /\ slot.seq \in Nat /\ slot.seq <= seqNum
         /\ slot.seq \in Blocks => slot.len = PduLen(slot.seq) /\ StoredLen(slot.seq) = slot.len
         /\ slot.seq = NBlocks + 1 => finished
<1>1. /\ slot \in Slot /\ slot.seq < serverWindow.current
  BY ServerReady, SlotOfType
<1>2. slot.seq \in Nat
  BY <1>1 DEF Slot
<1>3. SlotExact(slot)
  BY SlotIndex, ServerReady DEF SlotOf, ServerCopyInv, ServerStored
<1>4. /\ seqNum \in Nat /\ blocksRead \in 0..NBlocks /\ seqNum = blocksRead + 1 /\ NBlocks \in Nat
      /\ \A i \in 1..(seqNum - 1) : StoredLen(i) = PduLen(i)
  BY FileAssumption DEF Inv, CounterInv, ServerCopyInv, ServerCounted
<1>5. CASE finished
  <2>1. serverWindow.current = seqNum + 1 /\ seqNum = NBlocks + 1
    BY <1>4, <1>5 DEF ServerCopyInv, ServerStored, ServerCounted
  <2>2. slot.seq \in Blocks => slot.seq \in 1..(seqNum - 1)
    BY <1>2, <1>4, <2>1 DEF Blocks
  <2> QED BY <1>1, <1>2, <1>3, <1>4, <1>5, <2>1, <2>2 DEF SlotExact
<1>6. CASE ~finished
  <2>1. serverWindow.current = seqNum
    BY <1>6 DEF ServerCopyInv, ServerStored
  <2>2. slot.seq \in Blocks => slot.seq \in 1..(seqNum - 1)
    BY <1>1, <1>2, <1>4, <2>1 DEF Blocks
  <2>3. slot.seq <= seqNum /\ slot.seq # NBlocks + 1
    BY <1>1, <1>2, <1>4, <2>1
  <2> QED BY <1>1, <1>2, <1>3, <1>4, <2>2, <2>3 DEF SlotExact
<1> QED BY <1>5, <1>6

\* What a stored packet carries when it is sent at the length of its number.
LEMMA StoredPduExact ==
  ASSUME Inv, ServerCopyInv, serverState # "FILENAME", NEW s \in Nat, NEW slot, slot = SlotOf(serverWindow, s),
         NEW flag \in {"SREJ_RETRAN", "DATA_TIMEOUT"}
  PROVE  PduExact(StoredPdu(slot, flag, StoredLen(slot.seq), TRUE))
<1> DEFINE p == StoredPdu(slot, flag, StoredLen(slot.seq), TRUE)
<1>1. /\ slot \in Slot
      /\ Exact(slot)
      /\ slot.seq \in Nat
      /\ slot.seq \in Blocks => slot.len = PduLen(slot.seq) /\ StoredLen(slot.seq) = slot.len
  BY StoredExact
<1>2. /\ p.flag = flag /\ p.seq = slot.seq /\ p.len = StoredLen(slot.seq)
      /\ p.block = Content(slot, StoredLen(slot.seq))
  BY DEF StoredPdu
<1> HIDE DEF p
<1>3. ASSUME slot.seq \in Blocks
      PROVE  p.block = slot.block /\ p.len = PduLen(slot.seq)
  <2>1. slot.len \in Int
    <3>1. slot.len \in PacketLens \cup {0}
      BY <1>1 DEF Slot
    <3> QED BY <3>1, FileAssumption DEF PacketLens, HeaderLen, DataPacketLen
  <2> QED BY <1>1, <1>2, <1>3, <2>1 DEF Content
<1>4. Exact(p)
  BY <1>1, <1>2, <1>3 DEF Exact
<1>5. p.seq \in Blocks => p.len = PduLen(p.seq)
  BY <1>2, <1>3
<1> QED BY <1>4, <1>5 DEF PduExact, p

\* The channel to the server only loses packets.
Drained ==
  \/ toServer' \in {toServer, << >>}
  \/ toServer # << >> /\ toServer' = Tail(toServer)

LEMMA DrainedHasNoSrej ==
  ASSUME Inv, Drained,
         \A i \in 1..Len(toServer) : toServer[i].flag # "SREJ"
  PROVE  \A i \in 1..Len(toServer') : toServer'[i].flag # "SREJ"
<1>1. toServer \in Seq(HonestAck(expected, clientState))
  BY ClientReady
<1>2. CASE toServer' = toServer
  BY <1>2
<1>3. CASE toServer' = << >>
  BY <1>3, EmptySeq
<1>4. CASE toServer' = Tail(toServer) /\ toServer # << >>
  <2>1. /\ Len(toServer') = Len(toServer) - 1 /\ Len(toServer) \in Nat
        /\ \A i \in 1..Len(toServer') : toServer'[i] = toServer[i + 1]
    BY <1>1, <1>4, HeadTailProperties, LenProperties
  <2> QED BY <2>1
<1> QED BY <1>2, <1>3, <1>4 DEF Drained

\* A step of the server that sends nothing.
LEMMA FlowKeeps ==
  ASSUME Inv, Flowing, serverState # "FILENAME", UNCHANGED clientVars,
         UNCHANGED <<toClient, seqNum, finished>>, Drained
  PROVE  Flowing'
<1>1. \A i \in 1..Len(toServer') : toServer'[i].flag # "SREJ"
  BY DrainedHasNoSrej DEF Flowing
<1>2. clientState = "FILENAME" => Answered
  BY DEF Flowing
<1>3. expected' = expected /\ clientState' = clientState
  BY DEF clientVars
<1> QED BY <1>1, <1>2, <1>3 DEF Flowing, Answered

\* A step of the server that sends a packet.
LEMMA FlowSends ==
  ASSUME Inv, Flowing, serverState # "FILENAME", UNCHANGED clientVars, UNCHANGED toServer,
         NEW p, toClient' = Append(toClient, p), toClient' \in Seq(SentPdu(serverWindow'.current)),
         p.seq \in Nat, p.seq <= seqNum, PduExact(p),
         seqNum' = seqNum \/ (seqNum' = seqNum + 1 /\ p.ok /\ p.seq = seqNum),
         p.ok /\ p.seq = NBlocks + 1 /\ p.flag # "END_OF_FILE" => finished,
         finished' => finished \/ (p.ok /\ p.flag = "END_OF_FILE")
  PROVE  Flowing'
<1> DEFINE S == {toClient[i] : i \in 1..Len(toClient)} \cup {p}
           l == Len(toClient)
<1>1. expected' = expected /\ clientState' = clientState /\ expected \in Nat /\ seqNum \in Nat
  BY NumberFacts DEF clientVars
<1>2. toClient \in Seq(SentPdu(serverWindow.current))
  BY ClientReady
<1>3. /\ l \in Nat /\ Len(toClient') = l + 1 /\ toClient'[l + 1] = p
      /\ \A i \in 1..l : toClient'[i] = toClient[i]
  BY <1>2, AppendProperties, LenProperties
<1>4. toClient \in Seq(S) /\ p \in S
  BY <1>2, LenProperties
<1> HIDE DEF S
<1>5. finished => EofBefore(toClient, l + 1)
  BY DEF Flowing
<1>6. Stream(toClient', expected, seqNum')
  <2>1. Stream(toClient, expected, seqNum)
    BY DEF Flowing
  <2>2. seqNum' \in {seqNum, seqNum + 1} /\ (seqNum' = seqNum + 1 => p.ok /\ p.seq = seqNum)
    BY <1>1
  <2>3. p.ok /\ p.seq = NBlocks + 1 /\ p.flag # "END_OF_FILE" => EofBefore(toClient, l + 1)
    BY <1>5
  <2> DEFINE m == seqNum'
  <2>4. m \in {seqNum, seqNum + 1} /\ (m = seqNum + 1 => p.ok /\ p.seq = seqNum)
    BY <2>2
  <2> HIDE DEF m
  <2>5. Stream(Append(toClient, p), expected, m)
    BY <1>1, <1>4, <2>1, <2>3, <2>4, StreamAppend
  <2> QED BY <2>5 DEF m
<1>7. finished' => EofBefore(toClient', Len(toClient') + 1)
  BY <1>3, <1>5 DEF EofBefore
<1>8. clientState = "FILENAME" => Answered'
  <2>1. clientState = "FILENAME" => Answered
    BY DEF Flowing
  <2>2. toClient # << >> => 1 \in 1..l
    BY <1>2, <1>3, EmptySeq, LenProperties
  <2>3. toClient' # << >>
    BY <1>3
  <2> QED BY <1>3, <2>1, <2>2, <2>3 DEF Answered
<1> QED BY <1>1, <1>6, <1>7, <1>8 DEF Flowing

\* filename(): the answer is the first packet.
LEMMA FlowStarts ==
  ASSUME Inv, ServerCopyInv, Flowing, clientOpen, ServerFilename, UNCHANGED clientVars,
         DataUndisturbed, DataUndisturbed'
  PROVE  Flowing'
<1>1. /\ expected' = expected /\ clientState' = clientState /\ expected = 1
      /\ serverState = "FILENAME"
      /\ UNCHANGED <<seqNum, finished>>
  BY ClientReady DEF clientVars, ServerFilename
<1>2. toClient = << >>
  BY <1>1, PduTaken
<1>3. PICK flag \in {"FNAME_OK", "FNAME_BAD"} : SendToClient(CreatePdu(flag, 0, 0, HeaderLen))
  BY DEF ServerFilename
<1> DEFINE p == CreatePdu(flag, 0, 0, HeaderLen)
<1>4. p.ok /\ p.seq = 0 /\ p.flag = flag
  BY DEF CreatePdu
<1>5. toClient' = Append(toClient, p)
  BY <1>3, Arrives
<1> HIDE DEF p
<1>6. /\ Len(toClient') = 1 /\ toClient'[1] = p /\ toClient' # << >>
  BY <1>2, <1>5
<1>7. seqNum = 1 /\ ~finished
  BY <1>1 DEF ServerCopyInv, ServerStored
<1>8. PduExact(p)
  BY <1>4, FileAssumption DEF PduExact, Exact, Blocks
<1>9. Stream(toClient', 1, 1)
  BY <1>4, <1>6, <1>8, FileAssumption DEF Stream, InTurn
<1>10. Answered'
  BY <1>4, <1>6 DEF Answered
<1>11. \A i \in 1..Len(toServer') : toServer'[i].flag # "SREJ"
  BY EmptySeq DEF Flowing, ServerFilename, ServerExits, ServerCloses
<1> QED BY <1>1, <1>7, <1>9, <1>10, <1>11 DEF Flowing

LEMMA FlowQuiet ==
  ASSUME Inv, Flowing, UNCHANGED clientVars, NEW idle,
         \/ SendDataWindowFull \/ SendDataReadError \/ (SendEof /\ finished)
         \/ GiveUpOnAck \/ AckTimer(idle) \/ AckCorrupted \/ AckEof \/ AckFinal \/ AckData
         \/ GiveUpOnEof \/ EofTimer(idle) \/ EofAnswered
  PROVE  Flowing'
<1> USE DEF ServerExits, ServerCloses, ServerReceives, Drained
<1>1. CASE SendDataWindowFull BY <1>1, FlowKeeps DEF SendDataWindowFull, linkVars
<1>2. CASE SendDataReadError BY <1>2, FlowKeeps DEF SendDataReadError
<1>3. CASE SendEof /\ finished BY <1>3, FlowKeeps DEF SendEof
<1>4. CASE GiveUpOnAck BY <1>4, FlowKeeps DEF GiveUpOnAck
<1>5. CASE AckTimer(idle) BY <1>5, FlowKeeps DEF AckTimer
<1>6. CASE AckCorrupted BY <1>6, FlowKeeps DEF AckCorrupted, TakesAck
<1>7. CASE AckEof BY <1>7, FlowKeeps DEF AckEof, TakesAck
<1>8. CASE AckFinal BY <1>8, FlowKeeps DEF AckFinal, TakesAck
<1>9. CASE AckData BY <1>9, FlowKeeps DEF AckData, TakesAck
<1>10. CASE GiveUpOnEof BY <1>10, FlowKeeps DEF GiveUpOnEof
<1>11. CASE EofTimer(idle) BY <1>11, FlowKeeps DEF EofTimer
<1>12. CASE EofAnswered
  <2>1. /\ serverState = "EOF_POLL" /\ toServer # << >>
        /\ UNCHANGED <<toClient, seqNum, finished>>
        /\ toServer' \in {Tail(toServer), << >>}
    BY <1>12 DEF EofAnswered
  <2> QED BY <2>1, FlowKeeps
<1> QED
  BY <1>1, <1>2, <1>3, <1>4, <1>5, <1>6, <1>7, <1>8, <1>9, <1>10, <1>11, <1>12

LEMMA FlowNew ==
  ASSUME Inv, Inv', ServerCopyInv, Flowing, clientOpen, UNCHANGED clientVars,
         DataUndisturbed, DataUndisturbed', (SendEof /\ ~finished) \/ SendBlock
  PROVE  Flowing'
<1>1. /\ seqNum \in Nat /\ blocksRead \in 0..NBlocks /\ seqNum = blocksRead + 1 /\ NBlocks \in Nat
  BY FileAssumption DEF Inv, CounterInv, ServerCopyInv, ServerCounted
<1>2. toClient' \in Seq(SentPdu(serverWindow'.current))
  BY ClientReady DEF Inv, SafeInv, ChannelInv
<1>3. CASE SendEof /\ ~finished
  <2> DEFINE p == CreatePdu("END_OF_FILE", seqNum, 0, HeaderLen + 1)
  <2>1. /\ serverState = "SEND_DATA" /\ blocksRead = NBlocks /\ SendToClient(p)
        /\ UNCHANGED <<toServer, seqNum>>
    BY <1>3 DEF SendEof
  <2>2. p.ok /\ p.seq = seqNum /\ p.flag = "END_OF_FILE"
    BY DEF CreatePdu
  <2>3. toClient' = Append(toClient, p)
    BY <2>1, Arrives
  <2> HIDE DEF p
  <2>4. PduExact(p)
    BY <1>1, <2>1, <2>2 DEF PduExact, Exact, Blocks
  <2> QED BY <1>1, <1>2, <2>1, <2>2, <2>3, <2>4, FlowSends
<1>4. CASE SendBlock
  <2> DEFINE p == CreatePdu("DATA", seqNum, blocksRead', HeaderLen + BlockLen(blocksRead'))
  <2>1. /\ serverState = "SEND_DATA" /\ blocksRead < NBlocks /\ SendToClient(p)
        /\ blocksRead' = seqNum /\ seqNum' = seqNum + 1
        /\ UNCHANGED <<toServer, finished>>
    BY <1>1, <1>4 DEF SendBlock
  <2>2. p.ok /\ p.seq = seqNum /\ p.flag = "DATA" /\ p.block = seqNum /\ p.len = PduLen(seqNum)
    BY <2>1 DEF CreatePdu, PduLen
  <2>3. toClient' = Append(toClient, p)
    BY <2>1, Arrives
  <2> HIDE DEF p
  <2>4. PduExact(p)
    BY <1>1, <2>1, <2>2 DEF PduExact, Exact
  <2>5. p.seq # NBlocks + 1
    BY <1>1, <2>1, <2>2
  <2> QED BY <1>1, <1>2, <2>1, <2>2, <2>3, <2>4, <2>5, FlowSends
<1> QED BY <1>3, <1>4

LEMMA FlowAgain ==
  ASSUME Inv, Inv', ServerCopyInv, Flowing, clientOpen, UNCHANGED clientVars,
         DataUndisturbed, DataUndisturbed', TimeoutOnAck \/ ResendEof
  PROVE  Flowing'
<1>1. toClient' \in Seq(SentPdu(serverWindow'.current))
  BY ClientReady DEF Inv, SafeInv, ChannelInv
<1>2. CASE TimeoutOnAck
  <2> DEFINE slot == SlotOf(serverWindow, serverWindow.lower)
             len  == StoredLen(slot.seq)
             p    == StoredPdu(slot, "DATA_TIMEOUT", len, TRUE)
  <2>1. /\ serverState = "TIMEOUT_ON_ACK"
        /\ UNCHANGED <<seqNum, finished>>
        /\ IF len = 0
           THEN toServer' = << >> /\ toClient' = toClient
           ELSE SendToClient(p) /\ toServer' = toServer
    BY <1>2 DEF TimeoutOnAck, ServerExits, ServerCloses
  <2>2. CASE len = 0
    BY <2>1, <2>2, FlowKeeps DEF Drained
  <2>3. CASE len # 0
    <3>1. toClient' = Append(toClient, p)
      BY <2>1, <2>3, Arrives
    <3>2. /\ slot.seq \in Nat /\ slot.seq <= seqNum
          /\ slot.seq = NBlocks + 1 => finished
      BY <2>1, NumberFacts, StoredExact
    <3>3. PduExact(p)
      BY <2>1, NumberFacts, StoredPduExact
    <3>4. p.seq = slot.seq
      BY DEF StoredPdu
    <3> HIDE DEF p, slot, len
    <3> QED BY <1>1, <2>1, <2>3, <3>1, <3>2, <3>3, <3>4, FlowSends
  <2> QED BY <2>2, <2>3
<1>3. CASE ResendEof
  <2> DEFINE slot == SlotOf(serverWindow, lastSeqNum)
  <2>1. /\ serverState = "WAIT_ON_EOF_ACK"
        /\ UNCHANGED <<seqNum, finished>>
        /\ IF eofLen = 0
           THEN toServer' = << >> /\ toClient' = toClient
           ELSE /\ \E ok \in BOOLEAN : SendToClient(StoredPdu(slot, slot.flag, eofLen, ok))
                /\ toServer' = toServer
    BY <1>3 DEF ResendEof, ServerExits, ServerCloses
  <2>2. CASE eofLen = 0
    BY <2>1, <2>2, FlowKeeps DEF Drained
  <2>3. CASE eofLen # 0
    <3>1. PICK ok \in BOOLEAN : SendToClient(StoredPdu(slot, slot.flag, eofLen, ok))
      BY <2>1, <2>3
    <3> DEFINE p == StoredPdu(slot, slot.flag, eofLen, ok)
    <3>2. toClient' = Append(toClient, p)
      BY <3>1, Arrives
    <3>3. finished
      BY <2>3 DEF ServerCopyInv, ServerCounted
    <3>4. seqNum \in Nat /\ lastSeqNum = seqNum /\ seqNum = NBlocks + 1 /\ NBlocks \in Nat
      BY <3>3, FileAssumption DEF Inv, CounterInv, ServerCopyInv, ServerCounted
    <3>5. slot.seq = seqNum
      BY <2>1, <3>3, <3>4 DEF ServerCopyInv, ServerStored
    <3>6. p.seq = slot.seq
      BY DEF StoredPdu
    <3> HIDE DEF p, slot
    <3>7. PduExact(p)
      BY <3>4, <3>5, <3>6 DEF PduExact, Exact, Blocks
    <3>8. toServer' = toServer
      BY <2>1, <2>3
    <3> QED BY <1>1, <2>1, <3>2, <3>3, <3>4, <3>5, <3>6, <3>7, <3>8, FlowSends
  <2> QED BY <2>2, <2>3
<1> QED BY <1>2, <1>3

LEMMA ServerFlows ==
  ASSUME Inv, Inv', ServerCopyInv, ClientCopyInv, NEW idle, ServerNext(idle), UNCHANGED clientVars,
         DataUndisturbed, DataUndisturbed'
  PROVE  ClientCopyInv'
<1>1. clientOpen' => clientOpen
  BY DEF Inv, OpenInv, clientVars
<1>2. ASSUME clientOpen PROVE Flowing'
  <2>1. Flowing
    BY <1>2 DEF ClientCopyInv
  <2>2. ~AckSrej
    <3> SUFFICES ASSUME AckSrej PROVE FALSE
      OBVIOUS
    <3>1. toServer # << >> /\ Head(toServer).flag = "SREJ"
      BY DEF AckSrej, TakesAck
    <3>2. toServer \in Seq(HonestAck(expected, clientState))
      BY ClientReady
    <3>3. 1 \in 1..Len(toServer) /\ Head(toServer) = toServer[1]
      BY <3>1, <3>2, EmptySeq, LenProperties, HeadTailProperties
    <3> QED BY <2>1, <3>1, <3>3 DEF Flowing
  <2>3. finished \/ ~finished
    OBVIOUS
  <2> QED
    BY <1>2, <2>1, <2>2, <2>3, FlowStarts, FlowQuiet, FlowNew, FlowAgain
       DEF ServerNext, ServerSends, ServerHearsAck
<1> QED BY <1>1, <1>2 DEF ClientCopyInv, Copied, clientVars, fileVars

\* The blocks copied so far, as the abstract copy writes them.
LEMMA CopiedIsFile ==
  ASSUME NEW n \in 0..NBlocks
  PROVE  /\ SubSeq(Copy!File, 1, n) = Copied(n)
         /\ n = NBlocks => Copied(n) = Copy!File
<1>1. n \in Nat /\ NBlocks \in Nat
  BY FileAssumption
<1>2. Copy!File = [b \in 1..NBlocks |-> FileChunk(b)]
  BY DEF Copy!File, Copy!FileChunk, Copy!BlockLen, Copy!Blocks, FileChunk, BlockLen
<1> DEFINE File == Copy!File
<1>3. File \in Seq({FileChunk(b) : b \in 1..NBlocks}) /\ Len(File) = NBlocks
      /\ \A b \in 1..NBlocks : File[b] = FileChunk(b)
  BY <1>1, <1>2
<1> HIDE DEF File
<1>4. SubSeq(File, 1, n) = [b \in 1..n |-> File[b]]
  BY <1>1, <1>3 DEF SubSeq
<1>5. SubSeq(File, 1, n) = Copied(n)
  BY <1>1, <1>3, <1>4 DEF Copied
<1> QED BY <1>2, <1>5 DEF Copied, File

LEMMA CopiedAppend ==
  ASSUME NEW n \in Nat
  PROVE  /\ Append(Copied(n), FileChunk(n + 1)) = Copied(n + 1)
         /\ Len(Copied(n)) = n
<1> DEFINE S == {FileChunk(b) : b \in 1..(n + 1)}
<1>1. Copied(n) \in Seq(S) /\ Len(Copied(n)) = n /\ FileChunk(n + 1) \in S
  BY DEF Copied
<1>2. Copied(n + 1) \in Seq(S) /\ Len(Copied(n + 1)) = n + 1
  BY DEF Copied
<1> HIDE DEF S
<1> DEFINE new == Append(Copied(n), FileChunk(n + 1))
<1>3. /\ new \in Seq(S) /\ Len(new) = n + 1
      /\ new[n + 1] = FileChunk(n + 1)
      /\ \A i \in 1..n : new[i] = Copied(n)[i]
  BY <1>1, AppendProperties
<1> HIDE DEF new
<1>4. \A i \in 1..(n + 1) : new[i] = Copied(n + 1)[i]
  BY <1>3 DEF Copied
<1>5. new = Copied(n + 1)
  BY <1>2, <1>3, <1>4, SeqEqual
<1> QED BY <1>1, <1>5 DEF new

\* An RR or EOF_ACK under way is no SREJ.
LEMMA AckIsNoSrej ==
  ASSUME Inv, NEW flag \in {"RR", "EOF_ACK"}, NEW num, SendToServer(CreateAck(flag, num)),
         \A i \in 1..Len(toServer) : toServer[i].flag # "SREJ"
  PROVE  \A i \in 1..Len(toServer') : toServer'[i].flag # "SREJ"
<1> DEFINE p == CreateAck(flag, num)
<1>1. p.flag # "SREJ" /\ FlipBits(p).flag # "SREJ"
  BY DEF CreateAck, FlipBits
<1>2. toServer \in Seq(HonestAck(expected, clientState))
  BY ClientReady
<1>3. toServer' = toServer \/ \E q \in {p, FlipBits(p)} : toServer' = Append(toServer, q)
  BY DEF SendToServer, Put
<1> HIDE DEF p
<1>4. ASSUME NEW q \in {p, FlipBits(p)}, toServer' = Append(toServer, q)
      PROVE  \A i \in 1..Len(toServer') : toServer'[i].flag # "SREJ"
  <2>1. /\ Len(toServer) \in Nat /\ Len(toServer') = Len(toServer) + 1
        /\ toServer'[Len(toServer) + 1] = q
        /\ \A i \in 1..Len(toServer) : toServer'[i] = toServer[i]
    BY <1>2, <1>4, AppendProperties, LenProperties
  <2>2. q.flag # "SREJ"
    BY <1>1
  <2> SUFFICES ASSUME NEW i \in 1..Len(toServer') PROVE toServer'[i].flag # "SREJ"
    OBVIOUS
  <2>3. i \in 1..Len(toServer) \/ i = Len(toServer) + 1
    BY <2>1
  <2> QED BY <2>1, <2>2, <2>3
<1> QED BY <1>3, <1>4

\* What rcopy finds at the head of its socket.
LEMMA FlowHead ==
  ASSUME Inv, Flowing, toClient # << >>, Len(output) <= NBlocks, clientState # "WRITE"
  PROVE  LET p == Head(toClient) IN
         /\ toClient[1] = p /\ p.seq \in Nat
         /\ p.ok => /\ p.seq <= expected
                    /\ p.seq \in Blocks => p.block = p.seq /\ p.len = PduLen(p.seq)
                    /\ p.flag = "END_OF_FILE" <=> p.seq = NBlocks + 1
         /\ expected = Len(output) + 1 /\ Len(output) \in 0..NBlocks
         /\ \A i \in 1..Len(toClient) : toClient[i].seq \in Nat
<1>1. /\ toClient \in Seq(SentPdu(serverWindow.current))
      /\ expected \in Nat /\ 1 <= expected /\ Len(output) = expected - 1
  BY ClientReady DEF ClientInv, Taken
<1>2. /\ Head(toClient) = toClient[1] /\ Len(toClient) \in Nat /\ 1 \in 1..Len(toClient)
  BY <1>1, HeadTailProperties, LenProperties, EmptySeq
<1>3. \A i \in 1..Len(toClient) : toClient[i].seq \in Nat
  BY <1>1, ElementOfSeq DEF SentPdu, DataPdu
<1>4. seqNum \in Nat /\ NBlocks \in Nat
  BY NumberFacts, FileAssumption
<1>5. toClient[1].ok => /\ Exact(toClient[1])
                        /\ toClient[1].seq \in Blocks => toClient[1].len = PduLen(toClient[1].seq)
                        /\ toClient[1].seq <= expected
                        /\ toClient[1].seq = NBlocks + 1 => toClient[1].flag = "END_OF_FILE"
  BY <1>1, <1>2, <1>3, <1>4, StreamHead DEF Flowing
<1> QED BY <1>1, <1>2, <1>3, <1>4, <1>5 DEF Exact

\* rcopy takes a packet that it did not expect, or the one it did.
LEMMA FlowTaken ==
  ASSUME Inv, Flowing, toClient # << >>, Len(output) <= NBlocks, UNCHANGED serverVars,
         clientState # "WRITE",
         toClient' = Tail(toClient), clientState' # "FILENAME",
         expected' \in Nat, expected <= expected',
         Head(toClient).ok => Head(toClient).seq < expected' /\ Head(toClient).flag # "END_OF_FILE",
         \A i \in 1..Len(toServer') : toServer'[i].flag # "SREJ"
  PROVE  Flowing'
<1>1. toClient \in Seq(SentPdu(serverWindow.current)) /\ expected \in Nat
  BY ClientReady DEF ClientInv
<1>2. /\ toClient[1] = Head(toClient)
      /\ \A i \in 1..Len(toClient) : toClient[i].seq \in Nat
  BY FlowHead
<1>3. seqNum' = seqNum /\ finished' = finished /\ seqNum \in Nat
  BY NumberFacts DEF serverVars
<1> DEFINE d == expected'
<1>4. d \in Nat /\ expected <= d /\ (toClient[1].ok => toClient[1].seq < d /\ toClient[1].flag # "END_OF_FILE")
  BY <1>2
<1> HIDE DEF d
<1>5. /\ Stream(Tail(toClient), d, seqNum)
      /\ EofBefore(toClient, Len(toClient) + 1) => EofBefore(Tail(toClient), Len(Tail(toClient)) + 1)
  BY <1>1, <1>2, <1>3, <1>4, StreamTail DEF Flowing
<1> QED BY <1>3, <1>5 DEF Flowing, d

\* Steps of rcopy that write nothing.
LEMMA ClientKeeps ==
  ASSUME ClientCopyInv, UNCHANGED <<output, serverState>>, clientState # "FINISHED",
         clientState' \notin {"FINISHED", "BUFFER", "FLUSH", "WRITE"}, clientOpen' => Flowing'
  PROVE  ClientCopyInv' /\ CopyStep
<1>1. ClientCopyInv'
  BY DEF ClientCopyInv, Copied
<1>2. CopyStep
  BY DEF CopyStep
<1> QED BY <1>1, <1>2

LEMMA IdleFlows ==
  ASSUME Inv, Inv', ClientCopyInv, UNCHANGED serverVars, NEW idle,
         FilenameTimer(idle) \/ FilenameAnswered \/ FileOk \/ DataTimer \/ DataCorrupted
  PROVE  ClientCopyInv' /\ CopyStep
<1>1. /\ clientOpen => Flowing
      /\ Len(output) <= NBlocks
      /\ serverState' = serverState /\ seqNum' = seqNum /\ finished' = finished
      /\ expected \in Nat /\ 1 <= expected
  BY ClientReady DEF ClientCopyInv, serverVars, ClientInv
<1> USE DEF ClientExits, ClientCloses, fileVars
<1>2. CASE FilenameTimer(idle) BY <1>1, <1>2, ClientKeeps DEF FilenameTimer
<1>3. CASE DataTimer BY <1>1, <1>3, ClientKeeps DEF DataTimer
<1>4. CASE FilenameAnswered
  <2>1. /\ clientState = "FILENAME" /\ toClient # << >>
        /\ UNCHANGED <<expected, output, toServer>>
    BY <1>4 DEF FilenameAnswered
  <2>2. Flowing
    BY <1>1, <2>1 DEF Inv, OpenInv, ClientRunning
  <2>3. serverState # "FILENAME"
    BY <2>1, PduTaken
  <2>4. /\ Head(toClient).ok /\ Head(toClient).seq = 0
        /\ Head(toClient).flag # "END_OF_FILE"
    <3>1. Answered
      BY <2>1, <2>2, <2>3 DEF Flowing
    <3>2. NBlocks + 1 # 0
      BY FileAssumption
    <3> QED BY <1>1, <2>1, <2>2, <3>1, <3>2, FlowHead DEF Answered
  <2>5. \/ clientState' = "NO_FILE" /\ clientOpen' = FALSE
        \/ clientState' = "FILE_OK" /\ toClient' = Tail(toClient)
    BY <1>4, <2>4 DEF FilenameAnswered, ClientReceives
  <2>6. CASE clientState' = "NO_FILE" /\ clientOpen' = FALSE
    BY <1>1, <2>1, <2>6, ClientKeeps
  <2>7. CASE clientState' = "FILE_OK" /\ toClient' = Tail(toClient)
    <3>1. Flowing'
      <4>1. expected' \in Nat /\ expected <= expected' /\ Head(toClient).seq < expected'
        BY <1>1, <2>1, <2>4
      <4>2. \A i \in 1..Len(toServer') : toServer'[i].flag # "SREJ"
        BY <2>1, <2>2 DEF Flowing
      <4> QED BY <1>1, <2>1, <2>2, <2>4, <2>7, <4>1, <4>2, FlowTaken
    <3> QED BY <1>1, <2>1, <2>7, <3>1, ClientKeeps
  <2> QED BY <2>5, <2>6, <2>7
<1>5. CASE FileOk
  <2>1. clientState = "FILE_OK" /\ UNCHANGED <<expected, output, toServer>>
    BY <1>5 DEF FileOk
  <2>2. \/ clientState' = "OPEN_ERROR" /\ clientOpen' = FALSE
        \/ clientState' = "RECV_DATA" /\ UNCHANGED <<clientOpen, toClient>>
    BY <1>5 DEF FileOk
  <2>3. clientOpen' => Flowing'
    BY <1>1, <2>1, <2>2 DEF Flowing
  <2> QED BY <1>1, <2>1, <2>2, <2>3, ClientKeeps
<1>6. CASE DataCorrupted
  <2>1. /\ clientState = "RECV_DATA" /\ clientState' = clientState /\ clientOpen' = clientOpen
        /\ toClient # << >> /\ ~Head(toClient).ok /\ toClient' = Tail(toClient)
        /\ UNCHANGED <<expected, output, toServer>>
    BY <1>6 DEF DataCorrupted, clientVars, ClientReceives, ClientCopyInv
  <2>2. Flowing
    BY <1>1, <2>1 DEF Inv, OpenInv, ClientRunning
  <2>3. Flowing'
    <3>1. expected' \in Nat /\ expected <= expected'
      BY <1>1, <2>1
    <3>2. \A i \in 1..Len(toServer') : toServer'[i].flag # "SREJ"
      BY <2>1, <2>2 DEF Flowing
    <3> QED BY <1>1, <2>1, <2>2, <3>1, <3>2, FlowTaken
  <2> QED BY <1>1, <2>1, <2>3, ClientKeeps
<1> QED BY <1>2, <1>3, <1>4, <1>5, <1>6

\* recv_data() takes the next block, or has the whole file.
LEMMA RecvFlows ==
  ASSUME Inv, Inv', ClientCopyInv, UNCHANGED serverVars,
         RecvEof \/ RecvInOrder \/ RecvAhead \/ RecvOld
  PROVE  ClientCopyInv' /\ CopyStep
<1> DEFINE p == Head(toClient)
<1>1. /\ clientState = "RECV_DATA" /\ toClient # << >> /\ p.ok
      /\ Len(output) <= NBlocks
      /\ serverState' = serverState
      /\ output = Copied(Len(output))
  BY DEF RecvEof, RecvInOrder, RecvAhead, RecvOld, Takes, ClientCopyInv, serverVars
<1>2. Flowing
  BY <1>1 DEF Inv, OpenInv, ClientRunning, ClientCopyInv
<1>3. /\ p.seq \in Nat /\ p.seq <= expected
      /\ p.seq \in Blocks => p.block = p.seq /\ p.len = PduLen(p.seq)
      /\ p.flag = "END_OF_FILE" <=> p.seq = NBlocks + 1
      /\ expected = Len(output) + 1 /\ Len(output) \in 0..NBlocks
  BY <1>1, <1>2, FlowHead
<1>4. \A i \in 1..Len(toServer) : toServer[i].flag # "SREJ"
  BY <1>2 DEF Flowing
<1> USE DEF fileVars
<1> HIDE DEF p
<1>5. CASE RecvEof
  <2>1. /\ p.seq = expected /\ p.flag = "END_OF_FILE"
        /\ output' = output
        /\ clientState' = "FINISHED" /\ clientOpen' = FALSE
    BY <1>5 DEF RecvEof, ClientExits, ClientCloses, p
  <2>2. Len(output) = NBlocks
    BY <1>3, <2>1, FileAssumption
  <2>3. ClientCopyInv'
    BY <2>1, <2>2 DEF ClientCopyInv, Copied
  <2>4. output' = Copy!File
    BY <1>1, <1>3, <2>1, <2>2, CopiedIsFile
  <2>5. CopyStep
    BY <1>1, <2>1, <2>4 DEF CopyStep, Copy!CopyNext, Copy!ClientReports
  <2> QED BY <2>3, <2>5
<1>6. CASE RecvInOrder
  <2>1. /\ p.seq = expected /\ p.flag # "END_OF_FILE"
        /\ unwritten' = Written(p.block, p.len)
        /\ output' = output
        /\ expected' = expected + 1
        /\ clientState' = "WRITE" /\ clientOpen' = clientOpen
        /\ toClient' = Tail(toClient)
        /\ SendToServer(CreateAck("RR", p.seq + 1))
    BY <1>1, <1>6 DEF RecvInOrder, ClientReceives, p
  <2> DEFINE n == Len(output)
  <2>2. n \in Nat /\ n + 1 \in 0..NBlocks /\ p.seq = n + 1
    BY <1>3, <2>1, FileAssumption
  <2>3. Written(p.block, p.len) = FileChunk(n + 1)
    <3>1. p.seq \in Blocks
      BY <2>2 DEF Blocks
    <3>2. BlockLen(n + 1) \in Int
      BY FileAssumption DEF BlockLen
    <3> QED BY <1>3, <2>2, <3>1, <3>2 DEF Written, FileChunk, PduLen, HeaderLen
  <2>4. Flowing'
    <3>1. expected' \in Nat /\ expected <= expected' /\ p.seq < expected'
      BY <1>3, <2>1
    <3>2. \A i \in 1..Len(toServer') : toServer'[i].flag # "SREJ"
      BY <1>4, <2>1, AckIsNoSrej
    <3> QED BY <1>1, <1>2, <2>1, <3>1, <3>2, FlowTaken DEF p
  <2>5. n < NBlocks
    BY <2>2, FileAssumption
  <2>6. ClientCopyInv'
    BY <1>1, <2>1, <2>3, <2>4, <2>5 DEF ClientCopyInv, Copied
  <2>7. CopyStep
    BY <1>1, <2>1 DEF CopyStep
  <2> QED BY <2>6, <2>7
<1>7. CASE RecvAhead
  BY <1>3, <1>7 DEF RecvAhead, p
<1>8. CASE RecvOld
  <2>1. /\ p.seq < expected /\ expected' = expected /\ output' = output
        /\ clientState' = "RECV_DATA" /\ clientOpen' = clientOpen
        /\ toClient' = Tail(toClient)
        /\ SendToServer(CreateAck("RR", p.seq + 1))
    BY <1>1, <1>8 DEF RecvOld, ClientReceives, p
  <2>2. Flowing'
    <3>1. expected' \in Nat /\ expected <= expected' /\ p.seq < expected' /\ p.flag # "END_OF_FILE"
      BY <1>3, <2>1, FileAssumption
    <3>2. \A i \in 1..Len(toServer') : toServer'[i].flag # "SREJ"
      BY <1>4, <2>1, AckIsNoSrej
    <3> QED BY <1>1, <1>2, <2>1, <3>1, <3>2, FlowTaken DEF p
  <2> QED BY <1>1, <2>1, <2>2, ClientKeeps
<1> QED BY <1>5, <1>6, <1>7, <1>8

\* The write() that follows appends it.
LEMMA WriteFlows ==
  ASSUME Inv, ClientCopyInv, UNCHANGED serverVars, WriteAcknowledged, writeFaults' = 0
  PROVE  ClientCopyInv' /\ CopyStep
<1> DEFINE n == Len(output)
<1>1. /\ clientState = "WRITE" /\ clientState' = "RECV_DATA"
      /\ Writes(<<unwritten>>)
      /\ UNCHANGED <<expected, clientOpen, toClient, toServer, serverState, seqNum, finished>>
  BY DEF WriteAcknowledged, linkVars, serverVars
<1>2. /\ output \in Seq(Chunk) /\ writeFaults \in 0..MaxWriteFaults /\ unwritten \in Chunk
      /\ NBlocks \in Nat
  BY ClientReady, FileAssumption DEF ClientInv
<1>3. n \in Nat /\ output = Copied(n) /\ n < NBlocks /\ unwritten = FileChunk(n + 1)
  BY <1>1, <1>2, LenProperties DEF ClientCopyInv
<1>4. output' = Append(output, unwritten)
  <2>1. <<unwritten>> \in Seq(Chunk)
    BY <1>2
  <2>2. output' = output \o <<unwritten>>
    BY <1>1, <1>2, <2>1, WritesType
  <2> QED BY <1>2, <2>2
<1> HIDE DEF n
<1>5. output' = Copied(n + 1) /\ Len(output') = n + 1
  <2>1. Append(Copied(n), FileChunk(n + 1)) = Copied(n + 1)
    BY <1>3, CopiedAppend
  <2>2. n + 1 \in Nat
    BY <1>3
  <2>3. Len(Copied(n + 1)) = n + 1
    BY <2>2, CopiedAppend
  <2> QED BY <1>3, <1>4, <2>1, <2>3
<1>6. ClientCopyInv'
  <2>1. clientOpen' => Flowing'
    BY <1>1 DEF ClientCopyInv, Flowing
  <2> QED BY <1>1, <1>2, <1>3, <1>5, <2>1 DEF ClientCopyInv
<1>7. CopyStep
  <2>1. n + 1 \in 0..NBlocks /\ n + 1 \in n..NBlocks
    BY <1>2, <1>3
  <2>2. output' = SubSeq(Copy!File, 1, n + 1)
    BY <1>5, <2>1, CopiedIsFile
  <2> QED BY <1>1, <2>1, <2>2 DEF CopyStep, Copy!CopyNext, Copy!CopyBlocks, n
<1> QED BY <1>6, <1>7

LEMMA ClientFlows ==
  ASSUME Inv, Inv', ClientCopyInv, NEW idle, ClientNext(idle), UNCHANGED serverVars,
         DataUndisturbed'
  PROVE  ClientCopyInv' /\ CopyStep
<1>1. clientState \notin {"BUFFER", "FLUSH"}
  BY DEF ClientCopyInv
<1>2. ~(BufferOld \/ BufferInOrder \/ BufferAhead)
  BY <1>1 DEF BufferOld, BufferInOrder, BufferAhead, Takes
<1>3. ~(FlushEof \/ FlushAll \/ FlushHole)
  BY <1>1 DEF FlushEof, FlushAll, FlushHole, Flushes
<1> QED
  BY <1>2, <1>3, IdleFlows, RecvFlows, WriteFlows
     DEF ClientNext, ClientReceivesData, DataUndisturbed

\* The server reports only what rcopy has reported.
LEMMA ServerCopies ==
  ASSUME Inv, Inv', NEW idle, ServerNext(idle), UNCHANGED clientVars
  PROVE  CopyStep
<1>1. UNCHANGED <<output, clientState>>
  BY DEF clientVars, fileVars
<1>2. serverState # "FINISHED"
  BY DEF ServerNext, ServerFilename, ServerSends, SendDataWindowFull, SendDataReadError, SendEof,
         SendBlock, TimeoutOnAck, GiveUpOnAck, AckTimer, ServerHearsAck, AckCorrupted, AckSrej,
         AckEof, AckFinal, AckData, TakesAck, GiveUpOnEof, ResendEof, EofTimer, EofAnswered
<1>3. CASE serverState' = "FINISHED"
  <2>1. clientState' = "FINISHED"
    BY <1>3 DEF Inv, SafeInv, OrderInv, EndsAgree
  <2> QED BY <1>1, <1>3, <2>1 DEF CopyStep, Copy!CopyNext, Copy!ServerReports
<1>4. CASE serverState' # "FINISHED"
  BY <1>1, <1>2, <1>4 DEF CopyStep
<1> QED BY <1>3, <1>4

LEMMA CopyInvInit == Init => CopyInv
<1> SUFFICES ASSUME Init PROVE CopyInv
  OBVIOUS
<1>1. ServerCopyInv
  BY ServerCopyInit
<1>2. /\ output = << >> /\ clientState = "FILENAME" /\ serverState = "FILENAME"
      /\ toClient = << >> /\ toServer = << >> /\ expected = 1 /\ seqNum = 1 /\ finished = FALSE
  BY DEF Init, LinkInit, ServerInit, ClientInit
<1>3. Stream(<< >>, 1, 1)
  BY DEF Stream
<1>4. Flowing
  BY <1>2, <1>3 DEF Flowing
<1>5. output = Copied(0) /\ Len(output) = 0
  BY <1>2 DEF Copied
<1> QED BY <1>1, <1>2, <1>4, <1>5, FileAssumption DEF CopyInv, ClientCopyInv

\* While no data packet is disturbed each step keeps the invariant and is one
\* of the abstract copy.
LEMMA CopyInvStep ==
  ASSUME Inv, Inv', CopyInv, [Next]_vars
  PROVE  CopyInv' /\ (DataUndisturbed' => CopyStep)
<1>1. ServerCopyInv'
  BY ServerCopyStep DEF CopyInv
<1>2. ASSUME DataUndisturbed' PROVE ClientCopyInv' /\ CopyStep
  <2>1. DataUndisturbed /\ ServerCopyInv /\ ClientCopyInv
    BY <1>2, UndisturbedBefore DEF CopyInv
  <2>2. CASE ServerStep
    BY <1>2, <2>1, <2>2, ServerFlows, ServerCopies DEF ServerStep
  <2>3. CASE ClientStep
    BY <1>2, <2>1, <2>3, ClientFlows DEF ClientStep
  <2>4. CASE NetworkStep
    BY <1>2, <2>4, ClientReady DEF NetworkStep, NetworkDisorder, DataUndisturbed, BudgetInv
  <2>5. CASE UNCHANGED vars
    BY <2>1, <2>5
       DEF vars, linkVars, serverVars, clientVars, fileVars, ClientCopyInv, Copied, Flowing,
           Answered, CopyStep
  <2> QED BY <2>2, <2>3, <2>4, <2>5 DEF Next, Terminated
<1> QED BY <1>1, <1>2 DEF CopyInv

LEMMA CopyInvariance == Spec => []CopyInv
<1>1. Inv /\ Inv' /\ CopyInv /\ [Next]_vars => CopyInv'
  BY CopyInvStep
<1> QED BY <1>1, CopyInvInit, Invariance, PTL DEF Spec

\* The two programs copy the file: as long as sendtoErr() neither drops nor
\* damages a packet to rcopy, the network neither swaps nor repeats one and no
\* write() fails, each step of theirs appends the next block, reports success in turn, or
\* leaves the copy alone, whatever happens to RRs and EOF_ACKs, however early
\* the timers of process_client() expire, and wherever either program stops.
THEOREM CopyReliable == Spec => CopiesWhileReliable
<1>1. Init => Copy!CopyInit
  BY DEF Init, ServerInit, ClientInit, Copy!CopyInit
<1>2. Inv /\ Inv' /\ CopyInv /\ [Next]_vars => [DataUndisturbed' => CopyStep]_vars
  BY CopyInvStep
<1> QED BY <1>1, <1>2, CopyInvariance, Invariance, PTL DEF Spec, CopiesWhileReliable

\* What rcopy reports as finished is the file, under the same condition.
THEOREM CopyExact == Spec => [](DataUndisturbed => CopyPrefix /\ CopyComplete)
<1>1. Inv /\ CopyInv => (DataUndisturbed => CopyPrefix /\ CopyComplete)
  <2> SUFFICES ASSUME Inv, CopyInv, DataUndisturbed PROVE CopyPrefix /\ CopyComplete
    OBVIOUS
  <2>1. Len(output) \in 0..NBlocks
    BY ClientReady, FileAssumption, LenProperties DEF CopyInv, ClientCopyInv, ClientInv
  <2> DEFINE n == Len(output)
  <2>2. output = Copied(n) /\ (clientState = "FINISHED" => n = NBlocks)
    BY DEF CopyInv, ClientCopyInv
  <2>3. n \in 0..NBlocks /\ n <= NBlocks
    BY <2>1, FileAssumption
  <2> HIDE DEF n
  <2>4. SubSeq(Copy!File, 1, n) = Copied(n) /\ (n = NBlocks => Copied(n) = Copy!File)
    BY <2>3, CopiedIsFile
  <2> QED BY <2>2, <2>3, <2>4 DEF n, CopyPrefix, CopyComplete
<1> QED BY <1>1, CopyInvariance, Invariance, PTL

=============================================================================

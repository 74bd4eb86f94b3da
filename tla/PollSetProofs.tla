---------------------------- MODULE PollSetProofs ----------------------------
(***************************************************************************)
(* Proofs about module PollSet, for any size of the table, any set of      *)
(* descriptors a process is started with and any number of attempts.       *)
(*                                                                         *)
(* The argument: the socket has the lowest free number when it is opened,  *)
(* and everything below it stays open (SocketInv).  Hence close() and      *)
(* socket() return the same number again, unless the old socket was        *)
(* descriptor 0 and stays open, and then the number grows; so the socket   *)
(* is the last entry poll() is given, and the table, new each time, names  *)
(* nothing else (TableInv).                                                *)
(***************************************************************************)
EXTENDS PollSet, FiniteSetTheorems, TLAPS

FileStates == {"RECV_DATA", "RECV_PACKET", "WAIT_ON_ACK", "RECV_ACK", "DONE"}

AttemptsInv == state = "START_STATE" => attempts < MaxAttempts

Empty ==
  /\ maxFileDescriptor = 0
  /\ sk_num = 0
  /\ descriptors = inherited
  /\ state \in {"START_STATE", "CHILD_FILENAME", "DONE"}

Filled ==
  /\ maxFileDescriptor = sk_num + 1
  /\ sk_num < currentPollSetSize
  /\ \A i \in 0..(currentPollSetSize - 1) :
       pollFileDescriptors[i] = IF i = sk_num THEN [fd |-> sk_num, events |-> "POLLIN"] ELSE Unused
  /\ state # "CHILD_FILENAME"

TableInv == Empty \/ Filled

\* The socket is not one the process was started with, and the lowest it
\* could be.
SocketInv ==
  /\ inherited \subseteq descriptors
  /\ Filled => /\ sk_num \in descriptors \ inherited
               /\ \A d \in 0..(sk_num - 1) : d \in descriptors

HeldInv ==
  IF state \in FileStates
  THEN \E file : descriptors \ inherited \subseteq {0, sk_num, file}
  ELSE descriptors \ inherited \subseteq {0, sk_num}

StdinInv ==
  /\ stdin # "closed" => 0 \in inherited
  /\ stdin = "hungup" => HangsUp

PollInv ==
  /\ PollSetTypeOK
  /\ AttemptsInv
  /\ TableInv
  /\ SocketInv
  /\ HeldInv
  /\ StdinInv

-----------------------------------------------------------------------------

\* What socket() and open() return.
LEMMA LowestFits ==
  ASSUME NEW open, NEW d \in Lowest(open)
  PROVE  /\ d \in 0..(OPEN_MAX - 1)
         /\ d \notin open
         /\ \A e \in 0..(d - 1) : e \in open
<1>1. d \in Free(open) /\ \A e \in Free(open) : d <= e
  BY DEF Lowest
<1>2. d \in 0..(OPEN_MAX - 1) /\ d \notin open
  BY <1>1 DEF Free
<1>3. ASSUME NEW e \in 0..(d - 1), e \notin open
      PROVE  FALSE
  <2>1. e \in Free(open)
    BY <1>2, <1>3, PollSetAssumption DEF Free
  <2>2. QED
    BY <2>1, <1>1, <1>2, <1>3, PollSetAssumption
<1>4. QED
  BY <1>2, <1>3

\* The table after setupPollSet() and addToPollSet(), which grows it when the
\* socket does not fit.
LEMMA TableFilled ==
  ASSUME PollSetTypeOK, NEW socket \in Nat, WaitsFor(socket),
         maxFileDescriptor <= socket + 1
  PROVE  /\ currentPollSetSize' \in Nat
         /\ maxFileDescriptor' = socket + 1
         /\ socket < currentPollSetSize'
         /\ pollFileDescriptors' \in [0..(currentPollSetSize' - 1) -> Entry]
         /\ \A i \in 0..(currentPollSetSize' - 1) :
              pollFileDescriptors'[i] =
                IF i = socket THEN [fd |-> socket, events |-> "POLLIN"] ELSE Unused
<1> DEFINE size == IF socket >= POLL_SET_SIZE THEN socket + POLL_SET_SIZE ELSE POLL_SET_SIZE
           blank == [i \in 0..(size - 1) |-> Unused]
           own == [fd |-> socket, events |-> "POLLIN"]
<1>1. POLL_SET_SIZE \in Nat \ {0}
  BY PollSetAssumption
<1>2. size \in Nat /\ socket < size /\ POLL_SET_SIZE <= size
  BY <1>1
<1>3. Grown(Fresh, socket + POLL_SET_SIZE) = [i \in 0..((socket + POLL_SET_SIZE) - 1) |-> Unused]
  BY DEF Grown, Fresh
<1>4. (IF socket >= SetUpSize THEN Grown(Fresh, size) ELSE Fresh) = blank
  BY <1>3 DEF SetUpSize, Fresh
<1>5. currentPollSetSize' = size
  BY DEF WaitsFor, SetUpSize
<1>6. maxFileDescriptor' = socket + 1
  BY DEF WaitsFor, PollSetTypeOK
<1>7. pollFileDescriptors' = [blank EXCEPT ![socket] = own]
  BY <1>4 DEF WaitsFor, SetUpSize
<1>8. own \in Entry /\ Unused \in Entry
  BY DEF Entry, Unused
<1> HIDE DEF size, own
<1>9. pollFileDescriptors' \in [0..(size - 1) -> Entry]
  BY <1>2, <1>7, <1>8
<1>10. \A i \in 0..(size - 1) : pollFileDescriptors'[i] = IF i = socket THEN own ELSE Unused
  BY <1>2, <1>7
<1>11. QED
  BY <1>2, <1>5, <1>6, <1>9, <1>10 DEF own

\* A program that has opened a socket, the lowest that was free in open.
LEMMA SocketOpened ==
  ASSUME PollInv, NEW open \in SUBSET descriptors,
         inherited \subseteq open, open \ inherited \subseteq {0},
         NEW socket \in Lowest(open), WaitsFor(socket),
         maxFileDescriptor <= socket + 1,
         sk_num' = socket, inherited' = inherited, state' # "CHILD_FILENAME",
         open \cup {socket} \subseteq descriptors'
  PROVE  /\ sk_num' \in Nat
         /\ currentPollSetSize' \in Nat /\ maxFileDescriptor' \in Nat
         /\ pollFileDescriptors' \in [0..(currentPollSetSize' - 1) -> Entry]
         /\ Filled'
         /\ SocketInv'
<1>1. /\ socket \in 0..(OPEN_MAX - 1)
      /\ socket \notin open
      /\ \A e \in 0..(socket - 1) : e \in open
  BY LowestFits
<1>2. socket \in Nat
  BY <1>1, PollSetAssumption
<1>3. /\ currentPollSetSize' \in Nat
      /\ maxFileDescriptor' = socket + 1
      /\ socket < currentPollSetSize'
      /\ pollFileDescriptors' \in [0..(currentPollSetSize' - 1) -> Entry]
      /\ \A i \in 0..(currentPollSetSize' - 1) :
           pollFileDescriptors'[i] =
             IF i = socket THEN [fd |-> socket, events |-> "POLLIN"] ELSE Unused
  BY <1>2, TableFilled DEF PollInv
<1>4. Filled'
  BY <1>3 DEF Filled
<1>5. SocketInv'
  BY <1>1 DEF SocketInv
<1>6. sk_num' \in Nat /\ maxFileDescriptor' \in Nat
  BY <1>2, <1>3
<1>7. QED
  BY <1>3, <1>4, <1>5, <1>6

\* A step that opens nothing and leaves the table alone.
LEMMA TableKept ==
  ASSUME PollInv, UNCHANGED <<program, fdVars, tableVars>>,
         state' \in RcopyStates \cup ChildStates \cup Receiving \cup {"DONE"},
         state' # "CHILD_FILENAME" \/ state' = state,
         Filled \/ state' \in {state, "DONE"},
         state \in FileStates => state' \in FileStates,
         state' = "START_STATE" => state' = state \/ attempts < MaxAttempts,
         queued' \subseteq Nat,
         stdin' \in {"closed", "quiet", "input", "hungup"}, StdinInv'
  PROVE  PollInv'
<1>1. PollSetTypeOK'
  BY DEF PollInv, PollSetTypeOK, fdVars, tableVars
<1>2. AttemptsInv'
  BY DEF PollInv, AttemptsInv, fdVars
<1>3. Filled => Filled'
  BY DEF Filled, fdVars, tableVars
<1>4. ~Filled => Empty'
  BY DEF PollInv, TableInv, Empty, fdVars, tableVars
<1>5. TableInv'
  BY <1>3, <1>4 DEF TableInv
<1>6. Filled' => Filled
  BY <1>4 DEF PollInv, PollSetTypeOK, Empty, Filled, fdVars, tableVars
<1>7. SocketInv'
  BY <1>6 DEF PollInv, SocketInv, fdVars
<1>8. HeldInv'
  <2>1. descriptors' = descriptors /\ inherited' = inherited /\ sk_num' = sk_num
    BY DEF fdVars
  <2>2. \E file : descriptors \ inherited \subseteq {0, sk_num, file}
    BY DEF PollInv, HeldInv
  <2>3. state \notin FileStates => descriptors \ inherited \subseteq {0, sk_num}
    BY DEF PollInv, HeldInv
  <2>4. CASE state' \in FileStates
    BY <2>1, <2>2, <2>4 DEF HeldInv
  <2>5. CASE state' \notin FileStates
    BY <2>1, <2>3, <2>5 DEF HeldInv
  <2>6. QED
    BY <2>4, <2>5
<1>9. QED
  BY <1>1, <1>2, <1>5, <1>7, <1>8 DEF PollInv

-----------------------------------------------------------------------------

LEMMA InvInit == Init => PollInv
<1> SUFFICES ASSUME Init PROVE PollInv
  OBVIOUS
<1>1. PollSetTypeOK
  BY PollSetAssumption DEF Init, PollSetTypeOK, RcopyStates, ChildStates
<1>2. AttemptsInv
  BY PollSetAssumption DEF Init, AttemptsInv
<1>3. Empty
  BY DEF Init, Empty
<1>4. SocketInv /\ HeldInv /\ StdinInv
  BY DEF Init, SocketInv, HeldInv, StdinInv, FileStates, Filled
<1>5. QED
  BY <1>1, <1>2, <1>3, <1>4 DEF PollInv, TableInv

LEMMA InvStartState == PollInv /\ StartState => PollInv'
<1> SUFFICES ASSUME PollInv, StartState PROVE PollInv'
  OBVIOUS
<1>1. PICK socket \in Lowest(Closed) :
        /\ sk_num' = socket
        /\ descriptors' = HeldAfter(socket)
        /\ queued' = (queued \cap HeldAfter(socket)) \ {socket}
        /\ WaitsFor(socket)
  BY DEF StartState, Reusable
<1>2. /\ state = "START_STATE" /\ state' = "FILENAME" /\ attempts' = attempts + 1
      /\ program' = program /\ inherited' = inherited /\ stdin' = stdin
  BY DEF StartState
<1>3. /\ sk_num \in Nat /\ maxFileDescriptor \in Nat /\ attempts \in 0..MaxAttempts
      /\ inherited \subseteq descriptors /\ descriptors \subseteq 0..(OPEN_MAX - 1)
      /\ descriptors \ inherited \subseteq {0, sk_num}
  BY <1>2 DEF PollInv, PollSetTypeOK, SocketInv, HeldInv, FileStates
<1>4. /\ socket \in 0..(OPEN_MAX - 1)
      /\ socket \notin Closed
      /\ \A e \in 0..(socket - 1) : e \in Closed
  BY <1>1, LowestFits
<1>5. inherited \subseteq Closed /\ Closed \subseteq descriptors /\ Closed \ inherited \subseteq {0}
  <2>1. CASE Empty
    BY <2>1, <1>3 DEF Empty, Closed
  <2>2. CASE Filled
    BY <2>2, <1>3 DEF Closed, PollInv, SocketInv
  <2>3. QED
    BY <2>1, <2>2 DEF PollInv, TableInv
<1>6. maxFileDescriptor <= socket + 1
  <2>1. CASE Empty
    BY <2>1, <1>4, PollSetAssumption DEF Empty
  <2>2. CASE Filled
    <3>1. maxFileDescriptor = sk_num + 1 /\ \A d \in 0..(sk_num - 1) : d \in Closed
      BY <2>2, <1>3 DEF Closed, PollInv, SocketInv, Filled
    <3>2. socket >= sk_num
      BY <3>1, <1>3, <1>4, PollSetAssumption
    <3>3. QED
      BY <3>1, <3>2, <1>3, <1>4, PollSetAssumption
  <2>3. QED
    BY <2>1, <2>2 DEF PollInv, TableInv
<1>7. descriptors' = Closed \cup {socket}
  BY <1>1 DEF HeldAfter
<1>8. /\ sk_num' \in Nat
      /\ currentPollSetSize' \in Nat /\ maxFileDescriptor' \in Nat
      /\ pollFileDescriptors' \in [0..(currentPollSetSize' - 1) -> Entry]
      /\ Filled'
      /\ SocketInv'
  BY <1>1, <1>2, <1>5, <1>6, <1>7, SocketOpened
<1>9. attempts' \in 0..MaxAttempts
  BY <1>2, <1>3, PollSetAssumption DEF PollInv, AttemptsInv
<1>10. descriptors' \subseteq 0..(OPEN_MAX - 1) /\ queued' \subseteq Nat
  BY <1>1, <1>3, <1>4, <1>5, <1>7 DEF PollInv, PollSetTypeOK
<1>11. PollSetTypeOK'
  BY <1>2, <1>8, <1>9, <1>10 DEF PollInv, PollSetTypeOK, RcopyStates
<1>12. AttemptsInv' /\ StdinInv'
  BY <1>2 DEF PollInv, AttemptsInv, StdinInv
<1>13. HeldInv'
  BY <1>1, <1>2, <1>5, <1>7 DEF HeldInv, FileStates
<1>14. QED
  BY <1>8, <1>11, <1>12, <1>13 DEF PollInv, TableInv

LEMMA InvChildFilename == PollInv /\ ChildFilename => PollInv'
<1> SUFFICES ASSUME PollInv, ChildFilename PROVE PollInv'
  OBVIOUS
<1>1. PICK socket \in Lowest(descriptors) :
        /\ sk_num' = socket
        /\ WaitsFor(socket)
        /\ \/ /\ state' = "DONE"
              /\ descriptors' = descriptors \cup {socket}
           \/ /\ state' = "WAIT_ON_ACK"
              /\ \E file \in Lowest(descriptors \cup {socket}) :
                   descriptors' = descriptors \cup {socket, file}
  BY DEF ChildFilename
<1>2. /\ state = "CHILD_FILENAME"
      /\ UNCHANGED <<program, inherited, attempts, queued, stdin>>
  BY DEF ChildFilename
<1>3. Empty /\ descriptors = inherited /\ maxFileDescriptor = 0
  BY <1>2 DEF PollInv, TableInv, Empty, Filled
<1>4. PICK file \in 0..(OPEN_MAX - 1) : descriptors' \subseteq descriptors \cup {socket, file}
  BY <1>1, LowestFits
<1>5. socket \in 0..(OPEN_MAX - 1) /\ socket \in Nat
  BY <1>1, LowestFits, PollSetAssumption
<1>6. /\ sk_num' \in Nat
      /\ currentPollSetSize' \in Nat /\ maxFileDescriptor' \in Nat
      /\ pollFileDescriptors' \in [0..(currentPollSetSize' - 1) -> Entry]
      /\ Filled'
      /\ SocketInv'
  <2>1. descriptors \cup {socket} \subseteq descriptors'
    BY <1>1
  <2>2. maxFileDescriptor <= socket + 1
    BY <1>3, <1>5
  <2>3. state' # "CHILD_FILENAME" /\ inherited' = inherited
    BY <1>1, <1>2
  <2>4. QED
    BY <1>1, <1>3, <2>1, <2>2, <2>3, SocketOpened
<1>7. PollSetTypeOK'
  <2>1. descriptors' \subseteq 0..(OPEN_MAX - 1)
    BY <1>4, <1>5 DEF PollInv, PollSetTypeOK
  <2>2. state' \in {"DONE", "WAIT_ON_ACK"}
    BY <1>1
  <2>3. QED
    BY <1>2, <1>6, <2>1, <2>2 DEF PollInv, PollSetTypeOK, ChildStates
<1>8. AttemptsInv' /\ StdinInv'
  BY <1>1, <1>2 DEF PollInv, AttemptsInv, StdinInv
<1>9. HeldInv'
  <2>1. state' \in FileStates
    BY <1>1 DEF FileStates
  <2>2. descriptors' \ inherited' \subseteq {0, sk_num', file}
    BY <1>1, <1>2, <1>3, <1>4
  <2>3. QED
    BY <2>1, <2>2 DEF HeldInv
<1>10. QED
  BY <1>6, <1>7, <1>8, <1>9 DEF PollInv, TableInv

LEMMA InvFileOk == PollInv /\ FileOk => PollInv'
<1> SUFFICES ASSUME PollInv, FileOk PROVE PollInv'
  OBVIOUS
<1>1. PICK file \in Lowest(descriptors) : descriptors' = descriptors \cup {file}
  BY DEF FileOk
<1>2. /\ state = "FILE_OK" /\ state' = "RECV_DATA"
      /\ UNCHANGED <<program, inherited, sk_num, attempts, tableVars, queued, stdin>>
  BY DEF FileOk
<1>3. file \in 0..(OPEN_MAX - 1)
  BY LowestFits
<1>4. PollSetTypeOK'
  BY <1>1, <1>2, <1>3 DEF PollInv, PollSetTypeOK, tableVars, RcopyStates
<1>5. AttemptsInv' /\ StdinInv'
  BY <1>2 DEF PollInv, AttemptsInv, StdinInv
<1>6. Filled /\ Filled'
  <2>1. Filled
    BY <1>2 DEF PollInv, TableInv, Empty
  <2>2. QED
    BY <2>1, <1>2 DEF Filled, tableVars
<1>7. SocketInv'
  BY <1>1, <1>2, <1>6 DEF PollInv, SocketInv
<1>8. HeldInv'
  <2>1. descriptors \ inherited \subseteq {0, sk_num}
    BY <1>2 DEF PollInv, HeldInv, FileStates
  <2>2. descriptors' \ inherited' \subseteq {0, sk_num', file}
    BY <2>1, <1>1, <1>2
  <2>3. QED
    BY <2>2, <1>2 DEF HeldInv, FileStates
<1>9. QED
  BY <1>4, <1>5, <1>6, <1>7, <1>8 DEF PollInv, TableInv

\* The steps that wait, receive or end.
LEMMA InvOthers ==
  ASSUME PollInv,
         \/ FilenamePolls \/ FilenameReceives \/ DataPolls \/ DataReceives
         \/ ChildPolls \/ ChildReceives \/ GivesUp \/ Arrives \/ StdinChanges
  PROVE  PollInv'
<1> USE DEF RcopyStates, ChildStates, Receiving, FileStates
<1>1. /\ state \in RcopyStates \cup ChildStates \cup Receiving \cup {"DONE"}
      /\ queued \subseteq Nat /\ stdin \in {"closed", "quiet", "input", "hungup"} /\ StdinInv
      /\ sk_num \in Nat /\ descriptors \subseteq Nat
  <2>1. 0..(OPEN_MAX - 1) \subseteq Nat
    BY PollSetAssumption
  <2>2. QED
    BY <2>1 DEF PollInv, PollSetTypeOK
<1>2. Filled \/ state \in {"START_STATE", "CHILD_FILENAME", "DONE"}
  BY DEF PollInv, TableInv, Empty
<1>3. stdin' = stdin /\ inherited' = inherited => StdinInv'
  BY <1>1 DEF StdinInv
<1>4. CASE FilenamePolls
  BY <1>1, <1>2, <1>3, <1>4, TableKept DEF FilenamePolls, PollCall, fdVars
<1>5. CASE FilenameReceives
  BY <1>1, <1>2, <1>3, <1>5, TableKept DEF FilenameReceives, RecvBuf, fdVars
<1>6. CASE DataPolls
  BY <1>1, <1>2, <1>3, <1>6, TableKept DEF DataPolls, PollCall, fdVars
<1>7. CASE DataReceives
  BY <1>1, <1>2, <1>3, <1>7, TableKept DEF DataReceives, RecvBuf, fdVars
<1>8. CASE ChildPolls
  BY <1>1, <1>2, <1>3, <1>8, TableKept DEF ChildPolls, PollCall, fdVars
<1>9. CASE ChildReceives
  BY <1>1, <1>2, <1>3, <1>9, TableKept DEF ChildReceives, RecvBuf, fdVars
<1>10. CASE GivesUp
  BY <1>1, <1>2, <1>3, <1>10, TableKept DEF GivesUp, fdVars
<1>11. CASE Arrives
  BY <1>1, <1>2, <1>3, <1>11, TableKept DEF Arrives, fdVars
<1>12. CASE StdinChanges
  <2>1. StdinInv'
    BY <1>1, <1>12 DEF StdinChanges, StdinInv, fdVars
  <2>2. QED
    BY <1>1, <1>2, <1>12, <2>1, TableKept DEF StdinChanges
<1>13. QED
  BY <1>4, <1>5, <1>6, <1>7, <1>8, <1>9, <1>10, <1>11, <1>12

LEMMA InvStutter == PollInv /\ UNCHANGED vars => PollInv'
BY DEF vars, fdVars, tableVars, PollInv, PollSetTypeOK, AttemptsInv, TableInv,
       Empty, Filled, SocketInv, HeldInv, StdinInv

LEMMA InvNext == PollInv /\ [Next]_vars => PollInv'
BY InvStartState, InvChildFilename, InvFileOk, InvOthers, InvStutter DEF Next, Exited

LEMMA InvHolds == Spec => []PollInv
BY InvInit, InvNext, PTL DEF Spec

-----------------------------------------------------------------------------

\* Every variable keeps its type, growPollSet() included: the table has as
\* many entries as currentPollSetSize says, each a descriptor and its events.
THEOREM PollSetTypeCorrect == Spec => []PollSetTypeOK
<1>1. PollInv => PollSetTypeOK
  BY DEF PollInv
<1>2. QED
  BY <1>1, InvHolds, PTL

\* poll() stays in the table and looks at the socket, for any size of the
\* table and any descriptors the process was started with.
THEOREM StaysInTable == Spec => []InTable
<1>1. PollInv => InTable
  <2> SUFFICES ASSUME PollInv PROVE InTable
    OBVIOUS
  <2>1. sk_num \in Nat /\ maxFileDescriptor \in Nat /\ currentPollSetSize \in Nat
    BY DEF PollInv, PollSetTypeOK
  <2>2. CASE Empty
    BY <2>1, <2>2 DEF Empty, InTable, Polling
  <2>3. CASE Filled
    BY <2>1, <2>3 DEF Filled, InTable
  <2>4. QED
    BY <2>2, <2>3 DEF PollInv, TableInv
<1>2. QED
  BY <1>1, InvHolds, PTL

-----------------------------------------------------------------------------
(* Readiness *)

\* While standard input does not hang up only the socket reports anything.
LEMMA OnlySocketReports ==
  ASSUME ~HangsUp, PollInv, Filled, Reporting # {}
  PROVE  sk_num \in queued
<1>1. PICK i \in DOMAIN pollFileDescriptors :
        i < maxFileDescriptor /\ Revents(pollFileDescriptors[i])
  BY DEF Reporting
<1>2. /\ i \in 0..(currentPollSetSize - 1) /\ sk_num \in Nat /\ currentPollSetSize \in Nat
  BY <1>1 DEF PollInv, PollSetTypeOK
<1>3. sk_num \in descriptors \ inherited /\ \A d \in 0..(sk_num - 1) : d \in descriptors
  BY DEF PollInv, SocketInv
<1>4. 0 \in descriptors
  BY <1>2, <1>3
<1>5. stdin # "hungup" /\ (stdin # "closed" => 0 \in inherited)
  BY DEF PollInv, StdinInv
<1>6. CASE i = sk_num
  <2>1. pollFileDescriptors[i].fd = sk_num
    BY <1>2, <1>6 DEF Filled
  <2>2. QED
    BY <1>1, <1>3, <1>5, <2>1 DEF Revents
<1>7. CASE i # sk_num
  <2>1. pollFileDescriptors[i] = [fd |-> 0, events |-> "none"]
    BY <1>2, <1>7 DEF Filled, Unused
  <2>2. QED
    BY <1>1, <1>4, <1>5, <2>1 DEF Revents
<1>8. QED
  BY <1>6, <1>7

LEMMA ReadyNext ==
  ASSUME ~HangsUp, PollInv, PollTellsReady, [Next]_vars
  PROVE  PollTellsReady'
<1> USE DEF Receiving
<1>1. ASSUME NEW from, NEW found, NEW expired, PollCall(from, found, expired), from \in Polling,
             \A s \in expired : s \notin Receiving
      PROVE  PollTellsReady'
  <2>1. Filled
    BY <1>1 DEF PollCall, PollInv, TableInv, Empty, Polling
  <2>2. Reporting # {} => sk_num \in queued
    BY <2>1, OnlySocketReports
  <2>3. QED
    BY <1>1, <2>2 DEF PollCall, PollTellsReady, fdVars
<1>2. ASSUME NEW from, NEW next, RecvBuf(from, next), \A s \in next : s \notin Receiving
      PROVE  PollTellsReady'
  BY <1>2 DEF RecvBuf, PollTellsReady
<1>3. CASE StartState
  BY <1>3 DEF StartState, PollTellsReady
<1>4. CASE FilenamePolls
  BY <1>1, <1>4 DEF FilenamePolls, Polling
<1>5. CASE FilenameReceives
  BY <1>2, <1>5 DEF FilenameReceives
<1>6. CASE FileOk
  BY <1>6 DEF FileOk, PollTellsReady
<1>7. CASE DataPolls
  BY <1>1, <1>7 DEF DataPolls, Polling
<1>8. CASE DataReceives
  BY <1>2, <1>8 DEF DataReceives
<1>9. CASE ChildFilename
  BY <1>9 DEF ChildFilename, PollTellsReady
<1>10. CASE ChildPolls
  BY <1>1, <1>10 DEF ChildPolls, Polling
<1>11. CASE ChildReceives
  BY <1>2, <1>11 DEF ChildReceives
<1>12. CASE GivesUp
  BY <1>12 DEF GivesUp, PollTellsReady
<1>13. CASE Arrives
  BY <1>13 DEF Arrives, PollTellsReady, fdVars
<1>14. CASE StdinChanges \/ Exited \/ UNCHANGED vars
  BY <1>14 DEF StdinChanges, Exited, vars, PollTellsReady, fdVars
<1>15. QED
  BY <1>3, <1>4, <1>5, <1>6, <1>7, <1>8, <1>9, <1>10, <1>11, <1>12, <1>13, <1>14 DEF Next

\* While standard input does not hang up, whoever goes on to recvfrom() finds
\* a packet there: pollCall() does what its comment says, whatever was left
\* open by earlier attempts.
THEOREM TellsReady == ASSUME ~HangsUp PROVE Spec => []PollTellsReady
<1>1. Init => PollTellsReady
  BY DEF Init, PollTellsReady, Receiving
<1>2. PollInv /\ PollTellsReady /\ [Next]_vars => PollTellsReady'
  BY ReadyNext
<1>3. QED
  BY <1>1, <1>2, InvHolds, PTL DEF Spec

-----------------------------------------------------------------------------
(* Descriptors *)

\* A set of at most three elements.
LEMMA SmallSet ==
  ASSUME NEW a, NEW b, NEW c, NEW S
  PROVE  /\ S \subseteq {a} => Cardinality(S) <= 1
         /\ S \subseteq {a, b} => Cardinality(S) <= 2
         /\ S \subseteq {a, b, c} => Cardinality(S) <= 3
         /\ S \subseteq {a, b, c} => Cardinality(S) \in Nat
<1>1. IsFiniteSet({a}) /\ Cardinality({a}) = 1
  BY FS_Singleton
<1>2. {a, b} = {a} \cup {b} /\ {a, b, c} = {a, b} \cup {c}
  OBVIOUS
<1>3. IsFiniteSet({a, b}) /\ Cardinality({a, b}) \in 0..2
  BY <1>1, <1>2, FS_AddElement
<1>4. IsFiniteSet({a, b, c}) /\ Cardinality({a, b, c}) \in 0..3
  BY <1>2, <1>3, FS_AddElement
<1>5. ASSUME NEW T, IsFiniteSet(T), S \subseteq T
      PROVE  Cardinality(S) \in Nat /\ Cardinality(S) <= Cardinality(T)
  BY <1>5, FS_Subset, FS_CardinalityType
<1>6. S \subseteq {a} => Cardinality(S) <= 1
  BY <1>1, <1>5
<1>7. S \subseteq {a, b} => Cardinality(S) <= 2
  BY <1>3, <1>5
<1>8. S \subseteq {a, b, c} => Cardinality(S) <= 3 /\ Cardinality(S) \in Nat
  BY <1>4, <1>5
<1>9. QED
  BY <1>6, <1>7, <1>8

\* Attempts use up no descriptors, however many there are.
THEOREM DescriptorsFew == Spec => []FewDescriptors
<1>1. PollInv => FewDescriptors
  <2> SUFFICES ASSUME PollInv PROVE FewDescriptors
    OBVIOUS
  <2> DEFINE held == descriptors \ inherited
  <2>1. CASE state \in FileStates
    <3>1. PICK file : held \subseteq {0, sk_num, file}
      BY <2>1 DEF PollInv, HeldInv
    <3>2. Cardinality(held) <= 3
      BY <3>1, SmallSet
    <3>3. 0 \in inherited => Cardinality(held) <= 2
      <4>1. 0 \in inherited => held \subseteq {sk_num, file}
        BY <3>1
      <4>2. QED
        BY <4>1, SmallSet
    <3>4. QED
      BY <2>1, <3>2, <3>3 DEF FewDescriptors, FileStates
  <2>2. CASE state \notin FileStates
    <3>1. held \subseteq {0, sk_num}
      BY <2>2 DEF PollInv, HeldInv
    <3>2. Cardinality(held) <= 2
      BY <3>1, SmallSet
    <3>3. 0 \in inherited => Cardinality(held) <= 1
      <4>1. 0 \in inherited => held \subseteq {sk_num}
        BY <3>1
      <4>2. QED
        BY <4>1, SmallSet
    <3>4. QED
      BY <2>2, <3>2, <3>3 DEF FewDescriptors, FileStates
  <2>3. QED
    BY <2>1, <2>2
<1>2. QED
  BY <1>1, InvHolds, PTL
=============================================================================

------------------------------- MODULE PollSet -------------------------------
(***************************************************************************)
(* The descriptors of a process and the table by which pollLib.c waits for *)
(* them: rcopy, which closes its socket, opens another and sets the table  *)
(* up again on every attempt, and a child of the server.                   *)
(*                                                                         *)
(* What a program waits for is a packet in its socket; what it then does   *)
(* is recvfrom(), which blocks if there is none.  What the packets say is  *)
(* left to Setup and Transfer.                                             *)
(***************************************************************************)
EXTENDS Integers, FiniteSets

CONSTANTS
  POLL_SET_SIZE,
  OPEN_MAX,       \* how many descriptors the system lets a process have
  Inherited,      \* the sets of descriptors a process may be started with
  MaxAttempts,    \* bound: sockets opened by rcopy (Setup's Attempts)
  HangsUp         \* the other end of standard input may go away

ASSUME PollSetAssumption ==
  /\ POLL_SET_SIZE \in Nat \ {0}
  /\ OPEN_MAX \in Nat
  /\ Inherited \subseteq SUBSET (0..(OPEN_MAX - 1))
  /\ MaxAttempts \in Nat \ {0}
  /\ HangsUp \in BOOLEAN

VARIABLES
  program,              \* "rcopy" or "child"
  state,
  inherited,            \* the descriptors it was started with
  descriptors,          \* those that are open
  sk_num,               \* its socket, 0 before the first
  attempts,
  pollFileDescriptors,  \* the table, a function on 0..(currentPollSetSize - 1)
  currentPollSetSize,
  maxFileDescriptor,
  queued,               \* sockets in which a packet is waiting
  stdin                 \* of descriptor 0, as it was inherited

fdVars == <<inherited, descriptors, sk_num, attempts>>

tableVars == <<pollFileDescriptors, currentPollSetSize, maxFileDescriptor>>

vars == <<program, state, fdVars, tableVars, queued, stdin>>

Polling == {"FILENAME", "FILENAME_AGAIN", "RECV_DATA", "WAIT_ON_ACK"}

RcopyStates == {"START_STATE", "FILENAME", "FILENAME_AGAIN", "FILE_OK", "RECV_DATA"}

ChildStates == {"CHILD_FILENAME", "WAIT_ON_ACK"}

\* In recvfrom()
Receiving == {"RECV_ANSWER", "RECV_PACKET", "RECV_ACK"}

Entry == [fd : Nat, events : {"none", "POLLIN"}]

PollSetTypeOK ==
  /\ program \in {"rcopy", "child"}
  /\ state \in RcopyStates \cup ChildStates \cup Receiving \cup {"DONE"}
  /\ inherited \in Inherited
  /\ descriptors \subseteq 0..(OPEN_MAX - 1)
  /\ sk_num \in Nat
  /\ attempts \in 0..MaxAttempts
  /\ currentPollSetSize \in Nat
  /\ maxFileDescriptor \in Nat
  /\ pollFileDescriptors \in [0..(currentPollSetSize - 1) -> Entry]
  /\ queued \subseteq Nat
  /\ stdin \in {"closed", "quiet", "input", "hungup"}

Init ==
  /\ \/ program = "rcopy" /\ state = "START_STATE"
     \/ program = "child" /\ state = "CHILD_FILENAME"
  /\ inherited \in Inherited
  /\ descriptors = inherited
  /\ sk_num = 0
  /\ attempts = 0
  /\ currentPollSetSize = 0
  /\ maxFileDescriptor = 0
  /\ pollFileDescriptors = [i \in 0..(currentPollSetSize - 1) |-> [fd |-> 0, events |-> "none"]]
  /\ queued = {}
  /\ stdin = IF 0 \in inherited THEN "quiet" ELSE "closed"

-----------------------------------------------------------------------------
(* Descriptors *)

Free(open) == (0..(OPEN_MAX - 1)) \ open

\* socket() and open() take the lowest number that is free, if one is.
Lowest(open) == {d \in Free(open) : \A e \in Free(open) : d <= e}

\* Seeded bug: nothing is closed.
ClosedNever == descriptors

\* start_state() closes the last socket, unless that was descriptor 0.
Closed == IF sk_num > 0 THEN descriptors \ {sk_num} ELSE descriptors

\* Seeded bug: the old socket is closed after the new one was opened.
ReusableLate == descriptors

\* What is open when start_state() asks for a socket.
Reusable == Closed

HeldAfter(socket) == Closed \cup {socket}

-----------------------------------------------------------------------------
(* setupPollSet() and addToPollSet() *)

Unused == [fd |-> 0, events |-> "none"]

\* Seeded bug: the table of the attempt before is used again.
FreshKept ==
  [i \in 0..(POLL_SET_SIZE - 1) |->
     IF i \in DOMAIN pollFileDescriptors THEN pollFileDescriptors[i] ELSE Unused]

\* A new table; the old one is not freed, maxFileDescriptor not reset.
Fresh == [i \in 0..(POLL_SET_SIZE - 1) |-> Unused]

\* Seeded bug: setupPollSet() forgets currentPollSetSize.
SetUpSizeKept == IF currentPollSetSize = 0 THEN POLL_SET_SIZE ELSE currentPollSetSize

SetUpSize == POLL_SET_SIZE

\* growPollSet() keeps the entries there are and zeroes the others.
Grown(table, size) ==
  [i \in 0..(size - 1) |-> IF i \in DOMAIN table THEN table[i] ELSE Unused]

WaitsFor(socket) ==
  LET size  == IF socket >= SetUpSize THEN socket + POLL_SET_SIZE ELSE SetUpSize
      table == IF socket >= SetUpSize THEN Grown(Fresh, size) ELSE Fresh
  IN  /\ currentPollSetSize' = size
      /\ maxFileDescriptor' =
           IF socket + 1 >= maxFileDescriptor THEN socket + 1 ELSE maxFileDescriptor
      /\ pollFileDescriptors' = [table EXCEPT ![socket] = [fd |-> socket, events |-> "POLLIN"]]

-----------------------------------------------------------------------------
(* pollCall() *)

\* poll() reports POLLIN where it is asked for; POLLHUP, and POLLNVAL for a
\* number that is not open, it reports in any case.
Revents(entry) ==
  \/ entry.events = "POLLIN" /\ entry.fd \in queued
  \/ entry.events = "POLLIN" /\ entry.fd = 0 /\ stdin = "input"
  \/ entry.fd = 0 /\ stdin = "hungup"
  \/ entry.fd \notin descriptors

\* The entries poll() is given, as far as they are in the table (InTable).
\* pollCall() returns the lowest that reports something, and no caller looks
\* at more than whether there was one.
Reporting ==
  {i \in DOMAIN pollFileDescriptors :
     i < maxFileDescriptor /\ Revents(pollFileDescriptors[i])}

\* In state from, pollCall() finds something, or its time is over.
PollCall(from, found, expired) ==
  /\ state = from
  /\ IF Reporting # {} THEN state' = found ELSE state' \in expired
  /\ UNCHANGED <<program, fdVars, tableVars, queued, stdin>>

\* recvfrom() returns once there is a packet.
RecvBuf(from, next) ==
  /\ state = from
  /\ sk_num \in queued
  /\ queued' \in {queued, queued \ {sk_num}}
  /\ state' \in next
  /\ UNCHANGED <<program, fdVars, tableVars, stdin>>

-----------------------------------------------------------------------------
(* rcopy *)

StartState ==
  /\ state = "START_STATE"
  /\ \E socket \in Lowest(Reusable) :
       /\ sk_num' = socket
       /\ descriptors' = HeldAfter(socket)
       /\ queued' = (queued \cap HeldAfter(socket)) \ {socket}
       /\ WaitsFor(socket)
  /\ attempts' = attempts + 1
  /\ state' = "FILENAME"
  /\ UNCHANGED <<program, inherited, stdin>>

\* filename() polls for a second, in processSelect, and then for ten.
FilenamePolls ==
  \/ PollCall("FILENAME", "FILENAME_AGAIN",
              IF attempts < MaxAttempts THEN {"START_STATE"} ELSE {"DONE"})
  \/ PollCall("FILENAME_AGAIN", "RECV_ANSWER", {"DONE"})

FilenameReceives == RecvBuf("RECV_ANSWER", {"FILENAME", "FILE_OK", "DONE"})

FileOk ==
  /\ state = "FILE_OK"
  /\ \E file \in Lowest(descriptors) : descriptors' = descriptors \cup {file}
  /\ state' = "RECV_DATA"
  /\ UNCHANGED <<program, inherited, sk_num, attempts, tableVars, queued, stdin>>

\* recv_data() and buffer()
DataPolls == PollCall("RECV_DATA", "RECV_PACKET", {"DONE"})

DataReceives == RecvBuf("RECV_PACKET", {"RECV_DATA", "DONE"})

-----------------------------------------------------------------------------
(* A child of the server *)

ChildFilename ==
  /\ state = "CHILD_FILENAME"
  /\ \E socket \in Lowest(descriptors) :
       /\ sk_num' = socket
       /\ WaitsFor(socket)
       /\ \/ /\ state' = "DONE"
             /\ descriptors' = descriptors \cup {socket}
          \/ /\ state' = "WAIT_ON_ACK"
             /\ \E file \in Lowest(descriptors \cup {socket}) :
                  descriptors' = descriptors \cup {socket, file}
  /\ UNCHANGED <<program, inherited, attempts, queued, stdin>>

\* processSelect() and wait_on_eof_ack()
ChildPolls == PollCall("WAIT_ON_ACK", "RECV_ACK", {"WAIT_ON_ACK"})

ChildReceives == RecvBuf("RECV_ACK", {"WAIT_ON_ACK", "DONE"})

\* There is no descriptor for the socket (socket() < 0), no file (open() < 0),
\* or the last retry is over, which is found out without polling.
GivesUp ==
  /\ \/ state = "START_STATE" /\ Free(Reusable) = {}
     \/ state = "CHILD_FILENAME" /\ Free(descriptors) = {}
     \/ state \in {"FILE_OK", "FILENAME", "WAIT_ON_ACK"}
  /\ state' = "DONE"
  /\ UNCHANGED <<program, fdVars, tableVars, queued, stdin>>

-----------------------------------------------------------------------------
(* The environment *)

\* A packet arrives in a socket, one that is not in use any more included.
Arrives ==
  /\ sk_num \in descriptors \ inherited
  /\ \E socket \in {sk_num} \cup ({0} \cap (descriptors \ inherited)) :
       queued' = queued \cup {socket}
  /\ UNCHANGED <<program, state, fdVars, tableVars, stdin>>

StdinChanges ==
  /\ stdin \in {"quiet", "input"}
  /\ stdin' \in {"quiet", "input"} \cup (IF HangsUp THEN {"hungup"} ELSE {})
  /\ UNCHANGED <<program, state, fdVars, tableVars, queued>>

Exited == state = "DONE" /\ UNCHANGED vars

Next ==
  \/ StartState \/ FilenamePolls \/ FilenameReceives \/ FileOk \/ DataPolls
  \/ DataReceives \/ ChildFilename \/ ChildPolls \/ ChildReceives \/ GivesUp
  \/ Arrives \/ StdinChanges \/ Exited

Spec == Init /\ [][Next]_vars

-----------------------------------------------------------------------------

\* poll() is never told to look beyond the table, although maxFileDescriptor
\* survives the tables of earlier attempts and growPollSet() goes by the
\* number of the socket, and what it looks at includes the socket: close()
\* comes before socket(), so that no attempt gets a lower number than the
\* table of an earlier one left behind.
InTable ==
  /\ maxFileDescriptor <= currentPollSetSize
  /\ state \in Polling => /\ sk_num < maxFileDescriptor
                         /\ pollFileDescriptors[sk_num] = [fd |-> sk_num, events |-> "POLLIN"]

\* "returns the socket number if one is ready for read" (pollLib.c): whoever
\* goes on to recvfrom() finds a packet there and does not block, whatever
\* else the process has inherited, left open or stored in the table.
PollTellsReady == state \in Receiving => sk_num \in queued

\* Attempts do not use up descriptors: besides what it was started with a
\* process has its socket, its file, and at most one socket more, when that
\* was opened as descriptor 0, however often it has tried.
FewDescriptors ==
  Cardinality(descriptors \ inherited) <=
    (IF 0 \in inherited THEN 1 ELSE 2)
    + (IF state \in {"RECV_DATA", "RECV_PACKET", "WAIT_ON_ACK", "RECV_ACK", "DONE"} THEN 1 ELSE 0)
=============================================================================

------------------------------- MODULE Setup -------------------------------
(***************************************************************************)
(* How a transfer comes about: rcopy.c from START_STATE to the first        *)
(* packet it takes in RECV_DATA, the receive and fork loop of server.c, and *)
(* the children it forks, as far as rcopy's attempts meet them.  Every      *)
(* attempt closes rcopy's socket and opens another, so that answers may     *)
(* come too late and children may be left without a peer.                   *)
(*                                                                          *)
(* Children are numbered in the order of their forks, sockets in the order  *)
(* rcopy opens them.  What a child does after filename() is cut down to     *)
(* what the rest of this module can see of it: which kinds of packets it    *)
(* sends, and when it ends; modules Server and Client have the details.     *)
(***************************************************************************)
EXTENDS Integers, Sequences

CONSTANTS
  MaxRetrans,     \* MAX_RETRANS of both programs
  Burst,          \* bound: DATA packets a child sends
  MaxUnderWay,    \* bound: packets under way to one socket
  MaxFaults,      \* bound: packets lost or flipped by sendtoErr
  MaxDuplicates   \* bound: FILENAME_INIT packets the network repeats

ASSUME SetupAssumption ==
  /\ MaxRetrans \in Nat
  /\ Burst \in Nat
  /\ MaxUnderWay \in Nat \ {0}
  /\ MaxFaults \in Nat
  /\ MaxDuplicates \in Nat

VARIABLES
  rcopyState,
  socket,         \* server->sk_num: the socket in use, 0 before the first
  retries,        \* the static retryCount of filename()
  peer,           \* server->address: 0 for the listening port, else a child
  inbox,          \* packets under way to the socket in use
  requests,       \* packets under way to the listening port
  children,       \* the processes forked so far
  serverState,    \* of the process that receives requests
  faults, duplicates

rcopyVars == <<rcopyState, socket, retries, peer>>

vars == <<rcopyVars, inbox, requests, children, serverState, faults, duplicates>>

HandshakeStates == {"START_STATE", "FILENAME", "FILE_OK"}

RcopyEnds == {"NO_SOCKET", "GAVE_UP", "NO_FILE", "OPEN_ERROR", "DONE"}

AnswerFlags == {"FNAME_OK", "FNAME_BAD", "DATA", "OTHER"}

Answer == [flag : AnswerFlags, from : Nat \ {0}, ok : BOOLEAN]

\* init: it is a FILENAME_INIT packet, not one of a transfer.
Request == [from : Nat, init : BOOLEAN, ok : BOOLEAN]

ChildEnds == {"REFUSED", "GONE"}

\* for, init: of the request it was forked for.  opened: open() succeeded.
\* sent: DATA packets.  heard: packets waiting in its socket.
Child == [state : {"FILENAME", "SERVING"} \cup ChildEnds, for : Nat,
          init : BOOLEAN, opened : BOOLEAN, sent : 0..Burst, heard : 0..MaxUnderWay,
          retries : 0..MaxRetrans]

SetupTypeOK ==
  /\ rcopyState \in HandshakeStates \cup {"RECV_DATA"} \cup RcopyEnds
  /\ socket \in Nat
  /\ retries \in 0..(MaxRetrans + 1)
  /\ peer \in 0..Len(children)
  /\ inbox \in Seq(Answer)
  /\ requests \in Seq(Request)
  /\ children \in Seq(Child)
  /\ serverState \in {"LISTENING", "EXITED"}
  /\ faults \in 0..MaxFaults
  /\ duplicates \in 0..MaxDuplicates

SetupInit ==
  /\ rcopyState = "START_STATE"
  /\ socket = 0
  /\ retries = 0
  /\ peer = 0
  /\ inbox = << >>
  /\ requests = << >>
  /\ children = << >>
  /\ serverState = "LISTENING"
  /\ faults = 0
  /\ duplicates = 0

-----------------------------------------------------------------------------
(* safeSendto: a packet is sent as it is, or a fault is spent on it. *)

\* chan after a send of p, flipped or not
Sent(chan, p) ==
  \/ chan' = Append(chan, p) /\ UNCHANGED faults
  \/ /\ faults < MaxFaults
     /\ faults' = faults + 1
     /\ chan' \in {chan, Append(chan, [p EXCEPT !.ok = FALSE])}

\* Child c turns into r.
Becomes(c, r) == children' = [children EXCEPT ![c] = r]

\* Child c sends to the socket it was forked for, which may be closed.
AnswerFrom(c, flag) ==
  IF children[c].for = socket /\ rcopyState \notin RcopyEnds
  THEN /\ Len(inbox) < MaxUnderWay
       /\ Sent(inbox, [flag |-> flag, from |-> c, ok |-> TRUE])
  ELSE UNCHANGED <<inbox, faults>>

Hearing(child) ==
  IF child.state \in ChildEnds THEN child ELSE [child EXCEPT !.heard = @ + 1]

\* rcopy sends a packet of the transfer to the address it has stored.
Acknowledges(address) ==
  IF address = 0
  THEN /\ Sent(requests, [from |-> socket, init |-> FALSE, ok |-> TRUE])
       /\ UNCHANGED children
  ELSE /\ UNCHANGED requests
       /\ \/ /\ children[address].heard < MaxUnderWay
             /\ Becomes(address, Hearing(children[address]))
             /\ UNCHANGED faults
          \/ faults < MaxFaults /\ faults' = faults + 1 /\ UNCHANGED children

-----------------------------------------------------------------------------
(* rcopy *)

RcopyExits(end) == rcopyState' = end /\ inbox' = << >>

\* Seeded bug: the socket of the first attempt is used again.
NextSocketSame == 1

\* close() and setupUdpClientToServer()
NextSocket == socket + 1

\* Every damaged answer lets rcopy start counting again.
AttemptLimit == 1 + MaxRetrans * (MaxFaults + 1)

\* MaxSockets is a bound of the model that no attempt reaches (Attempts).
MaxSockets == AttemptLimit + 1

StartState ==
  /\ rcopyState = "START_STATE"
  /\ socket < MaxSockets
  /\ inbox' = << >>
  /\ peer' = 0
  /\ \/ /\ rcopyState' = "FILENAME"
        /\ socket' = NextSocket
        /\ Sent(requests, [from |-> NextSocket, init |-> TRUE, ok |-> TRUE])
     \/ /\ rcopyState' = "NO_SOCKET"
        /\ UNCHANGED <<socket, requests, faults>>
  /\ UNCHANGED <<retries, children, duplicates>>

\* processSelect: the counter is raised before the limit is checked, so that
\* MaxRetrans + 1 requests have been sent, and past the limit the socket is not
\* looked at.
GiveUp ==
  /\ rcopyState = "FILENAME"
  /\ retries >= MaxRetrans
  /\ retries' = retries + 1
  /\ RcopyExits("GAVE_UP")
  /\ UNCHANGED <<socket, peer, requests, children, faults, duplicates>>

\* Seeded bug: the attempt is not counted.
AnswerTimerUncounted ==
  /\ rcopyState = "FILENAME"
  /\ retries < MaxRetrans
  /\ rcopyState' = "START_STATE"
  /\ UNCHANGED <<socket, retries, peer, inbox, requests, children, faults, duplicates>>

\* Seeded bug: polls again.
AnswerTimerAgain ==
  /\ rcopyState = "FILENAME"
  /\ retries < MaxRetrans
  /\ UNCHANGED vars

\* Seeded bug: no limit.
AnswerTimerUnlimited ==
  /\ rcopyState = "FILENAME"
  /\ retries' = retries + 1
  /\ rcopyState' = "START_STATE"
  /\ UNCHANGED <<socket, peer, inbox, requests, children, faults, duplicates>>

\* One second is over; the answer may be under way.
AnswerTimer ==
  /\ rcopyState = "FILENAME"
  /\ retries < MaxRetrans
  /\ retries' = retries + 1
  /\ rcopyState' = "START_STATE"
  /\ UNCHANGED <<socket, peer, inbox, requests, children, faults, duplicates>>

\* Seeded bug: the address of the server is kept.
SenderKept(p) == peer

\* recv_buf stores the address of the sender, whatever it sent.
Sender(p) == p.from

\* Seeded bug: FNAME_BAD is not looked at.
VerdictAny(p, damaged) ==
  IF p.ok \/ (p.flag = "DATA" /\ ~damaged) THEN "FILE_OK" ELSE "FILENAME"

\* filename() looks at the flag even when the checksum is wrong; damaged: the
\* flipped byte is the flag, whose complement is no flag at all.
Verdict(p, damaged) ==
  IF p.flag = "FNAME_BAD" /\ ~damaged THEN "NO_FILE"
  ELSE IF p.ok \/ (p.flag = "DATA" /\ ~damaged) THEN "FILE_OK" ELSE "FILENAME"

\* The second pollCall, of ten seconds, finds the packet the first one found.
Answered ==
  LET p == Head(inbox) IN
  /\ rcopyState = "FILENAME"
  /\ retries < MaxRetrans
  /\ inbox # << >>
  /\ retries' = IF p.ok THEN 0 ELSE 1
  /\ peer' = Sender(p)
  /\ \E damaged \in IF p.ok THEN {FALSE} ELSE BOOLEAN :
       /\ rcopyState' = Verdict(p, damaged)
       /\ inbox' = IF rcopyState' = "NO_FILE" THEN << >> ELSE Tail(inbox)
  /\ UNCHANGED <<socket, requests, children, faults, duplicates>>

FileOk ==
  /\ rcopyState = "FILE_OK"
  /\ \/ rcopyState' = "RECV_DATA" /\ UNCHANGED inbox
     \/ RcopyExits("OPEN_ERROR")
  /\ UNCHANGED <<socket, retries, peer, requests, children, faults, duplicates>>

\* recv_data(), buffer(), flush(): a packet is taken and may be acknowledged.
TakePacket ==
  LET p == Head(inbox) IN
  /\ rcopyState = "RECV_DATA"
  /\ inbox # << >>
  /\ inbox' = Tail(inbox)
  /\ peer' = Sender(p)
  /\ \/ p.ok /\ Acknowledges(Sender(p))
     \/ UNCHANGED <<requests, children, faults>>
  /\ UNCHANGED <<rcopyState, socket, retries, duplicates>>

\* The file is complete, or nothing has come for ten seconds.
RcopyDone ==
  /\ rcopyState = "RECV_DATA"
  /\ RcopyExits("DONE")
  /\ UNCHANGED <<socket, retries, peer, requests, children, faults, duplicates>>

RcopyStep ==
  /\ \/ StartState \/ GiveUp \/ AnswerTimer \/ Answered \/ FileOk
     \/ TakePacket \/ RcopyDone
  /\ UNCHANGED serverState

-----------------------------------------------------------------------------
(* process_server(): any packet with the right checksum is a request. *)

NewChild(r) ==
  [state |-> "FILENAME", for |-> r.from, init |-> r.init, opened |-> FALSE,
   sent |-> 0, heard |-> 0, retries |-> 0]

ProcessServer ==
  /\ serverState = "LISTENING"
  /\ requests # << >>
  /\ requests' = Tail(requests)
  /\ children' = IF Head(requests).ok
                 THEN Append(children, NewChild(Head(requests)))
                 ELSE children
  /\ UNCHANGED <<rcopyVars, inbox, serverState, faults, duplicates>>

\* The server exits; its children and the port, which they inherit, stay.
ForkFails ==
  /\ serverState = "LISTENING"
  /\ requests # << >>
  /\ Head(requests).ok
  /\ requests' = Tail(requests)
  /\ serverState' = "EXITED"
  /\ UNCHANGED <<rcopyVars, inbox, children, faults, duplicates>>

-----------------------------------------------------------------------------
(* process_client() *)

ChildFilename(c) ==
  /\ children[c].state = "FILENAME"
  /\ \/ /\ Becomes(c, [children[c] EXCEPT !.state = "SERVING", !.opened = TRUE])
        /\ AnswerFrom(c, "FNAME_OK")
     \/ /\ Becomes(c, [children[c] EXCEPT !.state = "REFUSED"])
        /\ AnswerFrom(c, "FNAME_BAD")
  /\ UNCHANGED <<rcopyVars, requests, duplicates>>

\* send_data()
ChildSends(c) ==
  /\ children[c].state = "SERVING"
  /\ children[c].sent < Burst
  /\ Becomes(c, [children[c] EXCEPT !.sent = @ + 1])
  /\ AnswerFrom(c, "DATA")
  /\ UNCHANGED <<rcopyVars, requests, duplicates>>

\* Seeded bug: the attempt is not counted.
ChildTimerUncounted(c) ==
  /\ children[c].state = "SERVING"
  /\ children[c].retries < MaxRetrans
  /\ AnswerFrom(c, "OTHER")
  /\ UNCHANGED <<rcopyVars, requests, children, duplicates>>

\* processSelect, and timeout_on_ack() or the loop of wait_on_eof_ack(): an
\* expired timer is counted and a packet with another flag sent.
ChildTimer(c) ==
  /\ children[c].state = "SERVING"
  /\ children[c].retries < MaxRetrans
  /\ Becomes(c, [children[c] EXCEPT !.retries = @ + 1])
  /\ AnswerFrom(c, "OTHER")
  /\ UNCHANGED <<rcopyVars, requests, duplicates>>

Gone(child) == [child EXCEPT !.state = "GONE", !.heard = 0]

\* A packet from rcopy clears the counter and may be answered, or is the last.
ChildHears(c) ==
  /\ children[c].state = "SERVING"
  /\ children[c].heard > 0
  /\ \/ /\ Becomes(c, [children[c] EXCEPT !.heard = @ - 1, !.retries = 0])
        /\ AnswerFrom(c, "OTHER") \/ UNCHANGED <<inbox, faults>>
     \/ /\ Becomes(c, Gone(children[c]))
        /\ UNCHANGED <<inbox, faults>>
  /\ UNCHANGED <<rcopyVars, requests, duplicates>>

\* MAX_RETRANS timers have expired in a row.
ChildGivesUp(c) ==
  /\ children[c].state = "SERVING"
  /\ children[c].retries >= MaxRetrans
  /\ Becomes(c, Gone(children[c]))
  /\ UNCHANGED <<rcopyVars, inbox, requests, faults, duplicates>>

\* There is no socket for the child, read() fails, or sendtoErr() is given no
\* bytes.
ChildFails(c) ==
  /\ children[c].state \in {"FILENAME", "SERVING"}
  /\ Becomes(c, Gone(children[c]))
  /\ UNCHANGED <<rcopyVars, inbox, requests, serverState, faults, duplicates>>

ChildStep(c) ==
  /\ c \in DOMAIN children
  /\ ChildFilename(c) \/ ChildSends(c) \/ ChildTimer(c) \/ ChildHears(c) \/ ChildGivesUp(c)
  /\ UNCHANGED serverState

-----------------------------------------------------------------------------

NetworkRepeats ==
  /\ duplicates < MaxDuplicates
  /\ duplicates' = duplicates + 1
  /\ \E i \in DOMAIN requests : requests' = Append(requests, requests[i])
  /\ UNCHANGED <<rcopyVars, inbox, children, serverState, faults>>

ChildAlive(c) == c \in DOMAIN children /\ children[c].state \notin ChildEnds

\* rcopy has ended and its children too; the server, if it runs, waits for the next.
Settled ==
  /\ rcopyState \in RcopyEnds
  /\ serverState = "LISTENING" => requests = << >>
  /\ \A c \in DOMAIN children : ~ChildAlive(c)
  /\ UNCHANGED vars

SetupNext ==
  \/ RcopyStep
  \/ ProcessServer \/ ForkFails
  \/ \E c \in DOMAIN children : ChildStep(c) \/ ChildFails(c)
  \/ NetworkRepeats
  \/ Settled

SetupSpec == SetupInit /\ [][SetupNext]_vars

MaxChildren == MaxSockets + MaxDuplicates

\* Each process runs whenever it is not blocked; poll() ends at the latest when
\* its time is over.  Nothing obliges a call to fail.
FairSetup ==
  /\ SetupSpec
  /\ WF_vars(RcopyStep)
  /\ WF_vars(ProcessServer)
  /\ \A c \in 1..MaxChildren : WF_vars(ChildStep(c))

-----------------------------------------------------------------------------

\* No two processes serve one socket: a new attempt takes a new socket, so that
\* the packets of rcopy's earlier children cannot mix with those of the last.
\* Transfer, with one child and one socket, rests on this.
OneChildPerSocket ==
  /\ \A c, d \in DOMAIN children : children[c].for = children[d].for => c = d
  /\ \A c \in DOMAIN children, i \in DOMAIN requests :
       children[c].for # requests[i].from
  /\ \A i, j \in DOMAIN requests : requests[i].from = requests[j].from => i = j

\* process_server() forks for any packet with the right checksum and takes its
\* first bytes for window and buffer size; only FILENAME_INIT packets come to
\* its port, because rcopy sends its acknowledgements to the sender of the
\* packet it took last.
OnlyInitForks == \A c \in DOMAIN children : children[c].init

\* What rcopy concludes from the first answer is what a child forked for its
\* present socket found: it creates the output file only when such a child has
\* opened the input file, and reports a missing file only when one could not.
AnswerIsCurrent ==
  /\ rcopyState \in {"FILE_OK", "RECV_DATA", "OPEN_ERROR", "DONE"} =>
       \E c \in DOMAIN children : children[c].for = socket /\ children[c].opened
  /\ rcopyState = "NO_FILE" =>
       \E c \in DOMAIN children : children[c].for = socket /\ children[c].state = "REFUSED"

\* The retry counter of filename() bounds the sockets an rcopy opens, and so
\* the processes it can start.
Attempts == socket <= AttemptLimit

\* rcopy comes to an answer or gives up.
HandshakeEnds == <>(rcopyState \notin HandshakeStates)

\* A child whose rcopy has turned to another socket, or has ended, ends too.
AbandonedEnds ==
  \A c \in 1..MaxChildren :
    (ChildAlive(c) /\ (children[c].for # socket \/ rcopyState \in RcopyEnds))
      ~> ~ChildAlive(c)
=============================================================================

-------------------------------- MODULE Link --------------------------------
(***************************************************************************)
(* The UDP association between one server process and one rcopy socket,    *)
(* seen through sendtoErr: every packet handed to safeSendto is delivered, *)
(* lost (errorDrop) or delivered with one byte complemented                *)
(* (errorFlipBits).  The network itself may delay a packet past a timer,   *)
(* swap neighbours or deliver a packet twice.  Each kind of disturbance    *)
(* has a budget, the bounds of the model:                                  *)
(*   MaxDataFaults  losses and flips on the way to rcopy                   *)
(*   MaxAckFaults   losses and flips on the way to the server              *)
(*   MaxDelays      timers that expire although the peer still has a       *)
(*                  packet under way or is still going to send             *)
(*   MaxDisorder    swaps and duplications by the network                  *)
(***************************************************************************)
EXTENDS Pdu

CONSTANTS MaxDataFaults, MaxAckFaults, MaxDelays, MaxDisorder

ASSUME LinkAssumption ==
  /\ MaxDataFaults \in Nat
  /\ MaxAckFaults \in Nat
  /\ MaxDelays \in Nat
  /\ MaxDisorder \in Nat

VARIABLES
  toClient, toServer,      \* packets under way or queued in the socket
  clientOpen, serverOpen,  \* whether the process and its socket still exist
  dataFaults, ackFaults, delays, disorder  \* what the budgets have paid for

linkVars == <<toClient, toServer, clientOpen, serverOpen,
              dataFaults, ackFaults, delays, disorder>>

LinkTypeOK ==
  /\ toClient \in Seq(DataPdu)
  /\ toServer \in Seq(AckPdu)
  /\ clientOpen \in BOOLEAN
  /\ serverOpen \in BOOLEAN
  /\ dataFaults \in 0..MaxDataFaults
  /\ ackFaults \in 0..MaxAckFaults
  /\ delays \in 0..MaxDelays
  /\ disorder \in 0..MaxDisorder

LinkInit ==
  /\ toClient = << >>
  /\ toServer = << >>
  /\ clientOpen = TRUE
  /\ serverOpen = TRUE
  /\ dataFaults = 0
  /\ ackFaults = 0
  /\ delays = 0
  /\ disorder = 0

-----------------------------------------------------------------------------
(* safeSendto *)

Fates == {"sent", "lost", "flipped"}

Cost(f) == IF f = "sent" THEN 0 ELSE 1

\* chan after a send of p that meets fate f
Put(chan, p, f) ==
  IF f = "lost" THEN chan
  ELSE Append(chan, IF f = "flipped" THEN FlipBits(p) ELSE p)

\* A datagram to a closed port is discarded by the host.
SendToClient(p) ==
  IF clientOpen
  THEN \E f \in Fates :
         /\ dataFaults + Cost(f) <= MaxDataFaults
         /\ dataFaults' = dataFaults + Cost(f)
         /\ toClient' = Put(toClient, p, f)
  ELSE UNCHANGED <<dataFaults, toClient>>

SendToServer(p) ==
  IF serverOpen
  THEN \E f \in Fates :
         /\ ackFaults + Cost(f) <= MaxAckFaults
         /\ ackFaults' = ackFaults + Cost(f)
         /\ toServer' = Put(toServer, p, f)
  ELSE UNCHANGED <<ackFaults, toServer>>

\* Two calls of safeSendto in a row, each with its own fate.
SendBothToServer(p, q) ==
  IF serverOpen
  THEN \E f, g \in Fates :
         /\ ackFaults + Cost(f) + Cost(g) <= MaxAckFaults
         /\ ackFaults' = ackFaults + Cost(f) + Cost(g)
         /\ toServer' = Put(Put(toServer, p, f), q, g)
  ELSE UNCHANGED <<ackFaults, toServer>>

-----------------------------------------------------------------------------
(* recv_buf: the oldest packet in the socket.  A process that goes on takes *)
(* it out of the channel, a process that exits discards the channel.        *)

ClientReceives ==
  /\ toClient # << >>
  /\ toClient' = Tail(toClient)
  /\ UNCHANGED clientOpen

ServerReceives ==
  /\ toServer # << >>
  /\ toServer' = Tail(toServer)
  /\ UNCHANGED serverOpen

\* The process exits: what is queued in its socket or still under way to it
\* is lost with the socket.
ClientCloses == clientOpen' = FALSE /\ toClient' = << >>

ServerCloses == serverOpen' = FALSE /\ toServer' = << >>

Quiet == toClient = << >> /\ toServer = << >>

\* pollCall returns -1.  When the peer is idle and nothing is under way the
\* timer is right and costs nothing, else some packet took longer than the
\* timer and the delay budget pays.
TimerExpires(idle) ==
  IF Quiet /\ idle
  THEN UNCHANGED delays
  ELSE delays < MaxDelays /\ delays' = delays + 1

-----------------------------------------------------------------------------
(* The network between the hosts *)

Swapped(chan, i) == [chan EXCEPT ![i] = chan[i + 1], ![i + 1] = chan[i]]

Disturb(chan, new) ==
  \/ \E i \in 1..(Len(chan) - 1) : chan[i] # chan[i + 1] /\ new = Swapped(chan, i)
  \/ \E i \in 1..Len(chan) : new = Append(chan, chan[i])

NetworkDisorder ==
  /\ disorder < MaxDisorder
  /\ disorder' = disorder + 1
  /\ \/ Disturb(toClient, toClient') /\ UNCHANGED toServer
     \/ Disturb(toServer, toServer') /\ UNCHANGED toClient
  /\ UNCHANGED <<clientOpen, serverOpen, dataFaults, ackFaults, delays>>
=============================================================================

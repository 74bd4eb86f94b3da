------------------------------ MODULE Injection ------------------------------
(***************************************************************************)
(* libcpe464: what happens to a packet between safeSendto and the network. *)
(* Each process has its own PacketManager (a counter of messages, a rate,  *)
(* two lists of events, a random generator), built before main() from      *)
(* environment variables, copied by fork() and completed by sendErr_init.  *)
(*                                                                         *)
(* The first process is the server, which forks and never sends; its       *)
(* children send, and so does rcopy, a program of its own.  A process      *)
(* keeps one packet in its window, enough to send it again.                *)
(*                                                                         *)
(* drand48() is a choice: draws and rates are ranked 0..MaxDraw, of which  *)
(* the comparison randNum <= m_ErrorRate is all that matters.              *)
(***************************************************************************)
EXTENDS Checksum

CONSTANTS
  Unset,          \* an environment variable that is not there, or no number
  Junk,           \* a token of a list that strtol() refuses
  DropLists,      \* values of ERR_DROP: sequences of tokens
  FlipLists,      \* values of ERR_FLIP
  Rates, Seeds,   \* values of ERR_RATE, of the argument, and of SEEDRAND
  SeqNums, Payloads, Flags,
  NumberBase,     \* values of uint32_t: 2^32 in the code
  MaxDraw,        \* bound: ranks of draws
  StartSecond,    \* time() when the first program starts
  MaxSeconds,     \* bound: seconds that pass
  MaxProcesses,   \* bound: processes
  MaxSends        \* bound: messages a process sends

RANDOM_SEED == 10

ASSUME InjectionAssumption ==
  /\ Unset \notin Int \cup DropLists \cup FlipLists
  /\ Junk \notin Int
  /\ DropLists \cup FlipLists \subseteq Seq(Int \cup {Junk})
  /\ MaxDraw \in Nat
  /\ Rates \subseteq 0..MaxDraw
  /\ Seeds \subseteq Int
  /\ SeqNums \subseteq Nat
  /\ Flags \subseteq Bytes
  /\ Payloads \subseteq Seq(Bytes)
  /\ \A payload \in Payloads : FlagAt + Len(payload) <= 2 * Word   \* WordSum
  /\ MaxSeconds \in Nat /\ MaxProcesses \in Nat /\ MaxSends \in Nat
  /\ NumberBase \in Nat /\ NumberBase > MaxSends
  /\ StartSecond \in Nat
  /\ StartSecond > RANDOM_SEED + MaxProcesses

VARIABLES
  env,      \* the environment variables, the same for all programs
  clock,    \* time(NULL)
  procs,    \* the processes, in the order they were started
  wire      \* the datagram of the last send, if it was delivered

vars == <<env, clock, procs, wire>>

Environment ==
  [seed : Seeds \cup {Unset}, rate : Rates \cup {Unset},
   drop : DropLists \cup {Unset}, flip : FlipLists \cup {Unset}]

NoPacket == << >>

NoDatagram == [bytes |-> << >>, seq |-> 0, payload |-> << >>, intact |-> TRUE]

\* lost, flipped: the messages that were; zeroDraw: some draw was 0; argument:
\* the rate on its command line; seq and payload: of the packet in the slot.
Process ==
  [phase : {"LISTENING", "STARTED", "RUNNING"}, forked : BOOLEAN,
   seed : Int, nextSeed : Nat, rate : 0..MaxDraw,
   always : Seq({"drop", "info"}), random : Seq({"drop", "flip"}),
   msgNo : 0..MaxSends, slot : Seq(Bytes), argument : 0..MaxDraw,
   seq : SeqNums \cup {0}, payload : Payloads \cup {NoPacket},
   lost : SUBSET (1..MaxSends), flipped : SUBSET (1..MaxSends), zeroDraw : BOOLEAN]

-----------------------------------------------------------------------------
(* SettingsManager *)

\* parser2ListLong() stops at the first token that is no number, and returns
\* how many it has read, so that a list is set even when it is empty.
Parsed(list) ==
  {list[i] : i \in {j \in DOMAIN list : \A k \in 1..j : list[k] # Junk}}

\* parserLong2Uint32() leaves out negative numbers and cuts the others down to
\* 32 bits.
Numbers(list) == {n % NumberBase : n \in {m \in Parsed(list) : m >= 0}}

\* Listed messages, or none: a variable that names none asks for random events.
Listed(variable) == IF variable = Unset THEN {} ELSE Numbers(variable)

AsksForRandom(variable) == variable # Unset /\ Numbers(variable) = {}

Override(variable, value) == IF variable = Unset THEN value ELSE variable

When(condition, event) == IF condition THEN <<event>> ELSE << >>

\* The constructors of PacketManager and SettingsManager: a program starts.
Loaded(phase, argument, time) ==
  [phase |-> phase, forked |-> FALSE,
   seed |-> Override(env.seed, time),
   nextSeed |-> RANDOM_SEED,
   rate |-> Override(env.rate, 0),
   always |-> When(Listed(env.drop) # {}, "drop"),
   random |-> When(AsksForRandom(env.drop), "drop") \o When(AsksForRandom(env.flip), "flip"),
   msgNo |-> 0, slot |-> NoPacket, argument |-> argument,
   seq |-> 0, payload |-> << >>,
   lost |-> {}, flipped |-> {}, zeroDraw |-> FALSE]

\* Seeded bug: setUserMode_ErrDrop() does not look at the environment.
ProgramEventsAlways == <<"drop">> \o When(env.flip = Unset, "flip")

\* setUserMode_ErrDrop(DROP_ON), setUserMode_ErrFlip(FLIP_ON)
ProgramEvents == When(env.drop = Unset, "drop") \o When(env.flip = Unset, "flip")

\* sendErr_init(argument, DROP_ON, FLIP_ON, DEBUG_ON, RSEED_ON)
Initialised(p, time) ==
  [p EXCEPT !.phase = "RUNNING",
            !.always = Append(@, "info"),
            !.rate = Override(env.rate, p.argument),
            !.random = @ \o ProgramEvents,
            !.seed = Override(env.seed, time),
            !.nextSeed = time]

-----------------------------------------------------------------------------
(* Processes *)

Init ==
  /\ env \in Environment
  /\ clock = StartSecond
  /\ \E rate \in Rates : procs = <<Loaded("LISTENING", rate, clock)>>
  /\ wire = NoDatagram

\* Time passes, seen only by those who ask for it.
TimePasses == clock' \in clock..(StartSecond + MaxSeconds)

Becomes(p, r) == procs' = [procs EXCEPT ![p] = r]

RunsRcopy ==
  /\ Len(procs) < MaxProcesses
  /\ TimePasses
  /\ \E rate \in Rates : procs' = Append(procs, Loaded("STARTED", rate, clock'))
  /\ UNCHANGED <<env, wire>>

\* forkMod(): parent and child go on with different seeds to come.
Fork ==
  LET parent == [procs[1] EXCEPT !.nextSeed = @ + 1] IN
  /\ Len(procs) < MaxProcesses
  /\ procs' = Append([procs EXCEPT ![1] = parent],
                     [parent EXCEPT !.phase = "STARTED", !.forked = TRUE,
                                    !.seed = Override(env.seed, procs[1].nextSeed)])
  /\ UNCHANGED <<env, clock, wire>>

SendErrInit(p) ==
  /\ procs[p].phase = "STARTED"
  /\ TimePasses
  /\ Becomes(p, Initialised(procs[p], clock'))
  /\ UNCHANGED <<env, wire>>

-----------------------------------------------------------------------------
(* sendto_Err *)

\* Seeded bug: the number is the one of the message before.
MessageNumberLate(p) == p.msgNo

MessageNumber(p) == p.msgNo + 1

\* What the event named does to a message: it is lost, or a byte is flipped.
Drops(p, event) ==
  event = "drop" \/ ("drop" \in {p.always[i] : i \in DOMAIN p.always}
                     /\ MessageNumber(p) \in Listed(env.drop))

\* The random event, if any, for a draw.
EventsFor(p, draw) ==
  IF p.random # << >> /\ draw <= p.rate
  THEN {p.random[i] : i \in DOMAIN p.random}
  ELSE {"none"}

\* Seeded bug: an event may change what the caller goes on to use.
KeptChanged(bytes, out) == out

\* Events work on a copy of the caller's buffer.
Kept(bytes, out) == bytes

\* p sends bytes, built from seq and payload, and keeps them in its window.
SendtoErr(p, bytes, seq, payload) ==
  LET q == procs[p] IN
  \E draw \in 0..MaxDraw : \E event \in EventsFor(q, draw) :
    \E out \in IF event = "flip" THEN {FlipByte(bytes, i) : i \in DOMAIN bytes} ELSE {bytes} :
      /\ wire' = IF Drops(q, event) THEN NoDatagram
                 ELSE [bytes |-> out, seq |-> seq, payload |-> payload, intact |-> out = bytes]
      /\ Becomes(p, [q EXCEPT
           !.msgNo = @ + 1,
           !.slot = Kept(bytes, out), !.seq = seq, !.payload = payload,
           !.lost = IF Drops(q, event) THEN @ \cup {q.msgNo + 1} ELSE @,
           !.flipped = IF event = "flip" THEN @ \cup {q.msgNo + 1} ELSE @,
           !.zeroDraw = @ \/ draw = 0])

MaySend(p) == procs[p].phase = "RUNNING" /\ procs[p].msgNo < MaxSends

SendNew(p) ==
  /\ MaySend(p)
  /\ \E seq \in SeqNums, payload \in Payloads, flag \in Flags :
       SendtoErr(p, CreatePDU(seq, flag, payload), seq, payload)
  /\ UNCHANGED <<env, clock>>

\* timeout_on_ack(), send_srej()
SendAgain(p) ==
  /\ MaySend(p)
  /\ procs[p].slot # NoPacket
  /\ \E flag \in Flags :
       SendtoErr(p, Reflagged(procs[p].slot, flag), procs[p].seq, procs[p].payload)
  /\ UNCHANGED <<env, clock>>

\* The bounds are reached: processes have no more to send, the server waits.
AllSent ==
  /\ Len(procs) = MaxProcesses
  /\ \A p \in 2..MaxProcesses : procs[p].msgNo = MaxSends
  /\ UNCHANGED vars

Next ==
  \/ RunsRcopy \/ Fork \/ AllSent
  \/ \E p \in DOMAIN procs : SendErrInit(p) \/ SendNew(p) \/ SendAgain(p)

Spec == Init /\ [][Next]_vars

InjectionTypeOK ==
  /\ env \in Environment
  /\ clock \in StartSecond..(StartSecond + MaxSeconds)
  /\ procs \in Seq(Process) /\ procs # << >>
  /\ wire \in [bytes : Seq(Bytes), seq : SeqNums \cup {0},
              payload : Payloads \cup {NoPacket}, intact : BOOLEAN]

-----------------------------------------------------------------------------

\* A receiver accepts what in_cksum lets pass: exactly the packets no byte of
\* which was flipped, and they carry the sequence number and the payload they
\* were built from, even when an earlier copy of the packet was damaged.  The
\* module Pdu, whose checksum is one bit, rests on this.  It needs a flip of
\* one byte only (processEvents draws one event), a copy of the caller's
\* buffer, and a checksum field cleared before each retransmission.
AcceptedIsOriginal ==
  wire # NoDatagram =>
    /\ Accepted(wire.bytes) <=> wire.intact
    /\ wire.intact => /\ SeqOf(wire.bytes) = NetworkOrder(wire.seq)
                      /\ PayloadOf(wire.bytes) = wire.payload

\* The messages ERR_DROP lists are lost, counted from the first message of
\* the process itself, and where errors are not random, or the rate is 0 and
\* no draw was 0 (randNum <= m_ErrorRate), nothing else happens.
ListedAreLost ==
  \A i \in DOMAIN procs :
    LET p == procs[i]
        listed == Listed(env.drop) \cap 1..p.msgNo
    IN  /\ listed \subseteq p.lost
        /\ p.random = << >> \/ (p.rate = 0 /\ ~p.zeroDraw) =>
             p.lost = listed /\ p.flipped = {}

\* However a process came about, the environment prevails over the arguments
\* of sendErr_init, and each event is there once, so that a drop and a flip
\* are drawn equally often: sendErr_init is called once in each program, by
\* a child and not by the server it is copied from.
Configured ==
  \A i \in DOMAIN procs :
    LET p == procs[i] IN
    p.phase = "RUNNING" =>
      /\ p.rate = Override(env.rate, p.argument)
      /\ env.seed # Unset => p.seed = env.seed
      /\ \A j, k \in DOMAIN p.random : p.random[j] = p.random[k] => j = k
      /\ {p.random[j] : j \in DOMAIN p.random} =
           {event \in {"drop", "flip"} : Listed(env[event]) = {}}
      /\ p.always = When(Listed(env.drop) # {}, "drop") \o <<"info">>

\* "any child forked will have a different seed value" (network-hooks.c).
SeedsDiffer ==
  \A i, j \in DOMAIN procs :
    LET child(k) == procs[k].forked /\ procs[k].phase = "RUNNING" IN
    i # j /\ child(i) /\ child(j) /\ env.seed = Unset => procs[i].seed # procs[j].seed
=============================================================================

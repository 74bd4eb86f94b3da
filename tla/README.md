# Verification of rcopy and its server

`rcopy` copies a file from `server` over UDP with a sliding window, selective
reject (SREJ) and packets that are dropped or damaged on purpose by
`libcpe464`. This directory models that system in TLA+, checks small instances
with TLC and proves safety for all instances with TLAPS.

## 1. The system

### Components, their state and their operations

| Component | Source | State | Operations | Modelled in |
|---|---|---|---|---|
| Packets | `pdu.c`, `pdu.h` | none | `createPDU`, `send_buf`, `send_init`, `recv_buf` | `Pdu` |
| Packet window | `window.c` | `lower`, `current`, `upper`, slots | create, full, slide, CURUpdate, add, remove, isvalid, get_packet, get_lower | `Window` |
| Link | `PacketManager.cpp` (`sendtoErr`), UDP | packets under way | send, drop, flip, receive, time out | `Link` |
| Server child | `server.c` `process_client` | state, window, `seq_num`, `last_seq_num`, `eof_len`, `finished`, `final_packet_len/seq`, two retry counters, file offset | `filename`, `send_data`, `wait_on_ack`, `send_srej`, `timeout_on_ack`, `wait_on_eof_ack` | `Server` |
| rcopy transfer | `rcopy.c` `processFile` | state, window, `expected`, `highest`, `final_packet_len/seq`, `eof_seq`, output file | `filename`, `file_ok`, `recv_data`, `buffer`, `flush` | `Client` |
| One transfer | both programs | all of the above | the two loops, the network | `Transfer`, `FileCopy` |
| Connection setup | `process_server`, `start_state`, `filename` of rcopy | sockets, children, retry counter of `filename()`, stored address | open socket, send FILENAME_INIT, receive, fork, give up | `Setup` |
| Fault injection policy | `PacketManager.cpp`, `SettingsManager.cpp`, `network-hooks.c` | rate, seeds, event lists, number of the message | load the environment, `sendErr_init`, `forkMod`, draw and apply an event | `Injection` |
| Poll set | `pollLib.c` | table of descriptors, its size, the highest descriptor | set up, add, grow, poll | `PollSet` |
| Checksum | `checksum.c` | none | `in_cksum` | `Checksum` |
| Command lines | `checkArgs` of both | none | validate | not modelled |
| Sockets, resolver, debug output, build | `networks.c`, `gethostbyname.c`, `dbg_print.c`, Makefiles | – | thin wrappers, unused TCP helpers, printing | not modelled: pure I/O |

The server's parent forks a child per FILENAME_INIT. The child opens its own
socket and talks to one rcopy: it answers FNAME_OK or FNAME_BAD, sends DATA
packets as long as its window is not full, resends the lowest packet of the
window when a timer expires (DATA_TIMEOUT) and a requested one for an SREJ
(SREJ_RETRAN), and sends END_OF_FILE when `read` returns 0. rcopy writes
packets that arrive in turn and acknowledges each with an RR of the *next*
number; a packet ahead of its turn is stored in a window of rcopy's own
(`buffer`) and the missing one requested, and `flush` writes what has become
contiguous. Both programs are single threaded; they share nothing but
datagrams, so that all concurrency is in the interleaving of the two and in the
order, loss and damage of packets.

### What is hard

* An RR may be late, repeated or cumulative. `window_slide` takes any number,
  and `window_full` compares for equality only.
* The length of the last block is learnt from the one packet with flag DATA
  that is shorter than the others, on both sides; retransmissions choose a
  length by comparing sequence numbers, not from what was stored.
* END_OF_FILE occupies a slot but no sequence number.
* `flush` ends by writing a slot it has not tested; `highest` is the last packet
  buffered, not the highest one; `buffer` can be left with packets in it.
* Retry counters are reset by any packet, so giving up depends on silence.
* rcopy acknowledges a block before it writes it, and looks at no result of
  `write()`: the server may forget a packet whose bytes are not in the file yet, or
  never will be.
* Each attempt of rcopy's `filename()` takes a new socket and starts another
  child, while answers to the last one are under way and its child still runs.
* The poll table is made anew by every attempt while `maxFileDescriptor` lives
  on, and `pollCall` answers for any entry and any event in it: its callers go on
  to a `recvfrom` without a timer.
* Each process draws its errors from its own generator and lists, which come
  from the environment, from the arguments of `sendErr_init`, and by `fork` from
  the server: when they are set, and in which process, decides what is lost.
* A retransmission is patched into the stored packet and sealed again; `fork`
  may fail and end the server while its children run.
* `recv_buf` stores the address of whoever sent the packet; the parent forks for
  any packet whose checksum is right.

The correctness properties these call for: the window keeps what may be needed
again and moves forward only; acknowledgements speak only of packets rcopy has
taken; resent packets are exact copies; the output is a prefix of the file at all
times and the whole file at the end; nobody reports success falsely; both programs end;
rcopy trusts answers of its present child only, and abandoned children end;
`poll` stays in its table and promises no packet that is not there; a receiver
accepts the packets nobody has damaged, and no others; each process is set up as
its environment says.

## 2. Modules

    Pdu  <-- Window <--+-- Server --+
     ^                 |            +-- Transfer -- MCTransfer (TLC)
     +---- Link <------+-- Client --+       |  |
     ^                                      |  +-- TransferProofs -- CopyProofs -- WindowProofs
     +---- FileCopy <---- INSTANCE ---------+      (TLAPS)

    Setup -- SetupProofs         Checksum -- Injection --+-- MCInjection
    PollSet --+-- MCPollSet                              +-- InjectionProofs -- PacketProofs
              +-- PollSetProofs

* **Pdu** – packets and the file. A payload is the number of the block it
  carries, 0 for anything else; the checksum is the bit `ok`. Lengths are kept
  in bytes because both programs branch on them.
* **Window** – `window.c`. A slot records the flag, number and block of the
  packet in it, how many bytes the last `window_add` copied (`len`) and over
  how many bytes the checksum in the stored header was computed (`sum`). A
  reader that takes more bytes than `len` gets bytes of an older packet: block 0.
* **Link** – two channels. A send meets one of the fates of `sendtoErr`; the
  network may swap neighbours and repeat a packet; a timer may expire early.
* **Server** – one action per way a state function can return. `EOF_POLL` is the
  `pollCall` in the loop of `wait_on_eof_ack`. The ends of the child have names:
  FINISHED, GONE, NO_FILE, READ_ERROR, SEND_ERROR.
* **Client** – the same for `rcopy.c`. `recv_data` and the end of `flush` send an RR
  and write the block afterwards: two steps, with the state WRITE between them
  (`unwritten` is the block, `WriteAcknowledged` the second step). The rest of `flush`
  is one step, since it sends and writes but never waits: `FlushRun` is the set of
  numbers its loop gets through. `Writes` is `write()`, which may fail, unnoticed, up
  to `MaxWriteFaults` times. The ends are FINISHED, TIMED_OUT, NO_FILE, OPEN_ERROR,
  RESTART.
* **FileCopy** – the promise: the output is a growing prefix of the file, rcopy
  reports success with the whole file, the server after rcopy.
* **Transfer** – both programs and the link; all properties.
* **MCTransfer** – the instance for TLC; it also asserts that every
  configuration makes the window's slots be used again.
* **TransferProofs** – its invariants, proved; **CopyProofs** – that it implements
  `FileCopy` while data packets arrive undisturbed; **WindowProofs** – what the
  window promises while packets keep their order.
* **Setup** – everything before the transfer, for one rcopy. Sockets are numbered
  as rcopy opens them, children as the parent forks them. `requests` are the
  packets under way to the listening port, `inbox` those under way to rcopy's
  socket; packets to a socket that is closed vanish, and opening a new socket
  empties `inbox`. `peer` is `server->address`, which every packet received
  overwrites (`Sender`), and which acknowledgements follow (`Acknowledges`):
  address 0 would be the listening port. A child's transfer is cut down to what
  can be seen from here: it sends up to `Burst` DATA packets, other packets when
  a timer expires or rcopy's packet arrives, and it ends by the last packet, by
  its retry limit, or by an error.
  `serverState` is the first process of the server: a `fork` that fails ends it
  (`ForkFails`), its children stay.
* **SetupProofs** – its proofs.
* **Checksum** – packets as bytes: `in_cksum` word by word with its two folds,
  `createPDU`, the patches of `timeout_on_ack` and `send_srej`, the byte that
  `errorFlipBits` complements. `ByteBase` is 256 in the code, `SeqLen` is 4.
* **Injection** – the `PacketManager` of every process: the list of processes is
  in the order of their start, the first is the server, which forks
  (`Fork`), `RunsRcopy` starts a program of its own. `Loaded` is what the
  constructors do before `main`, `Initialised` what `sendErr_init` adds;
  `SendtoErr` is one message, built by `createPDU` or patched in a window slot.
  `always` and `random` are the two lists of events. `wire` is what a receiver
  gets, beside the values the packet was built from. `Link` leaves the choice of
  a packet's fate open; `Injection` has how it is made.
* **PollSet** – descriptors and the poll table of rcopy or of a server child. The
  system gives the lowest free descriptor; `start_state` closes, opens and sets
  the table up again. Only what `pollCall` reports and what `recvfrom` then
  finds matters, so that packets have no content.
* **PollSetProofs**, **InjectionProofs** – their proofs; **PacketProofs** – those
  about the bytes of `Checksum`.
* **MCInjection**, **MCPollSet** – values for TLC.

`Transfer` follows one attempt of `Setup` from the fork of its child on, in full
detail; that it has one child and one socket is justified by `OneChildPerSocket`
and `AnswerIsCurrent`. The two modules are checked separately; in `Transfer` an
attempt that fails ends in RESTART. The bit `ok` of `Pdu` is justified by
`AcceptedIsOriginal` of `Injection`, the "packet is queued" of every `pollCall` in
`Link` and `Setup` by `PollTellsReady` of `PollSet`, and `PollSet` in turn bounds
rcopy's sockets as `Attempts` of `Setup` does.

A definition whose comment starts with "Seeded bug" is the next definition with
a plausible mistake. No specification uses it; substituted for the original it
makes a property fail, which shows that the property watches that code.

**Where it starts.** `Init` is the moment after `fork`: the server child is in
FILENAME, rcopy has sent FILENAME_INIT and waits in FILENAME with one socket.
Arguments are valid (window and buffer sizes at least 1). The child has its
socket: one that gets none ends unanswered, which `Setup` has (`ChildFails`).

**Abstractions.** `clientSeqNum`, the header number of rcopy's packets, is read
by nobody and left out. In `Link` a flip is always noticed (see
`AcceptedIsOriginal`), but `filename()` of rcopy looks at the flag of a damaged packet, so whether the flag
was the byte damaged is a free choice there.
A `write()` that falls short counts as one that appends nothing. In `recv_data` and
at the end of `flush`, `expected` and `highest` are raised with the RR and not after
the `write()`: only rcopy sees them. Its other handlers are one step each, so
that invariants speak of the moments between them. When END_OF_FILE is resent with a
checksum that covers another length, the bytes of an older packet decide
whether it is right: a free choice. The `srej_seq == *seq_num` return of
`send_srej` is kept although no run reaches it. The retry counter of rcopy's
`filename()` is cleared by every packet and spans sockets: that is in `Setup`.

In `Setup` the network repeats only what goes to the listening port
(`MaxDuplicates`), where it matters: a repeated FILENAME_INIT makes the parent
fork a second child for the same socket, so that `OneChildPerSocket` is claimed
without it. Ports are never used again by another socket,
and there is one rcopy: several share nothing but the parent, which keeps
nothing from one packet to the next except the address it overwrites.

In `Injection` draws and rates are ranked: `randNum <= m_ErrorRate` is all the code
does with them. A generator is a free choice of draws, so that equal seeds mean
equal draws only outside the model. A process has a window of one packet, enough
to send it again. A number of a list is cut down to `NumberBase` values, as `long` is to
`uint32_t`. The lists of `ERR_DROP` and `ERR_FLIP` are sequences of tokens,
numbers or not, and an empty list is one that is set.

In `PollSet` `poll()` is modelled by what it reports: POLLIN where it is asked
for, POLLHUP and POLLNVAL in any case. What `HangsUp` allows is the other end of
an inherited standard input going away.

## 3. Runs

Bounds: `NBlocks` blocks, the last of `LastLen` of `BufSize` bytes; window
`WindowSize`; `MaxDataFaults` and `MaxAckFaults` losses or flips per direction,
`MaxDelays` early timers, `MaxDisorder` swaps or repetitions, `MaxWriteFaults`
failing writes (1 in AllFaults, 0 elsewhere); `MaxRetrans`
instead of 10 (the counters are compared for limits only, two or three attempts
show each branch). Every file is longer than the window, so that slots are
reused and the window closes; the fault budgets cover the loss of a packet and
of its first retransmission. A budget of 0 disables a disturbance and
is part of what the run says.

`Setup` is bounded by `MaxRetrans`, `MaxFaults` (packets `sendtoErr` loses or
flips), `MaxDuplicates`, `Burst`, and `MaxUnderWay` (packets in one queue;
a step that would send to a full queue is taken later, which the code, whose
sends never block, does not ask for).
`MaxSockets` is one more than the attempts the code can make, and the run
`SetupRepeats` shows that it is never reached (`Attempts`): every damaged answer
lets rcopy count from 1 again, hence `1 + MaxRetrans * (MaxFaults + 1)`.

| Run | Blocks, last/size, window | data, ack, delay, disorder, retrans | Checks | Shows |
|---|---|---|---|---|
| AllFaults | 4, 1/2, 2 | 1 2 2 1, 3, failing `open`/`read`/`write` | TypeOK, TransferInv, WindowOrder, AckedIsTaken, EndsAgree, CopiesWhileReliable | what holds under every disturbance, and that the copy is right as long as no data packet was lost, swapped or repeated and no `write` failed |
| Losses | 7, 1/2, 3 | 3 2 0 0, 3 | WindowBound, RetainedUntilAcked, ResentExact, FlushReady, SlidesForward, ImplementsCopy, Termination, Delivery | with packets in order and timers that are right: what the window promises, that five losses are recovered, that both programs end |
| StaleBuffer | 9, 1/2, 4 | 6 0 0 0, 3 | CopyComplete **violated** | finding 1 |
| EofAsData | 4, 2/2, 3 | 1 0 0 0, 2 | CopyPrefix **violated** | finding 2 |
| EmptySend | 5, 1/2, 3 | 0 3 0 0, 3 | NoEmptySend **violated** | finding 3 |
| EarlyTimer | 5, 1/2, 2 | 0 0 1 0, 2 | RetainedUntilAcked **violated** | finding 4 |

| Run of `Setup` | retrans, burst, queue, faults, repeats | Checks | Shows |
|---|---|---|---|
| SetupRepeats | 2 1 1 1 1 | SetupTypeOK, OnlyInitForks, AnswerIsCurrent, Attempts | whatever is lost, damaged, repeated or late, and also when a fork fails, rcopy concludes only from its present child, the parent forks for FILENAME_INIT only, the retry counter bounds the attempts |
| SetupEnds | 2 1 1 1 0 | OneChildPerSocket, HandshakeEnds, AbandonedEnds | a new attempt never shares a socket with an old child; rcopy gets an answer or gives up; children without a peer end; all this also when the server itself has exited |

| Run | Instance | Checks | Shows |
|---|---|---|---|
| Injection | bytes of 2 bits, 2 of them for a number, 2 processes, 2 messages each | InjectionTypeOK, AcceptedIsOriginal, ListedAreLost, Configured | which packets are lost, which are accepted, and how a process is set up |
| SameSeeds | 3 processes, no messages | SeedsDiffer **violated** | finding 5 |
| PollSet | table of 4 entries, 6 descriptors, 4 attempts | PollSetTypeOK, InTable, PollTellsReady, FewDescriptors | attempts neither outgrow the table nor use up descriptors, and a program that goes on to `recvfrom` finds a packet |
| StdinHangsUp | the same, `HangsUp` | PollTellsReady **violated** | finding 6 |

`Injection`: with `ByteBase = 4` a word has four bits, and the payloads give
packets of even and odd length and packets whose words are all zero; every byte is
flipped in turn. Two messages are enough to number them, to list one and not the
other, and to send a packet again after its first copy was damaged; the second
process is a child or an rcopy, whichever `fork` or the shell starts. The
lists have a number, one that does not fit `NumberBase = 4`, a negative one, one that
ends at a token which is no number, and none at all. Rank 0 of `MaxDraw = 2` is the draw 0, which even a rate
of 0 lets pass. `PollSet`: with four entries the inherited descriptors put the
socket in the table, on its last entry and behind it, so that `growPollSet` runs
and does not run; some processes have no standard input, which makes descriptor
0 the socket, and one has no descriptor left.

Deadlock is checked everywhere: `Terminated`, `Settled` in `Setup`, `AllSent` in
`Injection` (its bounds are reached) and `Exited` in `PollSet` are the only ways
to stop.

**Timers.** A `pollCall` may return -1 for free when nothing is under way and
the peer waits too; otherwise a packet took longer than the timer and
`MaxDelays` pays. rcopy's ten second timer is free only after the server has
gone, because the server gives up or speaks within a second at a time. The
`pollCall(0)` of `processSelect` (`server.c:575-594`), which would return -1 at any
moment, is never called: WAIT_ON_ACK is entered and kept only with a full window or
with `finished` set (`WaitsClosed`, a part of `TransferInv`).

**Fairness.** `FairSpec` gives weak fairness to each process as a whole: it runs
whenever it is not blocked, and `pollCall` returns when a packet is queued or its
time is over. Nothing is assumed of the network, and nothing about which of its
branches a process takes. `FairSetup` does the same for rcopy, the parent and
each child; `ChildFails` (no socket, a failing `read`, a packet of length 0) is not part of
what is fair, so that no child ends by luck. A child that sends but is never
answered counts its timers; what `AbandonedEnds` rests on is that rcopy's
acknowledgements go to the sender of the packet it took last, hence never to an
abandoned child. `ForkFails` is not part of what is fair either. `Injection` and
`PollSet` state safety only and assume no fairness.

### Findings

1. **StaleBuffer** – `buffer()` answers an old packet and returns to
   `recv_data()` (`rcopy.c:331-342`) with its packets still valid. `recv_data()`
   writes their later copies without clearing the slots, and a later `flush()`
   takes such a slot for the packet that now belongs there: rcopy reports
   success with a wrong file.
2. **EofAsData** – when the file ends with a full block, `final_packet_len` is
   never set; a lost END_OF_FILE is resent by `timeout_on_ack()` as a data packet
   of full length and appended to the output. From there neither program ends: each
   retransmission is answered by an RR that resets the retry counter.
3. **EmptySend** – the RR of the last block, received before `send_data()` has
   read the end of the file, leads to `wait_on_eof_ack()` with `eof_len` 0, and
   `sendtoErr` ends the child.
4. **EarlyTimer** – a stale RR slides the window back; `current` is then past
   `upper`, the window is never full again, and unacknowledged packets are
   overwritten. (Lost acknowledgements alone do not do this: see Losses.)
5. **SameSeeds** – `sendErr_init` replaces the seed that `forkMod` gave the child
   by the time in seconds, so that children started in the same second draw the
   same errors, although `network-hooks.c:196` says "so any child forked will have
   a different seed value".
6. **StdinHangsUp** – unused entries of the poll table name descriptor 0. Once the
   other end of standard input is closed, `poll` reports POLLHUP for them,
   `pollCall` takes that for a packet, and the program blocks in `recvfrom`
   without a timer.

The copy therefore is right with a reliable data direction
(`CopiesWhileReliable`), or with few losses and a short last block
(`ImplementsCopy` in Losses), and not in general; these limits are in the runs'
budgets and in the property. Both ask that no `write()` fails: rcopy does not look,
and goes on to report success without the block.

Two things the model says and no run calls a finding: a list without a valid
number counts as set, so that an empty `ERR_DROP` asks for random drops
(`AsksForRandom`); and a rate of 0 still lets a draw of 0 pass (`ListedAreLost`).

## 4. Proofs

`TransferProofs` proves, for every file, window size, retry limit and budget:

* `TypeCorrect`: `Spec => []TypeOK`
* `TransferSafe`: `Spec => []TransferInv`
* `Ordered`: `Spec => []WindowOrder`
* `AckedTaken`: `Spec => []AckedIsTaken`
* `EndsAgreed`: `Spec => []EndsAgree`

Assumptions: those on constants (`FileAssumption`, `WindowAssumption`,
`LinkAssumption`, `ServerAssumption`, `ClientAssumption`), which every run
evaluates: sizes at least 1, a last block that is not empty, budgets in Nat.

The inductive invariant is `Inv == OpenInv /\ CounterInv /\ SafeInv`.
`OpenInv` (a socket is open while its process runs) and `CounterInv` (the
server's counters; `retryCount` may pass the limit only in GONE) are inductive
alone. `SafeInv` carries the argument: every packet on the wire or in a slot is
numbered below the server's `current` (`SentPdu`, `SentWindow`), every RR or SREJ
under way is at most rcopy's `expected` and an EOF_ACK exists only after rcopy
has finished (`HonestAck`). `WindowOrder` alone is not inductive: an RR above
`expected` under way would slide `lower` past it, a packet numbered at or above
`current` would carry `expected` past it. The invariant says neither exists.
For the same reason `highest < current` is needed in BUFFER and FLUSH, where
rcopy jumps to `highest`. Each action of the server is shown to give
`ServerOwes`, each of rcopy `ClientOwes`; two lemmas turn these into the
invariant's next state. For `AckedTaken` the invariant ties
`expected`, which no RR passes, to what rcopy has taken (`Taken`): the packets handed
to `write()` and, in WRITE, the one in `unwritten`. Of the bytes in the file no RR says
anything once a `write()` may fail. `WaitsClosed` has an induction of its own
(`WaitsAreClosed`). The bound on `flush` comes from the cardinality of
`FlushRun`, a subset of `expected..(highest - 1)`.

`CopyProofs` proves, for every file, window, number of lost acknowledgements and of
early timers, and wherever either program stops:

* `CopyReliable`: `Spec => CopiesWhileReliable`, each step is one of `FileCopy` or
  a stutter as long as no data packet is lost, damaged, swapped or repeated and no
  `write()` has failed (`DataUndisturbed`)
* `CopyExact`: `Spec => [](DataUndisturbed => CopyPrefix /\ CopyComplete)`

The server's half holds whatever happens (`ServerCopyInv`): a slot has the block of
its number, `final_packet_len` is the length of block `final_packet_seq`. With it
what is under way is a `Stream`: before every packet there is each of its
predecessors that rcopy still expects, so that a retransmission never comes before
its original, rcopy finds at the head what it expects or something old, and never
enters `buffer()`. END_OF_FILE resent as a data packet comes behind the real one.

`WindowProofs` proves, for every file, window and number of losses, while packets
keep their order and no timer is early (`InOrder == delays = 0 /\ disorder = 0`):

* `Bounded`: `Spec => [](InOrder => WindowBound)`
* `Retained`: `Spec => [](InOrder => RetainedUntilAcked)`
* `Resent`: `Spec => [](InOrder => ResentExact)`
* `Flushable`: `Spec => [](InOrder => FlushReady)`
* `ForwardInOrder`: `Spec => [][InOrder' => Forward]_vars`, where the file is not empty
  and its last block is not full (`NBlocks > 0`, `LastLen < BufSize`)
* `Slides`: `Spec => SlidesForward`, if besides `MaxDelays = MaxDisorder = 0`

`InOrder` is a condition on the history of the run, not on a constant: the run
EarlyTimer shows that the properties fail without it. That the circular buffer
holds the last `WindowSize` packets sent needs no condition (`Retains`); that rcopy
asks for no others is `OrderedInv`. Its core is `Talk`, what the two sides have on
the way: data packets come in rising order, but for the one an SREJ asked for
(`RisingBut`) and one the server's timer has sent again, which is alone on the
way since that timer finds both sides waiting (`Waits`, `OldAlone`); there is one
SREJ at most, not together with the packet it asks for (`SrejBefore`); RRs never fall
and never fall below `lower` (`AckOrder`). Hence an RR lies between `lower` and
`expected`, and a packet ahead of its turn is never older than `highest`. The case
of finding 2 is the exception: rcopy has taken END_OF_FILE as data, expects a
packet that does not exist, and the server's window goes back as often as a timer
expires. `RoundAgain` describes that state; there RRs still name only what the
buffer holds, so that all but the two theorems on the direction of the window
stay true.

`SetupProofs` proves, for every retry limit and every number of faults and
repetitions:

* `SetupTypeCorrect`: `SetupSpec => []SetupTypeOK`
* `OnlyInit`: `SetupSpec => []OnlyInitForks`
* `Current`: `SetupSpec => []AnswerIsCurrent`
* `OneChild`: `SetupSpec => []OneChildPerSocket`, assuming `MaxDuplicates = 0`
* `AttemptsBounded`: `SetupSpec => []Attempts`

from `SetupAssumption` and the invariant `SetupInv`. `AnswerIsCurrent` speaks of
children, rcopy sees only packets: `InboxInv` says that each answer under way to
the socket names a child forked for it whose state fits the flag (`Truthful`),
which survives because a child never forgets that it opened the file and remains
refused (`Successor`). `OnlyInitForks` needs `RequestInv`: rcopy acknowledges to
the sender of the packet it holds, which `InboxInv` makes a child and never the
listening port. `OneChild` adds that the numbers of all sockets in `children` and
`requests` are at most `socket`, so that the next one is new.

A fork that fails only takes a request away, which none of this minds.

`AttemptsBounded` bounds rcopy's sockets by `1 + MaxRetrans * (MaxFaults + 1)`. The
retry counter alone does not, because a damaged answer sets it back to 1. The
invariant `AttemptsInv` counts with it the faults spent on answers that are no
longer under way (`Spent`): each pays for `MaxRetrans` attempts more.

`PollSetProofs` proves, for every size of the table, limit of descriptors, set of
inherited descriptors and number of attempts:

* `PollSetTypeCorrect`: `Spec => []PollSetTypeOK`
* `StaysInTable`: `Spec => []InTable`
* `TellsReady`: `Spec => []PollTellsReady`, assuming `~HangsUp`
* `DescriptorsFew`: `Spec => []FewDescriptors`

from `PollSetAssumption` and the invariant `PollInv`. None of the properties is
inductive: they depend on what an earlier attempt has left in the table.
`TableInv` says it exactly: nothing, or one entry in use, that of the socket, and
`maxFileDescriptor` just above it. That a new attempt gives the same socket, and
never a lower one, which would leave `maxFileDescriptor` beyond the new table, is
`SocketInv`: all descriptors below the socket are in use and stay so.
`StdinInv` and `HeldInv` (what is open besides the inherited descriptors) give
the rest; a reporting entry names the socket, or descriptor 0, which is quiet,
or the socket itself.

`InjectionProofs` proves, for every environment, list, rate and draw, and any
number of processes and messages:

* `ListedLost`: `Spec => []ListedAreLost`
* `WellConfigured`: `Spec => []Configured`
* `FlipNoticed`: the arithmetic of `in_cksum` for bytes of any even base

from `InjectionAssumption`, `SmallBytes` and the invariant `InjectionInv`: the
first process never leaves LISTENING, and each process is `Known`, that is, its
lists are those of its phase (`Lists`), its seed and rate come from the
environment (`Settings`), and what it has lost goes with the number of its
messages (`Losses`). A process that has not called `sendErr_init` has sent
nothing, so that a fork copies no losses. `FlipNoticed` shows that a sum
folds to all ones only if it is a multiple of 2^16 - 1 (`FoldedOnes`), and that a
complemented byte, whose base is even, changes the sum by something smaller that
is not 0.

`PacketProofs` proves, for bytes of any even base, any environment, flags and
payloads, and whichever byte is flipped:

* `InjectionTypes`: `Spec => []InjectionTypeOK`
* `AcceptedOriginal`: `Spec => []AcceptedIsOriginal`

The sum of the words is a recursive function; `AllUpTo`, induction over a *set* of
numbers from the well-foundedness of `<`, is what makes it tractable: the library's
induction theorems take a predicate, which the provers cannot instantiate, a set
they can. From it follow that a sum stays within the accumulator (`SumBounds`) and
changes with a byte as its word does (`ByteChanged`). A sealed packet then sums up to
what is accepted (`SealAccepted`), and one with a byte complemented does not
(`FlipRefused`, by `FlipNoticed`). The invariant is that every packet a process keeps
is `Built`: it has the number and payload it was made from and a right checksum,
which a patched flag and a new seal preserve. The assumption that payloads do not
overflow two words holds in the code: a packet has at most 1407 bytes, and
the accumulator has room for the words of 2^17.

Only model-checked: `ImplementsCopy` with losses, which holds for the budgets of its
run and not in general (findings 1 and 2), and liveness (`Termination`,
`Delivery`, `HandshakeEnds`, `AbandonedEnds`), because ENABLED and fairness are out of
the prover's reach.

## 5. Plan

1. Done: the modules of section 2, their runs, inductive invariants and proofs.
2. Done: every safety property of a passing run but `ImplementsCopy` is proved, under
   the conditions of section 4. Left to prove: that the copy is right when data packets are lost but
   `final_packet_len` is known and no slot of rcopy's buffer is stale, which is
   the precise border of findings 1 and 2.

### Not modelled

* `checkArgs` of both programs: a sequence of tests on strings, without state. It
  compares the *number of digits* of window and buffer size with its limits, so
  that 0 passes; `WindowAssumption` and `FileAssumption` exclude that, and the
  first packet shows it.
* `networks.c` (but for `setupUdpClientToServer` and `safeGetUdpSocket`) and
  `gethostbyname.c`: thin wrappers of sockets and resolver, TCP helpers nobody calls.
* `bindMod`'s override of the port, `infoSeqNo`'s report and the debug level, which
  change nothing a property speaks of; `selectMod`, `send_Err`,
  `removeFromPollSet` and `timeout_on_eof_ack`, which nothing calls.
* Printing (`printPDU`, `window_print`, `dbg_print.c`) and the build.

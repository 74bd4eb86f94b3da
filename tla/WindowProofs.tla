----------------------------- MODULE WindowProofs -----------------------------
(***************************************************************************)
(* The window of the server and the buffer of rcopy as long as no timer     *)
(* expires early and the network keeps the order of packets, however many   *)
(* packets are lost or damaged.                                             *)
(*                                                                          *)
(* One fact needs no condition: the circular buffer holds the last packets  *)
(* sent (Retains).  The others need to know what is on the way (Talk).      *)
(* Data packets come to rcopy in rising order, except for the one it asked  *)
(* for with an SREJ (RisingBut) and for a packet that the server's timer    *)
(* sent again; since that timer finds both sides waiting, such a packet is  *)
(* alone on the way (OldAlone).  There is at most one SREJ, what it asks    *)
(* for is not on the way as well (SrejBefore), and RRs never fall           *)
(* (AckOrder).  So the number an RR carries lies between the lower edge of  *)
(* the window and what rcopy expects, and the edges stay in order           *)
(* (WindowEdges); and a packet that arrives ahead of its turn is never      *)
(* older than the last one rcopy buffered (FlushReady).                     *)
(*                                                                          *)
(* A last block that is full leaves a way out of this order: when the       *)
(* server has slid its window to END_OF_FILE and its timer sends that again *)
(* as DATA_TIMEOUT, rcopy writes it as data and waits for a packet that     *)
(* does not exist.  RRs then fall, but what they name is still in the       *)
(* buffer (RoundAgain).  SlidesForward is therefore proved for a last block *)
(* that is not full, the others for every file.                             *)
(***************************************************************************)
EXTENDS CopyProofs

InOrder == delays = 0 /\ disorder = 0

-----------------------------------------------------------------------------
(* Slots *)

\* Sequence numbers less than a window apart have different slots.
LEMMA SlotsDiffer ==
  ASSUME NEW s \in Nat, NEW t \in Nat, s < t, t - s < WindowSize
  PROVE  s % WindowSize # t % WindowSize
<1> DEFINE W == WindowSize
           q == s \div W
           r == t \div W
<1>1. W \in Nat /\ W > 0
  BY WindowAssumption
<1>2. q \in Int /\ r \in Int
  BY <1>1
<1>3. s = (W * q) + (s % W) /\ t = (W * r) + (t % W)
  BY <1>1
<1> HIDE DEF q, r
<1>4. CASE r <= q
  <2>1. W * r <= W * q
    BY <1>1, <1>2, <1>4
  <2> QED BY <1>1, <1>2, <1>3, <2>1
<1>5. CASE r >= q + 1
  <2>1. W * r >= W * q + W
    BY <1>1, <1>2, <1>5
  <2> QED BY <1>1, <1>2, <1>3, <2>1
<1> QED BY <1>2, <1>4, <1>5

-----------------------------------------------------------------------------
(* Channels *)

\* The channel new is chan, with at most p or a damaged packet behind it.
Extended(chan, new, p) ==
  /\ Len(chan) \in Nat
  /\ Len(new) \in {Len(chan), Len(chan) + 1}
  /\ \A i \in 1..Len(chan) : new[i] = chan[i]
  /\ \A i \in 1..Len(new) : i > Len(chan) => new[i] = p \/ new[i].ok = FALSE

\* What a send leaves in a channel.
LEMMA PutExtends ==
  ASSUME NEW S, NEW chan \in Seq(S), NEW p, p \in DataPdu \/ p \in AckPdu, NEW f \in Fates
  PROVE  Extended(chan, Put(chan, p, f), p)
<1> DEFINE l == Len(chan)
<1>1. l \in Nat
  BY LenProperties
<1>2. FlipBits(p).ok = FALSE
  BY DEF FlipBits, DataPdu, AckPdu
<1>3. CASE f = "lost"
  BY <1>1, <1>3 DEF Put, Extended
<1>4. CASE f # "lost"
  <2>1. PICK q \in {p, FlipBits(p)} : Put(chan, p, f) = Append(chan, q)
    BY <1>4 DEF Put
  <2>2. /\ Len(Append(chan, q)) = l + 1
        /\ \A i \in 1..l : Append(chan, q)[i] = chan[i]
        /\ Append(chan, q)[l + 1] = q
    <3>1. chan \in Seq(S \cup {q})
      BY ElementOfSeq, SeqDef
    <3> QED BY <3>1, AppendProperties DEF l
  <2> HIDE DEF l
  <2>3. \A i \in 1..(l + 1) : i > l => Append(chan, q)[i] = p \/ Append(chan, q)[i].ok = FALSE
    BY <1>1, <1>2, <2>1, <2>2
  <2> QED BY <1>1, <2>1, <2>2, <2>3 DEF l, Extended
<1> QED BY <1>3, <1>4

LEMMA TailElements ==
  ASSUME NEW S, NEW chan \in Seq(S), chan # << >>
  PROVE  /\ Len(chan) \in Nat /\ 0 < Len(chan)
         /\ Head(chan) = chan[1]
         /\ Len(Tail(chan)) = Len(chan) - 1
         /\ \A i \in 1..(Len(chan) - 1) : Tail(chan)[i] = chan[i + 1]
BY HeadTailProperties, LenProperties, EmptySeq

\* A packet whose checksum is right, with a sequence number of at least n.
From(p, n) == p.ok => n <= p.seq

\* p comes before q.
Precedes(p, q) == p.ok /\ q.ok => p.seq < q.seq

Rising(chan, n) ==
  /\ \A i \in 1..Len(chan) : From(chan[i], n)
  /\ \A i, j \in 1..Len(chan) : i < j => Precedes(chan[i], chan[j])

\* Rising order, where only the first packet may have the number 0.
RisingBehind(chan) ==
  Rising(chan, 0) /\ \A i \in 2..Len(chan) : From(chan[i], 1)

\* p is e or beyond h.
Beyond(p, e, h) == p.ok => p.seq = e \/ h < p.seq

\* p comes before q, or q is the missing packet e.
PrecedesBut(p, q, e, h) == p.ok /\ q.ok => p.seq < q.seq \/ (q.seq = e /\ h < p.seq)

\* Rising order above h, where packet e may come in anywhere.
RisingBut(chan, e, h) ==
  /\ \A i \in 1..Len(chan) : Beyond(chan[i], e, h)
  /\ \A i, j \in 1..Len(chan) : i < j => PrecedesBut(chan[i], chan[j], e, h)

LEMMA RisingPut ==
  ASSUME NEW S, NEW chan \in Seq(S), NEW n \in Nat, NEW p \in DataPdu, NEW f \in Fates,
         Rising(chan, n), n <= p.seq, \A i \in 1..Len(chan) : Precedes(chan[i], p)
  PROVE  Rising(Put(chan, p, f), n)
<1> DEFINE new == Put(chan, p, f)
           l == Len(chan)
           m == Len(new)
<1>1. /\ l \in Nat /\ m \in {l, l + 1}
      /\ \A i \in 1..l : new[i] = chan[i]
      /\ \A i \in 1..m : i > l => new[i] = p \/ new[i].ok = FALSE
  <2>1. Extended(chan, new, p)
    BY PutExtends
  <2> QED BY <2>1 DEF Extended
<1>2. /\ \A i \in 1..l : From(chan[i], n) /\ Precedes(chan[i], p)
      /\ \A i, j \in 1..l : i < j => Precedes(chan[i], chan[j])
  BY DEF Rising
<1> HIDE DEF new, l, m
<1>3. ASSUME NEW i \in 1..m PROVE From(new[i], n)
  <2>1. CASE i <= l BY <1>1, <1>2, <2>1
  <2>2. CASE i > l BY <1>1, <2>2 DEF From
  <2> QED BY <1>1, <2>1, <2>2
<1>4. ASSUME NEW i \in 1..m, NEW j \in 1..m, i < j PROVE Precedes(new[i], new[j])
  <2>1. i \in 1..l /\ new[i] = chan[i]
    BY <1>1, <1>4
  <2>2. CASE j <= l BY <1>1, <1>2, <1>4, <2>1, <2>2
  <2>3. CASE j > l BY <1>1, <1>2, <2>1, <2>3 DEF Precedes
  <2> QED BY <1>1, <2>2, <2>3
<1> QED BY <1>3, <1>4 DEF Rising, new, m

LEMMA RisingButPut ==
  ASSUME NEW S, NEW chan \in Seq(S), NEW e, NEW h, NEW p \in DataPdu, NEW f \in Fates,
         RisingBut(chan, e, h), Beyond(p, e, h), \A i \in 1..Len(chan) : PrecedesBut(chan[i], p, e, h)
  PROVE  RisingBut(Put(chan, p, f), e, h)
<1> DEFINE new == Put(chan, p, f)
           l == Len(chan)
           m == Len(new)
<1>1. /\ l \in Nat /\ m \in {l, l + 1}
      /\ \A i \in 1..l : new[i] = chan[i]
      /\ \A i \in 1..m : i > l => new[i] = p \/ new[i].ok = FALSE
  <2>1. Extended(chan, new, p)
    BY PutExtends
  <2> QED BY <2>1 DEF Extended
<1>2. /\ \A i \in 1..l : Beyond(chan[i], e, h) /\ PrecedesBut(chan[i], p, e, h)
      /\ \A i, j \in 1..l : i < j => PrecedesBut(chan[i], chan[j], e, h)
  BY DEF RisingBut
<1> HIDE DEF new, l, m
<1>3. ASSUME NEW i \in 1..m PROVE Beyond(new[i], e, h)
  <2>1. CASE i <= l BY <1>1, <1>2, <2>1
  <2>2. CASE i > l BY <1>1, <2>2 DEF Beyond
  <2> QED BY <1>1, <2>1, <2>2
<1>4. ASSUME NEW i \in 1..m, NEW j \in 1..m, i < j PROVE PrecedesBut(new[i], new[j], e, h)
  <2>1. i \in 1..l /\ new[i] = chan[i]
    BY <1>1, <1>4
  <2>2. CASE j <= l BY <1>1, <1>2, <1>4, <2>1, <2>2
  <2>3. CASE j > l BY <1>1, <1>2, <2>1, <2>3 DEF PrecedesBut
  <2> QED BY <1>1, <2>2, <2>3
<1> QED BY <1>3, <1>4 DEF RisingBut, new, m

\* Behind a packet that has been taken, numbers are beyond it.
LEMMA RisingTail ==
  ASSUME NEW chan \in Seq(DataPdu), chan # << >>, NEW n \in Nat, Rising(chan, n)
  PROVE  /\ Rising(Tail(chan), n)
         /\ chan[1].ok => Rising(Tail(chan), chan[1].seq + 1)
<1> DEFINE t == Tail(chan)
           l == Len(chan)
<1>1. l \in Nat /\ 0 < l /\ Len(t) = l - 1 /\ \A i \in 1..(l - 1) : t[i] = chan[i + 1]
  BY TailElements
<1>2. /\ \A i \in 1..l : From(chan[i], n)
      /\ \A i, j \in 1..l : i < j => Precedes(chan[i], chan[j])
      /\ \A i \in 1..l : chan[i].seq \in Nat
  <2>1. \A i \in 1..l : chan[i] \in DataPdu
    BY ElementOfSeq
  <2> QED BY <2>1 DEF Rising, DataPdu
<1> HIDE DEF t, l
<1>3. \A i \in 1..(l - 1) : From(t[i], n)
  BY <1>1, <1>2
<1>4. ASSUME NEW i \in 1..(l - 1), NEW j \in 1..(l - 1), i < j PROVE Precedes(t[i], t[j])
  BY <1>1, <1>2, <1>4
<1>5. ASSUME chan[1].ok, NEW i \in 1..(l - 1) PROVE From(t[i], chan[1].seq + 1)
  <2>1. t[i] = chan[i + 1] /\ i + 1 \in 1..l /\ 1 \in 1..l /\ 1 < i + 1
    BY <1>1
  <2>2. Precedes(chan[1], t[i]) /\ t[i].seq \in Nat /\ chan[1].seq \in Nat
    BY <1>2, <2>1
  <2> QED BY <1>5, <2>2 DEF Precedes, From
<1> QED BY <1>1, <1>3, <1>4, <1>5 DEF Rising, t, l

LEMMA RisingBehindTail ==
  ASSUME NEW chan \in Seq(DataPdu), chan # << >>, RisingBehind(chan)
  PROVE  RisingBehind(Tail(chan)) /\ Rising(Tail(chan), 1)
<1> DEFINE t == Tail(chan)
           l == Len(chan)
<1>1. l \in Nat /\ 0 < l /\ Len(t) = l - 1 /\ \A i \in 1..(l - 1) : t[i] = chan[i + 1]
  BY TailElements
<1>2. Rising(t, 0) /\ \A i \in 2..l : From(chan[i], 1)
  BY RisingTail DEF RisingBehind
<1> HIDE DEF t, l
<1>3. \A i \in 1..(l - 1) : From(t[i], 1)
  BY <1>1, <1>2
<1> QED BY <1>1, <1>2, <1>3 DEF RisingBehind, Rising, t

LEMMA RisingButTail ==
  ASSUME NEW chan \in Seq(DataPdu), chan # << >>, NEW e \in Nat, NEW h \in Nat, e < h, RisingBut(chan, e, h)
  PROVE  /\ RisingBut(Tail(chan), e, h)
         /\ chan[1].ok /\ chan[1].seq = e => Rising(Tail(chan), h + 1)
         /\ chan[1].ok /\ chan[1].seq > e => RisingBut(Tail(chan), e, chan[1].seq)
<1> DEFINE t == Tail(chan)
           l == Len(chan)
           b == chan[1].seq
<1>1. l \in Nat /\ 0 < l /\ Len(t) = l - 1 /\ \A i \in 1..(l - 1) : t[i] = chan[i + 1]
  BY TailElements
<1>2. /\ \A i \in 1..l : Beyond(chan[i], e, h)
      /\ \A i, j \in 1..l : i < j => PrecedesBut(chan[i], chan[j], e, h)
      /\ \A i \in 1..l : chan[i].seq \in Nat
  <2>1. \A i \in 1..l : chan[i] \in DataPdu
    BY ElementOfSeq
  <2> QED BY <2>1 DEF RisingBut, DataPdu
<1> HIDE DEF t, l
<1>3. \A i \in 1..(l - 1) : Beyond(t[i], e, h) /\ PrecedesBut(chan[1], t[i], e, h) /\ t[i].seq \in Nat
  <2> SUFFICES ASSUME NEW i \in 1..(l - 1)
               PROVE  Beyond(t[i], e, h) /\ PrecedesBut(chan[1], t[i], e, h) /\ t[i].seq \in Nat
    OBVIOUS
  <2>1. i + 1 \in 1..l /\ 1 \in 1..l /\ 1 < i + 1 /\ t[i] = chan[i + 1]
    BY <1>1
  <2> QED BY <1>2, <2>1
<1>4. \A i, j \in 1..(l - 1) : i < j => PrecedesBut(t[i], t[j], e, h)
  BY <1>1, <1>2
<1>5. b \in Nat /\ Beyond(chan[1], e, h)
  BY <1>1, <1>2
<1> HIDE DEF b
<1>6. ASSUME chan[1].ok, b = e PROVE Rising(t, h + 1)
  <2>1. \A i \in 1..(l - 1) : t[i].ok => h < t[i].seq
    BY <1>3, <1>6 DEF PrecedesBut, Beyond, b
  <2>2. \A i \in 1..(l - 1) : From(t[i], h + 1)
    BY <1>3, <2>1 DEF From
  <2>3. \A i, j \in 1..(l - 1) : i < j => Precedes(t[i], t[j])
    BY <1>3, <1>4, <2>1 DEF PrecedesBut, Precedes
  <2> QED BY <1>1, <2>2, <2>3 DEF Rising
<1>7. ASSUME chan[1].ok, b > e PROVE RisingBut(t, e, b)
  <2>1. h < b
    BY <1>5, <1>7 DEF Beyond, b
  <2>2. \A i \in 1..(l - 1) : t[i].ok => t[i].seq = e \/ b < t[i].seq
    BY <1>3, <1>7 DEF PrecedesBut, b
  <2>3. \A i, j \in 1..(l - 1) : i < j => PrecedesBut(t[i], t[j], e, b)
    BY <1>3, <1>4, <2>2 DEF PrecedesBut
  <2> QED BY <1>1, <2>2, <2>3 DEF RisingBut, Beyond
<1> QED BY <1>1, <1>3, <1>4, <1>6, <1>7 DEF RisingBut, t, b

\* The server will read flag in p.
Says(p, flag) == p.ok /\ p.flag = flag

NoSrej(chan) == \A i \in 1..Len(chan) : ~Says(chan[i], "SREJ")

\* The RRs in chan never fall, and none is below low.
AcksRise(chan, low) ==
  /\ \A i \in 1..Len(chan) : Says(chan[i], "RR") => low <= chan[i].num
  /\ \A i, j \in 1..Len(chan) :
       i < j /\ Says(chan[i], "RR") /\ Says(chan[j], "RR") => chan[i].num <= chan[j].num

\* At most one SREJ is in chan. It asks for e, which is not the last packet
\* before n.
OneSrej(chan, e, n) ==
  /\ \A i \in 1..Len(chan) : Says(chan[i], "SREJ") => chan[i].num = e /\ e + 1 < n
  /\ \A i, j \in 1..Len(chan) : Says(chan[i], "SREJ") /\ Says(chan[j], "SREJ") => i = j

LEMMA AcksRisePut ==
  ASSUME NEW chan \in Seq(AckPdu), NEW low \in Nat, NEW p \in AckPdu, NEW f \in Fates,
         AcksRise(chan, low),
         Says(p, "RR") => low <= p.num /\ \A i \in 1..Len(chan) : Says(chan[i], "RR") => chan[i].num <= p.num
  PROVE  AcksRise(Put(chan, p, f), low)
<1> DEFINE new == Put(chan, p, f)
           l == Len(chan)
           m == Len(new)
<1>1. /\ l \in Nat /\ m \in {l, l + 1}
      /\ \A i \in 1..l : new[i] = chan[i]
      /\ \A i \in 1..m : i > l => new[i] = p \/ new[i].ok = FALSE
  <2>1. Extended(chan, new, p)
    BY PutExtends
  <2> QED BY <2>1 DEF Extended
<1>2. /\ \A i \in 1..l : Says(chan[i], "RR") => low <= chan[i].num
      /\ \A i, j \in 1..l :
           i < j /\ Says(chan[i], "RR") /\ Says(chan[j], "RR") => chan[i].num <= chan[j].num
      /\ \A i \in 1..l : Says(chan[i], "RR") /\ Says(p, "RR") => chan[i].num <= p.num
  BY DEF AcksRise
<1> HIDE DEF new, l, m
<1>3. \A i \in 1..m : i > l /\ Says(new[i], "RR") => new[i] = p
  BY <1>1 DEF Says
<1>4. ASSUME NEW i \in 1..m, Says(new[i], "RR") PROVE low <= new[i].num
  BY <1>1, <1>2, <1>3, <1>4
<1>5. ASSUME NEW i \in 1..m, NEW j \in 1..m, i < j, Says(new[i], "RR"), Says(new[j], "RR")
      PROVE  new[i].num <= new[j].num
  <2>1. i \in 1..l /\ new[i] = chan[i]
    BY <1>1, <1>5
  <2>2. CASE j <= l BY <1>1, <1>2, <1>5, <2>1, <2>2
  <2>3. CASE j > l BY <1>1, <1>2, <1>3, <1>5, <2>1, <2>3
  <2> QED BY <1>1, <2>2, <2>3
<1> QED BY <1>4, <1>5 DEF AcksRise, new, m

LEMMA SrejPut ==
  ASSUME NEW chan \in Seq(AckPdu), NEW p \in AckPdu, NEW f \in Fates, NEW e, NEW n
  PROVE  /\ NoSrej(chan) /\ ~Says(p, "SREJ") => NoSrej(Put(chan, p, f))
         /\ OneSrej(chan, e, n) /\ ~Says(p, "SREJ") => OneSrej(Put(chan, p, f), e, n)
         /\ NoSrej(chan) /\ p.num = e /\ e + 1 < n => OneSrej(Put(chan, p, f), e, n)
<1> DEFINE new == Put(chan, p, f)
           l == Len(chan)
           m == Len(new)
<1>1. /\ l \in Nat /\ m \in {l, l + 1}
      /\ \A i \in 1..l : new[i] = chan[i]
      /\ \A i \in 1..m : i > l => new[i] = p \/ new[i].ok = FALSE
  <2>1. Extended(chan, new, p)
    BY PutExtends
  <2> QED BY <2>1 DEF Extended
<1> HIDE DEF new, l, m
<1>2. \A i \in 1..m : i > l /\ Says(new[i], "SREJ") => new[i] = p /\ Says(p, "SREJ")
  BY <1>1 DEF Says
<1>3. ASSUME NoSrej(chan), ~Says(p, "SREJ") PROVE NoSrej(new)
  <2>1. \A i \in 1..l : ~Says(new[i], "SREJ")
    BY <1>1, <1>3 DEF NoSrej, l
  <2> QED BY <1>1, <1>2, <1>3, <2>1 DEF NoSrej, m
<1>4. ASSUME OneSrej(chan, e, n), ~Says(p, "SREJ") PROVE OneSrej(new, e, n)
  <2>1. \A i \in 1..m : Says(new[i], "SREJ") => i \in 1..l /\ new[i] = chan[i]
    BY <1>1, <1>2, <1>4
  <2> QED BY <1>4, <2>1 DEF OneSrej, l, m
<1>5. ASSUME NoSrej(chan), p.num = e, e + 1 < n PROVE OneSrej(new, e, n)
  <2>1. \A i \in 1..m : Says(new[i], "SREJ") => i = l + 1 /\ new[i] = p
    BY <1>1, <1>2, <1>5 DEF NoSrej, l
  <2> QED BY <1>5, <2>1 DEF OneSrej, m
<1> QED BY <1>3, <1>4, <1>5 DEF new

LEMMA AcksRiseTail ==
  ASSUME NEW chan \in Seq(AckPdu), chan # << >>, NEW low, AcksRise(chan, low)
  PROVE  /\ AcksRise(Tail(chan), low)
         /\ Says(chan[1], "RR") => low <= chan[1].num /\ AcksRise(Tail(chan), chan[1].num)
<1> DEFINE t == Tail(chan)
           l == Len(chan)
           m == Len(t)
<1>1. l \in Nat /\ 0 < l /\ m = l - 1 /\ \A i \in 1..m : t[i] = chan[i + 1]
  BY TailElements
<1>2. \A i \in 1..m : i + 1 \in 1..l /\ 1 < i + 1 /\ 1 \in 1..l
  BY <1>1
<1>3. /\ \A i \in 1..l : Says(chan[i], "RR") => low <= chan[i].num
      /\ \A i, j \in 1..l :
           i < j /\ Says(chan[i], "RR") /\ Says(chan[j], "RR") => chan[i].num <= chan[j].num
  BY DEF AcksRise
<1> HIDE DEF t, l, m
<1>4. \A i \in 1..m : Says(t[i], "RR") => low <= t[i].num
  BY <1>1, <1>2, <1>3
<1>5. \A i, j \in 1..m : i < j /\ Says(t[i], "RR") /\ Says(t[j], "RR") => t[i].num <= t[j].num
  <2> SUFFICES ASSUME NEW i \in 1..m, NEW j \in 1..m, i < j, Says(t[i], "RR"), Says(t[j], "RR")
               PROVE  t[i].num <= t[j].num
    OBVIOUS
  <2>1. i + 1 \in 1..l /\ j + 1 \in 1..l /\ i + 1 < j + 1 /\ t[i] = chan[i + 1] /\ t[j] = chan[j + 1]
    BY <1>1
  <2> QED BY <1>3, <2>1
<1>6. \A i \in 1..m : Says(chan[1], "RR") /\ Says(t[i], "RR") => chan[1].num <= t[i].num
  BY <1>1, <1>2, <1>3
<1>7. Says(chan[1], "RR") => low <= chan[1].num
  BY <1>1, <1>3
<1> QED BY <1>4, <1>5, <1>6, <1>7 DEF AcksRise, t, m

LEMMA SrejTail ==
  ASSUME NEW chan \in Seq(AckPdu), chan # << >>, NEW e, NEW n
  PROVE  /\ NoSrej(chan) => NoSrej(Tail(chan))
         /\ OneSrej(chan, e, n) => OneSrej(Tail(chan), e, n)
         /\ OneSrej(chan, e, n) /\ Says(chan[1], "SREJ") =>
              NoSrej(Tail(chan)) /\ chan[1].num = e /\ e + 1 < n
<1> DEFINE t == Tail(chan)
           l == Len(chan)
           m == Len(t)
<1>1. l \in Nat /\ 0 < l /\ m = l - 1 /\ \A i \in 1..m : t[i] = chan[i + 1]
  BY TailElements
<1>2. \A i \in 1..m : i + 1 \in 1..l /\ 1 < i + 1 /\ 1 \in 1..l
  BY <1>1
<1> HIDE DEF t, l, m
<1>3. NoSrej(chan) => NoSrej(t)
  BY <1>1, <1>2 DEF NoSrej, l, m
<1> SUFFICES ASSUME OneSrej(chan, e, n)
             PROVE  /\ OneSrej(t, e, n)
                    /\ Says(chan[1], "SREJ") => NoSrej(t) /\ chan[1].num = e /\ e + 1 < n
  BY <1>3 DEF t
<1>4. /\ \A i \in 1..l : Says(chan[i], "SREJ") => chan[i].num = e /\ e + 1 < n
      /\ \A i, j \in 1..l : Says(chan[i], "SREJ") /\ Says(chan[j], "SREJ") => i = j
  BY DEF OneSrej, l
<1>5. \A i \in 1..m : Says(t[i], "SREJ") => t[i].num = e /\ e + 1 < n
  BY <1>1, <1>2, <1>4
<1>6. \A i, j \in 1..m : Says(t[i], "SREJ") /\ Says(t[j], "SREJ") => i = j
  BY <1>1, <1>2, <1>4
<1>7. \A i \in 1..m : Says(chan[1], "SREJ") => ~Says(t[i], "SREJ")
  BY <1>1, <1>2, <1>4
<1>8. Says(chan[1], "SREJ") => chan[1].num = e /\ e + 1 < n
  BY <1>1, <1>4
<1> QED BY <1>5, <1>6, <1>7, <1>8 DEF OneSrej, NoSrej, m

-----------------------------------------------------------------------------
(* The invariant *)

\* Whatever happens, the circular buffer holds the last packets that were
\* sent; only the last block can be one that is not full.
Retains ==
  /\ serverState # "FILENAME" =>
       \A s \in 1..(serverWindow.current - 1) :
         serverWindow.current <= s + WindowSize => SlotOf(serverWindow, s).seq = s
  /\ finalSeq \in {0, NBlocks}

WindowEdges ==
  serverState # "FILENAME" =>
    /\ serverWindow.upper = serverWindow.lower + WindowSize
    /\ serverWindow.current <= serverWindow.upper
    /\ 1 <= serverWindow.lower

\* The server waits only when it may not send, and its timer finds everybody
\* waiting.
Waits ==
  /\ serverState \in {"WAIT_ON_ACK", "TIMEOUT_ON_ACK"} => WindowClosed
  /\ serverState = "TIMEOUT_ON_ACK" => Quiet /\ ClientIdle
  /\ serverState = "FILENAME" => Quiet

AckOrder ==
  AcksRise(toServer, serverWindow.lower) /\ OneSrej(toServer, expected, serverWindow.current)

\* A packet that was sent again although rcopy has it is alone on the way.
OldAlone ==
  /\ toClient # << >>
  /\ Tail(toClient) = << >>
  /\ toServer = << >>
  /\ serverWindow.lower <= toClient[1].seq
  /\ serverState = "WAIT_ON_ACK"

\* An SREJ under way is what the server reads next, and rcopy has nothing to
\* read until then.
SrejFirst ==
  \/ NoSrej(toServer)
  \/ /\ Says(toServer[1], "SREJ")
     /\ serverState = "WAIT_ON_ACK"
     /\ \A k \in 1..Len(toClient) : ~toClient[k].ok

\* While an SREJ is under way, what it asks for is not.
SrejBefore ==
  NoSrej(toServer) \/ \A k \in 1..Len(toClient) : toClient[k].ok => toClient[k].seq # expected

\* In recv_data(), or about to be there when the block is written.
AtRecvData == clientState \in {"RECV_DATA", "WRITE"}

DataOrder ==
  /\ clientState = "FILENAME" => toServer = << >> /\ expected = 1 /\ RisingBehind(toClient)
  /\ clientState = "FILE_OK" => toServer = << >> /\ expected = 1 /\ Rising(toClient, 1)
  /\ AtRecvData => OldAlone \/ (Rising(toClient, expected) /\ SrejFirst)
  /\ clientState = "BUFFER" => OldAlone \/ (RisingBut(toClient, expected, highest) /\ SrejBefore)
  /\ clientState = "FLUSH" => Rising(toClient, highest + 1) /\ NoSrej(toServer)

\* The number behind the last block is that of END_OF_FILE, unless the server
\* has slid its window that far and sent END_OF_FILE again as DATA_TIMEOUT,
\* which takes a file whose last block is full.
EofLast(p, low) == p.ok /\ p.seq = NBlocks + 1 /\ p.flag # "END_OF_FILE" => low = NBlocks + 1

EofsLast(chan, low) == \A i \in 1..Len(chan) : EofLast(chan[i], low)

EofKnown ==
  /\ serverWindow.lower = NBlocks + 1 => finalSeq = 0
  /\ EofsLast(toClient, serverWindow.lower)
  /\ clientState \in {"BUFFER", "FLUSH"} /\ highest = NBlocks + 1 => eofSeq = NBlocks + 1

\* rcopy has taken END_OF_FILE as data and waits for more: the server goes
\* round its window, RRs fall, but never leave what the buffer holds.
RoundAgain ==
  /\ expected = NBlocks + 2
  /\ serverWindow.current = NBlocks + 2
  /\ finalSeq = 0
  /\ clientState \in {"RECV_DATA", "WRITE"} \cup ClientEnds
  /\ NoSrej(toServer)
  /\ \A i \in 1..Len(toServer) :
       Says(toServer[i], "RR") =>
         1 <= toServer[i].num /\ serverWindow.current <= toServer[i].num + WindowSize
  /\ \A i \in 1..Len(toClient) :
       toClient[i].ok => serverWindow.current <= toClient[i].seq + WindowSize

Sending == serverState \in {"SEND_DATA", "WAIT_ON_ACK", "TIMEOUT_ON_ACK"}

Talk == IF expected <= NBlocks + 1 THEN AckOrder /\ DataOrder /\ EofKnown ELSE RoundAgain

AllExact == \A i \in 1..Len(toClient) : PduExact(toClient[i])

OrderedInv == WindowEdges /\ Waits /\ (Sending => Talk) /\ AllExact /\ FlushReady

WindowInv == InOrder => OrderedInv

-----------------------------------------------------------------------------
(* What steps of the server do to its window *)

\* Steps that put nothing new in the window, and only AckData moves its edges.
Kept ==
  /\ serverState # "FILENAME" /\ serverState' # "FILENAME"
  /\ SameSlots(serverWindow, serverWindow')
  /\ \/ AckData
     \/ serverWindow'.lower = serverWindow.lower /\ serverWindow'.upper = serverWindow.upper
  /\ UNCHANGED <<seqNum, finalSeq, finished>>

\* The new packet behind the others.
Adds ==
  /\ serverState = "SEND_DATA" /\ serverState' \in {"SEND_DATA", "WAIT_ON_ACK"}
  /\ serverWindow.current # serverWindow.upper
  /\ \E p \in DataPdu :
       /\ p.ok /\ p.seq = seqNum /\ PduExact(p)
       /\ p.seq = NBlocks + 1 => p.flag = "END_OF_FILE"
       /\ SendToClient(p)
       /\ Added(serverWindow, serverWindow', seqNum, p)
  /\ finalSeq' = finalSeq \/ (finalSeq' = NBlocks /\ seqNum = NBlocks)
  /\ ~finished
  /\ serverState' = "WAIT_ON_ACK" => finished'
  /\ UNCHANGED <<toServer, clientOpen, serverOpen, ackFaults, delays, disorder>>

LEMMA KeptSteps ==
  ASSUME Inv, NEW idle,
         \/ SendDataWindowFull \/ SendDataReadError \/ (SendEof /\ finished)
         \/ TimeoutOnAck \/ GiveUpOnAck \/ AckTimer(idle) \/ ServerHearsAck
         \/ GiveUpOnEof \/ ResendEof \/ EofTimer(idle) \/ EofAnswered
  PROVE  Kept
<1>0. \A seq \in Nat : \A flag, len :
        /\ WindowRetag(serverWindow, seq, flag, len).lower = serverWindow.lower
        /\ WindowRetag(serverWindow, seq, flag, len).upper = serverWindow.upper
  <2>1. CASE serverState = "FILENAME"
    BY <2>1 DEF WindowRetag, Inv, SafeInv, ServerWindowInv, NoWindow
  <2>2. CASE serverState # "FILENAME"
    BY <2>2, ServerReady DEF WindowRetag, SentWindow, WindowType
  <2> QED BY <2>1, <2>2
<1>1. ASSUME serverState # "FILENAME", serverState' # "FILENAME", UNCHANGED <<serverWindow, seqNum, finalSeq, finished>>
      PROVE  Kept
  BY <1>1, SameSlotsReflexive DEF Kept
<1> USE DEF ServerExits
<1>2. CASE SendDataWindowFull BY <1>1, <1>2 DEF SendDataWindowFull
<1>3. CASE SendDataReadError BY <1>1, <1>3 DEF SendDataReadError
<1>4. CASE SendEof /\ finished BY <1>1, <1>4 DEF SendEof
<1>5. CASE TimeoutOnAck
  <2>1. /\ serverState = "TIMEOUT_ON_ACK" /\ serverState' # "FILENAME"
        /\ UNCHANGED <<seqNum, finalSeq, finished>>
    BY <1>5 DEF TimeoutOnAck
  <2>2. PICK len : serverWindow' = WindowRetag(serverWindow, serverWindow.lower, "DATA_TIMEOUT", len)
    BY <1>5 DEF TimeoutOnAck
  <2>3. SameSlots(serverWindow, serverWindow')
    BY <2>1, <2>2, ServerReady, NumberFacts, RetagKeeps
  <2> QED BY <1>0, <2>1, <2>2, <2>3, NumberFacts DEF Kept
<1>6. CASE GiveUpOnAck BY <1>1, <1>6 DEF GiveUpOnAck
<1>7. CASE AckTimer(idle) BY <1>1, <1>7 DEF AckTimer
<1>8. CASE AckCorrupted BY <1>1, <1>8 DEF AckCorrupted, TakesAck
<1>9. CASE AckSrej
  <2>1. TakesAck /\ serverState' \in {"SEND_ERROR", "SEND_DATA"}
    BY <1>9 DEF AckSrej
  <2>2. /\ serverState = "WAIT_ON_ACK" /\ toServer # << >>
        /\ UNCHANGED <<seqNum, finalSeq, finished>>
    BY <2>1 DEF TakesAck
  <2>3. PICK len : serverWindow' = WindowRetag(serverWindow, Head(toServer).num, "SREJ_RETRAN", len)
    BY <1>9 DEF AckSrej
  <2>4. SameSlots(serverWindow, serverWindow')
    BY <2>2, <2>3, ServerReady, AckTaken, RetagKeeps
  <2> QED BY <1>0, <2>1, <2>2, <2>3, <2>4, AckTaken DEF Kept
<1>10. CASE AckEof BY <1>1, <1>10 DEF AckEof, TakesAck
<1>11. CASE AckFinal BY <1>1, <1>11 DEF AckFinal, TakesAck
<1>12. CASE AckData
  <2>1. TakesAck /\ serverState' = "SEND_DATA"
    BY <1>12 DEF AckData
  <2>2. /\ serverState = "WAIT_ON_ACK" /\ toServer # << >>
        /\ UNCHANGED <<seqNum, finalSeq, finished>>
    BY <2>1 DEF TakesAck
  <2> DEFINE rr == Head(toServer).num
             slid == WindowSlide(serverWindow, rr)
  <2>3. rr \in Nat /\ serverWindow \in SentWindow(serverWindow.current)
    BY <2>2, AckTaken, ServerReady
  <2>4. SameSlots(serverWindow, slid) /\ slid \in SentWindow(serverWindow.current)
    BY <2>3, SlideKeeps, WindowSlideType
  <2>5. SameSlots(slid, WindowRemove(slid, rr))
    BY <2>3, <2>4, RemoveKeeps
  <2>6. serverWindow' = WindowRemove(slid, rr)
    BY <1>12 DEF AckData
  <2>7. SameSlots(serverWindow, serverWindow')
    BY <2>4, <2>5, <2>6, SameSlotsTransitive
  <2> QED BY <1>12, <2>1, <2>2, <2>7 DEF Kept
<1>13. CASE GiveUpOnEof BY <1>1, <1>13 DEF GiveUpOnEof
<1>14. CASE ResendEof BY <1>1, <1>14 DEF ResendEof
<1>15. CASE EofTimer(idle) BY <1>1, <1>15 DEF EofTimer
<1>16. CASE EofAnswered BY <1>1, <1>16 DEF EofAnswered
<1> QED
  BY <1>2, <1>3, <1>4, <1>5, <1>6, <1>7, <1>8, <1>9, <1>10, <1>11, <1>12, <1>13,
     <1>14, <1>15, <1>16
     DEF ServerHearsAck

LEMMA AddsSteps ==
  ASSUME Inv, ServerCopyInv, SendBlock \/ (SendEof /\ ~finished)
  PROVE  Adds
<1>1. serverState = "SEND_DATA" /\ serverWindow.current # serverWindow.upper
  BY DEF SendBlock, SendEof, WindowFull
<1>2. serverWindow \in WindowType /\ seqNum \in Nat /\ NBlocks \in Nat
  BY <1>1, ServerReady, FileAssumption DEF SentWindow, CounterInv
<1>3. CASE SendBlock
  <2> DEFINE p == CreatePdu("DATA", seqNum, blocksRead', HeaderLen + BlockLen(blocksRead'))
  <2>1. /\ blocksRead < NBlocks /\ blocksRead' = blocksRead + 1 /\ blocksRead \in 0..NBlocks
        /\ seqNum = blocksRead + 1
        /\ serverState' = serverState
        /\ UNCHANGED <<finished, toServer, clientOpen, serverOpen, ackFaults, delays, disorder>>
    BY <1>3 DEF SendBlock, Inv, CounterInv, ServerCopyInv, ServerCounted
  <2>2. SendToClient(p) /\ serverWindow' = WindowCurUpdate(WindowAdd(serverWindow, seqNum, p))
    BY <1>3 DEF SendBlock
  <2>3. blocksRead' \in Blocks /\ "DATA" \in DataFlags
    BY <1>2, <2>1 DEF Blocks, DataFlags
  <2>4. p \in DataPdu /\ p.ok /\ p.seq = seqNum /\ p.seq # NBlocks + 1
    BY <1>2, <2>1, <2>3, Lengths DEF CreatePdu, DataPdu, Blocks
  <2>41. PduExact(p)
    BY <1>2, <2>1 DEF CreatePdu, PduExact, Exact, PduLen
  <2>5. Added(serverWindow, serverWindow', seqNum, p)
    BY <1>2, <2>2, AddStores
  <2>6. ~finished
    BY <2>1 DEF ServerCopyInv, ServerCounted
  <2>7. finalSeq' = finalSeq \/ (finalSeq' = NBlocks /\ seqNum = NBlocks)
    <3>1. finalSeq' = finalSeq \/ (finalSeq' = seqNum /\ p.len # DataPacketLen)
      BY <1>3 DEF SendBlock
    <3>2. p.len = HeaderLen + BlockLen(seqNum)
      BY <2>1 DEF CreatePdu
    <3>3. p.len # DataPacketLen => seqNum = NBlocks
      BY <3>2 DEF BlockLen, DataPacketLen
    <3> QED BY <3>1, <3>3
  <2> HIDE DEF p
  <2> QED BY <1>1, <2>1, <2>2, <2>4, <2>41, <2>5, <2>6, <2>7 DEF Adds
<1>4. CASE SendEof /\ ~finished
  <2> DEFINE p == CreatePdu("END_OF_FILE", seqNum, 0, HeaderLen + 1)
  <2>1. /\ serverState' = "WAIT_ON_ACK" /\ finished'
        /\ UNCHANGED <<finalSeq, toServer, clientOpen, serverOpen, ackFaults, delays, disorder>>
    BY <1>4 DEF SendEof
  <2>2. SendToClient(p) /\ serverWindow' = WindowCurUpdate(WindowAdd(serverWindow, seqNum, p))
    BY <1>4 DEF SendEof
  <2>3. p \in DataPdu /\ p.ok /\ p.seq = seqNum /\ p.flag = "END_OF_FILE"
    BY <1>2, Lengths DEF CreatePdu, DataPdu, DataFlags
  <2>31. PduExact(p)
    <3>1. seqNum = NBlocks + 1
      BY <1>4 DEF SendEof, ServerCopyInv, ServerCounted
    <3> QED BY <1>2, <2>3, <3>1 DEF PduExact, Exact, Blocks
  <2>4. Added(serverWindow, serverWindow', seqNum, p)
    BY <1>2, <2>2, AddStores
  <2> HIDE DEF p
  <2> QED BY <1>1, <1>4, <2>1, <2>2, <2>3, <2>31, <2>4 DEF Adds
<1> QED BY <1>3, <1>4

LEMMA WindowNumbers ==
  ASSUME Inv, ServerCopyInv, serverState # "FILENAME"
  PROVE  /\ serverWindow \in WindowType /\ serverWindow.size = WindowSize
         /\ serverWindow.current \in Nat /\ serverWindow.lower \in Nat /\ serverWindow.upper \in Nat
         /\ WindowSize \in Nat /\ 0 < WindowSize /\ NBlocks \in Nat
         /\ expected \in Nat /\ 1 <= expected
         /\ serverWindow.lower <= expected /\ expected <= serverWindow.current
         /\ seqNum \in Nat /\ 1 <= seqNum /\ seqNum <= NBlocks + 1
         /\ finished => serverWindow.current = NBlocks + 2 /\ seqNum = NBlocks + 1
         /\ ~finished => serverWindow.current = seqNum
<1>1. serverWindow \in WindowType /\ serverWindow.size = WindowSize
  BY ServerReady DEF SentWindow
<1>2. serverWindow.current \in Nat /\ serverWindow.lower \in Nat /\ serverWindow.upper \in Nat
  BY <1>1 DEF WindowType
<1>3. /\ expected \in Nat /\ serverWindow.lower <= expected /\ expected <= serverWindow.current
      /\ 1 <= expected
  BY NumberFacts, ClientReady DEF ClientInv
<1>4. /\ seqNum \in Nat /\ blocksRead \in 0..NBlocks /\ seqNum = blocksRead + 1 /\ NBlocks \in Nat
      /\ finished => blocksRead = NBlocks
  BY FileAssumption DEF Inv, CounterInv, ServerCopyInv, ServerCounted
<1>5. serverWindow.current = IF finished THEN seqNum + 1 ELSE seqNum
  BY DEF ServerCopyInv, ServerStored
<1> QED BY <1>1, <1>2, <1>3, <1>4, <1>5, WindowAssumption

LEMMA ServerStepKinds ==
  ASSUME Inv, ServerCopyInv, NEW idle, ServerNext(idle)
  PROVE  ServerFilename \/ Adds \/ Kept
BY KeptSteps, AddsSteps DEF ServerNext, ServerSends

LEMMA RetainsInit == Init => Retains /\ WindowInv
<1> SUFFICES ASSUME Init PROVE Retains /\ WindowInv
  OBVIOUS
<1>1. serverState = "FILENAME" /\ finalSeq = 0 /\ clientState = "FILENAME" /\ toClient = << >> /\ toServer = << >>
  BY DEF Init, ServerInit, ClientInit, LinkInit
<1>2. Retains
  BY <1>1 DEF Retains
<1>3. OrderedInv
  BY <1>1 DEF OrderedInv, WindowEdges, Waits, Quiet, Sending, AllExact, FlushReady
<1> QED BY <1>2, <1>3 DEF WindowInv

LEMMA RetainsStep ==
  ASSUME Inv, ServerCopyInv, Retains, [Next]_vars
  PROVE  Retains'
<1>1. CASE UNCHANGED serverVars
  BY <1>1 DEF serverVars, Retains
<1>2. CASE ServerStep
  <2>1. ServerFilename \/ Adds \/ Kept
    BY <1>2, ServerStepKinds DEF ServerStep
  <2>2. CASE ServerFilename
    BY <2>2 DEF ServerFilename, WindowCreate, Retains
  <2>3. CASE Adds
    <3>1. PICK p \in DataPdu : p.seq = seqNum /\ Added(serverWindow, serverWindow', seqNum, p)
      BY <2>3 DEF Adds
    <3>2. /\ serverState # "FILENAME" /\ ~finished
          /\ finalSeq' = finalSeq \/ finalSeq' = NBlocks
      BY <2>3 DEF Adds
    <3>3. /\ serverWindow.current = seqNum /\ seqNum \in Nat /\ WindowSize \in Nat /\ 0 < WindowSize
          /\ serverWindow.size = WindowSize /\ serverWindow'.size = WindowSize
          /\ serverWindow'.current = seqNum + 1
      BY <3>1, <3>2, WindowNumbers DEF Added
    <3>4. SlotOf(serverWindow', seqNum).seq = seqNum
      BY <3>1 DEF Added
    <3>5. \A i \in 0..(WindowSize - 1) : i # seqNum % WindowSize => serverWindow'.buf[i].seq = serverWindow.buf[i].seq
      BY <3>1 DEF Added
    <3>6. ASSUME NEW s \in 1..(seqNum - 1), seqNum + 1 <= s + WindowSize
          PROVE  SlotOf(serverWindow', s).seq = s
      <4>0. s \in Nat /\ seqNum \in Nat /\ s < seqNum /\ seqNum - s < WindowSize
        BY <3>3, <3>6
      <4>1. s % WindowSize # seqNum % WindowSize
        BY <4>0, SlotsDiffer
      <4>2. s % WindowSize \in 0..(WindowSize - 1)
        BY SlotIndex
      <4>3. SlotOf(serverWindow, s).seq = s
        BY <3>2, <3>3, <3>6 DEF Retains
      <4> QED BY <3>3, <3>5, <4>1, <4>2, <4>3 DEF SlotOf
    <3>7. \A s \in 1..(serverWindow'.current - 1) :
            serverWindow'.current <= s + WindowSize => SlotOf(serverWindow', s).seq = s
      BY <3>3, <3>4, <3>6
    <3> QED BY <3>2, <3>7 DEF Retains
  <2>4. CASE Kept
    <3>1. /\ serverState # "FILENAME" /\ SameSlots(serverWindow, serverWindow')
          /\ finalSeq' = finalSeq
      BY <2>4 DEF Kept
    <3>2. serverWindow.current \in Nat /\ serverWindow.size = WindowSize
      BY <3>1, WindowNumbers
    <3>3. serverWindow'.current = serverWindow.current
      BY <3>1 DEF SameSlots
    <3>4. \A s \in 1..(serverWindow.current - 1) : SlotOf(serverWindow', s).seq = SlotOf(serverWindow, s).seq
      BY <3>1, <3>2, SameSlotsExact
    <3> QED BY <3>1, <3>3, <3>4 DEF Retains
  <2> QED BY <2>1, <2>2, <2>3, <2>4
<1> QED BY <1>1, <1>2 DEF Next, ClientStep, NetworkStep, Terminated, vars

-----------------------------------------------------------------------------
(* Delays and disorder are counted and never forgotten. *)

LEMMA TimerIsRight ==
  ASSUME Inv, NEW idle, TimerExpires(idle)
  PROVE  /\ delays' \in {delays, delays + 1}
         /\ InOrder' => Quiet /\ idle
BY DEF Inv, SafeInv, BudgetInv, TimerExpires, InOrder

LEMMA InOrderBefore ==
  ASSUME Inv, [Next]_vars, InOrder'
  PROVE  InOrder /\ ~NetworkStep
<1>0. delays \in Nat /\ disorder \in Nat
  BY DEF Inv, SafeInv, BudgetInv
<1> DEFINE Counts == delays' \in {delays, delays + 1} /\ disorder' = disorder
<1>1. ASSUME NEW idle, ServerNext(idle) PROVE Counts
  <2> USE DEF TakesAck
  <2>1. CASE ServerFilename BY <2>1 DEF ServerFilename
  <2>2. CASE ServerSends
    BY <2>2 DEF ServerSends, SendDataWindowFull, SendDataReadError, SendEof, SendBlock, linkVars
  <2>3. CASE TimeoutOnAck BY <2>3 DEF TimeoutOnAck
  <2>4. CASE GiveUpOnAck BY <2>4 DEF GiveUpOnAck
  <2>5. CASE AckTimer(idle)
    <3>1. disorder' = disorder /\ (TimerExpires(idle) \/ delays' = delays)
      BY <2>5 DEF AckTimer
    <3> QED BY <3>1, TimerIsRight
  <2>6. CASE ServerHearsAck
    BY <2>6 DEF ServerHearsAck, AckCorrupted, AckSrej, AckEof, AckFinal, AckData
  <2>7. CASE GiveUpOnEof \/ ResendEof \/ EofAnswered
    BY <2>7 DEF GiveUpOnEof, ResendEof, EofAnswered
  <2>8. CASE EofTimer(idle)
    <3>1. disorder' = disorder /\ TimerExpires(idle)
      BY <2>8 DEF EofTimer
    <3> QED BY <3>1, TimerIsRight
  <2> QED BY <1>1, <2>1, <2>2, <2>3, <2>4, <2>5, <2>6, <2>7, <2>8 DEF ServerNext
<1>2. ASSUME NEW idle, ClientNext(idle) PROVE Counts
  <2> USE DEF Takes, Flushes
  <2>1. CASE FilenameTimer(idle)
    <3>1. disorder' = disorder /\ TimerExpires(idle)
      BY <2>1 DEF FilenameTimer
    <3> QED BY <3>1, TimerIsRight
  <2>2. CASE FilenameAnswered \/ FileOk \/ DataCorrupted
    BY <2>2 DEF FilenameAnswered, FileOk, DataCorrupted
  <2>3. CASE DataTimer
    <3>1. disorder' = disorder /\ TimerExpires(~serverOpen)
      BY <2>3 DEF DataTimer
    <3> QED BY <3>1, TimerIsRight
  <2>4. CASE RecvEof \/ RecvInOrder \/ RecvAhead \/ RecvOld
    BY <2>4 DEF RecvEof, RecvInOrder, RecvAhead, RecvOld
  <2>5. CASE BufferOld \/ BufferInOrder \/ BufferAhead
    BY <2>5 DEF BufferOld, BufferInOrder, BufferAhead
  <2>6. CASE WriteAcknowledged
    BY <2>6 DEF WriteAcknowledged, linkVars
  <2>7. CASE FlushEof \/ FlushAll \/ FlushHole
    BY <2>7 DEF FlushEof, FlushAll, FlushHole
  <2> QED BY <1>2, <2>1, <2>2, <2>3, <2>4, <2>5, <2>6, <2>7 DEF ClientNext, ClientReceivesData
<1>3. CASE ServerStep \/ ClientStep
  <2>1. Counts
    BY <1>1, <1>2, <1>3 DEF ServerStep, ClientStep
  <2>2. ~NetworkStep
    BY <1>0, <2>1 DEF NetworkStep, NetworkDisorder
  <2> QED BY <1>0, <2>1, <2>2 DEF InOrder
<1>4. CASE NetworkStep
  BY <1>0, <1>4 DEF NetworkStep, NetworkDisorder, InOrder
<1>5. CASE UNCHANGED vars
  <2>1. UNCHANGED <<delays, disorder>>
    BY <1>5 DEF vars, linkVars
  <2> QED BY <1>0, <2>1 DEF InOrder, NetworkStep, NetworkDisorder
<1> QED BY <1>3, <1>4, <1>5 DEF Next, Terminated

-----------------------------------------------------------------------------
(* The server's steps *)

LEMMA Channels ==
  ASSUME Inv
  PROVE  /\ toClient \in Seq(DataPdu)
         /\ \A i \in 1..Len(toClient) :
              toClient[i] \in DataPdu /\ toClient[i].seq \in Nat /\ toClient[i].seq < serverWindow.current
         /\ toServer \in Seq(AckPdu)
         /\ \A i \in 1..Len(toServer) :
              /\ toServer[i] \in AckPdu /\ toServer[i].num \in Nat
              /\ Says(toServer[i], "RR") => toServer[i].num <= expected
              /\ Says(toServer[i], "EOF_ACK") => clientState = "FINISHED"
<1>1. toClient \in Seq(SentPdu(serverWindow.current)) /\ toServer \in Seq(HonestAck(expected, clientState))
  BY DEF Inv, SafeInv, ChannelInv
<1>2. SentPdu(serverWindow.current) \subseteq DataPdu /\ HonestAck(expected, clientState) \subseteq AckPdu
  BY DEF SentPdu, HonestAck
<1>3. toClient \in Seq(DataPdu) /\ toServer \in Seq(AckPdu)
  BY <1>1, <1>2, SeqDef
<1>4. \A i \in 1..Len(toClient) : toClient[i] \in SentPdu(serverWindow.current)
  BY <1>1, ElementOfSeq
<1>5. \A i \in 1..Len(toServer) : toServer[i] \in HonestAck(expected, clientState)
  BY <1>1, ElementOfSeq
<1>6. \A p \in SentPdu(serverWindow.current) : p \in DataPdu /\ p.seq \in Nat /\ p.seq < serverWindow.current
  BY DEF SentPdu, DataPdu
<1>7. \A p \in HonestAck(expected, clientState) :
        /\ p \in AckPdu /\ p.num \in Nat
        /\ Says(p, "RR") => p.num <= expected
        /\ Says(p, "EOF_ACK") => clientState = "FINISHED"
  BY DEF HonestAck, AckPdu, Says
<1> QED BY <1>3, <1>4, <1>5, <1>6, <1>7

LEMMA SendPuts ==
  ASSUME NEW p, SendToClient(p)
  PROVE  /\ toClient' = toClient \/ \E f \in Fates : toClient' = Put(toClient, p, f)
         /\ ~clientOpen => toClient' = toClient
BY DEF SendToClient

\* A send keeps what is true of all packets under way and of the new one.
LEMMA SendExact ==
  ASSUME Inv, AllExact, NEW p \in DataPdu, SendToClient(p), PduExact(p)
  PROVE  AllExact'
<1>1. CASE toClient' = toClient
  BY <1>1 DEF AllExact
<1>2. ASSUME NEW f \in Fates, toClient' = Put(toClient, p, f) PROVE AllExact'
  <2>1. Extended(toClient, toClient', p)
    BY <1>2, PutExtends, Channels
  <2>2. \A i \in 1..Len(toClient') : i > Len(toClient) => PduExact(toClient'[i])
    BY <2>1 DEF Extended, PduExact
  <2>3. \A i \in 1..Len(toClient) : PduExact(toClient'[i])
    BY <2>1 DEF Extended, AllExact
  <2>4. \A i \in 1..Len(toClient') : i \in 1..Len(toClient) \/ i > Len(toClient)
    BY <2>1 DEF Extended
  <2> QED BY <2>2, <2>3, <2>4 DEF AllExact
<1> QED BY <1>1, <1>2, SendPuts

LEMMA EofsLastPut ==
  ASSUME NEW chan \in Seq(DataPdu), NEW low, EofsLast(chan, low), NEW p \in DataPdu, EofLast(p, low),
         NEW f \in Fates
  PROVE  EofsLast(Put(chan, p, f), low)
<1> DEFINE new == Put(chan, p, f)
           l == Len(chan)
           m == Len(new)
<1>1. /\ l \in Nat /\ m \in {l, l + 1}
      /\ \A i \in 1..l : new[i] = chan[i]
      /\ \A i \in 1..m : i > l => new[i] = p \/ new[i].ok = FALSE
  <2>1. Extended(chan, new, p)
    BY PutExtends
  <2> QED BY <2>1 DEF Extended
<1>2. \A i \in 1..l : EofLast(chan[i], low)
  BY DEF EofsLast
<1> HIDE DEF new, l, m
<1>3. ASSUME NEW i \in 1..m PROVE EofLast(new[i], low)
  <2>1. CASE i <= l BY <1>1, <1>2, <2>1
  <2>2. CASE i > l BY <1>1, <2>2 DEF EofLast
  <2> QED BY <1>1, <2>1, <2>2
<1> QED BY <1>3 DEF EofsLast, new, m

\* send_data(): the new packet is behind everything under way.
LEMMA AddsTalk ==
  ASSUME Inv, ServerCopyInv, Talk, Adds, UNCHANGED clientVars
  PROVE  Talk'
<1> DEFINE C == serverWindow.current
<1>1. PICK p \in DataPdu :
        /\ p.ok /\ p.seq = seqNum
        /\ p.seq = NBlocks + 1 => p.flag = "END_OF_FILE"
        /\ SendToClient(p)
        /\ Added(serverWindow, serverWindow', seqNum, p)
  BY DEF Adds
<1>2. /\ serverState = "SEND_DATA" /\ ~finished /\ toServer' = toServer
      /\ finalSeq' = finalSeq \/ (finalSeq' = NBlocks /\ seqNum = NBlocks)
  BY DEF Adds
<1>3. /\ serverWindow'.current = C + 1 /\ serverWindow'.lower = serverWindow.lower
  BY <1>1 DEF Added
<1>4. /\ C = seqNum /\ C \in Nat /\ C <= NBlocks + 1 /\ expected \in Nat /\ expected <= C /\ NBlocks \in Nat
      /\ serverWindow.lower \in Nat /\ serverWindow.lower <= expected
  BY <1>2, WindowNumbers
<1>5. p.seq = C
  BY <1>1, <1>4
<1> HIDE DEF C
<1>6. AckOrder /\ DataOrder /\ EofKnown
  BY <1>4 DEF Talk
<1>7. UNCHANGED <<expected, highest, clientState, eofSeq, clientOpen>>
  BY DEF clientVars, Adds
<1>8. /\ toClient \in Seq(DataPdu)
      /\ \A i \in 1..Len(toClient) : toClient[i].seq \in Nat /\ toClient[i].seq < C
  BY Channels DEF C
<1>9. AckOrder'
  <2>1. OneSrej(toServer, expected, C + 1)
    BY <1>4, <1>6 DEF AckOrder, OneSrej, C
  <2> QED BY <1>2, <1>3, <1>6, <1>7, <2>1 DEF AckOrder
<1>10. EofKnown'
  <2>1. EofLast(p, serverWindow.lower)
    BY <1>1 DEF EofLast
  <2>2. EofsLast(toClient', serverWindow.lower)
    BY <1>1, <1>6, <1>8, <2>1, EofsLastPut, SendPuts DEF EofKnown
  <2>3. serverWindow.lower = NBlocks + 1 => finalSeq' = finalSeq
    BY <1>2, <1>4
  <2> QED BY <1>3, <1>6, <1>7, <2>2, <2>3 DEF EofKnown
<1>11. DataOrder'
  <2>1. ~OldAlone /\ (SrejFirst => NoSrej(toServer))
    BY <1>2 DEF OldAlone, SrejFirst
  <2>2. CASE ~clientOpen
    <3>1. clientState \in ClientEnds
      BY <2>2 DEF Inv, OpenInv
    <3> QED BY <1>7, <3>1 DEF DataOrder, AtRecvData, ClientEnds
  <2>3. CASE clientOpen /\ toClient' = toClient
    BY <1>2, <1>6, <1>7, <2>1, <2>3 DEF DataOrder, AtRecvData, SrejFirst, SrejBefore
  <2>4. ASSUME NEW f \in Fates, toClient' = Put(toClient, p, f) PROVE DataOrder'
    <3>1. \A i \in 1..Len(toClient) : Precedes(toClient[i], p)
      BY <1>5, <1>8 DEF Precedes
    <3>2. \A n \in Nat : Rising(toClient, n) /\ n <= C => Rising(toClient', n)
      BY <1>5, <1>8, <2>4, <3>1, RisingPut
    <3>3. clientState = "FILENAME" => RisingBehind(toClient')
      <4>1. SUFFICES ASSUME clientState = "FILENAME" PROVE RisingBehind(toClient')
        OBVIOUS
      <4>2. Rising(toClient, 0) /\ \A i \in 2..Len(toClient) : From(toClient[i], 1)
        BY <1>6, <4>1 DEF DataOrder, AtRecvData, RisingBehind
      <4>3. Extended(toClient, toClient', p)
        BY <1>8, <2>4, PutExtends
      <4>4. ASSUME NEW i \in 2..Len(toClient') PROVE From(toClient'[i], 1)
        <5>1. CASE i <= Len(toClient) BY <4>2, <4>3, <5>1 DEF Extended
        <5>2. CASE i > Len(toClient)
          <6>1. toClient'[i] = p \/ toClient'[i].ok = FALSE
            BY <4>3, <5>2 DEF Extended
          <6>2. From(p, 1)
            BY <1>4, <1>5, ClientReady DEF From, ClientInv
          <6> QED BY <6>1, <6>2 DEF From
        <5> QED BY <4>3, <5>1, <5>2 DEF Extended
      <4> QED BY <1>4, <3>2, <4>2, <4>4 DEF RisingBehind
    <3>4. clientState = "FILE_OK" => Rising(toClient', 1)
      BY <1>4, <1>6, <3>2 DEF DataOrder, AtRecvData
    <3>5. AtRecvData => Rising(toClient', expected) /\ NoSrej(toServer)
      BY <1>4, <1>6, <2>1, <3>2 DEF DataOrder, AtRecvData
    <3>6. clientState \in {"BUFFER", "FLUSH"} => highest \in Nat /\ expected <= highest /\ highest < C
      BY <1>2, <1>4, ClientReady DEF ClientInv, HighestBelowCurrent, C
    <3>7. clientState = "FLUSH" => Rising(toClient', highest + 1)
      BY <1>4, <1>6, <3>2, <3>6 DEF DataOrder, AtRecvData
    <3>8. clientState = "BUFFER" =>
            /\ RisingBut(toClient', expected, highest)
            /\ NoSrej(toServer) \/ \A k \in 1..Len(toClient') : toClient'[k].ok => toClient'[k].seq # expected
      <4>1. SUFFICES ASSUME clientState = "BUFFER" PROVE
            /\ RisingBut(toClient', expected, highest)
            /\ NoSrej(toServer) \/ \A k \in 1..Len(toClient') : toClient'[k].ok => toClient'[k].seq # expected
        OBVIOUS
      <4>2. RisingBut(toClient, expected, highest) /\ SrejBefore
        BY <1>6, <2>1, <4>1 DEF DataOrder, AtRecvData
      <4>3. Beyond(p, expected, highest) /\ \A i \in 1..Len(toClient) : PrecedesBut(toClient[i], p, expected, highest)
        BY <1>5, <1>8, <3>6, <4>1 DEF Beyond, PrecedesBut
      <4>4. RisingBut(toClient', expected, highest)
        BY <1>8, <2>4, <4>2, <4>3, RisingButPut
      <4>5. Extended(toClient, toClient', p)
        BY <1>8, <2>4, PutExtends
      <4>6. p.seq # expected
        <5>1. expected < highest
          BY <1>2, <4>1, ClientReady DEF HighestBelowCurrent
        <5> QED BY <1>4, <1>5, <3>6, <4>1, <5>1
      <4>7. ASSUME NEW k \in 1..Len(toClient'), toClient'[k].ok,
                   \A j \in 1..Len(toClient) : toClient[j].ok => toClient[j].seq # expected
            PROVE  toClient'[k].seq # expected
        <5>1. CASE k <= Len(toClient) BY <4>5, <4>7, <5>1 DEF Extended
        <5>2. CASE k > Len(toClient) BY <4>5, <4>6, <4>7, <5>2 DEF Extended
        <5> QED BY <4>5, <5>1, <5>2 DEF Extended
      <4> QED BY <4>2, <4>4, <4>7 DEF SrejBefore
    <3> QED BY <1>2, <1>6, <1>7, <3>3, <3>4, <3>5, <3>7, <3>8 DEF DataOrder, AtRecvData, SrejFirst, SrejBefore
  <2> QED BY <1>1, <2>2, <2>3, <2>4, SendPuts
<1> QED BY <1>4, <1>7, <1>9, <1>10, <1>11 DEF Talk

\* Steps that change nothing but the server's state.
LEMMA QuietTalk ==
  ASSUME Talk, serverState = "SEND_DATA" \/ Quiet,
         UNCHANGED <<toClient, toServer, serverWindow, finalSeq, clientVars>>
  PROVE  Talk'
<1>1. UNCHANGED <<expected, highest, clientState, eofSeq>>
  BY DEF clientVars
<1>2. ~OldAlone /\ (SrejFirst => NoSrej(toServer))
  BY DEF OldAlone, SrejFirst, Quiet, NoSrej
<1>3. CASE expected <= NBlocks + 1
  <2>1. AckOrder' /\ DataOrder' /\ EofKnown'
    BY <1>1, <1>2, <1>3 DEF Talk, AckOrder, DataOrder, AtRecvData, SrejFirst, SrejBefore, EofKnown
  <2> QED BY <1>1, <1>3, <2>1 DEF Talk
<1>4. CASE ~(expected <= NBlocks + 1)
  <2>1. RoundAgain'
    BY <1>1, <1>4 DEF Talk, RoundAgain
  <2> QED BY <1>1, <1>4, <2>1 DEF Talk
<1> QED BY <1>3, <1>4

\* What the server takes in wait_on_ack().
LEMMA AckHead ==
  ASSUME Inv, TakesAck
  PROVE  /\ toServer # << >> /\ Head(toServer) = toServer[1]
         /\ toServer[1] \in AckPdu /\ toServer[1].num \in Nat
         /\ Says(toServer[1], "RR") => toServer[1].num <= expected
         /\ serverState = "WAIT_ON_ACK"
         /\ ~OldAlone
         /\ UNCHANGED <<finalSeq, finished, seqNum>>
<1>1. toServer # << >> /\ serverState = "WAIT_ON_ACK" /\ UNCHANGED <<finalSeq, finished, seqNum>>
  BY DEF TakesAck
<1>2. 1 \in 1..Len(toServer) /\ Head(toServer) = toServer[1]
  BY <1>1, Channels, TailElements
<1> QED BY <1>1, <1>2, Channels DEF OldAlone

LEMMA CorruptedTalk ==
  ASSUME Inv, Talk, AckCorrupted, UNCHANGED clientVars
  PROVE  Talk'
<1>1. /\ TakesAck /\ ~toServer[1].ok /\ toServer' = Tail(toServer) /\ serverState' = serverState
      /\ UNCHANGED <<serverWindow, toClient>>
  BY AckHead DEF AckCorrupted, ServerReceives
<1>2. /\ toServer # << >> /\ ~OldAlone /\ toServer \in Seq(AckPdu) /\ finalSeq' = finalSeq
  BY <1>1, AckHead, Channels
<1>3. UNCHANGED <<expected, highest, clientState, eofSeq>>
  BY DEF clientVars
<1>4. /\ SrejFirst => NoSrej(toServer')
      /\ NoSrej(toServer) => NoSrej(toServer')
  BY <1>1, <1>2, SrejTail DEF SrejFirst, Says
<1>5. CASE expected <= NBlocks + 1
  <2>1. AckOrder'
    BY <1>1, <1>2, <1>3, <1>5, AcksRiseTail, SrejTail DEF Talk, AckOrder
  <2>2. DataOrder'
    BY <1>1, <1>2, <1>3, <1>4, <1>5 DEF Talk, DataOrder, AtRecvData, SrejFirst, SrejBefore
  <2>3. EofKnown'
    BY <1>1, <1>2, <1>3, <1>5 DEF Talk, EofKnown
  <2> QED BY <1>3, <1>5, <2>1, <2>2, <2>3 DEF Talk
<1>6. CASE ~(expected <= NBlocks + 1)
  <2>1. RoundAgain
    BY <1>6 DEF Talk
  <2>2. \A i \in 1..Len(toServer') :
          Says(toServer'[i], "RR") =>
            1 <= toServer'[i].num /\ serverWindow.current <= toServer'[i].num + WindowSize
    BY <1>1, <1>2, <2>1, TailElements DEF RoundAgain
  <2>3. RoundAgain'
    BY <1>1, <1>2, <1>3, <1>4, <2>1, <2>2 DEF RoundAgain
  <2> QED BY <1>3, <1>6, <2>3 DEF Talk
<1> QED BY <1>5, <1>6

\* An RR that slides the window.
LEMMA AckDataTalk ==
  ASSUME Inv, ServerCopyInv, Retains, Talk, AckData, UNCHANGED clientVars
  PROVE  Talk'
<1> DEFINE rr == toServer[1].num
<1>1. /\ TakesAck /\ Says(toServer[1], "RR") /\ toServer' = Tail(toServer) /\ serverState' = "SEND_DATA"
      /\ rr # FinalAck
      /\ UNCHANGED toClient
      /\ serverWindow' = WindowRemove(WindowSlide(serverWindow, rr), rr)
  BY AckHead DEF AckData, ServerReceives, Says
<1>2. /\ toServer # << >> /\ ~OldAlone /\ toServer \in Seq(AckPdu) /\ finalSeq' = finalSeq
      /\ rr \in Nat /\ rr <= expected /\ serverState = "WAIT_ON_ACK"
  BY <1>1, AckHead, Channels
<1>3. UNCHANGED <<expected, highest, clientState, eofSeq>>
  BY DEF clientVars
<1>4. serverWindow'.lower = rr /\ serverWindow'.current = serverWindow.current
  <2>1. serverWindow \in SentWindow(serverWindow.current)
    BY <1>2, ServerReady
  <2> DEFINE slid == WindowSlide(serverWindow, rr)
  <2>2. slid \in SentWindow(serverWindow.current) /\ slid.lower = rr /\ slid.current = serverWindow.current
    BY <1>2, <2>1, WindowSlideType
  <2>3. serverWindow' = WindowRemove(slid, rr) /\ rr \in Nat
    BY <1>1, <1>2
  <2> HIDE DEF slid, rr
  <2> QED BY <2>2, <2>3, WindowRemoveType
<1> HIDE DEF rr
<1>5. /\ SrejFirst => NoSrej(toServer')
      /\ NoSrej(toServer) => NoSrej(toServer')
  BY <1>1, <1>2, SrejTail DEF SrejFirst, Says
<1>6. CASE expected <= NBlocks + 1
  <2>1. AckOrder /\ DataOrder /\ EofKnown
    BY <1>6 DEF Talk
  <2>2. serverWindow.lower <= rr /\ AcksRise(toServer', rr)
    BY <1>1, <1>2, <2>1, AcksRiseTail DEF AckOrder, rr
  <2>3. AckOrder'
    BY <1>1, <1>2, <1>3, <1>4, <2>1, <2>2, SrejTail DEF AckOrder
  <2>4. DataOrder'
    BY <1>1, <1>2, <1>3, <1>5, <2>1 DEF DataOrder, AtRecvData, SrejFirst, SrejBefore
  <2>5. EofKnown'
    <3>1. expected \in Nat /\ NBlocks \in Nat /\ serverWindow.lower \in Nat
      BY <1>2, WindowNumbers
    <3>2. rr = NBlocks + 1 => finalSeq = 0
      BY <1>1, <3>1 DEF FinalAck, Retains
    <3>3. serverWindow.lower = NBlocks + 1 => rr = NBlocks + 1
      BY <1>2, <1>6, <2>2, <3>1
    <3>4. EofsLast(toClient, rr)
      BY <2>1, <3>3 DEF EofKnown, EofsLast, EofLast
    <3> QED BY <1>1, <1>2, <1>3, <1>4, <2>1, <3>2, <3>4 DEF EofKnown
  <2> QED BY <1>3, <1>6, <2>3, <2>4, <2>5 DEF Talk
<1>7. CASE ~(expected <= NBlocks + 1)
  <2>1. RoundAgain
    BY <1>7 DEF Talk
  <2>2. \A i \in 1..Len(toServer') :
          Says(toServer'[i], "RR") =>
            1 <= toServer'[i].num /\ serverWindow.current <= toServer'[i].num + WindowSize
    BY <1>1, <1>2, <2>1, TailElements DEF RoundAgain
  <2>3. RoundAgain'
    BY <1>1, <1>2, <1>3, <1>4, <1>5, <2>1, <2>2 DEF RoundAgain
  <2> QED BY <1>3, <1>7, <2>3 DEF Talk
<1> QED BY <1>6, <1>7

\* What the server still has: every packet from its lower edge on, and every
\* one rcopy may ask for.
LEMMA InWindow ==
  ASSUME Inv, ServerCopyInv, Retains, WindowEdges, serverState # "FILENAME",
         NEW s \in Nat, serverWindow.lower <= s, s < serverWindow.current
  PROVE  SlotOf(serverWindow, s).seq = s
<1>1. /\ serverWindow.lower \in Nat /\ 1 <= serverWindow.lower /\ serverWindow.current \in Nat
      /\ WindowSize \in Nat /\ serverWindow.current <= serverWindow.lower + WindowSize
  BY WindowNumbers DEF WindowEdges
<1>2. s \in 1..(serverWindow.current - 1) /\ serverWindow.current <= s + WindowSize
  BY <1>1
<1> QED BY <1>2 DEF Retains

\* An SREJ is answered with the packet it asks for.
LEMMA SrejAnswered ==
  ASSUME Inv, ServerCopyInv, Retains, WindowEdges, Talk, AckSrej
  PROVE  LET p == StoredPdu(SlotOf(serverWindow, expected), "SREJ_RETRAN", StoredLen(expected), TRUE) IN
         /\ TakesAck /\ Says(toServer[1], "SREJ") /\ NoSrej(Tail(toServer)) /\ ~NoSrej(toServer)
         /\ expected <= NBlocks
         /\ serverState' = "SEND_DATA" =>
              /\ toServer' = Tail(toServer)
              /\ p \in DataPdu /\ p.seq = expected /\ p.ok /\ PduExact(p) /\ SendToClient(p)
         /\ serverState' # "SEND_DATA" => serverState' = "SEND_ERROR" /\ toServer' = << >> /\ toClient' = toClient
         /\ serverWindow'.lower = serverWindow.lower /\ serverWindow'.current = serverWindow.current
<1> DEFINE slot == SlotOf(serverWindow, expected)
           len == StoredLen(expected)
           p == StoredPdu(slot, "SREJ_RETRAN", len, TRUE)
<1>1. /\ TakesAck /\ Head(toServer).ok /\ Head(toServer).flag = "SREJ"
  BY DEF AckSrej
<1>2. /\ toServer # << >> /\ Head(toServer) = toServer[1] /\ toServer \in Seq(AckPdu)
      /\ serverState = "WAIT_ON_ACK"
  BY <1>1, AckHead, Channels
<1>3. Says(toServer[1], "SREJ")
  BY <1>1, <1>2 DEF Says
<1>4. ~NoSrej(toServer)
  <2>1. 1 \in 1..Len(toServer)
    BY <1>2, TailElements
  <2> QED BY <1>3, <2>1 DEF NoSrej
<1>5. expected <= NBlocks + 1 /\ AckOrder
  BY <1>4 DEF Talk, RoundAgain
<1>6. /\ toServer[1].num = expected /\ expected + 1 < serverWindow.current /\ NoSrej(Tail(toServer))
  BY <1>2, <1>3, <1>5, SrejTail DEF AckOrder
<1>7. /\ expected \in Nat /\ 1 <= expected /\ serverWindow.lower <= expected /\ expected < serverWindow.current
      /\ expected <= NBlocks /\ expected < seqNum
  BY <1>2, <1>6, WindowNumbers
<1>8. slot.seq = expected
  BY <1>2, <1>7, InWindow
<1>9. PduExact(p)
  BY <1>2, <1>7, <1>8, StoredPduExact
<1>10. /\ serverWindow' = WindowRetag(serverWindow, expected, "SREJ_RETRAN", len)
       /\ IF len = 0
          THEN serverState' = "SEND_ERROR" /\ toServer' = << >> /\ toClient' = toClient
          ELSE SendToClient(p) /\ serverState' = "SEND_DATA" /\ toServer' = Tail(toServer)
  <2>1. Head(toServer).num = expected /\ expected # seqNum
    BY <1>2, <1>6, <1>7
  <2>2. /\ serverWindow' = WindowRetag(serverWindow, expected, "SREJ_RETRAN", len)
        /\ IF expected # seqNum /\ len = 0
           THEN ServerExits("SEND_ERROR") /\ UNCHANGED <<toClient, dataFaults>>
           ELSE /\ IF expected = seqNum THEN UNCHANGED <<toClient, dataFaults>> ELSE SendToClient(p)
                /\ serverState' = "SEND_DATA"
                /\ ServerReceives
    BY <2>1 DEF AckSrej
  <2> QED BY <2>1, <2>2 DEF ServerExits, ServerCloses, ServerReceives
<1>11. serverWindow \in SentWindow(serverWindow.current) /\ len \in PacketLens \cup {0}
  BY <1>2, ServerReady, StoredLenType
<1>12. len # 0 => p \in DataPdu
  <2>1. "SREJ_RETRAN" \in DataFlags
    BY DEF DataFlags
  <2>2. len # 0 => p \in SentPdu(serverWindow.current)
    BY <1>7, <1>11, <2>1, StoredPduType
  <2> QED BY <2>2 DEF SentPdu
<1>13. p.seq = slot.seq /\ p.ok
  BY DEF StoredPdu
<1>14. serverWindow'.lower = serverWindow.lower /\ serverWindow'.current = serverWindow.current
  <2>1. "SREJ_RETRAN" \in DataFlags
    BY DEF DataFlags
  <2> QED BY <1>7, <1>10, <1>11, <2>1, WindowRetagType
<1> HIDE DEF p, slot, len
<1>15. serverState' = "SEND_DATA" =>
         /\ toServer' = Tail(toServer)
         /\ p \in DataPdu /\ p.seq = expected /\ p.ok /\ PduExact(p) /\ SendToClient(p)
  BY <1>8, <1>9, <1>10, <1>12, <1>13
<1>16. serverState' # "SEND_DATA" => serverState' = "SEND_ERROR" /\ toServer' = << >> /\ toClient' = toClient
  BY <1>10
<1> QED BY <1>1, <1>3, <1>4, <1>6, <1>7, <1>14, <1>15, <1>16 DEF p, slot, len

LEMMA AckSrejTalk ==
  ASSUME Inv, ServerCopyInv, Retains, WindowEdges, Talk, AckSrej, serverState' = "SEND_DATA",
         UNCHANGED clientVars
  PROVE  Talk'
<1>1. PICK p \in DataPdu : p.seq = expected /\ p.ok /\ SendToClient(p)
  BY SrejAnswered
<1>2. /\ TakesAck /\ Says(toServer[1], "SREJ") /\ toServer' = Tail(toServer)
      /\ NoSrej(toServer') /\ ~NoSrej(toServer) /\ expected <= NBlocks
      /\ serverWindow'.lower = serverWindow.lower /\ serverWindow'.current = serverWindow.current
  BY SrejAnswered
<1>3. /\ toServer # << >> /\ ~OldAlone /\ serverState = "WAIT_ON_ACK" /\ finalSeq' = finalSeq
      /\ toServer \in Seq(AckPdu)
  BY <1>2, AckHead, Channels
<1>4. UNCHANGED <<expected, highest, clientState, eofSeq>>
  BY DEF clientVars
<1>5. expected \in Nat /\ expected <= NBlocks + 1 /\ NBlocks \in Nat
  BY <1>2, <1>3, WindowNumbers
<1>6. AckOrder /\ DataOrder /\ EofKnown
  BY <1>5 DEF Talk
<1>7. AckOrder'
  BY <1>2, <1>3, <1>4, <1>6, AcksRiseTail, SrejTail DEF AckOrder
<1>8. EofKnown'
  <2>1. EofLast(p, serverWindow.lower)
    BY <1>1, <1>2, <1>5 DEF EofLast
  <2>2. EofsLast(toClient', serverWindow.lower)
    BY <1>1, <1>6, <2>1, EofsLastPut, SendPuts, Channels DEF EofKnown
  <2> QED BY <1>2, <1>3, <1>4, <1>6, <2>2 DEF EofKnown
<1>9. DataOrder'
  <2>1. clientState \notin {"FILENAME", "FILE_OK", "FLUSH"}
    BY <1>2, <1>3, <1>6 DEF DataOrder, AtRecvData
  <2>2. ASSUME AtRecvData
        PROVE  Rising(toClient', expected)
    <3>1. Rising(toClient, expected) /\ \A k \in 1..Len(toClient) : ~toClient[k].ok
      BY <1>2, <1>3, <1>6, <2>2 DEF DataOrder, AtRecvData, SrejFirst
    <3>2. \A k \in 1..Len(toClient) : Precedes(toClient[k], p)
      BY <3>1 DEF Precedes
    <3> QED BY <1>1, <1>5, <3>1, <3>2, RisingPut, SendPuts, Channels
  <2>3. ASSUME clientState = "BUFFER"
        PROVE  RisingBut(toClient', expected, highest)
    <3>1. /\ RisingBut(toClient, expected, highest)
          /\ \A k \in 1..Len(toClient) : toClient[k].ok => toClient[k].seq # expected
      BY <1>2, <1>3, <1>6, <2>3 DEF DataOrder, AtRecvData, SrejBefore
    <3>2. \A k \in 1..Len(toClient) : PrecedesBut(toClient[k], p, expected, highest)
      BY <1>1, <3>1 DEF PrecedesBut, RisingBut, Beyond
    <3>3. Beyond(p, expected, highest)
      BY <1>1 DEF Beyond
    <3> QED BY <1>1, <3>1, <3>2, <3>3, RisingButPut, SendPuts, Channels
  <2> QED BY <1>2, <1>4, <2>1, <2>2, <2>3 DEF DataOrder, AtRecvData, SrejFirst, SrejBefore
<1> QED BY <1>4, <1>5, <1>7, <1>8, <1>9 DEF Talk

\* The numbers of a slot are a window apart.
LEMMA SlotRepeats ==
  ASSUME NEW s \in Nat
  PROVE  (s + WindowSize) % WindowSize = s % WindowSize
<1> DEFINE W == WindowSize
           t == s + W
           q == s \div W
           r == t \div W
<1>1. W \in Nat /\ W > 0 /\ t \in Nat
  BY WindowAssumption
<1>2. q \in Int /\ r \in Int
  BY <1>1
<1>3. s = (W * q) + (s % W) /\ t = (W * r) + (t % W)
  BY <1>1
<1>4. s % W \in 0..(W - 1) /\ t % W \in 0..(W - 1)
  BY <1>1, SlotIndex
<1>5. t = s + W
  OBVIOUS
<1> HIDE DEF q, r, t
<1>6. CASE r <= q
  <2>1. W * r <= W * q
    BY <1>1, <1>2, <1>6
  <2> QED BY <1>1, <1>2, <1>3, <1>4, <1>5, <2>1
<1>7. CASE r = q + 1
  <2>1. W * r = W * q + W
    BY <1>1, <1>2, <1>7
  <2> QED BY <1>1, <1>2, <1>3, <1>4, <1>5, <2>1 DEF t
<1>8. CASE r >= q + 2
  <2>1. W * r >= W * q + W + W
    BY <1>1, <1>2, <1>8
  <2> QED BY <1>1, <1>2, <1>3, <1>4, <1>5, <2>1
<1> QED BY <1>2, <1>6, <1>7, <1>8

\* timeout_on_ack() sends the lowest packet of the window, which is alone on
\* the way.
LEMMA TimeoutSends ==
  ASSUME Inv, ServerCopyInv, TimeoutOnAck
  PROVE  LET slot == SlotOf(serverWindow, serverWindow.lower)
             p    == StoredPdu(slot, "DATA_TIMEOUT", StoredLen(slot.seq), TRUE)
         IN
         /\ serverState = "TIMEOUT_ON_ACK"
         /\ PduExact(p) /\ p.seq = slot.seq /\ p.ok
         /\ serverState' = "WAIT_ON_ACK" => p \in DataPdu /\ SendToClient(p) /\ toServer' = toServer
         /\ serverState' # "WAIT_ON_ACK" => serverState' = "SEND_ERROR" /\ toServer' = << >> /\ toClient' = toClient
         /\ serverWindow'.lower = serverWindow.lower /\ serverWindow'.current = serverWindow.current
         /\ finalSeq' = finalSeq
<1> DEFINE low == serverWindow.lower
           slot == SlotOf(serverWindow, low)
           len == StoredLen(slot.seq)
           p == StoredPdu(slot, "DATA_TIMEOUT", len, TRUE)
<1>1. serverState = "TIMEOUT_ON_ACK" /\ finalSeq' = finalSeq
  BY DEF TimeoutOnAck
<1>2. /\ serverWindow' = WindowRetag(serverWindow, low, "DATA_TIMEOUT", len)
      /\ IF len = 0
         THEN serverState' = "SEND_ERROR" /\ toServer' = << >> /\ toClient' = toClient
         ELSE SendToClient(p) /\ serverState' = "WAIT_ON_ACK" /\ toServer' = toServer
  BY DEF TimeoutOnAck, ServerExits, ServerCloses
<1>3. low \in Nat /\ serverWindow \in SentWindow(serverWindow.current) /\ len \in PacketLens \cup {0}
  BY <1>1, NumberFacts, ServerReady, StoredLenType
<1>4. "DATA_TIMEOUT" \in DataFlags
  BY DEF DataFlags
<1>5. len # 0 => p \in DataPdu
  <2>2. len # 0 => p \in SentPdu(serverWindow.current)
    BY <1>3, <1>4, StoredPduType
  <2> QED BY <2>2 DEF SentPdu
<1>6. p.seq = slot.seq /\ p.ok
  BY DEF StoredPdu
<1>7. serverWindow'.lower = serverWindow.lower /\ serverWindow'.current = serverWindow.current
  BY <1>2, <1>3, <1>4, WindowRetagType
<1>8. PduExact(p)
  BY <1>1, <1>3, StoredPduExact
<1> HIDE DEF p, len
<1>9. serverState' = "WAIT_ON_ACK" => p \in DataPdu /\ SendToClient(p) /\ toServer' = toServer
  BY <1>2, <1>5
<1>10. serverState' # "WAIT_ON_ACK" => serverState' = "SEND_ERROR" /\ toServer' = << >> /\ toClient' = toClient
  BY <1>2
<1> QED BY <1>1, <1>6, <1>7, <1>8, <1>9, <1>10 DEF p, len, slot, low

\* What is in an empty channel after a send.
LEMMA PutAlone ==
  ASSUME NEW p \in DataPdu, NEW f \in Fates
  PROVE  Put(<< >>, p, f) # << >> =>
           /\ Len(Put(<< >>, p, f)) = 1
           /\ Tail(Put(<< >>, p, f)) = << >>
           /\ Put(<< >>, p, f)[1].seq = p.seq
           /\ Put(<< >>, p, f)[1].ok => Put(<< >>, p, f)[1] = p
<1>1. CASE f = "lost" BY <1>1 DEF Put
<1>2. CASE f # "lost"
  <2>1. PICK q \in {p, FlipBits(p)} : Put(<< >>, p, f) = Append(<< >>, q)
    BY <1>2 DEF Put
  <2>2. Append(<< >>, q) = << q >>
    OBVIOUS
  <2>3. q.seq = p.seq /\ (q.ok => q = p)
    BY <2>1 DEF FlipBits, DataPdu
  <2>4. << q >> # << >> /\ Len(<< q >>) = 1 /\ Tail(<< q >>) = << >> /\ << q >>[1] = q
    <3>1. << q >> \in Seq({q}) /\ Len(<< q >>) = 1 /\ << q >>[1] = q
      OBVIOUS
    <3>2. Tail(<< q >>) \in Seq({q}) /\ Len(Tail(<< q >>)) = 0
      BY <3>1, HeadTailProperties
    <3> QED BY <3>1, <3>2, EmptySeq
  <2>5. Put(<< >>, p, f) = << q >>
    BY <2>1, <2>2
  <2> QED BY <2>3, <2>4, <2>5
<1> QED BY <1>1, <1>2

LEMMA TimeoutTalk ==
  ASSUME Inv, ServerCopyInv, Retains, WindowEdges, Waits, Talk, TimeoutOnAck, serverState' = "WAIT_ON_ACK",
         UNCHANGED clientVars
  PROVE  Talk'
<1> DEFINE slot == SlotOf(serverWindow, serverWindow.lower)
           low == serverWindow.lower
           C == serverWindow.current
<1>1. PICK p \in DataPdu : p.seq = slot.seq /\ p.ok /\ SendToClient(p)
  BY TimeoutSends
<1>2. /\ serverState = "TIMEOUT_ON_ACK" /\ toServer' = toServer
      /\ serverWindow'.lower = low /\ serverWindow'.current = C /\ finalSeq' = finalSeq
  BY TimeoutSends
<1>3. Quiet /\ ClientIdle /\ WindowClosed
  BY <1>2 DEF Waits
<1>4. UNCHANGED <<expected, highest, clientState, eofSeq>>
  BY DEF clientVars
<1>5. /\ low \in Nat /\ 1 <= low /\ low <= expected /\ expected \in Nat /\ expected <= C /\ C \in Nat
      /\ NBlocks \in Nat /\ WindowSize \in Nat /\ 0 < WindowSize /\ C <= low + WindowSize
      /\ finished => C = NBlocks + 2
      /\ ~finished => C = low + WindowSize
  BY <1>2, <1>3, WindowNumbers DEF WindowEdges, WindowClosed, WindowFull
<1>6. low < C => p.seq = low
  BY <1>1, <1>2, <1>5, InWindow
<1>7. toServer = << >> /\ toServer' = << >> /\ toClient = << >> /\ NoSrej(toServer')
  BY <1>2, <1>3 DEF Quiet, NoSrej
<1>8. toClient' # << >> =>
        /\ Len(toClient') = 1 /\ Tail(toClient') = << >>
        /\ toClient'[1].seq = p.seq
        /\ toClient'[1].ok => toClient'[1] = p
  BY <1>1, <1>7, SendPuts, PutAlone
<1> DEFINE l == Len(toClient')
<1>81. toClient' # << >> => \A i \in 1..l : i = 1
  <2>1. \A i \in 1..1 : i = 1
    OBVIOUS
  <2> QED BY <1>8, <2>1
<1>82. toClient' # << >> => \A i \in 2..l : FALSE
  <2>1. \A i \in 2..1 : FALSE
    OBVIOUS
  <2> QED BY <1>8, <2>1
<1> HIDE DEF slot, low, C, l
<1>9. CASE expected <= NBlocks + 1
  <2>1. AckOrder /\ DataOrder /\ EofKnown
    BY <1>9 DEF Talk
  <2>2. p.seq = low
    BY <1>5, <1>6, <1>9
  <2>3. AckOrder'
    BY <1>7 DEF AckOrder, AcksRise, OneSrej
  <2>4. DataOrder'
    <3>1. clientState \notin {"FILE_OK", "WRITE", "FLUSH"}
      BY <1>3 DEF ClientIdle, ClientEnds
    <3>2. CASE toClient' = << >>
      BY <1>4, <1>7, <2>1, <3>1, <3>2 DEF DataOrder, AtRecvData, SrejFirst, SrejBefore, Rising, RisingBut, RisingBehind
    <3>3. CASE toClient' # << >>
      <4>1. OldAlone'
        BY <1>2, <1>5, <1>7, <1>8, <2>2, <3>3 DEF OldAlone
      <4>2. RisingBehind(toClient')
        <5>1. \A i \in 1..l : From(toClient'[i], 0)
          BY <1>5, <1>8, <1>81, <2>2, <3>3 DEF From
        <5>2. \A i, j \in 1..l : i < j => Precedes(toClient'[i], toClient'[j])
          BY <1>81, <3>3
        <5> QED BY <1>82, <3>3, <5>1, <5>2 DEF RisingBehind, Rising, l
      <4> QED BY <1>4, <1>7, <2>1, <3>1, <4>1, <4>2 DEF DataOrder, AtRecvData
    <3> QED BY <3>2, <3>3
  <2>5. EofKnown'
    <3>1. EofsLast(toClient', low)
      <4>1. CASE toClient' = << >> BY <4>1 DEF EofsLast
      <4>2. CASE toClient' # << >>
        <5>1. EofLast(toClient'[1], low)
          BY <1>8, <2>2, <4>2 DEF EofLast
        <5> QED BY <1>81, <4>2, <5>1 DEF EofsLast, l
      <4> QED BY <4>1, <4>2
    <3> QED BY <1>2, <1>4, <2>1, <3>1 DEF EofKnown, low
  <2> QED BY <1>4, <1>9, <2>3, <2>4, <2>5 DEF Talk
<1>10. CASE ~(expected <= NBlocks + 1)
  <2>1. RoundAgain
    BY <1>10 DEF Talk
  <2>2. C <= p.seq + WindowSize
    <3>1. CASE low < C BY <1>5, <1>6, <3>1
    <3>2. CASE low >= C /\ C > WindowSize
      <4>1. low = C /\ C - WindowSize \in Nat /\ (C - WindowSize) + WindowSize = C
        BY <1>5, <3>2
      <4>2. low % WindowSize = (C - WindowSize) % WindowSize
        BY <4>1, SlotRepeats
      <4>3. C - WindowSize \in 1..(C - 1) /\ C <= (C - WindowSize) + WindowSize
        BY <1>5, <3>2
      <4>4. SlotOf(serverWindow, C - WindowSize).seq = C - WindowSize
        BY <1>2, <4>3 DEF Retains, C
      <4>5. slot.seq = C - WindowSize
        BY <1>2, <4>2, <4>4, WindowNumbers DEF SlotOf, slot, low
      <4> QED BY <1>1, <1>5, <4>5
    <3>3. CASE C <= WindowSize
      <4>1. p.seq \in Nat
        BY DEF DataPdu
      <4> QED BY <1>5, <3>3, <4>1
    <3> QED BY <1>5, <3>1, <3>2, <3>3
  <2>3. \A i \in 1..Len(toClient') : toClient'[i].ok => C <= toClient'[i].seq + WindowSize
    <3>1. CASE toClient' = << >> BY <3>1
    <3>2. CASE toClient' # << >> BY <1>8, <1>81, <2>2, <3>2 DEF l
    <3> QED BY <3>1, <3>2
  <2>4. RoundAgain'
    BY <1>2, <1>4, <1>7, <2>1, <2>3 DEF RoundAgain, C
  <2> QED BY <1>4, <1>10, <2>4 DEF Talk
<1> QED BY <1>9, <1>10

\* filename() of the server: the first packet of all.
LEMMA FilenameTalk ==
  ASSUME Inv, ServerCopyInv, Waits, AllExact, ServerFilename, UNCHANGED clientVars
  PROVE  /\ WindowEdges'
         /\ Waits'
         /\ AllExact'
         /\ Sending' => Talk'
<1> DEFINE Says0(p) == p \in DataPdu /\ p.seq = 0 /\ p.flag # "END_OF_FILE" /\ SendToClient(p)
<1>1. /\ serverState = "FILENAME" /\ serverState' \in {"SEND_DATA", "NO_FILE"}
      /\ toServer' \in {toServer, << >>}
      /\ serverWindow' = WindowCreate /\ finalSeq' = finalSeq
  BY DEF ServerFilename, ServerExits, ServerCloses
<1>2. PICK p : Says0(p)
  <2>1. \A flag \in {"FNAME_OK", "FNAME_BAD"} :
          LET p == CreatePdu(flag, 0, 0, HeaderLen)
          IN  p \in DataPdu /\ p.seq = 0 /\ p.flag # "END_OF_FILE"
    BY Lengths, FileAssumption DEF CreatePdu, DataPdu, DataFlags
  <2>2. \E flag \in {"FNAME_OK", "FNAME_BAD"} : SendToClient(CreatePdu(flag, 0, 0, HeaderLen))
    BY DEF ServerFilename
  <2> QED BY <2>1, <2>2
<1>3. p \in DataPdu /\ p.seq = 0 /\ p.flag # "END_OF_FILE" /\ SendToClient(p) /\ NBlocks \in Nat /\ WindowSize \in Nat
  BY <1>2, FileAssumption, WindowAssumption
<1>4. /\ toClient = << >> /\ toServer = << >> /\ toServer' = << >>
  BY <1>1 DEF Waits, Quiet
<1>5. expected = 1 /\ clientState \in {"FILENAME", "RESTART"} /\ UNCHANGED <<expected, clientState, highest, eofSeq>>
  BY <1>1, ClientReady DEF clientVars
<1>6. toClient' # << >> =>
        /\ Len(toClient') = 1 /\ Tail(toClient') = << >>
        /\ toClient'[1].seq = p.seq
        /\ toClient'[1].ok => toClient'[1] = p
  BY <1>3, <1>4, SendPuts, PutAlone
<1>7. serverWindow'.lower = 1 /\ serverWindow'.current = 1 /\ serverWindow'.upper = 1 + WindowSize
  BY <1>1 DEF WindowCreate
<1>8. finalSeq = 0
  BY <1>1 DEF ServerCopyInv, ServerCounted, ServerStored, Inv, CounterInv
<1> DEFINE l == Len(toClient')
<1>9. /\ toClient' # << >> => \A i \in 1..l : i = 1
      /\ toClient' # << >> => \A i \in 2..l : FALSE
  <2>1. (\A i \in 1..1 : i = 1) /\ \A i \in 2..1 : FALSE
    OBVIOUS
  <2> QED BY <1>6, <2>1
<1> HIDE DEF l
<1>10. PduExact(p)
  BY <1>3 DEF PduExact, Exact, Blocks
<1>11. AllExact'
  BY <1>3, <1>10, SendExact
<1>12. WindowEdges'
  BY <1>3, <1>7 DEF WindowEdges
<1>13. Waits'
  BY <1>1 DEF Waits
<1>14. AckOrder'
  BY <1>4 DEF AckOrder, AcksRise, OneSrej
<1>15. EofKnown'
  <2>1. EofsLast(toClient', 1)
    <3>1. CASE toClient' = << >> BY <3>1 DEF EofsLast
    <3>2. CASE toClient' # << >>
      <4>1. EofLast(toClient'[1], 1)
        BY <1>3, <1>6, <3>2 DEF EofLast
      <4> QED BY <1>9, <3>2, <4>1 DEF EofsLast, l
    <3> QED BY <3>1, <3>2
  <2> QED BY <1>1, <1>5, <1>7, <1>8, <2>1 DEF EofKnown
<1>16. DataOrder'
  <2>1. RisingBehind(toClient')
    <3>1. CASE toClient' = << >> BY <3>1 DEF RisingBehind, Rising
    <3>2. CASE toClient' # << >>
      <4>1. \A i \in 1..l : From(toClient'[i], 0)
        BY <1>3, <1>6, <1>9, <3>2 DEF From
      <4>2. \A i, j \in 1..l : i < j => Precedes(toClient'[i], toClient'[j])
        BY <1>9, <3>2
      <4> QED BY <1>9, <3>2, <4>1, <4>2 DEF RisingBehind, Rising, l
    <3> QED BY <3>1, <3>2
  <2> QED BY <1>4, <1>5, <2>1 DEF DataOrder, AtRecvData
<1>17. Talk'
  BY <1>3, <1>5, <1>14, <1>15, <1>16 DEF Talk
<1> QED BY <1>11, <1>12, <1>13, <1>17

LEMMA ServerEdges ==
  ASSUME Inv, ServerCopyInv, WindowEdges, Sending => Talk, Adds \/ Kept
  PROVE  WindowEdges'
<1>1. CASE Adds
  <2>1. \E p : Added(serverWindow, serverWindow', seqNum, p)
    BY <1>1 DEF Adds
  <2>2. serverState # "FILENAME" /\ serverWindow.current # serverWindow.upper
    BY <1>1 DEF Adds
  <2> QED BY <2>1, <2>2, WindowNumbers DEF WindowEdges, Added
<1>2. CASE Kept
  <2>1. serverState # "FILENAME" /\ serverWindow'.current = serverWindow.current
    BY <1>2 DEF Kept, SameSlots
  <2>2. CASE serverWindow'.lower = serverWindow.lower /\ serverWindow'.upper = serverWindow.upper
    BY <2>1, <2>2 DEF WindowEdges
  <2>3. CASE AckData
    <3> DEFINE rr == toServer[1].num
    <3>1. /\ TakesAck /\ Says(toServer[1], "RR")
          /\ serverWindow' = WindowRemove(WindowSlide(serverWindow, rr), rr)
      BY <2>3, AckHead DEF AckData, Says
    <3>2. toServer # << >> /\ toServer \in Seq(AckPdu) /\ rr \in Nat /\ serverState = "WAIT_ON_ACK"
      BY <3>1, AckHead, Channels
    <3>3. Talk
      BY <3>2 DEF Sending
    <3>4. serverWindow'.lower = rr /\ serverWindow'.upper = rr + WindowSize
      BY <2>1, <3>1, <3>2, ServerReady, SlotIndex DEF WindowRemove, WindowSlide, SentWindow, WindowType
    <3>5. 1 <= rr /\ serverWindow.current <= rr + WindowSize
      <4>1. CASE expected <= NBlocks + 1
        <5>1. serverWindow.lower <= rr
          BY <3>1, <3>2, <3>3, <4>1, AcksRiseTail DEF Talk, AckOrder
        <5>2. /\ 1 <= serverWindow.lower
              /\ serverWindow.current <= serverWindow.upper /\ serverWindow.upper = serverWindow.lower + WindowSize
          BY <2>1 DEF WindowEdges
        <5>3. serverWindow.lower \in Nat /\ serverWindow.current \in Nat /\ rr \in Nat /\ WindowSize \in Nat
          BY <3>2, WindowNumbers
        <5> HIDE DEF rr
        <5> QED BY <5>1, <5>2, <5>3
      <4>2. CASE ~(expected <= NBlocks + 1)
        <5>1. 1 \in 1..Len(toServer)
          BY <3>2, TailElements
        <5> QED BY <3>1, <3>3, <4>2, <5>1 DEF Talk, RoundAgain
      <4> QED BY <4>1, <4>2
    <3> QED BY <2>1, <3>4, <3>5 DEF WindowEdges
  <2> QED BY <1>2, <2>2, <2>3 DEF Kept
<1> QED BY <1>1, <1>2

LEMMA ServerWaits ==
  ASSUME Inv, Waits, ServerNext(ClientIdle), ~ServerFilename, InOrder', UNCHANGED clientVars
  PROVE  Waits'
<1>1. serverState # "FILENAME"
  BY DEF ServerNext, ServerSends, SendDataWindowFull, SendDataReadError, SendEof, SendBlock, TimeoutOnAck,
         GiveUpOnAck, AckTimer, ServerHearsAck, AckCorrupted, AckSrej, AckEof, AckFinal, AckData, TakesAck,
         GiveUpOnEof, ResendEof, EofTimer, EofAnswered, ServerFilename
<1>2. ClientIdle' = ClientIdle
  BY DEF clientVars, ClientIdle
<1>3. ASSUME serverState' \in {"SEND_DATA", "WAIT_ON_EOF_ACK", "EOF_POLL"} \cup ServerEnds
      PROVE  Waits'
  BY <1>3 DEF Waits, ServerEnds
<1>4. ASSUME serverState' = "WAIT_ON_ACK", WindowClosed' PROVE Waits'
  BY <1>4 DEF Waits
<1>5. ASSUME Kept, ~AckData, serverState' = "WAIT_ON_ACK", WindowClosed PROVE Waits'
  <2>1. UNCHANGED <<serverWindow.current, serverWindow.upper, finished>>
    BY <1>5 DEF Kept, SameSlots
  <2>2. WindowClosed'
    BY <1>5, <2>1 DEF WindowClosed, WindowFull
  <2> QED BY <1>4, <1>5, <2>2
<1> USE DEF ServerExits, ServerEnds
<1>6. CASE SendDataWindowFull
  <2>1. serverState' = "WAIT_ON_ACK" /\ WindowFull(serverWindow) /\ serverWindow' = serverWindow
    BY <1>6 DEF SendDataWindowFull
  <2> QED BY <1>4, <2>1 DEF WindowClosed, WindowFull
<1>7. CASE SendEof
  <2>1. serverState' = "WAIT_ON_ACK" /\ finished'
    BY <1>7 DEF SendEof
  <2> QED BY <1>4, <2>1 DEF WindowClosed
<1>8. CASE SendDataReadError \/ SendBlock
  BY <1>3, <1>8 DEF SendDataReadError, SendBlock
<1>9. CASE TimeoutOnAck
  <2>1. serverState = "TIMEOUT_ON_ACK" /\ serverState' \in {"WAIT_ON_ACK", "SEND_ERROR"}
    BY <1>9 DEF TimeoutOnAck
  <2>2. WindowClosed /\ ~AckData
    BY <2>1 DEF Waits, AckData, TakesAck
  <2> QED BY <1>3, <1>5, <1>9, <2>1, <2>2, KeptSteps
<1>10. CASE AckTimer(ClientIdle)
  <2>1. /\ serverState = "WAIT_ON_ACK" /\ serverState' = "TIMEOUT_ON_ACK"
        /\ WindowClosed => TimerExpires(ClientIdle)
        /\ UNCHANGED <<serverWindow, finished, toClient, toServer>>
    BY <1>10 DEF AckTimer
  <2>2. WindowClosed
    BY <2>1 DEF Waits
  <2>3. Quiet /\ ClientIdle
    BY <2>1, <2>2, TimerIsRight
  <2>4. WindowClosed' /\ Quiet' /\ ClientIdle'
    BY <1>2, <2>1, <2>2, <2>3 DEF WindowClosed, WindowFull, Quiet
  <2> QED BY <2>1, <2>4 DEF Waits
<1>11. CASE AckCorrupted
  <2>1. serverState = "WAIT_ON_ACK" /\ serverState' = "WAIT_ON_ACK"
    BY <1>11 DEF AckCorrupted, TakesAck
  <2>2. UNCHANGED <<serverWindow, finished>>
    BY <1>11 DEF AckCorrupted, TakesAck
  <2>3. WindowClosed
    BY <2>1 DEF Waits
  <2> QED BY <1>4, <2>1, <2>2, <2>3 DEF WindowClosed, WindowFull
<1>12. CASE AckSrej \/ AckEof \/ AckFinal \/ AckData
  BY <1>3, <1>12 DEF AckSrej, AckEof, AckFinal, AckData
<1>13. CASE GiveUpOnAck \/ GiveUpOnEof \/ ResendEof \/ EofTimer(ClientIdle) \/ EofAnswered
  BY <1>3, <1>13 DEF GiveUpOnAck, GiveUpOnEof, ResendEof, EofTimer, EofAnswered
<1> QED
  BY <1>6, <1>7, <1>8, <1>9, <1>10, <1>11, <1>12, <1>13 DEF ServerNext, ServerSends, ServerHearsAck

LEMMA ServerExact ==
  ASSUME Inv, ServerCopyInv, Retains, WindowEdges, Sending => Talk, AllExact, NEW idle, ServerNext(idle),
         ~ServerFilename
  PROVE  AllExact'
<1>1. ASSUME toClient' = toClient PROVE AllExact'
  BY <1>1 DEF AllExact
<1>2. CASE SendBlock \/ SendEof
  <2>1. CASE Adds
    BY <2>1, SendExact DEF Adds
  <2>2. CASE SendEof /\ finished
    BY <1>1, <2>2 DEF SendEof
  <2> QED BY <1>2, <2>1, <2>2, AddsSteps
<1>3. CASE TimeoutOnAck
  BY <1>1, <1>3, TimeoutSends, SendExact
<1>4. CASE AckSrej
  <2>1. Talk
    BY <1>4 DEF AckSrej, TakesAck, Sending
  <2> QED BY <1>1, <1>4, <2>1, SrejAnswered, SendExact
<1>5. CASE ResendEof
  <2> DEFINE slot == SlotOf(serverWindow, lastSeqNum)
  <2>1. /\ serverState = "WAIT_ON_EOF_ACK"
        /\ IF eofLen = 0
           THEN toClient' = toClient
           ELSE \E ok \in BOOLEAN : SendToClient(StoredPdu(slot, slot.flag, eofLen, ok))
    BY <1>5 DEF ResendEof
  <2>2. CASE eofLen # 0
    <3>1. PICK ok \in BOOLEAN : SendToClient(StoredPdu(slot, slot.flag, eofLen, ok))
      BY <2>1, <2>2
    <3> DEFINE p == StoredPdu(slot, slot.flag, eofLen, ok)
    <3>2. finished
      BY <2>2 DEF ServerCopyInv, ServerCounted
    <3>3. seqNum \in Nat /\ lastSeqNum = seqNum /\ seqNum = NBlocks + 1 /\ NBlocks \in Nat
      BY <3>2, FileAssumption DEF Inv, CounterInv, ServerCopyInv, ServerCounted
    <3>4. slot.seq = seqNum
      BY <2>1, <3>2, <3>3 DEF ServerCopyInv, ServerStored
    <3>5. p \in DataPdu
      <4>1. serverWindow \in SentWindow(serverWindow.current) /\ eofLen \in PacketLens
        BY <2>1, <2>2, ServerReady DEF CounterInv
      <4>2. slot.flag \in DataFlags
        BY <3>3, <4>1, SlotOfType DEF Slot
      <4>3. p \in SentPdu(serverWindow.current)
        BY <3>3, <4>1, <4>2, StoredPduType
      <4> QED BY <4>3 DEF SentPdu
    <3>6. p.seq = slot.seq
      BY DEF StoredPdu
    <3> HIDE DEF p, slot
    <3>7. PduExact(p)
      BY <3>3, <3>4, <3>6 DEF PduExact, Exact, Blocks
    <3> QED BY <3>1, <3>5, <3>7, SendExact DEF p
  <2> QED BY <1>1, <2>1, <2>2
<1>6. CASE \/ SendDataWindowFull \/ SendDataReadError \/ GiveUpOnAck \/ AckTimer(idle) \/ AckCorrupted
           \/ AckEof \/ AckFinal \/ AckData \/ GiveUpOnEof \/ EofTimer(idle) \/ EofAnswered
  BY <1>1, <1>6
     DEF SendDataWindowFull, SendDataReadError, GiveUpOnAck, AckTimer, AckCorrupted, AckEof, AckFinal, AckData,
         GiveUpOnEof, EofTimer, EofAnswered, linkVars
<1> QED BY <1>2, <1>3, <1>4, <1>5, <1>6 DEF ServerNext, ServerSends, ServerHearsAck

LEMMA ServerTalk ==
  ASSUME Inv, ServerCopyInv, Retains, WindowEdges, Waits, Sending => Talk, ServerNext(ClientIdle), ~ServerFilename,
         InOrder', UNCHANGED clientVars, Sending'
  PROVE  Talk'
<1> USE DEF ServerExits, ServerEnds
<1>1. CASE Sending
  <2> USE <1>1
  <2>1. CASE SendBlock \/ (SendEof /\ ~finished)
    BY <2>1, AddsSteps, AddsTalk
  <2>2. CASE SendDataWindowFull \/ (SendEof /\ finished)
    <3>1. serverState = "SEND_DATA" /\ UNCHANGED <<toClient, toServer, serverWindow, finalSeq>>
      BY <2>2 DEF SendDataWindowFull, SendEof, linkVars
    <3> QED BY <3>1, QuietTalk
  <2>3. CASE AckTimer(ClientIdle)
    <3>1. /\ serverState = "WAIT_ON_ACK"
          /\ WindowClosed => TimerExpires(ClientIdle)
          /\ UNCHANGED <<toClient, toServer, serverWindow, finalSeq>>
      BY <2>3 DEF AckTimer
    <3>2. Quiet
      BY <3>1, TimerIsRight DEF Waits
    <3> QED BY <3>1, <3>2, QuietTalk
  <2>4. CASE TimeoutOnAck
    <3>1. serverState' = "WAIT_ON_ACK"
      BY <2>4 DEF TimeoutOnAck, Sending
    <3> QED BY <2>4, <3>1, TimeoutTalk
  <2>5. CASE AckSrej
    <3>1. serverState' = "SEND_DATA"
      BY <2>5 DEF AckSrej, Sending
    <3> QED BY <2>5, <3>1, AckSrejTalk
  <2>6. CASE AckCorrupted BY <2>6, CorruptedTalk
  <2>7. CASE AckData BY <2>7, AckDataTalk
  <2>8. CASE \/ SendDataReadError \/ GiveUpOnAck \/ AckEof \/ AckFinal
             \/ GiveUpOnEof \/ ResendEof \/ EofTimer(ClientIdle) \/ EofAnswered
    BY <2>8 DEF SendDataReadError, GiveUpOnAck, AckEof, AckFinal, GiveUpOnEof, ResendEof, EofTimer, EofAnswered,
                Sending
  <2> QED BY <2>1, <2>2, <2>3, <2>4, <2>5, <2>6, <2>7, <2>8 DEF ServerNext, ServerSends, ServerHearsAck
<1>2. CASE ~Sending
  <2>1. GiveUpOnEof \/ ResendEof \/ EofTimer(ClientIdle) \/ EofAnswered
    BY <1>2 DEF Sending, ServerNext, ServerSends, SendDataWindowFull, SendDataReadError, SendEof, SendBlock,
                TimeoutOnAck, GiveUpOnAck, AckTimer, ServerHearsAck, AckCorrupted, AckSrej, AckEof, AckFinal,
                AckData, TakesAck
  <2> QED BY <2>1 DEF GiveUpOnEof, ResendEof, EofTimer, EofAnswered, Sending
<1> QED BY <1>1, <1>2

LEMMA ServerOrders ==
  ASSUME Inv, ServerCopyInv, Retains, OrderedInv, ServerNext(ClientIdle), UNCHANGED clientVars, InOrder'
  PROVE  OrderedInv'
<1>1. FlushReady'
  BY DEF OrderedInv, FlushReady, clientVars
<1>2. CASE ServerFilename
  BY <1>1, <1>2, FilenameTalk DEF OrderedInv
<1>3. CASE ~ServerFilename
  <2>1. WindowEdges'
    BY <1>3, ServerStepKinds, ServerEdges DEF OrderedInv
  <2>2. Waits' /\ AllExact' /\ (Sending' => Talk')
    BY <1>3, ServerWaits, ServerExact, ServerTalk DEF OrderedInv
  <2> QED BY <1>1, <2>1, <2>2 DEF OrderedInv
<1> QED BY <1>2, <1>3

-----------------------------------------------------------------------------
(* What steps of rcopy do to its buffer *)

LEMMA WindowAddReads ==
  ASSUME NEW w \in WindowType, NEW seq \in Nat, NEW p, p.seq = seq
  PROVE  WindowIsValid(WindowAdd(w, seq, p), seq) /\ SlotOf(WindowAdd(w, seq, p), seq).seq = seq
<1> DEFINE j == seq % WindowSize
           added == [valid |-> TRUE, flag |-> p.flag, seq |-> p.seq, block |-> p.block,
                     len |-> p.len, sum |-> p.len]
           v == WindowAdd(w, seq, p)
<1>1. j \in 0..(WindowSize - 1) /\ w.size = WindowSize
  BY SlotIndex DEF WindowType
<1>2. v = [w EXCEPT !.buf[j] = added]
  BY <1>1 DEF WindowAdd
<1>3. added.seq = seq /\ added.valid
  OBVIOUS
<1> HIDE DEF added
<1>4. v.size = WindowSize /\ v.buf[j] = added
  BY <1>1, <1>2 DEF WindowType
<1> QED BY <1>3, <1>4 DEF WindowIsValid, SlotOf, j, v

\* Packets rcopy still has to write or has in its buffer have slots of their own.
LEMMA BufferedApart ==
  ASSUME Inv, ServerCopyInv, WindowEdges, clientState \in {"BUFFER", "FLUSH"},
         NEW k \in Nat, expected <= k, k < highest
  PROVE  k % WindowSize # highest % WindowSize
<1>1. /\ expected \in Nat /\ highest \in Nat /\ highest < serverWindow.current
      /\ serverState # "FILENAME"
  BY ClientReady DEF ClientInv, HighestBelowCurrent
<1>2. /\ serverWindow.current \in Nat /\ serverWindow.lower \in Nat /\ WindowSize \in Nat
      /\ serverWindow.lower <= expected
      /\ serverWindow.current <= serverWindow.lower + WindowSize
  BY <1>1, WindowNumbers DEF WindowEdges
<1>3. highest - k < WindowSize
  BY <1>1, <1>2
<1> QED BY <1>1, <1>3, SlotsDiffer

LEMMA ClientFlushReady ==
  ASSUME Inv, ServerCopyInv, WindowEdges, FlushReady, NEW idle, ClientNext(idle), UNCHANGED serverVars
  PROVE  FlushReady'
<1> DEFINE p == Head(toClient)
<1>1. CASE clientState' \notin {"BUFFER", "FLUSH"}
  BY <1>1 DEF FlushReady
<1>2. CASE DataCorrupted
  BY <1>2 DEF DataCorrupted, FlushReady, clientVars
<1>3. CASE RecvAhead \/ BufferAhead
  <2>1. /\ clientState \in {"RECV_DATA", "BUFFER"}
        /\ toClient # << >> /\ p.seq > expected
        /\ clientWindow' = WindowAdd(clientWindow, p.seq, p)
        /\ highest' = p.seq /\ expected' = expected
    BY <1>3 DEF RecvAhead, BufferAhead, Takes
  <2>2. p.seq \in Nat /\ clientWindow \in WindowType /\ expected \in Nat
    BY <2>1, PduTaken, ClientReady DEF ClientInv, NoClientWindow, SentWindow
  <2>3. WindowIsValid(clientWindow', p.seq) /\ SlotOf(clientWindow', p.seq).seq = p.seq
    BY <2>1, <2>2, WindowAddReads
  <2> QED BY <2>1, <2>2, <2>3 DEF FlushReady
<1>4. CASE BufferInOrder
  <2>1. /\ clientState = "BUFFER" /\ p.seq = expected
        /\ clientWindow' = WindowRemove(clientWindow, expected)
        /\ expected' = expected + 1 /\ highest' = highest
    BY <1>4 DEF BufferInOrder, Takes
  <2>2. /\ expected \in Nat /\ highest \in Nat /\ expected < highest
        /\ clientWindow \in WindowType /\ clientWindow.size = WindowSize
    BY <2>1, ClientReady DEF ClientInv, HighestBelowCurrent, NoClientWindow, SentWindow, WindowType
  <2>3. expected % WindowSize # highest % WindowSize
    BY <2>1, <2>2, BufferedApart
  <2>4. highest % WindowSize \in 0..(WindowSize - 1)
    BY <2>2, SlotIndex
  <2>5. WindowIsValid(clientWindow, highest) /\ SlotOf(clientWindow, highest).seq = highest
    BY <2>1 DEF FlushReady
  <2>6. SlotOf(clientWindow', highest) = SlotOf(clientWindow, highest)
    BY <2>1, <2>2, <2>3, <2>4 DEF WindowRemove, SlotOf, WindowType
  <2> QED BY <2>1, <2>2, <2>5, <2>6 DEF FlushReady, WindowIsValid
<1>5. CASE FlushHole
  <2>1. /\ clientState = "FLUSH" /\ FlushedTo < highest
        /\ clientWindow' = WindowFlushed
        /\ expected' = FlushedTo /\ highest' = highest
    BY <1>5 DEF FlushHole, Flushes
  <2>2. /\ expected \in Nat /\ highest \in Nat /\ expected <= highest
        /\ clientWindow \in WindowType /\ clientWindow.size = WindowSize
    BY <2>1, ClientReady DEF ClientInv, HighestBelowCurrent, NoClientWindow, SentWindow, WindowType
  <2>3. FlushedTo \in Nat
    BY <2>2, FlushedToBound
  <2>4. \A k \in FlushRun : k % WindowSize # highest % WindowSize
    BY <2>1, <2>2, BufferedApart DEF FlushRun
  <2>5. highest % WindowSize \in 0..(WindowSize - 1)
    BY <2>2, SlotIndex
  <2>6. WindowIsValid(clientWindow, highest) /\ SlotOf(clientWindow, highest).seq = highest
    BY <2>1 DEF FlushReady
  <2> DEFINE h == highest % WindowSize
  <2>7. clientWindow'.size = WindowSize /\ clientWindow'.buf[h] = clientWindow.buf[h]
    BY <2>1, <2>2, <2>4, <2>5 DEF WindowFlushed, WindowType
  <2>8. SlotOf(clientWindow', highest) = SlotOf(clientWindow, highest)
    BY <2>2, <2>7 DEF SlotOf
  <2> QED BY <2>1, <2>2, <2>3, <2>6, <2>8 DEF FlushReady, WindowIsValid
<1>6. CASE \/ FilenameTimer(idle) \/ FilenameAnswered \/ FileOk \/ DataTimer
           \/ RecvEof \/ RecvInOrder \/ RecvOld \/ BufferOld \/ WriteAcknowledged
           \/ FlushEof \/ FlushAll
  <2>1. clientState' \notin {"BUFFER", "FLUSH"}
    BY <1>6 DEF FilenameTimer, FilenameAnswered, FileOk, DataTimer, RecvEof, RecvInOrder, RecvOld, BufferOld,
                WriteAcknowledged, FlushEof, FlushAll, ClientExits, Takes
  <2> QED BY <1>1, <2>1
<1> QED BY <1>2, <1>3, <1>4, <1>5, <1>6 DEF ClientNext, ClientReceivesData

-----------------------------------------------------------------------------
(* rcopy's steps *)

\* In order, rcopy does nothing when the server's timer has expired.
LEMMA ClientStill ==
  ASSUME Inv, Waits, serverState = "TIMEOUT_ON_ACK", InOrder'
  PROVE  ~ClientNext(ServerIdle)
<1>1. /\ toClient = << >> /\ clientState \notin {"FILE_OK", "WRITE", "FLUSH"}
      /\ ~ServerIdle /\ serverOpen
  BY DEF Waits, Quiet, ClientIdle, ClientEnds, ServerIdle, ServerEnds, Inv, OpenInv, ServerRunning
<1>2. ~FilenameTimer(ServerIdle) /\ ~DataTimer
  <2>1. ~TimerExpires(ServerIdle)
    BY <1>1, TimerIsRight, SMT
  <2>2. ~TimerExpires(~serverOpen)
    BY <1>1, TimerIsRight, Zenon
  <2> QED BY <2>1, <2>2, Zenon DEF FilenameTimer, DataTimer
<1>3. ~FilenameAnswered /\ ~FileOk /\ ~ClientReceivesData
  BY <1>1 DEF FilenameAnswered, FileOk, ClientReceivesData, DataCorrupted, RecvEof, RecvInOrder, RecvAhead,
              RecvOld, BufferOld, BufferInOrder, BufferAhead, Takes
<1>4. ~WriteAcknowledged /\ ~FlushEof /\ ~FlushAll /\ ~FlushHole
  BY <1>1 DEF WriteAcknowledged, FlushEof, FlushAll, FlushHole, Flushes
<1> QED BY <1>2, <1>3, <1>4 DEF ClientNext

\* What rcopy leaves in its socket.
LEMMA ClientTakes ==
  ASSUME NEW idle, ClientNext(idle)
  PROVE  toClient' \in {toClient, << >>} \/ (toClient # << >> /\ toClient' = Tail(toClient))
<1> USE DEF ClientExits, ClientCloses, ClientReceives, Takes, Flushes
<1>1. CASE FilenameTimer(idle) \/ FilenameAnswered \/ FileOk \/ DataTimer \/ DataCorrupted
  BY <1>1 DEF FilenameTimer, FilenameAnswered, FileOk, DataTimer, DataCorrupted
<1>2. CASE RecvEof \/ RecvInOrder \/ RecvAhead \/ RecvOld
  BY <1>2 DEF RecvEof, RecvInOrder, RecvAhead, RecvOld
<1>3. CASE BufferOld \/ BufferInOrder \/ BufferAhead
  BY <1>3 DEF BufferOld, BufferInOrder, BufferAhead
<1>4. CASE WriteAcknowledged
  BY <1>4 DEF WriteAcknowledged, linkVars
<1>5. CASE FlushEof \/ FlushAll \/ FlushHole
  BY <1>5 DEF FlushEof, FlushAll, FlushHole
<1> QED BY <1>1, <1>2, <1>3, <1>4, <1>5 DEF ClientNext, ClientReceivesData

LEMMA ClientExact ==
  ASSUME Inv, AllExact, NEW idle, ClientNext(idle)
  PROVE  AllExact'
<1>1. CASE toClient' = toClient \/ toClient' = << >>
  BY <1>1 DEF AllExact
<1>2. CASE toClient # << >> /\ toClient' = Tail(toClient)
  <2>1. /\ Len(toClient) \in Nat /\ Len(toClient') = Len(toClient) - 1
        /\ \A i \in 1..(Len(toClient) - 1) : toClient'[i] = toClient[i + 1]
    BY <1>2, Channels, TailElements
  <2>2. \A i \in 1..(Len(toClient) - 1) : i + 1 \in 1..Len(toClient)
    BY <2>1
  <2> QED BY <2>1, <2>2 DEF AllExact
<1> QED BY <1>1, <1>2, ClientTakes

LEMMA ClientWaits ==
  ASSUME Inv, Waits, ClientNext(ServerIdle), UNCHANGED serverVars, InOrder'
  PROVE  Waits'
<1>1. serverState # "TIMEOUT_ON_ACK"
  BY ClientStill
<1>2. UNCHANGED <<serverState, serverWindow, finished>>
  BY DEF serverVars
<1>3. WindowClosed' = WindowClosed
  BY <1>2 DEF WindowClosed, WindowFull
<1>4. CASE serverState = "FILENAME"
  <2>1. toClient = << >> /\ toServer = << >> /\ clientState \in {"FILENAME", "RESTART"}
    BY <1>4, ClientReady DEF Waits, Quiet
  <2>2. ~FilenameAnswered /\ ~FileOk /\ ~DataTimer
    BY <2>1 DEF FilenameAnswered, FileOk, DataTimer
  <2>3. ~ClientReceivesData
    BY <2>1 DEF ClientReceivesData, DataCorrupted, RecvEof, RecvInOrder, RecvAhead,
                RecvOld, BufferOld, BufferInOrder, BufferAhead, Takes
  <2>4. ~WriteAcknowledged /\ ~FlushEof /\ ~FlushAll /\ ~FlushHole
    BY <2>1 DEF WriteAcknowledged, FlushEof, FlushAll, FlushHole, Flushes
  <2>5. FilenameTimer(ServerIdle)
    BY <2>2, <2>3, <2>4 DEF ClientNext
  <2>6. Quiet'
    BY <2>1, <2>5 DEF FilenameTimer, ClientExits, ClientCloses, Quiet
  <2> QED BY <1>2, <1>4, <2>6 DEF Waits
<1>5. CASE serverState # "FILENAME"
  BY <1>1, <1>2, <1>3, <1>5 DEF Waits
<1> QED BY <1>4, <1>5

(* What rcopy says *)

AcksUpTo(chan, m) == \A i \in 1..Len(chan) : Says(chan[i], "RR") => chan[i].num <= m

LEMMA AcksUpToPut ==
  ASSUME NEW chan \in Seq(AckPdu), NEW m, NEW p \in AckPdu, NEW f \in Fates,
         AcksUpTo(chan, m), Says(p, "RR") => p.num <= m
  PROVE  AcksUpTo(Put(chan, p, f), m)
<1> DEFINE new == Put(chan, p, f)
           l == Len(chan)
<1>1. /\ l \in Nat /\ Len(new) \in {l, l + 1}
      /\ \A i \in 1..l : new[i] = chan[i]
      /\ \A i \in 1..Len(new) : i > l => new[i] = p \/ new[i].ok = FALSE
  <2>1. Extended(chan, new, p)
    BY PutExtends
  <2> QED BY <2>1 DEF Extended
<1>2. \A i \in 1..l : Says(chan[i], "RR") => chan[i].num <= m
  BY DEF AcksUpTo
<1> HIDE DEF new, l
<1>3. ASSUME NEW i \in 1..Len(new), Says(new[i], "RR") PROVE new[i].num <= m
  <2>1. CASE i <= l BY <1>1, <1>2, <1>3, <2>1
  <2>2. CASE i > l BY <1>1, <1>3, <2>2 DEF Says
  <2> QED BY <1>1, <2>1, <2>2
<1> QED BY <1>3 DEF AcksUpTo, new

LEMMA PutAcks ==
  ASSUME NEW chan \in Seq(AckPdu), NEW p \in AckPdu, NEW f \in Fates
  PROVE  Put(chan, p, f) \in Seq(AckPdu)
<1>1. FlipBits(p) \in AckPdu
  BY DEF FlipBits, AckPdu
<1> QED BY <1>1, PutType

LEMMA AckSent ==
  ASSUME toServer \in Seq(AckPdu), NEW p \in AckPdu, SendToServer(p), NEW low \in Nat, NEW e, NEW n,
         AcksRise(toServer, low),
         Says(p, "RR") => low <= p.num /\ AcksUpTo(toServer, p.num)
  PROVE  /\ AcksRise(toServer', low)
         /\ OneSrej(toServer, e, n) /\ p.flag # "SREJ" => OneSrej(toServer', e, n)
         /\ NoSrej(toServer) /\ p.flag # "SREJ" => NoSrej(toServer')
         /\ NoSrej(toServer) /\ p.num = e /\ e + 1 < n => OneSrej(toServer', e, n)
<1>1. NoSrej(toServer) => OneSrej(toServer, e, n)
  BY DEF NoSrej, OneSrej
<1>2. CASE toServer' = toServer
  BY <1>1, <1>2
<1>3. ASSUME NEW f \in Fates, toServer' = Put(toServer, p, f)
      PROVE  /\ AcksRise(toServer', low)
             /\ OneSrej(toServer, e, n) /\ p.flag # "SREJ" => OneSrej(toServer', e, n)
             /\ NoSrej(toServer) /\ p.flag # "SREJ" => NoSrej(toServer')
             /\ NoSrej(toServer) /\ p.num = e /\ e + 1 < n => OneSrej(toServer', e, n)
  <2>1. AcksRise(toServer', low)
    BY <1>3, AcksRisePut DEF AcksUpTo
  <2>2. p.flag # "SREJ" => ~Says(p, "SREJ")
    BY DEF Says
  <2> QED BY <1>3, <2>1, <2>2, SrejPut
<1> QED BY <1>2, <1>3 DEF SendToServer

\* An SREJ and an RR, as buffer() and flush() send them.
LEMMA SrejAndAckSent ==
  ASSUME toServer \in Seq(AckPdu), NEW e \in Nat, NEW m \in Nat, NEW low \in Nat, NEW n, low <= m, e + 1 < n,
         SendBothToServer(CreateAck("SREJ", e), CreateAck("RR", m)),
         AcksRise(toServer, low), AcksUpTo(toServer, m), NoSrej(toServer)
  PROVE  /\ AcksRise(toServer', low)
         /\ OneSrej(toServer', e, n)
         /\ toServer = << >> => NoSrej(toServer') \/ Says(toServer'[1], "SREJ")
<1> DEFINE p == CreateAck("SREJ", e)
           q == CreateAck("RR", m)
<1>1. /\ p \in AckPdu /\ q \in AckPdu /\ p.num = e /\ q.num = m
      /\ ~Says(p, "RR") /\ ~Says(q, "SREJ")
  BY DEF CreateAck, AckPdu, AckFlags, Says
<1> HIDE DEF p, q
<1>2. CASE toServer' = toServer
  BY <1>2 DEF NoSrej, OneSrej
<1>3. ASSUME NEW f \in Fates, NEW g \in Fates, toServer' = Put(Put(toServer, p, f), q, g)
      PROVE  /\ AcksRise(toServer', low)
             /\ OneSrej(toServer', e, n)
             /\ toServer = << >> => NoSrej(toServer') \/ Says(toServer'[1], "SREJ")
  <2> DEFINE mid == Put(toServer, p, f)
  <2>1. /\ mid \in Seq(AckPdu) /\ AcksRise(mid, low) /\ AcksUpTo(mid, m) /\ OneSrej(mid, e, n)
    BY <1>1, PutAcks, AcksRisePut, AcksUpToPut, SrejPut
  <2>2. toServer = << >> => NoSrej(mid) \/ (Len(mid) = 1 /\ Says(mid[1], "SREJ"))
    <3> SUFFICES ASSUME toServer = << >> PROVE NoSrej(mid) \/ (Len(mid) = 1 /\ Says(mid[1], "SREJ"))
      OBVIOUS
    <3>1. Extended(toServer, mid, p)
      BY <1>1, PutExtends
    <3>2. Len(mid) \in {0, 1}
      BY <3>1 DEF Extended
    <3>3. CASE Len(mid) = 0
      BY <3>3 DEF NoSrej
    <3>4. CASE Len(mid) = 1
      <4>1. \A i \in 1..1 : i = 1
        OBVIOUS
      <4> QED BY <3>4, <4>1 DEF NoSrej
    <3> QED BY <3>2, <3>3, <3>4
  <2> HIDE DEF mid
  <2>3. toServer' = Put(mid, q, g)
    BY <1>3 DEF mid
  <2>4. AcksRise(toServer', low) /\ OneSrej(toServer', e, n) /\ (NoSrej(mid) => NoSrej(toServer'))
    <3>1. Says(q, "RR") => low <= q.num /\ \A i \in 1..Len(mid) : Says(mid[i], "RR") => mid[i].num <= q.num
      BY <1>1, <2>1 DEF AcksUpTo
    <3> QED BY <1>1, <2>1, <2>3, <3>1, AcksRisePut, SrejPut
  <2>5. Len(mid) = 1 => toServer'[1] = mid[1]
    <3>1. Extended(mid, toServer', q)
      BY <1>1, <2>1, <2>3, PutExtends
    <3> QED BY <3>1 DEF Extended
  <2> QED BY <2>2, <2>4, <2>5
<1> QED BY <1>2, <1>3 DEF SendBothToServer, p, q

LEMMA EofAndAckSent ==
  ASSUME toServer \in Seq(AckPdu), NEW m \in Nat, NEW low \in Nat, low <= m,
         SendBothToServer(CreateAck("RR", m), CreateAck("EOF_ACK", m)),
         AcksRise(toServer, low), AcksUpTo(toServer, m), NoSrej(toServer)
  PROVE  AcksRise(toServer', low) /\ NoSrej(toServer')
<1> DEFINE p == CreateAck("RR", m)
           q == CreateAck("EOF_ACK", m)
<1>1. /\ p \in AckPdu /\ q \in AckPdu /\ p.num = m
      /\ ~Says(q, "RR") /\ ~Says(q, "SREJ") /\ ~Says(p, "SREJ")
  BY DEF CreateAck, AckPdu, AckFlags, Says
<1> HIDE DEF p, q
<1>2. CASE toServer' = toServer
  BY <1>2
<1>3. ASSUME NEW f \in Fates, NEW g \in Fates, toServer' = Put(Put(toServer, p, f), q, g)
      PROVE  AcksRise(toServer', low) /\ NoSrej(toServer')
  <2> DEFINE mid == Put(toServer, p, f)
  <2>1. mid \in Seq(AckPdu) /\ AcksRise(mid, low) /\ NoSrej(mid)
    <3>1. Says(p, "RR") => low <= p.num /\ \A i \in 1..Len(toServer) : Says(toServer[i], "RR") => toServer[i].num <= p.num
      BY <1>1 DEF AcksUpTo
    <3> QED BY <1>1, <3>1, PutAcks, AcksRisePut, SrejPut
  <2> HIDE DEF mid
  <2>2. toServer' = Put(mid, q, g)
    BY <1>3 DEF mid
  <2> QED BY <1>1, <2>1, <2>2, AcksRisePut, SrejPut
<1> QED BY <1>2, <1>3 DEF SendBothToServer, p, q

LEMMA EofsLastTail ==
  ASSUME NEW chan \in Seq(DataPdu), chan # << >>, NEW low, EofsLast(chan, low)
  PROVE  EofLast(chan[1], low) /\ EofsLast(Tail(chan), low)
<1>1. /\ Len(chan) \in Nat /\ 0 < Len(chan) /\ Len(Tail(chan)) = Len(chan) - 1
      /\ \A i \in 1..(Len(chan) - 1) : Tail(chan)[i] = chan[i + 1]
  BY TailElements
<1>2. \A i \in 1..(Len(chan) - 1) : i + 1 \in 1..Len(chan)
  BY <1>1
<1>3. 1 \in 1..Len(chan)
  BY <1>1
<1> QED BY <1>1, <1>2, <1>3 DEF EofsLast

LEMMA NothingLeft ==
  /\ \A low : EofsLast(<< >>, low) /\ AcksRise(<< >>, low)
  /\ \A n : Rising(<< >>, n)
  /\ \A e, h : RisingBut(<< >>, e, h)
  /\ \A m : AcksUpTo(<< >>, m)
  /\ NoSrej(<< >>)
BY DEF EofsLast, AcksRise, Rising, RisingBut, AcksUpTo, NoSrej

\* The facts a step of rcopy starts from while the server sends.
LEMMA TalkReady ==
  ASSUME Inv, ServerCopyInv, Sending
  PROVE  /\ serverState # "FILENAME"
         /\ NBlocks \in Nat /\ WindowSize \in Nat /\ 0 < WindowSize
         /\ expected \in Nat /\ highest \in Nat /\ serverWindow.lower \in Nat /\ serverWindow.current \in Nat
         /\ 1 <= expected /\ serverWindow.lower <= expected
         /\ expected <= serverWindow.current /\ serverWindow.current <= NBlocks + 2
         /\ toClient \in Seq(DataPdu) /\ toServer \in Seq(AckPdu)
         /\ \A m \in Nat : expected <= m => AcksUpTo(toServer, m)
         /\ clientState = "BUFFER" => expected < highest /\ highest < serverWindow.current
         /\ clientState = "FLUSH" => expected <= highest /\ highest < serverWindow.current
<1>1. serverState # "FILENAME"
  BY DEF Sending
<1>2. /\ NBlocks \in Nat /\ WindowSize \in Nat /\ 0 < WindowSize
      /\ expected \in Nat /\ serverWindow.lower \in Nat /\ serverWindow.current \in Nat
      /\ 1 <= expected /\ serverWindow.lower <= expected
      /\ expected <= serverWindow.current
  BY <1>1, WindowNumbers
<1>3. serverWindow.current <= NBlocks + 2
  <2>1. /\ finished => serverWindow.current = NBlocks + 2
        /\ ~finished => serverWindow.current = seqNum /\ seqNum <= NBlocks + 1 /\ seqNum \in Nat
    BY <1>1, WindowNumbers
  <2> QED BY <1>2, <2>1
<1>4. /\ highest \in Nat
      /\ clientState = "BUFFER" => expected < highest /\ highest < serverWindow.current
      /\ clientState = "FLUSH" => expected <= highest /\ highest < serverWindow.current
  BY ClientReady DEF ClientInv, HighestBelowCurrent
<1>5. \A m \in Nat : expected <= m => AcksUpTo(toServer, m)
  <2>1. \A i \in 1..Len(toServer) : toServer[i].num \in Nat /\ (Says(toServer[i], "RR") => toServer[i].num <= expected)
    BY Channels
  <2> QED BY <1>2, <2>1 DEF AcksUpTo
<1> QED BY <1>1, <1>2, <1>3, <1>4, <1>5, Channels

\* What rcopy takes while the server sends.
LEMMA TalkHead ==
  ASSUME Inv, ServerCopyInv, AllExact, Sending, toClient # << >>
  PROVE  /\ Head(toClient) = toClient[1] /\ toClient[1] \in DataPdu
         /\ toClient[1].seq \in Nat /\ toClient[1].seq < serverWindow.current
         /\ PduExact(toClient[1])
         /\ Len(Tail(toClient)) = Len(toClient) - 1
<1>1. 1 \in 1..Len(toClient) /\ Head(toClient) = toClient[1] /\ Len(Tail(toClient)) = Len(toClient) - 1
  BY Channels, TailElements
<1> QED BY <1>1, Channels DEF AllExact

\* What has to be shown of a step of rcopy before it takes END_OF_FILE as data.
LEMMA TalksOn ==
  ASSUME Inv, ServerCopyInv, Sending, Talk, UNCHANGED serverVars, expected <= NBlocks + 1,
         expected' <= NBlocks + 1,
         AcksRise(toServer', serverWindow.lower),
         OneSrej(toServer', expected', serverWindow.current),
         DataOrder',
         EofsLast(toClient', serverWindow.lower),
         clientState' \in {"BUFFER", "FLUSH"} /\ highest' = NBlocks + 1 => eofSeq' = NBlocks + 1
  PROVE  Talk'
<1>1. UNCHANGED <<serverWindow, finalSeq>>
  BY DEF serverVars
<1>2. AckOrder'
  BY <1>1 DEF AckOrder
<1>3. EofKnown'
  BY <1>1 DEF Talk, EofKnown
<1> QED BY <1>2, <1>3 DEF Talk

\* filename() and file_ok() of rcopy.
LEMMA OpeningTalks ==
  ASSUME Inv, ServerCopyInv, Sending, Talk, UNCHANGED serverVars, NEW idle,
         FilenameTimer(idle) \/ FilenameAnswered \/ FileOk
  PROVE  Talk'
<1>1. /\ clientState \in {"FILENAME", "FILE_OK"}
      /\ UNCHANGED <<toServer, expected>>
  BY DEF FilenameTimer, FilenameAnswered, FileOk
<1>2. expected <= NBlocks + 1 /\ AckOrder /\ DataOrder /\ EofKnown
  BY <1>1 DEF Talk, RoundAgain, ClientEnds
<1>3. /\ toServer = << >> /\ expected = 1
      /\ clientState = "FILENAME" => RisingBehind(toClient)
      /\ clientState = "FILE_OK" => Rising(toClient, 1)
  BY <1>1, <1>2 DEF DataOrder, AtRecvData
<1>4. toServer' = << >> /\ expected' = 1 /\ SrejFirst'
  BY <1>1, <1>3, NothingLeft DEF SrejFirst, NoSrej
<1>5. /\ DataOrder'
      /\ toClient' \in {toClient, << >>} \/ (toClient # << >> /\ toClient' = Tail(toClient))
      /\ clientState' \notin {"BUFFER", "FLUSH"}
  <2> USE DEF ClientExits, ClientCloses, ClientReceives
  <2>1. CASE FilenameTimer(idle)
    BY <2>1 DEF FilenameTimer, DataOrder, AtRecvData
  <2>2. CASE FilenameAnswered
    <3>1. /\ clientState = "FILENAME" /\ toClient # << >>
          /\ \/ clientState' = "NO_FILE" /\ toClient' = << >>
             \/ clientState' \in {"FILE_OK", "FILENAME"} /\ toClient' = Tail(toClient)
      BY <2>2 DEF FilenameAnswered
    <3>2. RisingBehind(Tail(toClient)) /\ Rising(Tail(toClient), 1)
      BY <1>3, <3>1, RisingBehindTail, Channels
    <3> QED BY <1>4, <3>1, <3>2 DEF DataOrder, AtRecvData
  <2>3. CASE FileOk
    <3>1. /\ clientState = "FILE_OK"
          /\ \/ clientState' = "RECV_DATA" /\ toClient' = toClient
             \/ clientState' = "OPEN_ERROR" /\ toClient' = << >>
      BY <2>3 DEF FileOk
    <3> QED BY <1>3, <1>4, <3>1 DEF DataOrder, AtRecvData
  <2> QED BY <2>1, <2>2, <2>3
<1>6. EofsLast(toClient', serverWindow.lower)
  BY <1>2, <1>5, EofsLastTail, NothingLeft, Channels DEF EofKnown
<1>7. AcksRise(toServer', serverWindow.lower) /\ OneSrej(toServer', expected', serverWindow.current)
  BY <1>1, <1>2 DEF AckOrder
<1>8. expected' <= NBlocks + 1
  BY <1>1, <1>2
<1> QED BY <1>2, <1>5, <1>6, <1>7, <1>8, TalksOn

\* A packet with a wrong checksum.
LEMMA DamagedTalks ==
  ASSUME Inv, ServerCopyInv, AllExact, Sending, Talk, UNCHANGED serverVars, DataCorrupted
  PROVE  Talk'
<1>1. /\ clientState \in {"RECV_DATA", "BUFFER"} /\ toClient # << >> /\ toClient' = Tail(toClient)
      /\ UNCHANGED toServer
      /\ UNCHANGED <<clientState, expected, highest, eofSeq>>
  BY DEF DataCorrupted, ClientReceives, clientVars
<1>2. ~toClient[1].ok
  BY TalkHead DEF DataCorrupted
<1>3. UNCHANGED <<serverState, serverWindow, finalSeq>>
  BY DEF serverVars
<1>4. /\ Len(toClient) \in Nat /\ Len(toClient') = Len(toClient) - 1
      /\ \A i \in 1..(Len(toClient) - 1) : toClient'[i] = toClient[i + 1]
  BY <1>1, TailElements, Channels
<1>5. \A i \in 1..Len(toClient') : i + 1 \in 1..Len(toClient) /\ toClient'[i] = toClient[i + 1]
  BY <1>4
<1>6. CASE expected <= NBlocks + 1
  <2>1. AckOrder /\ DataOrder /\ EofKnown
    BY <1>6 DEF Talk
  <2>2. EofsLast(toClient', serverWindow.lower)
    BY <1>1, <2>1, EofsLastTail, Channels DEF EofKnown
  <2>3. CASE OldAlone
    <3>1. toClient' = << >> /\ toServer' = << >>
      BY <1>1, <2>3 DEF OldAlone
    <3>2. DataOrder'
      BY <1>1, <3>1, NothingLeft DEF DataOrder, AtRecvData, SrejFirst, SrejBefore
    <3> QED BY <1>1, <1>6, <2>1, <2>2, <3>2, TalksOn DEF AckOrder, EofKnown
  <2>4. CASE ~OldAlone
    <3>1. clientState = "RECV_DATA" => Rising(toClient', expected') /\ SrejFirst'
      <4> SUFFICES ASSUME clientState = "RECV_DATA" PROVE Rising(toClient', expected') /\ SrejFirst'
        OBVIOUS
      <4>1. Rising(toClient, expected) /\ SrejFirst
        BY <2>1, <2>4 DEF DataOrder, AtRecvData
      <4>2. expected \in Nat
        BY TalkReady
      <4>3. Rising(toClient', expected')
        BY <1>1, <4>1, <4>2, RisingTail, Channels
      <4>4. SrejFirst'
        BY <1>1, <1>3, <1>5, <4>1 DEF SrejFirst
      <4> QED BY <4>3, <4>4
    <3>2. clientState = "BUFFER" => RisingBut(toClient', expected', highest') /\ SrejBefore'
      <4> SUFFICES ASSUME clientState = "BUFFER" PROVE RisingBut(toClient', expected', highest') /\ SrejBefore'
        OBVIOUS
      <4>1. RisingBut(toClient, expected, highest) /\ SrejBefore
        BY <2>1, <2>4 DEF DataOrder, AtRecvData
      <4>2. expected \in Nat /\ highest \in Nat /\ expected < highest
        BY TalkReady
      <4>3. RisingBut(toClient', expected', highest')
        BY <1>1, <4>1, <4>2, RisingButTail, Channels
      <4>4. SrejBefore'
        BY <1>1, <1>5, <4>1 DEF SrejBefore
      <4> QED BY <4>3, <4>4
    <3>3. DataOrder'
      BY <1>1, <3>1, <3>2 DEF DataOrder, AtRecvData
    <3> QED BY <1>1, <1>6, <2>1, <2>2, <3>3, TalksOn DEF AckOrder, EofKnown
  <2> QED BY <2>3, <2>4
<1>7. CASE ~(expected <= NBlocks + 1)
  <2>1. RoundAgain
    BY <1>7 DEF Talk
  <2>2. \A i \in 1..Len(toClient') :
          toClient'[i].ok => serverWindow.current <= toClient'[i].seq + WindowSize
    BY <1>5, <2>1 DEF RoundAgain
  <2>3. RoundAgain'
    BY <1>1, <1>3, <2>1, <2>2 DEF RoundAgain
  <2> QED BY <1>1, <1>7, <2>3 DEF Talk
<1> QED BY <1>6, <1>7

\* A whole packet in recv_data().
LEMMA ReceivedTalks ==
  ASSUME Inv, ServerCopyInv, AllExact, Sending, Talk, UNCHANGED serverVars, expected <= NBlocks + 1,
         RecvEof \/ RecvInOrder \/ RecvAhead \/ RecvOld
  PROVE  Talk'
<1> DEFINE p == Head(toClient)
           low == serverWindow.lower
           C == serverWindow.current
<1>1. /\ clientState = "RECV_DATA" /\ toClient # << >> /\ p.ok
      /\ toClient' \in {<< >>, Tail(toClient)}
  BY DEF RecvEof, RecvInOrder, RecvAhead, RecvOld, Takes, ClientReceives, ClientExits, ClientCloses
<1>2. p = toClient[1] /\ p \in DataPdu /\ p.seq \in Nat /\ p.seq < C /\ PduExact(p)
  BY <1>1, TalkHead
<1>3. /\ NBlocks \in Nat /\ WindowSize \in Nat /\ 0 < WindowSize
      /\ expected \in Nat /\ low \in Nat /\ C \in Nat
      /\ low <= expected /\ C <= NBlocks + 2
      /\ toClient \in Seq(DataPdu) /\ toServer \in Seq(AckPdu)
      /\ \A m \in Nat : expected <= m => AcksUpTo(toServer, m)
  BY TalkReady
<1>4. UNCHANGED <<serverState, serverWindow, finalSeq>>
  BY DEF serverVars
<1> HIDE DEF p
<1>5. AcksRise(toServer, low) /\ OneSrej(toServer, expected, C) /\ DataOrder /\ EofKnown
  BY DEF Talk, AckOrder
<1>6. EofLast(p, low) /\ EofsLast(toClient', low)
  BY <1>1, <1>2, <1>3, <1>5, EofsLastTail, NothingLeft DEF EofKnown
<1>7. NoSrej(toServer)
  <2>1. CASE OldAlone
    BY <2>1, NothingLeft DEF OldAlone
  <2>2. CASE ~OldAlone
    <3>1. 1 \in 1..Len(toClient)
      BY <1>1, <1>3, TailElements
    <3> QED BY <1>1, <1>2, <1>5, <2>2, <3>1 DEF DataOrder, AtRecvData, SrejFirst
  <2> QED BY <2>1, <2>2
<1>8. p.seq < expected => OldAlone
  <2>1. CASE ~OldAlone
    <3>1. From(toClient[1], expected)
      <4>1. 1 \in 1..Len(toClient)
        BY <1>1, <1>3, TailElements
      <4> QED BY <1>1, <1>5, <2>1, <4>1 DEF DataOrder, AtRecvData, Rising
    <3> QED BY <1>1, <1>2, <1>3, <3>1 DEF From
  <2> QED BY <2>1
<1>9. Rising(Tail(toClient), p.seq + 1)
  <2>1. CASE OldAlone
    BY <2>1, NothingLeft DEF OldAlone
  <2>2. CASE ~OldAlone
    BY <1>1, <1>2, <1>3, <1>5, <2>2, RisingTail DEF DataOrder, AtRecvData
  <2> QED BY <2>1, <2>2
<1>10. /\ p.seq + 1 \in Nat /\ expected + 1 \in Nat
       /\ \A num \in Nat : /\ CreateAck("RR", num) \in AckPdu /\ CreateAck("SREJ", num) \in AckPdu
                           /\ CreateAck("EOF_ACK", num) \in AckPdu
                           /\ ~Says(CreateAck("SREJ", num), "RR") /\ ~Says(CreateAck("EOF_ACK", num), "RR")
       /\ \A num \in Nat : /\ CreateAck("RR", num).num = num /\ CreateAck("SREJ", num).num = num
                           /\ CreateAck("RR", num).flag = "RR" /\ CreateAck("EOF_ACK", num).flag = "EOF_ACK"
  BY <1>2, <1>3 DEF CreateAck, AckPdu, AckFlags, Says
<1> HIDE DEF low, C
<1>11. CASE RecvEof
  <2>1. /\ SendToServer(CreateAck("EOF_ACK", p.seq + 1))
        /\ expected' = expected /\ clientState' = "FINISHED"
    BY <1>11 DEF RecvEof, ClientExits, p
  <2>2. AcksRise(toServer', low) /\ OneSrej(toServer', expected', C)
    BY <1>3, <1>5, <1>10, <2>1, AckSent
  <2>3. DataOrder'
    BY <2>1 DEF DataOrder, AtRecvData
  <2> QED BY <1>6, <2>1, <2>2, <2>3, TalksOn DEF low, C
<1>12. CASE RecvInOrder
  <2>1. /\ SendToServer(CreateAck("RR", p.seq + 1))
        /\ p.seq = expected /\ p.flag # "END_OF_FILE"
        /\ expected' = expected + 1 /\ clientState' = "WRITE"
        /\ toClient' = Tail(toClient)
    BY <1>12 DEF RecvInOrder, Takes, ClientReceives, p
  <2>2. AcksUpTo(toServer, expected + 1) /\ low <= expected + 1
    BY <1>3
  <2>3. AcksRise(toServer', low) /\ NoSrej(toServer')
    BY <1>3, <1>5, <1>7, <1>10, <2>1, <2>2, AckSent
  <2>4. Rising(toClient', expected')
    BY <1>9, <2>1
  <2>5. CASE expected <= NBlocks
    <3>1. DataOrder'
      BY <2>1, <2>3, <2>4 DEF DataOrder, AtRecvData, SrejFirst
    <3>2. OneSrej(toServer', expected', C)
      BY <2>3 DEF NoSrej, OneSrej
    <3>3. expected' <= NBlocks + 1
      BY <1>3, <2>1, <2>5
    <3> QED BY <1>6, <2>1, <2>3, <3>1, <3>2, <3>3, TalksOn DEF low, C
  <2>6. CASE expected = NBlocks + 1
    <3>1. low = NBlocks + 1 /\ C = NBlocks + 2
      BY <1>1, <1>2, <1>3, <1>6, <2>1, <2>6 DEF EofLast, C
    <3>2. finalSeq = 0
      BY <1>5, <3>1 DEF EofKnown, low
    <3>3. \A i \in 1..Len(toServer') :
            Says(toServer'[i], "RR") => 1 <= toServer'[i].num /\ C <= toServer'[i].num + WindowSize
      <4>1. toServer' \in Seq(AckPdu)
        BY <1>3, <1>10, <2>1, PutAcks DEF SendToServer
      <4>2. \A i \in 1..Len(toServer') : toServer'[i].num \in Nat
        <5>1. \A i \in 1..Len(toServer') : toServer'[i] \in AckPdu
          BY <4>1, ElementOfSeq
        <5> QED BY <5>1 DEF AckPdu
      <4>3. \A i \in 1..Len(toServer') : Says(toServer'[i], "RR") => low <= toServer'[i].num
        BY <2>3 DEF AcksRise
      <4> QED BY <1>3, <3>1, <4>2, <4>3
    <3>4. \A i \in 1..Len(toClient') : toClient'[i].ok => C <= toClient'[i].seq + WindowSize
      <4>1. \A i \in 1..Len(toClient') : toClient'[i].seq \in Nat
        <5>1. toClient' \in Seq(DataPdu)
          BY <1>1, <1>3, <2>1, HeadTailProperties
        <5>2. \A i \in 1..Len(toClient') : toClient'[i] \in DataPdu
          BY <5>1, ElementOfSeq
        <5> QED BY <5>2 DEF DataPdu
      <4>2. \A i \in 1..Len(toClient') : toClient'[i].ok => expected' <= toClient'[i].seq
        BY <2>4 DEF Rising, From
      <4>3. expected' = C /\ C \in Nat /\ WindowSize \in Nat
        BY <1>2, <1>3, <2>1, <2>6, <3>1
      <4> QED BY <4>1, <4>2, <4>3
    <3>5. RoundAgain'
      BY <1>3, <1>4, <2>1, <2>3, <2>6, <3>1, <3>2, <3>3, <3>4 DEF RoundAgain, C
    <3>6. ~(expected' <= NBlocks + 1)
      BY <1>3, <2>1, <2>6
    <3> QED BY <3>5, <3>6 DEF Talk
  <2> QED BY <1>3, <2>5, <2>6
<1>13. CASE RecvAhead
  <2>1. /\ SendToServer(CreateAck("SREJ", expected))
        /\ p.seq > expected /\ Learns(p)
        /\ expected' = expected /\ highest' = p.seq /\ clientState' = "BUFFER"
        /\ toClient' = Tail(toClient)
    BY <1>13 DEF RecvAhead, Takes, ClientReceives, p
  <2>2. expected + 1 < C
    BY <1>2, <1>3, <2>1 DEF C
  <2>3. AcksRise(toServer', low) /\ OneSrej(toServer', expected, C)
    BY <1>3, <1>5, <1>7, <1>10, <2>1, <2>2, AckSent
  <2>4. RisingBut(toClient', expected, p.seq) /\ \A k \in 1..Len(toClient') : toClient'[k].ok => toClient'[k].seq # expected
    <3>1. /\ \A i \in 1..Len(toClient') : From(toClient'[i], p.seq + 1)
          /\ \A i, j \in 1..Len(toClient') : i < j => Precedes(toClient'[i], toClient'[j])
      BY <1>9, <2>1 DEF Rising
    <3>2. \A i \in 1..Len(toClient') : toClient'[i].seq \in Nat
      <4>1. toClient' \in Seq(DataPdu)
        BY <1>1, <1>3, <2>1, HeadTailProperties
      <4> SUFFICES ASSUME NEW i \in 1..Len(toClient') PROVE toClient'[i].seq \in Nat
        OBVIOUS
      <4>2. toClient'[i] \in DataPdu
        BY <4>1, ElementOfSeq
      <4> QED BY <4>2 DEF DataPdu
    <3>3. \A i \in 1..Len(toClient') : toClient'[i].ok => p.seq < toClient'[i].seq
      BY <1>2, <3>1, <3>2 DEF From
    <3>4. \A i \in 1..Len(toClient') : Beyond(toClient'[i], expected, p.seq)
      BY <3>1, <3>3 DEF From, Beyond
    <3>5. \A i, j \in 1..Len(toClient') : i < j => PrecedesBut(toClient'[i], toClient'[j], expected, p.seq)
      BY <3>1 DEF PrecedesBut, Precedes
    <3>6. RisingBut(toClient', expected, p.seq)
      BY <3>4, <3>5 DEF RisingBut
    <3>7. ASSUME NEW k \in 1..Len(toClient'), toClient'[k].ok PROVE toClient'[k].seq # expected
      <4>1. p.seq < toClient'[k].seq /\ expected < p.seq
        BY <2>1, <3>3, <3>7
      <4>2. toClient'[k].seq \in Nat /\ p.seq \in Nat /\ expected \in Nat
        BY <1>2, <1>3, <3>2
      <4> QED BY <4>1, <4>2
    <3> QED BY <3>6, <3>7
  <2>5. DataOrder'
    BY <2>1, <2>4 DEF DataOrder, AtRecvData, SrejBefore
  <2>6. highest' = NBlocks + 1 => eofSeq' = NBlocks + 1
    <3>1. p.seq = NBlocks + 1 => p.flag = "END_OF_FILE"
      BY <1>1, <1>3, <1>6, <2>1 DEF EofLast
    <3> QED BY <2>1, <3>1 DEF Learns
  <2> QED BY <1>6, <2>1, <2>3, <2>5, <2>6, TalksOn DEF low, C
<1>14. CASE RecvOld
  <2>1. /\ SendToServer(CreateAck("RR", p.seq + 1))
        /\ p.seq < expected
        /\ expected' = expected /\ clientState' = "RECV_DATA"
        /\ toClient' = Tail(toClient)
    BY <1>14 DEF RecvOld, Takes, ClientReceives, p
  <2>2. toClient' = << >> /\ toServer = << >> /\ low <= p.seq
    BY <1>2, <1>8, <2>1 DEF OldAlone, low
  <2>3. low <= p.seq + 1 /\ AcksUpTo(toServer, p.seq + 1)
    BY <1>2, <1>3, <2>2, NothingLeft
  <2>4. AcksRise(toServer', low) /\ OneSrej(toServer', expected, C) /\ NoSrej(toServer')
    BY <1>3, <1>5, <1>7, <1>10, <2>1, <2>3, AckSent
  <2>5. DataOrder'
    BY <2>1, <2>2, <2>4, NothingLeft DEF DataOrder, AtRecvData, SrejFirst
  <2> QED BY <1>6, <2>1, <2>4, <2>5, TalksOn DEF low, C
<1> QED BY <1>11, <1>12, <1>13, <1>14

\* The same behind END_OF_FILE: every packet is an old one.
LEMMA RoundTalks ==
  ASSUME Inv, ServerCopyInv, AllExact, Sending, Talk, UNCHANGED serverVars, ~(expected <= NBlocks + 1),
         RecvEof \/ RecvInOrder \/ RecvAhead \/ RecvOld
  PROVE  Talk'
<1> DEFINE p == Head(toClient)
           C == serverWindow.current
<1>1. /\ clientState = "RECV_DATA" /\ toClient # << >> /\ p.ok
  BY DEF RecvEof, RecvInOrder, RecvAhead, RecvOld, Takes
<1>2. p = toClient[1] /\ p.seq \in Nat /\ p.seq < C
  BY <1>1, TalkHead
<1>3. /\ NBlocks \in Nat /\ WindowSize \in Nat /\ C \in Nat
      /\ toClient \in Seq(DataPdu) /\ toServer \in Seq(AckPdu)
  BY TalkReady
<1>4. UNCHANGED <<serverState, serverWindow, finalSeq>>
  BY DEF serverVars
<1>5. RoundAgain
  BY DEF Talk
<1>6. expected = NBlocks + 2 /\ C = NBlocks + 2
  BY <1>5 DEF RoundAgain
<1>7. RecvOld
  BY <1>2, <1>3, <1>6 DEF RecvEof, RecvInOrder, RecvAhead
<1>8. /\ SendToServer(CreateAck("RR", p.seq + 1))
      /\ expected' = expected /\ clientState' = "RECV_DATA" /\ toClient' = Tail(toClient)
  BY <1>7 DEF RecvOld, Takes, ClientReceives
<1>9. C <= p.seq + WindowSize
  <2>1. 1 \in 1..Len(toClient)
    BY <1>1, <1>3, TailElements
  <2> QED BY <1>1, <1>2, <1>5, <2>1 DEF RoundAgain
<1> HIDE DEF p, C
<1> DEFINE a == CreateAck("RR", p.seq + 1)
<1>10. a \in AckPdu /\ a.num = p.seq + 1 /\ ~Says(a, "SREJ") /\ SendToServer(a)
  BY <1>2, <1>8 DEF CreateAck, AckPdu, AckFlags, Says
<1> HIDE DEF a
<1>11. /\ NoSrej(toServer')
       /\ \A i \in 1..Len(toServer') :
            Says(toServer'[i], "RR") => 1 <= toServer'[i].num /\ C <= toServer'[i].num + WindowSize
  <2>1. /\ NoSrej(toServer)
        /\ \A i \in 1..Len(toServer) :
             Says(toServer[i], "RR") => 1 <= toServer[i].num /\ C <= toServer[i].num + WindowSize
    BY <1>5 DEF RoundAgain, C
  <2>2. CASE toServer' = toServer
    BY <2>1, <2>2
  <2>3. ASSUME NEW f \in Fates, toServer' = Put(toServer, a, f)
        PROVE  /\ NoSrej(toServer')
               /\ \A i \in 1..Len(toServer') :
                    Says(toServer'[i], "RR") => 1 <= toServer'[i].num /\ C <= toServer'[i].num + WindowSize
    <3>1. NoSrej(toServer')
      BY <1>3, <1>10, <2>1, <2>3, SrejPut
    <3>2. Extended(toServer, toServer', a)
      BY <1>3, <1>10, <2>3, PutExtends
    <3>3. 1 <= a.num /\ C <= a.num + WindowSize
      BY <1>2, <1>3, <1>9, <1>10
    <3>4. ASSUME NEW i \in 1..Len(toServer'), Says(toServer'[i], "RR")
          PROVE  1 <= toServer'[i].num /\ C <= toServer'[i].num + WindowSize
      <4>1. CASE i <= Len(toServer) BY <2>1, <3>2, <3>4, <4>1 DEF Extended
      <4>2. CASE i > Len(toServer) BY <3>2, <3>3, <3>4, <4>2 DEF Extended, Says
      <4> QED BY <3>2, <4>1, <4>2 DEF Extended
    <3> QED BY <3>1, <3>4
  <2> QED BY <1>10, <2>2, <2>3 DEF SendToServer
<1>12. \A i \in 1..Len(toClient') : toClient'[i].ok => C <= toClient'[i].seq + WindowSize
  <2>1. /\ Len(toClient) \in Nat /\ Len(toClient') = Len(toClient) - 1
        /\ \A i \in 1..(Len(toClient) - 1) : toClient'[i] = toClient[i + 1]
    BY <1>1, <1>3, <1>8, TailElements
  <2>2. \A i \in 1..Len(toClient') : i + 1 \in 1..Len(toClient) /\ toClient'[i] = toClient[i + 1]
    BY <2>1
  <2>3. \A i \in 1..Len(toClient) : toClient[i].ok => C <= toClient[i].seq + WindowSize
    BY <1>5 DEF RoundAgain, C
  <2> QED BY <2>2, <2>3
<1>13. RoundAgain'
  BY <1>4, <1>5, <1>8, <1>11, <1>12 DEF RoundAgain, C
<1> QED BY <1>8, <1>13 DEF Talk

\* A whole packet in buffer().
LEMMA BufferTalks ==
  ASSUME Inv, ServerCopyInv, AllExact, Sending, Talk, UNCHANGED serverVars,
         BufferOld \/ BufferInOrder \/ BufferAhead
  PROVE  Talk'
<1> DEFINE p == Head(toClient)
           low == serverWindow.lower
           C == serverWindow.current
           h == highest
<1>1. /\ clientState = "BUFFER" /\ toClient # << >> /\ p.ok
      /\ toClient' = Tail(toClient)
  BY DEF BufferOld, BufferInOrder, BufferAhead, Takes, ClientReceives
<1>2. p = toClient[1] /\ p \in DataPdu /\ p.seq \in Nat /\ p.seq < C /\ PduExact(p)
  BY <1>1, TalkHead
<1>3. /\ NBlocks \in Nat
      /\ expected \in Nat /\ h \in Nat /\ low \in Nat /\ C \in Nat
      /\ low <= expected /\ expected < h /\ h < C /\ C <= NBlocks + 2
      /\ toClient \in Seq(DataPdu) /\ toServer \in Seq(AckPdu)
  BY <1>1, TalkReady
<1>4. UNCHANGED <<serverState, serverWindow, finalSeq>>
  BY DEF serverVars
<1>5. expected + 1 <= NBlocks + 1 /\ expected <= NBlocks + 1
  BY <1>3
<1>6. AcksRise(toServer, low) /\ OneSrej(toServer, expected, C) /\ DataOrder /\ EofKnown
  BY <1>5 DEF Talk, AckOrder
<1>7. EofLast(p, low) /\ EofsLast(toClient', low)
  BY <1>1, <1>2, <1>3, <1>6, EofsLastTail DEF EofKnown
<1>8. OldAlone => toClient' = << >> /\ toServer = << >> /\ NoSrej(toServer) /\ low <= p.seq /\ serverState = "WAIT_ON_ACK"
  BY <1>1, <1>2, NothingLeft DEF OldAlone
<1>9. ~OldAlone => RisingBut(toClient, expected, h) /\ SrejBefore /\ Beyond(p, expected, h)
  <2>1. 1 \in 1..Len(toClient)
    BY <1>1, <1>3, TailElements
  <2> QED BY <1>1, <1>2, <1>6, <2>1 DEF DataOrder, AtRecvData, RisingBut
<1> HIDE DEF p, low, C, h
<1>10. CASE BufferOld
  <2>1. /\ SendBothToServer(CreateAck("SREJ", expected), CreateAck("RR", p.seq + 1))
        /\ p.seq < expected /\ expected' = expected /\ clientState' = "RECV_DATA"
    BY <1>10 DEF BufferOld, Takes, p
  <2>2. OldAlone
    BY <1>1, <1>2, <1>3, <1>9, <2>1 DEF Beyond
  <2>3. /\ low <= p.seq + 1 /\ p.seq + 1 \in Nat /\ expected + 1 < C
        /\ AcksUpTo(toServer, p.seq + 1)
    BY <1>2, <1>3, <1>8, <2>2, NothingLeft
  <2>4. /\ AcksRise(toServer', low) /\ OneSrej(toServer', expected, C)
        /\ NoSrej(toServer') \/ Says(toServer'[1], "SREJ")
    BY <1>3, <1>6, <1>8, <2>1, <2>2, <2>3, SrejAndAckSent
  <2>5. \A k \in 1..Len(toClient') : ~toClient'[k].ok
    BY <1>8, <2>2
  <2>6. SrejFirst'
    BY <1>4, <1>8, <2>2, <2>4, <2>5 DEF SrejFirst
  <2>7. DataOrder'
    BY <1>8, <2>1, <2>2, <2>6, NothingLeft DEF DataOrder, AtRecvData
  <2> QED BY <1>5, <1>7, <2>1, <2>4, <2>7, TalksOn DEF low, C
<1>11. CASE BufferInOrder
  <2>1. /\ p.seq = expected /\ expected' = expected + 1 /\ clientState' = "FLUSH"
        /\ toServer' = toServer /\ highest' = highest /\ Learns(p)
    BY <1>11 DEF BufferInOrder, p
  <2>2. NoSrej(toServer)
    <3>1. 1 \in 1..Len(toClient)
      BY <1>1, <1>3, TailElements
    <3> QED BY <1>1, <1>2, <1>8, <1>9, <2>1, <3>1 DEF SrejBefore
  <2>3. Rising(toClient', h + 1)
    BY <1>1, <1>2, <1>3, <1>8, <1>9, <2>1, RisingButTail, NothingLeft
  <2>4. DataOrder'
    BY <2>1, <2>2, <2>3 DEF DataOrder, AtRecvData, h
  <2>5. OneSrej(toServer', expected', C)
    BY <2>1, <2>2 DEF NoSrej, OneSrej
  <2>6. highest' = NBlocks + 1 => eofSeq' = NBlocks + 1
    <3>1. p.flag = "END_OF_FILE" => p.seq = NBlocks + 1
      BY <1>1, <1>2 DEF PduExact, Exact
    <3> QED BY <1>1, <1>6, <2>1, <3>1 DEF Learns, EofKnown
  <2>7. AcksRise(toServer', low)
    BY <1>6, <2>1
  <2> QED BY <1>5, <1>7, <2>1, <2>4, <2>5, <2>6, <2>7, TalksOn DEF low, C
<1>12. CASE BufferAhead
  <2>1. /\ p.seq > expected /\ expected' = expected /\ clientState' = "BUFFER"
        /\ toServer' = toServer /\ highest' = p.seq /\ Learns(p)
    BY <1>1, <1>12 DEF BufferAhead, Takes, p
  <2>2. RisingBut(toClient', expected, p.seq)
    BY <1>1, <1>2, <1>3, <1>8, <1>9, <2>1, RisingButTail, NothingLeft
  <2>3. SrejBefore'
    <3>1. CASE NoSrej(toServer)
      BY <2>1, <3>1 DEF SrejBefore
    <3>2. CASE ~OldAlone
      <4>1. /\ Len(toClient) \in Nat /\ Len(toClient') = Len(toClient) - 1
            /\ \A i \in 1..(Len(toClient) - 1) : toClient'[i] = toClient[i + 1]
        BY <1>1, <1>3, TailElements
      <4>2. \A i \in 1..Len(toClient') : i + 1 \in 1..Len(toClient) /\ toClient'[i] = toClient[i + 1]
        BY <4>1
      <4> QED BY <1>9, <2>1, <3>2, <4>2 DEF SrejBefore
    <3> QED BY <1>8, <3>1, <3>2
  <2>4. DataOrder'
    BY <2>1, <2>2, <2>3 DEF DataOrder, AtRecvData
  <2>5. highest' = NBlocks + 1 => eofSeq' = NBlocks + 1
    <3>1. p.seq = NBlocks + 1 => p.flag = "END_OF_FILE"
      BY <1>1, <1>3, <1>7, <2>1 DEF EofLast
    <3> QED BY <2>1, <3>1 DEF Learns
  <2>6. AcksRise(toServer', low) /\ OneSrej(toServer', expected', C)
    BY <1>6, <2>1
  <2> QED BY <1>5, <1>7, <2>1, <2>4, <2>5, <2>6, TalksOn DEF low, C
<1> QED BY <1>10, <1>11, <1>12

LEMMA FlushTalks ==
  ASSUME Inv, ServerCopyInv, Sending, Talk, UNCHANGED serverVars, FlushEof \/ FlushAll \/ FlushHole
  PROVE  Talk'
<1> DEFINE e == FlushedTo
           low == serverWindow.lower
           C == serverWindow.current
           h == highest
<1>1. clientState = "FLUSH" /\ UNCHANGED <<highest, eofSeq>>
  BY DEF FlushEof, FlushAll, FlushHole, Flushes
<1>2. /\ NBlocks \in Nat
      /\ expected \in Nat /\ h \in Nat /\ low \in Nat /\ C \in Nat
      /\ low <= expected /\ expected <= h /\ h < C /\ C <= NBlocks + 2
      /\ toClient \in Seq(DataPdu) /\ toServer \in Seq(AckPdu)
      /\ \A m \in Nat : expected <= m => AcksUpTo(toServer, m)
  BY <1>1, TalkReady
<1>3. e \in Nat /\ expected <= e /\ e <= h
  BY <1>2, FlushedToBound
<1>4. expected <= NBlocks + 1 /\ e <= NBlocks + 1 /\ low <= e /\ AcksUpTo(toServer, e)
  BY <1>2, <1>3
<1>5. AcksRise(toServer, low) /\ DataOrder /\ EofKnown
  BY <1>4 DEF Talk, AckOrder
<1>6. Rising(toClient, h + 1) /\ NoSrej(toServer) /\ EofsLast(toClient, low)
  BY <1>1, <1>5 DEF DataOrder, AtRecvData, EofKnown
<1> HIDE DEF e, low, C, h
<1>7. CASE FlushEof
  <2>1. /\ \/ SendBothToServer(CreateAck("RR", e), CreateAck("EOF_ACK", e))
           \/ SendToServer(CreateAck("EOF_ACK", e))
        /\ expected' = e /\ clientState' = "FINISHED" /\ toClient' = << >>
    BY <1>7 DEF FlushEof, ClientExits, ClientCloses, e
  <2>2. AcksRise(toServer', low) /\ NoSrej(toServer')
    <3>1. CASE SendBothToServer(CreateAck("RR", e), CreateAck("EOF_ACK", e))
      BY <1>2, <1>3, <1>4, <1>5, <1>6, <3>1, EofAndAckSent
    <3>2. CASE SendToServer(CreateAck("EOF_ACK", e))
      <4>1. /\ CreateAck("EOF_ACK", e) \in AckPdu
            /\ CreateAck("EOF_ACK", e).flag # "SREJ" /\ ~Says(CreateAck("EOF_ACK", e), "RR")
        BY <1>3 DEF CreateAck, AckPdu, AckFlags, Says
      <4> QED BY <1>2, <1>5, <1>6, <3>2, <4>1, AckSent
    <3> QED BY <2>1, <3>1, <3>2
  <2>3. OneSrej(toServer', e, C)
    BY <2>2 DEF NoSrej, OneSrej
  <2>4. DataOrder'
    BY <2>1 DEF DataOrder, AtRecvData
  <2> QED BY <1>4, <2>1, <2>2, <2>3, <2>4, TalksOn, NothingLeft DEF low, C
<1>8. CASE FlushAll
  <2>1. /\ e >= h /\ e # eofSeq
        /\ SendToServer(CreateAck("RR", e))
        /\ expected' = e + 1 /\ clientState' = "WRITE" /\ toClient' = toClient
    BY <1>8 DEF FlushAll, e, h
  <2>2. e = h
    BY <1>2, <1>3, <2>1
  <2>3. AcksRise(toServer', low) /\ NoSrej(toServer')
    <3>1. CreateAck("RR", e) \in AckPdu /\ CreateAck("RR", e).flag # "SREJ" /\ CreateAck("RR", e).num = e
      BY <1>3 DEF CreateAck, AckPdu, AckFlags
    <3> QED BY <1>2, <1>4, <1>5, <1>6, <2>1, <3>1, AckSent
  <2>4. OneSrej(toServer', e + 1, C)
    BY <2>3 DEF NoSrej, OneSrej
  <2>5. DataOrder'
    BY <1>6, <2>1, <2>2, <2>3 DEF DataOrder, AtRecvData, SrejFirst
  <2>6. e # NBlocks + 1
    BY <1>1, <1>5, <2>1, <2>2 DEF EofKnown, h
  <2>7. expected' <= NBlocks + 1
    BY <1>2, <1>3, <1>4, <2>1, <2>6
  <2> QED BY <1>4, <1>6, <2>1, <2>3, <2>4, <2>5, <2>7, TalksOn DEF low, C
<1>9. CASE FlushHole
  <2>1. /\ e < h
        /\ SendBothToServer(CreateAck("SREJ", e), CreateAck("RR", e))
        /\ expected' = e /\ clientState' = "BUFFER" /\ toClient' = toClient
    BY <1>9 DEF FlushHole, e, h
  <2>2. e + 1 < C
    BY <1>2, <1>3, <2>1
  <2>3. AcksRise(toServer', low) /\ OneSrej(toServer', e, C)
    BY <1>2, <1>3, <1>4, <1>5, <1>6, <2>1, <2>2, SrejAndAckSent
  <2>4. RisingBut(toClient', e, h) /\ \A k \in 1..Len(toClient') : toClient'[k].ok => toClient'[k].seq # e
    <3>1. /\ \A i \in 1..Len(toClient) : From(toClient[i], h + 1)
          /\ \A i, j \in 1..Len(toClient) : i < j => Precedes(toClient[i], toClient[j])
      BY <1>6 DEF Rising
    <3>2. \A i \in 1..Len(toClient) : toClient[i].seq \in Nat
      BY Channels
    <3>3. \A i \in 1..Len(toClient) : toClient[i].ok => h < toClient[i].seq
      BY <1>2, <3>1, <3>2 DEF From
    <3>4. RisingBut(toClient, e, h)
      BY <3>1, <3>3 DEF RisingBut, Beyond, PrecedesBut, Precedes
    <3> QED BY <1>2, <1>3, <2>1, <3>2, <3>3, <3>4
  <2>5. DataOrder'
    BY <1>1, <2>1, <2>4 DEF DataOrder, AtRecvData, SrejBefore, h
  <2>6. highest' = NBlocks + 1 => eofSeq' = NBlocks + 1
    BY <1>1, <1>5 DEF EofKnown
  <2> QED BY <1>4, <1>6, <2>1, <2>3, <2>5, <2>6, TalksOn DEF low, C
<1> QED BY <1>7, <1>8, <1>9

\* The write() after an RR: nothing on the wire moves.
LEMMA WriteTalks ==
  ASSUME Talk, UNCHANGED serverVars, WriteAcknowledged
  PROVE  Talk'
<1>1. /\ clientState = "WRITE" /\ clientState' = "RECV_DATA"
      /\ UNCHANGED <<toClient, toServer, expected, highest, eofSeq>>
  BY DEF WriteAcknowledged, linkVars
<1>2. UNCHANGED <<serverState, serverWindow, finalSeq>>
  BY DEF serverVars
<1>3. ASSUME AckOrder, DataOrder, EofKnown PROVE AckOrder' /\ DataOrder' /\ EofKnown'
  BY <1>1, <1>2, <1>3 DEF AckOrder, DataOrder, AtRecvData, EofKnown, OldAlone, SrejFirst
<1>4. ASSUME RoundAgain PROVE RoundAgain'
  BY <1>1, <1>2, <1>4 DEF RoundAgain
<1> QED BY <1>1, <1>3, <1>4 DEF Talk

LEMMA ClientTalk ==
  ASSUME Inv, ServerCopyInv, WindowEdges, Waits, AllExact, Sending, Talk, ClientNext(ServerIdle),
         UNCHANGED serverVars, InOrder'
  PROVE  Talk'
<1>1. ~DataTimer
  <2>1. serverOpen
    BY DEF Sending, Inv, OpenInv, ServerRunning
  <2>2. ~TimerExpires(~serverOpen)
    BY <2>1, TimerIsRight, Zenon
  <2> QED BY <2>2 DEF DataTimer
<1>2. CASE FilenameTimer(ServerIdle) \/ FilenameAnswered \/ FileOk
  BY <1>2, OpeningTalks
<1>3. CASE DataCorrupted
  BY <1>3, DamagedTalks
<1>4. CASE RecvEof \/ RecvInOrder \/ RecvAhead \/ RecvOld
  BY <1>4, ReceivedTalks, RoundTalks
<1>5. CASE BufferOld \/ BufferInOrder \/ BufferAhead
  BY <1>5, BufferTalks
<1>6. CASE WriteAcknowledged
  BY <1>6, WriteTalks
<1>7. CASE FlushEof \/ FlushAll \/ FlushHole
  BY <1>7, FlushTalks
<1> QED BY <1>1, <1>2, <1>3, <1>4, <1>5, <1>6, <1>7 DEF ClientNext, ClientReceivesData

LEMMA ClientOrders ==
  ASSUME Inv, ServerCopyInv, OrderedInv, ClientNext(ServerIdle), UNCHANGED serverVars, InOrder'
  PROVE  OrderedInv'
<1>1. WindowEdges /\ Waits /\ (Sending => Talk) /\ AllExact /\ FlushReady
  BY DEF OrderedInv
<1>2. WindowEdges'
  BY <1>1 DEF WindowEdges, serverVars
<1>3. Waits' /\ AllExact' /\ FlushReady'
  BY <1>1, ClientWaits, ClientExact, ClientFlushReady
<1>4. Sending' => Talk'
  <2>1. Sending' = Sending
    BY DEF Sending, serverVars
  <2> QED BY <1>1, <2>1, ClientTalk
<1> QED BY <1>2, <1>3, <1>4 DEF OrderedInv

LEMMA WindowStep ==
  ASSUME Inv, ServerCopyInv, Retains, WindowInv, [Next]_vars
  PROVE  WindowInv'
<1> SUFFICES ASSUME InOrder' PROVE OrderedInv'
  BY DEF WindowInv
<1>1. OrderedInv /\ ~NetworkStep
  BY InOrderBefore DEF WindowInv
<1>2. CASE ServerStep
  BY <1>1, <1>2, ServerOrders DEF ServerStep
<1>3. CASE ClientStep
  BY <1>1, <1>3, ClientOrders DEF ClientStep
<1>4. CASE UNCHANGED vars
  <2>1. UNCHANGED <<toClient, toServer, serverState, serverWindow, finished, finalSeq, clientVars>>
    BY <1>4 DEF vars, linkVars, serverVars
  <2>2. UNCHANGED <<clientState, clientWindow, expected, highest, eofSeq>>
    BY <2>1 DEF clientVars
  <2>3. WindowEdges' /\ AllExact' /\ FlushReady'
    BY <1>1, <2>1, <2>2 DEF OrderedInv, WindowEdges, AllExact, FlushReady
  <2>4. Waits'
    BY <1>1, <2>1, <2>2 DEF OrderedInv, Waits, WindowClosed, WindowFull, Quiet, ClientIdle
  <2>5. Talk' = Talk /\ Sending' = Sending
    BY <2>1, <2>2 DEF Talk, AckOrder, DataOrder, AtRecvData, EofKnown, RoundAgain, OldAlone, SrejFirst, SrejBefore, Sending
  <2> QED BY <1>1, <2>3, <2>4, <2>5 DEF OrderedInv
<1> QED BY <1>1, <1>2, <1>3, <1>4 DEF Next, Terminated

-----------------------------------------------------------------------------

LEMMA WindowInvariance == Spec => [](Inv /\ ServerCopyInv /\ Retains /\ WindowInv)
<1>1. Init => ServerCopyInv /\ Retains /\ WindowInv
  BY ServerCopyInit, RetainsInit
<1>2. Inv /\ (ServerCopyInv /\ Retains /\ WindowInv) /\ [Next]_vars
        => (ServerCopyInv /\ Retains /\ WindowInv)'
  BY ServerCopyStep, RetainsStep, WindowStep
<1> QED BY <1>1, <1>2, Invariance, PTL DEF Spec

-----------------------------------------------------------------------------
(* What the invariant says of the window and of the packets *)

\* send_data() stops at the upper edge of the window, and no RR moves that edge
\* below what has been sent: window_full(), which tests for equality only, is
\* never passed, and no packet loses its slot to a later one before its RR.
THEOREM Bounded == Spec => [](InOrder => WindowBound)
<1>1. Inv /\ ServerCopyInv /\ Retains /\ WindowInv => (InOrder => WindowBound)
  <2> SUFFICES ASSUME Inv, WindowInv, InOrder PROVE WindowBound
    OBVIOUS
  <2>1. CASE serverState = "FILENAME"
    BY <2>1 DEF Inv, SafeInv, ServerWindowInv, NoWindow, WindowBound
  <2>2. CASE serverState # "FILENAME"
    BY <2>2 DEF WindowInv, OrderedInv, WindowEdges, WindowBound
  <2> QED BY <2>1, <2>2
<1> QED BY <1>1, WindowInvariance, PTL

\* What rcopy may still ask for with an SREJ, or the server's timer may have to
\* send again, is in its slot of the server's window.
THEOREM Retained == Spec => [](InOrder => RetainedUntilAcked)
<1>1. Inv /\ ServerCopyInv /\ Retains /\ WindowInv => (InOrder => RetainedUntilAcked)
  <2> SUFFICES ASSUME Inv, ServerCopyInv, Retains, WindowInv, InOrder, serverState # "FILENAME",
                      NEW s \in expected..(serverWindow.current - 1)
               PROVE  SlotOf(serverWindow, s).seq = s
    BY DEF RetainedUntilAcked
  <2>1. WindowEdges
    BY DEF WindowInv, OrderedInv
  <2>2. /\ serverWindow.lower \in Nat /\ serverWindow.current \in Nat /\ expected \in Nat
        /\ serverWindow.lower <= expected
    BY WindowNumbers
  <2>3. s \in Nat /\ serverWindow.lower <= s /\ s < serverWindow.current
    BY <2>2
  <2> QED BY <2>1, <2>3, InWindow
<1> QED BY <1>1, WindowInvariance, PTL

\* A block that send_srej() or timeout_on_ack() sends again has the bytes and
\* the length it had the first time.
THEOREM Resent == Spec => [](InOrder => ResentExact)
<1>1. Inv /\ ServerCopyInv /\ Retains /\ WindowInv => (InOrder => ResentExact)
  BY DEF WindowInv, OrderedInv, AllExact, PduExact, Exact, PduLen, ResentExact
<1> QED BY <1>1, WindowInvariance, PTL

\* flush() writes slot highest without a look at its valid flag: what it finds
\* there is the packet highest.
THEOREM Flushable == Spec => [](InOrder => FlushReady)
<1>1. Inv /\ ServerCopyInv /\ Retains /\ WindowInv => (InOrder => FlushReady)
  BY DEF WindowInv, OrderedInv
<1> QED BY <1>1, WindowInvariance, PTL

-----------------------------------------------------------------------------
(* The direction of the window *)

Forward == serverState # "FILENAME" => serverWindow'.lower >= serverWindow.lower

\* Only an RR moves the window, and as long as END_OF_FILE has not been taken
\* as data, RRs arrive in rising order.
LEMMA ForwardStep ==
  ASSUME Inv, ServerCopyInv, WindowInv, [Next]_vars, InOrder', Sending => expected <= NBlocks + 1
  PROVE  Forward
<1> SUFFICES ASSUME serverState # "FILENAME" PROVE serverWindow'.lower >= serverWindow.lower
  BY DEF Forward
<1>1. OrderedInv /\ ~NetworkStep
  BY InOrderBefore DEF WindowInv
<1>2. serverWindow.lower \in Nat
  BY WindowNumbers
<1>3. CASE UNCHANGED serverVars
  BY <1>2, <1>3 DEF serverVars
<1>4. CASE ServerStep
  <2>1. Adds \/ Kept
    BY <1>4, ServerStepKinds DEF ServerStep, ServerFilename
  <2>2. CASE Adds
    BY <1>2, <2>2 DEF Adds, Added
  <2>3. CASE Kept /\ ~AckData
    BY <1>2, <2>3 DEF Kept
  <2>4. CASE AckData
    <3>1. /\ serverState = "WAIT_ON_ACK" /\ toServer # << >>
          /\ Says(toServer[1], "RR") /\ serverWindow'.lower = toServer[1].num
      BY <2>4, AckHead DEF AckData, TakesAck, Says, WindowSlide, WindowRemove
    <3>2. AcksRise(toServer, serverWindow.lower)
      BY <1>1, <3>1 DEF OrderedInv, Sending, Talk, AckOrder
    <3>3. 1 \in 1..Len(toServer)
      BY <3>1, Channels, TailElements
    <3> QED BY <1>2, <3>1, <3>2, <3>3, AckHead DEF AcksRise
  <2> QED BY <2>1, <2>2, <2>3, <2>4
<1> QED BY <1>1, <1>3, <1>4 DEF Next, ClientStep, Terminated, vars, serverVars

\* A last block that is not full tells rcopy, and final_packet_seq the server,
\* where the file ends; END_OF_FILE is then never taken as data.
LEMMA NotPast ==
  ASSUME NBlocks > 0, LastLen < BufSize, Inv, ServerCopyInv, WindowInv, InOrder, Sending
  PROVE  expected <= NBlocks + 1
<1> SUFFICES ASSUME ~(expected <= NBlocks + 1) PROVE FALSE
  OBVIOUS
<1>1. serverWindow.current = NBlocks + 2 /\ finalSeq = 0
  BY DEF WindowInv, OrderedInv, Talk, RoundAgain
<1>2. NBlocks \in Nat /\ BufSize \in Nat /\ LastLen \in Nat
  BY FileAssumption
<1>3. seqNum = NBlocks + 1
  BY <1>1, <1>2, WindowNumbers DEF Sending
<1>4. NBlocks \in 1..(seqNum - 1)
  BY <1>2, <1>3
<1>5. StoredLen(NBlocks) = HeaderLen + LastLen
  BY <1>4 DEF ServerCopyInv, ServerCounted, PduLen, BlockLen
<1>6. StoredLen(NBlocks) = HeaderLen + BufSize
  BY <1>1, <1>2 DEF StoredLen, DataPacketLen
<1> QED BY <1>2, <1>5, <1>6 DEF HeaderLen

\* wait_on_ack() slides to whatever number an RR carries. When the file ends
\* with a block that is not full, that is never backwards before the first
\* packet is overtaken or the first timer expires early.
THEOREM ForwardInOrder ==
  ASSUME NBlocks > 0, LastLen < BufSize
  PROVE  Spec => [][InOrder' => Forward]_vars
<1>1. Inv /\ (ServerCopyInv /\ Retains /\ WindowInv) /\ [Next]_vars => [InOrder' => Forward]_vars
  <2> SUFFICES ASSUME Inv, ServerCopyInv, WindowInv, [Next]_vars, InOrder' PROVE Forward
    OBVIOUS
  <2>1. InOrder
    BY InOrderBefore
  <2> QED BY <2>1, NotPast, ForwardStep
<1> QED BY <1>1, WindowInvariance, PTL DEF Spec

\* So on a network that keeps the order of packets the window never moves back.
THEOREM Slides ==
  ASSUME NBlocks > 0, LastLen < BufSize, MaxDelays = 0, MaxDisorder = 0
  PROVE  Spec => SlidesForward
<1>1. Inv => InOrder
  BY DEF Inv, SafeInv, BudgetInv, InOrder
<1>2. Forward => (serverState # "FILENAME" => serverWindow'.lower >= serverWindow.lower)
  BY DEF Forward
<1> QED BY <1>1, <1>2, Invariance, ForwardInOrder, PTL DEF SlidesForward
=============================================================================

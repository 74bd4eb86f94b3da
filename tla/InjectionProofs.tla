--------------------------- MODULE InjectionProofs ---------------------------
(***************************************************************************)
(* Proofs about modules Injection and Checksum, for any environment, any   *)
(* lists, rates and draws, and any number of processes and messages.       *)
(*                                                                         *)
(* Configured and ListedAreLost follow from what is known of a process by  *)
(* itself (Known): its lists of events are those of its phase, and what it *)
(* has lost and flipped goes with the number of its messages.              *)
(* FlipNoticed is the arithmetic of in_cksum, for bytes of any even base.  *)
(***************************************************************************)
EXTENDS Injection, SequenceTheorems, TLAPS

Fields ==
  {"phase", "forked", "seed", "nextSeed", "rate", "always", "random", "msgNo", "slot",
   "argument", "seq", "payload", "lost", "flipped", "zeroDraw"}

EnvInv == env \in Environment

DropsListed(e) == When(Listed(e.drop) # {}, "drop")

AskedFor(e) == When(AsksForRandom(e.drop), "drop") \o When(AsksForRandom(e.flip), "flip")

Added(e) == When(e.drop = Unset, "drop") \o When(e.flip = Unset, "flip")

\* The lists of events of a process that has called sendErr_init or not.
Lists(p, e) ==
  IF p.phase = "RUNNING"
  THEN p.always = Append(DropsListed(e), "info") /\ p.random = AskedFor(e) \o Added(e)
  ELSE p.always = DropsListed(e) /\ p.random = AskedFor(e)

Settings(p, e) ==
  /\ e.seed # Unset => p.seed = e.seed
  /\ p.phase = "RUNNING" => p.rate = Override(e.rate, p.argument)

Losses(p, e) ==
  /\ p.phase # "RUNNING" => p.msgNo = 0 /\ p.lost = {} /\ p.flipped = {}
  /\ p.msgNo \in Nat
  /\ Listed(e.drop) \cap 1..p.msgNo \subseteq p.lost
  /\ p.random = << >> \/ (p.rate = 0 /\ ~p.zeroDraw) =>
       p.lost = Listed(e.drop) \cap 1..p.msgNo /\ p.flipped = {}

\* A process in the environment e.
Known(p, e) ==
  /\ DOMAIN p = Fields
  /\ p.zeroDraw \in BOOLEAN
  /\ Lists(p, e)
  /\ Settings(p, e)
  /\ Losses(p, e)

ProcsInv ==
  /\ \E S : procs \in Seq(S)
  /\ Len(procs) >= 1
  /\ procs[1].phase = "LISTENING"
  /\ \A i \in DOMAIN procs : Known(procs[i], env)

InjectionInv == EnvInv /\ ProcsInv

-----------------------------------------------------------------------------
(* Sequences *)

LEMMA Widened ==
  ASSUME NEW S, NEW s \in Seq(S), NEW r
  PROVE  s \in Seq(S \cup {r})
<1>1. s \in [1..Len(s) -> S] /\ Len(s) \in Nat
  OBVIOUS
<1>2. s \in [1..Len(s) -> S \cup {r}]
  BY <1>1
<1>3. QED
  BY <1>1, <1>2

\* A sequence with one element more.
LEMMA Appended ==
  ASSUME NEW S, NEW s \in Seq(S), NEW r
  PROVE  /\ Append(s, r) \in Seq(S \cup {r})
         /\ Len(Append(s, r)) = Len(s) + 1
         /\ \A i \in DOMAIN Append(s, r) :
              (i \in DOMAIN s /\ Append(s, r)[i] = s[i]) \/ Append(s, r)[i] = r
         /\ \A i \in DOMAIN s : Append(s, r)[i] = s[i]
<1>1. s \in Seq(S \cup {r})
  BY Widened
<1>2. QED
  BY <1>1

\* A sequence with one element replaced.
LEMMA Replaced ==
  ASSUME NEW S, NEW s \in Seq(S), NEW i \in DOMAIN s, NEW r
  PROVE  /\ [s EXCEPT ![i] = r] \in Seq(S \cup {r})
         /\ Len([s EXCEPT ![i] = r]) = Len(s)
         /\ DOMAIN [s EXCEPT ![i] = r] = DOMAIN s
         /\ \A j \in DOMAIN s : [s EXCEPT ![i] = r][j] = IF j = i THEN r ELSE s[j]
<1>1. s \in Seq(S \cup {r})
  BY Widened
<1>2. DOMAIN s = 1..Len(s) /\ Len(s) \in Nat
  OBVIOUS
<1>3. [s EXCEPT ![i] = r] \in [1..Len(s) -> S \cup {r}]
  BY <1>1, <1>2
<1>4. QED
  BY <1>2, <1>3

-----------------------------------------------------------------------------
(* One process *)

LEMMA KnownLoaded ==
  ASSUME NEW phase, phase # "RUNNING", NEW argument, NEW time
  PROVE  Known(Loaded(phase, argument, time), env) /\ Loaded(phase, argument, time).phase = phase
<1> DEFINE p == Loaded(phase, argument, time)
<1>1. DOMAIN p = Fields
  BY DEF Loaded, Fields
<1>2. /\ p.phase = phase /\ p.seed = Override(env.seed, time) /\ p.zeroDraw = FALSE
      /\ p.always = DropsListed(env) /\ p.random = AskedFor(env)
      /\ p.msgNo = 0 /\ p.lost = {} /\ p.flipped = {}
  BY DEF Loaded, DropsListed, AskedFor
<1> HIDE DEF p
<1>3. Lists(p, env)
  BY <1>2 DEF Lists
<1>4. Settings(p, env)
  BY <1>2 DEF Settings, Override
<1>5. Losses(p, env)
  BY <1>2 DEF Losses
<1>6. QED
  BY <1>1, <1>2, <1>3, <1>4, <1>5 DEF Known, p

LEMMA KnownInitialised ==
  ASSUME NEW p, Known(p, env), p.phase = "STARTED", NEW time
  PROVE  Known(Initialised(p, time), env) /\ Initialised(p, time).phase = "RUNNING"
<1> DEFINE q == Initialised(p, time)
<1>1. DOMAIN p = Fields
  BY DEF Known
<1>2. DOMAIN q = Fields
  BY <1>1 DEF Initialised
<1>3. /\ q.phase = "RUNNING" /\ q.always = Append(p.always, "info")
      /\ q.rate = Override(env.rate, p.argument)
      /\ q.random = p.random \o Added(env)
      /\ q.seed = Override(env.seed, time)
      /\ q.argument = p.argument /\ q.zeroDraw = p.zeroDraw
      /\ q.msgNo = p.msgNo /\ q.lost = p.lost /\ q.flipped = p.flipped
  BY <1>1 DEF Initialised, ProgramEvents, Added, Fields
<1> HIDE DEF q
<1>4. Lists(q, env)
  BY <1>3 DEF Lists, Known
<1>5. Settings(q, env)
  BY <1>3 DEF Settings, Override
<1>6. Losses(q, env)
  <2>1. p.msgNo = 0 /\ p.lost = {} /\ p.flipped = {}
    BY DEF Known, Losses
  <2>2. 1..q.msgNo = {}
    BY <2>1, <1>3
  <2>3. QED
    BY <1>3, <2>1, <2>2 DEF Losses
<1>7. QED
  BY <1>2, <1>3, <1>4, <1>5, <1>6 DEF Known, q

\* What one message does to its sender.
Sent(p, bytes, out, seq, payload, draw, event) ==
  [p EXCEPT
     !.msgNo = @ + 1,
     !.slot = Kept(bytes, out), !.seq = seq, !.payload = payload,
     !.lost = IF Drops(p, event) THEN @ \cup {p.msgNo + 1} ELSE @,
     !.flipped = IF event = "flip" THEN @ \cup {p.msgNo + 1} ELSE @,
     !.zeroDraw = @ \/ draw = 0]

LEMMA KnownSent ==
  ASSUME NEW p, Known(p, env), p.phase = "RUNNING",
         NEW bytes, NEW out, NEW seq, NEW payload,
         NEW draw \in 0..MaxDraw, NEW event \in EventsFor(p, draw)
  PROVE  Known(Sent(p, bytes, out, seq, payload, draw, event), env)
<1> DEFINE n == p.msgNo
           listed == Listed(env.drop)
           q == Sent(p, bytes, out, seq, payload, draw, event)
<1>1. DOMAIN p = Fields /\ DOMAIN q = Fields
  BY DEF Known, Sent
<1>2. /\ q.phase = "RUNNING" /\ q.always = p.always /\ q.random = p.random
      /\ q.seed = p.seed /\ q.rate = p.rate /\ q.argument = p.argument
      /\ q.msgNo = p.msgNo + 1
  BY <1>1 DEF Fields, Sent
<1>3. /\ q.lost = IF Drops(p, event) THEN p.lost \cup {n + 1} ELSE p.lost
      /\ q.flipped = IF event = "flip" THEN p.flipped \cup {n + 1} ELSE p.flipped
      /\ q.zeroDraw = (p.zeroDraw \/ draw = 0)
  BY <1>1 DEF Fields, Sent
<1> HIDE DEF q
<1>4. q.zeroDraw \in BOOLEAN /\ (~q.zeroDraw => ~p.zeroDraw /\ draw # 0)
  BY <1>3 DEF Known
<1>5. Lists(q, env) /\ Settings(q, env)
  BY <1>2 DEF Known, Lists, Settings
<1>6. n \in Nat /\ listed \cap 1..n \subseteq p.lost /\ p.random \in {p.random}
  BY DEF Known, Losses
<1>7. listed \cap 1..(n + 1) = (listed \cap 1..n) \cup (listed \cap {n + 1})
  BY <1>6
<1>8. n + 1 \in listed => Drops(p, event)
  <2>1. ASSUME n + 1 \in listed
        PROVE  "drop" \in {p.always[i] : i \in DOMAIN p.always}
    <3>1. p.always = Append(<<"drop">>, "info")
      BY <2>1 DEF Known, Lists, DropsListed, When
    <3>2. <<"drop">> \in Seq({"drop"}) /\ 1 \in DOMAIN <<"drop">> /\ Len(<<"drop">>) = 1
      OBVIOUS
    <3>3. 1 \in DOMAIN p.always /\ p.always[1] = "drop"
      BY <3>1, <3>2, Appended
    <3>4. QED
      BY <3>3
  <2>2. QED
    BY <2>1 DEF Drops, MessageNumber
<1>9. ASSUME q.random = << >> \/ (q.rate = 0 /\ ~q.zeroDraw)
      PROVE  q.lost = listed \cap 1..(n + 1) /\ q.flipped = {}
  <2>1. event = "none"
    <3>1. CASE p.random = << >>
      BY <3>1 DEF EventsFor
    <3>2. CASE p.rate = 0 /\ ~q.zeroDraw
      <4>1. ~(draw <= p.rate)
        BY <3>2, <1>4, InjectionAssumption
      <4>2. QED
        BY <4>1 DEF EventsFor
    <3>3. QED
      BY <3>1, <3>2, <1>2, <1>9
  <2>2. p.lost = listed \cap 1..n /\ p.flipped = {}
    BY <1>2, <1>4, <1>9 DEF Known, Losses
  <2>3. Drops(p, event) => n + 1 \in listed
    BY <2>1 DEF Drops, MessageNumber
  <2>4. QED
    BY <2>1, <2>2, <2>3, <1>3, <1>7, <1>8
<1>10. listed \cap 1..(n + 1) \subseteq q.lost
  BY <1>3, <1>6, <1>7, <1>8
<1>11. Losses(q, env)
  BY <1>2, <1>6, <1>9, <1>10 DEF Losses
<1>12. QED
  BY <1>1, <1>2, <1>4, <1>5, <1>11 DEF Known, q

-----------------------------------------------------------------------------
(* All processes *)

\* A step that replaces one process.
LEMMA ProcsBecome ==
  ASSUME InjectionInv, NEW i \in DOMAIN procs, NEW q, Known(q, env),
         i = 1 => q.phase = "LISTENING",
         procs' = [procs EXCEPT ![i] = q], env' = env
  PROVE  InjectionInv'
<1>1. PICK S : procs \in Seq(S)
  BY DEF InjectionInv, ProcsInv
<1>2. /\ procs' \in Seq(S \cup {q}) /\ Len(procs') = Len(procs) /\ DOMAIN procs' = DOMAIN procs
      /\ \A j \in DOMAIN procs : procs'[j] = IF j = i THEN q ELSE procs[j]
  BY <1>1, Replaced
<1>3. ASSUME NEW j \in DOMAIN procs
      PROVE  Known(procs[j], env)'
  <2>1. Known(procs'[j], env)
    BY <1>2 DEF InjectionInv, ProcsInv
  <2>2. QED
    BY <2>1
<1>4. 1 \in DOMAIN procs /\ procs'[1].phase = "LISTENING"
  BY <1>1, <1>2 DEF InjectionInv, ProcsInv
<1>5. ProcsInv'
  BY <1>2, <1>3, <1>4 DEF InjectionInv, ProcsInv
<1>6. QED
  BY <1>5 DEF InjectionInv, EnvInv

\* A step that adds one.
LEMMA ProcsGrow ==
  ASSUME InjectionInv, NEW q, Known(q, env), procs' = Append(procs, q), env' = env
  PROVE  InjectionInv'
<1>1. PICK S : procs \in Seq(S)
  BY DEF InjectionInv, ProcsInv
<1>2. /\ procs' \in Seq(S \cup {q}) /\ Len(procs') = Len(procs) + 1
      /\ \A j \in DOMAIN procs' : (j \in DOMAIN procs /\ procs'[j] = procs[j]) \/ procs'[j] = q
      /\ \A j \in DOMAIN procs : procs'[j] = procs[j]
  BY <1>1, Appended
<1>3. ASSUME NEW j \in DOMAIN procs'
      PROVE  Known(procs[j], env)'
  <2>1. Known(procs'[j], env)
    BY <1>2 DEF InjectionInv, ProcsInv
  <2>2. QED
    BY <2>1
<1>4. 1 \in DOMAIN procs /\ procs'[1].phase = "LISTENING" /\ Len(procs') >= 1
  BY <1>1, <1>2 DEF InjectionInv, ProcsInv
<1>5. ProcsInv'
  BY <1>2, <1>3, <1>4 DEF InjectionInv, ProcsInv
<1>6. QED
  BY <1>5 DEF InjectionInv, EnvInv

LEMMA InvInit == Init => InjectionInv
<1> SUFFICES ASSUME Init PROVE InjectionInv
  OBVIOUS
<1>1. PICK rate \in Rates : procs = <<Loaded("LISTENING", rate, clock)>>
  BY DEF Init
<1> DEFINE p == Loaded("LISTENING", rate, clock)
<1>2. Known(p, env) /\ p.phase = "LISTENING"
  BY KnownLoaded
<1>3. procs = <<p>>
  BY <1>1
<1> HIDE DEF p
<1>4. procs \in Seq({p}) /\ Len(procs) = 1 /\ procs[1] = p /\ DOMAIN procs = {1}
  BY <1>3
<1>5. ProcsInv
  BY <1>2, <1>4 DEF ProcsInv
<1>6. QED
  BY <1>5 DEF InjectionInv, EnvInv, Init

LEMMA InvRunsRcopy == InjectionInv /\ RunsRcopy => InjectionInv'
<1> SUFFICES ASSUME InjectionInv, RunsRcopy PROVE InjectionInv'
  OBVIOUS
<1>1. PICK rate \in Rates : procs' = Append(procs, Loaded("STARTED", rate, clock'))
  BY DEF RunsRcopy
<1>2. Known(Loaded("STARTED", rate, clock'), env)
  BY KnownLoaded
<1>3. env' = env
  BY DEF RunsRcopy
<1>4. QED
  BY <1>1, <1>2, <1>3, ProcsGrow

\* fork(): the child has the lists of the server, which has neither sent nor
\* called sendErr_init.
LEMMA InvFork == InjectionInv /\ Fork => InjectionInv'
<1> SUFFICES ASSUME InjectionInv, Fork PROVE InjectionInv'
  OBVIOUS
<1> DEFINE server == procs[1]
           parent == [server EXCEPT !.nextSeed = @ + 1]
           child == [parent EXCEPT !.phase = "STARTED", !.forked = TRUE,
                                   !.seed = Override(env.seed, procs[1].nextSeed)]
           between == [procs EXCEPT ![1] = parent]
<1>1. procs' = Append(between, child) /\ env' = env
  BY DEF Fork
<1>2. PICK S : procs \in Seq(S)
  BY DEF InjectionInv, ProcsInv
<1>3. 1 \in DOMAIN procs /\ Known(server, env) /\ server.phase = "LISTENING"
  BY <1>2 DEF InjectionInv, ProcsInv
<1>4. DOMAIN server = Fields
  BY <1>3 DEF Known
<1>5. /\ DOMAIN parent = Fields
      /\ parent.phase = "LISTENING" /\ parent.always = server.always /\ parent.random = server.random
      /\ parent.seed = server.seed /\ parent.rate = server.rate /\ parent.msgNo = server.msgNo
      /\ parent.lost = server.lost /\ parent.flipped = server.flipped
      /\ parent.zeroDraw = server.zeroDraw
  BY <1>3, <1>4 DEF Fields
<1>6. /\ DOMAIN child = Fields
      /\ child.phase = "STARTED" /\ child.always = server.always /\ child.random = server.random
      /\ child.seed = Override(env.seed, server.nextSeed)
      /\ child.rate = server.rate /\ child.msgNo = server.msgNo
      /\ child.lost = server.lost /\ child.flipped = server.flipped
      /\ child.zeroDraw = server.zeroDraw
  BY <1>4 DEF Fields
<1> HIDE DEF parent, child, between
<1>7. Known(parent, env)
  BY <1>3, <1>5 DEF Known, Lists, Settings, Losses
<1>8. Known(child, env)
  BY <1>3, <1>6 DEF Known, Lists, Settings, Losses, Override
<1>9. /\ between \in Seq(S \cup {parent}) /\ Len(between) = Len(procs)
      /\ DOMAIN between = DOMAIN procs
      /\ \A j \in DOMAIN procs : between[j] = IF j = 1 THEN parent ELSE procs[j]
  BY <1>2, <1>3, Replaced DEF between
<1>10. /\ procs' \in Seq((S \cup {parent}) \cup {child}) /\ Len(procs') = Len(procs) + 1
       /\ \A j \in DOMAIN procs' :
            (j \in DOMAIN between /\ procs'[j] = between[j]) \/ procs'[j] = child
       /\ procs'[1] = parent
  BY <1>1, <1>3, <1>9, Appended
<1>11. ASSUME NEW j \in DOMAIN procs'
       PROVE  Known(procs[j], env)'
  <2>1. Known(procs'[j], env)
    BY <1>7, <1>8, <1>9, <1>10 DEF InjectionInv, ProcsInv
  <2>2. QED
    BY <1>1, <2>1
<1>12. ProcsInv'
  BY <1>2, <1>5, <1>10, <1>11 DEF InjectionInv, ProcsInv
<1>13. QED
  BY <1>1, <1>12 DEF InjectionInv, EnvInv

LEMMA InvSendErrInit ==
  ASSUME InjectionInv, NEW p \in DOMAIN procs, SendErrInit(p)
  PROVE  InjectionInv'
<1>1. /\ procs[p].phase = "STARTED" /\ env' = env
      /\ procs' = [procs EXCEPT ![p] = Initialised(procs[p], clock')]
  BY DEF SendErrInit, Becomes
<1>2. Known(Initialised(procs[p], clock'), env) /\ p # 1
  BY <1>1, KnownInitialised DEF InjectionInv, ProcsInv
<1>3. QED
  BY <1>1, <1>2, ProcsBecome

LEMMA InvSendtoErr ==
  ASSUME InjectionInv, NEW p \in DOMAIN procs, procs[p].phase = "RUNNING",
         NEW bytes, NEW seq, NEW payload, SendtoErr(p, bytes, seq, payload), env' = env
  PROVE  InjectionInv'
<1>1. PICK draw \in 0..MaxDraw : \E event \in EventsFor(procs[p], draw) : \E out :
        procs' = [procs EXCEPT ![p] = Sent(procs[p], bytes, out, seq, payload, draw, event)]
  <2>1. \E draw \in 0..MaxDraw : \E event \in EventsFor(procs[p], draw) :
          \E out \in IF event = "flip" THEN {FlipByte(bytes, i) : i \in DOMAIN bytes} ELSE {bytes} :
            Becomes(p, Sent(procs[p], bytes, out, seq, payload, draw, event))
    BY ZenonT(60) DEF SendtoErr, Sent
  <2>2. QED
    BY <2>1 DEF Becomes
<1>2. PICK event \in EventsFor(procs[p], draw) : \E out :
        procs' = [procs EXCEPT ![p] = Sent(procs[p], bytes, out, seq, payload, draw, event)]
  BY <1>1
<1>3. PICK out :
        procs' = [procs EXCEPT ![p] = Sent(procs[p], bytes, out, seq, payload, draw, event)]
  BY <1>2
<1>4. Known(procs[p], env) /\ p # 1
  BY DEF InjectionInv, ProcsInv
<1>5. Known(Sent(procs[p], bytes, out, seq, payload, draw, event), env)
  BY <1>4, KnownSent
<1>6. QED
  BY <1>3, <1>4, <1>5, ProcsBecome

LEMMA InvSends ==
  ASSUME InjectionInv, NEW p \in DOMAIN procs, SendNew(p) \/ SendAgain(p)
  PROVE  InjectionInv'
<1>1. procs[p].phase = "RUNNING" /\ env' = env
  BY DEF SendNew, SendAgain, MaySend
<1>2. CASE SendNew(p)
  <2>1. PICK seq \in SeqNums, payload \in Payloads, flag \in Flags :
          SendtoErr(p, CreatePDU(seq, flag, payload), seq, payload)
    BY <1>2 DEF SendNew
  <2>2. QED
    BY <1>1, <2>1, InvSendtoErr
<1>3. CASE SendAgain(p)
  <2>1. PICK flag \in Flags :
          SendtoErr(p, Reflagged(procs[p].slot, flag), procs[p].seq, procs[p].payload)
    BY <1>3 DEF SendAgain
  <2>2. QED
    BY <1>1, <2>1, InvSendtoErr
<1>4. QED
  BY <1>2, <1>3

LEMMA InvStutter == InjectionInv /\ UNCHANGED vars => InjectionInv'
BY DEF vars, InjectionInv, EnvInv, ProcsInv

LEMMA InvNext == InjectionInv /\ [Next]_vars => InjectionInv'
BY InvRunsRcopy, InvFork, InvSendErrInit, InvSends, InvStutter DEF Next, AllSent

LEMMA InvHolds == Spec => []InjectionInv
BY InvInit, InvNext, PTL DEF Spec

-----------------------------------------------------------------------------
(* Losses and settings *)

\* The messages ERR_DROP lists are lost, and where errors are not random, or
\* are never drawn, no other is (processEvents).
THEOREM ListedLost == Spec => []ListedAreLost
<1>1. InjectionInv => ListedAreLost
  BY DEF InjectionInv, ProcsInv, Known, Losses, ListedAreLost
<1>2. QED
  BY <1>1, InvHolds, PTL

\* A variable that lists messages is set, and one that lists none is not there
\* or asks for random events.
LEMMA Variable ==
  ASSUME NEW v
  PROVE  /\ Listed(v) # {} => v # Unset /\ ~AsksForRandom(v)
         /\ Listed(v) = {} => (AsksForRandom(v) <=> v # Unset)
BY DEF Listed, AsksForRandom

LEMMA Concatenations ==
  ASSUME NEW a, NEW b
  PROVE  /\ << >> \o << >> = << >>
         /\ <<a>> \o << >> = <<a>> /\ << >> \o <<a>> = <<a>>
         /\ <<a, b>> \o << >> = <<a, b>>
         /\ <<a>> \o <<b>> = <<a, b>>
<1>1. << >> \o << >> = << >> /\ <<a>> \o << >> = <<a>> /\ << >> \o <<a>> = <<a>>
  OBVIOUS
<1>2. <<a, b>> \o << >> = <<a, b>>
  <2>1. <<a, b>> \in Seq({a, b})
    OBVIOUS
  <2>2. QED
    BY <2>1, ConcatEmptySeq
<1>3. <<a>> \o <<b>> = <<a, b>>
  <2> DEFINE s == <<a>> \o <<b>>
             t == <<a, b>>
  <2>1. <<a>> \in Seq({a, b}) /\ <<b>> \in Seq({a, b}) /\ Len(<<a>>) = 1 /\ Len(<<b>>) = 1
    OBVIOUS
  <2>2. s \in Seq({a, b}) /\ Len(s) = 2 /\ s[1] = a /\ s[2] = b
    BY <2>1, ConcatProperties
  <2>3. t \in Seq({a, b}) /\ Len(t) = 2 /\ t[1] = a /\ t[2] = b
    OBVIOUS
  <2> HIDE DEF s, t
  <2>4. s \in [1..2 -> {a, b}] /\ t \in [1..2 -> {a, b}]
    BY <2>2, <2>3
  <2>5. s = t
    BY <2>2, <2>3, <2>4
  <2>6. QED
    BY <2>5 DEF s, t
<1>4. QED
  BY <1>1, <1>2, <1>3

\* The random events, for two variables that list messages or not.
LEMMA RandomEvents ==
  ASSUME NEW e
  PROVE  AskedFor(e) \o Added(e) \in
           IF Listed(e.drop) = {}
           THEN IF Listed(e.flip) = {} THEN {<<"drop", "flip">>, <<"flip", "drop">>} ELSE {<<"drop">>}
           ELSE IF Listed(e.flip) = {} THEN {<<"flip">>} ELSE {<< >>}
<1> DEFINE d1 == When(AsksForRandom(e.drop), "drop")
           d2 == When(e.drop = Unset, "drop")
           f1 == When(AsksForRandom(e.flip), "flip")
           f2 == When(e.flip = Unset, "flip")
<1>1. AskedFor(e) \o Added(e) = (d1 \o f1) \o (d2 \o f2)
  BY DEF AskedFor, Added
<1>2. /\ Listed(e.drop) # {} => d1 = << >> /\ d2 = << >>
      /\ Listed(e.drop) = {} => \/ d1 = <<"drop">> /\ d2 = << >>
                                \/ d1 = << >> /\ d2 = <<"drop">>
  BY Variable DEF When
<1>3. /\ Listed(e.flip) # {} => f1 = << >> /\ f2 = << >>
      /\ Listed(e.flip) = {} => \/ f1 = <<"flip">> /\ f2 = << >>
                                \/ f1 = << >> /\ f2 = <<"flip">>
  BY Variable DEF When
<1> HIDE DEF d1, d2, f1, f2
<1> DEFINE all == (d1 \o f1) \o (d2 \o f2)
<1>4. CASE d1 = << >> /\ d2 = << >>
  <2>1. f1 = << >> /\ f2 = << >> => all = << >>
    BY <1>4, Concatenations
  <2>2. f1 = <<"flip">> /\ f2 = << >> => all = <<"flip">>
    BY <1>4, Concatenations
  <2>3. f1 = << >> /\ f2 = <<"flip">> => all = <<"flip">>
    BY <1>4, Concatenations
  <2> HIDE DEF all
  <2>4. Listed(e.drop) # {}
    BY <1>2, <1>4
  <2>5. all \in IF Listed(e.flip) = {} THEN {<<"flip">>} ELSE {<< >>}
    BY <2>1, <2>2, <2>3, <1>3
  <2>6. QED
    BY <1>1, <2>4, <2>5 DEF all
<1>5. CASE d1 = <<"drop">> /\ d2 = << >>
  <2>1. f1 = << >> /\ f2 = << >> => all = <<"drop">>
    BY <1>5, Concatenations
  <2>2. f1 = <<"flip">> /\ f2 = << >> => all = <<"drop", "flip">>
    BY <1>5, Concatenations
  <2>3. f1 = << >> /\ f2 = <<"flip">> => all = <<"drop", "flip">>
    BY <1>5, Concatenations
  <2> HIDE DEF all
  <2>4. Listed(e.drop) = {}
    BY <1>2, <1>5
  <2>5. all \in IF Listed(e.flip) = {} THEN {<<"drop", "flip">>} ELSE {<<"drop">>}
    BY <2>1, <2>2, <2>3, <1>3
  <2>6. QED
    BY <1>1, <2>4, <2>5 DEF all
<1>6. CASE d1 = << >> /\ d2 = <<"drop">>
  <2>1. f1 = << >> /\ f2 = << >> => all = <<"drop">>
    BY <1>6, Concatenations
  <2>2. f1 = <<"flip">> /\ f2 = << >> => all = <<"flip", "drop">>
    BY <1>6, Concatenations
  <2>3. f1 = << >> /\ f2 = <<"flip">> => all = <<"drop", "flip">>
    BY <1>6, Concatenations
  <2> HIDE DEF all
  <2>4. Listed(e.drop) = {}
    BY <1>2, <1>6
  <2>5. all \in IF Listed(e.flip) = {} THEN {<<"drop", "flip">>, <<"flip", "drop">>}
               ELSE {<<"drop">>}
    BY <2>1, <2>2, <2>3, <1>3
  <2>6. QED
    BY <1>1, <2>4, <2>5 DEF all
<1>7. QED
  BY <1>2, <1>4, <1>5, <1>6

\* The environment prevails, and each event is there once, for a child and for
\* rcopy (SettingsManager, sendErr_init).
THEOREM WellConfigured == Spec => []Configured
<1>1. ASSUME InjectionInv, NEW i \in DOMAIN procs, procs[i].phase = "RUNNING"
      PROVE  LET p == procs[i] IN
             /\ p.rate = Override(env.rate, p.argument)
             /\ env.seed # Unset => p.seed = env.seed
             /\ \A j, k \in DOMAIN p.random : p.random[j] = p.random[k] => j = k
             /\ {p.random[j] : j \in DOMAIN p.random} =
                  {event \in {"drop", "flip"} : Listed(env[event]) = {}}
             /\ p.always = When(Listed(env.drop) # {}, "drop") \o <<"info">>
  <2> DEFINE p == procs[i]
             r == p.random
  <2>1. Known(p, env) /\ p.phase = "RUNNING"
    BY <1>1 DEF InjectionInv, ProcsInv
  <2> HIDE DEF p
  <2>2. p.rate = Override(env.rate, p.argument) /\ (env.seed # Unset => p.seed = env.seed)
    BY <2>1 DEF Known, Settings
  <2>3. r = AskedFor(env) \o Added(env) /\ p.always = Append(DropsListed(env), "info")
    BY <2>1 DEF Known, Lists
  <2>4. p.always = When(Listed(env.drop) # {}, "drop") \o <<"info">>
    BY <2>3 DEF DropsListed, When
  <2> HIDE DEF r
  <2>5. r \in IF Listed(env.drop) = {}
             THEN IF Listed(env.flip) = {} THEN {<<"drop", "flip">>, <<"flip", "drop">>}
                  ELSE {<<"drop">>}
             ELSE IF Listed(env.flip) = {} THEN {<<"flip">>} ELSE {<< >>}
    BY <2>3, RandomEvents
  <2>6. \A j, k \in DOMAIN r : r[j] = r[k] => j = k
    BY <2>5
  <2>7. {r[j] : j \in DOMAIN r} = {event \in {"drop", "flip"} : Listed(env[event]) = {}}
    BY <2>5
  <2>8. QED
    BY <2>2, <2>4, <2>6, <2>7 DEF p, r
<1>2. InjectionInv => Configured
  BY <1>1 DEF Configured
<1>3. QED
  BY <1>2, InvHolds, PTL

-----------------------------------------------------------------------------
(* The checksum *)

LEMMA Bases == ByteBase \in Nat /\ ByteBase >= 2 /\ Word \in Nat /\ Word >= 2 * ByteBase
<1>1. ByteBase \in Nat /\ ByteBase >= 2
  BY SmallBytes
<1>2. ByteBase * ByteBase >= 2 * ByteBase /\ ByteBase * ByteBase \in Nat
  BY <1>1
<1>3. QED
  BY <1>1, <1>2 DEF Word

LEMMA Division ==
  ASSUME NEW n \in Nat, NEW m \in Nat, m > 0
  PROVE  /\ n \div m \in Nat /\ n % m \in 0..(m - 1)
         /\ n = m * (n \div m) + (n % m)
OBVIOUS

LEMMA DivisionUnique ==
  ASSUME NEW n \in Nat, NEW m \in Nat, m > 0, NEW q \in Nat, NEW r \in 0..(m - 1),
         n = m * q + r
  PROVE  n \div m = q /\ n % m = r
OBVIOUS

\* in_cksum() complements to zero, in one packet of the sums it can meet, for
\* the positive multiples of 2^16 - 1 only.
LEMMA FoldedOnes ==
  ASSUME NEW s \in Nat, s \div Word < Word, Folded(s) = Word - 1
  PROVE  \E k \in Nat : s = k * (Word - 1)
<1> DEFINE q == s \div Word
           r == s % Word
           once == q + r
<1>1. q \in 0..(Word - 1) /\ r \in 0..(Word - 1) /\ s = Word * q + r
  BY Division, Bases
<1>2. (once + (once \div Word)) % Word = Word - 1
  BY DEF Folded
<1> HIDE DEF q, r
<1>3. CASE once < Word
  <2>1. once = Word * 0 + once /\ once \in 0..(Word - 1)
    BY <1>1, <1>3, Bases
  <2>2. once \div Word = 0 /\ once % Word = once
    BY <2>1, DivisionUnique, Bases
  <2>3. r = Word - 1 - q
    BY <2>1, <2>2, <1>1, <1>2, Bases
  <2>4. s = (q + 1) * (Word - 1)
    BY <2>3, <1>1, Bases
  <2>5. QED
    BY <2>4, <1>1
<1>4. CASE once >= Word
  <2>1. once \in Nat /\ once = Word * 1 + (once - Word) /\ once - Word \in 0..(Word - 2)
    BY <1>1, <1>4, Bases
  <2>2. once \div Word = 1
    BY <2>1, DivisionUnique, Bases
  <2>3. once + 1 = Word * 1 + (once + 1 - Word) /\ once + 1 - Word \in 0..(Word - 1)
    BY <2>1, Bases
  <2>4. (once + 1) % Word = once + 1 - Word
    BY <2>1, <2>3, DivisionUnique, Bases
  <2>5. once = 2 * Word - 2
    BY <2>1, <2>2, <2>4, <1>2, Bases
  <2>6. q = Word - 1 /\ r = Word - 1
    BY <2>5, <1>1, Bases
  <2>7. s = (Word + 1) * (Word - 1)
    BY <2>6, <1>1, Bases
  <2>8. Word + 1 \in Nat
    BY Bases
  <2> DEFINE k == Word + 1
  <2>9. k \in Nat /\ s = k * (Word - 1)
    BY <2>7, <2>8
  <2> HIDE DEF k
  <2>10. QED
    BY <2>9
<1>5. QED
  BY <1>1, <1>3, <1>4, Bases

\* One byte complemented in a packet that in_cksum accepts, as the low or the
\* high byte of a word: the sum of the words changes, by less than 2^16 - 1,
\* and in_cksum accepts the packet no more (errorFlipBits, in_cksum).
THEOREM FlipNoticed ==
  ASSUME NEW s \in Nat, s \div Word < Word, Folded(s) = Word - 1,
         NEW b \in Bytes, NEW place \in {1, ByteBase},
         NEW t \in Nat, t \div Word < Word,
         t = s + place * (Complement(b) - b)
  PROVE  Folded(t) # Word - 1
<1> DEFINE d == ByteBase - 1 - 2 * b
           m == Word - 1
<1>1. t = s + place * d
  <2>1. Complement(b) - b = d
    BY Bases DEF Complement, Bytes
  <2>2. QED
    BY <2>1
<1>2. d \in Int /\ d # 0 /\ d <= ByteBase - 1 /\ -d <= ByteBase - 1
  BY SmallBytes, Bases DEF Bytes
<1>3. m \in Nat /\ m > ByteBase * (ByteBase - 1) /\ ByteBase * (ByteBase - 1) >= ByteBase - 1
  <2>1. ByteBase * (ByteBase - 1) = ByteBase * ByteBase - ByteBase
    BY Bases
  <2>2. QED
    BY <2>1, Bases DEF Word
<1> HIDE DEF d, m
<1>4. place * d \in Int /\ place * d # 0 /\ place * d < m /\ -(place * d) < m
  <2>1. CASE place = 1
    BY <2>1, <1>2, <1>3, Bases
  <2>2. CASE place = ByteBase
    <3>1. ByteBase * d \in Int /\ ByteBase * d # 0
      BY <1>2, Bases
    <3>2. ByteBase * d <= ByteBase * (ByteBase - 1)
      <4>1. \A i \in Int, j \in Int, n \in Nat : i <= j => n * i <= n * j
        OBVIOUS
      <4>2. ByteBase - 1 \in Int /\ ByteBase \in Nat
        BY Bases
      <4>3. QED
        BY <4>1, <4>2, <1>2
    <3>3. -(ByteBase * d) <= ByteBase * (ByteBase - 1)
      BY <1>2, Bases
    <3>4. QED
      BY <2>2, <3>1, <3>2, <3>3, <1>3, Bases
  <2>3. QED
    BY <2>1, <2>2
<1>5. ASSUME Folded(t) = Word - 1
      PROVE  FALSE
  <2>1. PICK k \in Nat : s = k * m
    BY FoldedOnes DEF m
  <2>2. PICK l \in Nat : t = l * m
    BY <1>5, FoldedOnes DEF m
  <2>3. place * d = (l - k) * m
    <3>1. place * d = l * m - k * m
      BY <2>1, <2>2, <1>1, <1>4, <1>3
    <3>2. (l - k) * m = l * m - k * m
      BY <1>3
    <3>3. QED
      BY <3>1, <3>2
  <2>4. CASE l = k
    BY <2>3, <2>4, <1>3, <1>4
  <2>5. CASE l > k
    <3>1. (l - k) * m >= m
      BY <2>5, <1>3
    <3>2. QED
      BY <3>1, <2>3, <1>3, <1>4
  <2>6. CASE l < k
    <3>1. (k - l) * m >= m /\ (l - k) * m = -((k - l) * m)
      BY <2>6, <1>3
    <3>2. QED
      BY <3>1, <2>3, <1>3, <1>4
  <2>7. QED
    BY <2>4, <2>5, <2>6
<1>6. QED
  BY <1>5
=============================================================================

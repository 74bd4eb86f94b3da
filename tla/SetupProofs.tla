---------------------------- MODULE SetupProofs ----------------------------
(***************************************************************************)
(* Proofs about module Setup for any retry limit, number of faults and      *)
(* number of repeated requests.                                             *)
(*                                                                          *)
(* AnswerIsCurrent needs to know where packets come from: an answer under   *)
(* way to rcopy's socket names a child forked for this socket, whose state  *)
(* fits the flag (InboxInv); OnlyInitForks that nothing but FILENAME_INIT   *)
(* is under way to the listening port (RequestInv).  Attempts counts sockets *)
(* by the retry counter and by the faults already spent (AttemptsInv).      *)
(***************************************************************************)
EXTENDS Setup, FiniteSets, FiniteSetTheorems, TLAPS

RetriesInv == rcopyState \in {"START_STATE", "FILENAME"} => retries <= MaxRetrans

RequestInv == \A i \in DOMAIN requests : requests[i].init /\ requests[i].from <= socket

ChildInv ==
  \A c \in DOMAIN children :
    /\ children[c].init
    /\ children[c].for <= socket
    /\ children[c].state = "SERVING" => children[c].opened

\* The sender of p, one of the children ch, serves the socket sk and has found
\* what p says.
Truthful(p, ch, sk) ==
  /\ p.from \in DOMAIN ch
  /\ ch[p.from].for = sk
  /\ IF p.flag = "FNAME_BAD" THEN ch[p.from].state = "REFUSED" ELSE ch[p.from].opened

InboxInv == \A i \in DOMAIN inbox : Truthful(inbox[i], children, socket)

SetupInv ==
  /\ SetupTypeOK
  /\ RetriesInv
  /\ RequestInv
  /\ ChildInv
  /\ InboxInv
  /\ AnswerIsCurrent

-----------------------------------------------------------------------------

\* A sequence with one element replaced.
LEMMA Replaced ==
  ASSUME NEW S, NEW s \in Seq(S), NEW i \in DOMAIN s, NEW r \in S
  PROVE  /\ [s EXCEPT ![i] = r] \in Seq(S)
         /\ Len([s EXCEPT ![i] = r]) = Len(s)
         /\ DOMAIN [s EXCEPT ![i] = r] = DOMAIN s
         /\ \A j \in DOMAIN s : [s EXCEPT ![i] = r][j] = IF j = i THEN r ELSE s[j]
<1>1. DOMAIN s = 1..Len(s) /\ Len(s) \in Nat
  OBVIOUS
<1>2. [s EXCEPT ![i] = r] \in [1..Len(s) -> S]
  BY <1>1
<1>3. QED
  BY <1>1, <1>2

\* A sequence with one element more.
LEMMA Appended ==
  ASSUME NEW S, NEW s \in Seq(S), NEW r \in S
  PROVE  /\ Append(s, r) \in Seq(S)
         /\ Len(Append(s, r)) = Len(s) + 1
         /\ DOMAIN Append(s, r) = 1..(Len(s) + 1)
         /\ \A j \in 1..Len(s) : Append(s, r)[j] = s[j]
         /\ Append(s, r)[Len(s) + 1] = r
  OBVIOUS

\* What the type invariant says of the elements of the sequences.
LEMMA Elements ==
  ASSUME SetupTypeOK
  PROVE  /\ \A i \in DOMAIN requests : requests[i] \in Request /\ requests[i].from \in Nat
         /\ \A i \in DOMAIN inbox : inbox[i] \in Answer
         /\ \A c \in DOMAIN children : children[c] \in Child /\ children[c].for \in Nat
<1>1. /\ requests \in Seq(Request) /\ inbox \in Seq(Answer) /\ children \in Seq(Child)
  BY DEF SetupTypeOK
<1>2. /\ \A i \in DOMAIN requests : requests[i] \in Request
      /\ \A i \in DOMAIN inbox : inbox[i] \in Answer
      /\ \A c \in DOMAIN children : children[c] \in Child
  BY <1>1
<1>3. (\A r \in Request : r.from \in Nat) /\ (\A d \in Child : d.for \in Nat)
  BY DEF Request, Child
<1>4. QED
  BY <1>2, <1>3

\* The tail holds nothing that was not in the sequence.
LEMMA TailOf ==
  ASSUME NEW S, NEW s \in Seq(S), s # << >>
  PROVE  /\ Tail(s) \in Seq(S)
         /\ Head(s) \in S
         /\ 1 \in DOMAIN s /\ Head(s) = s[1]
         /\ \A j \in DOMAIN Tail(s) : j + 1 \in DOMAIN s /\ Tail(s)[j] = s[j + 1]
  OBVIOUS

-----------------------------------------------------------------------------
(* What becomes of a child *)

\* A child never changes what it was forked for, does not forget that it has
\* opened the file, and remains refused.
Successor(d, r) ==
  /\ r \in Child
  /\ r.for = d.for
  /\ r.init = d.init
  /\ d.opened => r.opened
  /\ d.state = "REFUSED" => r.state = "REFUSED"
  /\ r.state = "SERVING" => r.opened

\* What a step may do to the children: one of them, at most, moves on.
Moves ==
  \/ children' = children
  \/ \E c \in DOMAIN children : \E r \in Child :
       Successor(children[c], r) /\ Becomes(c, r)

LEMMA MovesKeeps ==
  ASSUME SetupInv, Moves
  PROVE  /\ children' \in Seq(Child)
         /\ DOMAIN children' = DOMAIN children
         /\ Len(children') = Len(children)
         /\ \A c \in DOMAIN children : Successor(children[c], children'[c])
<1>1. children \in Seq(Child)
  BY DEF SetupInv, SetupTypeOK
<1>2. \A c \in DOMAIN children : Successor(children[c], children[c])
  BY <1>1 DEF Successor, SetupInv, ChildInv
<1>3. CASE children' = children
  BY <1>1, <1>2, <1>3
<1>4. ASSUME NEW c \in DOMAIN children, NEW r, Successor(children[c], r), Becomes(c, r)
      PROVE  /\ children' \in Seq(Child)
             /\ DOMAIN children' = DOMAIN children
             /\ Len(children') = Len(children)
             /\ \A d \in DOMAIN children : Successor(children[d], children'[d])
  <2>1. r \in Child
    BY <1>4 DEF Successor
  <2>2. /\ children' \in Seq(Child)
        /\ DOMAIN children' = DOMAIN children
        /\ Len(children') = Len(children)
        /\ \A d \in DOMAIN children : children'[d] = IF d = c THEN r ELSE children[d]
    BY <1>1, <1>4, <2>1, Replaced DEF Becomes
  <2>3. QED
    BY <1>2, <1>4, <2>2
<1>5. QED
  BY <1>3, <1>4 DEF Moves

LEMMA StillTruthful ==
  ASSUME SetupInv, Moves, socket' = socket,
         NEW p \in Answer, Truthful(p, children, socket)
  PROVE  Truthful(p, children', socket')
BY MovesKeeps DEF Truthful, Successor

LEMMA StillCurrent ==
  ASSUME SetupInv, Moves, socket' = socket, rcopyState' = rcopyState
  PROVE  AnswerIsCurrent'
<1>1. AnswerIsCurrent
  BY DEF SetupInv
<1>2. /\ DOMAIN children' = DOMAIN children
      /\ \A c \in DOMAIN children :
           /\ children'[c].for = children[c].for
           /\ children[c].opened => children'[c].opened
           /\ children[c].state = "REFUSED" => children'[c].state = "REFUSED"
  BY MovesKeeps DEF Successor
<1>3. QED
  BY <1>1, <1>2 DEF AnswerIsCurrent

LEMMA ChildrenStay ==
  ASSUME SetupInv, Moves, socket' = socket
  PROVE  ChildInv'
<1>1. ChildInv
  BY DEF SetupInv
<1>2. /\ DOMAIN children' = DOMAIN children
      /\ \A c \in DOMAIN children : Successor(children[c], children'[c])
  BY MovesKeeps
<1>3. QED
  BY <1>1, <1>2 DEF ChildInv, Successor

-----------------------------------------------------------------------------
(* What a child sends *)

LEMMA AnswerSent ==
  ASSUME SetupInv, NEW p \in Answer, Sent(inbox, p)
  PROVE  /\ faults' \in 0..MaxFaults
         /\ \/ inbox' = inbox
            \/ \E q \in Answer : /\ q.from = p.from
                                 /\ q.flag = p.flag
                                 /\ inbox' = Append(inbox, q)
<1>1. faults \in 0..MaxFaults /\ MaxFaults \in Nat
  BY SetupAssumption DEF SetupInv, SetupTypeOK
<1>2. /\ [p EXCEPT !.ok = FALSE] \in Answer
      /\ [p EXCEPT !.ok = FALSE].from = p.from
      /\ [p EXCEPT !.ok = FALSE].flag = p.flag
  BY DEF Answer
<1>3. CASE inbox' = Append(inbox, p) /\ UNCHANGED faults
  BY <1>1, <1>3
<1>4. CASE /\ faults < MaxFaults
           /\ faults' = faults + 1
           /\ inbox' \in {inbox, Append(inbox, [p EXCEPT !.ok = FALSE])}
  <2> DEFINE q == [p EXCEPT !.ok = FALSE]
  <2>1. q \in Answer /\ q.from = p.from /\ q.flag = p.flag
    BY <1>2
  <2>2. inbox' = inbox \/ inbox' = Append(inbox, q)
    BY <1>4
  <2>3. faults' \in 0..MaxFaults
    BY <1>1, <1>4
  <2> HIDE DEF q
  <2>4. QED
    BY <2>1, <2>2, <2>3
<1>5. QED
  BY <1>3, <1>4 DEF Sent

LEMMA AnswerTrue ==
  ASSUME SetupInv, Moves, socket' = socket,
         NEW c \in DOMAIN children, NEW flag \in AnswerFlags, AnswerFrom(c, flag),
         IF flag = "FNAME_BAD" THEN children'[c].state = "REFUSED" ELSE children'[c].opened
  PROVE  /\ faults' \in 0..MaxFaults
         /\ inbox' \in Seq(Answer)
         /\ InboxInv'
<1> DEFINE p == [flag |-> flag, from |-> c, ok |-> TRUE]
<1>1. /\ inbox \in Seq(Answer)
      /\ children \in Seq(Child)
      /\ faults \in 0..MaxFaults
      /\ InboxInv
  BY DEF SetupInv, SetupTypeOK
<1>2. p \in Answer
  BY <1>1 DEF Answer
<1>3. \A i \in DOMAIN inbox : Truthful(inbox[i], children', socket')
  BY <1>1, StillTruthful DEF InboxInv
<1>4. CASE UNCHANGED <<inbox, faults>>
  BY <1>1, <1>3, <1>4 DEF InboxInv
<1>5. CASE children[c].for = socket /\ Sent(inbox, p)
  <2>1. /\ faults' \in 0..MaxFaults
        /\ \/ inbox' = inbox
           \/ \E q \in Answer : q.from = c /\ q.flag = flag /\ inbox' = Append(inbox, q)
    <3>1. p.from = c /\ p.flag = flag
      OBVIOUS
    <3> HIDE DEF p
    <3>2. QED
      BY <1>2, <1>5, <3>1, AnswerSent
  <2>2. CASE inbox' = inbox
    BY <1>1, <1>3, <2>1, <2>2 DEF InboxInv
  <2>3. ASSUME NEW q \in Answer, q.from = c, q.flag = flag, inbox' = Append(inbox, q)
        PROVE  inbox' \in Seq(Answer) /\ InboxInv'
    <3>1. Truthful(q, children', socket')
      BY <1>5, <2>3, MovesKeeps DEF Truthful, Successor
    <3>2. /\ inbox' \in Seq(Answer)
          /\ DOMAIN inbox' = 1..(Len(inbox) + 1)
          /\ \A j \in 1..Len(inbox) : inbox'[j] = inbox[j]
          /\ inbox'[Len(inbox) + 1] = q
      BY <1>1, <2>3, Appended
    <3>3. \A i \in DOMAIN inbox' : i \in DOMAIN inbox \/ i = Len(inbox) + 1
      BY <1>1, <3>2
    <3>4. QED
      BY <1>1, <1>3, <3>1, <3>2, <3>3 DEF InboxInv
  <2>4. QED
    BY <2>1, <2>2, <2>3
<1>6. QED
  BY <1>4, <1>5 DEF AnswerFrom

-----------------------------------------------------------------------------
(* The steps of the children *)

\* What every step of a child gives.
ChildOwes ==
  /\ Moves
  /\ InboxInv'
  /\ inbox' \in Seq(Answer)
  /\ faults' \in 0..MaxFaults
  /\ UNCHANGED <<rcopyVars, requests, duplicates>>

LEMMA ChildOwed ==
  ASSUME SetupInv, ChildOwes, UNCHANGED serverState
  PROVE  SetupInv'
<1>1. SetupTypeOK /\ RetriesInv /\ RequestInv
  BY DEF SetupInv
<1>2. UNCHANGED <<rcopyState, socket, retries, peer, requests, duplicates>>
  BY DEF ChildOwes, rcopyVars
<1>3. children' \in Seq(Child) /\ Len(children') = Len(children)
  BY MovesKeeps DEF ChildOwes
<1>4. SetupTypeOK'
  BY <1>1, <1>2, <1>3 DEF SetupTypeOK, ChildOwes
<1>5. RetriesInv' /\ RequestInv'
  BY <1>1, <1>2 DEF RetriesInv, RequestInv
<1>6. ChildInv' /\ InboxInv' /\ AnswerIsCurrent'
  BY <1>2, ChildrenStay, StillCurrent DEF ChildOwes
<1>7. QED
  BY <1>4, <1>5, <1>6 DEF SetupInv

\* A child that moves on and sends flag, or does not send.
LEMMA ChildMoves ==
  ASSUME SetupInv, NEW c \in DOMAIN children, NEW r,
         Successor(children[c], r), Becomes(c, r),
         UNCHANGED <<rcopyVars, requests, duplicates>>,
         \/ UNCHANGED <<inbox, faults>>
         \/ \E flag \in AnswerFlags :
              /\ AnswerFrom(c, flag)
              /\ IF flag = "FNAME_BAD" THEN r.state = "REFUSED" ELSE r.opened
  PROVE  ChildOwes
<1>1. Moves
  BY DEF Moves, Successor
<1>2. socket' = socket
  BY DEF rcopyVars
<1>3. children'[c] = r
  <2>1. children \in Seq(Child) /\ r \in Child
    BY DEF SetupInv, SetupTypeOK, Successor
  <2>2. QED
    BY <2>1, Replaced DEF Becomes
<1>4. CASE UNCHANGED <<inbox, faults>>
  <2>1. inbox \in Seq(Answer) /\ faults \in 0..MaxFaults /\ InboxInv
    BY DEF SetupInv, SetupTypeOK
  <2>2. InboxInv'
    <3>1. \A i \in DOMAIN inbox : Truthful(inbox[i], children', socket')
      BY <1>1, <1>2, <2>1, StillTruthful DEF InboxInv
    <3>2. QED
      BY <1>4, <3>1 DEF InboxInv
  <2>3. QED
    BY <1>1, <1>4, <2>1, <2>2 DEF ChildOwes
<1>5. ASSUME NEW flag \in AnswerFlags, AnswerFrom(c, flag),
             IF flag = "FNAME_BAD" THEN r.state = "REFUSED" ELSE r.opened
      PROVE  ChildOwes
  <2>1. /\ faults' \in 0..MaxFaults
        /\ inbox' \in Seq(Answer)
        /\ InboxInv'
    BY <1>1, <1>2, <1>3, <1>5, AnswerTrue
  <2>2. QED
    BY <1>1, <2>1 DEF ChildOwes
<1>6. QED
  BY <1>4, <1>5

\* The fields of a child that runs.
LEMMA ChildFields ==
  ASSUME SetupInv, NEW c \in DOMAIN children
  PROVE  /\ children[c] \in Child
         /\ children[c].state = "SERVING" => children[c].opened
         /\ MaxRetrans \in Nat /\ Burst \in Nat /\ MaxUnderWay \in Nat
<1>1. children \in Seq(Child) /\ ChildInv
  BY DEF SetupInv, SetupTypeOK
<1>2. QED
  BY <1>1, SetupAssumption DEF ChildInv

LEMMA GoneIsSuccessor ==
  ASSUME SetupInv, NEW c \in DOMAIN children, children[c].state \in {"FILENAME", "SERVING"}
  PROVE  Successor(children[c], Gone(children[c]))
<1> DEFINE d == children[c]
           r == [d EXCEPT !.state = "GONE", !.heard = 0]
<1>1. d \in Child /\ d.state # "REFUSED"
  BY ChildFields
<1>2. /\ 0 \in 0..MaxUnderWay /\ 0 \in 0..MaxRetrans
      /\ "GONE" \in {"FILENAME", "SERVING"} \cup ChildEnds
  BY ChildFields DEF ChildEnds
<1> HIDE DEF d
<1>3. /\ r \in Child
      /\ r.for = d.for /\ r.init = d.init /\ r.opened = d.opened /\ r.state = "GONE"
  BY <1>1, <1>2 DEF Child
<1> HIDE DEF r
<1>4. Successor(d, r)
  BY <1>1, <1>3 DEF Successor
<1>5. QED
  BY <1>4 DEF d, r, Gone

LEMMA ChildSteps ==
  ASSUME SetupInv, NEW c \in DOMAIN children, ChildStep(c) \/ ChildFails(c)
  PROVE  ChildOwes
<1>1. /\ children[c] \in Child
      /\ children[c].state = "SERVING" => children[c].opened
      /\ MaxRetrans \in Nat /\ Burst \in Nat /\ MaxUnderWay \in Nat
  BY ChildFields
<1>2. CASE ChildFilename(c)
  <2>1. children[c].state = "FILENAME" /\ UNCHANGED <<rcopyVars, requests, duplicates>>
    BY <1>2 DEF ChildFilename
  <2>2. CASE /\ Becomes(c, [children[c] EXCEPT !.state = "SERVING", !.opened = TRUE])
             /\ AnswerFrom(c, "FNAME_OK")
    <3> DEFINE r == [children[c] EXCEPT !.state = "SERVING", !.opened = TRUE]
    <3>1. Successor(children[c], r) /\ r.opened
      BY <1>1, <2>1 DEF Successor, Child
    <3>2. "FNAME_OK" \in AnswerFlags /\ "FNAME_OK" # "FNAME_BAD"
      BY DEF AnswerFlags
    <3>3. Becomes(c, r) /\ AnswerFrom(c, "FNAME_OK")
      BY <2>2
    <3> HIDE DEF r
    <3>4. QED
      BY <2>1, <3>1, <3>2, <3>3, ChildMoves
  <2>3. CASE /\ Becomes(c, [children[c] EXCEPT !.state = "REFUSED"])
             /\ AnswerFrom(c, "FNAME_BAD")
    <3> DEFINE r == [children[c] EXCEPT !.state = "REFUSED"]
    <3>1. Successor(children[c], r) /\ r.state = "REFUSED"
      BY <1>1, <2>1 DEF Successor, Child, ChildEnds
    <3>2. "FNAME_BAD" \in AnswerFlags
      BY DEF AnswerFlags
    <3>3. Becomes(c, r) /\ AnswerFrom(c, "FNAME_BAD")
      BY <2>3
    <3> HIDE DEF r
    <3>4. QED
      BY <2>1, <3>1, <3>2, <3>3, ChildMoves
  <2>4. QED
    BY <1>2, <2>2, <2>3 DEF ChildFilename
<1>3. CASE ChildSends(c)
  <2> DEFINE r == [children[c] EXCEPT !.sent = @ + 1]
  <2>1. /\ children[c].state = "SERVING"
        /\ children[c].sent < Burst
        /\ Becomes(c, r)
        /\ AnswerFrom(c, "DATA")
        /\ UNCHANGED <<rcopyVars, requests, duplicates>>
    BY <1>3 DEF ChildSends
  <2>2. Successor(children[c], r) /\ r.opened
    BY <1>1, <2>1 DEF Successor, Child
  <2>3. "DATA" \in AnswerFlags /\ "DATA" # "FNAME_BAD"
    BY DEF AnswerFlags
  <2> HIDE DEF r
  <2>4. QED
    BY <2>1, <2>2, <2>3, ChildMoves
<1>4. CASE ChildTimer(c)
  <2> DEFINE r == [children[c] EXCEPT !.retries = @ + 1]
  <2>1. /\ children[c].state = "SERVING"
        /\ children[c].retries < MaxRetrans
        /\ Becomes(c, r)
        /\ AnswerFrom(c, "OTHER")
        /\ UNCHANGED <<rcopyVars, requests, duplicates>>
    BY <1>4 DEF ChildTimer
  <2>2. Successor(children[c], r) /\ r.opened
    BY <1>1, <2>1 DEF Successor, Child
  <2>3. "OTHER" \in AnswerFlags /\ "OTHER" # "FNAME_BAD"
    BY DEF AnswerFlags
  <2> HIDE DEF r
  <2>4. QED
    BY <2>1, <2>2, <2>3, ChildMoves
<1>5. CASE ChildHears(c)
  <2>1. /\ children[c].state = "SERVING"
        /\ children[c].heard > 0
        /\ UNCHANGED <<rcopyVars, requests, duplicates>>
    BY <1>5 DEF ChildHears
  <2>2. CASE /\ Becomes(c, [children[c] EXCEPT !.heard = @ - 1, !.retries = 0])
             /\ AnswerFrom(c, "OTHER") \/ UNCHANGED <<inbox, faults>>
    <3> DEFINE d == children[c]
               h == d.heard - 1
               r == [d EXCEPT !.heard = h, !.retries = 0]
    <3>1. Successor(children[c], r) /\ r.opened
      <4>1. /\ d \in Child /\ d.state = "SERVING" /\ d.opened
            /\ h \in 0..MaxUnderWay
            /\ 0 \in 0..MaxRetrans
            /\ d.state \in {"FILENAME", "SERVING"} \cup ChildEnds
        BY <1>1, <2>1 DEF Child
      <4> HIDE DEF h
      <4>2. /\ r \in Child
            /\ r.for = d.for /\ r.init = d.init /\ r.opened = d.opened /\ r.state = d.state
        BY <4>1 DEF Child
      <4> HIDE DEF r
      <4>3. QED
        BY <4>1, <4>2 DEF Successor
    <3>2. "OTHER" \in AnswerFlags /\ "OTHER" # "FNAME_BAD"
      BY DEF AnswerFlags
    <3>3. Becomes(c, r) /\ (AnswerFrom(c, "OTHER") \/ UNCHANGED <<inbox, faults>>)
      BY <2>2
    <3> HIDE DEF r
    <3>4. QED
      BY <2>1, <3>1, <3>2, <3>3, ChildMoves
  <2>3. CASE Becomes(c, Gone(children[c])) /\ UNCHANGED <<inbox, faults>>
    BY <2>1, <2>3, GoneIsSuccessor, ChildMoves
  <2>4. QED
    BY <1>5, <2>2, <2>3 DEF ChildHears
<1>6. CASE ChildGivesUp(c) \/ ChildFails(c)
  BY <1>6, GoneIsSuccessor, ChildMoves DEF ChildGivesUp, ChildFails
<1>7. QED
  BY <1>2, <1>3, <1>4, <1>5, <1>6 DEF ChildStep

-----------------------------------------------------------------------------
(* The steps of rcopy *)

\* StartState closes one socket and sends from the next.
LEMMA RequestSent ==
  ASSUME SetupInv, NEW p \in Request, Sent(requests, p)
  PROVE  /\ faults' \in 0..MaxFaults
         /\ \/ requests' = requests
            \/ \E q \in Request : /\ q.from = p.from
                                  /\ q.init = p.init
                                  /\ requests' = Append(requests, q)
<1>1. faults \in 0..MaxFaults /\ MaxFaults \in Nat
  BY SetupAssumption DEF SetupInv, SetupTypeOK
<1>2. CASE requests' = Append(requests, p) /\ UNCHANGED faults
  BY <1>1, <1>2
<1>3. CASE /\ faults < MaxFaults
           /\ faults' = faults + 1
           /\ requests' \in {requests, Append(requests, [p EXCEPT !.ok = FALSE])}
  <2> DEFINE q == [p EXCEPT !.ok = FALSE]
  <2>1. q \in Request /\ q.from = p.from /\ q.init = p.init
    BY DEF Request
  <2>2. requests' = requests \/ requests' = Append(requests, q)
    BY <1>3
  <2>3. faults' \in 0..MaxFaults
    BY <1>1, <1>3
  <2> HIDE DEF q
  <2>4. QED
    BY <2>1, <2>2, <2>3
<1>4. QED
  BY <1>2, <1>3 DEF Sent

LEMMA StartStateRequests ==
  ASSUME SetupInv, StartState
  PROVE  \/ UNCHANGED <<requests, faults, socket>>
         \/ /\ socket' = socket + 1
            /\ faults' \in 0..MaxFaults
            /\ \/ requests' = requests
               \/ \E q \in Request : /\ q.from = socket + 1
                                     /\ q.init
                                     /\ requests' = Append(requests, q)
<1>1. socket \in Nat
  BY DEF SetupInv, SetupTypeOK
<1>2. CASE UNCHANGED <<socket, requests, faults>>
  BY <1>2
<1>3. CASE /\ socket' = NextSocket
           /\ Sent(requests, [from |-> NextSocket, init |-> TRUE, ok |-> TRUE])
  <2> DEFINE p == [from |-> NextSocket, init |-> TRUE, ok |-> TRUE]
  <2>1. p \in Request /\ p.from = socket + 1 /\ p.init = TRUE
    BY <1>1 DEF Request, NextSocket
  <2>2. Sent(requests, p)
    BY <1>3
  <2> HIDE DEF p
  <2>3. QED
    BY <1>3, <2>1, <2>2, RequestSent DEF NextSocket
<1>4. QED
  BY <1>2, <1>3 DEF StartState

LEMMA StartStateStep ==
  ASSUME SetupInv, StartState, UNCHANGED serverState
  PROVE  SetupInv'
<1>1. /\ SetupTypeOK /\ RetriesInv /\ RequestInv /\ ChildInv
      /\ rcopyState = "START_STATE"
      /\ rcopyState' \in {"FILENAME", "NO_SOCKET"}
      /\ inbox' = << >> /\ peer' = 0
      /\ UNCHANGED <<retries, children, duplicates>>
  BY DEF SetupInv, StartState
<1>2. /\ socket \in Nat /\ socket' \in Nat /\ socket <= socket'
      /\ faults' \in 0..MaxFaults
      /\ requests' \in Seq(Request)
      /\ \A i \in DOMAIN requests' : requests'[i].init /\ requests'[i].from <= socket'
  <2>1. /\ socket \in Nat /\ requests \in Seq(Request) /\ faults \in 0..MaxFaults
        /\ \A i \in DOMAIN requests : /\ requests[i] \in Request
                                       /\ requests[i].from \in Nat
                                       /\ requests[i].init
                                       /\ requests[i].from <= socket
    <3>1. socket \in Nat /\ requests \in Seq(Request) /\ faults \in 0..MaxFaults
      BY <1>1 DEF SetupTypeOK
    <3>2. QED
      BY <1>1, <3>1, Elements DEF RequestInv
  <2>2. CASE UNCHANGED <<requests, faults, socket>>
    BY <2>1, <2>2
  <2>3. CASE socket' = socket + 1 /\ faults' \in 0..MaxFaults /\ requests' = requests
    BY <2>1, <2>3
  <2>4. ASSUME NEW q \in Request, q.from = socket + 1, q.init, socket' = socket + 1,
               faults' \in 0..MaxFaults, requests' = Append(requests, q)
        PROVE  <1>2!:
    <3>1. /\ requests' \in Seq(Request)
          /\ DOMAIN requests' = 1..(Len(requests) + 1)
          /\ \A j \in 1..Len(requests) : requests'[j] = requests[j]
          /\ requests'[Len(requests) + 1] = q
      BY <2>1, <2>4, Appended
    <3>2. \A i \in DOMAIN requests' : i \in DOMAIN requests \/ i = Len(requests) + 1
      BY <2>1, <3>1
    <3>3. DOMAIN requests = 1..Len(requests)
      BY <2>1
    <3>4. QED
      BY <2>1, <2>4, <3>1, <3>2, <3>3
  <2>5. QED
    BY <2>2, <2>3, <2>4, StartStateRequests
<1>3. SetupTypeOK'
  <2>1. inbox' \in Seq(Answer) /\ peer' \in 0..Len(children')
    BY <1>1 DEF SetupTypeOK
  <2>2. rcopyState' \in HandshakeStates \cup {"RECV_DATA"} \cup RcopyEnds
    BY <1>1 DEF HandshakeStates, RcopyEnds
  <2>3. QED
    BY <1>1, <1>2, <2>1, <2>2 DEF SetupTypeOK
<1>4. RetriesInv'
  BY <1>1 DEF RetriesInv
<1>5. RequestInv'
  BY <1>2 DEF RequestInv
<1>6. ChildInv'
  <2>1. \A c \in DOMAIN children : children[c].for \in Nat
    BY <1>1, Elements
  <2>2. QED
    BY <1>1, <1>2, <2>1 DEF ChildInv
<1>7. InboxInv' /\ AnswerIsCurrent'
  BY <1>1 DEF InboxInv, AnswerIsCurrent
<1>8. QED
  BY <1>3, <1>4, <1>5, <1>6, <1>7 DEF SetupInv

\* The other steps of rcopy leave socket and requests alone.
LEMMA RcopyStays ==
  ASSUME SetupInv,
         UNCHANGED <<socket, requests, serverState, duplicates>>,
         Moves,
         rcopyState' \in HandshakeStates \cup {"RECV_DATA"} \cup RcopyEnds,
         retries' \in 0..(MaxRetrans + 1),
         peer' \in 0..Len(children),
         inbox' \in {inbox, Tail(inbox), << >>},
         inbox = << >> => inbox' = << >>,
         faults' \in 0..MaxFaults,
         RetriesInv',
         AnswerIsCurrent'
  PROVE  SetupInv'
<1>1. SetupTypeOK /\ RequestInv /\ InboxInv
  BY DEF SetupInv
<1>2. children' \in Seq(Child) /\ Len(children') = Len(children)
  BY MovesKeeps
<1>3. /\ inbox \in Seq(Answer)
      /\ \A i \in DOMAIN inbox : inbox[i] \in Answer /\ Truthful(inbox[i], children', socket')
  BY <1>1, Elements, StillTruthful DEF InboxInv, SetupTypeOK
<1>4. inbox' \in Seq(Answer) /\ InboxInv'
  <2>1. CASE inbox' = inbox
    BY <1>3, <2>1 DEF InboxInv
  <2>2. CASE inbox' = << >>
    BY <2>2 DEF InboxInv
  <2>3. CASE inbox # << >> /\ inbox' = Tail(inbox)
    <3>1. /\ Tail(inbox) \in Seq(Answer)
          /\ \A j \in DOMAIN Tail(inbox) : j + 1 \in DOMAIN inbox /\ Tail(inbox)[j] = inbox[j + 1]
      BY <1>3, <2>3, TailOf
    <3>2. QED
      BY <1>3, <2>3, <3>1 DEF InboxInv
  <2>4. QED
    BY <2>1, <2>2, <2>3
<1>5. SetupTypeOK'
  BY <1>1, <1>2, <1>4 DEF SetupTypeOK
<1>6. RequestInv' /\ ChildInv'
  BY <1>1, ChildrenStay DEF RequestInv
<1>7. QED
  BY <1>4, <1>5, <1>6 DEF SetupInv

\* What rcopy finds at the head of its socket.
LEMMA HeadOfInbox ==
  ASSUME SetupInv, inbox # << >>
  PROVE  /\ Head(inbox) \in Answer
         /\ Truthful(Head(inbox), children, socket)
         /\ Sender(Head(inbox)) \in DOMAIN children
         /\ Sender(Head(inbox)) \in 1..Len(children)
<1>1. inbox \in Seq(Answer) /\ children \in Seq(Child) /\ InboxInv
  BY DEF SetupInv, SetupTypeOK
<1>2. Head(inbox) \in Answer /\ 1 \in DOMAIN inbox /\ Head(inbox) = inbox[1]
  BY <1>1, TailOf
<1>3. Truthful(Head(inbox), children, socket)
  BY <1>1, <1>2 DEF InboxInv
<1>4. Sender(Head(inbox)) \in DOMAIN children
  BY <1>3 DEF Truthful, Sender
<1>5. QED
  BY <1>1, <1>2, <1>3, <1>4

LEMMA HearingIsSuccessor ==
  ASSUME SetupInv, NEW c \in DOMAIN children, children[c].heard < MaxUnderWay
  PROVE  Successor(children[c], Hearing(children[c]))
<1>1. /\ children[c] \in Child
      /\ children[c].state = "SERVING" => children[c].opened
      /\ MaxUnderWay \in Nat
  BY ChildFields
<1>2. CASE children[c].state \in ChildEnds
  BY <1>1, <1>2 DEF Successor, Hearing
<1>3. CASE children[c].state \notin ChildEnds
  BY <1>1, <1>3 DEF Successor, Hearing, Child
<1>4. QED
  BY <1>2, <1>3

\* An acknowledgement goes to a child, never to the listening port.
LEMMA AcknowledgesChild ==
  ASSUME SetupInv, NEW c \in DOMAIN children, Acknowledges(c)
  PROVE  Moves /\ UNCHANGED requests /\ faults' \in 0..MaxFaults
<1>1. children \in Seq(Child) /\ faults \in 0..MaxFaults /\ MaxFaults \in Nat
  BY SetupAssumption DEF SetupInv, SetupTypeOK
<1>2. c # 0
  BY <1>1
<1>3. CASE /\ children[c].heard < MaxUnderWay
           /\ Becomes(c, Hearing(children[c]))
           /\ UNCHANGED faults
           /\ UNCHANGED requests
  BY <1>1, <1>3, HearingIsSuccessor DEF Moves, Successor
<1>4. CASE faults < MaxFaults /\ faults' = faults + 1 /\ UNCHANGED children /\ UNCHANGED requests
  BY <1>1, <1>4 DEF Moves
<1>5. QED
  BY <1>2, <1>3, <1>4 DEF Acknowledges

LEMMA RcopyOtherSteps ==
  ASSUME SetupInv,
         GiveUp \/ AnswerTimer \/ Answered \/ FileOk \/ TakePacket \/ RcopyDone,
         UNCHANGED serverState
  PROVE  SetupInv' /\ Moves /\ UNCHANGED <<socket, requests, duplicates>>
<1>1. /\ SetupTypeOK /\ RetriesInv /\ AnswerIsCurrent
      /\ retries \in 0..(MaxRetrans + 1) /\ peer \in 0..Len(children)
      /\ faults \in 0..MaxFaults
      /\ MaxRetrans \in Nat
      /\ inbox \in Seq(Answer)
  BY SetupAssumption DEF SetupInv, SetupTypeOK
<1>2. children' = children => Moves
  BY DEF Moves
<1>3. CASE GiveUp
  <2>1. /\ rcopyState = "FILENAME" /\ rcopyState' = "GAVE_UP" /\ retries' = retries + 1
        /\ inbox' = << >>
        /\ UNCHANGED <<socket, peer, requests, children, faults, duplicates>>
    BY <1>3 DEF GiveUp, RcopyExits
  <2>2. /\ retries' \in 0..(MaxRetrans + 1)
        /\ rcopyState' \in HandshakeStates \cup {"RECV_DATA"} \cup RcopyEnds
        /\ RetriesInv'
        /\ AnswerIsCurrent'
    BY <1>1, <2>1 DEF RetriesInv, AnswerIsCurrent, RcopyEnds
  <2>3. QED
    BY <1>1, <1>2, <2>1, <2>2, RcopyStays
<1>4. CASE AnswerTimer
  <2>1. /\ rcopyState = "FILENAME" /\ rcopyState' = "START_STATE"
        /\ retries < MaxRetrans /\ retries' = retries + 1
        /\ UNCHANGED <<socket, peer, inbox, requests, children, faults, duplicates>>
    BY <1>4 DEF AnswerTimer
  <2>2. /\ retries' \in 0..(MaxRetrans + 1)
        /\ rcopyState' \in HandshakeStates \cup {"RECV_DATA"} \cup RcopyEnds
        /\ RetriesInv'
        /\ AnswerIsCurrent'
    BY <1>1, <2>1 DEF RetriesInv, AnswerIsCurrent, HandshakeStates
  <2>3. QED
    BY <1>1, <1>2, <2>1, <2>2, RcopyStays
<1>5. CASE Answered
  <2> DEFINE p == Head(inbox)
  <2>1. /\ rcopyState = "FILENAME"
        /\ retries < MaxRetrans
        /\ inbox # << >>
        /\ retries' \in {0, 1}
        /\ peer' = Sender(p)
        /\ UNCHANGED <<socket, requests, children, faults, duplicates>>
    BY <1>5 DEF Answered
  <2>2. PICK damaged \in BOOLEAN :
          /\ rcopyState' = Verdict(p, damaged)
          /\ inbox' = IF rcopyState' = "NO_FILE" THEN << >> ELSE Tail(inbox)
    BY <1>5 DEF Answered
  <2>3. p \in Answer /\ Truthful(p, children, socket) /\ Sender(p) \in 1..Len(children)
    BY <2>1, HeadOfInbox
  <2>4. inbox' \in {inbox, Tail(inbox), << >>}
    BY <2>2
  <2>5. /\ rcopyState' \in {"NO_FILE", "FILE_OK", "FILENAME"}
        /\ rcopyState' = "NO_FILE" => p.flag = "FNAME_BAD"
    BY <2>2 DEF Verdict
  <2>6. rcopyState' = "FILE_OK" => p.flag # "FNAME_BAD"
    BY <2>2, <1>5 DEF Verdict, Answered
  <2>7. AnswerIsCurrent'
    <3>1. p.from \in DOMAIN children /\ children[p.from].for = socket
      BY <2>3 DEF Truthful
    <3>2. p.flag = "FNAME_BAD" => children[p.from].state = "REFUSED"
      BY <2>3 DEF Truthful
    <3>3. p.flag # "FNAME_BAD" => children[p.from].opened
      BY <2>3 DEF Truthful
    <3>4. QED
      BY <2>1, <2>5, <2>6, <3>1, <3>2, <3>3 DEF AnswerIsCurrent
  <2>8. /\ retries' \in 0..(MaxRetrans + 1)
        /\ rcopyState' \in HandshakeStates \cup {"RECV_DATA"} \cup RcopyEnds
        /\ RetriesInv'
    BY <1>1, <2>1, <2>5 DEF RetriesInv, RcopyEnds, HandshakeStates
  <2>9. peer' \in 0..Len(children)
    BY <2>1, <2>3
  <2> HIDE DEF p
  <2>10. QED
    BY <1>1, <1>2, <2>1, <2>4, <2>7, <2>8, <2>9, RcopyStays
<1>6. CASE FileOk
  <2>1. /\ rcopyState = "FILE_OK" /\ rcopyState' \in {"RECV_DATA", "OPEN_ERROR"}
        /\ inbox' \in {inbox, << >>}
        /\ UNCHANGED <<socket, retries, peer, requests, children, faults, duplicates>>
    BY <1>6 DEF FileOk, RcopyExits
  <2>2. /\ rcopyState' \in HandshakeStates \cup {"RECV_DATA"} \cup RcopyEnds
        /\ RetriesInv'
        /\ AnswerIsCurrent'
    BY <1>1, <2>1 DEF RetriesInv, AnswerIsCurrent, RcopyEnds
  <2>3. QED
    BY <1>1, <1>2, <2>1, <2>2, RcopyStays
<1>7. CASE TakePacket
  <2>1. /\ rcopyState = "RECV_DATA" /\ inbox # << >> /\ inbox' = Tail(inbox)
        /\ peer' = Sender(Head(inbox))
        /\ UNCHANGED <<rcopyState, socket, retries, duplicates>>
        /\ Acknowledges(Sender(Head(inbox))) \/ UNCHANGED <<requests, children, faults>>
    BY <1>7 DEF TakePacket
  <2>2. Sender(Head(inbox)) \in DOMAIN children /\ Sender(Head(inbox)) \in 1..Len(children)
    BY <2>1, HeadOfInbox
  <2>3. Moves /\ UNCHANGED requests /\ faults' \in 0..MaxFaults
    BY <1>1, <1>2, <2>1, <2>2, AcknowledgesChild
  <2>4. peer' \in 0..Len(children) /\ RetriesInv'
    BY <1>1, <2>1, <2>2 DEF RetriesInv
  <2>5. /\ AnswerIsCurrent'
        /\ rcopyState' \in HandshakeStates \cup {"RECV_DATA"} \cup RcopyEnds
    BY <1>1, <2>1, <2>3, StillCurrent DEF SetupTypeOK
  <2>6. QED
    BY <1>1, <2>1, <2>3, <2>4, <2>5, RcopyStays
<1>8. CASE RcopyDone
  <2>1. /\ rcopyState = "RECV_DATA" /\ rcopyState' = "DONE" /\ inbox' = << >>
        /\ UNCHANGED <<socket, retries, peer, requests, children, faults, duplicates>>
    BY <1>8 DEF RcopyDone, RcopyExits
  <2>2. /\ rcopyState' \in HandshakeStates \cup {"RECV_DATA"} \cup RcopyEnds
        /\ RetriesInv'
        /\ AnswerIsCurrent'
    BY <1>1, <2>1 DEF RetriesInv, AnswerIsCurrent, RcopyEnds
  <2>3. QED
    BY <1>1, <1>2, <2>1, <2>2, RcopyStays
<1>9. QED
  BY <1>3, <1>4, <1>5, <1>6, <1>7, <1>8

-----------------------------------------------------------------------------
(* The parent process and the network *)

LEMMA ProcessServerStep ==
  ASSUME SetupInv, ProcessServer
  PROVE  SetupInv'
<1> DEFINE r == Head(requests)
<1>1. /\ SetupTypeOK /\ RetriesInv /\ RequestInv /\ ChildInv /\ InboxInv /\ AnswerIsCurrent
      /\ requests \in Seq(Request) /\ children \in Seq(Child) /\ inbox \in Seq(Answer)
      /\ Len(children) \in Nat
  BY DEF SetupInv, SetupTypeOK
<1>2. /\ requests # << >>
      /\ requests' = Tail(requests)
      /\ children' = IF r.ok THEN Append(children, NewChild(r)) ELSE children
      /\ UNCHANGED <<rcopyState, socket, retries, peer, inbox, serverState, faults, duplicates>>
  BY DEF ProcessServer, rcopyVars
<1>3. /\ requests' \in Seq(Request)
      /\ r \in Request /\ r.init /\ r.from <= socket
      /\ \A j \in DOMAIN requests' : j + 1 \in DOMAIN requests /\ requests'[j] = requests[j + 1]
  BY <1>1, <1>2, TailOf DEF RequestInv
<1>4. RequestInv'
  BY <1>1, <1>2, <1>3 DEF RequestInv
<1>5. NewChild(r) \in Child
  BY <1>3, SetupAssumption DEF NewChild, Child, Request
<1>6. /\ NewChild(r).init
      /\ NewChild(r).for <= socket
      /\ NewChild(r).state # "SERVING"
  BY <1>3 DEF NewChild
<1> HIDE DEF r
<1>7. CASE children' = children
  <2>1. SetupTypeOK'
    BY <1>1, <1>2, <1>3, <1>7 DEF SetupTypeOK
  <2>2. RetriesInv' /\ ChildInv' /\ InboxInv' /\ AnswerIsCurrent'
    BY <1>1, <1>2, <1>7 DEF RetriesInv, ChildInv, InboxInv, AnswerIsCurrent
  <2>3. QED
    BY <1>4, <2>1, <2>2 DEF SetupInv
<1>8. CASE children' = Append(children, NewChild(r))
  <2>1. /\ children' \in Seq(Child)
        /\ Len(children') = Len(children) + 1
        /\ DOMAIN children' = 1..(Len(children) + 1)
        /\ DOMAIN children = 1..Len(children)
        /\ \A c \in DOMAIN children : c \in DOMAIN children' /\ children'[c] = children[c]
        /\ children'[Len(children) + 1] = NewChild(r)
    BY <1>1, <1>5, <1>8, Appended
  <2>2. \A c \in DOMAIN children' : c \in DOMAIN children \/ c = Len(children) + 1
    BY <1>1, <2>1
  <2>3. SetupTypeOK'
    <3>1. peer' \in 0..Len(children')
      BY <1>1, <1>2, <2>1 DEF SetupTypeOK
    <3>2. QED
      BY <1>1, <1>2, <1>3, <2>1, <3>1 DEF SetupTypeOK
  <2>4. RetriesInv'
    BY <1>1, <1>2 DEF RetriesInv
  <2>5. ChildInv'
    BY <1>1, <1>2, <1>6, <2>1, <2>2 DEF ChildInv
  <2>6. InboxInv'
    <3>1. ASSUME NEW i \in DOMAIN inbox
          PROVE  Truthful(inbox[i], children', socket)
      <4>1. Truthful(inbox[i], children, socket)
        BY <1>1 DEF InboxInv
      <4>2. QED
        BY <2>1, <4>1 DEF Truthful
    <3>2. QED
      BY <1>2, <3>1 DEF InboxInv
  <2>7. AnswerIsCurrent'
    BY <1>1, <1>2, <2>1 DEF AnswerIsCurrent
  <2>8. QED
    BY <1>4, <2>3, <2>4, <2>5, <2>6, <2>7 DEF SetupInv
<1>9. QED
  BY <1>2, <1>7, <1>8

LEMMA ForkFailsStep ==
  ASSUME SetupInv, ForkFails
  PROVE  SetupInv'
<1>1. /\ SetupTypeOK /\ RetriesInv /\ RequestInv /\ ChildInv /\ InboxInv /\ AnswerIsCurrent
      /\ requests \in Seq(Request)
  BY DEF SetupInv, SetupTypeOK
<1>2. /\ requests # << >> /\ requests' = Tail(requests) /\ serverState' = "EXITED"
      /\ UNCHANGED <<rcopyState, socket, retries, peer, inbox, children, faults, duplicates>>
  BY DEF ForkFails, rcopyVars
<1>3. /\ requests' \in Seq(Request)
      /\ \A j \in DOMAIN requests' : j + 1 \in DOMAIN requests /\ requests'[j] = requests[j + 1]
  BY <1>1, <1>2, TailOf
<1>4. SetupTypeOK' /\ RequestInv'
  BY <1>1, <1>2, <1>3 DEF SetupTypeOK, RequestInv
<1>5. RetriesInv' /\ ChildInv' /\ InboxInv' /\ AnswerIsCurrent'
  BY <1>1, <1>2 DEF RetriesInv, ChildInv, InboxInv, AnswerIsCurrent
<1>6. QED
  BY <1>4, <1>5 DEF SetupInv

LEMMA NetworkRepeatsStep ==
  ASSUME SetupInv, NetworkRepeats
  PROVE  SetupInv'
<1>1. /\ SetupTypeOK /\ RetriesInv /\ RequestInv /\ ChildInv /\ InboxInv /\ AnswerIsCurrent
      /\ requests \in Seq(Request)
      /\ duplicates \in 0..MaxDuplicates /\ MaxDuplicates \in Nat
  BY SetupAssumption DEF SetupInv, SetupTypeOK
<1>2. /\ duplicates < MaxDuplicates /\ duplicates' = duplicates + 1
      /\ UNCHANGED <<rcopyState, socket, retries, peer, inbox, children, serverState, faults>>
  BY DEF NetworkRepeats, rcopyVars
<1>3. PICK i \in DOMAIN requests : requests' = Append(requests, requests[i])
  BY DEF NetworkRepeats
<1>4. /\ requests' \in Seq(Request)
      /\ \A j \in DOMAIN requests' :
           \/ j \in DOMAIN requests /\ requests'[j] = requests[j]
           \/ requests'[j] = requests[i]
  <2>1. requests[i] \in Request /\ DOMAIN requests = 1..Len(requests) /\ Len(requests) \in Nat
    BY <1>1
  <2>2. /\ requests' \in Seq(Request)
        /\ DOMAIN requests' = 1..(Len(requests) + 1)
        /\ \A j \in 1..Len(requests) : requests'[j] = requests[j]
        /\ requests'[Len(requests) + 1] = requests[i]
    BY <1>1, <1>3, <2>1, Appended
  <2>3. QED
    BY <2>1, <2>2
<1>5. RequestInv'
  BY <1>1, <1>2, <1>3, <1>4 DEF RequestInv
<1>6. SetupTypeOK'
  BY <1>1, <1>2, <1>4 DEF SetupTypeOK
<1>7. RetriesInv' /\ ChildInv' /\ InboxInv' /\ AnswerIsCurrent'
  BY <1>1, <1>2 DEF RetriesInv, ChildInv, InboxInv, AnswerIsCurrent
<1>8. QED
  BY <1>5, <1>6, <1>7 DEF SetupInv

-----------------------------------------------------------------------------
(* The invariant and its theorems *)

LEMMA SetupInvInit == SetupInit => SetupInv
<1> SUFFICES ASSUME SetupInit PROVE SetupInv
  OBVIOUS
<1>1. /\ rcopyState = "START_STATE" /\ socket = 0 /\ retries = 0 /\ peer = 0
      /\ inbox = << >> /\ requests = << >> /\ children = << >>
      /\ serverState = "LISTENING" /\ faults = 0 /\ duplicates = 0
  BY DEF SetupInit
<1>2. SetupTypeOK
  BY <1>1, SetupAssumption DEF SetupTypeOK, HandshakeStates
<1>3. RetriesInv /\ RequestInv /\ ChildInv /\ InboxInv /\ AnswerIsCurrent
  BY <1>1, SetupAssumption DEF RetriesInv, RequestInv, ChildInv, InboxInv, AnswerIsCurrent
<1>4. QED
  BY <1>2, <1>3 DEF SetupInv

LEMMA SetupInvNext == SetupInv /\ [SetupNext]_vars => SetupInv'
<1> SUFFICES ASSUME SetupInv, [SetupNext]_vars PROVE SetupInv'
  OBVIOUS
<1>1. CASE RcopyStep
  BY <1>1, StartStateStep, RcopyOtherSteps DEF RcopyStep
<1>2. CASE ProcessServer
  BY <1>2, ProcessServerStep
<1>3. ASSUME NEW c \in DOMAIN children, ChildStep(c) \/ ChildFails(c)
      PROVE  SetupInv'
  BY <1>3, ChildSteps, ChildOwed DEF ChildStep, ChildFails
<1>4. CASE NetworkRepeats \/ ForkFails
  BY <1>4, NetworkRepeatsStep, ForkFailsStep
<1>5. CASE UNCHANGED vars
  BY <1>5 DEF vars, rcopyVars, SetupInv, SetupTypeOK, RetriesInv, RequestInv, ChildInv,
              InboxInv, AnswerIsCurrent
<1>6. QED
  BY <1>1, <1>2, <1>3, <1>4, <1>5 DEF SetupNext, Settled

\* SetupInv holds in every state of a setup.
THEOREM SetupSafe == SetupSpec => []SetupInv
<1>1. QED
  BY SetupInvInit, SetupInvNext, PTL DEF SetupSpec

\* Type correctness of rcopy's setup, the listening server and its children.
THEOREM SetupTypeCorrect == SetupSpec => []SetupTypeOK
<1>1. SetupInv => SetupTypeOK
  BY DEF SetupInv
<1>2. QED
  BY <1>1, SetupSafe, PTL

\* process_server() never forks a child for a packet of a transfer, however
\* often requests are lost, repeated or late.
THEOREM OnlyInit == SetupSpec => []OnlyInitForks
<1>1. SetupInv => OnlyInitForks
  BY DEF SetupInv, ChildInv, OnlyInitForks
<1>2. QED
  BY <1>1, SetupSafe, PTL

\* filename() of rcopy never concludes anything from the answer of a child it
\* has abandoned.
THEOREM Current == SetupSpec => []AnswerIsCurrent
<1>1. SetupInv => AnswerIsCurrent
  BY DEF SetupInv
<1>2. QED
  BY <1>1, SetupSafe, PTL

-----------------------------------------------------------------------------
(* One child per socket, when the network repeats no request *)

LEMMA OneChildMoves ==
  ASSUME SetupInv, OneChildPerSocket, Moves, UNCHANGED requests
  PROVE  OneChildPerSocket'
<1>1. /\ DOMAIN children' = DOMAIN children
      /\ \A c \in DOMAIN children : children'[c].for = children[c].for
  BY MovesKeeps DEF Successor
<1>2. QED
  BY <1>1 DEF OneChildPerSocket

\* The socket of a new request is new.
LEMMA OneChildStartState ==
  ASSUME SetupInv, OneChildPerSocket, StartState
  PROVE  OneChildPerSocket'
<1>1. /\ children' = children
      /\ socket \in Nat
      /\ requests \in Seq(Request)
      /\ \A c \in DOMAIN children : children[c].for \in Nat /\ children[c].for <= socket
      /\ \A i \in DOMAIN requests : requests[i].from \in Nat /\ requests[i].from <= socket
  BY Elements DEF StartState, SetupInv, SetupTypeOK, ChildInv, RequestInv
<1>2. CASE requests' = requests
  BY <1>1, <1>2 DEF OneChildPerSocket
<1>3. ASSUME NEW q \in Request, q.from = socket + 1, requests' = Append(requests, q)
      PROVE  OneChildPerSocket'
  <2>1. /\ DOMAIN requests' = 1..(Len(requests) + 1)
        /\ DOMAIN requests = 1..Len(requests)
        /\ Len(requests) \in Nat
        /\ \A j \in 1..Len(requests) : requests'[j] = requests[j]
        /\ requests'[Len(requests) + 1] = q
    BY <1>1, <1>3, Appended
  <2>2. \A i \in DOMAIN requests' :
          \/ i \in DOMAIN requests /\ requests'[i].from = requests[i].from
          \/ i = Len(requests) + 1 /\ requests'[i].from = socket + 1
    BY <1>3, <2>1
  <2>3. \A i \in DOMAIN requests : requests[i].from # socket + 1
    BY <1>1
  <2>4. \A c \in DOMAIN children : children[c].for # socket + 1
    BY <1>1
  <2>5. QED
    BY <1>1, <2>2, <2>3, <2>4 DEF OneChildPerSocket
<1>4. QED
  BY <1>2, <1>3, StartStateRequests

\* The request at the head goes, and no other is like it.
LEMMA OneChildProcessServer ==
  ASSUME SetupInv, OneChildPerSocket, ProcessServer
  PROVE  OneChildPerSocket'
<1> DEFINE r == Head(requests)
<1>1. requests \in Seq(Request) /\ children \in Seq(Child)
  BY DEF SetupInv, SetupTypeOK
<1>2. /\ requests # << >>
      /\ requests' = Tail(requests)
      /\ children' = IF r.ok THEN Append(children, NewChild(r)) ELSE children
  BY DEF ProcessServer
<1>3. /\ r \in Request /\ 1 \in DOMAIN requests /\ r = requests[1]
      /\ \A j \in DOMAIN requests' : j + 1 \in DOMAIN requests /\ requests'[j] = requests[j + 1]
  BY <1>1, <1>2, TailOf
<1>4. \A i \in DOMAIN requests' : i \in Nat \ {0}
  BY <1>1, <1>2
<1>5. \A i, j \in DOMAIN requests' : requests'[i].from = requests'[j].from => i = j
  <2>1. \A i, j \in DOMAIN requests' : requests'[i].from = requests'[j].from => i + 1 = j + 1
    BY <1>3 DEF OneChildPerSocket
  <2>2. QED
    BY <1>4, <2>1
<1>6. \A i \in DOMAIN requests' : requests'[i].from # r.from
  <2>1. \A i \in DOMAIN requests' : i + 1 # 1
    BY <1>4
  <2>2. QED
    BY <1>3, <2>1 DEF OneChildPerSocket
<1>7. \A c \in DOMAIN children : /\ children[c].for # r.from
                                  /\ \A i \in DOMAIN requests' : children[c].for # requests'[i].from
  BY <1>3 DEF OneChildPerSocket
<1>8. CASE children' = children
  BY <1>5, <1>7, <1>8 DEF OneChildPerSocket
<1>9. CASE children' = Append(children, NewChild(r))
  <2>1. NewChild(r) \in Child /\ NewChild(r).for = r.from
    BY <1>3, SetupAssumption DEF NewChild, Child, Request
  <2> HIDE DEF r
  <2>2. /\ DOMAIN children' = 1..(Len(children) + 1)
        /\ DOMAIN children = 1..Len(children)
        /\ Len(children) \in Nat
        /\ \A c \in 1..Len(children) : children'[c] = children[c]
        /\ children'[Len(children) + 1] = NewChild(r)
    BY <1>1, <1>9, <2>1, Appended
  <2>3. \A c \in DOMAIN children' :
          \/ c \in DOMAIN children /\ children'[c].for = children[c].for
          \/ c = Len(children) + 1 /\ children'[c].for = r.from
    BY <2>1, <2>2
  <2>4. QED
    BY <1>5, <1>6, <1>7, <2>3 DEF OneChildPerSocket
<1>10. QED
  BY <1>2, <1>8, <1>9

LEMMA OneChildForkFails ==
  ASSUME SetupInv, OneChildPerSocket, ForkFails
  PROVE  OneChildPerSocket'
<1>1. requests \in Seq(Request)
  BY DEF SetupInv, SetupTypeOK
<1>2. requests # << >> /\ requests' = Tail(requests) /\ children' = children
  BY DEF ForkFails
<1>3. \A j \in DOMAIN requests' : /\ j \in Nat /\ j + 1 \in DOMAIN requests
                                  /\ requests'[j] = requests[j + 1]
  BY <1>1, <1>2, TailOf
<1>4. \A i, j \in DOMAIN requests' : requests'[i].from = requests'[j].from => i = j
  <2>1. \A i, j \in DOMAIN requests' : requests'[i].from = requests'[j].from => i + 1 = j + 1
    BY <1>3 DEF OneChildPerSocket
  <2>2. QED
    BY <1>3, <2>1
<1>5. QED
  BY <1>2, <1>3, <1>4 DEF OneChildPerSocket

\* When the network repeats no request, no two children ever serve one socket,
\* whatever is lost or damaged and however often start_state() is run again.
THEOREM OneChild ==
  ASSUME MaxDuplicates = 0
  PROVE  SetupSpec => []OneChildPerSocket
<1>1. SetupInit => OneChildPerSocket
  BY DEF SetupInit, OneChildPerSocket
<1>2. ASSUME SetupInv, OneChildPerSocket, [SetupNext]_vars
      PROVE  OneChildPerSocket'
  <2>1. CASE StartState
    BY <1>2, <2>1, OneChildStartState
  <2>2. CASE /\ GiveUp \/ AnswerTimer \/ Answered \/ FileOk \/ TakePacket \/ RcopyDone
             /\ UNCHANGED serverState
    BY <1>2, <2>2, RcopyOtherSteps, OneChildMoves
  <2>3. CASE ProcessServer
    BY <1>2, <2>3, OneChildProcessServer
  <2>4. ASSUME NEW c \in DOMAIN children, ChildStep(c) \/ ChildFails(c)
        PROVE  OneChildPerSocket'
    BY <1>2, <2>4, ChildSteps, OneChildMoves DEF ChildOwes
  <2>5. ~NetworkRepeats
    BY <1>2 DEF NetworkRepeats, SetupInv, SetupTypeOK
  <2>6. CASE UNCHANGED vars
    BY <1>2, <2>6 DEF vars, OneChildPerSocket
  <2>7. CASE ForkFails
    BY <1>2, <2>7, OneChildForkFails
  <2>8. QED
    BY <1>2, <2>1, <2>2, <2>3, <2>4, <2>5, <2>6, <2>7 DEF SetupNext, RcopyStep, Settled
<1>3. QED
  BY <1>1, <1>2, SetupSafe, PTL DEF SetupSpec

-----------------------------------------------------------------------------
(* How often rcopy asks.  A damaged answer sets the counter of filename()   *)
(* back, so that what bounds the sockets is the counter and the faults that *)
(* have been spent on packets which are under way no longer.                *)

Damaged(chan) == {i \in DOMAIN chan : ~chan[i].ok}

Spent == faults - Cardinality(Damaged(inbox))

\* The first attempt is counted by nothing; a damaged answer pays for
\* MaxRetrans more.
AttemptsInv ==
  /\ Spent \in Nat
  /\ socket <= AttemptLimit
  /\ rcopyState = "START_STATE" => socket <= retries + MaxRetrans * Spent
  /\ rcopyState = "FILENAME" => socket <= 1 + retries + MaxRetrans * Spent

LEMMA DamagedIsFinite ==
  ASSUME NEW s \in Seq(Answer)
  PROVE  /\ IsFiniteSet(Damaged(s))
         /\ Cardinality(Damaged(s)) \in Nat
<1>1. DOMAIN s = 1..Len(s) /\ Len(s) \in Nat
  OBVIOUS
<1>2. Damaged(s) \in SUBSET (1..Len(s)) /\ IsFiniteSet(1..Len(s))
  BY <1>1, FS_Interval DEF Damaged
<1>3. QED
  BY <1>2, FS_Subset, FS_CardinalityType

LEMMA DamagedEmpty == Cardinality(Damaged(<< >>)) = 0
<1>1. Damaged(<< >>) = {}
  BY DEF Damaged
<1>2. QED
  BY <1>1, FS_EmptySet

LEMMA DamagedAppend ==
  ASSUME NEW s \in Seq(Answer), NEW q \in Answer
  PROVE  Cardinality(Damaged(Append(s, q))) =
           Cardinality(Damaged(s)) + (IF q.ok THEN 0 ELSE 1)
<1> DEFINE n == Len(s) + 1
<1>1. /\ DOMAIN s = 1..Len(s) /\ Len(s) \in Nat
      /\ DOMAIN Append(s, q) = 1..n
      /\ \A j \in 1..Len(s) : Append(s, q)[j] = s[j]
      /\ Append(s, q)[n] = q
  BY Appended
<1>2. /\ n \notin Damaged(s)
      /\ IsFiniteSet(Damaged(s)) /\ Cardinality(Damaged(s)) \in Nat
  <2>1. n \notin Damaged(s)
    BY <1>1 DEF Damaged
  <2>2. QED
    BY <2>1, DamagedIsFinite
<1>3. CASE q.ok
  <2>1. Damaged(Append(s, q)) = Damaged(s)
    BY <1>1, <1>3 DEF Damaged
  <2>2. QED
    BY <1>2, <1>3, <2>1
<1>4. CASE ~q.ok
  <2>1. Damaged(Append(s, q)) = Damaged(s) \cup {n}
    BY <1>1, <1>4 DEF Damaged
  <2> HIDE DEF n
  <2>2. QED
    BY <1>2, <1>4, <2>1, FS_AddElement
<1>5. QED
  BY <1>3, <1>4

LEMMA DamagedTail ==
  ASSUME NEW s \in Seq(Answer), s # << >>
  PROVE  Cardinality(Damaged(Tail(s))) =
           Cardinality(Damaged(s)) - (IF Head(s).ok THEN 0 ELSE 1)
<1> DEFINE T == Damaged(Tail(s))
           D == Damaged(s) \ {1}
           f == [i \in T |-> i + 1]
<1>1. /\ DOMAIN s = 1..Len(s) /\ Len(s) \in Nat \ {0}
      /\ DOMAIN Tail(s) = 1..(Len(s) - 1)
      /\ \A j \in 1..(Len(s) - 1) : Tail(s)[j] = s[j + 1]
      /\ Head(s) = s[1]
  OBVIOUS
<1>2. \A i \in T : i \in Nat /\ i + 1 \in D
  BY <1>1 DEF Damaged
<1>3. \A j \in D : j - 1 \in T /\ (j - 1) + 1 = j
  BY <1>1 DEF Damaged
<1> HIDE DEF T, D
<1>4. f \in Bijection(T, D)
  <2>1. f \in [T -> D]
    BY <1>2
  <2>2. \A a, b \in T : f[a] = f[b] => a = b
    BY <1>2
  <2>3. \A j \in D : \E i \in T : f[i] = j
    BY <1>3
  <2> HIDE DEF f
  <2>4. QED
    BY <2>1, <2>2, <2>3 DEF Bijection, Injection, Surjection, IsInjective
<1>5. IsFiniteSet(T) /\ IsFiniteSet(Damaged(s)) /\ Cardinality(Damaged(s)) \in Nat
  BY TailOf, DamagedIsFinite DEF T
<1>6. Cardinality(D) = Cardinality(T)
  BY <1>4, <1>5, FS_Bijection DEF ExistsBijection
<1>7. Cardinality(D) =
        IF 1 \in Damaged(s) THEN Cardinality(Damaged(s)) - 1 ELSE Cardinality(Damaged(s))
  BY <1>5, FS_RemoveElement DEF D
<1>8. 1 \in Damaged(s) <=> ~Head(s).ok
  BY <1>1 DEF Damaged
<1>9. QED
  BY <1>5, <1>6, <1>7, <1>8 DEF T

\* A packet that is damaged on its way has cost a fault.
LEMMA DamageIsPaid ==
  ASSUME SetupInv, Spent \in Nat, NEW p \in Answer, p.ok, Sent(inbox, p)
  PROVE  Spent' \in Nat /\ Spent' >= Spent
<1>1. faults \in Nat /\ inbox \in Seq(Answer) /\ Cardinality(Damaged(inbox)) \in Nat
  BY SetupAssumption, DamagedIsFinite DEF SetupInv, SetupTypeOK
<1>2. CASE inbox' = Append(inbox, p) /\ UNCHANGED faults
  <2>1. Cardinality(Damaged(inbox')) = Cardinality(Damaged(inbox))
    BY <1>1, <1>2, DamagedAppend
  <2>2. QED
    BY <1>1, <1>2, <2>1 DEF Spent
<1>3. CASE /\ faults' = faults + 1
           /\ inbox' \in {inbox, Append(inbox, [p EXCEPT !.ok = FALSE])}
  <2> DEFINE q == [p EXCEPT !.ok = FALSE]
  <2>1. q \in Answer /\ ~q.ok
    BY DEF Answer
  <2>2. inbox' = inbox \/ inbox' = Append(inbox, q)
    BY <1>3
  <2> HIDE DEF q
  <2>3. CASE inbox' = inbox
    BY <1>1, <1>3, <2>3 DEF Spent
  <2>4. CASE inbox' = Append(inbox, q)
    <3>1. Cardinality(Damaged(inbox')) = Cardinality(Damaged(inbox)) + 1
      BY <1>1, <2>1, <2>4, DamagedAppend
    <3>2. QED
      BY <1>1, <1>3, <3>1 DEF Spent
  <2>5. QED
    BY <2>2, <2>3, <2>4
<1>4. QED
  BY <1>2, <1>3 DEF Sent

LEMMA AnswerIsPaid ==
  ASSUME SetupInv, Spent \in Nat, NEW c \in DOMAIN children,
         \/ \E flag \in AnswerFlags : AnswerFrom(c, flag)
         \/ UNCHANGED <<inbox, faults>>
  PROVE  Spent' \in Nat /\ Spent' >= Spent
<1>1. CASE UNCHANGED <<inbox, faults>>
  BY <1>1 DEF Spent
<1>2. ASSUME NEW flag \in AnswerFlags, AnswerFrom(c, flag), ~UNCHANGED <<inbox, faults>>
      PROVE  Spent' \in Nat /\ Spent' >= Spent
  <2> DEFINE p == [flag |-> flag, from |-> c, ok |-> TRUE]
  <2>1. children \in Seq(Child)
    BY DEF SetupInv, SetupTypeOK
  <2>2. p \in Answer /\ p.ok = TRUE
    BY <2>1 DEF Answer
  <2>3. Sent(inbox, p)
    BY <1>2 DEF AnswerFrom
  <2> HIDE DEF p
  <2>4. QED
    BY <2>2, <2>3, DamageIsPaid
<1>3. QED
  BY <1>1, <1>2

\* Multiplication by MaxRetrans.
LEMMA Times ==
  ASSUME NEW a \in Nat, NEW b \in Nat, a <= b
  PROVE  /\ MaxRetrans * a \in Nat /\ MaxRetrans * b \in Nat
         /\ MaxRetrans * a <= MaxRetrans * b
         /\ MaxRetrans * (a + 1) = MaxRetrans * a + MaxRetrans
BY SetupAssumption

\* A step that opens no socket and takes no answer.
LEMMA AttemptsStay ==
  ASSUME SetupInv, AttemptsInv, UNCHANGED <<socket, retries>>,
         rcopyState' = rcopyState \/ rcopyState' \notin {"START_STATE", "FILENAME"},
         Spent' \in Nat, Spent' >= Spent
  PROVE  AttemptsInv'
<1>1. /\ socket \in Nat /\ retries \in Nat /\ MaxRetrans \in Nat /\ MaxFaults \in Nat
      /\ Spent \in Nat
  BY SetupAssumption DEF SetupInv, SetupTypeOK, AttemptsInv
<1>2. /\ MaxRetrans * Spent \in Nat /\ MaxRetrans * Spent' \in Nat
      /\ MaxRetrans * Spent <= MaxRetrans * Spent'
  BY <1>1, Times
<1> DEFINE m == MaxRetrans * Spent
           n == MaxRetrans * Spent'
<1>3. /\ socket <= AttemptLimit
      /\ rcopyState = "START_STATE" => socket <= retries + m
      /\ rcopyState = "FILENAME" => socket <= 1 + retries + m
  BY DEF AttemptsInv
<1>4. m \in Nat /\ n \in Nat /\ m <= n
  BY <1>2
<1> HIDE DEF m, n
<1>5. /\ rcopyState' = "START_STATE" => socket' <= retries' + n
      /\ rcopyState' = "FILENAME" => socket' <= 1 + retries' + n
  BY <1>1, <1>3, <1>4
<1>6. socket' <= AttemptLimit
  BY <1>3
<1>7. QED
  BY <1>5, <1>6 DEF n, AttemptsInv, AttemptLimit

\* A socket is closed with what is in it, and another opened.
LEMMA AttemptsStartState ==
  ASSUME SetupInv, AttemptsInv, StartState
  PROVE  AttemptsInv'
<1>1. /\ socket \in Nat /\ retries \in Nat /\ MaxRetrans \in Nat /\ MaxFaults \in Nat
      /\ faults \in 0..MaxFaults /\ retries <= MaxRetrans
      /\ inbox \in Seq(Answer) /\ Cardinality(Damaged(inbox)) \in Nat
      /\ Spent \in Nat
      /\ socket <= retries + MaxRetrans * Spent
  BY SetupAssumption, DamagedIsFinite
     DEF SetupInv, SetupTypeOK, RetriesInv, AttemptsInv, StartState
<1>2. /\ inbox' = << >> /\ retries' = retries
      /\ rcopyState' \in {"FILENAME", "NO_SOCKET"}
      /\ socket' = socket \/ socket' = socket + 1
  BY DEF StartState, NextSocket
<1>3. faults' \in 0..MaxFaults /\ faults' >= faults
  BY <1>1 DEF StartState, Sent
<1>4. Spent' = faults' /\ Spent' \in Nat /\ Spent' >= Spent
  BY <1>1, <1>2, <1>3, DamagedEmpty DEF Spent
<1>5. /\ MaxRetrans * Spent <= MaxRetrans * Spent'
      /\ MaxRetrans * Spent' <= MaxRetrans * MaxFaults
      /\ MaxRetrans * Spent \in Nat /\ MaxRetrans * Spent' \in Nat
      /\ MaxRetrans * MaxFaults \in Nat
      /\ MaxRetrans * (MaxFaults + 1) = MaxRetrans * MaxFaults + MaxRetrans
  <2>1. Spent' <= MaxFaults /\ MaxFaults <= MaxFaults
    BY <1>1, <1>3, <1>4
  <2>2. /\ MaxRetrans * Spent <= MaxRetrans * Spent'
        /\ MaxRetrans * Spent \in Nat /\ MaxRetrans * Spent' \in Nat
    BY <1>1, <1>4, Times
  <2>3. MaxRetrans * Spent' <= MaxRetrans * MaxFaults
    BY <1>1, <1>4, <2>1, Times
  <2>4. /\ MaxRetrans * MaxFaults \in Nat
        /\ MaxRetrans * (MaxFaults + 1) = MaxRetrans * MaxFaults + MaxRetrans
    BY <1>1, <2>1, Times
  <2>5. QED
    BY <2>2, <2>3, <2>4
<1> DEFINE m == MaxRetrans * Spent
           n == MaxRetrans * Spent'
           l == MaxRetrans * MaxFaults
           k == MaxRetrans * (MaxFaults + 1)
<1>6. /\ socket <= retries + m /\ m <= n /\ n <= l /\ k = l + MaxRetrans
      /\ m \in Nat /\ n \in Nat /\ l \in Nat
  BY <1>1, <1>5
<1> HIDE DEF m, n, l, k
<1>7. socket' <= 1 + retries' + n /\ socket' <= 1 + k
  BY <1>1, <1>2, <1>6
<1>8. QED
  BY <1>2, <1>4, <1>7 DEF n, k, AttemptsInv, AttemptLimit

LEMMA AttemptsAnswerTimer ==
  ASSUME SetupInv, AttemptsInv, AnswerTimer
  PROVE  AttemptsInv'
<1>1. /\ socket \in Nat /\ retries \in Nat
      /\ Spent \in Nat /\ Spent' = Spent
      /\ socket' = socket /\ socket <= AttemptLimit
      /\ rcopyState' = "START_STATE" /\ retries' = retries + 1
      /\ socket <= 1 + retries + MaxRetrans * Spent
  BY SetupAssumption DEF SetupInv, SetupTypeOK, AttemptsInv, AnswerTimer, Spent
<1>2. MaxRetrans * Spent \in Nat
  BY <1>1, Times
<1> DEFINE m == MaxRetrans * Spent
<1>3. m \in Nat /\ socket <= 1 + retries + m
  BY <1>1, <1>2
<1> HIDE DEF m
<1>4. socket' <= retries' + m
  BY <1>1, <1>3
<1>5. socket' <= retries' + MaxRetrans * Spent'
  BY <1>1, <1>4 DEF m
<1>6. QED
  BY <1>1, <1>5 DEF AttemptsInv, AttemptLimit

\* A damaged answer is taken: its fault pays for what it adds.
LEMMA AttemptsAnswered ==
  ASSUME SetupInv, AttemptsInv, Answered
  PROVE  AttemptsInv'
<1> DEFINE p == Head(inbox)
<1>1. /\ socket \in Nat /\ retries \in Nat /\ MaxRetrans \in Nat
      /\ inbox \in Seq(Answer) /\ Cardinality(Damaged(inbox)) \in Nat
      /\ faults \in Nat /\ Spent \in Nat
      /\ rcopyState = "FILENAME"
      /\ socket <= AttemptLimit
      /\ socket <= 1 + retries + MaxRetrans * Spent
  BY SetupAssumption, DamagedIsFinite DEF SetupInv, SetupTypeOK, AttemptsInv, Answered
<1>2. /\ inbox # << >> /\ retries < MaxRetrans
      /\ retries' = IF p.ok THEN 0 ELSE 1
      /\ socket' = socket /\ faults' = faults
      /\ inbox' \in {<< >>, Tail(inbox)}
      /\ rcopyState' \in {"NO_FILE", "FILE_OK", "FILENAME"}
      /\ rcopyState' = "FILENAME" => ~p.ok /\ inbox' = Tail(inbox)
  BY DEF Answered, Verdict
<1>3. /\ Tail(inbox) \in Seq(Answer)
      /\ Cardinality(Damaged(Tail(inbox))) \in Nat
      /\ Cardinality(Damaged(Tail(inbox))) =
           Cardinality(Damaged(inbox)) - (IF p.ok THEN 0 ELSE 1)
  BY <1>1, <1>2, TailOf, DamagedTail, DamagedIsFinite
<1> HIDE DEF p
<1>4. Spent' \in Nat
  <2>1. CASE inbox' = << >>
    BY <1>1, <1>2, <2>1, DamagedEmpty DEF Spent
  <2>2. CASE inbox' = Tail(inbox)
    BY SMTT(30), <1>1, <1>2, <1>3, <2>2 DEF Spent
  <2>3. QED
    BY <1>2, <2>1, <2>2
<1>5. CASE rcopyState' # "FILENAME"
  BY <1>1, <1>2, <1>4, <1>5 DEF AttemptsInv, AttemptLimit
<1>6. CASE rcopyState' = "FILENAME"
  <2>1. Spent' = Spent + 1 /\ retries' = 1
    <3>1. ~p.ok /\ inbox' = Tail(inbox) /\ faults' = faults /\ retries' = 1
      BY <1>2, <1>6
    <3>2. Cardinality(Damaged(inbox')) = Cardinality(Damaged(inbox)) - 1
      BY <1>3, <3>1
    <3>3. QED
      BY <1>1, <1>3, <3>1, <3>2 DEF Spent
  <2>2. /\ MaxRetrans * Spent' = MaxRetrans * Spent + MaxRetrans
        /\ MaxRetrans * Spent \in Nat
    BY <1>1, <2>1, Times
  <2> DEFINE m == MaxRetrans * Spent
             n == MaxRetrans * Spent'
  <2>3. n = m + MaxRetrans /\ m \in Nat /\ socket <= 1 + retries + m
    BY <1>1, <2>2
  <2> HIDE DEF m, n
  <2>4. socket' <= 1 + retries' + n
    BY <1>1, <1>2, <2>1, <2>3
  <2>5. QED
    BY <1>1, <1>2, <1>4, <1>6, <2>4 DEF n, AttemptsInv, AttemptLimit
<1>7. QED
  BY <1>5, <1>6

\* What is taken in RECV_DATA, and what ends rcopy, opens no socket.
LEMMA AttemptsOver ==
  ASSUME SetupInv, AttemptsInv, GiveUp \/ FileOk \/ TakePacket \/ RcopyDone
  PROVE  AttemptsInv'
<1>1. /\ inbox \in Seq(Answer) /\ Cardinality(Damaged(inbox)) \in Nat
      /\ faults \in Nat /\ Spent \in Nat
      /\ socket <= AttemptLimit
  BY SetupAssumption, DamagedIsFinite DEF SetupInv, SetupTypeOK, AttemptsInv
<1>2. /\ socket' = socket
      /\ rcopyState' \notin {"START_STATE", "FILENAME"}
      /\ inbox' = inbox \/ inbox' = << >> \/ (inbox # << >> /\ inbox' = Tail(inbox))
  BY DEF GiveUp, FileOk, TakePacket, RcopyDone, RcopyExits
<1>3. faults' \in Nat /\ faults' >= faults
  BY <1>1 DEF GiveUp, FileOk, TakePacket, RcopyDone, Acknowledges, Sent
<1>4. Spent' \in Nat
  <2>1. CASE inbox' = inbox
    BY <1>1, <1>3, <2>1 DEF Spent
  <2>2. CASE inbox' = << >>
    BY <1>1, <1>3, <2>2, DamagedEmpty DEF Spent
  <2>3. CASE inbox # << >> /\ inbox' = Tail(inbox)
    <3>1. /\ Cardinality(Damaged(inbox')) \in Nat
          /\ Cardinality(Damaged(inbox')) <= Cardinality(Damaged(inbox))
      <4>1. Tail(inbox) \in Seq(Answer)
        BY <1>1, <2>3, TailOf
      <4>2. Cardinality(Damaged(Tail(inbox))) \in Nat
        BY <4>1, DamagedIsFinite
      <4>3. Cardinality(Damaged(Tail(inbox))) =
              Cardinality(Damaged(inbox)) - (IF Head(inbox).ok THEN 0 ELSE 1)
        BY <1>1, <2>3, DamagedTail
      <4>4. QED
        BY <1>1, <2>3, <4>2, <4>3
    <3>2. QED
      BY <1>1, <1>3, <3>1 DEF Spent
  <2>4. QED
    BY <1>2, <2>1, <2>2, <2>3
<1>5. QED
  BY <1>1, <1>2, <1>4 DEF AttemptsInv, AttemptLimit

\* The retry counter of rcopy's filename() and the number of damaged packets
\* bound the sockets it opens, so that the bound MaxSockets of StartState is one
\* no rcopy comes to.
THEOREM AttemptsBounded == SetupSpec => []Attempts
<1>1. SetupInit => AttemptsInv
  <2> SUFFICES ASSUME SetupInit PROVE AttemptsInv
    OBVIOUS
  <2>1. /\ rcopyState = "START_STATE" /\ socket = 0 /\ retries = 0 /\ inbox = << >>
        /\ faults = 0
    BY DEF SetupInit
  <2>2. Spent = 0
    BY <2>1, DamagedEmpty DEF Spent
  <2>3. MaxRetrans * (MaxFaults + 1) \in Nat /\ MaxRetrans * 0 = 0
    BY SetupAssumption
  <2>4. QED
    BY <2>1, <2>2, <2>3 DEF AttemptsInv, AttemptLimit
<1>2. ASSUME SetupInv, AttemptsInv, [SetupNext]_vars
      PROVE  AttemptsInv'
  <2>1. Spent \in Nat
    BY <1>2 DEF AttemptsInv
  <2>2. CASE StartState
    BY <1>2, <2>2, AttemptsStartState
  <2>3. CASE AnswerTimer
    BY <1>2, <2>3, AttemptsAnswerTimer
  <2>4. CASE Answered
    BY <1>2, <2>4, AttemptsAnswered
  <2>5. CASE GiveUp \/ FileOk \/ TakePacket \/ RcopyDone
    BY <1>2, <2>5, AttemptsOver
  <2>6. CASE ProcessServer \/ ForkFails \/ NetworkRepeats \/ UNCHANGED vars
    <3>1. UNCHANGED <<rcopyState, socket, retries, inbox, faults>>
      BY <2>6 DEF ProcessServer, ForkFails, NetworkRepeats, vars, rcopyVars
    <3>2. Spent' = Spent
      BY <3>1 DEF Spent
    <3>3. QED
      BY <1>2, <2>1, <3>1, <3>2, AttemptsStay
  <2>7. ASSUME NEW c \in DOMAIN children, ChildStep(c) \/ ChildFails(c)
        PROVE  AttemptsInv'
    <3>1. UNCHANGED <<rcopyState, socket, retries>>
      BY <1>2, <2>7, ChildSteps DEF ChildOwes, rcopyVars
    <3>2. \/ \E flag \in AnswerFlags : AnswerFrom(c, flag)
          \/ UNCHANGED <<inbox, faults>>
      BY <2>7 DEF ChildStep, ChildFails, ChildFilename, ChildSends, ChildTimer, ChildHears,
                  ChildGivesUp, AnswerFlags
    <3>3. Spent' \in Nat /\ Spent' >= Spent
      BY <1>2, <2>1, <3>2, AnswerIsPaid
    <3>4. QED
      BY <1>2, <3>1, <3>3, AttemptsStay
  <2>8. QED
    BY <1>2, <2>2, <2>3, <2>4, <2>5, <2>6, <2>7 DEF SetupNext, RcopyStep, Settled
<1>3. AttemptsInv => Attempts
  BY DEF AttemptsInv, Attempts
<1>4. QED
  BY <1>1, <1>2, <1>3, SetupSafe, PTL DEF SetupSpec
=============================================================================

------------------------------ MODULE Checksum ------------------------------
(***************************************************************************)
(* The bytes of a packet, as far as its checksum is concerned: in_cksum of *)
(* libcpe464, createPDU of pdu.c, the retransmissions of server.c, which   *)
(* patch a stored packet, and the byte that errorFlipBits complements.     *)
(*                                                                         *)
(* A packet is a sequence of bytes 0..(ByteBase - 1).  The code has        *)
(* ByteBase = 256 and SeqLen = 4, which the runs reduce: nothing below     *)
(* depends on them but through SmallBytes.                                 *)
(***************************************************************************)
EXTENDS Integers, Sequences

CONSTANTS
  ByteBase,   \* 2^8
  SeqLen      \* seqNumLen

\* A byte has bits, and the checksum field begins at an even offset.
ASSUME SmallBytes ==
  /\ ByteBase \in Nat
  /\ \E half \in 1..ByteBase : ByteBase = 2 * half
  /\ SeqLen \in {2, 4}

Bytes == 0..(ByteBase - 1)

Word == ByteBase * ByteBase

-----------------------------------------------------------------------------
(* in_cksum *)

\* The i-th unsigned short of p, low byte first; an odd last byte is "mopped
\* up" as a word of its own.
WordAt(p, i) ==
  p[2 * i - 1] + (IF 2 * i <= Len(p) THEN ByteBase * p[2 * i] ELSE 0)

\* The 32 bit accumulator, two words wide: the 704 words of the longest packet
\* cannot overflow it.
WordSum(p) ==
  LET words == (Len(p) + 1) \div 2
      sum[i \in 0..words] == IF i = 0 THEN 0 ELSE sum[i - 1] + WordAt(p, i)
  IN  sum[words]

\* Twice, what does not fit into a word is added to the rest.
Folded(s) ==
  LET once == (s \div Word) + (s % Word) IN (once + (once \div Word)) % Word

InCksum(p) == Word - 1 - Folded(WordSum(p))

\* What every receiver asks.
Accepted(p) == InCksum(p) = 0

-----------------------------------------------------------------------------
(* Building packets *)

\* What a byte of a number counts for, the low one first.
Weights == <<1, ByteBase, Word, ByteBase * Word>>

\* htonl()
NetworkOrder(n) ==
  [i \in 1..SeqLen |-> (n \div Weights[SeqLen - i + 1]) % ByteBase]

FlagAt == SeqLen + 3

\* Seeded bug: a word is stored where a byte belongs.
SetChecksumWhole(p, c) == [p EXCEPT ![SeqLen + 1] = c % ByteBase, ![SeqLen + 2] = c]

SetChecksum(p, c) ==
  [p EXCEPT ![SeqLen + 1] = c % ByteBase, ![SeqLen + 2] = c \div ByteBase]

\* Seeded bug: the old checksum is summed up with the rest.
SealDirty(p) == SetChecksum(p, InCksum(p))

\* The checksum is computed over a packet whose checksum field is zero.
Seal(p) == SetChecksum(p, InCksum(SetChecksum(p, 0)))

CreatePDU(seq, flag, payload) ==
  Seal(NetworkOrder(seq) \o <<0, 0, flag>> \o payload)

\* timeout_on_ack() and send_srej(): the flag of a stored packet is replaced.
Reflagged(p, flag) == Seal([p EXCEPT ![FlagAt] = flag])

SeqOf(p) == SubSeq(p, 1, SeqLen)

PayloadOf(p) == SubSeq(p, FlagAt + 1, Len(p))

\* ^= 0xFF
Complement(b) == ByteBase - 1 - b

FlipByte(p, i) == [p EXCEPT ![i] = Complement(@)]
=============================================================================

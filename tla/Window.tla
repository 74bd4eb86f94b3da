------------------------------- MODULE Window -------------------------------
(***************************************************************************)
(* The circular packet buffer of window.c, used by the server for packets  *)
(* that may have to be sent again and by rcopy for packets that arrived    *)
(* ahead of their turn.  Slot seq % size holds the bytes of a packet and a *)
(* valid flag; the struct's own seq_num field is written and never read,   *)
(* so the sequence number of a slot is the one in the packet bytes.        *)
(*                                                                         *)
(* Here and in the other modules a definition headed "Seeded bug" is the   *)
(* next definition with a mistake in it; nothing uses it.  It shows that a *)
(* property would notice the mistake.                                      *)
(***************************************************************************)
EXTENDS Pdu

CONSTANT WindowSize  \* the window-size argument of rcopy

ASSUME WindowAssumption ==
  /\ WindowSize \in Nat \ {0}
  /\ WindowSize + NBlocks < 2147483647

\* One struct buffer.  len: how many bytes of packet[] the last window_add
\* copied, the bytes behind belong to an older packet or to calloc.  sum: the
\* length over which the checksum in the stored header was computed.
Slot == [valid : BOOLEAN, flag : DataFlags, seq : Nat, block : 0..NBlocks,
         len : PacketLens \cup {0}, sum : PacketLens \cup {0}]

EmptySlot == [valid |-> FALSE, flag |-> "ZERO", seq |-> 0, block |-> 0,
              len |-> 0, sum |-> 0]

\* The calloc'ed struct window before window_create.
NoWindow == [lower |-> 0, current |-> 0, upper |-> 0, size |-> 0, buf |-> << >>]

WindowCreate ==
  [lower |-> 1, current |-> 1, upper |-> 1 + WindowSize, size |-> WindowSize,
   buf |-> [i \in 0..(WindowSize - 1) |-> EmptySlot]]

WindowType == [lower : Nat, current : Nat, upper : Nat, size : {WindowSize},
               buf : [0..(WindowSize - 1) -> Slot]]

SlotOf(w, seq) == w.buf[seq % w.size]

WindowIsValid(w, seq) == SlotOf(w, seq).valid

\* Seeded bug: one packet too many.
WindowFullLate(w) == w.current = w.upper + 1

WindowFull(w) == w.current = w.upper

\* Seeded bug: an RR taken as the last packet received.
WindowSlideAhead(w, rr) == [w EXCEPT !.lower = rr + 1, !.upper = rr + 1 + w.size]

\* Seeded bug: the upper edge stays.
WindowSlideLower(w, rr) == [w EXCEPT !.lower = rr]

WindowSlide(w, rr) == [w EXCEPT !.lower = rr, !.upper = rr + w.size]

WindowCurUpdate(w) == [w EXCEPT !.current = w.current + 1]

WindowAdd(w, seq, p) ==
  [w EXCEPT !.buf[seq % w.size] =
     [valid |-> TRUE, flag |-> p.flag, seq |-> p.seq, block |-> p.block,
      len |-> p.len, sum |-> p.len]]

\* Seeded bug: the slot behind.
WindowRemoveNext(w, seq) == [w EXCEPT !.buf[(seq + 1) % w.size].valid = FALSE]

WindowRemove(w, seq) == [w EXCEPT !.buf[seq % w.size].valid = FALSE]

\* What a reader of len bytes of a slot gets: the block, if that many bytes
\* of it are there.
Content(slot, len) == IF len <= slot.len THEN slot.block ELSE 0

\* send_srej and timeout_on_ack patch the flag and the checksum of the stored
\* packet in place before they send it.
Retag(slot, flag, len) == [slot EXCEPT !.flag = flag, !.sum = len]

WindowRetag(w, seq, flag, len) ==
  [w EXCEPT !.buf[seq % w.size] = Retag(SlotOf(w, seq), flag, len)]
=============================================================================

------------------------------ MODULE RingQueue ------------------------------
(***************************************************************************)
(* The ring buffer idiom of the firmware: two cursors into a fixed array,  *)
(* the slot after `head` is the next one written, the slot after `tail`    *)
(* the next one read, and a write that would make the cursors meet throws  *)
(* away EVERYTHING that is queued (head = tail) together with the new      *)
(* item.  MQTT.c, uart.c and hd44780.c all hold a copy of it; the slots'   *)
(* contents are whatever the user of the ring puts there.                  *)
(*                                                                         *)
(* The C code advances a cursor with `(i + 1) & MASK` on a power-of-two    *)
(* size; Succ is that, for any size.                                       *)
(***************************************************************************)
EXTENDS Naturals, Sequences

CONSTANT RingSize      \* MQTT_TX_RING_BUFFER_SIZE and its like

ASSUME RingSizeAssumption == RingSize \in Nat /\ RingSize > 1

Index == 0 .. RingSize - 1

RingOf(Item) == [slots : [Index -> Item], head : Index, tail : Index]

Succ(i) == IF i + 1 = RingSize THEN 0 ELSE i + 1

EmptyRing(item) == [slots |-> [i \in Index |-> item], head |-> 0, tail |-> 0]

IsEmptyRing(r) == r.head = r.tail

\* The write that overflows drops the whole backlog and the new item.
Put(r, item) ==
  IF Succ(r.head) = r.tail
  THEN [r EXCEPT !.head = r.tail]
  ELSE [r EXCEPT !.head = Succ(@), !.slots[Succ(r.head)] = item]

FrontAtTail(r) == r.slots[r.tail]         \* mutant: reads the slot before
Front(r) == r.slots[Succ(r.tail)]

Take(r) == [r EXCEPT !.tail = Succ(@)]

Clear(r) == [r EXCEPT !.head = r.tail]

-----------------------------------------------------------------------------
(* The queue a ring stands for: the slots after tail up to head. *)

Count(r) ==
  IF r.head < r.tail THEN (r.head + RingSize) - r.tail ELSE r.head - r.tail

Nth(r, k) ==
  IF r.tail + k < RingSize THEN r.tail + k ELSE (r.tail + k) - RingSize

Contents(r) == [k \in 1 .. Count(r) |-> r.slots[Nth(r, k)]]

=============================================================================

------------------------------ MODULE EventRing ------------------------------
(***************************************************************************)
(* The ring buffer that a can_controller_t keeps for received events       *)
(* (rx_fifo) and, field for field the same, for transmit events            *)
(* (tx_event_fifo).  The interrupt handler appends at the tail, the main   *)
(* loop pops at the head, and `free' is the one field both of them write.  *)
(*                                                                         *)
(* When one slot is left the driver does not store the event: it turns the *)
(* last slot into an overflow record, sets free to 0 and remembers the     *)
(* slot in `dropped', so that later events only count into it.             *)
(***************************************************************************)
EXTENDS Integers, Sequences

CONSTANT Size       \* CAN_RX_FIFO_SIZE, CAN_TX_EVENT_FIFO_SIZE

\* canapi.h requires less than 256 so that an index fits a uint8_t.
ASSUME SizeAssumption == Size \in 1..255

Slots == 0..Size-1

(* An operator whose name has a suffix is a faulty variant of the one that   *)
(* follows it, kept to show that the properties tell the two apart.          *)

Wrap_OffByOne(i) == IF i > Size THEN 0 ELSE i

\* An index that ran off the end of the array starts again at 0.
Wrap(i) == IF i = Size THEN 0 ELSE i

EmptyRing(blank) ==
    [slot |-> [i \in Slots |-> blank], head |-> 0, tail |-> 0, free |-> Size, dropped |-> 0]

Used(r) == Size - r.free

Put(r, e) ==
    [r EXCEPT !.slot[r.tail] = e, !.tail = Wrap(r.tail + 1), !.free = r.free - 1]

PutOverflow_ForgetsDropped(r, e) ==
    [r EXCEPT !.slot[r.tail] = e, !.tail = Wrap(r.tail + 1), !.free = 0]

PutOverflow(r, e) ==
    [r EXCEPT !.slot[r.tail] = e, !.tail = Wrap(r.tail + 1), !.free = 0, !.dropped = r.tail]

AdvanceHead(r) == [r EXCEPT !.head = Wrap(r.head + 1)]

-----------------------------------------------------------------------------
(* Reading a ring as the queue it stands for.                              *)

\* The k-th event counted from the head, for k < Size.
Position(r, k) == IF r.head + k < Size THEN r.head + k ELSE r.head + k - Size
At(r, k) == r.slot[Position(r, k)]

RingType(Event) ==
    [slot : [Slots -> Event], head : Slots, tail : Slots, free : 0..Size, dropped : Slots]

\* The tail is n slots after the head.  For n = 0 and n = Size the indices are the
\* same, so only the free count tells a full ring from an empty one.
IndicesAgree(r, n) == r.tail = IF r.head + n < Size THEN r.head + n ELSE r.head + n - Size
=============================================================================

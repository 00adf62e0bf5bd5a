--------------------------- MODULE EventRingProofs ---------------------------
(***************************************************************************)
(* What the operations on a ring buffer do to the queue it stands for, for *)
(* every size the driver can be built with.  The indices are bytes that    *)
(* wrap by comparison, so everything here is linear arithmetic on them.    *)
(***************************************************************************)
EXTENDS EventRing, TLAPS

\* The first Size positions from the head are slots of the array.
LEMMA PositionIsSlot ==
    ASSUME NEW Event, NEW r \in RingType(Event), NEW k \in 0..Size-1
    PROVE  Position(r, k) \in Slots
BY SizeAssumption DEF Position, Slots, RingType

\* No slot is at two positions.
LEMMA PositionInjective ==
    ASSUME NEW Event, NEW r \in RingType(Event),
           NEW j \in 0..Size-1, NEW k \in 0..Size-1, j # k
    PROVE  Position(r, j) # Position(r, k)
BY SizeAssumption DEF Position, Slots, RingType

\* An event of the queue is an event.
LEMMA AtIsEvent ==
    ASSUME NEW Event, NEW r \in RingType(Event), NEW k \in 0..Size-1
    PROVE  At(r, k) \in Event
BY PositionIsSlot DEF At, RingType

\* While the ring is not full its tail is the first position behind the queue.
LEMMA TailIsNext ==
    ASSUME NEW r, NEW n \in 0..Size-1, IndicesAgree(r, n)
    PROVE  r.tail = Position(r, n)
BY DEF IndicesAgree, Position

\* Appending an event: the indices agree on a queue that is one longer, with the
\* event at its end and all others where they were.
LEMMA PutAppends ==
    ASSUME NEW Event, NEW r \in RingType(Event), NEW e \in Event,
           NEW n \in 0..Size-1, IndicesAgree(r, n), r.free > 0
    PROVE  /\ Put(r, e) \in RingType(Event)
           /\ Put(r, e).free = r.free - 1
           /\ Put(r, e).dropped = r.dropped
           /\ IndicesAgree(Put(r, e), n + 1)
           /\ At(Put(r, e), n) = e
           /\ \A k \in 0..n-1 : At(Put(r, e), k) = At(r, k)
<1> DEFINE p == Put(r, e)
<1>1. r.tail \in Slots /\ Wrap(r.tail + 1) \in Slots /\ r.free - 1 \in 0..Size
    BY SizeAssumption DEF RingType, Slots, Wrap
<1>2. p \in RingType(Event)
    BY <1>1 DEF Put, RingType
<1>3. /\ p.slot = [r.slot EXCEPT ![r.tail] = e] /\ p.head = r.head
      /\ p.tail = Wrap(r.tail + 1) /\ p.free = r.free - 1 /\ p.dropped = r.dropped
    BY DEF Put, RingType
<1>4. IndicesAgree(p, n + 1)
    BY <1>3, SizeAssumption DEF IndicesAgree, Wrap, RingType, Slots
<1>5. \A k \in 0..Size-1 : Position(p, k) = Position(r, k)
    BY <1>3 DEF Position
<1>6. At(p, n) = e
    BY <1>1, <1>3, <1>5, TailIsNext DEF At, RingType
<1>7. ASSUME NEW k \in 0..n-1 PROVE At(p, k) = At(r, k)
    <2>1. k \in 0..Size-1 /\ n \in 0..Size-1 /\ k # n
        BY SizeAssumption
    <2>2. Position(r, k) # r.tail
        BY <2>1, TailIsNext, PositionInjective
    <2>3. QED  BY <1>3, <1>5, <2>1, <2>2, PositionIsSlot DEF At, RingType
<1>8. QED  BY <1>2, <1>3, <1>4, <1>6, <1>7

\* Appending the overflow record does the same, and remembers where the record is.
LEMMA PutOverflowAppends ==
    ASSUME NEW Event, NEW r \in RingType(Event), NEW e \in Event,
           NEW n \in 0..Size-1, IndicesAgree(r, n)
    PROVE  /\ PutOverflow(r, e) \in RingType(Event)
           /\ PutOverflow(r, e).free = 0
           /\ PutOverflow(r, e).dropped = Position(PutOverflow(r, e), n)
           /\ IndicesAgree(PutOverflow(r, e), n + 1)
           /\ At(PutOverflow(r, e), n) = e
           /\ \A k \in 0..n-1 : At(PutOverflow(r, e), k) = At(r, k)
<1> DEFINE p == PutOverflow(r, e)
<1>1. r.tail \in Slots /\ Wrap(r.tail + 1) \in Slots /\ 0 \in 0..Size
    BY SizeAssumption DEF RingType, Slots, Wrap
<1>2. p \in RingType(Event)
    BY <1>1 DEF PutOverflow, RingType
<1>3. /\ p.slot = [r.slot EXCEPT ![r.tail] = e] /\ p.head = r.head
      /\ p.tail = Wrap(r.tail + 1) /\ p.free = 0 /\ p.dropped = r.tail
    BY DEF PutOverflow, RingType
<1>4. IndicesAgree(p, n + 1)
    BY <1>3, SizeAssumption DEF IndicesAgree, Wrap, RingType, Slots
<1>5. \A k \in 0..Size-1 : Position(p, k) = Position(r, k)
    BY <1>3 DEF Position
<1>6. At(p, n) = e /\ p.dropped = Position(p, n)
    BY <1>1, <1>3, <1>5, TailIsNext DEF At, RingType
<1>7. ASSUME NEW k \in 0..n-1 PROVE At(p, k) = At(r, k)
    <2>1. k \in 0..Size-1 /\ n \in 0..Size-1 /\ k # n
        BY SizeAssumption
    <2>2. Position(r, k) # r.tail
        BY <2>1, TailIsNext, PositionInjective
    <2>3. QED  BY <1>3, <1>5, <2>1, <2>2, PositionIsSlot DEF At, RingType
<1>8. QED  BY <1>2, <1>3, <1>4, <1>6, <1>7

\* Popping the oldest event leaves the queue without its first element.
LEMMA AdvanceHeadPops ==
    ASSUME NEW Event, NEW r \in RingType(Event),
           NEW n \in 1..Size, IndicesAgree(r, n)
    PROVE  /\ AdvanceHead(r) \in RingType(Event)
           /\ AdvanceHead(r).free = r.free
           /\ AdvanceHead(r).dropped = r.dropped
           /\ AdvanceHead(r).slot = r.slot
           /\ IndicesAgree(AdvanceHead(r), n - 1)
           /\ \A k \in 0..n-2 : /\ Position(AdvanceHead(r), k) = Position(r, k + 1)
                                /\ At(AdvanceHead(r), k) = At(r, k + 1)
<1> DEFINE p == AdvanceHead(r)
<1>1. Wrap(r.head + 1) \in Slots
    BY SizeAssumption DEF RingType, Slots, Wrap
<1>2. p \in RingType(Event)
    BY <1>1 DEF AdvanceHead, RingType
<1>3. /\ p.slot = r.slot /\ p.head = Wrap(r.head + 1)
      /\ p.tail = r.tail /\ p.free = r.free /\ p.dropped = r.dropped
    BY DEF AdvanceHead, RingType
<1>4. IndicesAgree(p, n - 1)
    BY <1>3, SizeAssumption DEF IndicesAgree, Wrap, RingType, Slots
<1>5. \A k \in 0..n-2 : Position(p, k) = Position(r, k + 1)
    BY <1>3, SizeAssumption DEF Position, Wrap, RingType, Slots
<1>6. \A k \in 0..n-2 : At(p, k) = At(r, k + 1)
    BY <1>3, <1>5 DEF At
<1>7. QED  BY <1>2, <1>3, <1>4, <1>5, <1>6
=============================================================================

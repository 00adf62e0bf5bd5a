--------------------------- MODULE TxEventsProofs ---------------------------
(***************************************************************************)
(* Proofs about the transmit events, for every size of the ring and every  *)
(* number of frames up to what the overflow counter can count: the ring    *)
(* and its drain stay in step under preemption, and no transmit event      *)
(* vanishes without a trace.                                               *)
(***************************************************************************)
EXTENDS TxEvents, EventRingProofs

Event == [kind : {"blank", "transmitted", "overflow"}, stamp : Nat, count : 0..MaxCount]
MainType ==
    [pc : {"idle", "pending", "pop", "store", "copy", "unmask"}, left : 0..Size, free : 0..Size]

TypesKept ==
    /\ ring \in RingType(Event)
    /\ tef \in Nat /\ raised \in 0..MaxEvents /\ recorded \in Nat
    /\ irqOn \in BOOLEAN /\ isr \in {"idle", "loop"}
    /\ main \in MainType

\* While the main loop is inside get_can_tx_events the pin is masked and the handler,
\* which had the core before, has returned.
DrainIsAlone == main.pc # "idle" => ~irqOn /\ isr = "idle"

\* What the main loop knows while it drains: there is an event left to pop, and the
\* free count it has loaded is still the ring's.
DrainProgress ==
    /\ main.pc \in {"pop", "store", "copy"} => main.left > 0
    /\ main.pc = "store" => main.free = ring.free
    /\ main.pc = "copy" => ring.free > 0

\* Inductive: without DrainIsAlone the handler could move free between its load and
\* its store, without DrainProgress a pop could move it past Size.
DrainInv == TypesKept /\ DrainIsAlone /\ DrainProgress /\ DrainSafe

\* What is recorded was transmitted, so a record counts less than was transmitted.
RecordedWasRaised == RecordTxEvents => recorded + tef <= raised

-----------------------------------------------------------------------------
(* A ring of n events, upto of them recorded.                              *)

Follows(r, n, upto, k) == IF k < n THEN At(r, k).stamp ELSE upto

Traced(r, n, upto) ==
    \A k \in 0..n-1 : At(r, k).stamp + Weight(At(r, k)) = Follows(r, n, upto, k + 1)

Marked(r, n) ==
    r.free = 0 => r.dropped = Position(r, n - 1) /\ r.slot[r.dropped].kind = "overflow"

\* An event that accounts for one, the next, extends the account by one.
LEMMA AppendTraced ==
    ASSUME NEW r \in RingType(Event), NEW q \in RingType(Event), NEW n \in 0..Size-1,
           NEW upto \in Nat, Traced(r, n, upto),
           At(q, n).stamp = upto, Weight(At(q, n)) = 1,
           \A k \in 0..n-1 : At(q, k) = At(r, k)
    PROVE  /\ Traced(q, n + 1, upto + 1)
           /\ Follows(q, n + 1, upto + 1, 0) = Follows(r, n, upto, 0)
<1>1. ASSUME NEW k \in 0..n-1
      PROVE  Follows(q, n + 1, upto + 1, k + 1) = Follows(r, n, upto, k + 1)
    <2>1. CASE k + 1 < n
        BY <2>1 DEF Follows
    <2>2. CASE k + 1 = n
        BY <2>2 DEF Follows
    <2>3. QED  BY <2>1, <2>2
<1>2. Follows(q, n + 1, upto + 1, n + 1) = upto + 1
    BY DEF Follows
<1>3. ASSUME NEW k \in 0..n
      PROVE  At(q, k).stamp + Weight(At(q, k)) = Follows(q, n + 1, upto + 1, k + 1)
    <2>1. CASE k < n
        BY <1>1, <2>1 DEF Traced
    <2>2. CASE k = n
        BY <1>2, <2>2
    <2>3. QED  BY <2>1, <2>2
<1>4. Traced(q, n + 1, upto + 1)
    BY <1>3 DEF Traced
<1>5. Follows(q, n + 1, upto + 1, 0) = Follows(r, n, upto, 0)
    BY DEF Follows
<1>6. QED  BY <1>4, <1>5

-----------------------------------------------------------------------------
(* What the handler does to the ring.                                      *)

LEMMA SingleIsEvent == ASSUME NEW stamp \in Nat PROVE Single(stamp) \in Event
BY TxEventsAssumption DEF Single, Event

LEMMA OverflowIsEvent == ASSUME NEW stamp \in Nat PROVE Overflow(stamp) \in Event
BY TxEventsAssumption DEF Overflow, Event

\* Counting into the record at the back leaves all else as it is.
LEMMA CountInRing ==
    ASSUME NEW r \in RingType(Event), r.free = 0, Marked(r, Size), NEW stamp \in Nat
    PROVE  LET q == Record(r, stamp)
           IN /\ q \in RingType(Event) /\ q.free = 0 /\ Marked(q, Size)
              /\ q.head = r.head /\ q.tail = r.tail
              /\ At(q, Size - 1) = [At(r, Size - 1) EXCEPT !.count = (@ + 1) % (MaxCount + 1)]
              /\ \A k \in 0..Size-2 : At(q, k) = At(r, k)
<1> DEFINE q == Record(r, stamp)
           d == [r.slot[r.dropped] EXCEPT !.count = (@ + 1) % (MaxCount + 1)]
<1>1. /\ r.dropped = Position(r, Size - 1) /\ r.slot[r.dropped].kind = "overflow"
      /\ r.dropped \in Slots /\ r.slot[r.dropped] \in Event /\ r.slot \in [Slots -> Event]
    BY DEF Marked, RingType
<1>2. q = [r EXCEPT !.slot = [r.slot EXCEPT ![r.dropped] = d]]
    BY DEF Record
<1>3. d \in Event /\ d.kind = "overflow"
    <2>1. /\ r.slot[r.dropped].count \in 0..MaxCount
          /\ r.slot[r.dropped] \in [kind : {"blank", "transmitted", "overflow"}, stamp : Nat, count : 0..MaxCount]
        BY <1>1 DEF Event
    <2>2. (r.slot[r.dropped].count + 1) % (MaxCount + 1) \in 0..MaxCount
        BY <2>1, TxEventsAssumption
    <2>3. QED  BY <1>1, <2>1, <2>2 DEF Event
<1>4. /\ q \in RingType(Event) /\ q.slot = [r.slot EXCEPT ![r.dropped] = d] /\ q.free = 0
      /\ q.head = r.head /\ q.tail = r.tail /\ q.dropped = r.dropped
    BY <1>1, <1>2, <1>3 DEF RingType
<1>5. \A k \in 0..Size-1 : Position(q, k) = Position(r, k)
    BY <1>4 DEF Position
<1>6. Size - 1 \in 0..Size-1
    BY SizeAssumption
<1>7. At(q, Size - 1) = d /\ At(r, Size - 1) = r.slot[r.dropped]
    BY <1>1, <1>4, <1>5, <1>6 DEF At
<1>8. ASSUME NEW k \in 0..Size-2 PROVE At(q, k) = At(r, k)
    <2>1. k \in 0..Size-1 /\ k # Size - 1
        BY SizeAssumption
    <2>2. Position(r, k) # r.dropped /\ Position(r, k) \in Slots
        BY <1>1, <1>6, <2>1, PositionInjective, PositionIsSlot
    <2>3. QED  BY <1>1, <1>4, <1>5, <2>1, <2>2 DEF At
<1>9. Marked(q, Size)
    BY <1>1, <1>3, <1>4, <1>5, <1>6 DEF Marked
<1>10. QED  BY <1>4, <1>7, <1>8, <1>9

\* Recording a frame keeps the ring's type, its indices and the record at its back.
LEMMA RecordShape ==
    ASSUME NEW r \in RingType(Event), IndicesAgree(r, Used(r)), Marked(r, Used(r)),
           NEW stamp \in Nat
    PROVE  LET q == Record(r, stamp)
           IN q \in RingType(Event) /\ IndicesAgree(q, Used(q)) /\ Marked(q, Used(q))
<1> DEFINE q == Record(r, stamp)
<1>1. r.free \in 0..Size
    BY DEF RingType
<1>2. CASE r.free > 1
    <2>1. q = Put(r, Single(stamp)) /\ Single(stamp) \in Event
        BY <1>2, SingleIsEvent DEF Record
    <2>2. Used(r) \in 0..Size-1 /\ r.free > 0
        BY <1>1, <1>2, SizeAssumption DEF Used
    <2>3. q \in RingType(Event) /\ q.free = r.free - 1 /\ IndicesAgree(q, Used(r) + 1)
        BY <2>1, <2>2, PutAppends
    <2>4. Used(q) = Used(r) + 1 /\ q.free # 0
        BY <1>1, <1>2, <2>3, SizeAssumption DEF Used
    <2>5. QED  BY <2>3, <2>4 DEF Marked
<1>3. CASE r.free = 1
    <2>1. q = PutOverflow(r, Overflow(stamp)) /\ Overflow(stamp) \in Event
        BY <1>3, OverflowIsEvent DEF Record
    <2>2. Used(r) \in 0..Size-1 /\ Used(r) + 1 = Size
        BY <1>3, SizeAssumption DEF Used
    <2>3. /\ q \in RingType(Event) /\ q.free = 0 /\ IndicesAgree(q, Used(r) + 1)
          /\ q.dropped = Position(q, Used(r)) /\ At(q, Used(r)) = Overflow(stamp)
        BY <2>1, <2>2, PutOverflowAppends
    <2>4. Used(q) = Used(r) + 1 /\ Used(q) - 1 = Used(r)
        BY <2>2, <2>3, SizeAssumption DEF Used
    <2>5. QED  BY <2>3, <2>4 DEF Marked, At, Overflow
<1>4. CASE r.free = 0
    <2>1. Used(r) = Size
        BY <1>4, SizeAssumption DEF Used
    <2>2. /\ q \in RingType(Event) /\ q.free = 0 /\ Marked(q, Size)
          /\ q.head = r.head /\ q.tail = r.tail
        BY <1>4, <2>1, CountInRing
    <2>3. Used(q) = Size
        BY <2>2, SizeAssumption DEF Used
    <2>4. QED  BY <2>1, <2>2, <2>3 DEF IndicesAgree
<1>5. QED  BY <1>1, <1>2, <1>3, <1>4

\* It extends the account by the frame, unless a counter wraps.
LEMMA RecordTraced ==
    ASSUME NEW r \in RingType(Event), IndicesAgree(r, Used(r)), Marked(r, Used(r)),
           NEW upto \in Nat, Traced(r, Used(r), upto), upto <= MaxCount
    PROVE  LET q == Record(r, upto)
           IN /\ Traced(q, Used(q), upto + 1)
              /\ Follows(q, Used(q), upto + 1, 0) = Follows(r, Used(r), upto, 0)
<1> DEFINE q == Record(r, upto)
           n == Used(r)
<1>1. r.free \in 0..Size /\ q \in RingType(Event)
    BY RecordShape DEF RingType
<1>2. CASE r.free > 1
    <2>1. q = Put(r, Single(upto)) /\ Single(upto) \in Event
        BY <1>2, SingleIsEvent DEF Record
    <2>2. n \in 0..Size-1 /\ r.free > 0
        BY <1>1, <1>2, SizeAssumption DEF Used
    <2>3. /\ q.free = r.free - 1 /\ At(q, n) = Single(upto)
          /\ \A k \in 0..n-1 : At(q, k) = At(r, k)
        BY <2>1, <2>2, PutAppends
    <2>4. Used(q) = n + 1
        BY <1>1, <1>2, <2>3, SizeAssumption DEF Used
    <2>5. At(q, n).stamp = upto /\ Weight(At(q, n)) = 1
        BY <2>3 DEF Single, Weight
    <2>6. Traced(q, n + 1, upto + 1) /\ Follows(q, n + 1, upto + 1, 0) = Follows(r, n, upto, 0)
        BY <1>1, <2>2, <2>3, <2>5, AppendTraced
    <2>7. QED  BY <2>4, <2>6
<1>3. CASE r.free = 1
    <2>1. q = PutOverflow(r, Overflow(upto)) /\ Overflow(upto) \in Event
        BY <1>3, OverflowIsEvent DEF Record
    <2>2. n \in 0..Size-1 /\ n + 1 = Size
        BY <1>3, SizeAssumption DEF Used
    <2>3. q.free = 0 /\ At(q, n) = Overflow(upto) /\ \A k \in 0..n-1 : At(q, k) = At(r, k)
        BY <2>1, <2>2, PutOverflowAppends
    <2>4. Used(q) = n + 1
        BY <2>2, <2>3, SizeAssumption DEF Used
    <2>5. At(q, n).stamp = upto /\ Weight(At(q, n)) = 1
        BY <2>3 DEF Overflow, Weight
    <2>6. Traced(q, n + 1, upto + 1) /\ Follows(q, n + 1, upto + 1, 0) = Follows(r, n, upto, 0)
        BY <1>1, <2>2, <2>3, <2>5, AppendTraced
    <2>7. QED  BY <2>4, <2>6
<1>4. CASE r.free = 0
    <2> DEFINE last == At(r, Size - 1)
    <2>1. n = Size /\ Size - 1 \in 0..Size-1 /\ Size \in Nat
        BY <1>4, SizeAssumption DEF Used
    <2>2. /\ q.free = 0 /\ At(q, Size - 1) = [last EXCEPT !.count = (@ + 1) % (MaxCount + 1)]
          /\ \A k \in 0..Size-2 : At(q, k) = At(r, k)
        BY <1>4, <2>1, CountInRing
    <2>3. last \in [kind : {"blank", "transmitted", "overflow"}, stamp : Nat, count : 0..MaxCount]
        BY <2>1, AtIsEvent DEF Event
    <2>4. last.stamp + (1 + last.count) = upto
        BY <2>1 DEF Traced, Weight, Follows
    <2>5. (last.count + 1) % (MaxCount + 1) = last.count + 1
        <3>1. last.count \in Nat /\ last.stamp \in Nat /\ last.count + 1 <= MaxCount
            BY <2>3, <2>4, TxEventsAssumption
        <3>2. QED  BY <3>1, TxEventsAssumption
    <2>6. At(q, Size - 1).stamp = last.stamp /\ At(q, Size - 1).count = last.count + 1
        BY <2>2, <2>3, <2>5
    <2>7. Used(q) = Size
        BY <2>1, <2>2 DEF Used
    <2>8. \A k \in 0..Size-1 : At(q, k).stamp = At(r, k).stamp
        <3>1. \A k \in 0..Size-1 : k = Size - 1 \/ k \in 0..Size-2
            BY <2>1
        <3>2. QED  BY <2>2, <2>6, <3>1
    <2>9. ASSUME NEW k \in 0..Size-1
          PROVE  At(q, k).stamp + Weight(At(q, k)) = Follows(q, Size, upto + 1, k + 1)
        <3>1. CASE k = Size - 1
            <4>1. ~(k + 1 < Size)
                BY <2>1, <3>1
            <4>2. At(q, k).stamp + (1 + At(q, k).count) = upto + 1
                BY <2>3, <2>4, <2>6, <3>1
            <4>3. QED  BY <4>1, <4>2 DEF Weight, Follows
        <3>2. CASE k \in 0..Size-2
            <4>1. k + 1 < Size /\ k + 1 \in 0..Size-1
                BY <2>1, <3>2
            <4>2. At(r, k).stamp + Weight(At(r, k)) = At(r, k + 1).stamp
                BY <2>1, <4>1 DEF Traced, Follows
            <4>3. QED  BY <2>2, <2>8, <3>2, <4>1, <4>2 DEF Follows
        <3>3. QED  BY <2>1, <3>1, <3>2
    <2>10. Follows(q, Size, upto + 1, 0) = Follows(r, Size, upto, 0)
        BY <2>1, <2>8 DEF Follows
    <2>11. QED  BY <2>1, <2>7, <2>9, <2>10 DEF Traced
<1>5. QED  BY <1>1, <1>2, <1>3, <1>4

-----------------------------------------------------------------------------
(* The drain under preemption.                                             *)

LEMMA InitDrainInv == Init => DrainInv
<1> SUFFICES ASSUME Init PROVE DrainInv
    OBVIOUS
<1>1. [kind |-> "blank", stamp |-> 0, count |-> 0] \in Event
    BY TxEventsAssumption DEF Event
<1>2. /\ ring \in RingType(Event) /\ Used(ring) = 0 /\ ring.head = 0 /\ ring.tail = 0
      /\ ring.free # 0 /\ Present = 0
    BY <1>1, SizeAssumption DEF Init, EmptyRing, RingType, Slots, Used, Present
<1>3. TypesKept
    <2>1. raised \in 0..MaxEvents /\ main.left \in 0..Size /\ main.free \in 0..Size
        BY SizeAssumption, TxEventsAssumption DEF Init
    <2>2. QED  BY <1>2, <2>1 DEF Init, TypesKept, MainType
<1>4. DrainIsAlone /\ DrainProgress
    BY DEF Init, DrainIsAlone, DrainProgress
<1>5. DrainSafe
    BY <1>2, SizeAssumption DEF Init, DrainSafe, IndicesAgree
<1>6. QED  BY <1>3, <1>4, <1>5 DEF DrainInv

\* Preserved by every step: the handler only runs while the main loop is idle, and
\* each step of the drain moves free, head and what is left by one together.
LEMMA NextDrainInv == DrainInv /\ [Next]_vars => DrainInv'
<1> SUFFICES ASSUME DrainInv, [Next]_vars PROVE DrainInv'
    OBVIOUS
<1> USE DEF DrainInv
<1>r. /\ ring \in RingType(Event) /\ Used(ring) \in 0..Size /\ ring.free = Size - Used(ring)
      /\ ring.free \in 0..Size /\ main \in MainType /\ Size \in Nat
    BY SizeAssumption DEF TypesKept, RingType, Used
<1>p. Present \in 0..Size
    BY <1>r, SizeAssumption DEF Present, DrainProgress
<1>1. CASE ChipTransmit
    <2>1. TypesKept'
        BY <1>1, TxEventsAssumption DEF ChipTransmit, TypesKept
    <2>2. Present' = Present
        BY <1>1 DEF ChipTransmit, Present
    <2>3. QED  BY <1>1, <2>1, <2>2 DEF ChipTransmit, DrainIsAlone, DrainProgress, DrainSafe
<1>2. CASE Isr
    <2>1. main.pc = "idle" /\ UNCHANGED <<main, irqOn>>
        BY <1>2 DEF Isr, IsrEnter, IsrTx, IsrReturn, DrainIsAlone
    <2>2. Present = Used(ring)
        BY <1>r, <2>1 DEF Present
    <2>3. CASE IsrEnter \/ IsrReturn
        <3>1. TypesKept' /\ Present' = Present
            BY <2>3 DEF IsrEnter, IsrReturn, TypesKept, Present
        <3>2. QED
            BY <2>1, <2>3, <3>1 DEF IsrEnter, IsrReturn, DrainIsAlone, DrainProgress, DrainSafe
    <2>4. CASE IsrTx
        <3>1. IndicesAgree(ring, Used(ring)) /\ Marked(ring, Used(ring))
            BY <2>2 DEF DrainSafe, Marked
        <3>2. /\ ring' \in RingType(Event) /\ IndicesAgree(ring', Used(ring'))
              /\ Marked(ring', Used(ring')) /\ recorded' \in Nat
            <4>1. CASE RecordTxEvents
                <5>1. ring' = Record(ring, recorded) /\ recorded' = recorded + 1
                    BY <2>4, <4>1 DEF IsrTx
                <5>2. recorded \in Nat
                    BY DEF TypesKept
                <5>3. QED  BY <1>r, <3>1, <5>1, <5>2, RecordShape
            <4>2. CASE ~RecordTxEvents
                BY <1>r, <2>4, <3>1, <4>2 DEF IsrTx, TypesKept
            <4>3. QED  BY <4>1, <4>2
        <3>3. TypesKept'
            <4>1. tef' \in Nat
                BY <2>4 DEF IsrTx, TypesKept
            <4>2. QED  BY <2>4, <3>2, <4>1 DEF IsrTx, TypesKept
        <3>4. Present' = Used(ring')
            <4>1. Used(ring') \in Int
                BY <3>2, SizeAssumption DEF RingType, Used
            <4>2. QED  BY <2>1, <4>1 DEF Present, Used
        <3>5. QED
            BY <2>1, <3>2, <3>3, <3>4 DEF DrainIsAlone, DrainProgress, DrainSafe, Marked
    <2>5. QED  BY <1>2, <2>3, <2>4 DEF Isr
<1>3. CASE Main
    <2>1. isr = "idle" /\ UNCHANGED <<tef, raised, isr, recorded>>
        BY <1>3 DEF Main, GetTxEvents, ReadPending, AllocationFails, PopLoad, PopStore, PopCopy,
                    Unmask, MainAt
    <2>2. CASE GetTxEvents
        <3>1. main.pc = "idle" /\ irqOn' = FALSE /\ main' = [main EXCEPT !.pc = "pending"] /\ ring' = ring
            BY <2>2 DEF GetTxEvents, MainAt
        <3>2. main' \in MainType /\ main'.pc = "pending"
            BY <1>r, <3>1 DEF MainType
        <3>3. Present' = Present
            BY <3>1, <3>2 DEF Present
        <3>4. QED
            BY <2>1, <3>1, <3>2, <3>3 DEF TypesKept, DrainIsAlone, DrainProgress, DrainSafe
    <2>3. CASE ReadPending
        <3>1. /\ UNCHANGED <<ring, irqOn>> /\ main.pc = "pending"
              /\ main' = [main EXCEPT !.pc = IF Used(ring) = 0 THEN "unmask" ELSE "pop", !.left = Used(ring)]
            BY <2>3 DEF ReadPending, MainAt
        <3>2. /\ main' \in MainType /\ main'.pc \in {"pop", "unmask"}
              /\ main'.left = Used(ring) /\ (main'.pc = "pop" => Used(ring) # 0)
            BY <1>r, <3>1 DEF MainType
        <3>3. Present' = Present /\ Present' = Used(ring)
            BY <1>r, <3>1, <3>2 DEF Present, Used
        <3>4. QED
            BY <1>r, <2>1, <3>1, <3>2, <3>3 DEF TypesKept, DrainIsAlone, DrainProgress, DrainSafe
    <2>4. CASE AllocationFails
        <3>1. /\ main.pc = "pending" /\ main' = [main EXCEPT !.pc = "unmask"]
              /\ UNCHANGED <<ring, irqOn>>
            BY <2>4 DEF AllocationFails, MainAt
        <3>2. main' \in MainType /\ main'.pc = "unmask"
            BY <1>r, <3>1 DEF MainType
        <3>3. Present' = Present
            BY <3>1, <3>2 DEF Present
        <3>4. QED
            BY <2>1, <3>1, <3>2, <3>3 DEF TypesKept, DrainIsAlone, DrainProgress, DrainSafe
    <2>5. CASE PopLoad
        <3>1. UNCHANGED <<ring, irqOn>> /\ main.pc = "pop"
            BY <2>5 DEF PopLoad, MainAt
        <3>2. Used(ring) = Present /\ Used(ring) > 0 /\ ring.free < Size
            BY <1>r, <3>1 DEF Present, DrainSafe, DrainProgress
        <3>3. main' = [main EXCEPT !.pc = "store", !.free = ring.free]
            BY <2>5, <3>2 DEF PopLoad
        <3>4. /\ main' \in MainType /\ main'.pc = "store" /\ main'.free = ring.free
              /\ main'.left = main.left
            BY <1>r, <3>3 DEF MainType
        <3>5. Present' = Present
            BY <3>1, <3>4 DEF Present
        <3>6. QED
            BY <2>1, <3>1, <3>4, <3>5 DEF TypesKept, DrainIsAlone, DrainProgress, DrainSafe
    <2>6. CASE PopStore
        <3>1. /\ irqOn' = irqOn /\ main.pc = "store"
              /\ main' = [main EXCEPT !.pc = "copy", !.free = 0]
              /\ ring' = [ring EXCEPT !.free = main.free + 1]
            BY <2>6 DEF PopStore, MainAt
        <3>2. Present = Used(ring) /\ Used(ring) > 0 /\ main.free = ring.free
            BY <1>r, <3>1 DEF Present, DrainSafe, DrainProgress
        <3>3. /\ ring' \in RingType(Event) /\ ring'.free = ring.free + 1
              /\ ring'.head = ring.head /\ ring'.tail = ring.tail
            BY <1>r, <3>1, <3>2 DEF RingType
        <3>4. main' \in MainType /\ main'.pc = "copy" /\ main'.left = main.left
            <4>1. main' = [pc |-> "copy", left |-> main.left, free |-> 0]
                BY <1>r, <3>1 DEF MainType
            <4>2. main.left \in 0..Size /\ 0 \in 0..Size
                BY <1>r DEF MainType
            <4>3. QED  BY <4>1, <4>2 DEF MainType
        <3>5. Present' = Present
            BY <1>r, <3>2, <3>3, <3>4 DEF Present, Used
        <3>6. TypesKept' /\ DrainIsAlone' /\ DrainProgress'
            BY <1>r, <2>1, <3>1, <3>3, <3>4 DEF TypesKept, DrainIsAlone, DrainProgress
        <3>7. ring'.free # 0
            BY <1>r, <3>3
        <3>8. DrainSafe'
            BY <3>1, <3>3, <3>4, <3>5, <3>7 DEF DrainSafe, IndicesAgree
        <3>9. QED  BY <3>6, <3>8
    <2>7. CASE PopCopy
        <3>1. /\ irqOn' = irqOn /\ main.pc = "copy" /\ ring' = AdvanceHead(ring)
              /\ main' = [main EXCEPT !.pc = AfterPop(main.left), !.left = @ - 1]
            BY <2>7 DEF PopCopy, MainAt
        <3>2. Present = Used(ring) + 1 /\ Present \in 1..Size /\ main.left = Present /\ ring.free # 0
            BY <1>r, <1>p, <3>1 DEF Present, DrainSafe, DrainProgress
        <3>3. /\ ring' \in RingType(Event) /\ ring'.free = ring.free
              /\ IndicesAgree(ring', Present - 1)
            BY <1>r, <3>1, <3>2, AdvanceHeadPops DEF DrainSafe
        <3>4. /\ main' \in MainType /\ main'.pc \in {"pop", "unmask"}
              /\ main'.left = main.left - 1 /\ (main'.pc = "pop" => main.left # 1)
            <4>1. AfterPop(main.left) \in {"pop", "unmask"} /\ (AfterPop(main.left) = "pop" => main.left # 1)
                BY DEF AfterPop
            <4>2. main.left - 1 \in 0..Size
                BY <1>r, <3>2
            <4>3. QED  BY <1>r, <3>1, <4>1, <4>2 DEF MainType
        <3>5. Present' = Present - 1
            BY <1>r, <3>2, <3>3, <3>4 DEF Present, Used
        <3>6. TypesKept' /\ DrainIsAlone'
            BY <2>1, <3>1, <3>3, <3>4 DEF TypesKept, DrainIsAlone
        <3>7. DrainProgress'
            BY <1>r, <3>2, <3>4 DEF DrainProgress
        <3>8. DrainSafe'
            BY <3>2, <3>3, <3>4, <3>5 DEF DrainSafe
        <3>9. QED  BY <3>6, <3>7, <3>8
    <2>8. CASE Unmask
        <3>1. /\ ring' = ring /\ irqOn' = TRUE /\ main.pc = "unmask"
              /\ main' = [main EXCEPT !.pc = "idle", !.left = 0]
            BY <2>8 DEF Unmask, MainAt
        <3>2. main' \in MainType /\ main'.pc = "idle"
            <4>1. main' = [pc |-> "idle", left |-> 0, free |-> main.free]
                BY <1>r, <3>1 DEF MainType
            <4>2. main.free \in 0..Size /\ 0 \in 0..Size
                BY <1>r DEF MainType
            <4>3. QED  BY <4>1, <4>2 DEF MainType
        <3>3. Present' = Present
            BY <3>1, <3>2 DEF Present
        <3>4. QED
            BY <2>1, <3>1, <3>2, <3>3 DEF TypesKept, DrainIsAlone, DrainProgress, DrainSafe
    <2>9. QED  BY <1>3, <2>2, <2>3, <2>4, <2>5, <2>6, <2>7, <2>8 DEF Main
<1>4. CASE UNCHANGED vars
    BY <1>4 DEF vars, TypesKept, DrainIsAlone, DrainProgress, DrainSafe, Present
<1>5. QED  BY <1>1, <1>2, <1>3, <1>4 DEF Next

LEMMA DrainInvHolds == Spec => []DrainInv
BY InitDrainInv, NextDrainInv, PTL DEF Spec

\* tx_event_fifo's head, tail, free count and overflow record stay in step, and
\* get_can_tx_events fills the answer it sized exactly, whatever completes meanwhile.
THEOREM DrainIsAlwaysSafe == Spec => []DrainSafe
<1>1. DrainInv => DrainSafe
    BY DEF DrainInv
<1>2. QED  BY <1>1, DrainInvHolds, PTL

-----------------------------------------------------------------------------
(* The account of what was transmitted.                                    *)

LEMMA InitRaised == Init => RecordedWasRaised
BY DEF Init, RecordedWasRaised

LEMMA NextRaised == DrainInv /\ RecordedWasRaised /\ [Next]_vars => RecordedWasRaised'
<1> SUFFICES ASSUME DrainInv, RecordedWasRaised, [Next]_vars, RecordTxEvents
             PROVE  recorded' + tef' <= raised'
    BY DEF RecordedWasRaised
<1>1. recorded \in Nat /\ tef \in Nat /\ raised \in Nat /\ recorded + tef <= raised
    BY TxEventsAssumption DEF DrainInv, TypesKept, RecordedWasRaised
<1>2. CASE ChipTransmit
    BY <1>1, <1>2 DEF ChipTransmit
<1>3. CASE IsrTx
    BY <1>1, <1>3 DEF IsrTx
<1>4. CASE UNCHANGED <<recorded, tef, raised>>
    BY <1>1, <1>4
<1>5. IsrEnter \/ IsrReturn \/ Main => UNCHANGED <<recorded, tef, raised>>
    BY DEF IsrEnter, IsrReturn, Main, GetTxEvents, ReadPending, AllocationFails, PopLoad, PopStore,
           PopCopy, Unmask
<1>6. QED  BY <1>2, <1>3, <1>4, <1>5 DEF Next, Isr, vars

\* TracedWithOneMore in the words of the lemmas.
Accounted ==
    /\ Traced(ring, Present, recorded)
    /\ delivered = Follows(ring, Present, recorded, 0)

LEMMA AccountIsTraced == Accounted <=> TracedWithOneMore
BY DEF Accounted, Traced, Follows, TracedWithOneMore, Boundary

LEMMA InitAccount == Init => Accounted
<1> SUFFICES ASSUME Init PROVE Accounted
    OBVIOUS
<1>1. Present = 0
    BY SizeAssumption DEF Init, Present, Used, EmptyRing
<1>2. QED  BY <1>1 DEF Init, Accounted, Traced, Follows

\* The account only changes when the handler records an event or the main loop has
\* copied one; the store of free in between is made up for by Present.
LEMMA NextAccount ==
    ASSUME MaxEvents <= MaxCount + 1,
           DrainInv, DrainInv', RecordedWasRaised, Accounted, [Next]_vars
    PROVE  Accounted'
<1> USE DEF DrainInv
<1>r. /\ ring \in RingType(Event) /\ Used(ring) \in 0..Size /\ ring.free = Size - Used(ring)
      /\ ring' \in RingType(Event) /\ Used(ring') \in 0..Size /\ recorded \in Nat
      /\ main \in MainType /\ Size \in Nat \ {0}
    <2>1. ring \in RingType(Event) /\ ring' \in RingType(Event) /\ recorded \in Nat /\ main \in MainType
        BY DEF TypesKept
    <2>2. ring.free \in 0..Size /\ ring'.free \in 0..Size
        BY <2>1 DEF RingType
    <2>3. QED  BY <2>1, <2>2, SizeAssumption DEF Used
<1>1. CASE UNCHANGED <<ring, recorded, delivered>> /\ Present' = Present
    BY <1>1 DEF Accounted, Traced, Follows, At, Position
<1>2. CASE Isr
    <2>1. main.pc = "idle" /\ UNCHANGED <<main, delivered>>
        BY <1>2 DEF Isr, IsrEnter, IsrTx, IsrReturn, DrainIsAlone
    <2>2. Present = Used(ring) /\ Present' = Used(ring')
        BY <1>r, <2>1 DEF Present
    <2>3. CASE UNCHANGED <<ring, recorded>>
        BY <1>1, <2>1, <2>2, <2>3 DEF Used
    <2>4. CASE IsrTx /\ RecordTxEvents
        <3>1. ring' = Record(ring, recorded) /\ recorded' = recorded + 1 /\ tef > 0
            BY <2>4 DEF IsrTx
        <3>2. recorded <= MaxCount
            <4>1. recorded + tef <= raised
                BY <2>4 DEF RecordedWasRaised
            <4>2. tef \in Nat /\ raised \in 0..MaxEvents /\ MaxCount \in Nat /\ MaxEvents \in Nat
                BY TxEventsAssumption DEF TypesKept
            <4>3. QED  BY <1>r, <3>1, <4>1, <4>2
        <3>3. /\ IndicesAgree(ring, Used(ring)) /\ Marked(ring, Used(ring))
              /\ Traced(ring, Used(ring), recorded)
            BY <2>2 DEF DrainSafe, Marked, Accounted
        <3>4. /\ Traced(ring', Used(ring'), recorded')
              /\ Follows(ring', Used(ring'), recorded', 0) = Follows(ring, Used(ring), recorded, 0)
            BY <1>r, <3>1, <3>2, <3>3, RecordTraced
        <3>5. QED  BY <2>1, <2>2, <3>4 DEF Accounted
    <2>5. QED  BY <1>2, <2>3, <2>4 DEF Isr, IsrEnter, IsrTx, IsrReturn
<1>3. CASE PopStore
    <2>1. /\ main.pc = "store" /\ main' = [main EXCEPT !.pc = "copy", !.free = 0]
          /\ ring' = [ring EXCEPT !.free = main.free + 1] /\ UNCHANGED <<recorded, delivered>>
        BY <1>3 DEF PopStore, MainAt
    <2>2. main.free = ring.free /\ main'.pc = "copy"
        BY <1>r, <2>1 DEF DrainProgress, MainType
    <2>3. ring'.free = ring.free + 1 /\ ring'.head = ring.head /\ ring'.slot = ring.slot
        BY <1>r, <2>1, <2>2 DEF RingType
    <2>4. Present' = Present
        BY <1>r, <2>1, <2>2, <2>3 DEF Present, Used
    <2>5. \A k : At(ring', k) = At(ring, k)
        BY <2>3 DEF At, Position
    <2>6. QED  BY <2>1, <2>4, <2>5 DEF Accounted, Traced, Follows
<1>4. CASE PopCopy
    <2>1. /\ main.pc = "copy" /\ ring' = AdvanceHead(ring) /\ recorded' = recorded
          /\ main' = [main EXCEPT !.pc = AfterPop(main.left), !.left = @ - 1]
          /\ delivered' = At(ring, 0).stamp + Weight(At(ring, 0))
        BY <1>4 DEF PopCopy, MainAt
    <2>2. main'.pc # "copy"
        BY <1>r, <2>1 DEF AfterPop, MainType
    <2>3. Present = Used(ring) + 1 /\ Present \in 1..Size
        BY <1>r, <2>1 DEF Present, DrainProgress
    <2>4. ring'.free = ring.free /\ \A k \in 0..Present-2 : At(ring', k) = At(ring, k + 1)
        BY <1>r, <2>1, <2>3, AdvanceHeadPops DEF DrainSafe
    <2>5. Present' = Present - 1
        BY <1>r, <2>2, <2>3, <2>4 DEF Present, Used
    <2>6. ASSUME NEW k \in 0..Present-1
          PROVE  Follows(ring', Present', recorded', k) = Follows(ring, Present, recorded, k + 1)
        BY <2>1, <2>3, <2>4, <2>5 DEF Follows
    <2>7. Traced(ring', Present', recorded')
        BY <2>3, <2>4, <2>5, <2>6 DEF Traced, Accounted
    <2>8. delivered' = Follows(ring', Present', recorded', 0)
        BY <2>1, <2>3, <2>6 DEF Traced, Accounted
    <2>9. QED  BY <2>7, <2>8 DEF Accounted
<1>5. CASE Main /\ ~PopStore /\ ~PopCopy
    <2>1. UNCHANGED <<ring, recorded, delivered>> /\ main.pc # "copy" /\ main'.pc # "copy"
        BY <1>5, <1>r DEF Main, GetTxEvents, ReadPending, AllocationFails, PopLoad, Unmask, MainAt,
                          AfterPop, MainType
    <2>2. QED  BY <1>1, <2>1 DEF Present, Used
<1>6. CASE UNCHANGED <<ring, recorded, delivered, main>>
    BY <1>1, <1>6 DEF Present, Used
<1>7. QED  BY <1>2, <1>3, <1>4, <1>5, <1>6 DEF Next, ChipTransmit, vars

\* As long as no more frames are transmitted than an overflow record can count (and
\* the one it is made of), every transmit event is told to the host or counted.
THEOREM TransmitEventsAreTraced ==
    ASSUME MaxEvents <= MaxCount + 1
    PROVE  Spec => []TracedWithOneMore
<1>1. DrainInv /\ DrainInv' /\ RecordedWasRaised /\ Accounted /\ [Next]_vars => Accounted'
    BY NextAccount
<1>2. Accounted => TracedWithOneMore
    BY AccountIsTraced
<1>3. QED
    BY <1>1, <1>2, InitAccount, InitRaised, NextRaised, InitDrainInv, NextDrainInv, PTL DEF Spec
=============================================================================

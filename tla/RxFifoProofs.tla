---------------------------- MODULE RxFifoProofs ----------------------------
(***************************************************************************)
(* Proofs about the receive path, for every FIFO size, every set of        *)
(* options and every bound: type correctness, the exactness of the answer  *)
(* under preemption, that no event is lost without a trace, and that the   *)
(* ring is a lossy queue.                                                  *)
(***************************************************************************)
EXTENDS RxFifo, EventRingProofs, SequenceTheorems

\* While the main loop is inside get_can_rx_events the pin is masked and the
\* handler, which had the core before, has returned.
DrainIsAlone == main.pc # "idle" => ~irqOn /\ isr.pc = "idle"

\* What the main loop knows while it drains: there is an event left to pop, and
\* the free count it has loaded is still the ring's.
DrainProgress ==
    /\ main.pc \in {"pop", "store", "copy"} => main.left > 0
    /\ main.pc = "store" => main.free = ring.free
    /\ main.pc = "copy" => ring.free > 0

\* Inductive: without DrainIsAlone the handler could move free between its load
\* and its store, without DrainProgress a pop could move it past Size.
DrainInv == TypeOK /\ DrainIsAlone /\ DrainProgress /\ RingConsistent /\ AnswerIsExact

-----------------------------------------------------------------------------
(* What the handler does to the ring.                                      *)

LEMMA StickyType ==
    ASSUME NEW c \in 0..MaxCount
    PROVE  Sticky(c) \in 0..MaxCount
BY RxAssumption DEF Sticky

LEMMA SingleIsEvent ==
    ASSUME NEW kind \in EventKinds, NEW stamp \in Nat
    PROVE  Single(kind, stamp) \in Event
BY RxAssumption DEF Single, Event

LEMMA OverflowIsEvent ==
    ASSUME NEW stamp \in Nat, NEW f \in 0..1, NEW e \in 0..1
    PROVE  Overflow(stamp, f, e) \in Event
BY RxAssumption DEF Overflow, Event, EventKinds

\* Recording an error keeps the ring's type and its indices in step.
LEMMA RecordErrorShape ==
    ASSUME NEW r \in RingType(Event), IndicesAgree(r, Used(r)), NEW stamp \in Nat
    PROVE  /\ RecordError(r, stamp) \in RingType(Event)
           /\ IndicesAgree(RecordError(r, stamp), Used(RecordError(r, stamp)))
<1> DEFINE q == RecordError(r, stamp)
<1>1. r.free \in 0..Size
    BY DEF RingType
<1>2. CASE r.free > 1
    <2>1. q = Put(r, Single("error", stamp))
        BY <1>2 DEF RecordError
    <2>2. Single("error", stamp) \in Event
        BY SingleIsEvent DEF EventKinds
    <2>3. Used(r) \in 0..Size-1 /\ Used(r) + 1 = Size - (r.free - 1) /\ r.free > 0
        BY <1>1, <1>2, SizeAssumption DEF Used
    <2>4. q \in RingType(Event) /\ q.free = r.free - 1 /\ IndicesAgree(q, Used(r) + 1)
        BY <1>2, <2>1, <2>2, <2>3, PutAppends
    <2>5. Used(q) = Used(r) + 1
        BY <2>3, <2>4 DEF Used
    <2>6. QED  BY <2>4, <2>5
<1>3. CASE r.free = 1
    <2>1. q = PutOverflow(r, Overflow(stamp, 0, 1))
        BY <1>3 DEF RecordError
    <2>2. Overflow(stamp, 0, 1) \in Event
        BY OverflowIsEvent
    <2>3. Used(r) \in 0..Size-1 /\ Used(r) + 1 = Size - 0
        BY <1>3, SizeAssumption DEF Used
    <2>4. q \in RingType(Event) /\ q.free = 0 /\ IndicesAgree(q, Used(r) + 1)
        BY <2>1, <2>2, <2>3, PutOverflowAppends
    <2>5. Used(q) = Used(r) + 1
        BY <2>3, <2>4 DEF Used
    <2>6. QED  BY <2>4, <2>5
<1>4. CASE r.free = 0
    <2>1. q = [r EXCEPT !.slot[r.dropped].errors = Sticky(@)]
        BY <1>4 DEF RecordError
    <2>2. r.dropped \in Slots /\ r.slot[r.dropped] \in Event
        BY DEF RingType
    <2>3. [r.slot[r.dropped] EXCEPT !.errors = Sticky(@)] \in Event
        BY <2>2, StickyType DEF Event
    <2>4. QED  BY <2>1, <2>2, <2>3 DEF RingType, IndicesAgree, Used
<1>5. QED  BY <1>1, <1>2, <1>3, <1>4

\* So does recording a frame.
LEMMA RecordFrameShape ==
    ASSUME NEW r \in RingType(Event), IndicesAgree(r, Used(r)), NEW stamp \in Nat,
           NEW kind \in EventKinds
    PROVE  /\ RecordFrame(r, kind, stamp) \in RingType(Event)
           /\ IndicesAgree(RecordFrame(r, kind, stamp), Used(RecordFrame(r, kind, stamp)))
<1> DEFINE q == RecordFrame(r, kind, stamp)
           ignore == "REJECT_OVERFLOW" \in Options
<1>1. r.free \in 0..Size
    BY DEF RingType
<1>2. CASE r.free > 1 \/ (ignore /\ r.free = 1)
    <2>1. q = Put(r, Single(kind, stamp))
        BY <1>1, <1>2 DEF RecordFrame
    <2>2. Used(r) \in 0..Size-1 /\ Used(r) + 1 = Size - (r.free - 1) /\ r.free > 0
        BY <1>1, <1>2, SizeAssumption DEF Used
    <2>3. Single(kind, stamp) \in Event
        BY SingleIsEvent
    <2>4. q \in RingType(Event) /\ q.free = r.free - 1 /\ IndicesAgree(q, Used(r) + 1)
        BY <2>1, <2>2, <2>3, PutAppends
    <2>5. Used(q) = Used(r) + 1
        BY <2>2, <2>4 DEF Used
    <2>6. QED  BY <2>4, <2>5
<1>3. CASE ~ignore /\ r.free = 1
    <2>1. q = PutOverflow(r, Overflow(stamp, 1, 0))
        BY <1>3 DEF RecordFrame
    <2>2. Overflow(stamp, 1, 0) \in Event
        BY OverflowIsEvent
    <2>3. Used(r) \in 0..Size-1 /\ Used(r) + 1 = Size - 0
        BY <1>3, SizeAssumption DEF Used
    <2>4. q \in RingType(Event) /\ q.free = 0 /\ IndicesAgree(q, Used(r) + 1)
        BY <2>1, <2>2, <2>3, PutOverflowAppends
    <2>5. Used(q) = Used(r) + 1
        BY <2>3, <2>4 DEF Used
    <2>6. QED  BY <2>4, <2>5
<1>4. CASE ~ignore /\ r.free = 0
    <2>1. q = [r EXCEPT !.slot[r.dropped].frames = Sticky(@)]
        BY <1>4 DEF RecordFrame
    <2>2. r.dropped \in Slots /\ r.slot[r.dropped] \in Event
        BY DEF RingType
    <2>3. [r.slot[r.dropped] EXCEPT !.frames = Sticky(@)] \in Event
        BY <2>2, StickyType DEF Event
    <2>4. QED  BY <2>1, <2>2, <2>3 DEF RingType, IndicesAgree, Used
<1>5. CASE ignore /\ r.free = 0
    <2>1. q = r
        BY <1>5 DEF RecordFrame
    <2>2. QED  BY <2>1
<1>6. QED  BY <1>1, <1>2, <1>3, <1>4, <1>5

-----------------------------------------------------------------------------
(* Type correctness, and the drain under preemption.                       *)

\* Whatever rx_handler takes from the chip, and whether or not it can read the frame's
\* address, it records an event that is no overflow record.
LEMMA RecordedKind ==
    ASSUME TypeOK, IsrRx
    PROVE  \E kind \in EventKinds \ {"overflow"} : ring' = RecordFrame(ring, kind, handled)
<1>1. "garbage" \in EventKinds \ {"overflow"}
    BY DEF EventKinds
<1>2. hw # <<>> => Head(hw) \in EventKinds \ {"overflow"}
    BY DEF TypeOK, EventKinds, FrameKinds
<1>3. \/ ring' = RecordFrame(ring, IF hw = <<>> THEN "garbage" ELSE Head(hw), handled)
      \/ ring' = RecordFrame(ring, "garbage", handled)
    BY DEF IsrRx
<1>4. QED  BY <1>1, <1>2, <1>3

LEMMA InitDrainInv == Init => DrainInv
<1> SUFFICES ASSUME Init PROVE DrainInv
    OBVIOUS
<1>1. Single("blank", 0) \in Event
    BY SingleIsEvent DEF EventKinds
<1>2. ring \in RingType(Event) /\ Used(ring) = 0 /\ ring.head = 0 /\ ring.tail = 0
    BY <1>1, SizeAssumption DEF Init, EmptyRing, RingType, Slots, Used
<1>3. TypeOK
    <2>1. hw \in Seq(FrameKinds) /\ Len(hw) <= HwFifoSize
        BY RxAssumption DEF Init
    <2>2. raised \in 0..MaxEvents /\ crcFailures \in 0..MaxCrcFailures
        BY RxAssumption DEF Init
    <2>3. main.left \in 0..Size /\ main.free \in 0..Size /\ handled \in Nat
        BY SizeAssumption DEF Init
    <2>4. QED  BY <1>2, <2>1, <2>2, <2>3 DEF Init, TypeOK
<1>4. DrainIsAlone /\ DrainProgress /\ AnswerIsExact
    BY DEF Init, DrainIsAlone, DrainProgress, AnswerIsExact
<1>5. RingConsistent
    BY <1>2, SizeAssumption DEF Init, RingConsistent, IndicesAgree, Present
<1>6. QED  BY <1>3, <1>4, <1>5 DEF DrainInv

\* Preserved by every step: the handler only runs while the main loop is idle, and
\* each step of the drain moves free, head and what is left by one together.
LEMMA NextDrainInv == DrainInv /\ [Next]_vars => DrainInv'
<1> SUFFICES ASSUME DrainInv, [Next]_vars PROVE DrainInv'
    OBVIOUS
<1> USE DEF DrainInv
<1>r. /\ ring \in RingType(Event) /\ Used(ring) \in 0..Size /\ ring.free = Size - Used(ring)
      /\ main.left \in 0..Size /\ main.free \in 0..Size
    BY SizeAssumption DEF TypeOK, RingType, Used
<1>m. main \in [pc : {"idle", "pending", "pop", "store", "copy", "unmask"}, left : 0..Size, free : 0..Size]
    BY DEF TypeOK
<1>i. isr \in [pc : {"idle", "loop", "error", "rx", "dismiss"}, events : SUBSET {"IVM", "RX"}]
    BY DEF TypeOK
<1>p. Present \in 0..Size
    BY <1>r, SizeAssumption DEF Present, DrainProgress
<1>1. CASE \E kind \in FrameKinds : ChipReceive(kind)
    <2> PICK kind \in FrameKinds : ChipReceive(kind)
        BY <1>1
    <2>1. TypeOK'
        BY RxAssumption DEF ChipReceive, TypeOK
    <2>2. QED  BY <2>1 DEF ChipReceive, DrainIsAlone, DrainProgress, RingConsistent, AnswerIsExact, Present
<1>2. CASE ChipError
    <2>1. TypeOK'
        BY <1>2, RxAssumption DEF ChipError, TypeOK
    <2>2. QED  BY <1>2, <2>1 DEF ChipError, DrainIsAlone, DrainProgress, RingConsistent, AnswerIsExact, Present
<1>3. CASE Isr
    <2>1. main.pc = "idle" /\ UNCHANGED <<main, irqOn>>
        BY <1>3 DEF Isr, IsrEnter, IsrRead, IsrReturn, IsrError, IsrRx, IsrDismiss, DrainIsAlone
    <2>2. DrainIsAlone' /\ DrainProgress' /\ AnswerIsExact'
        BY <2>1 DEF DrainIsAlone, DrainProgress, AnswerIsExact
    <2>3. IndicesAgree(ring, Used(ring))
        BY <1>r, <2>1 DEF RingConsistent, Present
    <2>4. TypeOK' /\ IndicesAgree(ring', Used(ring'))
        <3>1. CASE IsrEnter \/ IsrReturn
            BY <2>3, <3>1 DEF IsrEnter, IsrReturn, TypeOK
        <3>2. CASE IsrRead
            <4>1. Pending \in SUBSET {"IVM", "RX"}
                BY DEF Pending
            <4>2. NextBranch("loop", Pending) \in {"error", "rx", "dismiss"}
                BY DEF NextBranch
            <4>3. crcFailures' \in 0..MaxCrcFailures
                BY <3>2, RxAssumption DEF IsrRead, TypeOK
            <4>4. isr' \in [pc : {"idle", "loop", "error", "rx", "dismiss"}, events : SUBSET {"IVM", "RX"}]
                <5>1. \/ isr' = [pc |-> NextBranch("loop", Pending), events |-> Pending]
                      \/ isr' = [pc |-> "error", events |-> {"IVM", "RX"}]
                    BY <3>2 DEF IsrRead
                <5> DEFINE S == [pc : {"idle", "loop", "error", "rx", "dismiss"}, events : SUBSET {"IVM", "RX"}]
                <5>2. [pc |-> NextBranch("loop", Pending), events |-> Pending] \in S
                    BY <4>1, <4>2
                <5>3. [pc |-> "error", events |-> {"IVM", "RX"}] \in S
                    OBVIOUS
                <5>4. QED  BY <5>1, <5>2, <5>3
            <4>5. QED  BY <2>3, <3>2, <4>3, <4>4 DEF IsrRead, TypeOK
        <3>3. CASE IsrError
            <4>1. NextBranch("error", isr.events) \in {"rx", "dismiss"}
                BY DEF NextBranch
            <4>2. isr' \in [pc : {"idle", "loop", "error", "rx", "dismiss"}, events : SUBSET {"IVM", "RX"}]
                BY <3>3, <4>1 DEF IsrError, TypeOK
            <4>3. handled \in Nat /\ handled' \in Nat
                BY <3>3 DEF IsrError, TypeOK
            <4>4. ring' \in RingType(Event) /\ IndicesAgree(ring', Used(ring'))
                BY <1>r, <2>3, <3>3, <4>3, RecordErrorShape DEF IsrError
            <4>5. QED  BY <3>3, <4>2, <4>3, <4>4 DEF IsrError, TypeOK
        <3>4. CASE IsrRx
            <4>1. handled \in Nat /\ handled' \in Nat
                BY <3>4 DEF IsrRx, TypeOK
            <4>2. PICK kind \in EventKinds \ {"overflow"} : ring' = RecordFrame(ring, kind, handled)
                BY <3>4, RecordedKind
            <4>3. ring' \in RingType(Event) /\ IndicesAgree(ring', Used(ring'))
                BY <1>r, <2>3, <4>1, <4>2, RecordFrameShape
            <4>4. hw' \in Seq(FrameKinds) /\ Len(hw') <= HwFifoSize
                BY <3>4, RxAssumption DEF IsrRx, TypeOK
            <4>5. crcFailures' \in 0..MaxCrcFailures
                BY <3>4, RxAssumption DEF IsrRx, TypeOK
            <4>6. isr' \in [pc : {"idle", "loop", "error", "rx", "dismiss"}, events : SUBSET {"IVM", "RX"}]
                BY <3>4 DEF IsrRx, TypeOK
            <4>7. QED  BY <3>4, <4>1, <4>3, <4>4, <4>5, <4>6 DEF IsrRx, TypeOK
        <3>5. CASE IsrDismiss
            BY <2>3, <3>5 DEF IsrDismiss, TypeOK
        <3>6. QED  BY <1>3, <3>1, <3>2, <3>3, <3>4, <3>5 DEF Isr
    <2>5. Present' = Used(ring')
        BY <2>1, <2>4, SizeAssumption DEF TypeOK, RingType, Present, Used
    <2>6. QED  BY <2>2, <2>4, <2>5 DEF RingConsistent
<1>4. CASE Main
    <2>1. isr.pc = "idle" /\ UNCHANGED <<hw, ivm, raised, crcFailures, isr, handled>>
        BY <1>4 DEF Main, GetRxEvents, ReadPending, AllocationFails, PopLoad, PopStore, PopCopy, Unmask, MainAt
    <2>2. CASE GetRxEvents
        BY <2>1, <2>2 DEF GetRxEvents, MainAt, TypeOK, DrainIsAlone, DrainProgress, RingConsistent, AnswerIsExact, Present
    <2>3. CASE ReadPending
        <3>1. /\ UNCHANGED <<ring, irqOn, delivered>> /\ main.pc = "pending"
              /\ main' = [main EXCEPT !.pc = IF Used(ring) = 0 THEN "unmask" ELSE "pop", !.left = Used(ring)]
            BY <2>3 DEF ReadPending, MainAt
        <3>2. /\ main' \in [pc : {"pop", "unmask"}, left : 0..Size, free : 0..Size]
              /\ main'.left = Used(ring) /\ (main'.pc = "pop" => Used(ring) # 0)
            BY <1>r, <1>m, <3>1
        <3>3. Present' = Present /\ Present' = Used(ring)
            BY <1>r, <3>1, <3>2 DEF Present, Used
        <3>4. QED  BY <1>r, <2>1, <3>1, <3>2, <3>3 DEF TypeOK, DrainIsAlone, DrainProgress, RingConsistent, AnswerIsExact
    <2>4. CASE AllocationFails
        BY <2>1, <2>4 DEF AllocationFails, MainAt, TypeOK, DrainIsAlone, DrainProgress, RingConsistent, AnswerIsExact, Present
    <2>5. CASE PopLoad
        <3>1. UNCHANGED <<ring, irqOn, delivered>> /\ main.pc = "pop"
            BY <2>5 DEF PopLoad, MainAt
        <3>2. Used(ring) = Present /\ Used(ring) > 0 /\ ring.free < Size
            BY <1>r, <3>1, SizeAssumption DEF Present, AnswerIsExact, DrainProgress
        <3>3. main' = [main EXCEPT !.pc = "store", !.free = ring.free]
            BY <2>5, <3>2 DEF PopLoad
        <3>4. QED  BY <1>r, <2>1, <3>1, <3>2, <3>3 DEF TypeOK, DrainIsAlone, DrainProgress, RingConsistent, AnswerIsExact, Present, RingType
    <2>6. CASE PopStore
        <3>1. /\ UNCHANGED <<irqOn, delivered>> /\ main.pc = "store"
              /\ main' = [main EXCEPT !.pc = "copy", !.free = 0]
              /\ ring' = [ring EXCEPT !.free = main.free + 1]
            BY <2>6 DEF PopStore, MainAt
        <3>2. Present = Used(ring) /\ Used(ring) > 0 /\ main.free = ring.free
            BY <1>r, <3>1, SizeAssumption DEF Present, AnswerIsExact, DrainProgress
        <3>3. ring' \in RingType(Event) /\ ring'.free = ring.free + 1 /\ ring'.head = ring.head /\ ring'.tail = ring.tail
            BY <1>r, <3>1, <3>2, SizeAssumption DEF RingType
        <3>4. main' \in [pc : {"copy"}, left : 0..Size, free : 0..Size] /\ main'.left = main.left
            <4>1. main' = [pc |-> "copy", left |-> main.left, free |-> 0]
                BY <1>m, <3>1
            <4>2. QED  BY <1>r, <4>1, SizeAssumption
        <3>5. Present' = Present
            BY <1>r, <3>2, <3>3, <3>4, SizeAssumption DEF Present, Used
        <3>6. TypeOK'
            BY <2>1, <3>1, <3>3, <3>4 DEF TypeOK
        <3>7. RingConsistent' /\ AnswerIsExact'
            BY <3>1, <3>3, <3>4, <3>5 DEF RingConsistent, IndicesAgree, AnswerIsExact
        <3>8. DrainIsAlone' /\ DrainProgress'
            BY <1>r, <2>1, <3>1, <3>2, <3>3, <3>4, SizeAssumption DEF DrainIsAlone, DrainProgress, RingType
        <3>9. QED  BY <3>6, <3>7, <3>8
    <2>7. CASE PopCopy
        <3>1. /\ UNCHANGED irqOn /\ main.pc = "copy" /\ ring' = AdvanceHead(ring)
              /\ main' = [main EXCEPT !.pc = AfterPop(main.left), !.left = @ - 1]
            BY <2>7 DEF PopCopy, MainAt
        <3>2. Present = Used(ring) + 1 /\ Present \in 1..Size /\ main.left = Present
            BY <1>r, <1>p, <3>1 DEF Present, AnswerIsExact
        <3>3. /\ ring' \in RingType(Event) /\ ring'.free = ring.free
              /\ IndicesAgree(ring', Present - 1)
            BY <1>r, <3>1, <3>2, AdvanceHeadPops DEF RingConsistent
        <3>4. /\ main' \in [pc : {"pop", "unmask"}, left : 0..Size, free : 0..Size]
              /\ main'.left = main.left - 1 /\ (main'.pc = "pop" => main.left # 1)
            <4>1. AfterPop(main.left) \in {"pop", "unmask"} /\ (AfterPop(main.left) = "pop" => main.left # 1)
                BY DEF AfterPop
            <4>2. main.left - 1 \in 0..Size
                BY <3>2, SizeAssumption
            <4>3. QED  BY <1>m, <3>1, <4>1, <4>2
        <3>5. Present' = Present - 1
            BY <1>r, <3>2, <3>3, <3>4 DEF Present, Used
        <3>6. delivered' \in [upto : Nat, exact : BOOLEAN]
            <4>1. At(ring, 0) \in Event
                BY <1>r, SizeAssumption, AtIsEvent
            <4>2. At(ring, 0).stamp + Weight(At(ring, 0)) \in Nat /\ Exact(At(ring, 0)) \in BOOLEAN
                BY <4>1, RxAssumption DEF Event, Weight, Exact
            <4>3. QED  BY <2>7, <4>2 DEF PopCopy
        <3>7. TypeOK'
            BY <2>1, <3>1, <3>3, <3>4, <3>6 DEF TypeOK
        <3>8. RingConsistent' /\ AnswerIsExact'
            BY <3>2, <3>3, <3>4, <3>5 DEF RingConsistent, AnswerIsExact
        <3>9. DrainIsAlone' /\ DrainProgress'
            <4>1. main'.left > 0 \/ main'.pc = "unmask"
                BY <3>2, <3>4, SizeAssumption
            <4>2. QED  BY <2>1, <3>1, <3>4, <4>1 DEF DrainIsAlone, DrainProgress
        <3>10. QED  BY <3>7, <3>8, <3>9
    <2>8. CASE Unmask
        <3>1. /\ UNCHANGED <<ring, delivered>> /\ irqOn' = TRUE /\ main.pc = "unmask"
              /\ main' = [main EXCEPT !.pc = "idle", !.left = 0]
            BY <2>8 DEF Unmask, MainAt
        <3>2. main' \in [pc : {"idle"}, left : 0..Size, free : 0..Size]
            <4>1. main' = [pc |-> "idle", left |-> 0, free |-> main.free]
                BY <1>m, <3>1
            <4>2. QED  BY <1>r, <4>1, SizeAssumption
        <3>3. Present' = Present
            BY <3>1, <3>2 DEF Present, Used
        <3>4. QED  BY <2>1, <3>1, <3>2, <3>3 DEF TypeOK, DrainIsAlone, DrainProgress, RingConsistent, AnswerIsExact
    <2>9. QED  BY <1>4, <2>2, <2>3, <2>4, <2>5, <2>6, <2>7, <2>8 DEF Main
<1>5. CASE UNCHANGED vars
    BY <1>5 DEF vars, TypeOK, DrainIsAlone, DrainProgress, RingConsistent, AnswerIsExact, Present
<1>6. QED  BY <1>1, <1>2, <1>3, <1>4, <1>5 DEF Next

LEMMA DrainInvHolds == Spec => []DrainInv
BY InitDrainInv, NextDrainInv, PTL DEF Spec

\* Every variable keeps its type: in particular free never leaves 0..Size, although
\* the handler and the main loop both write it.
THEOREM TypeCorrect == Spec => []TypeOK
<1>1. DrainInv => TypeOK
    BY DEF DrainInv
<1>2. QED  BY <1>1, DrainInvHolds, PTL

\* rx_fifo's head, tail and free count always describe the same stretch of slots.
THEOREM RingIsConsistent == Spec => []RingConsistent
<1>1. DrainInv => RingConsistent
    BY DEF DrainInv
<1>2. QED  BY <1>1, DrainInvHolds, PTL

\* get_can_rx_events fills the answer it sized exactly, whatever arrives meanwhile.
THEOREM AnswerIsAlwaysExact == Spec => []AnswerIsExact
<1>1. DrainInv => AnswerIsExact
    BY DEF DrainInv
<1>2. QED  BY <1>1, DrainInvHolds, PTL

-----------------------------------------------------------------------------
(* The account of what the handler took: NoSilentLoss, for all sizes.      *)

\* NoSilentLoss and OverflowAtBack of any ring: n events, upto events handled.
Follows(r, n, upto, k) == IF k < n THEN At(r, k).stamp ELSE upto

Traced(r, n, upto) ==
    \A k \in 0..n-1 :
        LET end == At(r, k).stamp + Weight(At(r, k))
        IN /\ end <= Follows(r, n, upto, k + 1)
           /\ Exact(At(r, k)) => end = Follows(r, n, upto, k + 1)

Marked(r, n) ==
    r.free = 0 => r.dropped = Position(r, n - 1) /\ r.slot[r.dropped].kind = "overflow"

\* An event that accounts for one, the next, extends the account by one.
LEMMA AppendTraced ==
    ASSUME NEW r \in RingType(Event), NEW q \in RingType(Event), NEW n \in 0..Size-1,
           NEW upto \in Nat, Traced(r, n, upto),
           At(q, n).stamp = upto, Weight(At(q, n)) = 1,
           \A k \in 0..n-1 : At(q, k) = At(r, k)
    PROVE  /\ Traced(q, n + 1, upto + 1)
           /\ Follows(q, n + 1, upto + 1, 0) = Follows(r, n, upto, 0)
<1>1. ASSUME NEW k \in 0..n-1
      PROVE  Follows(q, n + 1, upto + 1, k + 1) = Follows(r, n, upto, k + 1)
    <2>1. CASE k + 1 < n
        BY <2>1 DEF Follows
    <2>2. CASE k + 1 = n
        BY <2>2 DEF Follows
    <2>3. QED  BY <2>1, <2>2
<1>2. Follows(q, n + 1, upto + 1, n + 1) = upto + 1
    BY DEF Follows
<1>3. ASSUME NEW k \in 0..n
      PROVE  LET end == At(q, k).stamp + Weight(At(q, k))
             IN /\ end <= Follows(q, n + 1, upto + 1, k + 1)
                /\ Exact(At(q, k)) => end = Follows(q, n + 1, upto + 1, k + 1)
    <2>1. CASE k < n
        BY <1>1, <2>1 DEF Traced
    <2>2. CASE k = n
        BY <1>2, <2>2
    <2>3. QED  BY <2>1, <2>2
<1>4. Traced(q, n + 1, upto + 1)
    BY <1>3 DEF Traced
<1>5. Follows(q, n + 1, upto + 1, 0) = Follows(r, n, upto, 0)
    BY DEF Follows
<1>6. QED  BY <1>4, <1>5

\* Counting one more event into the newest event extends the account by one.
LEMMA CountTraced ==
    ASSUME NEW r \in RingType(Event), NEW q \in RingType(Event), NEW n \in 1..Size,
           NEW upto \in Nat, Traced(r, n, upto),
           At(q, n - 1).stamp = At(r, n - 1).stamp,
           Weight(At(q, n - 1)) <= Weight(At(r, n - 1)) + 1,
           Exact(At(q, n - 1)) =>
               Exact(At(r, n - 1)) /\ Weight(At(q, n - 1)) = Weight(At(r, n - 1)) + 1,
           \A k \in 0..n-2 : At(q, k) = At(r, k)
    PROVE  /\ Traced(q, n, upto + 1)
           /\ Follows(q, n, upto + 1, 0) = Follows(r, n, upto, 0)
<1>1. At(r, n - 1) \in Event /\ At(q, n - 1) \in Event
    BY AtIsEvent, SizeAssumption
<1>2. /\ At(r, n - 1).stamp \in Nat
      /\ Weight(At(r, n - 1)) \in Nat /\ Weight(At(q, n - 1)) \in Nat
    BY <1>1, RxAssumption DEF Event, Weight
<1>3. Follows(r, n, upto, n) = upto /\ Follows(q, n, upto + 1, n) = upto + 1
    BY DEF Follows
<1>4. ASSUME NEW k \in 0..n-2
      PROVE  Follows(q, n, upto + 1, k + 1) = Follows(r, n, upto, k + 1)
    <2>1. CASE k + 1 < n - 1
        BY <2>1 DEF Follows
    <2>2. CASE k + 1 = n - 1
        BY <2>2 DEF Follows
    <2>3. QED  BY <2>1, <2>2
<1>5. ASSUME NEW k \in 0..n-1
      PROVE  LET end == At(q, k).stamp + Weight(At(q, k))
             IN /\ end <= Follows(q, n, upto + 1, k + 1)
                /\ Exact(At(q, k)) => end = Follows(q, n, upto + 1, k + 1)
    <2>1. CASE k < n - 1
        BY <1>4, <2>1 DEF Traced
    <2>2. CASE k = n - 1
        <3>1. /\ At(r, n - 1).stamp + Weight(At(r, n - 1)) <= upto
              /\ Exact(At(r, n - 1)) => At(r, n - 1).stamp + Weight(At(r, n - 1)) = upto
            BY <1>3 DEF Traced
        <3>2. QED  BY <1>2, <1>3, <2>2, <3>1
    <2>3. QED  BY <2>1, <2>2
<1>6. Traced(q, n, upto + 1)
    BY <1>5 DEF Traced
<1>7. Follows(q, n, upto + 1, 0) = Follows(r, n, upto, 0)
    <2>1. CASE n = 1
        BY <2>1 DEF Follows
    <2>2. CASE n > 1
        BY <2>2 DEF Follows
    <2>3. QED  BY <2>1, <2>2
<1>8. QED  BY <1>6, <1>7

\* A drop adds one to an overflow record's weight, unless the counter sticks.
LEMMA CountOne ==
    ASSUME NEW e \in Event, e.kind = "overflow", NEW d,
           d = [e EXCEPT !.errors = Sticky(@)] \/ d = [e EXCEPT !.frames = Sticky(@)]
    PROVE  /\ d.stamp = e.stamp /\ d.kind = "overflow"
           /\ Weight(d) <= Weight(e) + 1
           /\ Exact(d) => Exact(e) /\ Weight(d) = Weight(e) + 1
BY RxAssumption DEF Event, Sticky, Weight, Exact

\* Whichever of the two counters of the record at the back is counted up, the
\* account is extended by one and the record stays at the back.
LEMMA CountInRing ==
    ASSUME NEW r \in RingType(Event), r.free = 0, Marked(r, Size),
           NEW upto \in Nat, Traced(r, Size, upto),
           NEW q \in RingType(Event), NEW d,
           d = [r.slot[r.dropped] EXCEPT !.errors = Sticky(@)]
               \/ d = [r.slot[r.dropped] EXCEPT !.frames = Sticky(@)],
           q = [r EXCEPT !.slot = [r.slot EXCEPT ![r.dropped] = d]]
    PROVE  /\ q.free = 0 /\ Marked(q, Size)
           /\ Traced(q, Size, upto + 1)
           /\ Follows(q, Size, upto + 1, 0) = Follows(r, Size, upto, 0)
<1>1. /\ r.dropped = Position(r, Size - 1) /\ r.slot[r.dropped].kind = "overflow"
      /\ r.dropped \in Slots /\ r.slot[r.dropped] \in Event /\ r.slot \in [Slots -> Event]
    BY DEF Marked, RingType
<1>2. /\ q.slot = [r.slot EXCEPT ![r.dropped] = d] /\ q.free = 0
      /\ q.head = r.head /\ q.dropped = r.dropped
    BY DEF RingType
<1>3. \A k \in 0..Size-1 : Position(q, k) = Position(r, k)
    BY <1>2 DEF Position
<1>4. Size - 1 \in 0..Size-1 /\ Size \in 1..Size
    BY SizeAssumption
<1>5. At(r, Size - 1) = r.slot[r.dropped] /\ At(q, Size - 1) = d
    BY <1>1, <1>2, <1>3, <1>4 DEF At
<1>6. /\ d.stamp = At(r, Size - 1).stamp /\ d.kind = "overflow"
      /\ Weight(d) <= Weight(At(r, Size - 1)) + 1
      /\ Exact(d) => Exact(At(r, Size - 1)) /\ Weight(d) = Weight(At(r, Size - 1)) + 1
    BY <1>1, <1>5, CountOne
<1>7. ASSUME NEW k \in 0..Size-2 PROVE At(q, k) = At(r, k)
    <2>1. k \in 0..Size-1 /\ k # Size - 1
        BY SizeAssumption
    <2>2. Position(r, k) # r.dropped /\ Position(r, k) \in Slots
        BY <1>1, <1>4, <2>1, PositionInjective, PositionIsSlot
    <2>3. QED  BY <1>1, <1>2, <1>3, <2>1, <2>2 DEF At
<1>8. Traced(q, Size, upto + 1) /\ Follows(q, Size, upto + 1, 0) = Follows(r, Size, upto, 0)
    BY <1>4, <1>5, <1>6, <1>7, CountTraced
<1>9. Marked(q, Size)
    BY <1>1, <1>2, <1>3, <1>4, <1>6 DEF Marked
<1>10. QED  BY <1>2, <1>8, <1>9

\* error_handler keeps the account, whatever room there is.
LEMMA RecordErrorTraced ==
    ASSUME NEW r \in RingType(Event), IndicesAgree(r, Used(r)), NEW upto \in Nat,
           Marked(r, Used(r)), Traced(r, Used(r), upto)
    PROVE  LET q == RecordError(r, upto)
           IN /\ Marked(q, Used(q)) /\ Traced(q, Used(q), upto + 1)
              /\ Follows(q, Used(q), upto + 1, 0) = Follows(r, Used(r), upto, 0)
<1> DEFINE q == RecordError(r, upto)
           n == Used(r)
<1>1. r.free \in 0..Size /\ q \in RingType(Event)
    BY RecordErrorShape DEF RingType
<1>2. CASE r.free > 1
    <2>1. q = Put(r, Single("error", upto)) /\ Single("error", upto) \in Event
        BY <1>2, SingleIsEvent DEF RecordError, EventKinds
    <2>2. n \in 0..Size-1 /\ r.free > 0
        BY <1>1, <1>2, SizeAssumption DEF Used
    <2>3. /\ q.free = r.free - 1 /\ At(q, n) = Single("error", upto)
          /\ \A k \in 0..n-1 : At(q, k) = At(r, k)
        BY <2>1, <2>2, PutAppends
    <2>4. Used(q) = n + 1 /\ q.free # 0
        BY <1>1, <1>2, <2>3, SizeAssumption DEF Used
    <2>5. At(q, n).stamp = upto /\ Weight(At(q, n)) = 1
        BY <2>3 DEF Single, Weight
    <2>6. Traced(q, n + 1, upto + 1) /\ Follows(q, n + 1, upto + 1, 0) = Follows(r, n, upto, 0)
        BY <1>1, <2>2, <2>3, <2>5, AppendTraced
    <2>7. QED  BY <2>4, <2>6 DEF Marked
<1>3. CASE r.free = 1
    <2>1. q = PutOverflow(r, Overflow(upto, 0, 1)) /\ Overflow(upto, 0, 1) \in Event
        BY <1>3, OverflowIsEvent DEF RecordError
    <2>2. n \in 0..Size-1 /\ n + 1 = Size
        BY <1>3, SizeAssumption DEF Used
    <2>3. /\ q.free = 0 /\ At(q, n) = Overflow(upto, 0, 1) /\ q.dropped = Position(q, n)
          /\ \A k \in 0..n-1 : At(q, k) = At(r, k)
        BY <2>1, <2>2, PutOverflowAppends
    <2>4. Used(q) = n + 1 /\ Used(q) - 1 = n
        BY <2>2, <2>3, SizeAssumption DEF Used
    <2>5. At(q, n).stamp = upto /\ Weight(At(q, n)) = 1 /\ At(q, n).kind = "overflow"
        BY <2>3 DEF Overflow, Weight
    <2>6. Traced(q, n + 1, upto + 1) /\ Follows(q, n + 1, upto + 1, 0) = Follows(r, n, upto, 0)
        BY <1>1, <2>2, <2>3, <2>5, AppendTraced
    <2>7. QED  BY <2>3, <2>4, <2>5, <2>6 DEF Marked, At
<1>4. CASE r.free = 0
    <2> DEFINE d == [r.slot[r.dropped] EXCEPT !.errors = Sticky(@)]
    <2>1. q = [r EXCEPT !.slot = [r.slot EXCEPT ![r.dropped] = d]]
        BY <1>4 DEF RecordError
    <2>2. n = Size
        BY <1>4, SizeAssumption DEF Used
    <2>3. /\ q.free = 0 /\ Marked(q, Size) /\ Traced(q, Size, upto + 1)
          /\ Follows(q, Size, upto + 1, 0) = Follows(r, Size, upto, 0)
        BY <1>1, <1>4, <2>1, <2>2, CountInRing
    <2>4. Used(q) = Size
        BY <2>3, SizeAssumption DEF Used
    <2>5. QED  BY <2>2, <2>3, <2>4
<1>5. QED  BY <1>1, <1>2, <1>3, <1>4

\* rx_handler keeps it too, unless it has been told to drop overflows silently.
LEMMA RecordFrameTraced ==
    ASSUME NEW r \in RingType(Event), IndicesAgree(r, Used(r)), NEW upto \in Nat,
           Marked(r, Used(r)), Traced(r, Used(r), upto),
           NEW kind \in EventKinds \ {"overflow"}, "REJECT_OVERFLOW" \notin Options
    PROVE  LET q == RecordFrame(r, kind, upto)
           IN /\ Marked(q, Used(q)) /\ Traced(q, Used(q), upto + 1)
              /\ Follows(q, Used(q), upto + 1, 0) = Follows(r, Used(r), upto, 0)
<1> DEFINE q == RecordFrame(r, kind, upto)
           n == Used(r)
<1>1. r.free \in 0..Size /\ q \in RingType(Event)
    BY RecordFrameShape DEF RingType
<1>2. CASE r.free > 1
    <2>1. q = Put(r, Single(kind, upto)) /\ Single(kind, upto) \in Event
        BY <1>2, SingleIsEvent DEF RecordFrame
    <2>2. n \in 0..Size-1 /\ r.free > 0
        BY <1>1, <1>2, SizeAssumption DEF Used
    <2>3. /\ q.free = r.free - 1 /\ At(q, n) = Single(kind, upto)
          /\ \A k \in 0..n-1 : At(q, k) = At(r, k)
        BY <2>1, <2>2, PutAppends
    <2>4. Used(q) = n + 1 /\ q.free # 0
        BY <1>1, <1>2, <2>3, SizeAssumption DEF Used
    <2>5. At(q, n).stamp = upto /\ Weight(At(q, n)) = 1
        BY <2>3 DEF Single, Weight
    <2>6. Traced(q, n + 1, upto + 1) /\ Follows(q, n + 1, upto + 1, 0) = Follows(r, n, upto, 0)
        BY <1>1, <2>2, <2>3, <2>5, AppendTraced
    <2>7. QED  BY <2>4, <2>6 DEF Marked
<1>3. CASE r.free = 1
    <2>1. q = PutOverflow(r, Overflow(upto, 1, 0)) /\ Overflow(upto, 1, 0) \in Event
        BY <1>3, OverflowIsEvent DEF RecordFrame
    <2>2. n \in 0..Size-1 /\ n + 1 = Size
        BY <1>3, SizeAssumption DEF Used
    <2>3. /\ q.free = 0 /\ At(q, n) = Overflow(upto, 1, 0) /\ q.dropped = Position(q, n)
          /\ \A k \in 0..n-1 : At(q, k) = At(r, k)
        BY <2>1, <2>2, PutOverflowAppends
    <2>4. Used(q) = n + 1 /\ Used(q) - 1 = n
        BY <2>2, <2>3, SizeAssumption DEF Used
    <2>5. At(q, n).stamp = upto /\ Weight(At(q, n)) = 1 /\ At(q, n).kind = "overflow"
        BY <2>3 DEF Overflow, Weight
    <2>6. Traced(q, n + 1, upto + 1) /\ Follows(q, n + 1, upto + 1, 0) = Follows(r, n, upto, 0)
        BY <1>1, <2>2, <2>3, <2>5, AppendTraced
    <2>7. QED  BY <2>3, <2>4, <2>5, <2>6 DEF Marked, At
<1>4. CASE r.free = 0
    <2> DEFINE d == [r.slot[r.dropped] EXCEPT !.frames = Sticky(@)]
    <2>1. q = [r EXCEPT !.slot = [r.slot EXCEPT ![r.dropped] = d]]
        BY <1>4 DEF RecordFrame
    <2>2. n = Size
        BY <1>4, SizeAssumption DEF Used
    <2>3. /\ q.free = 0 /\ Marked(q, Size) /\ Traced(q, Size, upto + 1)
          /\ Follows(q, Size, upto + 1, 0) = Follows(r, Size, upto, 0)
        BY <1>1, <1>4, <2>1, <2>2, CountInRing
    <2>4. Used(q) = Size
        BY <2>3, SizeAssumption DEF Used
    <2>5. QED  BY <2>2, <2>3, <2>4
<1>5. QED  BY <1>1, <1>2, <1>3, <1>4

\* NoSilentLoss and OverflowAtBack in the words of the lemmas.
Accounted ==
    /\ Marked(ring, Present)
    /\ Traced(ring, Present, handled)
    /\ delivered.upto <= Follows(ring, Present, handled, 0)
    /\ delivered.exact => delivered.upto = Follows(ring, Present, handled, 0)

LEMMA AccountIsBoth == Accounted <=> OverflowAtBack /\ NoSilentLoss
BY DEF Accounted, Marked, Traced, Follows, OverflowAtBack, NoSilentLoss, Boundary

LEMMA InitAccount == Init => Accounted
<1> SUFFICES ASSUME Init PROVE Accounted
    OBVIOUS
<1>1. Present = 0 /\ ring.free # 0
    BY SizeAssumption DEF Init, Present, Used, EmptyRing
<1>2. QED  BY <1>1 DEF Init, Accounted, Marked, Traced, Follows

\* The account only changes when the handler records an event or the main loop has
\* copied one; the store of free in between is made up for by Present.
LEMMA NextAccount ==
    ASSUME "REJECT_OVERFLOW" \notin Options,
           DrainInv, DrainInv', Accounted, [Next]_vars
    PROVE  Accounted'
<1> USE DEF DrainInv
<1>r. /\ ring \in RingType(Event) /\ Used(ring) \in 0..Size /\ ring.free = Size - Used(ring)
      /\ ring' \in RingType(Event) /\ Used(ring') \in 0..Size /\ handled \in Nat
    <2>1. ring \in RingType(Event) /\ ring' \in RingType(Event) /\ handled \in Nat
        BY DEF TypeOK
    <2>2. ring.free \in 0..Size /\ ring'.free \in 0..Size
        BY <2>1 DEF RingType
    <2>3. QED  BY <2>1, <2>2, SizeAssumption DEF Used
<1>m. main \in [pc : {"idle", "pending", "pop", "store", "copy", "unmask"}, left : 0..Size, free : 0..Size]
    BY DEF TypeOK
<1>1. CASE UNCHANGED <<ring, handled, delivered>> /\ Present' = Present
    BY <1>1 DEF Accounted, Marked, Traced, Follows, At, Position
<1>2. CASE Isr
    <2>1. main.pc = "idle" /\ UNCHANGED <<main, delivered>>
        BY <1>2 DEF Isr, IsrEnter, IsrRead, IsrReturn, IsrError, IsrRx, IsrDismiss, DrainIsAlone
    <2>2. Present = Used(ring) /\ Present' = Used(ring')
        BY <1>r, <2>1 DEF Present
    <2>3. IndicesAgree(ring, Used(ring)) /\ Marked(ring, Used(ring)) /\ Traced(ring, Used(ring), handled)
        BY <2>2 DEF RingConsistent, Accounted
    <2>4. CASE UNCHANGED <<ring, handled>>
        BY <1>1, <2>1, <2>2, <2>4 DEF Used
    <2>5. CASE IsrError /\ "RECV_ERRORS" \in Options
        <3>1. ring' = RecordError(ring, handled) /\ handled' = handled + 1
            BY <2>5 DEF IsrError
        <3>2. /\ Marked(ring', Used(ring')) /\ Traced(ring', Used(ring'), handled')
              /\ Follows(ring', Used(ring'), handled', 0) = Follows(ring, Used(ring), handled, 0)
            BY <1>r, <2>3, <3>1, RecordErrorTraced
        <3>3. QED  BY <2>1, <2>2, <3>2 DEF Accounted
    <2>6. CASE IsrRx
        <3>1. handled' = handled + 1
            BY <2>6 DEF IsrRx
        <3>2. PICK kind \in EventKinds \ {"overflow"} : ring' = RecordFrame(ring, kind, handled)
            BY <2>6, RecordedKind
        <3>3. /\ Marked(ring', Used(ring')) /\ Traced(ring', Used(ring'), handled')
              /\ Follows(ring', Used(ring'), handled', 0) = Follows(ring, Used(ring), handled, 0)
            BY <1>r, <2>3, <3>1, <3>2, RecordFrameTraced
        <3>4. QED  BY <2>1, <2>2, <3>3 DEF Accounted
    <2>7. QED
        BY <1>2, <2>4, <2>5, <2>6 DEF Isr, IsrEnter, IsrRead, IsrReturn, IsrError, IsrDismiss
<1>3. CASE PopStore
    <2>1. /\ main.pc = "store" /\ main' = [main EXCEPT !.pc = "copy", !.free = 0]
          /\ ring' = [ring EXCEPT !.free = main.free + 1] /\ UNCHANGED <<handled, delivered>>
        BY <1>3 DEF PopStore, MainAt
    <2>2. main.free = ring.free /\ main'.pc = "copy"
        BY <1>m, <2>1 DEF DrainProgress
    <2>3. ring'.free = ring.free + 1 /\ ring'.head = ring.head /\ ring'.slot = ring.slot
        BY <1>r, <2>1, <2>2 DEF RingType
    <2>4. Present' = Present /\ ring'.free # 0
        BY <1>r, <2>1, <2>2, <2>3, SizeAssumption DEF Present, Used, RingType
    <2>5. \A k : At(ring', k) = At(ring, k)
        BY <2>3 DEF At, Position
    <2>6. QED  BY <2>1, <2>4, <2>5 DEF Accounted, Marked, Traced, Follows
<1>4. CASE PopCopy
    <2>1. /\ main.pc = "copy" /\ ring' = AdvanceHead(ring) /\ handled' = handled
          /\ main' = [main EXCEPT !.pc = AfterPop(main.left), !.left = @ - 1]
          /\ delivered' = [upto |-> At(ring, 0).stamp + Weight(At(ring, 0)), exact |-> Exact(At(ring, 0))]
        BY <1>4 DEF PopCopy, MainAt
    <2>2. main'.pc # "copy"
        BY <1>m, <2>1 DEF AfterPop
    <2>3. Present = Used(ring) + 1 /\ Present \in 1..Size /\ ring.free > 0
        BY <1>r, <2>1, SizeAssumption DEF Present, DrainProgress
    <2>4. /\ ring'.free = ring.free
          /\ \A k \in 0..Present-2 : At(ring', k) = At(ring, k + 1)
        BY <1>r, <2>1, <2>3, AdvanceHeadPops DEF RingConsistent
    <2>5. Present' = Present - 1
        BY <1>r, <2>2, <2>3, <2>4 DEF Present, Used
    <2>6. ASSUME NEW k \in 0..Present-1
          PROVE  Follows(ring', Present', handled', k) = Follows(ring, Present, handled, k + 1)
        BY <2>1, <2>3, <2>4, <2>5 DEF Follows
    <2>7. Traced(ring', Present', handled')
        BY <2>3, <2>4, <2>5, <2>6 DEF Traced, Accounted
    <2>8. /\ delivered'.upto <= Follows(ring', Present', handled', 0)
          /\ delivered'.exact => delivered'.upto = Follows(ring', Present', handled', 0)
        BY <2>1, <2>3, <2>6 DEF Traced, Accounted
    <2>9. Marked(ring', Present')
        BY <2>3, <2>4, SizeAssumption DEF Marked
    <2>10. QED  BY <2>7, <2>8, <2>9 DEF Accounted
<1>5. CASE Main /\ ~PopStore /\ ~PopCopy
    <2>1. /\ UNCHANGED <<ring, handled, delivered>> /\ main.pc # "copy"
          /\ main'.pc # "copy"
        BY <1>5, <1>m DEF Main, GetRxEvents, ReadPending, AllocationFails, PopLoad, Unmask, MainAt, AfterPop
    <2>2. QED  BY <1>1, <2>1 DEF Present, Used
<1>6. CASE UNCHANGED <<ring, handled, delivered, main>>
    BY <1>1, <1>6 DEF Present, Used
<1>7. QED
    BY <1>2, <1>3, <1>4, <1>5, <1>6 DEF Next, ChipReceive, ChipError, vars

\* With the overflow options as the board sets them, no frame or error the handler
\* takes is lost without being counted.
THEOREM NothingIsLostSilently ==
    ASSUME "REJECT_OVERFLOW" \notin Options
    PROVE  Spec => []NoSilentLoss
<1>1. DrainInv /\ DrainInv' /\ Accounted /\ [Next]_vars => Accounted'
    BY NextAccount
<1>2. Accounted => NoSilentLoss
    BY AccountIsBoth
<1>3. QED  BY <1>1, <1>2, InitAccount, DrainInvHolds, PTL DEF Spec

\* The overflow record the handlers count into is the newest event of a full FIFO.
THEOREM OverflowIsAtBack ==
    ASSUME "REJECT_OVERFLOW" \notin Options
    PROVE  Spec => []OverflowAtBack
<1>1. DrainInv /\ DrainInv' /\ Accounted /\ [Next]_vars => Accounted'
    BY NextAccount
<1>2. Accounted => OverflowAtBack
    BY AccountIsBoth
<1>3. QED  BY <1>1, <1>2, InitAccount, DrainInvHolds, PTL DEF Spec

-----------------------------------------------------------------------------
(* The receive path implements the lossy queue.                            *)

\* The queue of LossyQueue that the n events of a ring stand for.
Line(r, n, upto) ==
    [k \in 1..n |-> [from |-> At(r, k - 1).stamp, to |-> Follows(r, n, upto, k),
                     kept |-> At(r, k - 1).kind # "overflow"]]

Span(from, kept) == [from |-> from, to |-> from + 1, kept |-> kept]

\* The two queues s and t before and after an event is seen, the upto-th.
Seen(s, t, upto) ==
    \/ Len(s) < Size - 1 /\ t = Append(s, Span(upto, TRUE))
    \/ Len(s) = Size - 1 /\ t = Append(s, Span(upto, FALSE))
    \/ Len(s) = Size /\ ~s[Size].kept /\ t = [s EXCEPT ![Size].to = @ + 1]

Spans == [from : Nat, to : Nat, kept : BOOLEAN]

LEMMA LineType ==
    ASSUME NEW r \in RingType(Event), NEW n \in 0..Size, NEW upto \in Nat
    PROVE  /\ Line(r, n, upto) \in Seq(Spans) /\ Len(Line(r, n, upto)) = n
           /\ \A k \in 1..n : /\ Line(r, n, upto)[k].from = At(r, k - 1).stamp
                              /\ Line(r, n, upto)[k].to = Follows(r, n, upto, k)
                              /\ Line(r, n, upto)[k].kept = (At(r, k - 1).kind # "overflow")
<1> DEFINE s == Line(r, n, upto)
<1>1. ASSUME NEW k \in 1..n PROVE s[k] \in Spans
    <2>1. At(r, k - 1) \in Event
        <3>1. k - 1 \in 0..Size-1
            BY SizeAssumption
        <3>2. QED  BY <3>1, AtIsEvent
    <2>2. Follows(r, n, upto, k) \in Nat
        <3>1. CASE k < n
            <4>1. k \in 0..Size-1
                BY <3>1, SizeAssumption
            <4>2. At(r, k) \in Event
                BY <4>1, AtIsEvent
            <4>3. QED  BY <3>1, <4>2 DEF Follows, Event
        <3>2. CASE ~(k < n)
            BY <3>2 DEF Follows
        <3>3. QED  BY <3>1, <3>2
    <2>3. QED  BY <2>1, <2>2 DEF Line, Spans, Event
<1>2. s \in [1..n -> Spans]
    BY <1>1 DEF Line
<1>3. n \in Nat
    BY SizeAssumption
<1>4. s \in Seq(Spans) /\ Len(s) = n
    BY <1>2, <1>3
<1>5. QED  BY <1>4 DEF Line

\* An event of its own is one more interval of the queue.
LEMMA LineAppends ==
    ASSUME NEW r \in RingType(Event), NEW q \in RingType(Event), NEW n \in 0..Size-1, NEW upto \in Nat,
           At(q, n).stamp = upto, \A k \in 0..n-1 : At(q, k) = At(r, k)
    PROVE  Line(q, n + 1, upto + 1) = Append(Line(r, n, upto), Span(upto, At(q, n).kind # "overflow"))
<1> DEFINE s == Line(r, n, upto)
           t == Line(q, n + 1, upto + 1)
           e == Span(upto, At(q, n).kind # "overflow")
<1>1. n \in 0..Size /\ n + 1 \in 0..Size /\ upto + 1 \in Nat /\ n \in Nat
    BY SizeAssumption
<1>2. s \in Seq(Spans) /\ Len(s) = n /\ t \in Seq(Spans) /\ Len(t) = n + 1
    BY <1>1, LineType
<1>3. e \in Spans
    BY DEF Span, Spans
<1>4. ASSUME NEW k \in 1..n PROVE t[k] = s[k]
    <2>1. At(q, k - 1) = At(r, k - 1) /\ k \in 1..n+1
        BY <1>1
    <2>2. Follows(q, n + 1, upto + 1, k) = Follows(r, n, upto, k)
        <3>1. CASE k < n
            BY <1>1, <3>1 DEF Follows
        <3>2. CASE k = n
            BY <1>1, <3>2 DEF Follows
        <3>3. QED  BY <3>1, <3>2
    <2>3. QED  BY <2>1, <2>2 DEF Line
<1>5. t[n + 1] = e
    <2>1. n + 1 \in 1..n+1 /\ (n + 1) - 1 = n
        BY <1>1
    <2>2. Follows(q, n + 1, upto + 1, n + 1) = upto + 1
        BY DEF Follows
    <2>3. QED  BY <2>1, <2>2 DEF Line, Span
<1> DEFINE u == Append(s, e)
<1> HIDE DEF s, t, e
<1>6. u \in Seq(Spans) /\ Len(u) = n + 1 /\ u[n + 1] = e /\ \A k \in 1..n : u[k] = s[k]
    BY <1>1, <1>2, <1>3
<1>7. \A k \in 1..n+1 : t[k] = u[k]
    <2> SUFFICES ASSUME NEW k \in 1..n+1 PROVE t[k] = u[k]
        OBVIOUS
    <2>1. k \in 1..n \/ k = n + 1
        BY <1>1
    <2>2. QED  BY <1>4, <1>5, <1>6, <2>1
<1> HIDE DEF u
<1>8. t = u
    BY <1>2, <1>6, <1>7, SeqEqual
<1>9. QED  BY <1>8 DEF s, t, e, u

\* An event counted into the record at the back makes its interval longer.
LEMMA LineCounts ==
    ASSUME NEW r \in RingType(Event), NEW q \in RingType(Event), NEW n \in 1..Size, NEW upto \in Nat,
           At(q, n - 1).stamp = At(r, n - 1).stamp,
           At(q, n - 1).kind = "overflow", At(r, n - 1).kind = "overflow",
           \A k \in 0..n-2 : At(q, k) = At(r, k)
    PROVE  /\ ~Line(r, n, upto)[n].kept
           /\ Line(q, n, upto + 1) = [Line(r, n, upto) EXCEPT ![n].to = @ + 1]
<1> DEFINE s == Line(r, n, upto)
           t == Line(q, n, upto + 1)
           u == [s EXCEPT ![n].to = @ + 1]
<1>1. n \in 0..Size /\ upto + 1 \in Nat /\ n \in Nat /\ n \in 1..n
    BY SizeAssumption
<1>2. s = [k \in 1..n |-> s[k]] /\ t = [k \in 1..n |-> t[k]]
    BY DEF Line
<1>3. ASSUME NEW k \in 1..n, k # n PROVE t[k] = s[k]
    <2>1. At(q, k - 1) = At(r, k - 1)
        BY <1>1, <1>3
    <2>2. Follows(q, n, upto + 1, k) = Follows(r, n, upto, k)
        <3>1. CASE k < n - 1
            BY <1>1, <3>1 DEF Follows
        <3>2. CASE k = n - 1
            BY <1>1, <3>2 DEF Follows
        <3>3. QED  BY <1>1, <1>3, <3>1, <3>2
    <2>3. QED  BY <2>1, <2>2 DEF Line
<1>4. /\ s[n] = [from |-> At(r, n - 1).stamp, to |-> upto, kept |-> FALSE]
      /\ t[n] = [from |-> At(r, n - 1).stamp, to |-> upto + 1, kept |-> FALSE]
    <2>1. Follows(r, n, upto, n) = upto /\ Follows(q, n, upto + 1, n) = upto + 1
        BY DEF Follows
    <2>2. QED  BY <1>1, <2>1 DEF Line
<1> HIDE DEF s, t
<1>5. t[n] = [s[n] EXCEPT !.to = @ + 1] /\ ~s[n].kept
    <2> DEFINE a == At(r, n - 1).stamp
    <2>1. s[n] = [from |-> a, to |-> upto, kept |-> FALSE] /\ t[n] = [from |-> a, to |-> upto + 1, kept |-> FALSE]
        BY <1>4
    <2> HIDE DEF a
    <2>2. s[n].to = upto /\ s[n].from = a
        BY <2>1
    <2>3. s[n].kept = FALSE
        BY <2>1
    <2>4. s[n] = [from |-> s[n].from, to |-> s[n].to, kept |-> s[n].kept]
        BY <2>1, <2>2, <2>3
    <2>5. [s[n] EXCEPT !.to = @ + 1] = [from |-> s[n].from, to |-> s[n].to + 1, kept |-> s[n].kept]
        BY <2>4
    <2>6. QED  BY <2>1, <2>2, <2>3, <2>5
<1>6. u = [k \in 1..n |-> IF k = n THEN [s[n] EXCEPT !.to = @ + 1] ELSE s[k]]
    BY <1>1, <1>2
<1>7. t = u
    BY <1>2, <1>3, <1>5, <1>6
<1>8. QED  BY <1>5, <1>7 DEF s, t

\* What is kept of an event, or counted, when the ring has room for it or has not.
LEMMA KeptIsSeen ==
    ASSUME NEW r \in RingType(Event), IndicesAgree(r, Used(r)), NEW upto \in Nat,
           NEW e \in Event, e.stamp = upto, r.free > 1, e.kind # "overflow"
    PROVE  Seen(Line(r, Used(r), upto), Line(Put(r, e), Used(Put(r, e)), upto + 1), upto)
<1> DEFINE q == Put(r, e)
           n == Used(r)
<1>1. r.free \in 0..Size /\ n \in 0..Size-1 /\ n < Size - 1 /\ n \in 0..Size
    BY SizeAssumption DEF RingType, Used
<1>2. /\ q \in RingType(Event) /\ q.free = r.free - 1 /\ At(q, n) = e
      /\ \A k \in 0..n-1 : At(q, k) = At(r, k)
    BY <1>1, PutAppends
<1>3. Used(q) = n + 1
    BY <1>1, <1>2, SizeAssumption DEF Used
<1> HIDE DEF q, n
<1>4. Line(q, n + 1, upto + 1) = Append(Line(r, n, upto), Span(upto, At(q, n).kind # "overflow"))
    BY <1>1, <1>2, LineAppends
<1>5. (At(q, n).kind # "overflow") = TRUE
    BY <1>2
<1>6. Len(Line(r, n, upto)) = n
    BY <1>1, LineType
<1>7. QED  BY <1>1, <1>3, <1>4, <1>5, <1>6 DEF Seen, q, n

LEMMA FirstDropIsSeen ==
    ASSUME NEW r \in RingType(Event), IndicesAgree(r, Used(r)), NEW upto \in Nat,
           NEW e \in Event, e.stamp = upto, r.free = 1, e.kind = "overflow"
    PROVE  Seen(Line(r, Used(r), upto), Line(PutOverflow(r, e), Used(PutOverflow(r, e)), upto + 1), upto)
<1> DEFINE q == PutOverflow(r, e)
           n == Used(r)
<1>1. n \in 0..Size-1 /\ n = Size - 1 /\ n \in 0..Size /\ n + 1 = Size
    BY SizeAssumption DEF Used
<1>2. /\ q \in RingType(Event) /\ q.free = 0 /\ At(q, n) = e
      /\ \A k \in 0..n-1 : At(q, k) = At(r, k)
    BY <1>1, PutOverflowAppends
<1>3. Used(q) = n + 1
    BY <1>1, <1>2, SizeAssumption DEF Used
<1> HIDE DEF q, n
<1>4. Line(q, n + 1, upto + 1) = Append(Line(r, n, upto), Span(upto, At(q, n).kind # "overflow"))
    BY <1>1, <1>2, LineAppends
<1>5. (At(q, n).kind # "overflow") = FALSE
    BY <1>2
<1>6. Len(Line(r, n, upto)) = n
    BY <1>1, LineType
<1>7. QED  BY <1>1, <1>3, <1>4, <1>5, <1>6 DEF Seen, q, n

LEMMA CountIsSeen ==
    ASSUME NEW r \in RingType(Event), r.free = 0, Marked(r, Used(r)), NEW upto \in Nat,
           NEW q \in RingType(Event), NEW d \in Event,
           d.stamp = r.slot[r.dropped].stamp, d.kind = "overflow",
           q = [r EXCEPT !.slot = [r.slot EXCEPT ![r.dropped] = d]]
    PROVE  Seen(Line(r, Used(r), upto), Line(q, Used(q), upto + 1), upto)
<1>1. Used(r) = Size /\ Size \in 1..Size /\ Size \in 0..Size
    BY SizeAssumption DEF Used
<1>2. /\ r.dropped = Position(r, Size - 1) /\ r.slot[r.dropped].kind = "overflow"
      /\ r.dropped \in Slots /\ r.slot \in [Slots -> Event]
    BY <1>1 DEF Marked, RingType
<1>3. /\ q.slot = [r.slot EXCEPT ![r.dropped] = d] /\ q.free = 0 /\ q.head = r.head
    BY DEF RingType
<1>4. \A k \in 0..Size-1 : Position(q, k) = Position(r, k)
    BY <1>3 DEF Position
<1>5. At(r, Size - 1) = r.slot[r.dropped] /\ At(q, Size - 1) = d
    <2>1. Size - 1 \in 0..Size-1
        BY SizeAssumption
    <2>2. QED  BY <1>2, <1>3, <1>4, <2>1 DEF At
<1>6. ASSUME NEW k \in 0..Size-2 PROVE At(q, k) = At(r, k)
    <2>1. k \in 0..Size-1 /\ k # Size - 1 /\ Size - 1 \in 0..Size-1
        BY SizeAssumption
    <2>2. Position(r, k) # r.dropped /\ Position(r, k) \in Slots
        BY <1>2, <2>1, PositionInjective, PositionIsSlot
    <2>3. QED  BY <1>2, <1>3, <1>4, <2>1, <2>2 DEF At
<1>7. /\ ~Line(r, Size, upto)[Size].kept
      /\ Line(q, Size, upto + 1) = [Line(r, Size, upto) EXCEPT ![Size].to = @ + 1]
    BY <1>1, <1>2, <1>5, <1>6, LineCounts
<1>8. Used(q) = Size /\ Len(Line(r, Size, upto)) = Size
    BY <1>1, <1>3, LineType DEF Used
<1>9. QED  BY <1>1, <1>7, <1>8 DEF Seen

LEMMA ErrorIsSeen ==
    ASSUME NEW r \in RingType(Event), IndicesAgree(r, Used(r)), Marked(r, Used(r)), NEW upto \in Nat
    PROVE  Seen(Line(r, Used(r), upto), Line(RecordError(r, upto), Used(RecordError(r, upto)), upto + 1), upto)
<1> DEFINE q == RecordError(r, upto)
<1>1. r.free \in 0..Size /\ q \in RingType(Event)
    BY RecordErrorShape DEF RingType
<1>2. CASE r.free > 1
    <2> DEFINE e == Single("error", upto)
    <2>1. q = Put(r, e) /\ e \in Event
        BY <1>2, SingleIsEvent DEF RecordError, EventKinds
    <2>2. e.stamp = upto /\ e.kind # "overflow"
        BY DEF Single
    <2> HIDE DEF q, e
    <2>3. Seen(Line(r, Used(r), upto), Line(q, Used(q), upto + 1), upto)
        BY <1>2, <2>1, <2>2, KeptIsSeen
    <2>4. QED  BY <2>3 DEF q
<1>3. CASE r.free = 1
    <2> DEFINE e == Overflow(upto, 0, 1)
    <2>1. q = PutOverflow(r, e) /\ e \in Event
        BY <1>3, OverflowIsEvent DEF RecordError
    <2>2. e.stamp = upto /\ e.kind = "overflow"
        BY DEF Overflow
    <2> HIDE DEF q, e
    <2>3. Seen(Line(r, Used(r), upto), Line(q, Used(q), upto + 1), upto)
        BY <1>3, <2>1, <2>2, FirstDropIsSeen
    <2>4. QED  BY <2>3 DEF q
<1>4. CASE r.free = 0
    <2> DEFINE d == [r.slot[r.dropped] EXCEPT !.errors = Sticky(@)]
    <2>1. q = [r EXCEPT !.slot = [r.slot EXCEPT ![r.dropped] = d]]
        BY <1>4 DEF RecordError
    <2>2. r.slot[r.dropped] \in Event /\ r.slot[r.dropped].kind = "overflow"
        BY <1>4 DEF Marked, RingType
    <2>3. d \in Event /\ d.stamp = r.slot[r.dropped].stamp /\ d.kind = "overflow"
        BY <2>2, StickyType DEF Event
    <2> HIDE DEF q, d
    <2>4. Seen(Line(r, Used(r), upto), Line(q, Used(q), upto + 1), upto)
        BY <1>1, <1>4, <2>1, <2>3, CountIsSeen
    <2>5. QED  BY <2>4 DEF q
<1>5. QED  BY <1>1, <1>2, <1>3, <1>4

LEMMA FrameIsSeen ==
    ASSUME NEW r \in RingType(Event), IndicesAgree(r, Used(r)), Marked(r, Used(r)), NEW upto \in Nat,
           NEW kind \in EventKinds \ {"overflow"}, "REJECT_OVERFLOW" \notin Options
    PROVE  Seen(Line(r, Used(r), upto),
                Line(RecordFrame(r, kind, upto), Used(RecordFrame(r, kind, upto)), upto + 1), upto)
<1> DEFINE q == RecordFrame(r, kind, upto)
<1>1. r.free \in 0..Size /\ q \in RingType(Event)
    BY RecordFrameShape DEF RingType
<1>2. CASE r.free > 1
    <2> DEFINE e == Single(kind, upto)
    <2>1. q = Put(r, e) /\ e \in Event
        BY <1>2, SingleIsEvent DEF RecordFrame
    <2>2. e.stamp = upto /\ e.kind # "overflow"
        BY DEF Single
    <2> HIDE DEF q, e
    <2>3. Seen(Line(r, Used(r), upto), Line(q, Used(q), upto + 1), upto)
        BY <1>2, <2>1, <2>2, KeptIsSeen
    <2>4. QED  BY <2>3 DEF q
<1>3. CASE r.free = 1
    <2> DEFINE e == Overflow(upto, 1, 0)
    <2>1. q = PutOverflow(r, e) /\ e \in Event
        BY <1>3, OverflowIsEvent DEF RecordFrame
    <2>2. e.stamp = upto /\ e.kind = "overflow"
        BY DEF Overflow
    <2> HIDE DEF q, e
    <2>3. Seen(Line(r, Used(r), upto), Line(q, Used(q), upto + 1), upto)
        BY <1>3, <2>1, <2>2, FirstDropIsSeen
    <2>4. QED  BY <2>3 DEF q
<1>4. CASE r.free = 0
    <2> DEFINE d == [r.slot[r.dropped] EXCEPT !.frames = Sticky(@)]
    <2>1. q = [r EXCEPT !.slot = [r.slot EXCEPT ![r.dropped] = d]]
        BY <1>4 DEF RecordFrame
    <2>2. r.slot[r.dropped] \in Event /\ r.slot[r.dropped].kind = "overflow"
        BY <1>4 DEF Marked, RingType
    <2>3. d \in Event /\ d.stamp = r.slot[r.dropped].stamp /\ d.kind = "overflow"
        BY <2>2, StickyType DEF Event
    <2> HIDE DEF q, d
    <2>4. Seen(Line(r, Used(r), upto), Line(q, Used(q), upto + 1), upto)
        BY <1>1, <1>4, <2>1, <2>3, CountIsSeen
    <2>5. QED  BY <2>4 DEF q
<1>5. QED  BY <1>1, <1>2, <1>3, <1>4

\* Under the account, the queue and what was told are those of the abstract queue.
Queue == [k \in 1..Present |-> Account(k - 1)]

LEMMA QueueIsLine ==
    ASSUME DrainInv, Accounted
    PROVE  /\ Queue = Line(ring, Present, handled) /\ Told = Follows(ring, Present, handled, 0)
           /\ Present \in 0..Size
<1>1. Present \in 0..Size
    <2>1. ring.free \in 0..Size /\ (main.pc = "copy" => ring.free > 0)
        BY DEF DrainInv, TypeOK, RingType, DrainProgress
    <2>2. QED  BY <2>1, SizeAssumption DEF Present, Used
<1>2. Told = Follows(ring, Present, handled, 0)
    BY DEF Accounted, Told, Follows, Boundary
<1>3. ASSUME NEW k \in 1..Present
      PROVE  Account(k - 1) = [from |-> At(ring, k - 1).stamp, to |-> Follows(ring, Present, handled, k),
                               kept |-> At(ring, k - 1).kind # "overflow"]
    <2>1. k - 1 \in 0..Present-1 /\ (k - 1) + 1 = k
        BY <1>1
    <2>2. Exact(At(ring, k - 1)) =>
            At(ring, k - 1).stamp + Weight(At(ring, k - 1)) = Follows(ring, Present, handled, k)
        BY <2>1 DEF Accounted, Traced
    <2>3. Boundary((k - 1) + 1) = Follows(ring, Present, handled, k)
        BY <2>1 DEF Boundary, Follows
    <2>4. QED  BY <2>2, <2>3 DEF Account
<1>4. Queue = Line(ring, Present, handled)
    BY <1>3 DEF Queue, Line
<1>5. QED  BY <1>1, <1>2, <1>4

\* Without its oldest event the ring stands for the rest of the queue.
LEMMA LinePops ==
    ASSUME NEW r \in RingType(Event), NEW q \in RingType(Event), NEW n \in 1..Size, NEW upto \in Nat,
           \A k \in 0..n-2 : At(q, k) = At(r, k + 1)
    PROVE  /\ Line(r, n, upto) # <<>> /\ Line(q, n - 1, upto) = Tail(Line(r, n, upto))
           /\ Head(Line(r, n, upto)).to = Follows(r, n, upto, 1)
           /\ Follows(q, n - 1, upto, 0) = Follows(r, n, upto, 1)
<1> DEFINE s == Line(r, n, upto)
           t == Line(q, n - 1, upto)
<1>1. n \in 0..Size /\ n - 1 \in 0..Size /\ n \in Nat /\ 1 \in 1..n
    BY SizeAssumption
<1>2. /\ s \in Seq(Spans) /\ Len(s) = n /\ t \in Seq(Spans) /\ Len(t) = n - 1
      /\ s[1].to = Follows(r, n, upto, 1)
    BY <1>1, LineType
<1>3. ASSUME NEW k \in 0..n-1 PROVE Follows(q, n - 1, upto, k) = Follows(r, n, upto, k + 1)
    <2>1. CASE k < n - 1
        <3>1. k \in 0..n-2 /\ k + 1 < n
            BY <1>1, <2>1
        <3>2. QED  BY <2>1, <3>1 DEF Follows
    <2>2. CASE k = n - 1
        BY <1>1, <2>2 DEF Follows
    <2>3. QED  BY <1>1, <2>1, <2>2
<1>4. ASSUME NEW k \in 1..n-1 PROVE t[k] = s[k + 1]
    <2>1. k - 1 \in 0..n-2 /\ (k + 1) - 1 = (k - 1) + 1 /\ k + 1 \in 1..n /\ k \in 0..n-1
        BY <1>1
    <2>2. At(q, k - 1) = At(r, (k + 1) - 1)
        BY <2>1
    <2>3. Follows(q, n - 1, upto, k) = Follows(r, n, upto, k + 1)
        BY <1>3, <2>1
    <2>4. QED  BY <2>1, <2>2, <2>3 DEF Line
<1> HIDE DEF s, t
<1>5. s # <<>> /\ Head(s) = s[1]
    BY <1>1, <1>2
<1>6. t = Tail(s)
    <2>1. /\ Tail(s) \in Seq(Spans) /\ Len(Tail(s)) = n - 1
          /\ \A k \in 1..Len(Tail(s)) : Tail(s)[k] = s[k + 1]
        BY <1>2, <1>5, HeadTailProperties
    <2>2. QED  BY <1>2, <1>4, <2>1, SeqEqual
<1>7. Follows(q, n - 1, upto, 0) = Follows(r, n, upto, 1)
    <2>1. 0 \in 0..n-1 /\ 0 + 1 = 1
        BY <1>1
    <2>2. QED  BY <1>3, <2>1
<1>8. QED  BY <1>2, <1>5, <1>6, <1>7 DEF s, t

\* An event the handler records, or counts, is seen by the abstract queue ...
LEMMA SeenIsSee ==
    ASSUME Len(Queue) \in Nat, Seen(Queue, Queue', handled), handled' = handled + 1, Told' = Told
    PROVE  Promise!Next
<1>1. CASE Len(Queue) < Size - 1 /\ Queue' = Append(Queue, Span(handled, TRUE))
    <2>1. Promise!Keep
        BY <1>1 DEF Promise!Keep, Span, Queue
    <2>2. QED  BY <2>1 DEF Promise!See, Promise!Next
<1>2. CASE Len(Queue) = Size - 1 /\ Queue' = Append(Queue, Span(handled, FALSE))
    <2>1. Promise!StartDropping
        BY <1>2 DEF Promise!StartDropping, Span, Queue
    <2>2. QED  BY <2>1 DEF Promise!See, Promise!Next
<1>3. CASE Len(Queue) = Size /\ ~Queue[Size].kept /\ Queue' = [Queue EXCEPT ![Size].to = @ + 1]
    <2>1. Promise!Drop
        BY <1>3 DEF Promise!Drop, Queue
    <2>2. QED  BY <2>1 DEF Promise!See, Promise!Next
<1>4. QED  BY <1>1, <1>2, <1>3 DEF Seen

\* ... and every other step but a pop leaves that queue as it is.
LEMMA NextPromise ==
    ASSUME "REJECT_OVERFLOW" \notin Options,
           DrainInv, DrainInv', Accounted, Accounted', [Next]_vars
    PROVE  [Promise!Next]_(Promise!vars)
<1>1. /\ Queue = Line(ring, Present, handled) /\ Told = Follows(ring, Present, handled, 0)
      /\ Present \in 0..Size
    BY QueueIsLine
<1>2. /\ Queue' = Line(ring', Present', handled') /\ Told' = Follows(ring', Present', handled', 0)
      /\ Present' \in 0..Size
    <2>1. (DrainInv /\ Accounted =>
             /\ Queue = Line(ring, Present, handled) /\ Told = Follows(ring, Present, handled, 0)
             /\ Present \in 0..Size)'
        BY QueueIsLine, PTL
    <2>2. QED  BY <2>1
<1>3. /\ ring \in RingType(Event) /\ ring' \in RingType(Event) /\ handled \in Nat
      /\ ring.free = Size - Used(ring) /\ Used(ring) \in 0..Size /\ Used(ring') \in 0..Size
    <2>1. ring \in RingType(Event) /\ ring' \in RingType(Event) /\ handled \in Nat
        BY DEF DrainInv, TypeOK
    <2>2. ring.free \in 0..Size /\ ring'.free \in 0..Size
        BY <2>1 DEF RingType
    <2>3. QED  BY <2>1, <2>2, SizeAssumption DEF Used
<1>m. main \in [pc : {"idle", "pending", "pop", "store", "copy", "unmask"}, left : 0..Size, free : 0..Size]
    BY DEF DrainInv, TypeOK
<1>4. Len(Queue) \in Nat
    BY <1>1, <1>3, LineType
<1>5. ASSUME UNCHANGED <<Queue, handled, Told>> PROVE UNCHANGED Promise!vars
    BY <1>5 DEF Promise!vars, Queue
<1>6. CASE UNCHANGED <<ring, handled>> /\ Present' = Present
    <2>1. UNCHANGED <<Queue, handled, Told>>
        BY <1>1, <1>2, <1>6 DEF Line, Follows, At, Position
    <2>2. QED  BY <1>5, <2>1
<1>7. CASE Isr
    <2>1. main.pc = "idle" /\ UNCHANGED main
        BY <1>7 DEF Isr, IsrEnter, IsrRead, IsrReturn, IsrError, IsrRx, IsrDismiss, DrainInv, DrainIsAlone
    <2>2. Present = Used(ring) /\ Present' = Used(ring')
        BY <1>3, <2>1 DEF Present
    <2>3. IndicesAgree(ring, Used(ring)) /\ Marked(ring, Used(ring)) /\ Traced(ring, Used(ring), handled)
        BY <2>2 DEF DrainInv, RingConsistent, Accounted
    <2>4. CASE UNCHANGED <<ring, handled>>
        BY <1>6, <2>1, <2>2, <2>4 DEF Used
    <2>5. CASE IsrError /\ "RECV_ERRORS" \in Options
        <3>1. ring' = RecordError(ring, handled) /\ handled' = handled + 1
            BY <2>5 DEF IsrError
        <3>2. Follows(ring', Used(ring'), handled', 0) = Follows(ring, Used(ring), handled, 0)
            BY <1>3, <2>3, <3>1, RecordErrorTraced
        <3>3. Seen(Line(ring, Used(ring), handled), Line(ring', Used(ring'), handled'), handled)
            BY <1>3, <2>3, <3>1, ErrorIsSeen
        <3>4. QED  BY <1>1, <1>2, <1>4, <2>2, <3>1, <3>2, <3>3, SeenIsSee
    <2>6. CASE IsrRx
        <3>1. handled' = handled + 1
            BY <2>6 DEF IsrRx
        <3>2. PICK kind \in EventKinds \ {"overflow"} : ring' = RecordFrame(ring, kind, handled)
            BY <2>6, RecordedKind DEF DrainInv
        <3>3. Follows(ring', Used(ring'), handled', 0) = Follows(ring, Used(ring), handled, 0)
            BY <1>3, <2>3, <3>1, <3>2, RecordFrameTraced
        <3>4. Seen(Line(ring, Used(ring), handled), Line(ring', Used(ring'), handled'), handled)
            BY <1>3, <2>3, <3>1, <3>2, FrameIsSeen
        <3>5. QED  BY <1>1, <1>2, <1>4, <2>2, <3>1, <3>3, <3>4, SeenIsSee
    <2>7. QED
        BY <1>7, <2>4, <2>5, <2>6 DEF Isr, IsrEnter, IsrRead, IsrReturn, IsrError, IsrDismiss
<1>8. CASE PopStore
    <2>1. /\ main.pc = "store" /\ main' = [main EXCEPT !.pc = "copy", !.free = 0]
          /\ ring' = [ring EXCEPT !.free = main.free + 1] /\ handled' = handled
        BY <1>8 DEF PopStore, MainAt
    <2>2. main.free = ring.free /\ main'.pc = "copy"
        BY <1>m, <2>1 DEF DrainInv, DrainProgress
    <2>3. ring'.free = ring.free + 1 /\ ring'.head = ring.head /\ ring'.slot = ring.slot
        BY <1>3, <2>1, <2>2 DEF RingType
    <2>4. Present' = Present
        BY <1>3, <2>1, <2>2, <2>3, SizeAssumption DEF Present, Used, RingType
    <2>5. \A k : At(ring', k) = At(ring, k)
        BY <2>3 DEF At, Position
    <2>6. UNCHANGED <<Queue, handled, Told>>
        BY <1>1, <1>2, <2>1, <2>4, <2>5 DEF Line, Follows
    <2>7. QED  BY <1>5, <2>6
<1>9. CASE PopCopy
    <2>1. /\ main.pc = "copy" /\ ring' = AdvanceHead(ring) /\ handled' = handled
          /\ main' = [main EXCEPT !.pc = AfterPop(main.left), !.left = @ - 1]
        BY <1>9 DEF PopCopy, MainAt
    <2>2. main'.pc # "copy"
        BY <1>m, <2>1 DEF AfterPop
    <2>3. Present = Used(ring) + 1 /\ Present \in 1..Size
        BY <1>3, <2>1, SizeAssumption DEF Present, DrainInv, DrainProgress
    <2>4. /\ ring'.free = ring.free
          /\ \A k \in 0..Present-2 : At(ring', k) = At(ring, k + 1)
        BY <1>3, <2>1, <2>3, AdvanceHeadPops DEF DrainInv, RingConsistent
    <2>5. Present' = Present - 1
        BY <1>3, <2>2, <2>3, <2>4 DEF Present, Used
    <2>6. /\ Queue # <<>> /\ Queue' = Tail(Queue) /\ Told' = Head(Queue).to
        <3>1. /\ Line(ring, Present, handled) # <<>>
              /\ Line(ring', Present - 1, handled) = Tail(Line(ring, Present, handled))
              /\ Head(Line(ring, Present, handled)).to = Follows(ring, Present, handled, 1)
              /\ Follows(ring', Present - 1, handled, 0) = Follows(ring, Present, handled, 1)
            BY <1>3, <2>3, <2>4, LinePops
        <3>2. QED  BY <1>1, <1>2, <2>1, <2>5, <3>1
    <2>7. Promise!Deliver
        BY <2>1, <2>6 DEF Promise!Deliver, Queue
    <2>8. QED  BY <2>7 DEF Promise!Next
<1>10. CASE Main /\ ~PopStore /\ ~PopCopy
    <2>1. UNCHANGED <<ring, handled>> /\ main.pc # "copy" /\ main'.pc # "copy"
        BY <1>10, <1>m DEF Main, GetRxEvents, ReadPending, AllocationFails, PopLoad, Unmask, MainAt, AfterPop
    <2>2. QED  BY <1>6, <2>1 DEF Present, Used
<1>11. CASE UNCHANGED <<ring, handled, main>>
    BY <1>6, <1>11 DEF Present, Used
<1>12. QED
    BY <1>7, <1>8, <1>9, <1>10, <1>11 DEF Next, ChipReceive, ChipError, vars

\* The receive path is a lossy queue, but for the host's polling, which fairness is for:
\* an event is kept, or counted at the back while the queue is full, and the host gets
\* the oldest of them.
THEOREM QueueIsImplemented ==
    ASSUME "REJECT_OVERFLOW" \notin Options
    PROVE  Spec => Promise!Init /\ [][Promise!Next]_(Promise!vars)
<1>1. Init => Promise!Init
    <2> SUFFICES ASSUME Init PROVE Promise!Init
        OBVIOUS
    <2>1. DrainInv /\ Accounted
        BY InitDrainInv, InitAccount
    <2>2. Present = 0 /\ handled = 0
        BY SizeAssumption DEF Init, Present, Used, EmptyRing
    <2>3. Queue = <<>>
        BY <2>2 DEF Queue
    <2>4. Told = 0
        BY DEF Init, Told
    <2>5. QED  BY <2>2, <2>3, <2>4 DEF Promise!Init, Queue
<1>2. DrainInv /\ DrainInv' /\ Accounted /\ [Next]_vars => Accounted'
    BY NextAccount
<1>3. DrainInv /\ DrainInv' /\ Accounted /\ Accounted' /\ [Next]_vars => [Promise!Next]_(Promise!vars)
    BY NextPromise
<1>4. QED  BY <1>1, <1>2, <1>3, InitAccount, DrainInvHolds, PTL DEF Spec

-----------------------------------------------------------------------------
(* What the host can rely on: the queue leaves no gap and counts nothing twice. *)

\* Contiguous of any queue s, from what was told to what was seen.
Adjacent(s, upto, from) ==
    LET begin(k) == IF k <= Len(s) THEN s[k].from ELSE upto
    IN /\ from = begin(1)
       /\ \A k \in 1..Len(s) : s[k].from < s[k].to /\ s[k].to = begin(k + 1)

\* One more interval, or a longer last one, ends where the next event begins.
LEMMA AppendedIsAdjacent ==
    ASSUME NEW s \in Seq(Spans), NEW upto \in Nat, NEW from \in Nat, NEW kept \in BOOLEAN,
           Adjacent(s, upto, from)
    PROVE  Adjacent(Append(s, Span(upto, kept)), upto + 1, from)
<1> DEFINE t == Append(s, Span(upto, kept))
<1>1. /\ Len(s) \in Nat /\ Len(t) = Len(s) + 1
      /\ \A k \in 1..Len(s) : t[k] = s[k] /\ s[k] \in Spans
      /\ t[Len(s) + 1] = Span(upto, kept)
    OBVIOUS
<1>2. /\ t[Len(s) + 1].from = upto /\ t[Len(s) + 1].to = upto + 1
    BY <1>1 DEF Span
<1> HIDE DEF t
<1>3. from = IF 1 <= Len(t) THEN t[1].from ELSE upto + 1
    BY <1>1, <1>2 DEF Adjacent
<1>4. ASSUME NEW k \in 1..Len(t)
      PROVE  /\ t[k].from < t[k].to
             /\ t[k].to = IF k + 1 <= Len(t) THEN t[k + 1].from ELSE upto + 1
    <2>1. CASE k = Len(s) + 1
        BY <1>1, <1>2, <2>1
    <2>2. CASE k \in 1..Len(s)
        <3>1. s[k].from < s[k].to /\ s[k].to = IF k + 1 <= Len(s) THEN s[k + 1].from ELSE upto
            BY <2>2 DEF Adjacent
        <3>2. CASE k = Len(s)
            BY <1>1, <1>2, <2>2, <3>1, <3>2
        <3>3. CASE k + 1 \in 1..Len(s)
            BY <1>1, <2>2, <3>1, <3>3
        <3>4. QED  BY <1>1, <2>2, <3>2, <3>3
    <2>3. QED  BY <1>1, <2>1, <2>2
<1>5. QED  BY <1>3, <1>4 DEF Adjacent, t

LEMMA ExtendedIsAdjacent ==
    ASSUME NEW s \in Seq(Spans), NEW upto \in Nat, NEW from \in Nat, Len(s) > 0,
           Adjacent(s, upto, from)
    PROVE  Adjacent([s EXCEPT ![Len(s)].to = @ + 1], upto + 1, from)
<1> DEFINE n == Len(s)
           t == [s EXCEPT ![n].to = @ + 1]
<1>1. /\ n \in Nat \ {0} /\ Len(t) = n /\ n \in 1..n
      /\ \A k \in 1..n : s[k] \in Spans /\ (k # n => t[k] = s[k])
    OBVIOUS
<1>2. t[n].from = s[n].from /\ t[n].to = s[n].to + 1
    BY <1>1 DEF Spans
<1>3. s[n].from < s[n].to /\ s[n].to = upto /\ s[n].from \in Nat
    <2>1. s[n].from < s[n].to /\ s[n].to = IF n + 1 <= n THEN s[n + 1].from ELSE upto
        BY <1>1 DEF Adjacent
    <2>2. QED  BY <1>1, <2>1 DEF Spans
<1>4. \A k \in 1..n : t[k].from = s[k].from
    BY <1>1, <1>2
<1>5. /\ from = s[1].from
      /\ \A k \in 1..n : s[k].from < s[k].to /\ (k + 1 <= n => s[k].to = s[k + 1].from)
    BY <1>1 DEF Adjacent
<1> HIDE DEF t, n
<1>6. from = IF 1 <= Len(t) THEN t[1].from ELSE upto + 1
    BY <1>1, <1>4, <1>5
<1>7. ASSUME NEW k \in 1..Len(t)
      PROVE  /\ t[k].from < t[k].to
             /\ t[k].to = IF k + 1 <= Len(t) THEN t[k + 1].from ELSE upto + 1
    <2>1. CASE k = n
        BY <1>1, <1>2, <1>3, <2>1
    <2>2. CASE k # n
        <3>1. k \in 1..n /\ k + 1 \in 1..n /\ k + 1 <= Len(t)
            BY <1>1, <2>2
        <3>2. t[k] = s[k] /\ t[k + 1].from = s[k + 1].from
            BY <1>1, <1>4, <2>2, <3>1
        <3>3. QED  BY <1>5, <3>1, <3>2
    <2>3. QED  BY <2>1, <2>2
<1>8. QED  BY <1>6, <1>7 DEF Adjacent, t, n

\* Without its oldest interval a queue begins where that one ended.
LEMMA TailIsAdjacent ==
    ASSUME NEW s \in Seq(Spans), NEW upto \in Nat, NEW from \in Nat, s # <<>>,
           Adjacent(s, upto, from)
    PROVE  Adjacent(Tail(s), upto, Head(s).to)
<1> DEFINE n == Len(s)
           t == Tail(s)
<1>1. /\ n \in Nat \ {0} /\ Len(t) = n - 1 /\ Head(s) = s[1]
      /\ \A k \in 1..n-1 : t[k] = s[k + 1]
    OBVIOUS
<1>2. \A k \in 1..n : s[k].from < s[k].to /\ s[k].to = IF k + 1 <= n THEN s[k + 1].from ELSE upto
    BY DEF Adjacent
<1> HIDE DEF t, n
<1>3. Head(s).to = IF 1 <= Len(t) THEN t[1].from ELSE upto
    <2>1. 1 \in 1..n /\ 1 + 1 = 2
        BY <1>1
    <2>2. s[1].to = IF 2 <= n THEN s[2].from ELSE upto
        BY <1>2, <2>1
    <2>3. 2 <= n => 1 \in 1..n-1 /\ t[1] = s[2]
        BY <1>1
    <2>4. QED  BY <1>1, <2>2, <2>3
<1>4. ASSUME NEW k \in 1..Len(t)
      PROVE  /\ t[k].from < t[k].to
             /\ t[k].to = IF k + 1 <= Len(t) THEN t[k + 1].from ELSE upto
    <2>1. k \in 1..n-1 /\ k + 1 \in 1..n /\ (k + 1) + 1 = k + 2
        BY <1>1
    <2>2. t[k] = s[k + 1]
        BY <1>1, <2>1
    <2>3. s[k + 1].from < s[k + 1].to /\ s[k + 1].to = IF k + 2 <= n THEN s[k + 2].from ELSE upto
        BY <1>2, <2>1
    <2>4. CASE k + 2 <= n
        <3>1. k + 1 \in 1..n-1 /\ k + 1 <= Len(t)
            BY <1>1, <2>1, <2>4
        <3>2. t[k + 1] = s[k + 2]
            BY <1>1, <2>1, <3>1
        <3>3. QED  BY <2>2, <2>3, <2>4, <3>1, <3>2
    <2>5. CASE ~(k + 2 <= n)
        BY <1>1, <2>1, <2>2, <2>3, <2>5
    <2>6. QED  BY <2>4, <2>5
<1>5. QED  BY <1>3, <1>4 DEF Adjacent, t

\* The receive path without a hole: the events of the ring, an overflow record standing
\* for all it counted, follow one another from what the host was told to what the handler
\* took, and none of them stands for nothing.
THEOREM QueueIsContiguous ==
    ASSUME "REJECT_OVERFLOW" \notin Options
    PROVE  Spec => []Promise!Contiguous
<1> DEFINE Joined == Adjacent(Queue, handled, Told)
           Shape == Queue \in Seq(Spans) /\ handled \in Nat /\ Told \in Nat
<1>1. Promise!Init => Joined
    <2> SUFFICES ASSUME Promise!Init PROVE Joined
        OBVIOUS
    <2>1. Queue = <<>> /\ handled = 0 /\ Told = 0
        BY DEF Promise!Init, Queue
    <2>2. Adjacent(<<>>, 0, 0)
        BY DEF Adjacent
    <2>3. QED  BY <2>1, <2>2
<1>2. DrainInv /\ Accounted => Shape
    <2> SUFFICES ASSUME DrainInv, Accounted PROVE Shape
        OBVIOUS
    <2>1. /\ Queue = Line(ring, Present, handled) /\ Told = Follows(ring, Present, handled, 0)
          /\ Present \in 0..Size
        BY QueueIsLine
    <2>2. ring \in RingType(Event) /\ handled \in Nat
        BY DEF DrainInv, TypeOK
    <2>3. Queue \in Seq(Spans)
        BY <2>1, <2>2, LineType
    <2>4. Told \in Nat
        <3>1. At(ring, 0) \in Event
            BY <2>2, SizeAssumption, AtIsEvent
        <3>2. QED  BY <2>1, <2>2, <3>1 DEF Follows, Event
    <2>5. QED  BY <2>2, <2>3, <2>4
<1>3. Shape /\ Joined /\ [Promise!Next]_(Promise!vars) => Joined'
    <2> SUFFICES ASSUME Shape, Joined, [Promise!Next]_(Promise!vars) PROVE Joined'
        OBVIOUS
    <2>1. CASE Promise!Keep /\ handled' = handled + 1 /\ Told' = Told
        <3>1. Queue' = Append(Queue, Span(handled, TRUE))
            BY <2>1 DEF Promise!Keep, Queue, Span
        <3>2. Adjacent(Queue', handled + 1, Told)
            BY <3>1, AppendedIsAdjacent
        <3>3. QED  BY <2>1, <3>2 DEF Adjacent
    <2>2. CASE Promise!StartDropping /\ handled' = handled + 1 /\ Told' = Told
        <3>1. Queue' = Append(Queue, Span(handled, FALSE))
            BY <2>2 DEF Promise!StartDropping, Queue, Span
        <3>2. Adjacent(Queue', handled + 1, Told)
            BY <3>1, AppendedIsAdjacent
        <3>3. QED  BY <2>2, <3>2 DEF Adjacent
    <2>3. CASE Promise!Drop /\ handled' = handled + 1 /\ Told' = Told
        <3>1. Len(Queue) = Size /\ Queue' = [Queue EXCEPT ![Size].to = @ + 1]
            BY <2>3 DEF Promise!Drop, Queue
        <3>2. Len(Queue) > 0 /\ Queue' = [Queue EXCEPT ![Len(Queue)].to = @ + 1]
            <4>1. Size > 0
                BY SizeAssumption
            <4>2. QED  BY <3>1, <4>1, Zenon
        <3>3. Adjacent(Queue', handled + 1, Told)
            BY <3>2, ExtendedIsAdjacent
        <3>4. QED  BY <2>3, <3>3 DEF Adjacent
    <2>4. CASE Promise!Deliver
        <3>1. Queue # <<>> /\ Queue' = Tail(Queue) /\ Told' = Head(Queue).to /\ handled' = handled
            BY <2>4 DEF Promise!Deliver, Queue
        <3>2. Adjacent(Queue', handled, Told')
            BY <3>1, TailIsAdjacent
        <3>3. QED  BY <3>1, <3>2 DEF Adjacent
    <2>5. CASE UNCHANGED Promise!vars
        <3>1. Queue' = Queue /\ handled' = handled /\ Told' = Told
            BY <2>5 DEF Promise!vars, Queue
        <3>2. QED  BY <3>1 DEF Adjacent
    <2>6. QED
        BY <2>1, <2>2, <2>3, <2>4, <2>5 DEF Promise!Next, Promise!See
<1>4. Joined => Promise!Contiguous
    BY DEF Adjacent, Promise!Contiguous, Queue
<1>5. DrainInv /\ DrainInv' /\ Accounted /\ [Next]_vars => Accounted'
    BY NextAccount
<1> HIDE DEF Joined, Shape
<1>6. QED
    <2>1. Spec => []DrainInv /\ []Accounted
        BY <1>5, InitAccount, DrainInvHolds, PTL DEF Spec
    <2>2. QED  BY <1>1, <1>2, <1>3, <1>4, <2>1, QueueIsImplemented, PTL
=============================================================================

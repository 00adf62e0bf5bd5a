---------------------------- MODULE TxPathProofs ----------------------------
(***************************************************************************)
(* Proofs about the transmit path, for every size of the queue and of the  *)
(* software FIFO.                                                          *)
(*                                                                         *)
(* First, whatever fails: type correctness, and that the count of free     *)
(* slots errs only to the safe side.  Then that the driver's shadow of the *)
(* transmit queue agrees with the chip about which slots are taken, across *)
(* any number of bus-offs and changes of the error state, as long as no    *)
(* register read fails and no bus-off strikes while a frame is being       *)
(* queued.                                                                 *)
(*                                                                         *)
(* Last, the frames on their way: can_is_space keeps its word, no frame is *)
(* left behind in the FIFO, a report is about a frame that was sent and    *)
(* comes once, frames sent with USE_FIFO keep their order, and as long as  *)
(* the bus stays on the transmit path gives the service of TxService.      *)
(***************************************************************************)
EXTENDS TxPath, FiniteSetTheorems, SequenceTheorems, TLAPS


\* While the main loop is inside can_send_frame the pin is masked, and the handler,
\* which had the core before, has returned.
SendIsAlone == main.pc # "idle" => ~irqOn /\ isr.pc = "idle"

\* The frame being sent is one more than are counted.
SendIsCounted == main.pc \in {"send", "write"} => accepted < MaxSends

\* Who is about to write to a slot has seen one free and nobody has taken it since;
\* a frame the handler takes from the FIFO leaves its place there.
RoomSeen ==
    /\ main.pc = "write" \/ isr.pc = "write" => pri.free > 0
    /\ isr.pc = "relaunch" => fifo.free > 0

\* Inductive: without SendIsAlone the handler could take the slot that the main loop
\* has seen free, and without CountOnlyLeaks freeing a slot could count past the size.
TxInv == TypeOK /\ SendIsAlone /\ SendIsCounted /\ RoomSeen /\ CountOnlyLeaks

-----------------------------------------------------------------------------
(* Sizes of sets of slots.                                                 *)

LEMMA SlotsSize == IsFiniteSet(Slots) /\ Cardinality(Slots) = QueueSize
<1>1. QueueSize \in 1..32 /\ 0 \in Int /\ QueueSize - 1 \in Int
    BY TxAssumption
<1>2. /\ IsFiniteSet(0..QueueSize-1)
      /\ Cardinality(0..QueueSize-1) = IF 0 > QueueSize - 1 THEN 0 ELSE (QueueSize - 1) - 0 + 1
    BY <1>1, FS_Interval
<1>3. QED  BY <1>1, <1>2 DEF Slots

LEMMA ValidFinite ==
    ASSUME NEW V \in SUBSET Slots
    PROVE  /\ IsFiniteSet(V)
           /\ Cardinality(V) \in 0..QueueSize
<1>1. IsFiniteSet(V) /\ Cardinality(V) <= QueueSize
    BY SlotsSize, FS_Subset
<1>2. Cardinality(V) \in Nat
    BY <1>1, FS_CardinalityType
<1>3. QED  BY <1>1, <1>2, TxAssumption

\* Taking a slot adds at most one, freeing a valid one takes exactly one away.
LEMMA ValidGrows ==
    ASSUME NEW V \in SUBSET Slots, NEW s \in Slots
    PROVE  Cardinality(V \cup {s}) <= Cardinality(V) + 1
<1>1. IsFiniteSet(V)
    BY ValidFinite
<1>2. Cardinality(V) \in Nat
    BY ValidFinite
<1>3. QED  BY <1>1, <1>2, FS_AddElement

LEMMA ValidShrinks ==
    ASSUME NEW V \in SUBSET Slots, NEW s \in V
    PROVE  Cardinality(V \ {s}) = Cardinality(V) - 1
BY ValidFinite, FS_RemoveElement

-----------------------------------------------------------------------------
(* What the operations on the shadow keep.                                 *)

PriType ==
    [uref : [Slots -> 0..MaxSends], valid : SUBSET Slots,
     free : 0..QueueSize, fifoSlot : Slots \cup {FifoSize}]

LeakOnly(p) == p.free + Cardinality(p.valid) <= QueueSize

LEMMA EmptyPriShape == EmptyPri \in PriType /\ LeakOnly(EmptyPri)
<1>1. Cardinality({}) = 0
    BY FS_EmptySet
<1>2. QED  BY <1>1, TxAssumption DEF EmptyPri, PriType, LeakOnly

LEMMA RequestShape ==
    ASSUME pri \in PriType, LeakOnly(pri), pri.free > 0, txq \in [Slots -> Frame],
           NEW frame \in Frame, NEW slot \in Slots, Request(frame, slot)
    PROVE  pri' \in PriType /\ LeakOnly(pri') /\ txq' \in [Slots -> Frame]
<1>1. /\ frame.id \in 0..MaxSends /\ pri.free - 1 \in 0..QueueSize
      /\ pri.valid \cup {slot} \in SUBSET Slots
    <2>1. frame.id \in 0..MaxSends
        BY DEF Frame
    <2>2. pri.free \in 0..QueueSize /\ pri.valid \subseteq Slots
        BY DEF PriType
    <2>3. pri.free - 1 \in 0..QueueSize
        BY <2>2, TxAssumption
    <2>4. pri.valid \cup {slot} \subseteq Slots
        BY <2>2
    <2>5. QED  BY <2>1, <2>3, <2>4
<1>2. pri' \in PriType
    BY <1>1 DEF Request, PriType
<1>3. LeakOnly(pri')
    <2>1. pri'.free = pri.free - 1 /\ pri'.valid = pri.valid \cup {slot}
        BY DEF Request
    <2>2. pri.valid \in SUBSET Slots /\ pri.free \in Nat
        BY DEF PriType
    <2>3. Cardinality(pri.valid) \in Nat /\ Cardinality(pri'.valid) \in Nat
        BY <1>1, <2>1, <2>2, ValidFinite
    <2>4. Cardinality(pri'.valid) <= Cardinality(pri.valid) + 1
        BY <2>1, <2>2, ValidGrows
    <2>5. QED  BY <2>1, <2>2, <2>3, <2>4, TxAssumption DEF LeakOnly
<1>4. QED  BY <1>2, <1>3 DEF Request

\* Also for the number past the arrays, which clears a few valid flags and counts
\* one slot: that many were counted before, as its valid flag was set.
LEMMA FreedShape ==
    ASSUME pri \in PriType, LeakOnly(pri), NEW seq \in 0..QueueSize, IsValid(seq)
    PROVE  Freed(seq) \in PriType /\ LeakOnly(Freed(seq))
<1>1. pri.valid \in SUBSET Slots /\ pri.free \in 0..QueueSize
    BY DEF PriType
<1>2. Cardinality(pri.valid) \in Nat
    BY <1>1, ValidFinite
<1>3. CASE seq = QueueSize
    <2>1. /\ Freed(seq) = [pri EXCEPT !.valid = @ \ 0..3, !.free = 1]
          /\ pri.free > 0
        BY <1>3 DEF Freed, IsValid
    <2>2. Freed(seq) \in PriType
        <3>1. pri.valid \ 0..3 \in SUBSET Slots /\ 1 \in 0..QueueSize
            BY <1>1, TxAssumption
        <3>2. QED  BY <2>1, <3>1 DEF PriType
    <2>3. Freed(seq).free = 1 /\ Freed(seq).valid = pri.valid \ 0..3
        BY <2>1 DEF PriType
    <2>4. /\ Cardinality(pri.valid \ 0..3) <= Cardinality(pri.valid)
          /\ Cardinality(pri.valid \ 0..3) \in Nat
        BY <1>1, ValidFinite, FS_Subset
    <2>5. QED  BY <1>1, <1>2, <2>1, <2>2, <2>3, <2>4, TxAssumption DEF LeakOnly
<1>4. CASE seq # QueueSize
    <2>1. /\ Freed(seq) = [pri EXCEPT !.uref[seq] = 0, !.valid = @ \ {seq}, !.free = @ + 1]
          /\ seq \in pri.valid
        BY <1>4 DEF Freed, IsValid
    <2>2. Cardinality(pri.valid \ {seq}) = Cardinality(pri.valid) - 1
        BY <1>1, <2>1, ValidShrinks
    <2>3. Cardinality(pri.valid \ {seq}) \in Nat
        BY <1>1, ValidFinite
    <2>4. pri.free + 1 \in 0..QueueSize
        BY <1>1, <1>2, <2>2, <2>3, TxAssumption DEF LeakOnly
    <2>5. Freed(seq) \in PriType
        <3>1. pri.valid \ {seq} \in SUBSET Slots /\ 0 \in 0..MaxSends
            BY <1>1, TxAssumption
        <3>2. [pri.uref EXCEPT ![seq] = 0] \in [Slots -> 0..MaxSends]
            BY <3>1 DEF PriType
        <3>3. Freed(seq) = [pri EXCEPT !.uref = [pri.uref EXCEPT ![seq] = 0],
                                       !.valid = pri.valid \ {seq}, !.free = pri.free + 1]
            BY <2>1
        <3>4. QED  BY <2>4, <3>1, <3>2, <3>3 DEF PriType
    <2>6. Freed(seq).free = pri.free + 1 /\ Freed(seq).valid = pri.valid \ {seq}
        BY <2>1 DEF PriType
    <2>7. QED  BY <1>1, <1>2, <2>2, <2>5, <2>6, TxAssumption DEF LeakOnly
<1>5. QED  BY <1>3, <1>4

-----------------------------------------------------------------------------
(* The invariant.                                                          *)

BudgetType == [busOff : 0..MaxBusOffs, inSend : 0..MaxInSend,
               warning : 0..MaxWarnings, crc : 0..MaxCrcFailures]

RingOfFrames == Fifo!RingType(Frame)

LEMMA FrameTypes == NoFrame \in Frame /\ NoSlot \notin Slots /\ 0 \in Slots
BY TxAssumption DEF NoFrame, Frame, NoSlot, Slots

LEMMA ReadFailsType ==
    ASSUME budget \in BudgetType, ReadFails
    PROVE  budget' \in BudgetType
<1>1. budget.crc - 1 \in 0..MaxCrcFailures
    BY TxAssumption DEF ReadFails, BudgetType
<1>2. QED  BY <1>1 DEF ReadFails, BudgetType

\* A slot that send_frame finds is one of the queue, and the count has room for it.
LEMMA QueueSlotFound ==
    ASSUME NEW taken, NEW slot, QueueSlot(taken, slot), budget \in BudgetType
    PROVE  /\ budget' \in BudgetType
           /\ slot # NoSlot => slot \in Slots /\ pri.free > 0
<1>1. FreeSlots(taken) \subseteq Slots
    BY DEF FreeSlots
<1>2. CASE UNCHANGED budget /\ slot \in IF QueueHasRoom(taken) THEN FreeSlots(taken) ELSE {NoSlot}
    BY <1>1, <1>2 DEF QueueHasRoom
<1>3. CASE /\ pri.free > 0 /\ ReadFails
           /\ slot = NoSlot \/ (FreeSlots(taken) = {} /\ slot \in Slots)
    BY <1>3, ReadFailsType
<1>4. QED  BY <1>2, <1>3 DEF QueueSlot

\* The software FIFO stays a ring of frames.
LEMMA FifoPut ==
    ASSUME NEW r \in RingOfFrames, NEW f \in Frame, r.free > 0
    PROVE  Fifo!Put(r, f) \in RingOfFrames
<1>1. r.tail \in Fifo!Slots /\ Fifo!Wrap(r.tail + 1) \in Fifo!Slots /\ r.free - 1 \in 0..FifoSize
    BY TxAssumption DEF RingOfFrames, Fifo!RingType, Fifo!Slots, Fifo!Wrap
<1>2. QED  BY <1>1 DEF Fifo!Put, RingOfFrames, Fifo!RingType

LEMMA FifoTake ==
    ASSUME NEW r \in RingOfFrames, r.free < FifoSize
    PROVE  /\ Fifo!AdvanceHead([r EXCEPT !.free = @ + 1]) \in RingOfFrames
           /\ Fifo!AdvanceHead([r EXCEPT !.free = @ + 1]).free > 0
           /\ Fifo!At(r, 0) \in Frame
<1>1. r.head \in Fifo!Slots /\ Fifo!Wrap(r.head + 1) \in Fifo!Slots /\ r.free + 1 \in 0..FifoSize
    BY TxAssumption DEF RingOfFrames, Fifo!RingType, Fifo!Slots, Fifo!Wrap
<1>2. Fifo!Position(r, 0) = r.head
    BY <1>1, TxAssumption DEF Fifo!Position, Fifo!Slots
<1>3. Fifo!At(r, 0) \in Frame
    BY <1>1, <1>2 DEF Fifo!At, RingOfFrames, Fifo!RingType
<1>4. r.free + 1 > 0
    BY <1>1, TxAssumption DEF RingOfFrames, Fifo!RingType
<1>5. QED  BY <1>1, <1>3, <1>4 DEF Fifo!AdvanceHead, RingOfFrames, Fifo!RingType

LEMMA FifoEmptied ==
    ASSUME NEW r \in RingOfFrames
    PROVE  [r EXCEPT !.head = 0, !.tail = 0, !.free = FifoSize] \in RingOfFrames
<1>1. 0 \in Fifo!Slots /\ FifoSize \in 0..FifoSize
    BY TxAssumption DEF Fifo!Slots
<1>2. QED  BY <1>1 DEF RingOfFrames, Fifo!RingType

IsrType ==
    [pc : {"idle", "loop", "busoff", "tx", "relaunch", "write", "pop", "dismiss"},
     events : SUBSET {"CERR", "TEF"}, frame : Frame, slot : Slots]
MainType == [pc : {"idle", "send", "write", "unmask"}, frame : Frame, slot : Slots]
EventType == [seq : Slots, frame : Frame]

PromiseType == [n : 0..MaxSends, fifo : BOOLEAN]

\* TypeOK and CountOnlyLeaks, part by part.
TxTypes ==
    /\ pri \in PriType /\ LeakOnly(pri) /\ fifo \in RingOfFrames
    /\ txq \in [Slots -> Frame] /\ tef \in Seq(EventType)
    /\ txbo \in BOOLEAN /\ cerr \in BOOLEAN /\ irqOn \in BOOLEAN /\ erased \in BOOLEAN
    /\ budget \in BudgetType /\ isr \in IsrType /\ main \in MainType
    /\ promise \in PromiseType /\ accepted \in 0..MaxSends
    /\ sent \in Seq(Frame) /\ reported \in Seq(0..MaxSends)

LEMMA TypesSuffice == TxTypes <=> TypeOK /\ CountOnlyLeaks
BY DEF TxTypes, TypeOK, PriType, RingOfFrames, BudgetType, IsrType, MainType, EventType,
       PromiseType, LeakOnly, CountOnlyLeaks

LEMMA InitTxInv == Init => TxInv
<1> SUFFICES ASSUME Init PROVE TxInv
    OBVIOUS
<1>1. NoFrame \in Frame /\ 0 \in Slots
    BY FrameTypes
<1>2. pri \in PriType /\ LeakOnly(pri)
    BY EmptyPriShape DEF Init
<1>3. fifo \in RingOfFrames
    <2>1. 0 \in Fifo!Slots /\ FifoSize \in 0..FifoSize
        BY TxAssumption DEF Fifo!Slots
    <2>2. QED  BY <1>1, <2>1 DEF Init, RingOfFrames, Fifo!RingType, Fifo!EmptyRing
<1>4. budget \in BudgetType
    BY TxAssumption DEF Init, BudgetType
<1>5. txq \in [Slots -> Frame] /\ isr \in IsrType /\ main \in MainType
    BY <1>1 DEF Init, IsrType, MainType
<1>6. promise \in PromiseType /\ accepted \in 0..MaxSends
    BY TxAssumption DEF Init, PromiseType
<1>7. txbo \in BOOLEAN /\ cerr \in BOOLEAN /\ irqOn \in BOOLEAN /\ erased \in BOOLEAN
    BY DEF Init
<1>8. tef \in Seq(EventType) /\ sent \in Seq(Frame) /\ reported \in Seq(0..MaxSends)
    BY DEF Init
<1>9. TxTypes
    BY <1>2, <1>3, <1>4, <1>5, <1>6, <1>7, <1>8 DEF TxTypes
<1>10. SendIsAlone /\ SendIsCounted /\ RoomSeen
    BY DEF Init, SendIsAlone, SendIsCounted, RoomSeen
<1>11. QED  BY <1>9, <1>10, TypesSuffice DEF TxInv

LEMMA NextTxInv == TxInv /\ [Next]_vars => TxInv'
<1> SUFFICES ASSUME TxInv, [Next]_vars PROVE TxInv'
    OBVIOUS
<1> USE DEF soft, chip, ghosts
<1>1. TxTypes /\ SendIsAlone /\ SendIsCounted /\ RoomSeen
    BY TypesSuffice DEF TxInv
<1>2. NoFrame \in Frame /\ NoSlot \notin Slots /\ 0 \in Slots
    BY FrameTypes
<1>3. SUFFICES TxTypes' /\ SendIsAlone' /\ SendIsCounted' /\ RoomSeen'
    BY DEF TxInv, TxTypes, TypeOK, PriType, RingOfFrames, BudgetType, IsrType, MainType, EventType,
           PromiseType, LeakOnly, CountOnlyLeaks
<1> USE DEF SendIsAlone, SendIsCounted, RoomSeen
<1>4. CASE UNCHANGED vars
    BY <1>1, <1>4 DEF vars, TxTypes
<1>5. CASE \E s \in Slots : ChipTransmit(s)
    <2> PICK s \in Slots : ChipTransmit(s)
        BY <1>5
    <2>1. txq[s] \in Frame
        BY <1>1 DEF TxTypes
    <2>2. tef' \in Seq(EventType) /\ sent' \in Seq(Frame)
        BY <1>1, <2>1 DEF ChipTransmit, TxTypes, EventType
    <2>3. txq' \in [Slots -> Frame]
        BY <1>1, <1>2 DEF ChipTransmit, TxTypes
    <2>4. QED  BY <1>1, <2>2, <2>3 DEF ChipTransmit, TxTypes
<1>6. CASE ChipBusOff
    <2>1. txq' \in [Slots -> Frame]
        BY <1>2, <1>6 DEF ChipBusOff
    <2>2. budget' \in BudgetType
        <3> DEFINE kind == IF Sending THEN "inSend" ELSE "busOff"
        <3>1. budget[kind] - 1 \in IF kind = "inSend" THEN 0..MaxInSend ELSE 0..MaxBusOffs
            BY <1>1, <1>6, TxAssumption DEF ChipBusOff, TxTypes, BudgetType
        <3>2. QED  BY <1>1, <1>6, <3>1 DEF ChipBusOff, TxTypes, BudgetType
    <2>3. QED  BY <1>1, <1>6, <2>1, <2>2 DEF ChipBusOff, TxTypes
<1>7. CASE ChipRecover
    BY <1>1, <1>7 DEF ChipRecover, TxTypes
<1>8. CASE ChipWarning
    <2>1. budget' \in BudgetType
        <3>1. budget.warning - 1 \in 0..MaxWarnings
            BY <1>1, <1>8, TxAssumption DEF ChipWarning, TxTypes, BudgetType
        <3>2. QED  BY <1>1, <1>8, <3>1 DEF ChipWarning, TxTypes, BudgetType
    <2>2. QED  BY <1>1, <1>8, <2>1 DEF ChipWarning, TxTypes
<1>9. CASE Main
    <2>1. ASSUME NEW useFifo \in BOOLEAN, MainSend(useFifo)
          PROVE  TxTypes' /\ SendIsAlone' /\ SendIsCounted' /\ RoomSeen'
        <3>1. [id |-> accepted + 1, fifo |-> useFifo] \in Frame /\ accepted < MaxSends
            BY <1>1, <2>1, TxAssumption DEF MainSend, TxTypes, Frame
        <3>2. main' \in MainType /\ main'.pc = "send"
            BY <1>1, <2>1, <3>1 DEF MainSend, TxTypes, MainType
        <3>3. promise' \in PromiseType
            <4>1. promise \in PromiseType /\ 0 \in 0..MaxSends
                BY <1>1, TxAssumption DEF TxTypes
            <4>2. promise' = promise \/ promise' = [promise EXCEPT !.n = 0]
                BY <2>1 DEF MainSend
            <4>3. QED  BY <4>1, <4>2 DEF PromiseType
        <3>4. QED  BY <1>1, <2>1, <3>1, <3>2, <3>3 DEF MainSend, MainAt, TxTypes
    <2>2. ASSUME NEW useFifo \in BOOLEAN, NEW n \in 1..MaxAsked, MainAsk(n, useFifo)
          PROVE  TxTypes' /\ SendIsAlone' /\ SendIsCounted' /\ RoomSeen'
        <3>1. promise' \in PromiseType
            BY <1>1, <2>2, TxAssumption DEF MainAsk, TxTypes, PromiseType
        <3>2. QED  BY <1>1, <2>2, <3>1 DEF MainAsk, TxTypes
    <2>3. CASE MainToQueue
        <3> PICK slot \in Slots :
              QueueSlot({}, slot) /\ main' = [main EXCEPT !.pc = "write", !.slot = slot]
            BY <2>3 DEF MainToQueue
        <3>1. budget' \in BudgetType /\ pri.free > 0
            BY <1>1, <1>2, QueueSlotFound DEF TxTypes
        <3>2. main' \in MainType
            BY <1>1 DEF TxTypes, MainType
        <3>3. main.pc = "send" /\ isr.pc = "idle"
            BY <2>3 DEF MainToQueue, MainAt
        <3>4. QED  BY <1>1, <2>3, <3>1, <3>2, <3>3 DEF MainToQueue, TxTypes
    <2>4. ASSUME Accepted, accepted < MaxSends
          PROVE  /\ accepted' \in 0..MaxSends /\ promise' \in PromiseType
                 /\ main' \in MainType /\ main'.pc = "unmask"
        <3>1. accepted' \in 0..MaxSends
            BY <1>1, <2>4, TxAssumption DEF Accepted, TxTypes
        <3>2. (IF promise.n = 0 THEN 0 ELSE promise.n - 1) \in 0..MaxSends
            BY <1>1, TxAssumption DEF TxTypes, PromiseType
        <3>3. promise' \in PromiseType
            BY <1>1, <2>4, <3>2 DEF Accepted, TxTypes, PromiseType
        <3>4. QED  BY <1>1, <2>4, <3>1, <3>3 DEF Accepted, TxTypes, MainType
    <2>5. CASE MainWrite
        <3>1. main.pc = "write" /\ isr.pc = "idle" /\ pri.free > 0 /\ accepted < MaxSends
            BY <1>1, <2>5 DEF MainWrite, MainAt
        <3>2. main.frame \in Frame /\ main.slot \in Slots
            BY <1>1 DEF TxTypes, MainType
        <3>3. pri' \in PriType /\ LeakOnly(pri') /\ txq' \in [Slots -> Frame]
            BY <1>1, <2>5, <3>1, <3>2, RequestShape DEF MainWrite, TxTypes
        <3>4. QED  BY <1>1, <2>4, <2>5, <3>1, <3>3 DEF MainWrite, TxTypes
    <2>6. CASE MainToFifo
        <3>1. main.pc = "send" /\ isr.pc = "idle" /\ accepted < MaxSends
            BY <1>1, <2>6 DEF MainToFifo, MainAt
        <3>2. fifo' \in RingOfFrames
            BY <1>1, <2>6, FifoPut DEF MainToFifo, TxTypes, MainType
        <3>3. QED  BY <1>1, <2>4, <2>6, <3>1, <3>2 DEF MainToFifo, TxTypes
    <2>7. CASE MainNoRoom
        <3>1. budget' \in BudgetType
            BY <1>1, <2>7, QueueSlotFound DEF MainNoRoom, TxTypes
        <3>2. main' \in MainType /\ main'.pc = "unmask"
            BY <1>1, <2>7 DEF MainNoRoom, TxTypes, MainType
        <3>3. main.pc = "send" /\ isr.pc = "idle"
            BY <2>7 DEF MainNoRoom, MainAt
        <3>4. QED  BY <1>1, <2>7, <3>1, <3>2, <3>3 DEF MainNoRoom, TxTypes
    <2>8. CASE MainUnmask
        <3>1. main' \in MainType /\ isr.pc = "idle"
            BY <1>2, <2>8 DEF MainUnmask, MainAt, MainType
        <3>2. QED  BY <1>1, <2>8, <3>1 DEF MainUnmask, TxTypes
    <2>9. QED  BY <1>9, <2>1, <2>2, <2>3, <2>5, <2>6, <2>7, <2>8 DEF Main
<1>10. CASE Isr
    <2>1. CASE IsrEnter
        <3>1. isr' \in IsrType /\ main.pc = "idle"
            BY <1>1, <2>1 DEF IsrEnter, TxTypes, IsrType
        <3>2. QED  BY <1>1, <2>1, <3>1 DEF IsrEnter, TxTypes, IsrType
    <2>2. isr.pc # "idle" => main.pc = "idle"
        BY <1>1
    <2>3. \A pc, events : NextBranch(pc, events) \in {"busoff", "tx", "dismiss"}
        BY DEF NextBranch
    <2>4. CASE IsrRead
        <3> PICK events \in SUBSET {"CERR", "TEF"} :
                /\ (UNCHANGED budget \/ ReadFails)
                /\ isr' = [isr EXCEPT !.pc = NextBranch("loop", events), !.events = events]
            BY <2>4 DEF IsrRead
        <3>1. budget' \in BudgetType
            BY <1>1, ReadFailsType DEF TxTypes
        <3>2. isr' \in IsrType /\ isr'.pc \in {"busoff", "tx", "dismiss"}
            BY <1>1, <2>3 DEF TxTypes, IsrType
        <3>3. QED  BY <1>1, <2>2, <2>4, <3>1, <3>2 DEF IsrRead, TxTypes
    <2>5. CASE IsrReturn
        <3>1. isr' \in IsrType /\ isr'.pc = "idle"
            BY <1>1, <2>5 DEF IsrReturn, TxTypes, IsrType
        <3>2. QED  BY <1>1, <2>2, <2>5, <3>1 DEF IsrReturn, TxTypes
    <2>6. CASE IsrBusOff
        <3> PICK off \in BOOLEAN :
                /\ SeesBusOff(off)
                /\ IF off THEN DiscardAll /\ erased' = FALSE ELSE UNCHANGED <<pri, fifo, erased>>
            BY <2>6 DEF IsrBusOff
        <3>1. budget' \in BudgetType
            BY <1>1, ReadFailsType DEF SeesBusOff, TxTypes
        <3>2. /\ pri' \in PriType /\ LeakOnly(pri') /\ fifo' \in RingOfFrames
              /\ erased' \in BOOLEAN
            BY <1>1, EmptyPriShape, FifoEmptied DEF DiscardAll, TxTypes
        <3>3. isr' \in IsrType /\ isr'.pc \in {"busoff", "tx", "dismiss"}
            BY <1>1, <2>3, <2>6 DEF IsrBusOff, TxTypes, IsrType
        <3>4. QED  BY <1>1, <2>2, <2>6, <3>1, <3>2, <3>3 DEF IsrBusOff, TxTypes
    <2>7. CASE IsrTx
        <3>1. \A seq \in Slots \cup {QueueSize} : seq \in 0..QueueSize
            BY TxAssumption DEF Slots
        <3>2. tef # <<>> => Head(tef).seq \in Slots
            <4>1. tef # <<>> => Head(tef) \in EventType
                BY <1>1 DEF TxTypes
            <4>2. QED  BY <4>1 DEF EventType
        <3>3. PICK seq \in 0..QueueSize : TakeEvent(seq)
            BY <2>7, <3>1, <3>2 DEF IsrTx
        <3>4. budget' \in BudgetType
            BY <1>1, <2>7, ReadFailsType DEF IsrTx, TxTypes
        <3>5. CASE ~IsValid(seq)
            <4>1. isr' \in IsrType /\ isr'.pc = "pop" /\ UNCHANGED <<pri, fifo, reported>>
                BY <1>1, <3>3, <3>5 DEF TakeEvent, TxTypes, IsrType
            <4>2. QED  BY <1>1, <2>2, <2>7, <3>4, <4>1 DEF IsrTx, TxTypes
        <3>6. CASE IsValid(seq)
            <4>1. Complete(seq)
                BY <3>3, <3>6 DEF TakeEvent
            <4>2. Freed(seq) \in PriType /\ LeakOnly(Freed(seq))
                BY <1>1, <3>6, FreedShape DEF TxTypes
            <4>3. pri' \in PriType /\ pri'.free = Freed(seq).free /\ pri'.valid = Freed(seq).valid
                BY <4>1, <4>2 DEF Complete, PriType
            <4>4. LeakOnly(pri')
                BY <4>2, <4>3 DEF LeakOnly
            <4>5. reported' \in Seq(0..MaxSends)
                <5>1. (IF seq = QueueSize THEN 0 ELSE pri.uref[seq]) \in 0..MaxSends
                    BY <1>1, TxAssumption DEF TxTypes, PriType, Slots
                <5>2. QED  BY <1>1, <4>1, <5>1 DEF Complete, TxTypes
            <4>6. CASE seq = pri.fifoSlot /\ HasNext
                <5>1. /\ fifo' = Fifo!AdvanceHead([fifo EXCEPT !.free = @ + 1])
                      /\ isr' = [isr EXCEPT !.pc = "relaunch", !.frame = Fifo!At(fifo, 0)]
                    BY <4>1, <4>6 DEF Complete
                <5>2. fifo' \in RingOfFrames /\ fifo'.free > 0 /\ Fifo!At(fifo, 0) \in Frame
                    BY <1>1, <4>6, <5>1, FifoTake DEF HasNext, TxTypes
                <5>3. isr' \in IsrType /\ isr'.pc = "relaunch"
                    BY <1>1, <5>1, <5>2 DEF TxTypes, IsrType
                <5>4. QED  BY <1>1, <2>2, <2>7, <3>4, <4>3, <4>4, <4>5, <5>2, <5>3 DEF IsrTx, TxTypes
            <4>7. CASE ~(seq = pri.fifoSlot /\ HasNext)
                <5>1. fifo' = fifo /\ isr' = [isr EXCEPT !.pc = "pop", !.frame = NoFrame]
                    BY <4>1, <4>7 DEF Complete
                <5>2. isr' \in IsrType /\ isr'.pc = "pop"
                    BY <1>1, <1>2, <5>1 DEF TxTypes, IsrType
                <5>3. QED  BY <1>1, <2>2, <2>7, <3>4, <4>3, <4>4, <4>5, <5>1, <5>2 DEF IsrTx, TxTypes
            <4>8. QED  BY <4>6, <4>7
        <3>7. QED  BY <3>5, <3>6
    <2>8. CASE IsrRelaunch
        <3>1. CASE Direct(isr.frame)
            <4> DEFINE taken == {tef[i].seq : i \in (1..Len(tef)) \cap {1}}
            <4>1. PICK slot \in Slots \cup {NoSlot} :
                    /\ QueueSlot(taken, slot)
                    /\ isr' = IF slot = NoSlot THEN [isr EXCEPT !.pc = "pop", !.frame = NoFrame]
                              ELSE [isr EXCEPT !.pc = "write", !.slot = slot]
                BY <2>8, <3>1 DEF IsrRelaunch
            <4>2. budget' \in BudgetType /\ (slot # NoSlot => slot \in Slots /\ pri.free > 0)
                BY <1>1, <4>1, QueueSlotFound DEF TxTypes
            <4>3. isr' \in IsrType /\ isr'.pc \in {"pop", "write"} /\ (isr'.pc = "write" => pri.free > 0)
                BY <1>1, <1>2, <4>1, <4>2 DEF TxTypes, IsrType
            <4>4. UNCHANGED fifo
                BY <2>8, <3>1 DEF IsrRelaunch
            <4>5. QED  BY <1>1, <2>2, <2>8, <4>2, <4>3, <4>4 DEF IsrRelaunch, TxTypes
        <3>2. CASE ~Direct(isr.frame)
            <4>1. fifo' = Fifo!Put(fifo, isr.frame) /\ UNCHANGED budget
                BY <2>8, <3>2 DEF IsrRelaunch
            <4>2. fifo' \in RingOfFrames
                BY <1>1, <2>8, <4>1, FifoPut DEF IsrRelaunch, TxTypes, IsrType
            <4>3. isr' \in IsrType /\ isr'.pc = "pop"
                BY <1>1, <1>2, <2>8, <3>2 DEF IsrRelaunch, TxTypes, IsrType
            <4>4. QED  BY <1>1, <2>2, <2>8, <4>1, <4>2, <4>3 DEF IsrRelaunch, TxTypes
        <3>3. QED  BY <3>1, <3>2
    <2>9. CASE IsrWrite
        <3>1. pri.free > 0 /\ isr.frame \in Frame /\ isr.slot \in Slots
            BY <1>1, <2>9 DEF IsrWrite, TxTypes, IsrType
        <3>2. pri' \in PriType /\ LeakOnly(pri') /\ txq' \in [Slots -> Frame]
            BY <1>1, <2>9, <3>1, RequestShape DEF IsrWrite, TxTypes
        <3>3. isr' \in IsrType /\ isr'.pc = "pop"
            BY <1>1, <1>2, <2>9 DEF IsrWrite, TxTypes, IsrType
        <3>4. QED  BY <1>1, <2>2, <2>9, <3>2, <3>3 DEF IsrWrite, TxTypes
    <2>10. CASE IsrPop
        <3>1. tef' \in Seq(EventType)
            BY <1>1, <2>10 DEF IsrPop, TxTypes
        <3>2. isr' \in IsrType /\ isr'.pc = "dismiss"
            BY <1>1, <2>10 DEF IsrPop, TxTypes, IsrType
        <3>3. QED  BY <1>1, <2>2, <2>10, <3>1, <3>2 DEF IsrPop, TxTypes
    <2>11. CASE IsrDismiss
        <3>1. isr' \in IsrType /\ isr'.pc = "loop"
            BY <1>1, <2>11 DEF IsrDismiss, TxTypes, IsrType
        <3>2. QED  BY <1>1, <2>2, <2>11, <3>1 DEF IsrDismiss, TxTypes
    <2>12. QED
        BY <1>10, <2>1, <2>4, <2>5, <2>6, <2>7, <2>8, <2>9, <2>10, <2>11 DEF Isr
<1>11. QED  BY <1>4, <1>5, <1>6, <1>7, <1>8, <1>9, <1>10 DEF Next

\* Type correctness of the transmit path.
THEOREM TxTypeCorrect == Spec => []TypeOK
<1>1. TxInv => TypeOK
    BY DEF TxInv
<1>2. QED  BY <1>1, InitTxInv, NextTxInv, PTL DEF Spec

\* Whatever is lost to failed reads or to a bus-off, the driver never counts a slot
\* as free that it keeps a user reference for: free slots only leak.
THEOREM CountNeverOverstates == Spec => []CountOnlyLeaks
<1>1. TxInv => CountOnlyLeaks
    BY DEF TxInv
<1>2. QED  BY <1>1, InitTxInv, NextTxInv, PTL DEF Spec

-----------------------------------------------------------------------------
(* What the shadow knows of the queue.                                     *)

SeqsOf(q) == {q[i].seq : i \in 1..Len(q)}
Distinct(q) == \A i, j \in 1..Len(q) : q[i].seq = q[j].seq => i = j

\* The main loop has the pin masked exactly while it is inside can_send_frame.
MaskedInSend == irqOn <=> main.pc = "idle"

\* The handler takes an event only when there is one, and no two untaken events are
\* of one slot.
EventsAreThere ==
    /\ isr.pc \in {"tx", "relaunch", "write", "pop"} => tef # <<>>
    /\ isr.pc = "busoff" /\ "TEF" \in isr.events => tef # <<>>
    /\ Distinct(Untaken)

\* A bus-off that is still going to be noticed found the queue empty and nobody on
\* the way to write to it; one that has been noticed is not noticed again.
BusOffOnce ==
    /\ isr.pc = "busoff" => cerr /\ "CERR" \in isr.events
    /\ erased => txbo
    /\ erased /\ cerr => Occupied = {} /\ ~Sending
    /\ txbo /\ ~erased /\ cerr =>
         isr.pc \in {"tx", "relaunch", "write", "pop", "dismiss"} /\ "CERR" \in isr.events

\* The shadow knows what the chip holds, and whoever is about to write to a slot has
\* one that neither holds a frame nor has an event to be taken.
QueueKnown ==
    /\ Occupied \subseteq pri.valid
    /\ Occupied \cap SeqsOf(Untaken) = {}
    /\ main.pc = "send" /\ erased => tef = <<>>
    /\ main.pc = "write" => main.slot \notin SeqsOf(Untaken)
    /\ isr.pc = "write" => isr.slot \notin SeqsOf(Untaken)
    /\ isr.pc = "relaunch" => Head(tef).seq \notin pri.valid \cup SeqsOf(Untaken)

\* A valid slot holds a frame or has its event to be taken, and the slot that somebody
\* is about to write to is not valid.
SlotsAgree ==
    /\ pri.free = QueueSize - Cardinality(pri.valid)
    /\ pri.valid \subseteq Occupied \cup SeqsOf(Untaken)
    /\ main.pc = "send" => SeqsOf(tef) \subseteq pri.valid
    /\ main.pc = "write" => main.slot \notin pri.valid
    /\ isr.pc = "write" => isr.slot \notin pri.valid

Regular == EventsAreThere /\ BusOffOnce /\ QueueKnown /\ (~erased => SlotsAgree)

\* Inductive together with TxInv.
SlotInv == MaskedInSend /\ (Undisturbed => Regular)

-----------------------------------------------------------------------------
(* Every frame on its way to the queue is one that was sent.               *)

Ring == INSTANCE EventRingProofs WITH Size <- FifoSize

\* A frame that was sent with the option USE_FIFO.
FifoFrame(f) == f # NoFrame /\ f.fifo

\* The software FIFO's indices agree with its count, and what lies between them,
\* like the frame in the hands of the handler, is a frame that was to go through it.
Waiting(r) ==
    /\ Ring!IndicesAgree(r, FifoSize - r.free)
    /\ \A k \in 0..FifoSize-r.free-1 : FifoFrame(Ring!At(r, k))

RealFrames ==
    /\ main.pc \in {"send", "write"} => main.frame # NoFrame
    /\ isr.pc \in {"relaunch", "write"} => FifoFrame(isr.frame)
    /\ Waiting(fifo)

LEMMA RingIsFifo ==
    /\ FifoSize \in 1..255
    /\ Ring!RingType(Frame) = RingOfFrames
    /\ \A r, f : Ring!Put(r, f) = Fifo!Put(r, f)
    /\ \A r : Ring!AdvanceHead(r) = Fifo!AdvanceHead(r)
    /\ \A r, k : Ring!At(r, k) = Fifo!At(r, k)
<1>1. FifoSize \in 1..255
    BY TxAssumption
<1>2. QED
    BY <1>1 DEF RingOfFrames, Ring!RingType, Fifo!RingType, Ring!Slots, Fifo!Slots, Ring!Put, Fifo!Put,
        Ring!Wrap, Fifo!Wrap, Ring!AdvanceHead, Fifo!AdvanceHead, Ring!At, Fifo!At, Ring!Position,
        Fifo!Position

LEMMA PutKeepsWaiting ==
    ASSUME NEW r \in RingOfFrames, NEW f \in Frame, FifoFrame(f), r.free > 0, Waiting(r)
    PROVE  Waiting(Fifo!Put(r, f))
<1> DEFINE n == FifoSize - r.free
           q == Ring!Put(r, f)
<1>1. r.free \in 0..FifoSize /\ r \in Ring!RingType(Frame) /\ n \in 0..FifoSize-1
    <2>1. r \in Ring!RingType(Frame)
        BY RingIsFifo
    <2>2. r.free \in 0..FifoSize
        BY <2>1 DEF Ring!RingType
    <2>3. QED  BY <2>1, <2>2, TxAssumption
<1>2. /\ q.free = r.free - 1 /\ Ring!IndicesAgree(q, n + 1) /\ Ring!At(q, n) = f
      /\ \A k \in 0..n-1 : Ring!At(q, k) = Ring!At(r, k)
    BY <1>1, RingIsFifo, Ring!PutAppends DEF Waiting, Ring!SizeAssumption
<1>3. FifoSize - q.free = n + 1 /\ \A k \in 0..n : k = n \/ k \in 0..n-1
    BY <1>1, <1>2, TxAssumption
<1>4. \A k \in 0..n-1 : FifoFrame(Ring!At(r, k))
    BY DEF Waiting
<1>5. Ring!IndicesAgree(q, FifoSize - q.free)
    BY <1>2, <1>3
<1>6. \A k \in 0..FifoSize-q.free-1 : FifoFrame(Ring!At(q, k))
    <2>1. FifoSize - q.free - 1 = n
        BY <1>1, <1>3, TxAssumption
    <2>2. QED  BY <1>2, <1>3, <1>4, <2>1
<1>7. QED  BY <1>5, <1>6, RingIsFifo DEF Waiting

LEMMA TakeKeepsWaiting ==
    ASSUME NEW r \in RingOfFrames, r.free < FifoSize, Waiting(r)
    PROVE  /\ Waiting(Fifo!AdvanceHead([r EXCEPT !.free = @ + 1]))
           /\ FifoFrame(Fifo!At(r, 0))
<1> DEFINE n == FifoSize - r.free
           u == [r EXCEPT !.free = @ + 1]
           q == Ring!AdvanceHead(u)
<1>1. r.free \in 0..FifoSize /\ r \in Ring!RingType(Frame) /\ n \in 1..FifoSize
    <2>1. r \in Ring!RingType(Frame)
        BY RingIsFifo
    <2>2. r.free \in 0..FifoSize
        BY <2>1 DEF Ring!RingType
    <2>3. QED  BY <2>1, <2>2, TxAssumption
<1>2. /\ u \in Ring!RingType(Frame) /\ Ring!IndicesAgree(u, n) /\ u.free = r.free + 1
      /\ \A k : Ring!At(u, k) = Ring!At(r, k)
    <2>1. r.free + 1 \in 0..FifoSize
        BY <1>1, TxAssumption
    <2>2. QED  BY <1>1, <2>1 DEF Waiting, Ring!RingType, Ring!IndicesAgree, Ring!At, Ring!Position
<1>3. /\ q.free = u.free /\ Ring!IndicesAgree(q, n - 1)
      /\ \A k \in 0..n-2 : Ring!At(q, k) = Ring!At(u, k + 1)
    BY <1>1, <1>2, RingIsFifo, Ring!AdvanceHeadPops DEF Ring!SizeAssumption
<1>4. /\ FifoSize - q.free = n - 1 /\ 0 \in 0..n-1
      /\ \A k \in 0..n-2 : k + 1 \in 0..n-1
    BY <1>1, <1>2, <1>3, TxAssumption
<1>5. \A k \in 0..n-1 : FifoFrame(Ring!At(r, k))
    BY DEF Waiting
<1>6. \A k \in 0..FifoSize-q.free-1 : FifoFrame(Ring!At(q, k))
    <2>1. FifoSize - q.free - 1 = n - 2
        BY <1>1, <1>4, TxAssumption
    <2>2. QED  BY <1>2, <1>3, <1>4, <1>5, <2>1
<1>7. QED  BY <1>3, <1>4, <1>5, <1>6, RingIsFifo DEF Waiting

LEMMA EmptyIsWaiting ==
    ASSUME NEW r, r.head = 0, r.tail = 0, r.free = FifoSize
    PROVE  Waiting(r)
BY TxAssumption DEF Waiting, Ring!IndicesAgree

LEMMA InitRealFrames == Init => RealFrames
BY EmptyIsWaiting DEF Init, Fifo!EmptyRing, RealFrames

LEMMA NextRealFrames == TxInv /\ RealFrames /\ [Next]_vars => RealFrames'
<1> SUFFICES ASSUME TxInv, RealFrames, [Next]_vars PROVE RealFrames'
    OBVIOUS
<1> USE DEF soft, chip, ghosts
<1>1. TxTypes /\ RoomSeen
    BY TypesSuffice DEF TxInv
<1>2. CASE UNCHANGED <<main, isr, fifo>>
    BY <1>2 DEF RealFrames
<1>3. CASE Main
    <2>1. ASSUME NEW useFifo, MainSend(useFifo) PROVE RealFrames'
        <3>1. main'.frame = [id |-> accepted + 1, fifo |-> useFifo] /\ accepted + 1 # 0
            BY <1>1, <2>1, TxAssumption DEF MainSend, TxTypes, MainType
        <3>2. main'.frame # NoFrame
            BY <3>1 DEF NoFrame
        <3>3. QED  BY <2>1, <3>2 DEF MainSend, RealFrames
    <2>2. CASE MainToFifo
        <3>1. main.frame \in Frame /\ FifoFrame(main.frame)
            BY <1>1, <2>2 DEF MainToFifo, MainAt, Direct, FifoFrame, RealFrames, TxTypes, MainType, Frame
        <3>2. Waiting(fifo')
            BY <1>1, <2>2, <3>1, PutKeepsWaiting DEF MainToFifo, RealFrames, TxTypes
        <3>3. main'.pc = "unmask"
            BY <1>1, <2>2 DEF MainToFifo, Accepted, TxTypes, MainType
        <3>4. QED  BY <2>2, <3>2, <3>3 DEF MainToFifo, RealFrames
    <2>3. CASE UNCHANGED <<isr, fifo>> /\ (main'.pc \in {"idle", "unmask"} \/ main' = main)
        BY <2>3 DEF RealFrames
    <2>4. CASE MainToQueue
        BY <1>1, <2>4 DEF MainToQueue, MainAt, RealFrames, TxTypes, MainType
    <2>5. MainWrite \/ MainNoRoom \/ MainUnmask
            => UNCHANGED <<isr, fifo>> /\ main'.pc \in {"idle", "unmask"}
        BY <1>1 DEF MainWrite, Accepted, MainNoRoom, MainUnmask, TxTypes, MainType
    <2>6. ASSUME NEW n, NEW useFifo, MainAsk(n, useFifo) PROVE UNCHANGED <<main, isr, fifo>>
        BY <2>6 DEF MainAsk
    <2>7. QED  BY <1>2, <1>3, <2>1, <2>2, <2>3, <2>4, <2>5, <2>6 DEF Main
<1>4. CASE Isr
    <2>1. \A pc, events : NextBranch(pc, events) \notin {"relaunch", "write"}
        BY DEF NextBranch
    <2>2. CASE UNCHANGED <<main, fifo>> /\ isr'.pc \notin {"relaunch", "write"}
        BY <2>2 DEF RealFrames
    <2>3. IsrEnter \/ IsrRead \/ IsrReturn \/ IsrWrite \/ IsrPop \/ IsrDismiss
            => UNCHANGED <<main, fifo>> /\ isr'.pc \notin {"relaunch", "write"}
        <3>1. IsrRead => UNCHANGED <<main, fifo>> /\ isr'.pc \notin {"relaunch", "write"}
            BY <1>1, <2>1 DEF IsrRead, TxTypes, IsrType
        <3>2. IsrEnter \/ IsrReturn \/ IsrPop \/ IsrDismiss
                => UNCHANGED <<main, fifo>> /\ isr'.pc \notin {"relaunch", "write"}
            BY <1>1 DEF IsrEnter, IsrReturn, IsrPop, IsrDismiss, TxTypes, IsrType
        <3>3. IsrWrite => UNCHANGED <<main, fifo>> /\ isr'.pc \notin {"relaunch", "write"}
            BY <1>1 DEF IsrWrite, TxTypes, IsrType
        <3>4. QED  BY <3>1, <3>2, <3>3
    <2>4. CASE IsrBusOff
        <3>1. Waiting(fifo')
            <4>1. CASE UNCHANGED fifo
                BY <4>1 DEF RealFrames
            <4>2. CASE DiscardAll
                BY <1>1, <4>2, EmptyIsWaiting
                DEF DiscardAll, TxTypes, RingOfFrames, Fifo!RingType
            <4>3. QED  BY <2>4, <4>1, <4>2 DEF IsrBusOff
        <3>2. UNCHANGED main /\ isr'.pc \notin {"relaunch", "write"}
            BY <1>1, <2>1, <2>4 DEF IsrBusOff, TxTypes, IsrType
        <3>3. QED  BY <3>1, <3>2 DEF RealFrames
    <2>5. CASE IsrTx
        <3>1. UNCHANGED main /\ \E seq : TakeEvent(seq)
            BY <2>5 DEF IsrTx
        <3> PICK seq : TakeEvent(seq)
            BY <3>1
        <3>2. CASE ~IsValid(seq)
            BY <1>1, <2>2, <3>1, <3>2 DEF TakeEvent, TxTypes, IsrType
        <3>3. CASE Complete(seq) /\ seq = pri.fifoSlot /\ HasNext
            <4>1. /\ fifo' = Fifo!AdvanceHead([fifo EXCEPT !.free = @ + 1])
                  /\ isr' = [isr EXCEPT !.pc = "relaunch", !.frame = Fifo!At(fifo, 0)]
                BY <3>3 DEF Complete
            <4>2. Waiting(fifo') /\ FifoFrame(Fifo!At(fifo, 0))
                BY <1>1, <3>3, <4>1, TakeKeepsWaiting DEF HasNext, RealFrames, TxTypes
            <4>3. QED  BY <1>1, <3>1, <4>1, <4>2 DEF RealFrames, TxTypes, IsrType
        <3>4. CASE Complete(seq) /\ ~(seq = pri.fifoSlot /\ HasNext)
            <4>1. fifo' = fifo /\ isr' = [isr EXCEPT !.pc = "pop", !.frame = NoFrame]
                BY <3>4 DEF Complete
            <4>2. QED  BY <1>1, <2>2, <3>1, <4>1 DEF TxTypes, IsrType
        <3>5. QED  BY <3>2, <3>3, <3>4 DEF TakeEvent
    <2>6. CASE IsrRelaunch
        <3>1. /\ UNCHANGED main /\ isr.frame \in Frame /\ FifoFrame(isr.frame)
              /\ (isr'.pc = "write" => isr'.frame = isr.frame) /\ isr'.pc # "relaunch"
            BY <1>1, <2>6 DEF IsrRelaunch, RealFrames, TxTypes, IsrType
        <3>2. Waiting(fifo')
            <4>1. CASE UNCHANGED fifo
                BY <4>1 DEF RealFrames
            <4>2. CASE fifo' = Fifo!Put(fifo, isr.frame)
                BY <1>1, <2>6, <3>1, <4>2, PutKeepsWaiting DEF IsrRelaunch, RoomSeen, RealFrames, TxTypes
            <4>3. QED  BY <2>6, <4>1, <4>2 DEF IsrRelaunch
        <3>3. QED  BY <3>1, <3>2 DEF RealFrames
    <2>7. QED  BY <1>4, <2>2, <2>3, <2>4, <2>5, <2>6 DEF Isr
<1>5. QED
    BY <1>2, <1>3, <1>4 DEF Next, vars, ChipTransmit, ChipBusOff, ChipRecover, ChipWarning

-----------------------------------------------------------------------------
(* Events as a sequence and as the set of their slots.                     *)

LEMMA SeqsOfAppend ==
    ASSUME NEW q \in Seq(EventType), NEW e \in EventType
    PROVE  /\ SeqsOf(Append(q, e)) = SeqsOf(q) \cup {e.seq}
           /\ Distinct(q) /\ e.seq \notin SeqsOf(q) => Distinct(Append(q, e))
<1>1. /\ Len(Append(q, e)) = Len(q) + 1 /\ Len(q) \in Nat
      /\ \A i \in 1..Len(q) : Append(q, e)[i] = q[i]
      /\ Append(q, e)[Len(q) + 1] = e
    OBVIOUS
<1>2. 1..Len(Append(q, e)) = (1..Len(q)) \cup {Len(q) + 1}
    BY <1>1
<1>3. SeqsOf(Append(q, e)) = SeqsOf(q) \cup {e.seq}
    BY <1>1, <1>2 DEF SeqsOf
<1>4. ASSUME Distinct(q), e.seq \notin SeqsOf(q) PROVE Distinct(Append(q, e))
    BY <1>1, <1>2, <1>4 DEF Distinct, SeqsOf
<1>5. QED  BY <1>3, <1>4

LEMMA SeqsOfTail ==
    ASSUME NEW q \in Seq(EventType), q # <<>>
    PROVE  /\ SeqsOf(q) = SeqsOf(Tail(q)) \cup {Head(q).seq}
           /\ Distinct(q) => Distinct(Tail(q)) /\ Head(q).seq \notin SeqsOf(Tail(q))
<1>1. /\ Len(q) \in Nat \ {0} /\ Len(Tail(q)) = Len(q) - 1
      /\ \A i \in 1..Len(q)-1 : Tail(q)[i] = q[i + 1]
      /\ Head(q) = q[1]
    OBVIOUS
<1>2. \A i \in 1..Len(q) : i = 1 \/ i - 1 \in 1..Len(q)-1
    BY <1>1
<1>3. SeqsOf(q) \subseteq SeqsOf(Tail(q)) \cup {Head(q).seq}
    <2> SUFFICES ASSUME NEW i \in 1..Len(q)
                 PROVE  q[i].seq \in SeqsOf(Tail(q)) \cup {Head(q).seq}
        BY DEF SeqsOf
    <2>1. CASE i = 1
        BY <1>1, <2>1
    <2>2. CASE i - 1 \in 1..Len(q)-1
        <3>1. Tail(q)[i - 1] = q[i]
            BY <1>1, <2>2
        <3>2. QED  BY <1>1, <2>2, <3>1 DEF SeqsOf
    <2>3. QED  BY <1>2, <2>1, <2>2
<1>4. SeqsOf(Tail(q)) \cup {Head(q).seq} \subseteq SeqsOf(q)
    <2>1. Head(q).seq \in SeqsOf(q)
        BY <1>1 DEF SeqsOf
    <2>2. ASSUME NEW i \in 1..Len(Tail(q)) PROVE Tail(q)[i].seq \in SeqsOf(q)
        <3>1. Tail(q)[i] = q[i + 1] /\ i + 1 \in 1..Len(q)
            BY <1>1
        <3>2. QED  BY <3>1 DEF SeqsOf
    <2>3. QED  BY <2>1, <2>2 DEF SeqsOf
<1>5. ASSUME Distinct(q) PROVE Distinct(Tail(q)) /\ Head(q).seq \notin SeqsOf(Tail(q))
    <2>1. \A i \in 1..Len(Tail(q)) : Tail(q)[i] = q[i + 1] /\ i + 1 \in 1..Len(q) /\ i + 1 # 1
        BY <1>1
    <2>2. 1 \in 1..Len(q)
        BY <1>1
    <2>3. Head(q).seq \notin SeqsOf(Tail(q))
        BY <1>1, <1>5, <2>1, <2>2 DEF Distinct, SeqsOf
    <2>4. \A i, j \in 1..Len(Tail(q)) : i + 1 = j + 1 => i = j
        BY <1>1
    <2>5. Distinct(Tail(q))
        BY <1>5, <2>1, <2>4 DEF Distinct
    <2>6. QED  BY <2>3, <2>5
<1>6. QED  BY <1>3, <1>4, <1>5

LEMMA TailAppend ==
    ASSUME NEW q \in Seq(EventType), q # <<>>, NEW e \in EventType
    PROVE  /\ Tail(Append(q, e)) = Append(Tail(q), e)
           /\ Head(Append(q, e)) = Head(q) /\ Append(q, e) # <<>>
OBVIOUS

LEMMA InTefIsSeqsOf == InTef = SeqsOf(tef)
BY DEF InTef, SeqsOf

-----------------------------------------------------------------------------
(* What an undisturbed step is.                                            *)

LEMMA NoReadFailed ==
    ASSUME budget \in BudgetType, Undisturbed', ReadFails
    PROVE  FALSE
<1>1. budget.crc \in 0..MaxCrcFailures /\ budget'.crc = budget.crc - 1
    BY DEF ReadFails, BudgetType
<1>2. QED  BY <1>1, TxAssumption DEF Undisturbed

LEMMA NoBusOffInSend ==
    ASSUME budget \in BudgetType, Undisturbed', ChipBusOff
    PROVE  ~Sending
<1> SUFFICES ASSUME Sending PROVE FALSE
    OBVIOUS
<1>1. budget.inSend \in 0..MaxInSend /\ budget'.inSend = budget.inSend - 1
    BY DEF ChipBusOff, BudgetType
<1>2. QED  BY <1>1, TxAssumption DEF Undisturbed

LEMMA StaysDisturbed ==
    ASSUME TxTypes, [Next]_vars, Undisturbed'
    PROVE  Undisturbed
<1> USE DEF soft, chip, ghosts
<1>1. budget \in BudgetType /\ ~ReadFails
    BY NoReadFailed DEF TxTypes
<1>2. CASE UNCHANGED budget
    BY <1>2 DEF Undisturbed
<1>3. CASE ChipBusOff
    <2>1. budget' = [budget EXCEPT !.busOff = @ - 1]
        BY <1>1, <1>3, NoBusOffInSend DEF ChipBusOff
    <2>2. QED  BY <1>1, <2>1 DEF Undisturbed, BudgetType
<1>4. CASE ChipWarning
    BY <1>1, <1>4 DEF ChipWarning, Undisturbed, BudgetType
<1>5. \A taken, slot : QueueSlot(taken, slot) => UNCHANGED budget
    BY <1>1 DEF QueueSlot
<1>6. Main => UNCHANGED budget
    BY <1>5 DEF Main, MainSend, MainAsk, MainToQueue, MainWrite, MainToFifo, MainNoRoom, MainUnmask
<1>7. Isr => UNCHANGED budget
    BY <1>1, <1>5 DEF Isr, IsrEnter, IsrRead, IsrReturn, IsrBusOff, SeesBusOff, IsrTx, IsrRelaunch,
                      IsrWrite, IsrPop, IsrDismiss
<1>8. QED
    BY <1>2, <1>3, <1>4, <1>6, <1>7 DEF Next, vars, ChipTransmit, ChipRecover

-----------------------------------------------------------------------------
(* The slots in use are counted exactly.                                   *)

\* Where a frame is written, the count goes down by one with the slot taken.
LEMMA RequestCounts ==
    ASSUME pri \in PriType, pri.free = QueueSize - Cardinality(pri.valid),
           NEW frame, NEW slot \in Slots, slot \notin pri.valid, Request(frame, slot)
    PROVE  /\ pri'.free = QueueSize - Cardinality(pri'.valid)
           /\ pri'.valid = pri.valid \cup {slot}
<1>1. pri.valid \in SUBSET Slots /\ pri'.free = pri.free - 1 /\ pri'.valid = pri.valid \cup {slot}
    BY DEF PriType, Request
<1>2. Cardinality(pri'.valid) = Cardinality(pri.valid) + 1
    BY <1>1, ValidFinite, FS_AddElement
<1>3. Cardinality(pri.valid) \in Nat
    BY <1>1, ValidFinite
<1>4. QED  BY <1>1, <1>2, <1>3, TxAssumption

LEMMA FreedCounts ==
    ASSUME pri \in PriType, pri.free = QueueSize - Cardinality(pri.valid),
           NEW seq \in Slots, IsValid(seq)
    PROVE  /\ Freed(seq).free = QueueSize - Cardinality(Freed(seq).valid)
           /\ Freed(seq).valid = pri.valid \ {seq}
<1>1. seq # QueueSize
    BY TxAssumption DEF Slots
<1>2. /\ pri.valid \in SUBSET Slots /\ seq \in pri.valid
      /\ Freed(seq).free = pri.free + 1 /\ Freed(seq).valid = pri.valid \ {seq}
    BY <1>1 DEF PriType, Freed, IsValid
<1>3. Cardinality(pri.valid \ {seq}) = Cardinality(pri.valid) - 1
    BY <1>2, ValidShrinks
<1>4. Cardinality(pri.valid) \in Nat
    BY <1>2, ValidFinite
<1>5. QED  BY <1>2, <1>3, <1>4, TxAssumption

\* A count above zero means that some slot is not valid.
LEMMA SomeSlotInvalid ==
    ASSUME pri \in PriType, LeakOnly(pri), pri.free > 0
    PROVE  \E s \in Slots : s \notin pri.valid
<1>1. SUFFICES ASSUME pri.valid = Slots PROVE FALSE
    BY DEF PriType
<1>2. QED  BY <1>1, SlotsSize, TxAssumption DEF LeakOnly, PriType

-----------------------------------------------------------------------------
(* The invariant.                                                          *)

LEMMA InitSlotInv == Init => SlotInv
<1> SUFFICES ASSUME Init PROVE SlotInv
    OBVIOUS
<1>1. Occupied = {} /\ pri.valid = {} /\ pri.free = QueueSize /\ Untaken = <<>>
    BY DEF Init, Occupied, EmptyPri, Untaken
<1>2. Cardinality({}) = 0
    BY FS_EmptySet
<1>3. SeqsOf(<<>>) = {} /\ Distinct(<<>>)
    BY DEF SeqsOf, Distinct
<1>4. QueueKnown /\ SlotsAgree
    BY <1>1, <1>2, <1>3, TxAssumption DEF Init, QueueKnown, SlotsAgree
<1>5. EventsAreThere /\ BusOffOnce /\ MaskedInSend
    BY <1>1, <1>3 DEF Init, EventsAreThere, BusOffOnce, MaskedInSend
<1>6. QED  BY <1>4, <1>5 DEF SlotInv, Regular

LEMMA NextSlotInv == TxInv /\ RealFrames /\ SlotInv /\ [Next]_vars => SlotInv'
<1> SUFFICES ASSUME TxInv, RealFrames, SlotInv, [Next]_vars PROVE SlotInv'
    OBVIOUS
<1> USE DEF soft, chip, ghosts
<1>1. TxTypes /\ SendIsAlone /\ RoomSeen
    BY TypesSuffice DEF TxInv
<1>2. MaskedInSend'
    <2>1. CASE UNCHANGED <<main, irqOn>>
        BY <2>1 DEF SlotInv, MaskedInSend
    <2>2. ASSUME NEW useFifo, MainSend(useFifo) PROVE MaskedInSend'
        BY <1>1, <2>2 DEF MainSend, MaskedInSend, TxTypes, MainType
    <2>3. CASE MainToQueue \/ MainWrite \/ MainToFifo \/ MainNoRoom
        <3>1. UNCHANGED irqOn /\ main'.pc # "idle"
            BY <1>1, <2>3 DEF MainToQueue, MainWrite, MainToFifo, MainNoRoom, Accepted, TxTypes, MainType
        <3>2. main.pc # "idle"
            BY <2>3 DEF MainToQueue, MainWrite, MainToFifo, MainNoRoom, MainAt
        <3>3. QED  BY <3>1, <3>2 DEF SlotInv, MaskedInSend
    <2>4. CASE MainUnmask
        BY <2>4 DEF MainUnmask, MaskedInSend
    <2>5. ASSUME NEW n, NEW useFifo, MainAsk(n, useFifo) PROVE UNCHANGED <<main, irqOn>>
        BY <2>5 DEF MainAsk
    <2>6. Isr => UNCHANGED <<main, irqOn>>
        BY DEF Isr, IsrEnter, IsrRead, IsrReturn, IsrBusOff, IsrTx, IsrRelaunch, IsrWrite,
               IsrPop, IsrDismiss
    <2>7. QED
        BY <2>1, <2>2, <2>3, <2>4, <2>5, <2>6
        DEF Next, Main, vars, ChipTransmit, ChipBusOff, ChipRecover, ChipWarning
<1>3. SUFFICES ASSUME Undisturbed' PROVE Regular'
    BY <1>2 DEF SlotInv
<1>4. EventsAreThere /\ BusOffOnce /\ QueueKnown /\ (~erased => SlotsAgree) /\ MaskedInSend
    BY <1>1, <1>3, StaysDisturbed DEF SlotInv, Regular
<1>5. ~ReadFails /\ (ChipBusOff => ~Sending)
    BY <1>1, <1>3, NoReadFailed, NoBusOffInSend DEF TxTypes
<1>6. /\ Untaken \in Seq(EventType) /\ tef \in Seq(EventType)
      /\ pri.valid \subseteq Slots /\ Occupied \subseteq Slots
    <2>1. tef \in Seq(EventType) /\ (tef # <<>> => Tail(tef) \in Seq(EventType))
        BY <1>1 DEF TxTypes
    <2>2. QED  BY <1>1, <1>4, <2>1 DEF Untaken, EventsAreThere, TxTypes, PriType, Occupied
<1>7. CASE UNCHANGED <<pri, txq, tef, txbo, cerr, erased, main, isr>>
    <2>1. Occupied' = Occupied /\ Untaken' = Untaken /\ (Sending' <=> Sending)
        BY <1>7 DEF Occupied, Untaken, Sending
    <2>2. QED  BY <1>4, <1>7, <2>1 DEF Regular, EventsAreThere, BusOffOnce, QueueKnown, SlotsAgree
<1>8. CASE \E s \in Slots : ChipTransmit(s)
    <2> PICK s \in Slots : ChipTransmit(s)
        BY <1>8
    <2> DEFINE e == [seq |-> s, frame |-> txq[s]]
    <2>1. ~erased /\ SlotsAgree /\ s \in Occupied
        BY <1>4 DEF BusOffOnce, ChipTransmit
    <2>2. e \in EventType /\ e.seq = s /\ tef' = Append(tef, e)
        BY <1>1 DEF TxTypes, EventType, ChipTransmit
    <2>3. Occupied' = Occupied \ {s}
        BY <1>1, <2>1 DEF Occupied, ChipTransmit, TxTypes
    <2>4. Untaken' = Append(Untaken, e)
        <3>1. CASE isr.pc \in {"relaunch", "write", "pop"}
            BY <1>4, <1>6, <2>2, <3>1, TailAppend DEF Untaken, ChipTransmit, EventsAreThere
        <3>2. QED  BY <2>2, <3>1 DEF Untaken, ChipTransmit
    <2>5. SeqsOf(Untaken') = SeqsOf(Untaken) \cup {s} /\ Distinct(Untaken')
        BY <1>4, <1>6, <2>1, <2>2, <2>4, SeqsOfAppend DEF QueueKnown, EventsAreThere
    <2>6. SeqsOf(tef') = SeqsOf(tef) \cup {s} /\ tef' # <<>> /\ (tef # <<>> => Head(tef') = Head(tef))
        BY <1>6, <2>2, SeqsOfAppend, TailAppend
    <2>7. UNCHANGED <<pri, isr, main, erased, cerr, txbo>>
        BY DEF ChipTransmit
    <2>8. EventsAreThere'
        BY <2>5, <2>6 DEF EventsAreThere
    <2>9. BusOffOnce'
        BY <1>4, <2>1, <2>7 DEF BusOffOnce, Sending
    <2>10. QueueKnown' /\ SlotsAgree'
        <3>1. isr.pc = "relaunch" => tef # <<>>
            BY <1>4 DEF EventsAreThere
        <3>2. QED  BY <1>4, <2>1, <2>3, <2>5, <2>6, <2>7, <3>1 DEF QueueKnown, SlotsAgree
    <2>11. QED  BY <2>8, <2>9, <2>10 DEF Regular
<1>9. CASE ChipBusOff
    <2>1. /\ erased' /\ txbo' /\ cerr' /\ Untaken' = Untaken /\ UNCHANGED <<pri, tef, isr, main>>
          /\ ~Sending'
        BY <1>5, <1>9 DEF ChipBusOff, Untaken, Sending
    <2>2. Occupied' = {}
        BY <1>9 DEF ChipBusOff, Occupied
    <2>3. EventsAreThere' /\ BusOffOnce'
        BY <1>4, <2>1, <2>2 DEF EventsAreThere, BusOffOnce
    <2>4. main.pc \notin {"send", "write"} /\ isr.pc \notin {"relaunch", "write"}
        BY <1>5, <1>9 DEF Sending
    <2>5. QueueKnown'
        BY <1>4, <1>6, <2>1, <2>2, <2>4 DEF QueueKnown
    <2>6. QED  BY <2>1, <2>3, <2>5 DEF Regular
<1>10. CASE ChipRecover \/ ChipWarning
    <2>1. /\ Occupied' = Occupied /\ Untaken' = Untaken /\ (Sending' <=> Sending)
          /\ UNCHANGED <<pri, tef, main, isr, erased>> /\ ~txbo' /\ (ChipWarning => ~txbo)
          /\ (ChipRecover => ~erased) /\ cerr'
        BY <1>1, <1>10 DEF ChipRecover, ChipWarning, Occupied, Untaken, Sending, TxTypes
    <2>2. EventsAreThere' /\ QueueKnown' /\ (~erased => SlotsAgree')
        BY <1>4, <2>1 DEF EventsAreThere, QueueKnown, SlotsAgree
    <2>3. BusOffOnce'
        BY <1>4, <1>10, <2>1 DEF BusOffOnce
    <2>4. QED  BY <2>1, <2>2, <2>3 DEF Regular
<1>11. CASE Main
    <2>1. isr.pc = "idle" /\ Untaken = tef
        BY <1>1, <1>11 DEF Main, MainSend, MainAsk, MainToQueue, MainWrite, MainToFifo, MainNoRoom,
                           MainUnmask, MainAt, Untaken
    <2>2. isr' = isr /\ UNCHANGED <<tef, txbo, cerr, erased>> /\ Untaken' = Untaken
        BY <1>11, <2>1 DEF Main, MainSend, MainAsk, MainToQueue, MainWrite, MainToFifo, MainNoRoom,
                           MainUnmask, Untaken
    <2>3. EventsAreThere'
        BY <1>4, <2>2 DEF EventsAreThere
    <2>4. ASSUME NEW useFifo, MainSend(useFifo) PROVE Regular'
        <3>1. ~cerr /\ tef = <<>> /\ main'.pc = "send" /\ UNCHANGED <<pri, txq>>
            BY <1>1, <1>4, <2>4 DEF MainSend, MainAt, Asserted, MaskedInSend, TxTypes, MainType
        <3>2. SeqsOf(tef') = {} /\ Occupied' = Occupied
            BY <2>2, <3>1 DEF SeqsOf, Occupied
        <3>3. BusOffOnce'
            BY <1>4, <2>1, <2>2, <3>1 DEF BusOffOnce
        <3>4. QueueKnown' /\ (~erased => SlotsAgree')
            BY <1>4, <2>1, <2>2, <3>1, <3>2 DEF QueueKnown, SlotsAgree
        <3>5. QED  BY <2>2, <2>3, <3>3, <3>4 DEF Regular
    <2>5. CASE MainToQueue
        <3> PICK slot \in Slots :
              QueueSlot({}, slot) /\ main' = [main EXCEPT !.pc = "write", !.slot = slot]
            BY <2>5 DEF MainToQueue
        <3>1. QueueHasRoom({}) /\ slot \in FreeSlots({}) /\ pri.free > 0
            BY <1>5, FrameTypes DEF QueueSlot, QueueHasRoom
        <3>2. main.pc = "send" /\ main'.pc = "write" /\ main'.slot = slot /\ UNCHANGED <<pri, txq>>
            BY <1>1, <2>5 DEF MainToQueue, MainAt, TxTypes, MainType
        <3>3. Sending /\ Occupied' = Occupied
            BY <3>2 DEF Sending, Occupied
        <3>4. BusOffOnce'
            BY <1>4, <2>1, <2>2, <3>3 DEF BusOffOnce
        <3>5. slot \notin Occupied \cup SeqsOf(tef)
            <4>1. SeqsOf(tef) \subseteq pri.valid
                <5>1. SeqsOf(<<>>) = {}
                    BY DEF SeqsOf
                <5>2. QED  BY <1>4, <3>2, <5>1 DEF QueueKnown, SlotsAgree
            <4>2. PICK s \in Slots : s \notin pri.valid
                BY <1>1, <3>1, SomeSlotInvalid DEF TxTypes
            <4>3. s \notin Occupied \cup InTef
                BY <1>4, <4>1, <4>2, InTefIsSeqsOf DEF QueueKnown
            <4>4. QED  BY <3>1, <4>3, InTefIsSeqsOf DEF FreeSlots
        <3>6. QueueKnown' /\ (~erased => SlotsAgree')
            BY <1>4, <2>1, <2>2, <3>2, <3>3, <3>5 DEF QueueKnown, SlotsAgree
        <3>7. QED  BY <2>2, <2>3, <3>4, <3>6 DEF Regular
    <2>6. CASE MainWrite
        <3>1. /\ main.pc = "write" /\ Request(main.frame, main.slot) /\ main'.pc = "unmask"
              /\ main.slot \in Slots /\ main.frame # NoFrame
            BY <1>1, <2>6 DEF MainWrite, MainAt, Accepted, RealFrames, TxTypes, MainType
        <3>2. Occupied' = Occupied \cup {main.slot}
            BY <1>1, <3>1 DEF Occupied, Request, TxTypes
        <3>3. ~Sending' /\ (erased /\ cerr => ~Sending) /\ Sending
            BY <1>4, <2>1, <2>2, <3>1 DEF Sending, BusOffOnce
        <3>4. BusOffOnce'
            BY <1>4, <2>1, <2>2, <3>3 DEF BusOffOnce
        <3>5. ASSUME ~erased PROVE SlotsAgree'
            <4>1. SlotsAgree /\ main.slot \notin pri.valid
                BY <1>4, <3>1, <3>5 DEF SlotsAgree
            <4>2. /\ pri'.free = QueueSize - Cardinality(pri'.valid)
                  /\ pri'.valid = pri.valid \cup {main.slot}
                BY <1>1, <3>1, <4>1, RequestCounts DEF SlotsAgree, TxTypes
            <4>3. QED  BY <2>1, <2>2, <3>1, <3>2, <4>1, <4>2 DEF SlotsAgree
        <3>6. QueueKnown'
            BY <1>4, <2>1, <2>2, <3>1, <3>2 DEF QueueKnown, Request
        <3>7. QED  BY <2>2, <2>3, <3>4, <3>5, <3>6 DEF Regular
    <2>7. CASE MainToFifo \/ MainNoRoom \/ MainUnmask
        <3>1. UNCHANGED <<pri, txq>> /\ main'.pc \in {"idle", "unmask"}
            BY <1>1, <2>7 DEF MainToFifo, MainNoRoom, MainUnmask, Accepted, TxTypes, MainType
        <3>2. Occupied' = Occupied /\ (Sending' => Sending)
            BY <2>2, <3>1 DEF Occupied, Sending
        <3>3. BusOffOnce' /\ QueueKnown' /\ (~erased => SlotsAgree')
            BY <1>4, <2>1, <2>2, <3>1, <3>2 DEF BusOffOnce, QueueKnown, SlotsAgree
        <3>4. QED  BY <2>2, <2>3, <3>3 DEF Regular
    <2>8. ASSUME NEW n, NEW useFifo, MainAsk(n, useFifo) PROVE Regular'
        BY <1>7, <2>8 DEF MainAsk
    <2>9. QED  BY <1>11, <2>4, <2>5, <2>6, <2>7, <2>8 DEF Main
<1>12. CASE Isr
    <2>1. isr.pc # "idle" => main.pc = "idle"
        BY <1>1 DEF SendIsAlone
    <2>2. main' = main
        BY <1>12 DEF Isr, IsrEnter, IsrRead, IsrReturn, IsrBusOff, IsrTx, IsrRelaunch, IsrWrite,
               IsrPop, IsrDismiss
    <2>3. CASE IsrEnter \/ IsrReturn
        <3>1. /\ UNCHANGED <<pri, txq, tef, txbo, cerr, erased>> /\ isr'.pc \in {"idle", "loop"}
              /\ isr.pc \in {"idle", "loop"}
            BY <1>1, <2>3 DEF IsrEnter, IsrReturn, TxTypes, IsrType
        <3>2. Occupied' = Occupied /\ Untaken' = Untaken /\ (Sending' <=> Sending)
            BY <2>2, <3>1 DEF Occupied, Untaken, Sending
        <3>3. QED
            BY <1>4, <2>2, <3>1, <3>2 DEF Regular, EventsAreThere, BusOffOnce, QueueKnown, SlotsAgree
    <2>4. CASE IsrRead
        <3> DEFINE events == {e \in {"CERR", "TEF"} : IF e = "CERR" THEN cerr ELSE tef # <<>>}
        <3>1. /\ isr.pc = "loop"
              /\ isr' = [isr EXCEPT !.pc = NextBranch("loop", events), !.events = events]
              /\ UNCHANGED <<pri, txq, tef, txbo, cerr, erased>>
            BY <1>5, <2>4 DEF IsrRead
        <3>2. isr'.pc = NextBranch("loop", events) /\ isr'.events = events
            BY <1>1, <3>1 DEF TxTypes, IsrType
        <3>3. /\ isr'.pc \in {"busoff", "tx", "dismiss"}
              /\ (isr'.pc = "busoff" <=> cerr) /\ (isr'.pc = "tx" => tef # <<>>)
              /\ ("CERR" \in isr'.events <=> cerr) /\ ("TEF" \in isr'.events <=> tef # <<>>)
            BY <1>1, <3>2 DEF NextBranch, TxTypes
        <3>4. Occupied' = Occupied /\ Untaken' = Untaken
            BY <3>1, <3>3 DEF Occupied, Untaken
        <3>5. EventsAreThere'
            BY <1>4, <3>1, <3>3, <3>4 DEF EventsAreThere
        <3>6. BusOffOnce'
            BY <1>4, <2>1, <2>2, <3>1, <3>3, <3>4 DEF BusOffOnce, Sending
        <3>7. QueueKnown' /\ (~erased => SlotsAgree')
            BY <1>4, <2>2, <3>1, <3>3, <3>4 DEF QueueKnown, SlotsAgree
        <3>8. QED  BY <3>1, <3>5, <3>6, <3>7 DEF Regular
    <2>5. CASE IsrBusOff
        <3>1. /\ isr.pc = "busoff" /\ cerr /\ "CERR" \in isr.events
              /\ UNCHANGED <<txq, tef, txbo, cerr>>
            BY <1>4, <2>5 DEF IsrBusOff, BusOffOnce
        <3>2. (txbo => erased) /\ (erased => txbo /\ Occupied = {})
            BY <1>4, <3>1 DEF BusOffOnce
        <3>3. IF txbo THEN DiscardAll /\ ~erased' ELSE UNCHANGED <<pri, fifo, erased>>
            BY <1>1, <1>5, <2>5 DEF IsrBusOff, SeesBusOff, TxTypes
        <3>4. isr'.pc = NextBranch("busoff", isr.events) /\ isr'.events = isr.events
            BY <1>1, <2>5 DEF IsrBusOff, TxTypes, IsrType
        <3>5. isr'.pc \in {"tx", "dismiss"} /\ (isr'.pc = "tx" => "TEF" \in isr.events)
            BY <3>4 DEF NextBranch
        <3>6. Occupied' = Occupied /\ Untaken' = Untaken
            BY <3>1, <3>5 DEF Occupied, Untaken
        <3>7. EventsAreThere'
            BY <1>4, <3>1, <3>5, <3>6 DEF EventsAreThere
        <3>8. ~erased'
            BY <1>1, <3>2, <3>3 DEF TxTypes
        <3>9. BusOffOnce'
            BY <3>1, <3>4, <3>5, <3>8 DEF BusOffOnce
        <3>10. QueueKnown' /\ SlotsAgree'
            <4>1. CASE txbo
                <5>1. pri'.valid = {} /\ pri'.free = QueueSize /\ Occupied' = {}
                    BY <3>2, <3>3, <3>6, <4>1 DEF DiscardAll, EmptyPri
                <5>2. Cardinality({}) = 0
                    BY FS_EmptySet
                <5>3. pri'.free = QueueSize - Cardinality(pri'.valid)
                    BY <5>1, <5>2, TxAssumption
                <5>4. QED  BY <2>1, <2>2, <3>1, <3>5, <5>1, <5>3 DEF QueueKnown, SlotsAgree
            <4>2. CASE ~txbo
                BY <1>4, <2>1, <2>2, <3>1, <3>2, <3>3, <3>5, <3>6, <4>2 DEF QueueKnown, SlotsAgree
            <4>3. QED  BY <4>1, <4>2
        <3>11. QED  BY <3>7, <3>9, <3>10 DEF Regular
    <2>6. CASE IsrTx
        <3>1. isr.pc = "tx" /\ tef # <<>> /\ TakeEvent(Head(tef).seq) /\ Untaken = tef
            BY <1>4, <1>5, <2>6 DEF IsrTx, EventsAreThere, Untaken
        <3> DEFINE seq == Head(tef).seq
        <3>2. seq \in Slots
            <4>1. Head(tef) \in EventType
                BY <1>6, <3>1
            <4>2. QED  BY <4>1 DEF EventType
        <3>3. /\ isr'.pc \in {"relaunch", "pop"} /\ isr'.events = isr.events
              /\ UNCHANGED <<txq, tef, txbo, cerr, erased>>
            BY <1>1, <2>6, <3>1 DEF IsrTx, TakeEvent, Complete, TxTypes, IsrType
        <3>4. Occupied' = Occupied /\ Untaken' = Tail(tef)
            BY <3>3 DEF Occupied, Untaken
        <3>5. /\ SeqsOf(tef) = SeqsOf(Tail(tef)) \cup {seq}
              /\ Distinct(Tail(tef)) /\ seq \notin SeqsOf(Tail(tef))
            BY <1>4, <1>6, <3>1, SeqsOfTail DEF EventsAreThere
        <3>6. EventsAreThere'
            BY <3>1, <3>3, <3>4, <3>5 DEF EventsAreThere
        <3>7. BusOffOnce'
            BY <1>4, <3>1, <3>3, <3>4 DEF BusOffOnce, Sending
        <3>8. QueueKnown' /\ (~erased => SlotsAgree')
            <4>1. main.pc = "idle"
                BY <2>1, <3>1
            <4>2. CASE ~IsValid(seq)
                <5>1. UNCHANGED pri /\ seq \notin pri.valid /\ isr'.pc = "pop"
                    <6>1. seq # QueueSize
                        BY <3>2, TxAssumption DEF Slots
                    <6>2. QED  BY <1>1, <3>1, <4>2, <6>1 DEF TakeEvent, IsValid, TxTypes, IsrType
                <5>2. QED
                    BY <1>4, <2>2, <3>1, <3>3, <3>4, <3>5, <4>1, <5>1 DEF QueueKnown, SlotsAgree
            <4>3. CASE IsValid(seq)
                <5>1. Freed(seq) \in PriType
                    <6>1. seq \in 0..QueueSize
                        BY <3>2, TxAssumption DEF Slots
                    <6>2. QED  BY <1>1, <4>3, <6>1, FreedShape DEF TxTypes
                <5>2. pri'.free = Freed(seq).free /\ pri'.valid = Freed(seq).valid
                    BY <3>1, <4>3, <5>1 DEF TakeEvent, Complete, PriType
                <5>3. pri'.valid = pri.valid \ {seq}
                    <6>1. seq # QueueSize
                        BY <3>2, TxAssumption DEF Slots
                    <6>2. QED  BY <1>1, <5>2, <6>1 DEF Freed, TxTypes, PriType
                <5>4. ~erased => pri'.free = QueueSize - Cardinality(pri'.valid)
                    BY <1>1, <1>4, <3>2, <4>3, <5>2, FreedCounts DEF SlotsAgree, TxTypes
                <5>5. QueueKnown'
                    BY <1>4, <2>2, <3>1, <3>3, <3>4, <3>5, <4>1, <5>3 DEF QueueKnown
                <5>6. ~erased => SlotsAgree'
                    BY <1>4, <2>2, <3>1, <3>3, <3>4, <3>5, <4>1, <5>3, <5>4 DEF SlotsAgree
                <5>7. QED  BY <5>5, <5>6
            <4>4. QED  BY <4>2, <4>3
        <3>9. QED  BY <3>3, <3>6, <3>7, <3>8 DEF Regular
    <2>7. CASE IsrRelaunch
        <3> DEFINE head == Head(tef).seq
                   taken == {tef[i].seq : i \in (1..Len(tef)) \cap {1}}
        <3>1. /\ isr.pc = "relaunch" /\ tef # <<>> /\ Untaken = Tail(tef) /\ main.pc = "idle"
              /\ UNCHANGED <<pri, txq, tef, txbo, cerr, erased>>
            BY <1>4, <2>1, <2>7 DEF IsrRelaunch, EventsAreThere, Untaken
        <3>2. isr'.pc \in {"pop", "write"} /\ isr'.events = isr.events
            BY <1>1, <2>7 DEF IsrRelaunch, TxTypes, IsrType
        <3>3. Occupied' = Occupied /\ Untaken' = Untaken
            BY <3>1, <3>2 DEF Occupied, Untaken
        <3>4. EventsAreThere' /\ BusOffOnce'
            BY <1>4, <3>1, <3>2, <3>3 DEF EventsAreThere, BusOffOnce, Sending
        <3>5. QueueKnown' /\ (~erased => SlotsAgree')
            <4>1. head \notin pri.valid \cup SeqsOf(Untaken)
                BY <1>4, <3>1 DEF QueueKnown
            <4>2. ASSUME isr'.pc = "write"
                  PROVE  isr'.slot \notin Occupied \cup SeqsOf(Untaken)
                <5>1. PICK slot \in Slots \cup {NoSlot} :
                        /\ QueueSlot(taken, slot)
                        /\ isr' = IF slot = NoSlot THEN [isr EXCEPT !.pc = "pop", !.frame = NoFrame]
                                  ELSE [isr EXCEPT !.pc = "write", !.slot = slot]
                    BY <1>1, <2>7, <4>2 DEF IsrRelaunch, TxTypes, IsrType
                <5>2. slot # NoSlot /\ isr'.slot = slot
                    BY <1>1, <4>2, <5>1 DEF TxTypes, IsrType
                <5>3. slot \in FreeSlots(taken)
                    BY <1>5, <5>1, <5>2 DEF QueueSlot
                <5>4. taken = {head} /\ head \in Slots
                    <6>1. Len(tef) \in Nat \ {0} /\ Head(tef) = tef[1] /\ Head(tef) \in EventType
                        BY <1>6, <3>1
                    <6>2. (1..Len(tef)) \cap {1} = {1}
                        BY <6>1
                    <6>3. QED  BY <6>1, <6>2 DEF EventType
                <5>5. InTef = SeqsOf(Untaken) \cup {head}
                    BY <1>6, <3>1, InTefIsSeqsOf, SeqsOfTail
                <5>6. head \notin Occupied
                    BY <1>4, <4>1 DEF QueueKnown
                <5>7. slot \notin Occupied \cup SeqsOf(Untaken)
                    BY <4>1, <5>3, <5>4, <5>5, <5>6 DEF FreeSlots
                <5>8. QED  BY <5>2, <5>7
            <4>3. QED  BY <1>4, <2>2, <3>1, <3>2, <3>3, <4>2 DEF QueueKnown, SlotsAgree
        <3>6. QED  BY <3>1, <3>4, <3>5 DEF Regular
    <2>8. CASE IsrWrite
        <3>1. /\ isr.pc = "write" /\ Request(isr.frame, isr.slot) /\ isr'.pc = "pop" /\ main.pc = "idle"
              /\ isr.slot \in Slots /\ isr.frame # NoFrame /\ isr'.events = isr.events
              /\ UNCHANGED <<tef, txbo, cerr, erased>>
            BY <1>1, <2>1, <2>8 DEF IsrWrite, RealFrames, FifoFrame, TxTypes, IsrType
        <3>2. Occupied' = Occupied \cup {isr.slot} /\ Untaken' = Untaken
            BY <1>1, <3>1 DEF Occupied, Untaken, Request, TxTypes
        <3>3. EventsAreThere' /\ BusOffOnce'
            BY <1>4, <3>1, <3>2 DEF EventsAreThere, BusOffOnce, Sending
        <3>4. ASSUME ~erased PROVE SlotsAgree'
            <4>1. SlotsAgree /\ isr.slot \notin pri.valid
                BY <1>4, <3>1, <3>4 DEF SlotsAgree
            <4>2. /\ pri'.free = QueueSize - Cardinality(pri'.valid)
                  /\ pri'.valid = pri.valid \cup {isr.slot}
                BY <1>1, <3>1, <4>1, RequestCounts DEF SlotsAgree, TxTypes
            <4>3. QED  BY <2>2, <3>1, <3>2, <4>1, <4>2 DEF SlotsAgree
        <3>5. QueueKnown'
            BY <1>4, <2>2, <3>1, <3>2 DEF QueueKnown, Request
        <3>6. QED  BY <3>1, <3>3, <3>4, <3>5 DEF Regular
    <2>9. CASE IsrPop
        <3>1. /\ isr.pc = "pop" /\ isr'.pc = "dismiss" /\ isr'.events = isr.events /\ main.pc = "idle"
              /\ UNCHANGED <<pri, txq, txbo, cerr, erased>>
            BY <1>1, <2>1, <2>9 DEF IsrPop, TxTypes, IsrType
        <3>2. Occupied' = Occupied /\ Untaken' = Untaken
            BY <1>4, <2>9, <3>1 DEF IsrPop, Occupied, Untaken, EventsAreThere
        <3>3. EventsAreThere' /\ BusOffOnce' /\ QueueKnown' /\ (~erased => SlotsAgree')
            BY <1>4, <2>2, <3>1, <3>2 DEF EventsAreThere, BusOffOnce, Sending, QueueKnown, SlotsAgree
        <3>4. QED  BY <3>1, <3>3 DEF Regular
    <2>10. CASE IsrDismiss
        <3>1. /\ isr.pc = "dismiss" /\ isr'.pc = "loop" /\ main.pc = "idle"
              /\ cerr' = (cerr /\ "CERR" \notin isr.events) /\ UNCHANGED <<pri, txq, tef, txbo, erased>>
            BY <1>1, <2>1, <2>10 DEF IsrDismiss, TxTypes, IsrType
        <3>2. Occupied' = Occupied /\ Untaken' = Untaken
            BY <3>1 DEF Occupied, Untaken
        <3>3. EventsAreThere' /\ BusOffOnce' /\ QueueKnown' /\ (~erased => SlotsAgree')
            BY <1>4, <2>2, <3>1, <3>2 DEF EventsAreThere, BusOffOnce, Sending, QueueKnown, SlotsAgree
        <3>4. QED  BY <3>1, <3>3 DEF Regular
    <2>11. QED
        BY <1>12, <2>3, <2>4, <2>5, <2>6, <2>7, <2>8, <2>9, <2>10 DEF Isr
<1>13. QED
    BY <1>7, <1>8, <1>9, <1>10, <1>11, <1>12 DEF Next, vars

-----------------------------------------------------------------------------
(* The theorems.                                                           *)

LEMMA SlotInvAlways == Spec => [](TxInv /\ SlotInv)
BY InitTxInv, NextTxInv, InitRealFrames, NextRealFrames, InitSlotInv, NextSlotInv, PTL DEF Spec

\* Without failed reads and bus-offs in the middle of a send, the count of free slots
\* is exact whenever no bus-off waits to be handled.
THEOREM FreeCountIsExact == Spec => []FreeCountExact
<1>1. SlotInv => FreeCountExact
    BY DEF SlotInv, Regular, SlotsAgree, FreeCountExact
<1>2. QED  BY <1>1, SlotInvAlways, PTL

\* Nor is there ever a frame in the transmit queue that the driver does not know of,
\* however often the chip goes bus-off.
THEOREM NoFrameIsOrphaned == Spec => []NoOrphan
<1>1. SlotInv => NoOrphan
    BY DEF SlotInv, Regular, QueueKnown, NoOrphan, ShadowKnowsQueue
<1>2. QED  BY <1>1, SlotInvAlways, PTL

-----------------------------------------------------------------------------
(* The frames on their way.                                                *)

\* The room promised is still there for n frames: in the queue or, for frames with
\* USE_FIFO, in the FIFO, where the first may be going to the queue.  A frame that the
\* handler is moving from one to the other has its place in the queue yet to take, and
\* may have to go back to the FIFO.
RoomFor(n, useFifo) ==
    LET moving == isr.pc \in {"relaunch", "write"} IN
    IF ~useFifo THEN IF moving THEN n < pri.free ELSE n <= pri.free
    ELSE IF isr.pc = "relaunch" THEN n < fifo.free
    ELSE IF pri.fifoSlot = QueueSize /\ ~moving THEN pri.free > 0 /\ n <= fifo.free + 1
    ELSE n <= fifo.free

\* The promise is kept while it is about the frames that the main loop sends.
PromiseHolds ==
    /\ isr.pc \in {"relaunch", "write"} => pri.free > 0
    /\ main.pc \in {"send", "write"} /\ promise.n > 0 => promise.fifo = main.frame.fifo
    /\ main.pc = "write" /\ main.frame.fifo => pri.fifoSlot = QueueSize
    /\ promise.n > 0 => RoomFor(promise.n, promise.fifo)

\* Inductive together with SlotInv.
SpaceInv == Undisturbed => PromiseHolds

LEMMA InitSpaceInv == Init => SpaceInv
BY DEF Init, SpaceInv, PromiseHolds

LEMMA NextSpaceInv == TxInv /\ RealFrames /\ SlotInv /\ SpaceInv /\ [Next]_vars => SpaceInv'
<1> SUFFICES ASSUME TxInv, RealFrames, SlotInv, SpaceInv, [Next]_vars, Undisturbed'
             PROVE  PromiseHolds'
    BY DEF SpaceInv
<1> USE DEF soft, chip, ghosts
<1>1. TxTypes /\ SendIsAlone /\ RoomSeen
    BY TypesSuffice DEF TxInv
<1>2. EventsAreThere /\ PromiseHolds
    BY <1>1, StaysDisturbed DEF SlotInv, Regular, SpaceInv
<1>3. ~ReadFails
    BY <1>1, NoReadFailed DEF TxTypes
<1>4. /\ pri.free \in Int /\ fifo.free \in Int /\ promise.n \in Int /\ QueueSize \in Int
      /\ 0 <= pri.free /\ pri.free <= QueueSize /\ 0 <= fifo.free /\ fifo.free <= FifoSize
      /\ 0 <= promise.n /\ FifoSize \in Int /\ 0 < QueueSize
    <2>1. fifo.free \in 0..FifoSize
        BY <1>1 DEF TxTypes, RingOfFrames, Fifo!RingType
    <2>2. pri.free \in 0..QueueSize /\ promise.n \in 0..MaxSends
        BY <1>1 DEF TxTypes, PriType, PromiseType
    <2>3. QED  BY <2>1, <2>2, TxAssumption
<1>5. CASE UNCHANGED <<pri, fifo, isr, main, promise>>
    BY <1>2, <1>5 DEF PromiseHolds, RoomFor
<1>6. CASE Main
    <2>1. isr.pc = "idle" /\ isr' = isr
        BY <1>6 DEF Main, MainSend, MainAsk, MainToQueue, MainWrite, MainToFifo, MainNoRoom,
                    MainUnmask, MainAt
    <2>2. ASSUME NEW useFifo, MainSend(useFifo) PROVE PromiseHolds'
        <3>1. main'.pc = "send" /\ main'.frame.fifo = useFifo /\ UNCHANGED <<pri, fifo>>
            BY <1>1, <2>2 DEF MainSend, TxTypes, MainType
        <3>2. promise'.n > 0 => promise' = promise /\ promise.fifo = useFifo
            BY <1>1, <2>2 DEF MainSend, TxTypes, PromiseType
        <3>3. QED  BY <1>2, <2>1, <3>1, <3>2 DEF PromiseHolds, RoomFor
    <2>3. ASSUME NEW useFifo \in BOOLEAN, NEW n \in 1..MaxAsked, MainAsk(n, useFifo) PROVE PromiseHolds'
        <3>1. /\ promise' = [n |-> n, fifo |-> useFifo] /\ IsSpace(n, useFifo) /\ main.pc = "idle"
              /\ UNCHANGED <<pri, fifo, main>>
            BY <2>3 DEF MainAsk, MainAt
        <3>2. RoomFor(n, useFifo)
            BY <1>4, <2>1, <3>1, TxAssumption DEF IsSpace, RoomFor
        <3>3. QED  BY <1>2, <2>1, <3>1, <3>2 DEF PromiseHolds, RoomFor
    <2>4. CASE MainToQueue
        <3>1. /\ Direct(main.frame) /\ main.pc = "send" /\ main'.frame = main.frame
              /\ UNCHANGED <<pri, fifo, promise>>
            BY <1>1, <2>4 DEF MainToQueue, MainAt, TxTypes, MainType
        <3>2. QED  BY <1>2, <2>1, <3>1 DEF PromiseHolds, RoomFor, Direct
    <2>5. ASSUME Accepted
          PROVE  /\ main'.pc = "unmask" /\ promise'.fifo = promise.fifo
                 /\ promise'.n > 0 => promise.n > 0 /\ promise'.n = promise.n - 1
        BY <1>1, <1>4, <2>5 DEF Accepted, TxTypes, MainType, PromiseType
    <2>6. CASE MainWrite
        <3>1. Accepted /\ Request(main.frame, main.slot) /\ main.pc = "write" /\ UNCHANGED fifo
            BY <2>6 DEF MainWrite, MainAt
        <3>2. /\ pri'.free = pri.free - 1
              /\ pri'.fifoSlot = IF main.frame.fifo THEN main.slot ELSE pri.fifoSlot
            BY <3>1 DEF Request
        <3>3. main.slot # QueueSize
            BY <1>1, TxAssumption DEF TxTypes, MainType, Slots
        <3>4. QED
            BY <1>2, <1>4, <2>1, <2>5, <3>1, <3>2, <3>3 DEF PromiseHolds, RoomFor
    <2>7. CASE MainToFifo
        <3>1. Accepted /\ ~Direct(main.frame) /\ main.pc = "send" /\ UNCHANGED pri
            BY <2>7 DEF MainToFifo, MainAt
        <3>2. fifo'.free = fifo.free - 1
            BY <1>1, <2>7 DEF MainToFifo, Fifo!Put, TxTypes, RingOfFrames, Fifo!RingType
        <3>3. QED
            BY <1>2, <1>4, <2>1, <2>5, <3>1, <3>2 DEF PromiseHolds, RoomFor, Direct
    <2>8. CASE MainNoRoom \/ MainUnmask
        <3>1. main'.pc \in {"idle", "unmask"} /\ UNCHANGED <<pri, fifo, promise>>
            BY <1>1, <2>8 DEF MainNoRoom, MainUnmask, TxTypes, MainType
        <3>2. QED  BY <1>2, <2>1, <3>1 DEF PromiseHolds, RoomFor
    <2>9. QED  BY <1>6, <2>2, <2>3, <2>4, <2>6, <2>7, <2>8 DEF Main
<1>7. CASE Isr
    <2>1. main' = main /\ promise' = promise /\ (isr.pc # "idle" => main.pc = "idle")
        BY <1>1, <1>7 DEF Isr, IsrEnter, IsrRead, IsrReturn, IsrBusOff, IsrTx, IsrRelaunch, IsrWrite,
                          IsrPop, IsrDismiss, SendIsAlone
    <2>2. CASE /\ UNCHANGED <<pri, fifo>>
               /\ isr.pc \notin {"relaunch", "write"} /\ isr'.pc \notin {"relaunch", "write"}
        BY <1>2, <2>1, <2>2 DEF PromiseHolds, RoomFor
    <2>3. CASE IsrEnter \/ IsrReturn \/ IsrPop \/ IsrDismiss
        <3>1. /\ UNCHANGED <<pri, fifo>>
              /\ isr.pc \notin {"relaunch", "write"} /\ isr'.pc \notin {"relaunch", "write"}
            BY <1>1, <2>3 DEF IsrEnter, IsrReturn, IsrPop, IsrDismiss, TxTypes, IsrType
        <3>2. QED  BY <2>2, <3>1
    <2>4. \A pc, events : NextBranch(pc, events) \notin {"relaunch", "write"}
        BY DEF NextBranch
    <2>5. CASE IsrRead
        <3>1. /\ UNCHANGED <<pri, fifo>>
              /\ isr.pc \notin {"relaunch", "write"} /\ isr'.pc \notin {"relaunch", "write"}
            BY <1>1, <2>4, <2>5 DEF IsrRead, TxTypes, IsrType
        <3>2. QED  BY <2>2, <3>1
    <2>6. CASE IsrBusOff
        <3>1. isr.pc = "busoff" /\ isr'.pc \notin {"relaunch", "write"}
            BY <1>1, <2>4, <2>6 DEF IsrBusOff, TxTypes, IsrType
        <3>2. CASE UNCHANGED <<pri, fifo>>
            BY <2>2, <3>1, <3>2
        <3>3. CASE DiscardAll
            <4>1. pri'.free = QueueSize /\ pri'.fifoSlot = FifoSize /\ fifo'.free = FifoSize
                BY <1>1, <3>3 DEF DiscardAll, EmptyPri, TxTypes, RingOfFrames, Fifo!RingType
            <4>2. FifoSize # QueueSize => pri.fifoSlot # QueueSize
                BY <1>1, TxAssumption DEF TxTypes, PriType, Slots
            <4>3. QED  BY <1>2, <1>4, <2>1, <3>1, <4>1, <4>2 DEF PromiseHolds, RoomFor
        <3>4. QED  BY <2>6, <3>2, <3>3 DEF IsrBusOff
    <2>7. CASE IsrTx
        <3>1. isr.pc = "tx" /\ tef # <<>> /\ TakeEvent(Head(tef).seq)
            BY <1>2, <1>3, <2>7 DEF IsrTx, EventsAreThere
        <3> DEFINE seq == Head(tef).seq
        <3>2. seq # QueueSize /\ seq \in Slots
            <4>1. Head(tef) \in EventType
                BY <1>1, <3>1 DEF TxTypes
            <4>2. QED  BY <4>1, TxAssumption DEF EventType, Slots
        <3>3. CASE ~IsValid(seq)
            <4>1. isr'.pc = "pop" /\ UNCHANGED <<pri, fifo>>
                BY <1>1, <3>1, <3>3 DEF TakeEvent, TxTypes, IsrType
            <4>2. QED  BY <2>2, <3>1, <4>1
        <3>4. CASE IsValid(seq)
            <4>1. Complete(seq)
                BY <3>1, <3>4 DEF TakeEvent
            <4>2. /\ pri'.free = pri.free + 1
                  /\ pri'.fifoSlot = IF seq = pri.fifoSlot THEN FifoSize ELSE pri.fifoSlot
                BY <1>1, <3>2, <4>1 DEF Complete, Freed, TxTypes, PriType
            <4>3. CASE seq = pri.fifoSlot /\ HasNext
                <5>1. fifo'.free = fifo.free + 1 /\ isr'.pc = "relaunch"
                    BY <1>1, <4>1, <4>3
                    DEF Complete, Fifo!AdvanceHead, TxTypes, IsrType, RingOfFrames, Fifo!RingType
                <5>2. QED  BY <1>2, <1>4, <2>1, <3>1, <3>2, <4>2, <4>3, <5>1 DEF PromiseHolds, RoomFor
            <4>4. CASE ~(seq = pri.fifoSlot /\ HasNext)
                <5>1. fifo' = fifo /\ isr'.pc = "pop"
                    BY <1>1, <4>1, <4>4 DEF Complete, TxTypes, IsrType
                <5>2. QED  BY <1>2, <1>4, <2>1, <3>1, <3>2, <4>2, <5>1 DEF PromiseHolds, RoomFor
            <4>5. QED  BY <4>3, <4>4
        <3>5. QED  BY <3>3, <3>4
    <2>8. CASE IsrRelaunch
        <3>1. isr.pc = "relaunch" /\ UNCHANGED pri /\ isr'.pc \in {"pop", "write"}
            BY <1>1, <2>8 DEF IsrRelaunch, TxTypes, IsrType
        <3>2. CASE Direct(isr.frame)
            <4>1. fifo' = fifo
                BY <2>8, <3>2 DEF IsrRelaunch
            <4>2. QED  BY <1>2, <1>4, <2>1, <3>1, <4>1 DEF PromiseHolds, RoomFor
        <3>3. CASE ~Direct(isr.frame)
            <4>1. fifo'.free = fifo.free - 1 /\ isr'.pc = "pop" /\ pri.fifoSlot # QueueSize
                BY <1>1, <2>8, <3>3
                DEF IsrRelaunch, Direct, Fifo!Put, TxTypes, IsrType, RingOfFrames, Fifo!RingType
            <4>2. QED  BY <1>2, <1>4, <2>1, <3>1, <4>1 DEF PromiseHolds, RoomFor
        <3>4. QED  BY <3>2, <3>3
    <2>9. CASE IsrWrite
        <3>1. /\ isr.pc = "write" /\ isr'.pc = "pop" /\ Request(isr.frame, isr.slot) /\ isr.frame.fifo
              /\ isr.slot # QueueSize /\ fifo' = fifo
            BY <1>1, <2>9, TxAssumption DEF IsrWrite, RealFrames, FifoFrame, TxTypes, IsrType, Slots
        <3>2. pri'.free = pri.free - 1 /\ pri'.fifoSlot = isr.slot
            BY <3>1 DEF Request
        <3>3. QED  BY <1>2, <1>4, <2>1, <3>1, <3>2 DEF PromiseHolds, RoomFor
    <2>10. QED  BY <1>7, <2>3, <2>5, <2>6, <2>7, <2>8, <2>9 DEF Isr
<1>8. QED
    BY <1>5, <1>6, <1>7 DEF Next, vars, ChipTransmit, ChipBusOff, ChipRecover, ChipWarning

\* The chip has a free slot whenever the count says so.
LEMMA CountMeansRoom ==
    ASSUME TxInv, SlotInv, Undisturbed, pri.free > 0
    PROVE  QueueHasRoom({})
<1>1. pri \in PriType /\ LeakOnly(pri) /\ Occupied \subseteq pri.valid
    BY TypesSuffice DEF TxInv, TxTypes, SlotInv, Regular, QueueKnown
<1>2. \E s \in Slots : s \notin Occupied
    BY <1>1, SomeSlotInvalid
<1>3. QED  BY <1>2 DEF QueueHasRoom, FreeSlots

\* What can_is_space has said there is room for finds room.
THEOREM SpaceIsAlwaysKept == Spec => []SpaceIsKept
<1>1. ASSUME TxInv, SlotInv, SpaceInv, Undisturbed, main.pc = "send", promise.n > 0
      PROVE  IF Direct(main.frame) THEN QueueHasRoom({}) ELSE fifo.free > 0
    <2>1. isr.pc = "idle" /\ promise.n \in Nat /\ fifo.free \in Int /\ pri.free \in Int
        BY <1>1, TypesSuffice, TxAssumption
        DEF TxInv, SendIsAlone, TxTypes, PromiseType, PriType, RingOfFrames, Fifo!RingType
    <2>2. promise.fifo = main.frame.fifo /\ RoomFor(promise.n, promise.fifo)
        BY <1>1 DEF SpaceInv, PromiseHolds
    <2>3. IF Direct(main.frame) THEN pri.free > 0 ELSE fifo.free > 0
        BY <1>1, <2>1, <2>2 DEF Direct, RoomFor
    <2>4. QED  BY <1>1, <2>3, CountMeansRoom
<1>2. TxInv /\ SlotInv /\ SpaceInv => SpaceIsKept
    BY <1>1 DEF SpaceIsKept
<1>3. QED
    BY <1>2, InitTxInv, NextTxInv, InitRealFrames, NextRealFrames, InitSlotInv, NextSlotInv,
       InitSpaceInv, NextSpaceInv, PTL DEF Spec

-----------------------------------------------------------------------------
(* No frame is left behind.                                                *)

\* The slot of the FIFO's frame is one that is in use, and it is none while the
\* handler moves the next frame there.
FifoSlotKnown ==
    /\ pri.fifoSlot # QueueSize => pri.fifoSlot \in pri.valid
    /\ isr.pc \in {"relaunch", "write"} => pri.fifoSlot = QueueSize
    /\ HasNext => pri.fifoSlot # QueueSize \/ isr.pc \in {"relaunch", "write"}

\* Inductive together with SpaceInv, if the two sizes are the same: `none' is
\* written as the one and compared with the other.
ServedInv == Undisturbed => FifoSlotKnown

LEMMA InitServedInv == FifoSize = QueueSize /\ Init => ServedInv
<1> SUFFICES ASSUME FifoSize = QueueSize, Init PROVE ServedInv
    OBVIOUS
<1>1. pri.fifoSlot = QueueSize /\ fifo.free = FifoSize /\ isr.pc = "idle"
    BY DEF Init, EmptyPri, Fifo!EmptyRing
<1>2. QED  BY <1>1, TxAssumption DEF ServedInv, FifoSlotKnown, HasNext

LEMMA NextServedInv ==
    /\ FifoSize = QueueSize /\ TxInv /\ RealFrames /\ SlotInv /\ SpaceInv /\ ServedInv
    /\ [Next]_vars
    => ServedInv'
<1> SUFFICES ASSUME FifoSize = QueueSize, TxInv, RealFrames, SlotInv, SpaceInv, ServedInv,
                    [Next]_vars, Undisturbed'
             PROVE  FifoSlotKnown'
    BY DEF ServedInv
<1> USE DEF soft, chip, ghosts
<1>1. TxTypes /\ SendIsAlone
    BY TypesSuffice DEF TxInv
<1>2. Undisturbed /\ EventsAreThere /\ QueueKnown /\ PromiseHolds /\ FifoSlotKnown
    BY <1>1, StaysDisturbed DEF SlotInv, Regular, SpaceInv, ServedInv
<1>3. ~ReadFails
    BY <1>1, NoReadFailed DEF TxTypes
<1>4. pri.fifoSlot \in Slots \cup {QueueSize} /\ QueueSize \notin Slots
    BY <1>1, TxAssumption DEF TxTypes, PriType, Slots
<1>5. CASE UNCHANGED <<pri, fifo>> /\ isr.pc \notin {"relaunch", "write"}
                                  /\ isr'.pc \notin {"relaunch", "write"}
    BY <1>2, <1>5 DEF FifoSlotKnown, HasNext
<1>6. CASE UNCHANGED <<pri, fifo, isr>>
    BY <1>2, <1>6 DEF FifoSlotKnown, HasNext
<1>7. CASE Main
    <2>1. isr.pc = "idle" /\ isr' = isr
        BY <1>7 DEF Main, MainSend, MainAsk, MainToQueue, MainWrite, MainToFifo, MainNoRoom,
                    MainUnmask, MainAt
    <2>2. CASE MainWrite
        <3>1. /\ pri'.valid = pri.valid \cup {main.slot} /\ fifo' = fifo
              /\ pri'.fifoSlot = IF main.frame.fifo THEN main.slot ELSE pri.fifoSlot
              /\ main.slot # QueueSize
            BY <1>1, <1>4, <2>2 DEF MainWrite, Request, TxTypes, MainType
        <3>2. QED  BY <1>2, <2>1, <3>1 DEF FifoSlotKnown, HasNext
    <2>3. CASE MainToFifo
        <3>1. pri' = pri /\ pri.fifoSlot # QueueSize
            BY <2>3 DEF MainToFifo, Direct
        <3>2. QED  BY <1>2, <2>1, <3>1 DEF FifoSlotKnown
    <2>4. ASSUME NEW n, NEW useFifo, MainAsk(n, useFifo) \/ MainSend(useFifo)
          PROVE  UNCHANGED <<pri, fifo, isr>>
        BY <2>4 DEF MainAsk, MainSend
    <2>5. MainToQueue \/ MainNoRoom \/ MainUnmask => UNCHANGED <<pri, fifo, isr>>
        BY DEF MainToQueue, MainNoRoom, MainUnmask
    <2>6. QED  BY <1>6, <1>7, <2>2, <2>3, <2>4, <2>5 DEF Main
<1>8. CASE Isr
    <2>1. \A pc, events : NextBranch(pc, events) \notin {"relaunch", "write"}
        BY DEF NextBranch
    <2>2. CASE IsrEnter \/ IsrReturn \/ IsrPop \/ IsrDismiss
        BY <1>1, <1>5, <2>2 DEF IsrEnter, IsrReturn, IsrPop, IsrDismiss, TxTypes, IsrType
    <2>3. CASE IsrRead
        BY <1>1, <1>5, <2>1, <2>3 DEF IsrRead, TxTypes, IsrType
    <2>4. CASE IsrBusOff
        <3>1. isr.pc = "busoff" /\ isr'.pc \notin {"relaunch", "write"}
            BY <1>1, <2>1, <2>4 DEF IsrBusOff, TxTypes, IsrType
        <3>2. CASE UNCHANGED <<pri, fifo>>
            BY <1>5, <3>1, <3>2
        <3>3. CASE DiscardAll
            <4>1. pri'.fifoSlot = QueueSize /\ fifo'.free = FifoSize
                BY <1>1, <3>3 DEF DiscardAll, EmptyPri, TxTypes, RingOfFrames, Fifo!RingType
            <4>2. QED  BY <3>1, <4>1, TxAssumption DEF FifoSlotKnown, HasNext
        <3>4. QED  BY <2>4, <3>2, <3>3 DEF IsrBusOff
    <2>5. CASE IsrTx
        <3>1. isr.pc = "tx" /\ tef # <<>> /\ TakeEvent(Head(tef).seq)
            BY <1>2, <1>3, <2>5 DEF IsrTx, EventsAreThere
        <3> DEFINE seq == Head(tef).seq
        <3>2. seq # QueueSize
            <4>1. Head(tef) \in EventType
                BY <1>1, <3>1 DEF TxTypes
            <4>2. QED  BY <1>4, <4>1 DEF EventType
        <3>3. CASE ~IsValid(seq)
            BY <1>1, <1>5, <3>1, <3>3 DEF TakeEvent, TxTypes, IsrType
        <3>4. CASE IsValid(seq)
            <4>1. Complete(seq)
                BY <3>1, <3>4 DEF TakeEvent
            <4>2. /\ pri'.valid = pri.valid \ {seq}
                  /\ pri'.fifoSlot = IF seq = pri.fifoSlot THEN QueueSize ELSE pri.fifoSlot
                BY <1>1, <3>2, <4>1 DEF Complete, Freed, TxTypes, PriType
            <4>3. CASE seq = pri.fifoSlot /\ HasNext
                BY <1>1, <4>1, <4>2, <4>3 DEF Complete, FifoSlotKnown, TxTypes, IsrType
            <4>4. CASE ~(seq = pri.fifoSlot /\ HasNext)
                <5>1. fifo' = fifo /\ isr'.pc = "pop"
                    BY <1>1, <4>1, <4>4 DEF Complete, TxTypes, IsrType
                <5>2. QED  BY <1>2, <3>1, <4>2, <4>4, <5>1 DEF FifoSlotKnown, HasNext
            <4>5. QED  BY <4>3, <4>4
        <3>5. QED  BY <3>3, <3>4
    <2>6. CASE IsrRelaunch
        <3> DEFINE taken == {tef[i].seq : i \in (1..Len(tef)) \cap {1}}
        <3>1. isr.pc = "relaunch" /\ pri' = pri /\ pri.fifoSlot = QueueSize /\ pri.free > 0
            BY <1>2, <2>6 DEF IsrRelaunch, FifoSlotKnown, PromiseHolds
        <3>2. PICK slot \in Slots \cup {NoSlot} :
                /\ QueueSlot(taken, slot)
                /\ isr' = IF slot = NoSlot THEN [isr EXCEPT !.pc = "pop", !.frame = NoFrame]
                          ELSE [isr EXCEPT !.pc = "write", !.slot = slot]
            BY <2>6, <3>1 DEF IsrRelaunch, Direct
        <3>3. FreeSlots(taken) # {}
            <4>1. tef # <<>> /\ Head(tef).seq \notin Occupied
                BY <1>2, <3>1 DEF EventsAreThere, QueueKnown
            <4>2. Len(tef) >= 1 /\ Head(tef) \in EventType
                BY <1>1, <4>1 DEF TxTypes
            <4>3. Head(tef).seq \in Slots
                BY <4>2 DEF EventType
            <4>4. QED  BY <4>1, <4>3 DEF FreeSlots
        <3>4. slot \in FreeSlots(taken)
            BY <1>3, <3>1, <3>2, <3>3 DEF QueueSlot, QueueHasRoom
        <3>5. slot # NoSlot
            BY <1>4, <3>4 DEF FreeSlots, NoSlot
        <3>6. isr'.pc = "write"
            BY <1>1, <3>2, <3>5 DEF TxTypes, IsrType
        <3>7. QED  BY <3>1, <3>6 DEF FifoSlotKnown
    <2>7. CASE IsrWrite
        <3>1. /\ isr'.pc = "pop" /\ Request(isr.frame, isr.slot) /\ isr.frame.fifo
              /\ isr.slot # QueueSize /\ fifo' = fifo
            BY <1>1, <1>4, <2>7 DEF IsrWrite, RealFrames, FifoFrame, TxTypes, IsrType
        <3>2. pri'.valid = pri.valid \cup {isr.slot} /\ pri'.fifoSlot = isr.slot
            BY <3>1 DEF Request
        <3>3. QED  BY <3>1, <3>2 DEF FifoSlotKnown
    <2>8. QED  BY <1>8, <2>2, <2>3, <2>4, <2>5, <2>6, <2>7 DEF Isr
<1>9. QED
    BY <1>6, <1>7, <1>8 DEF Next, vars, ChipTransmit, ChipBusOff, ChipRecover, ChipWarning

\* As long as CAN_TX_FIFO_SIZE is CAN_TX_QUEUE_SIZE, as the code defines it, a frame in
\* the FIFO always has one before it whose transmission will launch it: the launch
\* itself, whose result the handler ignores, finds room.
THEOREM FifoIsAlwaysServed ==
    ASSUME FifoSize = QueueSize
    PROVE  Spec => []FifoIsServed
<1>1. Init => ServedInv
    BY InitServedInv
<1>2. TxInv /\ RealFrames /\ SlotInv /\ SpaceInv /\ ServedInv /\ [Next]_vars => ServedInv'
    BY NextServedInv
<1>3. SpaceInv /\ ServedInv => FifoIsServed
    BY DEF ServedInv, FifoSlotKnown, FifoIsServed
<1>4. QED
    BY <1>1, <1>2, <1>3, InitTxInv, NextTxInv, InitRealFrames, NextRealFrames, InitSlotInv,
       NextSlotInv, InitSpaceInv, NextSpaceInv, PTL DEF Spec

-----------------------------------------------------------------------------
(* Frames in sequences.                                                    *)

IdsOf(q) == {q[i].id : i \in 1..Len(q)}
Apart(q) == \A i, j \in 1..Len(q) : q[i].id = q[j].id => i = j
Sorted(q) == \A i, j \in 1..Len(q) : i < j => q[i].id < q[j].id

LEMMA AppendedFrame ==
    ASSUME NEW q \in Seq(Frame), NEW f \in Frame
    PROVE  /\ IdsOf(Append(q, f)) = IdsOf(q) \cup {f.id}
           /\ Apart(q) /\ f.id \notin IdsOf(q) => Apart(Append(q, f))
           /\ Sorted(q) /\ (\A n \in IdsOf(q) : n < f.id) => Sorted(Append(q, f))
<1>1. /\ Len(Append(q, f)) = Len(q) + 1 /\ Len(q) \in Nat
      /\ \A i \in 1..Len(q) : Append(q, f)[i] = q[i]
      /\ Append(q, f)[Len(q) + 1] = f
    OBVIOUS
<1>2. 1..Len(Append(q, f)) = (1..Len(q)) \cup {Len(q) + 1}
    BY <1>1
<1>3. IdsOf(Append(q, f)) = IdsOf(q) \cup {f.id}
    BY <1>1, <1>2 DEF IdsOf
<1>4. ASSUME Apart(q), f.id \notin IdsOf(q) PROVE Apart(Append(q, f))
    BY <1>1, <1>2, <1>4 DEF Apart, IdsOf
<1>5. ASSUME Sorted(q), \A n \in IdsOf(q) : n < f.id PROVE Sorted(Append(q, f))
    <2> SUFFICES ASSUME NEW i \in 1..Len(q)+1, NEW j \in 1..Len(q)+1, i < j
                 PROVE  Append(q, f)[i].id < Append(q, f)[j].id
        BY <1>1 DEF Sorted
    <2>1. i \in 1..Len(q) /\ q[i].id \in IdsOf(q)
        BY <1>1 DEF IdsOf
    <2>2. CASE j \in 1..Len(q)
        BY <1>1, <1>5, <2>1, <2>2 DEF Sorted
    <2>3. CASE j = Len(q) + 1
        BY <1>1, <1>5, <2>1, <2>3
    <2>4. QED  BY <1>1, <2>2, <2>3
<1>6. QED  BY <1>3, <1>4, <1>5

LEMMA TakenFrame ==
    ASSUME NEW q \in Seq(Frame), q # <<>>
    PROVE  /\ IdsOf(q) = IdsOf(Tail(q)) \cup {Head(q).id}
           /\ Apart(q) => Apart(Tail(q)) /\ Head(q).id \notin IdsOf(Tail(q))
           /\ Sorted(q) => Sorted(Tail(q)) /\ \A n \in IdsOf(Tail(q)) : Head(q).id < n
<1>1. /\ Len(q) \in Nat \ {0} /\ Len(Tail(q)) = Len(q) - 1
      /\ \A i \in 1..Len(q)-1 : Tail(q)[i] = q[i + 1]
      /\ Head(q) = q[1]
    OBVIOUS
<1>2. \A i \in 1..Len(Tail(q)) : Tail(q)[i] = q[i + 1] /\ i + 1 \in 1..Len(q) /\ 1 < i + 1
    BY <1>1
<1>3. 1 \in 1..Len(q) /\ \A i \in 1..Len(q) : i = 1 \/ i - 1 \in 1..Len(Tail(q))
    BY <1>1
<1>4. IdsOf(q) = IdsOf(Tail(q)) \cup {Head(q).id}
    <2>1. ASSUME NEW i \in 1..Len(q) PROVE q[i].id \in IdsOf(Tail(q)) \cup {Head(q).id}
        <3>1. CASE i = 1
            BY <1>1, <3>1
        <3>2. CASE i - 1 \in 1..Len(Tail(q))
            <4>1. Tail(q)[i - 1] = q[i]
                BY <1>1, <3>2
            <4>2. QED  BY <3>2, <4>1 DEF IdsOf
        <3>3. QED  BY <1>3, <3>1, <3>2
    <2>2. \A i \in 1..Len(Tail(q)) : Tail(q)[i].id \in IdsOf(q)
        BY <1>2 DEF IdsOf
    <2>3. Head(q).id \in IdsOf(q)
        BY <1>1, <1>3 DEF IdsOf
    <2>4. QED  BY <2>1, <2>2, <2>3 DEF IdsOf
<1>5. ASSUME Apart(q) PROVE Apart(Tail(q)) /\ Head(q).id \notin IdsOf(Tail(q))
    <2>1. \A i, j \in 1..Len(Tail(q)) : i + 1 = j + 1 => i = j
        BY <1>1
    <2>2. Apart(Tail(q))
        BY <1>2, <1>5, <2>1 DEF Apart
    <2>3. \A i \in 1..Len(Tail(q)) : i + 1 # 1
        BY <1>1
    <2>4. QED  BY <1>1, <1>2, <1>3, <1>5, <2>2, <2>3 DEF Apart, IdsOf
<1>6. ASSUME Sorted(q) PROVE Sorted(Tail(q)) /\ \A n \in IdsOf(Tail(q)) : Head(q).id < n
    <2>1. \A i, j \in 1..Len(Tail(q)) : i < j => i + 1 < j + 1
        BY <1>1
    <2>2. Sorted(Tail(q))
        BY <1>2, <1>6, <2>1 DEF Sorted
    <2>3. QED  BY <1>1, <1>2, <1>3, <1>6, <2>2 DEF Sorted, IdsOf
<1>7. QED  BY <1>4, <1>5, <1>6

LEMMA NoFrames == IdsOf(<<>>) = {} /\ Apart(<<>>) /\ Sorted(<<>>)
BY DEF IdsOf, Apart, Sorted

\* The frames of transmit events.
FramesOf(q) == [i \in 1..Len(q) |-> q[i].frame]

LEMMA FramesOfType ==
    ASSUME NEW q \in Seq(EventType)
    PROVE  FramesOf(q) \in Seq(Frame) /\ Len(FramesOf(q)) = Len(q)
<1>1. Len(q) \in Nat /\ \A i \in 1..Len(q) : q[i] \in EventType
    OBVIOUS
<1>2. QED  BY <1>1 DEF FramesOf, EventType

LEMMA FramesOfEvents ==
    ASSUME NEW q \in Seq(EventType)
    PROVE  /\ FramesOf(q) \in Seq(Frame) /\ Len(FramesOf(q)) = Len(q)
           /\ \A e \in EventType : FramesOf(Append(q, e)) = Append(FramesOf(q), e.frame)
           /\ q # <<>> => /\ FramesOf(q) # <<>> /\ FramesOf(Tail(q)) = Tail(FramesOf(q))
                          /\ Head(FramesOf(q)) = Head(q).frame
<1>1. Len(q) \in Nat /\ \A i \in 1..Len(q) : q[i] \in EventType
    OBVIOUS
<1>2. FramesOf(q) \in Seq(Frame) /\ Len(FramesOf(q)) = Len(q)
    BY FramesOfType
<1>3. ASSUME NEW e \in EventType PROVE FramesOf(Append(q, e)) = Append(FramesOf(q), e.frame)
    <2>1. e.frame \in Frame /\ Append(q, e) \in Seq(EventType) /\ Len(Append(q, e)) = Len(q) + 1
        BY DEF EventType
    <2>2. FramesOf(Append(q, e)) \in Seq(Frame) /\ Len(FramesOf(Append(q, e))) = Len(q) + 1
        BY <2>1, FramesOfType
    <2>3. Append(FramesOf(q), e.frame) \in Seq(Frame) /\ Len(Append(FramesOf(q), e.frame)) = Len(q) + 1
        BY <1>2, <2>1
    <2>4. ASSUME NEW i \in 1..Len(q)+1
          PROVE  FramesOf(Append(q, e))[i] = Append(FramesOf(q), e.frame)[i]
        <3>1. FramesOf(Append(q, e))[i] = Append(q, e)[i].frame
            BY <2>1 DEF FramesOf
        <3>2. CASE i = Len(q) + 1
            <4>1. Append(q, e)[i] = e /\ Append(FramesOf(q), e.frame)[i] = e.frame
                BY <1>2, <2>1, <3>2
            <4>2. QED  BY <3>1, <4>1
        <3>3. CASE i \in 1..Len(q)
            <4>1. Append(q, e)[i] = q[i] /\ FramesOf(q)[i] = q[i].frame
                BY <1>1, <3>3 DEF FramesOf
            <4>2. Append(FramesOf(q), e.frame)[i] = FramesOf(q)[i]
                BY <1>2, <2>1, <3>3
            <4>3. QED  BY <3>1, <4>1, <4>2
        <3>4. i = Len(q) + 1 \/ i \in 1..Len(q)
            BY <1>1
        <3>5. QED  BY <3>2, <3>3, <3>4
    <2>5. QED  BY <2>2, <2>3, <2>4, SeqEqual
<1>4. ASSUME q # <<>>
      PROVE  /\ FramesOf(q) # <<>> /\ FramesOf(Tail(q)) = Tail(FramesOf(q))
             /\ Head(FramesOf(q)) = Head(q).frame
    <2>1. /\ Tail(q) \in Seq(EventType) /\ Len(Tail(q)) = Len(q) - 1 /\ Len(q) >= 1 /\ Head(q) = q[1]
          /\ \A i \in 1..Len(q)-1 : Tail(q)[i] = q[i + 1]
        BY <1>4
    <2>2. FramesOf(q) # <<>> /\ Head(FramesOf(q)) = Head(q).frame
        <3>1. FramesOf(q)[1] = q[1].frame
            BY <1>1, <2>1 DEF FramesOf
        <3>2. FramesOf(q) # <<>> /\ Head(FramesOf(q)) = FramesOf(q)[1]
            <4>1. Len(FramesOf(q)) # 0
                BY <1>2, <2>1
            <4>2. FramesOf(q) # <<>>
                BY <4>1
            <4>3. QED  BY <1>2, <4>2
        <3>3. QED  BY <2>1, <3>1, <3>2
    <2>3. FramesOf(Tail(q)) \in Seq(Frame) /\ Len(FramesOf(Tail(q))) = Len(q) - 1
        BY <2>1, FramesOfType
    <2>4. /\ Tail(FramesOf(q)) \in Seq(Frame) /\ Len(Tail(FramesOf(q))) = Len(q) - 1
          /\ \A i \in 1..Len(q)-1 : Tail(FramesOf(q))[i] = FramesOf(q)[i + 1]
        BY <1>2, <2>2
    <2>5. ASSUME NEW i \in 1..Len(q)-1 PROVE FramesOf(Tail(q))[i] = Tail(FramesOf(q))[i]
        <3>1. FramesOf(Tail(q))[i] = Tail(q)[i].frame
            BY <2>1 DEF FramesOf
        <3>2. FramesOf(q)[i + 1] = q[i + 1].frame
            BY <1>1 DEF FramesOf
        <3>3. QED  BY <2>1, <2>4, <3>1, <3>2
    <2>6. QED  BY <2>2, <2>3, <2>4, <2>5, SeqEqual
<1>5. QED  BY <1>2, <1>3, <1>4

\* The frames in a ring, and what the two operations of the FIFO do to them.
Listed(r) == [k \in 1..FifoSize - r.free |-> Fifo!At(r, k - 1)]

LEMMA ListedTypes ==
    ASSUME NEW r \in RingOfFrames, NEW k \in 0..FifoSize-1
    PROVE  Fifo!At(r, k) \in Frame
<1>1. /\ r.head \in 0..FifoSize-1 /\ r.slot \in [0..FifoSize-1 -> Frame] /\ FifoSize \in Nat
    BY TxAssumption DEF RingOfFrames, Fifo!RingType, Fifo!Slots
<1>2. Fifo!Position(r, k) \in 0..FifoSize-1
    BY <1>1 DEF Fifo!Position
<1>3. QED  BY <1>1, <1>2 DEF Fifo!At

LEMMA ListedType ==
    ASSUME NEW r \in RingOfFrames
    PROVE  /\ Listed(r) \in Seq(Frame)
           /\ r.free = FifoSize => Listed(r) = <<>>
<1>1. r.free \in 0..FifoSize /\ FifoSize \in Nat
    BY TxAssumption DEF RingOfFrames, Fifo!RingType
<1> DEFINE n == FifoSize - r.free
<1>2. n \in Nat /\ \A k \in 1..n : k - 1 \in 0..FifoSize-1
    BY <1>1
<1>3. \A k \in 1..n : Fifo!At(r, k - 1) \in Frame
    BY <1>2, ListedTypes
<1>4. Listed(r) = [k \in 1..n |-> Fifo!At(r, k - 1)] /\ (r.free = FifoSize => n = 0)
    BY <1>1 DEF Listed
<1> HIDE DEF n
<1>5. QED  BY <1>2, <1>3, <1>4

LEMMA PutLists ==
    ASSUME NEW r \in RingOfFrames, NEW f \in Frame, r.free > 0, Waiting(r)
    PROVE  Listed(r) \in Seq(Frame) /\ Listed(Fifo!Put(r, f)) = Append(Listed(r), f)
<1> DEFINE n == FifoSize - r.free
           q == Ring!Put(r, f)
<1>1. r.free \in 0..FifoSize /\ r \in Ring!RingType(Frame) /\ n \in 0..FifoSize-1 /\ FifoSize \in Nat
    <2>1. r \in Ring!RingType(Frame)
        BY RingIsFifo
    <2>2. r.free \in 0..FifoSize
        BY <2>1 DEF Ring!RingType
    <2>3. QED  BY <2>1, <2>2, TxAssumption
<1>2. /\ q.free = r.free - 1 /\ Ring!At(q, n) = f
      /\ \A k \in 0..n-1 : Ring!At(q, k) = Ring!At(r, k)
    BY <1>1, RingIsFifo, Ring!PutAppends DEF Waiting, Ring!SizeAssumption
<1>3. \A k \in 0..n-1 : Ring!At(r, k) \in Frame
    BY <1>1, ListedTypes, RingIsFifo
<1>4. Listed(r) = [k \in 1..n |-> Ring!At(r, k - 1)]
    BY RingIsFifo DEF Listed
<1>5. Listed(q) = [k \in 1..n+1 |-> Ring!At(q, k - 1)]
    <2>1. FifoSize - q.free = n + 1
        BY <1>1, <1>2
    <2>2. QED  BY <2>1, RingIsFifo DEF Listed
<1> HIDE DEF n, q
<1>6. Listed(r) \in Seq(Frame) /\ Len(Listed(r)) = n
    <2>1. \A k \in 1..n : k - 1 \in 0..n-1
        BY <1>1
    <2>2. QED  BY <1>1, <1>3, <1>4, <2>1
<1>7. \A k \in 1..n+1 : Listed(q)[k] = Append(Listed(r), f)[k]
    <2> SUFFICES ASSUME NEW k \in 1..n+1 PROVE Listed(q)[k] = Append(Listed(r), f)[k]
        OBVIOUS
    <2>1. Listed(q)[k] = Ring!At(q, k - 1)
        BY <1>5
    <2>2. CASE k = n + 1
        <3>1. k - 1 = n /\ Append(Listed(r), f)[k] = f
            BY <1>1, <1>6, <2>2
        <3>2. QED  BY <1>2, <2>1, <3>1
    <2>3. CASE k \in 1..n
        <3>1. k - 1 \in 0..n-1 /\ Append(Listed(r), f)[k] = Listed(r)[k]
            BY <1>1, <1>6, <2>3
        <3>2. QED  BY <1>2, <1>4, <2>1, <2>3, <3>1
    <2>4. k = n + 1 \/ k \in 1..n
        BY <1>1
    <2>5. QED  BY <2>2, <2>3, <2>4
<1>8. Append(Listed(r), f) \in Seq(Frame) /\ Len(Append(Listed(r), f)) = n + 1
    BY <1>1, <1>6
<1>9. Listed(q) \in Seq(Frame) /\ Len(Listed(q)) = n + 1
    <2>1. \A k \in 1..n+1 : Listed(q)[k] \in Frame
        BY <1>1, <1>7, <1>8
    <2>2. Listed(q) = [k \in 1..n+1 |-> Listed(q)[k]]
        BY <1>5
    <2>3. QED  BY <1>1, <2>1, <2>2
<1>10. Listed(q) = Append(Listed(r), f)
    BY <1>7, <1>8, <1>9, SeqEqual
<1>11. QED  BY <1>6, <1>10, RingIsFifo DEF q

LEMMA TakeLists ==
    ASSUME NEW r \in RingOfFrames, r.free < FifoSize, Waiting(r)
    PROVE  /\ Listed(r) \in Seq(Frame) /\ Listed(r) # <<>> /\ Head(Listed(r)) = Fifo!At(r, 0)
           /\ Listed(Fifo!AdvanceHead([r EXCEPT !.free = @ + 1])) = Tail(Listed(r))
<1> DEFINE n == FifoSize - r.free
           u == [r EXCEPT !.free = @ + 1]
           q == Ring!AdvanceHead(u)
<1>1. r.free \in 0..FifoSize /\ r \in Ring!RingType(Frame) /\ n \in 1..FifoSize /\ FifoSize \in Nat
    <2>1. r \in Ring!RingType(Frame)
        BY RingIsFifo
    <2>2. r.free \in 0..FifoSize
        BY <2>1 DEF Ring!RingType
    <2>3. QED  BY <2>1, <2>2, TxAssumption
<1>2. /\ u \in Ring!RingType(Frame) /\ Ring!IndicesAgree(u, n) /\ u.free = r.free + 1
      /\ \A k : Ring!At(u, k) = Ring!At(r, k)
    <2>1. r.free + 1 \in 0..FifoSize
        BY <1>1, TxAssumption
    <2>2. QED  BY <1>1, <2>1 DEF Waiting, Ring!RingType, Ring!IndicesAgree, Ring!At, Ring!Position
<1>3. q.free = u.free /\ \A k \in 0..n-2 : Ring!At(q, k) = Ring!At(u, k + 1)
    BY <1>1, <1>2, RingIsFifo, Ring!AdvanceHeadPops DEF Ring!SizeAssumption
<1>4. \A k \in 0..n-1 : Ring!At(r, k) \in Frame
    BY <1>1, ListedTypes, RingIsFifo
<1>5. Listed(r) = [k \in 1..n |-> Ring!At(r, k - 1)]
    BY RingIsFifo DEF Listed
<1>6. Listed(q) = [k \in 1..n-1 |-> Ring!At(q, k - 1)]
    <2>1. FifoSize - q.free = n - 1
        BY <1>1, <1>2, <1>3
    <2>2. QED  BY <2>1, RingIsFifo DEF Listed
<1>7. \A k \in 0..n-2 : Ring!At(q, k) = Ring!At(r, k + 1)
    BY <1>2, <1>3
<1> HIDE DEF n, q
<1>8. Listed(r) \in Seq(Frame) /\ Len(Listed(r)) = n /\ Listed(r)[1] = Ring!At(r, 0)
    <2>1. \A k \in 1..n : k - 1 \in 0..n-1
        BY <1>1
    <2>2. 1 \in 1..n
        BY <1>1
    <2>3. QED  BY <1>1, <1>4, <1>5, <2>1, <2>2
<1>9. /\ Tail(Listed(r)) \in Seq(Frame) /\ Len(Tail(Listed(r))) = n - 1 /\ Listed(r) # <<>>
      /\ \A k \in 1..n-1 : Tail(Listed(r))[k] = Listed(r)[k + 1]
    BY <1>1, <1>8
<1>10. \A k \in 1..n-1 : Listed(q)[k] = Tail(Listed(r))[k]
    <2> SUFFICES ASSUME NEW k \in 1..n-1 PROVE Listed(q)[k] = Tail(Listed(r))[k]
        OBVIOUS
    <2>1. k - 1 \in 0..n-2 /\ k + 1 \in 1..n /\ (k - 1) + 1 = k /\ (k + 1) - 1 = k
        BY <1>1
    <2>2. Listed(q)[k] = Ring!At(q, k - 1) /\ Ring!At(q, k - 1) = Ring!At(r, k)
        BY <1>6, <1>7, <2>1
    <2>3. Listed(r)[k + 1] = Ring!At(r, k)
        BY <1>5, <2>1
    <2>4. QED  BY <1>9, <2>2, <2>3
<1>11. Listed(q) \in Seq(Frame) /\ Len(Listed(q)) = n - 1
    <2>1. \A k \in 1..n-1 : Listed(q)[k] \in Frame
        BY <1>1, <1>9, <1>10
    <2>2. Listed(q) = [k \in 1..n-1 |-> Listed(q)[k]]
        BY <1>6
    <2>3. QED  BY <1>1, <2>1, <2>2
<1>12. Listed(q) = Tail(Listed(r))
    BY <1>9, <1>10, <1>11, SeqEqual
<1>13. Head(Listed(r)) = Listed(r)[1]
    BY <1>8, <1>9
<1>14. QED  BY <1>8, <1>9, <1>12, <1>13, RingIsFifo DEF q

-----------------------------------------------------------------------------
(* What an undisturbed step does to the frames.                            *)

\* The frames accepted for the FIFO that are not in the transmit queue yet.
Behind == Moving \o Queued

\* The frame being sent is the next; who is about to write to a slot writes to an
\* empty one.
SendIsNext == main.pc \in {"send", "write"} => main.frame.id = accepted + 1
WritersFree ==
    /\ main.pc = "write" => txq[main.slot] = NoFrame
    /\ isr.pc = "write" => txq[isr.slot] = NoFrame
WritersInv == SendIsNext /\ (Undisturbed => WritersFree)

LEMMA OneBefore ==
    ASSUME NEW q \in Seq(Frame), NEW f \in Frame
    PROVE  /\ <<f>> \o q \in Seq(Frame) /\ <<f>> \o q # <<>>
           /\ Head(<<f>> \o q) = f /\ Tail(<<f>> \o q) = q
<1>1. <<f>> \in Seq(Frame) /\ Len(<<f>>) = 1 /\ <<f>>[1] = f /\ Len(q) \in Nat
    OBVIOUS
<1> DEFINE r == <<f>> \o q
<1>2. /\ r \in Seq(Frame) /\ Len(r) = 1 + Len(q)
      /\ \A i \in 1..1+Len(q) : r[i] = IF i <= 1 THEN <<f>>[i] ELSE q[i - 1]
    BY <1>1, ConcatProperties
<1> HIDE DEF r
<1>3. r # <<>> /\ Head(r) = f
    BY <1>1, <1>2
<1>4. /\ Tail(r) \in Seq(Frame) /\ Len(Tail(r)) = Len(q)
      /\ \A i \in 1..Len(q) : Tail(r)[i] = r[i + 1]
    BY <1>1, <1>2, <1>3, HeadTailProperties
<1>5. \A i \in 1..Len(q) : Tail(r)[i] = q[i]
    <2>1. \A i \in 1..Len(q) : i + 1 \in 1..1+Len(q) /\ ~(i + 1 <= 1) /\ (i + 1) - 1 = i
        BY <1>1
    <2>2. QED  BY <1>2, <1>4, <2>1
<1>6. Tail(r) = q
    BY <1>4, <1>5, SeqEqual
<1>7. QED  BY <1>2, <1>3, <1>6 DEF r

LEMMA BehindType ==
    ASSUME TxTypes
    PROVE  /\ Behind \in Seq(Frame) /\ Queued \in Seq(Frame) /\ Queued = Listed(fifo)
           /\ isr.pc \notin {"relaunch", "write"} => Moving = <<>> /\ Behind = Queued
           /\ isr.pc \in {"relaunch", "write"} =>
                 Behind # <<>> /\ Head(Behind) = isr.frame /\ Tail(Behind) = Queued
<1>1. Queued = Listed(fifo)
    BY DEF Queued, Listed
<1>2. Queued \in Seq(Frame) /\ isr.frame \in Frame
    BY <1>1, ListedType DEF TxTypes, IsrType
<1> HIDE DEF Queued
<1>3. CASE isr.pc \in {"relaunch", "write"}
    <2>1. Moving = <<isr.frame>> /\ Behind = <<isr.frame>> \o Queued
        BY <1>3 DEF Moving, Behind
    <2>2. /\ <<isr.frame>> \o Queued \in Seq(Frame) /\ <<isr.frame>> \o Queued # <<>>
          /\ Head(<<isr.frame>> \o Queued) = isr.frame /\ Tail(<<isr.frame>> \o Queued) = Queued
        BY <1>2, OneBefore
    <2>3. QED  BY <1>1, <1>2, <1>3, <2>1, <2>2
<1>4. CASE isr.pc \notin {"relaunch", "write"}
    <2>1. Moving = <<>> /\ Behind = Queued
        BY <1>2, <1>4, ConcatEmptySeq DEF Moving, Behind
    <2>2. QED  BY <1>1, <1>2, <1>4, <2>1
<1>5. QED  BY <1>3, <1>4

LEMMA InitWritersInv == Init => WritersInv
BY DEF Init, WritersInv, SendIsNext, WritersFree

LEMMA NextWritersInv == TxInv /\ WritersInv /\ [Next]_vars => WritersInv'
<1> SUFFICES ASSUME TxInv, WritersInv, [Next]_vars PROVE WritersInv'
    OBVIOUS
<1> USE DEF soft, chip, ghosts
<1>1. TxTypes /\ SendIsAlone
    BY TypesSuffice DEF TxInv
<1>2. ASSUME Undisturbed' PROVE WritersFree /\ ~ReadFails
    BY <1>1, <1>2, StaysDisturbed, NoReadFailed DEF WritersInv, TxTypes
<1>3. ASSUME NEW taken, NEW slot \in Slots, QueueSlot(taken, slot), ~ReadFails
      PROVE  txq[slot] = NoFrame
    <2>1. slot \in FreeSlots(taken)
        BY <1>3, FrameTypes DEF QueueSlot
    <2>2. QED  BY <2>1 DEF FreeSlots, Occupied
<1>4. CASE UNCHANGED <<txq, main, isr, accepted, budget>>
    BY <1>4 DEF WritersInv, SendIsNext, WritersFree, Undisturbed
<1>5. CASE /\ UNCHANGED <<main, isr, accepted>>
           /\ \E S : \A s \in Slots : txq'[s] = IF s \in S THEN NoFrame ELSE txq[s]
    <2>1. main.slot \in Slots /\ isr.slot \in Slots
        BY <1>1 DEF TxTypes, MainType, IsrType
    <2>2. QED  BY <1>2, <1>5, <2>1 DEF WritersInv, SendIsNext, WritersFree
<1>6. ASSUME NEW s \in Slots, ChipTransmit(s) PROVE WritersInv'
    <2>1. \A t \in Slots : txq'[t] = IF t \in {s} THEN NoFrame ELSE txq[t]
        BY <1>1, <1>6 DEF ChipTransmit, TxTypes
    <2>2. UNCHANGED <<main, isr, accepted>>
        BY <1>6 DEF ChipTransmit
    <2>3. QED  BY <1>5, <2>1, <2>2
<1>7. CASE ChipBusOff
    <2>1. \A t \in Slots : txq'[t] = IF t \in Slots THEN NoFrame ELSE txq[t]
        BY <1>7 DEF ChipBusOff
    <2>2. QED  BY <1>5, <1>7, <2>1 DEF ChipBusOff
<1>8. CASE ChipRecover \/ ChipWarning
    <2>1. UNCHANGED <<txq, main, isr, accepted>>
        BY <1>8 DEF ChipRecover, ChipWarning
    <2>2. QED  BY <1>2, <2>1 DEF WritersInv, SendIsNext, WritersFree
<1>9. CASE Main
    <2>1. isr.pc = "idle" /\ isr' = isr
        BY <1>9 DEF Main, MainSend, MainAsk, MainToQueue, MainWrite, MainToFifo, MainNoRoom,
                    MainUnmask, MainAt
    <2>2. ASSUME NEW useFifo, MainSend(useFifo) PROVE WritersInv'
        <3>1. main'.pc = "send" /\ main'.frame.id = accepted + 1 /\ accepted' = accepted
            BY <1>1, <2>2 DEF MainSend, TxTypes, MainType
        <3>2. QED  BY <2>1, <3>1 DEF WritersInv, SendIsNext, WritersFree
    <2>3. CASE MainToQueue
        <3>1. PICK slot \in Slots : QueueSlot({}, slot) /\ main' = [main EXCEPT !.pc = "write", !.slot = slot]
            BY <2>3 DEF MainToQueue
        <3>2. /\ main'.frame = main.frame /\ main'.slot = slot /\ main.pc = "send"
              /\ UNCHANGED <<txq, accepted>>
            BY <1>1, <2>3, <3>1 DEF MainToQueue, MainAt, TxTypes, MainType
        <3>3. QED  BY <1>2, <1>3, <2>1, <3>1, <3>2 DEF WritersInv, SendIsNext, WritersFree
    <2>4. CASE MainWrite \/ MainToFifo \/ MainNoRoom \/ MainUnmask
        <3>1. main'.pc \in {"idle", "unmask"}
            BY <1>1, <2>4 DEF MainWrite, MainToFifo, MainNoRoom, MainUnmask, Accepted, TxTypes, MainType
        <3>2. QED  BY <2>1, <3>1 DEF WritersInv, SendIsNext, WritersFree
    <2>5. ASSUME NEW n, NEW useFifo, MainAsk(n, useFifo) PROVE WritersInv'
        BY <1>4, <2>5 DEF MainAsk
    <2>6. QED  BY <1>9, <2>2, <2>3, <2>4, <2>5 DEF Main
<1>10. CASE Isr
    <2>1. /\ UNCHANGED <<main, accepted>> /\ (isr.pc # "idle" => main.pc = "idle")
          /\ (IsrWrite \/ UNCHANGED txq)
        BY <1>1, <1>10 DEF Isr, IsrEnter, IsrRead, IsrReturn, IsrBusOff, IsrTx, IsrRelaunch, IsrWrite,
                           IsrPop, IsrDismiss, SendIsAlone
    <2>2. SendIsNext'
        BY <2>1 DEF WritersInv, SendIsNext
    <2>3. \A pc, events : NextBranch(pc, events) # "write"
        BY DEF NextBranch
    <2>4. CASE IsrRelaunch
        <3>1. isr.pc = "relaunch" /\ main'.pc = "idle" /\ txq' = txq
            BY <2>1, <2>4 DEF IsrRelaunch
        <3>2. ASSUME Undisturbed', isr'.pc = "write" PROVE txq[isr'.slot] = NoFrame
            <4> DEFINE taken == {tef[i].seq : i \in (1..Len(tef)) \cap {1}}
            <4>1. PICK slot \in Slots \cup {NoSlot} :
                    /\ QueueSlot(taken, slot)
                    /\ isr' = IF slot = NoSlot THEN [isr EXCEPT !.pc = "pop", !.frame = NoFrame]
                              ELSE [isr EXCEPT !.pc = "write", !.slot = slot]
                BY <1>1, <2>4, <3>2 DEF IsrRelaunch, TxTypes, IsrType
            <4>2. slot # NoSlot /\ isr'.slot = slot
                BY <1>1, <3>2, <4>1 DEF TxTypes, IsrType
            <4>3. QED  BY <1>2, <1>3, <3>2, <4>1, <4>2
        <3>3. QED  BY <2>2, <3>1, <3>2 DEF WritersInv, WritersFree
    <2>5. CASE IsrEnter
        BY <1>1, <1>2, <2>1, <2>2, <2>5 DEF IsrEnter, WritersInv, WritersFree, TxTypes, IsrType
    <2>6. ASSUME isr'.pc # "write", isr.pc # "idle" PROVE WritersInv'
        BY <2>1, <2>2, <2>6 DEF WritersInv, WritersFree
    <2>7. CASE IsrRead
        BY <1>1, <2>3, <2>6, <2>7 DEF IsrRead, TxTypes, IsrType
    <2>8. CASE IsrBusOff
        BY <1>1, <2>3, <2>6, <2>8 DEF IsrBusOff, TxTypes, IsrType
    <2>9. CASE IsrTx
        BY <1>1, <2>6, <2>9 DEF IsrTx, TakeEvent, Complete, TxTypes, IsrType
    <2>10. CASE IsrReturn \/ IsrWrite \/ IsrPop \/ IsrDismiss
        BY <1>1, <2>6, <2>10 DEF IsrReturn, IsrWrite, IsrPop, IsrDismiss, TxTypes, IsrType
    <2>11. QED  BY <1>10, <2>4, <2>5, <2>7, <2>8, <2>9, <2>10 DEF Isr
<1>11. QED  BY <1>4, <1>6, <1>7, <1>8, <1>9, <1>10 DEF Next, vars

Still == UNCHANGED <<pri, txq, Untaken, Behind, accepted, sent, reported>>

Transmits(s) ==
    /\ s \in Occupied
    /\ txq' = [txq EXCEPT ![s] = NoFrame]
    /\ Untaken' = Append(Untaken, [seq |-> s, frame |-> txq[s]])
    /\ sent' = Append(sent, txq[s])
    /\ UNCHANGED <<pri, Behind, accepted, reported>>

Erases ==
    /\ erased' /\ Moving = <<>>
    /\ txq' = [s \in Slots |-> NoFrame]
    /\ UNCHANGED <<pri, Untaken, Behind, accepted, sent, reported>>

\* A frame is written to a slot of which neither the queue nor an event knows.
Enters(frame, slot) ==
    /\ frame # NoFrame /\ txq[slot] = NoFrame /\ slot \notin SeqsOf(Untaken)
    /\ Request(frame, slot)
    /\ UNCHANGED <<Untaken, sent, reported>>

MainQueues(frame, slot) ==
    /\ Enters(frame, slot) /\ isr.pc = "idle"
    /\ frame.fifo => pri.fifoSlot = QueueSize
    /\ frame.id = accepted + 1 /\ accepted' = accepted + 1
    /\ UNCHANGED Behind

HandlerQueues(frame, slot) ==
    /\ Enters(frame, slot) /\ isr.pc = "write" /\ frame.fifo
    /\ Behind # <<>> /\ Head(Behind) = frame /\ Behind' = Tail(Behind)
    /\ UNCHANGED accepted

MainStores(frame) ==
    /\ frame.fifo /\ pri.fifoSlot # QueueSize
    /\ frame.id = accepted + 1 /\ accepted' = accepted + 1
    /\ Behind' = Append(Behind, frame)
    /\ UNCHANGED <<pri, txq, Untaken, sent, reported>>

Discards ==
    /\ txbo /\ Occupied = {}
    /\ pri' = EmptyPri /\ Behind' = <<>>
    /\ UNCHANGED <<txq, Untaken, accepted, sent, reported>>

Ignores ==
    /\ Untaken # <<>> /\ Head(Untaken).seq \notin pri.valid
    /\ Untaken' = Tail(Untaken)
    /\ UNCHANGED <<pri, txq, Behind, accepted, sent, reported>>

Reports(seq) ==
    /\ Untaken # <<>> /\ seq = Head(Untaken).seq /\ seq \in pri.valid
    /\ Untaken' = Tail(Untaken)
    /\ reported' = Append(reported, pri.uref[seq])
    /\ pri' = [Freed(seq) EXCEPT !.fifoSlot = IF seq = pri.fifoSlot THEN FifoSize ELSE @]
    /\ UNCHANGED <<txq, Behind, accepted, sent>>

\* Only if the two sizes differ: `none' is then not what it is compared with.
PutsBack ==
    /\ isr.pc = "relaunch" /\ pri.fifoSlot # QueueSize
    /\ Behind # <<>> /\ Behind' = Append(Tail(Behind), Head(Behind))
    /\ UNCHANGED <<pri, txq, Untaken, accepted, sent, reported>>

Move ==
    \/ Still \/ Erases \/ Discards \/ Ignores \/ PutsBack
    \/ \E s \in Slots : Transmits(s) \/ Reports(s)
    \/ \E frame \in Frame : MainStores(frame)
    \/ \E frame \in Frame, slot \in Slots : MainQueues(frame, slot) \/ HandlerQueues(frame, slot)

\* What is known of an undisturbed state.
Known ==
    /\ TxTypes /\ SendIsAlone /\ RoomSeen /\ RealFrames
    /\ Regular /\ PromiseHolds /\ SendIsNext /\ WritersFree

LEMMA KnownWhenUndisturbed ==
    TxInv /\ RealFrames /\ SlotInv /\ SpaceInv /\ WritersInv /\ Undisturbed => Known
BY TypesSuffice DEF Known, TxInv, SlotInv, SpaceInv, WritersInv

\* The handler's send_frame finds a free slot: the one it has just freed at least.
LEMMA RelaunchFindsRoom ==
    ASSUME Known, IsrRelaunch, Direct(isr.frame), ~ReadFails
    PROVE  isr'.pc = "write"
<1> DEFINE taken == {tef[i].seq : i \in (1..Len(tef)) \cap {1}}
<1>1. PICK slot \in Slots \cup {NoSlot} :
        /\ QueueSlot(taken, slot)
        /\ isr' = IF slot = NoSlot THEN [isr EXCEPT !.pc = "pop", !.frame = NoFrame]
                  ELSE [isr EXCEPT !.pc = "write", !.slot = slot]
    BY DEF IsrRelaunch
<1>2. isr.pc = "relaunch" /\ pri.free > 0 /\ EventsAreThere /\ QueueKnown /\ TxTypes
    BY DEF IsrRelaunch, Known, Regular, PromiseHolds
<1>3. FreeSlots(taken) # {}
    <2>1. tef # <<>> /\ Head(tef).seq \notin Occupied
        BY <1>2 DEF EventsAreThere, QueueKnown
    <2>2. Len(tef) >= 1 /\ Head(tef) \in EventType
        BY <1>2, <2>1 DEF TxTypes
    <2>3. Head(tef).seq \in Slots
        BY <2>2 DEF EventType
    <2>4. QED  BY <2>1, <2>3 DEF FreeSlots
<1>4. slot \in FreeSlots(taken)
    BY <1>1, <1>2, <1>3 DEF QueueSlot, QueueHasRoom
<1>5. slot # NoSlot
    BY <1>4, FrameTypes DEF FreeSlots
<1>6. QED  BY <1>1, <1>2, <1>5 DEF TxTypes, IsrType

LEMMA HeadAndTail ==
    ASSUME NEW q \in Seq(Frame), q # <<>>
    PROVE  <<Head(q)>> \o Tail(q) = q
<1>1. Head(q) \in Frame /\ Tail(q) \in Seq(Frame) /\ Len(Tail(q)) = Len(q) - 1 /\ Head(q) = q[1]
      /\ Len(q) \in Nat \ {0} /\ \A i \in 1..Len(q)-1 : Tail(q)[i] = q[i + 1]
    OBVIOUS
<1> DEFINE r == <<Head(q)>> \o Tail(q)
<1>2. <<Head(q)>> \in Seq(Frame) /\ Len(<<Head(q)>>) = 1 /\ <<Head(q)>>[1] = q[1]
    BY <1>1
<1>3. /\ r \in Seq(Frame) /\ Len(r) = 1 + (Len(q) - 1)
      /\ \A i \in 1..1+(Len(q)-1) : r[i] = IF i <= 1 THEN <<Head(q)>>[i] ELSE Tail(q)[i - 1]
    BY <1>1, <1>2, ConcatProperties
<1> HIDE DEF r
<1>4. Len(r) = Len(q)
    BY <1>1, <1>3
<1>5. \A i \in 1..Len(q) : r[i] = q[i]
    <2> SUFFICES ASSUME NEW i \in 1..Len(q) PROVE r[i] = q[i]
        OBVIOUS
    <2>1. CASE i = 1
        BY <1>1, <1>2, <1>3, <2>1
    <2>2. CASE i # 1
        <3>1. i - 1 \in 1..Len(q)-1 /\ ~(i <= 1) /\ i \in 1..1+(Len(q)-1) /\ (i - 1) + 1 = i
            BY <1>1, <2>2
        <3>2. QED  BY <1>1, <1>3, <3>1
    <2>3. QED  BY <2>1, <2>2
<1>6. QED  BY <1>3, <1>4, <1>5, SeqEqual DEF r

LEMMA StepIsMove ==
    ASSUME Known, [Next]_vars, Undisturbed', TxTypes'
    PROVE  Move
<1> USE DEF soft, chip, ghosts
<1>1. /\ TxTypes /\ SendIsAlone /\ RoomSeen /\ RealFrames /\ EventsAreThere /\ BusOffOnce /\ QueueKnown
      /\ PromiseHolds /\ SendIsNext /\ WritersFree
    BY DEF Known, Regular
<1>2. ~ReadFails /\ (ChipBusOff => ~Sending)
    BY <1>1, NoReadFailed, NoBusOffInSend DEF TxTypes
<1>3. Untaken \in Seq(EventType) /\ tef \in Seq(EventType)
    <2>1. tef \in Seq(EventType) /\ (tef # <<>> => Tail(tef) \in Seq(EventType))
        BY <1>1 DEF TxTypes
    <2>2. QED  BY <1>1, <2>1 DEF Untaken, EventsAreThere
<1>4. UNCHANGED fifo => UNCHANGED Queued
    BY DEF Queued
<1>5. UNCHANGED <<isr, fifo>> => UNCHANGED Behind
    BY <1>4 DEF Behind, Moving
<1>6. ASSUME isr.pc \notin {"relaunch", "write"}, isr'.pc \notin {"relaunch", "write"}, UNCHANGED fifo
      PROVE  UNCHANGED Behind
    BY <1>4, <1>6 DEF Behind, Moving
<1>7. CASE UNCHANGED <<pri, fifo, txq, tef, isr, accepted, sent, reported>>
    BY <1>5, <1>7 DEF Untaken, Still, Move
<1>8. ASSUME NEW s \in Slots, ChipTransmit(s) PROVE Move
    <2> DEFINE e == [seq |-> s, frame |-> txq[s]]
    <2>1. e \in EventType /\ tef' = Append(tef, e)
        BY <1>1, <1>8 DEF TxTypes, EventType, ChipTransmit
    <2>2. Untaken' = Append(Untaken, e)
        <3>1. CASE isr.pc \in {"relaunch", "write", "pop"}
            BY <1>1, <1>3, <1>8, <2>1, <3>1, TailAppend DEF Untaken, ChipTransmit, EventsAreThere
        <3>2. CASE isr.pc \notin {"relaunch", "write", "pop"}
            BY <1>8, <2>1, <3>2 DEF Untaken, ChipTransmit
        <3>3. QED  BY <3>1, <3>2
    <2>3. Transmits(s)
        BY <1>5, <1>8, <2>2 DEF ChipTransmit, Transmits
    <2>4. QED  BY <2>3 DEF Move
<1>9. CASE ChipBusOff
    <2>1. ~Sending /\ UNCHANGED Untaken /\ UNCHANGED Behind
        BY <1>2, <1>5, <1>9 DEF ChipBusOff, Untaken
    <2>2. Moving = <<>>
        BY <2>1 DEF Sending, Moving
    <2>3. Erases
        BY <1>9, <2>1, <2>2 DEF ChipBusOff, Erases
    <2>4. QED  BY <2>3 DEF Move
<1>10. CASE ChipRecover \/ ChipWarning
    BY <1>7, <1>10 DEF ChipRecover, ChipWarning
<1>11. CASE Main
    <2>1. isr.pc = "idle" /\ isr' = isr /\ tef' = tef /\ UNCHANGED <<sent, reported>>
        BY <1>11 DEF Main, MainSend, MainAsk, MainToQueue, MainWrite, MainToFifo, MainNoRoom,
                     MainUnmask, MainAt
    <2>2. UNCHANGED Untaken /\ Untaken = tef /\ Behind = Queued /\ Queued = Listed(fifo)
        BY <1>1, <2>1, BehindType DEF Untaken
    <2>3. CASE MainWrite
        <3> DEFINE frame == main.frame
                   slot == main.slot
        <3>1. /\ main.pc = "write" /\ Request(frame, slot) /\ accepted' = accepted + 1
              /\ frame \in Frame /\ slot \in Slots /\ UNCHANGED fifo
            BY <1>1, <2>3 DEF MainWrite, MainAt, Accepted, TxTypes, MainType
        <3>2. Enters(frame, slot)
            BY <1>1, <2>1, <2>2, <3>1 DEF Enters, RealFrames, WritersFree, QueueKnown
        <3>3. MainQueues(frame, slot)
            BY <1>1, <1>5, <2>1, <3>1, <3>2 DEF MainQueues, SendIsNext, PromiseHolds
        <3>4. QED  BY <3>1, <3>3 DEF Move
    <2>4. CASE MainToFifo
        <3> DEFINE frame == main.frame
        <3>1. /\ main.pc = "send" /\ ~Direct(frame) /\ accepted' = accepted + 1 /\ fifo.free > 0
              /\ fifo' = Fifo!Put(fifo, frame) /\ frame \in Frame /\ UNCHANGED <<pri, txq>>
            BY <1>1, <2>4 DEF MainToFifo, MainAt, Accepted, TxTypes, MainType
        <3>2. Queued' = Append(Queued, frame) /\ Behind' = Queued'
            <4>1. Listed(fifo') = Append(Listed(fifo), frame)
                BY <1>1, <3>1, PutLists DEF TxTypes, RealFrames
            <4>2. Queued' = Listed(fifo')
                BY DEF Queued, Listed
            <4>3. Moving' = <<>> /\ Queued' \in Seq(Frame)
                BY <2>1, <2>2, <3>1, <4>1, <4>2, <1>1, BehindType DEF Moving
            <4>4. Behind' = Queued'
                BY <4>3, ConcatEmptySeq DEF Behind
            <4>5. QED  BY <2>2, <4>1, <4>2, <4>4
        <3>3. MainStores(frame)
            BY <1>1, <2>1, <2>2, <3>1, <3>2 DEF MainStores, Direct, SendIsNext, TxTypes, MainType, Frame
        <3>4. QED  BY <3>1, <3>3 DEF Move
    <2>5. MainToQueue \/ MainNoRoom \/ MainUnmask => Move
        BY <1>7, <2>1 DEF MainToQueue, MainNoRoom, MainUnmask
    <2>6. ASSUME NEW n, NEW useFifo, MainAsk(n, useFifo) \/ MainSend(useFifo) PROVE Move
        BY <1>7, <2>1, <2>6 DEF MainAsk, MainSend
    <2>7. QED  BY <1>11, <2>3, <2>4, <2>5, <2>6 DEF Main
<1>12. CASE Isr
    <2>1. isr.pc # "idle" => main.pc = "idle"
        BY <1>1 DEF SendIsAlone
    <2>2. \A pc, events : NextBranch(pc, events) \in {"busoff", "tx", "dismiss"}
        BY DEF NextBranch
    <2>3. CASE /\ UNCHANGED <<pri, fifo, txq, tef, accepted, sent, reported>>
               /\ isr.pc \notin {"relaunch", "write", "pop"} /\ isr'.pc \notin {"relaunch", "write", "pop"}
        BY <1>6, <2>3 DEF Untaken, Still, Move
    <2>4. CASE IsrEnter \/ IsrReturn \/ IsrDismiss
        BY <1>1, <2>3, <2>4 DEF IsrEnter, IsrReturn, IsrDismiss, TxTypes, IsrType
    <2>5. CASE IsrRead
        BY <1>1, <2>2, <2>3, <2>5 DEF IsrRead, TxTypes, IsrType
    <2>6. CASE IsrBusOff
        <3>1. isr.pc = "busoff" /\ isr'.pc \notin {"relaunch", "write", "pop"} /\ cerr
            BY <1>1, <2>2, <2>6 DEF IsrBusOff, BusOffOnce, TxTypes, IsrType
        <3>2. CASE UNCHANGED <<pri, fifo>>
            BY <2>3, <2>6, <3>1, <3>2 DEF IsrBusOff
        <3>3. CASE txbo /\ DiscardAll
            <4>1. Occupied = {}
                BY <1>1, <3>1, <3>3 DEF BusOffOnce
            <4>2. fifo' \in RingOfFrames /\ fifo'.free = FifoSize
                BY <1>1, <3>3, FifoEmptied DEF DiscardAll, TxTypes, RingOfFrames, Fifo!RingType
            <4>3. Queued' = <<>>
                <5>1. Queued' = Listed(fifo')
                    BY DEF Queued, Listed
                <5>2. QED  BY <4>2, <5>1, ListedType
            <4>4. Behind' = <<>>
                <5>1. Moving' = <<>>
                    BY <3>1 DEF Moving
                <5>2. <<>> \in Seq(Frame)
                    OBVIOUS
                <5>3. QED  BY <4>3, <5>1, <5>2, ConcatEmptySeq DEF Behind
            <4>5. UNCHANGED Untaken
                BY <2>6, <3>1 DEF IsrBusOff, Untaken
            <4>6. Discards
                BY <2>6, <3>3, <4>1, <4>4, <4>5 DEF Discards, DiscardAll, IsrBusOff
            <4>7. QED  BY <4>6 DEF Move
        <3>4. QED  BY <1>1, <1>2, <2>6, <3>2, <3>3 DEF IsrBusOff, SeesBusOff, TxTypes
    <2>7. CASE IsrTx
        <3> DEFINE seq == Head(tef).seq
        <3>1. /\ isr.pc = "tx" /\ tef # <<>> /\ TakeEvent(seq) /\ Untaken = tef
              /\ UNCHANGED <<txq, tef, accepted, sent>>
            BY <1>1, <1>2, <2>7 DEF IsrTx, EventsAreThere, Untaken
        <3>2. seq \in Slots /\ seq # QueueSize
            <4>1. Head(tef) \in EventType
                BY <1>3, <3>1
            <4>2. QED  BY <4>1, TxAssumption DEF EventType, Slots
        <3>3. Behind = Queued /\ Moving = <<>> /\ Queued = Listed(fifo)
            BY <1>1, <3>1, BehindType
        <3>4. CASE ~IsValid(seq)
            <4>1. isr'.pc = "pop" /\ UNCHANGED <<pri, fifo, reported>>
                BY <1>1, <3>1, <3>4 DEF TakeEvent, TxTypes, IsrType
            <4>2. Ignores
                BY <1>6, <3>1, <3>2, <3>4, <4>1 DEF Ignores, Untaken, IsValid
            <4>3. QED  BY <4>2 DEF Move
        <3>5. CASE IsValid(seq)
            <4>1. Complete(seq)
                BY <3>1, <3>5 DEF TakeEvent
            <4>2. isr'.pc \in {"relaunch", "pop"} /\ Untaken' = Tail(Untaken)
                BY <1>1, <3>1, <4>1 DEF Complete, Untaken, TxTypes, IsrType
            <4>3. UNCHANGED Behind
                <5>1. CASE seq = pri.fifoSlot /\ HasNext
                    <6>1. /\ fifo' = Fifo!AdvanceHead([fifo EXCEPT !.free = @ + 1])
                          /\ isr'.pc = "relaunch" /\ isr'.frame = Fifo!At(fifo, 0)
                        BY <1>1, <4>1, <5>1 DEF Complete, TxTypes, IsrType
                    <6>2. /\ Queued # <<>> /\ Head(Queued) = Fifo!At(fifo, 0) /\ Queued \in Seq(Frame)
                          /\ Listed(fifo') = Tail(Queued)
                        BY <1>1, <3>3, <5>1, <6>1, TakeLists DEF HasNext, TxTypes, RealFrames
                    <6>3. Moving' = <<Head(Queued)>> /\ Queued' = Tail(Queued)
                        <7>1. Queued' = Listed(fifo')
                            BY DEF Queued, Listed
                        <7>2. QED  BY <6>1, <6>2, <7>1 DEF Moving
                    <6>4. Behind' = <<Head(Queued)>> \o Tail(Queued)
                        BY <6>3 DEF Behind
                    <6>5. QED  BY <3>3, <6>2, <6>4, HeadAndTail
                <5>2. CASE ~(seq = pri.fifoSlot /\ HasNext)
                    <6>1. fifo' = fifo /\ isr'.pc = "pop"
                        BY <1>1, <4>1, <5>2 DEF Complete, TxTypes, IsrType
                    <6>2. QED  BY <1>6, <3>1, <6>1
                <5>3. QED  BY <5>1, <5>2
            <4>4. reported' = Append(reported, pri.uref[seq])
                BY <3>2, <4>1 DEF Complete
            <4>5. pri' = [Freed(seq) EXCEPT !.fifoSlot = IF seq = pri.fifoSlot THEN FifoSize ELSE @]
                BY <4>1 DEF Complete
            <4>6. Reports(seq)
                BY <3>1, <3>2, <3>5, <4>2, <4>3, <4>4, <4>5 DEF Reports, IsValid
            <4>7. QED  BY <3>2, <4>6 DEF Move
        <3>6. QED  BY <3>4, <3>5
    <2>8. CASE IsrRelaunch
        <3>1. /\ isr.pc = "relaunch" /\ UNCHANGED <<pri, txq, tef, accepted, sent, reported>>
              /\ isr'.pc \in {"pop", "write"} /\ UNCHANGED Untaken /\ isr.frame \in Frame
            BY <1>1, <2>8 DEF IsrRelaunch, Untaken, TxTypes, IsrType
        <3>2. CASE Direct(isr.frame)
            <4>1. isr'.pc = "write"
                BY <1>2, <2>8, <3>2, RelaunchFindsRoom
            <4>2. isr'.frame = isr.frame /\ fifo' = fifo
                BY <1>1, <2>8, <3>2, <4>1 DEF IsrRelaunch, TxTypes, IsrType
            <4>3. UNCHANGED Moving
                BY <3>1, <4>1, <4>2 DEF Moving
            <4>4. UNCHANGED Behind
                BY <1>4, <4>2, <4>3 DEF Behind
            <4>5. QED  BY <3>1, <4>4 DEF Still, Move
        <3>3. CASE ~Direct(isr.frame)
            <4>1. isr'.pc = "pop" /\ fifo' = Fifo!Put(fifo, isr.frame)
                BY <1>1, <2>8, <3>3 DEF IsrRelaunch, TxTypes, IsrType
            <4>2. /\ Behind # <<>> /\ Head(Behind) = isr.frame /\ Tail(Behind) = Queued
                  /\ Queued = Listed(fifo)
                BY <1>1, <3>1, BehindType
            <4>3. fifo.free > 0
                BY <1>1, <3>1 DEF RoomSeen
            <4>4. Queued' = Append(Queued, isr.frame)
                <5>1. Listed(fifo') = Append(Listed(fifo), isr.frame)
                    BY <1>1, <3>1, <4>1, <4>3, PutLists DEF TxTypes, RealFrames
                <5>2. Queued' = Listed(fifo')
                    BY DEF Queued, Listed
                <5>3. QED  BY <4>2, <5>1, <5>2
            <4>5. Behind' = Queued'
                <5>1. Moving' = <<>>
                    BY <4>1 DEF Moving
                <5>2. Queued' \in Seq(Frame)
                    BY <1>1, <3>1, <4>4, BehindType
                <5>3. QED  BY <5>1, <5>2, ConcatEmptySeq DEF Behind
            <4>6. PutsBack
                BY <3>1, <3>3, <4>2, <4>4, <4>5 DEF PutsBack, Direct
            <4>7. QED  BY <4>6 DEF Move
        <3>4. QED  BY <3>2, <3>3
    <2>9. CASE IsrWrite
        <3> DEFINE frame == isr.frame
                   slot == isr.slot
        <3>1. /\ isr.pc = "write" /\ Request(frame, slot) /\ isr'.pc = "pop" /\ frame.fifo
              /\ frame # NoFrame /\ frame \in Frame /\ slot \in Slots
              /\ UNCHANGED <<fifo, tef, accepted, sent, reported>>
            BY <1>1, <2>9 DEF IsrWrite, RealFrames, FifoFrame, TxTypes, IsrType
        <3>2. UNCHANGED Untaken
            BY <3>1 DEF Untaken
        <3>4. Enters(frame, slot)
            BY <1>1, <3>1, <3>2 DEF Enters, WritersFree, QueueKnown
        <3>5. /\ Behind # <<>> /\ Head(Behind) = frame /\ Tail(Behind) = Queued /\ Queued \in Seq(Frame)
            BY <1>1, <3>1, BehindType
        <3>6. Behind' = Queued
            <4>1. Moving' = <<>> /\ Queued' = Queued
                BY <1>4, <3>1 DEF Moving
            <4>2. QED  BY <3>5, <4>1, ConcatEmptySeq DEF Behind
        <3>7. HandlerQueues(frame, slot)
            BY <3>1, <3>4, <3>5, <3>6 DEF HandlerQueues
        <3>8. QED  BY <3>1, <3>7 DEF Move
    <2>10. CASE IsrPop
        <3>1. /\ isr.pc = "pop" /\ isr'.pc = "dismiss"
              /\ UNCHANGED <<pri, fifo, txq, accepted, sent, reported>>
            BY <1>1, <2>10 DEF IsrPop, TxTypes, IsrType
        <3>2. UNCHANGED Untaken
            BY <1>1, <2>10, <3>1 DEF IsrPop, Untaken, EventsAreThere
        <3>3. QED  BY <1>6, <3>1, <3>2 DEF Still, Move
    <2>11. QED
        BY <1>12, <2>4, <2>5, <2>6, <2>7, <2>8, <2>9, <2>10 DEF Isr
<1>13. QED
    BY <1>7, <1>8, <1>9, <1>10, <1>11, <1>12 DEF Next, vars

-----------------------------------------------------------------------------
(* A user reference is the one of the slot's frame.                        *)

EventsOf(q) == {q[i] : i \in 1..Len(q)}

LEMMA EventsOfAppend ==
    ASSUME NEW q \in Seq(EventType), NEW e \in EventType
    PROVE  EventsOf(Append(q, e)) = EventsOf(q) \cup {e}
<1>1. /\ Len(Append(q, e)) = Len(q) + 1 /\ Len(q) \in Nat
      /\ \A i \in 1..Len(q) : Append(q, e)[i] = q[i]
      /\ Append(q, e)[Len(q) + 1] = e
    OBVIOUS
<1>2. 1..Len(Append(q, e)) = (1..Len(q)) \cup {Len(q) + 1}
    BY <1>1
<1>3. QED  BY <1>1, <1>2 DEF EventsOf

LEMMA EventsOfTail ==
    ASSUME NEW q \in Seq(EventType), q # <<>>, Distinct(q)
    PROVE  /\ Head(q) \in EventsOf(q) /\ EventsOf(Tail(q)) \subseteq EventsOf(q)
           /\ \A e \in EventsOf(Tail(q)) : e.seq # Head(q).seq
<1>1. /\ Len(q) \in Nat \ {0} /\ Len(Tail(q)) = Len(q) - 1
      /\ \A i \in 1..Len(q)-1 : Tail(q)[i] = q[i + 1]
      /\ Head(q) = q[1]
    OBVIOUS
<1>2. 1 \in 1..Len(q) /\ \A i \in 1..Len(Tail(q)) : i + 1 \in 1..Len(q) /\ Tail(q)[i] = q[i + 1]
    BY <1>1
<1>3. Head(q) \in EventsOf(q) /\ EventsOf(Tail(q)) \subseteq EventsOf(q)
    BY <1>1, <1>2 DEF EventsOf
<1>4. \A e \in EventsOf(Tail(q)) : e.seq \in SeqsOf(Tail(q))
    BY DEF EventsOf, SeqsOf
<1>5. QED  BY <1>3, <1>4, SeqsOfTail

ShadowRight ==
    /\ \A s \in Occupied : pri.uref[s] = txq[s].id
    /\ \A e \in EventsOf(Untaken) : e.seq \in pri.valid => pri.uref[e.seq] = e.frame.id

LEMMA UntakenType ==
    ASSUME Known
    PROVE  /\ Untaken \in Seq(EventType) /\ Distinct(Untaken)
           /\ Occupied \subseteq pri.valid /\ Occupied \cap SeqsOf(Untaken) = {}
           /\ \A e \in EventsOf(Untaken) : e \in EventType /\ e.seq \in SeqsOf(Untaken)
<1>1. TxTypes /\ EventsAreThere /\ QueueKnown
    BY DEF Known, Regular
<1>2. Untaken \in Seq(EventType)
    <2>1. tef \in Seq(EventType) /\ (tef # <<>> => Tail(tef) \in Seq(EventType))
        BY <1>1 DEF TxTypes
    <2>2. QED  BY <1>1, <2>1 DEF Untaken, EventsAreThere
<1>3. \A e \in EventsOf(Untaken) : e \in EventType /\ e.seq \in SeqsOf(Untaken)
    BY <1>2 DEF EventsOf, SeqsOf
<1>4. QED  BY <1>1, <1>2, <1>3 DEF EventsAreThere, QueueKnown

\* What writing a frame to an empty slot does to the queue.
LEMMA EnteredFrame ==
    ASSUME TxTypes, NEW frame \in Frame, NEW slot \in Slots, Enters(frame, slot)
    PROVE  /\ Occupied' = Occupied \cup {slot} /\ slot \notin Occupied
           /\ txq'[slot] = frame /\ \A s \in Occupied : txq'[s] = txq[s]
           /\ pri'.uref[slot] = frame.id /\ \A s \in Slots \ {slot} : pri'.uref[s] = pri.uref[s]
           /\ pri'.valid = pri.valid \cup {slot}
           /\ pri'.fifoSlot = IF frame.fifo THEN slot ELSE pri.fifoSlot
<1>1. txq \in [Slots -> Frame] /\ pri.uref \in [Slots -> 0..MaxSends]
    BY DEF TxTypes, PriType
<1>2. QED  BY <1>1 DEF Enters, Request, Occupied

LEMMA SentFrame ==
    ASSUME TxTypes, NEW s \in Slots, Transmits(s)
    PROVE  /\ Occupied' = Occupied \ {s} /\ s \in Occupied
           /\ \A t \in Occupied' : txq'[t] = txq[t]
BY DEF TxTypes, Transmits, Occupied

LEMMA ReportedSlot ==
    ASSUME TxTypes, NEW seq \in Slots, Reports(seq)
    PROVE  /\ \A s \in Slots \ {seq} : pri'.uref[s] = pri.uref[s]
           /\ pri'.valid = pri.valid \ {seq}
           /\ pri'.fifoSlot = IF seq = pri.fifoSlot THEN FifoSize ELSE pri.fifoSlot
<1>1. pri \in PriType /\ seq # QueueSize
    BY TxAssumption DEF TxTypes, Slots
<1>2. Freed(seq) = [pri EXCEPT !.uref[seq] = 0, !.valid = @ \ {seq}, !.free = @ + 1]
    BY <1>1 DEF Freed
<1>3. QED  BY <1>1, <1>2 DEF Reports, PriType

LEMMA MoveKeepsShadowRight ==
    ASSUME Known, ShadowRight, Move
    PROVE  ShadowRight'
<1>1. /\ TxTypes /\ Untaken \in Seq(EventType) /\ Distinct(Untaken)
      /\ Occupied \subseteq pri.valid /\ Occupied \cap SeqsOf(Untaken) = {} /\ Occupied \subseteq Slots
      /\ \A e \in EventsOf(Untaken) : e \in EventType /\ e.seq \in SeqsOf(Untaken)
    BY UntakenType DEF Known, Occupied
<1>2. CASE UNCHANGED <<pri, txq, Untaken>>
    BY <1>2 DEF ShadowRight, Occupied
<1>3. Still \/ PutsBack => UNCHANGED <<pri, txq, Untaken>>
    BY DEF Still, PutsBack
<1>4. ASSUME NEW frame, MainStores(frame) PROVE UNCHANGED <<pri, txq, Untaken>>
    BY <1>4 DEF MainStores
<1>5. CASE Erases
    <2>1. Occupied' = {}
        BY <1>5 DEF Erases, Occupied
    <2>2. QED  BY <1>5, <2>1 DEF ShadowRight, Erases
<1>6. CASE Discards
    <2>1. Occupied' = {} /\ pri'.valid = {}
        BY <1>6 DEF Discards, Occupied, EmptyPri
    <2>2. QED  BY <2>1 DEF ShadowRight
<1>7. CASE Ignores
    <2>1. EventsOf(Untaken') \subseteq EventsOf(Untaken)
        BY <1>1, <1>7, EventsOfTail DEF Ignores
    <2>2. QED  BY <1>7, <2>1 DEF ShadowRight, Ignores, Occupied
<1>8. ASSUME NEW s \in Slots, Transmits(s) PROVE ShadowRight'
    <2> DEFINE e == [seq |-> s, frame |-> txq[s]]
    <2>1. Occupied' = Occupied \ {s} /\ s \in Occupied /\ \A t \in Occupied' : txq'[t] = txq[t]
        BY <1>1, <1>8, SentFrame
    <2>2. e \in EventType /\ Untaken' = Append(Untaken, e) /\ pri' = pri
        BY <1>1, <1>8 DEF Transmits, TxTypes, EventType
    <2>3. EventsOf(Untaken') = EventsOf(Untaken) \cup {e}
        BY <1>1, <2>2, EventsOfAppend
    <2>4. QED  BY <2>1, <2>2, <2>3 DEF ShadowRight
<1>9. ASSUME NEW frame \in Frame, NEW slot \in Slots, Enters(frame, slot) PROVE ShadowRight'
    <2>1. /\ Occupied' = Occupied \cup {slot} /\ slot \notin Occupied
          /\ txq'[slot] = frame /\ \A s \in Occupied : txq'[s] = txq[s]
          /\ pri'.uref[slot] = frame.id /\ \A s \in Slots \ {slot} : pri'.uref[s] = pri.uref[s]
          /\ pri'.valid = pri.valid \cup {slot}
        BY <1>1, <1>9, EnteredFrame
    <2>2. Untaken' = Untaken /\ slot \notin SeqsOf(Untaken)
        BY <1>9 DEF Enters
    <2>3. \A e \in EventsOf(Untaken) : e.seq \in Slots \ {slot}
        BY <1>1, <2>2 DEF EventType
    <2>4. QED  BY <1>1, <2>1, <2>2, <2>3 DEF ShadowRight
<1>10. ASSUME NEW seq \in Slots, Reports(seq) PROVE ShadowRight'
    <2>1. /\ \A s \in Slots \ {seq} : pri'.uref[s] = pri.uref[s]
          /\ pri'.valid = pri.valid \ {seq}
        BY <1>1, <1>10, ReportedSlot
    <2>2. /\ Untaken # <<>> /\ Untaken' = Tail(Untaken) /\ seq = Head(Untaken).seq /\ txq' = txq
        BY <1>10 DEF Reports
    <2>3. /\ EventsOf(Untaken') \subseteq EventsOf(Untaken) /\ Head(Untaken) \in EventsOf(Untaken)
          /\ \A e \in EventsOf(Untaken') : e.seq # seq
        BY <1>1, <2>2, EventsOfTail
    <2>4. seq \notin Occupied /\ Occupied' = Occupied
        BY <1>1, <2>2, <2>3 DEF Occupied
    <2>5. \A e \in EventsOf(Untaken') : e.seq \in Slots
        BY <1>1, <2>3 DEF EventType
    <2>6. QED  BY <1>1, <2>1, <2>2, <2>3, <2>4, <2>5 DEF ShadowRight
<1>11. QED
    BY <1>2, <1>3, <1>4, <1>5, <1>6, <1>7, <1>8, <1>9, <1>10 DEF Move, MainQueues, HandlerQueues

-----------------------------------------------------------------------------
(* A frame is in one place.                                                *)

InQueue == {txq[s].id : s \in Occupied}
QueueApart == \A s, t \in Occupied : txq[s].id = txq[t].id => s = t

\* The frames whose events are still to be taken.
Landed == FramesOf(Untaken)

Told == {reported[i] : i \in 1..Len(reported)}
ToldOnce == \A i, j \in 1..Len(reported) : reported[i] = reported[j] => i = j

\* A frame that was accepted is in the queue, in an event, on its way to the queue,
\* reported or lost, but never in two places or in one place twice.
OnePlace ==
    /\ QueueApart /\ Apart(Landed) /\ Apart(Behind) /\ ToldOnce
    /\ InQueue \cap (IdsOf(Landed) \cup IdsOf(Behind) \cup Told) = {}
    /\ IdsOf(Landed) \cap (IdsOf(Behind) \cup Told) = {}
    /\ IdsOf(Behind) \cap Told = {}

Numbered == \A n \in InQueue \cup IdsOf(Landed) \cup IdsOf(Behind) \cup Told : n <= accepted

OnlySent == IdsOf(Landed) \cup Told \subseteq IdsOf(sent)

FrameInv == Undisturbed => ShadowRight /\ OnePlace /\ Numbered /\ OnlySent

LEMMA QueueGrows ==
    ASSUME TxTypes, NEW frame \in Frame, NEW slot \in Slots, Enters(frame, slot)
    PROVE  /\ InQueue' = InQueue \cup {frame.id}
           /\ QueueApart /\ frame.id \notin InQueue => QueueApart'
<1>1. /\ Occupied' = Occupied \cup {slot} /\ slot \notin Occupied
      /\ txq'[slot] = frame /\ \A s \in Occupied : txq'[s] = txq[s]
    BY EnteredFrame
<1>2. InQueue' = InQueue \cup {frame.id}
    BY <1>1 DEF InQueue
<1>3. ASSUME QueueApart, frame.id \notin InQueue PROVE QueueApart'
    BY <1>1, <1>3 DEF QueueApart, InQueue
<1>4. QED  BY <1>2, <1>3

LEMMA QueueShrinks ==
    ASSUME TxTypes, NEW s \in Slots, Transmits(s), QueueApart
    PROVE  /\ InQueue' = InQueue \ {txq[s].id} /\ txq[s].id \in InQueue
           /\ QueueApart'
<1>1. Occupied' = Occupied \ {s} /\ s \in Occupied /\ \A t \in Occupied' : txq'[t] = txq[t]
    BY SentFrame
<1>2. InQueue' = InQueue \ {txq[s].id} /\ txq[s].id \in InQueue
    BY <1>1 DEF InQueue, QueueApart
<1>3. QueueApart'
    BY <1>1 DEF QueueApart
<1>4. QED  BY <1>2, <1>3

LEMMA ToldGrows ==
    ASSUME reported \in Seq(0..MaxSends), NEW n \in 0..MaxSends, reported' = Append(reported, n)
    PROVE  /\ Told' = Told \cup {n}
           /\ ToldOnce /\ n \notin Told => ToldOnce'
<1>1. /\ Len(reported') = Len(reported) + 1 /\ Len(reported) \in Nat
      /\ \A i \in 1..Len(reported) : reported'[i] = reported[i]
      /\ reported'[Len(reported) + 1] = n
    OBVIOUS
<1>2. 1..Len(reported') = (1..Len(reported)) \cup {Len(reported) + 1}
    BY <1>1
<1>3. Told' = Told \cup {n}
    BY <1>1, <1>2 DEF Told
<1>4. ASSUME ToldOnce, n \notin Told PROVE ToldOnce'
    BY <1>1, <1>2, <1>4 DEF ToldOnce, Told
<1>5. QED  BY <1>3, <1>4

LEMMA IdsAreNumbers ==
    ASSUME TxTypes, Behind \in Seq(Frame), Landed \in Seq(Frame)
    PROVE  InQueue \cup IdsOf(Landed) \cup IdsOf(Behind) \cup Told \subseteq Nat
<1>1. \A f \in Frame : f.id \in Nat
    BY TxAssumption DEF Frame
<1>2. InQueue \subseteq Nat
    BY <1>1 DEF InQueue, Occupied, TxTypes
<1>3. \A q \in Seq(Frame) : \A i \in 1..Len(q) : q[i] \in Frame
    OBVIOUS
<1>4. IdsOf(Landed) \cup IdsOf(Behind) \subseteq Nat
    BY <1>1, <1>3 DEF IdsOf
<1>5. \A q \in Seq(0..MaxSends) : \A i \in 1..Len(q) : q[i] \in Nat
    BY TxAssumption
<1>6. Told \subseteq Nat
    BY <1>5 DEF Told, TxTypes
<1>7. QED  BY <1>2, <1>4, <1>6

LEMMA PrimedTypes == (TypeOK /\ CountOnlyLeaks)' => TxTypes'
BY DEF TxTypes, TypeOK, PriType, RingOfFrames, BudgetType, IsrType, MainType, EventType,
       PromiseType, LeakOnly, CountOnlyLeaks

LEMMA MoveKeepsFrames ==
    ASSUME Known, ShadowRight, OnePlace, Numbered, OnlySent, Move, TxTypes'
    PROVE  OnePlace' /\ Numbered' /\ OnlySent'
<1>1. /\ TxTypes /\ Untaken \in Seq(EventType) /\ accepted \in Nat
      /\ Behind \in Seq(Frame) /\ Landed \in Seq(Frame) /\ sent \in Seq(Frame)
      /\ reported \in Seq(0..MaxSends)
    <2>1. /\ TxTypes /\ accepted \in Nat /\ sent \in Seq(Frame) /\ reported \in Seq(0..MaxSends)
        BY TxAssumption DEF Known, TxTypes
    <2>2. Behind \in Seq(Frame)
        BY <2>1, BehindType
    <2>3. Untaken \in Seq(EventType) /\ Landed \in Seq(Frame)
        BY UntakenType, FramesOfType DEF Landed
    <2>4. QED  BY <2>1, <2>2, <2>3
<1>2. /\ QueueApart /\ Apart(Landed) /\ Apart(Behind) /\ ToldOnce
      /\ InQueue \cap (IdsOf(Landed) \cup IdsOf(Behind) \cup Told) = {}
      /\ IdsOf(Landed) \cap (IdsOf(Behind) \cup Told) = {}
      /\ IdsOf(Behind) \cap Told = {}
    BY DEF OnePlace
<1>3. /\ UNCHANGED txq => InQueue' = InQueue /\ QueueApart'
      /\ UNCHANGED Untaken => Landed' = Landed
      /\ UNCHANGED reported => Told' = Told /\ ToldOnce'
    BY <1>2 DEF InQueue, QueueApart, Occupied, Landed, Told, ToldOnce
<1>4. IdsOf(<<>>) = {} /\ Apart(<<>>)
    BY NoFrames
\* The sets of the next state, and that each is still apart, are all that matters.
<1> DEFINE Q == InQueue
           L == IdsOf(Landed)
           B == IdsOf(Behind)
           T == Told
           ApartStill == QueueApart' /\ Apart(Landed)' /\ Apart(Behind)' /\ ToldOnce'
<1>5. ASSUME ApartStill, Q' \cup L' \cup B' \cup T' \subseteq Q \cup L \cup B \cup T, accepted' = accepted,
             Q' \cap (L' \cup B' \cup T') = {}, L' \cap (B' \cup T') = {}, B' \cap T' = {},
             L' \cup T' \subseteq IdsOf(sent')
      PROVE  OnePlace' /\ Numbered' /\ OnlySent'
    BY <1>5 DEF OnePlace, Numbered, OnlySent
<1>6. ASSUME NEW n, n = accepted + 1, accepted' = n, ApartStill,
             (Q' = Q \cup {n} /\ B' = B) \/ (Q' = Q /\ B' = B \cup {n}),
             L' = L, T' = T, sent' = sent
      PROVE  OnePlace' /\ Numbered' /\ OnlySent'
    <2>1. n \notin Q \cup L \cup B \cup T
        BY <1>1, <1>6 DEF Numbered
    <2>2. \A m \in Q \cup L \cup B \cup T : m <= accepted'
        <3>1. \A m \in Q \cup L \cup B \cup T : m \in Nat
            BY <1>1, IdsAreNumbers
        <3>2. QED  BY <1>1, <1>6, <3>1 DEF Numbered
    <2>3. n <= accepted'
        BY <1>1, <1>6
    <2>4. Numbered'
        BY <1>6, <2>2, <2>3 DEF Numbered
    <2>5. OnePlace'
        BY <1>2, <1>6, <2>1 DEF OnePlace
    <2>6. OnlySent'
        BY <1>6 DEF OnlySent
    <2>7. QED  BY <2>4, <2>5, <2>6
<1> HIDE DEF Q, L, B, T
<1>7. Q \cap (L \cup B \cup T) = {} /\ L \cap (B \cup T) = {} /\ B \cap T = {} /\ L \cup T \subseteq IdsOf(sent)
    BY <1>2 DEF Q, L, B, T, OnlySent
<1>8. CASE UNCHANGED <<txq, Untaken, accepted, sent, reported>> /\ Apart(Behind)' /\ B' \subseteq B
    <2>1. Q' = Q /\ L' = L /\ T' = T /\ ApartStill
        BY <1>2, <1>3, <1>8 DEF Q, L, T
    <2>2. QED  BY <1>5, <1>7, <1>8, <2>1
<1>9. CASE Still
    BY <1>2, <1>8, <1>9 DEF Still, B
<1>10. CASE Discards
    BY <1>4, <1>8, <1>10 DEF Discards, B
<1>11. CASE PutsBack
    <2> DEFINE f == Head(Behind)
               t == Tail(Behind)
    <2>1. /\ IdsOf(Behind) = IdsOf(t) \cup {f.id} /\ Apart(t) /\ f.id \notin IdsOf(t)
          /\ t \in Seq(Frame) /\ f \in Frame
        BY <1>1, <1>2, <1>11, TakenFrame DEF PutsBack
    <2>2. Behind' = Append(t, f)
        BY <1>11 DEF PutsBack
    <2> HIDE DEF f, t
    <2>3. IdsOf(Append(t, f)) = IdsOf(Behind) /\ Apart(Append(t, f))
        BY <2>1, AppendedFrame
    <2>4. QED  BY <1>8, <1>11, <2>2, <2>3 DEF PutsBack, B
<1>12. CASE Erases
    <2>1. Occupied' = {}
        BY <1>12 DEF Erases, Occupied
    <2>2. Q' = {} /\ QueueApart'
        BY <2>1 DEF InQueue, QueueApart, Q
    <2>3. L' = L /\ B' = B /\ T' = T /\ ApartStill
        BY <1>2, <1>3, <1>12, <2>2 DEF Erases, L, B, T
    <2>4. QED  BY <1>5, <1>7, <1>12, <2>2, <2>3 DEF Erases
<1>13. CASE Ignores
    <2>1. Untaken # <<>> /\ Untaken' = Tail(Untaken) /\ UNCHANGED <<txq, Behind, accepted, sent, reported>>
        BY <1>13 DEF Ignores
    <2>2. Landed' = Tail(Landed) /\ Landed # <<>>
        BY <1>1, <2>1, FramesOfEvents DEF Landed
    <2>3. L' \subseteq L /\ Apart(Landed)'
        BY <1>1, <1>2, <2>2, TakenFrame DEF L
    <2>4. Q' = Q /\ B' = B /\ T' = T /\ ApartStill
        BY <1>2, <1>3, <2>1, <2>3 DEF Q, B, T
    <2>5. QED  BY <1>5, <1>7, <2>1, <2>3, <2>4
<1>14. ASSUME NEW s \in Slots, Transmits(s) PROVE OnePlace' /\ Numbered' /\ OnlySent'
    <2> DEFINE e == [seq |-> s, frame |-> txq[s]]
               n == txq[s].id
    <2>1. Q' = Q \ {n} /\ n \in Q /\ QueueApart'
        BY <1>1, <1>2, <1>14, QueueShrinks DEF Q
    <2>2. /\ e \in EventType /\ txq[s] \in Frame /\ Untaken' = Append(Untaken, e)
          /\ sent' = Append(sent, txq[s]) /\ UNCHANGED <<Behind, accepted, reported>>
        BY <1>1, <1>14 DEF Transmits, TxTypes, EventType
    <2>3. Landed' = Append(Landed, txq[s])
        BY <1>1, <2>2, FramesOfEvents DEF Landed
    <2>4. n \notin L
        BY <1>7, <2>1
    <2>5. L' = L \cup {n} /\ Apart(Landed)'
        BY <1>1, <1>2, <2>2, <2>3, <2>4, AppendedFrame DEF L
    <2>6. IdsOf(sent') = IdsOf(sent) \cup {n}
        BY <1>1, <2>2, AppendedFrame
    <2> HIDE DEF n
    <2>7. B' = B /\ T' = T /\ ApartStill
        BY <1>2, <1>3, <2>1, <2>2, <2>5 DEF B, T
    <2>8. QED  BY <1>5, <1>7, <2>1, <2>2, <2>5, <2>6, <2>7
<1>15. ASSUME NEW seq \in Slots, Reports(seq) PROVE OnePlace' /\ Numbered' /\ OnlySent'
    <2> DEFINE n == Head(Landed).id
    <2>1. /\ Untaken # <<>> /\ Untaken' = Tail(Untaken) /\ seq = Head(Untaken).seq /\ seq \in pri.valid
          /\ reported' = Append(reported, pri.uref[seq]) /\ UNCHANGED <<txq, Behind, accepted, sent>>
        BY <1>15 DEF Reports
    <2>2. Landed' = Tail(Landed) /\ Landed # <<>> /\ Head(Landed) = Head(Untaken).frame
        BY <1>1, <2>1, FramesOfEvents DEF Landed
    <2>3. L = L' \cup {n} /\ n \notin L' /\ Apart(Landed)'
        BY <1>1, <1>2, <2>2, TakenFrame DEF L
    <2>4. pri.uref[seq] = n /\ n \in 0..MaxSends
        <3>1. Head(Untaken) \in EventsOf(Untaken)
            BY <2>1, UntakenType, EventsOfTail
        <3>2. pri.uref[seq] = Head(Untaken).frame.id /\ pri.uref[seq] \in 0..MaxSends
            BY <1>1, <2>1, <3>1 DEF ShadowRight, TxTypes, PriType
        <3>3. QED  BY <2>2, <3>2
    <2> HIDE DEF n
    <2>5. n \notin T
        BY <1>7, <2>3
    <2>6. T' = T \cup {n} /\ ToldOnce'
        BY <1>1, <1>2, <2>1, <2>4, <2>5, ToldGrows DEF T
    <2>7. Q' = Q /\ B' = B /\ ApartStill
        BY <1>2, <1>3, <2>1, <2>3, <2>6 DEF Q, B
    <2>8. QED  BY <1>5, <1>7, <2>1, <2>3, <2>6, <2>7
<1>16. ASSUME NEW frame \in Frame, MainStores(frame) PROVE OnePlace' /\ Numbered' /\ OnlySent'
    <2>1. /\ frame.id = accepted + 1 /\ accepted' = accepted + 1 /\ Behind' = Append(Behind, frame)
          /\ UNCHANGED <<txq, Untaken, sent, reported>>
        BY <1>16 DEF MainStores
    <2>2. frame.id \notin IdsOf(Behind)
        BY <1>1, <2>1 DEF Numbered
    <2>3. B' = B \cup {frame.id} /\ Apart(Behind)'
        BY <1>1, <1>2, <2>1, <2>2, AppendedFrame DEF B
    <2>4. Q' = Q /\ L' = L /\ T' = T /\ ApartStill
        BY <1>2, <1>3, <2>1, <2>3 DEF Q, L, T
    <2>5. QED  BY <1>6, <2>1, <2>3, <2>4
<1>17. ASSUME NEW frame \in Frame, NEW slot \in Slots, MainQueues(frame, slot)
       PROVE  OnePlace' /\ Numbered' /\ OnlySent'
    <2>1. /\ frame.id = accepted + 1 /\ accepted' = accepted + 1 /\ Enters(frame, slot)
          /\ UNCHANGED <<Untaken, sent, reported, Behind>>
        BY <1>17 DEF MainQueues, Enters
    <2>2. frame.id \notin InQueue
        BY <1>1, <2>1 DEF Numbered
    <2>3. Q' = Q \cup {frame.id} /\ QueueApart'
        BY <1>1, <1>2, <2>1, <2>2, QueueGrows DEF Q
    <2>4. B' = B /\ L' = L /\ T' = T /\ ApartStill
        BY <1>2, <1>3, <2>1, <2>3 DEF B, L, T
    <2> HIDE DEF ApartStill
    <2>5. QED  BY <1>6, <2>1, <2>3, <2>4
<1>18. ASSUME NEW frame \in Frame, NEW slot \in Slots, HandlerQueues(frame, slot)
       PROVE  OnePlace' /\ Numbered' /\ OnlySent'
    <2> DEFINE n == frame.id
    <2>1. /\ Behind # <<>> /\ Head(Behind) = frame /\ Behind' = Tail(Behind) /\ Enters(frame, slot)
          /\ UNCHANGED <<Untaken, sent, reported, accepted>>
        BY <1>18 DEF HandlerQueues, Enters
    <2>2. B = B' \cup {n} /\ n \notin B' /\ Apart(Behind)'
        BY <1>1, <1>2, <2>1, TakenFrame DEF B
    <2>3. n \notin Q
        BY <1>7, <2>2
    <2>4. Q' = Q \cup {n} /\ QueueApart'
        BY <1>1, <1>2, <2>1, <2>3, QueueGrows DEF Q
    <2> HIDE DEF n
    <2>5. L' = L /\ T' = T /\ ApartStill
        BY <1>2, <1>3, <2>1, <2>2, <2>4 DEF L, T
    <2>6. QED  BY <1>5, <1>7, <2>1, <2>2, <2>4, <2>5
<1>19. QED
    BY <1>9, <1>10, <1>11, <1>12, <1>13, <1>14, <1>15, <1>16, <1>17, <1>18 DEF Move

LEMMA InitFrameInv == Init => FrameInv
<1> SUFFICES ASSUME Init PROVE FrameInv
    OBVIOUS
<1>1. TxTypes
    BY InitTxInv, TypesSuffice DEF TxInv
<1>2. Occupied = {} /\ Untaken = <<>> /\ reported = <<>>
    BY DEF Init, Occupied, Untaken
<1>3. Behind = <<>>
    <2>1. isr.pc = "idle" /\ fifo.free = FifoSize /\ fifo \in RingOfFrames
        BY <1>1 DEF Init, Fifo!EmptyRing, TxTypes
    <2>2. QED  BY <1>1, <2>1, BehindType, ListedType
<1>4. Landed = <<>> /\ EventsOf(Untaken) = {} /\ Told = {} /\ ToldOnce
    BY <1>2 DEF Landed, FramesOf, EventsOf, Told, ToldOnce
<1>5. InQueue = {} /\ QueueApart
    BY <1>2 DEF InQueue, QueueApart
<1>6. ShadowRight
    BY <1>2, <1>4 DEF ShadowRight
<1>7. QED  BY <1>3, <1>4, <1>5, <1>6, NoFrames DEF FrameInv, OnePlace, Numbered, OnlySent

LEMMA NextFrameInv ==
    TxInv /\ RealFrames /\ SlotInv /\ SpaceInv /\ WritersInv /\ FrameInv /\ [Next]_vars => FrameInv'
<1> SUFFICES ASSUME TxInv, RealFrames, SlotInv, SpaceInv, WritersInv, FrameInv, [Next]_vars, Undisturbed'
             PROVE  (ShadowRight /\ OnePlace /\ Numbered /\ OnlySent)'
    BY DEF FrameInv
<1>1. TxTypes /\ TxTypes'
    <2>1. TxInv'
        BY NextTxInv
    <2>2. QED  BY <2>1, PrimedTypes, TypesSuffice DEF TxInv
<1>2. Undisturbed
    BY <1>1, StaysDisturbed
<1>3. Known
    BY <1>2, KnownWhenUndisturbed
<1>4. Move
    BY <1>1, <1>3, StepIsMove
<1>5. QED  BY <1>1, <1>2, <1>3, <1>4, MoveKeepsShadowRight, MoveKeepsFrames DEF FrameInv

LEMMA FrameInvAlways == Spec => [](TxInv /\ RealFrames /\ SlotInv /\ SpaceInv /\ WritersInv /\ FrameInv)
BY InitTxInv, NextTxInv, InitRealFrames, NextRealFrames, InitSlotInv, NextSlotInv, InitSpaceInv,
   NextSpaceInv, InitWritersInv, NextWritersInv, InitFrameInv, NextFrameInv, PTL DEF Spec

\* Across any number of bus-offs, whatever reports they lose: what is reported as
\* transmitted was transmitted, and it is reported once.
THEOREM NoReportIsFalse == Spec => []NoFalseReport
<1>1. FrameInv => NoFalseReport
    <2> SUFFICES ASSUME FrameInv, Undisturbed
                 PROVE  /\ \A i \in 1..Len(reported) : \E j \in 1..Len(sent) : reported[i] = sent[j].id
                        /\ \A i, j \in 1..Len(reported) : reported[i] = reported[j] => i = j
        BY DEF NoFalseReport
    <2>1. OnlySent /\ ToldOnce
        BY DEF FrameInv, OnePlace
    <2>2. \A i \in 1..Len(reported) : reported[i] \in IdsOf(sent)
        BY <2>1 DEF OnlySent, Told
    <2>3. QED  BY <2>1, <2>2 DEF ToldOnce, IdsOf
<1>2. QED  BY <1>1, FrameInvAlways, PTL

-----------------------------------------------------------------------------
(* The line of the frames sent with USE_FIFO.                              *)

\* From the one in the transmit queue to the newest in the software FIFO.
Line == InFlight \o Behind

\* There is at most one in the queue, in the slot that the driver keeps for it.
OneAhead == \A s \in Occupied : txq[s].fifo => s = pri.fifoSlot

AtHead == IF pri.fifoSlot \in Occupied /\ txq[pri.fifoSlot].fifo THEN <<txq[pri.fifoSlot]>> ELSE <<>>

LEMMA InFlightIsAtHead ==
    /\ OneAhead => InFlight = AtHead
    /\ OneAhead' => InFlight' = AtHead'
<1>1. ASSUME OneAhead PROVE InFlight = AtHead
    <2> DEFINE queued == {s \in Occupied : txq[s].fifo}
    <2>1. InFlight = IF queued # {} THEN <<txq[CHOOSE s \in queued : TRUE]>> ELSE <<>>
        BY DEF InFlight
    <2>2. CASE pri.fifoSlot \in Occupied /\ txq[pri.fifoSlot].fifo
        <3>1. queued = {pri.fifoSlot}
            BY <1>1, <2>2 DEF OneAhead
        <3>2. (CHOOSE s \in queued : TRUE) = pri.fifoSlot
            BY <3>1
        <3>3. QED  BY <2>1, <2>2, <3>1, <3>2 DEF AtHead
    <2>3. CASE ~(pri.fifoSlot \in Occupied /\ txq[pri.fifoSlot].fifo)
        <3>1. queued = {}
            BY <1>1, <2>3 DEF OneAhead
        <3>2. QED  BY <2>1, <2>3, <3>1 DEF AtHead
    <2>4. QED  BY <2>2, <2>3
<1>2. ASSUME OneAhead' PROVE InFlight' = AtHead'
    <2> DEFINE queued == {s \in Occupied' : txq'[s].fifo}
    <2>1. InFlight' = IF queued # {} THEN <<txq'[CHOOSE s \in queued : TRUE]>> ELSE <<>>
        BY DEF InFlight
    <2>2. CASE pri'.fifoSlot \in Occupied' /\ txq'[pri'.fifoSlot].fifo
        <3>1. queued = {pri'.fifoSlot}
            BY <1>2, <2>2 DEF OneAhead
        <3>2. (CHOOSE s \in queued : TRUE) = pri'.fifoSlot
            BY <3>1
        <3>3. QED  BY <2>1, <2>2, <3>1, <3>2 DEF AtHead
    <2>3. CASE ~(pri'.fifoSlot \in Occupied' /\ txq'[pri'.fifoSlot].fifo)
        <3>1. queued = {}
            BY <1>2, <2>3 DEF OneAhead
        <3>2. QED  BY <2>1, <2>3, <3>1 DEF AtHead
    <2>4. QED  BY <2>2, <2>3
<1>3. QED  BY <1>1, <1>2

LEMMA LineType ==
    ASSUME TxTypes, OneAhead
    PROVE  /\ Behind \in Seq(Frame) /\ AtHead \in Seq(Frame) /\ Line \in Seq(Frame) /\ Line = AtHead \o Behind
           /\ AtHead = <<>> => Line = Behind
           /\ \A f \in Frame : AtHead = <<f>> => Line # <<>> /\ Head(Line) = f /\ Tail(Line) = Behind
<1>1. Behind \in Seq(Frame) /\ Line = AtHead \o Behind
    BY BehindType, InFlightIsAtHead DEF Line
<1>2. AtHead \in Seq(Frame)
    BY DEF AtHead, TxTypes, Occupied
<1>3. AtHead \o Behind \in Seq(Frame)
    BY <1>1, <1>2, ConcatProperties
<1>4. QED  BY <1>1, <1>2, <1>3, OneBefore, ConcatEmptySeq

\* What each kind of step does to the line.
LineFollows ==
    /\ Still \/ Ignores \/ (\E s \in Slots : Reports(s)) => Line' = Line
    /\ \A frame \in Frame, slot \in Slots : HandlerQueues(frame, slot) => Line' = Line
    /\ \A s \in Slots : Transmits(s) =>
         IF txq[s].fifo THEN Line # <<>> /\ Head(Line) = txq[s] /\ Line' = Tail(Line) ELSE Line' = Line
    /\ Erases => Line' = Line \/ (Line # <<>> /\ Line' = Tail(Line))
    /\ Discards => Line' = <<>>
    /\ \A frame \in Frame, slot \in Slots : MainQueues(frame, slot) =>
         Line' = IF frame.fifo THEN Append(Line, frame) ELSE Line
    /\ \A frame \in Frame : MainStores(frame) => Line' = Append(Line, frame)
    /\ ~PutsBack

LEMMA AppendAfter ==
    ASSUME NEW p \in Seq(Frame), NEW q \in Seq(Frame), NEW f \in Frame
    PROVE  p \o Append(q, f) = Append(p \o q, f)
<1>1. <<f>> \in Seq(Frame) /\ p \o q \in Seq(Frame)
    BY ConcatProperties
<1>2. Append(q, f) = q \o <<f>> /\ Append(p \o q, f) = (p \o q) \o <<f>>
    BY <1>1, AppendIsConcat
<1>3. QED  BY <1>1, <1>2, ConcatAssociative

LEMMA MoveOfLine ==
    ASSUME FifoSize = QueueSize, Known, FifoSlotKnown, OneAhead, Move, TxTypes'
    PROVE  OneAhead' /\ LineFollows
<1>1. /\ TxTypes /\ Occupied \subseteq Slots /\ QueueSize \notin Slots
      /\ Occupied \subseteq pri.valid /\ Occupied \cap SeqsOf(Untaken) = {}
    BY UntakenType, TxAssumption DEF Known, Occupied, Slots
<1>2. /\ Behind \in Seq(Frame) /\ AtHead \in Seq(Frame) /\ Line \in Seq(Frame) /\ Line = AtHead \o Behind
      /\ AtHead = <<>> => Line = Behind
      /\ \A f \in Frame : AtHead = <<f>> => Line # <<>> /\ Head(Line) = f /\ Tail(Line) = Behind
    BY <1>1, LineType
<1>3. ASSUME OneAhead' PROVE Line' = AtHead' \o Behind'
    BY <1>3, InFlightIsAtHead DEF Line
<1>4. <<>> \o Behind = Behind /\ \A q \in Seq(Frame) : <<>> \o q = q /\ q \o <<>> = q
    BY <1>2, ConcatEmptySeq
<1>5. ASSUME UNCHANGED <<pri, txq, Behind>> PROVE OneAhead' /\ Line' = Line
    <2>1. OneAhead' /\ AtHead' = AtHead
        BY <1>5 DEF OneAhead, AtHead, Occupied
    <2>2. QED  BY <1>2, <1>3, <1>5, <2>1
<1>6. Still \/ Ignores => OneAhead' /\ Line' = Line
    BY <1>5 DEF Still, Ignores
<1>7. ~PutsBack
    BY DEF PutsBack, FifoSlotKnown
<1>8. ASSUME NEW s \in Slots, Reports(s) PROVE OneAhead' /\ Line' = Line
    <2>1. /\ pri'.fifoSlot = IF s = pri.fifoSlot THEN QueueSize ELSE pri.fifoSlot
          /\ UNCHANGED <<txq, Behind>>
        BY <1>1, <1>8, ReportedSlot DEF Reports
    <2>2. s \in SeqsOf(Untaken)
        <3>1. Head(Untaken) \in EventsOf(Untaken)
            BY <1>8, UntakenType, EventsOfTail DEF Reports
        <3>2. QED  BY <1>8, <3>1, UntakenType DEF Reports
    <2>3. OneAhead' /\ AtHead' = AtHead
        BY <1>1, <2>1, <2>2 DEF OneAhead, AtHead, Occupied
    <2>4. QED  BY <1>2, <1>3, <2>1, <2>3
<1>9. ASSUME NEW s \in Slots, Transmits(s)
      PROVE  /\ OneAhead'
             /\ IF txq[s].fifo THEN Line # <<>> /\ Head(Line) = txq[s] /\ Line' = Tail(Line) ELSE Line' = Line
    <2>1. /\ Occupied' = Occupied \ {s} /\ s \in Occupied /\ \A t \in Occupied' : txq'[t] = txq[t]
          /\ pri' = pri /\ Behind' = Behind /\ txq[s] \in Frame
        BY <1>1, <1>9, SentFrame DEF Transmits, TxTypes
    <2>2. OneAhead'
        BY <2>1 DEF OneAhead
    <2>3. CASE txq[s].fifo
        <3>1. s = pri.fifoSlot /\ AtHead = <<txq[s]>> /\ AtHead' = <<>>
            BY <2>1, <2>3 DEF OneAhead, AtHead
        <3>2. QED  BY <1>2, <1>3, <1>4, <2>1, <2>2, <2>3, <3>1
    <2>4. CASE ~txq[s].fifo
        <3>1. AtHead' = AtHead
            BY <2>1, <2>4 DEF AtHead
        <3>2. QED  BY <1>2, <1>3, <2>1, <2>2, <2>4, <3>1
    <2>5. QED  BY <2>3, <2>4
<1>10. ASSUME Erases PROVE OneAhead' /\ (Line' = Line \/ (Line # <<>> /\ Line' = Tail(Line)))
    <2>1. Occupied' = {} /\ Behind' = Behind
        BY <1>10 DEF Erases, Occupied
    <2>2. OneAhead' /\ AtHead' = <<>>
        BY <2>1 DEF OneAhead, AtHead
    <2>3. Line' = Behind
        BY <1>3, <1>4, <2>1, <2>2
    <2>4. AtHead = <<>> \/ \E f \in Frame : AtHead = <<f>>
        BY <1>1 DEF AtHead, TxTypes
    <2>5. QED  BY <1>2, <2>2, <2>3, <2>4
<1>11. ASSUME Discards PROVE OneAhead' /\ Line' = <<>>
    <2>1. Occupied' = {} /\ Behind' = <<>>
        BY <1>11 DEF Discards, Occupied
    <2>2. OneAhead' /\ AtHead' = <<>>
        BY <2>1 DEF OneAhead, AtHead
    <2>3. <<>> \in Seq(Frame)
        OBVIOUS
    <2>4. QED  BY <1>3, <1>4, <2>1, <2>2, <2>3
<1>12. ASSUME NEW frame \in Frame, MainStores(frame) PROVE OneAhead' /\ Line' = Append(Line, frame)
    <2>1. UNCHANGED <<pri, txq>> /\ Behind' = Append(Behind, frame)
        BY <1>12 DEF MainStores
    <2>2. OneAhead' /\ AtHead' = AtHead
        BY <2>1 DEF OneAhead, AtHead, Occupied
    <2>3. AtHead \o Append(Behind, frame) = Append(AtHead \o Behind, frame)
        BY <1>2, AppendAfter
    <2>4. QED  BY <1>2, <1>3, <2>1, <2>2, <2>3
<1>13. ASSUME NEW frame \in Frame, NEW slot \in Slots, Enters(frame, slot),
              frame.fifo => pri.fifoSlot = QueueSize
       PROVE  OneAhead' /\ AtHead' = IF frame.fifo THEN <<frame>> ELSE AtHead
    <2>1. /\ Occupied' = Occupied \cup {slot} /\ slot \notin Occupied
          /\ txq'[slot] = frame /\ \A s \in Occupied : txq'[s] = txq[s]
          /\ pri'.fifoSlot = IF frame.fifo THEN slot ELSE pri.fifoSlot
        BY <1>1, <1>13, EnteredFrame
    <2>2. CASE frame.fifo
        <3>1. pri.fifoSlot \notin Slots /\ pri'.fifoSlot = slot
            BY <1>1, <1>13, <2>1, <2>2
        <3>2. \A s \in Occupied : ~txq[s].fifo
            BY <1>1, <3>1 DEF OneAhead
        <3>3. OneAhead'
            BY <2>1, <3>1, <3>2 DEF OneAhead
        <3>4. AtHead' = <<frame>>
            BY <2>1, <2>2, <3>1 DEF AtHead
        <3>5. QED  BY <2>2, <3>3, <3>4
    <2>3. CASE ~frame.fifo
        BY <2>1, <2>3 DEF OneAhead, AtHead
    <2>4. QED  BY <2>2, <2>3
<1>14. ASSUME NEW frame \in Frame, NEW slot \in Slots, MainQueues(frame, slot)
       PROVE  OneAhead' /\ Line' = IF frame.fifo THEN Append(Line, frame) ELSE Line
    <2>1. Enters(frame, slot) /\ Behind' = Behind /\ isr.pc = "idle" /\ (frame.fifo => pri.fifoSlot = QueueSize)
        BY <1>14 DEF MainQueues
    <2>2. OneAhead' /\ AtHead' = IF frame.fifo THEN <<frame>> ELSE AtHead
        BY <1>13, <2>1
    <2>3. CASE ~frame.fifo
        BY <1>2, <1>3, <2>1, <2>2, <2>3
    <2>4. CASE frame.fifo
        <3>1. ~HasNext /\ pri.fifoSlot \notin Occupied
            BY <1>1, <2>1, <2>4 DEF FifoSlotKnown
        <3>2. fifo \in RingOfFrames /\ fifo.free = FifoSize
            BY <1>1, <3>1, TxAssumption DEF TxTypes, HasNext, RingOfFrames, Fifo!RingType
        <3>3. Behind = <<>>
            BY <1>1, <2>1, <3>2, BehindType, ListedType
        <3>4. Line = <<>> /\ AtHead = <<>>
            BY <1>2, <3>1, <3>3 DEF AtHead
        <3>5. Line' = <<frame>> \o <<>>
            BY <1>3, <2>1, <2>2, <2>4, <3>3
        <3>6. <<frame>> \in Seq(Frame) /\ <<frame>> = Append(<<>>, frame)
            OBVIOUS
        <3>7. QED  BY <1>4, <2>2, <2>4, <3>4, <3>5, <3>6
    <2>5. QED  BY <2>3, <2>4
<1>15. ASSUME NEW frame \in Frame, NEW slot \in Slots, HandlerQueues(frame, slot)
       PROVE  OneAhead' /\ Line' = Line
    <2>1. /\ Enters(frame, slot) /\ isr.pc = "write" /\ frame.fifo
          /\ Behind # <<>> /\ Head(Behind) = frame /\ Behind' = Tail(Behind)
        BY <1>15 DEF HandlerQueues
    <2>2. pri.fifoSlot = QueueSize
        BY <2>1 DEF FifoSlotKnown
    <2>3. OneAhead' /\ AtHead' = <<frame>> /\ AtHead = <<>>
        BY <1>1, <1>13, <2>1, <2>2 DEF AtHead
    <2>4. Line' = <<Head(Behind)>> \o Tail(Behind)
        BY <1>3, <2>1, <2>3
    <2>5. QED  BY <1>2, <2>1, <2>3, <2>4, HeadAndTail
<1>16. OneAhead'
    BY <1>6, <1>7, <1>8, <1>9, <1>10, <1>11, <1>12, <1>14, <1>15 DEF Move
<1>17. LineFollows
    BY <1>6, <1>7, <1>8, <1>9, <1>10, <1>11, <1>12, <1>14, <1>15 DEF LineFollows
<1>18. QED  BY <1>16, <1>17

-----------------------------------------------------------------------------
(* The line goes out in order.                                             *)

FifoSent == {sent[i].id : i \in {j \in 1..Len(sent) : sent[j].fifo}}
SentInOrder ==
    \A i, j \in 1..Len(sent) : i < j /\ sent[i].fifo /\ sent[j].fifo => sent[i].id < sent[j].id

\* The numbers rise along the line, past all that were sent from it.
InOrder ==
    /\ Sorted(Line) /\ SentInOrder
    /\ \A n \in IdsOf(Line) \cup FifoSent : n <= accepted
    /\ \A m \in FifoSent : \A n \in IdsOf(Line) : m < n

LineInv == Undisturbed => OneAhead /\ InOrder

LEMMA SentGrows ==
    ASSUME sent \in Seq(Frame), NEW f \in Frame, sent' = Append(sent, f)
    PROVE  /\ FifoSent' = IF f.fifo THEN FifoSent \cup {f.id} ELSE FifoSent
           /\ SentInOrder /\ (f.fifo => \A n \in FifoSent : n < f.id) => SentInOrder'
<1>1. /\ Len(sent') = Len(sent) + 1 /\ Len(sent) \in Nat
      /\ \A i \in 1..Len(sent) : sent'[i] = sent[i]
      /\ sent'[Len(sent) + 1] = f
    OBVIOUS
<1>2. 1..Len(sent') = (1..Len(sent)) \cup {Len(sent) + 1}
    BY <1>1
<1>3. FifoSent' = IF f.fifo THEN FifoSent \cup {f.id} ELSE FifoSent
    <2>1. CASE f.fifo
        <3>1. {j \in 1..Len(sent') : sent'[j].fifo}
                = {j \in 1..Len(sent) : sent[j].fifo} \cup {Len(sent) + 1}
            BY <1>1, <1>2, <2>1
        <3>2. QED  BY <1>1, <2>1, <3>1 DEF FifoSent
    <2>2. CASE ~f.fifo
        <3>1. {j \in 1..Len(sent') : sent'[j].fifo} = {j \in 1..Len(sent) : sent[j].fifo}
            BY <1>1, <1>2, <2>2
        <3>2. QED  BY <1>1, <2>2, <3>1 DEF FifoSent
    <2>3. QED  BY <2>1, <2>2
<1>4. ASSUME SentInOrder, f.fifo => \A n \in FifoSent : n < f.id PROVE SentInOrder'
    <2> SUFFICES ASSUME NEW i \in 1..Len(sent'), NEW j \in 1..Len(sent'), i < j,
                        sent'[i].fifo, sent'[j].fifo
                 PROVE  sent'[i].id < sent'[j].id
        BY DEF SentInOrder
    <2>1. i \in 1..Len(sent) /\ sent'[i] = sent[i] /\ sent[i].fifo
        BY <1>1
    <2>2. CASE j \in 1..Len(sent)
        BY <1>1, <1>4, <2>1, <2>2 DEF SentInOrder
    <2>3. CASE j = Len(sent) + 1
        <3>1. sent[i].id \in FifoSent
            BY <2>1 DEF FifoSent
        <3>2. QED  BY <1>1, <1>4, <2>1, <2>3, <3>1
    <2>4. j \in 1..Len(sent) \/ j = Len(sent) + 1
        BY <1>1
    <2>5. QED  BY <2>2, <2>3, <2>4
<1>5. QED  BY <1>3, <1>4

LEMMA MoveKeepsOrder ==
    ASSUME FifoSize = QueueSize, Known, FifoSlotKnown, OneAhead, InOrder, Move, TxTypes'
    PROVE  OneAhead' /\ InOrder'
<1>1. OneAhead' /\ LineFollows
    BY MoveOfLine
<1>2. /\ TxTypes /\ accepted \in Nat /\ Line \in Seq(Frame) /\ sent \in Seq(Frame)
      /\ \A f \in Frame : f.id \in Nat
    <2>1. TxTypes
        BY DEF Known
    <2>2. Line \in Seq(Frame)
        BY <2>1, LineType
    <2>3. accepted \in Nat /\ sent \in Seq(Frame)
        BY <2>1, TxAssumption DEF TxTypes
    <2>4. \A f \in Frame : f.id \in Nat
        BY TxAssumption DEF Frame
    <2>5. QED  BY <2>1, <2>2, <2>3, <2>4
<1>3. /\ Sorted(Line) /\ SentInOrder
      /\ \A n \in IdsOf(Line) \cup FifoSent : n <= accepted
      /\ \A m \in FifoSent : \A n \in IdsOf(Line) : m < n
    BY DEF InOrder
<1>4. IdsOf(Line) \cup FifoSent \subseteq Nat
    <2>1. \A q \in Seq(Frame) : \A i \in 1..Len(q) : q[i] \in Frame
        OBVIOUS
    <2>2. QED  BY <1>2, <2>1 DEF IdsOf, FifoSent
<1>5. UNCHANGED sent => FifoSent' = FifoSent /\ SentInOrder'
    BY <1>3 DEF FifoSent, SentInOrder
<1>6. /\ IdsOf(<<>>) = {} /\ Sorted(<<>>)
      /\ Line # <<>> => /\ IdsOf(Line) = IdsOf(Tail(Line)) \cup {Head(Line).id} /\ Sorted(Tail(Line))
                        /\ \A n \in IdsOf(Tail(Line)) : Head(Line).id < n
    BY <1>2, <1>3, NoFrames, TakenFrame
\* A step that sends nothing and adds nothing to the line.
<1>7. ASSUME UNCHANGED sent, accepted' \in {accepted, accepted + 1},
             Line' = Line \/ Line' = <<>> \/ (Line # <<>> /\ Line' = Tail(Line))
      PROVE  InOrder'
    <2>1. Sorted(Line') /\ IdsOf(Line') \subseteq IdsOf(Line)
        BY <1>3, <1>6, <1>7
    <2>2. \A n \in IdsOf(Line) \cup FifoSent : n <= accepted'
        BY <1>2, <1>3, <1>4, <1>7
    <2>3. QED  BY <1>3, <1>5, <1>7, <2>1, <2>2 DEF InOrder
\* A step that adds the next frame to the line.
<1>8. ASSUME UNCHANGED sent, accepted' = accepted + 1, NEW f \in Frame, f.id = accepted + 1,
             Line' = Append(Line, f)
      PROVE  InOrder'
    <2>1. \A n \in IdsOf(Line) \cup FifoSent : n < f.id /\ n <= accepted'
        BY <1>2, <1>3, <1>4, <1>8
    <2>2. IdsOf(Line') = IdsOf(Line) \cup {f.id} /\ Sorted(Line')
        BY <1>2, <1>3, <1>8, <2>1, AppendedFrame
    <2>3. f.id <= accepted'
        BY <1>2, <1>8
    <2>4. QED  BY <1>3, <1>5, <1>8, <2>1, <2>2, <2>3 DEF InOrder
<1>9. CASE Still \/ Ignores \/ Erases \/ Discards
    <2>1. Line' = Line \/ Line' = <<>> \/ (Line # <<>> /\ Line' = Tail(Line))
        BY <1>1, <1>9 DEF LineFollows
    <2>2. UNCHANGED <<sent, accepted>>
        BY <1>9 DEF Still, Ignores, Erases, Discards
    <2>3. QED  BY <1>1, <1>7, <2>1, <2>2
<1>10. ASSUME NEW s \in Slots, Reports(s) PROVE InOrder'
    <2>1. Line' = Line
        BY <1>1, <1>10 DEF LineFollows
    <2>2. QED  BY <1>7, <1>10, <2>1 DEF Reports
<1>11. ASSUME NEW frame \in Frame, NEW slot \in Slots, HandlerQueues(frame, slot) PROVE InOrder'
    <2>1. Line' = Line
        BY <1>1, <1>11 DEF LineFollows
    <2>2. QED  BY <1>7, <1>11, <2>1 DEF HandlerQueues, Enters
<1>12. ASSUME NEW frame \in Frame, NEW slot \in Slots, MainQueues(frame, slot) PROVE InOrder'
    <2>1. Line' = IF frame.fifo THEN Append(Line, frame) ELSE Line
        BY <1>1, <1>12 DEF LineFollows
    <2>2. UNCHANGED sent /\ accepted' = accepted + 1 /\ frame.id = accepted + 1
        BY <1>12 DEF MainQueues, Enters
    <2>3. QED  BY <1>7, <1>8, <2>1, <2>2
<1>13. ASSUME NEW frame \in Frame, MainStores(frame) PROVE InOrder'
    <2>1. Line' = Append(Line, frame)
        BY <1>1, <1>13 DEF LineFollows
    <2>2. QED  BY <1>8, <1>13, <2>1 DEF MainStores
<1>14. ASSUME NEW s \in Slots, Transmits(s) PROVE InOrder'
    <2>1. IF txq[s].fifo THEN Line # <<>> /\ Head(Line) = txq[s] /\ Line' = Tail(Line) ELSE Line' = Line
        BY <1>1, <1>14 DEF LineFollows
    <2>2. sent' = Append(sent, txq[s]) /\ accepted' = accepted /\ txq[s] \in Frame
        BY <1>2, <1>14 DEF Transmits, TxTypes
    <2>3. CASE ~txq[s].fifo
        <3>1. FifoSent' = FifoSent /\ SentInOrder'
            BY <1>2, <1>3, <2>2, <2>3, SentGrows
        <3>2. QED  BY <1>3, <2>1, <2>2, <2>3, <3>1 DEF InOrder
    <2>4. CASE txq[s].fifo
        <3> DEFINE n == Head(Line).id
        <3>1. Line # <<>> /\ n = txq[s].id /\ n \in IdsOf(Line) /\ Line' = Tail(Line)
            BY <1>6, <2>1, <2>4
        <3>2. FifoSent' = FifoSent \cup {n} /\ SentInOrder'
            <4>1. \A m \in FifoSent : m < txq[s].id
                BY <1>3, <3>1
            <4>2. QED  BY <1>2, <1>3, <2>2, <2>4, <3>1, <4>1, SentGrows
        <3>3. /\ IdsOf(Line') \subseteq IdsOf(Line) /\ Sorted(Line')
              /\ \A m \in IdsOf(Line') : n < m
            BY <1>6, <3>1
        <3> HIDE DEF n
        <3>4. QED  BY <1>3, <2>2, <3>1, <3>2, <3>3 DEF InOrder
    <2>5. QED  BY <2>3, <2>4
<1>15. ~PutsBack
    BY <1>1 DEF LineFollows
<1>16. QED
    BY <1>1, <1>9, <1>10, <1>11, <1>12, <1>13, <1>14, <1>15 DEF Move

LEMMA InitLineInv == Init => LineInv
<1> SUFFICES ASSUME Init PROVE OneAhead /\ InOrder
    BY DEF LineInv
<1>1. TxTypes
    BY InitTxInv, TypesSuffice DEF TxInv
<1>2. Occupied = {} /\ sent = <<>>
    BY DEF Init, Occupied
<1>3. OneAhead /\ AtHead = <<>>
    BY <1>2 DEF OneAhead, AtHead
<1>4. Behind = <<>>
    <2>1. isr.pc = "idle" /\ fifo.free = FifoSize /\ fifo \in RingOfFrames
        BY <1>1 DEF Init, Fifo!EmptyRing, TxTypes
    <2>2. QED  BY <1>1, <2>1, BehindType, ListedType
<1>5. Line = <<>>
    BY <1>1, <1>3, <1>4, LineType
<1>6. FifoSent = {} /\ SentInOrder
    BY <1>2 DEF FifoSent, SentInOrder
<1>7. QED  BY <1>3, <1>5, <1>6, NoFrames DEF InOrder

LEMMA NextLineInv ==
    /\ FifoSize = QueueSize /\ TxInv /\ RealFrames /\ SlotInv /\ SpaceInv /\ ServedInv /\ WritersInv
    /\ LineInv /\ [Next]_vars
    => LineInv'
<1> SUFFICES ASSUME FifoSize = QueueSize, TxInv, RealFrames, SlotInv, SpaceInv, ServedInv, WritersInv,
                    LineInv, [Next]_vars, Undisturbed'
             PROVE  (OneAhead /\ InOrder)'
    BY DEF LineInv
<1>1. TxTypes /\ TxTypes'
    <2>1. TxInv'
        BY NextTxInv
    <2>2. QED  BY <2>1, PrimedTypes, TypesSuffice DEF TxInv
<1>2. Undisturbed
    BY <1>1, StaysDisturbed
<1>3. Known
    BY <1>2, KnownWhenUndisturbed
<1>4. Move
    BY <1>1, <1>3, StepIsMove
<1>5. QED  BY <1>1, <1>2, <1>3, <1>4, MoveKeepsOrder DEF LineInv, ServedInv

\* As long as CAN_TX_FIFO_SIZE is CAN_TX_QUEUE_SIZE, frames sent with USE_FIFO leave in
\* the order in which they were accepted, across any number of bus-offs.
THEOREM FifoKeepsOrder ==
    ASSUME FifoSize = QueueSize
    PROVE  Spec => []FifoInOrder
<1>1. Init => ServedInv
    BY InitServedInv
<1>2. TxInv /\ RealFrames /\ SlotInv /\ SpaceInv /\ ServedInv /\ [Next]_vars => ServedInv'
    BY NextServedInv
<1>3. TxInv /\ RealFrames /\ SlotInv /\ SpaceInv /\ ServedInv /\ WritersInv /\ LineInv /\ [Next]_vars => LineInv'
    BY NextLineInv
<1>4. LineInv => FifoInOrder
    BY DEF LineInv, InOrder, SentInOrder, FifoInOrder
<1>5. QED
    BY <1>1, <1>2, <1>3, <1>4, InitTxInv, NextTxInv, InitRealFrames, NextRealFrames, InitSlotInv,
       NextSlotInv, InitSpaceInv, NextSpaceInv, InitWritersInv, NextWritersInv, InitLineInv, PTL DEF Spec

-----------------------------------------------------------------------------
(* While the bus stays on.                                                 *)

\* Nothing has gone wrong so far, and the chip has not been bus-off.
OnBus == Undisturbed /\ budget.busOff = MaxBusOffs

\* So no event is of a slot that the driver has given up.
Calm == OnBus => /\ ~txbo /\ ~erased
                 /\ \A e \in EventsOf(Untaken) : e.seq \in pri.valid

LEMMA StaysOnBus ==
    ASSUME TxTypes, [Next]_vars, OnBus'
    PROVE  OnBus /\ ~ChipBusOff
<1> USE DEF soft, chip, ghosts
<1>1. budget \in BudgetType /\ Undisturbed /\ Undisturbed' /\ ~ReadFails
    BY StaysDisturbed, NoReadFailed DEF OnBus, TxTypes
<1>2. ~ChipBusOff
    <2> SUFFICES ASSUME ChipBusOff PROVE FALSE
        OBVIOUS
    <2>1. budget' = [budget EXCEPT !.busOff = @ - 1]
        BY <1>1, NoBusOffInSend DEF ChipBusOff
    <2>2. budget'.busOff = budget.busOff - 1 /\ budget.busOff \in 0..MaxBusOffs
        BY <1>1, <2>1 DEF BudgetType
    <2>3. QED  BY <2>2, TxAssumption DEF OnBus
<1>3. CASE UNCHANGED budget
    BY <1>1, <1>2, <1>3 DEF OnBus
<1>4. CASE ChipWarning
    BY <1>1, <1>2, <1>4 DEF ChipWarning, OnBus, BudgetType
<1>5. \A taken, slot : QueueSlot(taken, slot) => UNCHANGED budget
    BY <1>1 DEF QueueSlot
<1>6. Main => UNCHANGED budget
    BY <1>5 DEF Main, MainSend, MainAsk, MainToQueue, MainWrite, MainToFifo, MainNoRoom, MainUnmask
<1>7. Isr => UNCHANGED budget
    BY <1>1, <1>5 DEF Isr, IsrEnter, IsrRead, IsrReturn, IsrBusOff, SeesBusOff, IsrTx, IsrRelaunch,
                      IsrWrite, IsrPop, IsrDismiss
<1>8. QED
    BY <1>2, <1>3, <1>4, <1>6, <1>7 DEF Next, vars, ChipTransmit, ChipRecover

LEMMA InitCalm == Init => Calm
<1>1. Init => Untaken = <<>>
    BY DEF Init, Untaken
<1>2. QED  BY <1>1 DEF Init, Calm, EventsOf

LEMMA NextCalm ==
    ASSUME Known, Calm, [Next]_vars, Move, OnBus', TxTypes'
    PROVE  Calm'
<1>1. /\ TxTypes /\ OnBus /\ ~ChipBusOff /\ ~txbo /\ ~erased
      /\ \A e \in EventsOf(Untaken) : e.seq \in pri.valid
    <2>1. TxTypes
        BY DEF Known
    <2>2. OnBus /\ ~ChipBusOff
        BY <2>1, StaysOnBus
    <2>3. QED  BY <2>1, <2>2 DEF Calm
<1>2. ~txbo' /\ ~erased'
    <2> USE DEF soft, chip, ghosts
    <2>1. Main => UNCHANGED <<txbo, erased>>
        BY DEF Main, MainSend, MainAsk, MainToQueue, MainWrite, MainToFifo, MainNoRoom, MainUnmask
    <2>2. CASE IsrBusOff
        BY <1>1, <2>2 DEF IsrBusOff
    <2>3. Isr => IsrBusOff \/ UNCHANGED <<txbo, erased>>
        BY DEF Isr, IsrEnter, IsrRead, IsrReturn, IsrTx, IsrRelaunch, IsrWrite, IsrPop, IsrDismiss
    <2>4. CASE UNCHANGED <<txbo, erased>>
        BY <1>1, <2>4
    <2>5. (\E s \in Slots : ChipTransmit(s)) \/ ChipWarning => UNCHANGED <<txbo, erased>>
        BY DEF ChipTransmit, ChipWarning
    <2>6. ~ChipRecover
        BY <1>1 DEF ChipRecover
    <2>7. UNCHANGED vars => UNCHANGED <<txbo, erased>>
        BY DEF vars
    <2>8. QED
        BY <1>1, <2>1, <2>2, <2>3, <2>4, <2>5, <2>6, <2>7 DEF Next
<1>3. \A e \in EventsOf(Untaken') : e.seq \in pri'.valid
    <2>1. /\ Untaken \in Seq(EventType) /\ Distinct(Untaken) /\ Occupied \subseteq pri.valid
        BY UntakenType
    <2>2. CASE UNCHANGED <<pri, Untaken>>
        BY <1>1, <2>2
    <2>3. Still \/ PutsBack => UNCHANGED <<pri, Untaken>>
        BY DEF Still, PutsBack
    <2>4. ASSUME NEW frame, MainStores(frame) PROVE UNCHANGED <<pri, Untaken>>
        BY <2>4 DEF MainStores
    <2>5. ~Erases /\ ~Discards
        BY <1>1, <1>2 DEF Erases, Discards
    <2>6. CASE Ignores
        BY <1>1, <2>1, <2>6, EventsOfTail DEF Ignores
    <2>7. ASSUME NEW s \in Slots, Transmits(s) PROVE \A e \in EventsOf(Untaken') : e.seq \in pri'.valid
        <3> DEFINE new == [seq |-> s, frame |-> txq[s]]
        <3>1. /\ new \in EventType /\ Untaken' = Append(Untaken, new) /\ pri' = pri /\ s \in pri.valid
            BY <1>1, <2>1, <2>7 DEF Transmits, TxTypes, EventType
        <3>2. EventsOf(Untaken') = EventsOf(Untaken) \cup {new}
            BY <2>1, <3>1, EventsOfAppend
        <3>3. QED  BY <1>1, <3>1, <3>2
    <2>8. ASSUME NEW frame \in Frame, NEW slot \in Slots, Enters(frame, slot)
          PROVE  \A e \in EventsOf(Untaken') : e.seq \in pri'.valid
        <3>1. pri'.valid = pri.valid \cup {slot} /\ Untaken' = Untaken
            BY <2>8 DEF Enters, Request
        <3>2. QED  BY <1>1, <3>1
    <2>9. ASSUME NEW s \in Slots, Reports(s) PROVE \A e \in EventsOf(Untaken') : e.seq \in pri'.valid
        <3>1. pri'.valid = pri.valid \ {s}
            BY <1>1, <2>9, ReportedSlot
        <3>2. /\ EventsOf(Untaken') \subseteq EventsOf(Untaken)
              /\ \A e \in EventsOf(Untaken') : e.seq # s
            BY <2>1, <2>9, EventsOfTail DEF Reports
        <3>3. QED  BY <1>1, <3>1, <3>2
    <2>10. QED
        BY <2>2, <2>3, <2>4, <2>5, <2>6, <2>7, <2>8, <2>9 DEF Move, MainQueues, HandlerQueues
<1>4. QED  BY <1>2, <1>3 DEF Calm

\* The invariant of the theorems below.
CalmInv == Calm /\ FrameInv /\ TxInv /\ RealFrames /\ SlotInv /\ SpaceInv /\ WritersInv

LEMMA InitCalmInv == Init => CalmInv
BY InitCalm, InitFrameInv, InitTxInv, InitRealFrames, InitSlotInv, InitSpaceInv, InitWritersInv DEF CalmInv

LEMMA MoveOnBus ==
    ASSUME CalmInv, [Next]_vars, Undisturbed'
    PROVE  Known /\ Move /\ TxTypes'
<1>1. TxTypes /\ TxTypes'
    <2>1. TxInv /\ TxInv'
        BY NextTxInv DEF CalmInv
    <2>2. QED  BY <2>1, PrimedTypes, TypesSuffice DEF TxInv
<1>2. Known
    BY <1>1, StaysDisturbed, KnownWhenUndisturbed DEF CalmInv
<1>3. QED  BY <1>1, <1>2, StepIsMove

LEMMA NextCalmInv == CalmInv /\ [Next]_vars => CalmInv'
<1> SUFFICES ASSUME CalmInv, [Next]_vars PROVE CalmInv'
    OBVIOUS
<1>1. (FrameInv /\ TxInv /\ RealFrames /\ SlotInv /\ SpaceInv /\ WritersInv)'
    BY NextFrameInv, NextTxInv, NextRealFrames, NextSlotInv, NextSpaceInv, NextWritersInv DEF CalmInv
<1>2. Calm'
    <2>1. SUFFICES ASSUME OnBus' PROVE Calm'
        BY DEF Calm
    <2>2. Known /\ Move /\ TxTypes'
        BY <2>1, MoveOnBus DEF OnBus
    <2>3. QED  BY <2>1, <2>2, NextCalm DEF CalmInv
<1>3. QED  BY <1>1, <1>2 DEF CalmInv

\* Until something goes wrong or the chip goes bus-off, the driver keeps a user reference
\* for exactly the slots that hold a frame or whose event it has not taken, and it is
\* the one of that frame.
THEOREM ShadowAgreesOnBus == Spec => [](OnBus => ShadowAgrees)
<1>1. ASSUME CalmInv, OnBus PROVE ShadowAgrees
    <2>1. Undisturbed /\ Calm /\ ShadowRight /\ Known /\ ~erased
        BY <1>1, KnownWhenUndisturbed DEF CalmInv, OnBus, FrameInv, Calm
    <2>2. /\ Occupied \subseteq pri.valid /\ pri.valid \subseteq Occupied \cup SeqsOf(Untaken)
          /\ \A e \in EventsOf(Untaken) : e.seq \in pri.valid /\ pri.uref[e.seq] = e.frame.id
        BY <1>1, <2>1 DEF Known, Regular, QueueKnown, SlotsAgree, Calm, ShadowRight
    <2>3. \A i \in 1..Len(Untaken) : Untaken[i] \in EventsOf(Untaken)
        BY DEF EventsOf
    <2>4. pri.valid = Occupied \cup {Untaken[i].seq : i \in 1..Len(Untaken)}
        BY <2>2, <2>3 DEF SeqsOf
    <2>5. QED  BY <2>1, <2>2, <2>3, <2>4 DEF ShadowAgrees, ShadowRight
<1>2. CalmInv => (OnBus => ShadowAgrees)
    BY <1>1
<1>3. QED  BY <1>2, InitCalmInv, NextCalmInv, PTL DEF Spec

-----------------------------------------------------------------------------
(* A bus-off is noticed.                                                   *)

\* Nothing has gone wrong so far, and the error state has changed only because the chip
\* went bus-off, once at most.
OneChange == Undisturbed /\ budget.warning = MaxWarnings /\ budget.busOff + 1 >= MaxBusOffs

\* The flag says so until the handler looks, and it looks before it dismisses the flag.
BusOffShown ==
    /\ budget.busOff = MaxBusOffs => ~cerr /\ ~txbo /\ ~erased /\ "CERR" \notin isr.events
    /\ erased => cerr /\ ("CERR" \in isr.events => isr.pc = "busoff")

NoticeInv == OneChange => BusOffShown

LEMMA NextNoticeInv == TxInv /\ SlotInv /\ NoticeInv /\ [Next]_vars => NoticeInv'
<1> SUFFICES ASSUME TxInv, SlotInv, NoticeInv, [Next]_vars, OneChange' PROVE BusOffShown'
    BY DEF NoticeInv
<1> USE DEF soft, chip, ghosts
<1>1. TxTypes /\ Undisturbed /\ Undisturbed' /\ ~ReadFails /\ BusOffOnce
    <2>1. TxTypes /\ Undisturbed'
        BY TypesSuffice DEF TxInv, OneChange
    <2>2. QED  BY <2>1, StaysDisturbed, NoReadFailed DEF TxTypes, SlotInv, Regular
<1>2. /\ budget \in BudgetType /\ budget.busOff \in 0..MaxBusOffs /\ MaxBusOffs \in Nat /\ MaxWarnings \in Nat
      /\ isr \in IsrType
    BY <1>1, TxAssumption DEF TxTypes, BudgetType
<1>3. CASE ChipBusOff
    <2>1. budget' = [budget EXCEPT !.busOff = @ - 1]
        BY <1>1, <1>2, <1>3, NoBusOffInSend DEF ChipBusOff
    <2>2. /\ budget'.busOff = budget.busOff - 1 /\ budget'.warning = budget.warning
        BY <1>2, <2>1 DEF BudgetType
    <2>3. budget.busOff = MaxBusOffs /\ OneChange
        BY <1>1, <1>2, <2>2 DEF OneChange
    <2>4. "CERR" \notin isr.events
        BY <2>3 DEF NoticeInv, BusOffShown
    <2>5. QED  BY <1>2, <1>3, <2>2, <2>3, <2>4 DEF ChipBusOff, BusOffShown
<1>4. ~ChipWarning
    <2> SUFFICES ASSUME ChipWarning PROVE FALSE
        OBVIOUS
    <2>1. budget'.warning = budget.warning - 1 /\ budget.warning \in 0..MaxWarnings
        BY <1>2 DEF ChipWarning, BudgetType
    <2>2. QED  BY <1>2, <2>1 DEF OneChange
<1>5. \A taken, slot : QueueSlot(taken, slot) => UNCHANGED budget
    BY <1>1 DEF QueueSlot
<1>6. ASSUME UNCHANGED budget PROVE BusOffShown
    BY <1>1, <1>6 DEF OneChange, NoticeInv
<1>7. CASE UNCHANGED <<budget, cerr, txbo, erased, isr>>
    BY <1>6, <1>7 DEF BusOffShown
<1>8. CASE ChipRecover
    <2>1. budget' = budget /\ txbo /\ ~erased /\ BusOffShown /\ UNCHANGED erased
        BY <1>6, <1>8 DEF ChipRecover
    <2>2. QED  BY <2>1 DEF BusOffShown
<1>9. Main => UNCHANGED <<budget, cerr, txbo, erased, isr>>
    BY <1>5 DEF Main, MainSend, MainAsk, MainToQueue, MainWrite, MainToFifo, MainNoRoom, MainUnmask
<1>10. CASE Isr
    <2>1. UNCHANGED <<budget, txbo>> /\ BusOffShown
        <3>1. UNCHANGED <<budget, txbo>>
            BY <1>1, <1>5, <1>10 DEF Isr, IsrEnter, IsrRead, IsrReturn, IsrBusOff, SeesBusOff, IsrTx, IsrRelaunch,
                                     IsrWrite, IsrPop, IsrDismiss
        <3>2. QED  BY <1>6, <3>1
    <2>2. CASE IsrRead
        <3> DEFINE events == {e \in {"CERR", "TEF"} : IF e = "CERR" THEN cerr ELSE tef # <<>>}
        <3>1. /\ isr' = [isr EXCEPT !.pc = NextBranch("loop", events), !.events = events]
              /\ UNCHANGED <<cerr, erased>>
            BY <1>1, <2>2 DEF IsrRead
        <3>2. isr'.pc = NextBranch("loop", events) /\ isr'.events = events
            BY <1>2, <3>1 DEF IsrType
        <3>3. ("CERR" \in isr'.events <=> cerr) /\ (cerr => isr'.pc = "busoff")
            BY <1>1, <3>2 DEF NextBranch, TxTypes
        <3>4. QED  BY <2>1, <3>1, <3>3 DEF BusOffShown
    <2>3. CASE IsrBusOff
        <3>1. isr'.events = isr.events /\ UNCHANGED cerr
            BY <1>2, <2>3 DEF IsrBusOff, IsrType
        <3>2. IF txbo THEN ~erased' ELSE erased' = erased
            BY <1>1, <2>3 DEF IsrBusOff, SeesBusOff, TxTypes
        <3>3. erased => txbo
            BY <1>1 DEF BusOffOnce
        <3>4. ~erased'
            BY <1>1, <3>2, <3>3 DEF TxTypes
        <3>5. QED  BY <2>1, <3>1, <3>4 DEF BusOffShown
    <2>4. CASE IsrDismiss
        <3>1. /\ isr.pc = "dismiss" /\ isr'.events = {} /\ erased' = erased
              /\ cerr' = (cerr /\ "CERR" \notin isr.events)
            BY <1>2, <2>4 DEF IsrDismiss, IsrType
        <3>2. QED  BY <2>1, <3>1 DEF BusOffShown
    <2>5. CASE isr'.events = isr.events /\ isr.pc # "busoff" /\ UNCHANGED <<cerr, erased>>
        BY <2>1, <2>5 DEF BusOffShown
    <2>6. IsrTx => isr'.events = isr.events /\ isr.pc # "busoff" /\ UNCHANGED <<cerr, erased>>
        BY <1>2 DEF IsrTx, TakeEvent, Complete, IsrType
    <2>7. IsrRelaunch => isr'.events = isr.events /\ isr.pc # "busoff" /\ UNCHANGED <<cerr, erased>>
        BY <1>2 DEF IsrRelaunch, IsrType
    <2>8. IsrEnter \/ IsrReturn \/ IsrWrite \/ IsrPop
            => isr'.events = isr.events /\ isr.pc # "busoff" /\ UNCHANGED <<cerr, erased>>
        BY <1>2 DEF IsrEnter, IsrReturn, IsrWrite, IsrPop, IsrType
    <2>9. QED  BY <1>10, <2>2, <2>3, <2>4, <2>5, <2>6, <2>7, <2>8 DEF Isr
<1>11. QED
    BY <1>3, <1>4, <1>7, <1>8, <1>9, <1>10 DEF Next, vars, ChipTransmit

\* As long as nothing but one bus-off has changed the error state, the driver has
\* noticed it when CERRIF is down and the handler has returned.
THEOREM BusOffIsNoticed == Spec => [](OneChange => BusOffNoticed)
<1>1. Init => NoticeInv
    BY DEF Init, NoticeInv, BusOffShown
<1>2. NoticeInv => (OneChange => BusOffNoticed)
    BY DEF NoticeInv, BusOffShown, BusOffNoticed
<1>3. QED
    BY <1>1, <1>2, InitTxInv, NextTxInv, InitRealFrames, NextRealFrames, InitSlotInv, NextSlotInv,
       NextNoticeInv, PTL DEF Spec

-----------------------------------------------------------------------------
(* The transmit path implements the service.                               *)

Competing == {txq[s] : s \in {t \in Occupied : ~txq[t].fifo}}
Standing == InFlight \o Moving \o Queued

\* What was sent and is not reported yet is what the untaken events tell, in their order.
Accounted ==
    /\ Len(sent) = Len(reported) + Len(Untaken)
    /\ \A i \in 1..Len(Untaken) : sent[Len(reported) + i] = Untaken[i].frame

ServiceInv == CalmInv /\ ServedInv /\ LineInv /\ (OnBus => Accounted)

LEMMA MoveKeepsAccount ==
    ASSUME Known, Accounted, Move, ~erased', ~txbo, TxTypes',
           \A e \in EventsOf(Untaken) : e.seq \in pri.valid
    PROVE  Accounted'
<1>1. /\ Untaken \in Seq(EventType) /\ sent \in Seq(Frame) /\ reported \in Seq(0..MaxSends)
      /\ reported' \in Seq(0..MaxSends)
    BY UntakenType DEF Known, TxTypes
<1>2. CASE UNCHANGED <<Untaken, sent, reported>>
    BY <1>2 DEF Accounted
<1>3. Still \/ PutsBack => UNCHANGED <<Untaken, sent, reported>>
    BY DEF Still, PutsBack
<1>4. ASSUME NEW frame, NEW slot, MainStores(frame) \/ Enters(frame, slot) PROVE UNCHANGED <<Untaken, sent, reported>>
    BY <1>4 DEF MainStores, Enters
<1>5. ~Erases /\ ~Discards
    BY DEF Erases, Discards
<1>6. ~Ignores
    <2> SUFFICES ASSUME Ignores PROVE FALSE
        OBVIOUS
    <2>1. Head(Untaken) \in EventsOf(Untaken)
        BY UntakenType, EventsOfTail DEF Ignores
    <2>2. QED  BY <2>1 DEF Ignores
<1>7. ASSUME NEW s \in Slots, Transmits(s) PROVE Accounted'
    <2> DEFINE e == [seq |-> s, frame |-> txq[s]]
    <2>1. /\ e \in EventType /\ e.frame = txq[s] /\ txq[s] \in Frame /\ Untaken' = Append(Untaken, e)
          /\ sent' = Append(sent, e.frame) /\ reported' = reported
        BY <1>7 DEF Known, Transmits, TxTypes, EventType
    <2> HIDE DEF e
    <2>2. /\ Len(Untaken') = Len(Untaken) + 1 /\ Len(sent') = Len(sent) + 1
          /\ \A i \in 1..Len(Untaken) : Untaken'[i] = Untaken[i]
          /\ \A i \in 1..Len(sent) : sent'[i] = sent[i]
          /\ Untaken'[Len(Untaken) + 1] = e /\ sent'[Len(sent) + 1] = e.frame
        BY <1>1, <2>1
    <2>3. Len(Untaken) \in Nat /\ Len(sent) \in Nat /\ Len(reported) \in Nat
        BY <1>1
    <2>4. ASSUME NEW i \in 1..Len(Untaken') PROVE sent'[Len(reported) + i] = Untaken'[i].frame
        <3>1. CASE i \in 1..Len(Untaken)
            <4>1. Len(reported) + i \in 1..Len(sent)
                BY <2>3, <3>1 DEF Accounted
            <4>2. QED  BY <2>2, <3>1, <4>1 DEF Accounted
        <3>2. CASE i = Len(Untaken) + 1
            <4>1. Len(reported) + i = Len(sent) + 1
                BY <2>3, <3>2 DEF Accounted
            <4>2. QED  BY <2>2, <3>2, <4>1
        <3>3. QED  BY <2>2, <2>3, <3>1, <3>2
    <2>5. Len(sent') = Len(reported) + Len(Untaken')
        BY <2>2, <2>3 DEF Accounted
    <2>6. QED  BY <2>1, <2>4, <2>5 DEF Accounted
<1>8. ASSUME NEW seq \in Slots, Reports(seq) PROVE Accounted'
    <2>1. /\ Untaken # <<>> /\ Untaken' = Tail(Untaken) /\ sent' = sent
          /\ reported' = Append(reported, pri.uref[seq]) /\ pri.uref[seq] \in 0..MaxSends
        BY <1>8 DEF Reports, Known, TxTypes, PriType
    <2>2. /\ Len(reported') = Len(reported) + 1 /\ Len(Untaken') = Len(Untaken) - 1
          /\ \A i \in 1..Len(Untaken)-1 : Untaken'[i] = Untaken[i + 1]
          /\ Len(Untaken) \in Nat \ {0} /\ Len(reported) \in Nat
        BY <1>1, <2>1
    <2>3. ASSUME NEW i \in 1..Len(Untaken') PROVE sent'[Len(reported') + i] = Untaken'[i].frame
        <3>1. i + 1 \in 1..Len(Untaken) /\ Untaken'[i] = Untaken[i + 1] /\ Len(reported') + i = Len(reported) + (i + 1)
            BY <2>2
        <3>2. QED  BY <2>1, <3>1 DEF Accounted
    <2>4. Len(sent') = Len(reported') + Len(Untaken')
        <3>1. Len(sent') = Len(reported) + Len(Untaken)
            BY <2>1 DEF Accounted
        <3>2. QED  BY <2>2, <3>1
    <2>5. QED  BY <2>3, <2>4 DEF Accounted
<1>9. QED
    BY <1>2, <1>3, <1>4, <1>5, <1>6, <1>7, <1>8 DEF Move, MainQueues, HandlerQueues

LEMMA InitServiceInv == FifoSize = QueueSize /\ Init => ServiceInv
<1>1. Init => Untaken = <<>> /\ sent = <<>> /\ reported = <<>>
    BY DEF Init, Untaken
<1>2. Init => Accounted
    BY <1>1 DEF Accounted
<1>3. QED  BY <1>2, InitCalmInv, InitServedInv, InitLineInv DEF ServiceInv

\* What an undisturbed step finds, and what it leaves.
LEMMA StepOnBus ==
    ASSUME ServiceInv, [Next]_vars, OnBus'
    PROVE  /\ Known /\ Move /\ TxTypes' /\ OnBus /\ FifoSlotKnown /\ OneAhead /\ QueueApart /\ ShadowRight /\ Accounted
           /\ ~txbo /\ ~erased' /\ \A e \in EventsOf(Untaken) : e.seq \in pri.valid
<1>1. CalmInv /\ CalmInv' /\ Undisturbed'
    BY NextCalmInv DEF ServiceInv, OnBus
<1>2. Known /\ Move /\ TxTypes'
    BY <1>1, MoveOnBus
<1>3. OnBus /\ Undisturbed
    <2>1. OnBus
        BY <1>2, StaysOnBus DEF Known
    <2>2. QED  BY <2>1 DEF OnBus
<1>4. Calm /\ ShadowRight /\ QueueApart /\ OneAhead /\ FifoSlotKnown /\ Accounted
    BY <1>1, <1>3 DEF ServiceInv, CalmInv, FrameInv, OnePlace, LineInv, ServedInv
<1>5. ~erased' /\ ~txbo /\ \A e \in EventsOf(Untaken) : e.seq \in pri.valid
    BY <1>1, <1>3, <1>4 DEF CalmInv, Calm
<1>6. QED  BY <1>2, <1>3, <1>4, <1>5

LEMMA StandingIsLine == TxTypes => Standing = Line /\ Standing \in Seq(Frame)
<1> SUFFICES ASSUME TxTypes PROVE Standing = Line /\ Standing \in Seq(Frame)
    OBVIOUS
<1>1. Queued \in Seq(Frame)
    BY BehindType
<1>2. Moving \in Seq(Frame)
    BY DEF Moving, TxTypes, IsrType
<1>3. InFlight \in Seq(Frame)
    <2> DEFINE queued == {s \in Occupied : txq[s].fifo}
               first == CHOOSE s \in queued : TRUE
    <2>1. InFlight = IF queued # {} THEN <<txq[first]>> ELSE <<>>
        BY DEF InFlight
    <2>2. queued # {} => first \in queued
        OBVIOUS
    <2>3. queued \subseteq Slots /\ \A s \in Slots : txq[s] \in Frame
        BY DEF Occupied, TxTypes
    <2> HIDE DEF queued, first
    <2>4. QED  BY <2>1, <2>2, <2>3
<1> HIDE DEF Queued, Moving, InFlight
<1>4. (InFlight \o Moving) \o Queued = InFlight \o (Moving \o Queued)
    BY <1>1, <1>2, <1>3, ConcatAssociative
<1>5. InFlight \o (Moving \o Queued) \in Seq(Frame)
    <2>1. Moving \o Queued \in Seq(Frame)
        BY <1>1, <1>2, ConcatProperties
    <2>2. QED  BY <1>3, <2>1, ConcatProperties
<1>6. QED  BY <1>4, <1>5 DEF Standing, Line, Behind

LEMMA StandingIsLineNext == TxTypes' => Standing' = Line'
<1>1. (TxTypes => Standing = Line)'
    BY StandingIsLine, PTL
<1>2. QED  BY <1>1

LEMMA StepServes ==
    ASSUME FifoSize = QueueSize, ServiceInv, [Next]_vars, OnBus'
    PROVE  [Service!Next]_(Service!vars)
<1>1. /\ Known /\ Move /\ TxTypes' /\ FifoSlotKnown /\ OneAhead /\ QueueApart /\ ShadowRight /\ Accounted
      /\ ~txbo /\ ~erased' /\ \A e \in EventsOf(Untaken) : e.seq \in pri.valid
    BY StepOnBus
<1>2. /\ TxTypes /\ LineFollows /\ Untaken \in Seq(EventType) /\ Distinct(Untaken)
    BY <1>1, MoveOfLine, UntakenType DEF Known
<1>3. Standing = Line /\ Standing' = Line' /\ Line \in Seq(Frame)
    BY <1>1, <1>2, StandingIsLine, StandingIsLineNext
<1>4. CASE UNCHANGED <<Competing, Standing, sent, reported>>
    BY <1>4 DEF Service!vars, Competing, Standing
<1>5. UNCHANGED txq => Competing' = Competing
    BY DEF Competing, Occupied
<1>6. CASE Still
    <2>1. Line' = Line
        BY <1>2, <1>6 DEF LineFollows
    <2>2. QED  BY <1>3, <1>4, <1>5, <1>6, <2>1 DEF Still
<1>7. ~Erases /\ ~Discards /\ ~PutsBack
    BY <1>1, <1>2 DEF Erases, Discards, LineFollows
<1>8. ~Ignores
    <2> SUFFICES ASSUME Ignores PROVE FALSE
        OBVIOUS
    <2>1. Head(Untaken) \in EventsOf(Untaken)
        BY <1>2, EventsOfTail DEF Ignores
    <2>2. QED  BY <1>1, <2>1 DEF Ignores
\* The frame leaves the line or those that wait.
<1>9. ASSUME NEW s \in Slots, Transmits(s) PROVE Service!Transmit
    <2>1. Occupied' = Occupied \ {s} /\ s \in Occupied /\ \A t \in Occupied' : txq'[t] = txq[t]
        BY <1>2, <1>9, SentFrame
    <2>2. sent' = Append(sent, txq[s]) /\ reported' = reported
        BY <1>9 DEF Transmits
    <2>3. CASE txq[s].fifo
        <3>1. Line # <<>> /\ Head(Line) = txq[s] /\ Line' = Tail(Line)
            BY <1>2, <1>9, <2>3 DEF LineFollows
        <3>2. Competing' = Competing
            BY <2>1, <2>3 DEF Competing
        <3>3. /\ Standing # <<>> /\ Standing' = Tail(Standing) /\ sent' = Append(sent, Head(Standing))
              /\ Competing' = Competing /\ reported' = reported
            BY <1>3, <2>2, <3>1, <3>2
        <3>4. QED  BY <3>3 DEF Service!Transmit, Competing, Standing
    <2>4. CASE ~txq[s].fifo
        <3>1. Line' = Line
            BY <1>2, <1>9, <2>4 DEF LineFollows
        <3>2. txq[s] \in Competing
            BY <2>1, <2>4 DEF Competing
        <3>3. Competing' = Competing \ {txq[s]}
            <4>1. \A t \in Occupied : txq[t] = txq[s] => t = s
                BY <1>1, <2>1 DEF QueueApart
            <4>2. QED  BY <2>1, <4>1 DEF Competing
        <3>4. \E frame \in Competing : Competing' = Competing \ {frame} /\ sent' = Append(sent, frame)
            BY <2>2, <3>2, <3>3
        <3>5. Standing' = Standing /\ reported' = reported
            BY <1>3, <2>2, <3>1
        <3>6. QED  BY <3>4, <3>5 DEF Service!Transmit, Competing, Standing
    <2>5. QED  BY <2>3, <2>4
\* The oldest frame sent and not reported is the one that the oldest event tells of.
<1>10. ASSUME NEW seq \in Slots, Reports(seq) PROVE Service!Report
    <2>1. /\ Untaken # <<>> /\ seq = Head(Untaken).seq /\ seq \in pri.valid
          /\ reported' = Append(reported, pri.uref[seq]) /\ UNCHANGED <<txq, sent>>
        BY <1>10 DEF Reports
    <2>2. Line' = Line
        BY <1>2, <1>10 DEF LineFollows
    <2>3. pri.uref[seq] = Head(Untaken).frame.id
        <3>1. Head(Untaken) \in EventsOf(Untaken)
            BY <1>2, <2>1, EventsOfTail
        <3>2. QED  BY <1>1, <2>1, <3>1 DEF ShadowRight
    <2>4. 1 \in 1..Len(Untaken) /\ Head(Untaken) = Untaken[1] /\ Len(Untaken) \in Nat /\ Len(reported) \in Nat
        BY <1>2, <2>1 DEF TxTypes
    <2>5. sent[Len(reported) + 1] = Head(Untaken).frame /\ Len(reported) < Len(sent)
        BY <1>1, <2>4 DEF Accounted
    <2>6. /\ reported' = Append(reported, sent[Len(reported) + 1].id) /\ Len(reported) < Len(sent)
          /\ UNCHANGED <<Competing, Standing, sent>>
        BY <1>3, <1>5, <2>1, <2>2, <2>3, <2>5
    <2>7. QED  BY <2>6 DEF Service!Report, Competing, Standing
<1>11. ASSUME NEW frame \in Frame, MainStores(frame) PROVE Service!Accept(frame)
    <2>1. Line' = Append(Line, frame)
        BY <1>2, <1>11 DEF LineFollows
    <2>2. frame.fifo /\ Competing' = Competing /\ UNCHANGED <<sent, reported>>
        BY <1>5, <1>11 DEF MainStores
    <2>3. Standing' = Append(Standing, frame)
        BY <1>3, <2>1
    <2>4. QED  BY <2>2, <2>3 DEF Service!Accept, Competing, Standing
<1>12. ASSUME NEW frame \in Frame, NEW slot \in Slots, Enters(frame, slot)
       PROVE  Competing' = (IF frame.fifo THEN Competing ELSE Competing \cup {frame}) /\ UNCHANGED <<sent, reported>>
    <2>1. /\ Occupied' = Occupied \cup {slot} /\ slot \notin Occupied
          /\ txq'[slot] = frame /\ \A s \in Occupied : txq'[s] = txq[s]
        BY <1>2, <1>12, EnteredFrame
    <2>2. CASE frame.fifo
        BY <1>12, <2>1, <2>2 DEF Competing, Enters
    <2>3. CASE ~frame.fifo
        BY <1>12, <2>1, <2>3 DEF Competing, Enters
    <2>4. QED  BY <2>2, <2>3
<1>13. ASSUME NEW frame \in Frame, NEW slot \in Slots, MainQueues(frame, slot) PROVE Service!Accept(frame)
    <2>1. Line' = IF frame.fifo THEN Append(Line, frame) ELSE Line
        BY <1>2, <1>13 DEF LineFollows
    <2>2. Competing' = (IF frame.fifo THEN Competing ELSE Competing \cup {frame}) /\ UNCHANGED <<sent, reported>>
        BY <1>12, <1>13 DEF MainQueues
    <2>3. /\ frame.fifo => Standing' = Append(Standing, frame) /\ Competing' = Competing
          /\ ~frame.fifo => Standing' = Standing /\ Competing' = Competing \cup {frame}
        BY <1>3, <2>1, <2>2
    <2>4. QED  BY <2>2, <2>3 DEF Service!Accept, Competing, Standing
<1>14. ASSUME NEW frame \in Frame, NEW slot \in Slots, HandlerQueues(frame, slot)
       PROVE  UNCHANGED <<Competing, Standing, sent, reported>>
    <2>1. Line' = Line
        BY <1>2, <1>14 DEF LineFollows
    <2>2. frame.fifo /\ Enters(frame, slot)
        BY <1>14 DEF HandlerQueues
    <2>3. QED  BY <1>3, <1>12, <2>1, <2>2
<1>15. QED
    BY <1>1, <1>4, <1>6, <1>7, <1>8, <1>9, <1>10, <1>11, <1>13, <1>14 DEF Move, Service!Next

LEMMA InitServes == ASSUME FifoSize = QueueSize PROVE Init => Service!Init
<1> SUFFICES ASSUME Init PROVE Service!Init
    OBVIOUS
<1>1. /\ Occupied = {} /\ sent = <<>> /\ reported = <<>>
    BY DEF Init, Occupied
<1>2. Competing = {}
    BY <1>1 DEF Competing
<1>3. Standing = <<>>
    <2>1. TxTypes
        BY InitTxInv, TypesSuffice DEF TxInv
    <2>2. Behind = <<>>
        <3>1. isr.pc = "idle" /\ fifo.free = FifoSize /\ fifo \in RingOfFrames
            BY <2>1 DEF Init, Fifo!EmptyRing, TxTypes
        <3>2. QED  BY <2>1, <3>1, BehindType, ListedType
    <2>3. OneAhead /\ AtHead = <<>>
        BY <1>1 DEF OneAhead, AtHead
    <2>4. Line = <<>>
        BY <2>1, <2>2, <2>3, LineType
    <2>5. QED  BY <2>1, <2>4, StandingIsLine
<1>4. QED  BY <1>1, <1>2, <1>3 DEF Service!Init, Competing, Standing

\* As long as nothing goes wrong and the bus stays on, every step of the transmit path is
\* one that the service allows: a frame accepted is waiting or in line until it is sent,
\* those in line leave in order, and what is reported is the frames sent, in the order
\* in which they were sent, none left out.
THEOREM ServiceIsGiven ==
    ASSUME FifoSize = QueueSize
    PROVE  Spec => Service!Init /\ [][OnBus' => Service!Next]_(Service!vars)
<1>1. Init => ServiceInv /\ Service!Init
    BY InitServiceInv, InitServes
<1>2. ServiceInv /\ [Next]_vars => ServiceInv'
    <2> SUFFICES ASSUME ServiceInv, [Next]_vars PROVE ServiceInv'
        OBVIOUS
    <2>1. TxInv /\ RealFrames /\ SlotInv /\ SpaceInv /\ WritersInv /\ ServedInv /\ LineInv
        BY DEF ServiceInv, CalmInv
    <2>2. CalmInv' /\ ServedInv' /\ LineInv'
        BY <2>1, NextCalmInv, NextServedInv, NextLineInv DEF ServiceInv
    <2>3. ASSUME OnBus' PROVE Accounted'
        BY <2>3, StepOnBus, MoveKeepsAccount
    <2>4. QED  BY <2>2, <2>3 DEF ServiceInv
<1>3. ServiceInv /\ [Next]_vars => [OnBus' => Service!Next]_(Service!vars)
    BY StepServes
<1>4. QED  BY <1>1, <1>2, <1>3, PTL DEF Spec

\* In particular it implements the service, but for what must happen in the end, if
\* nothing can go wrong.
THEOREM ImplementsServiceSafety ==
    ASSUME FifoSize = QueueSize, MaxBusOffs = 0, MaxInSend = 0, MaxCrcFailures = 0
    PROVE  Spec => Service!Init /\ [][Service!Next]_(Service!vars)
<1>1. TxInv => OnBus
    <2> SUFFICES ASSUME TxInv PROVE OnBus
        OBVIOUS
    <2>1. budget \in BudgetType
        BY TypesSuffice DEF TxInv, TxTypes
    <2>2. budget.busOff \in 0..0 /\ budget.inSend \in 0..0 /\ budget.crc \in 0..0
        BY <2>1 DEF BudgetType
    <2>3. QED  BY <2>2 DEF OnBus, Undisturbed
<1>2. Spec => []OnBus
    BY <1>1, InitTxInv, NextTxInv, PTL DEF Spec
<1>3. Spec => Service!Init /\ [][OnBus' => Service!Next]_(Service!vars)
    BY ServiceIsGiven
<1>4. QED  BY <1>2, <1>3, PTL
=============================================================================

------------------------------- MODULE TxPath -------------------------------
(***************************************************************************)
(* The transmit path of one CAN controller: the chip's priority transmit   *)
(* queue (TXQ) and transmit event FIFO (TEF), the driver's shadow of the   *)
(* TXQ (tx_pri_queue), its software FIFO (tx_fifo) that keeps at most one  *)
(* frame in the TXQ, the handler that takes transmit events and launches   *)
(* the next FIFO frame, and the discarding of everything on bus-off.       *)
(*                                                                         *)
(* A frame's user reference stands for the frame, so what the handler      *)
(* reports can be compared with what the chip sent.  TxEvents models what  *)
(* happens to the reports.                                                 *)
(***************************************************************************)
EXTENDS Integers, Sequences, FiniteSets

CONSTANTS
    QueueSize,      \* CAN_TX_QUEUE_SIZE, also the depth of the TXQ and the TEF
    FifoSize,       \* CAN_TX_FIFO_SIZE
    MaxSends,       \* bound: frames accepted for transmission
    MaxAsked,       \* bound: frames the application asks can_is_space about at once
    MaxBusOffs,     \* bound: times the chip goes bus-off while no frame is being queued
    MaxInSend,      \* bound: times it does while one is
    MaxWarnings,    \* bound: other changes of the chip's error state
    MaxCrcFailures  \* bound: register reads whose CRC fails CRC_RETRIES times

ASSUME TxAssumption ==
    /\ QueueSize \in 1..32
    /\ FifoSize \in 1..32
    /\ {MaxSends, MaxAsked, MaxBusOffs, MaxInSend, MaxWarnings, MaxCrcFailures} \subseteq Nat

Fifo == INSTANCE EventRing WITH Size <- FifoSize

VARIABLES
    pri,            \* tx_pri_queue: user references, valid ones, free count, FIFO's slot
    fifo,           \* tx_fifo
    txq,            \* the chip's transmit queue, by slot
    tef,            \* the chip's transmit event FIFO, oldest first
    txbo, cerr,     \* the chip is bus-off; its CERRIF flag
    budget,         \* bus-offs, warnings and failed reads left
    irqOn, isr, main,
    promise,        \* frames for which can_is_space has said that there is room
    accepted,       \* ghost: frames accepted so far
    sent,           \* ghost: frames the chip has transmitted, in order
    reported,       \* ghost: user references reported as transmitted, in order
    erased          \* ghost: bus-off emptied the TXQ and the driver has not noticed

chip == <<txq, tef, txbo, cerr>>
soft == <<pri, fifo>>
ghosts == <<promise, accepted, sent, reported, erased>>
vars == <<pri, fifo, txq, tef, txbo, cerr, budget, irqOn, isr, main, promise,
          accepted, sent, reported, erased>>

Slots == 0..QueueSize-1
Frame == [id : 0..MaxSends, fifo : BOOLEAN]
NoFrame == [id |-> 0, fifo |-> FALSE]

EmptyPri ==
    [uref |-> [s \in Slots |-> 0], valid |-> {}, free |-> QueueSize, fifoSlot |-> FifoSize]

TypeOK ==
    /\ pri \in [uref : [Slots -> 0..MaxSends], valid : SUBSET Slots,
                free : 0..QueueSize, fifoSlot : Slots \cup {FifoSize}]
    /\ fifo \in Fifo!RingType(Frame)
    /\ txq \in [Slots -> Frame]
    /\ tef \in Seq([seq : Slots, frame : Frame])
    /\ {txbo, cerr, irqOn, erased} \subseteq BOOLEAN
    /\ budget \in [busOff : 0..MaxBusOffs, inSend : 0..MaxInSend,
                   warning : 0..MaxWarnings, crc : 0..MaxCrcFailures]
    /\ isr \in [pc : {"idle", "loop", "busoff", "tx", "relaunch", "write", "pop", "dismiss"},
                events : SUBSET {"CERR", "TEF"}, frame : Frame, slot : Slots]
    /\ main \in [pc : {"idle", "send", "write", "unmask"}, frame : Frame, slot : Slots]
    /\ promise \in [n : 0..MaxSends, fifo : BOOLEAN]
    /\ accepted \in 0..MaxSends
    /\ sent \in Seq(Frame)
    /\ reported \in Seq(0..MaxSends)

Init ==
    /\ pri = EmptyPri
    /\ fifo = Fifo!EmptyRing(NoFrame)
    /\ txq = [s \in Slots |-> NoFrame]
    /\ tef = <<>>
    /\ txbo = FALSE /\ cerr = FALSE
    /\ budget = [busOff |-> MaxBusOffs, inSend |-> MaxInSend,
                 warning |-> MaxWarnings, crc |-> MaxCrcFailures]
    /\ irqOn = TRUE
    /\ isr = [pc |-> "idle", events |-> {}, frame |-> NoFrame, slot |-> 0]
    /\ main = [pc |-> "idle", frame |-> NoFrame, slot |-> 0]
    /\ promise = [n |-> 0, fifo |-> FALSE]
    /\ accepted = 0 /\ sent = <<>> /\ reported = <<>> /\ erased = FALSE

-----------------------------------------------------------------------------
(* The chip.                                                               *)

Occupied == {s \in Slots : txq[s] # NoFrame}
InTef == {tef[i].seq : i \in 1..Len(tef)}

\* Some frame of the TXQ wins arbitration (which one depends on the CAN IDs) and
\* its transmit event is queued.
ChipTransmit(s) ==
    /\ s \in Occupied /\ ~txbo
    /\ Len(tef) < QueueSize
    /\ txq' = [txq EXCEPT ![s] = NoFrame]
    /\ tef' = Append(tef, [seq |-> s, frame |-> txq[s]])
    /\ sent' = Append(sent, txq[s])
    /\ UNCHANGED <<soft, txbo, cerr, budget, irqOn, isr, main, promise, accepted, reported, erased>>

\* send_frame is running, or the handler is about to call it.
Sending == main.pc \in {"send", "write"} \/ isr.pc \in {"tx", "relaunch", "write"}

\* Bus-off erases the transmit queue.
ChipBusOff ==
    /\ ~txbo
    /\ LET kind == IF Sending THEN "inSend" ELSE "busOff" IN
       budget[kind] > 0 /\ budget' = [budget EXCEPT ![kind] = @ - 1]
    /\ txbo' = TRUE /\ cerr' = TRUE
    /\ txq' = [s \in Slots |-> NoFrame]
    /\ erased' = TRUE
    /\ UNCHANGED <<soft, tef, irqOn, isr, main, promise, accepted, sent, reported>>

\* The chip recovers by itself, after 128 idle periods of the bus: longer than
\* the handler takes.  Assumption: the bus-off has been noticed by then.  Nothing
\* ensures it after a lost CERRIF, or with pins that a failed setup left masked.
ChipRecover ==
    /\ txbo /\ ~erased
    /\ txbo' = FALSE /\ cerr' = TRUE
    /\ UNCHANGED <<soft, txq, tef, budget, irqOn, isr, main, ghosts>>

\* The error state changes between active, warning and passive.
ChipWarning ==
    /\ budget.warning > 0 /\ ~txbo
    /\ budget' = [budget EXCEPT !.warning = @ - 1]
    /\ cerr' = TRUE
    /\ UNCHANGED <<soft, txq, tef, txbo, irqOn, isr, main, ghosts>>

Asserted == cerr \/ tef # <<>>

\* The slots C1TXQUA may point to.  Assumption on the chip: it reuses slots in the
\* order in which they became empty, so one whose transmit event the driver has
\* not taken yet (`taken' it has) comes up only if there is no other.
FreeSlots(taken) ==
    LET empty == Slots \ Occupied
        fresh == empty \ (InTef \ taken)
    IN IF fresh # {} THEN fresh ELSE empty

\* A read whose CRC fails every time: the driver takes all ones for an answer.
ReadFails == budget.crc > 0 /\ budget' = [budget EXCEPT !.crc = @ - 1]

-----------------------------------------------------------------------------
(* send_frame, called by the main loop and by the handler.  (An operator   *)
(* whose name has a suffix is a faulty variant of the one that follows it, *)
(* kept to show that the properties tell the two apart.)                   *)

Direct_Always(frame) == TRUE

\* The frame goes to the TXQ and not to the software FIFO.
Direct(frame) == ~frame.fifo \/ pri.fifoSlot = QueueSize

QueueHasRoom_ChipOnly(taken) == FreeSlots(taken) # {}

\* The software count and the chip's TXQNIF both leave room.
QueueHasRoom(taken) == pri.free > 0 /\ FreeSlots(taken) # {}

NoSlot == QueueSize

\* The slot that send_frame finds, or none.  A failed read of C1TXQSTA makes a
\* full queue look as if it had room, one of C1TXQUA is out of range.
QueueSlot(taken, slot) ==
    \/ /\ slot \in IF QueueHasRoom(taken) THEN FreeSlots(taken) ELSE {NoSlot}
       /\ UNCHANGED budget
    \/ /\ pri.free > 0 /\ ReadFails
       /\ slot = NoSlot \/ (FreeSlots(taken) = {} /\ slot \in Slots)

\* The shadow is updated, the message written and its transmission requested.
Request(frame, slot) ==
    /\ pri' = [uref |-> [pri.uref EXCEPT ![slot] = frame.id],
               valid |-> pri.valid \cup {slot},
               free |-> pri.free - 1,
               fifoSlot |-> IF frame.fifo THEN slot ELSE pri.fifoSlot]
    /\ txq' = [txq EXCEPT ![slot] = frame]

-----------------------------------------------------------------------------
(* The main loop: can_is_space and can_send_frame, which send_can_frame    *)
(* calls again a moment later, with the pins enabled in between, if there  *)
(* was no room.                                                            *)

\* There is one core, and an enabled interrupt preempts the main loop at once.
MainAt(pc) == isr.pc = "idle" /\ ~(irqOn /\ Asserted) /\ main.pc = pc

IsSpace_ForgetsFirst(n, useFifo) ==
    IF useFifo THEN pri.free > 0 /\ n - 1 <= fifo.free ELSE n <= pri.free

\* can_is_space.  (Its `n_frames - 1U' wraps for no frames: there is no room for 0.)
IsSpace(n, useFifo) ==
    CASE ~useFifo -> n <= pri.free
      [] useFifo /\ pri.fifoSlot = QueueSize -> pri.free > 0 /\ n - 1 \in 0..fifo.free
      [] OTHER -> n <= fifo.free

MainAsk(n, useFifo) ==
    /\ MainAt("idle") /\ promise.n = 0 /\ accepted + n <= MaxSends
    /\ IsSpace(n, useFifo)
    /\ promise' = [n |-> n, fifo |-> useFifo]
    /\ UNCHANGED <<soft, chip, budget, irqOn, isr, main, accepted, sent, reported, erased>>

\* The host's next frame, with the option USE_FIFO or without: mask the pins.  It uses
\* up the promise, if it goes where that was made for.
MainSend(useFifo) ==
    /\ MainAt("idle") /\ accepted < MaxSends
    /\ irqOn' = FALSE
    /\ main' = [main EXCEPT !.pc = "send", !.frame = [id |-> accepted + 1, fifo |-> useFifo]]
    /\ promise' = IF promise.fifo = useFifo THEN promise ELSE [promise EXCEPT !.n = 0]
    /\ UNCHANGED <<soft, chip, budget, isr, accepted, sent, reported, erased>>

MainToQueue ==
    /\ MainAt("send") /\ Direct(main.frame)
    /\ \E slot \in Slots :
         QueueSlot({}, slot) /\ main' = [main EXCEPT !.pc = "write", !.slot = slot]
    /\ UNCHANGED <<soft, chip, irqOn, isr, ghosts>>

Accepted ==
    /\ accepted' = accepted + 1
    /\ promise' = [promise EXCEPT !.n = IF @ = 0 THEN 0 ELSE @ - 1]
    /\ main' = [main EXCEPT !.pc = "unmask"]

MainWrite ==
    /\ MainAt("write")
    /\ Request(main.frame, main.slot)
    /\ Accepted
    /\ UNCHANGED <<fifo, tef, txbo, cerr, budget, irqOn, isr, sent, reported, erased>>

MainToFifo ==
    /\ MainAt("send") /\ ~Direct(main.frame) /\ fifo.free > 0
    /\ fifo' = Fifo!Put(fifo, main.frame)
    /\ Accepted
    /\ UNCHANGED <<pri, chip, budget, irqOn, isr, sent, reported, erased>>

\* CAN_ERC_NO_ROOM.
MainNoRoom ==
    /\ MainAt("send")
    /\ IF Direct(main.frame) THEN QueueSlot({}, NoSlot) ELSE fifo.free = 0 /\ UNCHANGED budget
    /\ main' = [main EXCEPT !.pc = "unmask"]
    /\ UNCHANGED <<soft, chip, irqOn, isr, ghosts>>

MainUnmask ==
    /\ MainAt("unmask")
    /\ irqOn' = TRUE
    /\ main' = [pc |-> "idle", frame |-> NoFrame, slot |-> 0]
    /\ UNCHANGED <<soft, chip, budget, isr, ghosts>>

Main ==
    \/ \E useFifo \in BOOLEAN : MainSend(useFifo) \/ \E n \in 1..MaxAsked : MainAsk(n, useFifo)
    \/ MainToQueue \/ MainWrite \/ MainToFifo \/ MainNoRoom \/ MainUnmask

-----------------------------------------------------------------------------
(* The interrupt handler.                                                  *)

IsrEnter ==
    /\ isr.pc = "idle" /\ irqOn /\ Asserted
    /\ isr' = [isr EXCEPT !.pc = "loop"]
    /\ UNCHANGED <<soft, chip, budget, irqOn, main, ghosts>>

\* The first branch of the loop body that the events word selects after `pc'.
NextBranch(pc, events) ==
    IF pc = "loop" /\ "CERR" \in events THEN "busoff"
    ELSE IF "TEF" \in events THEN "tx"
    ELSE "dismiss"

\* C1INT; a failed read says that everything has happened.
IsrRead ==
    /\ isr.pc = "loop" /\ Asserted
    /\ \E events \in SUBSET {"CERR", "TEF"} :
         /\ \/ /\ events = {e \in {"CERR", "TEF"} : IF e = "CERR" THEN cerr ELSE tef # <<>>}
               /\ UNCHANGED budget
            \/ events = {"CERR", "TEF"} /\ ReadFails
         /\ isr' = [isr EXCEPT !.pc = NextBranch("loop", events), !.events = events]
    /\ UNCHANGED <<soft, chip, irqOn, main, ghosts>>

IsrReturn ==
    /\ isr.pc = "loop" /\ ~Asserted
    /\ isr' = [isr EXCEPT !.pc = "idle"]
    /\ UNCHANGED <<soft, chip, budget, irqOn, main, ghosts>>

\* init_tx_buffers
DiscardAll_KeepsFifo == pri' = EmptyPri /\ UNCHANGED fifo

DiscardAll_KeepsCount ==
    /\ pri' = [EmptyPri EXCEPT !.free = pri.free]
    /\ fifo' = [fifo EXCEPT !.head = 0, !.tail = 0, !.free = FifoSize]

DiscardAll ==
    /\ pri' = EmptyPri
    /\ fifo' = [fifo EXCEPT !.head = 0, !.tail = 0, !.free = FifoSize]

SeesBusOff_OnAnyChange(off) == off /\ UNCHANGED budget

\* What the handler takes C1TREC for.
SeesBusOff(off) == (off = txbo /\ UNCHANGED budget) \/ (off /\ ReadFails)

\* bus_off_handler: if the chip is bus-off now, discard the pending frames.
IsrBusOff ==
    /\ isr.pc = "busoff"
    /\ isr' = [isr EXCEPT !.pc = NextBranch("busoff", isr.events)]
    /\ \E off \in BOOLEAN :
         /\ SeesBusOff(off)
         /\ IF off THEN DiscardAll /\ erased' = FALSE ELSE UNCHANGED <<soft, erased>>
    /\ UNCHANGED <<chip, irqOn, main, promise, accepted, sent, reported>>

HasNext_LeavesLast == fifo.free + 1 < FifoSize

\* There are FIFO frames to launch.
HasNext == fifo.free < FifoSize

Freed_KeepsValid(seq) == [pri EXCEPT !.uref[seq] = 0, !.free = @ + 1]

\* tx_handler frees the slot.  The number QueueSize, which a failed read may give
\* it, is past the ends of both arrays: its valid flag is the first byte of
\* num_free_slots, its user reference the first four valid flags.
Freed(seq) ==
    IF seq = QueueSize THEN [pri EXCEPT !.valid = @ \ 0..3, !.free = 1]
    ELSE [pri EXCEPT !.uref[seq] = 0, !.valid = @ \ {seq}, !.free = @ + 1]

\* The effect of tx_handler for sequence number `seq': free the slot, report its
\* user reference, and take the next frame of the FIFO if this was its frame.
Complete(seq) ==
    LET wasFifo == seq = pri.fifoSlot
        relaunch == wasFifo /\ HasNext
    IN /\ pri' = [Freed(seq) EXCEPT !.fifoSlot = IF wasFifo THEN FifoSize ELSE @]
       /\ reported' = Append(reported, IF seq = QueueSize THEN 0 ELSE pri.uref[seq])
       /\ fifo' = IF relaunch
                  THEN Fifo!AdvanceHead([fifo EXCEPT !.free = @ + 1]) ELSE fifo
       /\ isr' = [isr EXCEPT !.pc = IF relaunch THEN "relaunch" ELSE "pop",
                             !.frame = IF relaunch THEN Fifo!At(fifo, 0) ELSE NoFrame]

IsValid_Unchecked(seq) == TRUE

IsValid(seq) == IF seq = QueueSize THEN pri.free > 0 ELSE seq \in pri.valid

\* An event whose SEQ is not of a valid slot is counted and dropped.
TakeEvent(seq) ==
    IF IsValid(seq)
    THEN Complete(seq)
    ELSE /\ isr' = [isr EXCEPT !.pc = "pop"]
         /\ UNCHANGED <<pri, fifo, reported>>

\* tx_handler reads the oldest transmit event.  If there is none, or the read of
\* its address fails, the words it then reads are whatever the message memory or
\* the chip holds there.
IsrTx ==
    /\ isr.pc = "tx"
    /\ \/ tef # <<>> /\ TakeEvent(Head(tef).seq) /\ UNCHANGED budget
       \/ tef = <<>> /\ (\E seq \in Slots : TakeEvent(seq)) /\ UNCHANGED budget
       \/ (\E seq \in 0..QueueSize : TakeEvent(seq)) /\ ReadFails
    /\ UNCHANGED <<chip, irqOn, main, promise, accepted, sent, erased>>

\* send_frame of the next FIFO frame, whose result the handler ignores: a frame
\* that finds no room is gone.
IsrRelaunch ==
    /\ isr.pc = "relaunch"
    /\ IF Direct(isr.frame)
       THEN /\ \E slot \in Slots \cup {NoSlot} :
                 /\ QueueSlot({tef[i].seq : i \in (1..Len(tef)) \cap {1}}, slot)
                 /\ isr' = IF slot = NoSlot THEN [isr EXCEPT !.pc = "pop", !.frame = NoFrame]
                           ELSE [isr EXCEPT !.pc = "write", !.slot = slot]
            /\ UNCHANGED fifo
       ELSE /\ fifo' = Fifo!Put(fifo, isr.frame)
            /\ isr' = [isr EXCEPT !.pc = "pop", !.frame = NoFrame]
            /\ UNCHANGED budget
    /\ UNCHANGED <<pri, chip, irqOn, main, ghosts>>

IsrWrite ==
    /\ isr.pc = "write"
    /\ Request(isr.frame, isr.slot)
    /\ isr' = [isr EXCEPT !.pc = "pop", !.frame = NoFrame, !.slot = 0]
    /\ UNCHANGED <<fifo, tef, txbo, cerr, budget, irqOn, main, ghosts>>

\* The end of tx_handler: pop the event in the chip, if it has one.
IsrPop ==
    /\ isr.pc = "pop"
    /\ tef' = IF tef = <<>> THEN <<>> ELSE Tail(tef)
    /\ isr' = [isr EXCEPT !.pc = "dismiss"]
    /\ UNCHANGED <<soft, txq, txbo, cerr, budget, irqOn, main, ghosts>>

IsrDismiss_Everything ==
    /\ isr.pc = "dismiss"
    /\ cerr' = FALSE
    /\ isr' = [isr EXCEPT !.pc = "loop", !.events = {}]
    /\ UNCHANGED <<soft, txq, tef, txbo, budget, irqOn, main, ghosts>>

\* Dismiss CERRIF if it was handled, even if it was raised again meanwhile.
IsrDismiss ==
    /\ isr.pc = "dismiss"
    /\ cerr' = (cerr /\ "CERR" \notin isr.events)
    /\ isr' = [isr EXCEPT !.pc = "loop", !.events = {}]
    /\ UNCHANGED <<soft, txq, tef, txbo, budget, irqOn, main, ghosts>>

Isr ==
    \/ IsrEnter \/ IsrRead \/ IsrReturn \/ IsrBusOff \/ IsrTx
    \/ IsrRelaunch \/ IsrWrite \/ IsrPop \/ IsrDismiss

-----------------------------------------------------------------------------
Next ==
    \/ \E s \in Slots : ChipTransmit(s)
    \/ ChipBusOff \/ ChipRecover \/ ChipWarning
    \/ Main
    \/ Isr

Spec == Init /\ [][Next]_vars

\* The handler is entered and runs to its end, the main loop finishes what it has
\* begun when the handler leaves it the core.  The bus takes every frame in the
\* end, and the chip recovers; the host need not send anything.
Fairness ==
    /\ WF_vars(Isr)
    /\ WF_vars(MainToQueue \/ MainWrite \/ MainToFifo \/ MainNoRoom \/ MainUnmask)
    /\ \A s \in Slots : WF_vars(ChipTransmit(s))
    /\ WF_vars(ChipRecover)

FairSpec == Spec /\ Fairness

-----------------------------------------------------------------------------
(* Properties.                                                             *)

\* No register read has failed and no bus-off has struck in the middle of a send.
Undisturbed == budget.crc = MaxCrcFailures /\ budget.inSend = MaxInSend

\* The software's count of free slots is the number of slots it has no user
\* reference for, so no NO_ROOM is answered while a slot is free and none is
\* overwritten.  (Between a bus-off and its handling the chip hands out slots the
\* driver still believes taken.)
FreeCountExact == Undisturbed /\ ~erased => pri.free = QueueSize - Cardinality(pri.valid)

\* Whatever is lost to noise or to a bus-off in the middle of a send, the count only
\* errs to the safe side: slots leak (`slowly the buffer will run out of space'), but
\* the driver never counts as free a slot that it keeps a user reference for - not
\* even if a corrupted sequence number makes it write past its arrays.
CountOnlyLeaks == pri.free + Cardinality(pri.valid) <= QueueSize

\* `So that all the frames are queued or none are', says can_is_space: once it has
\* said that there is room for a number of frames, none of them finds none, whatever
\* the handler launches or discards in between.
SpaceIsKept ==
    Undisturbed /\ main.pc = "send" /\ promise.n > 0 =>
        IF Direct(main.frame) THEN QueueHasRoom({}) ELSE fifo.free > 0

\* Transmit events not yet taken by the handler (it is past taking the oldest
\* one between tx_handler's table update and the pop in the chip).
Untaken == IF isr.pc \in {"relaunch", "write", "pop"} THEN Tail(tef) ELSE tef

\* The shadow agrees with the chip: a user reference is kept for exactly the
\* slots that hold a frame or whose transmit event is still to be taken, and it
\* is the one of that frame.
ShadowAgrees ==
    /\ pri.valid = Occupied \cup {Untaken[i].seq : i \in 1..Len(Untaken)}
    /\ \A s \in Occupied : pri.uref[s] = txq[s].id
    /\ \A i \in 1..Len(Untaken) : pri.uref[Untaken[i].seq] = Untaken[i].frame.id

\* The shadow knows every frame in the transmit queue, so that what it discards on
\* bus-off is all there was and a slot it believes free is free.
ShadowKnowsQueue == ~erased => Occupied \subseteq pri.valid
NoOrphan == Undisturbed => ShadowKnowsQueue

\* Even across a bus-off, which loses reports, a frame is reported only if it was
\* transmitted, and only once.
NoFalseReport == Undisturbed =>
    /\ \A i \in 1..Len(reported) : \E j \in 1..Len(sent) : reported[i] = sent[j].id
    /\ \A i, j \in 1..Len(reported) : reported[i] = reported[j] => i = j

\* Frames waiting in the software FIFO are behind one in the transmit queue (or
\* one on its way there), whose transmission will launch the next.
FifoIsServed ==
    Undisturbed /\ HasNext => pri.fifoSlot \in pri.valid \/ isr.pc \in {"relaunch", "write"}

\* Frames sent with USE_FIFO go out in the order in which they were accepted,
\* whatever their priority in the transmit queue.
FifoInOrder == Undisturbed =>
    \A i, j \in 1..Len(sent) : i < j /\ sent[i].fifo /\ sent[j].fifo => sent[i].id < sent[j].id

\* While the bus stays on the transmit path implements the service: the line is the
\* FIFO frame in the transmit queue, the one the handler is moving there, and those
\* of the software FIFO.
InFlight ==
    LET queued == {s \in Occupied : txq[s].fifo}
    IN IF queued # {} THEN <<txq[CHOOSE s \in queued : TRUE]>> ELSE <<>>
Moving == IF isr.pc \in {"relaunch", "write"} THEN <<isr.frame>> ELSE <<>>
Queued == [k \in 1..FifoSize - fifo.free |-> Fifo!At(fifo, k - 1)]
Service ==
    INSTANCE TxService WITH
        waiting <- {txq[s] : s \in {t \in Occupied : ~txq[t].fifo}},
        line <- InFlight \o Moving \o Queued
ImplementsTxService == Service!Spec

\* The comment in bus_off_handler: the frames queued `are now going to be thrown
\* away, so discard them in the software queues too'.  Once CERRIF is down and
\* the handler has returned, that has been done.
BusOffNoticed == Undisturbed /\ isr.pc = "idle" /\ ~cerr => ~erased

\* Every accepted frame is reported as transmitted in the end.
AcceptedIsReported ==
    \A n \in 1..MaxSends : accepted >= n ~> \E i \in 1..Len(reported) : reported[i] = n
=============================================================================

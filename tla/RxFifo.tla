------------------------------- MODULE RxFifo -------------------------------
(***************************************************************************)
(* The receive path of one CAN controller: the chip's receive FIFO and its *)
(* error flag, the interrupt handler that moves them into rx_fifo, and the *)
(* main loop that drains rx_fifo for the host (get_can_rx_events).         *)
(*                                                                         *)
(* The handler preempts the main loop between any two of its steps unless  *)
(* the controller's interrupt pin is masked; the chip runs on its own.     *)
(* Steps are as fine as the accesses to what the three share: one action   *)
(* per register the handler reads from the chip, and a load, a store and a *)
(* copy for the main loop's `free++' and the slot it pops.                 *)
(***************************************************************************)
EXTENDS EventRing

CONSTANTS
    HwFifoSize,     \* depth of the chip's receive FIFO (FSIZE, 32 messages)
    Options,        \* the can_options_t passed to can_setup_controller
    MaxCount,       \* largest value of an overflow counter (2^32 - 1)
    MaxEvents,      \* bound: frames and errors the bus produces
    MaxCrcFailures  \* bound: register reads whose CRC fails CRC_RETRIES times

ASSUME RxAssumption ==
    /\ HwFifoSize \in Nat \ {0}
    /\ Options \subseteq {"REJECT_REMOTE", "RECV_ERRORS", "REJECT_OVERFLOW"}
    /\ MaxCount \in Nat \ {0}
    /\ MaxEvents \in Nat
    /\ MaxCrcFailures \in Nat

VARIABLES
    ring,           \* rx_fifo
    hw,             \* frames waiting in the chip, oldest first
    ivm,            \* the chip's IVMIF flag
    raised,         \* frames and errors the bus has produced
    crcFailures,    \* reads of C1INT and C1FIFOUA1 that failed
    irqOn,          \* the pin's interrupt is enabled
    isr,            \* the handler: its step and the C1INT word it read
    main,           \* the main loop: its step, events left to pop, loaded free
    handled,        \* ghost: frames and errors recorded or counted so far
    delivered       \* ghost: how many of those the last event given to the
                    \* host accounts for, and whether it does so exactly

vars == <<ring, hw, ivm, raised, crcFailures, irqOn, isr, main, handled, delivered>>

FrameKinds == {"data", "remote"}

\* A received event.  The driver's timestamp is abstracted to `stamp', the
\* number of events handled before it; `frames' and `errors' are the counts
\* of an overflow record (its union's fields, whatever the slot holds).
EventKinds == FrameKinds \cup {"garbage", "error", "overflow", "blank"}
Event == [kind : EventKinds, stamp : Nat, frames : 0..MaxCount, errors : 0..MaxCount]

Single(kind, stamp) == [kind |-> kind, stamp |-> stamp, frames |-> 0, errors |-> 0]
Overflow(stamp, f, e) == [kind |-> "overflow", stamp |-> stamp, frames |-> f, errors |-> e]

\* A counter that would wrap is rolled back to its largest value.
Sticky(c) == IF c = MaxCount THEN c ELSE c + 1

TypeOK ==
    /\ ring \in RingType(Event)
    /\ hw \in Seq(FrameKinds)
    /\ Len(hw) <= HwFifoSize
    /\ ivm \in BOOLEAN
    /\ raised \in 0..MaxEvents
    /\ crcFailures \in 0..MaxCrcFailures
    /\ irqOn \in BOOLEAN
    /\ isr \in [pc : {"idle", "loop", "error", "rx", "dismiss"}, events : SUBSET {"IVM", "RX"}]
    /\ main \in [pc : {"idle", "pending", "pop", "store", "copy", "unmask"},
                 left : 0..Size, free : 0..Size]
    /\ handled \in Nat
    /\ delivered \in [upto : Nat, exact : BOOLEAN]

Init ==
    /\ ring = EmptyRing(Single("blank", 0))
    /\ hw = <<>>
    /\ ivm = FALSE
    /\ raised = 0
    /\ crcFailures = 0
    /\ irqOn = TRUE
    /\ isr = [pc |-> "idle", events |-> {}]
    /\ main = [pc |-> "idle", left |-> 0, free |-> 0]
    /\ handled = 0
    /\ delivered = [upto |-> 0, exact |-> TRUE]

-----------------------------------------------------------------------------
(* The chip.                                                               *)

\* A frame arrives; with the receive FIFO full the chip drops it, and the
\* driver has not enabled the interrupt that would say so.
ChipReceive(kind) ==
    /\ raised < MaxEvents
    /\ raised' = raised + 1
    /\ hw' = IF Len(hw) < HwFifoSize THEN Append(hw, kind) ELSE hw
    /\ UNCHANGED <<ring, ivm, crcFailures, irqOn, isr, main, handled, delivered>>

ChipError ==
    /\ raised < MaxEvents
    /\ raised' = raised + 1
    /\ ivm' = TRUE
    /\ UNCHANGED <<ring, hw, crcFailures, irqOn, isr, main, handled, delivered>>

Asserted == ivm \/ hw # <<>>

-----------------------------------------------------------------------------
(* The interrupt handler.                                                  *)

\* The level-sensitive interrupt of an enabled pin enters the handler.
IsrEnter ==
    /\ isr.pc = "idle"
    /\ irqOn /\ Asserted
    /\ isr' = [isr EXCEPT !.pc = "loop"]
    /\ UNCHANGED <<ring, hw, ivm, raised, crcFailures, irqOn, main, handled, delivered>>

Pending == {e \in {"IVM", "RX"} : IF e = "IVM" THEN ivm ELSE hw # <<>>}

\* The first branch of the loop body that the events word selects after `pc'.
NextBranch(pc, events) ==
    IF pc = "loop" /\ "IVM" \in events THEN "error"
    ELSE IF pc \in {"loop", "error"} /\ "RX" \in events THEN "rx"
    ELSE "dismiss"

\* While the line is asserted, read C1INT.  A read that exhausts its CRC
\* retries returns all ones, which selects every branch.
IsrRead ==
    /\ isr.pc = "loop" /\ Asserted
    /\ \/ /\ isr' = [pc |-> NextBranch("loop", Pending), events |-> Pending]
          /\ UNCHANGED crcFailures
       \/ /\ crcFailures < MaxCrcFailures
          /\ crcFailures' = crcFailures + 1
          /\ isr' = [pc |-> "error", events |-> {"IVM", "RX"}]
    /\ UNCHANGED <<ring, hw, ivm, raised, irqOn, main, handled, delivered>>

IsrReturn ==
    /\ isr.pc = "loop" /\ ~Asserted
    /\ isr' = [pc |-> "idle", events |-> {}]
    /\ UNCHANGED <<ring, hw, ivm, raised, crcFailures, irqOn, main, handled, delivered>>

RecordError(r, stamp) ==
    CASE r.free > 1 -> Put(r, Single("error", stamp))
      [] r.free = 1 -> PutOverflow(r, Overflow(stamp, 0, 1))
      [] r.free = 0 -> [r EXCEPT !.slot[r.dropped].errors = Sticky(@)]

\* error_handler: the error is recorded only if the options ask for it.
IsrError ==
    /\ isr.pc = "error"
    /\ isr' = [isr EXCEPT !.pc = NextBranch("error", isr.events)]
    /\ IF "RECV_ERRORS" \in Options
       THEN /\ ring' = RecordError(ring, handled)
            /\ handled' = handled + 1
       ELSE UNCHANGED <<ring, handled>>
    /\ UNCHANGED <<hw, ivm, raised, crcFailures, irqOn, main, delivered>>

RecordFrame_FirstDropUncounted(r, kind, stamp) ==
    CASE r.free > 1 -> Put(r, Single(kind, stamp))
      [] r.free = 1 -> PutOverflow(r, Overflow(stamp, 0, 0))
      [] r.free = 0 -> [r EXCEPT !.slot[r.dropped].frames = Sticky(@)]

RecordFrame_FillsLastSlot(r, kind, stamp) ==
    IF r.free > 0 THEN Put(r, Single(kind, stamp))
    ELSE [r EXCEPT !.slot[r.dropped].frames = Sticky(@)]

\* REJECT_REMOTE is tested in the code and its result overwritten, so the
\* kind of the frame makes no difference to what is stored.
RecordFrame(r, kind, stamp) ==
    LET ignoreOverflow == "REJECT_OVERFLOW" \in Options
    IN CASE r.free > (IF ignoreOverflow THEN 0 ELSE 1) -> Put(r, Single(kind, stamp))
         [] ~ignoreOverflow /\ r.free = 1 -> PutOverflow(r, Overflow(stamp, 1, 0))
         [] ~ignoreOverflow /\ r.free = 0 -> [r EXCEPT !.slot[r.dropped].frames = Sticky(@)]
         [] ignoreOverflow /\ r.free = 0 -> r

\* rx_handler: take the oldest frame from the chip (the increment of an empty
\* FIFO takes nothing, and the words read are left-overs) and record it.  If the
\* read of the frame's address (C1FIFOUA1) fails, words from elsewhere in the chip
\* are recorded, and the frame is taken all the same.
IsrRx ==
    /\ isr.pc = "rx"
    /\ \/ /\ ring' = RecordFrame(ring, IF hw = <<>> THEN "garbage" ELSE Head(hw), handled)
          /\ UNCHANGED crcFailures
       \/ /\ crcFailures < MaxCrcFailures
          /\ crcFailures' = crcFailures + 1
          /\ ring' = RecordFrame(ring, "garbage", handled)
    /\ hw' = IF hw = <<>> THEN hw ELSE Tail(hw)
    /\ handled' = handled + 1
    /\ isr' = [isr EXCEPT !.pc = "dismiss"]
    /\ UNCHANGED <<ivm, raised, irqOn, main, delivered>>

\* Dismiss IVMIF if it was handled, even if it was raised again meanwhile.
IsrDismiss ==
    /\ isr.pc = "dismiss"
    /\ ivm' = (ivm /\ "IVM" \notin isr.events)
    /\ isr' = [pc |-> "loop", events |-> {}]
    /\ UNCHANGED <<ring, hw, raised, crcFailures, irqOn, main, handled, delivered>>

Isr == IsrEnter \/ IsrRead \/ IsrReturn \/ IsrError \/ IsrRx \/ IsrDismiss

-----------------------------------------------------------------------------
(* The main loop: get_can_rx_events.                                       *)

\* There is one core, and an enabled interrupt preempts the main loop at once.
MainAt(pc) == isr.pc = "idle" /\ ~(irqOn /\ Asserted) /\ main.pc = pc

GetRxEvents_Unmasked ==
    /\ MainAt("idle")
    /\ main' = [main EXCEPT !.pc = "pending"]
    /\ UNCHANGED <<ring, hw, ivm, raised, crcFailures, irqOn, isr, handled, delivered>>

\* The host asks for the events: mask the controller's pin.
GetRxEvents ==
    /\ MainAt("idle")
    /\ irqOn' = FALSE
    /\ main' = [main EXCEPT !.pc = "pending"]
    /\ UNCHANGED <<ring, hw, ivm, raised, crcFailures, isr, handled, delivered>>

ReadPending_Unmasks ==
    /\ MainAt("pending")
    /\ main' = [main EXCEPT !.pc = IF Used(ring) = 0 THEN "unmask" ELSE "pop", !.left = Used(ring)]
    /\ irqOn' = TRUE
    /\ UNCHANGED <<ring, hw, ivm, raised, crcFailures, isr, handled, delivered>>

ReadPending_OneLess ==
    /\ MainAt("pending")
    /\ main' = [main EXCEPT !.pc = IF Used(ring) < 2 THEN "unmask" ELSE "pop", !.left = Used(ring) - 1]
    /\ UNCHANGED <<ring, hw, ivm, raised, crcFailures, irqOn, isr, handled, delivered>>

\* can_recv_pending, and memory for the answer.
ReadPending ==
    /\ MainAt("pending")
    /\ main' = [main EXCEPT !.pc = IF Used(ring) = 0 THEN "unmask" ELSE "pop", !.left = Used(ring)]
    /\ UNCHANGED <<ring, hw, ivm, raised, crcFailures, irqOn, isr, handled, delivered>>

\* Without memory the events stay where they are, and the answer is -1.
AllocationFails ==
    /\ MainAt("pending")
    /\ main' = [main EXCEPT !.pc = "unmask"]
    /\ UNCHANGED <<ring, hw, ivm, raised, crcFailures, irqOn, isr, handled, delivered>>

AfterPop(left) == IF left = 1 THEN "unmask" ELSE "pop"

\* pop_rx_event_as_bytes: free++ as a load and a store, then the oldest slot.
\* can_recv_as_bytes_safe does nothing, and leaves the bytes of the answer as
\* they were, if it finds the FIFO empty.
PopLoad ==
    /\ MainAt("pop")
    /\ main' = IF ring.free < Size
                THEN [main EXCEPT !.pc = "store", !.free = ring.free]
                ELSE [main EXCEPT !.pc = AfterPop(main.left), !.left = @ - 1]
    /\ UNCHANGED <<ring, hw, ivm, raised, crcFailures, irqOn, isr, handled, delivered>>

PopStore ==
    /\ MainAt("store")
    /\ ring' = [ring EXCEPT !.free = main.free + 1]
    /\ main' = [main EXCEPT !.pc = "copy", !.free = 0]
    /\ UNCHANGED <<hw, ivm, raised, crcFailures, irqOn, isr, handled, delivered>>

\* How many handled events a slot accounts for, and whether that is all of
\* them: a counter at its largest value may stand for more.
Weight(e) == IF e.kind = "overflow" THEN e.frames + e.errors ELSE 1
Exact(e) == e.kind = "overflow" => MaxCount \notin {e.frames, e.errors}

PopCopy ==
    /\ MainAt("copy")
    /\ ring' = AdvanceHead(ring)
    /\ delivered' = [upto |-> At(ring, 0).stamp + Weight(At(ring, 0)), exact |-> Exact(At(ring, 0))]
    /\ main' = [main EXCEPT !.pc = AfterPop(main.left), !.left = @ - 1]
    /\ UNCHANGED <<hw, ivm, raised, crcFailures, irqOn, isr, handled>>

Unmask_Forgotten ==
    /\ MainAt("unmask")
    /\ main' = [main EXCEPT !.pc = "idle", !.left = 0]
    /\ UNCHANGED <<ring, hw, ivm, raised, crcFailures, irqOn, isr, handled, delivered>>

Unmask ==
    /\ MainAt("unmask")
    /\ irqOn' = TRUE
    /\ main' = [main EXCEPT !.pc = "idle", !.left = 0]
    /\ UNCHANGED <<ring, hw, ivm, raised, crcFailures, isr, handled, delivered>>

Main ==
    \/ GetRxEvents \/ ReadPending \/ AllocationFails
    \/ PopLoad \/ PopStore \/ PopCopy \/ Unmask

-----------------------------------------------------------------------------
Next ==
    \/ \E kind \in FrameKinds : ChipReceive(kind)
    \/ ChipError
    \/ Isr
    \/ Main

Spec == Init /\ [][Next]_vars

\* The handler is entered and runs to its end; the main loop runs when the handler
\* leaves it the core; the host polls again and again, and an allocation that is
\* tried again and again does not fail for ever.
Fairness ==
    /\ WF_vars(Isr)
    /\ WF_vars(GetRxEvents)
    /\ SF_vars(ReadPending)
    /\ WF_vars(PopLoad \/ PopStore \/ PopCopy \/ Unmask)

FairSpec == Spec /\ Fairness

-----------------------------------------------------------------------------
(* Properties.                                                             *)

\* The events in the ring.  Between the store of `free' and
\* the copy of the slot the oldest event is still at the head.
Present == Used(ring) + (IF main.pc = "copy" THEN 1 ELSE 0)

\* Head, tail and free count always describe the same stretch of slots, so
\* full and empty are told apart although both have head = tail.
RingConsistent == IndicesAgree(ring, Present)

\* The comment in both handlers: with free = 0 `there must already [be] an
\* overflow frame at the back of the queue', the record the handlers count
\* into.  A stale dropped_event_idx would count into some other event.
OverflowAtBack ==
    ring.free = 0 => /\ ring.dropped = Position(ring, Present - 1)
                     /\ ring.slot[ring.dropped].kind = "overflow"

\* Where the account of the k-th event of the ring must start.
Boundary(k) == IF k < Present THEN At(ring, k).stamp ELSE handled

\* No frame or error the handler took is lost without a trace: each event of
\* the ring starts where its predecessor's account ends, the oldest where
\* the host's ends, and the newest ends at what has been handled.  Only a
\* counter stuck at its largest value leaves a gap.
NoSilentLoss ==
    /\ delivered.upto <= Boundary(0)
    /\ delivered.exact => delivered.upto = Boundary(0)
    /\ \A k \in 0..Present-1 :
          LET end == At(ring, k).stamp + Weight(At(ring, k))
          IN /\ end <= Boundary(k + 1)
             /\ Exact(At(ring, k)) => end = Boundary(k + 1)

\* The pending count get_can_rx_events sized its answer by stays exact until
\* the last event is popped: no event of the answer is left unwritten and
\* none that arrived meanwhile makes it too short.
AnswerIsExact ==
    main.pc \in {"pop", "store", "copy"} => main.left = Present

\* What the k-th event of the ring and what the host was given stand for: a
\* counter stuck at its largest value stands for all that were dropped.
Account(k) ==
    LET e == At(ring, k)
    IN [from |-> e.stamp,
        to |-> IF Exact(e) THEN e.stamp + Weight(e) ELSE Boundary(k + 1),
        kept |-> e.kind # "overflow"]
Told == IF delivered.exact THEN delivered.upto ELSE Boundary(0)

\* The ring, its handler and its drain implement the lossy queue: events are kept
\* while there is room for an overflow record behind them, and counted into that
\* record from then on, until the host has made room again.
Promise ==
    INSTANCE LossyQueue WITH
        Capacity <- Size,
        queue <- [k \in 1..Present |-> Account(k - 1)],
        seen <- handled,
        told <- Told
ImplementsLossyQueue == Promise!Spec

\* A masked pin is always unmasked again, whether the events were drained,
\* there were none, or there was no memory for the answer.
MaskIsTemporary == ~irqOn ~> irqOn

\* Every frame in the chip's FIFO and every event taken from it is told to
\* the host in the end, as an event or by an overflow record.
HostIsTold == \A k \in 1..MaxEvents : (handled + Len(hw) >= k) ~> (Told >= k)
=============================================================================

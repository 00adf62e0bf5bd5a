------------------------------ MODULE TxEvents ------------------------------
(***************************************************************************)
(* The transmit events of one CAN controller: the end of tx_handler, which *)
(* records each completed frame in tx_event_fifo, and get_can_tx_events,   *)
(* with which the main loop drains it for the host.  How tx_handler comes  *)
(* by a completed frame is TxPath's subject; here the chip just has some   *)
(* number of transmit events.                                              *)
(*                                                                         *)
(* The ring is driven as RxFifo's is, but its overflow record counts in    *)
(* another way: it starts at zero and the counter wraps.                   *)
(***************************************************************************)
EXTENDS EventRing

CONSTANTS
    RecordTxEvents, \* CAN_OPTION_RECORD_TX_EVENTS is set
    MaxCount,       \* largest value of the overflow counter (2^32 - 1)
    MaxEvents       \* bound: frames transmitted

ASSUME TxEventsAssumption ==
    RecordTxEvents \in BOOLEAN /\ MaxCount \in Nat \ {0} /\ MaxEvents \in Nat

VARIABLES
    ring,           \* tx_event_fifo
    tef,            \* how many transmit events wait in the chip
    raised,         \* frames transmitted
    irqOn,          \* the controller's pin is enabled
    isr,            \* "idle" or "loop"
    main,           \* where the drain is, the events it has left, `free' as it loaded it
    recorded,       \* ghost: completed frames recorded or dropped so far
    delivered       \* ghost: how many of those the host has been told of

vars == <<ring, tef, raised, irqOn, isr, main, recorded, delivered>>

\* `stamp' is the number of events recorded before this one, in place of its
\* user reference and timestamp.
Single(stamp) == [kind |-> "transmitted", stamp |-> stamp, count |-> 0]
Overflow(stamp) == [kind |-> "overflow", stamp |-> stamp, count |-> 0]

Init ==
    /\ ring = EmptyRing([kind |-> "blank", stamp |-> 0, count |-> 0])
    /\ tef = 0 /\ raised = 0
    /\ irqOn = TRUE /\ isr = "idle"
    /\ main = [pc |-> "idle", left |-> 0, free |-> 0]
    /\ recorded = 0 /\ delivered = 0

ChipTransmit ==
    /\ raised < MaxEvents
    /\ raised' = raised + 1 /\ tef' = tef + 1
    /\ UNCHANGED <<ring, irqOn, isr, main, recorded, delivered>>

-----------------------------------------------------------------------------
(* The interrupt handler.                                                  *)

IsrEnter ==
    /\ isr = "idle" /\ irqOn /\ tef > 0
    /\ isr' = "loop"
    /\ UNCHANGED <<ring, tef, raised, irqOn, main, recorded, delivered>>

\* (An operator whose name has a suffix is a faulty variant of the one that
\* follows it, kept to show that the properties tell the two apart.)
Record_NoRecord(r, stamp) ==
    CASE r.free > 0 -> Put(r, Single(stamp))
      [] r.free = 0 -> r

Record(r, stamp) ==
    CASE r.free > 1 -> Put(r, Single(stamp))
      [] r.free = 1 -> PutOverflow(r, Overflow(stamp))
      [] r.free = 0 -> [r EXCEPT !.slot[r.dropped].count = (@ + 1) % (MaxCount + 1)]

IsrTx ==
    /\ isr = "loop" /\ tef > 0
    /\ tef' = tef - 1
    /\ IF RecordTxEvents
       THEN ring' = Record(ring, recorded) /\ recorded' = recorded + 1
       ELSE UNCHANGED <<ring, recorded>>
    /\ UNCHANGED <<raised, irqOn, isr, main, delivered>>

IsrReturn ==
    /\ isr = "loop" /\ tef = 0
    /\ isr' = "idle"
    /\ UNCHANGED <<ring, tef, raised, irqOn, main, recorded, delivered>>

Isr == IsrEnter \/ IsrTx \/ IsrReturn

-----------------------------------------------------------------------------
(* The main loop: get_can_tx_events.                                       *)

\* There is one core, and an enabled interrupt preempts the main loop at once.
MainAt(pc) == isr = "idle" /\ ~(irqOn /\ tef > 0) /\ main.pc = pc

GetTxEvents_Unmasked ==
    /\ MainAt("idle")
    /\ main' = [main EXCEPT !.pc = "pending"]
    /\ UNCHANGED <<ring, tef, raised, irqOn, isr, recorded, delivered>>

GetTxEvents ==
    /\ MainAt("idle")
    /\ irqOn' = FALSE
    /\ main' = [main EXCEPT !.pc = "pending"]
    /\ UNCHANGED <<ring, tef, raised, isr, recorded, delivered>>

ReadPending_OneLess ==
    /\ MainAt("pending")
    /\ main' = [main EXCEPT !.pc = IF Used(ring) < 2 THEN "unmask" ELSE "pop", !.left = Used(ring) - 1]
    /\ UNCHANGED <<ring, tef, raised, irqOn, isr, recorded, delivered>>

\* can_recv_tx_events_pending, and memory for the answer.
ReadPending ==
    /\ MainAt("pending")
    /\ main' = [main EXCEPT !.pc = IF Used(ring) = 0 THEN "unmask" ELSE "pop", !.left = Used(ring)]
    /\ UNCHANGED <<ring, tef, raised, irqOn, isr, recorded, delivered>>

AllocationFails ==
    /\ MainAt("pending")
    /\ main' = [main EXCEPT !.pc = "unmask"]
    /\ UNCHANGED <<ring, tef, raised, irqOn, isr, recorded, delivered>>

AfterPop(left) == IF left = 1 THEN "unmask" ELSE "pop"

\* pop_tx_event_as_bytes: free++ as a load and a store, then the oldest slot.
PopLoad ==
    /\ MainAt("pop")
    /\ main' = IF ring.free < Size
               THEN [main EXCEPT !.pc = "store", !.free = ring.free]
               ELSE [main EXCEPT !.pc = AfterPop(main.left), !.left = @ - 1]
    /\ UNCHANGED <<ring, tef, raised, irqOn, isr, recorded, delivered>>

PopStore ==
    /\ MainAt("store")
    /\ ring' = [ring EXCEPT !.free = main.free + 1]
    /\ main' = [main EXCEPT !.pc = "copy", !.free = 0]
    /\ UNCHANGED <<tef, raised, irqOn, isr, recorded, delivered>>

\* How many transmitted frames a slot accounts for: the frame whose event found
\* one free slot became the overflow record and is not in its count.
Weight(e) == 1 + e.count

PopCopy ==
    /\ MainAt("copy")
    /\ ring' = AdvanceHead(ring)
    /\ delivered' = At(ring, 0).stamp + Weight(At(ring, 0))
    /\ main' = [main EXCEPT !.pc = AfterPop(main.left), !.left = @ - 1]
    /\ UNCHANGED <<tef, raised, irqOn, isr, recorded>>

Unmask ==
    /\ MainAt("unmask")
    /\ irqOn' = TRUE
    /\ main' = [main EXCEPT !.pc = "idle", !.left = 0]
    /\ UNCHANGED <<ring, tef, raised, isr, recorded, delivered>>

Main ==
    \/ GetTxEvents \/ ReadPending \/ AllocationFails
    \/ PopLoad \/ PopStore \/ PopCopy \/ Unmask

-----------------------------------------------------------------------------
Next == ChipTransmit \/ Isr \/ Main

Spec == Init /\ [][Next]_vars

\* As in RxFifo.
Fairness ==
    /\ WF_vars(Isr)
    /\ WF_vars(GetTxEvents)
    /\ SF_vars(ReadPending)
    /\ WF_vars(PopLoad \/ PopStore \/ PopCopy \/ Unmask)

FairSpec == Spec /\ Fairness

-----------------------------------------------------------------------------
(* Properties.                                                             *)

\* The events in the ring; between the store of `free' and the copy of the slot
\* the oldest event is still at the head.
Present == Used(ring) + (IF main.pc = "copy" THEN 1 ELSE 0)

\* Where the account of the k-th event of the ring must start.
Boundary(k) == IF k < Present THEN At(ring, k).stamp ELSE recorded

\* No transmit event vanishes without a trace: each event of the ring starts where
\* its predecessor's account ends, from what the host was told of to what was
\* recorded, if an overflow record is read as `one more than it counts' and its
\* counter has not wrapped.
TracedWithOneMore ==
    /\ delivered = Boundary(0)
    /\ \A k \in 0..Present-1 : At(ring, k).stamp + Weight(At(ring, k)) = Boundary(k + 1)

\* Indices, free count and the record at the back of a full ring agree, and the
\* answer get_can_tx_events has sized is filled exactly.
DrainSafe ==
    /\ IndicesAgree(ring, Present)
    /\ ring.free = 0 => /\ ring.dropped = Position(ring, Present - 1)
                        /\ ring.slot[ring.dropped].kind = "overflow"
    /\ main.pc \in {"pop", "store", "copy"} => main.left = Present

\* Every completed frame is told to the host in the end, as an event or in the
\* count of an overflow record.
HostIsTold == \A n \in 1..MaxEvents : (raised >= n) ~> (delivered >= n)
=============================================================================

-------------------------------- MODULE Board --------------------------------
(***************************************************************************)
(* The six CAN controllers of the board on their one SPI bus: the setup of *)
(* every controller with its retries, the masking of interrupt pins around *)
(* SPI transactions and around the event FIFOs, and the interrupt handler  *)
(* that serves all controllers.  What a controller's handler does with an  *)
(* interrupt is RxFifo's and TxPath's subject; here it is a number of SPI  *)
(* transactions that each take one cause of the interrupt away.            *)
(***************************************************************************)
EXTENDS Integers, FiniteSets

CONSTANTS
    N,              \* NUM_CAN_CONTROLLERS
    MaxTries,       \* CAN_SETUP_MAX_RETRIES
    FifoSize,       \* CAN_RX_FIFO_SIZE
    Faulty,         \* controllers whose setup may fail
    MaxRaises       \* bound: interrupts the chips raise

ASSUME BoardAssumption ==
    /\ N \in Nat \ {0} /\ MaxTries \in Nat \ {0}
    /\ FifoSize \in 1..255
    /\ Faulty \subseteq 0..N-1
    /\ MaxRaises \in Nat

Controllers == 0..N-1

VARIABLES
    bank,           \* the processor takes GPIO interrupts (IO_IRQ_BANK0)
    irqOn,          \* the pins whose interrupt is enabled
    live,           \* the chips that are on the bus with interrupts enabled
    asked,          \* the chips that are asked for normal mode
    work,           \* causes of interrupt pending in each chip
    raises,         \* interrupts raised so far
    selected,       \* who has which chip selected on the SPI bus
    table,          \* each can_controller_t: as zeroed at boot, initialised, running
    free,           \* the free count of each receive FIFO
    isr, main

vars == <<bank, irqOn, live, asked, work, raises, selected, table, free, isr, main>>
hardware == <<live, asked, work, raises>>

TypeOK ==
    /\ bank \in BOOLEAN
    /\ irqOn \subseteq Controllers /\ live \subseteq Controllers /\ asked \subseteq Controllers
    /\ work \in [Controllers -> 0..MaxRaises + 1]
    /\ raises \in 0..MaxRaises
    /\ selected \subseteq {"main", "isr"} \X Controllers
    /\ table \in [Controllers -> {"zero", "initialised", "running"}]
    /\ free \in [Controllers -> 0..FifoSize]
    /\ isr \in [pc : {"idle", "scan", "handle", "transfer"}, c : 0..N]
    /\ main \in [pc : {"mask", "select", "transfer", "unmask", "idle", "fifo", "restore"},
                 job : {"pins", "config", "mode", "send", "events"},
                 c : Controllers, try : 1..MaxTries, pin : Controllers, answer : 0..FifoSize]

\* After a restart of the processor alone the chips may still be running, with an
\* interrupt of the last session pending.
Init ==
    /\ bank = FALSE /\ irqOn = {}
    /\ live \in SUBSET Controllers /\ asked = live
    /\ work = [c \in Controllers |-> IF c \in live THEN 1 ELSE 0]
    /\ raises = 0 /\ selected = {}
    /\ table = [c \in Controllers |-> "zero"]
    /\ free = [c \in Controllers |-> 0]
    /\ isr = [pc |-> "idle", c |-> 0]
    /\ main = [pc |-> "mask", job |-> "pins", c |-> 0, try |-> 1, pin |-> 0, answer |-> 0]

ChipRaise(c) ==
    /\ c \in live /\ raises < MaxRaises
    /\ raises' = raises + 1
    /\ work' = [work EXCEPT ![c] = @ + 1]
    /\ UNCHANGED <<bank, irqOn, live, asked, selected, table, free, isr, main>>

\* The chip enters its mode when the bus is idle, which may be after the driver has
\* given up waiting for it.
ChipLive(c) ==
    /\ c \in asked \ live
    /\ live' = live \cup {c}
    /\ UNCHANGED <<bank, irqOn, asked, work, raises, selected, table, free, isr, main>>

-----------------------------------------------------------------------------
(* The interrupt handler: can_irq_handler and the loop in                  *)
(* mcp25xxfd_irq_handler.  An operator whose name has a suffix is a faulty *)
(* variant of the one that follows it, kept to show that the properties    *)
(* tell the two apart.                                                     *)

Asserted_Unmasked(c) == work[c] > 0

\* What gpio_get_irq_event_mask reports: a masked pin is not asserted.
Asserted(c) == c \in irqOn /\ work[c] > 0

Interrupted == bank /\ \E c \in irqOn : work[c] > 0

IsrEnter ==
    /\ isr.pc = "idle" /\ Interrupted
    /\ isr' = [pc |-> "scan", c |-> 0]
    /\ UNCHANGED <<bank, irqOn, hardware, selected, table, free, main>>

\* The next controller is handled if its pin is asserted, else skipped.
IsrScan ==
    /\ isr.pc = "scan"
    /\ isr' = IF isr.c = N THEN [pc |-> "idle", c |-> 0]
              ELSE IF Asserted(isr.c) THEN [isr EXCEPT !.pc = "handle"]
              ELSE [isr EXCEPT !.c = @ + 1]
    /\ UNCHANGED <<bank, irqOn, hardware, selected, table, free, main>>

IsrSelect ==
    /\ isr.pc = "handle" /\ Asserted(isr.c)
    /\ selected' = selected \cup {<<"isr", isr.c>>}
    /\ isr' = [isr EXCEPT !.pc = "transfer"]
    /\ UNCHANGED <<bank, irqOn, hardware, table, free, main>>

\* A received frame takes a slot of the FIFO, another cause does not.
IsrTransfer ==
    /\ isr.pc = "transfer"
    /\ selected' = selected \ {<<"isr", isr.c>>}
    /\ work' = [work EXCEPT ![isr.c] = @ - 1]
    /\ \/ free' = [free EXCEPT ![isr.c] = IF @ = 0 THEN 0 ELSE @ - 1]
       \/ UNCHANGED free
    /\ isr' = [isr EXCEPT !.pc = "handle"]
    /\ UNCHANGED <<bank, irqOn, live, asked, raises, table, main>>

IsrHandled ==
    /\ isr.pc = "handle" /\ ~Asserted(isr.c)
    /\ isr' = [pc |-> "scan", c |-> isr.c + 1]
    /\ UNCHANGED <<bank, irqOn, hardware, selected, table, free, main>>

Isr == IsrEnter \/ IsrScan \/ IsrSelect \/ IsrTransfer \/ IsrHandled

-----------------------------------------------------------------------------
(* The main program.  An enabled interrupt preempts it at once.            *)

MainAt(pc) == isr.pc = "idle" /\ ~Interrupted /\ main.pc = pc

InSetup == main.job \in {"pins", "config", "mode"}
NextPin == IF main.pin + 1 = N THEN 0 ELSE main.pin + 1

MaskPin_OwnOnly ==
    /\ MainAt("mask")
    /\ irqOn' = irqOn \ {main.c}
    /\ main' = [main EXCEPT !.pc = "select"]
    /\ UNCHANGED <<bank, hardware, selected, table, free, isr>>

\* mcp25xxfd_spi_gpio_disable_irq masks the pins of all controllers, one by one.
MaskPin ==
    /\ MainAt("mask")
    /\ irqOn' = irqOn \ {main.pin}
    /\ main' = [main EXCEPT !.pin = NextPin, !.pc = IF NextPin = 0 THEN "select" ELSE "mask"]
    /\ UNCHANGED <<bank, hardware, selected, table, free, isr>>

\* The last stage asks for normal mode, unless it reads first that the chip is not
\* in configuration mode.
AskForMode ==
    CASE main.job = "pins" -> asked' = asked \ {main.c}
      [] main.job = "mode" -> asked' = asked \cup {main.c} \/ (main.c \in Faulty /\ asked' = asked)
      [] OTHER -> asked' = asked

SpiSelect_NoReset ==
    /\ MainAt("select")
    /\ selected' = selected \cup {<<"main", main.c>>}
    /\ main' = [main EXCEPT !.pc = "transfer"]
    /\ bank' = (bank \/ main.job = "pins")
    /\ AskForMode
    /\ UNCHANGED <<irqOn, live, work, raises, table, free, isr>>

\* SPI transactions of one job.  Setting up the pins enables the GPIO interrupts of
\* the processor, and the hard reset stops the chip.
SpiSelect ==
    /\ MainAt("select")
    /\ selected' = selected \cup {<<"main", main.c>>}
    /\ main' = [main EXCEPT !.pc = "transfer"]
    /\ bank' = (bank \/ main.job = "pins")
    /\ live' = IF main.job = "pins" THEN live \ {main.c} ELSE live
    /\ work' = IF main.job = "pins" THEN [work EXCEPT ![main.c] = 0] ELSE work
    /\ AskForMode
    /\ UNCHANGED <<irqOn, raises, table, free, isr>>

\* What setup_can_controllers does when it is done with a controller.
NextController(m) ==
    IF m.c + 1 < N
    THEN [m EXCEPT !.pc = "mask", !.job = "pins", !.c = @ + 1, !.try = 1]
    ELSE [m EXCEPT !.pc = "idle", !.job = "events", !.try = 1]

SetupFails_OneTryMore(m) ==
    IF m.try <= MaxTries THEN [m EXCEPT !.pc = "mask", !.job = "pins", !.try = @ + 1]
    ELSE NextController(m)

SetupFails_NeverGivesUp(m) == [m EXCEPT !.pc = "mask", !.job = "pins"]

\* can_setup_controller returns an error, with every pin masked as it was: another
\* try a second later, or the next controller.
SetupFails(m) ==
    IF m.try < MaxTries THEN [m EXCEPT !.pc = "mask", !.job = "pins", !.try = @ + 1]
    ELSE NextController(m)

SpiFails ==
    /\ MainAt("transfer") /\ InSetup /\ main.c \in Faulty
    /\ selected' = selected \ {<<"main", main.c>>}
    /\ main' = SetupFails(main)
    /\ UNCHANGED <<bank, irqOn, hardware, table, free, isr>>

\* IOCON verified.
PinsDone ==
    /\ MainAt("transfer") /\ main.job = "pins"
    /\ selected' = selected \ {<<"main", main.c>>}
    /\ main' = [main EXCEPT !.pc = "select", !.job = "config"]
    /\ UNCHANGED <<bank, irqOn, hardware, table, free, isr>>

\* In configuration mode, filters set: initialise the data structures.
ConfigDone ==
    /\ MainAt("transfer") /\ main.job = "config"
    /\ selected' = selected \ {<<"main", main.c>>}
    /\ table' = [table EXCEPT ![main.c] = "initialised"]
    /\ free' = [free EXCEPT ![main.c] = FifoSize]
    /\ main' = [main EXCEPT !.pc = "select", !.job = "mode"]
    /\ UNCHANGED <<bank, irqOn, hardware, isr>>

\* The chip is seen in normal mode: the pins are unmasked.
ModeDone ==
    /\ MainAt("transfer") /\ main.job = "mode" /\ main.c \in live
    /\ selected' = selected \ {<<"main", main.c>>}
    /\ table' = [table EXCEPT ![main.c] = "running"]
    /\ main' = [main EXCEPT !.pc = "unmask"]
    /\ UNCHANGED <<bank, irqOn, hardware, free, isr>>

SendDone ==
    /\ MainAt("transfer") /\ main.job = "send"
    /\ selected' = selected \ {<<"main", main.c>>}
    /\ main' = [main EXCEPT !.pc = "unmask"]
    /\ UNCHANGED <<bank, irqOn, hardware, table, free, isr>>

UnmaskPin_SkipsLast ==
    /\ MainAt("unmask")
    /\ irqOn' = IF NextPin = 0 THEN irqOn ELSE irqOn \cup {main.pin}
    /\ main' = LET m == [main EXCEPT !.pin = NextPin]
               IN IF NextPin # 0 THEN m
                  ELSE IF InSetup THEN NextController(m)
                  ELSE [m EXCEPT !.pc = "idle", !.job = "events"]
    /\ UNCHANGED <<bank, hardware, selected, table, free, isr>>

\* mcp25xxfd_spi_gpio_enable_irq, the end of can_setup_controller and can_send_frame.
UnmaskPin ==
    /\ MainAt("unmask")
    /\ irqOn' = irqOn \cup {main.pin}
    /\ main' = LET m == [main EXCEPT !.pin = NextPin]
               IN IF NextPin # 0 THEN m
                  ELSE IF InSetup THEN NextController(m)
                  ELSE [m EXCEPT !.pc = "idle", !.job = "events"]
    /\ UNCHANGED <<bank, hardware, selected, table, free, isr>>

\* A command of the host: SEND_FRAME masks every pin ...
SendFrame(c) ==
    /\ MainAt("idle")
    /\ main' = [main EXCEPT !.pc = "mask", !.job = "send", !.c = c, !.answer = 0]
    /\ UNCHANGED <<bank, irqOn, hardware, selected, table, free, isr>>

\* ... and RECV_RX_EVENTS the pin of its controller only.
GetEvents(c) ==
    /\ MainAt("idle")
    /\ irqOn' = irqOn \ {c}
    /\ main' = [main EXCEPT !.pc = "fifo", !.c = c, !.answer = 0]
    /\ UNCHANGED <<bank, hardware, selected, table, free, isr>>

DrainFifo ==
    /\ MainAt("fifo")
    /\ main' = [main EXCEPT !.pc = "restore", !.answer = FifoSize - free[main.c]]
    /\ free' = [free EXCEPT ![main.c] = FifoSize]
    /\ UNCHANGED <<bank, irqOn, hardware, selected, table, isr>>

RestorePin ==
    /\ MainAt("restore")
    /\ irqOn' = irqOn \cup {main.c}
    /\ main' = [main EXCEPT !.pc = "idle"]
    /\ UNCHANGED <<bank, hardware, selected, table, free, isr>>

Setup == SpiFails \/ PinsDone \/ ConfigDone \/ ModeDone
Step == MaskPin \/ SpiSelect \/ Setup \/ SendDone \/ UnmaskPin \/ DrainFifo \/ RestorePin
Command == \E c \in Controllers : SendFrame(c) \/ GetEvents(c)

-----------------------------------------------------------------------------
Next == (\E c \in Controllers : ChipRaise(c) \/ ChipLive(c)) \/ Isr \/ Step \/ Command

Spec == Init /\ [][Next]_vars

\* The handler runs to its end, and the main program when the handler leaves it
\* the core; a chip enters the mode it is asked for; the host need not send commands.
FairSpec ==
    Spec /\ WF_vars(Isr) /\ WF_vars(Step) /\ WF_vars(\E c \in Controllers : ChipLive(c))

-----------------------------------------------------------------------------
(* Properties.                                                             *)

\* One transaction at a time on the shared SPI bus, whoever runs it and for
\* whichever controller: the reason disable_irq masks the pins of all of them.
SpiExclusive == Cardinality(selected) <= 1

\* The main loop has a controller's FIFO for itself while the handler is left to
\* serve the other controllers.
FifoExclusive ==
    main.pc \in {"fifo", "restore"} =>
        ~(isr.pc \in {"handle", "transfer"} /\ isr.c = main.c)

Ready == main.job \in {"send", "events"}

\* `CAN board ready!': between commands the pin of every running controller is
\* enabled, so that its interrupts are served.
ReadyMeansListening ==
    Ready /\ main.pc = "idle" => \A c \in Controllers : table[c] = "running" => c \in irqOn

\* Once the board is ready the handler only works on tables that a setup has
\* initialised, although it also serves chips whose setup was given up: one left over
\* from the last session was silenced by the reset, and one that goes on the bus late
\* was asked to after its table was initialised.
HandlesInitialised ==
    Ready /\ isr.pc = "transfer" => table[isr.c] # "zero"

\* Setup comes to an end, however its tries turn out and whatever interrupts.
SetupEnds == <>Ready

\* An interrupt of a running controller is served in the end.
Served ==
    \A c \in Controllers : (Ready /\ table[c] = "running" /\ work[c] > 0) ~> work[c] = 0

\* `If the controller has not been initialized then return nothing', says
\* can_recv_pending.
NothingFromUninitialised ==
    main.pc = "restore" /\ table[main.c] = "zero" => main.answer = 0
=============================================================================

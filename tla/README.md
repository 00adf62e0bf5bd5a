# CAN-Board: specifications and proofs

TLA+ specifications of the CAN-Board firmware (`src/code/firmware`) and of its host
driver's protocol (`src/code/driver`), with the TLC configurations that check them
on small instances and TLAPS proofs of their most important invariants for every
instance. Paths below are relative to `src/code/`; `MCP` is
`firmware/lib/mcp25xxfd/mcp25xxfd.c`, `API` is `firmware/lib/mcp25xxfd/canapi.h`.

    tlc -config RxFifo.cfg RxFifo.tla            # a run
    tlapm RxFifoProofs.tla                       # a module of proofs

## 1. The system

An RP2040 with six MCP251863 CAN controllers on one SPI bus, each with its own
interrupt pin. A host sends packets over USB; the main loop executes one command
per packet and answers it. One interrupt handler serves all six controllers. The
processor has one core at work: the handler preempts the main loop at any
instruction unless the pin is masked, and the chips run on their own.

| component | state | operations | module |
|---|---|---|---|
| receive path (`rx_handler`, `error_handler`, `pop_rx_event_as_bytes`, `get_can_rx_events`) | `rx_fifo`: slots, head, tail, `free`, `dropped_event_idx`; the chip's receive FIFO and IVMIF | the handler appends an event, starts or extends an overflow record; the main loop masks the pin, reads the pending count, allocates, pops, unmasks | `EventRing`, `RxFifo` |
| transmit path (`send_frame`, `tx_handler`, `bus_off_handler`) | `tx_pri_queue` (shadow of the chip's TXQ: uref, valid, free count, slot of the FIFO's frame), `tx_fifo`; the chip's TXQ, TEF, CERRIF | the main loop queues a frame; the handler takes a transmit event, frees the slot, launches the next FIFO frame; bus-off discards both queues | `TxPath` |
| transmit events (end of `tx_handler`, `get_can_tx_events`) | `tx_event_fifo` | as the receive FIFO, with another overflow counter | `TxEvents` |
| controller management (`firmware/src/can.c`) | enabled pins, which controllers are set up | setup with retries, masking of all pins around SPI, of one pin around a drain, the handler's loop over controllers | `Board` |
| setup of a chip (`can_setup_controller`, `can_stop_controller`) | the chip's registers and mode, the controller's tables | reset, pins, configuration mode, filters, tables, mode; an error return at each stage | `ChipSetup` register by register; `Board` for all controllers, in three stages |
| packet loop (`firmware/src/main.c`) | the byte stream, the packet being read | read a packet, reject or dispatch it, answer | `HostProtocol`; what commands do, in `Board` |
| host driver (`driver/can_connector.py`) | the pending transaction | write a packet, read the answer, decode events | `HostProtocol`, `Codec` |
| conversions (frames, IDs, events and filters to words and bytes) | none | | `Codec` |
| CRC retries of register accesses | none | retry, give up with all ones | `ChipSetup`; the outcome in `RxFifo` and `TxPath` |

How they interact: handler and main loop share `rx_fifo`, `tx_event_fifo`,
`tx_pri_queue`, `tx_fifo` and the SPI bus, with interrupt masking as the only
synchronisation; the chip and the handler share the chip's queues and the
CERRIF and IVMIF flags; the host sees only answers to its commands.

What is hard, and what makes each part correct:

* **receive path, transmit events.** Handler and main loop both write `free`. A
  full and an empty ring have the same indices. The answer is sized by a count that
  was read before. Correct if nothing is lost without being counted, the counts
  are exact, and the host gets everything in the end.
* **transmit path.** Driver and chip each keep their idea of the transmit queue and
  differ between a request and its transmit event. Bus-off empties one of them at
  any time. Correct if every accepted frame is sent, FIFO frames in order, and
  reported once under its own user reference; or, after a bus-off, discarded.
* **board.** Masking must keep every other SPI user away and must not last. Correct
  if transactions exclude each other, the FIFO being drained is left alone, and
  every running controller's interrupts are served once the board is ready.
* **setup.** Writes carry no CRC and are lost without a trace, reads may fail for good, the
  chip takes its time to enter a mode and may still be running from before. Correct if
  success can be relied on, no chip is on the bus half set up, and setup ends.
* **conversions.** An ID has four layouts, words have two byte orders, and frames are
  filled from memory nobody wrote. Correct if a frame, a user reference or an event is at
  the end what it was at the start.
* **host protocol.** Neither side has a timeout, packets have no checksum and answers
  no number, and log text shares the stream with the answers. Correct if an answer
  fits its command, nothing is left over for the next one, and no one waits for ever.

`PROJECT.json` lists the hazards line by line with the properties that cover them.

## 2. Modules, and how they correspond to the code

`EventRing` is the ring both event FIFOs use, as operators on a record: `Put`,
`PutOverflow` (the last free slot becomes the overflow record, `free` becomes 0),
`AdvanceHead`, and a reading of the ring as a queue (`At`, `Position`). TxPath's
software FIFO is an instance of it that never makes an overflow record.

`RxFifo` is one controller's receive path. The handler's steps are its accesses to
the chip: `IsrRead` (C1INT), `IsrError`, `IsrRx`, `IsrDismiss`, round the loop while
the pin is asserted. A read of C1INT or of the frame's address (C1FIFOUA1) may fail all its
CRC retries: everything happened, or the frame is taken and words from elsewhere in the chip
are recorded for it (`garbage`). The main loop's steps are its accesses to what it shares:
`GetRxEvents` (mask), `ReadPending` or `AllocationFails`, then per event `PopLoad`
and `PopStore` for the two halves of `free++` and `PopCopy` for the slot and the
head, then `Unmask`. A frame is its kind; its timestamp is replaced by the number
of events handled before it, which is what lets the properties say that nothing is
lost or doubled. `handled` and `delivered` are ghosts: no action reads them but to
stamp events.

`LossyQueue` says what the receive path promises without ring, handler or masking:
a queue of intervals of the events seen; when it is full, its last interval grows.
`RxFifo` implements it (`ImplementsLossyQueue`), its fairness included.

`TxPath` is one controller's transmit path. `MainSend` masks the pins; then
`MainToQueue`/`MainWrite`, `MainToFifo` or `MainNoRoom`; then `MainUnmask`. The
update of the shadow and the request to the chip are one step (`Request`): pins are
masked and the chip looks at a slot only after the request. The handler is
`IsrBusOff`, `IsrTx`, `IsrRelaunch`/`IsrWrite`, `IsrPop`, `IsrDismiss`. Any register read
may fail all its CRC retries (`ReadFails`): C1INT says that everything happened, C1TREC
that the chip is bus-off, C1TXQSTA that there is room, C1TXQUA is out of range, and after
C1TEFUA the sequence number is arbitrary, up to the one past the arrays that the check
lets through (`Freed` and `IsValid` say what it then hits). `MainAsk` is `can_is_space`,
for an application that asks before it sends several frames; `promise` remembers the
answer, and no action depends on it but the next question. A user reference is the number
of the frame. `accepted`, `sent`, `reported` and `erased` (bus-off emptied the TXQ and the
driver has not noticed) are ghosts; of these `accepted` also numbers the frames and
`erased` also delays `ChipRecover`, see below.

`TxService` is the abstract transmit service: accepted frames wait, FIFO frames in
line, are sent and reported in order of sending. `TxPath` implements it while the
bus stays on (`ImplementsTxService`).

`TxEvents` drives the ring for transmit events. It is a module of its own because
its overflow counting differs: the record starts at 0 and wraps, where the
receive path starts at 1 and sticks.

`Board` has all controllers with their pins, the shared bus, setup and handler. Pins
are masked and unmasked one by one (`MaskPin`, `UnmaskPin`), as the loops of can.c
do. Setup of a controller is three jobs, `pins`, `config` and `mode`, each a
transaction that may fail (`SpiFails`, for a controller in `Faulty`) with an error
return that leaves all pins masked. The last job asks the chip for its mode, which it enters
when the bus lets it (`ChipLive`): in time, or after the job has given up. Init lets any set of chips be left running by
the last session with an interrupt pending. A received frame takes a slot of the
controller's FIFO or another cause does not; what the handler does with it is
RxFifo's and TxPath's subject. `GetEvents` stands for RECV_RX_EVENTS and
RECV_TX_EVENTS, which mask in the same way.

`ChipSetup` is one chip and the call that sets it up or stops it, every register write in
the code's order (`PinWrites`, `FilterWrites`, `ModeWrites`). A write is executed or lost
(`WriteWord`, `LoseWrite`); before a stage's read its CRC may be wrong a number of times
(`BadCrc`), up to the limit that makes it all ones (`Unreadable`). Values are abstracted to
whether a register holds what the setup wants of it; of a filter, the register of its own
number. The chip takes configuration only in configuration mode and a filter's registers
only while the filter is disabled, and enters a mode some time after it was asked to
(`ChipMode`, or never). The caller is free: setups with other modes and filters, with or
without a reset, setups refused for their arguments, and stops, in any order. Pins are Board's subject, so that
`can_stop_controller` masks the pins of all controllers (can.c:38 knows no other way) and
never enables them again is not in this module; nothing in the firmware calls it.

`Codec` follows one item per behaviour through every form it has: what `send_frame` of the
host driver was asked for, the packet, `can_frame_t`, perhaps the bytes an application
stores it as, the message object in the chip, the frame on the bus, the receiving chip's
object, the receive event, its bytes and what the host driver decodes; or the transmit
event by way of SEQ; or an error or overflow record. Frames of other nodes enter at the bus
and pass the receiver's ID filters. Memory nobody has written holds any byte (`Junk`). Shifts
and masks are `\div` and `%`; `MCCodec` has the requests, frames and filters of the run.

`HostProtocol` is `loop()` of main.c against `make_transaction` of the host driver, over
two streams of bytes. Each `read_bytes` of the board is an action that waits for its
bytes (`ReadStart` or `BadStart`, `ReadHeader` or `OutOfMemory`, `ReadData`, `ReadEnd`;
`Drain`, `DrainEnd` for a packet there is no memory for); `ReadEnd` includes the
handler and its answer (`SendFrameAnswers`, `RecvEventsAnswers`: the checks in the code's
order, then success or failure). Writes need no steps of their own: a reader of a
reliable stream cannot tell when bytes it waits for were written. The host writes a
packet (`Call`), looks for a start byte (`Scan`), takes the rest (`TakeAnswer`); its
user may interrupt either (`Abandon`, `AbandonWrite`) and reopen the port (`Reopen`),
which discards the input that has arrived, not what is still under way. Bytes are of
nine values and lengths of one byte, so that data can be taken for a start byte, a
command or a length. Arbitration ID and user reference are left out of a frame's data:
their length follows from the options. `trusted` and `whole` are ghosts.

`Transaction` is what `make_transaction` promises: an answer that fits the command,
until a transaction is abandoned, and again once the port is reopened with nothing
under way. Which answers fit (`Fitting`) is stated from the other side: by what the
host driver packs and by the table of responses in firmware/README.md:268-274.
`HostProtocol` implements it. `MCHostProtocol` only has the commands and events of the run.

An operator with a suffix (`Wrap_OffByOne`, `MaskPin_OwnOnly`, ...) is a faulty
variant of the operator that follows it. Each property has one that breaks it, to
show that the property can tell such a fault from the code; no action uses them.

### Assumptions about the hardware

Things not in this repository are modelled from how the firmware uses them:

* an enabled, asserted pin interrupts the main loop at once; the handler is not
  interrupted by itself;
* the TXQ offers free slots in the order in which they became free, so a slot whose
  transmit event has not been taken is reused last (`FreeSlots`); the shadow's
  validity rests on it;
* the chip recovers from bus-off after 128 idle sequences of the bus, milliseconds,
  so the handler has noticed the bus-off by then (`ChipRecover` waits for `~erased`). That
  cannot be relied on after a lost CERRIF (`tx_lost_cerr`) or with the pins left masked by a
  failed setup (`board_deaf`): TXBO is clear again when C1TREC is read, and nothing is
  discarded. A retry's sleep does no harm, since no frame is queued before setup ends;
* the USB serial port is a reliable stream each way; opening it discards pending
  input (pyserial);
* malloc returns NULL when it fails, as main.c:267 expects; the SDK's own malloc can be
  built to stop the board instead, and then `OutOfMemory` does not happen;
* a write of a register is taken whole or not at all; the chip ignores configuration outside
  configuration mode and changes to an enabled filter; the message objects' layouts are
  those mcp25xxfd.c draws in its comments;
* `Board` assumes that the hard reset arrives; `ChipSetup` does not.

## 3. Runs

| run | what it shows |
|---|---|
| `rx` | ring consistency, overflow record at the back, no silent loss, exact answers, with a sticking counter and a failed read of C1INT or C1FIFOUA1; the path implements `LossyQueue`, unmasks what it masks, tells the host of every event |
| `tx_service` | the shadow agrees with the chip; the path implements `TxService`; every accepted frame is reported |
| `tx_bus_off` | bus-off at any time and failed reads of every register: count, order and promised room are exact while reads succeed and no bus-off strikes inside a send, and bus-off is noticed and discards both queues without a false report; whatever happens, the free count only errs to the safe side |
| `tx_bus_off_in_send` | violation: a frame written just after bus-off stays in the chip, unknown to the driver |
| `tx_lost_cerr` | violation: dismissing CERRIF can dismiss a bus-off that came since |
| `tx_events` | transmit events traced through overflow, safe drains, the host told of all |
| `host_protocol` | answers fit their commands, nothing left over between transactions, the board keeps its place, every transaction ends |
| `board` | SPI and FIFO exclusion, listening when ready, only initialised tables handled once ready (during setup, between one controller's unmask and the next one's reset, an interrupt of the last session still finds a zeroed table), setup ends, the bounded interrupts are served |
| `board_deaf` | violation: last controller's setup fails, board `ready' with every pin masked |
| `board_uninitialised` | violation: a controller that was never set up answers with a full FIFO |
| `codec` | a frame reaches the other host as it was meant, with no byte from unwritten memory; user references, overflows and errors are told as recorded; filters take exactly what they ask for |
| `chip_setup` | success can be relied on, no chip is on the bus half set up, setups and stops return |

Bounds, and why they are enough:

* `Size` = 3: a ring is full after one plain event, one more and the overflow
  record; `MaxEvents` = 6 or 7 wraps it, fills it again after a partial drain and
  counts into a second record. `MaxCount` = 2 makes the counter stick (`rx`);
  9 keeps it from wrapping where the property presumes so (`tx_events`).
  `HwFifoSize` = 2 lets the chip's FIFO overrun.
* `QueueSize` = `FifoSize` = 2 and five sends: both queues full, NO_ROOM from each,
  the FIFO wraps, a slot is reused; four in `tx_bus_off`, where a bus-off, one inside a send
  and a failed read come on top. `MaxAsked` = 3 is all the room there is. `FifoSize` = 2 of `Board` is only a number of
  events. One bus-off and one other error change are what the races need; a second
  bus-off finds everything empty again.
* `N` = 3 controllers with `Faulty` = {0, 1}: failures in the first and in a middle
  controller, every success and failure of two tries, and a last one that succeeds;
  `board_deaf` is the same with a failing last one. Two interrupts: one to be served
  while another comes.
* `CrcRetries`, `ConfigTries`, `ModeTries` = 2 for 5, 3 and 64: a first and a last attempt.
  Two words of four filters, lists in both words, two lost writes: one of a request and one
  of the filters. The number of calls is not bounded.
* IDs for `codec` at both edges of ID A, ID B and the legal range, and beyond it; every DLC;
  bytes that all differ; `Junk` = {0, 255}; slots 0, 1 and 31, all five bits of SEQ.
* ten commands for `host_protocol`: each kind well formed, each check of the handlers
  failing once, data that holds a start byte or an end byte. `Chunk` = 2 drains data in
  whole and part chunks. One interruption at any byte of a read or write; the number of
  transactions is not bounded. Two interruptions hold too (4.4 million states, three
  minutes) but are kept out of the run.

`CHECK_DEADLOCK FALSE` in TxPath's, Codec's and HostProtocol's configurations: an item that
has arrived is done; a host that sends
nothing and a bus with nothing to send are at rest; after a packet that was cut short
host and board may wait for each other for ever.

Fairness: the handler is weakly fair (an asserted enabled pin is taken and the
handler runs to its end), and so is the main loop in what it has begun. The host of
`RxFifo` and `TxEvents` polls again and again (`WF` of `GetRxEvents`), which is its
part of the promise; an allocation tried for ever does not fail for ever (`SF` of
`ReadPending`, as failure and success are both enabled). `TxPath`'s bus takes every
frame in the end. In `Board` the host is not fair, and of the
chips only that they enter their mode. In `ChipSetup` a call that was made runs on (`Driver`);
the chip need never enter a mode. In
`HostProtocol` the board's loop and the host's reads go on; calls and interruptions need not come.

## 4. Findings

Disagreements between the code and what it or its documents say, each with a run
that shows it and the lines quoted in `PROJECT.json`: the deaf board, events of
uninitialised controllers, the orphan frame and the lost bus-off. Others showed while modelling and have no run of their own:

* MCP:241-243 says of `read_word_crc` that `eventually a result of 0 is returned'; it is all
  ones (MCP:300), which callers rely on (MCP:801-802) and which CAN_MODE_ACK_ONLY takes for
  its own mode number (MCP:631, `Misread` in ChipSetup; the firmware only asks for NORMAL);
* MCP:517-518 says that interrupts are enabled after the change to normal mode; MCP:603 is
  before it. A chip that enters its mode after setup has given up is live and may interrupt;
  its tables are initialised by then (`NeverHalfLoaded`, `HandlesInitialised`);
* MCP:1162-1163 says that a transmit event is little endian; code and host driver agree on
  big endian (`EventArrives`);
* of the writes of a setup only IOCON and the modes are read back: with another one lost,
  setup succeeds and the controller runs without a filter, an interrupt or its bit rate
  (`OkIsHonest` claims a complete setup only if none was lost);
* an ID too large for CAN loses its high bits without an error (API:142, 146), as
  board_test.py's 0xdeadbeef does;
* a relaunch of the software FIFO whose C1TXQSTA or C1TXQUA read fails loses the frame and
  leaves the FIFO waiting until another frame overtakes it (MCP:837); a C1TREC read that
  fails says bus-off and makes the driver forget frames the chip goes on sending (MCP:893);
* with `CAN_TX_FIFO_SIZE` different from `CAN_TX_QUEUE_SIZE`, `FifoIsServed` fails: one
  is used as the sentinel (MCP:770, 811), the other is tested for (MCP:651);
* an unread transmit overflow record with count 0 stands for one lost event
  (MCP:858-862), `TracedWithOneMore`;
* README.md:59 promises a timeout answer and firmware/README.md:272 lists its code;
  nothing sends it, and neither side's reads have a timeout: after a packet cut short
  both wait until somebody interrupts the host, and the next packet is read as data;
* firmware/README.md:269 lists BAD_PKT for a bad start byte; main.c:254-258 logs it and
  sends no answer;
* the example at firmware/README.md:307 gives its size as 12, its data is 13 bytes:
  the board would answer BAD_PKT;
* REJECT_REMOTE has no effect: API:175 says that remote frames are not stored, MCP:1023-1025
  clears `store' for them and MCP:1026 overwrites it. The firmware does not set it;
* with REJECT_OVERFLOW and RECV_ERRORS together an error is counted into a frame
  (MCP:928); the firmware does not set REJECT_OVERFLOW;
* a C1INT read that fails all retries records a frame nobody sent (MCP:300), a failed
  C1FIFOUA1 read records garbage in place of the frame, which is gone (MCP:969, 1015), and a
  failed C1TEFUA read may report a frame that was not sent (MCP:788-805).

## 5. Proofs

Checked by TLAPS for every value of the constants within the named assumptions
(`SizeAssumption`, `RxAssumption`, `TxAssumption`, `TxEventsAssumption`, `BoardAssumption`,
`CodecAssumption`, `FilterAssumption`, `HostProtocolAssumption`, `ChipSetupAssumption`,
`AnswersFit`, `FlagIsABit`). Those that say more than the range of a bound are about what
the code guarantees elsewhere: a byte holds the
command codes and the length of an event (`AnswersFit`; a CANRXEvent or CANTXEvent is smaller
than 256 bytes), and the host packs the remote flag from a Python bool (`FlagIsABit`). A theorem
that needs more says so in its own ASSUME or in its hypothesis, and is named below with it.

`EventRingProofs` has the lemmas about the ring: positions are distinct slots
(`PositionInjective`), the tail is the next position, and what `Put`, `PutOverflow`
and `AdvanceHead` do to the ring read as a queue.

`RxFifoProofs`:

* `TypeCorrect`, `RingIsConsistent` and `AnswerIsAlwaysExact`, for all options. None of
  them is inductive alone. `DrainInv` adds that the main loop is past the mask only
  with the pin off and the handler idle (`DrainIsAlone`), and what it has loaded and has
  left at each point of a pop (`DrainProgress`): then nobody changes `free` between
  `PopLoad` and `PopStore`.
* `NothingIsLostSilently` and `OverflowIsAtBack`, without REJECT_OVERFLOW. The two need
  each other: counting into `dropped` keeps the account only if `dropped` is the newest
  event, and that is so only if the record was made there. `Accounted` states both as
  facts about a ring of n events (`Marked`, `Traced`, `Follows`), each `Record...`
  operator is shown to preserve them in a lemma, and the steps of the drain move the
  front of the account.
* `QueueIsImplemented`, without REJECT_OVERFLOW: every step is one of `LossyQueue` or a
  stutter. Under `Accounted` the ring is seen as a line of intervals (`Line`), each ending
  where the next begins, so the handler's `Record...` operators are the abstract ones:
  a `Put` is a Keep (`KeptIsSeen`), the first drop makes a counting interval
  (`FirstDropIsSeen`), the following ones lengthen the last (`CountIsSeen`), and a pop takes
  the first away (`LinePops`). `LossyQueue` also promises that the host is told in the end;
  that part is fairness and stays with the run `rx`.
* `QueueIsContiguous`, without REJECT_OVERFLOW: the queue has neither a hole nor an event
  that stands for nothing (`Contiguous` of `LossyQueue`, in terms of the ring). It is proved
  on the abstract queue (`Adjacent`), whose steps append an interval, lengthen the last or
  take the first away, and carried over by `QueueIsImplemented`; on the ring alone it is not
  inductive, since an account says nothing of a record that counts zero.

`TxEventsProofs`:

* `DrainIsAlwaysSafe`, from the same `DrainInv` as that of the receive path and a ring whose
  full state has its record at the back.
* `TransmitEventsAreTraced`, under the assumption `MaxEvents <= MaxCount + 1`: the counter of an
  overflow record wraps (it is not sticky here, unlike in the receive path), and before that
  the record stands for one event more than it says, in every state and not only at the end.

`BoardProofs`:

* `BoardTypeCorrect`, `SpiIsExclusive` and `FifoIsExclusive`, from `BoardInv`: pins are
  masked from 0 upward (`MaskingProgress`), so a transaction of the main program begins
  with all pins off and the handler idle (`BusIsAlone`); `selected` holds exactly who is
  in a transaction (`SelectedIsInTransfer`); the handler only serves enabled pins and the
  drain has its own off (`HandlerServesEnabled`, `DrainIsMasked`).
* `HandlesOnlyInitialised`, from `ReadyInv`: a chip that setup has reset stays silent until
  its table is initialised (`SilentUntilInitialised`), and by the time the board is ready
  setup has reset every chip (`WasReset`).
* `ReadyIsListening`, from `Listening`, under the assumption that the last controller is
  not in `Faulty`. `board_deaf` is the counterexample without it.

`TxPathProofs`, for all sizes and any number of sends, bus-offs and failed reads:

* `TxTypeCorrect` and `CountNeverOverstates`, whatever fails, from `TxInv`: while a frame is
  queued the pin is masked and the handler idle (`SendIsAlone`), so the slot or place that
  one of them has seen free is still free when it takes it (`RoomSeen`), and a freed slot
  cannot be counted past the size because the count only leaks.
* `FreeCountIsExact` and `NoFrameIsOrphaned`, while reads succeed and no bus-off strikes
  inside a send (`Undisturbed`; `tx_bus_off_in_send` shows that it cannot be left out), from
  `SlotInv`: the handler takes an event only when there is one and no two untaken ones are of
  one slot (`EventsAreThere`), a bus-off is noticed once and finds nobody on the way to the
  emptied queue (`BusOffOnce`), the shadow knows what the chip holds (`QueueKnown`) and
  nothing else (`SlotsAgree`). That what is in the FIFO was meant for it is `RealFrames`, by
  the ring's lemmas.
* `SpaceIsAlwaysKept`, from `PromiseHolds`: the room `can_is_space` has promised moves between
  queue and FIFO while the handler relaunches, and `RoomFor` says at each point where it is.
* `FifoIsAlwaysServed`, from `FifoSlotKnown` and the former, under the assumption
  `FifoSize = QueueSize`; section 4 says why it is needed.
* `NoReportIsFalse`, across any number of bus-offs while `Undisturbed`. A frame is in one place
  (`OnePlace`): in the transmit queue, transmitted with its event untaken, on its way or in the
  software FIFO, or reported; and the user reference kept for a slot is that of its frame
  (`ShadowRight`). To prove it once and not for every action, `StepIsMove` shows that an
  undisturbed step is one of seven moves of a frame (`Move`), and each place is then
  followed through the moves.
* `FifoKeepsOrder`, with `FifoSize = QueueSize`: the frames sent with USE_FIFO, from the one in
  the transmit queue to the newest in the software FIFO, are one line (`Line`). It is
  sorted by acceptance, what has left is before all of it, and at most one is in the queue
  (`OneAhead`); a bus-off takes the whole line away.
* `ShadowAgreesOnBus`, as long as no bus-off has happened (`OnBus`): no event is then of a slot
  that the driver has given up (`Calm`). After a bus-off this need not be so: events of
  frames sent before it are still to be taken while their slots count as free.
* `BusOffIsNoticed`, as long as the error state has changed by one bus-off at most (`OneChange`).
  `tx_path_lost_cerr` is the counterexample without it.
* `ServiceIsGiven` and `ImplementsServiceSafety`, with `FifoSize = QueueSize`: every step on the
  bus is one of `TxService`. The frames in the queue that came without USE_FIFO compete, the
  line stands, and what is sent and not reported is what the untaken events tell, in their
  order (`Accounted`). The second theorem states the refinement itself for a chip that never
  goes bus-off and whose reads succeed, as `tx_path_service` checks it with its fairness.

`HostProtocolProofs`, for every set of commands, size of bytes, data and chunks, and any number
of interrupted transactions:

* `PlaceIsKept`: the stream to the board is what is left of one packet (`Rest`) and whole packets
  after it (`Placed`), whatever the bytes in them are. What is read of a packet moves the place
  inside it, and `Call` puts a packet behind.
* `NothingIsLeftOver`, from `TurnInv`: who has the turn. Either nobody does and the streams are
  empty but for log text and a command being thrown away (`AtRest`); or the command is
  on its way or being read, nothing but text before the answer (`Before`, `Carries`); or the
  answer has been given, whole, and it fits its command (`Given`), which is possible before
  its command has been read to the end.
* `TransactionIsKept`: `ImplementsTransaction`, from the same invariant. The abstract transaction
  has no fairness, so this is the whole refinement. That the scan for a start byte finds the one
  of the answer is `TurnsScan`, that what lies behind it is the whole answer `WholeAnswerTaken`.

`CodecProofs`, for every ID, payload, user reference, slot, stamp, count,
list of filters and content of unwritten memory:

* `FrameAlwaysArrives`, from `CodecInv`, which says of every form a frame takes what it
  carries: the word of its ID (`FrameOf`), the ID in the chip's layout and the fields of the
  control word (`ObjectOf`), the frame itself (`SameFrame`), or an event with its bytes
  (`EventOf`). One lemma takes each form to the next. They rest on the bytes of a word adding
  up to it (`WordBytes`), on the halves of an ID that change places being cut out again
  (`SwapOf`, `IdWord`, `ChipId`), and on the parts of a packet or event lying where the reader
  looks for them (`PacketLayout`, `StoredLayout`, `EventLayout`). From a request on, what a
  remote frame's padding holds is nobody's concern, because `CarriesData` speaks of the
  frame's own bytes only.
* `EventAlwaysArrives`, from `EventInv` beside it: the number the chip carries is the slot of
  the frame (`SeqOfSlot`), where its user reference is.
* `FirstFilterTakes`, from `FilterInv` beside `CodecInv`: what the control word, the event, its
  bytes and the host say of the filter is the first one that let the frame pass (`HitOfObject`,
  `ToldHit`). What a filter lets pass is what it asks for (`FilterTakes`): bit by bit, comparing
  IDs in the chip's order is comparing them in their own (`SwappedBit`, `SwappedAgreement`),
  EXIDE and MIDE lie above all of it (`BitUnderFlag`), and IDs with the same bits are the same
  (`SameBits`), so an exact filter is one whose mask has every bit of its kind of ID
  (`FullAgreement`). `FilterAssumption`: the IDs and masks asked for are in the range of their
  kind.

`ChipSetupProofs`, for every list of filters and every number of tries, CRC retries and lost
writes; both theorems follow from `SetupInv`, which follows a setup write by write:

* `OkMeansDone`. A list of writes that holds a reset has it in front and every pin behind it
  (`PinsKept`), so what IOCON was verified to hold stays; a chip in the mode asked for is also
  still asked for it (`ModeKept`), so the mode an answer was given for is not left again
  (`OkKept`), but for an OFFLINE whose request was lost.
* `OnBusIsLoaded`. With no write lost, the chip stays in configuration mode from when it was
  seen there until the request for the mode is all that is left to write (`ConfigKept`,
  `ModeAwaits`), so no register that is protected outside it refuses a value. The filters
  are the hard part: `AfterWrites` says what the first n writes of `FilterWrites` have
  done, whatever filters an earlier session left enabled, and `NextWordWritten` takes it
  to n + 1 in the three parts of the list; a filter is only set when all are disabled.

Only model-checked: all liveness properties and the fairness part of two of the refinements
(`LossyQueue` and `TxService`), which are outside the prover's reach.

## 6. Not modelled

Bit timing beyond one value that a chip holds or not; `can_get_time`, `can_get_status` and
the other calls of API that neither firmware nor another modelled call makes, among them the
reading back of filters; GPIO and clock pins of a chip; what is logged (that log text shares
the stream with the answers is in `HostProtocol`, ENABLE_TEST unset); the packets over the
external SPI (PKT_OVER_STDIO unset); the speed test (commented out); LEDs and pin numbers;
the chip's silent receive overrun beyond the drop itself. `Board` has no bound on how long a
drain or a retry's one-second sleep keeps pins masked. The paths of several controllers do
not interact but through bus and pins, so `RxFifo`, `TxPath`, `TxEvents` and `ChipSetup` are of
one controller. The CRC's arithmetic is a free choice between right and wrong: what a
corruption that the CRC does not see would do is not asked.

## 7. Plan

1. (done) `EventRing`, `RxFifo`, `LossyQueue`, `TxPath`, `TxService`, `TxEvents`, `Board`,
   `HostProtocol`, `Transaction`, `Codec`, `ChipSetup`.
2. Compose `Board` with a chip's receive FIFO to bound what a retry's sleep can lose.
3. (done) Proofs of the ring, the receive path and its refinement, the transmit path and its
   refinement, the transmit events, the board, the host protocol, the codec and the setup of
   a chip.
4. More proofs: the refinement of item 2, and what `TxService` and `Transaction` imply.

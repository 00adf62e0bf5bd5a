----------------------------- MODULE BoardProofs -----------------------------
(***************************************************************************)
(* Proofs about the board, for any number of controllers, tries and faults *)
(* and any interrupts: nobody shares the SPI bus, and nobody shares a FIFO *)
(* that the main loop drains.                                              *)
(***************************************************************************)
EXTENDS Board, FiniteSetTheorems, TLAPS

\* The pins are masked one by one, from pin 0.
MaskingProgress ==
    /\ main.pc = "mask" => \A c \in irqOn : c >= main.pin
    /\ main.pc \notin {"mask", "unmask"} => main.pin = 0

\* A transaction of the main program starts when every pin is masked, so no handler
\* can begin during it; and none was under way, for the main program was running.
BusIsAlone == main.pc \in {"select", "transfer"} => irqOn = {} /\ isr.pc = "idle"

\* Whoever is in a transaction has its chip selected, and nobody else.
SelectedIsInTransfer ==
    selected = (IF main.pc = "transfer" THEN {<<"main", main.c>>} ELSE {})
               \cup (IF isr.pc = "transfer" THEN {<<"isr", isr.c>>} ELSE {})

\* The handler only serves a controller whose pin is enabled, and the main loop only
\* touches the FIFO of one whose pin is masked.
HandlerServesEnabled == isr.pc \in {"handle", "transfer"} => isr.c \in irqOn
DrainIsMasked == main.pc \in {"fifo", "restore"} => main.c \notin irqOn

\* A transaction of the handler is for a cause the chip still has, and every cause was
\* raised, or left over from the last session.
WorkIsRaised ==
    /\ isr.pc = "transfer" => work[isr.c] > 0
    /\ \A c \in Controllers : work[c] <= raises + 1

BoardInv ==
    /\ TypeOK /\ MaskingProgress /\ BusIsAlone /\ SelectedIsInTransfer
    /\ HandlerServesEnabled /\ DrainIsMasked /\ WorkIsRaised

-----------------------------------------------------------------------------
MainType ==
    [pc : {"mask", "select", "transfer", "unmask", "idle", "fifo", "restore"},
     job : {"pins", "config", "mode", "send", "events"},
     c : Controllers, try : 1..MaxTries, pin : Controllers, answer : 0..FifoSize]

\* Whatever setup does when it is done with a try, it does it with the pin at 0.
LEMMA SetupFailsType ==
    ASSUME NEW m \in MainType
    PROVE  /\ NextController(m) \in MainType /\ SetupFails(m) \in MainType
           /\ NextController(m).pc \in {"mask", "idle"} /\ NextController(m).pin = m.pin
           /\ SetupFails(m).pc \in {"mask", "idle"} /\ SetupFails(m).pin = m.pin
<1>1. /\ m.c \in 0..N-1 /\ m.try \in 1..MaxTries /\ m.pin \in Controllers
      /\ N \in Nat /\ N > 0 /\ MaxTries \in Nat /\ MaxTries > 0
    BY BoardAssumption DEF MainType, Controllers
<1>2. /\ NextController(m) \in MainType
      /\ NextController(m).pc \in {"mask", "idle"} /\ NextController(m).pin = m.pin
    <2>1. CASE m.c + 1 < N
        <3>1. NextController(m) = [m EXCEPT !.pc = "mask", !.job = "pins", !.c = m.c + 1, !.try = 1]
            BY <2>1 DEF NextController
        <3>2. m.c + 1 \in Controllers /\ 1 \in 1..MaxTries
            BY <1>1, <2>1 DEF Controllers
        <3>3. QED  BY <3>1, <3>2 DEF MainType
    <2>2. CASE ~(m.c + 1 < N)
        <3>1. NextController(m) = [m EXCEPT !.pc = "idle", !.job = "events", !.try = 1]
            BY <2>2 DEF NextController
        <3>2. 1 \in 1..MaxTries
            BY <1>1
        <3>3. QED  BY <3>1, <3>2 DEF MainType
    <2>3. QED  BY <2>1, <2>2
<1>3. /\ SetupFails(m) \in MainType
      /\ SetupFails(m).pc \in {"mask", "idle"} /\ SetupFails(m).pin = m.pin
    <2>1. CASE m.try < MaxTries
        <3>1. SetupFails(m) = [m EXCEPT !.pc = "mask", !.job = "pins", !.try = m.try + 1]
            BY <2>1 DEF SetupFails
        <3>2. m.try + 1 \in 1..MaxTries
            BY <1>1, <2>1
        <3>3. QED  BY <3>1, <3>2 DEF MainType
    <2>2. CASE ~(m.try < MaxTries)
        BY <1>2, <2>2 DEF SetupFails
    <2>3. QED  BY <2>1, <2>2
<1>4. QED  BY <1>2, <1>3

\* The pin that follows a pin is the pin of a controller.
LEMMA NextPinType ==
    ASSUME main \in MainType
    PROVE  NextPin \in Controllers
BY BoardAssumption DEF NextPin, MainType, Controllers

\* At boot every pin is masked and nobody is on the bus.
LEMMA InitBoardInv == Init => BoardInv
<1> SUFFICES ASSUME Init PROVE BoardInv
    OBVIOUS
<1>1. 0 \in Controllers /\ 1 \in 1..MaxTries /\ 0 \in 0..FifoSize /\ 0 \in 0..N
    BY BoardAssumption DEF Controllers
<1>2. work \in [Controllers -> 0..MaxRaises + 1] /\ \A c \in Controllers : work[c] <= raises + 1
    <2>1. raises = 0 /\ 1 \in 0..MaxRaises + 1 /\ 0 \in 0..MaxRaises + 1
        BY BoardAssumption DEF Init
    <2>2. QED  BY <2>1 DEF Init
<1>3. TypeOK
    <2>1. bank \in BOOLEAN /\ irqOn \subseteq Controllers /\ selected = {}
          /\ live \subseteq Controllers /\ asked \subseteq Controllers
        BY DEF Init
    <2>2. raises \in 0..MaxRaises
        BY BoardAssumption DEF Init
    <2>3. /\ table \in [Controllers -> {"zero", "initialised", "running"}]
          /\ free \in [Controllers -> 0..FifoSize]
        BY <1>1 DEF Init
    <2>4. isr \in [pc : {"idle", "scan", "handle", "transfer"}, c : 0..N] /\ main \in MainType
        BY <1>1 DEF Init, MainType
    <2>5. QED
        BY <1>2, <2>1, <2>2, <2>3, <2>4 DEF TypeOK, MainType
<1>4. MaskingProgress /\ BusIsAlone
    BY DEF Init, MaskingProgress, BusIsAlone
<1>5. SelectedIsInTransfer /\ HandlerServesEnabled /\ DrainIsMasked
    BY DEF Init, SelectedIsInTransfer, HandlerServesEnabled, DrainIsMasked
<1>6. WorkIsRaised
    BY <1>2 DEF Init, WorkIsRaised
<1>7. QED
    BY <1>3, <1>4, <1>5, <1>6 DEF BoardInv

\* No step of a chip, of the handler or of the main program breaks the invariant.
LEMMA NextBoardInv == BoardInv /\ [Next]_vars => BoardInv'
<1> SUFFICES ASSUME BoardInv, [Next]_vars PROVE BoardInv'
    OBVIOUS
<1> USE DEF BoardInv
<1>m. main \in MainType
    BY DEF TypeOK, MainType
<1>i. isr \in [pc : {"idle", "scan", "handle", "transfer"}, c : 0..N]
    BY DEF TypeOK
<1>n. N \in Nat /\ N > 0 /\ Controllers = 0..N-1 /\ MaxRaises \in Nat /\ FifoSize \in Nat
    BY BoardAssumption DEF Controllers
<1>1. ASSUME NEW c \in Controllers, ChipRaise(c)
      PROVE  BoardInv'
    <2>1. /\ UNCHANGED <<bank, irqOn, live, asked, selected, table, free, isr, main>>
          /\ raises' = raises + 1 /\ raises < MaxRaises /\ raises \in 0..MaxRaises
          /\ work' = [work EXCEPT ![c] = work[c] + 1]
          /\ work \in [Controllers -> 0..MaxRaises + 1]
        BY <1>1 DEF ChipRaise, TypeOK
    <2>2. \A d \in Controllers : work'[d] \in 0..MaxRaises + 1 /\ work'[d] <= raises' + 1 /\ work'[d] >= work[d]
        BY <1>n, <2>1 DEF WorkIsRaised
    <2>3. TypeOK'
        <3>1. work' \in [Controllers -> 0..MaxRaises + 1] /\ raises' \in 0..MaxRaises
            BY <1>n, <2>1, <2>2
        <3>2. QED  BY <2>1, <3>1 DEF TypeOK
    <2>4. WorkIsRaised'
        <3>1. isr.pc = "transfer" => isr.c \in Controllers
            BY DEF HandlerServesEnabled, TypeOK
        <3>2. QED  BY <1>n, <2>1, <2>2, <3>1 DEF WorkIsRaised
    <2>5. QED
        BY <2>1, <2>3, <2>4 DEF MaskingProgress, BusIsAlone, SelectedIsInTransfer,
           HandlerServesEnabled, DrainIsMasked
<1>l. ASSUME NEW c \in Controllers, ChipLive(c)
      PROVE  BoardInv'
    <2>1. /\ UNCHANGED <<bank, irqOn, asked, work, raises, selected, table, free, isr, main>>
          /\ live' \subseteq Controllers
        BY <1>l DEF ChipLive, TypeOK
    <2>2. TypeOK'
        BY <2>1 DEF TypeOK
    <2>3. QED
        BY <2>1, <2>2 DEF MaskingProgress, BusIsAlone, SelectedIsInTransfer, HandlerServesEnabled,
           DrainIsMasked, WorkIsRaised
<1>2. CASE Isr
    <2>1. UNCHANGED <<bank, irqOn, live, asked, raises, table, main>>
        BY <1>2 DEF Isr, IsrEnter, IsrScan, IsrSelect, IsrTransfer, IsrHandled, hardware
    <2>2. main.pc \notin {"select", "transfer"}
        BY <1>2 DEF Isr, IsrEnter, IsrScan, IsrSelect, IsrTransfer, IsrHandled, Interrupted, BusIsAlone
    <2>3. MaskingProgress' /\ DrainIsMasked' /\ BusIsAlone'
        BY <2>1, <2>2 DEF MaskingProgress, DrainIsMasked, BusIsAlone
    <2>4. isr.pc \in {"handle", "transfer"} => isr.c \in Controllers
        BY DEF HandlerServesEnabled, TypeOK
    <2>5. CASE IsrEnter
        <3>1. isr' = [pc |-> "scan", c |-> 0] /\ UNCHANGED <<work, selected, free>> /\ isr.pc = "idle"
            BY <2>5 DEF IsrEnter, hardware
        <3>2. isr' \in [pc : {"idle", "scan", "handle", "transfer"}, c : 0..N] /\ isr'.pc = "scan"
            BY <1>n, <3>1
        <3>3. TypeOK'
            BY <2>1, <3>1, <3>2 DEF TypeOK
        <3>4. SelectedIsInTransfer' /\ HandlerServesEnabled' /\ WorkIsRaised'
            BY <2>1, <2>2, <3>1, <3>2 DEF SelectedIsInTransfer, HandlerServesEnabled, WorkIsRaised
        <3>5. QED  BY <2>3, <3>3, <3>4
    <2>6. CASE IsrScan
        <3>1. UNCHANGED <<work, selected, free>> /\ isr.pc = "scan"
            BY <2>6 DEF IsrScan, hardware
        <3>2. /\ isr' \in [pc : {"idle", "scan", "handle"}, c : 0..N]
              /\ isr'.pc = "handle" => isr'.c \in irqOn
            <4>1. CASE isr.c = N
                BY <1>i, <1>n, <2>6, <4>1 DEF IsrScan
            <4>2. CASE isr.c # N /\ Asserted(isr.c)
                <5>1. isr' = [pc |-> "handle", c |-> isr.c] /\ isr.c \in irqOn
                    BY <1>i, <2>6, <4>2 DEF IsrScan, Asserted
                <5>2. QED  BY <1>i, <5>1
            <4>3. CASE isr.c # N /\ ~Asserted(isr.c)
                <5>1. isr' = [pc |-> "scan", c |-> isr.c + 1] /\ isr.c + 1 \in 0..N
                    BY <1>i, <1>n, <2>6, <4>3 DEF IsrScan
                <5>2. QED  BY <5>1
            <4>4. QED  BY <4>1, <4>2, <4>3
        <3>3. QED  BY <2>1, <2>2, <2>3, <3>1, <3>2 DEF TypeOK, SelectedIsInTransfer, HandlerServesEnabled, WorkIsRaised
    <2>7. CASE IsrSelect
        <3>1. /\ UNCHANGED <<work, free>> /\ isr.pc = "handle" /\ work[isr.c] > 0
              /\ isr' = [pc |-> "transfer", c |-> isr.c] /\ selected' = selected \cup {<<"isr", isr.c>>}
            BY <1>i, <2>7 DEF IsrSelect, Asserted, hardware
        <3>2. isr.c \in Controllers
            BY <2>4, <3>1
        <3>3. TypeOK'
            BY <1>i, <2>1, <3>1, <3>2 DEF TypeOK
        <3>4. SelectedIsInTransfer'
            BY <2>1, <2>2, <3>1 DEF SelectedIsInTransfer
        <3>5. QED  BY <2>1, <2>2, <2>3, <3>1, <3>3, <3>4 DEF HandlerServesEnabled, WorkIsRaised
    <2>8. CASE IsrTransfer
        <3>1. /\ isr.pc = "transfer" /\ isr' = [pc |-> "handle", c |-> isr.c]
              /\ selected' = selected \ {<<"isr", isr.c>>}
              /\ work' = [work EXCEPT ![isr.c] = work[isr.c] - 1]
              /\ free' = [free EXCEPT ![isr.c] = IF free[isr.c] = 0 THEN 0 ELSE free[isr.c] - 1] \/ free' = free
            BY <1>i, <2>8 DEF IsrTransfer
        <3>2. isr.c \in Controllers
            BY <2>4, <3>1
        <3>3. free' \in [Controllers -> 0..FifoSize]
            <4>1. free \in [Controllers -> 0..FifoSize]
                BY DEF TypeOK
            <4>2. free[isr.c] \in 0..FifoSize
                BY <3>2, <4>1
            <4>3. (IF free[isr.c] = 0 THEN 0 ELSE free[isr.c] - 1) \in 0..FifoSize
                BY <1>n, <4>2
            <4>4. [free EXCEPT ![isr.c] = IF free[isr.c] = 0 THEN 0 ELSE free[isr.c] - 1]
                      \in [Controllers -> 0..FifoSize]
                BY <3>2, <4>1, <4>3
            <4>5. QED  BY <3>1, <4>1, <4>4
        <3>4. /\ work' \in [Controllers -> 0..MaxRaises + 1]
              /\ \A c \in Controllers : work'[c] <= work[c]
            <4>1. work \in [Controllers -> 0..MaxRaises + 1] /\ work[isr.c] > 0
                BY <3>1 DEF TypeOK, WorkIsRaised
            <4>2. work[isr.c] - 1 \in 0..MaxRaises + 1 /\ work[isr.c] - 1 <= work[isr.c]
                BY <1>n, <3>2, <4>1
            <4>3. work' \in [Controllers -> 0..MaxRaises + 1]
                BY <3>1, <3>2, <4>1, <4>2
            <4>4. ASSUME NEW c \in Controllers PROVE work'[c] <= work[c]
                BY <1>n, <3>1, <3>2, <4>1, <4>2
            <4>5. QED  BY <4>3, <4>4
        <3>5. selected' = {}
            <4>1. selected = {<<"isr", isr.c>>}
                BY <2>2, <3>1 DEF SelectedIsInTransfer
            <4>2. QED  BY <3>1, <4>1
        <3>6. TypeOK'
            <4>1. isr' \in [pc : {"idle", "scan", "handle", "transfer"}, c : 0..N]
                BY <1>i, <3>1
            <4>2. QED  BY <2>1, <3>3, <3>4, <3>5, <4>1 DEF TypeOK
        <3>7. WorkIsRaised'
            <4>1. isr'.pc # "transfer"
                BY <3>1
            <4>2. raises' \in Nat /\ \A c \in Controllers : work'[c] <= raises' + 1
                <5>1. work \in [Controllers -> 0..MaxRaises + 1] /\ raises \in 0..MaxRaises /\ raises' = raises
                    BY <2>1 DEF TypeOK
                <5>2. ASSUME NEW c \in Controllers PROVE work'[c] <= raises' + 1
                    <6>1. work[c] \in Nat /\ work'[c] \in Nat /\ work[c] <= raises + 1
                        BY <1>n, <3>4, <5>1 DEF WorkIsRaised
                    <6>2. QED  BY <1>n, <3>4, <5>1, <6>1
                <5>3. QED  BY <1>n, <5>1, <5>2
            <4>3. QED  BY <4>1, <4>2 DEF WorkIsRaised
        <3>8. SelectedIsInTransfer'
            BY <2>1, <2>2, <3>1, <3>5 DEF SelectedIsInTransfer
        <3>9. QED  BY <2>1, <2>3, <3>1, <3>6, <3>7, <3>8 DEF HandlerServesEnabled
    <2>9. CASE IsrHandled
        <3>1. /\ UNCHANGED <<work, selected, free>> /\ isr.pc = "handle"
              /\ isr' = [pc |-> "scan", c |-> isr.c + 1]
            BY <2>9 DEF IsrHandled, hardware
        <3>2. isr.c + 1 \in 0..N
            BY <1>n, <2>4, <3>1
        <3>3. QED  BY <2>1, <2>2, <2>3, <3>1, <3>2 DEF TypeOK, SelectedIsInTransfer, HandlerServesEnabled, WorkIsRaised
    <2>10. QED  BY <1>2, <2>5, <2>6, <2>7, <2>8, <2>9 DEF Isr
<1>3. CASE Step
    <2> USE DEF Step, Setup, MainAt
    <2>1. isr.pc = "idle" /\ isr' = isr /\ raises' = raises
        BY <1>3 DEF MaskPin, SpiSelect, SpiFails, PinsDone, ConfigDone, ModeDone, SendDone,
           UnmaskPin, DrainFifo, RestorePin, hardware
    <2>2. HandlerServesEnabled'
        BY <2>1 DEF HandlerServesEnabled
    <2>3. CASE MaskPin
        <3>1. /\ main.pc = "mask" /\ irqOn' = irqOn \ {main.pin}
              /\ UNCHANGED <<bank, live, asked, work, selected, table, free>>
              /\ main' = [main EXCEPT !.pin = NextPin, !.pc = IF NextPin = 0 THEN "select" ELSE "mask"]
            BY <2>3 DEF MaskPin, hardware
        <3>2. main' \in MainType /\ main'.pin = NextPin /\ main'.pc = IF NextPin = 0 THEN "select" ELSE "mask"
            BY <1>m, <3>1, NextPinType DEF MainType
        <3>3. TypeOK'
            BY <2>1, <3>1, <3>2 DEF TypeOK, MainType
        <3>4. /\ NextPin # 0 => \A c \in irqOn' : c >= NextPin
              /\ NextPin = 0 => irqOn' = {}
            <4>1. irqOn \subseteq 0..N-1 /\ main.pin \in 0..N-1 /\ \A c \in irqOn : c >= main.pin
                BY <1>m, <1>n, <3>1 DEF TypeOK, MainType, MaskingProgress
            <4>2. \A c \in irqOn' : c \in 0..N-1 /\ c > main.pin
                BY <3>1, <4>1
            <4>3. QED  BY <1>n, <4>1, <4>2 DEF NextPin
        <3>5. QED
            BY <2>1, <2>2, <3>1, <3>2, <3>3, <3>4 DEF MaskingProgress, BusIsAlone,
               SelectedIsInTransfer, DrainIsMasked, WorkIsRaised
    <2>4. CASE SpiSelect
        <3>1. /\ main.pc = "select" /\ selected' = selected \cup {<<"main", main.c>>}
              /\ main' = [main EXCEPT !.pc = "transfer"] /\ UNCHANGED <<irqOn, table, free>>
              /\ bank' = (bank \/ main.job = "pins")
              /\ live' = IF main.job = "pins" THEN live \ {main.c} ELSE live
              /\ work' = IF main.job = "pins" THEN [work EXCEPT ![main.c] = 0] ELSE work
              /\ AskForMode
            BY <2>4 DEF SpiSelect
        <3>2. main' \in MainType /\ main'.pc = "transfer" /\ main'.c = main.c /\ main'.pin = main.pin
            BY <1>m, <3>1 DEF MainType
        <3>3. /\ work' \in [Controllers -> 0..MaxRaises + 1]
              /\ \A c \in Controllers : work'[c] <= raises + 1
            <4>1. 0 \in 0..MaxRaises + 1 /\ 0 <= raises + 1 /\ main.c \in Controllers
                BY <1>m, <1>n DEF TypeOK, MainType
            <4>2. /\ work \in [Controllers -> 0..MaxRaises + 1]
                  /\ \A c \in Controllers : work[c] <= raises + 1
                BY DEF TypeOK, WorkIsRaised
            <4>3. QED  BY <3>1, <4>1, <4>2
        <3>4. selected' = {<<"main", main.c>>}
            BY <2>1, <3>1 DEF SelectedIsInTransfer
        <3>5. TypeOK'
            <4>1. bank' \in BOOLEAN /\ live' \subseteq Controllers /\ asked' \subseteq Controllers
                BY <1>m, <3>1 DEF TypeOK, MainType, AskForMode
            <4>2. selected' \subseteq {"main", "isr"} \X Controllers
                BY <1>m, <3>4 DEF MainType
            <4>3. QED  BY <2>1, <3>1, <3>2, <3>3, <4>1, <4>2 DEF TypeOK, MainType
        <3>6. SelectedIsInTransfer'
            BY <2>1, <3>2, <3>4 DEF SelectedIsInTransfer
        <3>7. QED
            BY <2>1, <2>2, <3>1, <3>2, <3>3, <3>5, <3>6 DEF MaskingProgress, BusIsAlone,
               DrainIsMasked, WorkIsRaised
    <2>5. ASSUME Setup \/ SendDone
          PROVE  BoardInv'
        <3> DEFINE TransferEnds == {"mask", "idle", "select", "unmask"}
        <3>1. /\ main.pc = "transfer" /\ selected' = selected \ {<<"main", main.c>>}
              /\ UNCHANGED <<bank, irqOn, live, asked, work>>
            BY <2>5 DEF SpiFails, PinsDone, ConfigDone, ModeDone, SendDone, hardware
        <3>2. main' \in MainType /\ main'.pc \in TransferEnds /\ main'.pin = main.pin
            <4>1. CASE SpiFails
                BY <1>m, <4>1, SetupFailsType DEF SpiFails
            <4>2. CASE PinsDone \/ ConfigDone \/ ModeDone \/ SendDone
                BY <1>m, <4>2 DEF PinsDone, ConfigDone, ModeDone, SendDone, MainType
            <4>3. QED  BY <2>5, <4>1, <4>2
        <3>3. /\ table' \in [Controllers -> {"zero", "initialised", "running"}]
              /\ free' \in [Controllers -> 0..FifoSize]
            <4>1. /\ main.c \in Controllers /\ FifoSize \in 0..FifoSize
                  /\ table \in [Controllers -> {"zero", "initialised", "running"}]
                  /\ free \in [Controllers -> 0..FifoSize]
                BY <1>m, <1>n DEF TypeOK, MainType
            <4>2. CASE SpiFails \/ PinsDone \/ SendDone
                BY <4>1, <4>2 DEF SpiFails, PinsDone, SendDone, hardware
            <4>3. CASE ConfigDone
                BY <4>1, <4>3 DEF ConfigDone, hardware
            <4>4. CASE ModeDone
                BY <4>1, <4>4 DEF ModeDone
            <4>5. QED  BY <2>5, <4>2, <4>3, <4>4
        <3>4. irqOn = {} /\ main.pin = 0
            BY <3>1 DEF BusIsAlone, MaskingProgress
        <3>5. selected' = {}
            BY <2>1, <3>1 DEF SelectedIsInTransfer
        <3>6. TypeOK'
            BY <2>1, <3>1, <3>2, <3>3, <3>5 DEF TypeOK, MainType
        <3>7. SelectedIsInTransfer'
            BY <2>1, <3>2, <3>5 DEF SelectedIsInTransfer
        <3>8. QED
            BY <2>1, <2>2, <3>1, <3>2, <3>4, <3>6, <3>7 DEF MaskingProgress, BusIsAlone,
               DrainIsMasked, WorkIsRaised
    <2>6. CASE UnmaskPin
        <3> DEFINE m == [main EXCEPT !.pin = NextPin]
        <3>1. /\ main.pc = "unmask" /\ irqOn' = irqOn \cup {main.pin}
              /\ UNCHANGED <<bank, live, asked, work, selected, table, free>>
              /\ main' = IF NextPin # 0 THEN m ELSE IF InSetup THEN NextController(m)
                         ELSE [m EXCEPT !.pc = "idle", !.job = "events"]
            BY <2>6 DEF UnmaskPin, hardware
        <3>2. m \in MainType /\ m.pin = NextPin /\ m.pc = "unmask" /\ main.pin \in Controllers
            BY <1>m, <3>1, NextPinType DEF MainType
        <3>3. /\ main' \in MainType /\ main'.pc \in {"unmask", "mask", "idle"}
              /\ main'.pc # "unmask" => main'.pin = 0
            <4>1. CASE NextPin # 0
                BY <3>1, <3>2, <4>1
            <4>2. CASE NextPin = 0 /\ InSetup
                BY <3>1, <3>2, <4>2, SetupFailsType
            <4>3. CASE NextPin = 0 /\ ~InSetup
                <5>1. main' = [m EXCEPT !.pc = "idle", !.job = "events"]
                    BY <3>1, <4>3
                <5>2. QED  BY <3>2, <4>3, <5>1 DEF MainType
            <4>4. QED  BY <4>1, <4>2, <4>3
        <3>4. irqOn' \subseteq Controllers
            BY <3>1, <3>2 DEF TypeOK
        <3>5. TypeOK'
            BY <2>1, <3>1, <3>3, <3>4 DEF TypeOK, MainType
        <3>6. MaskingProgress'
            BY <1>n, <3>3, <3>4 DEF MaskingProgress
        <3>7. QED
            BY <2>1, <2>2, <3>1, <3>3, <3>5, <3>6 DEF BusIsAlone, SelectedIsInTransfer,
               DrainIsMasked, WorkIsRaised
    <2>7. CASE DrainFifo
        <3>1. /\ main.pc = "fifo" /\ UNCHANGED <<bank, irqOn, live, asked, work, selected, table>>
              /\ main' = [main EXCEPT !.pc = "restore", !.answer = FifoSize - free[main.c]]
              /\ free' = [free EXCEPT ![main.c] = FifoSize]
            BY <2>7 DEF DrainFifo, hardware
        <3>2. /\ FifoSize - free[main.c] \in 0..FifoSize
              /\ free' \in [Controllers -> 0..FifoSize]
            <4>1. free \in [Controllers -> 0..FifoSize] /\ main.c \in Controllers
                BY <1>m DEF TypeOK, MainType
            <4>2. free[main.c] \in 0..FifoSize /\ FifoSize \in 0..FifoSize
                BY <1>n, <4>1
            <4>3. FifoSize - free[main.c] \in 0..FifoSize
                BY <1>n, <4>2
            <4>4. QED  BY <3>1, <4>1, <4>2, <4>3
        <3>3. /\ main' \in MainType /\ main'.pc = "restore"
              /\ main'.c = main.c /\ main'.pin = main.pin
            BY <1>m, <3>1, <3>2 DEF MainType
        <3>4. TypeOK'
            BY <2>1, <3>1, <3>2, <3>3 DEF TypeOK, MainType
        <3>5. QED
            BY <2>1, <2>2, <3>1, <3>3, <3>4 DEF MaskingProgress, BusIsAlone, SelectedIsInTransfer,
               DrainIsMasked, WorkIsRaised
    <2>8. CASE RestorePin
        <3>1. /\ main.pc = "restore" /\ UNCHANGED <<bank, live, asked, work, selected, table, free>>
              /\ irqOn' = irqOn \cup {main.c} /\ main' = [main EXCEPT !.pc = "idle"]
            BY <2>8 DEF RestorePin, hardware
        <3>2. main' \in MainType /\ main'.pc = "idle" /\ main'.pin = main.pin /\ main.c \in Controllers
            BY <1>m, <3>1 DEF MainType
        <3>3. TypeOK'
            BY <2>1, <3>1, <3>2 DEF TypeOK, MainType
        <3>4. QED
            BY <2>1, <2>2, <3>1, <3>2, <3>3 DEF MaskingProgress, BusIsAlone, SelectedIsInTransfer,
               DrainIsMasked, WorkIsRaised
    <2>9. QED  BY <1>3, <2>3, <2>4, <2>5, <2>6, <2>7, <2>8
<1>4. ASSUME NEW c \in Controllers, SendFrame(c) \/ GetEvents(c)
      PROVE  BoardInv'
    <2>1. /\ isr.pc = "idle" /\ main.pc = "idle" /\ isr' = isr
          /\ UNCHANGED <<bank, live, asked, work, raises, selected, table, free>>
        BY <1>4 DEF SendFrame, GetEvents, MainAt, hardware
    <2>2. /\ main' \in MainType /\ main'.c = c /\ main'.pin = main.pin /\ main.pin = 0
          /\ \/ main'.pc = "mask" /\ irqOn' = irqOn
             \/ main'.pc = "fifo" /\ irqOn' = irqOn \ {c}
        <3>1. 0 \in 0..FifoSize
            BY <1>n
        <3>2. main.pin = 0
            BY <2>1 DEF MaskingProgress
        <3>3. CASE SendFrame(c)
            BY <1>m, <3>1, <3>2, <3>3 DEF SendFrame, MainType
        <3>4. CASE GetEvents(c)
            BY <1>m, <3>1, <3>2, <3>4 DEF GetEvents, MainType
        <3>5. QED  BY <1>4, <3>3, <3>4
    <2>3. irqOn' \subseteq irqOn
        BY <2>2
    <2>4. TypeOK'
        BY <2>1, <2>2, <2>3 DEF TypeOK, MainType
    <2>5. MaskingProgress'
        BY <1>n, <2>2, <2>3 DEF MaskingProgress, TypeOK
    <2>6. QED
        BY <2>1, <2>2, <2>4, <2>5 DEF BusIsAlone, SelectedIsInTransfer, HandlerServesEnabled,
           DrainIsMasked, WorkIsRaised
<1>5. CASE UNCHANGED vars
    BY <1>5 DEF vars, TypeOK, MaskingProgress, BusIsAlone, SelectedIsInTransfer,
       HandlerServesEnabled, DrainIsMasked, WorkIsRaised
<1>6. QED  BY <1>1, <1>l, <1>2, <1>3, <1>4, <1>5 DEF Next, Command

\* The invariant holds in every reachable state.
LEMMA BoardInvariance == Spec => []BoardInv
BY InitBoardInv, NextBoardInv, PTL DEF Spec

-----------------------------------------------------------------------------
\* Every variable keeps its type, however many controllers there are, however often
\* their setup fails and whatever interrupts.
THEOREM BoardTypeCorrect == Spec => []TypeOK
<1>1. BoardInv => TypeOK
    BY DEF BoardInv
<1>2. QED  BY <1>1, BoardInvariance, PTL

\* No two transactions are ever under way on the shared bus: between the main program
\* and the handler, or for two chips at once.
THEOREM SpiIsExclusive == Spec => []SpiExclusive
<1>1. ASSUME BoardInv PROVE SpiExclusive
    <2>1. \/ selected = {} \/ selected = {<<"main", main.c>>} \/ selected = {<<"isr", isr.c>>}
        BY <1>1 DEF BoardInv, BusIsAlone, SelectedIsInTransfer
    <2>2. Cardinality(selected) \in {0, 1}
        BY <2>1, FS_EmptySet, FS_Singleton
    <2>3. QED  BY <2>2 DEF SpiExclusive
<1>2. QED  BY <1>1, BoardInvariance, PTL

\* The handler never works on the FIFO that the main loop drains, although it goes on
\* serving every other controller meanwhile.
THEOREM FifoIsExclusive == Spec => []FifoExclusive
<1>1. ASSUME BoardInv PROVE FifoExclusive
    BY <1>1 DEF BoardInv, HandlerServesEnabled, DrainIsMasked, FifoExclusive
<1>2. QED  BY <1>1, BoardInvariance, PTL

-----------------------------------------------------------------------------
(* What the host can rely on once setup is over.                           *)

\* The controllers whose latest try began with the hard reset of their chip.
WasReset(c) ==
    \/ Ready \/ c < main.c
    \/ c = main.c /\ (main.job \in {"config", "mode"} \/ main.pc = "transfer")

\* A reset chip stays silent until its table is initialised, and is not asked for
\* another mode before.
SilentUntilInitialised ==
    \A c \in Controllers :
        WasReset(c) /\ table[c] = "zero" => c \notin live /\ c \notin asked /\ work[c] = 0

ModeIsLast == main.job = "mode" => table[main.c] # "zero"

\* The jobs that the main program is in at each point.
JobAtPoint ==
    /\ main.pc \in {"idle", "fifo", "restore"} => main.job = "events"
    /\ main.pc = "mask" => main.job \in {"pins", "send"}
    /\ main.pc \in {"select", "transfer"} => main.job # "events"
    /\ main.job = "config" => main.pc \in {"select", "transfer"}
    /\ main.pc = "unmask" => main.job \in {"mode", "send"}

ReadyInv == BoardInv /\ JobAtPoint /\ ModeIsLast /\ SilentUntilInitialised

\* Giving up a try, or a controller, leaves every chip that counts as reset a chip
\* that was one before.
LEMMA SetupFailsReset ==
    ASSUME NEW m \in MainType, NEW c \in Controllers,
           NEW f \in {NextController(m), SetupFails(m)},
           \/ f.job \in {"send", "events"} \/ c < f.c
           \/ c = f.c /\ (f.job \in {"config", "mode"} \/ f.pc = "transfer")
    PROVE  c <= m.c
<1>1. /\ m.c \in 0..N-1 /\ c \in 0..N-1 /\ N \in Nat /\ N > 0
    BY BoardAssumption DEF MainType, Controllers
<1>2. CASE m.c + 1 < N /\ f = NextController(m)
    <2>1. f = [m EXCEPT !.pc = "mask", !.job = "pins", !.c = m.c + 1, !.try = 1]
        BY <1>2 DEF NextController
    <2>2. f.job = "pins" /\ f.pc = "mask" /\ f.c = m.c + 1
        BY <2>1 DEF MainType
    <2>3. QED  BY <1>1, <2>2
<1>3. CASE ~(m.c + 1 < N)
    BY <1>1, <1>3
<1>4. CASE m.try < MaxTries /\ f = SetupFails(m)
    <2>1. f = [m EXCEPT !.pc = "mask", !.job = "pins", !.try = m.try + 1]
        BY <1>4 DEF SetupFails
    <2>2. f.job = "pins" /\ f.pc = "mask" /\ f.c = m.c
        BY <2>1 DEF MainType
    <2>3. QED  BY <1>1, <2>2
<1>5. CASE ~(m.try < MaxTries) /\ f = SetupFails(m)
    BY <1>2, <1>3, <1>5 DEF SetupFails
<1>6. QED  BY <1>2, <1>3, <1>4, <1>5

\* The controller that setup turns to, and what it does next.
LEMMA SetupFailsJob ==
    ASSUME NEW m \in MainType, NEW f \in {NextController(m), SetupFails(m)}
    PROVE  (f.pc = "mask" /\ f.job = "pins") \/ (f.pc = "idle" /\ f.job = "events")
<1>1. ASSUME NEW g, g = NextController(m)
      PROVE  (g.pc = "mask" /\ g.job = "pins") \/ (g.pc = "idle" /\ g.job = "events")
    BY <1>1 DEF NextController, MainType
<1>2. ASSUME NEW g, g = SetupFails(m)
      PROVE  (g.pc = "mask" /\ g.job = "pins") \/ (g.pc = "idle" /\ g.job = "events")
    BY <1>1, <1>2 DEF SetupFails, MainType
<1>3. QED  BY <1>1, <1>2

\* The jobs follow each other as setup and the commands order them.
LEMMA NextJobAtPoint ==
    ASSUME BoardInv, JobAtPoint, [Next]_vars
    PROVE  JobAtPoint'
<1>m. main \in MainType
    BY DEF BoardInv, TypeOK, MainType
<1>1. CASE main' = main
    BY <1>1 DEF JobAtPoint
<1>2. CASE Step
    <2>1. CASE MaskPin \/ SpiSelect \/ PinsDone \/ ConfigDone \/ ModeDone \/ SendDone \/ DrainFifo \/ RestorePin
        BY <1>m, <2>1 DEF MaskPin, SpiSelect, PinsDone, ConfigDone, ModeDone, SendDone, DrainFifo,
           RestorePin, MainAt, JobAtPoint, MainType
    <2>2. CASE SpiFails
        BY <1>m, <2>2, SetupFailsJob DEF SpiFails, JobAtPoint
    <2>3. CASE UnmaskPin
        <3> DEFINE m == [main EXCEPT !.pin = NextPin]
        <3>1. m \in MainType /\ m.pc = "unmask" /\ m.job = main.job
            BY <1>m, <2>3, NextPinType DEF UnmaskPin, MainAt, MainType
        <3>2. CASE NextPin # 0
            BY <1>m, <2>3, <3>1, <3>2 DEF UnmaskPin, MainAt, JobAtPoint
        <3>3. CASE NextPin = 0 /\ InSetup
            <4>1. main' = NextController(m)
                BY <2>3, <3>3 DEF UnmaskPin
            <4>2. QED  BY <3>1, <4>1, SetupFailsJob DEF JobAtPoint
        <3>4. CASE NextPin = 0 /\ ~InSetup
            <4>1. main' = [m EXCEPT !.pc = "idle", !.job = "events"]
                BY <2>3, <3>4 DEF UnmaskPin
            <4>2. main'.pc = "idle" /\ main'.job = "events"
                BY <3>1, <4>1 DEF MainType
            <4>3. QED  BY <4>2 DEF JobAtPoint
        <3>5. QED  BY <3>2, <3>3, <3>4
    <2>4. QED  BY <1>2, <2>1, <2>2, <2>3 DEF Step, Setup
<1>3. ASSUME NEW c \in Controllers, SendFrame(c) \/ GetEvents(c)
      PROVE  JobAtPoint'
    BY <1>m, <1>3 DEF SendFrame, GetEvents, MainAt, JobAtPoint, MainType
<1>4. QED
    BY <1>1, <1>2, <1>3 DEF Next, Command, ChipRaise, ChipLive, Isr, IsrEnter, IsrScan, IsrSelect, IsrTransfer,
       IsrHandled, vars

\* The mode stage of a controller's setup begins when its table is initialised.
LEMMA NextModeIsLast ==
    ASSUME BoardInv, JobAtPoint, ModeIsLast, [Next]_vars
    PROVE  ModeIsLast'
<1>m. main \in MainType /\ table \in [Controllers -> {"zero", "initialised", "running"}]
    BY DEF BoardInv, TypeOK, MainType
<1>1. CASE UNCHANGED <<main, table>>
    BY <1>1 DEF ModeIsLast
<1>2. CASE Step
    <2>1. CASE MaskPin \/ SpiSelect
        <3>1. main'.job = main.job /\ main'.c = main.c /\ table' = table
            BY <1>m, <2>1 DEF MaskPin, SpiSelect, MainType
        <3>2. QED  BY <3>1 DEF ModeIsLast
    <2>2. CASE PinsDone \/ SendDone \/ DrainFifo \/ RestorePin
        <3>1. main'.job # "mode"
            BY <1>m, <2>2 DEF PinsDone, SendDone, DrainFifo, RestorePin, MainAt, MainType, JobAtPoint
        <3>2. QED  BY <3>1 DEF ModeIsLast
    <2>3. CASE ConfigDone \/ ModeDone
        <3>1. main'.c = main.c /\ table'[main.c] # "zero"
            BY <1>m, <2>3 DEF ConfigDone, ModeDone, MainType
        <3>2. QED  BY <3>1 DEF ModeIsLast
    <2>4. CASE SpiFails
        <3>1. main'.job # "mode"
            BY <1>m, <2>4, SetupFailsJob DEF SpiFails
        <3>2. QED  BY <3>1 DEF ModeIsLast
    <2>5. CASE UnmaskPin
        <3> DEFINE m == [main EXCEPT !.pin = NextPin]
        <3>1. m \in MainType /\ m.job = main.job /\ m.c = main.c /\ table' = table
            BY <1>m, <2>5, NextPinType DEF UnmaskPin, MainType
        <3>2. CASE NextPin # 0
            BY <2>5, <3>1, <3>2 DEF UnmaskPin, ModeIsLast
        <3>3. CASE NextPin = 0 /\ InSetup
            <4>1. main' = NextController(m)
                BY <2>5, <3>3 DEF UnmaskPin
            <4>2. QED  BY <3>1, <4>1, SetupFailsJob DEF ModeIsLast
        <3>4. CASE NextPin = 0 /\ ~InSetup
            <4>1. main' = [m EXCEPT !.pc = "idle", !.job = "events"]
                BY <2>5, <3>4 DEF UnmaskPin
            <4>2. main'.job = "events"
                BY <3>1, <4>1 DEF MainType
            <4>3. QED  BY <4>2 DEF ModeIsLast
        <3>5. QED  BY <3>2, <3>3, <3>4
    <2>6. QED  BY <1>2, <2>1, <2>2, <2>3, <2>4, <2>5 DEF Step, Setup
<1>3. ASSUME NEW c \in Controllers, SendFrame(c) \/ GetEvents(c)
      PROVE  ModeIsLast'
    <2>1. main'.job \in {"send", "events"}
        BY <1>m, <1>3 DEF SendFrame, GetEvents, MainAt, MainType, JobAtPoint
    <2>2. QED  BY <2>1 DEF ModeIsLast
<1>4. QED
    BY <1>1, <1>2, <1>3 DEF Next, Command, ChipRaise, ChipLive, Isr, IsrEnter, IsrScan, IsrSelect,
       IsrTransfer, IsrHandled, vars

\* A chip that was reset does not come alive before its table is initialised.
LEMMA NextSilent ==
    ASSUME BoardInv, JobAtPoint, ModeIsLast, SilentUntilInitialised, [Next]_vars
    PROVE  SilentUntilInitialised'
<1>m. main \in MainType
    BY DEF BoardInv, TypeOK, MainType
<1>n. N \in Nat /\ N > 0 /\ Controllers = 0..N-1
    BY BoardAssumption DEF Controllers
<1>t. /\ work \in [Controllers -> 0..MaxRaises + 1] /\ MaxRaises \in Nat
      /\ table \in [Controllers -> {"zero", "initialised", "running"}]
    BY BoardAssumption DEF BoardInv, TypeOK
<1>0. ASSUME \A c \in Controllers : WasReset(c)' => WasReset(c),
             UNCHANGED <<live, asked, work, table>>
      PROVE  SilentUntilInitialised'
    BY <1>0 DEF SilentUntilInitialised
<1>1. ASSUME NEW c \in Controllers, ChipRaise(c)
      PROVE  SilentUntilInitialised'
    <2>1. /\ c \in live /\ UNCHANGED <<live, asked, table, main>>
          /\ \A d \in Controllers : d # c => work'[d] = work[d]
        BY <1>1, <1>t DEF ChipRaise
    <2>2. \A d \in Controllers : WasReset(d)' => WasReset(d)
        BY <2>1 DEF WasReset, Ready
    <2>3. QED  BY <2>1, <2>2 DEF SilentUntilInitialised
<1>l. ASSUME NEW c \in Controllers, ChipLive(c)
      PROVE  SilentUntilInitialised'
    <2>1. c \in asked /\ live' = live \cup {c} /\ UNCHANGED <<asked, work, table, main>>
        BY <1>l DEF ChipLive
    <2>2. \A d \in Controllers : WasReset(d)' => WasReset(d)
        BY <2>1 DEF WasReset, Ready
    <2>3. QED  BY <2>1, <2>2 DEF SilentUntilInitialised
<1>2. CASE Isr
    <2>1. UNCHANGED <<live, asked, table, main>>
        BY <1>2 DEF Isr, IsrEnter, IsrScan, IsrSelect, IsrTransfer, IsrHandled, hardware
    <2>2. \A d \in Controllers : WasReset(d)' => WasReset(d)
        BY <2>1 DEF WasReset, Ready
    <2>3. CASE IsrTransfer
        <3>1. /\ isr.c \in Controllers /\ work[isr.c] > 0
              /\ \A d \in Controllers : d # isr.c => work'[d] = work[d]
            BY <2>3, <1>t DEF IsrTransfer, BoardInv, WorkIsRaised, HandlerServesEnabled, TypeOK
        <3>2. ~(WasReset(isr.c) /\ table[isr.c] = "zero")
            <4>1. work[isr.c] # 0
                BY <1>t, <3>1
            <4>2. QED  BY <3>1, <4>1 DEF SilentUntilInitialised
        <3>3. QED  BY <2>1, <2>2, <3>1, <3>2 DEF SilentUntilInitialised
    <2>4. CASE IsrEnter \/ IsrScan \/ IsrSelect \/ IsrHandled
        BY <1>0, <2>1, <2>2, <2>4 DEF IsrEnter, IsrScan, IsrSelect, IsrHandled, hardware
    <2>5. QED  BY <1>2, <2>3, <2>4 DEF Isr
<1>3. CASE Step
    <2>1. CASE MaskPin
        <3>1. /\ main'.job = main.job /\ main'.c = main.c /\ main'.pc # "transfer"
              /\ UNCHANGED <<live, asked, work, table>>
            BY <1>m, <2>1 DEF MaskPin, MainType, hardware
        <3>2. QED  BY <1>0, <3>1 DEF WasReset, Ready
    <2>2. CASE SpiSelect
        <3>1. /\ main'.job = main.job /\ main'.c = main.c /\ main.c \in Controllers
              /\ main.job \in {"pins", "config", "mode", "send", "events"} /\ main.job # "events"
            BY <1>m, <2>2 DEF SpiSelect, MainAt, MainType, JobAtPoint
        <3>2. CASE main.job = "pins"
            <4>1. /\ live' = live \ {main.c} /\ asked' = asked \ {main.c} /\ table' = table
                  /\ work' = [work EXCEPT ![main.c] = 0]
                BY <2>2, <3>2 DEF SpiSelect, AskForMode
            <4>2. \A d \in Controllers : WasReset(d)' => WasReset(d) \/ d = main.c
                BY <3>1 DEF WasReset, Ready
            <4>3. main.c \notin live' /\ main.c \notin asked' /\ work'[main.c] = 0
                BY <1>t, <3>1, <4>1
            <4>4. \A d \in Controllers : d # main.c => work'[d] = work[d]
                BY <1>t, <4>1
            <4>5. QED  BY <4>1, <4>2, <4>3, <4>4 DEF SilentUntilInitialised
        <3>3. CASE main.job # "pins"
            <4>1. /\ UNCHANGED <<live, work, table>>
                  /\ asked' = asked \/ (asked' = asked \cup {main.c} /\ table[main.c] # "zero")
                BY <2>2, <3>3 DEF SpiSelect, AskForMode, ModeIsLast
            <4>2. \A d \in Controllers : WasReset(d)' => WasReset(d)
                BY <3>1, <3>3 DEF WasReset, Ready
            <4>3. QED  BY <4>1, <4>2 DEF SilentUntilInitialised
        <3>4. QED  BY <3>2, <3>3
    <2>3. CASE SpiFails
        <3>1. /\ main.pc = "transfer" /\ main' = SetupFails(main) /\ UNCHANGED <<live, asked, work, table>>
            BY <2>3 DEF SpiFails, MainAt, hardware
        <3>2. ASSUME NEW c \in Controllers, WasReset(c)'
              PROVE  WasReset(c)
            <4>1. c <= main.c
                BY <1>m, <3>1, <3>2, SetupFailsReset DEF WasReset, Ready
            <4>2. main.c \in 0..N-1 /\ c \in 0..N-1
                BY <1>m, <1>n DEF MainType
            <4>3. c < main.c \/ c = main.c
                BY <1>n, <4>1, <4>2
            <4>4. QED  BY <3>1, <4>3 DEF WasReset
        <3>3. QED  BY <1>0, <3>1, <3>2
    <2>4. CASE PinsDone \/ SendDone \/ DrainFifo \/ RestorePin
        <3>1. UNCHANGED <<live, asked, work, table>>
            BY <2>4 DEF PinsDone, SendDone, DrainFifo, RestorePin, hardware
        <3>2. \A d \in Controllers : WasReset(d)' => WasReset(d)
            BY <1>m, <2>4 DEF PinsDone, SendDone, DrainFifo, RestorePin, MainAt, MainType, WasReset, Ready
        <3>3. QED  BY <1>0, <3>1, <3>2
    <2>5. CASE ConfigDone \/ ModeDone
        <3>1. /\ main.pc = "transfer" /\ main.c \in Controllers /\ UNCHANGED <<live, asked, work>>
              /\ main'.c = main.c /\ main'.job = "mode" /\ main.job # "send" /\ main.job # "events"
            BY <1>m, <2>5 DEF ConfigDone, ModeDone, MainAt, MainType, hardware
        <3>2. \A d \in Controllers : WasReset(d)' => WasReset(d)
            BY <3>1 DEF WasReset, Ready
        <3>3. /\ table'[main.c] # "zero"
              /\ \A d \in Controllers : d # main.c => table'[d] = table[d]
            BY <1>t, <2>5, <3>1 DEF ConfigDone, ModeDone
        <3>4. QED  BY <3>1, <3>2, <3>3 DEF SilentUntilInitialised
    <2>6. CASE UnmaskPin
        <3> DEFINE m == [main EXCEPT !.pin = NextPin]
        <3>1. /\ m \in MainType /\ m.pc = "unmask" /\ m.job = main.job /\ m.c = main.c
              /\ main.pc = "unmask" /\ main.job \in {"mode", "send"}
            BY <1>m, <2>6, NextPinType DEF UnmaskPin, MainAt, MainType, JobAtPoint
        <3>2. UNCHANGED <<live, asked, work, table>>
            BY <2>6 DEF UnmaskPin, hardware
        <3>3. ASSUME NEW c \in Controllers, WasReset(c)'
              PROVE  WasReset(c)
            <4>1. CASE NextPin # 0
                <5>1. main' = m
                    BY <2>6, <4>1 DEF UnmaskPin
                <5>2. QED  BY <3>1, <3>3, <5>1 DEF WasReset, Ready
            <4>2. CASE NextPin = 0 /\ InSetup
                <5>1. main' = NextController(m) /\ main.job = "mode"
                    BY <2>6, <3>1, <4>2 DEF UnmaskPin, InSetup
                <5>2. c <= main.c
                    BY <3>1, <3>3, <5>1, SetupFailsReset DEF WasReset, Ready
                <5>3. main.c \in 0..N-1 /\ c \in 0..N-1
                    BY <1>m, <1>n DEF MainType
                <5>4. c < main.c \/ c = main.c
                    BY <1>n, <5>2, <5>3
                <5>5. QED  BY <5>1, <5>4 DEF WasReset
            <4>3. CASE ~InSetup
                BY <3>1, <4>3 DEF InSetup, WasReset, Ready
            <4>4. QED  BY <4>1, <4>2, <4>3
        <3>4. QED  BY <1>0, <3>2, <3>3
    <2>7. QED  BY <1>3, <2>1, <2>2, <2>3, <2>4, <2>5, <2>6 DEF Step, Setup
<1>4. ASSUME NEW c \in Controllers, SendFrame(c) \/ GetEvents(c)
      PROVE  SilentUntilInitialised'
    <2>1. UNCHANGED <<live, asked, work, table>> /\ main.job = "events"
        BY <1>4 DEF SendFrame, GetEvents, MainAt, JobAtPoint, hardware
    <2>2. QED  BY <1>0, <2>1 DEF WasReset, Ready
<1>5. CASE UNCHANGED vars
    BY <1>0, <1>5 DEF vars, WasReset, Ready
<1>6. QED  BY <1>1, <1>l, <1>2, <1>3, <1>4, <1>5 DEF Next, Command

\* Once the board is ready, the handler only works on initialised tables, even when a
\* restart left other chips running whose controllers could not be set up again.
THEOREM HandlesOnlyInitialised == Spec => []HandlesInitialised
<1>1. Init => ReadyInv
    <2>1. Init => JobAtPoint
        BY DEF Init, JobAtPoint
    <2>2. Init => SilentUntilInitialised
        BY BoardAssumption DEF Init, SilentUntilInitialised, WasReset, Ready, Controllers
    <2>3. Init => ModeIsLast
        BY DEF Init, ModeIsLast
    <2>4. QED  BY <2>1, <2>2, <2>3, InitBoardInv DEF ReadyInv
<1>2. ReadyInv /\ [Next]_vars => ReadyInv'
    BY NextBoardInv, NextJobAtPoint, NextModeIsLast, NextSilent DEF ReadyInv
<1>3. ASSUME ReadyInv PROVE HandlesInitialised
    <2> SUFFICES ASSUME Ready, isr.pc = "transfer", table[isr.c] = "zero" PROVE FALSE
        BY DEF HandlesInitialised
    <2>1. isr.c \in Controllers /\ work[isr.c] > 0
        BY <1>3 DEF ReadyInv, BoardInv, HandlerServesEnabled, WorkIsRaised, TypeOK
    <2>2. work[isr.c] = 0
        BY <1>3, <2>1 DEF ReadyInv, SilentUntilInitialised, WasReset
    <2>3. QED  BY <2>1, <2>2
<1>4. QED  BY <1>1, <1>2, <1>3, PTL DEF Spec

\* The pins that are enabled at each point, when setup ends with an unmasking of all.
Listening ==
    /\ main.pc = "unmask" => \A c \in Controllers : c < main.pin => c \in irqOn
    /\ main.pc = "idle" => \A c \in Controllers : c \in irqOn
    /\ main.pc \in {"fifo", "restore"} => \A c \in Controllers \ {main.c} : c \in irqOn

\* Every pin that a command or a setup masks is unmasked again, if setup cannot end in a
\* failure.
LEMMA NextListening ==
    ASSUME N - 1 \notin Faulty, BoardInv, Listening, [Next]_vars
    PROVE  Listening'
<1>m. main \in MainType
    BY DEF BoardInv, TypeOK, MainType
<1>n. N \in Nat /\ N > 0 /\ Controllers = 0..N-1
    BY BoardAssumption DEF Controllers
<1>1. CASE UNCHANGED <<irqOn, main>>
    BY <1>1 DEF Listening
<1>2. CASE Step
    <2>1. CASE MaskPin \/ SpiSelect
        <3>1. main'.pc \notin {"unmask", "idle", "fifo", "restore"}
            BY <1>m, <2>1 DEF MaskPin, SpiSelect, MainType
        <3>2. QED  BY <3>1 DEF Listening
    <2>2. CASE PinsDone \/ ConfigDone \/ ModeDone \/ SendDone
        <3>1. main'.pc \in {"select", "unmask"} /\ main'.pin = 0
            BY <1>m, <2>2 DEF PinsDone, ConfigDone, ModeDone, SendDone, MainAt, MainType, BoardInv,
               MaskingProgress
        <3>2. QED  BY <1>n, <3>1 DEF Listening
    <2>3. CASE SpiFails
        <3>1. main.c \in Controllers /\ main.c # N - 1 /\ main' = SetupFails(main)
            BY <1>m, <2>3 DEF SpiFails, MainType
        <3>2. main.c + 1 < N
            BY <1>n, <3>1
        <3>3. main'.pc = "mask"
            BY <1>m, <3>1, <3>2 DEF SetupFails, NextController, MainType
        <3>4. QED  BY <3>3 DEF Listening
    <2>4. CASE UnmaskPin
        <3> DEFINE m == [main EXCEPT !.pin = NextPin]
        <3>1. /\ m \in MainType /\ m.pc = "unmask" /\ m.pin = NextPin /\ main.pin \in 0..N-1
              /\ main.pc = "unmask" /\ irqOn' = irqOn \cup {main.pin}
            BY <1>m, <1>n, <2>4, NextPinType DEF UnmaskPin, MainAt, MainType
        <3>2. \A c \in Controllers : c < main.pin => c \in irqOn
            BY <3>1 DEF Listening
        <3>3. \A c \in Controllers : c <= main.pin => c \in irqOn'
            BY <1>n, <3>1, <3>2
        <3>4. CASE NextPin # 0
            <4>1. main' = m /\ NextPin = main.pin + 1
                BY <2>4, <3>4 DEF UnmaskPin, NextPin
            <4>2. main'.pc = "unmask" /\ main'.pin = main.pin + 1
                BY <3>1, <4>1
            <4>3. \A c \in Controllers : c < main'.pin => c \in irqOn'
                BY <1>n, <3>1, <3>3, <4>2
            <4>4. QED  BY <4>2, <4>3 DEF Listening
        <3>5. CASE NextPin = 0
            <4>1. main.pin + 1 = N
                BY <1>n, <3>1, <3>5 DEF NextPin
            <4>2. \A c \in Controllers : c \in irqOn'
                BY <1>n, <3>1, <3>3, <4>1
            <4>3. main'.pc \in {"mask", "idle"}
                <5>1. CASE InSetup
                    BY <2>4, <3>1, <3>5, <5>1, SetupFailsJob DEF UnmaskPin
                <5>2. CASE ~InSetup
                    <6>1. main' = [m EXCEPT !.pc = "idle", !.job = "events"]
                        BY <2>4, <3>5, <5>2 DEF UnmaskPin
                    <6>2. QED  BY <3>1, <6>1 DEF MainType
                <5>3. QED  BY <5>1, <5>2
            <4>4. QED  BY <4>2, <4>3 DEF Listening
        <3>6. QED  BY <3>4, <3>5
    <2>5. CASE DrainFifo
        <3>1. main.pc = "fifo" /\ main'.pc = "restore" /\ main'.c = main.c /\ irqOn' = irqOn
            BY <1>m, <2>5 DEF DrainFifo, MainAt, MainType
        <3>2. QED  BY <3>1 DEF Listening
    <2>6. CASE RestorePin
        <3>1. main.pc = "restore" /\ main'.pc = "idle" /\ irqOn' = irqOn \cup {main.c}
            BY <1>m, <2>6 DEF RestorePin, MainAt, MainType
        <3>2. QED  BY <3>1 DEF Listening
    <2>7. QED  BY <1>2, <2>1, <2>2, <2>3, <2>4, <2>5, <2>6 DEF Step, Setup
<1>3. ASSUME NEW c \in Controllers, SendFrame(c) \/ GetEvents(c)
      PROVE  Listening'
    <2>1. CASE SendFrame(c)
        <3>1. main'.pc = "mask"
            BY <1>m, <2>1 DEF SendFrame, MainType
        <3>2. QED  BY <3>1 DEF Listening
    <2>2. CASE GetEvents(c)
        <3>1. main.pc = "idle" /\ main'.pc = "fifo" /\ main'.c = c /\ irqOn' = irqOn \ {c}
            BY <1>m, <2>2 DEF GetEvents, MainAt, MainType
        <3>2. QED  BY <3>1 DEF Listening
    <2>3. QED  BY <1>3, <2>1, <2>2
<1>4. QED
    BY <1>1, <1>2, <1>3 DEF Next, Command, ChipRaise, ChipLive, Isr, IsrEnter, IsrScan, IsrSelect, IsrTransfer,
       IsrHandled, vars

\* As long as the setup of the last controller cannot fail, the board is never ready
\* with a running controller whose pin is masked, whichever other controllers fail and
\* however often.  Without the assumption the board may come up deaf.
THEOREM ReadyIsListening ==
    ASSUME N - 1 \notin Faulty
    PROVE  Spec => []ReadyMeansListening
<1>1. Init => Listening
    BY DEF Init, Listening
<1>2. BoardInv /\ Listening /\ [Next]_vars => BoardInv' /\ Listening'
    BY NextBoardInv, NextListening
<1>3. Listening => ReadyMeansListening
    BY DEF Listening, ReadyMeansListening
<1>4. QED  BY <1>1, <1>2, <1>3, InitBoardInv, PTL DEF Spec
=============================================================================

---------------------------- MODULE HostProtocol ----------------------------
(***************************************************************************)
(* The packets between host and board: make_transaction of the Python      *)
(* driver on one side, loop() of the firmware's main.c on the other, the   *)
(* two byte streams of the USB serial port between them.                   *)
(*                                                                         *)
(* The protocol has no checksum, sequence number or timeout on either      *)
(* side, and the firmware's log text travels in the same stream as its     *)
(* answers.  The model works on bytes, in a smaller byte and with a length *)
(* field of one byte, so that a side that has lost its place takes data    *)
(* for a start byte, a command or a length, as the code would.  The        *)
(* transport itself loses nothing; what is lost is the host's place, when  *)
(* its user interrupts a transaction.                                      *)
(***************************************************************************)
EXTENDS Naturals, Sequences, FiniteSetsExt

CONSTANTS
    MaxByte,        \* 255
    Start, End,     \* 0xAA, 0x55
    Text,           \* a byte of log text: printable, so not Start
    Controllers,    \* NUM_CAN_CONTROLLERS
    MaxDlc,         \* 8
    Chunk,          \* 32, the buffer for data that is thrown away
    Event(_, _),    \* the bytes of an event of a controller, by command
    Request,        \* the commands the host may send
    MaxAbandons     \* bound: interrupted transactions

Byte == 0..MaxByte

ASSUME HostProtocolAssumption ==
    /\ MaxByte \in Nat /\ {Start, End, Text} \subseteq Byte
    /\ Start # End /\ Start # Text
    /\ Controllers \in Byte /\ MaxDlc \in Byte /\ Chunk \in Nat \ {0}
    /\ Request \subseteq [cmd : Byte, data : Seq(Byte)]
    /\ \A r \in Request : Len(r.data) \in Byte
    /\ MaxAbandons \in Nat

\* host_command_t and command_resp_t
SendFrame == 0
RecvRxEvents == 1
RecvTxEvents == 2
OK == 0
BadPkt == 1
CmdUnknown == 2
CmdMalformed == 3
Failed == 5
NoResources == 6

\* One byte holds any of them, and the length of an event.
ASSUME AnswersFit ==
    /\ {OK, BadPkt, CmdUnknown, CmdMalformed, Failed, NoResources} \subseteq Byte
    /\ \A cmd \in {RecvRxEvents, RecvTxEvents}, c \in 0..(Controllers - 1) :
         Event(cmd, c) \in Seq(Byte) /\ Len(Event(cmd, c)) \in Byte

\* Of the options of a frame to send, the second byte is the remote flag alone.
ASSUME FlagIsABit ==
    \A r \in Request : r.cmd = SendFrame /\ Len(r.data) > 1 => r.data[2] \in {0, 1}

NoRequest == [cmd |-> MaxByte + 1, data |-> <<>>]
AssertionError == [code |-> MaxByte + 1, data |-> <<>>]

VARIABLES
    toBoard, toHost,    \* the two streams
    board,              \* where loop() is, and what it has read of the packet
    host,               \* where make_transaction is
    request,            \* its arguments
    result,             \* what it last returned or raised
    abandons,           \* transactions interrupted so far
    trusted,            \* ghost: none was, or the port has been reopened at rest
    whole               \* ghost: every packet has been written whole

vars == <<toBoard, toHost, board, host, request, result, abandons, trusted, whole>>

Answer == [code : 0..(MaxByte + 1), data : Seq(Byte)]

Waiting == [pc |-> "start", cmd |-> 0, size |-> 0, data |-> <<>>]

\* The firmware has logged its start when the host opens the port.
Init ==
    /\ toBoard = <<>> /\ toHost = <<Text>>
    /\ board = Waiting
    /\ host = "idle" /\ request = NoRequest
    /\ result = [code |-> OK, data |-> <<>>]
    /\ abandons = 0 /\ trusted = TRUE /\ whole = TRUE

\* A packet, in either direction: byte is the command or the response code.
Packet(byte, data) == <<Start, byte, Len(data)>> \o data \o <<End>>

From(stream, n) == SubSeq(stream, n + 1, Len(stream))

-----------------------------------------------------------------------------
(* The board.  read_bytes(n) waits until n bytes have come.  (An operator  *)
(* whose name has a suffix is a faulty variant of the one that follows it, *)
(* kept to show that the properties tell the two apart.)                   *)

Read(n) == Len(toBoard) >= n /\ toBoard' = From(toBoard, n)

\* send_response_pkt, with the log text that precedes every answer.
Send(answer) == toHost' = toHost \o <<Text>> \o Packet(answer.code, answer.data)

Reply(code) == [code |-> code, data |-> <<>>]

HostUnchanged == UNCHANGED <<host, request, result, abandons, trusted, whole>>

ReadStart ==
    /\ board.pc = "start"
    /\ Read(1)
    /\ Head(toBoard) = Start
    /\ board' = [board EXCEPT !.pc = "header"]
    /\ UNCHANGED toHost /\ HostUnchanged

BadStart ==
    /\ board.pc = "start"
    /\ Read(1)
    /\ Head(toBoard) # Start
    /\ toHost' = Append(toHost, Text)
    /\ UNCHANGED board /\ HostUnchanged

\* Command and size; malloc finds room for the data.
ReadHeader ==
    /\ board.pc = "header"
    /\ Read(2)
    /\ board' = [board EXCEPT !.pc = "data", !.cmd = toBoard[1], !.size = toBoard[2]]
    /\ UNCHANGED toHost /\ HostUnchanged

\* ... or it does not: the answer goes out before the data is read.
OutOfMemory_Undrained ==
    /\ board.pc = "header"
    /\ Read(2)
    /\ board' = Waiting
    /\ Send(Reply(NoResources))
    /\ HostUnchanged

OutOfMemory ==
    /\ board.pc = "header"
    /\ Read(2)
    /\ board' = [board EXCEPT !.pc = "drain", !.size = toBoard[2]]
    /\ Send(Reply(NoResources))
    /\ HostUnchanged

Drain_WholeChunks ==
    /\ board.pc = "drain" /\ board.size > 0
    /\ Read(Chunk)
    /\ board' = [board EXCEPT !.size = @ - Chunk]
    /\ UNCHANGED toHost /\ HostUnchanged

Drain ==
    /\ board.pc = "drain" /\ board.size > 0
    /\ LET n == Min({board.size, Chunk}) IN
       /\ Read(n)
       /\ board' = [board EXCEPT !.size = @ - n]
    /\ UNCHANGED toHost /\ HostUnchanged

\* The end byte is thrown away too, without a look at it.
DrainEnd_Kept ==
    /\ board.pc = "drain" /\ board.size = 0
    /\ board' = Waiting
    /\ UNCHANGED <<toBoard, toHost>> /\ HostUnchanged

DrainEnd ==
    /\ board.pc = "drain" /\ board.size = 0
    /\ Read(1)
    /\ board' = Waiting
    /\ UNCHANGED toHost /\ HostUnchanged

ReadData ==
    /\ board.pc = "data"
    /\ Read(board.size)
    /\ board' = [board EXCEPT !.pc = "end", !.data = SubSeq(toBoard, 1, board.size)]
    /\ UNCHANGED toHost /\ HostUnchanged

\* handle_send_frame_cmd; data is controller, the remote flag of the options,
\* dlc, then the frame's data: arbitration ID and user reference, whose length
\* follows from the other options, are left out.  send_can_frame may fail with
\* a code of its own, here one byte.
SendFrameAnswers_RemoteHasData(data) ==
    IF Len(data) < 3 \/ data[1] >= Controllers \/ data[3] > MaxDlc \/ Len(data) # 3 + data[3]
    THEN {Reply(CmdMalformed)}
    ELSE {Reply(OK), [code |-> Failed, data |-> <<Text>>]}

SendFrameAnswers(data) ==
    IF \/ Len(data) < 3
       \/ data[1] >= Controllers
       \/ data[3] > MaxDlc
       \/ Len(data) # 3 + (IF data[2] % 2 = 1 THEN 0 ELSE data[3])
    THEN {Reply(CmdMalformed)}
    ELSE {Reply(OK), [code |-> Failed, data |-> <<Text>>]}

\* handle_recv_rx_events_cmd and handle_recv_tx_events_cmd: no event, or one;
\* no memory for the answer.
RecvEventsAnswers(cmd, data) ==
    IF Len(data) # 1 \/ data[1] >= Controllers
    THEN {Reply(CmdMalformed)}
    ELSE {Reply(OK), [code |-> OK, data |-> Event(cmd, data[1])], Reply(Failed)}

HandlerAnswers(cmd, data) ==
    CASE cmd = SendFrame -> SendFrameAnswers(data)
      [] cmd \in {RecvRxEvents, RecvTxEvents} -> RecvEventsAnswers(cmd, data)
      [] OTHER -> {Reply(CmdUnknown)}

ReadEnd ==
    /\ board.pc = "end"
    /\ Read(1)
    /\ board' = Waiting
    /\ \E answer \in (IF Head(toBoard) = End THEN HandlerAnswers(board.cmd, board.data)
                      ELSE {Reply(BadPkt)}) : Send(answer)
    /\ HostUnchanged

Board == \/ ReadStart \/ BadStart \/ ReadHeader \/ OutOfMemory
         \/ Drain \/ DrainEnd \/ ReadData \/ ReadEnd

-----------------------------------------------------------------------------
(* The host.                                                               *)

Call(r) ==
    /\ host = "idle"
    /\ toBoard' = toBoard \o Packet(r.cmd, r.data)
    /\ host' = "scan" /\ request' = r
    /\ UNCHANGED <<toHost, board, result, abandons, trusted, whole>>

\* Look for the start byte; what comes before it is printed.
Scan ==
    /\ host = "scan" /\ toHost # <<>>
    /\ toHost' = Tail(toHost)
    /\ host' = IF Head(toHost) = Start THEN "answer" ELSE "scan"
    /\ UNCHANGED <<toBoard, board, request, result, abandons, trusted, whole>>

\* The rest of the answer: code and length, data, end byte.
Needed == IF Len(toHost) < 2 THEN 2 ELSE toHost[2] + 3

TakeAnswer ==
    /\ host = "answer" /\ Len(toHost) >= Needed
    /\ toHost' = From(toHost, Needed)
    /\ result' = IF toHost[Needed] = End
                 THEN [code |-> toHost[1], data |-> SubSeq(toHost, 3, Needed - 1)]
                 ELSE AssertionError
    /\ host' = "idle" /\ request' = NoRequest
    /\ UNCHANGED <<toBoard, board, abandons, trusted, whole>>

\* The user interrupts the read; what it has read of the answer is lost.
Abandon ==
    /\ host # "idle" /\ abandons < MaxAbandons
    /\ \E n \in 0..Len(toHost) :
         /\ n > 0 => host = "answer" /\ n < Needed
         /\ toHost' = From(toHost, n)
    /\ host' = "idle" /\ request' = NoRequest
    /\ abandons' = abandons + 1 /\ trusted' = FALSE
    /\ UNCHANGED <<toBoard, board, result, whole>>

\* ... or the write, part of which has gone out.
AbandonWrite(r) ==
    /\ host = "idle" /\ abandons < MaxAbandons
    /\ \E n \in 1..(Len(r.data) + 3) :
         toBoard' = toBoard \o SubSeq(Packet(r.cmd, r.data), 1, n)
    /\ abandons' = abandons + 1 /\ trusted' = FALSE /\ whole' = FALSE
    /\ UNCHANGED <<toHost, board, host, request, result>>

\* A new CANBoard: opening the port discards the input that has arrived.
Reopen ==
    /\ host = "idle" /\ ~trusted
    /\ \E n \in 0..Len(toHost) : toHost' = From(toHost, n)
    /\ trusted' = (toHost' = <<>> /\ toBoard = <<>> /\ board.pc = "start")
    /\ UNCHANGED <<toBoard, board, host, request, result, abandons, whole>>

Host == (\E r \in Request : Call(r) \/ AbandonWrite(r))
        \/ Scan \/ TakeAnswer \/ Abandon \/ Reopen

Next == Board \/ Host

Spec == Init /\ [][Next]_vars

\* The firmware's main loop runs for ever and so does a read of the host; calls
\* and interruptions are the user's.
FairSpec == Spec /\ WF_vars(Board) /\ WF_vars(Scan \/ TakeAnswer)

-----------------------------------------------------------------------------
(* Properties.                                                             *)

\* send_frame of the host driver: how it packs its arguments.
FrameData(controller, remote, dlc, data) ==
    <<controller, IF remote THEN 1 ELSE 0, IF remote THEN dlc ELSE Len(data)>> \o data

FrameCommands ==
    {FrameData(c, TRUE, dlc, <<>>) : c \in 0..(Controllers - 1), dlc \in 0..MaxDlc}
    \cup {FrameData(c, FALSE, 0, data) : c \in 0..(Controllers - 1),
                                       data \in UNION {[1..n -> Byte] : n \in 0..MaxDlc}}

PollCommands == {<<c>> : c \in 0..(Controllers - 1)}

\* The answers that fit a command, by the table of responses in the firmware's
\* README and by what the host driver packs.
Fitting(r) ==
    {Reply(NoResources)} \cup
    CASE r.cmd = SendFrame /\ r.data \in FrameCommands ->
            {Reply(OK), [code |-> Failed, data |-> <<Text>>]}
      [] r.cmd \in {RecvRxEvents, RecvTxEvents} /\ r.data \in PollCommands ->
            {Reply(OK), Reply(Failed), [code |-> OK, data |-> Event(r.cmd, r.data[1])]}
      [] r.cmd = SendFrame /\ r.data \notin FrameCommands -> {Reply(CmdMalformed)}
      [] r.cmd \in {RecvRxEvents, RecvTxEvents} /\ r.data \notin PollCommands -> {Reply(CmdMalformed)}
      [] OTHER -> {Reply(CmdUnknown)}

AbstractTransaction == INSTANCE Transaction WITH None <- NoRequest

\* loop() and make_transaction together keep the promise of Transaction: until
\* a transaction is abandoned, every answer the host takes fits its command,
\* log text, data that looks like a start byte, and an answer sent before its
\* command was read (main.c 270) notwithstanding; and it does again once the
\* port has been reopened with nothing under way.
ImplementsTransaction == AbstractTransaction!Spec

\* Between transactions nothing is left over that the next one could trip on:
\* the host has taken everything the board sent, and the board has read every
\* byte, but for the rest of a command it had no memory for.
NothingLeftOver ==
    trusted /\ host = "idle" =>
        /\ \A i \in 1..Len(toHost) : toHost[i] = Text
        /\ IF board.pc = "drain" THEN Len(toBoard) = board.size + 1
           ELSE board.pc = "start" /\ toBoard = <<>>

\* An interrupted read costs the host its place in the stream, never the board:
\* while packets are written whole, loop() finds a start byte where it looks
\* for one and an end byte where it looks for that, however many answers nobody
\* has taken and whether or not it had memory for a command.
BoardKeepsItsPlace ==
    whole /\ toBoard # <<>> =>
        /\ board.pc = "start" => Head(toBoard) = Start
        /\ board.pc = "end" \/ (board.pc = "drain" /\ board.size = 0) => Head(toBoard) = End

\* A transaction ends (or its user gives up): the read loops of both sides,
\* neither of which has a timeout, never wait for each other as long as both
\* write whole packets.
Answered == (trusted /\ host # "idle") ~> (host = "idle")
=============================================================================

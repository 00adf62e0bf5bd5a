-------------------------------- MODULE Codec --------------------------------
(***************************************************************************)
(* What a frame or an event looks like on its way through the system: the  *)
(* host's request, the packet, the driver's can_frame_t, the object in the *)
(* chip's RAM, the bus, the receiving chip's object, the event's bytes and *)
(* what the host's driver makes of them.  One item is followed per         *)
(* behaviour; `stage' says which of these forms it has.  Fields, widths    *)
(* and byte orders are the code's: words are numbers and a field of a word *)
(* is cut out with \div and %, since `>> n' is `\div 2^n' and `& (2^n - 1)'*)
(* is `% 2^n'.                                                             *)
(*                                                                         *)
(* Memory the code has not written holds arbitrary bytes: the frame on the *)
(* stack of handle_send_frame_cmd, what lies behind the packet, the rest   *)
(* of a message in the chip and the answer from malloc.                    *)
(***************************************************************************)
EXTENDS Integers, Sequences

CONSTANTS
    Requests,       \* arguments of CANBoard.send_frame
    Foreign,        \* frames other nodes put on the bus
    Records,        \* receive events that are no frames: overflows and errors
    Overflows,      \* counts of transmit event overflow records
    FilterLists,    \* ID filters an application asks for; <<>>: CAN_NO_FILTERS
    Slots,          \* slots of the transmit queue the chip may offer
    Stamps,         \* timestamps
    Junk            \* bytes found in memory nobody has written

ExtBit == 536870912         \* 2^29, CAN_ID_EXT_BIT

Byte == {b \in Nat : b < 256}
Short == {w \in Nat : w < 65536}
Word == {w \in Nat : w \div 65536 < 65536}
Data == {d \in Seq(Byte) : Len(d) <= 8}

IdRange(extended) == {id \in Nat : id < IF extended THEN ExtBit ELSE 2048}

\* What a frame on the bus can be; a DLC above 8 stands for 8 bytes.
Legal(w) ==
    /\ w.extended \in BOOLEAN /\ w.remote \in BOOLEAN /\ w.dlc \in 0..15
    /\ w.id \in IdRange(w.extended)
    /\ w.data \in Data
    /\ Len(w.data) = IF w.remote THEN 0 ELSE IF w.dlc > 8 THEN 8 ELSE w.dlc

ASSUME CodecAssumption ==
    /\ \A r \in Requests :
          /\ r.extended \in BOOLEAN /\ r.remote \in BOOLEAN /\ r.useUref \in BOOLEAN
          /\ r.id \in (IF r.extended THEN Word ELSE Short) /\ r.uref \in Word
          /\ r.dlc \in Byte /\ r.data \in Data
          /\ r.remote => r.data = <<>>
    /\ \A w \in Foreign : Legal(w)
    /\ \A e \in Records : e.type \in {"overflow", "error"} /\ e.first \in Word /\ e.second \in Word
    /\ \A l \in FilterLists : Len(l) \in 0..32     \* CAN_MAX_ID_FILTERS
    /\ Overflows \subseteq Word /\ Slots \subseteq 0..31 /\ Stamps \subseteq Word /\ Junk \subseteq Byte

\* An application asks for IDs and masks in the range of their kind, as a can_id_t
\* is; can_make_id_filter_masked cuts off what is above.
ASSUME FilterAssumption ==
    \A l \in FilterLists : \A i \in 1..Len(l) :
        /\ l[i].kind \in {"exact", "masked", "all", "disabled"}
        /\ l[i].kind \in {"exact", "masked"} =>
              l[i].extended \in BOOLEAN /\ l[i].id \in IdRange(l[i].extended)
        /\ l[i].kind = "masked" => l[i].mask \in IdRange(l[i].extended)

VARIABLES
    sent,       \* what entered the system, and from where
    filters,    \* the ID filters of the receiving controller
    stage, item

vars == <<sent, filters, stage, item>>

-----------------------------------------------------------------------------
(* Words and bytes.                                                        *)

LE2(w) == <<w % 256, (w \div 256) % 256>>
LE4(w) == <<w % 256, (w \div 256) % 256, (w \div 65536) % 256, (w \div 16777216) % 256>>
BE4(w) == <<(w \div 16777216) % 256, (w \div 65536) % 256, (w \div 256) % 256, w % 256>>

\* The words at offset k of a block of bytes; the first byte has offset 0.
FromLE2(b, k) == b[k + 1] + 256 * b[k + 2]
FromLE4(b, k) == b[k + 1] + 256 * b[k + 2] + 65536 * b[k + 3] + 16777216 * b[k + 4]
FromBE4(b, k) == 16777216 * b[k + 1] + 65536 * b[k + 2] + 256 * b[k + 3] + b[k + 4]

Flag(b, value) == IF b THEN value ELSE 0
Bit(w, weight) == (w \div weight) % 2 = 1

\* Bytes not taken from a message or packet are whatever the memory holds.
Padded(data, junk) == [i \in 1..8 |-> IF i <= Len(data) THEN data[i] ELSE junk]

-----------------------------------------------------------------------------
(* CAN IDs: the 11 bits of ID A are the arbitration ID's high bits but the *)
(* word's low bits.  An operator whose name has a suffix is a faulty       *)
(* variant of the one that follows it, kept to show that the properties    *)
(* tell the two apart.                                                     *)

MakeId_NotSwapped(extended, id) ==
    IF extended THEN (id % ExtBit) + ExtBit ELSE id % 2048

MakeId(extended, id) ==
    IF extended
    THEN ((id % ExtBit) \div 262144) + ((id % 262144) * 2048) + ExtBit
    ELSE id % 2048

IsExtended(canid) == Bit(canid, ExtBit)

ArbitrationId(canid) ==
    IF IsExtended(canid)
    THEN (canid % 2048) * 262144 + ((canid \div 2048) % 262144)
    ELSE canid % 2048

-----------------------------------------------------------------------------
(* From the host's call to the frame.                                      *)

\* The ID is packed into four or two bytes, so a larger one raises an error
\* on the host; one that is too large for CAN is packed.
HostPack(r) ==
    [extended |-> r.extended, remote |-> r.remote, useUref |-> r.useUref,
     dlc |-> IF r.remote THEN r.dlc ELSE Len(r.data),
     rest |-> (IF r.extended THEN LE4(r.id) ELSE LE2(r.id))
              \o (IF r.useUref THEN LE4(r.uref) ELSE <<>>)
              \o r.data]

UrefIdx(p) == IF p.extended THEN 4 ELSE 2
DataIdx(p) == UrefIdx(p) + (IF p.useUref THEN 4 ELSE 0)
WellFormed(p) == p.dlc <= 8 /\ Len(p.rest) = DataIdx(p) + (IF p.remote THEN 0 ELSE p.dlc)

\* can_make_frame copies as many bytes as the DLC says, of a remote frame too.
MakeFrame(extended, id, dlc, bytes, remote, junk) ==
    [canid |-> MakeId(extended, id), dlc |-> dlc % 16, remote |-> remote, uref |-> 0,
     data |-> [i \in 1..8 |-> IF i <= dlc % 16 THEN bytes[i] ELSE junk]]

\* handle_send_frame_cmd
FrameOfPacket(p, junk) ==
    LET id == IF p.extended THEN FromLE4(p.rest, 0) ELSE FromLE2(p.rest, 0)
        behind == Padded(SubSeq(p.rest, DataIdx(p) + 1, Len(p.rest)), junk)
    IN [MakeFrame(p.extended, id, p.dlc, behind, p.remote, junk)
        EXCEPT !.uref = IF p.useUref THEN FromLE4(p.rest, UrefIdx(p)) ELSE 0]

\* can_make_bytes_from_frame and can_make_frame_from_bytes, with which an
\* application stores a frame and makes it again; the tag is its user reference.
BytesOfFrame(f, tag) ==
    <<Flag(f.remote, 1), f.dlc, 0>> \o BE4(tag)
    \o BE4(ArbitrationId(f.canid) + Flag(IsExtended(f.canid), ExtBit))
    \o f.data

FrameOfBytes(b, junk) ==
    LET word == FromBE4(b, 7)
        ide == Bit(word, ExtBit)
    IN [MakeFrame(ide, word % (IF ide THEN ExtBit ELSE 2048), b[2] % 16,
                  [i \in 1..8 |-> b[11 + i]], b[1] % 2 = 1, junk)
        EXCEPT !.uref = FromBE4(b, 3)]

-----------------------------------------------------------------------------
(* Into the chip, over the bus and out of the other chip.                  *)

\* send_frame: the slot's number goes into SEQ, the user reference into the
\* driver's shadow of the queue.
TxObject(f, slot) ==
    [id |-> f.canid % ExtBit,
     control |-> slot * 512 + f.dlc + Flag(IsExtended(f.canid), 16) + Flag(f.remote, 32),
     data |-> f.data]

\* The bus carries ID A, then ID B, and no more data than the DLC says.
WireFrame(o) ==
    LET ide == Bit(o.control, 16)
        remote == Bit(o.control, 32)
        dlc == o.control % 16
    IN [extended |-> ide, remote |-> remote, dlc |-> dlc,
        id |-> IF ide THEN ((o.id % 2048) * 262144) + (o.id \div 2048) ELSE o.id % 2048,
        data |-> SubSeq(o.data, 1, IF remote THEN 0 ELSE IF dlc > 8 THEN 8 ELSE dlc)]

\* The layout of the ID word that mcp25xxfd.c draws in its comments.
NativeId(w) == IF w.extended THEN (w.id \div 262144) + (w.id % 262144) * 2048 ELSE w.id

RxObject(w, hit, stamp, junk) ==
    [id |-> NativeId(w),
     control |-> w.dlc + Flag(w.extended, 16) + Flag(w.remote, 32) + 2048 * hit,
     stamp |-> stamp,
     data |-> Padded(w.data, junk)]

\* rx_handler
RxEvent(o) ==
    [type |-> "frame", stamp |-> o.stamp,
     canid |-> (o.id % ExtBit) + Flag(Bit(o.control, 16), ExtBit),
     dlc |-> o.control % 16,
     remote |-> Bit(o.control, 32),
     idFilter |-> (o.control \div 2048) % 32,
     data |-> o.data]

-----------------------------------------------------------------------------
(* ID filters.                                                             *)

FilterObject_IgnoresIde(f) ==
    LET native(id) == MakeId(f.extended, id) % ExtBit
    IN CASE f.kind = "exact" -> [enabled |-> TRUE, object |-> native(f.id), mask |-> native(ExtBit - 1)]
         [] f.kind = "masked" -> [enabled |-> TRUE, object |-> native(f.id), mask |-> native(f.mask)]
         [] f.kind = "all" -> [enabled |-> TRUE, object |-> 0, mask |-> 0]
         [] f.kind = "disabled" -> [enabled |-> FALSE, object |-> 0, mask |-> 0]

\* can_make_id_filter, _masked, _all and _disabled.  MIDE, bit 30 of the mask,
\* makes the chip compare EXIDE, bit 30 of the object, with the frame's IDE.
FilterObject(f) ==
    LET native(id) == MakeId(f.extended, id) % ExtBit
        exide == Flag(f.extended, 1073741824)
    IN CASE f.kind = "exact" ->
                [enabled |-> TRUE, object |-> exide + native(f.id),
                 mask |-> IF f.extended THEN 1610612735 ELSE 1073743871]
         [] f.kind = "masked" ->
                [enabled |-> TRUE, object |-> exide + native(f.id), mask |-> 1073741824 + native(f.mask)]
         [] f.kind = "all" -> [enabled |-> TRUE, object |-> 0, mask |-> 0]
         [] f.kind = "disabled" -> [enabled |-> FALSE, object |-> 0, mask |-> 0]

\* can_setup_controller writes the enabled filters to the registers of their own
\* numbers; without a list, filter 0 takes everything.
LoadedFilters ==
    IF filters = <<>> THEN <<FilterObject([kind |-> "all", extended |-> FALSE])>>
    ELSE [i \in 1..Len(filters) |-> FilterObject(filters[i])]

\* The bits of two words agree wherever the mask, less than 2^29, has a bit.
AgreeUnder(mask, v, w) ==
    \A i \in 0..28 : Bit(mask, 2^i) => (Bit(v, 2^i) <=> Bit(w, 2^i))

\* The chip's comparison: of a standard frame it has only ID A.
Passes(f, w) ==
    /\ f.enabled
    /\ Bit(f.mask, 1073741824) => (Bit(f.object, 1073741824) <=> w.extended)
    /\ AgreeUnder((f.mask % ExtBit) % (IF w.extended THEN ExtBit ELSE 2048), f.object, NativeId(w))

\* The numbers, from 0, of the filters that let a frame pass.
Hits(w) == {i \in 0..Len(LoadedFilters)-1 : Passes(LoadedFilters[i + 1], w)}

-----------------------------------------------------------------------------
(* To the host.                                                            *)

\* pop_rx_event_as_bytes leaves the bytes it has no use for as they were.
RxEventBytes(e, junk) ==
    CASE e.type = "frame" -> <<1 + Flag(e.remote, 128)>> \o BE4(e.stamp)
                             \o <<e.dlc, e.idFilter>> \o BE4(e.canid) \o e.data
      [] e.type = "overflow" -> <<2>> \o BE4(e.stamp) \o <<junk, junk>>
                                \o BE4(e.first) \o BE4(e.second) \o [i \in 1..4 |-> junk]
      [] e.type = "error" -> <<3>> \o BE4(e.stamp) \o <<junk, junk>>
                             \o BE4(e.first) \o [i \in 1..8 |-> junk]

\* CANRXEvent, CANRXFrameData, CANRXOverflowData and CANRXErrorData.
HostRxEvent(b) ==
    LET type == b[1] % 128
        stamp == FromBE4(b, 1)
        canid == FromBE4(b, 7)
        remote == b[1] \div 128 = 1
    IN CASE type = 1 ->
                [type |-> "frame", stamp |-> stamp,
                 extended |-> Bit(canid, ExtBit), remote |-> remote, dlc |-> b[6],
                 id |-> IF Bit(canid, ExtBit)
                        THEN (canid % 2048) * 262144 + ((canid \div 2048) % 262144)
                        ELSE canid % 2048,
                 data |-> IF remote THEN <<>> ELSE SubSeq(b, 12, IF b[6] > 8 THEN 19 ELSE 11 + b[6]),
                 idFilter |-> b[7]]
         [] type = 2 -> [type |-> "overflow", stamp |-> stamp, first |-> canid, second |-> FromBE4(b, 11)]
         [] type = 3 -> [type |-> "error", stamp |-> stamp, first |-> canid]

SeqOf_WithoutShift(o) == (o.control \div 256) % 256

\* The number tx_handler finds in SEQ, cut down to a byte.
SeqOf(o) == (o.control \div 512) % 256

\* pop_tx_event_as_bytes, whose comment says little endian, and CANTXEvent.
TxEventBytes(e) == <<e.type>> \o BE4(e.info) \o BE4(e.stamp)
HostTxEvent(b) == [type |-> b[1], info |-> FromBE4(b, 1), stamp |-> FromBE4(b, 5)]

-----------------------------------------------------------------------------
Init ==
    /\ filters \in FilterLists
    /\ \/ \E r \in Requests :
             sent = [from |-> "host", what |-> r] /\ stage = "request" /\ item = r
       \/ \E w \in Foreign :
             sent = [from |-> "bus", what |-> w] /\ stage = "wire" /\ item = w
       \/ \E e \in Records, t \in Stamps :
             LET event == [type |-> e.type, first |-> e.first, second |-> e.second, stamp |-> t]
             IN sent = [from |-> "driver", what |-> event] /\ stage = "rx event" /\ item = event
       \/ \E n \in Overflows, t \in Stamps :
             LET event == [type |-> 2, info |-> n, stamp |-> t]
             IN sent = [from |-> "driver", what |-> event] /\ stage = "tx event" /\ item = event

Becomes(from, to, form) ==
    stage = from /\ stage' = to /\ item' = form /\ UNCHANGED <<sent, filters>>

Pack == Becomes("request", "packet", HostPack(item))

Unpack ==
    /\ stage = "packet" /\ WellFormed(item)
    /\ \E junk \in Junk : Becomes("packet", "frame", FrameOfPacket(item, junk))

Reject == stage = "packet" /\ ~WellFormed(item) /\ Becomes("packet", "malformed", item)

StoreAndReload ==
    /\ stage = "frame"
    /\ \E junk \in Junk : Becomes("frame", "frame", FrameOfBytes(BytesOfFrame(item, item.uref), junk))

\* send_frame into the slot C1TXQUA names; the other slots hold other frames.
Send ==
    /\ stage = "frame"
    /\ \E s \in Slots :
          Becomes("frame", "queued",
                  [object |-> TxObject(item, s),
                   urefs |-> [n \in 0..31 |-> IF n = s THEN item.uref ELSE item.uref + 1]])

Transmit == Becomes("queued", "wire", WireFrame(item.object))

\* tx_handler; the chip's transmit event repeats the object's SEQ.
Confirm ==
    /\ stage = "queued"
    /\ LET seq == SeqOf(item.object)
       IN IF seq \in 0..31
          THEN \E t \in Stamps :
                  Becomes("queued", "tx event", [type |-> 0, info |-> item.urefs[seq], stamp |-> t])
          ELSE Becomes("queued", "bad seq", item)

\* The chip files the frame under the first filter that lets it pass.
Receive ==
    /\ stage = "wire"
    /\ \E hit \in Hits(item), t \in Stamps, junk \in Junk :
          /\ \A i \in Hits(item) : hit <= i
          /\ Becomes("wire", "received", RxObject(item, hit, t, junk))

Ignore == stage = "wire" /\ Hits(item) = {} /\ Becomes("wire", "ignored", item)

Record == Becomes("received", "rx event", RxEvent(item))

PopRx == stage = "rx event" /\ \E junk \in Junk : Becomes("rx event", "rx bytes", RxEventBytes(item, junk))
PopTx == Becomes("tx event", "tx bytes", TxEventBytes(item))

DecodeRx == Becomes("rx bytes", "rx told", HostRxEvent(item))
DecodeTx == Becomes("tx bytes", "tx told", HostTxEvent(item))

Next ==
    \/ Pack \/ Unpack \/ Reject \/ StoreAndReload \/ Send \/ Transmit \/ Confirm
    \/ Receive \/ Ignore \/ Record \/ PopRx \/ PopTx \/ DecodeRx \/ DecodeTx

Spec == Init /\ [][Next]_vars

-----------------------------------------------------------------------------
(* Properties.                                                             *)

\* The frame a request describes: an ID too large for CAN loses its high bits
\* without an error, as board_test.py's 0xdeadbeef does.
Meant ==
    IF sent.from = "bus" THEN sent.what
    ELSE [extended |-> sent.what.extended, remote |-> sent.what.remote,
          id |-> sent.what.id % (IF sent.what.extended THEN ExtBit ELSE 2048),
          dlc |-> IF sent.what.remote THEN sent.what.dlc ELSE Len(sent.what.data),
          data |-> sent.what.data]

\* A frame is told to the receiving host as the sender meant it, with exactly its
\* own bytes: its ID, cut up three times on the way, is whole again, no byte from
\* unwritten memory shows although can_make_frame fills a remote frame with some,
\* and only a remote frame with a DLC above 8 is refused.
FrameArrives ==
    /\ stage = "malformed" => sent.what.remote /\ sent.what.dlc > 8
    /\ stage = "rx told" /\ sent.from # "driver" =>
          \A field \in {"extended", "remote", "id", "dlc", "data"} : item[field] = Meant[field]

\* What the driver records beside frames reaches the host as it was recorded: the
\* user reference of the frame that was sent (0 if it had none), found again by
\* the sequence number the chip carried, and an overflow's and an error's details.
EventArrives ==
    /\ stage # "bad seq"
    /\ stage = "tx told" /\ sent.from = "host" =>
          item.type = 0 /\ item.info = IF sent.what.useUref THEN sent.what.uref ELSE 0
    /\ stage \in {"rx told", "tx told"} /\ sent.from = "driver" =>
          \A field \in DOMAIN item : item[field] = sent.what[field]

\* Which frames a filter asks for, in terms of arbitration IDs.
AsksFor(f, w) ==
    CASE f.kind = "exact" -> f.extended = w.extended /\ f.id = w.id
      [] f.kind = "masked" -> f.extended = w.extended /\ AgreeUnder(f.mask, f.id, w.id)
      [] f.kind = "all" -> TRUE
      [] f.kind = "disabled" -> FALSE

\* A controller takes exactly the frames its list of filters asks for, and the
\* host is told the number of the first filter that did, although filters are
\* compared in the chip's bit order and a disabled one keeps its number.
FilterHit ==
    sent.from = "bus" /\ filters # <<>> =>
        LET asking == {i \in 1..Len(filters) : AsksFor(filters[i], sent.what)}
        IN /\ stage = "ignored" => asking = {}
           /\ stage = "rx told" =>
                 item.idFilter + 1 \in asking /\ \A i \in asking : item.idFilter < i
=============================================================================

------------------------- MODULE HostProtocolProofs -------------------------
(***************************************************************************)
(* The board keeps its place in the stream of commands, a transaction      *)
(* leaves nothing behind, and its answer is the one of its command: for    *)
(* every size of the bytes, of the data and of the buffer for what is      *)
(* thrown away, and for all commands.                                      *)
(***************************************************************************)
EXTENDS HostProtocol, SequenceTheorems, TLAPS

Bytes == Seq(Byte)
States == {"start", "header", "drain", "data", "end"}

HostTypes ==
    /\ toBoard \in Bytes /\ toHost \in Bytes
    /\ board \in [pc : States, cmd : Byte, size : Byte, data : Bytes]
    /\ host \in {"idle", "scan", "answer"}
    /\ host = "idle" => request = NoRequest
    /\ host # "idle" => request \in Request
    /\ {trusted, whole} \subseteq BOOLEAN

-----------------------------------------------------------------------------
(* Bytes, packets and what is left of them.                                *)

LEMMA ByteTypes ==
    /\ MaxByte \in Nat /\ Byte \subseteq Nat /\ Byte = 0..MaxByte /\ Chunk \in Nat \ {0}
    /\ {Start, End, Text} \subseteq Byte /\ Start # End /\ Start # Text
<1>1. MaxByte \in Nat /\ Byte \subseteq Nat /\ Byte = 0..MaxByte /\ Chunk \in Nat \ {0}
    BY HostProtocolAssumption DEF Byte
<1>2. {Start, End, Text} \subseteq Byte /\ Start # End /\ Start # Text
    BY HostProtocolAssumption
<1>3. QED  BY <1>1, <1>2

\* t is s without its first n bytes, u is s and then t.
Drops(t, s, n) ==
    /\ t \in Bytes /\ Len(t) = Len(s) - n
    /\ \A i \in 1..Len(s)-n : t[i] = s[n + i]

Joins(u, s, t) ==
    /\ u \in Bytes /\ Len(u) = Len(s) + Len(t) /\ Len(s) \in Nat /\ Len(t) \in Nat
    /\ \A i \in 1..Len(s) : u[i] = s[i]
    /\ \A i \in 1..Len(t) : u[Len(s) + i] = t[i]

LEMMA FromShape ==
    ASSUME NEW s \in Bytes, NEW n \in 0..Len(s)
    PROVE  Drops(From(s, n), s, n)
<1>1. Len(s) \in Nat /\ n + 1 \in Int /\ Len(s) \in Int /\ \A i \in (n+1)..Len(s) : s[i] \in Byte
    BY ElementOfSeq, LenProperties DEF Bytes
<1> DEFINE t == SubSeq(s, n + 1, Len(s))
<1>2. /\ t \in Seq(Byte) /\ Len(t) = IF n + 1 <= Len(s) THEN Len(s) - (n + 1) + 1 ELSE 0
      /\ \A i \in 1..Len(s)-(n+1)+1 : t[i] = s[n + 1 + i - 1]
    BY <1>1, SubSeqProperties
<1> HIDE DEF t
<1>3. /\ Len(t) = Len(s) - n /\ Len(s) - (n + 1) + 1 = Len(s) - n
      /\ \A i \in 1..Len(s)-n : n + 1 + i - 1 = n + i
    BY <1>1, <1>2
<1>4. QED  BY <1>2, <1>3 DEF From, Bytes, t, Drops

LEMMA JoinShape ==
    ASSUME NEW s \in Bytes, NEW t \in Bytes
    PROVE  Joins(s \o t, s, t)
<1>1. Len(s) \in Nat /\ Len(t) \in Nat
    BY DEF Bytes
<1>2. /\ s \o t \in Seq(Byte) /\ Len(s \o t) = Len(s) + Len(t)
      /\ \A i \in 1..Len(s)+Len(t) : (s \o t)[i] = IF i <= Len(s) THEN s[i] ELSE t[i - Len(s)]
    BY ConcatProperties DEF Bytes
<1>3. ASSUME NEW i \in 1..Len(s) PROVE (s \o t)[i] = s[i]
    BY <1>1, <1>2
<1>4. ASSUME NEW i \in 1..Len(t) PROVE (s \o t)[Len(s) + i] = t[i]
    <2>1. Len(s) + i \in 1..Len(s)+Len(t) /\ ~(Len(s) + i <= Len(s)) /\ (Len(s) + i) - Len(s) = i
        BY <1>1
    <2>2. QED  BY <1>2, <2>1
<1>5. QED  BY <1>1, <1>2, <1>3, <1>4 DEF Bytes, Joins

LEMMA PacketShape ==
    ASSUME NEW byte \in Byte, NEW data \in Bytes, Len(data) \in Byte
    PROVE  /\ Packet(byte, data) \in Bytes /\ Len(Packet(byte, data)) = Len(data) + 4
           /\ Packet(byte, data)[1] = Start /\ Packet(byte, data)[2] = byte
           /\ Packet(byte, data)[3] = Len(data)
           /\ \A i \in 1..Len(data) : Packet(byte, data)[3 + i] = data[i]
           /\ Packet(byte, data)[Len(data) + 4] = End
<1> DEFINE h == <<Start, byte, Len(data)>>
           e == <<End>>
<1>1. /\ h \in Bytes /\ Len(h) = 3 /\ h[1] = Start /\ h[2] = byte /\ h[3] = Len(data)
      /\ e \in Bytes /\ Len(e) = 1 /\ e[1] = End
    BY ByteTypes DEF Bytes
<1>2. Packet(byte, data) = (h \o data) \o e
    BY DEF Packet
<1> HIDE DEF h, e
<1>3. /\ h \o data \in Bytes /\ Len(h \o data) = 3 + Len(data) /\ Len(data) \in Nat
      /\ \A i \in 1..3 : (h \o data)[i] = h[i]
      /\ \A i \in 1..Len(data) : (h \o data)[3 + i] = data[i]
    <2>1. Joins(h \o data, h, data)
        BY <1>1, JoinShape
    <2>2. QED  BY <1>1, <2>1 DEF Joins
<1> DEFINE hd == h \o data
<1> HIDE DEF hd
<1>4. /\ hd \o e \in Bytes /\ Len(hd \o e) = (3 + Len(data)) + 1
      /\ \A i \in 1..3+Len(data) : (hd \o e)[i] = hd[i]
      /\ \A i \in 1..1 : (hd \o e)[(3 + Len(data)) + i] = e[i]
    <2>1. hd \in Bytes /\ Len(hd) = 3 + Len(data)
        BY <1>3 DEF hd
    <2>2. Joins(hd \o e, hd, e)
        BY <1>1, <2>1, JoinShape
    <2>3. QED  BY <1>1, <2>1, <2>2 DEF Joins
<1>5. /\ (hd \o e)[1] = h[1] /\ (hd \o e)[2] = h[2] /\ (hd \o e)[3] = h[3]
    <2>1. 1 \in 1..3 /\ 2 \in 1..3 /\ 3 \in 1..3 /\ \A i \in 1..3 : i \in 1..3+Len(data)
        BY <1>3
    <2>2. QED  BY <1>3, <1>4, <2>1 DEF hd
<1>6. \A i \in 1..Len(data) : (hd \o e)[3 + i] = data[i]
    <2>1. \A i \in 1..Len(data) : 3 + i \in 1..3+Len(data)
        BY <1>3
    <2>2. QED  BY <1>3, <1>4, <2>1 DEF hd
<1>7. (hd \o e)[Len(data) + 4] = End
    <2>1. 1 \in 1..1 /\ (3 + Len(data)) + 1 = Len(data) + 4
        BY <1>3
    <2>2. QED  BY <1>1, <1>4, <2>1
<1>8. Len(data) + 4 = (3 + Len(data)) + 1
    BY <1>3
<1>9. QED  BY <1>1, <1>2, <1>4, <1>5, <1>6, <1>7, <1>8 DEF hd

-----------------------------------------------------------------------------
(* Whole packets follow each other.                                        *)

\* A packet begins after the first c bytes of s.
Begins(s, c) ==
    /\ c + 3 < Len(s) /\ s[c + 1] = Start
    /\ c + s[c + 3] + 4 <= Len(s) /\ s[c + s[c + 3] + 4] = End

\* C has the ends of packets in s: after each of them the next one begins.
Ends(C, s) == \A c \in C : c = Len(s) \/ (Begins(s, c) /\ c + s[c + 3] + 4 \in C)

\* The first r bytes of s are the rest of a packet, whole packets follow.
Placed(s, r) ==
    /\ r \in 0..Len(s) /\ (r > 0 => s[r] = End)
    /\ \E C \in SUBSET (r..Len(s)) : r \in C /\ Ends(C, s)

LEMMA Consumed ==
    ASSUME NEW s \in Bytes, NEW r, Placed(s, r), NEW n \in 0..r
    PROVE  Placed(From(s, n), r - n)
<1> DEFINE t == From(s, n)
<1>1. r \in 0..Len(s) /\ Len(s) \in Nat /\ n \in 0..Len(s) /\ n \in Nat /\ r \in Nat
    BY DEF Placed, Bytes
<1>2. /\ t \in Bytes /\ Len(t) = Len(s) - n
      /\ \A i \in 1..Len(s)-n : t[i] = s[n + i]
    BY <1>1, FromShape DEF Drops
<1> HIDE DEF t
<1>3. r - n \in 0..Len(t)
    BY <1>1, <1>2
<1>4. r - n > 0 => t[r - n] = End
    <2> SUFFICES ASSUME r - n > 0 PROVE t[r - n] = End
        OBVIOUS
    <2>1. r - n \in 1..Len(s)-n /\ n + (r - n) = r /\ r > 0
        BY <1>1
    <2>2. QED  BY <1>2, <2>1 DEF Placed
<1>5. PICK C \in SUBSET (r..Len(s)) : r \in C /\ Ends(C, s)
    BY DEF Placed
<1> DEFINE D == {c - n : c \in C}
<1>6. D \in SUBSET ((r-n)..Len(t)) /\ r - n \in D
    BY <1>1, <1>2, <1>5
<1>7. ASSUME NEW d \in D PROVE d = Len(t) \/ (Begins(t, d) /\ d + t[d + 3] + 4 \in D)
    <2>1. PICK c \in C : d = c - n
        OBVIOUS
    <2>2. c \in r..Len(s) /\ c \in Nat /\ n <= c /\ d \in Nat
        BY <1>1, <1>5, <2>1
    <2>3. CASE c = Len(s)
        BY <1>2, <2>1, <2>3
    <2>4. CASE Begins(s, c) /\ c + s[c + 3] + 4 \in C
        <3> DEFINE m == s[c + 3]
        <3>1. /\ c + 3 < Len(s) /\ s[c + 1] = Start /\ c + m + 4 <= Len(s) /\ s[c + m + 4] = End
              /\ c + m + 4 \in C /\ m \in Nat
            <4>1. c + 3 \in 1..Len(s)
                BY <1>1, <2>2, <2>4 DEF Begins
            <4>2. m \in Nat
                BY <4>1, ElementOfSeq, ByteTypes DEF Bytes
            <4>3. QED  BY <2>4, <4>2 DEF Begins
        <3> HIDE DEF m
        <3>2. /\ d + 1 \in 1..Len(s)-n /\ n + (d + 1) = c + 1
              /\ d + 3 \in 1..Len(s)-n /\ n + (d + 3) = c + 3
              /\ d + m + 4 \in 1..Len(s)-n /\ n + (d + m + 4) = c + m + 4
              /\ d + m + 4 = (c + m + 4) - n
            BY <1>1, <2>1, <2>2, <3>1
        <3>3. t[d + 1] = Start /\ t[d + 3] = m /\ t[d + m + 4] = End
            <4>1. /\ t[d + 1] = s[n + (d + 1)] /\ t[d + 3] = s[n + (d + 3)]
                  /\ t[d + m + 4] = s[n + (d + m + 4)]
                BY <1>2, <3>2
            <4>2. t[d + 1] = s[c + 1] /\ t[d + 3] = s[c + 3] /\ t[d + m + 4] = s[c + m + 4]
                BY <3>2, <4>1
            <4>3. QED  BY <3>1, <4>2 DEF m
        <3>4. d + 3 < Len(t) /\ d + m + 4 <= Len(t)
            <4> HIDE DEF D
            <4>1. Len(t) = Len(s) - n /\ c = n + d /\ {c, d, n, Len(s)} \subseteq Nat
                BY <1>1, <1>2, <2>1, <2>2
            <4>2. c + 3 < Len(s) /\ c + m + 4 <= Len(s) /\ m \in Nat
                BY <3>1
            <4>3. QED  BY <4>1, <4>2
        <3>5. d + m + 4 \in D
            BY <3>1, <3>2
        <3>6. QED  BY <3>3, <3>4, <3>5 DEF Begins
    <2>5. QED  BY <1>5, <2>3, <2>4 DEF Ends
<1> HIDE DEF D
<1>8. Ends(D, t)
    BY <1>7 DEF Ends
<1>9. QED  BY <1>3, <1>4, <1>6, <1>8 DEF Placed, t

\* A whole packet is there when nothing else is left of the last.
LEMMA NextPacket ==
    ASSUME NEW s \in Bytes, Placed(s, 0), s # <<>>
    PROVE  Len(s) > 3 /\ s[1] = Start /\ Placed(s, s[3] + 4)
<1>1. PICK C \in SUBSET (0..Len(s)) : 0 \in C /\ Ends(C, s)
    BY DEF Placed
<1>2. Len(s) \in Nat /\ Len(s) # 0
    BY DEF Bytes
<1>3. Begins(s, 0) /\ 0 + s[0 + 3] + 4 \in C
    BY <1>1, <1>2 DEF Ends
<1>4. /\ Len(s) > 3 /\ s[1] = Start /\ s[3] \in Nat /\ s[3] + 4 \in C
      /\ s[3] + 4 <= Len(s) /\ s[s[3] + 4] = End
    <2>1. 0 + 1 = 1 /\ 0 + 3 = 3
        OBVIOUS
    <2>2. 3 < Len(s) /\ s[1] = Start
        BY <1>3, <2>1 DEF Begins
    <2>3. s[3] \in Nat
        <3>1. 3 \in 1..Len(s)
            BY <1>2, <2>2
        <3>2. QED  BY <3>1, ElementOfSeq, ByteTypes DEF Bytes
    <2>4. 0 + s[0 + 3] + 4 = s[3] + 4
        BY <2>1, <2>3
    <2>5. QED  BY <1>2, <1>3, <2>2, <2>3, <2>4 DEF Begins
<1> DEFINE r == s[3] + 4
           D == {c \in C : c >= r}
<1>5. r \in 0..Len(s) /\ r \in D /\ D \in SUBSET (r..Len(s)) /\ r \in Nat
    <2>1. r \in Nat /\ r \in C /\ r <= Len(s)
        BY <1>4
    <2> HIDE DEF r
    <2>2. r \in D
        BY <2>1
    <2>3. \A c \in D : c \in r..Len(s)
        BY <1>1, <1>2, <2>1
    <2> HIDE DEF D
    <2>4. QED  BY <1>2, <2>1, <2>2, <2>3
<1>6. Ends(D, s)
    <2> SUFFICES ASSUME NEW c \in D, c # Len(s) PROVE Begins(s, c) /\ c + s[c + 3] + 4 \in D
        BY DEF Ends
    <2>1. Begins(s, c) /\ c + s[c + 3] + 4 \in C
        BY <1>1 DEF Ends
    <2>2. c \in Nat /\ c >= r /\ c + 3 \in 1..Len(s)
        BY <1>1, <1>2, <2>1 DEF Begins
    <2>3. s[c + 3] \in Nat
        BY <2>2, ElementOfSeq, ByteTypes DEF Bytes
    <2>4. c + s[c + 3] + 4 >= r
        BY <1>5, <2>2, <2>3
    <2>5. QED  BY <2>1, <2>4
<1> HIDE DEF D
<1>7. Placed(s, r)
    BY <1>4, <1>5, <1>6 DEF Placed
<1>8. QED  BY <1>4, <1>7

\* Another packet has come.
LEMMA Arrived ==
    ASSUME NEW s \in Bytes, NEW r, Placed(s, r), NEW byte \in Byte, NEW data \in Bytes, Len(data) \in Byte
    PROVE  Placed(s \o Packet(byte, data), r)
<1> DEFINE p == Packet(byte, data)
           t == s \o p
           m == Len(data)
<1>1. /\ p \in Bytes /\ Len(p) = m + 4 /\ p[1] = Start /\ p[3] = m /\ p[m + 4] = End /\ m \in Nat
    BY PacketShape, ByteTypes
<1> HIDE DEF p, m
<1>2. /\ t \in Bytes /\ Len(t) = Len(s) + Len(p) /\ Len(s) \in Nat
      /\ \A i \in 1..Len(s) : t[i] = s[i]
      /\ \A i \in 1..Len(p) : t[Len(s) + i] = p[i]
    BY <1>1, JoinShape DEF Joins
<1> HIDE DEF t
<1>3. /\ t[Len(s) + 1] = Start /\ t[Len(s) + 3] = m /\ t[Len(s) + (m + 4)] = End
    <2>1. 1 \in 1..Len(p) /\ 3 \in 1..Len(p) /\ m + 4 \in 1..Len(p)
        BY <1>1
    <2>2. QED  BY <1>1, <1>2, <2>1
<1>4. r \in 0..Len(s) /\ r \in 0..Len(t) /\ r \in Nat
    BY <1>1, <1>2 DEF Placed
<1>5. r > 0 => t[r] = End
    BY <1>2, <1>4 DEF Placed
<1>6. PICK C \in SUBSET (r..Len(s)) : r \in C /\ Ends(C, s)
    BY DEF Placed
<1> DEFINE D == C \cup {Len(t)}
<1>7. D \in SUBSET (r..Len(t)) /\ r \in D
    <2>1. \A c \in r..Len(s) : c \in r..Len(t)
        BY <1>1, <1>2, <1>4
    <2>2. Len(t) \in r..Len(t)
        BY <1>1, <1>2, <1>4
    <2>3. QED  BY <1>6, <2>1, <2>2
<1>8. Ends(D, t)
    <2> SUFFICES ASSUME NEW c \in C, c # Len(t) PROVE Begins(t, c) /\ c + t[c + 3] + 4 \in D
        BY DEF Ends
    <2>1. c \in 0..Len(s)
        BY <1>4, <1>6
    <2>2. CASE c = Len(s)
        <3>1. c + 3 < Len(t) /\ t[c + 1] = Start /\ t[c + 3] = m /\ c + m + 4 = Len(t) /\ t[c + m + 4] = End
            <4>1. c + m + 4 = Len(s) + (m + 4)
                BY <1>1, <1>2, <2>2
            <4>2. QED  BY <1>1, <1>2, <1>3, <2>2, <4>1
        <3>2. c + t[c + 3] + 4 = Len(t)
            BY <3>1
        <3>3. QED  BY <1>2, <3>1, <3>2 DEF Begins
    <2>3. CASE c # Len(s)
        <3>1. Begins(s, c) /\ c + s[c + 3] + 4 \in C
            BY <1>6, <2>3 DEF Ends
        <3>2. c + 1 \in 1..Len(s) /\ c + 3 \in 1..Len(s)
            BY <1>2, <2>1, <3>1 DEF Begins
        <3>3. t[c + 1] = s[c + 1] /\ t[c + 3] = s[c + 3] /\ s[c + 3] \in Nat
            BY <1>2, <3>2, ElementOfSeq, ByteTypes DEF Bytes
        <3>4. c + s[c + 3] + 4 \in 1..Len(s)
            BY <1>2, <2>1, <3>1, <3>3 DEF Begins
        <3>5. t[c + s[c + 3] + 4] = s[c + s[c + 3] + 4]
            BY <1>2, <3>4
        <3>6. c + 3 < Len(t) /\ c + s[c + 3] + 4 <= Len(t)
            BY <1>1, <1>2, <3>2, <3>4
        <3>7. QED  BY <3>1, <3>3, <3>5, <3>6 DEF Begins
    <2>4. QED  BY <2>2, <2>3
<1> HIDE DEF D
<1>9. QED  BY <1>4, <1>5, <1>7, <1>8 DEF Placed, t, p

-----------------------------------------------------------------------------
(* The streams are made of bytes.                                          *)

Sendable == {a \in [code : Byte, data : Bytes] : Len(a.data) \in Byte}

LEMMA AnswersAreSendable ==
    ASSUME NEW cmd, NEW data \in Bytes
    PROVE  HandlerAnswers(cmd, data) \subseteq Sendable /\ Reply(NoResources) \in Sendable
           /\ Reply(BadPkt) \in Sendable
<1>1. \A code \in {OK, BadPkt, CmdUnknown, CmdMalformed, Failed, NoResources} : Reply(code) \in Sendable
    <2>1. <<>> \in Bytes /\ Len(<<>>) = 0 /\ 0 \in Byte
        BY ByteTypes DEF Bytes
    <2>2. QED  BY <2>1, AnswersFit DEF Sendable, Reply
<1>2. [code |-> Failed, data |-> <<Text>>] \in Sendable
    <2>1. <<Text>> \in Bytes /\ Len(<<Text>>) = 1
        BY ByteTypes DEF Bytes
    <2>2. 1 \in Byte
        BY AnswersFit, ByteTypes DEF BadPkt
    <2>3. QED  BY <2>1, <2>2, AnswersFit DEF Sendable
<1>3. SendFrameAnswers(data) \subseteq Sendable
    BY <1>1, <1>2 DEF SendFrameAnswers
<1>4. ASSUME cmd \in {RecvRxEvents, RecvTxEvents} PROVE RecvEventsAnswers(cmd, data) \subseteq Sendable
    <2>1. CASE Len(data) # 1 \/ data[1] >= Controllers
        BY <1>1, <2>1 DEF RecvEventsAnswers
    <2>2. CASE ~(Len(data) # 1 \/ data[1] >= Controllers)
        <3>1. data[1] \in Byte /\ Controllers \in Nat
            BY <2>2, ElementOfSeq, ByteTypes, HostProtocolAssumption DEF Bytes
        <3>2. data[1] \in 0..(Controllers - 1)
            BY <2>2, <3>1, ByteTypes
        <3>3. [code |-> OK, data |-> Event(cmd, data[1])] \in Sendable
            BY <1>4, <3>2, AnswersFit DEF Sendable, Bytes
        <3>4. QED  BY <1>1, <2>2, <3>3 DEF RecvEventsAnswers
    <2>3. QED  BY <2>1, <2>2
<1>5. HandlerAnswers(cmd, data) \subseteq Sendable
    <2>1. CASE cmd = SendFrame
        BY <1>3, <2>1 DEF HandlerAnswers, SendFrame, RecvRxEvents, RecvTxEvents
    <2>2. CASE cmd \in {RecvRxEvents, RecvTxEvents}
        BY <1>4, <2>2 DEF HandlerAnswers, SendFrame, RecvRxEvents, RecvTxEvents
    <2>3. CASE cmd # SendFrame /\ cmd \notin {RecvRxEvents, RecvTxEvents}
        BY <1>1, <2>3 DEF HandlerAnswers
    <2>4. QED  BY <2>1, <2>2, <2>3
<1>6. QED  BY <1>1, <1>5

\* What a request puts on the stream.
LEMMA RequestShape ==
    ASSUME NEW r \in Request
    PROVE  r.cmd \in Byte /\ r.data \in Bytes /\ Len(r.data) \in Byte
BY HostProtocolAssumption DEF Bytes

LEMMA BeginningOfPacket ==
    ASSUME NEW r \in Request, NEW n \in 1..(Len(r.data) + 3)
    PROVE  SubSeq(Packet(r.cmd, r.data), 1, n) \in Bytes
<1> DEFINE p == Packet(r.cmd, r.data)
<1>1. p \in Bytes /\ Len(p) = Len(r.data) + 4 /\ Len(r.data) \in Nat
    BY RequestShape, PacketShape, ByteTypes
<1> HIDE DEF p
<1>2. \A i \in 1..n : p[i] \in Byte
    BY <1>1, ElementOfSeq DEF Bytes
<1>3. QED  BY <1>2, SubSeqProperties DEF Bytes, p

LEMMA InitHostTypes == Init => HostTypes
<1>1. <<>> \in Bytes /\ <<Text>> \in Bytes /\ 0 \in Byte
    BY ByteTypes DEF Bytes
<1>2. QED  BY <1>1 DEF Init, HostTypes, Waiting, States

LEMMA SentBytes ==
    ASSUME HostTypes, NEW a \in Sendable, Send(a)
    PROVE  toHost' \in Bytes
<1>1. Packet(a.code, a.data) \in Bytes /\ <<Text>> \in Bytes /\ toHost \in Bytes
    BY PacketShape, ByteTypes DEF Sendable, HostTypes, Bytes
<1>2. toHost \o <<Text>> \in Bytes
    BY <1>1, JoinShape DEF Joins
<1>3. QED  BY <1>1, <1>2, JoinShape DEF Joins, Send

LEMMA NextHostTypes == HostTypes /\ [Next]_vars => HostTypes'
<1> SUFFICES ASSUME HostTypes, [Next]_vars PROVE HostTypes'
    OBVIOUS
<1>1. /\ toBoard \in Bytes /\ toHost \in Bytes /\ Len(toBoard) \in Nat /\ Len(toHost) \in Nat
      /\ board \in [pc : States, cmd : Byte, size : Byte, data : Bytes]
      /\ \A i \in 1..Len(toBoard) : toBoard[i] \in Byte
    BY ElementOfSeq DEF HostTypes, Bytes
<1>2. \A s \in Bytes : \A n \in 0..Len(s) : From(s, n) \in Bytes
    BY FromShape DEF Drops
<1>3. \A s \in Bytes, t \in Bytes : s \o t \in Bytes
    BY JoinShape DEF Joins
<1>4. Board => HostUnchanged
    BY DEF Board, ReadStart, BadStart, ReadHeader, OutOfMemory, Drain, DrainEnd, ReadData, ReadEnd
<1>5. ASSUME HostUnchanged, toBoard' \in Bytes, toHost' \in Bytes,
             board' \in [pc : States, cmd : Byte, size : Byte, data : Bytes]
      PROVE  HostTypes'
    BY <1>5 DEF HostTypes, HostUnchanged
<1>6. ASSUME NEW n \in Nat, Read(n) PROVE toBoard' \in Bytes /\ n \in 0..Len(toBoard)
    BY <1>1, <1>2, <1>6 DEF Read
<1>7. Waiting \in [pc : States, cmd : Byte, size : Byte, data : Bytes]
    <2>1. <<>> \in Bytes /\ 0 \in Byte
        BY ByteTypes DEF Bytes
    <2>2. QED  BY <2>1 DEF Waiting, States
<1>8. CASE ReadStart
    BY <1>1, <1>5, <1>6, <1>8 DEF ReadStart, States
<1>9. CASE BadStart
    <2>1. Append(toHost, Text) \in Bytes
        BY <1>1, ByteTypes DEF Bytes
    <2>2. QED  BY <1>1, <1>5, <1>6, <1>9, <2>1 DEF BadStart
<1>10. CASE ReadHeader
    <2>1. toBoard' \in Bytes /\ 2 \in 0..Len(toBoard)
        BY <1>6, <1>10 DEF ReadHeader
    <2>2. toBoard[1] \in Byte /\ toBoard[2] \in Byte
        BY <1>1, <2>1
    <2>3. QED  BY <1>1, <1>5, <1>10, <2>1, <2>2 DEF ReadHeader, States
<1>11. CASE OutOfMemory
    <2>1. toBoard' \in Bytes /\ 2 \in 0..Len(toBoard)
        BY <1>6, <1>11 DEF OutOfMemory
    <2>2. toBoard[2] \in Byte
        BY <1>1, <2>1
    <2>3. toHost' \in Bytes
        BY <1>11, AnswersAreSendable, SentBytes, <1>1 DEF OutOfMemory
    <2>4. QED  BY <1>1, <1>5, <1>11, <2>1, <2>2, <2>3 DEF OutOfMemory, States
<1>12. CASE Drain
    <2> DEFINE n == Min({board.size, Chunk})
    <2>1. n \in Nat /\ board.size - n \in Byte
        <3>1. board.size \in Nat /\ Chunk \in Nat
            BY <1>1, ByteTypes
        <3>2. n = (IF board.size <= Chunk THEN board.size ELSE Chunk)
            BY <3>1 DEF Min
        <3>3. QED  BY <1>1, <3>1, <3>2, ByteTypes DEF Byte
    <2>2. Read(n) /\ board' = [board EXCEPT !.size = @ - n] /\ toHost' = toHost /\ HostUnchanged
        BY <1>12 DEF Drain
    <2> HIDE DEF n
    <2>3. QED  BY <1>1, <1>5, <1>6, <2>1, <2>2 DEF States
<1>13. CASE DrainEnd
    BY <1>1, <1>5, <1>6, <1>7, <1>13 DEF DrainEnd
<1>14. CASE ReadData
    <2>1. board.size \in Nat /\ Read(board.size)
        BY <1>1, <1>14, ByteTypes DEF ReadData
    <2>2. toBoard' \in Bytes /\ board.size \in 0..Len(toBoard)
        BY <1>6, <2>1
    <2>3. SubSeq(toBoard, 1, board.size) \in Bytes
        <3>1. \A i \in 1..board.size : toBoard[i] \in Byte
            BY <1>1, <2>1, <2>2
        <3>2. QED  BY <2>1, <3>1, SubSeqProperties DEF Bytes
    <2>4. QED  BY <1>1, <1>5, <1>14, <2>2, <2>3 DEF ReadData, States
<1>15. CASE ReadEnd
    <2>1. \E a \in Sendable : Send(a)
        <3>1. board.data \in Bytes
            BY <1>1
        <3>2. PICK answer \in (IF Head(toBoard) = End THEN HandlerAnswers(board.cmd, board.data)
                               ELSE {Reply(BadPkt)}) : Send(answer)
            BY <1>15 DEF ReadEnd
        <3>3. answer \in Sendable
            BY <3>1, <3>2, AnswersAreSendable
        <3>4. QED  BY <3>2, <3>3
    <2>2. toHost' \in Bytes
        BY <2>1, SentBytes
    <2>3. QED  BY <1>1, <1>5, <1>6, <1>7, <1>15, <2>2 DEF ReadEnd
<1>16. ASSUME NEW r \in Request, Call(r) PROVE HostTypes'
    <2>1. Packet(r.cmd, r.data) \in Bytes
        BY RequestShape, PacketShape
    <2>2. QED  BY <1>1, <1>3, <1>16, <2>1 DEF Call, HostTypes
<1>17. ASSUME NEW r \in Request, AbandonWrite(r) PROVE HostTypes'
    <2>1. PICK n \in 1..(Len(r.data) + 3) : toBoard' = toBoard \o SubSeq(Packet(r.cmd, r.data), 1, n)
        BY <1>17 DEF AbandonWrite
    <2>2. toBoard' \in Bytes
        BY <1>1, <1>3, <2>1, BeginningOfPacket
    <2>3. QED  BY <1>17, <2>2 DEF AbandonWrite, HostTypes
<1>18. CASE Scan
    <2>1. toHost' \in Bytes
        BY <1>1, <1>18 DEF Scan, Bytes
    <2>2. QED  BY <1>18, <2>1 DEF Scan, HostTypes
<1>19. CASE TakeAnswer
    <2>1. Needed \in 0..Len(toHost)
        <3>1. \A i \in 1..Len(toHost) : toHost[i] \in Nat
            BY <1>1, ElementOfSeq, ByteTypes DEF Bytes
        <3>2. QED  BY <1>1, <1>19, <3>1 DEF TakeAnswer, Needed
    <2>2. QED  BY <1>1, <1>2, <1>19, <2>1 DEF TakeAnswer, HostTypes
<1>20. CASE Abandon
    BY <1>1, <1>2, <1>20 DEF Abandon, HostTypes
<1>21. CASE Reopen
    BY <1>1, <1>2, <1>21 DEF Reopen, HostTypes
<1>22. CASE UNCHANGED vars
    BY <1>22 DEF vars, HostTypes
<1>23. QED
    BY <1>8, <1>9, <1>10, <1>11, <1>12, <1>13, <1>14, <1>15, <1>16, <1>17, <1>18, <1>19, <1>20, <1>21, <1>22
    DEF Next, Board, Host

-----------------------------------------------------------------------------
(* The board's place in the stream.                                        *)

\* What is still to be read of the packet that loop() is at.
Rest ==
    IF board.pc = "start" THEN 0
    ELSE IF board.pc = "header" THEN toBoard[2] + 3
    ELSE IF board.pc = "end" THEN 1
    ELSE board.size + 1

InPlace == Placed(toBoard, Rest) /\ (board.pc = "header" => Len(toBoard) > 2)

PlaceInv == whole => InPlace

\* The rest after each of loop()'s reads, and that no read goes past the packet.
Reads(n) == n \in 0..Rest /\ toBoard' = From(toBoard, n) /\ Rest' = Rest - n /\ board'.pc # "header"

LEMMA BoardReads ==
    ASSUME HostTypes, InPlace, Board
    PROVE  \/ /\ ReadStart /\ Len(toBoard) > 3 /\ toBoard[1] = Start /\ Placed(toBoard, toBoard[3] + 4)
              /\ toBoard' = From(toBoard, 1) /\ board'.pc = "header"
           \/ ~ReadStart /\ ~BadStart /\ \E n \in 0..Rest : Reads(n)
<1>1. /\ toBoard \in Bytes /\ Len(toBoard) \in Nat
      /\ board \in [pc : States, cmd : Byte, size : Byte, data : Bytes]
      /\ board.size \in Nat
      /\ \A i \in 1..Len(toBoard) : toBoard[i] \in Nat
      /\ Rest \in 0..Len(toBoard)
    BY ElementOfSeq, ByteTypes DEF HostTypes, Bytes, InPlace, Placed
<1>2. ASSUME board.pc = "start", Read(1)
      PROVE  Len(toBoard) > 3 /\ toBoard[1] = Start /\ Placed(toBoard, toBoard[3] + 4)
    <2>1. toBoard # <<>>
        BY <1>1, <1>2 DEF Read, Bytes
    <2>2. Placed(toBoard, 0)
        BY <1>2 DEF InPlace, Rest
    <2>3. QED  BY <1>1, <2>1, <2>2, NextPacket
<1>3. CASE ReadStart
    <2>1. board.pc = "start" /\ Read(1) /\ board'.pc = "header"
        BY <1>1, <1>3 DEF ReadStart
    <2>2. QED  BY <1>2, <1>3, <2>1 DEF Read
<1>4. ~BadStart
    <2> SUFFICES ASSUME BadStart PROVE FALSE
        OBVIOUS
    <2>1. Head(toBoard) # Start /\ board.pc = "start" /\ Read(1)
        BY DEF BadStart
    <2>2. toBoard[1] = Start /\ Len(toBoard) > 3
        BY <1>2, <2>1
    <2>3. Head(toBoard) = toBoard[1]
        BY <1>1, <2>2 DEF Bytes
    <2>4. QED  BY <2>1, <2>2, <2>3
<1>5. CASE ReadHeader \/ OutOfMemory
    <2>1. /\ board.pc = "header" /\ Rest = toBoard[2] + 3 /\ toBoard' = From(toBoard, 2)
          /\ board'.pc \in {"data", "drain"} /\ board'.size = toBoard[2] /\ ~ReadStart /\ toBoard[2] \in Nat
        <3>1. board.pc = "header"
            BY <1>5 DEF ReadHeader, OutOfMemory
        <3>2. Len(toBoard) > 2
            BY <3>1 DEF InPlace
        <3>3. toBoard[2] \in Nat /\ Rest = toBoard[2] + 3 /\ ~ReadStart
            BY <1>1, <3>1, <3>2 DEF Rest, ReadStart
        <3>4. CASE ReadHeader
            BY <1>1, <3>1, <3>3, <3>4 DEF ReadHeader, Read
        <3>5. CASE OutOfMemory
            BY <1>1, <3>1, <3>3, <3>5 DEF OutOfMemory, Read
        <3>6. QED  BY <1>5, <3>4, <3>5
    <2>2. Rest' = Rest - 2
        BY <2>1 DEF Rest
    <2>3. Reads(2) /\ 2 \in 0..Rest
        BY <1>1, <2>1, <2>2 DEF Reads
    <2>4. QED  BY <1>4, <2>1, <2>3
<1>6. CASE Drain
    <2> DEFINE n == Min({board.size, Chunk})
    <2>1. n \in 0..board.size
        <3>1. n = (IF board.size <= Chunk THEN board.size ELSE Chunk)
            BY <1>1, ByteTypes DEF Min
        <3>2. QED  BY <1>1, <3>1, ByteTypes
    <2>2. Read(n) /\ board.pc = "drain" /\ board' = [board EXCEPT !.size = @ - n]
        BY <1>6 DEF Drain
    <2> HIDE DEF n
    <2>3. /\ toBoard' = From(toBoard, n) /\ board'.pc = "drain" /\ board'.size = board.size - n
          /\ Rest = board.size + 1 /\ Rest' = board'.size + 1 /\ ~ReadStart
        BY <1>1, <2>2 DEF Read, Rest, ReadStart
    <2>4. Reads(n) /\ n \in 0..Rest
        BY <1>1, <2>1, <2>3 DEF Reads
    <2>5. QED  BY <1>4, <2>3, <2>4
<1>7. CASE DrainEnd \/ ReadEnd
    <2>1. toBoard' = From(toBoard, 1) /\ Rest = 1 /\ Rest' = 0 /\ board'.pc = "start" /\ ~ReadStart
        BY <1>1, <1>7 DEF DrainEnd, ReadEnd, Read, Rest, Waiting, ReadStart
    <2>2. Reads(1) /\ 1 \in 0..Rest
        BY <2>1 DEF Reads
    <2>3. QED  BY <1>4, <2>1, <2>2
<1>8. CASE ReadData
    <2>1. /\ toBoard' = From(toBoard, board.size) /\ Rest = board.size + 1 /\ Rest' = 1
          /\ board'.pc = "end" /\ ~ReadStart
        BY <1>1, <1>8 DEF ReadData, Read, Rest, ReadStart
    <2>2. Reads(board.size) /\ board.size \in 0..Rest
        BY <1>1, <2>1 DEF Reads
    <2>3. QED  BY <1>4, <2>1, <2>2
<1>9. QED  BY <1>3, <1>4, <1>5, <1>6, <1>7, <1>8 DEF Board

LEMMA InitPlaceInv == Init => PlaceInv
<1> SUFFICES ASSUME Init PROVE InPlace
    BY DEF PlaceInv
<1>1. toBoard = <<>> /\ board.pc = "start" /\ Rest = 0 /\ Len(toBoard) = 0
    BY DEF Init, Waiting, Rest
<1>2. Ends({0}, toBoard) /\ {0} \in SUBSET (0..0)
    BY <1>1 DEF Ends
<1>3. Placed(toBoard, 0)
    BY <1>1, <1>2 DEF Placed
<1>4. QED  BY <1>1, <1>3 DEF InPlace

LEMMA NextPlaceInv == HostTypes /\ PlaceInv /\ [Next]_vars => PlaceInv'
<1> SUFFICES ASSUME HostTypes, PlaceInv, [Next]_vars, whole' PROVE InPlace'
    BY DEF PlaceInv
<1>1. toBoard \in Bytes /\ Len(toBoard) \in Nat
    BY DEF HostTypes, Bytes
<1>2. whole
    BY DEF Next, vars, Board, Host, ReadStart, BadStart, ReadHeader, OutOfMemory, Drain, DrainEnd, ReadData,
           ReadEnd, HostUnchanged, Call, AbandonWrite, Scan, TakeAnswer, Abandon, Reopen
<1>3. InPlace
    BY <1>2 DEF PlaceInv
<1>4. CASE Board
    <2>1. CASE /\ ReadStart /\ Len(toBoard) > 3 /\ toBoard[1] = Start /\ Placed(toBoard, toBoard[3] + 4)
               /\ toBoard' = From(toBoard, 1) /\ board'.pc = "header"
        <3>1. toBoard[3] \in Nat /\ 1 \in 0..Len(toBoard)
            <4>1. 3 \in 1..Len(toBoard)
                BY <1>1, <2>1
            <4>2. toBoard[3] \in Byte
                BY <1>1, <4>1, ElementOfSeq DEF Bytes
            <4>3. QED  BY <4>2, <4>1, ByteTypes
        <3>2. Len(toBoard') = Len(toBoard) - 1 /\ toBoard'[2] = toBoard[1 + 2]
            <4>1. Drops(toBoard', toBoard, 1)
                BY <1>1, <2>1, <3>1, FromShape
            <4>2. 2 \in 1..Len(toBoard)-1
                BY <1>1, <2>1
            <4>3. QED  BY <4>1, <4>2 DEF Drops
        <3>3. Rest' = toBoard'[2] + 3
            BY <2>1 DEF Rest
        <3>4. Rest' = (toBoard[3] + 4) - 1 /\ 1 \in 0..(toBoard[3] + 4)
            BY <3>1, <3>2, <3>3
        <3>5. Placed(toBoard', Rest')
            BY <1>1, <2>1, <3>4, Consumed
        <3>6. QED  BY <1>1, <2>1, <3>2, <3>5 DEF InPlace
    <2>2. ASSUME NEW n \in 0..Rest, Reads(n) PROVE InPlace'
        <3>1. Placed(toBoard, Rest) /\ toBoard' = From(toBoard, n) /\ Rest' = Rest - n /\ board'.pc # "header"
            BY <1>3, <2>2 DEF InPlace, Reads
        <3>2. Placed(toBoard', Rest')
            BY <1>1, <3>1, Consumed
        <3>3. QED  BY <3>1, <3>2 DEF InPlace
    <2>3. QED  BY <1>3, <1>4, <2>1, <2>2, BoardReads
<1>5. ASSUME NEW r \in Request, Call(r) PROVE InPlace'
    <2>1. toBoard' = toBoard \o Packet(r.cmd, r.data) /\ board' = board
        BY <1>5 DEF Call
    <2>2. r.cmd \in Byte /\ r.data \in Bytes /\ Len(r.data) \in Byte
        BY RequestShape
    <2>3. Placed(toBoard', Rest)
        BY <1>1, <1>3, <2>1, <2>2, Arrived DEF InPlace
    <2>4. Joins(toBoard', toBoard, Packet(r.cmd, r.data))
        BY <1>1, <2>1, <2>2, PacketShape, JoinShape
    <2>5. board.pc = "header" => Len(toBoard') > 2 /\ toBoard'[2] = toBoard[2]
        BY <1>1, <1>3, <2>4 DEF InPlace, Joins
    <2>6. Rest' = Rest
        BY <2>1, <2>5 DEF Rest
    <2>7. QED  BY <2>1, <2>3, <2>5, <2>6 DEF InPlace
<1>6. ASSUME NEW r \in Request PROVE ~AbandonWrite(r)
    BY DEF AbandonWrite
<1>7. CASE UNCHANGED <<toBoard, board>>
    BY <1>3, <1>7 DEF InPlace, Rest
<1>8. Scan \/ TakeAnswer \/ Abandon \/ Reopen \/ UNCHANGED vars => UNCHANGED <<toBoard, board>>
    BY DEF Scan, TakeAnswer, Abandon, Reopen, vars
<1>9. QED  BY <1>4, <1>5, <1>6, <1>7, <1>8 DEF Next, Host

LEMMA HostTypesAlways == Spec => []HostTypes
BY InitHostTypes, NextHostTypes, PTL DEF Spec

\* While packets are written whole, loop() finds a start byte and an end byte where it
\* looks for them, whatever the host has read of the answers or given up, and whether or
\* not there was memory for a command.
THEOREM PlaceIsKept == Spec => []BoardKeepsItsPlace
<1>1. HostTypes /\ PlaceInv => BoardKeepsItsPlace
    <2> SUFFICES ASSUME HostTypes, PlaceInv, whole, toBoard # <<>>
                 PROVE  /\ board.pc = "start" => Head(toBoard) = Start
                        /\ board.pc = "end" \/ (board.pc = "drain" /\ board.size = 0) => Head(toBoard) = End
        BY DEF BoardKeepsItsPlace
    <2>1. toBoard \in Bytes /\ Head(toBoard) = toBoard[1] /\ Placed(toBoard, Rest)
        BY DEF HostTypes, Bytes, PlaceInv, InPlace
    <2>2. board.pc = "start" => toBoard[1] = Start
        BY <2>1, NextPacket DEF Rest
    <2>3. board.pc = "end" \/ (board.pc = "drain" /\ board.size = 0) => toBoard[1] = End
        BY <2>1 DEF Placed, Rest
    <2>4. QED  BY <2>1, <2>2, <2>3
<1>2. QED
    BY <1>1, InitHostTypes, NextHostTypes, InitPlaceInv, NextPlaceInv, PTL DEF Spec

-----------------------------------------------------------------------------
(* One command and one answer at a time.                                   *)

\* After r bytes s has a packet and nothing else; or, if r is negative, it has the packet
\* but for its first -r bytes.
Carries(s, r, byte, data) ==
    /\ Len(s) = r + Len(data) + 4
    /\ \A i \in 1..Len(s) : i > r => s[i] = Packet(byte, data)[i - r]

AllText(s, n) == \A i \in 1..n : s[i] = Text

\* loop() waits for a packet, at most the rest of one it had no memory for is to come first.
AtRest == board.pc \in {"start", "drain"} /\ Len(toBoard) = Rest

\* Where the request under way begins in the stream.
Before ==
    CASE board.pc = "start" -> 0
      [] board.pc = "drain" -> board.size + 1
      [] board.pc = "header" -> 0 - 1
      [] board.pc = "data" -> 0 - 3
      [] board.pc = "end" -> 0 - (3 + Len(request.data))

\* The request is on its way or being read.
Commanded ==
    /\ Carries(toBoard, Before, request.cmd, request.data)
    /\ board.pc \in {"data", "end"} => board.cmd = request.cmd
    /\ board.pc = "data" => board.size = Len(request.data)
    /\ board.pc = "end" => board.data = request.data

\* What loop() may answer.
Given(r) == HandlerAnswers(r.cmd, r.data) \cup {Reply(NoResources)}

Turns ==
    /\ host = "idle" => AtRest /\ AllText(toHost, Len(toHost))
    /\ host = "scan" =>
         \/ Commanded /\ AllText(toHost, Len(toHost))
         \/ /\ AtRest
            /\ \E a \in Given(request), k \in 0..Len(toHost) :
                 AllText(toHost, k) /\ Carries(toHost, k, a.code, a.data)
    /\ host = "answer" => AtRest /\ \E a \in Given(request) : Carries(toHost, 0 - 1, a.code, a.data)

TurnInv == trusted => Turns

LEMMA GivenAreSendable ==
    ASSUME HostTypes, host # "idle"
    PROVE  /\ request \in Request /\ Given(request) \subseteq Sendable
           /\ \A a \in Given(request) : a.code \in Byte /\ a.data \in Bytes /\ Len(a.data) \in Byte
<1>1. request \in Request /\ request.data \in Bytes
    BY RequestShape DEF HostTypes
<1>2. Given(request) \subseteq Sendable
    BY <1>1, AnswersAreSendable DEF Given
<1>3. QED  BY <1>1, <1>2 DEF Sendable

LEMMA CarriedOn ==
    ASSUME NEW s \in Bytes, NEW t, NEW n \in 0..Len(s), Drops(t, s, n), NEW r \in Int,
           NEW byte \in Byte, NEW data \in Bytes, Carries(s, r, byte, data)
    PROVE  Carries(t, r - n, byte, data)
<1> DEFINE p == Packet(byte, data)
<1>1. /\ Len(s) = r + Len(data) + 4 /\ \A i \in 1..Len(s) : i > r => s[i] = p[i - r]
      /\ Len(t) = Len(s) - n /\ \A i \in 1..Len(s)-n : t[i] = s[n + i]
      /\ Len(s) \in Nat /\ Len(data) \in Nat /\ n \in Nat
    BY DEF Carries, Drops, Bytes
<1> HIDE DEF p
<1>2. Len(t) = (r - n) + Len(data) + 4
    BY <1>1
<1>3. ASSUME NEW i \in 1..Len(t), i > r - n PROVE t[i] = p[i - (r - n)]
    <2>1. n + i \in 1..Len(s) /\ n + i > r /\ i \in 1..Len(s)-n /\ (n + i) - r = i - (r - n)
        BY <1>1, <1>3
    <2>2. t[i] = s[n + i] /\ s[n + i] = p[(n + i) - r]
        BY <1>1, <2>1
    <2>3. QED  BY <2>1, <2>2
<1>4. QED  BY <1>2, <1>3 DEF Carries, p

LEMMA PacketComes ==
    ASSUME NEW s \in Bytes, NEW byte \in Byte, NEW data \in Bytes, Len(data) \in Byte
    PROVE  Carries(s \o Packet(byte, data), Len(s), byte, data)
<1> DEFINE p == Packet(byte, data)
           t == s \o p
<1>1. p \in Bytes /\ Len(p) = Len(data) + 4 /\ Len(data) \in Nat
    BY PacketShape, ByteTypes
<1> HIDE DEF p
<1>2. Joins(t, s, p)
    BY <1>1, JoinShape
<1> HIDE DEF t
<1>3. Len(t) = Len(s) + Len(data) + 4 /\ Len(s) \in Nat
    BY <1>1, <1>2 DEF Joins
<1>4. ASSUME NEW i \in 1..Len(t), i > Len(s) PROVE t[i] = p[i - Len(s)]
    <2>1. i - Len(s) \in 1..Len(p) /\ Len(s) + (i - Len(s)) = i
        BY <1>1, <1>3, <1>4
    <2>2. t[Len(s) + (i - Len(s))] = p[i - Len(s)]
        BY <1>2, <2>1 DEF Joins
    <2>3. QED  BY <2>1, <2>2
<1>5. QED  BY <1>3, <1>4 DEF Carries, t, p

\* What is read of a packet.
LEMMA CarriedBytes ==
    ASSUME NEW s \in Bytes, NEW byte \in Byte, NEW data \in Bytes, Len(data) \in Byte
    PROVE  /\ Carries(s, 0, byte, data) => s[1] = Start /\ Len(s) > 3
           /\ Carries(s, 0 - 1, byte, data) =>
                /\ Len(s) = Len(data) + 3 /\ s[1] = byte /\ s[2] = Len(data) /\ s[Len(data) + 3] = End
                /\ \A i \in 1..Len(data) : s[2 + i] = data[i]
           /\ Carries(s, 0 - 3, byte, data) =>
                Len(s) = Len(data) + 1 /\ \A i \in 1..Len(data) : s[i] = data[i]
           /\ Carries(s, 0 - (3 + Len(data)), byte, data) => Len(s) = 1 /\ s[1] = End
<1> DEFINE p == Packet(byte, data)
           n == Len(data)
<1>1. /\ p[1] = Start /\ p[2] = byte /\ p[3] = n /\ p[n + 4] = End
      /\ \A i \in 1..n : p[3 + i] = data[i]
      /\ n \in Nat
    BY PacketShape, ByteTypes
<1>2. ASSUME NEW r \in Int, Carries(s, r, byte, data)
      PROVE  Len(s) = r + n + 4 /\ \A i \in 1..Len(s) : i > r => s[i] = p[i - r]
    BY <1>2 DEF Carries
<1> HIDE DEF p, n
<1>3. ASSUME Carries(s, 0, byte, data) PROVE s[1] = Start /\ Len(s) > 3
    <2>1. Len(s) = 0 + n + 4 /\ \A i \in 1..Len(s) : i > 0 => s[i] = p[i - 0]
        BY <1>2, <1>3
    <2>2. Len(s) > 3 /\ 1 \in 1..Len(s) /\ 1 - 0 = 1
        BY <1>1, <2>1
    <2>3. s[1] = p[1 - 0]
        BY <2>1, <2>2
    <2>4. QED  BY <1>1, <2>2, <2>3
<1>4. ASSUME Carries(s, 0 - 1, byte, data)
      PROVE  /\ Len(s) = n + 3 /\ s[1] = byte /\ s[2] = n /\ s[n + 3] = End
             /\ \A i \in 1..n : s[2 + i] = data[i]
    <2>1. Len(s) = (0 - 1) + n + 4 /\ \A i \in 1..Len(s) : i > 0 - 1 => s[i] = p[i - (0 - 1)]
        BY <1>2, <1>4
    <2>2. Len(s) = n + 3 /\ \A i \in 1..Len(s) : s[i] = p[i + 1]
        BY <1>1, <2>1
    <2>3. 1 \in 1..Len(s) /\ 2 \in 1..Len(s) /\ n + 3 \in 1..Len(s) /\ 1 + 1 = 2 /\ 2 + 1 = 3 /\ (n + 3) + 1 = n + 4
        BY <1>1, <2>2
    <2>4. s[1] = byte /\ s[2] = n /\ s[n + 3] = End
        <3>1. s[1] = p[1 + 1] /\ s[2] = p[2 + 1] /\ s[n + 3] = p[(n + 3) + 1]
            BY <2>2, <2>3
        <3>2. QED  BY <1>1, <2>3, <3>1
    <2>5. ASSUME NEW i \in 1..n PROVE s[2 + i] = data[i]
        <3>1. 2 + i \in 1..Len(s) /\ (2 + i) + 1 = 3 + i
            BY <1>1, <2>2
        <3>2. s[2 + i] = p[(2 + i) + 1]
            BY <2>2, <3>1
        <3>3. QED  BY <1>1, <3>1, <3>2
    <2>6. QED  BY <2>2, <2>4, <2>5
<1>5. ASSUME Carries(s, 0 - 3, byte, data) PROVE Len(s) = n + 1 /\ \A i \in 1..n : s[i] = data[i]
    <2>1. Len(s) = (0 - 3) + n + 4 /\ \A i \in 1..Len(s) : i > 0 - 3 => s[i] = p[i - (0 - 3)]
        BY <1>2, <1>5
    <2>2. Len(s) = n + 1
        BY <1>1, <2>1
    <2>3. ASSUME NEW i \in 1..n PROVE s[i] = data[i]
        <3>1. i \in 1..Len(s) /\ i > 0 - 3 /\ i - (0 - 3) = 3 + i
            BY <1>1, <2>2
        <3>2. s[i] = p[i - (0 - 3)]
            BY <2>1, <3>1
        <3>3. QED  BY <1>1, <3>1, <3>2
    <2>4. QED  BY <2>2, <2>3
<1>6. ASSUME Carries(s, 0 - (3 + n), byte, data) PROVE Len(s) = 1 /\ s[1] = End
    <2>1. /\ Len(s) = (0 - (3 + n)) + n + 4
          /\ \A i \in 1..Len(s) : i > 0 - (3 + n) => s[i] = p[i - (0 - (3 + n))]
        BY <1>1, <1>2, <1>6
    <2>2. Len(s) = 1 /\ 1 \in 1..Len(s) /\ 1 > 0 - (3 + n) /\ 1 - (0 - (3 + n)) = n + 4
        BY <1>1, <2>1
    <2>3. s[1] = p[1 - (0 - (3 + n))]
        BY <2>1, <2>2
    <2>4. QED  BY <1>1, <2>2, <2>3
<1>7. QED  BY <1>3, <1>4, <1>5, <1>6 DEF n

\* loop() has no packet: it may only throw away the rest of one it had no memory for.
LEMMA BoardRests ==
    ASSUME HostTypes, AtRest, Board
    PROVE  AtRest' /\ toHost' = toHost
<1>1. /\ toBoard \in Bytes /\ Len(toBoard) \in Nat /\ board \in [pc : States, cmd : Byte, size : Byte, data : Bytes]
      /\ board.size \in Nat /\ board.pc \in {"start", "drain"} /\ Len(toBoard) = Rest
    BY ByteTypes DEF HostTypes, Bytes, AtRest
<1>2. board.pc = "start" => ~Read(1)
    BY <1>1 DEF Rest, Read
<1>3. ASSUME NEW n \in 0..Len(toBoard), toBoard' = From(toBoard, n) PROVE Len(toBoard') = Len(toBoard) - n
    BY <1>1, <1>3, FromShape DEF Drops
<1>4. CASE Drain
    <2> DEFINE n == Min({board.size, Chunk})
    <2>1. n \in 0..board.size
        <3>1. n = (IF board.size <= Chunk THEN board.size ELSE Chunk)
            BY <1>1, ByteTypes DEF Min
        <3>2. QED  BY <1>1, <3>1, ByteTypes
    <2>2. Read(n) /\ board.pc = "drain" /\ board' = [board EXCEPT !.size = @ - n] /\ toHost' = toHost
        BY <1>4 DEF Drain
    <2> HIDE DEF n
    <2>3. Len(toBoard) = board.size + 1 /\ board'.pc = "drain" /\ Rest' = (board.size - n) + 1
        BY <1>1, <2>2 DEF Rest
    <2>4. Len(toBoard') = Len(toBoard) - n
        BY <1>1, <1>3, <2>1, <2>2, <2>3 DEF Read
    <2>5. Len(toBoard') = Rest'
        BY <1>1, <2>1, <2>3, <2>4
    <2>6. QED  BY <2>2, <2>3, <2>5 DEF AtRest
<1>5. CASE DrainEnd
    <2>1. /\ toBoard' = From(toBoard, 1) /\ Len(toBoard) = 1 /\ toHost' = toHost
          /\ board'.pc = "start" /\ Rest' = 0
        BY <1>1, <1>5 DEF DrainEnd, Read, Rest, Waiting
    <2>2. Len(toBoard') = 0
        BY <1>3, <2>1
    <2>3. QED  BY <2>1, <2>2 DEF AtRest
<1>6. ~ReadStart /\ ~BadStart /\ ~ReadHeader /\ ~OutOfMemory /\ ~ReadData /\ ~ReadEnd
    BY <1>1, <1>2 DEF ReadStart, BadStart, ReadHeader, OutOfMemory, ReadData, ReadEnd
<1>7. QED  BY <1>4, <1>5, <1>6 DEF Board

\* loop() reads the request, byte for byte, and answers it.
LEMMA BoardWorks ==
    ASSUME HostTypes, host # "idle", Commanded, Board
    PROVE  \/ Commanded' /\ toHost' = toHost
           \/ AtRest' /\ \E a \in Given(request) : Send(a)
<1> DEFINE cmd == request.cmd
           data == request.data
<1>1. /\ toBoard \in Bytes /\ Len(toBoard) \in Nat /\ board \in [pc : States, cmd : Byte, size : Byte, data : Bytes]
      /\ board.size \in Nat
    BY ByteTypes DEF HostTypes, Bytes
<1>2. cmd \in Byte /\ data \in Bytes /\ Len(data) \in Byte /\ Len(data) \in Nat
    <2>1. request \in Request
        BY DEF HostTypes
    <2>2. QED  BY <2>1, RequestShape, ByteTypes
<1>3. Carries(toBoard, Before, cmd, data) /\ Before \in Int
    <2>1. Before \in Int
        BY <1>1, <1>2 DEF Before, States
    <2>2. QED  BY <2>1 DEF Commanded
<1>4. request' = request
    BY DEF Board, ReadStart, BadStart, ReadHeader, OutOfMemory, Drain, DrainEnd, ReadData, ReadEnd, HostUnchanged
<1>5. ASSUME NEW n \in 0..Len(toBoard), toBoard' = From(toBoard, n), Before' = Before - n
      PROVE  Carries(toBoard', Before', cmd, data)
    <2>1. Drops(toBoard', toBoard, n)
        BY <1>1, <1>5, FromShape
    <2> HIDE DEF cmd, data
    <2>2. Carries(toBoard', Before - n, cmd, data)
        BY <1>1, <1>2, <1>3, <2>1, CarriedOn
    <2>3. QED  BY <1>5, <2>2
<1>6. Carries(toBoard, 0 - 1, cmd, data) =>
        Len(toBoard) = Len(data) + 3 /\ toBoard[1] = cmd /\ toBoard[2] = Len(data)
    BY <1>1, <1>2, CarriedBytes
<1>7. CASE ReadStart
    <2>1. /\ board.pc = "start" /\ toBoard' = From(toBoard, 1) /\ 1 \in 0..Len(toBoard) /\ toHost' = toHost
          /\ board'.pc = "header"
        BY <1>1, <1>7 DEF ReadStart, Read
    <2>2. Before = 0 /\ Before' = 0 - 1
        BY <2>1 DEF Before
    <2>3. Before' = Before - 1
        BY <2>2
    <2>4. Carries(toBoard', Before', cmd, data)
        BY <1>5, <2>1, <2>3
    <2>5. QED  BY <1>4, <2>1, <2>4 DEF Commanded
<1>8. ~BadStart
    <2> SUFFICES ASSUME BadStart PROVE FALSE
        OBVIOUS
    <2>1. board.pc = "start" /\ Head(toBoard) # Start /\ Len(toBoard) >= 1
        BY DEF BadStart, Read
    <2>2. Carries(toBoard, 0, cmd, data)
        BY <1>3, <2>1 DEF Before
    <2>3. toBoard[1] = Start
        BY <1>1, <1>2, <2>2, CarriedBytes
    <2>4. QED  BY <1>1, <2>1, <2>3 DEF Bytes
<1>9. CASE ReadHeader
    <2>1. /\ board.pc = "header" /\ toBoard' = From(toBoard, 2) /\ 2 \in 0..Len(toBoard) /\ toHost' = toHost
          /\ board'.pc = "data" /\ board'.cmd = toBoard[1] /\ board'.size = toBoard[2]
        BY <1>1, <1>9 DEF ReadHeader, Read
    <2>2. Before = 0 - 1 /\ Before' = 0 - 3
        BY <2>1 DEF Before
    <2>3. Before' = Before - 2
        BY <2>2
    <2>4. Carries(toBoard', Before', cmd, data)
        BY <1>5, <2>1, <2>3
    <2>5. board'.cmd = cmd /\ board'.size = Len(data)
        BY <1>3, <1>6, <2>1, <2>2
    <2>6. QED  BY <1>4, <2>1, <2>4, <2>5 DEF Commanded
<1>10. CASE OutOfMemory
    <2>1. /\ board.pc = "header" /\ toBoard' = From(toBoard, 2) /\ 2 \in 0..Len(toBoard)
          /\ board'.pc = "drain" /\ board'.size = toBoard[2] /\ Send(Reply(NoResources))
        BY <1>1, <1>10 DEF OutOfMemory, Read
    <2>2. Len(toBoard) = Len(data) + 3 /\ toBoard[2] = Len(data)
        <3>1. Before = 0 - 1
            BY <2>1 DEF Before
        <3>2. QED  BY <1>3, <1>6, <3>1
    <2>3. Len(toBoard') = Len(toBoard) - 2
        BY <1>1, <2>1, FromShape DEF Drops
    <2>4. Rest' = Len(data) + 1
        BY <2>1, <2>2 DEF Rest
    <2>5. Len(toBoard') = Rest'
        BY <1>2, <2>2, <2>3, <2>4
    <2>6. QED  BY <2>1, <2>5 DEF AtRest, Given
<1>11. CASE Drain
    <2> DEFINE n == Min({board.size, Chunk})
    <2>1. n \in 0..board.size
        <3>1. n = (IF board.size <= Chunk THEN board.size ELSE Chunk)
            BY <1>1, ByteTypes DEF Min
        <3>2. QED  BY <1>1, <3>1, ByteTypes
    <2>2. Read(n) /\ board.pc = "drain" /\ board' = [board EXCEPT !.size = @ - n] /\ toHost' = toHost
        BY <1>11 DEF Drain
    <2> HIDE DEF n
    <2>3. Before = board.size + 1 /\ Before' = (board.size - n) + 1 /\ board'.pc = "drain"
        BY <1>1, <2>2 DEF Before
    <2>4. Before' = Before - n /\ toBoard' = From(toBoard, n) /\ n \in 0..Len(toBoard)
        BY <1>1, <2>1, <2>2, <2>3 DEF Read
    <2>5. Carries(toBoard', Before', cmd, data)
        BY <1>5, <2>4
    <2>6. QED  BY <1>4, <2>2, <2>3, <2>5 DEF Commanded
<1>12. CASE DrainEnd
    <2>1. /\ board.pc = "drain" /\ board.size = 0 /\ toBoard' = From(toBoard, 1) /\ 1 \in 0..Len(toBoard)
          /\ toHost' = toHost /\ board'.pc = "start"
        BY <1>1, <1>12 DEF DrainEnd, Read, Waiting
    <2>2. Before = 1 /\ Before' = 0
        BY <2>1 DEF Before
    <2>3. Before' = Before - 1
        BY <2>2
    <2>4. Carries(toBoard', Before', cmd, data)
        BY <1>5, <2>1, <2>3
    <2>5. QED  BY <1>4, <2>1, <2>4 DEF Commanded
<1>13. CASE ReadData
    <2> DEFINE n == board.size
    <2>1. /\ board.pc = "data" /\ toBoard' = From(toBoard, n) /\ n \in 0..Len(toBoard) /\ toHost' = toHost
          /\ board' = [board EXCEPT !.pc = "end", !.data = SubSeq(toBoard, 1, n)]
        BY <1>1, <1>13 DEF ReadData, Read
    <2>2. board.cmd = cmd /\ n = Len(data)
        BY <2>1 DEF Commanded
    <2>3. board'.pc = "end" /\ board'.cmd = cmd /\ board'.data = SubSeq(toBoard, 1, n)
        BY <1>1, <2>1, <2>2
    <2>4. Before = 0 - 3 /\ Before' = 0 - (3 + Len(data))
        BY <1>4, <2>1, <2>3 DEF Before
    <2>5. Before' = Before - n
        BY <1>2, <2>2, <2>4
    <2>6. Carries(toBoard', Before', cmd, data)
        BY <1>5, <2>1, <2>5
    <2>7. SubSeq(toBoard, 1, n) = data
        <3> DEFINE t == SubSeq(toBoard, 1, n)
        <3>1. Len(toBoard) = Len(data) + 1 /\ \A i \in 1..Len(data) : toBoard[i] = data[i]
            BY <1>1, <1>2, <1>3, <2>4, CarriedBytes
        <3>2. \A i \in 1..n : toBoard[i] \in Byte
            BY <1>1, <2>1, ElementOfSeq DEF Bytes
        <3>3. /\ t \in Seq(Byte) /\ Len(t) = (IF 1 <= n THEN n - 1 + 1 ELSE 0)
              /\ \A i \in 1..n-1+1 : t[i] = toBoard[1 + i - 1]
            BY <1>1, <3>2, SubSeqProperties
        <3> HIDE DEF t
        <3>4. Len(t) = n /\ \A i \in 1..n : i \in 1..n-1+1 /\ 1 + i - 1 = i
            BY <1>1, <3>3
        <3>5. \A i \in 1..n : t[i] = toBoard[i]
            BY <3>3, <3>4
        <3>6. t = data
            BY <1>2, <2>2, <3>1, <3>3, <3>4, <3>5, SeqEqual DEF Bytes
        <3>7. QED  BY <3>6 DEF t
    <2>8. QED  BY <1>4, <2>1, <2>3, <2>6, <2>7 DEF Commanded
<1>14. CASE ReadEnd
    <2>1. /\ board.pc = "end" /\ toBoard' = From(toBoard, 1) /\ 1 \in 0..Len(toBoard) /\ board'.pc = "start"
        BY <1>1, <1>14 DEF ReadEnd, Read, Waiting
    <2>2. Carries(toBoard, 0 - (3 + Len(data)), cmd, data) /\ board.cmd = cmd /\ board.data = data
        BY <2>1 DEF Commanded, Before
    <2>3. Len(toBoard) = 1 /\ toBoard[1] = End
        BY <1>1, <1>2, <2>2, CarriedBytes
    <2>4. Head(toBoard) = End
        BY <1>1, <2>3 DEF Bytes
    <2>5. \E a \in HandlerAnswers(cmd, data) : Send(a)
        BY <1>14, <2>2, <2>4 DEF ReadEnd
    <2>6. Len(toBoard') = 0 /\ Rest' = 0
        <3>1. Len(toBoard') = Len(toBoard) - 1
            BY <1>1, <2>1, FromShape DEF Drops
        <3>2. QED  BY <2>1, <2>3, <3>1 DEF Rest
    <2>7. QED  BY <2>1, <2>5, <2>6 DEF AtRest, Given
<1>15. QED  BY <1>7, <1>8, <1>9, <1>10, <1>11, <1>12, <1>13, <1>14 DEF Board

\* The answer follows the log text.
LEMMA AnswerComes ==
    ASSUME HostTypes, AllText(toHost, Len(toHost)), NEW a \in Sendable, Send(a)
    PROVE  \E k \in 0..Len(toHost') : AllText(toHost', k) /\ Carries(toHost', k, a.code, a.data)
<1> DEFINE t == toHost \o <<Text>>
<1>1. toHost \in Bytes /\ <<Text>> \in Bytes /\ Len(<<Text>>) = 1 /\ <<Text>>[1] = Text
    BY ByteTypes DEF HostTypes, Bytes
<1>2. Joins(t, toHost, <<Text>>)
    BY <1>1, JoinShape
<1>3. a.code \in Byte /\ a.data \in Bytes /\ Len(a.data) \in Byte
    BY DEF Sendable
<1>4. toHost' = t \o Packet(a.code, a.data)
    BY DEF Send
<1> HIDE DEF t
<1>5. t \in Bytes /\ Len(t) = Len(toHost) + 1 /\ Len(toHost) \in Nat
    BY <1>1, <1>2 DEF Joins
<1>6. Carries(toHost', Len(t), a.code, a.data)
    BY <1>3, <1>4, <1>5, PacketComes
<1>7. Joins(toHost', t, Packet(a.code, a.data))
    BY <1>3, <1>4, <1>5, PacketShape, JoinShape
<1>8. ASSUME NEW i \in 1..Len(t) PROVE t[i] = Text
    <2>1. CASE i \in 1..Len(toHost)
        <3>1. t[i] = toHost[i]
            BY <1>2, <2>1 DEF Joins
        <3>2. QED  BY <2>1, <3>1 DEF AllText
    <2>2. CASE i = Len(toHost) + 1
        <3>1. 1 \in 1..Len(<<Text>>)
            BY <1>1
        <3>2. t[Len(toHost) + 1] = <<Text>>[1]
            BY <1>2, <3>1 DEF Joins
        <3>3. QED  BY <1>1, <2>2, <3>2
    <2>3. QED  BY <1>5, <2>1, <2>2
<1>9. AllText(toHost', Len(t)) /\ Len(t) \in 0..Len(toHost')
    <2>1. \A i \in 1..Len(t) : toHost'[i] = t[i]
        BY <1>7 DEF Joins
    <2>2. Len(toHost') >= Len(t)
        BY <1>7 DEF Joins
    <2>3. QED  BY <1>5, <1>8, <2>1, <2>2 DEF AllText
<1>10. QED  BY <1>6, <1>9

LEMMA TextLeft ==
    ASSUME NEW s \in Bytes, NEW t, NEW n \in 0..Len(s), Drops(t, s, n), NEW k \in n..Len(s), AllText(s, k)
    PROVE  AllText(t, k - n) /\ k - n \in 0..Len(t)
<1>1. /\ Len(s) \in Nat /\ Len(t) = Len(s) - n /\ \A i \in 1..Len(s)-n : t[i] = s[n + i]
      /\ \A i \in 1..k : s[i] = Text
    BY DEF Drops, AllText, Bytes
<1>2. ASSUME NEW i \in 1..k-n PROVE t[i] = Text
    <2>1. i \in 1..Len(s)-n /\ n + i \in 1..k
        BY <1>1
    <2>2. QED  BY <1>1, <2>1
<1>3. QED  BY <1>1, <1>2 DEF AllText

LEMMA TailShape ==
    ASSUME NEW s \in Bytes, s # <<>>
    PROVE  Drops(Tail(s), s, 1) /\ Head(s) = s[1] /\ 1 \in 1..Len(s)
<1>1. Len(s) \in Nat /\ Len(s) # 0 /\ Head(s) = s[1]
    BY DEF Bytes
<1>2. /\ Tail(s) \in Bytes /\ Len(Tail(s)) = Len(s) - 1
      /\ \A i \in 1..Len(Tail(s)) : Tail(s)[i] = s[i + 1]
    BY HeadTailProperties DEF Bytes
<1>3. \A i \in 1..Len(s)-1 : i + 1 = 1 + i
    BY <1>1
<1>4. QED  BY <1>1, <1>2, <1>3 DEF Drops

\* The host looks for the start byte and finds it where the answer begins.
LEMMA TurnsScan ==
    ASSUME HostTypes, Turns, Scan
    PROVE  Turns'
<1>1. /\ toHost \in Bytes /\ toHost # <<>> /\ toHost' = Tail(toHost) /\ host = "scan"
      /\ host' = (IF Head(toHost) = Start THEN "answer" ELSE "scan")
      /\ UNCHANGED <<toBoard, board, request>>
    BY DEF HostTypes, Scan
<1>2. Drops(toHost', toHost, 1) /\ Head(toHost) = toHost[1] /\ 1 \in 1..Len(toHost) /\ Len(toHost) \in Nat
    BY <1>1, TailShape DEF Bytes
<1>3. Len(toHost') = Len(toHost) - 1
    BY <1>2 DEF Drops
<1>4. CASE Commanded /\ AllText(toHost, Len(toHost))
    <2>1. toHost[1] = Text
        BY <1>2, <1>4 DEF AllText
    <2>2. host' = "scan"
        BY <1>1, <1>2, <2>1, ByteTypes
    <2>3. AllText(toHost', Len(toHost) - 1)
        BY <1>1, <1>2, <1>4, TextLeft
    <2>4. Commanded'
        BY <1>1, <1>4 DEF Commanded, Before
    <2>5. QED  BY <1>3, <2>2, <2>3, <2>4 DEF Turns
<1>5. ASSUME AtRest, NEW a \in Given(request), NEW k \in 0..Len(toHost), AllText(toHost, k),
             Carries(toHost, k, a.code, a.data)
      PROVE  Turns'
    <2>1. a.code \in Byte /\ a.data \in Bytes /\ Len(a.data) \in Byte
        BY <1>1, GivenAreSendable
    <2>2. Carries(toHost', k - 1, a.code, a.data)
        <3>1. 1 \in 0..Len(toHost) /\ k \in Int
            BY <1>2
        <3>2. QED  BY <1>1, <1>2, <1>5, <2>1, <3>1, CarriedOn
    <2>3. AtRest' /\ Given(request)' = Given(request)
        BY <1>1, <1>5 DEF AtRest, Rest, Given
    <2>4. CASE k = 0
        <3>1. Carries(toHost, 0, a.code, a.data) /\ Carries(toHost', 0 - 1, a.code, a.data)
            BY <1>5, <2>2, <2>4
        <3>2. toHost[1] = Start
            BY <1>1, <2>1, <3>1, CarriedBytes
        <3>3. host' = "answer"
            BY <1>1, <1>2, <3>2
        <3>4. QED  BY <2>3, <3>1, <3>3 DEF Turns
    <2>5. CASE k # 0
        <3>1. k \in 1..Len(toHost) /\ 1 \in 0..Len(toHost)
            BY <1>2, <2>5
        <3>2. toHost[1] = Text
            <4>1. 1 \in 1..k
                BY <3>1
            <4>2. QED  BY <1>5, <4>1 DEF AllText
        <3>3. host' = "scan"
            BY <1>1, <1>2, <3>2, ByteTypes
        <3>4. AllText(toHost', k - 1) /\ k - 1 \in 0..Len(toHost')
            BY <1>1, <1>2, <1>5, <3>1, TextLeft
        <3>5. \E b \in Given(request)', j \in 0..Len(toHost') :
                AllText(toHost', j) /\ Carries(toHost', j, b.code, b.data)
            BY <2>2, <2>3, <3>4
        <3>6. QED  BY <2>3, <3>3, <3>5 DEF Turns
    <2>6. QED  BY <2>4, <2>5
<1>6. QED  BY <1>1, <1>4, <1>5 DEF Turns

\* It takes the whole answer and nothing else.
LEMMA WholeAnswerTaken ==
    ASSUME HostTypes, Turns, TakeAnswer
    PROVE  toHost' = <<>> /\ AtRest /\ result' \in Given(request)
<1>1. /\ toHost \in Bytes /\ Len(toHost) \in Nat /\ host = "answer" /\ toHost' = From(toHost, Needed)
    BY DEF HostTypes, TakeAnswer, Bytes
<1>2. AtRest
    BY <1>1 DEF Turns
<1>3. PICK a \in Given(request) : Carries(toHost, 0 - 1, a.code, a.data)
    BY <1>1 DEF Turns
<1> DEFINE n == Len(a.data)
<1>4. a \in Sendable /\ a.code \in Byte /\ a.data \in Bytes /\ n \in Byte /\ n \in Nat
    BY <1>1, GivenAreSendable, ByteTypes
<1>5. /\ Len(toHost) = n + 3 /\ toHost[1] = a.code /\ toHost[2] = n /\ toHost[n + 3] = End
      /\ \A i \in 1..n : toHost[2 + i] = a.data[i]
    BY <1>1, <1>3, <1>4, CarriedBytes
<1> HIDE DEF n
<1>6. Needed = n + 3 /\ Needed \in 0..Len(toHost)
    BY <1>4, <1>5 DEF Needed
<1>7. toHost' = <<>>
    <2>1. toHost' \in Bytes /\ Len(toHost') = 0
        BY <1>1, <1>4, <1>5, <1>6, FromShape DEF Drops
    <2>2. QED  BY <2>1 DEF Bytes
<1>8. result' = a
    <2> DEFINE d == SubSeq(toHost, 3, Needed - 1)
    <2>1. result' = [code |-> toHost[1], data |-> d]
        BY <1>5, <1>6 DEF TakeAnswer
    <2>2. d = a.data
        <3>1. 3 \in Int /\ Needed - 1 \in Int /\ Needed - 1 = n + 2 /\ n + 2 \in Int
            BY <1>4, <1>6
        <3>2. \A i \in 3..n+2 : toHost[i] \in Byte
            <4>1. \A i \in 3..n+2 : i \in 1..Len(toHost)
                BY <1>4, <1>5
            <4>2. QED  BY <1>1, <4>1, ElementOfSeq DEF Bytes
        <3>3. /\ d \in Seq(Byte) /\ Len(d) = (IF 3 <= n + 2 THEN (n + 2) - 3 + 1 ELSE 0)
              /\ \A i \in 1..(n+2)-3+1 : d[i] = toHost[3 + i - 1]
            BY <3>1, <3>2, SubSeqProperties
        <3> HIDE DEF d
        <3>4. Len(d) = n /\ \A i \in 1..n : i \in 1..(n+2)-3+1 /\ 3 + i - 1 = 2 + i
            BY <1>4, <3>3
        <3>5. \A i \in 1..n : d[i] = toHost[2 + i]
            BY <3>3, <3>4
        <3>6. a.data \in Seq(Byte) /\ Len(a.data) = n
            BY <1>4 DEF Bytes, n
        <3>7. \A i \in 1..Len(d) : d[i] = a.data[i]
            BY <1>5, <3>4, <3>5
        <3>8. d = a.data
            BY <3>3, <3>4, <3>6, <3>7, SeqEqual
        <3>9. QED  BY <3>8 DEF d
    <2>3. QED  BY <1>4, <1>5, <2>1, <2>2 DEF Sendable
<1>9. QED  BY <1>2, <1>7, <1>8

LEMMA InitTurnInv == Init => TurnInv
<1> SUFFICES ASSUME Init PROVE Turns
    BY DEF TurnInv
<1>1. /\ Len(toBoard) = 0 /\ board.pc = "start" /\ host = "idle" /\ toHost = <<Text>>
    BY DEF Init, Waiting
<1>2. Len(toHost) = 1 /\ toHost[1] = Text
    BY <1>1
<1>3. AllText(toHost, Len(toHost))
    BY <1>2 DEF AllText
<1>4. QED  BY <1>1, <1>3 DEF Turns, AtRest, Rest

LEMMA NextTurnInv == HostTypes /\ TurnInv /\ [Next]_vars => TurnInv'
<1> SUFFICES ASSUME HostTypes, TurnInv, [Next]_vars, trusted' PROVE Turns'
    BY DEF TurnInv
<1>1. /\ toBoard \in Bytes /\ toHost \in Bytes /\ Len(toBoard) \in Nat /\ Len(toHost) \in Nat
      /\ host \in {"idle", "scan", "answer"}
    BY DEF HostTypes, Bytes
<1>2. CASE Reopen
    <2>1. toHost' = <<>> /\ toBoard' = <<>> /\ board'.pc = "start" /\ host' = "idle"
        BY <1>2 DEF Reopen
    <2>2. AllText(toHost', Len(toHost')) /\ AtRest'
        BY <2>1 DEF AllText, AtRest, Rest
    <2>3. QED  BY <2>1, <2>2 DEF Turns
<1>3. ~Abandon /\ \A r \in Request : ~AbandonWrite(r)
    BY DEF Abandon, AbandonWrite
<1>4. Turns \/ Reopen
    <2>1. trusted \/ Reopen
        BY <1>3 DEF Next, vars, Board, Host, ReadStart, BadStart, ReadHeader, OutOfMemory, Drain, DrainEnd, ReadData,
               ReadEnd, HostUnchanged, Call, Scan, TakeAnswer
    <2>2. QED  BY <2>1 DEF TurnInv
<1>5. CASE Turns /\ Board
    <2>1. UNCHANGED <<host, request>>
        BY <1>5 DEF Board, ReadStart, BadStart, ReadHeader, OutOfMemory, Drain, DrainEnd, ReadData, ReadEnd,
               HostUnchanged
    <2>2. Given(request)' = Given(request)
        BY <2>1 DEF Given
    <2>3. CASE AtRest
        <3>1. AtRest' /\ toHost' = toHost
            BY <1>5, <2>3, BoardRests
        <3>2. host = "idle" => AllText(toHost', Len(toHost'))
            BY <1>5, <3>1 DEF Turns
        <3>3. host = "answer" => \E a \in Given(request)' : Carries(toHost', 0 - 1, a.code, a.data)
            BY <1>5, <2>2, <3>1 DEF Turns
        <3>4. host = "scan" /\ ~Commanded =>
                \E a \in Given(request)', k \in 0..Len(toHost') :
                  AllText(toHost', k) /\ Carries(toHost', k, a.code, a.data)
            BY <1>5, <2>2, <3>1 DEF Turns
        <3>5. ASSUME host = "scan", Commanded, AllText(toHost, Len(toHost)) PROVE Turns'
            <4>1. CASE Commanded' /\ toHost' = toHost
                <5>1. AllText(toHost', Len(toHost'))
                    BY <3>5, <4>1
                <5>2. QED  BY <2>1, <3>5, <4>1, <5>1 DEF Turns
            <4>2. ASSUME NEW a \in Given(request), Send(a) PROVE Turns'
                <5>1. a \in Sendable
                    BY <3>5, GivenAreSendable
                <5>2. \E k \in 0..Len(toHost') : AllText(toHost', k) /\ Carries(toHost', k, a.code, a.data)
                    BY <3>5, <4>2, <5>1, AnswerComes
                <5>3. QED  BY <2>1, <2>2, <3>1, <3>5, <5>2 DEF Turns
            <4>3. QED  BY <1>5, <3>5, <4>1, <4>2, BoardWorks
        <3>6. CASE host = "scan" /\ Commanded /\ AllText(toHost, Len(toHost))
            BY <3>5, <3>6
        <3>7. CASE ~(host = "scan" /\ Commanded /\ AllText(toHost, Len(toHost)))
            <4>1. host = "scan" => \E a \in Given(request)', k \in 0..Len(toHost') :
                    AllText(toHost', k) /\ Carries(toHost', k, a.code, a.data)
                BY <1>5, <2>2, <3>1, <3>7 DEF Turns
            <4>2. QED  BY <2>1, <3>1, <3>2, <3>3, <4>1 DEF Turns
        <3>8. QED  BY <3>6, <3>7
    <2>4. CASE ~AtRest
        <3>1. host = "scan" /\ Commanded /\ AllText(toHost, Len(toHost))
            BY <1>1, <1>5, <2>4 DEF Turns
        <3>2. CASE Commanded' /\ toHost' = toHost
            <4>1. AllText(toHost', Len(toHost'))
                BY <3>1, <3>2
            <4>2. QED  BY <2>1, <3>1, <3>2, <4>1 DEF Turns
        <3>3. ASSUME AtRest', NEW a \in Given(request), Send(a) PROVE Turns'
            <4>1. a \in Sendable
                BY <3>1, GivenAreSendable
            <4>2. \E k \in 0..Len(toHost') : AllText(toHost', k) /\ Carries(toHost', k, a.code, a.data)
                BY <3>1, <3>3, <4>1, AnswerComes
            <4>3. QED  BY <2>1, <2>2, <3>1, <3>3, <4>2 DEF Turns
        <3>4. QED  BY <1>5, <3>1, <3>2, <3>3, BoardWorks
    <2>5. QED  BY <2>3, <2>4
<1>6. ASSUME Turns, NEW r \in Request, Call(r) PROVE Turns'
    <2>1. /\ host = "idle" /\ host' = "scan" /\ request' = r /\ UNCHANGED <<toHost, board>>
          /\ toBoard' = toBoard \o Packet(r.cmd, r.data)
        BY <1>6 DEF Call
    <2>2. AtRest /\ AllText(toHost, Len(toHost))
        BY <1>6, <2>1 DEF Turns
    <2>3. Carries(toBoard', Len(toBoard), r.cmd, r.data)
        BY <1>1, <2>1, RequestShape, PacketComes
    <2>4. Before' = Len(toBoard)
        BY <2>1, <2>2 DEF AtRest, Rest, Before
    <2>5. Carries(toBoard', Before', r.cmd, r.data) /\ board'.pc \in {"start", "drain"}
        BY <2>1, <2>2, <2>3, <2>4 DEF AtRest
    <2>6. Commanded'
        BY <2>1, <2>5 DEF Commanded
    <2>7. QED  BY <2>1, <2>2, <2>6 DEF Turns
<1>7. CASE Turns /\ Scan
    BY <1>7, TurnsScan
<1>8. CASE Turns /\ TakeAnswer
    <2>1. toHost' = <<>> /\ AtRest /\ host' = "idle" /\ UNCHANGED <<toBoard, board>>
        BY <1>8, WholeAnswerTaken DEF TakeAnswer
    <2>2. AtRest' /\ AllText(toHost', Len(toHost'))
        BY <2>1 DEF AtRest, Rest, AllText
    <2>3. QED  BY <2>1, <2>2 DEF Turns
<1>9. CASE Turns /\ UNCHANGED vars
    BY <1>9 DEF vars, Turns, AtRest, Rest, Commanded, Before, Given
<1>10. QED  BY <1>2, <1>3, <1>4, <1>5, <1>6, <1>7, <1>8, <1>9 DEF Next, Host

\* After a transaction nobody gave up, the host has taken everything the board sent and
\* the board has read every byte, but for the rest of a command it had no memory for.
THEOREM NothingIsLeftOver == Spec => []NothingLeftOver
<1>1. HostTypes /\ TurnInv => NothingLeftOver
    <2> SUFFICES ASSUME HostTypes, TurnInv, trusted, host = "idle"
                 PROVE  /\ \A i \in 1..Len(toHost) : toHost[i] = Text
                        /\ IF board.pc = "drain" THEN Len(toBoard) = board.size + 1
                           ELSE board.pc = "start" /\ toBoard = <<>>
        BY DEF NothingLeftOver
    <2>1. AtRest /\ AllText(toHost, Len(toHost)) /\ toBoard \in Bytes
        BY DEF TurnInv, Turns, HostTypes
    <2>2. board.pc = "drain" => Len(toBoard) = board.size + 1
        BY <2>1 DEF AtRest, Rest
    <2>3. board.pc # "drain" => board.pc = "start" /\ Len(toBoard) = 0
        BY <2>1 DEF AtRest, Rest
    <2>4. board.pc # "drain" => toBoard = <<>>
        BY <2>1, <2>3 DEF Bytes
    <2>5. QED  BY <2>1, <2>2, <2>3, <2>4 DEF AllText
<1>2. QED
    BY <1>1, InitHostTypes, NextHostTypes, InitTurnInv, NextTurnInv, PTL DEF Spec

-----------------------------------------------------------------------------
(* make_transaction keeps the promise of Transaction.                      *)

LEMMA FunctionIsBytes ==
    ASSUME NEW n \in Nat, NEW d \in [1..n -> Byte]
    PROVE  d \in Bytes /\ Len(d) = n
<1>1. d \in Seq(Byte)
    BY SeqDef
<1>2. DOMAIN d = 1..Len(d) /\ Len(d) \in Nat /\ DOMAIN d = 1..n
    BY <1>1, LenProperties
<1>3. Len(d) = n
    BY <1>2
<1>4. QED  BY <1>1, <1>3 DEF Bytes

LEMMA FrameCommandsAre ==
    ASSUME NEW data
    PROVE  data \in FrameCommands <=>
             \/ \E c \in 0..(Controllers - 1), dlc \in 0..MaxDlc : data = FrameData(c, TRUE, dlc, <<>>)
             \/ \E c \in 0..(Controllers - 1), n \in 0..MaxDlc : \E d \in [1..n -> Byte] :
                  data = FrameData(c, FALSE, 0, d)
<1> DEFINE D == UNION {[1..n -> Byte] : n \in 0..MaxDlc}
           Data(c, d) == FrameData(c, FALSE, 0, d)
           Remote(c, dlc) == FrameData(c, TRUE, dlc, <<>>)
           C == 0..(Controllers - 1)
           L == 0..MaxDlc
<1>1. \A d : d \in D <=> \E n \in L : d \in [1..n -> Byte]
    OBVIOUS
<1>2. FrameCommands = {Remote(c, dlc) : c \in C, dlc \in L} \cup {Data(c, d) : c \in C, d \in D}
    BY DEF FrameCommands
<1> HIDE DEF D, Data, Remote, C, L
<1>3. data \in FrameCommands <=>
        \/ \E c \in C, dlc \in L : data = Remote(c, dlc)
        \/ \E c \in C, n \in L : \E d \in [1..n -> Byte] : data = Data(c, d)
    BY <1>1, <1>2
<1>4. QED  BY <1>3 DEF Data, Remote, C, L

\* What the firmware takes for a frame is what the host's send_frame can pack.
LEMMA FrameCommand ==
    ASSUME NEW data \in Bytes, Len(data) > 1 => data[2] \in {0, 1}
    PROVE  data \in FrameCommands <=>
             ~(\/ Len(data) < 3
               \/ data[1] >= Controllers
               \/ data[3] > MaxDlc
               \/ Len(data) # 3 + (IF data[2] % 2 = 1 THEN 0 ELSE data[3]))
<1>1. Controllers \in Nat /\ MaxDlc \in Nat /\ <<>> \in Bytes /\ Byte \subseteq Nat
    BY HostProtocolAssumption, ByteTypes DEF Bytes
\* Three bytes and the data.
<1>2. ASSUME NEW c \in Nat, NEW f \in Nat, NEW m \in Nat, NEW d \in Bytes
      PROVE  /\ <<c, f, m>> \o d \in Seq(Nat) /\ Len(<<c, f, m>> \o d) = 3 + Len(d) /\ Len(d) \in Nat
             /\ (<<c, f, m>> \o d)[1] = c /\ (<<c, f, m>> \o d)[2] = f /\ (<<c, f, m>> \o d)[3] = m
             /\ \A i \in 1..Len(d) : (<<c, f, m>> \o d)[3 + i] = d[i]
    <2> DEFINE h == <<c, f, m>>
    <2>1. /\ h \in Seq(Nat) /\ Len(h) = 3 /\ h[1] = c /\ h[2] = f /\ h[3] = m
          /\ d \in Seq(Nat) /\ Len(d) \in Nat
        <3>1. d \in Seq(Nat)
            BY <1>1, SeqMonotonic DEF Bytes
        <3>2. QED  BY <3>1
    <2> HIDE DEF h
    <2>2. /\ h \o d \in Seq(Nat) /\ Len(h \o d) = Len(h) + Len(d)
          /\ \A i \in 1..Len(h)+Len(d) : (h \o d)[i] = IF i <= Len(h) THEN h[i] ELSE d[i - Len(h)]
        BY <2>1, ConcatProperties
    <2>3. (h \o d)[1] = h[1] /\ (h \o d)[2] = h[2] /\ (h \o d)[3] = h[3]
        BY <2>1, <2>2
    <2>4. ASSUME NEW i \in 1..Len(d) PROVE (h \o d)[3 + i] = d[i]
        <3>1. 3 + i \in 1..Len(h)+Len(d) /\ ~(3 + i <= Len(h)) /\ (3 + i) - Len(h) = i
            BY <2>1
        <3>2. QED  BY <2>2, <3>1
    <2>5. QED  BY <2>1, <2>2, <2>3, <2>4 DEF h
<1>3. ASSUME NEW c \in 0..(Controllers - 1), NEW dlc \in 0..MaxDlc, data = FrameData(c, TRUE, dlc, <<>>)
      PROVE  Len(data) = 3 /\ data[1] = c /\ data[2] = 1 /\ data[3] = dlc
    <2>1. data = <<c, 1, dlc>> \o <<>>
        BY <1>3 DEF FrameData
    <2>2. c \in Nat /\ dlc \in Nat /\ 1 \in Nat
        BY <1>1
    <2>3. Len(<<>>) = 0
        OBVIOUS
    <2>4. QED  BY <1>1, <1>2, <2>1, <2>2, <2>3
<1>4. ASSUME NEW c \in 0..(Controllers - 1), NEW n \in 0..MaxDlc, NEW d \in [1..n -> Byte],
             data = FrameData(c, FALSE, 0, d)
      PROVE  Len(data) = 3 + n /\ data[1] = c /\ data[2] = 0 /\ data[3] = n
    <2>1. d \in Bytes /\ Len(d) = n
        BY <1>1, FunctionIsBytes
    <2>2. data = <<c, 0, n>> \o d
        BY <1>4, <2>1 DEF FrameData
    <2>3. c \in Nat /\ n \in Nat /\ 0 \in Nat
        BY <1>1
    <2>4. QED  BY <1>2, <2>1, <2>2, <2>3
<1>5. ASSUME data \in FrameCommands
      PROVE  /\ Len(data) >= 3 /\ data[1] < Controllers /\ data[3] <= MaxDlc
             /\ data[1] \in Nat /\ data[3] \in Nat
             /\ Len(data) = 3 + (IF data[2] % 2 = 1 THEN 0 ELSE data[3])
    <2>1. CASE \E c \in 0..(Controllers - 1), dlc \in 0..MaxDlc : data = FrameData(c, TRUE, dlc, <<>>)
        <3>1. PICK c \in 0..(Controllers - 1), dlc \in 0..MaxDlc : data = FrameData(c, TRUE, dlc, <<>>)
            BY <2>1
        <3>2. Len(data) = 3 /\ data[1] = c /\ data[2] = 1 /\ data[3] = dlc
            BY <1>3, <3>1
        <3>3. QED  BY <1>1, <3>2
    <2>2. CASE \E c \in 0..(Controllers - 1), n \in 0..MaxDlc : \E d \in [1..n -> Byte] :
                 data = FrameData(c, FALSE, 0, d)
        <3>1. PICK c \in 0..(Controllers - 1), n \in 0..MaxDlc :
                 \E d \in [1..n -> Byte] : data = FrameData(c, FALSE, 0, d)
            BY <2>2
        <3>2. PICK d \in [1..n -> Byte] : data = FrameData(c, FALSE, 0, d)
            BY <3>1
        <3>3. Len(data) = 3 + n /\ data[1] = c /\ data[2] = 0 /\ data[3] = n
            BY <1>4, <3>2
        <3>4. QED  BY <1>1, <3>3
    <2>3. QED  BY <1>5, <2>1, <2>2, FrameCommandsAre
<1>6. ASSUME Len(data) >= 3, data[1] < Controllers, data[3] <= MaxDlc,
             Len(data) = 3 + (IF data[2] % 2 = 1 THEN 0 ELSE data[3])
      PROVE  data \in FrameCommands
    <2>1. /\ Len(data) \in Nat /\ data[1] \in Byte /\ data[3] \in Byte /\ data[2] \in {0, 1}
          /\ \A i \in 1..Len(data) : data[i] \in Byte
        <3>1. 1 \in 1..Len(data) /\ 3 \in 1..Len(data) /\ Len(data) > 1 /\ Len(data) \in Nat
            BY <1>6 DEF Bytes
        <3>2. \A i \in 1..Len(data) : data[i] \in Byte
            BY ElementOfSeq DEF Bytes
        <3>3. QED  BY <3>1, <3>2
    <2>2. data[1] \in 0..(Controllers - 1) /\ data[3] \in 0..MaxDlc /\ data[1] \in Nat /\ data[3] \in Nat
        <3>1. data[1] \in Nat /\ data[3] \in Nat
            BY <1>1, <2>1
        <3>2. QED  BY <1>1, <1>6, <3>1
    <2>3. data \in Seq(Nat)
        BY <1>1, SeqMonotonic DEF Bytes
    <2>4. CASE data[2] = 1
        <3>1. Len(data) = 3
            BY <1>6, <2>2, <2>4
        <3> DEFINE t == <<data[1], 1, data[3]>> \o <<>>
        <3>2. t \in Seq(Nat) /\ Len(t) = 3 + Len(<<>>) /\ t[1] = data[1] /\ t[2] = 1 /\ t[3] = data[3]
            BY <1>1, <1>2, <2>2
        <3>3. Len(<<>>) = 0
            OBVIOUS
        <3>4. t = FrameData(data[1], TRUE, data[3], <<>>)
            BY DEF FrameData
        <3> HIDE DEF t
        <3>5. Len(data) = Len(t) /\ \A i \in 1..Len(data) : data[i] = t[i]
            BY <2>4, <3>1, <3>2, <3>3
        <3>6. data = t
            BY <2>3, <3>2, <3>5, SeqEqual
        <3>7. QED  BY <2>2, <3>4, <3>6, FrameCommandsAre
    <2>5. CASE data[2] = 0
        <3> DEFINE n == data[3]
                   d == [i \in 1..n |-> data[3 + i]]
                   t == <<data[1], 0, n>> \o d
        <3>1. Len(data) = 3 + n
            BY <1>6, <2>2, <2>5
        <3>2. \A i \in 1..n : 3 + i \in 1..Len(data)
            BY <2>2, <3>1
        <3>3. d \in [1..n -> Byte]
            BY <2>1, <3>2
        <3>4. d \in Bytes /\ Len(d) = n
            BY <2>2, <3>3, FunctionIsBytes
        <3>5. \A i \in 1..n : d[i] = data[3 + i]
            OBVIOUS
        <3>6. data[1] \in Nat /\ n \in Nat /\ 0 \in Nat
            BY <2>2
        <3> HIDE DEF d, n
        <3>7. /\ t \in Seq(Nat) /\ Len(t) = 3 + Len(d) /\ t[1] = data[1] /\ t[2] = 0 /\ t[3] = n
              /\ \A i \in 1..Len(d) : t[3 + i] = d[i]
            BY <1>2, <3>4, <3>6
        <3>8. t = FrameData(data[1], FALSE, 0, d)
            BY <3>4 DEF FrameData
        <3> HIDE DEF t
        <3>9. ASSUME NEW i \in 1..Len(data) PROVE data[i] = t[i]
            <4>1. CASE i \in {1, 2, 3}
                BY <2>5, <3>7, <4>1 DEF n
            <4>2. CASE i \notin {1, 2, 3}
                <5>1. i - 3 \in 1..n /\ 3 + (i - 3) = i /\ i - 3 \in 1..Len(d)
                    BY <2>1, <3>1, <3>4, <3>6, <4>2
                <5>2. t[3 + (i - 3)] = d[i - 3] /\ d[i - 3] = data[3 + (i - 3)]
                    BY <3>5, <3>7, <5>1
                <5>3. QED  BY <5>1, <5>2
            <4>3. QED  BY <4>1, <4>2
        <3>10. data = t
            <4>1. Len(data) = Len(t)
                BY <3>1, <3>4, <3>7
            <4>2. QED  BY <2>3, <3>7, <3>9, <4>1, SeqEqual
        <3>11. n \in 0..MaxDlc
            BY <2>2 DEF n
        <3>12. QED  BY <2>2, <3>3, <3>8, <3>10, <3>11, FrameCommandsAre
    <2>6. QED  BY <2>1, <2>4, <2>5
<1>7. Len(data) >= 3 => Len(data) \in Nat /\ data[1] \in Nat /\ data[3] \in Nat
    <2>1. Len(data) >= 3 => 1 \in 1..Len(data) /\ 3 \in 1..Len(data) /\ Len(data) \in Nat
        BY DEF Bytes
    <2>2. \A i \in 1..Len(data) : data[i] \in Nat
        BY <1>1, ElementOfSeq DEF Bytes
    <2>3. QED  BY <2>1, <2>2
<1>8. Len(data) \in Nat
    BY DEF Bytes
<1> DEFINE off == IF data[2] % 2 = 1 THEN 0 ELSE data[3]
<1> HIDE DEF off
<1>9. (Len(data) >= 3 /\ data[1] < Controllers /\ data[3] <= MaxDlc /\ Len(data) = 3 + off)
      <=> ~(Len(data) < 3 \/ data[1] >= Controllers \/ data[3] > MaxDlc \/ Len(data) # 3 + off)
    BY <1>1, <1>7, <1>8
<1>10. QED  BY <1>5, <1>6, <1>9 DEF off

LEMMA PollCommand ==
    ASSUME NEW data \in Bytes
    PROVE  data \in PollCommands <=> ~(Len(data) # 1 \/ data[1] >= Controllers)
<1>1. Controllers \in Nat /\ Byte \subseteq Nat
    BY HostProtocolAssumption, ByteTypes
<1>2. ASSUME data \in PollCommands PROVE ~(Len(data) # 1 \/ data[1] >= Controllers)
    BY <1>1, <1>2 DEF PollCommands
<1>3. ASSUME Len(data) = 1, ~(data[1] >= Controllers) PROVE data \in PollCommands
    <2>1. data[1] \in Nat /\ data[1] \in Byte
        <3>1. 1 \in 1..Len(data)
            BY <1>3
        <3>2. QED  BY <1>1, <3>1, ElementOfSeq DEF Bytes
    <2>2. data[1] \in 0..(Controllers - 1)
        BY <1>1, <1>3, <2>1
    <2>3. <<data[1]>> \in Seq(Byte) /\ Len(<<data[1]>>) = 1 /\ <<data[1]>>[1] = data[1]
        BY <2>1
    <2>4. data = <<data[1]>>
        <3> DEFINE t == <<data[1]>>
        <3>1. t \in Seq(Byte) /\ Len(t) = Len(data) /\ \A i \in 1..Len(data) : data[i] = t[i]
            BY <1>3, <2>3
        <3> HIDE DEF t
        <3>2. data = t
            BY <3>1, SeqEqual DEF Bytes
        <3>3. QED  BY <3>2 DEF t
    <2>5. QED  BY <2>2, <2>4 DEF PollCommands
<1>4. QED  BY <1>2, <1>3

LEMMA GivenFits ==
    ASSUME NEW r \in Request
    PROVE  Given(r) \subseteq Fitting(r)
<1>1. r.data \in Bytes
    BY RequestShape
<1>2. CASE r.cmd = SendFrame
    <2>1. Len(r.data) > 1 => r.data[2] \in {0, 1}
        BY <1>2, FlagIsABit
    <2>2. r.cmd \notin {RecvRxEvents, RecvTxEvents} /\ HandlerAnswers(r.cmd, r.data) = SendFrameAnswers(r.data)
        BY <1>2 DEF HandlerAnswers, SendFrame, RecvRxEvents, RecvTxEvents
    <2>3. CASE r.data \in FrameCommands
        <3>1. SendFrameAnswers(r.data) = {Reply(OK), [code |-> Failed, data |-> <<Text>>]}
            BY <1>1, <2>1, <2>3, FrameCommand DEF SendFrameAnswers
        <3>2. Fitting(r) = {Reply(NoResources)} \cup {Reply(OK), [code |-> Failed, data |-> <<Text>>]}
            BY <1>2, <2>2, <2>3 DEF Fitting
        <3>3. QED  BY <2>2, <3>1, <3>2 DEF Given
    <2>4. CASE r.data \notin FrameCommands
        <3>1. SendFrameAnswers(r.data) = {Reply(CmdMalformed)}
            BY <1>1, <2>1, <2>4, FrameCommand DEF SendFrameAnswers
        <3>2. Fitting(r) = {Reply(NoResources)} \cup {Reply(CmdMalformed)}
            BY <1>2, <2>2, <2>4 DEF Fitting
        <3>3. QED  BY <2>2, <3>1, <3>2 DEF Given
    <2>5. QED  BY <2>3, <2>4
<1>3. CASE r.cmd \in {RecvRxEvents, RecvTxEvents}
    <2>1. r.cmd # SendFrame /\ HandlerAnswers(r.cmd, r.data) = RecvEventsAnswers(r.cmd, r.data)
        BY <1>3 DEF HandlerAnswers, SendFrame, RecvRxEvents, RecvTxEvents
    <2>2. CASE r.data \in PollCommands
        <3>1. RecvEventsAnswers(r.cmd, r.data)
                = {Reply(OK), [code |-> OK, data |-> Event(r.cmd, r.data[1])], Reply(Failed)}
            BY <1>1, <2>2, PollCommand DEF RecvEventsAnswers
        <3>2. Fitting(r) = {Reply(NoResources)} \cup
                {Reply(OK), Reply(Failed), [code |-> OK, data |-> Event(r.cmd, r.data[1])]}
            BY <1>3, <2>1, <2>2 DEF Fitting
        <3>3. QED  BY <2>1, <3>1, <3>2 DEF Given
    <2>3. CASE r.data \notin PollCommands
        <3>1. RecvEventsAnswers(r.cmd, r.data) = {Reply(CmdMalformed)}
            BY <1>1, <2>3, PollCommand DEF RecvEventsAnswers
        <3>2. Fitting(r) = {Reply(NoResources)} \cup {Reply(CmdMalformed)}
            BY <1>3, <2>1, <2>3 DEF Fitting
        <3>3. QED  BY <2>1, <3>1, <3>2 DEF Given
    <2>4. QED  BY <2>2, <2>3
<1>4. CASE r.cmd # SendFrame /\ r.cmd \notin {RecvRxEvents, RecvTxEvents}
    BY <1>4 DEF HandlerAnswers, Fitting, Given
<1>5. QED  BY <1>2, <1>3, <1>4

LEMMA AnyAnswer ==
    ASSUME HostTypes, TakeAnswer
    PROVE  result' \in Answer
<1>1. /\ toHost \in Bytes /\ Len(toHost) \in Nat /\ Len(toHost) >= Needed
      /\ \A i \in 1..Len(toHost) : toHost[i] \in Byte
    BY ElementOfSeq DEF HostTypes, TakeAnswer, Bytes
<1>2. Needed \in 2..Len(toHost)
    <2>1. \A i \in 1..Len(toHost) : toHost[i] \in Nat
        BY <1>1, ByteTypes
    <2>2. QED  BY <1>1, <2>1 DEF Needed
<1>3. \A i \in 3..(Needed - 1) : toHost[i] \in Byte
    <2>1. \A i \in 3..(Needed - 1) : i \in 1..Len(toHost)
        BY <1>1, <1>2
    <2>2. QED  BY <1>1, <2>1
<1>4. SubSeq(toHost, 3, Needed - 1) \in Seq(Byte)
    <2>1. 3 \in Int /\ Needed - 1 \in Int
        BY <1>2
    <2>2. QED  BY <1>3, <2>1, SubSeqProperties
<1>5. toHost[1] \in 0..(MaxByte + 1) /\ MaxByte + 1 \in 0..(MaxByte + 1) /\ <<>> \in Seq(Byte)
    <2>1. toHost[1] \in 0..MaxByte
        BY <1>1, <1>2, ByteTypes
    <2>2. QED  BY <2>1, ByteTypes
<1>6. QED  BY <1>4, <1>5 DEF TakeAnswer, Answer, AssertionError

\* Until a transaction is given up, and again once the port has been reopened at rest,
\* every answer make_transaction returns fits its command: what loop() logs, data that
\* looks like a start byte and an answer that goes out before its command is read do not
\* come between.
THEOREM TransactionIsKept == Spec => ImplementsTransaction
<1>1. Init => AbstractTransaction!Init
    <2>1. OK \in 0..(MaxByte + 1) /\ <<>> \in Seq(Byte)
        BY ByteTypes DEF OK
    <2>2. QED  BY <2>1 DEF Init, AbstractTransaction!Init, Answer
<1>2. HostTypes /\ TurnInv /\ [Next]_vars => [AbstractTransaction!Next]_(AbstractTransaction!vars)
    <2> SUFFICES ASSUME HostTypes, TurnInv, [Next]_vars,
                        ~(UNCHANGED <<request, result, trusted>>)
                 PROVE  AbstractTransaction!Next
        BY DEF AbstractTransaction!vars
    <2>1. ~Board /\ ~Scan /\ ~(UNCHANGED vars)
        BY DEF Board, ReadStart, BadStart, ReadHeader, OutOfMemory, Drain, DrainEnd, ReadData, ReadEnd,
               HostUnchanged, Scan, vars
    <2>2. host = "idle" => request = NoRequest
        BY DEF HostTypes
    <2>3. ASSUME NEW r \in Request, Call(r) PROVE AbstractTransaction!Next
        <3>1. request = NoRequest /\ request' = r /\ UNCHANGED <<result, trusted>>
            BY <2>2, <2>3 DEF Call
        <3>2. AbstractTransaction!Call(r)
            BY <3>1 DEF AbstractTransaction!Call
        <3>3. QED  BY <3>2 DEF AbstractTransaction!Next
    <2>4. CASE TakeAnswer
        <3>1. /\ host # "idle" /\ request \in Request /\ request' = NoRequest /\ trusted' = trusted
            BY <2>4 DEF TakeAnswer, HostTypes
        <3>2. request # NoRequest
            <4>1. request.cmd \in Byte /\ NoRequest.cmd = MaxByte + 1
                BY <3>1, RequestShape DEF NoRequest
            <4>2. QED  BY <4>1, ByteTypes
        <3>3. trusted => result' \in Fitting(request)
            <4>1. trusted => result' \in Given(request)
                BY <2>4, WholeAnswerTaken DEF TurnInv
            <4>2. QED  BY <3>1, <4>1, GivenFits
        <3>4. result' \in Answer
            BY <2>4, AnyAnswer
        <3>5. AbstractTransaction!Return
            BY <3>1, <3>2, <3>3, <3>4 DEF AbstractTransaction!Return
        <3>6. QED  BY <3>5 DEF AbstractTransaction!Next
    <2>5. CASE Abandon
        BY <2>5 DEF Abandon, AbstractTransaction!Abandon, AbstractTransaction!Next
    <2>6. ASSUME NEW r \in Request, AbandonWrite(r) PROVE AbstractTransaction!Next
        <3>1. request' = NoRequest /\ trusted' = FALSE /\ UNCHANGED result
            BY <2>2, <2>6 DEF AbandonWrite
        <3>2. QED  BY <3>1 DEF AbstractTransaction!Abandon, AbstractTransaction!Next
    <2>7. CASE Reopen
        <3>1. request = NoRequest /\ UNCHANGED <<request, result>>
            BY <2>2, <2>7 DEF Reopen
        <3>2. trusted' \in BOOLEAN
            BY <2>7 DEF Reopen
        <3>3. AbstractTransaction!Reopen
            BY <3>1, <3>2 DEF AbstractTransaction!Reopen
        <3>4. QED  BY <3>3 DEF AbstractTransaction!Next
    <2>8. QED  BY <2>1, <2>3, <2>4, <2>5, <2>6, <2>7 DEF Next, Host
<1>3. QED
    BY <1>1, <1>2, InitHostTypes, NextHostTypes, InitTurnInv, NextTurnInv, PTL
    DEF Spec, ImplementsTransaction, AbstractTransaction!Spec
=============================================================================

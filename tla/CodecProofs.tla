---------------------------- MODULE CodecProofs ----------------------------
(***************************************************************************)
(* Proofs about the conversions, for every ID, payload, user reference,    *)
(* list of filters and content of unwritten memory: a frame is told to the *)
(* receiving host as the sender meant it, and an event as it was recorded. *)
(*                                                                         *)
(* First lemmas on the numbers and bytes of the conversions: what the      *)
(* bytes of a word say of the word, how the two halves of a CAN ID change  *)
(* places in the driver's word, in the chip's and on the bus, and where    *)
(* the parts of a concatenation are.  Then two invariants, which say of    *)
(* every form an item takes on its way what it carries, with one lemma for *)
(* each step from a form to the next.  Last, the filters: bit by bit,      *)
(* comparing IDs in the chip's order is comparing them in their own.       *)
(***************************************************************************)
EXTENDS Codec, SequenceTheorems, TLAPS

-----------------------------------------------------------------------------
(* Words and bytes.                                                        *)

\* A word is the sum of its bytes.
LEMMA WordBytes ==
    ASSUME NEW w \in Word
    PROVE  \E b0, b1, b2, b3 \in Byte :
              /\ w = b0 + (256 * b1) + (65536 * b2) + (16777216 * b3)
              /\ w % 256 = b0 /\ (w \div 256) % 256 = b1
              /\ (w \div 65536) % 256 = b2 /\ (w \div 16777216) % 256 = b3
<1>1. w \in Nat /\ w \div 65536 < 65536
    BY SMT DEF Word
<1>2. PICK q, r \in Nat : r < 65536 /\ w = (65536 * q) + r
    BY <1>1, w = (65536 * (w \div 65536)) + (w % 65536), SMT
<1>3. w \div 65536 = q
    BY <1>2, SMT
<1>4. PICK b3, b2 \in Nat : b2 < 256 /\ q = (256 * b3) + b2
    BY q = (256 * (q \div 256)) + (q % 256), SMT
<1>5. PICK b1, b0 \in Nat : b0 < 256 /\ r = (256 * b1) + b0
    BY r = (256 * (r \div 256)) + (r % 256), SMT
<1>6. b3 < 256 /\ b1 < 256
    BY <1>1, <1>2, <1>3, <1>4, <1>5, SMT
<1>7. w = b0 + (256 * b1) + (65536 * b2) + (16777216 * b3)
    BY <1>2, <1>4, <1>5, SMT
<1>8. w % 256 = b0 /\ (w \div 256) % 256 = b1
    <2> DEFINE d == b1 + (256 * b2) + (65536 * b3)
               e == b2 + (256 * b3)
    <2>1. d \in Nat /\ e \in Nat /\ w = (256 * d) + b0 /\ d = (256 * e) + b1
        BY <1>7, SMT
    <2> HIDE DEF d, e
    <2>2. w \div 256 = d /\ w % 256 = b0
        BY <2>1, <1>5, SMT
    <2>3. d % 256 = b1
        BY <2>1, <1>6, SMT
    <2>4. QED  BY <2>2, <2>3, SMT
<1>9. q % 256 = b2
    BY <1>4, SMT
<1>10. (w \div 16777216) % 256 = b3
    <2> DEFINE d == b0 + (256 * b1) + (65536 * b2)
    <2>1. d \in Nat /\ d < 16777216 /\ w = (16777216 * b3) + d
        BY <1>4, <1>5, <1>6, <1>7, SMT
    <2> HIDE DEF d
    <2>2. w \div 16777216 = b3
        BY <2>1, SMT
    <2>3. b3 % 256 = b3
        BY <1>6, SMT
    <2>4. QED  BY <2>2, <2>3, SMT
<1>11. QED
    BY <1>3, <1>4, <1>5, <1>6, <1>7, <1>8, <1>9, <1>10, SMT DEF Byte

LEMMA BytesOfWord ==
    ASSUME NEW w \in Word
    PROVE  /\ LE4(w) \in Seq(Byte) /\ Len(LE4(w)) = 4
           /\ BE4(w) \in Seq(Byte) /\ Len(BE4(w)) = 4
<1>1. /\ w % 256 \in Byte /\ (w \div 256) % 256 \in Byte
      /\ (w \div 65536) % 256 \in Byte /\ (w \div 16777216) % 256 \in Byte
    BY WordBytes, SMT
<1>2. QED
    BY <1>1, SMT DEF LE4, BE4

\* A word read where its bytes were written is that word.
LEMMA ReadLE4 ==
    ASSUME NEW w \in Word, NEW b, NEW k \in Nat, \A i \in 1..4 : b[k + i] = LE4(w)[i]
    PROVE  FromLE4(b, k) = w
<1>1. PICK b0 \in Byte, b1 \in Byte, b2 \in Byte, b3 \in Byte :
         /\ w = b0 + (256 * b1) + (65536 * b2) + (16777216 * b3)
         /\ LE4(w) = <<b0, b1, b2, b3>>
    BY WordBytes, SMT DEF LE4
<1>2. b[k + 1] = b0 /\ b[k + 2] = b1 /\ b[k + 3] = b2 /\ b[k + 4] = b3
    BY <1>1, SMT
<1>3. QED
    BY <1>1, <1>2, SMT DEF FromLE4, Byte

LEMMA ReadBE4 ==
    ASSUME NEW w \in Word, NEW b, NEW k \in Nat, \A i \in 1..4 : b[k + i] = BE4(w)[i]
    PROVE  FromBE4(b, k) = w
<1>1. PICK b0 \in Byte, b1 \in Byte, b2 \in Byte, b3 \in Byte :
         /\ w = b0 + (256 * b1) + (65536 * b2) + (16777216 * b3)
         /\ BE4(w) = <<b3, b2, b1, b0>>
    BY WordBytes, SMT DEF BE4
<1>2. b[k + 1] = b3 /\ b[k + 2] = b2 /\ b[k + 3] = b1 /\ b[k + 4] = b0
    BY <1>1, SMT
<1>3. QED
    BY <1>1, <1>2, SMT DEF FromBE4, Byte

LEMMA ShortBytes ==
    ASSUME NEW w \in Short
    PROVE  \E b0 \in Byte, b1 \in Byte : w = b0 + (256 * b1) /\ LE2(w) = <<b0, b1>>
<1>1. w \in Nat /\ w < 65536
    BY SMT DEF Short
<1>2. PICK b1, b0 \in Nat : b0 < 256 /\ w = (256 * b1) + b0
    BY <1>1, w = (256 * (w \div 256)) + (w % 256), SMT
<1>3. b1 < 256
    BY <1>1, <1>2, SMT
<1>4. w \div 256 = b1 /\ w % 256 = b0
    BY <1>2, SMT
<1>5. b1 % 256 = b1
    BY <1>3, SMT
<1>6. QED
    BY <1>2, <1>3, <1>4, <1>5, SMT DEF LE2, Byte

LEMMA ReadLE2 ==
    ASSUME NEW w \in Short, NEW b, \A i \in 1..2 : b[i] = LE2(w)[i]
    PROVE  FromLE2(b, 0) = w
<1>1. PICK b0 \in Byte, b1 \in Byte : w = b0 + (256 * b1) /\ LE2(w) = <<b0, b1>>
    BY ShortBytes
<1>2. b[1] = b0 /\ b[2] = b1
    BY <1>1, SMT
<1>3. QED
    BY <1>1, <1>2, SMT DEF FromLE2, Byte

-----------------------------------------------------------------------------
(* IDs and control words.                                                  *)

Reduced(e, id) == id % (IF e THEN ExtBit ELSE 2048)

LEMMA ReducedId ==
    ASSUME NEW e \in BOOLEAN, NEW id \in Nat
    PROVE  Reduced(e, id) \in IdRange(e)
<1>1. CASE e
    BY <1>1, SMT DEF ExtBit, IdRange, Reduced
<1>2. CASE ~e
    BY <1>2, SMT DEF IdRange, Reduced
<1>3. QED  BY <1>1, <1>2

\* An extended ID consists of its high and its low bits, which change places in the
\* chip's word.
High(m) == m \div 262144
Low(m) == m % 262144
Lower(w) == w % 2048
Upper(w) == w \div 2048
Swap(m) == (2048 * Low(m)) + High(m)

Fits(m) == m \in Nat /\ m < 536870912
Cut(id) == id % ExtBit
Join(h, l) == (h * 262144) + l

LEMMA PartsOf ==
    ASSUME NEW m, Fits(m)
    PROVE  /\ High(m) \in Nat /\ High(m) < 2048 /\ Low(m) \in Nat /\ Low(m) < 262144
           /\ m = (262144 * High(m)) + Low(m)
BY SMT DEF Fits, High, Low

LEMMA SwapOf ==
    ASSUME NEW m, Fits(m)
    PROVE  Fits(Swap(m)) /\ Upper(Swap(m)) = Low(m) /\ Lower(Swap(m)) = High(m)
<1> DEFINE w == Swap(m)
<1>1. PICK a, b \in Nat : a < 2048 /\ b < 262144 /\ a = High(m) /\ b = Low(m)
    BY PartsOf
<1>2. w = (2048 * b) + a
    BY <1>1 DEF Swap
<1> HIDE DEF w
<1>3. Fits(w) /\ Upper(w) = b /\ Lower(w) = a
    BY <1>1, <1>2, SMT DEF Fits, Upper, Lower
<1>4. QED  BY <1>1, <1>3 DEF w

\* With the flag for extended IDs on top the rest stays where it is.
LEMMA WithFlag ==
    ASSUME NEW w, Fits(w)
    PROVE  w + ExtBit \in Word /\ Cut(w + ExtBit) = w /\ IsExtended(w + ExtBit)
<1> DEFINE f == w + ExtBit
<1>1. f \in Nat /\ f % 536870912 = w /\ f \div 536870912 = 1
    BY SMT DEF ExtBit, Fits
<1>2. f \in Word
    BY SMT DEF Word, ExtBit, Fits
<1> HIDE DEF f
<1>3. IsExtended(f)
    BY <1>1, SMT DEF IsExtended, Bit, ExtBit
<1>4. Cut(f) = w
    BY <1>1 DEF Cut, ExtBit
<1>5. QED  BY <1>2, <1>3, <1>4 DEF f

LEMMA FlagAbove ==
    ASSUME NEW m, Fits(m)
    PROVE  Lower(Swap(m) + ExtBit) = High(m) /\ Low(Upper(Swap(m) + ExtBit)) = Low(m)
<1> DEFINE f == Swap(m) + ExtBit
           n == Low(m) + 262144
<1>1. High(m) \in Nat /\ High(m) < 2048 /\ Low(m) \in Nat /\ Low(m) < 262144
    BY PartsOf
<1>2. n \in Nat /\ f = (2048 * n) + High(m)
    BY <1>1, SMT DEF ExtBit, Swap
<1>3. n % 262144 = Low(m)
    BY <1>1, SMT
<1> HIDE DEF n, f
<1>4. Upper(f) = n /\ Lower(f) = High(m)
    BY <1>1, <1>2, SMT DEF Upper, Lower
<1>5. Low(n) = Low(m)
    BY <1>3, SMT DEF Low
<1>6. QED  BY <1>4, <1>5 DEF f

LEMMA WithoutFlag ==
    ASSUME NEW w, Fits(w)
    PROVE  w \in Word /\ Cut(w) = w /\ ~IsExtended(w)
<1>1. w % 536870912 = w /\ w \div 536870912 = 0
    BY SMT DEF Fits
<1>2. ~IsExtended(w)
    BY <1>1, SMT DEF IsExtended, Bit, ExtBit
<1>3. w \in Word
    BY SMT DEF Word, Fits
<1>4. Cut(w) = w
    BY <1>1, SMT DEF Cut, ExtBit
<1>5. QED  BY <1>2, <1>3, <1>4

LEMMA CutOf ==
    ASSUME NEW id \in Nat
    PROVE  Fits(Cut(id)) /\ Low(Cut(id)) = Low(id)
<1>1. PICK x, m \in Nat : m < 536870912 /\ id = (536870912 * x) + m /\ id % ExtBit = m
    BY id = (ExtBit * (id \div ExtBit)) + (id % ExtBit), SMT DEF ExtBit
<1>2. Fits(m) /\ Cut(id) = m
    BY <1>1, SMT DEF Fits, Cut
<1>3. Low(m) \in Nat /\ Low(m) < 262144 /\ High(m) \in Nat /\ m = (262144 * High(m)) + Low(m)
    BY <1>2, PartsOf
<1> DEFINE n == (2048 * x) + High(m)
<1>4. n \in Nat /\ id = (262144 * n) + Low(m)
    BY <1>1, <1>3, SMT
<1> HIDE DEF n
<1>5. id % 262144 = Low(m)
    BY <1>3, <1>4, SMT
<1>6. Low(id) = Low(m)
    BY <1>5, SMT DEF Low
<1>7. QED  BY <1>2, <1>6

LEMMA ExtendedWord ==
    ASSUME NEW id \in Nat
    PROVE  Reduced(TRUE, id) = Cut(id) /\ MakeId(TRUE, id) = Swap(Cut(id)) + ExtBit
<1>1. Fits(Cut(id)) /\ Low(Cut(id)) = Low(id)
    BY CutOf
<1>2. High(Cut(id)) \in Nat /\ Low(id) \in Nat
    BY <1>1, PartsOf
<1> DEFINE w == High(Cut(id)) + (Low(id) * 2048)
<1>3. MakeId(TRUE, id) = w + ExtBit
    BY DEF MakeId, High, Low, Cut
<1>4. w = Swap(Cut(id))
    BY <1>1, <1>2, SMT DEF Swap
<1> HIDE DEF w
<1>5. Reduced(TRUE, id) = Cut(id)
    BY DEF Reduced, Cut
<1>6. QED  BY <1>3, <1>4, <1>5

\* A standard ID is its word.
Small(w) == w \in Nat /\ w < 2048

LEMMA SmallWord ==
    ASSUME NEW w, Small(w)
    PROVE  Fits(w) /\ Lower(w) = w
BY SMT DEF Small, Fits, Lower

LEMMA StandardWord ==
    ASSUME NEW id \in Nat
    PROVE  MakeId(FALSE, id) = Reduced(FALSE, id) /\ Small(Reduced(FALSE, id))
<1>1. Small(Lower(id))
    BY SMT DEF Small, Lower
<1>2. MakeId(FALSE, id) = Lower(id) /\ Reduced(FALSE, id) = Lower(id)
    BY DEF MakeId, Reduced, Lower
<1>3. QED  BY <1>1, <1>2

\* An ID in range is not reduced.
LEMMA RangeIsReduced ==
    ASSUME NEW e \in BOOLEAN, NEW id \in IdRange(e)
    PROVE  id \in Nat /\ Reduced(e, id) = id
<1>1. CASE e
    BY <1>1, SMT DEF IdRange, Reduced, ExtBit
<1>2. CASE ~e
    BY <1>2, SMT DEF IdRange, Reduced
<1>3. QED  BY <1>1, <1>2

\* The word of an ID holds the kind of the ID and the whole of it, and an ID too
\* large for CAN has the word of its low bits.
LEMMA IdWord ==
    ASSUME NEW e \in BOOLEAN, NEW id \in Nat
    PROVE  /\ MakeId(e, id) \in Word
           /\ IsExtended(MakeId(e, id)) = e
           /\ ArbitrationId(MakeId(e, id)) = Reduced(e, id)
           /\ MakeId(e, id) = MakeId(e, Reduced(e, id))
<1>1. CASE e
    <2> DEFINE f == Swap(Cut(id)) + ExtBit
    <2>1. Fits(Cut(id)) /\ Fits(Swap(Cut(id)))
        BY CutOf, SwapOf
    <2>2. MakeId(TRUE, id) = f /\ Reduced(TRUE, id) = Cut(id)
        BY ExtendedWord
    <2>3. f \in Word /\ IsExtended(f)
        BY <2>1, WithFlag
    <2>4. Lower(f) = High(Cut(id)) /\ Low(Upper(f)) = Low(Cut(id))
        BY <2>1, FlagAbove
    <2>5. MakeId(TRUE, Cut(id)) = f
        <3>1. Cut(id) \in Nat
            BY <2>1 DEF Fits
        <3>2. Cut(Cut(id)) = Cut(id)
            BY <2>1, WithoutFlag
        <3>3. QED  BY <3>1, <3>2, ExtendedWord
    <2> HIDE DEF f
    <2>6. ArbitrationId(f) = Cut(id)
        <3>1. ArbitrationId(f) = (High(Cut(id)) * 262144) + Low(Cut(id))
            BY <2>3, <2>4 DEF ArbitrationId, Low, Lower, Upper
        <3>2. High(Cut(id)) \in Nat /\ Cut(id) = (262144 * High(Cut(id))) + Low(Cut(id))
            BY <2>1, PartsOf
        <3>3. QED  BY <3>1, <3>2, SMT
    <2>7. QED
        BY <1>1, <2>2, <2>3, <2>5, <2>6
<1>2. CASE ~e
    <2> DEFINE w == Reduced(FALSE, id)
    <2>1. Small(w) /\ MakeId(FALSE, id) = w
        BY StandardWord
    <2> HIDE DEF w
    <2>2. Fits(w) /\ Lower(w) = w
        BY <2>1, SmallWord
    <2>3. w \in Word /\ ~IsExtended(w)
        BY <2>2, WithoutFlag
    <2>4. ArbitrationId(w) = w /\ MakeId(FALSE, w) = w
        BY <2>2, <2>3 DEF ArbitrationId, MakeId, Lower
    <2>5. e = FALSE /\ IsExtended(w) = FALSE /\ Reduced(FALSE, id) = w
        BY <1>2, <2>3 DEF w, IsExtended, Bit
    <2>6. QED
        BY <2>1, <2>3, <2>4, <2>5
<1>3. QED  BY <1>1, <1>2

\* A CAN ID's word without its flag is the ID in the chip's layout.
LEMMA ChipId ==
    ASSUME NEW m, m.extended \in BOOLEAN, m.id \in IdRange(m.extended)
    PROVE  /\ Cut(MakeId(m.extended, m.id)) = NativeId(m)
           /\ NativeId(m) \in Nat /\ Cut(NativeId(m)) = NativeId(m)
           /\ NativeId(m) + Flag(m.extended, ExtBit) = MakeId(m.extended, m.id)
           /\ ~m.extended => m.id = Lower(NativeId(m))
           /\ m.extended => m.id = Join(Lower(NativeId(m)), Upper(NativeId(m)))
<1>1. m.id \in Nat /\ Reduced(m.extended, m.id) = m.id
    BY RangeIsReduced
<1>2. CASE m.extended
    <2>1. Cut(m.id) = m.id /\ MakeId(TRUE, m.id) = Swap(m.id) + ExtBit
        BY <1>1, <1>2, ExtendedWord
    <2>2. Fits(m.id) /\ Fits(Swap(m.id))
        BY <1>1, <2>1, CutOf, SwapOf
    <2>3. High(m.id) \in Nat /\ Low(m.id) \in Nat /\ m.id = (262144 * High(m.id)) + Low(m.id)
        BY <2>2, PartsOf
    <2>4. NativeId(m) = Swap(m.id)
        <3>1. NativeId(m) = High(m.id) + (Low(m.id) * 2048)
            BY <1>2 DEF NativeId, High, Low
        <3>2. QED  BY <2>3, <3>1, SMT DEF Swap
    <2>5. Upper(Swap(m.id)) = Low(m.id) /\ Lower(Swap(m.id)) = High(m.id)
        BY <2>2, SwapOf
    <2>6. Cut(Swap(m.id)) = Swap(m.id) /\ Cut(Swap(m.id) + ExtBit) = Swap(m.id) /\ Swap(m.id) \in Nat
        BY <2>2, WithFlag, WithoutFlag DEF Fits
    <2>7. m.id = Join(Lower(NativeId(m)), Upper(NativeId(m)))
        BY <2>3, <2>4, <2>5, SMT DEF Join
    <2>8. Flag(TRUE, ExtBit) = ExtBit
        BY DEF Flag
    <2>9. m.extended = TRUE
        BY <1>2
    <2>10. QED
        BY <2>1, <2>4, <2>6, <2>7, <2>8, <2>9, Zenon
<1>3. CASE ~m.extended
    <2>1. MakeId(FALSE, m.id) = m.id /\ Small(m.id)
        BY <1>1, <1>3, StandardWord
    <2>2. Fits(m.id) /\ Lower(m.id) = m.id
        BY <2>1, SmallWord
    <2>3. Cut(m.id) = m.id
        BY <2>2, WithoutFlag
    <2>4. NativeId(m) = m.id
        BY <1>3, <2>2 DEF NativeId, Lower
    <2>5. m.id + Flag(FALSE, ExtBit) = m.id
        BY <1>1, SMT DEF Flag
    <2>6. m.extended = FALSE
        BY <1>3
    <2>7. QED
        BY <1>1, <2>1, <2>2, <2>3, <2>4, <2>5, <2>6, Zenon
<1>4. QED  BY <1>2, <1>3

-----------------------------------------------------------------------------
(* Control words.                                                          *)

\* The fields of a control word do not run into each other.
ControlSays(c, dlc, e, r) ==
    c \in Nat /\ c % 16 = dlc /\ Bit(c, 16) = e /\ Bit(c, 32) = r

LEMMA ControlFields ==
    ASSUME NEW dlc \in 0..15, NEW e \in BOOLEAN, NEW r \in BOOLEAN, NEW n \in Nat
    PROVE  ControlSays(dlc + Flag(e, 16) + Flag(r, 32) + 512 * n, dlc, e, r)
BY SMT DEF Flag, Bit, ControlSays

-----------------------------------------------------------------------------
(* Sequences of bytes.                                                     *)

\* The eight data bytes of a frame or an object are a sequence.
LEMMA AsSequence ==
    ASSUME NEW d \in [1..8 -> Byte]
    PROVE  d \in Seq(Byte) /\ Len(d) = 8
<1>1. 8 \in Nat
    OBVIOUS
<1>2. d \in Seq(Byte)
    BY <1>1, SeqDef
<1>3. Len(d) \in Nat /\ DOMAIN d = 1..Len(d) /\ DOMAIN d = 1..8
    BY <1>2, LenProperties
<1>4. QED
    BY <1>2, <1>3, SMT

\* Where the parts of a concatenation are.
Joins(w, x, y, B) ==
    /\ w \in Seq(B) /\ Len(w) = Len(x) + Len(y)
    /\ Len(x) \in Nat /\ Len(y) \in Nat
    /\ \A i \in 1..Len(x) : w[i] = x[i]
    /\ \A i \in 1..Len(y) : w[Len(x) + i] = y[i]

LEMMA TwoParts ==
    ASSUME NEW B, NEW x \in Seq(B), NEW y \in Seq(B)
    PROVE  Joins(x \o y, x, y, B)
<1>1. Len(x) \in Nat /\ Len(y) \in Nat
    BY LenProperties
<1> DEFINE w == x \o y
<1>2. /\ w \in Seq(B) /\ Len(w) = Len(x) + Len(y)
      /\ \A i \in 1..Len(x) + Len(y) : w[i] = IF i <= Len(x) THEN x[i] ELSE y[i - Len(x)]
    BY ConcatProperties
<1> HIDE DEF w
<1>3. \A i \in 1..Len(x) : w[i] = x[i]
    BY <1>1, <1>2, SMT
<1>4. \A i \in 1..Len(y) : w[Len(x) + i] = y[i]
    BY <1>1, <1>2, SMT
<1>5. QED
    BY <1>1, <1>2, <1>3, <1>4 DEF w, Joins

JoinsThree(w, x, y, z, B) ==
    /\ w \in Seq(B) /\ Len(w) = Len(x) + Len(y) + Len(z)
    /\ Len(x) \in Nat /\ Len(y) \in Nat /\ Len(z) \in Nat
    /\ \A i \in 1..Len(x) : w[i] = x[i]
    /\ \A i \in 1..Len(y) : w[Len(x) + i] = y[i]
    /\ \A i \in 1..Len(z) : w[Len(x) + Len(y) + i] = z[i]

LEMMA ThreeParts ==
    ASSUME NEW B, NEW x, NEW y, NEW z, NEW v, NEW w, Joins(v, x, y, B), Joins(w, v, z, B)
    PROVE  JoinsThree(w, x, y, z, B)
<1>1. /\ v \in Seq(B) /\ Len(v) = Len(x) + Len(y)
      /\ Len(x) \in Nat /\ Len(y) \in Nat
      /\ \A i \in 1..Len(x) : v[i] = x[i]
      /\ \A i \in 1..Len(y) : v[Len(x) + i] = y[i]
    BY DEF Joins
<1>2. /\ w \in Seq(B) /\ Len(w) = Len(v) + Len(z) /\ Len(z) \in Nat
      /\ \A i \in 1..Len(v) : w[i] = v[i]
      /\ \A i \in 1..Len(z) : w[Len(v) + i] = z[i]
    BY DEF Joins
<1>3. \A i \in 1..Len(x) : w[i] = x[i]
    BY <1>1, <1>2, SMT
<1>4. \A i \in 1..Len(y) : w[Len(x) + i] = y[i]
    BY <1>1, <1>2, SMT
<1>5. QED
    BY <1>1, <1>2, <1>3, <1>4 DEF JoinsThree

\* A slice of a sequence.
LEMMA Slice ==
    ASSUME NEW B, NEW s \in Seq(B), NEW k \in Nat, NEW n \in Nat, k + n <= Len(s)
    PROVE  /\ SubSeq(s, k + 1, k + n) \in Seq(B) /\ Len(SubSeq(s, k + 1, k + n)) = n
           /\ \A i \in 1..n : SubSeq(s, k + 1, k + n)[i] = s[k + i]
<1>1. Len(s) \in Nat /\ \A i \in 1..Len(s) : s[i] \in B
    BY LenProperties, ElementOfSeq
<1> DEFINE t == SubSeq(s, k + 1, k + n)
<1>2. k + 1 \in Int /\ k + n \in Int /\ \A i \in k + 1 .. k + n : s[i] \in B
    BY <1>1, SMT
<1>3. /\ t \in Seq(B)
      /\ Len(t) = IF k + 1 <= k + n THEN (k + n) - (k + 1) + 1 ELSE 0
      /\ \A i \in 1 .. (k + n) - (k + 1) + 1 : t[i] = s[(k + 1) + i - 1]
    BY <1>2, SubSeqProperties
<1> HIDE DEF t
<1>4. t \in Seq(B) /\ Len(t) = n /\ \A i \in 1..n : t[i] = s[k + i]
    BY <1>3, SMT
<1>5. QED  BY <1>4 DEF t

\* What was put into a sequence can be cut out of it.
LEMMA CutOut ==
    ASSUME NEW B, NEW s \in Seq(B), NEW k \in Nat, NEW d \in Seq(B), k + Len(d) <= Len(s),
           \A i \in 1..Len(d) : s[k + i] = d[i]
    PROVE  SubSeq(s, k + 1, k + Len(d)) = d
<1>1. Len(d) \in Nat
    BY LenProperties
<1> DEFINE t == SubSeq(s, k + 1, k + Len(d))
<1>2. t \in Seq(B) /\ Len(t) = Len(d) /\ \A i \in 1..Len(d) : t[i] = s[k + i]
    BY <1>1, Slice
<1>3. \A i \in 1..Len(t) : t[i] = d[i]
    BY <1>2
<1> HIDE DEF t
<1>4. t = d
    BY <1>2, <1>3, SeqEqual
<1>5. QED  BY <1>4 DEF t

-----------------------------------------------------------------------------
(* One form after the other.                                               *)

\* The bytes a form carries begin with the frame's data, those of a frame's form
\* are its word, its DLC and its kind.
CarriesData(m, d) == d \in [1..8 -> Byte] /\ \A i \in 1..Len(m.data) : d[i] = m.data[i]

FrameOf(m, f) ==
    /\ f.canid = MakeId(m.extended, m.id) /\ f.dlc = m.dlc /\ f.remote = m.remote
    /\ CarriesData(m, f.data)

\* The user reference a request asks for, 0 if it has none.
MeantUref == IF sent.what.useUref THEN sent.what.uref ELSE 0

FromHost == sent.from = "host" /\ sent.what \in Requests

LEMMA DataFields ==
    ASSUME NEW d \in Data
    PROVE  d \in Seq(Byte) /\ Len(d) \in Nat /\ Len(d) <= 8 /\ \A i \in 1..Len(d) : d[i] \in Byte
<1>1. d \in Seq(Byte) /\ Len(d) <= 8
    BY DEF Data
<1>2. QED  BY <1>1, LenProperties, ElementOfSeq

\* The padded bytes of a frame's data begin with the data.
LEMMA PaddedCarries ==
    ASSUME NEW data \in Data, NEW junk \in Byte
    PROVE  /\ Padded(data, junk) \in [1..8 -> Byte]
           /\ \A i \in 1..Len(data) : Padded(data, junk)[i] = data[i]
<1>1. Len(data) \in Nat /\ Len(data) <= 8 /\ \A i \in 1..Len(data) : data[i] \in Byte
    BY DataFields
<1>2. QED  BY <1>1, SMT DEF Padded

LEMMA RequestFields ==
    ASSUME NEW r \in Requests
    PROVE  /\ r.extended \in BOOLEAN /\ r.remote \in BOOLEAN /\ r.useUref \in BOOLEAN
           /\ (r.extended => r.id \in Word) /\ (~r.extended => r.id \in Short) /\ r.id \in Nat
           /\ r.uref \in Word /\ r.dlc \in Byte /\ r.data \in Data
           /\ r.remote => r.data = <<>>
<1>1. /\ r.extended \in BOOLEAN /\ r.remote \in BOOLEAN /\ r.useUref \in BOOLEAN
      /\ r.id \in (IF r.extended THEN Word ELSE Short) /\ r.uref \in Word
      /\ r.dlc \in Byte /\ r.data \in Data
      /\ r.remote => r.data = <<>>
    BY CodecAssumption
<1>2. Word \subseteq Nat /\ Short \subseteq Nat
    BY DEF Word, Short
<1>3. QED
    BY <1>1, <1>2

LEMMA BytesOfShort ==
    ASSUME NEW w \in Short
    PROVE  LE2(w) \in Seq(Byte) /\ Len(LE2(w)) = 2
<1>1. PICK b0 \in Byte, b1 \in Byte : LE2(w) = <<b0, b1>>
    BY ShortBytes
<1>2. QED  BY <1>1, SMT

\* Where the parts of a packet are: the board's indices are the host's.
LEMMA PacketLayout ==
    ASSUME NEW r \in Requests
    PROVE  LET p == HostPack(r)
           IN /\ p.rest \in Seq(Byte)
              /\ UrefIdx(p) \in Nat /\ DataIdx(p) \in Nat
              /\ Len(p.rest) = DataIdx(p) + Len(r.data)
              /\ r.extended => \A i \in 1..4 : p.rest[0 + i] = LE4(r.id)[i]
              /\ ~r.extended => \A i \in 1..2 : p.rest[i] = LE2(r.id)[i]
              /\ r.useUref => \A i \in 1..4 : p.rest[UrefIdx(p) + i] = LE4(r.uref)[i]
              /\ \A i \in 1..Len(r.data) : p.rest[DataIdx(p) + i] = r.data[i]
<1> DEFINE p == HostPack(r)
           x == IF r.extended THEN LE4(r.id) ELSE LE2(r.id)
           y == IF r.useUref THEN LE4(r.uref) ELSE <<>>
           rest == p.rest
           u == UrefIdx(p)
           d == DataIdx(p)
<1>1. /\ r.extended \in BOOLEAN /\ r.useUref \in BOOLEAN /\ r.data \in Seq(Byte)
      /\ (r.extended => r.id \in Word) /\ (~r.extended => r.id \in Short) /\ r.uref \in Word
    BY RequestFields, DataFields
<1>2. x \in Seq(Byte) /\ Len(x) = IF r.extended THEN 4 ELSE 2
    BY <1>1, BytesOfWord, BytesOfShort
<1>3. y \in Seq(Byte) /\ Len(y) = IF r.useUref THEN 4 ELSE 0
    BY <1>1, BytesOfWord, EmptySeq
<1>4. rest = (x \o y) \o r.data
    BY DEF HostPack
<1>5. p.extended = r.extended /\ p.useUref = r.useUref
    BY DEF HostPack
<1>6. u = (IF r.extended THEN 4 ELSE 2) /\ d = u + (IF r.useUref THEN 4 ELSE 0)
    BY <1>5 DEF UrefIdx, DataIdx
<1>7. u = Len(x) /\ d = Len(x) + Len(y)
    BY <1>2, <1>3, <1>6
<1>8. /\ r.extended => x = LE4(r.id) /\ Len(x) = 4
      /\ ~r.extended => x = LE2(r.id) /\ Len(x) = 2
      /\ r.useUref => y = LE4(r.uref) /\ Len(y) = 4
    BY <1>2, <1>3
<1> HIDE DEF p, x, y, rest, u, d
<1>9. /\ rest \in Seq(Byte) /\ Len(rest) = Len(x) + Len(y) + Len(r.data)
      /\ Len(x) \in Nat /\ Len(y) \in Nat /\ Len(r.data) \in Nat
      /\ \A i \in 1..Len(x) : rest[i] = x[i]
      /\ \A i \in 1..Len(y) : rest[Len(x) + i] = y[i]
      /\ \A i \in 1..Len(r.data) : rest[Len(x) + Len(y) + i] = r.data[i]
    <2> DEFINE v == x \o y
    <2>1. Joins(v, x, y, Byte)
        BY <1>2, <1>3, TwoParts
    <2>2. v \in Seq(Byte) /\ rest = v \o r.data
        BY <1>4, <2>1 DEF Joins
    <2> HIDE DEF v
    <2>3. Joins(rest, v, r.data, Byte)
        BY <1>1, <2>2, TwoParts
    <2>4. JoinsThree(rest, x, y, r.data, Byte)
        BY <2>1, <2>3, ThreeParts
    <2>5. QED  BY <2>4 DEF JoinsThree
<1>10. u \in Nat /\ d \in Nat
    BY <1>7, <1>9, SMT
<1>11. r.extended => \A i \in 1..4 : rest[0 + i] = LE4(r.id)[i]
    <2>1. \A i \in 1..4 : 0 + i = i
        BY SMT
    <2>2. QED  BY <1>8, <1>9, <2>1
<1>12. ~r.extended => \A i \in 1..2 : rest[i] = LE2(r.id)[i]
    BY <1>8, <1>9
<1>13. r.useUref => \A i \in 1..4 : rest[u + i] = LE4(r.uref)[i]
    BY <1>7, <1>8, <1>9
<1>14. Len(rest) = d + Len(r.data) /\ \A i \in 1..Len(r.data) : rest[d + i] = r.data[i]
    BY <1>7, <1>9
<1>15. QED
    BY <1>9, <1>10, <1>11, <1>12, <1>13, <1>14 DEF p, rest, u, d

\* A request that is not refused is a legal frame.
LEMMA MeantIsLegal ==
    ASSUME FromHost, WellFormed(HostPack(sent.what))
    PROVE  Legal(Meant) /\ Meant.dlc <= 8
<1> DEFINE r == sent.what
           m == Meant
           p == HostPack(r)
<1>1. /\ r \in Requests
      /\ r.extended \in BOOLEAN /\ r.remote \in BOOLEAN /\ r.id \in Nat
      /\ r.dlc \in Byte /\ r.data \in Data /\ (r.remote => r.data = <<>>)
    BY RequestFields DEF FromHost
<1>2. Len(r.data) \in Nat /\ Len(r.data) <= 8
    BY <1>1, DataFields
<1>3. p.dlc = IF r.remote THEN r.dlc ELSE Len(r.data)
    BY DEF HostPack
<1>4. p.dlc <= 8
    BY DEF WellFormed
<1>5. /\ m.extended = r.extended /\ m.remote = r.remote /\ m.id = Reduced(r.extended, r.id)
      /\ m.dlc = p.dlc /\ m.data = r.data
    BY <1>3 DEF Meant, FromHost, Reduced
<1>6. m.id \in IdRange(m.extended)
    BY <1>1, <1>5, ReducedId
<1> HIDE DEF r, m, p
<1>7. m.dlc \in Nat /\ m.dlc <= 8
    BY <1>1, <1>2, <1>3, <1>4, <1>5, SMT DEF Byte
<1>8. m.dlc \in 0..15 /\ ~(m.dlc > 8)
    BY <1>7, SMT
<1>9. Len(m.data) = IF m.remote THEN 0 ELSE m.dlc
    BY <1>1, <1>3, <1>5, EmptySeq
<1>10. Legal(m)
    BY <1>1, <1>5, <1>6, <1>8, <1>9 DEF Legal
<1>11. QED
    BY <1>7, <1>10 DEF m

\* A request that is not refused becomes the frame it describes.
LEMMA UnpackedFrame ==
    ASSUME FromHost, NEW junk \in Byte, WellFormed(HostPack(sent.what))
    PROVE  LET f == FrameOfPacket(HostPack(sent.what), junk)
           IN FrameOf(Meant, f) /\ f.uref = MeantUref
<1> DEFINE r == sent.what
           p == HostPack(r)
           f == FrameOfPacket(p, junk)
           d == DataIdx(p)
           tail == SubSeq(p.rest, d + 1, Len(p.rest))
           behind == Padded(tail, junk)
<1>1. /\ r \in Requests
      /\ r.extended \in BOOLEAN /\ r.remote \in BOOLEAN /\ r.useUref \in BOOLEAN
      /\ (r.extended => r.id \in Word) /\ (~r.extended => r.id \in Short) /\ r.id \in Nat
      /\ r.uref \in Word /\ r.dlc \in Byte /\ r.data \in Data /\ (r.remote => r.data = <<>>)
    BY RequestFields DEF FromHost
<1>2. /\ p.extended = r.extended /\ p.remote = r.remote /\ p.useUref = r.useUref
      /\ p.dlc = IF r.remote THEN r.dlc ELSE Len(r.data)
    BY DEF HostPack
<1>3. Len(r.data) \in Nat /\ Len(r.data) <= 8
    BY <1>1, DataFields
<1>4. p.dlc \in Nat /\ p.dlc <= 8 /\ p.dlc % 16 = p.dlc /\ Len(r.data) <= p.dlc
    <2>1. p.dlc <= 8
        BY DEF WellFormed
    <2>2. Len(<<>>) = 0
        OBVIOUS
    <2> HIDE DEF p, r
    <2>3. QED  BY <1>1, <1>2, <1>3, <2>1, <2>2, SMT DEF Byte
<1>5. /\ p.rest \in Seq(Byte) /\ d \in Nat /\ UrefIdx(p) \in Nat
      /\ Len(p.rest) = d + Len(r.data)
      /\ \A i \in 1..Len(r.data) : p.rest[d + i] = r.data[i]
    BY <1>1, PacketLayout
<1>6. (IF p.extended THEN FromLE4(p.rest, 0) ELSE FromLE2(p.rest, 0)) = r.id
    <2>1. CASE r.extended
        <3>1. r.id \in Word /\ \A i \in 1..4 : p.rest[0 + i] = LE4(r.id)[i]
            BY <1>1, <2>1, PacketLayout
        <3>2. 0 \in Nat
            OBVIOUS
        <3> HIDE DEF p, r
        <3>3. QED  BY <1>2, <2>1, <3>1, <3>2, ReadLE4
    <2>2. CASE ~r.extended
        <3>1. r.id \in Short /\ \A i \in 1..2 : p.rest[i] = LE2(r.id)[i]
            BY <1>1, <2>2, PacketLayout
        <3> HIDE DEF p, r
        <3>2. QED  BY <1>2, <2>2, <3>1, ReadLE2
    <2>3. QED  BY <2>1, <2>2
<1>7. (IF p.useUref THEN FromLE4(p.rest, UrefIdx(p)) ELSE 0) = MeantUref
    <2>1. CASE r.useUref
        <3>1. UrefIdx(p) \in Nat /\ \A i \in 1..4 : p.rest[UrefIdx(p) + i] = LE4(r.uref)[i]
            BY <1>1, <2>1, PacketLayout
        <3>2. MeantUref = r.uref
            BY <2>1 DEF MeantUref
        <3> HIDE DEF p, r
        <3>3. QED  BY <1>1, <1>2, <2>1, <3>1, <3>2, ReadLE4
    <2>2. CASE ~r.useUref
        BY <1>2, <2>2 DEF MeantUref
    <2>3. QED  BY <2>1, <2>2
<1>8. behind \in [1..8 -> Byte] /\ \A i \in 1..Len(r.data) : behind[i] = r.data[i]
    <2>1. tail \in Seq(Byte) /\ Len(tail) = Len(r.data) /\ \A i \in 1..Len(r.data) : tail[i] = r.data[i]
        <3> HIDE DEF p, r, d
        <3>1. d + Len(r.data) <= Len(p.rest)
            BY <1>3, <1>5, SMT
        <3>2. QED  BY <1>3, <1>5, <3>1, Slice
    <2>2. tail \in Data
        BY <1>3, <2>1 DEF Data
    <2> HIDE DEF tail, r
    <2>3. QED  BY <2>1, <2>2, PaddedCarries
<1> DEFINE g == MakeFrame(r.extended, r.id, p.dlc, behind, r.remote, junk)
<1>9. f = [g EXCEPT !.uref = MeantUref]
    BY <1>2, <1>6, <1>7 DEF FrameOfPacket
<1>10. /\ g.canid = MakeId(r.extended, r.id) /\ g.dlc = p.dlc /\ g.remote = r.remote
       /\ g.data = [i \in 1..8 |-> IF i <= p.dlc THEN behind[i] ELSE junk]
       /\ DOMAIN g = {"canid", "dlc", "remote", "uref", "data"}
    BY <1>4 DEF MakeFrame
<1> HIDE DEF f, g, p, behind
<1>11. /\ f.canid = MakeId(r.extended, r.id) /\ f.dlc = p.dlc /\ f.remote = r.remote /\ f.uref = MeantUref
       /\ f.data = [i \in 1..8 |-> IF i <= p.dlc THEN behind[i] ELSE junk]
    BY <1>9, <1>10
<1>12. Meant.extended = r.extended /\ Meant.remote = r.remote /\ Meant.dlc = p.dlc /\ Meant.data = r.data
    BY <1>2 DEF Meant, FromHost
<1>13. MakeId(Meant.extended, Meant.id) = MakeId(r.extended, r.id)
    <2>1. Meant.extended = r.extended /\ Meant.id = Reduced(r.extended, r.id)
        BY DEF Meant, FromHost, Reduced
    <2> HIDE DEF r
    <2>2. QED  BY <1>1, <2>1, IdWord
<1> HIDE DEF r
<1>14. \A i \in 1..8 : f.data[i] \in Byte
    BY <1>8, <1>11
<1>15. \A i \in 1..Len(r.data) : f.data[i] = r.data[i]
    BY <1>3, <1>4, <1>8, <1>11, SMT
<1>16. CarriesData(Meant, f.data)
    BY <1>11, <1>12, <1>14, <1>15 DEF CarriesData
<1>17. QED
    BY <1>11, <1>12, <1>13, <1>16 DEF FrameOf, f, p, r

\* What is known of the fields of a legal frame.
LEMMA LegalFields ==
    ASSUME NEW m, Legal(m)
    PROVE  /\ m.extended \in BOOLEAN /\ m.remote \in BOOLEAN /\ m.dlc \in 0..15
           /\ m.id \in IdRange(m.extended) /\ m.id \in Nat /\ m.data \in Data
           /\ Len(m.data) \in Nat /\ Len(m.data) <= 8 /\ Len(m.data) <= m.dlc
           /\ Len(m.data) = IF m.remote THEN 0 ELSE IF m.dlc > 8 THEN 8 ELSE m.dlc
<1>1. /\ m.extended \in BOOLEAN /\ m.remote \in BOOLEAN /\ m.dlc \in 0..15
      /\ m.id \in IdRange(m.extended) /\ m.data \in Data
      /\ Len(m.data) = IF m.remote THEN 0 ELSE IF m.dlc > 8 THEN 8 ELSE m.dlc
    BY DEF Legal
<1>2. m.id \in Nat
    BY <1>1, RangeIsReduced
<1>3. Len(m.data) \in Nat /\ Len(m.data) <= 8
    BY <1>1, DataFields
<1>4. \A n, k : n \in 0..15 /\ k = (IF m.remote THEN 0 ELSE IF n > 8 THEN 8 ELSE n) => k <= n
    BY SMT
<1>5. QED
    BY <1>1, <1>2, <1>3, <1>4, Zenon

\* The word in which an ID is stored holds the ID and its kind.
LEMMA StoredId ==
    ASSUME NEW e \in BOOLEAN, NEW id \in IdRange(e), NEW w, w = id + Flag(e, ExtBit)
    PROVE  w \in Word /\ IsExtended(w) = e /\ Reduced(e, w) = id
<1>1. id \in Nat /\ Reduced(e, id) = id
    BY RangeIsReduced
<1>2. CASE e
    <2>1. e = TRUE
        BY <1>2
    <2>2. Cut(id) = id
        BY <1>1, <2>1, ExtendedWord
    <2>3. Fits(id)
        BY <1>1, <2>2, CutOf
    <2>4. w = id + ExtBit
        BY <2>1 DEF Flag
    <2>5. w \in Word /\ Cut(w) = id /\ IsExtended(w)
        BY <2>3, <2>4, WithFlag
    <2>6. IsExtended(w) = TRUE /\ Reduced(TRUE, w) = Cut(w)
        BY <2>5 DEF IsExtended, Bit, Reduced, Cut
    <2>7. QED  BY <2>1, <2>5, <2>6, Zenon
<1>3. CASE ~e
    <2>1. e = FALSE
        BY <1>3
    <2>2. Small(id)
        BY <1>1, <2>1, StandardWord
    <2>3. Fits(id)
        BY <2>2, SmallWord
    <2>4. w = id
        BY <1>1, <2>1, SMT DEF Flag
    <2>5. w \in Word /\ ~IsExtended(w)
        BY <2>3, <2>4, WithoutFlag
    <2>6. IsExtended(w) = FALSE
        BY <2>5 DEF IsExtended, Bit
    <2>7. QED  BY <1>1, <2>1, <2>4, <2>5, <2>6, Zenon
<1>4. QED  BY <1>2, <1>3

\* Where the parts of a stored frame are.
StoredAs(b, h, u, w, d) ==
    /\ b[1] = h[1] /\ b[2] = h[2]
    /\ \A i \in 1..4 : b[3 + i] = u[i] /\ b[7 + i] = w[i]
    /\ \A i \in 1..8 : b[11 + i] = d[i]

LEMMA StoredLayout ==
    ASSUME NEW B, NEW b, NEW v, NEW h, NEW u, NEW w, NEW d,
           JoinsThree(v, h, u, w, B), Joins(b, v, d, B),
           Len(h) = 3, Len(u) = 4, Len(w) = 4, Len(d) = 8
    PROVE  StoredAs(b, h, u, w, d)
<1>1. /\ Len(v) = 3 + 4 + 4
      /\ \A i \in 1..3 : v[i] = h[i]
      /\ \A i \in 1..4 : v[3 + i] = u[i]
      /\ \A i \in 1..4 : v[3 + 4 + i] = w[i]
    BY DEF JoinsThree
<1>2. /\ \A i \in 1..Len(v) : b[i] = v[i]
      /\ \A i \in 1..8 : b[Len(v) + i] = d[i]
    BY DEF Joins
<1>3. QED
    BY <1>1, <1>2, SMT DEF StoredAs

\* A frame stored as bytes and made again is still the same frame.
LEMMA ReloadedFrame ==
    ASSUME NEW m, Legal(m), NEW f, FrameOf(m, f), f.uref \in Word, NEW junk \in Byte
    PROVE  LET g == FrameOfBytes(BytesOfFrame(f, f.uref), junk)
           IN FrameOf(m, g) /\ g.uref = f.uref
<1> DEFINE word == m.id + Flag(m.extended, ExtBit)
           head == <<Flag(m.remote, 1), m.dlc, 0>>
           u == BE4(f.uref)
           w == BE4(word)
           v == (head \o u) \o w
           b == BytesOfFrame(f, f.uref)
           dlc == b[2] % 16
           g == FrameOfBytes(b, junk)
<1>1. /\ m.extended \in BOOLEAN /\ m.remote \in BOOLEAN /\ m.dlc \in 0..15
      /\ m.id \in IdRange(m.extended) /\ m.id \in Nat
      /\ Len(m.data) \in Nat /\ Len(m.data) <= 8 /\ Len(m.data) <= m.dlc
    BY LegalFields
<1>2. word \in Word /\ IsExtended(word) = m.extended /\ Reduced(m.extended, word) = m.id
    BY <1>1, StoredId
<1>3. IsExtended(f.canid) = m.extended /\ ArbitrationId(f.canid) = m.id
    <2>1. Reduced(m.extended, m.id) = m.id
        BY <1>1, RangeIsReduced
    <2>2. f.canid = MakeId(m.extended, m.id)
        BY DEF FrameOf
    <2>3. QED  BY <1>1, <2>1, <2>2, IdWord, Zenon
<1>4. f.dlc = m.dlc /\ f.remote = m.remote /\ f.data \in [1..8 -> Byte]
      /\ \A i \in 1..Len(m.data) : f.data[i] = m.data[i]
    BY DEF FrameOf, CarriesData
<1>5. b = v \o f.data
    BY <1>3, <1>4 DEF BytesOfFrame
<1>6. head \in Seq(Byte) /\ Len(head) = 3 /\ head[1] = Flag(m.remote, 1) /\ head[2] = m.dlc
    <2>1. Flag(m.remote, 1) \in Byte /\ m.dlc \in Byte /\ 0 \in Byte
        BY <1>1, SMT DEF Flag, Byte
    <2>2. QED  BY <2>1, SMT
<1>7. u \in Seq(Byte) /\ Len(u) = 4 /\ w \in Seq(Byte) /\ Len(w) = 4
    <2> HIDE DEF word
    <2>1. QED  BY <1>2, BytesOfWord
<1>8. f.data \in Seq(Byte) /\ Len(f.data) = 8
    BY <1>4, AsSequence
<1> HIDE DEF word, b, head, u, w
<1>9. JoinsThree(v, head, u, w, Byte)
    <2>1. Joins(head \o u, head, u, Byte)
        BY <1>6, <1>7, TwoParts
    <2>2. head \o u \in Seq(Byte)
        BY <2>1 DEF Joins
    <2>3. Joins((head \o u) \o w, head \o u, w, Byte)
        BY <1>7, <2>2, TwoParts
    <2>4. QED  BY <2>1, <2>3, ThreeParts
<1> HIDE DEF v
<1>10. Joins(b, v, f.data, Byte)
    <2>1. v \in Seq(Byte)
        BY <1>9 DEF JoinsThree
    <2>2. Joins(v \o f.data, v, f.data, Byte)
        BY <1>8, <2>1, TwoParts
    <2>3. QED  BY <1>5, <2>2
<1>11. /\ b[1] = head[1] /\ b[2] = head[2]
       /\ \A i \in 1..4 : b[3 + i] = u[i] /\ b[7 + i] = w[i]
       /\ \A i \in 1..8 : b[11 + i] = f.data[i]
    <2>1. StoredAs(b, head, u, w, f.data)
        BY <1>6, <1>7, <1>8, <1>9, <1>10, StoredLayout
    <2>2. QED  BY <2>1 DEF StoredAs
<1>12. FromBE4(b, 3) = f.uref /\ FromBE4(b, 7) = word
    <2>1. 3 \in Nat /\ 7 \in Nat
        OBVIOUS
    <2>2. QED  BY <1>2, <1>11, <2>1, ReadBE4 DEF u, w
<1>13. dlc = m.dlc /\ dlc % 16 = dlc
    <2>1. b[2] = m.dlc
        BY <1>6, <1>11
    <2>2. QED  BY <1>1, <2>1, SMT
<1>14. (b[1] % 2 = 1) = m.remote
    <2>1. b[1] = Flag(m.remote, 1)
        BY <1>6, <1>11
    <2>2. QED  BY <1>1, <2>1, SMT DEF Flag
<1> DEFINE block == [i \in 1..8 |-> b[11 + i]]
           h == MakeFrame(m.extended, m.id, dlc, block, m.remote, junk)
<1>15. g = [h EXCEPT !.uref = f.uref]
    <2> DEFINE ide == Bit(FromBE4(b, 7), ExtBit)
               id == FromBE4(b, 7) % (IF ide THEN ExtBit ELSE 2048)
               remote == b[1] % 2 = 1
    <2>1. g = [MakeFrame(ide, id, dlc, block, remote, junk) EXCEPT !.uref = FromBE4(b, 3)]
        BY DEF FrameOfBytes
    <2>2. ide = m.extended
        BY <1>2, <1>12 DEF IsExtended
    <2>3. id = m.id
        <3> HIDE DEF ide
        <3>1. QED  BY <1>2, <1>12, <2>2 DEF Reduced
    <2>4. remote = m.remote
        BY <1>14
    <2> HIDE DEF ide, id, remote, dlc, block
    <2>5. QED  BY <1>12, <2>1, <2>2, <2>3, <2>4
<1> HIDE DEF g, dlc
<1>16. /\ h.canid = MakeId(m.extended, m.id) /\ h.dlc = m.dlc /\ h.remote = m.remote
       /\ h.data = [i \in 1..8 |-> IF i <= m.dlc THEN block[i] ELSE junk]
       /\ DOMAIN h = {"canid", "dlc", "remote", "uref", "data"}
    BY <1>13 DEF MakeFrame
<1> HIDE DEF h
<1>17. /\ g.canid = MakeId(m.extended, m.id) /\ g.dlc = m.dlc /\ g.remote = m.remote /\ g.uref = f.uref
       /\ g.data = [i \in 1..8 |-> IF i <= m.dlc THEN block[i] ELSE junk]
    BY <1>15, <1>16
<1>18. \A i \in 1..8 : block[i] = f.data[i] /\ f.data[i] \in Byte
    BY <1>4, <1>11
<1> HIDE DEF block
<1>19. g.data \in [1..8 -> Byte]
    BY <1>17, <1>18
<1>20. \A i \in 1..Len(m.data) : g.data[i] = m.data[i]
    <2>1. \A i \in 1..Len(m.data) : i \in 1..8 /\ i <= m.dlc
        BY <1>1, SMT
    <2>2. QED  BY <1>4, <1>17, <1>18, <2>1
<1>21. QED
    BY <1>17, <1>19, <1>20 DEF FrameOf, CarriesData, g, b

\* An object in a chip's RAM that holds the frame; above the frame's fields, its
\* control word has the number n.
ObjectOf(m, o, n) ==
    /\ o.id = NativeId(m)
    /\ o.control = m.dlc + Flag(m.extended, 16) + Flag(m.remote, 32) + 512 * n
    /\ CarriesData(m, o.data)

\* Two frames that are the same to whoever is told of them.
SameFrame(w, m) ==
    /\ w.extended = m.extended /\ w.remote = m.remote /\ w.dlc = m.dlc
    /\ w.id = m.id /\ w.data = m.data

\* The object send_frame writes holds the frame.
LEMMA SentObject ==
    ASSUME NEW m, Legal(m), NEW f, FrameOf(m, f), NEW s \in 0..31
    PROVE  ObjectOf(m, TxObject(f, s), s)
<1> DEFINE o == TxObject(f, s)
<1>1. /\ m.extended \in BOOLEAN /\ m.remote \in BOOLEAN /\ m.dlc \in 0..15
      /\ m.id \in IdRange(m.extended) /\ m.id \in Nat
    BY LegalFields
<1>2. f.canid = MakeId(m.extended, m.id) /\ f.dlc = m.dlc /\ f.remote = m.remote /\ CarriesData(m, f.data)
    BY DEF FrameOf
<1>3. Cut(f.canid) = NativeId(m) /\ IsExtended(f.canid) = m.extended
    <2>1. Cut(MakeId(m.extended, m.id)) = NativeId(m)
        BY <1>1, ChipId
    <2>2. IsExtended(MakeId(m.extended, m.id)) = m.extended
        BY <1>1, IdWord
    <2>3. QED  BY <1>2, <2>1, <2>2
<1>4. /\ o.id = Cut(f.canid) /\ o.data = f.data
      /\ o.control = s * 512 + f.dlc + Flag(IsExtended(f.canid), 16) + Flag(f.remote, 32)
    BY DEF TxObject, Cut
<1> HIDE DEF o
<1>5. o.control = s * 512 + m.dlc + Flag(m.extended, 16) + Flag(m.remote, 32)
    BY <1>2, <1>3, <1>4
<1>6. Flag(m.extended, 16) \in Nat /\ Flag(m.remote, 32) \in Nat
    BY <1>1 DEF Flag
<1>7. o.control = m.dlc + Flag(m.extended, 16) + Flag(m.remote, 32) + 512 * s
    BY <1>1, <1>5, <1>6, SMT
<1>8. QED
    BY <1>2, <1>3, <1>4, <1>7 DEF ObjectOf, o

\* What a control word says of the frame.
LEMMA ControlOf ==
    ASSUME NEW m, Legal(m), NEW n \in Nat, NEW o, ObjectOf(m, o, n)
    PROVE  /\ o.control \in Nat /\ o.control % 16 = m.dlc
           /\ Bit(o.control, 16) = m.extended /\ Bit(o.control, 32) = m.remote
<1>1. /\ m.extended \in BOOLEAN /\ m.remote \in BOOLEAN /\ m.dlc \in 0..15
      /\ o.control = m.dlc + Flag(m.extended, 16) + Flag(m.remote, 32) + 512 * n
    BY LegalFields DEF ObjectOf
<1>2. ControlSays(o.control, m.dlc, m.extended, m.remote)
    BY <1>1, ControlFields
<1>3. QED  BY <1>2 DEF ControlSays

\* The chip sends the frame its object holds.
LEMMA FrameOnTheWire ==
    ASSUME NEW m, Legal(m), NEW n \in Nat, NEW o, ObjectOf(m, o, n)
    PROVE  SameFrame(WireFrame(o), m)
<1> DEFINE ide == Bit(o.control, 16)
           remote == Bit(o.control, 32)
           dlc == o.control % 16
           id == IF ide THEN ((o.id % 2048) * 262144) + (o.id \div 2048) ELSE o.id % 2048
           len == IF remote THEN 0 ELSE IF dlc > 8 THEN 8 ELSE dlc
           w == WireFrame(o)
<1>1. /\ m.extended \in BOOLEAN /\ m.id \in IdRange(m.extended) /\ Len(m.data) \in Nat /\ Len(m.data) <= 8
      /\ Len(m.data) = (IF m.remote THEN 0 ELSE IF m.dlc > 8 THEN 8 ELSE m.dlc) /\ m.data \in Data
    BY LegalFields
<1>2. dlc = m.dlc /\ ide = m.extended /\ remote = m.remote
    BY ControlOf
<1>3. /\ w.extended = ide /\ w.remote = remote /\ w.dlc = dlc /\ w.id = id
      /\ w.data = SubSeq(o.data, 1, len)
    <2>1. w = [extended |-> ide, remote |-> remote, dlc |-> dlc, id |-> id,
               data |-> SubSeq(o.data, 1, len)]
        BY SMT DEF WireFrame
    <2> HIDE DEF w, ide, remote, dlc, id, len
    <2>2. QED  BY <2>1
<1>4. id = m.id
    <2>1. id = IF m.extended THEN Join(Lower(o.id), Upper(o.id)) ELSE Lower(o.id)
        <3> HIDE DEF ide
        <3>1. QED  BY <1>2 DEF Join, Lower, Upper
    <2>2. o.id = NativeId(m)
        BY DEF ObjectOf
    <2>3. /\ ~m.extended => m.id = Lower(NativeId(m))
          /\ m.extended => m.id = Join(Lower(NativeId(m)), Upper(NativeId(m)))
        BY <1>1, ChipId
    <2> HIDE DEF id
    <2>4. QED  BY <2>1, <2>2, <2>3
<1>5. len = Len(m.data)
    <2> HIDE DEF remote, dlc
    <2>1. QED  BY <1>1, <1>2
<1> HIDE DEF w, ide, remote, dlc, id, len
<1>6. SubSeq(o.data, 1, len) = m.data
    <2>1. o.data \in Seq(Byte) /\ Len(o.data) = 8 /\ \A i \in 1..Len(m.data) : o.data[i] = m.data[i]
        BY AsSequence DEF ObjectOf, CarriesData
    <2>2. m.data \in Seq(Byte)
        BY <1>1, DataFields
    <2>3. /\ 0 \in Nat /\ 0 + Len(m.data) <= Len(o.data)
          /\ \A i \in 1..Len(m.data) : o.data[0 + i] = m.data[i]
        BY <1>1, <2>1, SMT
    <2>4. SubSeq(o.data, 0 + 1, 0 + Len(m.data)) = m.data
        BY <2>1, <2>2, <2>3, CutOut
    <2>5. 0 + 1 = 1 /\ 0 + Len(m.data) = Len(m.data)
        BY <1>1, SMT
    <2>6. QED  BY <1>5, <2>4, <2>5, Zenon
<1>7. QED
    BY <1>2, <1>3, <1>4, <1>6 DEF SameFrame, w

\* The object of the receiving chip holds the frame, whatever follows its data.
LEMMA ReceivedObject ==
    ASSUME NEW m, Legal(m), NEW w, SameFrame(w, m), NEW hit \in Nat, NEW stamp, NEW junk \in Byte
    PROVE  LET o == RxObject(w, hit, stamp, junk)
           IN ObjectOf(m, o, 4 * hit) /\ o.stamp = stamp
<1> DEFINE o == RxObject(w, hit, stamp, junk)
<1>1. /\ m.extended \in BOOLEAN /\ m.remote \in BOOLEAN /\ m.dlc \in 0..15 /\ m.data \in Data
    BY LegalFields
<1>2. NativeId(w) = NativeId(m)
    BY DEF NativeId, SameFrame
<1>3. /\ o.id = NativeId(w) /\ o.stamp = stamp /\ o.data = Padded(w.data, junk)
      /\ o.control = w.dlc + Flag(w.extended, 16) + Flag(w.remote, 32) + 2048 * hit
    BY DEF RxObject
<1> HIDE DEF o
<1>4. o.control = m.dlc + Flag(m.extended, 16) + Flag(m.remote, 32) + 2048 * hit
    BY <1>3 DEF SameFrame
<1>5. Flag(m.extended, 16) \in Nat /\ Flag(m.remote, 32) \in Nat
    BY <1>1 DEF Flag
<1>6. o.control = m.dlc + Flag(m.extended, 16) + Flag(m.remote, 32) + 512 * (4 * hit)
    BY <1>1, <1>4, <1>5, SMT
<1>7. CarriesData(m, o.data)
    BY <1>1, <1>3, PaddedCarries DEF CarriesData, SameFrame
<1>8. QED
    BY <1>2, <1>3, <1>6, <1>7 DEF ObjectOf, o

\* A receive event that tells of the frame.
EventOf(m, e) ==
    /\ e.type = "frame" /\ e.stamp \in Word /\ e.idFilter \in Byte
    /\ e.canid = MakeId(m.extended, m.id) /\ e.dlc = m.dlc /\ e.remote = m.remote
    /\ CarriesData(m, e.data)

\* rx_handler records the frame the object holds.
LEMMA RecordedEvent ==
    ASSUME NEW m, Legal(m), NEW n \in Nat, NEW o, ObjectOf(m, o, n), o.stamp \in Word
    PROVE  EventOf(m, RxEvent(o))
<1> DEFINE e == RxEvent(o)
<1>1. m.extended \in BOOLEAN /\ m.id \in IdRange(m.extended)
    BY LegalFields
<1>2. /\ o.control \in Nat /\ o.control % 16 = m.dlc
      /\ Bit(o.control, 16) = m.extended /\ Bit(o.control, 32) = m.remote
    BY ControlOf
<1>3. o.id = NativeId(m) /\ CarriesData(m, o.data)
    BY DEF ObjectOf
<1>4. Cut(NativeId(m)) = NativeId(m) /\ NativeId(m) + Flag(m.extended, ExtBit) = MakeId(m.extended, m.id)
    BY <1>1, ChipId
<1>5. /\ e.type = "frame" /\ e.stamp = o.stamp /\ e.data = o.data
      /\ e.canid = Cut(o.id) + Flag(Bit(o.control, 16), ExtBit)
      /\ e.dlc = o.control % 16 /\ e.remote = Bit(o.control, 32)
      /\ e.idFilter = (o.control \div 2048) % 32
    BY DEF RxEvent, Cut
<1>6. (o.control \div 2048) % 32 \in Byte
    <2> DEFINE k == o.control \div 2048
    <2>1. k \in Nat
        BY <1>2, SMT
    <2> HIDE DEF k
    <2>2. k % 32 \in Nat /\ k % 32 < 256
        BY <2>1, SMT
    <2>3. QED  BY <2>2 DEF Byte, k
<1> HIDE DEF e
<1>7. e.canid = MakeId(m.extended, m.id)
    BY <1>2, <1>3, <1>4, <1>5
<1>8. QED
    BY <1>2, <1>3, <1>5, <1>6, <1>7 DEF EventOf, e

\* Where the parts of a received frame's event are.
ToldAs(b, t, k, c, d) ==
    /\ b \in Seq(Byte) /\ Len(b) = 19
    /\ b[1] = t[1] /\ b[6] = k[1] /\ b[7] = k[2]
    /\ \A i \in 1..4 : b[7 + i] = c[i]
    /\ \A i \in 1..8 : b[11 + i] = d[i]

LEMMA ToldLayout ==
    ASSUME NEW b, NEW v, NEW t, NEW s, NEW k, NEW c, NEW d,
           JoinsThree(v, t, s, k, Byte), JoinsThree(b, v, c, d, Byte),
           Len(t) = 1, Len(s) = 4, Len(k) = 2, Len(c) = 4, Len(d) = 8
    PROVE  ToldAs(b, t, k, c, d)
<1>1. /\ Len(v) = 1 + 4 + 2
      /\ \A i \in 1..1 : v[i] = t[i]
      /\ \A i \in 1..2 : v[1 + 4 + i] = k[i]
    BY DEF JoinsThree
<1>2. /\ b \in Seq(Byte) /\ Len(b) = Len(v) + 4 + 8
      /\ \A i \in 1..Len(v) : b[i] = v[i]
      /\ \A i \in 1..4 : b[Len(v) + i] = c[i]
      /\ \A i \in 1..8 : b[Len(v) + 4 + i] = d[i]
    BY DEF JoinsThree
<1>3. Len(b) = 19 /\ b[1] = t[1] /\ b[6] = k[1] /\ b[7] = k[2]
    BY <1>1, <1>2, SMT
<1>4. \A i \in 1..4 : b[7 + i] = c[i]
    BY <1>1, <1>2, SMT
<1>5. \A i \in 1..8 : b[11 + i] = d[i]
    BY <1>1, <1>2, SMT
<1>6. QED
    BY <1>2, <1>3, <1>4, <1>5 DEF ToldAs

\* Where pop_rx_event_as_bytes writes the parts of an event.
LEMMA EventLayout ==
    ASSUME NEW m, Legal(m), NEW e, EventOf(m, e), NEW junk \in Byte
    PROVE  ToldAs(RxEventBytes(e, junk), <<1 + Flag(m.remote, 128)>>, <<m.dlc, e.idFilter>>,
                  BE4(e.canid), e.data)
<1> DEFINE t == <<1 + Flag(m.remote, 128)>>
           s == BE4(e.stamp)
           k == <<m.dlc, e.idFilter>>
           c == BE4(e.canid)
           v == (t \o s) \o k
           b == RxEventBytes(e, junk)
<1>1. /\ m.extended \in BOOLEAN /\ m.remote \in BOOLEAN /\ m.dlc \in 0..15 /\ m.id \in Nat
    BY LegalFields
<1>2. /\ e.type = "frame" /\ e.stamp \in Word /\ e.idFilter \in Byte
      /\ e.canid = MakeId(m.extended, m.id) /\ e.dlc = m.dlc /\ e.remote = m.remote
      /\ e.data \in [1..8 -> Byte]
    BY DEF EventOf, CarriesData
<1>3. b = (v \o c) \o e.data
    BY <1>2 DEF RxEventBytes
<1>4. t \in Seq(Byte) /\ Len(t) = 1 /\ k \in Seq(Byte) /\ Len(k) = 2
    <2>1. 1 + Flag(m.remote, 128) \in Byte /\ m.dlc \in Byte
        BY <1>1, SMT DEF Flag, Byte
    <2>2. QED  BY <1>2, <2>1, SMT
<1>5. s \in Seq(Byte) /\ Len(s) = 4
    BY <1>2, BytesOfWord
<1>6. c \in Seq(Byte) /\ Len(c) = 4
    <2>1. e.canid \in Word
        BY <1>1, <1>2, IdWord
    <2>2. QED  BY <2>1, BytesOfWord
<1>7. e.data \in Seq(Byte) /\ Len(e.data) = 8
    BY <1>2, AsSequence
<1> HIDE DEF t, s, k, c, b
<1>8. JoinsThree(v, t, s, k, Byte)
    <2>1. Joins(t \o s, t, s, Byte)
        BY <1>4, <1>5, TwoParts
    <2>2. t \o s \in Seq(Byte)
        BY <2>1 DEF Joins
    <2>3. Joins((t \o s) \o k, t \o s, k, Byte)
        BY <1>4, <2>2, TwoParts
    <2>4. QED  BY <2>1, <2>3, ThreeParts
<1> HIDE DEF v
<1>9. JoinsThree(b, v, c, e.data, Byte)
    <2>1. v \in Seq(Byte)
        BY <1>8 DEF JoinsThree
    <2>2. Joins(v \o c, v, c, Byte)
        BY <1>6, <2>1, TwoParts
    <2>3. v \o c \in Seq(Byte)
        BY <2>2 DEF Joins
    <2>4. Joins((v \o c) \o e.data, v \o c, e.data, Byte)
        BY <1>7, <2>3, TwoParts
    <2>5. Joins(b, v \o c, e.data, Byte)
        BY <1>3, <2>4
    <2>6. QED  BY <2>2, <2>5, ThreeParts
<1>10. ToldAs(b, t, k, c, e.data)
    BY <1>4, <1>5, <1>6, <1>7, <1>8, <1>9, ToldLayout
<1>11. QED
    BY <1>10 DEF t, k, c, b

\* The host finds the fields of a received frame where the board wrote them.
LEMMA ToldFrame ==
    ASSUME NEW m, Legal(m), NEW e, EventOf(m, e), NEW junk \in Byte
    PROVE  SameFrame(HostRxEvent(RxEventBytes(e, junk)), m)
<1> DEFINE b == RxEventBytes(e, junk)
           t == <<1 + Flag(m.remote, 128)>>
           k == <<m.dlc, e.idFilter>>
           c == BE4(e.canid)
           h == HostRxEvent(b)
           canid == FromBE4(b, 7)
           remote == b[1] \div 128 = 1
           last == IF b[6] > 8 THEN 19 ELSE 11 + b[6]
<1>1. /\ m.extended \in BOOLEAN /\ m.remote \in BOOLEAN /\ m.dlc \in 0..15
      /\ m.id \in IdRange(m.extended) /\ m.id \in Nat /\ m.data \in Data
      /\ Len(m.data) \in Nat /\ Len(m.data) <= 8
      /\ Len(m.data) = IF m.remote THEN 0 ELSE IF m.dlc > 8 THEN 8 ELSE m.dlc
    BY LegalFields
<1>2. t[1] = 1 + Flag(m.remote, 128) /\ k[1] = m.dlc
    OBVIOUS
<1>3. ToldAs(b, t, k, c, e.data)
    BY EventLayout
<1> HIDE DEF b, t, k, c
<1>4. /\ b \in Seq(Byte) /\ Len(b) = 19
      /\ b[1] = 1 + Flag(m.remote, 128) /\ b[6] = m.dlc
      /\ \A i \in 1..4 : b[7 + i] = c[i]
      /\ \A i \in 1..8 : b[11 + i] = e.data[i]
    BY <1>2, <1>3 DEF ToldAs
<1>5. e.canid = MakeId(m.extended, m.id) /\ \A i \in 1..Len(m.data) : e.data[i] = m.data[i]
    BY DEF EventOf, CarriesData
<1>6. canid = e.canid /\ IsExtended(e.canid) = m.extended /\ ArbitrationId(e.canid) = m.id
    <2>1. Reduced(m.extended, m.id) = m.id
        BY <1>1, RangeIsReduced
    <2>2. /\ MakeId(m.extended, m.id) \in Word
          /\ IsExtended(MakeId(m.extended, m.id)) = m.extended
          /\ ArbitrationId(MakeId(m.extended, m.id)) = Reduced(m.extended, m.id)
        BY <1>1, IdWord
    <2>3. e.canid \in Word /\ 7 \in Nat
        BY <1>5, <2>2
    <2>4. canid = e.canid
        BY <1>4, <2>3, ReadBE4 DEF c
    <2> HIDE DEF canid
    <2>5. QED  BY <1>5, <2>1, <2>2, <2>4, Zenon
<1>7. b[1] % 128 = 1 /\ remote = m.remote
    <2>1. b[1] = 1 + Flag(m.remote, 128)
        BY <1>4
    <2>2. QED  BY <1>1, <2>1, SMT DEF Flag
<1>8. /\ h.extended = Bit(canid, ExtBit) /\ h.remote = remote /\ h.dlc = b[6]
      /\ h.id = (IF Bit(canid, ExtBit) THEN (canid % 2048) * 262144 + ((canid \div 2048) % 262144)
                 ELSE canid % 2048)
    <2> HIDE DEF canid
    <2>1. QED  BY <1>7, SMT DEF HostRxEvent, canid
<1>9. h.data = IF remote THEN <<>> ELSE SubSeq(b, 12, last)
    <2> HIDE DEF last
    <2>1. QED  BY <1>7, SMT DEF HostRxEvent, last
<1> HIDE DEF h, canid, remote
<1>10. h.extended = m.extended /\ h.id = m.id
    <2>1. h.extended = IsExtended(canid) /\ h.id = ArbitrationId(canid)
        BY <1>8, SMT DEF IsExtended, ArbitrationId
    <2>2. QED  BY <1>6, <2>1, Zenon
<1>11. h.data = m.data
    <2>1. CASE m.remote
        <3>1. m.data \in Seq(Byte) /\ Len(m.data) = 0
            BY <1>1, <2>1, DataFields
        <3>2. m.data = <<>>
            BY <3>1, EmptySeq
        <3>3. QED  BY <1>7, <1>9, <2>1, <3>2
    <2>2. CASE ~m.remote
        <3>1. last = 11 + Len(m.data) /\ 11 + Len(m.data) <= Len(b)
            BY <1>1, <1>4, <2>2, SMT
        <3>2. \A i \in 1..Len(m.data) : b[11 + i] = m.data[i]
            <4>1. \A i \in 1..Len(m.data) : i \in 1..8
                BY <1>1, SMT
            <4>2. QED  BY <1>4, <1>5, <4>1
        <3>3. m.data \in Seq(Byte) /\ 11 \in Nat
            BY <1>1, DataFields
        <3>4. SubSeq(b, 11 + 1, 11 + Len(m.data)) = m.data
            BY <1>4, <3>1, <3>2, <3>3, CutOut
        <3>5. 11 + 1 = 12
            OBVIOUS
        <3> HIDE DEF last
        <3>6. QED  BY <1>7, <1>9, <2>2, <3>1, <3>4, <3>5, Zenon
    <2>3. QED  BY <2>1, <2>2
<1>12. h.remote = m.remote /\ h.dlc = m.dlc
    BY <1>4, <1>7, <1>8, SMT
<1>13. QED
    BY <1>10, <1>11, <1>12 DEF SameFrame, h, b

-----------------------------------------------------------------------------
(* The invariant: every form carries what was meant.                       *)

FromOutside == FromHost \/ (sent.from = "bus" /\ sent.what \in Foreign)

CodecInv ==
    /\ filters \in FilterLists
    /\ stage = "request" => FromHost /\ item = sent.what
    /\ stage \in {"packet", "malformed"} => FromHost /\ item = HostPack(sent.what)
    /\ stage = "malformed" => ~WellFormed(item)
    /\ stage = "frame" => FromHost /\ Legal(Meant) /\ FrameOf(Meant, item) /\ item.uref \in Word
    /\ stage = "queued" => FromHost /\ Legal(Meant) /\ \E s \in 0..31 : ObjectOf(Meant, item.object, s)
    /\ stage \in {"wire", "ignored"} => FromOutside /\ Legal(Meant) /\ SameFrame(item, Meant)
    /\ stage = "received" =>
          /\ FromOutside /\ Legal(Meant) /\ item.stamp \in Word
          /\ \E n \in Nat : ObjectOf(Meant, item, n)
    /\ stage = "rx event" /\ sent.from # "driver" => FromOutside /\ Legal(Meant) /\ EventOf(Meant, item)
    /\ stage = "rx bytes" /\ sent.from # "driver" =>
          /\ FromOutside /\ Legal(Meant)
          /\ \E e, junk : junk \in Byte /\ EventOf(Meant, e) /\ item = RxEventBytes(e, junk)
    /\ stage = "rx told" /\ sent.from # "driver" => SameFrame(item, Meant)

LEMMA CodecInit == Init => CodecInv
<1> SUFFICES ASSUME Init PROVE CodecInv
    OBVIOUS
<1>1. CASE \E r \in Requests : sent = [from |-> "host", what |-> r] /\ stage = "request" /\ item = r
    BY <1>1 DEF Init, CodecInv, FromHost
<1>2. CASE \E w \in Foreign : sent = [from |-> "bus", what |-> w] /\ stage = "wire" /\ item = w
    <2>1. sent.from = "bus" /\ sent.what \in Foreign /\ stage = "wire" /\ item = sent.what
        BY <1>2
    <2>2. Meant = item /\ Legal(item)
        BY <2>1, CodecAssumption DEF Meant
    <2>3. QED
        BY <2>1, <2>2 DEF Init, CodecInv, FromOutside, SameFrame
<1>3. CASE \E e \in Records, t \in Stamps :
             LET event == [type |-> e.type, first |-> e.first, second |-> e.second, stamp |-> t]
             IN sent = [from |-> "driver", what |-> event] /\ stage = "rx event" /\ item = event
    <2>1. PICK event : sent = [from |-> "driver", what |-> event] /\ stage = "rx event"
        BY <1>3
    <2>2. sent.from = "driver"
        BY <2>1
    <2>3. QED  BY <2>1, <2>2 DEF Init, CodecInv
<1>4. CASE \E n \in Overflows, t \in Stamps :
             LET event == [type |-> 2, info |-> n, stamp |-> t]
             IN sent = [from |-> "driver", what |-> event] /\ stage = "tx event" /\ item = event
    <2>1. PICK event : sent = [from |-> "driver", what |-> event] /\ stage = "tx event"
        BY <1>4
    <2>2. sent.from = "driver"
        BY <2>1
    <2>3. QED  BY <2>1, <2>2 DEF Init, CodecInv
<1>5. QED
    BY <1>1, <1>2, <1>3, <1>4 DEF Init

LEMMA CodecNext == CodecInv /\ [Next]_vars => CodecInv'
<1> SUFFICES ASSUME CodecInv, [Next]_vars PROVE CodecInv'
    OBVIOUS
<1> DEFINE Same == sent' = sent /\ filters' = filters
<1>1. ASSUME Same
      PROVE  /\ Meant' = Meant /\ (FromHost <=> FromHost') /\ (FromOutside <=> FromOutside')
             /\ filters' \in FilterLists
    <2>1. Meant' = Meant
        BY <1>1 DEF Meant
    <2>2. FromHost <=> FromHost'
        BY <1>1 DEF FromHost
    <2>3. FromOutside <=> FromOutside'
        BY <1>1, <2>2 DEF FromOutside
    <2>4. filters' \in FilterLists
        BY <1>1 DEF CodecInv
    <2>5. QED  BY <2>1, <2>2, <2>3, <2>4
<1>2. CASE Pack
    BY <1>1, <1>2 DEF Pack, Becomes, CodecInv
<1>3. CASE Unpack
    <2>1. PICK junk \in Junk : Becomes("packet", "frame", FrameOfPacket(item, junk))
        BY <1>3 DEF Unpack
    <2>2. FromHost /\ item = HostPack(sent.what) /\ WellFormed(item) /\ junk \in Byte
        BY <1>3, CodecAssumption DEF Unpack, CodecInv
    <2>3. Legal(Meant) /\ FrameOf(Meant, item') /\ item'.uref = MeantUref
        BY <2>1, <2>2, MeantIsLegal, UnpackedFrame DEF Becomes
    <2>4. MeantUref \in Word
        <3>1. 0 \in Word
            BY SMT DEF Word
        <3>2. QED  BY <2>2, <3>1, RequestFields DEF MeantUref, FromHost
    <2>5. QED
        BY <1>1, <2>1, <2>2, <2>3, <2>4 DEF Becomes, CodecInv, FrameOf
<1>4. CASE Reject
    BY <1>1, <1>4 DEF Reject, Becomes, CodecInv
<1>5. CASE StoreAndReload
    <2>1. PICK junk \in Junk : Becomes("frame", "frame", FrameOfBytes(BytesOfFrame(item, item.uref), junk))
        BY <1>5 DEF StoreAndReload
    <2>2. FromHost /\ Legal(Meant) /\ FrameOf(Meant, item) /\ item.uref \in Word /\ junk \in Byte
        BY <2>1, CodecAssumption DEF Becomes, CodecInv
    <2>3. FrameOf(Meant, item') /\ item'.uref \in Word
        BY <2>1, <2>2, ReloadedFrame DEF Becomes
    <2>4. QED
        BY <1>1, <2>1, <2>2, <2>3 DEF Becomes, CodecInv, FrameOf
<1>6. CASE Send
    <2>1. PICK s \in Slots :
             /\ stage = "frame" /\ stage' = "queued" /\ Same
             /\ item'.object = TxObject(item, s)
        BY <1>6 DEF Send, Becomes
    <2>2. FromHost /\ Legal(Meant) /\ FrameOf(Meant, item) /\ s \in 0..31
        BY <2>1, CodecAssumption DEF CodecInv
    <2>3. ObjectOf(Meant, item'.object, s)
        BY <2>1, <2>2, SentObject
    <2>4. QED
        BY <1>1, <2>1, <2>2, <2>3 DEF CodecInv, ObjectOf
<1>7. CASE Transmit
    <2>1. Becomes("queued", "wire", WireFrame(item.object))
        BY <1>7 DEF Transmit
    <2>2. PICK s \in 0..31 : FromHost /\ Legal(Meant) /\ ObjectOf(Meant, item.object, s)
        BY <2>1 DEF Becomes, CodecInv
    <2>3. SameFrame(item', Meant)
        BY <2>1, <2>2, FrameOnTheWire, SMT DEF Becomes
    <2>4. FromHost
        BY <2>2
    <2>5. FromOutside
        BY <2>4 DEF FromOutside
    <2>6. QED
        BY <1>1, <2>1, <2>2, <2>3, <2>5 DEF Becomes, CodecInv, SameFrame
<1>8. CASE Confirm
    BY <1>1, <1>8 DEF Confirm, Becomes, CodecInv
<1>9. CASE Receive
    <2>1. PICK hit \in Hits(item), t \in Stamps, junk \in Junk :
             Becomes("wire", "received", RxObject(item, hit, t, junk))
        BY <1>9 DEF Receive
    <2>2. hit \in Nat
        <3>1. Len(filters) \in 0..32
            BY CodecAssumption DEF CodecInv
        <3>2. Len(LoadedFilters) \in Nat
            BY <3>1, SMT DEF LoadedFilters
        <3>3. QED  BY <3>2, SMT DEF Hits
    <2>3. FromOutside /\ Legal(Meant) /\ SameFrame(item, Meant) /\ t \in Word /\ junk \in Byte
        BY <2>1, CodecAssumption DEF Becomes, CodecInv
    <2>4. ObjectOf(Meant, item', 4 * hit) /\ item'.stamp = t
        BY <2>1, <2>2, <2>3, ReceivedObject DEF Becomes
    <2>5. 4 * hit \in Nat
        BY <2>2, SMT
    <2>6. QED
        BY <1>1, <2>1, <2>3, <2>4, <2>5 DEF Becomes, CodecInv, ObjectOf
<1>10. CASE Ignore
    BY <1>1, <1>10 DEF Ignore, Becomes, CodecInv
<1>11. CASE Record
    <2>1. Becomes("received", "rx event", RxEvent(item))
        BY <1>11 DEF Record
    <2>2. PICK n \in Nat : FromOutside /\ Legal(Meant) /\ item.stamp \in Word /\ ObjectOf(Meant, item, n)
        BY <2>1 DEF Becomes, CodecInv
    <2>3. EventOf(Meant, item')
        BY <2>1, <2>2, RecordedEvent DEF Becomes
    <2>4. QED
        BY <1>1, <2>1, <2>2, <2>3 DEF Becomes, CodecInv, EventOf
<1>12. CASE PopRx
    <2>1. PICK junk \in Junk : Becomes("rx event", "rx bytes", RxEventBytes(item, junk))
        BY <1>12 DEF PopRx
    <2>2. junk \in Byte
        BY CodecAssumption
    <2>3. sent.from # "driver" => FromOutside /\ Legal(Meant) /\ EventOf(Meant, item)
        BY <2>1 DEF Becomes, CodecInv
    <2>4. QED
        BY <1>1, <2>1, <2>2, <2>3 DEF Becomes, CodecInv
<1>13. CASE PopTx
    BY <1>1, <1>13 DEF PopTx, Becomes, CodecInv
<1>14. CASE DecodeRx
    <2>1. Becomes("rx bytes", "rx told", HostRxEvent(item))
        BY <1>14 DEF DecodeRx
    <2>2. CASE sent.from = "driver"
        BY <1>1, <2>1, <2>2 DEF Becomes, CodecInv
    <2>3. CASE sent.from # "driver"
        <3>1. PICK e, junk : Legal(Meant) /\ junk \in Byte /\ EventOf(Meant, e) /\ item = RxEventBytes(e, junk)
            BY <2>1, <2>3 DEF Becomes, CodecInv
        <3>2. SameFrame(item', Meant)
            BY <2>1, <3>1, ToldFrame DEF Becomes
        <3>3. QED
            BY <1>1, <2>1, <2>3, <3>2 DEF Becomes, CodecInv, SameFrame
    <2>4. QED  BY <2>2, <2>3
<1>15. CASE DecodeTx
    BY <1>1, <1>15 DEF DecodeTx, Becomes, CodecInv
<1>16. CASE UNCHANGED vars
    BY <1>1, <1>16 DEF vars, CodecInv
<1>17. QED
    BY <1>2, <1>3, <1>4, <1>5, <1>6, <1>7, <1>8, <1>9, <1>10, <1>11, <1>12, <1>13, <1>14, <1>15, <1>16
    DEF Next

\* Whatever the ID, the payload, the filters and the unwritten memory, a frame is
\* told to the host as it was meant, and only a remote one with a DLC above 8 is
\* refused.
THEOREM FrameAlwaysArrives == Spec => []FrameArrives
<1>1. CodecInv => FrameArrives
    <2> SUFFICES ASSUME CodecInv PROVE FrameArrives
        OBVIOUS
    <2>1. ASSUME stage = "malformed" PROVE sent.what.remote /\ sent.what.dlc > 8
        <3> DEFINE r == sent.what
                   p == HostPack(r)
        <3>1. r \in Requests /\ ~WellFormed(p)
            BY <2>1 DEF CodecInv, FromHost
        <3>2. Len(p.rest) = DataIdx(p) + Len(r.data) /\ DataIdx(p) \in Nat
            BY <3>1, PacketLayout
        <3>3. /\ r.remote \in BOOLEAN /\ r.dlc \in Byte /\ r.data \in Data /\ (r.remote => r.data = <<>>)
            BY <3>1, RequestFields
        <3>4. Len(r.data) \in Nat /\ Len(r.data) <= 8 /\ (r.remote => Len(r.data) = 0)
            BY <3>3, DataFields, EmptySeq
        <3>5. p.remote = r.remote /\ p.dlc = IF r.remote THEN r.dlc ELSE Len(r.data)
            BY SMT DEF HostPack
        <3> HIDE DEF p
        <3>6. p.dlc > 8 \/ Len(p.rest) # DataIdx(p) + (IF p.remote THEN 0 ELSE p.dlc)
            <4>1. ~(p.dlc <= 8 /\ Len(p.rest) = DataIdx(p) + (IF p.remote THEN 0 ELSE p.dlc))
                BY <3>1 DEF WellFormed
            <4>2. p.dlc \in Nat
                BY <3>3, <3>4, <3>5 DEF Byte
            <4> HIDE DEF p
            <4>3. QED  BY <4>1, <4>2, SMT
        <3> HIDE DEF p, r
        <3>7. QED
            <4>1. CASE r.remote
                <5>1. p.dlc = r.dlc /\ Len(p.rest) = DataIdx(p) + 0 /\ p.remote
                    BY <3>2, <3>4, <3>5, <4>1
                <5>2. p.dlc > 8
                    BY <3>2, <3>6, <5>1
                <5>3. QED  BY <4>1, <5>1, <5>2 DEF r
            <4>2. CASE ~r.remote
                <5>1. p.dlc = Len(r.data) /\ ~p.remote
                    BY <3>5, <4>2
                <5>2. ~(Len(r.data) > 8)
                    BY <3>4, SMT
                <5>3. QED  BY <3>2, <3>6, <5>1, <5>2
            <4>3. QED  BY <4>1, <4>2
    <2>2. ASSUME stage = "rx told", sent.from # "driver", NEW field \in {"extended", "remote", "id", "dlc", "data"}
          PROVE  item[field] = Meant[field]
        BY <2>2 DEF CodecInv, SameFrame
    <2>3. QED
        BY <2>1, <2>2 DEF FrameArrives
<1>2. QED
    BY <1>1, CodecInit, CodecNext, PTL DEF Spec

-----------------------------------------------------------------------------
(* Events that are no frames.                                              *)

\* Junk behind a record is a sequence of bytes, too.
LEMMA JunkBytes ==
    ASSUME NEW junk \in Byte
    PROVE  /\ [i \in 1..4 |-> junk] \in Seq(Byte) /\ [i \in 1..8 |-> junk] \in Seq(Byte)
           /\ <<junk, junk>> \in Seq(Byte) /\ Len(<<junk, junk>>) = 2
<1>1. 4 \in Nat /\ 8 \in Nat /\ [i \in 1..4 |-> junk] \in [1..4 -> Byte] /\ [i \in 1..8 |-> junk] \in [1..8 -> Byte]
    OBVIOUS
<1>2. [i \in 1..4 |-> junk] \in Seq(Byte) /\ [i \in 1..8 |-> junk] \in Seq(Byte)
    BY <1>1, SeqDef
<1>3. <<junk, junk>> \in Seq(Byte) /\ Len(<<junk, junk>>) = 2
    BY SMT
<1>4. QED  BY <1>2, <1>3

\* The bytes every record begins with: its type, its stamp and two without a meaning.
BeginsWith(v, type, stamp) ==
    /\ v \in Seq(Byte) /\ Len(v) = 7 /\ v[1] = type
    /\ \A i \in 1..4 : v[1 + i] = BE4(stamp)[i]

LEMMA RecordHead ==
    ASSUME NEW type \in Byte, NEW stamp \in Word, NEW junk \in Byte
    PROVE  BeginsWith((<<type>> \o BE4(stamp)) \o <<junk, junk>>, type, stamp)
<1> DEFINE t == <<type>>
           s == BE4(stamp)
           k == <<junk, junk>>
           v == (t \o s) \o k
<1>1. t \in Seq(Byte) /\ Len(t) = 1 /\ t[1] = type
    BY SMT
<1>2. s \in Seq(Byte) /\ Len(s) = 4 /\ k \in Seq(Byte) /\ Len(k) = 2
    BY BytesOfWord, JunkBytes
<1> HIDE DEF t, s, k
<1>3. Joins(t \o s, t, s, Byte)
    BY <1>1, <1>2, TwoParts
<1>4. t \o s \in Seq(Byte)
    BY <1>3 DEF Joins
<1>5. Joins((t \o s) \o k, t \o s, k, Byte)
    BY <1>2, <1>4, TwoParts
<1>6. JoinsThree(v, t, s, k, Byte)
    BY <1>3, <1>5, ThreeParts
<1> HIDE DEF v
<1>7. /\ v \in Seq(Byte) /\ Len(v) = 1 + 4 + 2
      /\ \A i \in 1..1 : v[i] = t[i]
      /\ \A i \in 1..4 : v[1 + i] = s[i]
    BY <1>1, <1>2, <1>6 DEF JoinsThree
<1>8. v[1] = type /\ Len(v) = 7
    BY <1>1, <1>7, SMT
<1>9. BeginsWith(v, type, stamp)
    BY <1>7, <1>8 DEF BeginsWith, s
<1>10. QED
    BY <1>9 DEF v, t, s, k

\* What the host finds at the places it reads.
Says(b, type, stamp, first) ==
    b[1] = type /\ FromBE4(b, 1) = stamp /\ FromBE4(b, 7) = first

Follows(b, z) == \A i \in 1..Len(z) : b[11 + i] = z[i]

LEMMA SaysOf ==
    ASSUME NEW b, NEW v, NEW z, NEW type \in Byte, NEW stamp \in Word, NEW first \in Word,
           BeginsWith(v, type, stamp), JoinsThree(b, v, BE4(first), z, Byte)
    PROVE  Says(b, type, stamp, first) /\ Follows(b, z)
<1>1. Len(v) = 7 /\ v[1] = type /\ \A i \in 1..4 : v[1 + i] = BE4(stamp)[i]
    BY DEF BeginsWith
<1>2. Len(BE4(first)) = 4
    BY BytesOfWord
<1>3. /\ \A i \in 1..7 : b[i] = v[i]
      /\ \A i \in 1..4 : b[7 + i] = BE4(first)[i]
      /\ \A i \in 1..Len(z) : b[7 + 4 + i] = z[i]
      /\ Len(z) \in Nat
    BY <1>1, <1>2 DEF JoinsThree
<1>4. b[1] = type
    BY <1>1, <1>3, SMT
<1>5. \A i \in 1..4 : b[1 + i] = BE4(stamp)[i]
    <2>1. \A i \in 1..4 : 1 + i \in 1..7
        BY SMT
    <2>2. QED  BY <1>1, <1>3, <2>1
<1>6. \A i \in 1..Len(z) : b[11 + i] = z[i]
    <2>1. \A i \in 1..Len(z) : 7 + 4 + i = 11 + i
        BY SMT
    <2>2. QED  BY <1>3, <2>1, Zenon
<1>7. 1 \in Nat /\ 7 \in Nat
    OBVIOUS
<1>8. FromBE4(b, 1) = stamp /\ FromBE4(b, 7) = first
    BY <1>3, <1>5, <1>7, ReadBE4
<1>9. QED
    BY <1>4, <1>6, <1>8 DEF Says, Follows

\* The records of an overflow and of an error.
IsRecord(e) == e \in [type : {"overflow", "error"}, first : Word, second : Word, stamp : Word]

LEMMA ToldOverflow ==
    ASSUME NEW e, IsRecord(e), e.type = "overflow", NEW junk \in Byte
    PROVE  HostRxEvent(RxEventBytes(e, junk))
             = [type |-> "overflow", stamp |-> e.stamp, first |-> e.first, second |-> e.second]
<1> DEFINE v == (<<2>> \o BE4(e.stamp)) \o <<junk, junk>>
           f == BE4(e.first)
           g == BE4(e.second)
           z == [i \in 1..4 |-> junk]
           b == RxEventBytes(e, junk)
<1>1. e.first \in Word /\ e.second \in Word /\ e.stamp \in Word
    BY DEF IsRecord
<1>2. b = ((v \o f) \o g) \o z
    BY DEF RxEventBytes
<1>3. 2 \in Byte
    BY SMT DEF Byte
<1>4. BeginsWith(v, 2, e.stamp)
    BY <1>1, <1>3, RecordHead
<1>5. /\ f \in Seq(Byte) /\ Len(f) = 4 /\ g \in Seq(Byte) /\ Len(g) = 4 /\ z \in Seq(Byte)
    BY <1>1, BytesOfWord, JunkBytes
<1>6. v \in Seq(Byte) /\ Len(v) = 7
    BY <1>4 DEF BeginsWith
<1> HIDE DEF v, z, b
<1> DEFINE w == (v \o f) \o g
<1>7. JoinsThree(w, v, f, g, Byte)
    <2> HIDE DEF f, g
    <2>1. Joins(v \o f, v, f, Byte)
        BY <1>5, <1>6, TwoParts
    <2>2. v \o f \in Seq(Byte)
        BY <2>1 DEF Joins
    <2>3. Joins((v \o f) \o g, v \o f, g, Byte)
        BY <1>5, <2>2, TwoParts
    <2>4. QED  BY <2>1, <2>3, ThreeParts
<1>8. b = w \o z
    BY <1>2
<1> HIDE DEF w
<1>9. Says(w, 2, e.stamp, e.first) /\ \A i \in 1..Len(g) : w[11 + i] = g[i]
    <2>1. Says(w, 2, e.stamp, e.first) /\ Follows(w, g)
        BY <1>1, <1>3, <1>4, <1>7, SaysOf
    <2>2. QED  BY <2>1 DEF Follows
<1>10. Len(w) = 7 + 4 + 4 /\ w \in Seq(Byte)
    BY <1>5, <1>6, <1>7 DEF JoinsThree
<1>11. \A i \in 1..15 : b[i] = w[i]
    <2>1. Joins(w \o z, w, z, Byte)
        BY <1>5, <1>10, TwoParts
    <2>2. \A i \in 1..Len(w) : b[i] = w[i]
        BY <1>8, <2>1 DEF Joins
    <2>3. Len(w) = 15
        BY <1>10, SMT
    <2>4. QED  BY <2>2, <2>3
<1>12. Says(b, 2, e.stamp, e.first)
    <2>1. b[1] = w[1] /\ FromBE4(b, 1) = FromBE4(w, 1) /\ FromBE4(b, 7) = FromBE4(w, 7)
        BY <1>11, SMT DEF FromBE4
    <2>2. QED  BY <1>9, <2>1, Zenon DEF Says
<1>13. FromBE4(b, 11) = e.second
    <2>1. \A i \in 1..4 : 11 + i \in 1..15 /\ 11 \in Nat
        BY SMT
    <2>2. \A i \in 1..4 : b[11 + i] = BE4(e.second)[i]
        BY <1>5, <1>9, <1>11, <2>1 DEF g
    <2>3. 11 \in Nat
        OBVIOUS
    <2>4. QED  BY <1>1, <2>2, <2>3, ReadBE4
<1>14. HostRxEvent(b) = [type |-> "overflow", stamp |-> e.stamp, first |-> e.first, second |-> e.second]
    <2>1. b[1] % 128 = 2
        <3>1. b[1] = 2
            BY <1>12 DEF Says
        <3>2. QED  BY <3>1, SMT
    <2>2. FromBE4(b, 1) = e.stamp /\ FromBE4(b, 7) = e.first
        BY <1>12 DEF Says
    <2>3. QED  BY <1>13, <2>1, <2>2, SMT DEF HostRxEvent
<1>15. QED
    BY <1>14 DEF b

LEMMA ToldError ==
    ASSUME NEW e, IsRecord(e), e.type = "error", NEW junk \in Byte
    PROVE  HostRxEvent(RxEventBytes(e, junk)) = [type |-> "error", stamp |-> e.stamp, first |-> e.first]
<1> DEFINE v == (<<3>> \o BE4(e.stamp)) \o <<junk, junk>>
           f == BE4(e.first)
           z == [i \in 1..8 |-> junk]
           b == RxEventBytes(e, junk)
<1>1. e.first \in Word /\ e.stamp \in Word
    BY DEF IsRecord
<1>2. b = (v \o f) \o z
    BY DEF RxEventBytes
<1>3. 3 \in Byte
    BY SMT DEF Byte
<1>4. BeginsWith(v, 3, e.stamp)
    BY <1>1, <1>3, RecordHead
<1>5. f \in Seq(Byte) /\ z \in Seq(Byte)
    BY <1>1, BytesOfWord, JunkBytes
<1>6. v \in Seq(Byte)
    BY <1>4 DEF BeginsWith
<1> HIDE DEF v, z, b
<1>7. JoinsThree(b, v, f, z, Byte)
    <2> HIDE DEF f
    <2>1. Joins(v \o f, v, f, Byte)
        BY <1>5, <1>6, TwoParts
    <2>2. v \o f \in Seq(Byte)
        BY <2>1 DEF Joins
    <2>3. Joins((v \o f) \o z, v \o f, z, Byte)
        BY <1>5, <2>2, TwoParts
    <2>4. QED  BY <1>2, <2>1, <2>3, ThreeParts
<1>8. Says(b, 3, e.stamp, e.first)
    BY <1>1, <1>3, <1>4, <1>7, SaysOf
<1>9. HostRxEvent(b) = [type |-> "error", stamp |-> e.stamp, first |-> e.first]
    <2>1. b[1] % 128 = 3
        <3>1. b[1] = 3
            BY <1>8 DEF Says
        <3>2. QED  BY <3>1, SMT
    <2>2. FromBE4(b, 1) = e.stamp /\ FromBE4(b, 7) = e.first
        BY <1>8 DEF Says
    <2>3. QED  BY <2>1, <2>2, SMT DEF HostRxEvent
<1>10. QED
    BY <1>9 DEF b

\* A transmit event reaches the host whole.
LEMMA ToldTxEvent ==
    ASSUME NEW e \in [type : Byte, info : Word, stamp : Word]
    PROVE  HostTxEvent(TxEventBytes(e)) = e
<1> DEFINE t == <<e.type>>
           i4 == BE4(e.info)
           s4 == BE4(e.stamp)
           b == TxEventBytes(e)
<1>1. e.type \in Byte /\ e.info \in Word /\ e.stamp \in Word
    OBVIOUS
<1>2. t \in Seq(Byte) /\ Len(t) = 1 /\ t[1] = e.type
    BY SMT
<1>3. i4 \in Seq(Byte) /\ Len(i4) = 4 /\ s4 \in Seq(Byte) /\ Len(s4) = 4
    BY <1>1, BytesOfWord
<1>4. b = (t \o i4) \o s4
    BY DEF TxEventBytes
<1> HIDE DEF t, i4, s4, b
<1>5. JoinsThree(b, t, i4, s4, Byte)
    <2>1. Joins(t \o i4, t, i4, Byte)
        BY <1>2, <1>3, TwoParts
    <2>2. t \o i4 \in Seq(Byte)
        BY <2>1 DEF Joins
    <2>3. Joins((t \o i4) \o s4, t \o i4, s4, Byte)
        BY <1>3, <2>2, TwoParts
    <2>4. QED  BY <1>4, <2>1, <2>3, ThreeParts
<1>6. /\ \A i \in 1..1 : b[i] = t[i]
      /\ \A i \in 1..4 : b[1 + i] = i4[i]
      /\ \A i \in 1..4 : b[1 + 4 + i] = s4[i]
    BY <1>2, <1>3, <1>5 DEF JoinsThree
<1>7. b[1] = e.type
    BY <1>2, <1>6, SMT
<1>8. \A i \in 1..4 : b[5 + i] = s4[i]
    BY <1>6, SMT
<1>9. FromBE4(b, 1) = e.info /\ FromBE4(b, 5) = e.stamp
    <2>1. 1 \in Nat /\ 5 \in Nat
        OBVIOUS
    <2>2. QED  BY <1>1, <1>6, <1>8, <2>1, ReadBE4 DEF i4, s4
<1>10. HostTxEvent(b) = [type |-> e.type, info |-> e.info, stamp |-> e.stamp]
    BY <1>7, <1>9 DEF HostTxEvent
<1>11. e = [type |-> e.type, info |-> e.info, stamp |-> e.stamp]
    OBVIOUS
<1>12. QED
    BY <1>10, <1>11 DEF b

\* The chip's transmit event names the slot the frame was written to.
LEMMA SeqOfSlot ==
    ASSUME NEW m, Legal(m), NEW f, FrameOf(m, f), NEW s \in 0..31
    PROVE  SeqOf(TxObject(f, s)) = s
<1> DEFINE o == TxObject(f, s)
<1>1. m.extended \in BOOLEAN /\ m.remote \in BOOLEAN /\ m.dlc \in 0..15
    BY LegalFields
<1>2. o.control = m.dlc + Flag(m.extended, 16) + Flag(m.remote, 32) + 512 * s
    BY SentObject DEF ObjectOf
<1> HIDE DEF o
<1>3. o.control \div 512 = s
    BY <1>1, <1>2, SMT DEF Flag
<1>4. s % 256 = s
    BY SMT
<1>5. QED
    BY <1>3, <1>4 DEF SeqOf, o

-----------------------------------------------------------------------------
(* The invariant for events: what was recorded is what is carried.         *)

TxTells(e) ==
    /\ e \in [type : Byte, info : Word, stamp : Word]
    /\ sent.from = "host" => e.type = 0 /\ e.info = MeantUref
    /\ sent.from = "driver" => e = sent.what

RxRecords(e) == IsRecord(e) /\ e = sent.what

EventInv ==
    /\ stage # "bad seq"
    /\ stage = "frame" => item.uref = MeantUref
    /\ stage = "queued" => \E s \in 0..31 : SeqOf(item.object) = s /\ item.urefs[s] = MeantUref
    /\ stage \in {"tx event", "tx told"} => TxTells(item)
    /\ stage = "tx bytes" => \E e : TxTells(e) /\ item = TxEventBytes(e)
    /\ stage = "rx event" /\ sent.from = "driver" => RxRecords(item)
    /\ stage = "rx bytes" /\ sent.from = "driver" =>
          \E e, junk : RxRecords(e) /\ junk \in Byte /\ item = RxEventBytes(e, junk)
    /\ stage = "rx told" /\ sent.from = "driver" =>
          \A field \in DOMAIN item : item[field] = sent.what[field]

LEMMA EventInit == Init => EventInv
<1> SUFFICES ASSUME Init PROVE EventInv
    OBVIOUS
<1>1. CASE \E r \in Requests : sent = [from |-> "host", what |-> r] /\ stage = "request" /\ item = r
    BY <1>1 DEF EventInv
<1>2. CASE \E w \in Foreign : sent = [from |-> "bus", what |-> w] /\ stage = "wire" /\ item = w
    BY <1>2 DEF EventInv
<1>3. CASE \E e \in Records, t \in Stamps :
             LET event == [type |-> e.type, first |-> e.first, second |-> e.second, stamp |-> t]
             IN sent = [from |-> "driver", what |-> event] /\ stage = "rx event" /\ item = event
    <2>1. PICK e \in Records, t \in Stamps :
             /\ sent = [from |-> "driver", what |-> [type |-> e.type, first |-> e.first,
                                                     second |-> e.second, stamp |-> t]]
             /\ stage = "rx event"
             /\ item = [type |-> e.type, first |-> e.first, second |-> e.second, stamp |-> t]
        BY <1>3
    <2>2. e.type \in {"overflow", "error"} /\ e.first \in Word /\ e.second \in Word /\ t \in Word
        BY CodecAssumption
    <2>3. RxRecords(item)
        BY <2>1, <2>2 DEF RxRecords, IsRecord
    <2>4. QED  BY <2>1, <2>3 DEF EventInv
<1>4. CASE \E n \in Overflows, t \in Stamps :
             LET event == [type |-> 2, info |-> n, stamp |-> t]
             IN sent = [from |-> "driver", what |-> event] /\ stage = "tx event" /\ item = event
    <2>1. PICK n \in Overflows, t \in Stamps :
             /\ sent = [from |-> "driver", what |-> [type |-> 2, info |-> n, stamp |-> t]]
             /\ stage = "tx event" /\ item = [type |-> 2, info |-> n, stamp |-> t]
        BY <1>4
    <2>2. 2 \in Byte
        BY SMT DEF Byte
    <2>3. n \in Word /\ t \in Word
        BY CodecAssumption
    <2>4. TxTells(item)
        BY <2>1, <2>2, <2>3 DEF TxTells
    <2>5. QED  BY <2>1, <2>4 DEF EventInv
<1>5. QED
    BY <1>1, <1>2, <1>3, <1>4 DEF Init

LEMMA EventNext == CodecInv /\ EventInv /\ [Next]_vars => EventInv'
<1> SUFFICES ASSUME CodecInv, EventInv, [Next]_vars PROVE EventInv'
    OBVIOUS
<1> DEFINE Same == sent' = sent /\ filters' = filters
<1>1. ASSUME Same, NEW e
      PROVE  /\ MeantUref' = MeantUref
             /\ TxTells(e)' <=> TxTells(e)
             /\ RxRecords(e)' <=> RxRecords(e)
    BY <1>1 DEF MeantUref, TxTells, RxRecords
<1>2. CASE Pack
    BY <1>2 DEF Pack, Becomes, EventInv
<1>3. CASE Unpack
    <2>1. PICK junk \in Junk : Becomes("packet", "frame", FrameOfPacket(item, junk))
        BY <1>3 DEF Unpack
    <2>2. FromHost /\ item = HostPack(sent.what) /\ WellFormed(item) /\ junk \in Byte
        BY <1>3, CodecAssumption DEF Unpack, CodecInv
    <2>3. item'.uref = MeantUref
        BY <2>1, <2>2, UnpackedFrame DEF Becomes
    <2>4. QED
        BY <1>1, <2>1, <2>3 DEF Becomes, EventInv
<1>4. CASE Reject
    BY <1>4 DEF Reject, Becomes, EventInv
<1>5. CASE StoreAndReload
    <2>1. PICK junk \in Junk : Becomes("frame", "frame", FrameOfBytes(BytesOfFrame(item, item.uref), junk))
        BY <1>5 DEF StoreAndReload
    <2>2. /\ Legal(Meant) /\ FrameOf(Meant, item) /\ item.uref \in Word /\ junk \in Byte
          /\ item.uref = MeantUref
        BY <2>1, CodecAssumption DEF Becomes, CodecInv, EventInv
    <2>3. item'.uref = MeantUref
        BY <2>1, <2>2, ReloadedFrame DEF Becomes
    <2>4. QED
        BY <1>1, <2>1, <2>3 DEF Becomes, EventInv
<1>6. CASE Send
    <2>1. PICK s \in Slots :
             /\ stage = "frame" /\ stage' = "queued" /\ Same
             /\ item' = [object |-> TxObject(item, s),
                         urefs |-> [n \in 0..31 |-> IF n = s THEN item.uref ELSE item.uref + 1]]
        BY <1>6 DEF Send, Becomes
    <2>2. Legal(Meant) /\ FrameOf(Meant, item) /\ s \in 0..31 /\ item.uref = MeantUref
        BY <2>1, CodecAssumption DEF CodecInv, EventInv
    <2>3. SeqOf(TxObject(item, s)) = s
        BY <2>2, SeqOfSlot
    <2>4. SeqOf(item'.object) = s /\ item'.urefs[s] = MeantUref
        BY <2>1, <2>2, <2>3
    <2>5. QED
        BY <1>1, <2>1, <2>2, <2>4 DEF EventInv
<1>7. CASE Transmit
    BY <1>7 DEF Transmit, Becomes, EventInv
<1>8. CASE Confirm
    <2>1. PICK s \in 0..31 : SeqOf(item.object) = s /\ item.urefs[s] = MeantUref
        BY <1>8 DEF Confirm, EventInv
    <2>2. PICK t \in Stamps : Becomes("queued", "tx event", [type |-> 0, info |-> MeantUref, stamp |-> t])
        BY <1>8, <2>1 DEF Confirm
    <2>3. FromHost /\ sent.from = "host"
        BY <1>8 DEF Confirm, CodecInv, FromHost
    <2>4. MeantUref \in Word
        <3>1. 0 \in Word
            BY SMT DEF Word
        <3>2. QED  BY <2>3, <3>1, RequestFields DEF MeantUref, FromHost
    <2>5. t \in Word
        BY CodecAssumption
    <2>6. 0 \in Byte
        BY SMT DEF Byte
    <2>7. item' = [type |-> 0, info |-> MeantUref, stamp |-> t] /\ stage' = "tx event" /\ Same
        BY <2>2 DEF Becomes
    <2> DEFINE e == [type |-> 0, info |-> MeantUref, stamp |-> t]
    <2>8. TxTells(e)
        BY <2>3, <2>4, <2>5, <2>6 DEF TxTells
    <2> HIDE DEF e
    <2>9. QED
        BY <1>1, <2>7, <2>8 DEF EventInv, e
<1>9. CASE Receive
    BY <1>9 DEF Receive, Becomes, EventInv
<1>10. CASE Ignore
    BY <1>10 DEF Ignore, Becomes, EventInv
<1>11. CASE Record
    <2>1. stage = "received" /\ stage' = "rx event" /\ Same
        BY <1>11 DEF Record, Becomes
    <2>2. sent.from # "driver"
        BY <2>1 DEF CodecInv, FromOutside, FromHost
    <2>3. QED
        BY <2>1, <2>2 DEF EventInv
<1>12. CASE PopRx
    <2>1. PICK junk \in Junk : Becomes("rx event", "rx bytes", RxEventBytes(item, junk))
        BY <1>12 DEF PopRx
    <2>2. junk \in Byte
        BY CodecAssumption
    <2>3. sent.from = "driver" => RxRecords(item)
        BY <2>1 DEF Becomes, EventInv
    <2>4. stage' = "rx bytes" /\ item' = RxEventBytes(item, junk) /\ Same
        BY <2>1 DEF Becomes
    <2>5. sent'.from = "driver" => \E e, j : RxRecords(e)' /\ j \in Byte /\ item' = RxEventBytes(e, j)
        BY <1>1, <2>2, <2>3, <2>4 DEF RxRecords
    <2>6. QED
        BY <2>4, <2>5 DEF EventInv
<1>13. CASE PopTx
    <2>1. stage = "tx event" /\ stage' = "tx bytes" /\ item' = TxEventBytes(item) /\ Same
        BY <1>13 DEF PopTx, Becomes
    <2>2. TxTells(item)
        BY <2>1 DEF EventInv
    <2>3. \E e : TxTells(e)' /\ item' = TxEventBytes(e)
        BY <1>1, <2>1, <2>2
    <2>4. QED
        BY <2>1, <2>3 DEF EventInv
<1>14. CASE DecodeRx
    <2>1. stage = "rx bytes" /\ stage' = "rx told" /\ item' = HostRxEvent(item) /\ Same
        BY <1>14 DEF DecodeRx, Becomes
    <2>2. ASSUME sent.from = "driver", NEW field \in DOMAIN item' PROVE item'[field] = sent.what[field]
        <3>1. PICK e, junk : RxRecords(e) /\ junk \in Byte /\ item = RxEventBytes(e, junk)
            BY <2>1, <2>2 DEF EventInv
        <3>2. IsRecord(e) /\ e = sent.what /\ e.type \in {"overflow", "error"}
            BY <3>1 DEF RxRecords, IsRecord
        <3>3. CASE e.type = "overflow"
            <4>1. item' = [type |-> "overflow", stamp |-> e.stamp, first |-> e.first, second |-> e.second]
                BY <2>1, <3>1, <3>2, <3>3, ToldOverflow
            <4>2. QED  BY <2>2, <3>2, <3>3, <4>1
        <3>4. CASE e.type = "error"
            <4>1. item' = [type |-> "error", stamp |-> e.stamp, first |-> e.first]
                BY <2>1, <3>1, <3>2, <3>4, ToldError
            <4>2. QED  BY <2>2, <3>2, <3>4, <4>1
        <3>5. QED  BY <3>2, <3>3, <3>4
    <2>3. QED
        BY <2>1, <2>2 DEF EventInv
<1>15. CASE DecodeTx
    <2>1. stage = "tx bytes" /\ stage' = "tx told" /\ item' = HostTxEvent(item) /\ Same
        BY <1>15 DEF DecodeTx, Becomes
    <2>2. PICK e : TxTells(e) /\ item = TxEventBytes(e)
        BY <2>1 DEF EventInv
    <2>3. e \in [type : Byte, info : Word, stamp : Word]
        BY <2>2 DEF TxTells
    <2>4. item' = e
        BY <2>1, <2>2, <2>3, ToldTxEvent
    <2>5. TxTells(e)'
        BY <1>1, <2>1, <2>2
    <2>6. QED
        BY <2>1, <2>4, <2>5 DEF EventInv, TxTells
<1>16. CASE UNCHANGED vars
    BY <1>1, <1>16 DEF vars, EventInv, TxTells, RxRecords, MeantUref
<1>17. QED
    BY <1>2, <1>3, <1>4, <1>5, <1>6, <1>7, <1>8, <1>9, <1>10, <1>11, <1>12, <1>13, <1>14, <1>15, <1>16
    DEF Next

\* The host gets the user reference it gave with the frame back with the event of
\* that frame, and every overflow and error as it was recorded, for every slot, user
\* reference, count, stamp and content of unwritten memory.
THEOREM EventAlwaysArrives == Spec => []EventArrives
<1>1. EventInv => EventArrives
    <2> SUFFICES ASSUME EventInv PROVE EventArrives
        OBVIOUS
    <2>1. stage # "bad seq"
        BY DEF EventInv
    <2>2. ASSUME stage = "tx told", sent.from = "host"
          PROVE  item.type = 0 /\ item.info = IF sent.what.useUref THEN sent.what.uref ELSE 0
        BY <2>2 DEF EventInv, TxTells, MeantUref
    <2>3. ASSUME stage \in {"rx told", "tx told"}, sent.from = "driver", NEW field \in DOMAIN item
          PROVE  item[field] = sent.what[field]
        BY <2>3 DEF EventInv, TxTells
    <2>4. QED
        BY <2>1, <2>2, <2>3 DEF EventArrives
<1>2. QED
    BY <1>1, CodecInit, CodecNext, EventInit, EventNext, PTL DEF Spec

-----------------------------------------------------------------------------
(* The bits of IDs and masks.                                             *)

\* The weight of bit i, as a number: the comparisons use no others.
Weight(i) == 2^i

LEMMA WeightTable ==
    /\ Weight(0) = 1 /\ Weight(1) = 2 /\ Weight(2) = 4 /\ Weight(3) = 8 /\ Weight(4) = 16
    /\ Weight(5) = 32 /\ Weight(6) = 64 /\ Weight(7) = 128 /\ Weight(8) = 256 /\ Weight(9) = 512
    /\ Weight(10) = 1024 /\ Weight(11) = 2048 /\ Weight(12) = 4096 /\ Weight(13) = 8192
    /\ Weight(14) = 16384 /\ Weight(15) = 32768 /\ Weight(16) = 65536 /\ Weight(17) = 131072
    /\ Weight(18) = 262144 /\ Weight(19) = 524288 /\ Weight(20) = 1048576 /\ Weight(21) = 2097152
    /\ Weight(22) = 4194304 /\ Weight(23) = 8388608 /\ Weight(24) = 16777216 /\ Weight(25) = 33554432
    /\ Weight(26) = 67108864 /\ Weight(27) = 134217728 /\ Weight(28) = 268435456 /\ Weight(29) = 536870912
BY SMT DEF Weight

LEMMA WeightDoubles ==
    ASSUME NEW i \in 0..28
    PROVE  Weight(i) \in Nat \ {0} /\ Weight(i + 1) = 2 * Weight(i)
BY WeightTable, SMT

LEMMA WeightShifts ==
    /\ \A i \in 0..10 : Weight(i + 18) = 262144 * Weight(i)
    /\ \A i \in 0..17 : Weight(i + 11) = 2048 * Weight(i)
BY WeightTable, SMT

\* A multiple of q has no bit at p or below.
Above(q, p) == q \in Nat /\ \E k \in Nat : q = 2 * (k * p)

\* The sizes of ID A and of ID B, and the flag in a filter's words.
SizeA == 2048
SizeB == 262144
FilterExt == 1073741824

LEMMA WeightsBelow ==
    /\ \A i \in 0..10 : Above(SizeA, Weight(i))
    /\ \A i \in 0..17 : Above(SizeB, Weight(i))
    /\ \A i \in 0..28 : Above(FilterExt, Weight(i))
BY WeightTable, SMT DEF Above, SizeA, SizeB, FilterExt

LEMMA ShiftUp ==
    ASSUME NEW a \in Nat, NEW b \in Nat, NEW p \in Nat \ {0}
    PROVE  ((a * p) + b) \div p = a + (b \div p)
BY SMT

LEMMA DivTwice ==
    ASSUME NEW x \in Nat, NEW a \in Nat \ {0}, NEW b \in Nat \ {0}
    PROVE  x \div (a * b) = (x \div a) \div b
BY SMT

\* What lies above a bit does not change it.
LEMMA BitBelow ==
    ASSUME NEW x \in Nat, NEW n \in Nat, NEW p \in Nat \ {0}, NEW q, Above(q, p)
    PROVE  Bit((q * n) + x, p) <=> Bit(x, p)
<1>1. PICK k \in Nat : q = 2 * (k * p)
    BY DEF Above
<1> DEFINE a == 2 * (k * n)
           y == (q * n) + x
<1>2. a \in Nat /\ q * n = a * p
    <2>1. (2 * (k * p)) * n = (2 * (k * n)) * p
        BY SMT
    <2>2. k * n \in Nat
        BY SMT
    <2>3. a \in Nat
        BY <2>2, SMT
    <2>4. QED  BY <1>1, <2>1, <2>3, Zenon
<1>3. (a + (x \div p)) % 2 = (x \div p) % 2
    <2>1. x \div p \in Nat /\ k * n \in Nat
        BY SMT
    <2> DEFINE d == x \div p
               e == k * n
    <2> HIDE DEF d, e
    <2>2. ((2 * e) + d) % 2 = d % 2
        BY <2>1, SMT DEF d, e
    <2>3. QED  BY <2>2 DEF d, e
<1> HIDE DEF a
<1>4. y = (a * p) + x
    BY <1>2, Zenon
<1>5. ((a * p) + x) \div p = a + (x \div p)
    BY <1>2, ShiftUp, Zenon
<1> HIDE DEF y
<1>6. y \div p = a + (x \div p)
    BY <1>4, <1>5, Zenon
<1>7. Bit(y, p) <=> Bit(x, p)
    BY <1>3, <1>6, Zenon DEF Bit
<1>8. QED  BY <1>7 DEF y

\* A bit of the upper part of a number.
LEMMA BitAbove ==
    ASSUME NEW x \in Nat, NEW q \in Nat \ {0}, NEW p \in Nat \ {0}
    PROVE  Bit(x, q * p) <=> Bit(x \div q, p)
<1>1. x \div (q * p) = (x \div q) \div p
    BY DivTwice, Zenon
<1>2. QED  BY <1>1, Zenon DEF Bit

\* MIDE and EXIDE are above all bits of an ID.
LEMMA BitUnderFlag ==
    ASSUME NEW x \in Nat, NEW i \in 0..28
    PROVE  Bit(FilterExt + x, Weight(i)) <=> Bit(x, Weight(i))
<1>1. Above(FilterExt, Weight(i)) /\ Weight(i) \in Nat \ {0} /\ 1 \in Nat
    BY WeightsBelow, WeightDoubles
<1>2. Bit((FilterExt * 1) + x, Weight(i)) <=> Bit(x, Weight(i))
    BY <1>1, BitBelow, Zenon
<1>3. FilterExt * 1 = FilterExt
    BY DEF FilterExt
<1>4. QED  BY <1>2, <1>3, Zenon

\* Which bit of the ID a bit of the chip's word is.
IdBit(i) == IF i <= 10 THEN i + 18 ELSE i - 11

\* A bit of the chip's word is a bit of the ID.
LEMMA SwappedBit ==
    ASSUME NEW m, Fits(m), NEW i \in 0..28
    PROVE  Bit(Swap(m), Weight(i)) <=> Bit(m, Weight(IdBit(i)))
<1>1. /\ High(m) \in Nat /\ Low(m) \in Nat /\ m \in Nat
      /\ m = (SizeB * High(m)) + Low(m) /\ m \div SizeB = High(m)
    BY PartsOf DEF Fits, High, SizeB
<1>2. Swap(m) = (SizeA * Low(m)) + High(m) /\ Swap(m) \in Nat /\ Swap(m) \div SizeA = Low(m)
    BY PartsOf, SMT DEF Swap, SizeA
<1>3. SizeA \in Nat \ {0} /\ SizeB \in Nat \ {0}
    BY DEF SizeA, SizeB
<1>4. CASE i \in 0..10
    <2>1. Above(SizeA, Weight(i)) /\ Weight(i) \in Nat \ {0}
        BY <1>4, WeightsBelow, WeightDoubles
    <2>2. IdBit(i) = i + 18 /\ Weight(i + 18) = SizeB * Weight(i)
        BY <1>4, WeightShifts DEF IdBit, SizeB
    <2>3. Bit((SizeA * Low(m)) + High(m), Weight(i)) <=> Bit(High(m), Weight(i))
        BY <1>1, <2>1, BitBelow, Zenon
    <2>4. Bit(m, SizeB * Weight(i)) <=> Bit(m \div SizeB, Weight(i))
        BY <1>1, <1>3, <2>1, BitAbove, Zenon
    <2>5. QED  BY <1>1, <1>2, <2>2, <2>3, <2>4, Zenon
<1>5. CASE i \in 11..28
    <2> DEFINE j == i - 11
    <2>1. j \in 0..17 /\ j \in 0..28 /\ IdBit(i) = j /\ i = j + 11
        BY <1>5 DEF IdBit
    <2> HIDE DEF j
    <2>2. Above(SizeB, Weight(j)) /\ Weight(j) \in Nat \ {0}
        BY <2>1, WeightsBelow, WeightDoubles
    <2>3. Weight(i) = SizeA * Weight(j)
        BY <2>1, WeightShifts DEF SizeA
    <2>4. Bit((SizeB * High(m)) + Low(m), Weight(j)) <=> Bit(Low(m), Weight(j))
        BY <1>1, <2>2, BitBelow, Zenon
    <2>5. Bit(Swap(m), SizeA * Weight(j)) <=> Bit(Swap(m) \div SizeA, Weight(j))
        BY <1>2, <1>3, <2>2, BitAbove, Zenon
    <2>6. QED  BY <1>1, <1>2, <2>1, <2>3, <2>4, <2>5, Zenon
<1>6. i \in 0..10 \/ i \in 11..28
    BY SMT
<1>7. QED  BY <1>4, <1>5, <1>6

LEMMA IdBits ==
    /\ \A i \in 0..28 : IdBit(i) \in 0..28
    /\ \A j \in 0..28 : \E i \in 0..28 : IdBit(i) = j
<1>1. \A i \in 0..28 : IdBit(i) \in 0..28
    BY SMT DEF IdBit
<1>2. ASSUME NEW j \in 0..28 PROVE \E i \in 0..28 : IdBit(i) = j
    <2>1. CASE j < 18
        <3>1. j + 11 \in 0..28 /\ IdBit(j + 11) = j
            BY <2>1, SMT DEF IdBit
        <3>2. QED  BY <3>1
    <2>2. CASE j >= 18
        <3>1. j - 18 \in 0..28 /\ IdBit(j - 18) = j
            BY <2>2, SMT DEF IdBit
        <3>2. QED  BY <3>1
    <2>3. QED  BY <2>1, <2>2, SMT
<1>3. QED  BY <1>1, <1>2

\* AgreeUnder in terms of weights.
LEMMA Agreement ==
    ASSUME NEW m, NEW v, NEW w
    PROVE  AgreeUnder(m, v, w) <=>
               \A i \in 0..28 : Bit(m, Weight(i)) => (Bit(v, Weight(i)) <=> Bit(w, Weight(i)))
BY Zenon DEF AgreeUnder, Weight

\* Comparing IDs in the chip's order of bits is comparing them.
LEMMA SwappedAgreement ==
    ASSUME NEW m, Fits(m), NEW v, Fits(v), NEW w, Fits(w)
    PROVE  AgreeUnder(Swap(m), Swap(v), Swap(w)) <=> AgreeUnder(m, v, w)
<1> DEFINE here(i) == Bit(m, Weight(i)) => (Bit(v, Weight(i)) <=> Bit(w, Weight(i)))
           there(i) == Bit(Swap(m), Weight(i)) => (Bit(Swap(v), Weight(i)) <=> Bit(Swap(w), Weight(i)))
<1>1. \A i \in 0..28 : there(i) <=> here(IdBit(i))
    BY SwappedBit
<1> HIDE DEF here, there
<1>2. (\A i \in 0..28 : there(i)) <=> (\A j \in 0..28 : here(j))
    BY <1>1, IdBits
<1>3. QED  BY <1>2, Agreement DEF here, there

\* Numbers with the same bits are the same.
LEMMA SameBits ==
    ASSUME NEW v, Fits(v), NEW w, Fits(w), \A i \in 0..28 : Bit(v, Weight(i)) <=> Bit(w, Weight(i))
    PROVE  v = w
<1> DEFINE same(i) == v \div Weight(i) = w \div Weight(i)
<1>1. same(29)
    BY WeightTable, SMT DEF Fits
<1>2. ASSUME NEW i \in 0..28, NEW j, j = i + 1, same(j) PROVE same(i)
    <2> DEFINE a == v \div Weight(i)
               b == w \div Weight(i)
    <2>1. Weight(i) \in Nat \ {0} /\ Weight(j) = Weight(i) * 2 /\ v \in Nat /\ w \in Nat /\ 2 \in Nat \ {0}
        BY <1>2, WeightDoubles, SMT DEF Fits
    <2>2. a \in Nat /\ b \in Nat
        BY <2>1, SMT
    <2>3. v \div (Weight(i) * 2) = a \div 2 /\ w \div (Weight(i) * 2) = b \div 2
        BY <2>1, DivTwice, Zenon
    <2>4. a \div 2 = b \div 2
        BY <1>2, <2>1, <2>3, Zenon
    <2>5. a % 2 = 1 <=> b % 2 = 1
        BY DEF Bit
    <2> HIDE DEF a, b
    <2>6. a = b
        BY <2>2, <2>4, <2>5, SMT
    <2>7. QED  BY <2>6 DEF a, b
<1> HIDE DEF same
<1>3. same(29) => same(19)
    BY <1>2, 29 = 28 + 1, 28 = 27 + 1, 27 = 26 + 1, 26 = 25 + 1, 25 = 24 + 1, 24 = 23 + 1,
       23 = 22 + 1, 22 = 21 + 1, 21 = 20 + 1, 20 = 19 + 1
<1>4. same(19) => same(9)
    BY <1>2, 19 = 18 + 1, 18 = 17 + 1, 17 = 16 + 1, 16 = 15 + 1, 15 = 14 + 1, 14 = 13 + 1,
       13 = 12 + 1, 12 = 11 + 1, 11 = 10 + 1, 10 = 9 + 1
<1>5. same(9) => same(0)
    BY <1>2, 9 = 8 + 1, 8 = 7 + 1, 7 = 6 + 1, 6 = 5 + 1, 5 = 4 + 1, 4 = 3 + 1,
       3 = 2 + 1, 2 = 1 + 1, 1 = 0 + 1
<1>6. v \div 1 = w \div 1
    BY <1>1, <1>3, <1>4, <1>5, WeightTable DEF same
<1>7. QED  BY <1>6, SMT DEF Fits

-----------------------------------------------------------------------------
(* ID filters.                                                             *)

\* An ID in the chip's order of bits.
Native(e, id) == IF e THEN Swap(id) ELSE id

LEMMA NativeInRange ==
    ASSUME NEW e \in BOOLEAN, NEW id \in IdRange(e)
    PROVE  Native(e, id) \in IdRange(e) /\ Fits(id) /\ Fits(Native(e, id))
<1>1. CASE e
    <2>1. Fits(id)
        BY <1>1, SMT DEF IdRange, ExtBit, Fits
    <2>2. Fits(Swap(id))
        BY <2>1, SwapOf
    <2>3. Swap(id) \in IdRange(TRUE)
        BY <2>2, SMT DEF IdRange, ExtBit, Fits
    <2>4. e = TRUE
        BY <1>1
    <2>5. QED  BY <2>1, <2>2, <2>3, <2>4, Zenon DEF Native
<1>2. CASE ~e
    <2>1. Native(e, id) = id
        BY <1>2 DEF Native
    <2>2. Fits(id)
        BY <1>2, SMT DEF IdRange, Fits
    <2>3. QED  BY <2>1, <2>2, Zenon
<1>3. QED  BY <1>1, <1>2

LEMMA NativeOf ==
    ASSUME NEW e \in BOOLEAN, NEW id \in IdRange(e)
    PROVE  MakeId(e, id) % ExtBit = Native(e, id)
<1>1. id \in Nat /\ Reduced(e, id) = id
    BY RangeIsReduced
<1>2. Fits(Native(e, id))
    BY NativeInRange
<1>3. Cut(MakeId(e, id)) = Native(e, id)
    <2>1. CASE e
        <3>1. e = TRUE /\ Native(e, id) = Swap(id)
            BY <2>1 DEF Native
        <3>2. MakeId(e, id) = Swap(id) + ExtBit
            BY <1>1, <3>1, ExtendedWord, Zenon
        <3>3. QED  BY <1>2, <3>1, <3>2, WithFlag, Zenon
    <2>2. CASE ~e
        <3>1. e = FALSE /\ Native(e, id) = id
            BY <2>2 DEF Native
        <3>2. MakeId(e, id) = id
            BY <1>1, <3>1, StandardWord, Zenon
        <3>3. QED  BY <1>2, <3>1, <3>2, WithoutFlag, Zenon
    <2>3. QED  BY <2>1, <2>2
<1>4. QED  BY <1>3 DEF Cut

LEMMA NativeIdOf ==
    ASSUME NEW w, w.extended \in BOOLEAN, w.id \in IdRange(w.extended)
    PROVE  NativeId(w) = Native(w.extended, w.id)
<1>1. Cut(MakeId(w.extended, w.id)) = NativeId(w)
    BY ChipId
<1>2. MakeId(w.extended, w.id) % ExtBit = Native(w.extended, w.id)
    BY NativeOf
<1>3. QED  BY <1>1, <1>2 DEF Cut

\* IDs agree in the chip's order of bits where they agree in their own.
LEMMA NativeAgreement ==
    ASSUME NEW e \in BOOLEAN, NEW m \in IdRange(e), NEW v \in IdRange(e), NEW w \in IdRange(e)
    PROVE  AgreeUnder(Native(e, m), Native(e, v), Native(e, w)) <=> AgreeUnder(m, v, w)
<1>1. Fits(m) /\ Fits(v) /\ Fits(w)
    BY NativeInRange
<1>2. CASE e
    <2>1. Native(e, m) = Swap(m) /\ Native(e, v) = Swap(v) /\ Native(e, w) = Swap(w)
        BY <1>2 DEF Native
    <2>2. QED  BY <1>1, <2>1, SwappedAgreement
<1>3. CASE ~e
    BY <1>3 DEF Native
<1>4. QED  BY <1>2, <1>3

\* The mask in which every bit of an ID is compared.
Full(e) == IF e THEN ExtBit - 1 ELSE 2047

LEMMA FullMask ==
    ASSUME NEW e \in BOOLEAN
    PROVE  Full(e) \in IdRange(e) /\ Native(e, Full(e)) = Full(e)
<1>1. CASE e
    <2>1. Low(536870911) = 262143 /\ High(536870911) = 2047
        BY SMT DEF Low, High
    <2>2. Swap(536870911) = 536870911
        BY <2>1, SMT DEF Swap
    <2>3. Full(e) = 536870911
        BY <1>1, SMT DEF Full, ExtBit
    <2>4. Full(e) \in IdRange(e)
        BY <1>1, SMT DEF Full, ExtBit, IdRange
    <2>5. Swap(Full(e)) = Full(e)
        BY <2>2, <2>3, SMT
    <2>6. Native(e, Full(e)) = Swap(Full(e))
        BY <1>1 DEF Native
    <2>7. QED  BY <2>4, <2>5, <2>6, Zenon
<1>2. CASE ~e
    BY <1>2, SMT DEF Full, IdRange, Native
<1>3. QED  BY <1>1, <1>2

\* Its bits are those of the ID, and a standard ID has no others.
LEMMA FullBits ==
    /\ \A i \in 0..28 : Bit(536870911, Weight(i))
    /\ \A i \in 0..10 : Bit(2047, Weight(i))
BY WeightTable, SMT DEF Bit

LEMMA NoHighBits ==
    ASSUME NEW x, Small(x), NEW i \in 11..28
    PROVE  ~Bit(x, Weight(i))
<1>1. Weight(i) \in Nat /\ Weight(i) >= 2048
    BY WeightTable, SMT
<1>2. x \div Weight(i) = 0
    BY <1>1, SMT DEF Small
<1>3. QED  BY <1>2, SMT DEF Bit

\* IDs that agree in all bits of their kind are the same.
LEMMA FullAgreement ==
    ASSUME NEW e \in BOOLEAN, NEW v \in IdRange(e), NEW w \in IdRange(e)
    PROVE  AgreeUnder(Full(e), v, w) <=> v = w
<1>1. v = w => AgreeUnder(Full(e), v, w)
    BY Agreement
<1>2. ASSUME AgreeUnder(Full(e), v, w) PROVE v = w
    <2>1. Fits(v) /\ Fits(w)
        BY NativeInRange
    <2>2. ASSUME NEW i \in 0..28 PROVE Bit(v, Weight(i)) <=> Bit(w, Weight(i))
        <3>1. Bit(Full(e), Weight(i)) => (Bit(v, Weight(i)) <=> Bit(w, Weight(i)))
            BY <1>2, Agreement
        <3>2. CASE e
            <4>1. Full(e) = 536870911
                BY <3>2, SMT DEF Full, ExtBit
            <4>2. QED  BY <3>1, <4>1, FullBits, SMT
        <3>3. CASE ~e /\ i \in 0..10
            <4>1. Full(e) = 2047
                BY <3>3 DEF Full
            <4>2. QED  BY <3>1, <3>3, <4>1, FullBits
        <3>4. CASE ~e /\ i \in 11..28
            <4>1. Small(v) /\ Small(w)
                BY <3>4, SMT DEF IdRange, Small
            <4>2. QED  BY <3>4, <4>1, NoHighBits
        <3>5. i \in 0..10 \/ i \in 11..28
            BY SMT
        <3>6. QED  BY <3>2, <3>3, <3>4, <3>5
    <2>3. QED  BY <2>1, <2>2, SameBits
<1>3. QED  BY <1>1, <1>2

\* A filter an application may ask for: IDs and masks are in the range of their kind.
Asked(f) ==
    /\ f.kind \in {"exact", "masked", "all", "disabled"}
    /\ f.kind \in {"exact", "masked"} => f.extended \in BOOLEAN /\ f.id \in IdRange(f.extended)
    /\ f.kind = "masked" => f.mask \in IdRange(f.extended)

\* The bits of the ID a filter compares.
Compared(f) == IF f.kind = "exact" THEN Full(f.extended) ELSE f.mask

\* A filter object that compares the kind of an ID and its bits under a mask.
Compares(o, e, mask, id) ==
    /\ o.enabled
    /\ o.object = Flag(e, FilterExt) + Native(e, id)
    /\ o.mask = FilterExt + Native(e, mask)

\* What the chip does with such an object.
LEMMA PassesCompared ==
    ASSUME NEW e \in BOOLEAN, NEW mask \in IdRange(e), NEW id \in IdRange(e), NEW o, Compares(o, e, mask, id),
           NEW w, w.extended \in BOOLEAN, w.id \in IdRange(w.extended)
    PROVE  Passes(o, w) <=> e = w.extended /\ AgreeUnder(mask, id, w.id)
<1> DEFINE m == Native(e, mask)
           v == Native(e, id)
           n == NativeId(w)
           seen == (o.mask % ExtBit) % (IF w.extended THEN ExtBit ELSE 2048)
<1>1. m \in IdRange(e) /\ Fits(m) /\ v \in IdRange(e) /\ Fits(v)
    BY NativeInRange
<1>2. o.enabled /\ o.object = Flag(e, FilterExt) + v /\ o.mask = FilterExt + m
    BY DEF Compares
<1>3. Bit(o.mask, FilterExt) /\ o.mask % ExtBit = m
    <2> HIDE DEF m
    <2>1. QED  BY <1>1, <1>2, SMT DEF Bit, FilterExt, ExtBit, Fits
<1>4. Bit(o.object, FilterExt) <=> e
    <2> HIDE DEF v
    <2>1. CASE e
        BY <1>1, <1>2, <2>1, SMT DEF Bit, Flag, FilterExt, Fits
    <2>2. CASE ~e
        BY <1>1, <1>2, <2>2, SMT DEF Bit, Flag, FilterExt, Fits
    <2>3. QED  BY <2>1, <2>2
<1>5. Passes(o, w) <=> (e <=> w.extended) /\ AgreeUnder(seen, o.object, n)
    <2>1. Passes(o, w) <=> /\ o.enabled
                           /\ Bit(o.mask, FilterExt) => (Bit(o.object, FilterExt) <=> w.extended)
                           /\ AgreeUnder(seen, o.object, n)
        BY SMT DEF Passes, FilterExt
    <2> HIDE DEF seen, n
    <2>2. QED  BY <1>2, <1>3, <1>4, <2>1, Zenon
<1>6. ASSUME e = w.extended PROVE AgreeUnder(seen, o.object, n) <=> AgreeUnder(mask, id, w.id)
    <2>1. seen = m
        <3>1. Reduced(e, m) = m
            BY <1>1, RangeIsReduced
        <3>2. seen = Reduced(w.extended, o.mask % ExtBit)
            BY DEF Reduced
        <3> HIDE DEF m, seen
        <3>3. QED  BY <1>3, <1>6, <3>1, <3>2, Zenon
    <2>2. n = Native(e, w.id)
        BY <1>6, NativeIdOf
    <2>3. AgreeUnder(m, o.object, n) <=> AgreeUnder(m, v, n)
        <3> HIDE DEF m, v, n
        <3>1. ASSUME NEW i \in 0..28 PROVE Bit(o.object, Weight(i)) <=> Bit(v, Weight(i))
            <4>1. CASE e
                <5>1. o.object = FilterExt + v /\ v \in Nat
                    BY <1>1, <1>2, <4>1 DEF Flag, Fits
                <5>2. QED  BY <5>1, BitUnderFlag
            <4>2. CASE ~e
                <5>1. o.object = v
                    BY <1>1, <1>2, <4>2, SMT DEF Flag, Fits
                <5>2. QED  BY <5>1
            <4>3. QED  BY <4>1, <4>2
        <3>2. QED  BY <3>1, Agreement
    <2>4. AgreeUnder(m, v, Native(e, w.id)) <=> AgreeUnder(mask, id, w.id)
        BY <1>6, NativeAgreement
    <2> HIDE DEF seen, m, v, n
    <2>5. QED  BY <2>1, <2>2, <2>3, <2>4, Zenon
<1> HIDE DEF seen, n
<1>7. (e <=> w.extended) <=> e = w.extended
    OBVIOUS
<1>8. QED  BY <1>5, <1>6, <1>7, Zenon

\* The objects can_make_id_filter and can_make_id_filter_masked make.
LEMMA ComparingObject ==
    ASSUME NEW f, Asked(f), f.kind \in {"exact", "masked"}
    PROVE  /\ f.extended \in BOOLEAN /\ f.id \in IdRange(f.extended) /\ Compared(f) \in IdRange(f.extended)
           /\ Compares(FilterObject(f), f.extended, Compared(f), f.id)
<1> DEFINE o == FilterObject(f)
           e == f.extended
<1>1. e \in BOOLEAN /\ f.id \in IdRange(e)
    BY DEF Asked
<1>2. MakeId(e, f.id) % ExtBit = Native(e, f.id)
    BY <1>1, NativeOf
<1>3. CASE f.kind = "exact"
    <2>1. Compared(f) = Full(e) /\ Full(e) \in IdRange(e) /\ Native(e, Full(e)) = Full(e)
        BY <1>1, <1>3, FullMask DEF Compared
    <2>2. /\ o.enabled /\ o.object = Flag(e, FilterExt) + (MakeId(e, f.id) % ExtBit)
          /\ o.mask = IF e THEN 1610612735 ELSE 1073743871
        BY <1>3 DEF FilterObject, FilterExt
    <2>3. (IF e THEN 1610612735 ELSE 1073743871) = FilterExt + Full(e)
        BY <1>1, SMT DEF FilterExt, Full, ExtBit
    <2> HIDE DEF o
    <2>4. Compares(o, e, Compared(f), f.id)
        BY <1>2, <2>1, <2>2, <2>3 DEF Compares
    <2>5. QED  BY <1>1, <2>1, <2>4 DEF o
<1>4. CASE f.kind = "masked"
    <2>1. Compared(f) = f.mask /\ f.mask \in IdRange(e)
        BY <1>4 DEF Compared, Asked
    <2>2. MakeId(e, f.mask) % ExtBit = Native(e, f.mask)
        BY <1>1, <2>1, NativeOf
    <2>3. /\ o.enabled /\ o.object = Flag(e, FilterExt) + (MakeId(e, f.id) % ExtBit)
          /\ o.mask = FilterExt + (MakeId(e, f.mask) % ExtBit)
        BY <1>4 DEF FilterObject, FilterExt
    <2> HIDE DEF o
    <2>4. Compares(o, e, Compared(f), f.id)
        BY <1>2, <2>1, <2>2, <2>3 DEF Compares
    <2>5. QED  BY <1>1, <2>1, <2>4 DEF o
<1>5. QED  BY <1>3, <1>4

\* The object that takes every frame.
LEMMA PassesAll ==
    ASSUME NEW o, o = [enabled |-> TRUE, object |-> 0, mask |-> 0], NEW w, w.extended \in BOOLEAN
    PROVE  Passes(o, w)
<1> DEFINE seen == (o.mask % ExtBit) % (IF w.extended THEN ExtBit ELSE 2048)
<1>1. seen = 0 /\ ~Bit(o.mask, 1073741824)
    BY SMT DEF ExtBit, Bit
<1>2. AgreeUnder(0, o.object, NativeId(w))
    <2>1. ASSUME NEW i \in 0..28 PROVE ~Bit(0, Weight(i))
        <3>1. Weight(i) \in Nat \ {0}
            BY WeightDoubles
        <3>2. 0 \div Weight(i) = 0
            BY <3>1, SMT
        <3>3. QED  BY <3>2, SMT DEF Bit
    <2>2. QED  BY <2>1, Agreement
<1>3. QED  BY <1>1, <1>2, SMT DEF Passes

\* A filter takes the frames it asks for.
LEMMA FilterTakes ==
    ASSUME NEW f, Asked(f), NEW w, w.extended \in BOOLEAN, w.id \in IdRange(w.extended)
    PROVE  Passes(FilterObject(f), w) <=> AsksFor(f, w)
<1>1. CASE f.kind \in {"exact", "masked"}
    <2>1. /\ f.extended \in BOOLEAN /\ f.id \in IdRange(f.extended) /\ Compared(f) \in IdRange(f.extended)
          /\ Compares(FilterObject(f), f.extended, Compared(f), f.id)
        BY <1>1, ComparingObject
    <2>2. Passes(FilterObject(f), w) <=> f.extended = w.extended /\ AgreeUnder(Compared(f), f.id, w.id)
        BY <2>1, PassesCompared
    <2>3. CASE f.kind = "exact"
        <3>1. Compared(f) = Full(f.extended)
            BY <2>3 DEF Compared
        <3>2. f.extended = w.extended => (AgreeUnder(Compared(f), f.id, w.id) <=> f.id = w.id)
            BY <2>1, <3>1, FullAgreement
        <3>3. AsksFor(f, w) <=> f.extended = w.extended /\ f.id = w.id
            BY <2>3 DEF AsksFor
        <3>4. QED  BY <2>2, <3>2, <3>3, Zenon
    <2>4. CASE f.kind = "masked"
        <3>1. Compared(f) = f.mask
            BY <2>4 DEF Compared
        <3>2. AsksFor(f, w) <=> f.extended = w.extended /\ AgreeUnder(f.mask, f.id, w.id)
            BY <2>4 DEF AsksFor
        <3>3. QED  BY <2>2, <3>1, <3>2, Zenon
    <2>5. QED  BY <1>1, <2>3, <2>4
<1>2. CASE f.kind = "all"
    <2>1. FilterObject(f) = [enabled |-> TRUE, object |-> 0, mask |-> 0]
        BY <1>2 DEF FilterObject
    <2>2. Passes(FilterObject(f), w)
        BY <2>1, PassesAll
    <2>3. QED  BY <1>2, <2>2 DEF AsksFor
<1>3. CASE f.kind = "disabled"
    <2>1. FilterObject(f) = [enabled |-> FALSE, object |-> 0, mask |-> 0]
        BY <1>3 DEF FilterObject
    <2>2. ~FilterObject(f).enabled
        BY <2>1
    <2>3. ~Passes(FilterObject(f), w)
        BY <2>2, SMT DEF Passes
    <2>4. ~AsksFor(f, w)
        BY <1>3 DEF AsksFor
    <2>5. QED  BY <2>3, <2>4
<1>4. QED  BY <1>1, <1>2, <1>3 DEF Asked

\* The filters that let a frame pass are those of the list that ask for it.
LEMMA HitsAskFor ==
    ASSUME filters \in FilterLists, filters # <<>>,
           NEW w, w.extended \in BOOLEAN, w.id \in IdRange(w.extended)
    PROVE  \A i \in Int : i \in Hits(w) <=> i + 1 \in 1..Len(filters) /\ AsksFor(filters[i + 1], w)
<1>1. Len(filters) \in Nat
    BY CodecAssumption, SMT
<1>2. LoadedFilters = [i \in 1..Len(filters) |-> FilterObject(filters[i])]
    BY DEF LoadedFilters
<1>3. Len(LoadedFilters) = Len(filters)
    BY <1>1, <1>2, SMT
<1>4. \A k \in 1..Len(filters) : Passes(LoadedFilters[k], w) <=> AsksFor(filters[k], w)
    <2>1. SUFFICES ASSUME NEW k \in 1..Len(filters)
                   PROVE  Passes(LoadedFilters[k], w) <=> AsksFor(filters[k], w)
        OBVIOUS
    <2>2. LoadedFilters[k] = FilterObject(filters[k])
        BY <1>2
    <2>3. Asked(filters[k])
        BY FilterAssumption DEF Asked
    <2>4. QED  BY <2>2, <2>3, FilterTakes
<1>5. ASSUME NEW i \in Int
      PROVE  i \in Hits(w) <=> i + 1 \in 1..Len(filters) /\ AsksFor(filters[i + 1], w)
    <2>1. i \in 0..Len(filters)-1 <=> i + 1 \in 1..Len(filters)
        BY <1>1, SMT
    <2>2. i \in Hits(w) <=> i \in 0..Len(filters)-1 /\ Passes(LoadedFilters[i + 1], w)
        BY <1>3 DEF Hits
    <2>3. QED  BY <1>4, <2>1, <2>2, Zenon
<1>6. QED  BY <1>5

\* The frame on the bus is filed under the first filter that lets it pass, and that
\* filter's number is in every form the frame takes after it.
BusHits == Hits(sent.what)
First(hit, hits) == hit \in hits /\ \A i \in hits : hit <= i

HitOf(form, x) ==
    IF form = "received" THEN (x.control \div 2048) % 32
    ELSE IF form = "rx bytes" THEN x[7] ELSE x.idFilter

FilterInv ==
    sent.from = "bus" =>
        /\ sent.what \in Foreign
        /\ stage = "ignored" => BusHits = {}
        /\ stage \in {"received", "rx event", "rx bytes", "rx told"} => First(HitOf(stage, item), BusHits)

LEMMA SameHits ==
    ASSUME NEW w, NEW m, SameFrame(w, m)
    PROVE  Hits(w) = Hits(m)
<1>1. w.extended = m.extended /\ NativeId(w) = NativeId(m)
    BY DEF SameFrame, NativeId
<1>2. ASSUME NEW o PROVE Passes(o, w) <=> Passes(o, m)
    BY <1>1, SMT DEF Passes
<1>3. QED  BY <1>2 DEF Hits

LEMMA HitNumber ==
    ASSUME filters \in FilterLists, NEW w, NEW hit \in Hits(w)
    PROVE  hit \in 0..31
<1>1. Len(filters) \in 0..32
    BY CodecAssumption
<1>2. Len(LoadedFilters) \in 0..32
    BY <1>1, SMT DEF LoadedFilters
<1>3. hit \in 0..Len(LoadedFilters)-1
    BY DEF Hits
<1> DEFINE n == Len(LoadedFilters)
<1> HIDE DEF n
<1>4. n \in 0..32 /\ hit \in 0..n-1
    BY <1>2, <1>3 DEF n
<1>5. QED  BY <1>4, SMT

\* The chip's number of the filter is in the part of the control word rx_handler reads.
LEMMA HitOfObject ==
    ASSUME NEW m, Legal(m), NEW w, SameFrame(w, m), NEW hit \in 0..31, NEW stamp, NEW junk
    PROVE  (RxObject(w, hit, stamp, junk).control \div 2048) % 32 = hit
<1> DEFINE c == RxObject(w, hit, stamp, junk).control
           low == w.dlc + Flag(w.extended, 16) + Flag(w.remote, 32)
<1>1. m.extended \in BOOLEAN /\ m.remote \in BOOLEAN /\ m.dlc \in 0..15
    BY LegalFields
<1>2. c = low + 2048 * hit
    BY DEF RxObject
<1>3. low \in Nat /\ low < 2048
    BY <1>1, SMT DEF SameFrame, Flag
<1> HIDE DEF c, low
<1>4. c \div 2048 = hit
    BY <1>2, <1>3, SMT
<1>5. hit % 32 = hit
    BY SMT
<1>6. QED  BY <1>4, <1>5 DEF c

\* The host finds the number of the filter where the board wrote it.
LEMMA ToldHit ==
    ASSUME NEW m, Legal(m), NEW e, EventOf(m, e), NEW junk \in Byte
    PROVE  /\ RxEventBytes(e, junk)[7] = e.idFilter
           /\ HostRxEvent(RxEventBytes(e, junk)).idFilter = e.idFilter
<1> DEFINE b == RxEventBytes(e, junk)
<1>1. ToldAs(b, <<1 + Flag(m.remote, 128)>>, <<m.dlc, e.idFilter>>, BE4(e.canid), e.data)
    BY EventLayout
<1> HIDE DEF b
<1>2. b[7] = e.idFilter /\ b[1] = 1 + Flag(m.remote, 128)
    BY <1>1 DEF ToldAs
<1>3. b[1] % 128 = 1
    <2>1. m.remote \in BOOLEAN
        BY LegalFields
    <2>2. QED  BY <1>2, <2>1, SMT DEF Flag
<1>4. HostRxEvent(b).idFilter = b[7]
    BY <1>3, SMT DEF HostRxEvent
<1>5. QED  BY <1>2, <1>4 DEF b

LEMMA FilterInit == Init => FilterInv
<1> SUFFICES ASSUME Init, sent.from = "bus" PROVE FilterInv
    BY DEF FilterInv
<1>1. CASE \E r \in Requests : sent = [from |-> "host", what |-> r] /\ stage = "request" /\ item = r
    BY <1>1
<1>2. CASE \E w \in Foreign : sent = [from |-> "bus", what |-> w] /\ stage = "wire" /\ item = w
    BY <1>2 DEF FilterInv
<1>3. CASE \E e \in Records, t \in Stamps :
             LET event == [type |-> e.type, first |-> e.first, second |-> e.second, stamp |-> t]
             IN sent = [from |-> "driver", what |-> event] /\ stage = "rx event" /\ item = event
    <2>1. PICK event : sent = [from |-> "driver", what |-> event]
        BY <1>3
    <2>2. QED  BY <2>1
<1>4. CASE \E n \in Overflows, t \in Stamps :
             LET event == [type |-> 2, info |-> n, stamp |-> t]
             IN sent = [from |-> "driver", what |-> event] /\ stage = "tx event" /\ item = event
    <2>1. PICK event : sent = [from |-> "driver", what |-> event]
        BY <1>4
    <2>2. QED  BY <2>1
<1>5. QED
    BY <1>1, <1>2, <1>3, <1>4 DEF Init

LEMMA FilterNext == CodecInv /\ FilterInv /\ [Next]_vars => FilterInv'
<1> SUFFICES ASSUME CodecInv, FilterInv, [Next]_vars, sent'.from = "bus" PROVE FilterInv'
    BY DEF FilterInv
<1> DEFINE Same == sent' = sent /\ filters' = filters
<1>1. ASSUME Same PROVE BusHits' = BusHits
    <2>1. LoadedFilters' = LoadedFilters
        BY <1>1 DEF LoadedFilters
    <2>2. QED  BY <1>1, <2>1 DEF BusHits, Hits
<1>2. sent.from = "bus" => Meant = sent.what
    BY DEF Meant
<1>3. CASE Pack
    BY <1>3 DEF Pack, Becomes, FilterInv
<1>4. CASE Unpack
    BY <1>4 DEF Unpack, Becomes, FilterInv
<1>5. CASE Reject
    BY <1>5 DEF Reject, Becomes, FilterInv
<1>6. CASE StoreAndReload
    BY <1>6 DEF StoreAndReload, Becomes, FilterInv
<1>7. CASE Send
    BY <1>7 DEF Send, Becomes, FilterInv
<1>8. CASE Transmit
    BY <1>8 DEF Transmit, Becomes, FilterInv
<1>9. CASE Confirm
    <2>1. sent' = sent /\ stage = "queued"
        BY <1>9 DEF Confirm, Becomes
    <2>2. sent.from = "host"
        BY <2>1 DEF CodecInv, FromHost
    <2>3. QED  BY <2>1, <2>2
<1>10. CASE Receive
    <2>1. PICK hit \in Hits(item), t \in Stamps, junk \in Junk :
             /\ \A i \in Hits(item) : hit <= i
             /\ stage = "wire" /\ stage' = "received" /\ item' = RxObject(item, hit, t, junk) /\ Same
        BY <1>10 DEF Receive, Becomes
    <2>2. filters \in FilterLists /\ Legal(Meant) /\ SameFrame(item, Meant) /\ Meant = sent.what
        BY <1>2, <2>1 DEF CodecInv
    <2>3. Hits(item) = BusHits
        BY <2>2, SameHits DEF BusHits
    <2>4. (item'.control \div 2048) % 32 = hit
        BY <2>1, <2>2, HitNumber, HitOfObject
    <2>5. First(hit, BusHits)
        BY <2>1, <2>3 DEF First
    <2>6. HitOf("received", item') = hit
        BY <2>4 DEF HitOf
    <2>7. QED  BY <1>1, <2>1, <2>5, <2>6 DEF FilterInv
<1>11. CASE Ignore
    <2>1. stage = "wire" /\ stage' = "ignored" /\ Hits(item) = {} /\ Same
        BY <1>11 DEF Ignore, Becomes
    <2>2. SameFrame(item, Meant) /\ Meant = sent.what
        BY <1>2, <2>1 DEF CodecInv
    <2>3. BusHits = {}
        BY <2>1, <2>2, SameHits DEF BusHits
    <2>4. QED  BY <1>1, <2>1, <2>3 DEF FilterInv
<1>12. CASE Record
    <2>1. stage = "received" /\ stage' = "rx event" /\ item' = RxEvent(item) /\ Same
        BY <1>12 DEF Record, Becomes
    <2>2. item'.idFilter = (item.control \div 2048) % 32
        BY <2>1 DEF RxEvent
    <2>3. HitOf("rx event", item') = HitOf("received", item)
        BY <2>2 DEF HitOf
    <2>4. QED  BY <1>1, <2>1, <2>3 DEF FilterInv
<1>13. CASE PopRx
    <2>1. PICK junk \in Junk :
             stage = "rx event" /\ stage' = "rx bytes" /\ item' = RxEventBytes(item, junk) /\ Same
        BY <1>13 DEF PopRx, Becomes
    <2>2. Legal(Meant) /\ EventOf(Meant, item) /\ junk \in Byte
        BY <2>1, CodecAssumption DEF CodecInv
    <2>3. item'[7] = item.idFilter
        BY <2>1, <2>2, ToldHit
    <2>4. HitOf("rx bytes", item') = HitOf("rx event", item)
        BY <2>3 DEF HitOf
    <2>5. QED  BY <1>1, <2>1, <2>4 DEF FilterInv
<1>14. CASE PopTx
    BY <1>14 DEF PopTx, Becomes, FilterInv
<1>15. CASE DecodeRx
    <2>1. stage = "rx bytes" /\ stage' = "rx told" /\ item' = HostRxEvent(item) /\ Same
        BY <1>15 DEF DecodeRx, Becomes
    <2>2. PICK e, junk : Legal(Meant) /\ junk \in Byte /\ EventOf(Meant, e) /\ item = RxEventBytes(e, junk)
        BY <2>1 DEF CodecInv
    <2>3. RxEventBytes(e, junk)[7] = e.idFilter /\ HostRxEvent(RxEventBytes(e, junk)).idFilter = e.idFilter
        BY <2>2, ToldHit
    <2>4. HitOf("rx told", item') = HitOf("rx bytes", item)
        BY <2>1, <2>2, <2>3 DEF HitOf
    <2>5. QED  BY <1>1, <2>1, <2>4 DEF FilterInv
<1>16. CASE DecodeTx
    BY <1>16 DEF DecodeTx, Becomes, FilterInv
<1>17. CASE UNCHANGED vars
    BY <1>1, <1>17 DEF vars, FilterInv
<1>18. QED
    BY <1>3, <1>4, <1>5, <1>6, <1>7, <1>8, <1>9, <1>10, <1>11, <1>12, <1>13, <1>14, <1>15, <1>16, <1>17
    DEF Next

\* For every list of filters and every frame on the bus: it is ignored only if no
\* filter asks for it, and the host is told the first one that does.
THEOREM FirstFilterTakes == Spec => []FilterHit
<1>1. ASSUME CodecInv, FilterInv, sent.from = "bus", filters # <<>>
      PROVE  LET asking == {i \in 1..Len(filters) : AsksFor(filters[i], sent.what)}
             IN /\ stage = "ignored" => asking = {}
                /\ stage = "rx told" => item.idFilter + 1 \in asking /\ \A i \in asking : item.idFilter < i
    <2> DEFINE w == sent.what
               asking == {i \in 1..Len(filters) : AsksFor(filters[i], w)}
               hits == Hits(w)
               hit == item.idFilter
    <2>1. filters \in FilterLists /\ Len(filters) \in Nat /\ w \in Foreign
        <3>1. filters \in FilterLists /\ w \in Foreign
            BY <1>1 DEF CodecInv, FilterInv
        <3>2. Len(filters) \in 0..32
            BY <3>1, CodecAssumption
        <3>3. QED  BY <3>1, <3>2
    <2>2. \A i \in Int : i \in hits <=> i + 1 \in asking
        <3>1. w.extended \in BOOLEAN /\ w.id \in IdRange(w.extended)
            <4>1. Legal(w)
                BY <2>1, CodecAssumption
            <4>2. QED  BY <4>1, LegalFields
        <3>2. \A i \in Int : i \in Hits(w) <=> i + 1 \in 1..Len(filters) /\ AsksFor(filters[i + 1], w)
            BY <1>1, <2>1, <3>1, HitsAskFor
        <3> HIDE DEF w
        <3>3. QED  BY <3>2
    <2>3. hits \subseteq 0..31 /\ asking \subseteq 1..Len(filters)
        BY <2>1, HitNumber
    <2>4. stage = "ignored" => hits = {}
        BY <1>1 DEF FilterInv, BusHits
    <2>5. stage = "rx told" => First(hit, hits)
        <3>1. HitOf("rx told", item) = hit
            BY DEF HitOf
        <3>2. stage = "rx told" => First(HitOf(stage, item), BusHits)
            BY <1>1 DEF FilterInv
        <3>3. QED  BY <3>1, <3>2 DEF BusHits
    <2> HIDE DEF w, asking, hits, hit
    <2>6. ASSUME NEW i \in asking PROVE i \in Int /\ i - 1 \in hits
        <3>1. i \in Int /\ i - 1 \in Int /\ (i - 1) + 1 = i
            BY <2>1, <2>3, SMT
        <3>2. QED  BY <2>2, <2>6, <3>1
    <2>7. stage = "ignored" => asking = {}
        BY <2>4, <2>6
    <2>8. ASSUME First(hit, hits) PROVE hit + 1 \in asking /\ \A i \in asking : hit < i
        <3>1. hit \in hits /\ hit \in Int
            BY <2>3, <2>8 DEF First
        <3>2. ASSUME NEW i \in asking PROVE hit < i
            <4>1. i \in Int /\ hit <= i - 1
                BY <2>6, <2>8 DEF First
            <4>2. QED  BY <3>1, <4>1, SMT
        <3>3. QED  BY <2>2, <3>1, <3>2
    <2>9. QED  BY <2>5, <2>7, <2>8 DEF asking, hit, w
<1>2. CodecInv /\ FilterInv => FilterHit
    BY <1>1 DEF FilterHit
<1>3. QED
    BY <1>2, CodecInit, CodecNext, FilterInit, FilterNext, PTL DEF Spec
=============================================================================

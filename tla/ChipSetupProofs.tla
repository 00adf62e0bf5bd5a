-------------------------- MODULE ChipSetupProofs --------------------------
(***************************************************************************)
(* Proofs about the setup of a chip, for every number of filters, tries    *)
(* and lost writes: a setup that reports success has been done, and a chip *)
(* that is on the bus has been set up completely.                          *)
(***************************************************************************)
EXTENDS ChipSetup, SequenceTheorems, TLAPS

Reqops == {3, 4, 6, 7}
Pins == {"OSC", "IOCON0", "IOCON1", "IOCON2", "IOCON3"}
\* The registers that set_controller_mode writes before it asks for a mode.
Late == {"C1NBTCFG", "C1TSCON", "C1TEFCON", "C1TXQCON", "C1FIFOCON1", "C1INT"}
OfFilter == {"C1FLTOBJ", "C1MASK"}
Names == {"RESET", "C1CON", "C1FLTCON"} \cup OfFilter \cup Pins \cup Late
Writes ==
    [name : Names, n : Nat, value : {"wanted", "off"} \cup Nat \cup SUBSET Filters]

ChipType == [mode : Reqops, request : Reqops, enabled : SUBSET Filters, holds : SUBSET (Names \X Nat)]

SetupTypes ==
    /\ chip \in ChipType
    /\ call \in Calls
    /\ stage \in {"pins", "config", "filters", "check", "mode", "stop"}
    /\ todo \in Seq(Writes)
    /\ lost \in Nat

Awaited == 1..Len(todo)
Held(r) == Register(r) \in chip.holds
Pending(r) == \E i \in Awaited : todo[i].name = r

\* What is written in stage s of the setup c.
IsWrite(s, c, w) ==
    \/ s = "pins" /\ w.name \in {"RESET"} \cup Pins /\ w.n = 0 /\ w.value = "wanted"
    \/ s = "config" /\ w = Write("C1CON", 0, 4)
    \/ s = "filters" /\ w.name = "C1FLTCON" /\ w.value \subseteq InWord(w.n) \cap Filters
    \/ s = "filters" /\ w.name \in OfFilter /\ w.n \in Filters
    \/ s = "mode" /\ w.name \in Late /\ w.n = 0 /\ w.value = "wanted"
    \/ s = "mode" /\ w = Write("C1CON", 0, Reqop(c.mode))
    \/ s = "stop" /\ w \in {Write("C1CON", 0, 4), Write("C1INT", 0, "off")}

StageWrites == \A i \in Awaited : IsWrite(stage, call, todo[i])

\* The pins: a reset comes first, and what has been verified stays.
PinsKept ==
    /\ \A i \in Awaited : todo[i].name = "RESET" => i = 1 /\ \A p \in Pins : Pending(p)
    /\ stage = "pins" /\ lost = 0 => \A p \in Pins : Held(p) \/ Pending(p)
    /\ stage \in {"config", "filters", "check", "mode"} =>
         /\ Held("IOCON0") /\ Held("IOCON3")
         /\ lost = 0 => \A p \in Pins : Held(p)

\* The chip stays in configuration mode from when it was seen there until the mode is asked for.
ConfigKept == lost = 0 =>
    /\ stage = "config" => chip.request = 4 \/ todo # <<>>
    /\ stage \in {"filters", "check"} => chip.mode = 4 /\ chip.request = 4

\* todo is w without its first n writes.
LeftOf(w, n) == Len(todo) = Len(w) - n /\ \A i \in Awaited : todo[i] = w[n + i]

Items(c) == 2 * Len(c.filters)

\* What the first n writes of FilterWrites(c) have done to the chip h.
AfterWrites(h, c, n) ==
    /\ \A f \in h.enabled : n < Words + Items(c) => f >= 4 * n
    /\ n >= Words => h.enabled = {f \in Enabled(c) : f < 4 * (n - Words - Items(c))}
    /\ \A i \in 1..Items(c) : i <= n - Words =>
         <<SetFilters(c)[i].name, SetFilters(c)[i].n>> \in h.holds

FiltersAfter(n) == LeftOf(FilterWrites(call), n) /\ AfterWrites(chip, call, n)

FiltersKept == lost = 0 =>
    /\ stage = "filters" =>
         \E n \in 0..Len(FilterWrites(call)) : FiltersAfter(n)
    /\ stage \in {"check", "mode"} =>
         chip.enabled = Enabled(call) /\ OfFilters(Enabled(call)) \subseteq chip.holds

\* The mode is asked for when everything else has been written.
ModeKept == stage = "mode" =>
    /\ chip.mode = Reqop(call.mode) => chip.mode = 4 \/ chip.request = Reqop(call.mode)
    /\ lost = 0 =>
         /\ {chip.mode, chip.request} \subseteq {4, Reqop(call.mode)}
         /\ \A r \in Late : Held(r) \/ Pending(r)
         /\ \A i \in Awaited : IF todo[i].name = "C1CON" THEN i = Len(todo)
                               ELSE chip.mode = 4 /\ chip.request = 4

TableKept == stage \in {"check", "mode"} => table = "initialised"

OkKept == outcome = "ok" =>
    /\ stage = "mode" /\ todo = <<>>
    /\ chip.mode = Reqop(call.mode) \/ Misread \/ (call.mode = "offline" /\ lost > 0)

\* Inductive.
SetupInv ==
    /\ SetupTypes /\ StageWrites /\ PinsKept /\ ConfigKept /\ FiltersKept /\ ModeKept
    /\ TableKept /\ OkKept

-----------------------------------------------------------------------------
(* What the constants and the lists of writes are.                         *)

LEMMA CallTypes ==
    ASSUME NEW c \in Calls
    PROVE  /\ Words \in Nat \ {0} /\ c.filters \in Seq(Filters) /\ Len(c.filters) \in Nat
           /\ c.mode \in Modes /\ Reqop(c.mode) \in Reqops /\ Enabled(c) \subseteq Filters
           /\ Reqop(c.mode) = 4 <=> c.mode = "offline"
           /\ Reqop(c.mode) = 7 <=> c.mode = "ack only"
<1>1. Words \in Nat \ {0} /\ c.filters \in Seq(Filters) /\ c.mode \in Modes
    BY ChipSetupAssumption
<1>2. Enabled(c) \subseteq Filters /\ Len(c.filters) \in Nat
    BY <1>1 DEF Enabled
<1>3. Reqop(c.mode) \in Reqops
    BY <1>1 DEF Reqop, Reqops, Modes
<1>4. (Reqop(c.mode) = 4 <=> c.mode = "offline") /\ (Reqop(c.mode) = 7 <=> c.mode = "ack only")
    <2>1. /\ c.mode = "normal" => Reqop(c.mode) = 6
          /\ c.mode = "listen only" => Reqop(c.mode) = 3
          /\ c.mode = "ack only" => Reqop(c.mode) = 7
          /\ c.mode = "offline" => Reqop(c.mode) = 4
        BY DEF Reqop
    <2>2. c.mode \in {"normal", "listen only", "ack only", "offline"}
        BY <1>1 DEF Modes
    <2>3. 3 # 4 /\ 6 # 4 /\ 7 # 4 /\ 3 # 7 /\ 6 # 7
        OBVIOUS
    <2>4. CASE c.mode = "normal"
        BY <2>1, <2>3, <2>4
    <2>5. CASE c.mode = "listen only"
        BY <2>1, <2>3, <2>5
    <2>6. CASE c.mode = "ack only"
        BY <2>1, <2>3, <2>6
    <2>7. CASE c.mode = "offline"
        BY <2>1, <2>3, <2>7
    <2>8. QED  BY <2>2, <2>4, <2>5, <2>6, <2>7
<1>5. QED  BY <1>1, <1>2, <1>3, <1>4

LEMMA WriteParts ==
    ASSUME NEW r, NEW n, NEW v
    PROVE  Write(r, n, v).name = r /\ Write(r, n, v).n = n /\ Write(r, n, v).value = v
BY DEF Write

LEMMA WriteType ==
    /\ \A r \in {"RESET"} \cup OfFilter \cup Pins \cup Late, n \in Nat : Write(r, n, "wanted") \in Writes
    /\ \A n \in Nat, fs \in SUBSET Filters : Write("C1FLTCON", n, fs) \in Writes
    /\ \A q \in Nat : Write("C1CON", 0, q) \in Writes
    /\ Write("C1INT", 0, "off") \in Writes
<1>1. \A r \in {"RESET"} \cup OfFilter \cup Pins \cup Late, n \in Nat : Write(r, n, "wanted") \in Writes
    BY DEF Write, Writes, Names
<1>2. \A n \in Nat, fs \in SUBSET Filters : Write("C1FLTCON", n, fs) \in Writes
    BY DEF Write, Writes, Names
<1>3. \A q \in Nat : Write("C1CON", 0, q) \in Writes
    BY DEF Write, Writes, Names
<1>4. Write("C1INT", 0, "off") \in Writes
    BY DEF Write, Writes, Names, Late
<1>5. QED  BY <1>1, <1>2, <1>3, <1>4

\* A list of writes that all have n = 0 and the value v.
Plain(s, names, v) ==
    s \in Seq(Writes) /\ \A i \in 1..Len(s) : s[i].name \in names /\ s[i].n = 0 /\ s[i].value = v

LEMMA RequestShape ==
    ASSUME NEW q \in Reqops
    PROVE  Request(q) \in Seq(Writes) /\ Len(Request(q)) = 1 /\ Request(q)[1] = Write("C1CON", 0, q)
BY WriteType DEF Request, Reqops

LEMMA WantShape ==
    ASSUME NEW names \in Seq(Pins \cup Late)
    PROVE  /\ WantAll(names) \in Seq(Writes) /\ Len(WantAll(names)) = Len(names)
           /\ \A i \in 1..Len(names) : /\ WantAll(names)[i].name = names[i]
                                      /\ WantAll(names)[i].n = 0 /\ WantAll(names)[i].value = "wanted"
<1>1. Len(names) \in Nat /\ \A i \in 1..Len(names) : names[i] \in Pins \cup Late
    OBVIOUS
<1>2. \A r \in Pins \cup Late : Write(r, 0, "wanted") \in Writes
    BY WriteType
<1>3. \A r \in Pins \cup Late : /\ Write(r, 0, "wanted").name = r
                              /\ Write(r, 0, "wanted").n = 0 /\ Write(r, 0, "wanted").value = "wanted"
    BY WriteParts
<1>4. WantAll(names) = [i \in 1..Len(names) |-> Write(names[i], 0, "wanted")]
    BY DEF WantAll
<1>5. \A i \in 1..Len(names) : WantAll(names)[i] = Write(names[i], 0, "wanted")
    BY <1>4
<1>6. WantAll(names) \in [1..Len(names) -> Writes]
    BY <1>1, <1>2, <1>4
<1>7. WantAll(names) \in Seq(Writes)
    BY <1>1, <1>6, SeqDef
<1>8. Len(WantAll(names)) = Len(names)
    BY <1>1, <1>6, <1>7
<1>9. QED  BY <1>1, <1>3, <1>5, <1>7, <1>8

LEMMA WantPins ==
    LET all == WantAll(<<"OSC", "IOCON0", "IOCON1", "IOCON2", "IOCON3">>)
    IN  /\ Len(all) = 5 /\ Plain(all, Pins, "wanted")
        /\ \A p \in Pins : \E i \in 1..5 : all[i].name = p
<1> DEFINE names == <<"OSC", "IOCON0", "IOCON1", "IOCON2", "IOCON3">>
<1>1. names \in Seq(Pins) /\ Len(names) = 5 /\ \A p \in Pins : \E i \in 1..5 : names[i] = p
    BY DEF Pins
<1> HIDE DEF names
<1>2. names \in Seq(Pins \cup Late)
    BY <1>1, SeqMonotonic
<1>3. \A i \in 1..5 : names[i] \in Pins
    <2>1. \A i \in 1..Len(names) : names[i] \in Pins
        BY <1>1, ElementOfSeq
    <2>2. QED  BY <1>1, <2>1
<1>4. /\ WantAll(names) \in Seq(Writes) /\ Len(WantAll(names)) = 5
      /\ \A i \in 1..5 : /\ WantAll(names)[i].name = names[i]
                       /\ WantAll(names)[i].n = 0 /\ WantAll(names)[i].value = "wanted"
    BY <1>1, <1>2, WantShape
<1>5. Plain(WantAll(names), Pins, "wanted")
    BY <1>3, <1>4 DEF Plain
<1>6. \A p \in Pins : \E i \in 1..5 : WantAll(names)[i].name = p
    BY <1>1, <1>4
<1>7. QED  BY <1>4, <1>5, <1>6 DEF names

LEMMA WantLate ==
    LET all == WantAll(<<"C1NBTCFG", "C1TSCON", "C1TEFCON", "C1TXQCON", "C1FIFOCON1", "C1INT">>)
    IN  /\ Len(all) = 6 /\ Plain(all, Late, "wanted")
        /\ \A p \in Late : \E i \in 1..6 : all[i].name = p
<1> DEFINE names == <<"C1NBTCFG", "C1TSCON", "C1TEFCON", "C1TXQCON", "C1FIFOCON1", "C1INT">>
<1>1. names \in Seq(Late) /\ Len(names) = 6 /\ \A p \in Late : \E i \in 1..6 : names[i] = p
    BY DEF Late
<1> HIDE DEF names
<1>2. names \in Seq(Pins \cup Late)
    BY <1>1, SeqMonotonic
<1>3. \A i \in 1..6 : names[i] \in Late
    <2>1. \A i \in 1..Len(names) : names[i] \in Late
        BY <1>1, ElementOfSeq
    <2>2. QED  BY <1>1, <2>1
<1>4. /\ WantAll(names) \in Seq(Writes) /\ Len(WantAll(names)) = 6
      /\ \A i \in 1..6 : /\ WantAll(names)[i].name = names[i]
                       /\ WantAll(names)[i].n = 0 /\ WantAll(names)[i].value = "wanted"
    BY <1>1, <1>2, WantShape
<1>5. Plain(WantAll(names), Late, "wanted")
    BY <1>3, <1>4 DEF Plain
<1>6. \A p \in Late : \E i \in 1..6 : WantAll(names)[i].name = p
    BY <1>1, <1>4
<1>7. QED  BY <1>4, <1>5, <1>6 DEF names

\* s is t and then u.
Joined(s, t, u) ==
    /\ s \in Seq(Writes) /\ Len(s) = Len(t) + Len(u) /\ {Len(t), Len(u)} \subseteq Nat
    /\ \A i \in 1..Len(t) : s[i] = t[i]
    /\ \A i \in 1..Len(u) : s[Len(t) + i] = u[i]
    /\ \A i \in 1..Len(s) : i > Len(t) => i - Len(t) \in 1..Len(u) /\ s[i] = u[i - Len(t)]

LEMMA JoinShape ==
    ASSUME NEW t \in Seq(Writes), NEW u \in Seq(Writes)
    PROVE  Joined(t \o u, t, u)
<1>1. Len(t) \in Nat /\ Len(u) \in Nat /\ t \o u \in Seq(Writes) /\ Len(t \o u) = Len(t) + Len(u)
    BY ConcatProperties
<1>2. \A i \in 1..(Len(t) + Len(u)) : (t \o u)[i] = IF i <= Len(t) THEN t[i] ELSE u[i - Len(t)]
    BY ConcatProperties
<1>3. QED  BY <1>1, <1>2 DEF Joined

\* A reset comes first, and all pins are written.
LEMMA PinShape ==
    ASSUME NEW c \in Calls
    PROVE  LET w == PinWrites(c) IN
           /\ Plain(w, {"RESET"} \cup Pins, "wanted") /\ w # <<>>
           /\ \A i \in 1..Len(w) : w[i].name = "RESET" => i = 1
           /\ \A p \in Pins : \E i \in 1..Len(w) : w[i].name = p
<1> DEFINE first == IF c.reset THEN <<Write("RESET", 0, "wanted")>> ELSE <<>>
           all == WantAll(<<"OSC", "IOCON0", "IOCON1", "IOCON2", "IOCON3">>)
           w == PinWrites(c)
<1>1. /\ Write("RESET", 0, "wanted") \in Writes
      /\ Write("RESET", 0, "wanted").name = "RESET" /\ Write("RESET", 0, "wanted").n = 0 /\ Write("RESET", 0, "wanted").value = "wanted"
    BY WriteType, WriteParts
<1>2. /\ first \in Seq(Writes) /\ Len(first) \in {0, 1}
      /\ \A i \in 1..Len(first) : first[i] = Write("RESET", 0, "wanted")
    <2>1. CASE c.reset
        <3>1. first = <<Write("RESET", 0, "wanted")>>
            BY <2>1
        <3>2. QED  BY <1>1, <3>1
    <2>2. CASE ~c.reset
        BY <2>2
    <2>3. QED  BY <2>1, <2>2
<1>3. /\ all \in Seq(Writes) /\ Len(all) = 5
      /\ \A i \in 1..5 : all[i].name \in Pins /\ all[i].n = 0 /\ all[i].value = "wanted"
      /\ \A p \in Pins : \E i \in 1..5 : all[i].name = p
    BY WantPins DEF Plain
<1>4. w = first \o all
    BY DEF PinWrites
<1> HIDE DEF first, all, w
<1>5. Joined(w, first, all)
    BY <1>2, <1>3, <1>4, JoinShape
<1>6. /\ w \in Seq(Writes) /\ Len(w) = Len(first) + 5 /\ Len(first) \in {0, 1}
      /\ \A i \in 1..Len(w) :
           /\ i <= Len(first) => i = 1 /\ w[i] = Write("RESET", 0, "wanted")
           /\ i > Len(first) => w[i].name \in Pins /\ w[i].n = 0 /\ w[i].value = "wanted"
    <2>1. /\ w \in Seq(Writes) /\ Len(w) = Len(first) + 5 /\ Len(first) \in {0, 1}
          /\ \A i \in 1..Len(first) : w[i] = first[i]
          /\ \A i \in 1..Len(w) : i > Len(first) => i - Len(first) \in 1..5 /\ w[i] = all[i - Len(first)]
        BY <1>2, <1>3, <1>5 DEF Joined
    <2>2. ASSUME NEW i \in 1..Len(w), i <= Len(first)
          PROVE  i = 1 /\ w[i] = Write("RESET", 0, "wanted")
        <3>1. i \in 1..Len(first) /\ i = 1
            BY <2>1, <2>2
        <3>2. QED  BY <1>2, <2>1, <3>1
    <2>3. ASSUME NEW i \in 1..Len(w), i > Len(first)
          PROVE  w[i].name \in Pins /\ w[i].n = 0 /\ w[i].value = "wanted"
        BY <1>3, <2>1, <2>3
    <2>4. QED  BY <2>1, <2>2, <2>3
<1>7. "RESET" \notin Pins
    BY DEF Pins
<1>8. Plain(w, {"RESET"} \cup Pins, "wanted")
    BY <1>1, <1>6 DEF Plain
<1>9. \A i \in 1..Len(w) : w[i].name = "RESET" => i = 1
    BY <1>6, <1>7
<1>10. \A p \in Pins : \E i \in 1..Len(w) : w[i].name = p
    <2> SUFFICES ASSUME NEW p \in Pins PROVE \E i \in 1..Len(w) : w[i].name = p
        OBVIOUS
    <2>1. PICK i \in 1..5 : all[i].name = p
        BY <1>3
    <2>2. Len(first) + i \in 1..Len(w) /\ w[Len(first) + i].name = p
        BY <1>2, <1>3, <1>5, <2>1 DEF Joined
    <2>3. QED  BY <2>2
<1>11. w # <<>>
    BY <1>6
<1>12. QED  BY <1>8, <1>9, <1>10, <1>11 DEF w

\* The mode is asked for last.
LEMMA ModeShape ==
    ASSUME NEW c \in Calls
    PROVE  LET w == ModeWrites(c) IN
           /\ w \in Seq(Writes) /\ Len(w) = 7 /\ w[7] = Write("C1CON", 0, Reqop(c.mode))
           /\ \A i \in 1..6 : w[i].name \in Late /\ w[i].n = 0 /\ w[i].value = "wanted"
           /\ \A r \in Late : \E i \in 1..6 : w[i].name = r
<1> DEFINE all == WantAll(<<"C1NBTCFG", "C1TSCON", "C1TEFCON", "C1TXQCON", "C1FIFOCON1", "C1INT">>)
           last == Request(Reqop(c.mode))
           w == ModeWrites(c)
<1>1. /\ all \in Seq(Writes) /\ Len(all) = 6
      /\ \A i \in 1..6 : all[i].name \in Late /\ all[i].n = 0 /\ all[i].value = "wanted"
      /\ \A r \in Late : \E i \in 1..6 : all[i].name = r
    BY WantLate DEF Plain
<1>2. last \in Seq(Writes) /\ Len(last) = 1 /\ last[1] = Write("C1CON", 0, Reqop(c.mode))
    BY CallTypes, RequestShape
<1>3. w = all \o last
    BY DEF ModeWrites
<1> HIDE DEF all, last, w
<1>4. /\ w \in Seq(Writes) /\ Len(w) = 7 /\ w[7] = last[1]
      /\ \A i \in 1..6 : w[i] = all[i]
    <2>1. Joined(w, all, last)
        BY <1>1, <1>2, <1>3, JoinShape
    <2>2. w \in Seq(Writes) /\ Len(w) = 7 /\ \A i \in 1..6 : w[i] = all[i]
        BY <1>1, <1>2, <2>1 DEF Joined
    <2>3. \A i \in 1..1 : w[6 + i] = last[i]
        BY <1>1, <1>2, <2>1 DEF Joined
    <2>4. w[7] = last[1]
        BY <2>3
    <2>5. QED  BY <2>2, <2>4
<1>5. QED  BY <1>1, <1>2, <1>4 DEF w

LEMMA SetShape ==
    ASSUME NEW c \in Calls
    PROVE  LET s == SetFilters(c) IN
           /\ s \in Seq(Writes) /\ Len(s) = Items(c) /\ Items(c) \in Nat
           /\ \A i \in 1..Len(s) : s[i].name \in OfFilter /\ s[i].n \in Enabled(c) /\ s[i].n \in Filters
           /\ \A r \in OfFilter, f \in Enabled(c) : \E i \in 1..Len(s) : s[i].name = r /\ s[i].n = f
<1> DEFINE set == 2 * Len(c.filters)
           item(i) == Write(IF i % 2 = 1 THEN "C1FLTOBJ" ELSE "C1MASK", c.filters[(i + 1) \div 2], "wanted")
           s == SetFilters(c)
<1>1. /\ Len(c.filters) \in Nat /\ c.filters \in Seq(Filters) /\ Enabled(c) \subseteq Filters /\ Filters \subseteq Nat
      /\ \A i \in 1..Len(c.filters) : c.filters[i] \in Enabled(c)
    <2>1. /\ Len(c.filters) \in Nat /\ c.filters \in Seq(Filters) /\ Enabled(c) \subseteq Filters
          /\ Words \in Nat
        BY CallTypes
    <2>2. QED  BY <2>1 DEF Enabled, Filters
<1>2. \A i \in 1..set : (i + 1) \div 2 \in 1..Len(c.filters)
    BY <1>1
<1>3. \A i \in 1..set : /\ item(i).name \in OfFilter /\ item(i).n \in Enabled(c)
                        /\ item(i).name = (IF i % 2 = 1 THEN "C1FLTOBJ" ELSE "C1MASK")
                        /\ item(i).n = c.filters[(i + 1) \div 2]
    BY <1>1, <1>2, WriteParts DEF OfFilter
<1>4. \A i \in 1..set : item(i) \in Writes
    <2> SUFFICES ASSUME NEW i \in 1..set PROVE item(i) \in Writes
        OBVIOUS
    <2>1. c.filters[(i + 1) \div 2] \in Nat /\ (IF i % 2 = 1 THEN "C1FLTOBJ" ELSE "C1MASK") \in OfFilter
        BY <1>1, <1>2 DEF OfFilter
    <2>2. QED  BY <2>1, WriteType
<1>5. s = [i \in 1..set |-> item(i)]
    BY DEF SetFilters
<1> HIDE DEF item, s
<1>6. s \in Seq(Writes) /\ Len(s) = set /\ \A i \in 1..set : s[i] = item(i)
    <2>1. s \in [1..set -> Writes] /\ set \in Nat
        BY <1>1, <1>4, <1>5
    <2>2. QED  BY <1>5, <2>1, SeqDef
<1>7. ASSUME NEW r \in OfFilter, NEW f \in Enabled(c)
      PROVE  \E i \in 1..set : s[i].name = r /\ s[i].n = f
    <2>1. PICK k \in 1..Len(c.filters) : c.filters[k] = f
        BY DEF Enabled
    <2>2. /\ 2 * k - 1 \in 1..set /\ (2 * k - 1) % 2 = 1 /\ ((2 * k - 1) + 1) \div 2 = k
          /\ 2 * k \in 1..set /\ (2 * k) % 2 = 0 /\ (2 * k + 1) \div 2 = k
        BY <1>1
    <2>3. CASE r = "C1FLTOBJ"
        <3>1. item(2 * k - 1).name = r /\ item(2 * k - 1).n = f
            BY <1>3, <2>1, <2>2, <2>3
        <3>2. QED  BY <1>6, <2>2, <3>1
    <2>4. CASE r = "C1MASK"
        <3>1. item(2 * k).name = r /\ item(2 * k).n = f
            BY <1>3, <2>1, <2>2, <2>4
        <3>2. QED  BY <1>6, <2>2, <3>1
    <2>5. QED  BY <2>3, <2>4 DEF OfFilter
<1>8. \A i \in 1..set : s[i].name \in OfFilter /\ s[i].n \in Enabled(c) /\ s[i].n \in Filters
    BY <1>1, <1>3, <1>6
<1>9. set = Items(c) /\ Items(c) \in Nat
    BY <1>1 DEF Items
<1> HIDE DEF set
<1>10. QED  BY <1>6, <1>7, <1>8, <1>9 DEF s

LEMMA Places ==
    ASSUME NEW w \in Nat, NEW s \in Nat
    PROVE  /\ w + s + w = 2 * w + s /\ \A i \in Nat : i - w \in 1..s => w + (i - w) = i
           /\ \A i \in Nat : i - (w + s) \in 1..w => w + s + (i - (w + s)) = i
           /\ \A i \in 1..(2 * w + s) : i \in 1..w \/ i - w \in 1..s \/ i - (w + s) \in 1..w
OBVIOUS

\* The words cleared, the filters set, the words set.
IsFilterList(w, c) ==
    /\ w \in Seq(Writes) /\ Len(w) = 2 * Words + Items(c)
    /\ \A i \in 1..Words : w[i] = Write("C1FLTCON", i - 1, {})
    /\ \A i \in 1..Items(c) : w[Words + i] = SetFilters(c)[i]
    /\ \A i \in 1..Words : w[Words + Items(c) + i] = Write("C1FLTCON", i - 1, Enabled(c) \cap InWord(i - 1))

LEMMA FilterShape ==
    ASSUME NEW c \in Calls
    PROVE  IsFilterList(FilterWrites(c), c)
<1> DEFINE set == Items(c)
           clear == [i \in 1..Words |-> Write("C1FLTCON", i - 1, {})]
           enable == [i \in 1..Words |-> Write("C1FLTCON", i - 1, Enabled(c) \cap InWord(i - 1))]
           s == SetFilters(c)
<1>1. Words \in Nat \ {0} /\ Enabled(c) \subseteq Filters
    BY CallTypes
<1>2. FilterWrites(c) = (clear \o s) \o enable
    BY DEF FilterWrites, ForWords
<1>3. \A i \in 1..Words : /\ Write("C1FLTCON", i - 1, {}) \in Writes
                          /\ Write("C1FLTCON", i - 1, Enabled(c) \cap InWord(i - 1)) \in Writes
    <2> SUFFICES ASSUME NEW i \in 1..Words
                 PROVE  /\ Write("C1FLTCON", i - 1, {}) \in Writes
                        /\ Write("C1FLTCON", i - 1, Enabled(c) \cap InWord(i - 1)) \in Writes
        OBVIOUS
    <2>1. i - 1 \in Nat /\ {} \in SUBSET Filters /\ Enabled(c) \cap InWord(i - 1) \in SUBSET Filters
        BY <1>1
    <2>2. QED  BY <2>1, WriteType
<1>4. clear \in Seq(Writes) /\ Len(clear) = Words
    <2>1. clear \in [1..Words -> Writes] /\ Words \in Nat
        BY <1>1, <1>3
    <2>2. QED  BY <2>1, SeqDef
<1>5. enable \in Seq(Writes) /\ Len(enable) = Words
    <2>1. enable \in [1..Words -> Writes] /\ Words \in Nat
        BY <1>1, <1>3
    <2>2. QED  BY <2>1, SeqDef
<1>6. s \in Seq(Writes) /\ Len(s) = set /\ set \in Nat
    BY SetShape
<1>7. /\ \A i \in 1..Words : clear[i] = Write("C1FLTCON", i - 1, {})
      /\ \A i \in 1..Words : enable[i] = Write("C1FLTCON", i - 1, Enabled(c) \cap InWord(i - 1))
    OBVIOUS
<1> HIDE DEF clear, enable, s
<1>8. Joined(clear \o s, clear, s)
    BY <1>4, <1>6, JoinShape
<1>9. Joined((clear \o s) \o enable, clear \o s, enable)
    BY <1>5, <1>8, JoinShape DEF Joined
<1>10. Len(clear \o s) = Words + set /\ set \in Nat /\ Words \in Nat
    BY <1>1, <1>4, <1>6, <1>8 DEF Joined
<1>11. /\ \A i \in 1..Words : ((clear \o s) \o enable)[i] = clear[i]
       /\ \A i \in 1..set : ((clear \o s) \o enable)[Words + i] = s[i]
    <2>1. \A i \in 1..(Words + set) : ((clear \o s) \o enable)[i] = (clear \o s)[i]
        BY <1>9, <1>10 DEF Joined
    <2>2. \A i \in 1..Words : (clear \o s)[i] = clear[i]
        BY <1>4, <1>8 DEF Joined
    <2>3. \A i \in 1..set : (clear \o s)[Words + i] = s[i]
        BY <1>4, <1>6, <1>8 DEF Joined
    <2>4. QED  BY <1>10, <2>1, <2>2, <2>3
<1>12. \A i \in 1..Words : ((clear \o s) \o enable)[Words + set + i] = enable[i]
    <2>1. \A i \in 1..Words : ((clear \o s) \o enable)[Len(clear \o s) + i] = enable[i]
        BY <1>5, <1>9 DEF Joined
    <2>2. \A i \in 1..Words : Len(clear \o s) + i = Words + set + i
        BY <1>10
    <2>3. QED  BY <2>1, <2>2
<1>13. (clear \o s) \o enable \in Seq(Writes) /\ Len((clear \o s) \o enable) = 2 * Words + set
    <2>1. /\ (clear \o s) \o enable \in Seq(Writes)
          /\ Len((clear \o s) \o enable) = Len(clear \o s) + Len(enable)
        BY <1>9 DEF Joined
    <2>2. Words + set + Words = 2 * Words + set
        BY <1>10, Places
    <2>3. QED  BY <1>5, <1>10, <2>1, <2>2
<1>14. QED  BY <1>2, <1>7, <1>11, <1>12, <1>13 DEF IsFilterList, s

-----------------------------------------------------------------------------
(* What a write does, and what is left.                                    *)

LEMMA WrittenShape ==
    ASSUME NEW c, NEW w
    PROVE  /\ w.name = "RESET" => Written(c, w) = AfterReset
           /\ w.name = "C1CON" => Written(c, w) = [c EXCEPT !.request = w.value]
           /\ w.name = "C1FLTCON" => Written(c, w) = [c EXCEPT !.enabled = (@ \ InWord(w.n)) \cup w.value]
           /\ w.name \in OfFilter => Written(c, w) = IF w.n \in c.enabled THEN c
                                                     ELSE [c EXCEPT !.holds = @ \cup {<<w.name, w.n>>}]
           /\ w.name \in Pins /\ w.value = "wanted" =>
                Written(c, w) = [c EXCEPT !.holds = @ \cup {Register(w.name)}]
           /\ w.name \in Late /\ w.value = "wanted" =>
                Written(c, w) \in {c, [c EXCEPT !.holds = @ \cup {Register(w.name)}]}
           /\ w.name \in Late /\ w.value = "wanted" /\ c.mode = 4 =>
                Written(c, w) = [c EXCEPT !.holds = @ \cup {Register(w.name)}]
           /\ w.name = "C1INT" /\ w.value = "off" => Written(c, w) = [c EXCEPT !.holds = @ \ {Register(w.name)}]
BY DEF Written, Pins, Late, OfFilter, ConfigOnly

LEMMA Popped ==
    ASSUME todo \in Seq(Writes), todo # <<>>, todo' = Tail(todo)
    PROVE  /\ todo' \in Seq(Writes) /\ Len(todo) \in Nat \ {0} /\ Len(todo') = Len(todo) - 1
           /\ Head(todo) = todo[1] /\ todo[1] \in Writes
           /\ \A i \in 1..Len(todo') : i + 1 \in 1..Len(todo) /\ todo'[i] = todo[i + 1]
           /\ \A i \in 1..Len(todo) : i # 1 => i - 1 \in 1..Len(todo') /\ todo'[i - 1] = todo[i]
BY HeadTailProperties

-----------------------------------------------------------------------------
(* The types, and what is left to write.                                   *)

LEMMA FilterListWrites ==
    ASSUME NEW c \in Calls, NEW i \in 1..Len(FilterWrites(c))
    PROVE  IsWrite("filters", c, FilterWrites(c)[i])
<1> DEFINE set == Items(c)
           w == FilterWrites(c)
<1>1. /\ Words \in Nat \ {0} /\ set \in Nat /\ Enabled(c) \subseteq Filters
      /\ IsFilterList(w, c)
      /\ \A k \in 1..set : SetFilters(c)[k].name \in OfFilter /\ SetFilters(c)[k].n \in Filters
    <2>1. /\ Words \in Nat \ {0} /\ Enabled(c) \subseteq Filters
        BY CallTypes
    <2>2. Len(SetFilters(c)) = set /\ set \in Nat /\ \A k \in 1..Len(SetFilters(c)) :
              SetFilters(c)[k].name \in OfFilter /\ SetFilters(c)[k].n \in Filters
        BY SetShape
    <2>3. IsFilterList(w, c)
        BY FilterShape
    <2>4. QED  BY <2>1, <2>2, <2>3
<1>p. /\ \A k \in Nat : k - Words \in 1..set => Words + (k - Words) = k
      /\ \A k \in Nat : k - (Words + set) \in 1..Words => Words + set + (k - (Words + set)) = k
      /\ \A k \in 1..(2 * Words + set) : k \in 1..Words \/ k - Words \in 1..set \/ k - (Words + set) \in 1..Words
      /\ i \in Nat /\ i \in 1..(2 * Words + set)
    <2>1. set \in Nat /\ Words \in Nat
        BY <1>1
    <2>2. i \in 1..(2 * Words + set)
        BY <1>1 DEF IsFilterList
    <2>3. i \in Nat
        BY <2>1, <2>2
    <2>4. QED  BY <2>1, <2>2, <2>3, Places
<1> HIDE DEF w
<1>2. CASE i \in 1..Words
    <2>1. w[i] = Write("C1FLTCON", i - 1, {})
        BY <1>1, <1>2 DEF IsFilterList
    <2>2. w[i].name = "C1FLTCON" /\ w[i].value = {}
        BY <2>1, WriteParts
    <2>3. QED  BY <2>2 DEF IsWrite, w
<1>3. CASE i - Words \in 1..set
    <2>1. w[Words + (i - Words)] = SetFilters(c)[i - Words] /\ Words + (i - Words) = i
        BY <1>1, <1>3, <1>p DEF IsFilterList
    <2>2. w[i].name \in OfFilter /\ w[i].n \in Filters
        BY <1>1, <1>3, <2>1
    <2>3. QED  BY <2>2 DEF IsWrite, w
<1>4. CASE i - (Words + set) \in 1..Words
    <2> DEFINE k == i - (Words + set)
    <2>1. w[Words + set + k] = Write("C1FLTCON", k - 1, Enabled(c) \cap InWord(k - 1)) /\ Words + set + k = i
        BY <1>1, <1>4, <1>p DEF IsFilterList
    <2>2. w[i].name = "C1FLTCON" /\ w[i].n = k - 1 /\ w[i].value = Enabled(c) \cap InWord(k - 1)
        BY <2>1, WriteParts
    <2>3. QED  BY <1>1, <2>2 DEF IsWrite, w
<1>5. i \in 1..Words \/ i - Words \in 1..set \/ i - (Words + set) \in 1..Words
    BY <1>1, <1>p
<1>6. QED  BY <1>2, <1>3, <1>4, <1>5

\* What a step does to the setup: a write is taken from the list, the chip enters its mode,
\* a call begins, or the next stage or try does.
Taken ==
    /\ WriteWord \/ LoseWrite
    /\ todo # <<>> /\ todo' = Tail(todo) /\ UNCHANGED <<stage, call, table>>
Entered == chip' = [chip EXCEPT !.mode = chip.request] /\ UNCHANGED <<stage, call, todo, table, lost>>
Quiet == UNCHANGED <<chip, stage, call, todo, table, lost>>
Called ==
    /\ stage' = "pins" /\ call' \in Calls /\ todo' = PinWrites(call')
    /\ chip' = [chip EXCEPT !.holds = @ \cap Fixed] /\ table' = table
Asked(q) == todo' \in Seq(Writes) /\ Len(todo') = 1 /\ todo'[1] = Write("C1CON", 0, q)
GoesOn(s, t) == todo = <<>> /\ stage = s /\ stage' = t /\ UNCHANGED <<chip, call, lost>>
Configures ==
    /\ \/ GoesOn("pins", "config") /\ PinsAsAsked
       \/ GoesOn("config", "config")
    /\ Asked(4) /\ table' = table
FiltersNext == GoesOn("config", "filters") /\ chip.mode = 4 /\ todo' = FilterWrites(call) /\ table' = table
Initialises == GoesOn("filters", "check") /\ todo' = <<>> /\ table' = "initialised"
ModeNext == GoesOn("check", "mode") /\ chip.mode = 4 /\ todo' = ModeWrites(call) /\ table' = table
AsksAgain == GoesOn("mode", "mode") /\ Asked(Reqop(call.mode)) /\ table' = table
Stops ==
    /\ stage' = "stop" /\ todo' = Request(4) \o <<Write("C1INT", 0, "off")>>
    /\ UNCHANGED <<chip, call, table>>

Step ==
    \/ Taken \/ Entered \/ Quiet \/ Called \/ Configures \/ FiltersNext \/ Initialises
    \/ ModeNext \/ AsksAgain \/ Stops

LEMMA StepShape ==
    ASSUME SetupTypes, [Next]_vars
    PROVE  Step
<1>1. call \in Calls
    BY DEF SetupTypes
<1>2. /\ Request(4) \in Seq(Writes) /\ Len(Request(4)) = 1 /\ Request(4)[1] = Write("C1CON", 0, 4)
      /\ Request(Reqop(call.mode)) \in Seq(Writes) /\ Len(Request(Reqop(call.mode))) = 1
      /\ Request(Reqop(call.mode))[1] = Write("C1CON", 0, Reqop(call.mode))
    BY <1>1, CallTypes, RequestShape DEF Reqops
<1>3. ReadMode = 4 => chip.mode = 4
    BY DEF ReadMode
<1>4. CASE WriteWord \/ LoseWrite
    <2>1. Taken
        BY <1>4 DEF WriteWord, LoseWrite, Taken
    <2>2. QED  BY <2>1 DEF Step
<1>5. CASE ChipMode
    <2>1. Entered
        BY <1>5 DEF ChipMode, Entered
    <2>2. QED  BY <2>1 DEF Step
<1>6. CASE BadCrc \/ Stopped \/ SetupRefused \/ UNCHANGED vars
    <2>1. Quiet
        BY <1>6 DEF BadCrc, Stopped, SetupRefused, Return, vars, Quiet
    <2>2. QED  BY <2>1 DEF Step
<1>7. CASE PinsVerified
    <2>1. Quiet \/ Configures
        BY <1>2, <1>7 DEF PinsVerified, At, Proceed, Return, Quiet, Configures, GoesOn, Asked
    <2>2. QED  BY <2>1 DEF Step
<1>8. CASE ConfigMode
    <2>1. Quiet \/ Configures \/ FiltersNext
        BY <1>2, <1>3, <1>8
           DEF ConfigMode, At, Proceed, Again, Return, Quiet, Configures, FiltersNext, GoesOn, Asked
    <2>2. QED  BY <2>1 DEF Step
<1>9. CASE InitTables
    <2>1. Initialises
        BY <1>9 DEF InitTables, At, Proceed, Initialises, GoesOn
    <2>2. QED  BY <2>1 DEF Step
<1>10. CASE StillConfigured
    <2>1. Quiet \/ ModeNext
        BY <1>3, <1>10 DEF StillConfigured, At, Proceed, Return, Quiet, ModeNext, GoesOn
    <2>2. QED  BY <2>1 DEF Step
<1>11. CASE ModeEntered
    <2>1. Quiet \/ AsksAgain
        BY <1>2, <1>11 DEF ModeEntered, At, Again, Return, Quiet, AsksAgain, GoesOn, Asked
    <2>2. QED  BY <2>1 DEF Step
<1>12. CASE Stop
    <2>1. Stops
        BY <1>12 DEF Stop, Proceed, Stops
    <2>2. QED  BY <2>1 DEF Step
<1>13. ASSUME NEW c \in Calls, Setup(c)
       PROVE  Step
    <2>1. Called
        BY <1>13 DEF Setup, Proceed, Called
    <2>2. QED  BY <2>1 DEF Step
<1>14. QED
    BY <1>4, <1>5, <1>6, <1>7, <1>8, <1>9, <1>10, <1>11, <1>12, <1>13 DEF Next, Driver

LEMMA NextTodo ==
    ASSUME SetupTypes, [Next]_vars
    PROVE  todo' \in Seq(Writes) /\ call' \in Calls
<1>1. todo \in Seq(Writes) /\ call \in Calls /\ Step
    BY StepShape DEF SetupTypes
<1>2. Taken => todo' \in Seq(Writes) /\ call' \in Calls
    BY <1>1, Popped DEF Taken
<1>3. Called => todo' \in Seq(Writes) /\ call' \in Calls
    BY PinShape DEF Called, Plain
<1>4. FiltersNext => todo' \in Seq(Writes) /\ call' \in Calls
    BY <1>1, FilterShape DEF FiltersNext, GoesOn, IsFilterList
<1>5. ModeNext => todo' \in Seq(Writes) /\ call' \in Calls
    BY <1>1, ModeShape DEF ModeNext, GoesOn
<1>6. Stops => todo' \in Seq(Writes) /\ call' \in Calls
    <2>1. Request(4) \in Seq(Writes) /\ <<Write("C1INT", 0, "off")>> \in Seq(Writes)
        BY RequestShape, WriteType DEF Reqops
    <2>2. Request(4) \o <<Write("C1INT", 0, "off")>> \in Seq(Writes)
        BY <2>1, ConcatProperties
    <2>3. QED  BY <1>1, <2>2 DEF Stops
<1>7. Entered \/ Quiet \/ Configures \/ Initialises \/ AsksAgain => todo' \in Seq(Writes) /\ call' \in Calls
    BY <1>1 DEF Entered, Quiet, Configures, Initialises, AsksAgain, GoesOn, Asked
<1>8. QED  BY <1>1, <1>2, <1>3, <1>4, <1>5, <1>6, <1>7 DEF Step

LEMMA NextStageWrites == SetupTypes /\ StageWrites /\ [Next]_vars => StageWrites'
<1> SUFFICES ASSUME SetupTypes, StageWrites, [Next]_vars, NEW i \in 1..Len(todo')
             PROVE  IsWrite(stage', call', todo'[i])
    BY DEF StageWrites, Awaited
<1>1. /\ todo \in Seq(Writes) /\ call \in Calls /\ Step
      /\ \A k \in 1..Len(todo) : IsWrite(stage, call, todo[k])
    BY StepShape DEF SetupTypes, StageWrites, Awaited
<1>2. CASE Taken
    <2>1. i + 1 \in 1..Len(todo) /\ todo'[i] = todo[i + 1]
        BY <1>1, <1>2, Popped DEF Taken
    <2>2. QED  BY <1>1, <1>2, <2>1 DEF Taken
<1>3. CASE Entered \/ Quiet
    BY <1>1, <1>3 DEF Entered, Quiet
<1>4. CASE Called
    BY <1>4, PinShape DEF Called, Plain, IsWrite
<1>5. CASE Configures
    <2>1. i = 1 /\ stage' = "config"
        BY <1>5 DEF Configures, GoesOn, Asked
    <2>2. QED  BY <1>5, <2>1 DEF Configures, Asked, IsWrite
<1>6. CASE FiltersNext
    BY <1>1, <1>6, FilterListWrites DEF FiltersNext, GoesOn
<1>7. CASE Initialises
    BY <1>7 DEF Initialises
<1>8. CASE ModeNext
    <2>1. /\ Len(todo') = 7 /\ todo'[7] = Write("C1CON", 0, Reqop(call.mode))
          /\ \A k \in 1..6 : todo'[k].name \in Late /\ todo'[k].n = 0 /\ todo'[k].value = "wanted"
          /\ stage' = "mode" /\ call' = call
        BY <1>1, <1>8, ModeShape DEF ModeNext, GoesOn
    <2>2. CASE i = 7
        BY <2>1, <2>2 DEF IsWrite
    <2>3. CASE i \in 1..6
        BY <2>1, <2>3 DEF IsWrite
    <2>4. QED  BY <2>1, <2>2, <2>3
<1>9. CASE AsksAgain
    <2>1. i = 1 /\ stage' = "mode" /\ call' = call
        BY <1>9 DEF AsksAgain, GoesOn, Asked
    <2>2. QED  BY <1>9, <2>1 DEF AsksAgain, Asked, IsWrite
<1>10. CASE Stops
    <2> DEFINE p == Write("C1CON", 0, 4)
               q == Write("C1INT", 0, "off")
    <2>1. todo' = <<p>> \o <<q>> /\ stage' = "stop"
        BY <1>10 DEF Stops, Request
    <2> HIDE DEF p, q
    <2>2. Len(todo') = 2 /\ todo'[1] = p /\ todo'[2] = q
        <3>1. <<p>> \in Seq({p, q}) /\ <<q>> \in Seq({p, q}) /\ Len(<<p>>) = 1 /\ Len(<<q>>) = 1
            OBVIOUS
        <3>2. QED  BY <2>1, <3>1, ConcatProperties
    <2>3. todo'[i] \in {p, q}
        BY <2>2
    <2>4. QED  BY <2>1, <2>3 DEF IsWrite, p, q
<1>11. QED
    BY <1>1, <1>2, <1>3, <1>4, <1>5, <1>6, <1>7, <1>8, <1>9, <1>10 DEF Step

LEMMA WordWritten ==
    ASSUME SetupTypes, StageWrites, WriteWord
    PROVE  /\ IsWrite(stage, call, todo[1]) /\ todo[1] \in Writes /\ 1 \in Awaited
           /\ chip' = Written(chip, todo[1]) /\ chip' \in ChipType
<1> DEFINE w == todo[1]
<1>1. /\ todo \in Seq(Writes) /\ todo # <<>> /\ todo' = Tail(todo) /\ chip' = Written(chip, Head(todo))
      /\ chip \in ChipType /\ call \in Calls
    BY DEF WriteWord, SetupTypes
<1>2. Len(todo) \in Nat \ {0} /\ Head(todo) = w /\ w \in Writes
    BY <1>1, Popped
<1>3. 1 \in Awaited /\ IsWrite(stage, call, w)
    BY <1>2 DEF StageWrites, Awaited
<1> HIDE DEF w
<1>4. w.name \in Names /\ w.n \in Nat /\ <<w.name, w.n>> \in Names \X Nat /\ Register(w.name) \in Names \X Nat
    <2>1. w.name \in Names /\ w.n \in Nat /\ 0 \in Nat
        BY <1>2 DEF Writes
    <2>2. QED  BY <2>1 DEF Register
<1>5. /\ Written(chip, w) \in ChipType
    <2>1. CASE w.name = "RESET"
        BY <2>1, WrittenShape DEF AfterReset, ChipType, Reqops
    <2>2. CASE w.name = "C1CON"
        <3>1. w \in {Write("C1CON", 0, 4), Write("C1CON", 0, Reqop(call.mode)), Write("C1INT", 0, "off")}
            BY <1>3, <2>2 DEF IsWrite, Pins, Late, OfFilter
        <3>2. w.value = 4 \/ w.value = Reqop(call.mode)
            BY <2>2, <3>1, WriteParts
        <3>3. w.value \in Reqops
            BY <1>1, <3>2, CallTypes DEF Reqops
        <3>4. QED  BY <1>1, <2>2, <3>3, WrittenShape DEF ChipType
    <2>3. CASE w.name = "C1FLTCON"
        <3>1. w.value \subseteq Filters
            BY <1>3, <2>3, WriteParts DEF IsWrite, Pins, Late, OfFilter
        <3>2. QED  BY <1>1, <2>3, <3>1, WrittenShape DEF ChipType
    <2>4. CASE w.name \in OfFilter
        <3>1. Written(chip, w) \in {chip, [chip EXCEPT !.holds = @ \cup {<<w.name, w.n>>}]}
            BY <2>4, WrittenShape
        <3>2. [chip EXCEPT !.holds = @ \cup {<<w.name, w.n>>}] \in ChipType
            BY <1>1, <1>4 DEF ChipType
        <3>3. QED  BY <1>1, <3>1, <3>2
    <2>5. CASE w.name \in Pins
        <3>1. w.value = "wanted"
            BY <1>3, <2>5, WriteParts DEF IsWrite, Pins, Late, OfFilter
        <3>2. QED  BY <1>1, <1>4, <2>5, <3>1, WrittenShape DEF ChipType
    <2>6. CASE w.name \in Late
        <3>1. w.value = "wanted" \/ (w.name = "C1INT" /\ w.value = "off")
            BY <1>3, <2>6, WriteParts DEF IsWrite, Pins, Late, OfFilter
        <3>2. Written(chip, w) \in {chip, [chip EXCEPT !.holds = @ \cup {Register(w.name)}],
                                    [chip EXCEPT !.holds = @ \ {Register(w.name)}]}
            BY <2>6, <3>1, WrittenShape
        <3>3. /\ [chip EXCEPT !.holds = @ \cup {Register(w.name)}] \in ChipType
              /\ [chip EXCEPT !.holds = @ \ {Register(w.name)}] \in ChipType
            BY <1>1, <1>4 DEF ChipType
        <3>4. QED  BY <1>1, <3>2, <3>3
    <2>7. QED  BY <1>4, <2>1, <2>2, <2>3, <2>4, <2>5, <2>6 DEF Names
<1>6. QED  BY <1>1, <1>2, <1>3, <1>5 DEF w

LEMMA NextSetupTypes == SetupTypes /\ StageWrites /\ [Next]_vars => SetupTypes'
<1> SUFFICES ASSUME SetupTypes, StageWrites, [Next]_vars PROVE SetupTypes'
    OBVIOUS
<1>1. todo' \in Seq(Writes) /\ call' \in Calls /\ Step
    BY NextTodo, StepShape
<1>2. chip \in ChipType /\ lost \in Nat /\ stage \in {"pins", "config", "filters", "check", "mode", "stop"}
    BY DEF SetupTypes
<1>3. stage' \in {"pins", "config", "filters", "check", "mode", "stop"}
    BY <1>1, <1>2 DEF Step, Taken, Entered, Quiet, Called, Configures, FiltersNext, Initialises, ModeNext,
                      AsksAgain, Stops, GoesOn
<1>4. chip' \in ChipType
    <2>1. Entered => chip' \in ChipType
        BY <1>2 DEF Entered, ChipType
    <2>2. Called => chip' \in ChipType
        BY <1>2 DEF Called, ChipType
    <2>3. Taken => chip' \in ChipType
        BY <1>2, WordWritten DEF Taken, LoseWrite
    <2>4. Quiet \/ Configures \/ FiltersNext \/ Initialises \/ ModeNext \/ AsksAgain \/ Stops => chip' \in ChipType
        BY <1>2 DEF Quiet, Configures, FiltersNext, Initialises, ModeNext, AsksAgain, Stops, GoesOn
    <2>5. QED  BY <1>1, <2>1, <2>2, <2>3, <2>4 DEF Step
<1>5. lost' \in Nat
    <2>1. lost' = lost \/ lost' = lost + 1 \/ lost' = 0
        BY DEF Next, Driver, ChipMode, WriteWord, LoseWrite, BadCrc, PinsVerified, ConfigMode, InitTables,
               StillConfigured, ModeEntered, Stopped, Stop, Setup, SetupRefused, Return, vars
    <2>2. QED  BY <1>2, <2>1
<1>6. QED  BY <1>1, <1>3, <1>4, <1>5 DEF SetupTypes

\* Where no write has been lost, the one taken has been made.
LEMMA TakenIsWritten ==
    ASSUME SetupTypes, StageWrites, Taken, lost' = 0
    PROVE  WriteWord /\ lost = 0
BY DEF SetupTypes, Taken, WriteWord, LoseWrite

-----------------------------------------------------------------------------
(* The pins.                                                               *)

\* Once the pins have been verified nothing takes a value away.
LEMMA WritesAdd ==
    ASSUME SetupTypes, StageWrites, WriteWord, stage \in {"config", "filters", "check", "mode"}
    PROVE  chip.holds \subseteq chip'.holds /\ chip'.mode = chip.mode
<1> DEFINE w == todo[1]
<1>1. /\ IsWrite(stage, call, w) /\ w \in Writes /\ chip' = Written(chip, w) /\ chip \in ChipType
    BY WordWritten DEF SetupTypes
<1> HIDE DEF w
<1>2. CASE w.name = "C1CON"
    BY <1>1, <1>2, WrittenShape DEF ChipType
<1>3. CASE w.name = "C1FLTCON"
    BY <1>1, <1>3, WrittenShape DEF ChipType
<1>4. CASE w.name \in OfFilter
    BY <1>1, <1>4, WrittenShape DEF ChipType
<1>5. CASE w.name \in Late /\ w.value = "wanted"
    BY <1>1, <1>5, WrittenShape DEF ChipType
<1>6. w.name = "C1CON" \/ w.name = "C1FLTCON" \/ w.name \in OfFilter \/ (w.name \in Late /\ w.value = "wanted")
    BY <1>1, WriteParts DEF IsWrite
<1>7. QED  BY <1>2, <1>3, <1>4, <1>5, <1>6

LEMMA ResetComesFirst ==
    ASSUME SetupTypes, StageWrites, PinsKept, Step, NEW i \in 1..Len(todo'), todo'[i].name = "RESET",
           StageWrites'
    PROVE  i = 1 /\ \A p \in Pins : \E k \in 1..Len(todo') : todo'[k].name = p
<1>1. todo \in Seq(Writes) /\ \A k \in 1..Len(todo) : todo[k].name = "RESET" => k = 1
    BY DEF SetupTypes, PinsKept, Awaited
<1>2. stage' = "pins"
    <2>1. IsWrite(stage', call', todo'[i])
        BY DEF StageWrites, Awaited
    <2>2. QED  BY <2>1, WriteParts DEF IsWrite, Late, OfFilter
<1>3. CASE Taken
    <2>1. i + 1 \in 1..Len(todo) /\ todo'[i] = todo[i + 1]
        BY <1>1, <1>3, Popped DEF Taken
    <2>2. QED  BY <1>1, <2>1
<1>4. CASE Entered \/ Quiet
    <2>1. todo' = todo
        BY <1>4 DEF Entered, Quiet
    <2>2. QED  BY <2>1 DEF PinsKept, Awaited, Pending
<1>5. CASE Called
    BY <1>5, PinShape DEF Called
<1>6. QED
    BY <1>2, <1>3, <1>4, <1>5 DEF Step, Configures, FiltersNext, Initialises, ModeNext, AsksAgain, Stops, GoesOn

\* A pin is written, or its write is still to come.
LEMMA PinsCome ==
    ASSUME SetupTypes, StageWrites, PinsKept, Step, stage' = "pins", lost' = 0, NEW p \in Pins
    PROVE  Register(p) \in chip'.holds \/ \E k \in 1..Len(todo') : todo'[k].name = p
<1>1. todo \in Seq(Writes) /\ chip \in ChipType
    BY DEF SetupTypes
<1>2. CASE Taken
    <2> DEFINE w == todo[1]
    <2>1. stage = "pins" /\ WriteWord /\ lost = 0
        BY <1>2, TakenIsWritten DEF Taken
    <2>2. Register(p) \in chip.holds \/ \E k \in 1..Len(todo) : todo[k].name = p
        BY <2>1 DEF PinsKept, Held, Pending, Awaited
    <2>3. /\ chip' = Written(chip, w) /\ IsWrite("pins", call, w) /\ 1 \in 1..Len(todo)
        BY <2>1, WordWritten DEF Awaited
    <2>4. w.name \in {"RESET"} \cup Pins /\ w.value = "wanted"
        BY <2>3 DEF IsWrite
    <2>5. ASSUME NEW k \in 1..Len(todo), todo[k].name = p, k # 1
          PROVE  \E j \in 1..Len(todo') : todo'[j].name = p
        <3>1. k - 1 \in 1..Len(todo') /\ todo'[k - 1] = todo[k]
            BY <1>1, <1>2, <2>5, Popped DEF Taken
        <3>2. QED  BY <2>5, <3>1
    <2>6. CASE w.name = "RESET"
        <3>1. PICK k \in 1..Len(todo) : todo[k].name = p
            BY <2>3, <2>6 DEF PinsKept, Awaited, Pending
        <3>2. k # 1
            BY <2>6, <3>1 DEF Pins
        <3>3. QED  BY <2>5, <3>1, <3>2
    <2>7. CASE w.name \in Pins
        <3>1. chip'.holds = chip.holds \cup {Register(w.name)}
            BY <1>1, <2>3, <2>4, <2>7, WrittenShape DEF ChipType
        <3>2. QED  BY <2>2, <2>5, <3>1
    <2>8. QED  BY <2>4, <2>6, <2>7
<1>3. CASE Entered \/ Quiet
    <2>1. stage = "pins" /\ lost = 0 /\ todo' = todo /\ chip'.holds = chip.holds
        BY <1>1, <1>3 DEF Entered, Quiet, ChipType
    <2>2. QED  BY <2>1 DEF PinsKept, Held, Pending, Awaited
<1>4. CASE Called
    BY <1>4, PinShape DEF Called
<1>5. QED
    BY <1>2, <1>3, <1>4 DEF Step, Configures, FiltersNext, Initialises, ModeNext, AsksAgain, Stops, GoesOn

LEMMA NextPinsKept ==
    SetupTypes /\ StageWrites /\ PinsKept /\ [Next]_vars => PinsKept'
<1> SUFFICES ASSUME SetupTypes, StageWrites, PinsKept, [Next]_vars PROVE PinsKept'
    OBVIOUS
<1>1. Step /\ StageWrites' /\ chip \in ChipType
    BY StepShape, NextStageWrites DEF SetupTypes
<1>2. \A i \in Awaited' : todo'[i].name = "RESET" => i = 1 /\ \A p \in Pins : Pending(p)'
    BY <1>1, ResetComesFirst DEF Awaited, Pending
<1>3. stage' = "pins" /\ lost' = 0 => \A p \in Pins : Held(p)' \/ Pending(p)'
    BY <1>1, PinsCome DEF Awaited, Pending, Held
<1>4. ASSUME stage' \in {"config", "filters", "check", "mode"}
      PROVE  Held("IOCON0")' /\ Held("IOCON3")' /\ (lost' = 0 => \A p \in Pins : Held(p)')
    <2>1. CASE GoesOn("pins", "config") /\ PinsAsAsked
        <3>1. stage = "pins" /\ todo = <<>> /\ chip' = chip /\ lost' = lost /\ PinsAsAsked
            BY <2>1 DEF GoesOn
        <3>2. \A p \in Pins : ~Pending(p)
            BY <3>1 DEF Pending, Awaited
        <3>3. Held("IOCON0") /\ Held("IOCON3")
            BY <3>1 DEF PinsAsAsked, Held
        <3>4. lost = 0 => \A p \in Pins : Held(p)
            BY <3>1, <3>2 DEF PinsKept
        <3>5. QED  BY <3>1, <3>3, <3>4 DEF Held
    <2>2. CASE stage \in {"config", "filters", "check", "mode"} /\ chip.holds \subseteq chip'.holds
               /\ (lost' = 0 => lost = 0)
        <3>1. Held("IOCON0") /\ Held("IOCON3") /\ (lost = 0 => \A p \in Pins : Held(p))
            BY <2>2 DEF PinsKept
        <3>2. QED  BY <2>2, <3>1 DEF Held
    <2>3. Taken => stage = stage' /\ (lost' = 0 => lost = 0) /\ chip.holds \subseteq chip'.holds
        <3>1. Taken => stage = stage' /\ (WriteWord \/ chip' = chip)
            BY DEF Taken, LoseWrite
        <3>2. QED  BY <1>4, <3>1, TakenIsWritten, WritesAdd
    <2>4. Entered \/ Quiet => stage' = stage /\ lost' = lost /\ chip'.holds = chip.holds
        BY <1>1 DEF Entered, Quiet, ChipType
    <2>5. GoesOn("config", "config") \/ FiltersNext \/ Initialises \/ ModeNext \/ AsksAgain
            => stage \in {"config", "filters", "check", "mode"} /\ lost' = lost /\ chip' = chip
        BY DEF GoesOn, FiltersNext, Initialises, ModeNext, AsksAgain
    <2>6. ~Called /\ ~Stops
        BY <1>4 DEF Called, Stops
    <2>7. QED  BY <1>1, <1>4, <2>1, <2>2, <2>3, <2>4, <2>5, <2>6 DEF Step, Configures
<1>5. QED  BY <1>2, <1>3, <1>4 DEF PinsKept

-----------------------------------------------------------------------------
(* Configuration mode and the filters.                                     *)

LEMMA NextConfigKept ==
    SetupTypes /\ StageWrites /\ ConfigKept /\ [Next]_vars => ConfigKept'
<1> SUFFICES ASSUME SetupTypes, StageWrites, ConfigKept, [Next]_vars, lost' = 0,
                    stage' \in {"config", "filters", "check"}
             PROVE  /\ stage' = "config" => chip'.request = 4 \/ todo' # <<>>
                    /\ stage' \in {"filters", "check"} => chip'.mode = 4 /\ chip'.request = 4
    BY DEF ConfigKept
<1>1. Step /\ chip \in ChipType
    BY StepShape DEF SetupTypes
<1>2. CASE Taken
    <2> DEFINE w == todo[1]
    <2>1. WriteWord /\ lost = 0 /\ stage' = stage
        BY <1>2, TakenIsWritten DEF Taken
    <2>2. IsWrite(stage, call, w) /\ chip' = Written(chip, w)
        BY <2>1, WordWritten
    <2> HIDE DEF w
    <2>3. CASE stage = "config"
        <3>1. w = Write("C1CON", 0, 4)
            BY <2>2, <2>3 DEF IsWrite
        <3>2. w.name = "C1CON" /\ w.value = 4
            BY <3>1, WriteParts
        <3>3. chip'.request = 4
            BY <1>1, <2>2, <3>2, WrittenShape DEF ChipType
        <3>4. QED  BY <2>1, <2>3, <3>3
    <2>4. CASE stage = "filters"
        <3>1. w.name = "C1FLTCON" \/ w.name \in OfFilter
            BY <2>2, <2>4 DEF IsWrite
        <3>2. chip'.mode = chip.mode /\ chip'.request = chip.request
            BY <1>1, <2>2, <3>1, WrittenShape DEF ChipType
        <3>3. QED  BY <2>1, <2>4, <3>2 DEF ConfigKept
    <2>5. CASE stage = "check"
        BY <2>2, <2>5 DEF IsWrite
    <2>6. QED  BY <2>1, <2>3, <2>4, <2>5
<1>3. CASE Entered
    BY <1>1, <1>3 DEF Entered, ChipType, ConfigKept
<1>4. CASE Quiet
    BY <1>4 DEF Quiet, ConfigKept
<1>5. CASE Configures
    <2>1. todo' # <<>> /\ stage' = "config"
        BY <1>5 DEF Configures, Asked, GoesOn
    <2>2. QED  BY <2>1
<1>6. CASE FiltersNext
    BY <1>6 DEF FiltersNext, GoesOn, ConfigKept
<1>7. CASE Initialises
    BY <1>7 DEF Initialises, GoesOn, ConfigKept
<1>8. QED
    BY <1>1, <1>2, <1>3, <1>4, <1>5, <1>6, <1>7 DEF Step, Called, ModeNext, AsksAgain, Stops, GoesOn

\* The next write of the list, and what it does.
LEMMA NextWordWritten ==
    ASSUME SetupTypes, StageWrites, WriteWord, stage = "filters",
           NEW n \in 0..Len(FilterWrites(call)), FiltersAfter(n)
    PROVE  n + 1 \in 0..Len(FilterWrites(call)) /\ FiltersAfter(n + 1)'
<1> DEFINE w == todo[1]
           all == FilterWrites(call)
           items == SetFilters(call)
           set == Items(call)
<1>1. /\ todo \in Seq(Writes) /\ todo # <<>> /\ todo' = Tail(todo) /\ call' = call /\ stage' = stage
      /\ chip \in ChipType /\ call \in Calls
    BY DEF WriteWord, SetupTypes
<1>2. /\ Words \in Nat \ {0} /\ Enabled(call) \subseteq Filters
      /\ IsFilterList(all, call)
    BY <1>1, CallTypes, FilterShape
<1>3. set \in Nat /\ \A k \in 1..set : items[k].name \in OfFilter /\ items[k].n \in Filters
    <2>1. Len(items) = set /\ set \in Nat /\ \A k \in 1..Len(items) : items[k].name \in OfFilter /\ items[k].n \in Filters
        BY <1>1, SetShape
    <2>2. QED  BY <2>1
<1>4. /\ Len(todo) \in Nat \ {0} /\ Len(todo') = Len(todo) - 1
      /\ \A i \in 1..Len(todo') : i + 1 \in 1..Len(todo) /\ todo'[i] = todo[i + 1]
    BY <1>1, Popped
<1>5. Len(all) \in Nat /\ n \in Nat /\ Len(todo) = Len(all) - n /\ \A i \in 1..Len(todo) : todo[i] = all[n + i]
    BY <1>2, <1>3 DEF FiltersAfter, LeftOf, Awaited, IsFilterList
<1>6. chip' = Written(chip, w) /\ chip.enabled \subseteq Filters
    BY <1>1, WordWritten DEF ChipType
<1>7. n + 1 \in 1..Len(all) /\ w = all[n + 1]
    BY <1>4, <1>5
<1>8. LeftOf(all, n + 1)'
    <2>1. Len(todo') = Len(all) - (n + 1)
        BY <1>4, <1>5
    <2>2. \A i \in 1..Len(todo') : todo'[i] = all[(n + 1) + i]
        <3> SUFFICES ASSUME NEW i \in 1..Len(todo') PROVE todo'[i] = all[(n + 1) + i]
            OBVIOUS
        <3>1. i + 1 \in 1..Len(todo) /\ todo'[i] = todo[i + 1] /\ n + (i + 1) = (n + 1) + i
            BY <1>4, <1>5
        <3>2. QED  BY <1>5, <3>1
    <2>3. QED  BY <1>1, <2>1, <2>2 DEF LeftOf, Awaited
<1>9. /\ \A f \in chip.enabled : n < Words + set => f >= 4 * n
      /\ n >= Words => chip.enabled = {f \in Enabled(call) : f < 4 * (n - Words - set)}
      /\ \A i \in 1..set : i <= n - Words => <<items[i].name, items[i].n>> \in chip.holds
    BY DEF FiltersAfter, AfterWrites
<1>10. \A f \in Filters : f \in Nat /\ f < 4 * Words
    BY <1>2 DEF Filters
<1> DEFINE done(m) ==
             /\ \A f \in chip'.enabled : m < Words + set => f >= 4 * m
             /\ m >= Words => chip'.enabled = {f \in Enabled(call) : f < 4 * (m - Words - set)}
             /\ \A i \in 1..set : i <= m - Words => <<items[i].name, items[i].n>> \in chip'.holds
<1> HIDE DEF w, all, items
<1>12. ASSUME NEW m, m = n + 1, m \in 1..Words
       PROVE  done(m)
    <2>1. w = Write("C1FLTCON", n, {})
        BY <1>2, <1>3, <1>5, <1>7, <1>12 DEF IsFilterList
    <2>2. w.name = "C1FLTCON" /\ w.n = n /\ w.value = {}
        BY <2>1, WriteParts
    <2>3. chip'.enabled = chip.enabled \ InWord(n) /\ chip'.holds = chip.holds
        BY <1>1, <1>6, <2>2, WrittenShape DEF ChipType
    <2>4. \A f \in chip'.enabled : f >= 4 * m
        <3> SUFFICES ASSUME NEW f \in chip'.enabled PROVE f >= 4 * m
            OBVIOUS
        <3>1. f \in chip.enabled /\ f \notin 4 * n .. 4 * n + 3 /\ f \in Nat
            BY <1>6, <1>10, <2>3 DEF InWord
        <3>2. n < Words + set
            BY <1>2, <1>3, <1>5, <1>12
        <3>3. f >= 4 * n
            BY <1>9, <3>1, <3>2
        <3>4. QED  BY <1>5, <1>12, <3>1, <3>3
    <2>5. m >= Words => chip'.enabled = {f \in Enabled(call) : f < 4 * (m - Words - set)}
        <3> SUFFICES ASSUME m = Words PROVE chip'.enabled = {f \in Enabled(call) : f < 4 * (m - Words - set)}
            BY <1>12, <1>2
        <3>0. chip'.enabled \subseteq Filters /\ m = Words
            BY <1>6, <2>3
        <3>1. chip'.enabled = {}
            BY <1>2, <1>10, <1>6, <1>12, <2>3, <2>4, <3>0
        <3>2. 4 * (m - Words - set) <= 0 /\ 4 * (m - Words - set) \in Int
            BY <1>2, <1>3, <1>5, <1>12
        <3>3. \A f \in Enabled(call) : ~(f < 4 * (m - Words - set))
            BY <1>2, <1>3, <1>10, <3>2
        <3>4. QED  BY <3>1, <3>3
    <2>6. \A i \in 1..set : ~(i <= m - Words)
        BY <1>2, <1>3, <1>5, <1>12
    <2>7. QED  BY <2>4, <2>5, <2>6
<1>13. ASSUME NEW m, m = n + 1, m - Words \in 1..set
       PROVE  done(m)
    <2> DEFINE k == m - Words
    <2>1. w = items[k]
        <3>1. all[Words + k] = items[k]
            BY <1>2, <1>13 DEF IsFilterList, items
        <3>2. Words + k = m
            BY <1>2, <1>3, <1>5, <1>13
        <3>3. QED  BY <1>7, <1>13, <3>1, <3>2
    <2>2. chip.enabled = {}
        <3>1. n >= Words /\ 4 * (n - Words - set) <= 0 /\ 4 * (n - Words - set) \in Int
            BY <1>2, <1>3, <1>5, <1>13
        <3>2. \A f \in Enabled(call) : ~(f < 4 * (n - Words - set))
            BY <1>2, <1>3, <1>10, <3>1
        <3>3. QED  BY <1>9, <3>1, <3>2
    <2>3. w.name \in OfFilter
        BY <1>3, <1>13, <2>1
    <2>4. chip'.enabled = {} /\ chip'.holds = chip.holds \cup {<<items[k].name, items[k].n>>}
        BY <1>1, <1>6, <2>1, <2>2, <2>3, WrittenShape DEF ChipType
    <2>5. \A f \in Enabled(call) : ~(f < 4 * (m - Words - set))
        <3>1. 4 * (m - Words - set) <= 0 /\ 4 * (m - Words - set) \in Int
            BY <1>2, <1>3, <1>5, <1>13
        <3>2. QED  BY <1>2, <1>3, <1>10, <3>1
    <2>6. \A i \in 1..set : i <= m - Words => i <= n - Words \/ i = k
        BY <1>2, <1>3, <1>5, <1>13
    <2>7. QED  BY <1>9, <2>4, <2>5, <2>6
<1>14. ASSUME NEW m, m = n + 1, m - (Words + set) \in 1..Words
       PROVE  done(m)
    <2> DEFINE k == m - (Words + set)
    <2>1. w = Write("C1FLTCON", k - 1, Enabled(call) \cap InWord(k - 1))
        <3>1. all[Words + set + k] = Write("C1FLTCON", k - 1, Enabled(call) \cap InWord(k - 1))
            BY <1>2, <1>14 DEF IsFilterList
        <3>2. Words + set + k = m
            BY <1>2, <1>3, <1>5, <1>14
        <3>3. QED  BY <1>7, <1>14, <3>1, <3>2
    <2>2. w.name = "C1FLTCON" /\ w.n = k - 1 /\ w.value = Enabled(call) \cap InWord(k - 1)
        BY <2>1, WriteParts
    <2>3. /\ chip'.enabled = (chip.enabled \ InWord(k - 1)) \cup (Enabled(call) \cap InWord(k - 1))
          /\ chip'.holds = chip.holds
        BY <1>1, <1>6, <2>2, WrittenShape DEF ChipType
    <2>4. /\ n >= Words /\ n - Words - set = k - 1 /\ m - Words - set = k /\ k \in 1..Words
          /\ ~(m < Words + set) /\ \A i \in 1..set : i <= n - Words
        BY <1>2, <1>3, <1>5, <1>14
    <2>5. chip.enabled = {f \in Enabled(call) : f < 4 * (k - 1)}
        BY <1>9, <2>4
    <2>6. chip'.enabled = {f \in Enabled(call) : f < 4 * k}
        <3> HIDE DEF k
        <3>1. \A f \in Enabled(call) : f \in Nat /\ (f < 4 * k <=> f < 4 * (k - 1) \/ f \in InWord(k - 1))
            BY <1>2, <1>10, <2>4 DEF InWord
        <3>2. \A f \in Enabled(call) : f < 4 * (k - 1) => f \notin InWord(k - 1)
            BY <1>2, <1>10, <2>4 DEF InWord
        <3>3. QED  BY <2>3, <2>5, <3>1, <3>2
    <2>7. QED  BY <1>9, <2>3, <2>4, <2>6
<1>15. n + 1 \in 1..Words \/ (n + 1) - Words \in 1..set \/ (n + 1) - (Words + set) \in 1..Words
    <2>1. set \in Nat /\ Words \in Nat /\ n + 1 \in 1..(2 * Words + set)
        BY <1>2, <1>3, <1>7 DEF IsFilterList
    <2>2. QED  BY <2>1, Places
<1> HIDE DEF done
<1>16. done(n + 1)
    <2> DEFINE m == n + 1
    <2>1. m = n + 1 /\ (m \in 1..Words \/ m - Words \in 1..set \/ m - (Words + set) \in 1..Words)
        BY <1>15
    <2> HIDE DEF m
    <2>2. done(m)
        BY <1>12, <1>13, <1>14, <2>1
    <2>3. QED  BY <2>1, <2>2
<1>17. AfterWrites(chip', call, n + 1)
    <2>1. ASSUME NEW m, done(m) PROVE AfterWrites(chip', call, m)
        BY <2>1, Zenon DEF done, items, AfterWrites
    <2>2. QED  BY <1>16, <2>1
<1>18. n + 1 \in 0..Len(all)
    BY <1>5, <1>7
<1>19. AfterWrites(chip', call', n + 1)
    BY <1>1, <1>17
<1>20. QED  BY <1>8, <1>18, <1>19 DEF FiltersAfter, all

\* What is known after n writes depends on the filters of the chip alone.
LEMMA FiltersAlone ==
    ASSUME NEW n, FiltersAfter(n), UNCHANGED <<todo, call>>,
           chip'.enabled = chip.enabled, chip'.holds = chip.holds
    PROVE  FiltersAfter(n)'
<1>1. LeftOf(FilterWrites(call), n)'
    BY DEF FiltersAfter, LeftOf, Awaited
<1>2. AfterWrites(chip', call, n)
    BY DEF FiltersAfter, AfterWrites
<1>3. QED  BY <1>1, <1>2 DEF FiltersAfter

LEMMA NothingWritten ==
    ASSUME SetupTypes, FiltersNext
    PROVE  0 \in 0..Len(FilterWrites(call')) /\ FiltersAfter(0)'
<1>1. /\ call \in Calls /\ chip.enabled \subseteq Filters /\ call' = call /\ chip' = chip
      /\ todo' = FilterWrites(call)
    BY DEF SetupTypes, ChipType, FiltersNext, GoesOn
<1>2. FilterWrites(call) \in Seq(Writes) /\ Words \in Nat \ {0} /\ Items(call) \in Nat
    BY <1>1, FilterShape, CallTypes, SetShape DEF IsFilterList
<1> DEFINE w == FilterWrites(call)
<1> HIDE DEF w
<1>3. 0 \in 0..Len(w) /\ Len(w) = Len(w) - 0 /\ \A i \in 1..Len(w) : w[i] = w[0 + i]
    BY <1>2 DEF w
<1>4. LeftOf(w, 0)'
    BY <1>1, <1>3 DEF w, LeftOf, Awaited
<1>5. AfterWrites(chip, call, 0)
    <2>1. \A f \in chip.enabled : f >= 4 * 0
        BY <1>1 DEF Filters
    <2>2. ~(0 >= Words) /\ \A i \in 1..Items(call) : ~(i <= 0 - Words)
        BY <1>2
    <2>3. QED  BY <2>1, <2>2 DEF AfterWrites
<1>6. QED  BY <1>1, <1>3, <1>4, <1>5 DEF FiltersAfter, w

\* When nothing is left to write, the filters are as the call wants them.
LEMMA AllWritten ==
    ASSUME SetupTypes, todo = <<>>, NEW n \in 0..Len(FilterWrites(call)), FiltersAfter(n)
    PROVE  chip.enabled = Enabled(call) /\ OfFilters(Enabled(call)) \subseteq chip.holds
<1> DEFINE set == Items(call)
           s == SetFilters(call)
<1>1. /\ call \in Calls /\ Words \in Nat \ {0} /\ Enabled(call) \subseteq Filters
      /\ Len(FilterWrites(call)) = 2 * Words + set /\ set \in Nat /\ Len(s) = set
    BY CallTypes, FilterShape, SetShape DEF SetupTypes, IsFilterList
<1>2. n = 2 * Words + set
    <2>1. Len(todo) = Len(FilterWrites(call)) - n /\ Len(todo) = 0
        BY DEF FiltersAfter, LeftOf
    <2> HIDE DEF set
    <2>2. QED  BY <1>1, <2>1
<1>3. /\ n >= Words /\ n - Words - set = Words /\ \A i \in 1..set : i <= n - Words
    BY <1>1, <1>2
<1>4. chip.enabled = {f \in Enabled(call) : f < 4 * Words}
    BY <1>3 DEF FiltersAfter, AfterWrites
<1>5. chip.enabled = Enabled(call)
    BY <1>1, <1>4 DEF Filters
<1>6. \A i \in 1..set : <<s[i].name, s[i].n>> \in chip.holds
    BY <1>3 DEF FiltersAfter, AfterWrites
<1>7. \A r \in OfFilter, f \in Enabled(call) : \E i \in 1..set : s[i].name = r /\ s[i].n = f
    BY <1>1, SetShape
<1>8. \A r \in OfFilter, f \in Enabled(call) : <<r, f>> \in chip.holds
    BY <1>6, <1>7
<1>9. OfFilters(Enabled(call)) \subseteq chip.holds
    BY <1>8 DEF OfFilters, OfFilter
<1>10. QED  BY <1>5, <1>9

LEMMA NextFiltersKept ==
    SetupTypes /\ StageWrites /\ FiltersKept /\ [Next]_vars => FiltersKept'
<1> SUFFICES ASSUME SetupTypes, StageWrites, FiltersKept, [Next]_vars, lost' = 0
             PROVE  /\ stage' = "filters" =>
                         \E n \in 0..Len(FilterWrites(call')) : FiltersAfter(n)'
                    /\ stage' \in {"check", "mode"} =>
                         chip'.enabled = Enabled(call') /\ OfFilters(Enabled(call')) \subseteq chip'.holds
    BY DEF FiltersKept
<1> DEFINE loaded == chip.enabled = Enabled(call) /\ OfFilters(Enabled(call)) \subseteq chip.holds
<1>1. Step /\ chip \in ChipType
    BY StepShape DEF SetupTypes
<1>2. lost = 0 =>
        /\ stage = "filters" => \E n \in 0..Len(FilterWrites(call)) : FiltersAfter(n)
        /\ stage \in {"check", "mode"} => loaded
    BY DEF FiltersKept
<1>3. ASSUME stage = "filters", stage' = "filters", UNCHANGED <<todo, call, lost>>,
             chip'.enabled = chip.enabled, chip'.holds = chip.holds
      PROVE  \E n \in 0..Len(FilterWrites(call')) : FiltersAfter(n)'
    <2>1. PICK n \in 0..Len(FilterWrites(call)) : FiltersAfter(n)
        BY <1>2, <1>3
    <2>2. FiltersAfter(n)' /\ call' = call
        BY <1>3, <2>1, FiltersAlone
    <2>3. QED  BY <2>2
<1>4. CASE Taken
    <2>1. WriteWord /\ lost = 0 /\ stage' = stage /\ call' = call
        BY <1>4, TakenIsWritten DEF Taken
    <2>2. ASSUME stage = "filters"
          PROVE  \E n \in 0..Len(FilterWrites(call')) : FiltersAfter(n)'
        <3>1. PICK n \in 0..Len(FilterWrites(call)) : FiltersAfter(n)
            BY <1>2, <2>1, <2>2
        <3>2. n + 1 \in 0..Len(FilterWrites(call)) /\ FiltersAfter(n + 1)'
            BY <2>1, <2>2, <3>1, NextWordWritten
        <3>3. QED  BY <2>1, <3>2
    <2>3. ASSUME stage \in {"check", "mode"}
          PROVE  chip'.enabled = chip.enabled
        <3> DEFINE w == todo[1]
        <3>1. IsWrite(stage, call, w) /\ chip' = Written(chip, w)
            BY <2>1, WordWritten
        <3> HIDE DEF w
        <3>2. (w.name \in Late /\ w.value = "wanted") \/ w.name = "C1CON"
            BY <2>3, <3>1, WriteParts DEF IsWrite
        <3>3. QED  BY <1>1, <3>1, <3>2, WrittenShape DEF ChipType
    <2>4. stage \in {"check", "mode"} => chip.holds \subseteq chip'.holds
        BY <2>1, WritesAdd
    <2>5. QED  BY <1>2, <2>1, <2>2, <2>3, <2>4
<1>5. CASE Entered
    <2>1. chip'.enabled = chip.enabled /\ chip'.holds = chip.holds /\ UNCHANGED <<stage, call, todo, lost>>
        BY <1>1, <1>5 DEF Entered, ChipType
    <2>2. QED  BY <1>2, <1>3, <2>1
<1>6. CASE Quiet
    <2>1. chip'.enabled = chip.enabled /\ chip'.holds = chip.holds /\ UNCHANGED <<stage, call, todo, lost>>
        BY <1>6 DEF Quiet
    <2>2. QED  BY <1>2, <1>3, <2>1
<1>7. CASE FiltersNext
    <2>1. stage' = "filters" /\ \E n \in 0..Len(FilterWrites(call')) : FiltersAfter(n)'
        BY <1>7, NothingWritten DEF FiltersNext, GoesOn
    <2>2. QED  BY <2>1
<1>8. CASE Initialises
    <2>1. stage = "filters" /\ todo = <<>> /\ stage' = "check" /\ UNCHANGED <<chip, call, lost>>
        BY <1>8 DEF Initialises, GoesOn
    <2>2. PICK n \in 0..Len(FilterWrites(call)) : FiltersAfter(n)
        BY <1>2, <2>1
    <2>3. loaded
        BY <2>1, <2>2, AllWritten
    <2>4. QED  BY <2>1, <2>3
<1>9. CASE ModeNext \/ AsksAgain
    <2>1. stage \in {"check", "mode"} /\ stage' = "mode" /\ UNCHANGED <<chip, call, lost>>
        BY <1>9 DEF ModeNext, AsksAgain, GoesOn
    <2>2. QED  BY <1>2, <2>1
<1>10. CASE Called \/ Configures \/ Stops
    BY <1>10 DEF Called, Configures, Stops, GoesOn
<1>11. QED  BY <1>1, <1>4, <1>5, <1>6, <1>7, <1>8, <1>9, <1>10 DEF Step

-----------------------------------------------------------------------------
(* The mode.                                                               *)

LEMMA LateNames ==
    /\ "C1CON" \notin Late /\ "RESET" \notin Late
    /\ \A s, c, w : IsWrite(s, c, w) /\ s = "mode" =>
         \/ w.name \in Late /\ w.value = "wanted"
         \/ w.name = "C1CON" /\ w.value = Reqop(c.mode)
BY WriteParts DEF Late, IsWrite

\* Whatever was lost, a chip in the mode asked for stays asked for it.
LEMMA ModeIsAsked ==
    ASSUME SetupTypes, StageWrites, ModeKept, Step, stage' = "mode",
           chip'.mode = Reqop(call'.mode), chip'.mode # 4
    PROVE  chip'.request = Reqop(call'.mode)
<1>1. /\ chip \in ChipType
      /\ stage = "mode" /\ chip.mode = Reqop(call.mode) => chip.mode = 4 \/ chip.request = Reqop(call.mode)
    BY DEF SetupTypes, ModeKept
<1>2. CASE Taken
    <2> DEFINE w == todo[1]
    <2>1. stage = "mode" /\ call' = call /\ (WriteWord \/ chip' = chip)
        BY <1>2 DEF Taken, LoseWrite
    <2>2. ASSUME WriteWord
          PROVE  chip'.request = Reqop(call.mode)
        <3>1. IsWrite(stage, call, w) /\ chip' = Written(chip, w) /\ chip'.mode = chip.mode
            BY <2>1, <2>2, WordWritten, WritesAdd
        <3> HIDE DEF w
        <3>2. (w.name \in Late /\ w.value = "wanted") \/ (w.name = "C1CON" /\ w.value = Reqop(call.mode))
            BY <2>1, <3>1, LateNames
        <3>3. w.name \in Late /\ w.value = "wanted" => chip'.request = chip.request
            BY <1>1, <3>1, WrittenShape DEF ChipType
        <3>4. w.name = "C1CON" => chip'.request = w.value
            BY <1>1, <3>1, WrittenShape DEF ChipType
        <3>5. QED  BY <1>1, <2>1, <3>1, <3>2, <3>3, <3>4
    <2>3. QED  BY <1>1, <2>1, <2>2
<1>3. CASE Entered
    <2>1. chip'.mode = chip.request /\ chip'.request = chip.request
        BY <1>1, <1>3 DEF Entered, ChipType
    <2>2. QED  BY <2>1
<1>4. CASE Quiet \/ AsksAgain
    BY <1>1, <1>4 DEF Quiet, AsksAgain, GoesOn
<1>5. CASE ModeNext
    BY <1>5 DEF ModeNext, GoesOn
<1>6. QED
    BY <1>2, <1>3, <1>4, <1>5 DEF Step, Called, Configures, FiltersNext, Initialises, Stops, GoesOn

\* With no write lost: the chip is in configuration mode or in the mode asked for, and in
\* configuration mode until the request is all that is left to write.
ModeAwaits(h, c, s) ==
    /\ {h.mode, h.request} \subseteq {4, Reqop(c.mode)}
    /\ \A r \in Late : Register(r) \in h.holds \/ \E i \in 1..Len(s) : s[i].name = r
    /\ \A i \in 1..Len(s) : IF s[i].name = "C1CON" THEN i = Len(s) ELSE h.mode = 4 /\ h.request = 4

LEMMA ModeAwaited == ModeKept /\ stage = "mode" /\ lost = 0 => ModeAwaits(chip, call, todo)
BY DEF ModeKept, ModeAwaits, Held, Pending, Awaited

LEMMA NextModeAwaits ==
    ASSUME SetupTypes, StageWrites, ConfigKept, ModeKept, Step, stage' = "mode", lost' = 0
    PROVE  ModeAwaits(chip', call', todo')
<1>1. todo \in Seq(Writes) /\ chip \in ChipType /\ call \in Calls
    BY DEF SetupTypes
<1>2. CASE Taken
    <2> DEFINE w == todo[1]
    <2>1. WriteWord /\ lost = 0 /\ stage = "mode" /\ call' = call /\ todo # <<>> /\ todo' = Tail(todo)
        BY <1>2, TakenIsWritten DEF Taken
    <2>2. /\ IsWrite(stage, call, w) /\ chip' = Written(chip, w) /\ chip'.mode = chip.mode
          /\ ModeAwaits(chip, call, todo)
        BY <2>1, WordWritten, WritesAdd, ModeAwaited
    <2>3. /\ Len(todo) \in Nat \ {0} /\ Len(todo') = Len(todo) - 1
          /\ \A i \in 1..Len(todo') : i + 1 \in 1..Len(todo) /\ todo'[i] = todo[i + 1]
          /\ \A i \in 1..Len(todo) : i # 1 => i - 1 \in 1..Len(todo') /\ todo'[i - 1] = todo[i]
        BY <1>1, <2>1, Popped
    <2>4. CASE w.name \in Late /\ w.value = "wanted"
        <3>1. w.name # "C1CON" /\ 1 \in 1..Len(todo)
            BY <2>3, <2>4, LateNames
        <3>2. chip.mode = 4 /\ chip.request = 4
            BY <2>2, <3>1 DEF ModeAwaits
        <3> HIDE DEF w
        <3>3. chip'.mode = 4 /\ chip'.request = 4 /\ chip'.holds = chip.holds \cup {Register(w.name)}
            BY <1>1, <2>2, <2>4, <3>2, WrittenShape DEF ChipType
        <3>4. ASSUME NEW r \in Late
              PROVE  Register(r) \in chip'.holds \/ \E i \in 1..Len(todo') : todo'[i].name = r
            <4>1. CASE Register(r) \in chip.holds
                BY <3>3, <4>1
            <4>2. ASSUME NEW i \in 1..Len(todo), todo[i].name = r
                  PROVE  Register(r) \in chip'.holds \/ \E k \in 1..Len(todo') : todo'[k].name = r
                <5>1. CASE i = 1
                    BY <3>3, <4>2, <5>1 DEF w
                <5>2. CASE i # 1
                    <6>1. i - 1 \in 1..Len(todo') /\ todo'[i - 1].name = r
                        BY <2>3, <4>2, <5>2
                    <6>2. QED  BY <6>1
                <5>3. QED  BY <5>1, <5>2
            <4>3. QED  BY <2>2, <4>1, <4>2 DEF ModeAwaits
        <3>5. ASSUME NEW i \in 1..Len(todo'), todo'[i].name = "C1CON"
              PROVE  i = Len(todo')
            <4>1. i + 1 \in 1..Len(todo) /\ todo[i + 1].name = "C1CON"
                BY <2>3, <3>5
            <4>2. i + 1 = Len(todo)
                BY <2>2, <4>1 DEF ModeAwaits
            <4>3. QED  BY <2>3, <4>2
        <3>6. QED  BY <3>3, <3>4, <3>5 DEF ModeAwaits
    <2>5. CASE w.name = "C1CON" /\ w.value = Reqop(call.mode)
        <3>1. 1 \in 1..Len(todo) /\ Len(todo) = 1
            BY <2>2, <2>3, <2>5 DEF ModeAwaits
        <3>2. Len(todo') = 0 /\ 1..Len(todo') = {}
            BY <2>3, <3>1
        <3>3. \A r \in Late : Register(r) \in chip.holds
            BY <2>2, <2>5, <3>1, LateNames DEF ModeAwaits
        <3> HIDE DEF w
        <3>4. chip'.request = Reqop(call.mode) /\ chip'.holds = chip.holds
            BY <1>1, <2>2, <2>5, WrittenShape DEF ChipType
        <3>5. chip.mode \in {4, Reqop(call.mode)}
            BY <2>2 DEF ModeAwaits
        <3>6. QED  BY <2>1, <2>2, <3>2, <3>3, <3>4, <3>5 DEF ModeAwaits
    <2>6. QED  BY <2>1, <2>2, <2>4, <2>5, LateNames
<1>3. CASE Entered
    <2>1. /\ chip'.mode = chip.request /\ chip'.request = chip.request /\ chip'.holds = chip.holds
          /\ UNCHANGED <<stage, call, todo, lost>>
        BY <1>1, <1>3 DEF Entered, ChipType
    <2>2. ModeAwaits(chip, call, todo)
        BY <2>1, ModeAwaited
    <2>3. QED  BY <2>1, <2>2 DEF ModeAwaits
<1>4. CASE Quiet
    <2>1. UNCHANGED <<chip, stage, call, todo, lost>>
        BY <1>4 DEF Quiet
    <2>2. ModeAwaits(chip, call, todo)
        BY <2>1, ModeAwaited
    <2>3. QED  BY <2>1, <2>2
<1>5. CASE ModeNext
    <2>1. /\ stage = "check" /\ UNCHANGED <<chip, call, lost>> /\ chip.mode = 4 /\ todo' = ModeWrites(call)
        BY <1>5 DEF ModeNext, GoesOn
    <2>2. chip.request = 4
        BY <2>1 DEF ConfigKept
    <2>3. /\ Len(todo') = 7
          /\ \A i \in 1..6 : todo'[i].name \in Late
          /\ \A r \in Late : \E i \in 1..6 : todo'[i].name = r
        BY <1>1, <2>1, ModeShape
    <2>4. \A i \in 1..Len(todo') : todo'[i].name = "C1CON" => i = 7
        BY <2>3, LateNames
    <2>5. \A r \in Late : \E i \in 1..Len(todo') : todo'[i].name = r
        <3>1. \A i \in 1..6 : i \in 1..Len(todo')
            BY <2>3
        <3>2. QED  BY <2>3, <3>1
    <2>6. QED  BY <2>1, <2>2, <2>3, <2>4, <2>5 DEF ModeAwaits
<1>6. CASE AsksAgain
    <2>1. /\ stage = "mode" /\ UNCHANGED <<chip, call, lost>> /\ todo = <<>>
          /\ Len(todo') = 1 /\ todo'[1] = Write("C1CON", 0, Reqop(call.mode))
        BY <1>6 DEF AsksAgain, GoesOn, Asked
    <2>2. ModeAwaits(chip, call, todo)
        BY <2>1, ModeAwaited
    <2>3. \A i \in 1..Len(todo') : i = Len(todo') /\ todo'[i].name = "C1CON"
        BY <2>1, WriteParts
    <2>4. \A r \in Late : Register(r) \in chip.holds
        BY <2>1, <2>2 DEF ModeAwaits
    <2>5. QED  BY <2>1, <2>2, <2>3, <2>4 DEF ModeAwaits
<1>7. QED
    BY <1>2, <1>3, <1>4, <1>5, <1>6 DEF Step, Called, Configures, FiltersNext, Initialises, Stops, GoesOn

LEMMA NextModeKept ==
    SetupTypes /\ StageWrites /\ ConfigKept /\ ModeKept /\ [Next]_vars => ModeKept'
<1> SUFFICES ASSUME SetupTypes, StageWrites, ConfigKept, ModeKept, [Next]_vars, stage' = "mode"
             PROVE  /\ chip'.mode = Reqop(call'.mode) => chip'.mode = 4 \/ chip'.request = Reqop(call'.mode)
                    /\ lost' = 0 => ModeAwaits(chip', call', todo')
    BY DEF ModeKept, ModeAwaits, Held, Pending, Awaited
<1>1. Step
    BY StepShape
<1>2. QED  BY <1>1, ModeIsAsked, NextModeAwaits

LEMMA NextTableKept == SetupTypes /\ TableKept /\ [Next]_vars => TableKept'
<1> SUFFICES ASSUME SetupTypes, TableKept, Step, stage' \in {"check", "mode"}
             PROVE  table' = "initialised"
    BY StepShape DEF TableKept
<1>1. QED
    BY DEF Step, TableKept, Taken, Entered, Quiet, Called, Configures, FiltersNext, Initialises, ModeNext,
           AsksAgain, Stops, GoesOn

-----------------------------------------------------------------------------
(* What an answer of the driver means.                                     *)

LEMMA NextOkKept ==
    SetupTypes /\ ModeKept /\ OkKept /\ [Next]_vars => OkKept'
<1> SUFFICES ASSUME SetupTypes, ModeKept, OkKept, [Next]_vars, outcome' = "ok"
             PROVE  /\ stage' = "mode" /\ todo' = <<>>
                    /\ \/ chip'.mode = Reqop(call'.mode) \/ Misread'
                       \/ call'.mode = "offline" /\ lost' > 0
    BY DEF OkKept
<1>1. chip \in ChipType /\ call \in Calls /\ lost \in Nat
    BY DEF SetupTypes
<1>2. CASE outcome = "ok" /\ UNCHANGED vars
    BY <1>2 DEF OkKept, Misread, Unreadable, vars
<1>3. CASE outcome = "ok" /\ ChipMode
    <2>1. /\ stage' = "mode" /\ todo' = <<>> /\ stage = "mode" /\ UNCHANGED <<call, lost, errors>>
          /\ chip'.mode = chip.request
          /\ chip.mode = Reqop(call.mode) \/ Misread \/ (call.mode = "offline" /\ lost > 0)
        BY <1>1, <1>3 DEF ChipMode, OkKept, ChipType
    <2>2. Misread => Misread'
        BY <2>1 DEF Misread, Unreadable
    <2>3. ASSUME chip.mode = Reqop(call.mode)
          PROVE  chip.request = Reqop(call.mode) \/ (call.mode = "offline" /\ lost > 0)
        <3>1. CASE chip.mode = 4
            <4>1. call.mode = "offline"
                BY <1>1, <2>3, <3>1, CallTypes
            <4>2. lost = 0 => chip.request \in {4, Reqop(call.mode)}
                BY <2>1 DEF ModeKept
            <4>3. QED  BY <1>1, <2>3, <3>1, <4>1, <4>2
        <3>2. CASE chip.mode # 4
            BY <2>1, <2>3, <3>2 DEF ModeKept
        <3>3. QED  BY <3>1, <3>2
    <2>4. QED  BY <2>1, <2>2, <2>3
<1>4. CASE ModeEntered
    <2>1. /\ stage = "mode" /\ todo = <<>> /\ outcome = "running"
          /\ UNCHANGED <<chip, call, lost>>
        BY <1>4 DEF ModeEntered, At, Running
    <2>2. ReadMode = Reqop(call.mode) /\ UNCHANGED <<stage, todo, errors>>
        BY <1>4, <2>1 DEF ModeEntered, Again, Return
    <2>3. CASE Unreadable
        <3>1. call.mode = "ack only"
            BY <1>1, <2>2, <2>3, CallTypes DEF ReadMode
        <3>2. Misread'
            BY <2>1, <2>2, <2>3, <3>1 DEF Misread, Unreadable
        <3>3. QED  BY <2>1, <2>2, <3>2
    <2>4. CASE ~Unreadable
        BY <2>1, <2>2, <2>4 DEF ReadMode
    <2>5. QED  BY <2>3, <2>4
<1>5. outcome = "ok" /\ ~ModeEntered => ChipMode \/ UNCHANGED vars
    BY DEF Next, Driver, WriteWord, LoseWrite, BadCrc, PinsVerified, ConfigMode, InitTables, StillConfigured,
           Stopped, Stop, Setup, SetupRefused, Return, Proceed, At, Running
<1>6. outcome # "ok" => ModeEntered
    BY DEF Next, Driver, ChipMode, WriteWord, LoseWrite, BadCrc, PinsVerified, ConfigMode, InitTables,
           StillConfigured, Stopped, Stop, Setup, SetupRefused, Proceed, Again, Return, At, Running, vars
<1>7. QED  BY <1>2, <1>3, <1>4, <1>5, <1>6

LEMMA NextSetupInv == SetupInv /\ [Next]_vars => SetupInv'
BY NextSetupTypes, NextStageWrites, NextPinsKept, NextConfigKept, NextFiltersKept, NextModeKept,
   NextTableKept, NextOkKept
   DEF SetupInv

LEMMA InitSetupInv == Init => SetupInv
<1> SUFFICES ASSUME Init PROVE SetupInv
    OBVIOUS
<1>1. /\ stage = "stop" /\ todo = <<>> /\ call \in Calls /\ lost = 0 /\ outcome = "stopped"
      /\ Awaited = {}
    BY DEF Init, Awaited
<1>2. chip \in ChipType
    <2>1. 0 \in Filters /\ {} \subseteq Filters
        BY ChipSetupAssumption DEF Filters
    <2>2. Fixed \subseteq Names \X Nat
        BY DEF Fixed, Register, Names, Pins, Late
    <2>3. QED  BY <2>1, <2>2 DEF Init, AfterReset, ChipType, Reqops
<1>3. SetupTypes
    BY <1>1, <1>2 DEF SetupTypes
<1>4. StageWrites /\ PinsKept /\ ConfigKept /\ FiltersKept /\ ModeKept /\ TableKept /\ OkKept
    BY <1>1 DEF StageWrites, PinsKept, ConfigKept, FiltersKept, ModeKept, TableKept, OkKept
<1>5. QED  BY <1>3, <1>4 DEF SetupInv

LEMMA SetupInvHolds == Spec => []SetupInv
<1>1. QED  BY InitSetupInv, NextSetupInv, PTL DEF Spec

\* The registers with a fixed value are those of the pins and those of set_controller_mode.
LEMMA FixedParts ==
    ASSUME \A p \in Pins \cup Late : Register(p) \in chip.holds
    PROVE  Fixed \cup {Register("C1NBTCFG")} \subseteq chip.holds
BY DEF Fixed, Pins, Late

\* If no write was lost, a chip with nothing left to write before it enters its mode is loaded.
LEMMA LoadedInMode ==
    ASSUME SetupInv, stage = "mode", lost = 0, todo = <<>> \/ chip.mode # 4
    PROVE  Loaded /\ table = "initialised"
<1>1. \A p \in Pins : Register(p) \in chip.holds
    BY DEF SetupInv, PinsKept, Held
<1>2. todo \in Seq(Writes) /\ ModeAwaits(chip, call, todo)
    BY ModeAwaited DEF SetupInv, SetupTypes
<1>3. ASSUME NEW r \in Late
      PROVE  Register(r) \in chip.holds
    <2>1. SUFFICES ASSUME NEW i \in 1..Len(todo), todo[i].name = r PROVE FALSE
        BY <1>2 DEF ModeAwaits
    <2>2. todo[i].name # "C1CON" /\ todo # <<>>
        BY <2>1, LateNames
    <2>3. QED  BY <1>2, <2>2 DEF ModeAwaits
<1>4. Fixed \cup {Register("C1NBTCFG")} \subseteq chip.holds
    BY <1>1, <1>3, FixedParts
<1>5. chip.enabled = Enabled(call) /\ OfFilters(Enabled(call)) \subseteq chip.holds
    BY DEF SetupInv, FiltersKept
<1>6. table = "initialised"
    BY DEF SetupInv, TableKept
<1>7. QED  BY <1>4, <1>5, <1>6 DEF Loaded

\* CAN_ERC_NO_ERROR of can_setup_controller can be relied on, although writes carry no CRC
\* and may be lost: the pins and the mode are as asked for, but for an `ack only' that was
\* misread and an OFFLINE whose request was lost; and if no write was, the chip is set up
\* completely.
THEOREM OkMeansDone == Spec => []OkIsHonest
<1>1. SetupInv => OkIsHonest
    <2> SUFFICES ASSUME SetupInv, outcome = "ok" PROVE OkIsHonest
        BY DEF OkIsHonest
    <2>1. stage = "mode" /\ todo = <<>>
        BY DEF SetupInv, OkKept
    <2>2. {Register("IOCON0"), Register("IOCON3")} \subseteq chip.holds
        BY <2>1 DEF SetupInv, PinsKept, Held
    <2>3. chip.mode = Reqop(call.mode) \/ Misread \/ (call.mode = "offline" /\ lost > 0)
        BY DEF SetupInv, OkKept
    <2>4. lost = 0 => Loaded /\ table = "initialised"
        BY <2>1, LoadedInMode
    <2>5. QED  BY <2>2, <2>3, <2>4 DEF OkIsHonest
<1>2. QED  BY <1>1, SetupInvHolds, PTL

\* From the moment configuration mode was seen, a chip that is on the bus is set up
\* completely, unless a write was lost: the order of the writes of can_setup_controller and
\* set_controller_mode.
THEOREM OnBusIsLoaded == Spec => []NeverHalfLoaded
<1>1. SetupInv => NeverHalfLoaded
    <2> SUFFICES ASSUME SetupInv, stage \in {"filters", "check", "mode"}, chip.mode # 4, lost = 0
                 PROVE  Loaded /\ table = "initialised"
        BY DEF NeverHalfLoaded
    <2>1. stage = "mode"
        BY DEF SetupInv, ConfigKept
    <2>2. QED  BY <2>1, LoadedInMode
<1>2. QED  BY <1>1, SetupInvHolds, PTL
=============================================================================

------------------------------ MODULE ChipSetup ------------------------------
(***************************************************************************)
(* One chip and the driver's can_setup_controller and can_stop_controller, *)
(* register by register.  Writes carry no CRC and may be lost without a    *)
(* trace; a read is repeated until its CRC fits and is all ones when it    *)
(* never does; a mode the chip is asked for is entered some time later.    *)
(* The other controllers, the tries of setup_can_controllers and the       *)
(* interrupt pins are Board's subject.                                     *)
(***************************************************************************)
EXTENDS Integers, Sequences

CONSTANTS
    CrcRetries,     \* CRC_RETRIES
    ConfigTries,    \* 3 in set_controller_mode_config
    ModeTries,      \* 64 in set_controller_mode
    Words,          \* C1FLTCON words, of four filters each
    Calls,          \* arguments of can_setup_controller: of its list of filters, the
                    \* indices of those that are enabled
    MaxLost         \* bound: writes lost

Modes == {"normal", "listen only", "ack only", "offline"}
Filters == 0 .. 4 * Words - 1

ASSUME ChipSetupAssumption ==
    /\ CrcRetries \in Nat \ {0} /\ ConfigTries \in Nat \ {0} /\ ModeTries \in Nat \ {0}
    /\ Words \in Nat \ {0} /\ MaxLost \in Nat
    /\ \A c \in Calls : /\ c.mode \in Modes /\ c.reset \in BOOLEAN /\ c.filters \in Seq(Filters)
                       /\ \A i, j \in 1..Len(c.filters) : i < j => c.filters[i] < c.filters[j]

VARIABLES
    chip,       \* its mode, the mode it is asked for, the filters enabled, and
                \* the registers that hold what the driver wants of them
    table,      \* the can_controller_t: "old" or "initialised"
    call,       \* the arguments of the setup that runs or, but for a refused one,
                \* has returned last
    stage,      \* where that setup is or was, or "stop"
    outcome,    \* "running", or what the driver's last call came to
    todo,       \* writes left before the stage's next read
    errors,     \* `retries' in read_word_crc: bad CRCs in the read under way
    try,        \* tries of the stage's polling loop
    lost        \* writes of the setup that were lost

vars == <<chip, table, call, stage, outcome, todo, errors, try, lost>>

-----------------------------------------------------------------------------
(* The chip's registers.                                                   *)

Register(name) == <<name, 0>>

\* Written with the same values in every setup.
Fixed == {Register(r) : r \in {"OSC", "IOCON0", "IOCON1", "IOCON2", "IOCON3",
                               "C1TSCON", "C1TEFCON", "C1TXQCON", "C1FIFOCON1", "C1INT"}}
OfFilters(fs) == {"C1FLTOBJ", "C1MASK"} \X fs

\* Changed by the chip in configuration mode only.
ConfigOnly == {"C1NBTCFG", "C1TEFCON", "C1TXQCON", "C1FIFOCON1"}

AfterReset == [mode |-> 4, request |-> 4, enabled |-> {}, holds |-> {}]

\* A write sends a value to a register: a set of filters, a mode, or for the other
\* registers "wanted", what the driver wants of them in the end, or "off".
Write(name, n, value) == [name |-> name, n |-> n, value |-> value]

InWord(w) == 4 * w .. 4 * w + 3

Written(c, w) ==
    CASE w.name = "RESET" -> AfterReset
      [] w.name = "C1CON" -> [c EXCEPT !.request = w.value]
      [] w.name = "C1FLTCON" -> [c EXCEPT !.enabled = (@ \ InWord(w.n)) \cup w.value]
      [] w.name \in {"C1FLTOBJ", "C1MASK"} ->
            IF w.n \in c.enabled THEN c ELSE [c EXCEPT !.holds = @ \cup {<<w.name, w.n>>}]
      [] w.name \in ConfigOnly /\ c.mode # 4 -> c
      [] OTHER -> [c EXCEPT !.holds = IF w.value = "wanted" THEN @ \cup {Register(w.name)}
                                      ELSE @ \ {Register(w.name)}]

-----------------------------------------------------------------------------
(* What the driver writes.  An operator whose name has a suffix is a       *)
(* faulty variant of the one that follows it, kept to show that the        *)
(* properties tell the two apart.                                          *)

WantAll(names) == [i \in 1..Len(names) |-> Write(names[i], 0, "wanted")]
ForWords(value(_)) == [i \in 1..Words |-> Write("C1FLTCON", i - 1, value(i - 1))]

\* hard_reset, set_controller_pins
PinWrites(c) ==
    (IF c.reset THEN <<Write("RESET", 0, "wanted")>> ELSE <<>>)
    \o WantAll(<<"OSC", "IOCON0", "IOCON1", "IOCON2", "IOCON3">>)

\* The filters of a call, by their indices in the list.
Enabled(c) == {c.filters[i] : i \in 1..Len(c.filters)}

\* A filter's two registers, filter after filter.
SetFilters(c) ==
    [i \in 1..2*Len(c.filters) |->
        Write(IF i % 2 = 1 THEN "C1FLTOBJ" ELSE "C1MASK", c.filters[(i + 1) \div 2], "wanted")]

FilterWrites_WithoutDisable(c) == SetFilters(c) \o ForWords(LAMBDA w : Enabled(c) \cap InWord(w))

\* Filters are disabled, since an enabled one cannot be changed, set, and enabled
\* word by word.  Without a list, filter 0 is the one that takes everything.
FilterWrites(c) ==
    ForWords(LAMBDA w : {}) \o SetFilters(c) \o ForWords(LAMBDA w : Enabled(c) \cap InWord(w))

Reqop(mode) ==
    CASE mode = "normal" -> 6 [] mode = "listen only" -> 3
      [] mode = "ack only" -> 7 [] mode = "offline" -> 4

Request(reqop) == <<Write("C1CON", 0, reqop)>>

\* set_controller_mode, up to the first request.
ModeWrites(c) ==
    WantAll(<<"C1NBTCFG", "C1TSCON", "C1TEFCON", "C1TXQCON", "C1FIFOCON1", "C1INT">>)
    \o Request(Reqop(c.mode))

-----------------------------------------------------------------------------
\* The driver finds a chip after power-up, or one left as a session left it.
Init ==
    /\ call \in Calls
    /\ chip \in {AfterReset,
                 [mode |-> 6, request |-> 6, enabled |-> {0}, holds |-> Fixed],
                 [mode |-> 4, request |-> 6, enabled |-> {0}, holds |-> Fixed]}
    /\ table = "old" /\ stage = "stop" /\ outcome = "stopped"
    /\ todo = <<>> /\ errors = 0 /\ try = 1 /\ lost = 0

\* The chip enters the mode it is asked for when the bus lets it.
ChipMode ==
    /\ chip.mode # chip.request
    /\ chip' = [chip EXCEPT !.mode = chip.request]
    /\ UNCHANGED <<table, call, stage, outcome, todo, errors, try, lost>>

-----------------------------------------------------------------------------
(* SPI transactions.                                                       *)

Running == outcome = "running"

WriteWord ==
    /\ Running /\ todo # <<>>
    /\ chip' = Written(chip, Head(todo)) /\ todo' = Tail(todo)
    /\ UNCHANGED <<table, call, stage, outcome, errors, try, lost>>

LoseWrite ==
    /\ Running /\ todo # <<>> /\ lost < MaxLost
    /\ lost' = lost + 1 /\ todo' = Tail(todo)
    /\ UNCHANGED <<chip, table, call, stage, outcome, errors, try>>

\* An attempt of read_word_crc whose CRC is wrong; after CRC_RETRIES of them the
\* word is all ones.
BadCrc ==
    /\ Running /\ todo = <<>> /\ stage \in {"pins", "config", "check", "mode"}
    /\ errors < CrcRetries
    /\ errors' = errors + 1
    /\ UNCHANGED <<chip, table, call, stage, outcome, todo, try, lost>>

Unreadable == errors = CrcRetries

\* OPMOD of C1CON as read.
ReadMode == IF Unreadable THEN 7 ELSE chip.mode

\* Of IOCON, bytes 1 and 2 hold no parameter; all ones is no value asked for.
PinsAsAsked == ~Unreadable /\ {Register("IOCON0"), Register("IOCON3")} \subseteq chip.holds

At(s) == Running /\ stage = s /\ todo = <<>>

Proceed(s, writes) ==
    stage' = s /\ todo' = writes /\ errors' = 0 /\ try' = 1 /\ outcome' = "running"

Again_Uncounted(writes) ==
    todo' = writes /\ errors' = 0 /\ UNCHANGED <<stage, outcome, try>>

Again(writes) ==
    todo' = writes /\ errors' = 0 /\ try' = try + 1 /\ UNCHANGED <<stage, outcome>>

Return(result) == outcome' = result /\ UNCHANGED <<stage, todo, errors, try>>

-----------------------------------------------------------------------------
(* can_setup_controller and can_stop_controller.                           *)

\* What an earlier setup wanted of a register with a fixed value is still wanted.
Setup(c) ==
    /\ ~Running
    /\ call' = c /\ lost' = 0
    /\ chip' = [chip EXCEPT !.holds = @ \cap Fixed]
    /\ Proceed("pins", PinWrites(c))
    /\ UNCHANGED table

\* Without an interface, or with more filters than the chip has, setup returns before
\* it touches anything.
SetupRefused ==
    /\ ~Running
    /\ Return("refused")
    /\ UNCHANGED <<chip, table, call, lost>>

PinsVerified ==
    /\ At("pins")
    /\ IF PinsAsAsked THEN Proceed("config", Request(4)) ELSE Return("bad write")
    /\ UNCHANGED <<chip, table, call, lost>>

ConfigMode_NotAwaited ==
    /\ At("config")
    /\ Proceed("filters", FilterWrites(call))
    /\ UNCHANGED <<chip, table, call, lost>>

\* set_controller_mode_config
ConfigMode ==
    /\ At("config")
    /\ IF ReadMode = 4 THEN Proceed("filters", FilterWrites(call))
       ELSE IF try < ConfigTries THEN Again(Request(4)) ELSE Return("bad init")
    /\ UNCHANGED <<chip, table, call, lost>>

\* The FIFOs are emptied, init_tx_buffers, the options are recorded.
InitTables ==
    /\ At("filters")
    /\ table' = "initialised"
    /\ Proceed("check", <<>>)
    /\ UNCHANGED <<chip, call, lost>>

StillConfigured ==
    /\ At("check")
    /\ IF ReadMode = 4 THEN Proceed("mode", ModeWrites(call)) ELSE Return("bad init")
    /\ UNCHANGED <<chip, table, call, lost>>

ModeEntered ==
    /\ At("mode")
    /\ IF ReadMode = Reqop(call.mode) THEN Return("ok")
       ELSE IF try < ModeTries THEN Again(Request(Reqop(call.mode))) ELSE Return("bad init")
    /\ UNCHANGED <<chip, table, call, lost>>

Stop ==
    /\ ~Running
    /\ lost' = 0
    /\ Proceed("stop", Request(4) \o <<Write("C1INT", 0, "off")>>)
    /\ UNCHANGED <<chip, table, call>>

\* init_tx_buffers; the mode is not waited for.
Stopped ==
    /\ At("stop")
    /\ Return("stopped")
    /\ UNCHANGED <<chip, table, call, lost>>

Driver ==
    \/ WriteWord \/ LoseWrite \/ BadCrc \/ PinsVerified \/ ConfigMode \/ InitTables
    \/ StillConfigured \/ ModeEntered \/ Stopped

Next == ChipMode \/ Driver \/ Stop \/ SetupRefused \/ \E c \in Calls : Setup(c)

Spec == Init /\ [][Next]_vars

\* A call the application has made runs on.
FairSpec == Spec /\ WF_vars(Driver)

-----------------------------------------------------------------------------
(* Properties.                                                             *)

\* Every register holds what the setup wants of it and exactly the filters of its
\* list are enabled.
Loaded ==
    /\ Fixed \cup {Register("C1NBTCFG")} \cup OfFilters(Enabled(call)) \subseteq chip.holds
    /\ chip.enabled = Enabled(call)

\* The all ones of a read that failed are also the mode `ack only'.
Misread == call.mode = "ack only" /\ Unreadable

\* CAN_ERC_NO_ERROR can be relied on: the pins are as asked for and the chip is in
\* the mode asked for, although writes were lost, and if none was the chip is set up
\* completely.  Excepted are a mode that was only misread, and OFFLINE when the
\* request that called off an earlier one was lost.
OkIsHonest ==
    outcome = "ok" =>
        /\ {Register("IOCON0"), Register("IOCON3")} \subseteq chip.holds
        /\ chip.mode = Reqop(call.mode) \/ Misread \/ (call.mode = "offline" /\ lost > 0)
        /\ lost = 0 => Loaded /\ table = "initialised"

\* From the moment configuration mode was seen, a chip that is on the bus is set up
\* completely, the driver's tables too: also one that enters its mode after the
\* driver has given up waiting and returned an error.
NeverHalfLoaded ==
    stage \in {"filters", "check", "mode"} /\ chip.mode # 4 /\ lost = 0 =>
        Loaded /\ table = "initialised"

\* `Keep trying but avoid an infinite loop': a setup or stop returns whatever the
\* chip answers, or if it does not.
CallsReturn == Running ~> ~Running
=============================================================================

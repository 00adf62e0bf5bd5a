------------------------------ MODULE TxService ------------------------------
(***************************************************************************)
(* What a controller's transmit path promises while the bus stays on: an   *)
(* accepted frame is sent; frames sent with USE_FIFO wait in line and go   *)
(* out in the order in which they were accepted, the others in any order;  *)
(* every frame sent is reported once, in the order of sending.             *)
(***************************************************************************)
EXTENDS Naturals, Sequences

CONSTANT Frame      \* records with an `id' and a `fifo' flag

VARIABLES
    waiting,        \* accepted frames that compete for the bus by priority
    line,           \* accepted FIFO frames
    sent,           \* frames transmitted
    reported        \* user references of transmitted frames the host can learn of

vars == <<waiting, line, sent, reported>>

Init == waiting = {} /\ line = <<>> /\ sent = <<>> /\ reported = <<>>

Accept(frame) ==
    /\ \/ ~frame.fifo /\ waiting' = waiting \cup {frame} /\ UNCHANGED line
       \/ frame.fifo /\ line' = Append(line, frame) /\ UNCHANGED waiting
    /\ UNCHANGED <<sent, reported>>

Transmit ==
    /\ \/ \E frame \in waiting :
            /\ waiting' = waiting \ {frame}
            /\ sent' = Append(sent, frame)
            /\ UNCHANGED line
       \/ /\ line # <<>>
          /\ line' = Tail(line)
          /\ sent' = Append(sent, Head(line))
          /\ UNCHANGED waiting
    /\ UNCHANGED reported

Report ==
    /\ Len(reported) < Len(sent)
    /\ reported' = Append(reported, sent[Len(reported) + 1].id)
    /\ UNCHANGED <<waiting, line, sent>>

Next == (\E frame \in Frame : Accept(frame)) \/ Transmit \/ Report

Spec == Init /\ [][Next]_vars /\ WF_vars(Transmit) /\ WF_vars(Report)
=============================================================================

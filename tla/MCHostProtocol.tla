--------------------------- MODULE MCHostProtocol ---------------------------
(* Commands and events for HostProtocol, in a byte of nine values.          *)
EXTENDS HostProtocol

\* An event of a received frame carries a start byte, one of a transmitted
\* frame an end byte: data may be anything.
MCEvent(cmd, c) == <<IF cmd = RecvRxEvents THEN Start ELSE End, c>>

\* Frames with and without data, a remote frame; polls; a frame whose dlc does
\* not match its data, one whose dlc is too large, a header cut short, a
\* controller that does not exist, a command that does not exist.
MCRequest ==
    [cmd : {SendFrame}, data : {<<0, 0, 1, Start>>, <<1, 1, 1>>, <<0, 0, 1>>, <<0, 1, 2>>, <<0>>}]
    \cup [cmd : {RecvRxEvents}, data : {<<0>>, <<1>>, <<End>>}]
    \cup [cmd : {RecvTxEvents}, data : {<<1>>}]
    \cup {[cmd |-> 3, data |-> <<>>]}
=============================================================================

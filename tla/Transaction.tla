----------------------------- MODULE Transaction -----------------------------
(***************************************************************************)
(* What make_transaction promises its callers: one command at a time, and  *)
(* an answer that belongs to the command - as long as no transaction was   *)
(* abandoned half-way.  After that any answer, or none, may come, until    *)
(* the port is reopened at a moment at which nothing is under way.         *)
(***************************************************************************)
CONSTANTS
    Request,        \* commands with their data
    None,           \* no command
    Answer,         \* what a transaction can return or raise
    Fitting(_)      \* the answers that fit a command

VARIABLES
    request,        \* the command under way, or None
    result,         \* the last answer
    trusted         \* no transaction was abandoned since the port was opened

vars == <<request, result, trusted>>

Init == request = None /\ result \in Answer /\ trusted = TRUE

Call(r) == request = None /\ request' = r /\ UNCHANGED <<result, trusted>>

Return ==
    /\ request # None
    /\ result' \in (IF trusted THEN Fitting(request) ELSE Answer)
    /\ request' = None
    /\ UNCHANGED trusted

Abandon == request' = None /\ trusted' = FALSE /\ UNCHANGED result

Reopen == request = None /\ trusted' \in BOOLEAN /\ UNCHANGED <<request, result>>

Next ==
    \/ \E r \in Request : Call(r)
    \/ Return \/ Abandon \/ Reopen

Spec == Init /\ [][Next]_vars
=============================================================================

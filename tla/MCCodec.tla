------------------------------- MODULE MCCodec -------------------------------
(***************************************************************************)
(* Requests, frames and filters for checking Codec: IDs at the edges of ID *)
(* A, of ID B and of the legal range, and beyond it; every DLC; payloads   *)
(* whose bytes all differ.                                                 *)
(***************************************************************************)
EXTENDS Codec

Payload == <<17, 34, 51, 68, 85, 102, 119, 136>>
Prefix(n) == [i \in 1..n |-> Payload[i]]

StandardIds == {0, 1, 1365, 2047}
ExtendedIds == {0, 2047, 2048, 262143, 262144, 305419896, 536870911}
LegalIds(extended) == IF extended THEN ExtendedIds ELSE StandardIds

\* A standard ID of 12 bits, an extended one of 31.
LargeIds(extended) == IF extended THEN {536870912, 1588444911} ELSE {2048, 65535}

Request(extended, remote, id, uref, dlc, data) ==
    [extended |-> extended, remote |-> remote, id |-> id, useUref |-> uref # 0, uref |-> uref,
     dlc |-> dlc, data |-> data]

MCRequests ==
    LET ids(extended) == LegalIds(extended) \cup LargeIds(extended)
    IN UNION {
        {Request(extended, FALSE, id, uref, 0, Prefix(n)) : id \in ids(extended), uref \in {0, 66051}, n \in 0..8}
        \cup {Request(extended, TRUE, id, uref, dlc, <<>>) : id \in ids(extended), uref \in {0, 66051}, dlc \in 0..9}
        : extended \in BOOLEAN}

Wire(extended, remote, id, dlc) ==
    [extended |-> extended, remote |-> remote, id |-> id, dlc |-> dlc,
     data |-> Prefix(IF remote THEN 0 ELSE IF dlc > 8 THEN 8 ELSE dlc)]

MCForeign ==
    UNION {{Wire(extended, remote, id, dlc) : id \in LegalIds(extended), remote \in BOOLEAN, dlc \in 0..15}
           : extended \in BOOLEAN}

MCRecords == {[type |-> type, first |-> n, second |-> m] : type \in {"overflow", "error"}, n \in {0, 66051}, m \in {1, 67305985}}

All == [kind |-> "all", extended |-> FALSE]
Disabled == [kind |-> "disabled", extended |-> FALSE]
Exact(extended, id) == [kind |-> "exact", extended |-> extended, id |-> id]
Masked(extended, id, mask) == [kind |-> "masked", extended |-> extended, id |-> id, mask |-> mask]

\* An ID of one kind asked for while the same number is on the bus in the other;
\* a mask across the border of ID A and ID B; a disabled filter in front.
MCFilterLists == {
    <<>>,
    <<Exact(FALSE, 2047), Exact(TRUE, 2047), Exact(TRUE, 262144)>>,
    <<Disabled, Masked(TRUE, 262144, 786432), Masked(FALSE, 1, 1)>>,
    <<Masked(TRUE, 305419896, 4095), Disabled, All>>}
=============================================================================

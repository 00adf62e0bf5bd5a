----------------------------- MODULE MCChipSetup -----------------------------
(***************************************************************************)
(* Calls for checking ChipSetup: every mode, without a reset too, with     *)
(* filters in both words or without a list (filter 0 takes everything).    *)
(***************************************************************************)
EXTENDS ChipSetup

MCCalls ==
    {[mode |-> "normal", reset |-> reset, filters |-> fs] : reset \in BOOLEAN, fs \in {<<0>>, <<1, 6>>}}
    \cup {[mode |-> mode, reset |-> FALSE, filters |-> <<0>>] : mode \in Modes \ {"normal"}}
=============================================================================

------------------------------- MODULE MCHotkey -------------------------------
(* The two keys of a pair, which share a flag.                               *)
EXTENDS HotkeyProperties

MCKeys == {"left_option", "right_option"}
MCBit == [k \in MCKeys |-> "Alternate"]
=============================================================================

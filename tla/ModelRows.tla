------------------------------- MODULE ModelRows -------------------------------
(* What the modules of the architecture model share: how a row of its tables, or a *)
(* writer, is missing.                                                              *)

CONSTANTS
    Top,             \* no parent component
    Absent,          \* no row
    NoAgent          \* the last event was no conditional write
=============================================================================

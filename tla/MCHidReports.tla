----------------------------- MODULE MCHidReports -----------------------------
(***************************************************************************)
(* Model-checking instance of HidReports: two keys, polls 8 or 12 ms       *)
(* apart, idle rates of 4 and 20 ms, and a clock that wraps every 36 ms,   *)
(* so that it wraps in every debouncing and idle period.                   *)
(***************************************************************************)
EXTENDS HidReports
===============================================================================

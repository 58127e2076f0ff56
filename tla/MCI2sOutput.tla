----------------------------- MODULE MCI2sOutput -----------------------------
(***************************************************************************)
(* Model-checking instance of I2sOutput.                                   *)
(***************************************************************************)
EXTENDS I2sOutput
===============================================================================

------------------------------ MODULE MCAudioPath ------------------------------
(***************************************************************************)
(* Model-checking instances of AudioPath.                                  *)
(***************************************************************************)
EXTENDS AudioPath
===============================================================================

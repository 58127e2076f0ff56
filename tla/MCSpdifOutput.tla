---------------------------- MODULE MCSpdifOutput ----------------------------
(***************************************************************************)
(* Model-checking instance of SpdifOutput: the dual-output build, which    *)
(* has every interleaving of the single-output one and more.  The coding   *)
(* of the blocks is checked along with it.                                 *)
(***************************************************************************)
EXTENDS SpdifSignal
===============================================================================

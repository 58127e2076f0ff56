----------------------------- MODULE MCRingBuffer -----------------------------
(***************************************************************************)
(* Model-checking instance of RingBuffer: two distinguishable bytes, sizes *)
(* that wrap at different places, one of them above the capacity.          *)
(***************************************************************************)
EXTENDS RingBuffer
===============================================================================

---------------------------- MODULE MCUsbEventQueue ----------------------------
(***************************************************************************)
(* Model-checking instances of UsbEventQueue, both with HID: a queue long  *)
(* enough for all events but audio, with a bus reset, and one with little  *)
(* more than the four places that audio leaves.                            *)
(***************************************************************************)
EXTENDS UsbEventQueue
===============================================================================

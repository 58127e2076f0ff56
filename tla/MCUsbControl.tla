------------------------------ MODULE MCUsbControl ------------------------------
(***************************************************************************)
(* Model-checking instances of UsbControl.                                 *)
(***************************************************************************)
EXTENDS UsbControl
===============================================================================

---------------------------- MODULE MCUsbEndpoints ----------------------------
(***************************************************************************)
(* Model-checking instance of UsbEndpoints: the build with every alternate *)
(* setting, and four requests or bus resets.                               *)
(***************************************************************************)
EXTENDS UsbEndpoints
===============================================================================

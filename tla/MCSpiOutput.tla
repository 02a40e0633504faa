------------------------------ MODULE MCSpiOutput ------------------------------
(***************************************************************************)
(* Instances of SpiOutput: the driver core's thread and a user of the HID  *)
(* device.                                                                 *)
(***************************************************************************)
EXTENDS SpiOutput

CONSTANTS core, user

TwoWriters == {core, user}
===============================================================================

------------------------------- MODULE MCHidSpi -------------------------------
(***************************************************************************)
(* Instances of HidSpi for model checking.                                 *)
(***************************************************************************)
EXTENDS HidSpi

GoodDevice == {"good"}
AnyDescriptor == {"good", "bad"}

Silent == {}
Touches == {"DATA", "FRAGMENTS"}
AnyDevice == {"RESET", "DATA", "FRAGMENTS", "REJECTED", "ANSWERS"}
===============================================================================

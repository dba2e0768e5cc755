--------------------------- MODULE MCSdwEnumeration ---------------------------
(***************************************************************************)
(* Instances of SdwEnumeration for TLC.                                    *)
(***************************************************************************)
EXTENDS SdwEnumeration

CONSTANTS d1, d2, x
===============================================================================

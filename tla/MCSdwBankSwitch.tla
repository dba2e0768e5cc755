--------------------------- MODULE MCSdwBankSwitch ----------------------------
(* Links in the order in which every stream takes them. *)
EXTENDS SdwBankSwitch

CONSTANTS b1, b2, b3, s1, s2

TwoLinks == {<<b1>>, <<b2>>, <<b1, b2>>}
ThreeLinks == {<<b1, b2>>, <<b3>>}
===============================================================================

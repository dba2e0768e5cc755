------------------------------ MODULE MCSdwStream ------------------------------
(***************************************************************************)
(* Instances of SdwStream for TLC: two streams on one bus, and a stream on *)
(* two links next to a stream on the second of them.                       *)
(***************************************************************************)
EXTENDS SdwStream, TLC

CONSTANTS s1, s2, b1, b2

OneBus == (s1 :> <<b1>>) @@ (s2 :> <<b1>>)
TwoLinks == (s1 :> <<b1, b2>>) @@ (s2 :> <<b2>>)

\* In OneBus the streams are alike.
Symmetry == Permutations(Stream)

NoDemand == (s1 :> 0) @@ (s2 :> 0)
MixedDemand == (s1 :> 3) @@ (s2 :> 2)

\* One clock with room for every stream.
WideClock == <<8>>
===============================================================================

----------------------------- MODULE MCSdwRuntime -----------------------------
(* Cards with a playback and a capture stream that share a link, the playback *)
(* stream with two codecs, or with one and more formats to choose from, and a *)
(* playback stream on two links with and without support for it.              *)
EXTENDS SdwRuntime, TLC

CONSTANTS s1, s2, s3, b1, b2, x1, x2, x3, x4

OneFreq == <<6>>
Ask(rate, ch) == [rate |-> rate, bps |-> 1, ch |-> ch]
SomeAsked == s1 :> {Ask(1, 1), Ask(2, 1)} @@ s2 :> {Ask(2, 1)}
             @@ s3 :> {Ask(1, 3), Ask(1, 1), Ask(2, 1)}
SomeFaults == s1 :> {"nomem", "dai", "component"} @@ s2 :> {} @@ s3 :> {"nomem"}
Shared == [codecs |-> s1 :> <<x1, x2>> @@ s2 :> <<x3>> @@ s3 :> <<>>,
           cpus |-> s1 :> <<b1>> @@ s2 :> <<b1>> @@ s3 :> <<>>,
           multi_link |-> {b1, b2}]
Formats == [codecs |-> s1 :> <<>> @@ s2 :> <<x3>> @@ s3 :> <<x1>>,
            cpus |-> s1 :> <<>> @@ s2 :> <<b1>> @@ s3 :> <<b1>>,
            multi_link |-> {b1, b2}]
TwoLinks(multi) ==
 [codecs |-> s1 :> <<x1, x4>> @@ s2 :> <<>> @@ s3 :> <<>>,
  cpus |-> s1 :> <<b1, b2>> @@ s2 :> <<>> @@ s3 :> <<>>, multi_link |-> multi]
SomeCards == {Shared, Formats, TwoLinks({b1, b2}), TwoLinks({})}
SomeBusOf == [x \in {x1, x2, x3} |-> b1] @@ x4 :> b2
===============================================================================

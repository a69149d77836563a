---------------------------- MODULE MCStreaming ----------------------------
(***************************************************************************)
(* Streaming for TLC: two streams of several kinds on a pool of three      *)
(* buffers, one fewer than two downloads would like to have.               *)
(***************************************************************************)
EXTENDS Streaming, TLC

CONSTANTS s1, s2

Pairs == {<<"download", "download">>, <<"download", "upload">>, <<"download", "small">>,
          <<"upload", "upload">>, <<"small", "copy">>}
PairMixes == {s1 :> p[1] @@ s2 :> p[2] : p \in Pairs}
UploadOnly == {[s \in Streams |-> "upload"]}
Lengths == [k \in Kinds |-> CASE k = "download" -> 3 [] k = "small" -> 1 [] OTHER -> 2]

\* The ring's fatal error is not combined with another failure.
RingOrFault == faults = 0 \/ ring = "up"
=============================================================================

---------------------------- MODULE AudioSamples ----------------------------
(* The numbers samples are told apart by, and the sizes of the output.        *)
EXTENDS Integers

CONSTANTS OutSize,   \* samples of the output buffer (p_out_size)
          OutChunk,  \* samples the speaker takes at once
          Samples,   \* numbers of the samples, before they are used again
          None       \* nothing was heard yet

Labels == 0..(Samples - 1)

Blocks(len) == [0..(len - 1) -> Labels]

ASSUME SamplesAssumption ==
    /\ OutSize \in Nat \ {0}
    /\ OutChunk \in 1..OutSize
    /\ Samples \in Nat
    /\ Samples > OutSize
    /\ None \notin Blocks(OutChunk)

\* The number of the sample n after k.
Later(k, n) == IF k + n >= Samples THEN k + n - Samples ELSE k + n

\* The len samples from number k on.
Block(k, len) == [j \in 0..(len - 1) |-> Later(k, j)]

\* The sample to be heard after block b.
NextAfter(b) == IF b = None THEN 0 ELSE Later(b[OutChunk - 1], 1)
=============================================================================

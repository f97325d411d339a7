---------------------------- MODULE AudioStream ----------------------------
(***************************************************************************)
(* What the audio driver promises the engine: what it mixes is heard,      *)
(* every sample once and in the order it was mixed, and the engine is at   *)
(* most one buffer ahead of the speaker.                                   *)
(***************************************************************************)
EXTENDS AudioSamples

VARIABLES heard,  \* the block the speaker took last
          ahead   \* how many samples are mixed and not heard yet

Init == heard = None /\ ahead = 0

Mix ==
    /\ ahead' \in (ahead + 1)..OutSize
    /\ UNCHANGED heard

Play ==
    /\ ahead >= OutChunk
    /\ heard' = Block(NextAfter(heard), OutChunk)
    /\ ahead' = ahead - OutChunk

\* The driver is closed: what was not heard is lost.
Close ==
    /\ ahead' = 0
    /\ UNCHANGED heard

Next == Mix \/ Play \/ Close

Spec == Init /\ [][Next]_<<heard, ahead>>
=============================================================================

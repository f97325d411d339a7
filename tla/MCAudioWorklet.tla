--------------------------- MODULE MCAudioWorklet ---------------------------
(* A stereo speaker with three frames of buffer and a microphone of one or    *)
(* two channels, for TLC.                                                     *)
EXTENDS AudioProperties
=============================================================================

------------------------- MODULE MCAudioRingBuffer -------------------------
(* AudioRingBuffer with arrays shorter than, as long as and longer than the *)
(* buffer, and two sample values so that order shows.                       *)
EXTENDS AudioRingBuffer

MCArrays == UNION { [1..n -> Samples] : n \in 1..(Capacity + 1) }
=============================================================================

----------------------------- MODULE MCEnergyVAD -----------------------------
(* EnergyVAD on two-sample frames: calls shorter than a frame, of a frame   *)
(* and a half, and of two frames; amplitudes below, between and above the   *)
(* two thresholds; minimum durations that are not whole frames.             *)
EXTENDS EnergyVAD

MCInputs == {<<0>>, <<1>>, <<2>>, <<2, 2, 2>>, <<0, 0, 0, 0>>}
=============================================================================

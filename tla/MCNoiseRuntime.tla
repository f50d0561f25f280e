--------------------------- MODULE MCNoiseRuntime ---------------------------
(***************************************************************************)
(* Small instances of NoiseRuntime.                                        *)
(***************************************************************************)
EXTENDS NoiseRuntime

CONSTANTS c1, c2, c3
=============================================================================

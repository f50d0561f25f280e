------------------------ MODULE MCServerCoordinator ------------------------
(***************************************************************************)
(* Small instances of ServerCoordinator.  Two hellos are enough: the       *)
(* handlers ask only whether one is acceptable and whether it is the one   *)
(* the candidate was admitted with, and sessions differ by their           *)
(* ephemerals.                                                             *)
(***************************************************************************)
EXTENDS ServerCoordinator, TLC

CONSTANTS s1, s2, s3, good, bad

MCSources == {s1, s2, s3}
MCHellos == {good, bad}
MCAcceptable == {good}
Symmetry == Permutations(MCSources)
=============================================================================

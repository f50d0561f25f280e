------------------------ MODULE MCClientCoordinator ------------------------
(***************************************************************************)
(* Two clients; one may be sent an answer meant for the other.             *)
(***************************************************************************)
EXTENDS ClientCoordinator, TLC

CONSTANTS c1, c2

MCClients == {c1, c2}
Symmetry == Permutations(MCClients)
=============================================================================

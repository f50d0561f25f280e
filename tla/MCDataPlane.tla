---------------------------- MODULE MCDataPlane ----------------------------
(***************************************************************************)
(* A small instance of DataPlane.                                          *)
(***************************************************************************)
EXTENDS DataPlane

PerSide(client, server) == [x \in Sides |-> IF x = "client" THEN client ELSE server]

\* The client may use up its sequence numbers; the server has one packet only
One == PerSide(1, 1)
WindowOutPackets == PerSide(6, 1)
WindowInPackets == PerSide(1, 6)
WindowBytes == PerSide(7, 7)
=============================================================================

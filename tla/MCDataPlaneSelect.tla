------------------------- MODULE MCDataPlaneSelect -------------------------
(***************************************************************************)
(* A small instance of DataPlaneSelect: every limit is reached, those of   *)
(* bytes and of packets in both directions at the client, the outbound     *)
(* byte counter's own range at the server.                                 *)
(***************************************************************************)
EXTENDS DataPlaneSelect

PerSide(client, server) == [x \in Sides |-> IF x = "client" THEN client ELSE server]

LimitMtu == PerSide(2, 3)
LimitOutPackets == PerSide(1, 3)
LimitOutBytes == PerSide(1, 4)
LimitInPackets == PerSide(2, 1)
LimitInBytes == PerSide(3, 4)
LimitIdle == PerSide(1, 1)
=============================================================================

--------------------------- MODULE MCLegacyTunnel ---------------------------
EXTENDS LegacyTunnel

\* The server's MTU is the smallest, so that it meets oversized frames; the second client's
\* admits frames of the length of the encrypted mode.
MCMtu == [e \in Ends |-> CASE e = Server -> 2 [] e = "c1" -> 3 [] OTHER -> 200]
MCMaxTurns == [e \in Ends |-> CASE e = Server -> 3 [] e = "c1" -> 2 [] OTHER -> 1]

Bytes(id, direction, sequence, data) ==
    [id |-> id, direction |-> direction, sequence |-> sequence, data |-> data]

\* Empty, within the MTU, beyond it; bytes that look like a data header.
MCPackets ==
    [e \in Ends |->
        CASE e = "c1" -> {[size |-> 2, bytes |-> Bytes(1, 1, 1, 1)]}
          [] e = "c2" -> {[size |-> n, bytes |-> Bytes(0, 0, 0, 2)] : n \in {0, 1}}
          [] OTHER -> {[size |-> n, bytes |-> Bytes(0, 0, 0, 3)] : n \in {1, 3}}]

\* What the encrypted mode sends, and damaged frames of every kind.
Handshakes == {EncodeHandshake(k, Bytes(1, 0, 0, 4)) : k \in 2..5}
DataFrames == {EncodeData(1, Bytes(1, x, 1, 4)) : x \in {0, 1}}
Plain == EncodePacket(1, Bytes(0, 0, 0, 4))
Edge(d) == {[d EXCEPT !.magic = FALSE], [d EXCEPT !.version = 3], [d EXCEPT !.kind = 9],
            [d EXCEPT !.flags = 1], [d EXCEPT !.length = @ + 1], [d EXCEPT !.size = @ - 1],
            [d EXCEPT !.size = @ - 1, !.length = @ - 1],
            [d EXCEPT !.size = @ + 1, !.length = @ + 1],
            [d EXCEPT !.body.id = 0], [d EXCEPT !.body.sequence = 0]}
MCSamples ==
    Handshakes \cup DataFrames
    \cup UNION {Edge(d) : d \in {EncodeHandshake(ServerFinish, Bytes(1, 0, 0, 4)), Plain,
                                EncodeData(1, Bytes(1, 1, 1, 4))}}
    \cup {EncodeData(1, Bytes(1, 2, 1, 4)), EncodeData(1, Bytes(1, 0, MaxSequence + 1, 4))}
From(src, dst, d) == [src |-> src, dst |-> dst, datagram |-> d]
MCStrays ==
    {From("c2", Server, EncodeHandshake(ClientHello, Bytes(1, 0, 0, 4))),
     From("c2", Server, [Plain EXCEPT !.size = 0]),
     From("c2", Server, [Plain EXCEPT !.version = 3]),
     From(Server, "c1", [Plain EXCEPT !.length = 2])}
=============================================================================

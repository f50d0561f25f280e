------------------------- MODULE LegacyTunnelProofs -------------------------
(***************************************************************************)
(* For every set of clients, MTU, counter range and set of packets: the    *)
(* server has one peer, the statistics are exact and no datagram under way *)
(* is ambiguous.  The codecs come first, then a turn of a loop, the peer   *)
(* and the invariant.                                                      *)
(***************************************************************************)
EXTENDS LegacyTunnel, TLAPS

\* recv into a buffer of any length leaves a datagram.
LEMMA TruncateType ==
    ASSUME NEW d \in Datagram, NEW n \in Nat
    PROVE  Truncate(d, n) \in Datagram
BY Zenon DEF Truncate, Datagram, Body

\* FrameCodec::decode of a buffer one byte longer than the largest frame: what it accepts
\* was not truncated and is the frame of a packet within the MTU.
LEMMA PacketAccepted ==
    ASSUME NEW d \in Datagram, NEW mtu \in Nat, AcceptsPacket(mtu, Received(mtu, d))
    PROVE  /\ Received(mtu, d) = d /\ d.size - HeaderLength \in 1..mtu
           /\ d.version = V1 /\ d.kind = Data
           /\ d = EncodePacket(d.length, d.body)
<1>1. d.size \in Nat
  BY DEF Datagram
<1>2. d.size <= MaxFrame(mtu) + 1
  BY <1>1 DEF AcceptsPacket, Received, Truncate, Encodable, MaxFrame, HeaderLength
<1>3. Received(mtu, d) = d
  BY <1>2 DEF Received, Truncate
<1>4. /\ d.size - HeaderLength \in 1..mtu /\ d.kind = Data
      /\ d.magic /\ d.version = V1 /\ d.flags = FlagsNone /\ d.length = d.size - HeaderLength
  BY <1>3 DEF AcceptsPacket, Encodable, Intact
<1>5. d = EncodePacket(d.length, d.body)
  BY <1>1, <1>4 DEF EncodePacket, Framed, Datagram, HeaderLength
<1> QED  BY <1>3, <1>4, <1>5

\* receive_client_frame and receive_server_frame, likewise.
LEMMA HandshakeAccepted ==
    ASSUME NEW d \in Datagram, NEW role \in {"Client", "Server"},
           AcceptsHandshake(role, Truncate(d, MaxHandshakeFrame(HandshakePayload) + 1))
    PROVE  /\ d.version = V2 /\ d.kind \in InboundKinds(role)
           /\ d = EncodeHandshake(d.kind, d.body)
<1> DEFINE t == Truncate(d, MaxHandshakeFrame(HandshakePayload) + 1)
<1>1. d.size \in Nat
  BY DEF Datagram
<1>2. t.size - HeaderLength - AttemptIdLength \in 1..HandshakePayload
  BY DEF AcceptsHandshake, DecodesHandshake
<1>3. d.size <= MaxHandshakeFrame(HandshakePayload) + 1
  BY <1>1, <1>2 DEF Truncate, MaxHandshakeFrame, HandshakePayload, HeaderLength, AttemptIdLength
<1>4. t = d
  BY <1>3 DEF Truncate
<1>5. /\ d.magic /\ d.version = V2 /\ d.flags = FlagsNone /\ d.length = d.size - HeaderLength
      /\ d.kind \in InboundKinds(role)
      /\ d.size - HeaderLength - AttemptIdLength = PayloadLength(d.kind)
  BY <1>4, SMTT(30) DEF AcceptsHandshake, DecodesHandshake, Intact
<1>6. d.length = AttemptIdLength + PayloadLength(d.kind) /\ d.size = HeaderLength + d.length
  <2>1. PayloadLength(d.kind) \in Nat
    BY DEF PayloadLength
  <2> QED  BY <1>1, <1>5, <2>1 DEF HeaderLength, AttemptIdLength
<1>7. d = EncodeHandshake(d.kind, d.body)
  BY <1>5, <1>6, Zenon DEF EncodeHandshake, Framed, Datagram
<1> QED  BY <1>5, <1>7

\* DataFrameCodec::decode_data, likewise.
LEMMA DataAccepted ==
    ASSUME NEW d \in Datagram, NEW mtu \in Nat,
           AcceptsData(mtu, Truncate(d, MaxDataFrame(mtu) + 1))
    PROVE  /\ d.version = V2 /\ d.kind = Data
           /\ d = EncodeData(d.length - DataFixedLength - DataOverhead, d.body)
           /\ EncodesData(mtu, d.length - DataFixedLength - DataOverhead, d.body)
<1> DEFINE t == Truncate(d, MaxDataFrame(mtu) + 1)
<1>1. d.size \in Nat
  BY DEF Datagram
<1>2. t = d /\ d.size <= MaxDataFrame(mtu)
  BY <1>1 DEF AcceptsData, Truncate, MaxDataFrame, HeaderLength, DataFixedLength, DataOverhead
<1>3. /\ d.magic /\ d.version = V2 /\ d.flags = FlagsNone /\ d.length = d.size - HeaderLength
      /\ d.kind = Data
      /\ d.size - HeaderLength >= DataFixedLength + DataOverhead + 1
      /\ d.body.id # 0 /\ d.body.direction \in Directions /\ d.body.sequence \in 1..MaxSequence
  BY <1>2, SMTT(30) DEF AcceptsData, Intact
<1>4. /\ d.length = DataFixedLength + DataOverhead + (d.length - DataFixedLength - DataOverhead)
      /\ d.size = HeaderLength + d.length
      /\ d.length - DataFixedLength - DataOverhead \in 1..mtu
  BY <1>1, <1>2, <1>3 DEF MaxDataFrame, HeaderLength, DataFixedLength, DataOverhead
<1>5. d = EncodeData(d.length - DataFixedLength - DataOverhead, d.body)
  BY <1>3, <1>4, Zenon DEF EncodeData, Framed, Datagram
<1> QED  BY <1>3, <1>4, <1>5, SMTT(30) DEF EncodesData

\* The three decoders, on every datagram and for every MTU: what they accept is what the
\* encoders write, and no datagram has two kinds of receiver.
THEOREM DatagramsUnambiguous ==
    ASSUME NEW d \in Datagram, NEW mtu \in Nat
    PROVE  Unambiguous(d, mtu)
<1> DEFINE packet == AcceptsPacket(mtu, Received(mtu, d))
           handshake(role) ==
               AcceptsHandshake(role, Truncate(d, MaxHandshakeFrame(HandshakePayload) + 1))
           data == AcceptsData(mtu, Truncate(d, MaxDataFrame(mtu) + 1))
<1>1. packet => d.version = V1 /\ d.kind = Data /\ d = EncodePacket(d.length, d.body)
  BY PacketAccepted
<1>2. \A role \in {"Client", "Server"} : handshake(role) =>
          d.version = V2 /\ d.kind \in InboundKinds(role) /\ d = EncodeHandshake(d.kind, d.body)
  BY HandshakeAccepted
<1>3. data => /\ d.version = V2 /\ d.kind = Data
              /\ d = EncodeData(d.length - DataFixedLength - DataOverhead, d.body)
              /\ EncodesData(mtu, d.length - DataFixedLength - DataOverhead, d.body)
  BY DataAccepted
<1>4. V1 # V2 /\ Data \notin InboundKinds("Client") /\ Data \notin InboundKinds("Server")
      /\ InboundKinds("Client") \cap InboundKinds("Server") = {}
  BY DEF V1, V2, Data, InboundKinds, ClientHello, ServerHello, ClientFinish, ServerFinish
<1> HIDE DEF packet, handshake, data
<1>5. ~(packet /\ data) /\ ~(handshake("Client") /\ handshake("Server"))
  BY <1>1, <1>2, <1>3, <1>4
<1>6. handshake("Client") \/ handshake("Server") => ~packet /\ ~data
  BY <1>1, <1>2, <1>3, <1>4
<1> QED  BY <1>1, <1>2, <1>3, <1>5, <1>6, Zenon DEF Unambiguous, packet, handshake, data
-----------------------------------------------------------------------------
(* The statistics                                                          *)

Traffic == {<<"SentPackets", "SentBytes">>, <<"InjectedPackets", "InjectedBytes">>}

\* What one turn of a loop may do to the statistics and to the loop
Outcome(e) ==
    \/ \E c \in Drops : Drop(e, c)
    \/ \E t \in Traffic, n \in 1..Mtu[e] : Record(e, t[1], t[2], n) /\ UNCHANGED loop
    \/ \E f \in Failures : Fail(e, f)

\* Every end has a positive MTU (TunnelConfig).
LEMMA MtuType == \A e \in Ends : Mtu[e] \in Nat \ {0}
<1>1. Mtu \in [Ends -> 1..U16Max]
  BY TunnelAssumption
<1>2. U16Max \in Nat
  BY DEF U16Max
<1> QED  BY <1>1, <1>2

\* saturating_add stays within the counter and is exact below its maximum.
LEMMA Saturates ==
    ASSUME NEW a \in 0..CounterMax, NEW b \in Nat
    PROVE  /\ SaturatingAdd(a, b) \in 0..CounterMax
           /\ a + b <= CounterMax => SaturatingAdd(a, b) = a + b
           /\ a + b > CounterMax => SaturatingAdd(a, b) = CounterMax
BY TunnelAssumption DEF SaturatingAdd

\* Counted is a sum of naturals, so none of them is above it.
LEMMA CountedBounds ==
    ASSUME NEW s \in [Counters -> 0..CounterMax]
    PROVE  /\ Counted(s) \in Nat
           /\ \A c \in Drops \cup {"SentPackets", "InjectedPackets"} : s[c] <= Counted(s)
<1>1. \A c \in Counters : s[c] \in Nat
  BY TunnelAssumption
<1> QED  BY <1>1, SMTT(20) DEF Counted, Counters, Drops

\* One counter more, and the others as they were: the sum is one more.
LEMMA CountedGrows ==
    ASSUME NEW s \in [Counters -> 0..CounterMax], NEW t \in [Counters -> 0..CounterMax],
           NEW c \in Drops \cup {"SentPackets", "InjectedPackets"},
           t[c] = s[c] + 1,
           \A k \in (Drops \cup {"SentPackets", "InjectedPackets"}) \ {c} : t[k] = s[k]
    PROVE  Counted(t) = Counted(s) + 1
<1>1. \A k \in Counters : s[k] \in Nat /\ t[k] \in Nat
  BY TunnelAssumption
<1> QED  BY <1>1, SMTT(30) DEF Counted, Counters, Drops

\* The bytes stay between the packets and the packets times the MTU, at the counters'
\* maximum too.
LEMMA BytesStay ==
    ASSUME NEW p \in 0..CounterMax, NEW b \in 0..CounterMax, NEW mtu \in Nat \ {0},
           NEW n \in 1..mtu, b \in p..(p * mtu)
    PROVE  SaturatingAdd(b, n) \in SaturatingAdd(p, 1)..(SaturatingAdd(p, 1) * mtu)
<1>1. CounterMax \in Nat \ {0}
  BY TunnelAssumption
<1>2. p * mtu \in Nat /\ (p + 1) * mtu = p * mtu + mtu
  OBVIOUS
<1>3. CounterMax * mtu >= CounterMax
  BY <1>1
<1>4. CASE p + 1 > CounterMax
  <2>1. SaturatingAdd(p, 1) = CounterMax /\ SaturatingAdd(b, n) = CounterMax
    BY <1>1, <1>4 DEF SaturatingAdd
  <2> QED  BY <1>1, <1>3, <2>1
<1>5. CASE p + 1 <= CounterMax
  <2>1. SaturatingAdd(p, 1) = p + 1
    BY <1>1, <1>5 DEF SaturatingAdd
  <2>2. b + n <= p * mtu + mtu /\ b + n >= p + 1
    BY <1>2
  <2>3. SaturatingAdd(b, n) \in (p + 1)..(p * mtu + mtu)
    BY <1>1, <1>2, <1>5, <2>2 DEF SaturatingAdd
  <2> QED  BY <1>2, <2>1, <2>3
<1> QED  BY <1>1, <1>4, <1>5

\* What a turn has to keep of the statistics
StatsKept ==
    /\ stats \in [Ends -> [Counters -> 0..CounterMax]]
    /\ loop \in [Ends -> {"Running", "Stopped", "SignalFailed"} \cup Failures]
    /\ turns \in [Ends -> Nat]
    /\ StatsExact

\* A turn of a loop keeps the statistics exact.
LEMMA OutcomeKeepsStats ==
    ASSUME TunnelTypeOK, StatsExact, NEW e \in Ends, Turn(e), Outcome(e)
    PROVE  StatsKept'
<1> DEFINE packets == {"SentPackets", "InjectedPackets"}
<1>1. /\ stats \in [Ends -> [Counters -> 0..CounterMax]] /\ turns \in [Ends -> Nat]
      /\ loop \in [Ends -> {"Running", "Stopped", "SignalFailed"} \cup Failures]
      /\ CounterMax \in Nat \ {0}
  BY TunnelAssumption DEF TunnelTypeOK
<1>2. /\ loop[e] = "Running" /\ turns' \in [Ends -> Nat]
      /\ turns'[e] = turns[e] + 1 /\ \A f \in Ends \ {e} : turns'[f] = turns[f]
  BY <1>1 DEF Turn
<1>3. Mtu[e] \in Nat \ {0}
  BY MtuType
<1>4. \A f \in Ends : stats[f] \in [Counters -> 0..CounterMax]
  BY <1>1
<1>5. "Running" \notin Failures
  BY DEF Failures
<1>6. turns[e] \in Nat /\ Taken(e) = turns[e]
  <2>1. turns[e] \in Nat /\ Taken(e) = turns[e] - 0
    BY <1>1, <1>2, <1>5 DEF Taken
  <2> QED  BY <2>1
<1>7. ASSUME stats' \in [Ends -> [Counters -> 0..CounterMax]],
             \A f \in Ends \ {e} : stats'[f] = stats[f] /\ loop'[f] = loop[f],
             (Taken(e) <= CounterMax => Counted(stats[e]) = Taken(e))'
             /\ BytesInRange(e, "SentPackets", "SentBytes")'
             /\ BytesInRange(e, "InjectedPackets", "InjectedBytes")'
      PROVE  StatsExact'
  BY <1>2, <1>7, ZenonT(30) DEF StatsExact, Taken, BytesInRange
<1>8. ASSUME NEW c \in Drops, Drop(e, c) PROVE StatsKept'
  <2>1. UNCHANGED loop /\ stats' = [stats EXCEPT ![e][c] = SaturatingAdd(@, 1)]
    BY <1>8 DEF Drop
  <2>2. SaturatingAdd(stats[e][c], 1) \in 0..CounterMax
    BY <1>4, Saturates DEF Counters
  <2>3. stats' \in [Ends -> [Counters -> 0..CounterMax]]
    BY <1>1, <2>1, <2>2, Zenon
  <2>4. /\ \A f \in Ends \ {e} : stats'[f] = stats[f]
        /\ stats'[e][c] = SaturatingAdd(stats[e][c], 1)
        /\ \A k \in Counters \ {c} : stats'[e][k] = stats[e][k]
    BY <1>1, <2>1 DEF Counters
  <2>5. (Taken(e) <= CounterMax => Counted(stats[e]) = Taken(e))'
    <3> SUFFICES ASSUME turns[e] + 1 <= CounterMax PROVE Counted(stats'[e]) = turns[e] + 1
      BY <1>1, <1>2, <1>5, <2>1 DEF Taken
    <3>1. turns[e] \in Nat
      BY <1>1
    <3>2. Counted(stats[e]) = turns[e]
      BY <1>1, <1>6, <3>1 DEF StatsExact
    <3>3. stats[e][c] + 1 <= CounterMax
      <4>1. stats[e][c] \in 0..CounterMax /\ stats[e][c] <= Counted(stats[e])
        BY <1>4, CountedBounds, Zenon DEF Counters
      <4> QED  BY <1>1, <3>1, <3>2, <4>1
    <3>4. stats'[e][c] = stats[e][c] + 1
      BY <1>4, <2>4, <3>3, Saturates, SMTT(30) DEF Counters
    <3>5. \A k \in (Drops \cup packets) \ {c} : stats'[e][k] = stats[e][k]
      BY <2>4 DEF Counters
    <3> QED  BY <1>4, <2>3, <3>2, <3>4, <3>5, CountedGrows, SMTT(30)
  <2>6. BytesInRange(e, "SentPackets", "SentBytes")'
        /\ BytesInRange(e, "InjectedPackets", "InjectedBytes")'
    BY <2>4, ZenonT(30) DEF StatsExact, BytesInRange, Counters, Drops
  <2> QED  BY <1>1, <1>2, <1>7, <2>1, <2>3, <2>4, <2>5, <2>6, Zenon DEF StatsKept
<1>9. ASSUME NEW t \in Traffic, NEW n \in 1..Mtu[e], Record(e, t[1], t[2], n), UNCHANGED loop
      PROVE  StatsKept'
  <2> DEFINE p == t[1]
             b == t[2]
  <2>1. p \in packets /\ p \in Counters /\ b \in Counters /\ b \notin Drops \cup packets
    BY DEF Traffic, Counters, Drops
  <2>2. p # b
    BY <2>1
  <2> HIDE DEF p, b
  <2>3. stats' = [stats EXCEPT ![e] =
                     [[stats[e] EXCEPT ![p] = SaturatingAdd(stats[e][p], 1)]
                           EXCEPT ![b] = SaturatingAdd(stats[e][b], n)]]
    BY <1>1, <1>4, <1>9, <2>1, <2>2, Zenon DEF Record, p, b
  <2>4. n \in Nat
    BY <1>3
  <2>5. /\ SaturatingAdd(stats[e][p], 1) \in 0..CounterMax
        /\ SaturatingAdd(stats[e][b], n) \in 0..CounterMax
    BY <1>4, <2>1, <2>4, Saturates, Zenon
  <2>6. stats' \in [Ends -> [Counters -> 0..CounterMax]]
    BY <1>1, <1>4, <2>3, <2>5, Zenon
  <2>7. /\ \A f \in Ends \ {e} : stats'[f] = stats[f]
        /\ stats'[e][p] = SaturatingAdd(stats[e][p], 1)
        /\ stats'[e][b] = SaturatingAdd(stats[e][b], n)
        /\ \A k \in Counters \ {p, b} : stats'[e][k] = stats[e][k]
    BY <1>1, <1>4, <2>1, <2>2, <2>3, Zenon
  <2>8. (Taken(e) <= CounterMax => Counted(stats[e]) = Taken(e))'
    <3> SUFFICES ASSUME turns[e] + 1 <= CounterMax PROVE Counted(stats'[e]) = turns[e] + 1
      BY <1>1, <1>2, <1>5, <1>9 DEF Taken
    <3>1. turns[e] \in Nat
      BY <1>1
    <3>2. Counted(stats[e]) = turns[e]
      BY <1>1, <1>6, <3>1 DEF StatsExact
    <3>3. stats[e][p] \in 0..CounterMax /\ stats[e][p] <= Counted(stats[e])
      BY <1>4, <2>1, CountedBounds
    <3>4. stats'[e][p] = stats[e][p] + 1
      <4>1. stats[e][p] + 1 <= CounterMax
        BY <1>1, <3>1, <3>2, <3>3
      <4> QED  BY <2>7, <3>3, <4>1, Saturates, ZenonT(30)
    <3>5. \A k \in (Drops \cup packets) \ {p} : stats'[e][k] = stats[e][k]
      BY <2>1, <2>7, Zenon DEF Counters
    <3>6. /\ stats[e] \in [Counters -> 0..CounterMax]
          /\ stats'[e] \in [Counters -> 0..CounterMax]
      BY <1>4, <2>6, Zenon
    <3>7. Counted(stats'[e]) = Counted(stats[e]) + 1
      BY <2>1, <3>4, <3>5, <3>6, CountedGrows, Zenon
    <3> QED  BY <3>2, <3>7
  <2>9. BytesInRange(e, p, b)'
    <3>1. stats[e][p] \in 0..CounterMax /\ stats[e][b] \in 0..CounterMax
      BY <1>4, <2>1
    <3>2. stats[e][b] \in stats[e][p]..(stats[e][p] * Mtu[e])
      BY SMTT(30) DEF StatsExact, BytesInRange, Traffic, p, b
    <3> QED  BY <1>3, <2>7, <3>1, <3>2, BytesStay, SMTT(30) DEF BytesInRange
  <2>10. \A u \in Traffic : BytesInRange(e, u[1], u[2])'
    <3>1. \A u \in Traffic : u # t =>
              /\ u[1] \in Counters \ {p, b} /\ u[2] \in Counters \ {p, b}
              /\ stats[e][u[2]] \in stats[e][u[1]]..(stats[e][u[1]] * Mtu[e])
      BY SMTT(30) DEF StatsExact, BytesInRange, Traffic, Counters, p, b
    <3> QED  BY <2>7, <2>9, <3>1, ZenonT(30) DEF BytesInRange, p, b
  <2>11. BytesInRange(e, "SentPackets", "SentBytes")'
         /\ BytesInRange(e, "InjectedPackets", "InjectedBytes")'
    BY <2>10 DEF Traffic
  <2> QED  BY <1>1, <1>2, <1>7, <1>9, <2>6, <2>7, <2>8, <2>11, Zenon DEF StatsKept
<1>10. ASSUME NEW f \in Failures, Fail(e, f) PROVE StatsKept'
  <2>1. UNCHANGED stats /\ loop' = [loop EXCEPT ![e] = f]
    BY <1>10 DEF Fail
  <2>2. (Taken(e) <= CounterMax => Counted(stats[e]) = Taken(e))'
    <3>1. Taken(e)' = turns[e] + 1 - 1
      BY <1>1, <1>2, <2>1 DEF Taken
    <3>2. turns[e] \in Nat
      BY <1>1
    <3>3. Taken(e)' = Taken(e)
      BY <1>6, <3>1, <3>2
    <3> QED  BY <2>1, <3>3 DEF StatsExact
  <2>3. \A k \in Ends \ {e} : stats'[k] = stats[k] /\ loop'[k] = loop[k]
    BY <1>1, <2>1
  <2>4. BytesInRange(e, "SentPackets", "SentBytes")'
        /\ BytesInRange(e, "InjectedPackets", "InjectedBytes")'
    BY <2>1 DEF StatsExact, BytesInRange
  <2>5. StatsExact'
    BY <1>1, <1>7, <2>1, <2>2, <2>3, <2>4, SMTT(30)
  <2> QED  BY <1>1, <1>2, <2>1, <2>5 DEF StatsKept
<1>11. CASE \E c \in Drops : Drop(e, c)
  BY <1>8, <1>11
<1>12. CASE \E t \in Traffic, n \in 1..Mtu[e] : Record(e, t[1], t[2], n) /\ UNCHANGED loop
  BY <1>9, <1>12
<1>13. CASE \E f \in Failures : Fail(e, f)
  BY <1>10, <1>13
<1> QED  BY <1>11, <1>12, <1>13 DEF Outcome
-----------------------------------------------------------------------------
(* The peer                                                                *)

\* Nobody sends to itself, and what the server sends goes to its peer.
Routed == \A m \in net : m.src # m.dst /\ (m \in Strays \/ m.src # Server \/ peer = {m.dst})

\* A client that was served is the peer.
ClientsServed == \A c \in Clients : injected[c] # {} => peer = {c}

AtMostOne == peer = {} \/ \E c \in Clients : peer = {c}

\* OnePeer is not inductive: it says nothing of the datagrams under way.
TunnelInv == TunnelTypeOK /\ AtMostOne /\ Routed /\ OnePeer /\ ClientsServed /\ StatsExact

\* A turn that leaves the peer and the TUN alone
LoopOnly(e) ==
    /\ UNCHANGED <<peer, injected>>
    /\ loop' = loop \/ \E f \in Failures \ {"WriteFailed"} : loop' = [loop EXCEPT ![e] = f]

\* A turn that writes a packet of src to the TUN, or fails to
Writes(e, src) ==
    \/ /\ loop' = loop
       /\ \E i \in Injected : i.src = src /\ injected' = [injected EXCEPT ![e] = @ \cup {i}]
    \/ injected' = injected /\ loop' = [loop EXCEPT ![e] = "WriteFailed"]

\* A packet read from the TUN device touches only the loop, the counters and the network,
\* and is sent to the peer if at all.
LEMMA ReadTunEffect ==
    ASSUME TunnelInv, NEW e \in Ends, NEW p \in Packets[e], ReadTun(e, p)
    PROVE  /\ Turn(e) /\ Outcome(e) /\ UNCHANGED signalled /\ LoopOnly(e)
           /\ \/ net' = net
              \/ \E m \in Message : /\ net' = net \cup {m}
                                    /\ m.src = e /\ m.dst \in Destination(e)
<1>1. Turn(e) /\ UNCHANGED <<peer, signalled>>
  BY DEF ReadTun, Turn
<1>2. p \in [size : Nat, bytes : Body] /\ Destination(e) \subseteq Ends
  BY TunnelAssumption DEF Destination, TunnelInv, TunnelTypeOK, Ends
<1>3. ASSUME NEW c \in {"OversizedTun", "NoPeer"}, Drop(e, c)
      PROVE  Outcome(e) /\ LoopOnly(e) /\ net' = net
  <2>1. c \in Drops
    BY DEF Drops
  <2> QED  BY <1>1, <1>3, <2>1, Zenon DEF Drop, Outcome, LoopOnly
<1>4. ASSUME NEW f \in {"ReadFailed", "EncodeFailed", "SendFailed"}, Fail(e, f)
      PROVE  Outcome(e) /\ LoopOnly(e) /\ net' = net
  <2>1. f \in Failures \ {"WriteFailed"}
    BY DEF Failures
  <2> QED  BY <1>1, <1>4, <2>1, Zenon DEF Fail, Outcome, LoopOnly
<1>5. ASSUME NEW dst \in Destination(e), Encodable(Mtu[e], p.size), Send(e, p, dst),
             ~Fail(e, "SendFailed")
      PROVE  /\ Outcome(e) /\ LoopOnly(e)
             /\ \E m \in Message : net' = net \cup {m} /\ m.src = e /\ m.dst \in Destination(e)
  <2> DEFINE d == EncodePacket(p.size, p.bytes)
             m == [src |-> e, dst |-> dst, datagram |-> d]
  <2>1. net' = net \cup {m} /\ Record(e, "SentPackets", "SentBytes", p.size)
        /\ UNCHANGED <<loop, injected>>
    BY <1>5 DEF Send
  <2>2. d \in Datagram
    BY <1>2 DEF EncodePacket, Framed, Datagram, HeaderLength, V1, Data, FlagsNone
  <2>3. m \in Message
    BY <1>2, <2>2 DEF Message
  <2>4. p.size \in 1..Mtu[e]
    BY <1>5 DEF Encodable
  <2>5. Outcome(e)
    <3> DEFINE t == <<"SentPackets", "SentBytes">>
    <3>1. t \in Traffic /\ t[1] = "SentPackets" /\ t[2] = "SentBytes"
      BY DEF Traffic
    <3>2. Record(e, t[1], t[2], p.size) /\ UNCHANGED loop
      BY <2>1, <3>1
    <3> QED  BY <2>4, <3>1, <3>2 DEF Outcome
  <2>6. LoopOnly(e)
    BY <1>1, <2>1 DEF LoopOnly
  <2> QED  BY <2>1, <2>3, <2>5, <2>6
<1>6. \/ \E c \in {"OversizedTun", "NoPeer"} : Drop(e, c)
      \/ \E f \in {"ReadFailed", "EncodeFailed", "SendFailed"} : Fail(e, f)
      \/ \E dst \in Destination(e) :
            Encodable(Mtu[e], p.size) /\ Send(e, p, dst) /\ ~Fail(e, "SendFailed")
  BY Zenon DEF ReadTun
<1> QED  BY <1>1, <1>3, <1>4, <1>5, <1>6, SMTT(30)

\* A datagram writes nothing, or the server writes it and its sender is the peer, or a client
\* writes it and the server sent it.
LEMMA ReceiveEffect ==
    ASSUME TunnelInv, NEW m \in net, Receive(m.dst, m)
    PROVE  /\ m.src \in Ends /\ m.dst \in Ends /\ m.src # m.dst
           /\ Turn(m.dst) /\ Outcome(m.dst) /\ UNCHANGED <<signalled, net>>
           /\ \/ LoopOnly(m.dst)
              \/ /\ m.dst = Server /\ peer \in {{}, {m.src}} /\ peer' = {m.src}
                 /\ Writes(Server, m.src)
              \/ /\ m.dst # Server /\ m.src = Server /\ m \notin Strays /\ UNCHANGED peer
                 /\ Writes(m.dst, Server)
<1> DEFINE e == m.dst
           d == Received(Mtu[e], m.datagram)
<1>1. m \in Message /\ m.src # m.dst
  BY DEF TunnelInv, TunnelTypeOK, Routed
<1>2. m.src \in Ends /\ e \in Ends /\ m.datagram \in Datagram
  BY <1>1 DEF Message
<1>3. Turn(e) /\ UNCHANGED signalled
  BY DEF Receive, Turn
<1>4. Mtu[e] \in Nat
  BY <1>2, MtuType
<1> HIDE DEF e
<1>5. ASSUME NEW c \in {"OversizedUdp", "EmptyUdp", "InvalidFrames", "UnexpectedPeer"},
             Drop(e, c), UNCHANGED peer
      PROVE  Outcome(e) /\ LoopOnly(e) /\ net' = net
  <2>1. c \in Drops
    BY DEF Drops
  <2> QED  BY <1>5, <2>1, Zenon DEF Drop, Outcome, LoopOnly
<1>6. ASSUME Fail(e, "ReceiveFailed"), UNCHANGED peer
      PROVE  Outcome(e) /\ LoopOnly(e) /\ net' = net
  <2>1. "ReceiveFailed" \in Failures \ {"WriteFailed"}
    BY DEF Failures
  <2> QED  BY <1>6, <2>1, Zenon DEF Fail, Outcome, LoopOnly
<1>7. ASSUME AcceptsPacket(Mtu[e], d), Inject(e, m.src, d)
      PROVE  Outcome(e) /\ Writes(e, m.src) /\ net' = net
  <2>1. d = m.datagram /\ d.size - HeaderLength \in 1..Mtu[e] /\ d.body \in Body
    BY <1>2, <1>4, <1>7, PacketAccepted, Zenon DEF Datagram
  <2> DEFINE i == [src |-> m.src, packet |-> [size |-> d.size - HeaderLength, bytes |-> d.body]]
  <2>2. i \in Injected /\ i.src = m.src
    BY <1>2, <1>4, <2>1, SMTT(30) DEF Injected
  <2>3. CASE /\ injected' = [injected EXCEPT ![e] = @ \cup {i}]
             /\ Record(e, "InjectedPackets", "InjectedBytes", d.size - HeaderLength)
             /\ UNCHANGED <<loop, net>>
    <3> DEFINE t == <<"InjectedPackets", "InjectedBytes">>
    <3>1. t \in Traffic /\ t[1] = "InjectedPackets" /\ t[2] = "InjectedBytes"
      BY DEF Traffic
    <3>2. Record(e, t[1], t[2], d.size - HeaderLength) /\ UNCHANGED loop
      BY <2>3, <3>1, Zenon
    <3>3. Outcome(e)
      BY <2>1, <3>1, <3>2 DEF Outcome
    <3> QED  BY <2>2, <2>3, <3>3, Zenon DEF Writes
  <2>4. CASE Fail(e, "WriteFailed")
    <3>1. "WriteFailed" \in Failures
      BY DEF Failures
    <3> QED  BY <2>4, <3>1, Zenon DEF Fail, Outcome, Writes
  <2> QED  BY <1>7, <2>3, <2>4, Zenon DEF Inject
<1>8. CASE e = Server /\ ServerTakes(m.src, d)
  <2>1. \/ \E c \in {"OversizedUdp", "EmptyUdp", "InvalidFrames", "UnexpectedPeer"} :
              Drop(e, c) /\ UNCHANGED peer
        \/ /\ peer \in {{}, {m.src}} /\ peer' = {m.src}
           /\ AcceptsPacket(Mtu[e], d) /\ Inject(e, m.src, d)
    BY <1>8 DEF ServerTakes, Unexpected
  <2> QED  BY <1>1, <1>2, <1>3, <1>5, <1>7, <1>8, <2>1, Zenon DEF e
<1>9. CASE e # Server /\ ClientTakes(e, m.src, d)
  <2>1. /\ m.src = Server /\ UNCHANGED peer
        /\ \/ \E c \in {"OversizedUdp", "InvalidFrames"} : Drop(e, c)
           \/ AcceptsPacket(Mtu[e], d) /\ Inject(e, m.src, d)
    BY <1>9 DEF ClientTakes
  <2>2. AcceptsPacket(Mtu[e], d) => m \notin Strays
    BY <2>1, StraysAssumption DEF e
  <2> QED  BY <1>1, <1>2, <1>3, <1>5, <1>7, <1>9, <2>1, <2>2, Zenon DEF e
<1>10. CASE Fail(e, "ReceiveFailed") /\ UNCHANGED peer
  BY <1>1, <1>2, <1>3, <1>6, <1>10, SMTT(30) DEF e
<1> QED  BY <1>8, <1>9, <1>10, Zenon DEF Receive, e
-----------------------------------------------------------------------------
(* The invariant                                                           *)

LOCAL Sets == INSTANCE FiniteSetTheorems

\* How many elements a set with none or with one has, as the library proves it.
LEMMA SmallSets == Cardinality({}) = 0 /\ \A c : Cardinality({c}) = 1
<1>1. \A S : Sets!Cardinality(S) = Cardinality(S)
  BY Zenon DEF Sets!Cardinality, Cardinality
<1> QED  BY <1>1, Sets!FS_EmptySet, Sets!FS_Singleton, Zenon

\* An end that has just bound its socket satisfies the invariant.
LEMMA TunnelInvInit == TunnelInit => TunnelInv
<1> SUFFICES ASSUME TunnelInit PROVE TunnelInv
  OBVIOUS
<1>1. TunnelTypeOK
  <2>1. Cardinality(peer) = 0
    BY SmallSets DEF TunnelInit
  <2> QED  BY <2>1, TunnelAssumption, SMTT(30) DEF TunnelInit, TunnelTypeOK
<1>2. AtMostOne /\ Routed /\ OnePeer /\ ClientsServed
  BY DEF TunnelInit, AtMostOne, Routed, OnePeer, ClientsServed, Ends
<1>3. StatsExact
  <2> SUFFICES ASSUME NEW e \in Ends
               PROVE  /\ Taken(e) <= CounterMax => Counted(stats[e]) = Taken(e)
                      /\ BytesInRange(e, "SentPackets", "SentBytes")
                      /\ BytesInRange(e, "InjectedPackets", "InjectedBytes")
    BY DEF StatsExact
  <2>1. Taken(e) = 0
    <3>1. "Running" \notin Failures
      BY DEF Failures
    <3> QED  BY <3>1 DEF TunnelInit, Taken
  <2>2. \A c \in Counters : stats[e][c] = 0
    BY DEF TunnelInit
  <2>3. Counted(stats[e]) = 0
    BY <2>2, SMTT(30) DEF Counted, Counters, Drops
  <2>4. Mtu[e] \in Nat
    BY MtuType
  <2> QED  BY <2>1, <2>2, <2>3, <2>4, SMTT(30) DEF BytesInRange, Counters
<1> QED  BY <1>1, <1>2, <1>3, Zenon DEF TunnelInv

\* A turn that writes nothing keeps who was served by whom.
LEMMA LoopOnlyKeepsPeer ==
    ASSUME TunnelInv, NEW e \in Ends, LoopOnly(e), Turn(e)
    PROVE  OnePeer' /\ ClientsServed'
<1>1. UNCHANGED <<peer, injected>>
  BY DEF LoopOnly
<1>2. loop'[Server] = "WriteFailed" <=> loop[Server] = "WriteFailed"
  <2>1. loop[e] = "Running" /\ loop \in [Ends -> {"Running", "Stopped", "SignalFailed"} \cup Failures]
    BY DEF Turn, TunnelInv, TunnelTypeOK
  <2> QED  BY <2>1 DEF LoopOnly, Ends
<1> QED  BY <1>1, <1>2, Zenon DEF TunnelInv, OnePeer, ClientsServed

\* A turn that only reads and sends: no packet is injected, so only Routed is at stake.
LEMMA ReadTunInductive ==
    ASSUME TunnelInv, NEW e \in Ends, NEW p \in Packets[e], ReadTun(e, p)
    PROVE  TunnelInv'
<1>1. /\ Turn(e) /\ Outcome(e) /\ UNCHANGED signalled /\ LoopOnly(e)
      /\ \/ net' = net
         \/ \E m \in Message : net' = net \cup {m} /\ m.src = e /\ m.dst \in Destination(e)
  BY ReadTunEffect, SMTT(30)
<1>2. StatsKept'
  BY <1>1, OutcomeKeepsStats, Zenon DEF TunnelInv
<1>3. TunnelTypeOK'
  BY <1>1, <1>2, Zenon DEF TunnelInv, TunnelTypeOK, StatsKept, LoopOnly
<1>4. Routed'
  <2>1. UNCHANGED peer
    BY <1>1 DEF LoopOnly
  <2>2. CASE net' = net
    BY <2>1, <2>2, Zenon DEF TunnelInv, Routed
  <2>3. ASSUME NEW m \in Message, net' = net \cup {m}, m.src = e, m.dst \in Destination(e)
        PROVE  Routed'
    <3>1. m.src # m.dst /\ (m.src # Server \/ peer = {m.dst})
      <4>1. CASE e = Server
        <5>1. peer = {m.dst} /\ m.dst \in Clients
          BY <2>3, <4>1, Zenon DEF Destination, TunnelInv, AtMostOne
        <5> QED  BY <2>3, <4>1, <5>1, TunnelAssumption, Zenon
      <4>2. CASE e # Server
        BY <2>3, <4>2, Zenon DEF Destination
      <4> QED  BY <4>1, <4>2, Zenon
    <3> QED  BY <2>1, <2>3, <3>1, Zenon DEF TunnelInv, Routed
  <2> QED  BY <1>1, <2>2, <2>3, Zenon
<1>5. AtMostOne' /\ OnePeer' /\ ClientsServed'
  BY <1>1, LoopOnlyKeepsPeer, Zenon DEF TunnelInv, AtMostOne, LoopOnly
<1> QED  BY <1>2, <1>3, <1>4, <1>5, Zenon DEF TunnelInv, StatsKept

\* A turn that takes a datagram: the peer, once registered, stays.
LEMMA ReceiveInductive ==
    ASSUME TunnelInv, NEW m \in net, Receive(m.dst, m)
    PROVE  TunnelInv'
<1> DEFINE e == m.dst
<1>1. /\ m.src \in Ends /\ e \in Ends /\ m.src # e
      /\ Turn(e) /\ Outcome(e) /\ UNCHANGED <<signalled, net>>
      /\ \/ LoopOnly(e)
         \/ /\ e = Server /\ peer \in {{}, {m.src}} /\ peer' = {m.src}
            /\ Writes(Server, m.src)
         \/ /\ e # Server /\ m.src = Server /\ m \notin Strays /\ UNCHANGED peer
            /\ Writes(e, Server)
  BY ReceiveEffect, Zenon
<1> HIDE DEF e
<1>2. StatsKept'
  BY <1>1, OutcomeKeepsStats, ZenonT(30) DEF TunnelInv
<1>3. /\ loop[e] = "Running" /\ injected \in [Ends -> SUBSET Injected]
      /\ loop \in [Ends -> {"Running", "Stopped", "SignalFailed"} \cup Failures]
      /\ Server \in Ends /\ Clients \subseteq Ends /\ Server \notin Clients
  BY <1>1, TunnelAssumption, Zenon DEF Turn, TunnelInv, TunnelTypeOK, Ends
<1>4. SUFFICES /\ peer' \subseteq Clients /\ AtMostOne'
               /\ injected' \in [Ends -> SUBSET Injected]
               /\ Routed' /\ OnePeer' /\ ClientsServed'
  <2>1. ASSUME AtMostOne' PROVE Cardinality(peer)' <= 1
    <3>1. Cardinality({}) = 0 /\ \A c \in Clients : Cardinality({c}) = 1
      BY SmallSets, Zenon
    <3>2. Cardinality(peer') \in {0, 1}
      BY <2>1, <3>1, Zenon DEF AtMostOne
    <3> QED  BY <3>2
  <2> QED  BY <1>1, <1>2, <2>1, Zenon DEF TunnelInv, TunnelTypeOK, StatsKept
<1>5. CASE LoopOnly(e)
  BY <1>1, <1>5, LoopOnlyKeepsPeer, Zenon DEF TunnelInv, TunnelTypeOK, AtMostOne, Routed, LoopOnly
<1>6. CASE /\ e = Server /\ peer \in {{}, {m.src}} /\ peer' = {m.src}
           /\ Writes(Server, m.src)
  <2>1. m.src \in Clients
    BY <1>1, <1>6, Zenon DEF Ends
  <2>2. \A x : peer = {x} => peer' = {x}
    BY <1>6
  <2>3. /\ injected' \in [Ends -> SUBSET Injected]
        /\ \A c \in Clients : injected'[c] = injected[c]
        /\ \A i \in injected'[Server] : i \in injected[Server] \/ i.src = m.src
        /\ injected'[Server] # {} \/ loop'[Server] = "WriteFailed"
    BY <1>3, <1>6, SMTT(30) DEF Writes
  <2>4. Routed'
    BY <1>1, <2>2, Zenon DEF TunnelInv, Routed
  <2>5. ClientsServed'
    BY <2>2, <2>3, Zenon DEF TunnelInv, ClientsServed
  <2>6. OnePeer'
    BY <1>6, <2>2, <2>3, ZenonT(30) DEF TunnelInv, OnePeer
  <2> QED  BY <1>6, <2>1, <2>3, <2>4, <2>5, <2>6, ZenonT(30) DEF AtMostOne
<1>7. CASE /\ e # Server /\ m.src = Server /\ m \notin Strays /\ UNCHANGED peer
           /\ Writes(e, Server)
  <2>1. peer = {e}
    BY <1>7, Zenon DEF TunnelInv, Routed, e
  <2>2. /\ injected' \in [Ends -> SUBSET Injected]
        /\ \A f \in Ends \ {e} : injected'[f] = injected[f]
        /\ loop'[Server] = loop[Server]
    <3>1. loop'[Server] = loop[Server] /\ \A f \in Ends \ {e} : injected'[f] = injected[f]
      BY <1>1, <1>3, <1>7, Zenon DEF Writes
    <3>2. injected' \in [Ends -> SUBSET Injected]
      <4>1. \/ injected' = injected
            \/ \E i \in Injected : injected' = [injected EXCEPT ![e] = @ \cup {i}]
        BY <1>7, Zenon DEF Writes
      <4> QED  BY <1>3, <4>1, SMTT(30)
    <3> QED  BY <3>1, <3>2, Zenon
  <2>3. ClientsServed' /\ OnePeer'
    BY <1>3, <1>7, <2>1, <2>2, ZenonT(30) DEF TunnelInv, ClientsServed, OnePeer
  <2> QED  BY <1>1, <1>7, <2>2, <2>3, ZenonT(30) DEF TunnelInv, TunnelTypeOK, AtMostOne, Routed
<1> QED  BY <1>1, <1>5, <1>6, <1>7, Zenon

\* Every step of either loop, and of the network, keeps the invariant.
LEMMA TunnelInvInductive == TunnelInv /\ [TunnelNext]_vars => TunnelInv'
<1> SUFFICES ASSUME TunnelInv, [TunnelNext]_vars PROVE TunnelInv'
  OBVIOUS
<1> USE DEF TunnelInv
<1>1. ASSUME NEW e \in Ends, CtrlC(e) PROVE TunnelInv'
  BY <1>1, ZenonT(30) DEF CtrlC, TunnelTypeOK, AtMostOne, Routed, OnePeer, ClientsServed, StatsExact, Taken,
              BytesInRange
<1>2. ASSUME NEW e \in Ends, Shutdown(e) \/ SignalFails(e) PROVE TunnelInv'
  <2>1. /\ UNCHANGED <<peer, stats, signalled, turns, net, injected>> /\ loop[e] = "Running"
        /\ \E x \in {"Stopped", "SignalFailed"} : loop' = [loop EXCEPT ![e] = x]
    BY <1>2, Zenon DEF Shutdown, SignalFails
  <2>2. TunnelTypeOK'
    BY <2>1, Zenon DEF TunnelTypeOK
  <2>3. \A f \in Ends : (loop'[f] \in Failures <=> loop[f] \in Failures)
                        /\ (loop'[f] = "WriteFailed" <=> loop[f] = "WriteFailed")
    BY <2>1, ZenonT(30) DEF TunnelTypeOK, Failures
  <2>4. StatsExact'
    BY <2>1, <2>3, Zenon DEF StatsExact, Taken, BytesInRange
  <2>5. AtMostOne' /\ Routed' /\ OnePeer' /\ ClientsServed'
    BY <2>1, <2>3, ZenonT(30) DEF AtMostOne, Routed, OnePeer, ClientsServed, Ends
  <2> QED  BY <2>2, <2>4, <2>5, ZenonT(30)
<1>3. ASSUME NEW e \in Ends, NEW p \in Packets[e], ReadTun(e, p) PROVE TunnelInv'
  BY <1>3, ReadTunInductive, Zenon
<1>4. ASSUME NEW m \in net, Receive(m.dst, m) PROVE TunnelInv'
  BY <1>4, ReceiveInductive, Zenon
<1>5. ASSUME NEW m \in Strays, Stray(m) PROVE TunnelInv'
  <2>1. m \in Message /\ m.src # m.dst
    BY TunnelAssumption, StraysAssumption, Zenon
  <2>2. TunnelTypeOK' /\ Routed'
    BY <1>5, <2>1, ZenonT(30) DEF Stray, TunnelTypeOK, Routed
  <2> QED  BY <1>5, <2>2, ZenonT(30) DEF Stray, AtMostOne, OnePeer, ClientsServed, StatsExact, Taken,
                             BytesInRange
<1>6. CASE UNCHANGED vars
  BY <1>6, ZenonT(30) DEF vars, TunnelTypeOK, AtMostOne, Routed, OnePeer, ClientsServed, StatsExact, Taken,
              BytesInRange
<1> QED  BY <1>1, <1>2, <1>3, <1>4, <1>5, <1>6, ZenonT(30) DEF TunnelNext

\* The invariant holds of every behaviour of the tunnel.
LEMMA TunnelInvAlways == TunnelSpec => []TunnelInv
BY TunnelInvInit, TunnelInvInductive, PTL DEF TunnelSpec

\* The loops of client.rs and server.rs keep their state in its type.
THEOREM TunnelTypeCorrect == TunnelSpec => []TunnelTypeOK
<1>1. TunnelInv => TunnelTypeOK
  BY DEF TunnelInv
<1> QED  BY <1>1, TunnelInvAlways, PTL

\* SinglePeer and classify_udp_frame: one client at most is served, and only a valid frame
\* makes a client the peer.
THEOREM AlwaysOnePeer == TunnelSpec => []OnePeer
<1>1. TunnelInv => OnePeer
  BY DEF TunnelInv
<1> QED  BY <1>1, TunnelInvAlways, PTL

\* ServerStats and ForwardingStats, with counters of any range.
THEOREM StatsAlwaysExact == TunnelSpec => []StatsExact
<1>1. TunnelInv => StatsExact
  BY DEF TunnelInv
<1> QED  BY <1>1, TunnelInvAlways, PTL

\* The three decoders: no datagram under way is ambiguous, whatever the MTUs are.
THEOREM FramesAlwaysUnambiguous == TunnelSpec => []FramesUnambiguous
<1>1. TunnelInv => FramesUnambiguous
  <2> SUFFICES ASSUME TunnelInv PROVE FramesUnambiguous
    OBVIOUS
  <2>1. \A e \in Ends : Mtu[e] \in Nat
    BY MtuType
  <2>2. \A d \in Datagram, e \in Ends : Unambiguous(d, Mtu[e])
    BY <2>1, DatagramsUnambiguous, SMTT(30)
  <2>3. Samples \subseteq Datagram /\ \A m \in net : m.datagram \in Datagram
    BY TunnelAssumption, Zenon DEF TunnelInv, TunnelTypeOK, Message
  <2> QED  BY <2>2, <2>3, Zenon DEF FramesUnambiguous, SamplesUnambiguous
<1> QED  BY <1>1, TunnelInvAlways, PTL
=============================================================================

---------------------------- MODULE LegacyTunnel ----------------------------
(***************************************************************************)
(* The plaintext mode: Client::forward (client.rs) and                     *)
(* Server::forward_packets (server.rs) over UDP, with several clients, and *)
(* peers that run the encrypted mode or send malformed datagrams.          *)
(*                                                                         *)
(* A loop is one task and a branch of its select! is one step; the branch  *)
(* is chosen at random among those that are ready.  The network is the set *)
(* of all datagrams ever sent: they are lost, repeated and reordered.      *)
(***************************************************************************)
EXTENDS Frames, FiniteSets

CONSTANTS
    Clients,
    Mtu,                \* TUN MTU of each end
    CounterMax,         \* u64::MAX of the statistics
    Packets,            \* [size, bytes]: what the operating system sends through a TUN
    Strays,             \* messages of peers that are not in this mode
    Samples,            \* bound: datagrams the decoders are tried on
    MaxTurns            \* bound: turns of each loop

Server == "Server"
Ends == Clients \cup {Server}
Message == [src : Ends, dst : Ends, datagram : Datagram]

\* The codec of each end was constructed; packets of different ends differ.
ASSUME TunnelAssumption ==
    /\ Server \notin Clients
    /\ Mtu \in [Ends -> 1..U16Max]
    /\ CounterMax \in Nat \ {0}
    /\ Packets \in [Ends -> SUBSET [size : Nat, bytes : Body]]
    /\ \A e, f \in Ends : e # f => Packets[e] \cap Packets[f] = {}
    /\ Strays \subseteq Message /\ Samples \subseteq Datagram
    /\ MaxTurns \in [Ends -> Nat]

\* recv_from or recv, with one byte more than the largest frame
Received(mtu, d) == Truncate(d, MaxFrame(mtu) + 1)

\* A server in this mode sends nothing else than its packets: what else arrives from its
\* address is damaged.
ASSUME StraysAssumption ==
    \A m \in Strays :
        /\ m.src # m.dst
        /\ m.src = Server => ~AcceptsPacket(Mtu[m.dst], Received(Mtu[m.dst], m.datagram))

VARIABLES
    peer,               \* SinglePeer: a set of at most one address
    stats,              \* ServerStats and ForwardingStats
    loop,               \* whether the loop runs, or why it returned
    signalled,          \* Ctrl+C, as the pinned future of the loop sees it
    turns,              \* how many packets and datagrams the loop took
    net,                \* every datagram handed to a socket
    injected            \* the packets written to each end's TUN, with their source

vars == <<peer, stats, loop, signalled, turns, net, injected>>

Drops == {"OversizedTun", "OversizedUdp", "EmptyUdp", "InvalidFrames", "UnexpectedPeer",
          "NoPeer"}
Counters == Drops \cup {"SentPackets", "SentBytes", "InjectedPackets", "InjectedBytes"}
Failures == {"ReadFailed", "EncodeFailed", "SendFailed", "ReceiveFailed", "WriteFailed"}
Injected == [src : Ends, packet : [size : Nat, bytes : Body]]

\* The state of the loops of client.rs and server.rs and of the network between them.
TunnelTypeOK ==
    /\ peer \subseteq Clients /\ Cardinality(peer) <= 1
    /\ stats \in [Ends -> [Counters -> 0..CounterMax]]
    /\ loop \in [Ends -> {"Running", "Stopped", "SignalFailed"} \cup Failures]
    /\ signalled \in [Ends -> BOOLEAN]
    /\ turns \in [Ends -> Nat]
    /\ net \subseteq Message
    /\ injected \in [Ends -> SUBSET Injected]

\* ServerState::new and ClientState::new
TunnelInit ==
    /\ peer = {}
    /\ stats = [e \in Ends |-> [c \in Counters |-> 0]]
    /\ loop = [e \in Ends |-> "Running"]
    /\ signalled = [e \in Ends |-> FALSE]
    /\ turns = [e \in Ends |-> 0]
    /\ net = {}
    /\ injected = [e \in Ends |-> {}]
-----------------------------------------------------------------------------
(* Statistics and the end of a loop                                        *)

\* Mutant of SaturatingAdd: the counters are not bounded
PlainAdd(a, b) == a + b

SaturatingAdd(a, b) == IF a + b > CounterMax THEN CounterMax ELSE a + b

Drop(e, counter) ==
    /\ stats' = [stats EXCEPT ![e][counter] = SaturatingAdd(@, 1)]
    /\ UNCHANGED <<loop, net, injected>>

\* record_tun_to_udp and record_udp_to_tun
Record(e, packets, bytes, n) ==
    stats' = [stats EXCEPT ![e][packets] = SaturatingAdd(@, 1),
                           ![e][bytes] = SaturatingAdd(@, n)]

Fail(e, failure) ==
    /\ loop' = [loop EXCEPT ![e] = failure]
    /\ UNCHANGED <<stats, net, injected>>

\* Mutant of Turn: the shutdown future is made anew for every select!
TurnForgetsSignal(e) ==
    /\ loop[e] = "Running" /\ turns[e] < MaxTurns[e]
    /\ turns' = [turns EXCEPT ![e] = @ + 1]
    /\ signalled' = [signalled EXCEPT ![e] = FALSE]

\* One turn of the loop
Turn(e) ==
    /\ loop[e] = "Running" /\ turns[e] < MaxTurns[e]
    /\ turns' = [turns EXCEPT ![e] = @ + 1]
    /\ UNCHANGED signalled
-----------------------------------------------------------------------------
(* TUN to UDP                                                              *)

\* read_packet into a buffer of the MTU and one byte
ReadLength(e, p) == IF p.size <= Mtu[e] THEN p.size ELSE Mtu[e] + 1

\* The one peer of a client is the server its socket is connected to.
Destination(e) == IF e = Server THEN peer ELSE {Server}

\* Mutant of Send: the packet is recorded before the call that may fail
SendRecordedFirst(e, p, dst) ==
    /\ Record(e, "SentPackets", "SentBytes", p.size)
    /\ \/ /\ net' = net \cup {[src |-> e, dst |-> dst,
                              datagram |-> EncodePacket(p.size, p.bytes)]}
          /\ UNCHANGED loop
       \/ loop' = [loop EXCEPT ![e] = "SendFailed"] /\ UNCHANGED net
    /\ UNCHANGED injected

\* send or send_to; a partial send is a failure too
Send(e, p, dst) ==
    \/ /\ net' = net \cup {[src |-> e, dst |-> dst, datagram |-> EncodePacket(p.size, p.bytes)]}
       /\ Record(e, "SentPackets", "SentBytes", p.size)
       /\ UNCHANGED <<loop, injected>>
    \/ Fail(e, "SendFailed")

ReadTun(e, p) ==
    /\ Turn(e)
    /\ \/ ReadLength(e, p) > Mtu[e] /\ Drop(e, "OversizedTun")
       \/ ReadLength(e, p) <= Mtu[e] /\ Destination(e) = {} /\ Drop(e, "NoPeer")
       \/ \E dst \in Destination(e) :
             /\ ReadLength(e, p) <= Mtu[e]
             /\ IF Encodable(Mtu[e], p.size) THEN Send(e, p, dst) ELSE Fail(e, "EncodeFailed")
       \/ Fail(e, "ReadFailed")
    /\ UNCHANGED peer
-----------------------------------------------------------------------------
(* UDP to TUN                                                              *)

\* write_packet; an error and a partial write are failures
Inject(e, src, d) ==
    \/ /\ injected' = [injected EXCEPT ![e] = @ \cup {[src |-> src,
              packet |-> [size |-> d.size - HeaderLength, bytes |-> d.body]]}]
       /\ Record(e, "InjectedPackets", "InjectedBytes", d.size - HeaderLength)
       /\ UNCHANGED <<loop, net>>
    \/ Fail(e, "WriteFailed")

\* SinglePeer: the first source, once it is registered, is the only one.
Unexpected(src) == peer \notin {{}, {src}}

\* Mutant of ServerTakes: the source is registered before the frame is decoded
ServerTakesEarly(src, d) ==
    /\ peer' = IF peer = {} THEN {src} ELSE peer
    /\ IF Unexpected(src) THEN Drop(Server, "UnexpectedPeer")
       ELSE IF d.size = 0 THEN Drop(Server, "EmptyUdp")
       ELSE IF d.size > MaxFrame(Mtu[Server]) THEN Drop(Server, "OversizedUdp")
       ELSE IF ~AcceptsPacket(Mtu[Server], d) THEN Drop(Server, "InvalidFrames")
       ELSE Inject(Server, src, d)

\* classify_udp_frame: only a valid frame registers its source
ServerTakes(src, d) ==
    IF Unexpected(src) THEN Drop(Server, "UnexpectedPeer") /\ UNCHANGED peer
    ELSE IF d.size = 0 THEN Drop(Server, "EmptyUdp") /\ UNCHANGED peer
    ELSE IF d.size > MaxFrame(Mtu[Server]) THEN Drop(Server, "OversizedUdp") /\ UNCHANGED peer
    ELSE IF ~AcceptsPacket(Mtu[Server], d) THEN Drop(Server, "InvalidFrames") /\ UNCHANGED peer
    ELSE peer' = {src} /\ Inject(Server, src, d)

\* The socket is connected: it receives from the server only.
ClientTakes(e, src, d) ==
    /\ src = Server /\ UNCHANGED peer
    /\ IF d.size > MaxFrame(Mtu[e]) THEN Drop(e, "OversizedUdp")
       ELSE IF ~AcceptsPacket(Mtu[e], d) THEN Drop(e, "InvalidFrames")
       ELSE Inject(e, src, d)

Receive(e, m) ==
    /\ Turn(e)
    /\ m.dst = e
    /\ \/ e = Server /\ ServerTakes(m.src, Received(Mtu[e], m.datagram))
       \/ e # Server /\ ClientTakes(e, m.src, Received(Mtu[e], m.datagram))
       \/ Fail(e, "ReceiveFailed") /\ UNCHANGED peer
-----------------------------------------------------------------------------
\* Ctrl+C; the loop has pinned one future for all its turns
CtrlC(e) ==
    /\ loop[e] = "Running"
    /\ signalled' = [signalled EXCEPT ![e] = TRUE]
    /\ UNCHANGED <<peer, stats, loop, turns, net, injected>>

\* The shutdown branch
Shutdown(e) ==
    /\ loop[e] = "Running" /\ signalled[e]
    /\ loop' = [loop EXCEPT ![e] = "Stopped"]
    /\ UNCHANGED <<peer, stats, signalled, turns, net, injected>>

\* The handler cannot be installed when select! first polls the branch, which may be in
\* any turn: another branch that was ready may have been picked in all those before.
SignalFails(e) ==
    /\ loop[e] = "Running" /\ ~signalled[e]
    /\ loop' = [loop EXCEPT ![e] = "SignalFailed"]
    /\ UNCHANGED <<peer, stats, signalled, turns, net, injected>>

\* A message of somebody else, at most one in a behaviour
Stray(m) ==
    /\ net \cap Strays = {}
    /\ net' = net \cup {m}
    /\ UNCHANGED <<peer, stats, loop, signalled, turns, injected>>

TunnelNext ==
    \/ \E e \in Ends : CtrlC(e) \/ Shutdown(e) \/ SignalFails(e) \/ \E p \in Packets[e] : ReadTun(e, p)
    \/ \E m \in net : Receive(m.dst, m)
    \/ \E m \in Strays : Stray(m)

TunnelSpec == TunnelInit /\ [][TunnelNext]_vars

\* select! polls its branches in random order, and each awaited call returns.
FairTunnelSpec == TunnelSpec /\ \A e \in Ends : WF_vars(Shutdown(e))
-----------------------------------------------------------------------------
\* SinglePeer and classify_udp_frame: the server injects packets of one client only, and
\* sends packets of its TUN to that client only.  A client becomes the peer by a valid
\* frame, which is injected unless the TUN fails; until then nothing is locked out.
OnePeer ==
    /\ \A i \in injected[Server] : peer = {i.src}
    /\ \A c \in Clients : \A i \in injected[c] : i.packet \in Packets[Server] => peer = {c}
    /\ peer # {} => injected[Server] # {} \/ loop[Server] = "WriteFailed"
    /\ loop[Server] = "WriteFailed" => peer # {}

Counted(s) ==
    s["OversizedTun"] + s["OversizedUdp"] + s["EmptyUdp"] + s["InvalidFrames"]
    + s["UnexpectedPeer"] + s["NoPeer"] + s["SentPackets"] + s["InjectedPackets"]
BytesInRange(e, packets, bytes) ==
    stats[e][bytes] \in stats[e][packets]..(stats[e][packets] * Mtu[e])
Taken(e) == turns[e] - (IF loop[e] \in Failures THEN 1 ELSE 0)

\* ServerStats and ForwardingStats: while no counter can have saturated, each packet and
\* each datagram taken is counted exactly once, but for the one that ended the loop; and
\* the bytes are those of the packets, of which none is empty or beyond the MTU.
StatsExact ==
    \A e \in Ends :
        /\ Taken(e) <= CounterMax => Counted(stats[e]) = Taken(e)
        /\ BytesInRange(e, "SentPackets", "SentBytes")
        /\ BytesInRange(e, "InjectedPackets", "InjectedBytes")

\* Everything a receiver with this MTU accepts of d is written by the matching encoder,
\* and at most one kind of receiver accepts it.
Unambiguous(d, mtu) ==
    LET packet == AcceptsPacket(mtu, Received(mtu, d))
        handshake(role) ==
            AcceptsHandshake(role, Truncate(d, MaxHandshakeFrame(HandshakePayload) + 1))
        data == AcceptsData(mtu, Truncate(d, MaxDataFrame(mtu) + 1)) IN
    /\ packet => d = EncodePacket(d.length, d.body)
    /\ \A role \in {"Client", "Server"} :
          handshake(role) => d = EncodeHandshake(d.kind, d.body)
    /\ data => /\ d = EncodeData(d.length - DataFixedLength - DataOverhead, d.body)
               /\ EncodesData(mtu, d.length - DataFixedLength - DataOverhead, d.body)
    /\ ~(packet /\ data) /\ ~(handshake("Client") /\ handshake("Server"))
    /\ handshake("Client") \/ handshake("Server") => ~packet /\ ~data

SamplesUnambiguous == \A d \in Samples, e \in Ends : Unambiguous(d, Mtu[e])

\* The decoders of v1.rs, v2.rs and frame.rs, and the direction and length checks of the
\* adapter: what a receiver accepts from its buffer is the whole datagram, exactly as the
\* matching encoder writes it; and no datagram is accepted by two kinds of receiver, the
\* two modes, the two roles and the two phases of a Noise session.
FramesUnambiguous ==
    /\ SamplesUnambiguous
    /\ \A m \in net, e \in Ends : Unambiguous(m.datagram, Mtu[e])

\* Client::forward and Server::forward_packets: Ctrl+C ends the loop however busy it is,
\* also when the signal arrives during a turn.
CtrlCEndsLoop == \A e \in Ends : signalled[e] ~> loop[e] # "Running"
=============================================================================

------------------------------- MODULE Frames -------------------------------
(***************************************************************************)
(* What the three codecs put on the wire and what they accept from it.     *)
(*                                                                         *)
(* A datagram is its length, the common header and a body.  The codecs     *)
(* look at different bytes of the body: an attempt id, or a session id     *)
(* with a direction and a sequence number; `data` is the rest.  The fields *)
(* of a datagram shorter than what a codec reads are not looked at.        *)
(***************************************************************************)
EXTENDS CodecLimits

CONSTANT MaxSequence            \* MAX_SEQUENCE = u64::MAX - 1

V1 == 1
V2 == 2
Data == 1
ClientHello == 2
ServerHello == 3
ClientFinish == 4
ServerFinish == 5
FlagsNone == 0

Body == [id : Nat, direction : Nat, sequence : Nat, data : Nat]
Datagram == [size : Nat, magic : BOOLEAN, version : Nat, kind : Nat, flags : Nat,
             length : Nat, body : Body]

\* recv into a buffer of n bytes drops the rest of a longer datagram
Truncate(d, n) ==
    IF d.size <= n THEN d ELSE [d EXCEPT !.size = n, !.body.data = 0]

\* A header with the declared length of a body of n bytes
Framed(version, kind, n, body) ==
    [size |-> HeaderLength + n, magic |-> TRUE, version |-> version, kind |-> kind,
     flags |-> FlagsNone, length |-> n, body |-> body]

\* The checks all decoders begin with
Intact(version, d) ==
    /\ d.size >= HeaderLength
    /\ d.magic /\ d.version = version /\ d.flags = FlagsNone
    /\ d.length = d.size - HeaderLength
-----------------------------------------------------------------------------
(* FrameCodec: a packet is a length and bytes                              *)

\* encoded_len refuses an empty packet and one beyond the MTU
Encodable(mtu, n) == n \in 1..mtu
EncodePacket(n, bytes) == Framed(V1, Data, n, bytes)

\* Mutant of AcceptsPacket: the version is not looked at
AcceptsPacketAnyVersion(mtu, d) ==
    Intact(d.version, d) /\ d.kind = Data /\ Encodable(mtu, d.size - HeaderLength)

AcceptsPacket(mtu, d) ==
    Intact(V1, d) /\ d.kind = Data /\ Encodable(mtu, d.size - HeaderLength)
-----------------------------------------------------------------------------
(* V2HandshakeCodec, with the directions and lengths of the adapter        *)

\* CLIENT_HELLO_PAYLOAD_LENGTH and its like
PayloadLength(kind) ==
    CASE kind = ClientHello -> 112 [] kind = ServerHello -> 64 [] OTHER -> 32

EncodeHandshake(kind, payload) ==
    Framed(V2, kind, AttemptIdLength + PayloadLength(kind), payload)

\* V2HandshakeCodec::decode
DecodesHandshake(d) ==
    /\ Intact(V2, d)
    /\ d.kind \in {ClientHello, ServerHello, ClientFinish, ServerFinish}
    /\ d.size - HeaderLength - AttemptIdLength \in 1..HandshakePayload
    /\ d.body.id # 0

\* classify_for_client and classify_for_server
InboundKinds(role) ==
    IF role = "Client" THEN {ServerHello, ServerFinish} ELSE {ClientHello, ClientFinish}

\* receive_client_frame and receive_server_frame, up to the coordinator
AcceptsHandshake(role, d) ==
    /\ DecodesHandshake(d)
    /\ d.kind \in InboundKinds(role)
    /\ d.size - HeaderLength - AttemptIdLength = PayloadLength(d.kind)
-----------------------------------------------------------------------------
(* DataFrameCodec                                                          *)

Directions == {0, 1}            \* DataDirection

\* build_data_header and encode_data for a packet of n bytes
EncodesData(mtu, n, header) ==
    /\ header.id # 0 /\ header.direction \in Directions /\ header.sequence \in 1..MaxSequence
    /\ n \in 1..mtu
EncodeData(n, header) == Framed(V2, Data, DataFixedLength + DataOverhead + n, header)

\* decode_data; the ciphertext is looked at by decrypt
AcceptsData(mtu, d) ==
    /\ d.size <= MaxDataFrame(mtu)
    /\ Intact(V2, d) /\ d.kind = Data
    /\ d.size - HeaderLength >= DataFixedLength + DataOverhead + 1
    /\ d.body.id # 0 /\ d.body.direction \in Directions /\ d.body.sequence \in 1..MaxSequence
=============================================================================

---------------------------- MODULE CodecLimits ----------------------------
(***************************************************************************)
(* The lengths the three codecs derive when they are constructed:          *)
(* FrameCodec (protocol/v1.rs), V2HandshakeCodec (protocol/v2.rs) and      *)
(* DataFrameCodec (data_plane/frame.rs).  A receive buffer is one byte     *)
(* longer than the largest datagram.                                       *)
(***************************************************************************)
EXTENDS Integers

U16Max == 65535
UdpCeiling == 65507             \* UDP_PAYLOAD_CEILING

HeaderLength == 10              \* HEADER_LEN, COMMON_HEADER_LENGTH
AttemptIdLength == 8
HandshakePayload == 112         \* what NoiseIkRuntime gives V2HandshakeCodec::new
DataFixedLength == 41           \* session id, direction and sequence
DataOverhead == 67              \* the encrypted copy of the header, and the tag

\* FrameCodec::new: the payload length is a u16
FrameCodecFails(mtu) == mtu = 0 \/ mtu > U16Max
MaxFrame(mtu) == HeaderLength + mtu

\* V2HandshakeCodec::new: the body is a u16, the datagram fits UDP
HandshakeCodecFails(payload) ==
    \/ payload = 0
    \/ AttemptIdLength + payload > U16Max
    \/ HeaderLength + AttemptIdLength + payload > UdpCeiling
MaxHandshakeFrame(payload) == HeaderLength + AttemptIdLength + payload

\* DataFrameCodec::new: the body is a u16, the datagram fits UDP
DataFrameCodecFails(mtu) ==
    \/ mtu = 0
    \/ DataFixedLength + DataOverhead + mtu > U16Max
    \/ HeaderLength + DataFixedLength + DataOverhead + mtu > UdpCeiling
MaxDataFrame(mtu) == HeaderLength + DataFixedLength + DataOverhead + mtu
=============================================================================

----------------------------- MODULE DataPlane -----------------------------
(***************************************************************************)
(* The encrypted forwarding loops of the two ends of one session           *)
(* (data_plane/runtime.rs) with the sequence numbers, the replay window    *)
(* and the lifetime of data_plane/session.rs.                              *)
(*                                                                         *)
(* Each end is one task: one branch of its select! runs at a time, and a   *)
(* branch is split where it awaits send_to or write_packet, during which   *)
(* time passes.  The network is the set of all frames ever sent, so frames *)
(* are lost, repeated, delayed and reordered, and reflected to their       *)
(* sender; frames that carry any sequence number but do not authenticate   *)
(* arrive as well.                                                         *)
(*                                                                         *)
(* Time is relative: idle[x] is how long ago last_successful_activity was, *)
(* counted up to the idle timeout.                                         *)
(***************************************************************************)
EXTENDS Integers, Sequences

CONSTANTS
    MaxSequence,        \* MAX_SEQUENCE = u64::MAX - 1
    Width,              \* REPLAY_WINDOW_WIDTH
    CounterMax,         \* u64::MAX of the traffic counters
    Mtu,                \* TUN MTU of each end
    MaxOutPackets, MaxOutBytes, MaxInPackets, MaxInBytes, IdleTimeout,
                        \* SessionLimits of each end
    Sizes               \* bound: the lengths of the packets read from a TUN

Sides == {"client", "server"}
Peer(x) == IF x = "client" THEN "server" ELSE "client"

\* SessionLimits::new refuses zero limits, DataFrameCodec::new a zero MTU.
ASSUME DataPlaneAssumption ==
    /\ MaxSequence \in Nat \ {0}
    /\ Width \in Nat \ {0}
    /\ CounterMax \in Nat \ {0}
    /\ Mtu \in [Sides -> Nat \ {0}]
    /\ MaxOutPackets \in [Sides -> 1..CounterMax] /\ MaxOutBytes \in [Sides -> 1..CounterMax]
    /\ MaxInPackets \in [Sides -> 1..CounterMax] /\ MaxInBytes \in [Sides -> 1..CounterMax]
    /\ IdleTimeout \in [Sides -> Nat \ {0}]
    /\ Sizes \subseteq Nat

VARIABLES
    next,               \* next_send_sequence
    highest,            \* highest_accepted, 0 for None
    received,           \* the sequences the replay window remembers
    outPackets, outBytes, inPackets, inBytes,
                        \* TrafficCounters of each end
    idle,
    loop,               \* what the task is doing
    length,             \* plaintext_bytes of the packet being forwarded
    ended,              \* why the loop returned
    frames,             \* every frame handed to a socket
    written             \* the frames whose packet was handed to each end's TUN

counters == <<outPackets, outBytes, inPackets, inBytes>>
vars == <<next, highest, received, counters, idle, loop, length, ended, frames, written>>

SequenceExhausted == MaxSequence + 1
Sequence == 1..MaxSequence
\* packet stands for the content: the ordinal of the packet among those sent
Frame == [from : Sides, sequence : Sequence, nonce : Nat, packet : Nat, size : Nat \ {0}]
Reasons == {"None", "PacketLimit", "ByteLimit", "IdleTimeout", "SendSequenceExhausted",
            "LocalShutdown", "CounterOverflow", "IoError"}

\* Type invariant of the two data loops, their replay windows and their limits.
DataTypeOK ==
    /\ next \in [Sides -> 1..SequenceExhausted]
    /\ highest \in [Sides -> 0..MaxSequence]
    /\ received \in [Sides -> SUBSET Sequence]
    /\ outPackets \in [Sides -> 0..CounterMax] /\ outBytes \in [Sides -> 0..CounterMax]
    /\ inPackets \in [Sides -> 0..CounterMax] /\ inBytes \in [Sides -> 0..CounterMax]
    /\ idle \in [Sides -> Nat] /\ \A x \in Sides : idle[x] <= IdleTimeout[x]
    /\ loop \in [Sides -> {"Select", "Sending", "Writing", "Ended"}]
    /\ length \in [Sides -> Nat]
    /\ ended \in [Sides -> Reasons]
    /\ frames \subseteq Frame
    /\ written \in [Sides -> Seq(Frame)]

\* EstablishedDataSession::client and ::server, SessionLifetime::new
DataInit ==
    /\ next = [x \in Sides |-> 1]
    /\ highest = [x \in Sides |-> 0]
    /\ received = [x \in Sides |-> {}]
    /\ outPackets = [x \in Sides |-> 0] /\ outBytes = [x \in Sides |-> 0]
    /\ inPackets = [x \in Sides |-> 0] /\ inBytes = [x \in Sides |-> 0]
    /\ idle = [x \in Sides |-> 0]
    /\ loop = [x \in Sides |-> "Select"]
    /\ length = [x \in Sides |-> 0]
    /\ ended = [x \in Sides |-> "None"]
    /\ frames = {}
    /\ written = [x \in Sides |-> <<>>]
-----------------------------------------------------------------------------
(***************************************************************************)
(* The replay window                                                       *)
(***************************************************************************)
SaturatingAdd(a, b) == IF a + b > SequenceExhausted THEN SequenceExhausted ELSE a + b
SaturatingSub(a, b) == IF a < b THEN 0 ELSE a - b

\* Mutants of MayAttempt: pruned sequences come back, and the edge of
\* the window is off by one.
MayAttemptForgetful(x, q) == q \notin received[x]
MayAttemptWider(x, q) ==
    /\ q \notin received[x]
    /\ ~(highest[x] # 0 /\ SaturatingAdd(q, Width) < highest[x])

MayAttempt(x, q) ==
    /\ q \notin received[x]
    /\ ~(highest[x] # 0 /\ SaturatingAdd(q, Width) <= highest[x])

Higher(x, q) == IF q > highest[x] THEN q ELSE highest[x]

\* Mutant of Remembered: nothing is pruned.
RememberedAll(x, q) == received[x] \cup {q}

Remembered(x, q) ==
    {r \in received[x] : r >= SaturatingSub(Higher(x, q), Width - 1)} \cup {q}

CommitReplay(x, q) ==
    /\ highest' = [highest EXCEPT ![x] = Higher(x, q)]
    /\ received' = [received EXCEPT ![x] = Remembered(x, q)]
-----------------------------------------------------------------------------
(***************************************************************************)
(* The session's lifetime                                                  *)
(***************************************************************************)
Due(x) == idle[x] >= IdleTimeout[x]

\* Mutant of Refusal: the bytes of the packet at hand are not counted.
RefusalBeforeAdding(x, p, b, n, maxPackets, maxBytes) ==
    IF Due(x) THEN "IdleTimeout"
    ELSE IF p + 1 > maxPackets THEN "PacketLimit"
    ELSE IF b >= maxBytes THEN "ByteLimit"
    ELSE "None"

\* permit: the idle deadline, then the counters p and b with one more packet
Refusal(x, p, b, n, maxPackets, maxBytes) ==
    IF Due(x) THEN "IdleTimeout"
    ELSE IF p + 1 > CounterMax \/ b + n > CounterMax THEN "CounterOverflow"
    ELSE IF p + 1 > maxPackets THEN "PacketLimit"
    ELSE IF b + n > maxBytes THEN "ByteLimit"
    ELSE "None"

OutboundRefusal(x, n) ==
    Refusal(x, outPackets[x], outBytes[x], n, MaxOutPackets[x], MaxOutBytes[x])
InboundRefusal(x, n) ==
    Refusal(x, inPackets[x], inBytes[x], n, MaxInPackets[x], MaxInBytes[x])

\* record_success, once the awaited call has returned, and back to the loop
RecordSuccess(x, packets, bytes) ==
    /\ packets' = [packets EXCEPT ![x] = @ + 1]
    /\ bytes' = [bytes EXCEPT ![x] = @ + length[x]]
    /\ idle' = [idle EXCEPT ![x] = 0]
    /\ loop' = [loop EXCEPT ![x] = "Select"]
    /\ length' = [length EXCEPT ![x] = 0]
    /\ UNCHANGED <<next, highest, received, ended, frames, written>>

\* The loop returns
Return(x, reason) ==
    /\ loop' = [loop EXCEPT ![x] = "Ended"]
    /\ ended' = [ended EXCEPT ![x] = reason]
    /\ length' = [length EXCEPT ![x] = 0]
    /\ UNCHANGED <<next, counters, idle, frames, written>>

Await(x, doing, n) ==
    /\ loop' = [loop EXCEPT ![x] = doing]
    /\ length' = [length EXCEPT ![x] = n]
    /\ UNCHANGED <<counters, idle, ended>>
-----------------------------------------------------------------------------
(***************************************************************************)
(* The TUN branch: permit, allocate a sequence, encrypt, send, record      *)
(***************************************************************************)
\* An empty packet, or one beyond the MTU, is dropped
ReadInvalid(x, n) ==
    /\ loop[x] = "Select"
    /\ n = 0 \/ n > Mtu[x]
    /\ UNCHANGED vars

ReadRefused(x, n) ==
    /\ loop[x] = "Select"
    /\ n \in 1..Mtu[x]
    /\ OutboundRefusal(x, n) # "None"
    /\ Return(x, OutboundRefusal(x, n))
    /\ UNCHANGED <<highest, received>>

ReadExhausted(x, n) ==
    /\ loop[x] = "Select"
    /\ n \in 1..Mtu[x]
    /\ OutboundRefusal(x, n) = "None"
    /\ next[x] = SequenceExhausted
    /\ Return(x, "SendSequenceExhausted")
    /\ UNCHANGED <<highest, received>>

\* Mutant of NonceOf: the nonce counts from zero.
NonceFromZero(q) == q - 1

\* The nonce of the two Finish messages, under the same keys
ControlNonce == 0

\* DirectionalTransport::encrypt
NonceOf(q) == q
Encrypted(x, n) ==
    [from |-> x, sequence |-> next[x], nonce |-> NonceOf(next[x]),
     packet |-> outPackets[x] + 1, size |-> n]

\* allocate_send_sequence
Following(q) == IF q = MaxSequence THEN SequenceExhausted ELSE q + 1

\* Mutant of ReadForwarded: exhaustion is not checked.
ReadForwardedExhausted(x, n) ==
    /\ loop[x] = "Select"
    /\ n \in 1..Mtu[x]
    /\ OutboundRefusal(x, n) = "None"
    /\ frames' = frames \cup {Encrypted(x, n)}
    /\ next' = [next EXCEPT ![x] = next[x] + 1]
    /\ Await(x, "Sending", n)
    /\ UNCHANGED <<highest, received, written>>

ReadForwarded(x, n) ==
    /\ loop[x] = "Select"
    /\ n \in 1..Mtu[x]
    /\ OutboundRefusal(x, n) = "None"
    /\ next[x] # SequenceExhausted
    /\ frames' = frames \cup {Encrypted(x, n)}
    /\ next' = [next EXCEPT ![x] = Following(next[x])]
    /\ Await(x, "Sending", n)
    /\ UNCHANGED <<highest, received, written>>

SendReturns(x) ==
    /\ loop[x] = "Sending"
    /\ RecordSuccess(x, outPackets, outBytes)
    /\ UNCHANGED <<inPackets, inBytes>>
-----------------------------------------------------------------------------
(***************************************************************************)
(* The UDP branch: decode, match peer, session and direction, check the    *)
(* window, decrypt, commit the window, permit, write, record               *)
(***************************************************************************)
\* Too large for this end's codec, of its own direction, repeated or too old
Unwanted(x, f) ==
    \/ f.size > Mtu[x]
    \/ f.from = x
    \/ ~MayAttempt(x, f.sequence)

\* Mutant of ReceiveUnwanted: a replayed frame counts as activity.
ReceiveUnwantedRefreshes(x, f) ==
    /\ loop[x] = "Select" /\ Unwanted(x, f)
    /\ idle' = [idle EXCEPT ![x] = 0]
    /\ UNCHANGED <<next, highest, received, counters, loop, length, ended, frames, written>>

ReceiveUnwanted(x, f) == loop[x] = "Select" /\ Unwanted(x, f) /\ UNCHANGED vars

\* A frame that does not authenticate changes nothing, whatever its sequence
ReceiveForged(x, q) == loop[x] = "Select" /\ MayAttempt(x, q) /\ UNCHANGED vars

ReceiveRefused(x, f) ==
    /\ loop[x] = "Select"
    /\ ~Unwanted(x, f)
    /\ CommitReplay(x, f.sequence)
    /\ InboundRefusal(x, f.size) # "None"
    /\ Return(x, InboundRefusal(x, f.size))

ReceiveForwarded(x, f) ==
    /\ loop[x] = "Select"
    /\ ~Unwanted(x, f)
    /\ CommitReplay(x, f.sequence)
    /\ InboundRefusal(x, f.size) = "None"
    /\ written' = [written EXCEPT ![x] = Append(@, f)]
    /\ Await(x, "Writing", f.size)
    /\ UNCHANGED <<next, frames>>

WriteReturns(x) ==
    /\ loop[x] = "Writing"
    /\ RecordSuccess(x, inPackets, inBytes)
    /\ UNCHANGED <<outPackets, outBytes>>
-----------------------------------------------------------------------------
\* A read, a receive, send_to or write_packet fails
IoFails(x) ==
    /\ loop[x] # "Ended"
    /\ Return(x, "IoError")
    /\ UNCHANGED <<highest, received>>

\* expire_if_due, at the head of the loop or when sleep_until is ready
Expire(x) ==
    /\ loop[x] = "Select"
    /\ Due(x)
    /\ Return(x, "IdleTimeout")
    /\ UNCHANGED <<highest, received>>

CtrlC(x) ==
    /\ loop[x] = "Select"
    /\ Return(x, "LocalShutdown")
    /\ UNCHANGED <<highest, received>>

Tick ==
    /\ idle' = [x \in Sides |-> IF Due(x) THEN idle[x] ELSE idle[x] + 1]
    /\ UNCHANGED <<next, highest, received, counters, loop, length, ended, frames, written>>

SideNext(x) ==
    \/ \E n \in Sizes :
          ReadInvalid(x, n) \/ ReadRefused(x, n) \/ ReadExhausted(x, n) \/ ReadForwarded(x, n)
    \/ \E f \in frames :
          ReceiveUnwanted(x, f) \/ ReceiveRefused(x, f) \/ ReceiveForwarded(x, f)
    \/ \E q \in Sequence : ReceiveForged(x, q)
    \/ SendReturns(x)
    \/ WriteReturns(x)
    \/ IoFails(x)
    \/ Expire(x)
    \/ CtrlC(x)

DataNext == Tick \/ \E x \in Sides : SideNext(x)

DataSpec == DataInit /\ [][DataNext]_vars
-----------------------------------------------------------------------------
SentTo(x) == {f \in frames : f.from = Peer(x)}

Channel == INSTANCE AtMostOnceChannel
    WITH Ends <- Sides, sent <- [x \in Sides |-> SentTo(x)], delivered <- written

\* Both ends deliver only what the peer sent, and each packet at most once,
\* however the network repeats, delays and reorders frames.
DeliversAtMostOnce == Channel!ChannelSpec

\* No nonce encrypts two messages of one direction, up to and at the exhaustion
\* of next_send_sequence, and none of the handshake's is used again: data
\* frames are encrypted under the transport keys of the Finish messages.
NonceUsedOnce ==
    \A f, g \in frames :
        /\ f.nonce # ControlNonce
        /\ f.from = g.from /\ f.nonce = g.nonce => f = g

\* The window accepts a sequence exactly when it was not delivered before and
\* is among the Width highest: the set it remembers, pruned at every commit
\* and compared with saturating arithmetic, forgets and refuses nothing else.
WindowExact ==
    \A x \in Sides : loop[x] # "Ended" =>
        \A q \in Sequence :
            MayAttempt(x, q) <=>
                /\ \A k \in DOMAIN written[x] : written[x][k].sequence # q
                /\ q > highest[x] - Width

\* The window's memory is bounded by its width, and nothing enters it that the
\* peer did not send: frames that fail authentication leave no trace.
WindowBounded ==
    \A x \in Sides :
        \A q \in received[x] :
            /\ highest[x] - Width < q /\ q <= highest[x]
            /\ \E f \in frames : f.from = Peer(x) /\ f.sequence = q

\* ReplayWindow: it decides exactly, with a memory that is bounded and authentic.
WindowCorrect == WindowExact /\ WindowBounded

\* What was handed to the socket and to the TUN never exceeds the limits in
\* packets, the one being awaited included, although the counters are only
\* advanced afterwards.
PacketLimitsHold ==
    \A x \in Sides :
        /\ next[x] - 1 <= MaxOutPackets[x]
        /\ Len(written[x]) <= MaxInPackets[x]

\* The same in bytes: the counted bytes and those being awaited are within the
\* limit of their direction.
ByteLimitsHold ==
    \A x \in Sides :
        /\ outBytes[x] + (IF loop[x] = "Sending" THEN length[x] ELSE 0) <= MaxOutBytes[x]
        /\ inBytes[x] + (IF loop[x] = "Writing" THEN length[x] ELSE 0) <= MaxInBytes[x]

\* SessionLifetime: no limit of a session is ever exceeded, in packets or in bytes,
\* in either direction, the packet being sent or written included.
LimitsHold == PacketLimitsHold /\ ByteLimitsHold

\* Every session ends: replayed and forged traffic does not keep it alive, and
\* successful traffic is limited.
SessionEnds == \A x \in Sides : <>(loop[x] = "Ended")
=============================================================================

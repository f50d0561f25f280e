-------------------------- MODULE DataPlaneProofs --------------------------
(***************************************************************************)
(* For every window width, sequence range, MTU and set of limits, a        *)
(* session delivers at most once, uses each nonce once and stays within    *)
(* its limits; and so it does when its branches are polled in order, where *)
(* a signal is served before the packets that wait.  At the end: what      *)
(* makes every session end, apart from the fairness.                       *)
(***************************************************************************)
EXTENDS DataPlaneSelect, TLAPS

\* Frames carry the sequences allocated so far, each once.
SentInv ==
    /\ \A f \in frames : f.sequence < next[f.from] /\ f.nonce = f.sequence
    /\ \A f, g \in frames : f.from = g.from /\ f.sequence = g.sequence => f = g

\* Every delivered sequence is remembered or below the window, and while the
\* loop runs nothing else is remembered.
WindowInv ==
    \A x \in Sides :
        /\ \A q \in received[x] :
              /\ highest[x] - Width < q /\ q <= highest[x]
              /\ \E f \in frames : f.from = Peer(x) /\ f.sequence = q
        /\ \A k \in DOMAIN written[x] :
              /\ written[x][k] \in SentTo(x)
              /\ written[x][k].sequence \in received[x]
                 \/ written[x][k].sequence <= highest[x] - Width
        /\ loop[x] # "Ended" =>
              \A q \in received[x] : \E k \in DOMAIN written[x] : written[x][k].sequence = q

\* The counters lag what was handed over by the packet being awaited.
CountersInv ==
    \A x \in Sides :
        loop[x] # "Ended" =>
            /\ next[x] - 1 = outPackets[x] + (IF loop[x] = "Sending" THEN 1 ELSE 0)
            /\ Len(written[x]) = inPackets[x] + (IF loop[x] = "Writing" THEN 1 ELSE 0)

DataInv ==
    DataTypeOK /\ SentInv /\ WindowInv /\ CountersInv /\ PacketLimitsHold /\ ByteLimitsHold

\* The types of one end's state.
LEMMA TypesAt ==
    ASSUME DataTypeOK, NEW x \in Sides
    PROVE  /\ next[x] \in 1..SequenceExhausted /\ next[x] \in Int
           /\ highest[x] \in 0..MaxSequence /\ highest[x] \in Int
           /\ received[x] \subseteq Sequence
           /\ outPackets[x] \in 0..CounterMax /\ outBytes[x] \in 0..CounterMax
           /\ inPackets[x] \in 0..CounterMax /\ inBytes[x] \in 0..CounterMax
           /\ length[x] \in Nat
           /\ written[x] \in Seq(Frame)
<1>1. next[x] \in 1..SequenceExhausted /\ highest[x] \in 0..MaxSequence
  BY Zenon DEF DataTypeOK
<1>2. received[x] \subseteq Sequence
  BY Zenon DEF DataTypeOK
<1>3. outPackets[x] \in 0..CounterMax /\ outBytes[x] \in 0..CounterMax
  BY Zenon DEF DataTypeOK
<1>4. inPackets[x] \in 0..CounterMax /\ inBytes[x] \in 0..CounterMax
  BY Zenon DEF DataTypeOK
<1>5. length[x] \in Nat /\ written[x] \in Seq(Frame)
  BY Zenon DEF DataTypeOK
<1> QED  BY <1>1, <1>2, <1>3, <1>4, <1>5

\* The limits of one end (SessionLimits::new, DataFrameCodec::new).
LEMMA ConstantsAt ==
    ASSUME NEW x \in Sides
    PROVE  /\ Mtu[x] \in Nat \ {0}
           /\ MaxOutPackets[x] \in 1..CounterMax /\ MaxOutBytes[x] \in 1..CounterMax
           /\ MaxInPackets[x] \in 1..CounterMax /\ MaxInBytes[x] \in 1..CounterMax
           /\ IdleTimeout[x] \in Nat \ {0}
           /\ CounterMax \in Nat /\ Width \in Nat \ {0} /\ MaxSequence \in Nat \ {0}
BY Zenon, DataPlaneAssumption DEF DataPlaneAssumption

\* Within the ranges the code uses, the saturating comparison is the exact one.
LEMMA MayAttemptExact ==
    ASSUME DataTypeOK, NEW x \in Sides, NEW q \in Sequence
    PROVE  MayAttempt(x, q) <=> q \notin received[x] /\ (highest[x] = 0 \/ q > highest[x] - Width)
<1>1. highest[x] \in 0..MaxSequence
  BY TypesAt
<1>2. Width \in Nat \ {0} /\ MaxSequence \in Nat \ {0}
  BY ConstantsAt
<1>3. highest[x] # 0 => (SaturatingAdd(q, Width) <= highest[x] <=> q <= highest[x] - Width)
  BY <1>1, <1>2 DEF SaturatingAdd, Sequence, SequenceExhausted
<1> QED  BY <1>1, <1>2, <1>3 DEF MayAttempt, Sequence

\* permit answers with a known reason, and permits only within both limits.
LEMMA RefusalNone ==
    ASSUME NEW x, NEW p \in Int, NEW b \in Int, NEW n \in Int, NEW maxP \in Int, NEW maxB \in Int
    PROVE  /\ Refusal(x, p, b, n, maxP, maxB) \in Reasons
           /\ Refusal(x, p, b, n, maxP, maxB) = "None" => p + 1 <= maxP /\ b + n <= maxB
BY DEF Refusal, Reasons

\* Between two branches of its loop an end has counted all it handed over.
LEMMA CountedAt ==
    ASSUME DataInv, NEW x \in Sides, loop[x] = "Select"
    PROVE  /\ next[x] - 1 = outPackets[x] /\ next[x] - 1 <= MaxOutPackets[x]
           /\ Len(written[x]) = inPackets[x] /\ Len(written[x]) <= MaxInPackets[x]
<1>1. outPackets[x] \in Int /\ inPackets[x] \in Int
  BY TypesAt DEF DataInv
<1>2. /\ next[x] - 1 = outPackets[x] + 0
      /\ Len(written[x]) = inPackets[x] + 0
  <2>1. /\ loop[x] # "Ended"
        /\ (IF loop[x] = "Sending" THEN 1 ELSE 0) = 0
        /\ (IF loop[x] = "Writing" THEN 1 ELSE 0) = 0
    OBVIOUS
  <2>2. CountersInv!(x)!2
    BY DEF DataInv, CountersInv
  <2> QED  BY <2>2
<1>3. next[x] - 1 <= MaxOutPackets[x] /\ Len(written[x]) <= MaxInPackets[x]
  BY DEF DataInv, PacketLimitsHold
<1> QED  BY <1>1, <1>2, <1>3

\* What bounds the bytes of one end, with the types of what is compared.
LEMMA BytesAt ==
    ASSUME DataInv, NEW y \in Sides
    PROVE  /\ outBytes[y] \in Int /\ inBytes[y] \in Int /\ length[y] \in Nat
           /\ MaxOutBytes[y] \in Int /\ MaxInBytes[y] \in Int
           /\ ByteLimitsHold!(y)
<1>1. ByteLimitsHold!(y)
  BY DEF DataInv, ByteLimitsHold
<1> QED  BY <1>1, TypesAt, ConstantsAt, SMTT(30) DEF DataInv

\* What appending one frame does to a sequence of them.
LEMMA AppendFacts ==
    ASSUME NEW S, NEW s \in Seq(S), NEW e \in S
    PROVE  /\ Append(s, e) \in Seq(S)
           /\ Len(Append(s, e)) = Len(s) + 1 /\ Len(s) \in Nat
           /\ DOMAIN Append(s, e) = DOMAIN s \cup {Len(s) + 1}
           /\ \A k \in DOMAIN s : Append(s, e)[k] = s[k]
           /\ Append(s, e)[Len(s) + 1] = e
OBVIOUS

\* There are exactly two ends.
LEMMA PeerOther ==
    ASSUME NEW x \in Sides
    PROVE  Peer(x) \in Sides /\ Peer(x) # x /\ Peer(Peer(x)) = x
           /\ \A f \in Sides : f # x => f = Peer(x)
BY DEF Peer, Sides

\* A step that neither sends, delivers nor resumes a loop keeps the windows.
LEMMA WindowKept ==
    ASSUME WindowInv, UNCHANGED <<highest, received, frames, written>>,
           \A y \in Sides : loop'[y] # "Ended" => loop[y] # "Ended"
    PROVE  WindowInv'
<1> SUFFICES ASSUME NEW y \in Sides PROVE WindowInv!(y)'
  BY Zenon DEF WindowInv
<1>1. WindowInv!(y)
  BY Zenon DEF WindowInv
<1>2. SentTo(y)' = SentTo(y)
  BY DEF SentTo
<1> QED  BY <1>1, <1>2, ZenonT(30)

\* A freshly established session (EstablishedDataSession) satisfies the invariant.
THEOREM DataInitial == DataInit => DataInv
<1> SUFFICES ASSUME DataInit PROVE DataInv  OBVIOUS
<1> USE DataPlaneAssumption DEF DataInit
<1>1. DataTypeOK
  BY DEF DataTypeOK, SequenceExhausted, Reasons
<1>2. SentInv /\ WindowInv
  BY DEF SentInv, WindowInv
<1>3. CountersInv /\ PacketLimitsHold /\ ByteLimitsHold
  BY SMTT(30) DEF CountersInv, PacketLimitsHold, ByteLimitsHold
<1> QED  BY <1>1, <1>2, <1>3 DEF DataInv
-----------------------------------------------------------------------------
\* What a commit leaves in the window of end x.
LEMMA CommitWindow ==
    ASSUME DataInv, NEW x \in Sides, NEW f \in frames, ~Unwanted(x, f),
           CommitReplay(x, f.sequence)
    PROVE  /\ f.from = Peer(x) /\ f.sequence \in Sequence
           /\ f.sequence \notin received[x]
           /\ highest[x] = 0 \/ f.sequence > highest[x] - Width
           /\ highest' \in [Sides -> 0..MaxSequence] /\ received' \in [Sides -> SUBSET Sequence]
           /\ \A y \in Sides \ {x} : highest'[y] = highest[y] /\ received'[y] = received[y]
           /\ f.sequence \in received'[x]
           /\ highest'[x] >= highest[x]
           /\ \A q \in received'[x] :
                 /\ highest'[x] - Width < q /\ q <= highest'[x]
                 /\ q # f.sequence => q \in received[x]
           /\ \A q \in received[x] : q \in received'[x] \/ q <= highest'[x] - Width
<1> DEFINE q == f.sequence  hi == Higher(x, q)
<1> USE DEF DataInv
<1>1. f.from \in Sides /\ q \in Sequence /\ q \in Int
  <2>1. f \in Frame
    BY Zenon DEF DataTypeOK
  <2> QED  BY <2>1 DEF Frame, Sequence
<1>2. f.from = Peer(x)
  BY <1>1, PeerOther DEF Unwanted
<1>3. q \notin received[x] /\ (highest[x] = 0 \/ q > highest[x] - Width)
  BY <1>1, MayAttemptExact DEF Unwanted
<1>4. /\ highest[x] \in 0..MaxSequence /\ received[x] \subseteq Sequence
      /\ Width \in Nat \ {0} /\ MaxSequence \in Nat
  BY TypesAt, ConstantsAt, SMTT(30)
<1>5. /\ hi \in 0..MaxSequence /\ hi >= highest[x] /\ hi >= q /\ hi - Width < q
  BY <1>1, <1>3, <1>4 DEF Higher, Sequence
<1>6. \A r \in Sequence : r >= SaturatingSub(hi, Width - 1) <=> hi - Width < r
  BY <1>4, <1>5 DEF SaturatingSub, Sequence
<1>7. /\ highest' = [highest EXCEPT ![x] = hi]
      /\ received' = [received EXCEPT ![x] = Remembered(x, q)]
      /\ highest \in [Sides -> 0..MaxSequence] /\ received \in [Sides -> SUBSET Sequence]
  BY Zenon DEF CommitReplay, DataTypeOK
<1>8. highest'[x] = hi /\ received'[x] = Remembered(x, q)
  BY <1>7
<1>9. Remembered(x, q) \subseteq Sequence
  BY <1>1, <1>4 DEF Remembered
<1>10. highest' \in [Sides -> 0..MaxSequence] /\ received' \in [Sides -> SUBSET Sequence]
  BY <1>5, <1>7, <1>9
<1>11. \A y \in Sides \ {x} : highest'[y] = highest[y] /\ received'[y] = received[y]
  BY <1>7
<1>12. \A r \in received[x] : r \in Int /\ r <= highest[x]
  BY <1>4, SMTT(30) DEF WindowInv, Sequence
<1>13. \A r \in received'[x] :
          /\ highest'[x] - Width < r /\ r <= highest'[x]
          /\ r # q => r \in received[x]
  BY <1>4, <1>5, <1>6, <1>8, <1>12, SMTT(30) DEF Remembered
<1>14. \A r \in received[x] : r \in received'[x] \/ r <= highest'[x] - Width
  BY <1>4, <1>5, <1>6, <1>8, <1>12, SMTT(30) DEF Remembered
<1>15. q \in received'[x] /\ highest'[x] >= highest[x]
  BY <1>5, <1>8 DEF Remembered
<1> QED  BY <1>2, <1>3, <1>10, <1>11, <1>13, <1>14, <1>15, Zenon

\* The part of WindowInv that does not depend on what is written next.
LEMMA CommitKeepsWindow ==
    ASSUME DataInv, NEW x \in Sides, NEW f \in frames, ~Unwanted(x, f),
           CommitReplay(x, f.sequence), UNCHANGED frames, NEW y \in Sides
    PROVE  /\ \A q \in received'[y] :
                 /\ highest'[y] - Width < q /\ q <= highest'[y]
                 /\ \E g \in frames' : g.from = Peer(y) /\ g.sequence = q
           /\ \A k \in DOMAIN written[y] :
                 /\ written[y][k] \in SentTo(y)'
                 /\ written[y][k].sequence \in received'[y]
                    \/ written[y][k].sequence <= highest'[y] - Width
<1> USE DEF DataInv
<1>1. WindowInv!(y)
  BY Zenon DEF WindowInv
<1>2. \A k \in DOMAIN written[y] : written[y][k] \in SentTo(y)'
  BY <1>1, SMTT(30) DEF SentTo
<1>3. CASE y # x
  <2>1. highest'[y] = highest[y] /\ received'[y] = received[y]
    BY <1>3, CommitWindow, Zenon
  <2> QED  BY <1>1, <1>2, <2>1, SMTT(30)
<1>4. CASE y = x
  <2>1. \A k \in DOMAIN written[x] :
           written[x][k].sequence \in received'[x] \/ written[x][k].sequence <= highest'[x] - Width
    <3> SUFFICES ASSUME NEW k \in DOMAIN written[x]
                 PROVE  written[x][k].sequence \in received'[x]
                        \/ written[x][k].sequence <= highest'[x] - Width
      OBVIOUS
    <3>1. highest[x] \in Int /\ Width \in Int
      BY TypesAt, ConstantsAt, SMTT(30)
    <3>2. highest'[x] \in Int /\ highest'[x] >= highest[x]
      BY CommitWindow, SMTT(30)
    <3>3. written[x][k].sequence \in Int
      <4>1. written[x][k] \in frames /\ frames \subseteq Frame
        BY <1>1, <1>4, Zenon DEF SentTo, DataTypeOK
      <4> QED  BY <4>1 DEF Frame, Sequence
    <3>4. written[x][k].sequence \in received[x] \/ written[x][k].sequence <= highest[x] - Width
      BY <1>1, <1>4, Zenon
    <3>5. written[x][k].sequence \in received[x] =>
             written[x][k].sequence \in received'[x] \/ written[x][k].sequence <= highest'[x] - Width
      BY CommitWindow, Zenon
    <3> QED  BY <3>1, <3>2, <3>3, <3>4, <3>5, SMTT(30)
  <2>2. \A q \in received'[x] : \E g \in frames' : g.from = Peer(x) /\ g.sequence = q
    BY <1>1, <1>4, CommitWindow, SMTT(30)
  <2>3. \A q \in received'[x] : highest'[x] - Width < q /\ q <= highest'[x]
    BY CommitWindow, SMTT(30)
  <2> QED  BY <1>2, <1>4, <2>1, <2>2, <2>3, Zenon
<1> QED  BY <1>3, <1>4, Zenon

\* Delivering a frame to the TUN keeps the invariant.
LEMMA ReceiveForwardedKeeps ==
    ASSUME DataInv, NEW x \in Sides, NEW f \in frames, ReceiveForwarded(x, f)
    PROVE  DataInv'
<1> USE DEF DataInv
<1>1. /\ ~Unwanted(x, f) /\ CommitReplay(x, f.sequence) /\ loop[x] = "Select"
      /\ InboundRefusal(x, f.size) = "None"
  BY DEF ReceiveForwarded
<1>2. f \in Frame /\ f.size \in Nat
  BY DEF DataTypeOK, Frame
<1>3. inPackets[x] + 1 <= MaxInPackets[x] /\ inBytes[x] + f.size <= MaxInBytes[x]
  <2>1. /\ inPackets[x] \in Int /\ inBytes[x] \in Int
        /\ MaxInPackets[x] \in Int /\ MaxInBytes[x] \in Int
    BY TypesAt, ConstantsAt, SMTT(30)
  <2> QED  BY <1>1, <1>2, <2>1, RefusalNone, SMTT(30) DEF InboundRefusal
<1>4. /\ \A y \in Sides : loop'[y] = IF y = x THEN "Writing" ELSE loop[y]
      /\ \A y \in Sides : length'[y] = IF y = x THEN f.size ELSE length[y]
      /\ \A y \in Sides : written'[y] = IF y = x THEN Append(written[y], f) ELSE written[y]
      /\ UNCHANGED <<next, outPackets, outBytes, inPackets, inBytes, idle, ended, frames>>
  BY Zenon DEF ReceiveForwarded, Await, counters, DataTypeOK
<1>5. written[x] \in Seq(Frame) /\ Append(written[x], f) \in Seq(Frame)
  <2>1. written[x] \in Seq(Frame)
    BY TypesAt
  <2> QED  BY <1>2, <2>1
<1>6. DataTypeOK'
  <2>1. highest' \in [Sides -> 0..MaxSequence] /\ received' \in [Sides -> SUBSET Sequence]
    BY <1>1, CommitWindow, SMTT(30)
  <2>2. written' \in [Sides -> Seq(Frame)]
    <3>1. written' = [written EXCEPT ![x] = Append(written[x], f)]
      BY DEF ReceiveForwarded
    <3>2. written \in [Sides -> Seq(Frame)]
      BY DEF DataTypeOK
    <3> QED  BY <1>5, <3>1, <3>2
  <2>3. /\ loop' \in [Sides -> {"Select", "Sending", "Writing", "Ended"}]
        /\ length' \in [Sides -> Nat]
    BY <1>2, Zenon DEF DataTypeOK, ReceiveForwarded, Await
  <2> QED  BY <1>4, <2>1, <2>2, <2>3, Zenon DEF DataTypeOK
<1>7. SentInv'
  BY <1>4 DEF SentInv
<1>8. WindowInv'
  <2> SUFFICES ASSUME NEW y \in Sides PROVE WindowInv!(y)'
    BY Zenon DEF WindowInv
  <2>1. WindowInv!(y)!1' 
    BY <1>1, <1>4, CommitKeepsWindow, Zenon
  <2>2. CASE y # x
    <3>1. received'[y] = received[y]
      BY <1>1, <2>2, CommitWindow, Zenon
    <3>2. WindowInv!(y)!2'
      BY <1>1, <1>4, <2>2, CommitKeepsWindow, Zenon
    <3>3. written'[y] = written[y] /\ loop'[y] = loop[y] /\ WindowInv!(y)!3
      BY <1>4, <2>2, Zenon DEF WindowInv
    <3> QED  BY <2>1, <3>1, <3>2, <3>3, ZenonT(30)
  <2>3. CASE y = x
    <3>1. /\ DOMAIN written'[x] = DOMAIN written[x] \cup {Len(written[x]) + 1}
          /\ \A k \in DOMAIN written[x] : written'[x][k] = written[x][k]
          /\ written'[x][Len(written[x]) + 1] = f
      <4>1. written'[x] = Append(written[x], f)
        BY <1>4, Zenon
      <4> QED  BY <4>1, SMTT(30)
    <3>2. \A k \in DOMAIN written[x] :
             /\ written[x][k] \in SentTo(x)'
             /\ written[x][k].sequence \in received'[x]
                \/ written[x][k].sequence <= highest'[x] - Width
      BY <1>1, <1>4, CommitKeepsWindow, Zenon
    <3>3. f \in SentTo(x)' /\ f.sequence \in received'[x]
      BY <1>1, <1>4, CommitWindow, Zenon DEF SentTo
    <3>4. WindowInv!(x)!2'
      BY <3>1, <3>2, <3>3, Zenon
    <3>5. \A q \in received'[x] : q # f.sequence => q \in received[x]
      BY <1>1, CommitWindow, Zenon
    <3>6. \A q \in received[x] : \E k \in DOMAIN written[x] : written[x][k].sequence = q
      BY <1>1, Zenon DEF WindowInv
    <3>7. \A q \in received'[x] : \E k \in DOMAIN written'[x] : written'[x][k].sequence = q
      BY <3>1, <3>5, <3>6, Zenon
    <3> QED  BY <2>1, <2>3, <3>4, <3>7, Zenon
  <2> QED  BY <2>2, <2>3, Zenon
<1>9. CountersInv' /\ PacketLimitsHold'
  <2> SUFFICES ASSUME NEW y \in Sides
               PROVE  (loop'[y] # "Ended" => CountersInv!(y)!2') /\ PacketLimitsHold!(y)'
    BY DEF CountersInv, PacketLimitsHold
  <2>1. (loop[y] # "Ended" => CountersInv!(y)!2) /\ PacketLimitsHold!(y)
    BY DEF CountersInv, PacketLimitsHold
  <2>2. CASE y = x
    <3>1. Len(written'[x]) = Len(written[x]) + 1 /\ Len(written[x]) \in Nat
      <4>1. written'[x] = Append(written[x], f)
        BY <1>4, Zenon
      <4> QED  BY <4>1
    <3>2. /\ next[x] \in Int /\ MaxInPackets[x] \in Int
          /\ outPackets[x] \in Int /\ inPackets[x] \in Int
      BY TypesAt, ConstantsAt, SMTT(30)
    <3>3. loop'[x] = "Writing" /\ next' = next /\ outPackets' = outPackets /\ inPackets' = inPackets
      BY <1>4, Zenon
    <3>4. /\ next[x] - 1 = outPackets[x]
          /\ Len(written[x]) = inPackets[x]
          /\ next[x] - 1 <= MaxOutPackets[x]
      BY <1>1, CountedAt
    <3>5. Len(written'[x]) = inPackets[x] + 1 /\ Len(written'[x]) <= MaxInPackets[x]
      BY <1>3, <3>1, <3>4
    <3> HIDE DEF DataInv
    <3> QED  BY <2>2, <3>2, <3>3, <3>4, <3>5, SMTT(30)
  <2>3. CASE y # x
    BY <1>4, <2>1, <2>3, Zenon
  <2> QED  BY <2>2, <2>3, SMTT(30)
<1>10. ByteLimitsHold'
  <2> SUFFICES ASSUME NEW y \in Sides PROVE ByteLimitsHold!(y)'
    BY DEF ByteLimitsHold
  <2> QED  BY <1>3, <1>4, BytesAt, SMTT(30)
<1> QED  BY <1>6, <1>7, <1>8, <1>9, <1>10

\* A frame beyond the limits, committed to the window, keeps the invariant.
LEMMA ReceiveRefusedKeeps ==
    ASSUME DataInv, NEW x \in Sides, NEW f \in frames, ReceiveRefused(x, f)
    PROVE  DataInv'
<1> DEFINE reason == InboundRefusal(x, f.size)
<1> USE DEF DataInv
<1>1. ~Unwanted(x, f) /\ CommitReplay(x, f.sequence) /\ Return(x, reason)
  BY DEF ReceiveRefused
<1>2. reason \in Reasons
  <2>1. /\ inPackets[x] \in Int /\ inBytes[x] \in Int
        /\ MaxInPackets[x] \in Int /\ MaxInBytes[x] \in Int
    BY TypesAt, ConstantsAt, SMTT(30)
  <2>2. f.size \in Int
    BY DEF DataTypeOK, Frame
  <2> QED  BY <2>1, <2>2, RefusalNone DEF InboundRefusal
<1>3. /\ \A y \in Sides : loop'[y] = IF y = x THEN "Ended" ELSE loop[y]
      /\ \A y \in Sides : length'[y] = IF y = x THEN 0 ELSE length[y]
      /\ UNCHANGED <<next, outPackets, outBytes, inPackets, inBytes, frames, written>>
  BY <1>1, Zenon DEF Return, counters, DataTypeOK
<1>4. DataTypeOK'
  <2>1. highest' \in [Sides -> 0..MaxSequence] /\ received' \in [Sides -> SUBSET Sequence]
    BY <1>1, CommitWindow, SMTT(30)
  <2> HIDE DEF reason
  <2> QED  BY <1>1, <1>2, <2>1, Zenon DEF DataTypeOK, Return, counters
<1>5. SentInv'
  BY <1>3 DEF SentInv
<1>6. WindowInv'
  <2> SUFFICES ASSUME NEW y \in Sides PROVE WindowInv!(y)'
    BY Zenon DEF WindowInv
  <2>1. WindowInv!(y)!1' /\ WindowInv!(y)!2'
    BY <1>1, <1>3, CommitKeepsWindow, Zenon
  <2>2. y # x => received'[y] = received[y]
    BY <1>1, CommitWindow, SMTT(30)
  <2>3. WindowInv!(y)!3
    BY DEF WindowInv
  <2> HIDE DEF DataInv
  <2> QED  BY <1>3, <2>1, <2>2, <2>3, ZenonT(30)
<1>7. CountersInv' /\ PacketLimitsHold'
  BY <1>3 DEF CountersInv, PacketLimitsHold
<1>8. ByteLimitsHold'
  <2> SUFFICES ASSUME NEW y \in Sides PROVE ByteLimitsHold!(y)'
    BY DEF ByteLimitsHold
  <2> QED  BY <1>3, BytesAt, SMTT(30)
<1> QED  BY <1>4, <1>5, <1>6, <1>7, <1>8
-----------------------------------------------------------------------------
\* Encrypting and handing over a TUN packet keeps the invariant.
LEMMA ReadForwardedKeeps ==
    ASSUME DataInv, NEW x \in Sides, NEW n \in Nat, ReadForwarded(x, n)
    PROVE  DataInv'
<1> DEFINE f == Encrypted(x, n)
<1> USE DEF DataInv
<1>1. /\ loop[x] = "Select" /\ n # 0
      /\ next[x] # SequenceExhausted
      /\ OutboundRefusal(x, n) = "None"
  BY DEF ReadForwarded
<1>2. /\ next[x] \in Sequence /\ next[x] \in Int /\ outPackets[x] \in Nat /\ outBytes[x] \in Nat
      /\ MaxSequence \in Nat
  <2>1. next[x] \in 1..SequenceExhausted /\ outPackets[x] \in Nat /\ outBytes[x] \in Nat
    BY TypesAt
  <2>2. MaxSequence \in Nat
    BY ConstantsAt
  <2> QED  BY <1>1, <2>1, <2>2 DEF Sequence, SequenceExhausted
<1>3. outPackets[x] + 1 <= MaxOutPackets[x] /\ outBytes[x] + n <= MaxOutBytes[x]
  <2>1. MaxOutPackets[x] \in Int /\ MaxOutBytes[x] \in Int
    BY ConstantsAt
  <2> QED  BY <1>1, <1>2, <2>1, RefusalNone, SMTT(30) DEF OutboundRefusal
<1>4. /\ \A y \in Sides : loop'[y] = IF y = x THEN "Sending" ELSE loop[y]
      /\ \A y \in Sides : length'[y] = IF y = x THEN n ELSE length[y]
      /\ \A y \in Sides : next'[y] = IF y = x THEN Following(next[y]) ELSE next[y]
      /\ frames' = frames \cup {f}
      /\ UNCHANGED <<highest, received, outPackets, outBytes, inPackets, inBytes, idle, ended,
                     written>>
  BY Zenon DEF ReadForwarded, Await, counters, DataTypeOK
<1>5. Following(next[x]) = next[x] + 1
  BY Zenon DEF Following, SequenceExhausted
<1>6. f \in Frame /\ f.from = x /\ f.sequence = next[x] /\ f.nonce = f.sequence
  BY <1>1, <1>2, SMTT(30) DEF Frame, Encrypted, NonceOf, Sequence
<1>7. DataTypeOK'
  <2>1. next' \in [Sides -> 1..SequenceExhausted]
    <3>1. Following(next[x]) \in 1..SequenceExhausted
      BY <1>2, <1>5 DEF Sequence, SequenceExhausted
    <3>2. next \in [Sides -> 1..SequenceExhausted] /\ next' = [next EXCEPT ![x] = Following(next[x])]
      BY DEF DataTypeOK, ReadForwarded
    <3> QED  BY <3>1, <3>2
  <2>2. /\ loop' \in [Sides -> {"Select", "Sending", "Writing", "Ended"}]
        /\ length' \in [Sides -> Nat]
    BY Zenon DEF DataTypeOK, ReadForwarded, Await
  <2>3. frames' \subseteq Frame
    BY <1>4, <1>6, ZenonT(30) DEF DataTypeOK
  <2> QED  BY <1>4, <2>1, <2>2, <2>3, Zenon DEF DataTypeOK
<1>8. SentInv'
  <2>1. \A g \in frames : g.from \in Sides /\ g.sequence \in Int
    <3>1. frames \subseteq Frame
      BY DEF DataTypeOK
    <3> QED  BY <3>1 DEF Frame, Sequence
  <2>2. \A y \in Sides : next[y] \in Int
    BY TypesAt
  <2>3. \A g \in frames' : g.sequence < next'[g.from] /\ g.nonce = g.sequence
    BY <1>4, <1>5, <1>6, <2>1, <2>2, SMTT(30) DEF SentInv
  <2>4. \A g, h \in frames' : g.from = h.from /\ g.sequence = h.sequence => g = h
    <3>1. \A g \in frames : ~(g.from = x /\ g.sequence = next[x])
      BY <2>1 DEF SentInv
    <3>2. \A g, h \in frames : g.from = h.from /\ g.sequence = h.sequence => g = h
      BY DEF SentInv
    <3> HIDE DEF f
    <3> QED  BY <1>4, <1>6, <3>1, <3>2, SMTT(30)
  <2> QED  BY <2>3, <2>4 DEF SentInv
<1>9. WindowInv'
  <2> SUFFICES ASSUME NEW y \in Sides PROVE WindowInv!(y)'
    BY Zenon DEF WindowInv
  <2>1. WindowInv!(y)
    BY Zenon DEF WindowInv
  <2> QED  BY <1>1, <1>4, <2>1, ZenonT(30) DEF SentTo
<1>10. CountersInv' /\ PacketLimitsHold'
  <2> SUFFICES ASSUME NEW y \in Sides
               PROVE  (loop'[y] # "Ended" => CountersInv!(y)!2') /\ PacketLimitsHold!(y)'
    BY DEF CountersInv, PacketLimitsHold
  <2>1. (loop[y] # "Ended" => CountersInv!(y)!2) /\ PacketLimitsHold!(y)
    BY Zenon DEF CountersInv, PacketLimitsHold
  <2>2. CASE y = x
    <3>1. /\ next[x] \in Int /\ MaxOutPackets[x] \in Int
          /\ outPackets[x] \in Int /\ inPackets[x] \in Int
      BY ConstantsAt, TypesAt, SMTT(30)
    <3>2. /\ next[x] - 1 = outPackets[x]
          /\ Len(written[x]) = inPackets[x]
          /\ Len(written[x]) <= MaxInPackets[x]
      BY <1>1, CountedAt
    <3>3. loop'[x] = "Sending" /\ next'[x] = next[x] + 1
      BY <1>4, <1>5
    <3>4. written' = written /\ outPackets' = outPackets /\ inPackets' = inPackets
      BY <1>4
    <3>5. next'[x] - 1 = outPackets[x] + 1 /\ next'[x] - 1 <= MaxOutPackets[x]
      BY <1>3, <3>1, <3>2, <3>3, SMTT(30)
    <3> HIDE DEF DataInv, f
    <3> QED  BY <2>2, <3>2, <3>3, <3>4, <3>5, SMTT(30)
  <2>3. CASE y # x
    BY <1>4, <2>1, <2>3, Zenon
  <2> QED  BY <2>2, <2>3, SMTT(30)
<1>11. ByteLimitsHold'
  <2> SUFFICES ASSUME NEW y \in Sides PROVE ByteLimitsHold!(y)'
    BY DEF ByteLimitsHold
  <2> QED  BY <1>3, <1>4, BytesAt, SMTT(30)
<1> QED  BY <1>7, <1>8, <1>9, <1>10, <1>11

\* record_success, after send_to or write_packet, keeps the invariant.
LEMMA RecordKeeps ==
    ASSUME DataInv, NEW x \in Sides, SendReturns(x) \/ WriteReturns(x)
    PROVE  DataInv'
<1> USE DEF DataInv
<1>1. loop[x] \in {"Sending", "Writing"}
  BY DEF SendReturns, WriteReturns
<1>2. /\ \A y \in Sides : loop'[y] = IF y = x THEN "Select" ELSE loop[y]
      /\ \A y \in Sides : length'[y] = IF y = x THEN 0 ELSE length[y]
      /\ loop' \in [Sides -> {"Select", "Sending", "Writing", "Ended"}]
      /\ length' \in [Sides -> Nat]
      /\ UNCHANGED <<next, highest, received, frames, written, ended>>
  <2>1. /\ loop' = [loop EXCEPT ![x] = "Select"] /\ length' = [length EXCEPT ![x] = 0]
        /\ UNCHANGED <<next, highest, received, frames, written, ended>>
    BY DEF SendReturns, WriteReturns, RecordSuccess
  <2> QED  BY <2>1, Zenon DEF DataTypeOK
<1>3. \A y \in Sides :
         IF y = x /\ loop[x] = "Sending"
         THEN outPackets'[y] = outPackets[y] + 1 /\ outBytes'[y] = outBytes[y] + length[y]
         ELSE outPackets'[y] = outPackets[y] /\ outBytes'[y] = outBytes[y]
  <2>1. CASE SendReturns(x)
    BY <2>1, Zenon DEF SendReturns, RecordSuccess, DataTypeOK
  <2>2. CASE WriteReturns(x)
    BY <2>2, Zenon DEF WriteReturns, RecordSuccess, DataTypeOK
  <2> QED  BY <2>1, <2>2
<1>4. \A y \in Sides :
         IF y = x /\ loop[x] = "Writing"
         THEN inPackets'[y] = inPackets[y] + 1 /\ inBytes'[y] = inBytes[y] + length[y]
         ELSE inPackets'[y] = inPackets[y] /\ inBytes'[y] = inBytes[y]
  <2>1. CASE SendReturns(x)
    BY <2>1, Zenon DEF SendReturns, RecordSuccess, DataTypeOK
  <2>2. CASE WriteReturns(x)
    BY <2>2, ZenonT(30) DEF WriteReturns, RecordSuccess, DataTypeOK
  <2> QED  BY <2>1, <2>2
<1>5. CountersInv' /\ PacketLimitsHold'
  <2> SUFFICES ASSUME NEW y \in Sides
               PROVE  (loop'[y] # "Ended" => CountersInv!(y)!2') /\ PacketLimitsHold!(y)'
    BY Zenon DEF CountersInv, PacketLimitsHold
  <2>1. /\ next[y] \in Int /\ Len(written[y]) \in Int
        /\ outPackets[y] \in Int /\ inPackets[y] \in Int
    BY TypesAt
  <2>2. (loop[y] # "Ended" => CountersInv!(y)!2) /\ PacketLimitsHold!(y)
    BY Zenon DEF CountersInv, PacketLimitsHold
  <2> HIDE DEF DataInv
  <2> QED  BY <1>1, <1>2, <1>3, <1>4, <2>1, <2>2, SMTT(30)
<1>6. ByteLimitsHold'
  <2> SUFFICES ASSUME NEW y \in Sides PROVE ByteLimitsHold!(y)'
    BY Zenon DEF ByteLimitsHold
  <2>1. CASE y = x /\ loop[x] = "Sending"
    BY <1>2, <1>3, <1>4, <2>1, BytesAt, SMTT(30)
  <2>2. CASE y = x /\ loop[x] = "Writing"
    BY <1>2, <1>3, <1>4, <2>2, BytesAt, SMTT(30)
  <2>3. CASE y # x
    BY <1>2, <1>3, <1>4, <2>3, BytesAt, ZenonT(30)
  <2> QED  BY <1>1, <2>1, <2>2, <2>3, Zenon
<1>7. DataTypeOK'
  <2>1. \A y \in Sides : /\ outPackets'[y] \in 0..CounterMax /\ outBytes'[y] \in 0..CounterMax
                         /\ inPackets'[y] \in 0..CounterMax /\ inBytes'[y] \in 0..CounterMax
    <3> SUFFICES ASSUME NEW y \in Sides
                 PROVE  /\ outPackets'[y] \in 0..CounterMax /\ outBytes'[y] \in 0..CounterMax
                        /\ inPackets'[y] \in 0..CounterMax /\ inBytes'[y] \in 0..CounterMax
      OBVIOUS
    <3>1. /\ outPackets[y] \in 0..CounterMax /\ outBytes[y] \in 0..CounterMax
          /\ inPackets[y] \in 0..CounterMax /\ inBytes[y] \in 0..CounterMax
          /\ length[y] \in Nat
      BY TypesAt
    <3>2. /\ CounterMax \in Nat
          /\ MaxOutPackets[y] \in 1..CounterMax /\ MaxOutBytes[y] \in 1..CounterMax
          /\ MaxInPackets[y] \in 1..CounterMax /\ MaxInBytes[y] \in 1..CounterMax
      BY ConstantsAt
    <3>3. /\ loop[y] = "Sending" =>
                outPackets[y] + 1 <= MaxOutPackets[y] /\ outBytes[y] + length[y] <= MaxOutBytes[y]
          /\ loop[y] = "Writing" =>
                inPackets[y] + 1 <= MaxInPackets[y] /\ inBytes[y] + length[y] <= MaxInBytes[y]
      BY DEF CountersInv, PacketLimitsHold, ByteLimitsHold
    <3>4. outPackets'[y] \in 0..CounterMax /\ outBytes'[y] \in 0..CounterMax
      <4>1. CASE y = x /\ loop[x] = "Sending"
        <5>1. outPackets'[y] = outPackets[y] + 1 /\ outBytes'[y] = outBytes[y] + length[y]
          BY <1>3, <4>1, Zenon
        <5>2. outPackets[y] + 1 <= MaxOutPackets[y] /\ outBytes[y] + length[y] <= MaxOutBytes[y]
          BY <3>3, <4>1, Zenon
        <5> HIDE DEF DataInv
        <5> QED  BY <3>1, <3>2, <5>1, <5>2, SMTT(30)
      <4>2. CASE ~(y = x /\ loop[x] = "Sending")
        <5>1. outPackets'[y] = outPackets[y] /\ outBytes'[y] = outBytes[y]
          BY <1>3, <4>2, Zenon
        <5> QED  BY <3>1, <5>1, Zenon
      <4> QED  BY <4>1, <4>2, Zenon
    <3>5. inPackets'[y] \in 0..CounterMax /\ inBytes'[y] \in 0..CounterMax
      <4>1. CASE y = x /\ loop[x] = "Writing"
        <5>1. inPackets'[y] = inPackets[y] + 1 /\ inBytes'[y] = inBytes[y] + length[y]
          BY <1>4, <4>1, Zenon
        <5>2. inPackets[y] + 1 <= MaxInPackets[y] /\ inBytes[y] + length[y] <= MaxInBytes[y]
          BY <3>3, <4>1, Zenon
        <5> HIDE DEF DataInv
        <5> QED  BY <3>1, <3>2, <5>1, <5>2, SMTT(30)
      <4>2. CASE ~(y = x /\ loop[x] = "Writing")
        <5>1. inPackets'[y] = inPackets[y] /\ inBytes'[y] = inBytes[y]
          BY <1>4, <4>2, Zenon
        <5> QED  BY <3>1, <5>1, Zenon
      <4> QED  BY <4>1, <4>2, Zenon
    <3> QED  BY <3>4, <3>5, Zenon
  <2>2. /\ outPackets' \in [Sides -> 0..CounterMax] /\ outBytes' \in [Sides -> 0..CounterMax]
        /\ inPackets' \in [Sides -> 0..CounterMax] /\ inBytes' \in [Sides -> 0..CounterMax]
    BY <2>1, ZenonT(30) DEF DataTypeOK, SendReturns, WriteReturns, RecordSuccess
  <2>3. idle' \in [Sides -> Nat] /\ \A y \in Sides : idle'[y] <= IdleTimeout[y]
    <3>1. idle' = [idle EXCEPT ![x] = 0]
      BY DEF SendReturns, WriteReturns, RecordSuccess
    <3>2. \A y \in Sides : IdleTimeout[y] \in Nat
      BY ConstantsAt
    <3>3. idle \in [Sides -> Nat] /\ \A y \in Sides : idle[y] <= IdleTimeout[y]
      BY Zenon DEF DataTypeOK
    <3> QED  BY <3>1, <3>2, <3>3
  <2> QED  BY <1>2, <2>2, <2>3, Zenon DEF DataTypeOK
<1>8. SentInv'
  BY <1>2 DEF SentInv
<1>9. WindowInv'
  BY <1>1, <1>2, WindowKept
<1> QED  BY <1>5, <1>6, <1>7, <1>8, <1>9

\* Leaving the loop, for whatever reason, keeps the invariant.
LEMMA ReturnKeeps ==
    ASSUME DataInv, NEW x \in Sides, NEW reason \in Reasons, Return(x, reason),
           UNCHANGED <<highest, received>>
    PROVE  DataInv'
<1> USE DEF DataInv
<1>1. /\ loop' = [loop EXCEPT ![x] = "Ended"] /\ ended' = [ended EXCEPT ![x] = reason]
      /\ length' = [length EXCEPT ![x] = 0]
      /\ UNCHANGED <<next, highest, received, outPackets, outBytes, inPackets, inBytes, idle,
                     frames, written>>
  BY DEF Return, counters
<1>2. DataTypeOK' /\ SentInv'
  <2>1. /\ loop' \in [Sides -> {"Select", "Sending", "Writing", "Ended"}]
        /\ ended' \in [Sides -> Reasons]
        /\ length' \in [Sides -> Nat]
    BY <1>1, Zenon DEF DataTypeOK
  <2> QED  BY <1>1, <2>1, ZenonT(30) DEF DataTypeOK, SentInv
<1>3. /\ \A y \in Sides : loop'[y] = IF y = x THEN "Ended" ELSE loop[y]
      /\ \A y \in Sides : length'[y] = IF y = x THEN 0 ELSE length[y]
      /\ UNCHANGED <<next, highest, received, outPackets, outBytes, inPackets, inBytes,
                     frames, written>>
  <2>1. DOMAIN loop = Sides /\ DOMAIN length = Sides
    BY Zenon DEF DataTypeOK
  <2> HIDE DEF DataInv
  <2> QED  BY <1>1, <2>1
<1>4. WindowInv'
  BY <1>3, WindowKept
<1>5. CountersInv' /\ PacketLimitsHold'
  BY <1>3 DEF CountersInv, PacketLimitsHold
<1>6. ByteLimitsHold'
  <2> SUFFICES ASSUME NEW y \in Sides PROVE ByteLimitsHold!(y)'
    BY DEF ByteLimitsHold
  <2> QED  BY <1>3, BytesAt, SMTT(30)
<1> QED  BY <1>2, <1>4, <1>5, <1>6

\* The invariant speaks of the idle times only through their types, so that
\* neither the passage of time nor a dropped packet disturbs it.
LEMMA OnlyIdleKeeps ==
    ASSUME DataInv, idle' \in [Sides -> Nat], \A x \in Sides : idle'[x] <= IdleTimeout[x],
           UNCHANGED <<next, highest, received, counters, loop, length, ended, frames, written>>
    PROVE  DataInv'
<1> USE DEF DataInv, counters
<1>1. DataTypeOK'
  BY Zenon DEF DataTypeOK
<1>2. SentInv' /\ CountersInv'
  BY DEF SentInv, CountersInv
<1>3. WindowInv'
  BY WindowKept
<1>4. PacketLimitsHold' /\ ByteLimitsHold'
  BY DEF PacketLimitsHold, ByteLimitsHold
<1> QED  BY <1>1, <1>2, <1>3, <1>4
-----------------------------------------------------------------------------
\* Every step of either loop (data_plane/runtime.rs, run) keeps the invariant.
THEOREM DataStep == DataInv /\ [DataNext]_vars => DataInv'
<1> SUFFICES ASSUME DataInv, [DataNext]_vars PROVE DataInv'
  OBVIOUS
<1>1. CASE Tick
  <2>1. \A x \in Sides : IdleTimeout[x] \in Nat
    BY ConstantsAt
  <2>2. idle \in [Sides -> Nat] /\ \A x \in Sides : idle[x] <= IdleTimeout[x]
    BY DEF DataInv, DataTypeOK
  <2>3. idle' \in [Sides -> Nat] /\ \A x \in Sides : idle'[x] <= IdleTimeout[x]
    BY <1>1, <2>1, <2>2 DEF Tick, Due
  <2> QED  BY <1>1, <2>3, OnlyIdleKeeps DEF Tick
<1>2. CASE UNCHANGED vars
  BY <1>2, OnlyIdleKeeps, Zenon DEF vars, DataInv, DataTypeOK
<1>3. ASSUME NEW x \in Sides, SideNext(x) PROVE DataInv'
  <2>1. ASSUME NEW n \in Sizes, ReadForwarded(x, n) PROVE DataInv'
    BY <2>1, ReadForwardedKeeps, DataPlaneAssumption
  <2>2. ASSUME NEW n \in Sizes, ReadRefused(x, n) PROVE DataInv'
    <3>1. OutboundRefusal(x, n) \in Reasons
      <4>1. outPackets[x] \in Int /\ outBytes[x] \in Int
        BY TypesAt DEF DataInv
      <4>2. MaxOutPackets[x] \in Int /\ MaxOutBytes[x] \in Int
        BY ConstantsAt
      <4>3. n \in Int
        BY DataPlaneAssumption
      <4> QED  BY <4>1, <4>2, <4>3, RefusalNone DEF OutboundRefusal
    <3> QED  BY <2>2, <3>1, ReturnKeeps DEF ReadRefused
  <2>3. ASSUME NEW n \in Sizes, ReadExhausted(x, n) PROVE DataInv'
    BY <2>3, ReturnKeeps DEF ReadExhausted, Reasons
  <2>4. ASSUME NEW f \in frames, ReceiveRefused(x, f) PROVE DataInv'
    BY <2>4, ReceiveRefusedKeeps
  <2>5. ASSUME NEW f \in frames, ReceiveForwarded(x, f) PROVE DataInv'
    BY <2>5, ReceiveForwardedKeeps
  <2>6. ASSUME SendReturns(x) \/ WriteReturns(x) PROVE DataInv'
    BY <2>6, RecordKeeps
  <2>7. ASSUME IoFails(x) \/ Expire(x) \/ CtrlC(x) PROVE DataInv'
    BY <2>7, ReturnKeeps DEF IoFails, Expire, CtrlC, Reasons
  <2>8. ASSUME \/ \E n \in Sizes : ReadInvalid(x, n)
               \/ \E f \in frames : ReceiveUnwanted(x, f)
               \/ \E q \in Sequence : ReceiveForged(x, q)
        PROVE  DataInv'
    BY <1>2, <2>8 DEF ReadInvalid, ReceiveUnwanted, ReceiveForged
  <2> QED  BY <1>3, <2>1, <2>2, <2>3, <2>4, <2>5, <2>6, <2>7, <2>8, Zenon DEF SideNext
<1> QED  BY <1>1, <1>2, <1>3 DEF DataNext

\* The inductive invariant holds of every behaviour of the two loops.
THEOREM DataCorrect == DataSpec => []DataInv
BY DataInitial, DataStep, PTL DEF DataSpec

\* Every reachable state is well typed: in particular next_send_sequence stops at
\* SEQUENCE_EXHAUSTED and no frame carries it.
THEOREM DataTypeCorrect == DataSpec => []DataTypeOK
<1>1. DataInv => DataTypeOK
  BY DEF DataInv
<1> QED  BY <1>1, DataCorrect, PTL

\* DirectionalTransport::encrypt never sees a nonce twice in one direction, nor
\* the nonce of the Finish messages.
THEOREM NoncesAlwaysFresh == DataSpec => []NonceUsedOnce
<1>1. DataInv => NonceUsedOnce
  <2> SUFFICES ASSUME DataInv, NEW f \in frames, NEW g \in frames
               PROVE  f.nonce # 0 /\ (f.from = g.from /\ f.nonce = g.nonce => f = g)
    BY DEF NonceUsedOnce, ControlNonce
  <2>1. f.nonce = f.sequence /\ g.nonce = g.sequence
    BY DEF DataInv, SentInv
  <2>2. f.from = g.from /\ f.sequence = g.sequence => f = g
    BY DEF DataInv, SentInv
  <2>3. frames \subseteq Frame
    BY DEF DataInv, DataTypeOK
  <2>4. f.sequence # 0
    BY <2>3 DEF Frame, Sequence
  <2> QED  BY <2>1, <2>2, <2>4
<1> QED  BY <1>1, DataCorrect, PTL

\* ReplayWindow::may_attempt accepts exactly the undelivered sequences of the
\* window, for every width.
THEOREM WindowAlwaysExact == DataSpec => []WindowExact
<1>1. DataInv => WindowExact
  <2> SUFFICES ASSUME DataInv, NEW x \in Sides, loop[x] # "Ended", NEW q \in Sequence
               PROVE  MayAttempt(x, q) <=>
                         /\ \A k \in DOMAIN written[x] : written[x][k].sequence # q
                         /\ q > highest[x] - Width
    BY DEF WindowExact
  <2>1. DataTypeOK /\ WindowInv!(x)
    BY Zenon DEF DataInv, WindowInv
  <2>2. highest[x] \in Nat /\ Width \in Nat \ {0} /\ q \in Nat \ {0}
    BY <2>1, TypesAt, ConstantsAt, SMTT(30) DEF Sequence
  <2>3. MayAttempt(x, q) <=> q \notin received[x] /\ (highest[x] = 0 \/ q > highest[x] - Width)
    BY <2>1, MayAttemptExact, SMTT(30)
  <2> QED  BY <2>1, <2>2, <2>3, SMTT(30)
<1> QED  BY <1>1, DataCorrect, PTL

\* ReplayWindow remembers at most the Width sequences below its highest one, all
\* sent by the peer.
THEOREM WindowAlwaysBounded == DataSpec => []WindowBounded
<1>1. DataInv => WindowBounded
  BY DEF DataInv, WindowInv, WindowBounded
<1> QED  BY <1>1, DataCorrect, PTL

\* ReplayWindow decides exactly, and with a bounded and authentic memory.
THEOREM WindowAlwaysCorrect == DataSpec => []WindowCorrect
<1>1. WindowExact /\ WindowBounded => WindowCorrect
  BY DEF WindowCorrect
<1> QED  BY <1>1, WindowAlwaysExact, WindowAlwaysBounded, PTL

\* SessionLifetime's packet and byte limits bound what was handed over, awaited
\* calls included.
THEOREM LimitsAlwaysHold == DataSpec => []LimitsHold
<1>1. DataInv => LimitsHold
  BY DEF DataInv, LimitsHold
<1> QED  BY <1>1, DataCorrect, PTL
-----------------------------------------------------------------------------
\* Handing a frame to the socket is a send of the abstract channel.
LEMMA ForwardedIsSend ==
    ASSUME DataInv, NEW x \in Sides, NEW n \in Sizes, ReadForwarded(x, n)
    PROVE  Channel!SendPacket(Peer(x))
<1> DEFINE f == Encrypted(x, n)
           sent == [y \in Sides |-> SentTo(y)]
<1>1. frames' = frames \cup {f} /\ written' = written
  BY Zenon DEF ReadForwarded
<1>2. f.from = x /\ f.sequence = next[x]
  BY DEF Encrypted
<1>3. f \notin frames
  <2>1. next[x] \in Int
    BY TypesAt DEF DataInv
  <2> QED  BY <1>2, <2>1 DEF DataInv, SentInv
<1> HIDE DEF f
<1>4. \A y \in Sides : SentTo(y)' = IF y = Peer(x) THEN SentTo(y) \cup {f} ELSE SentTo(y)
  BY <1>1, <1>2, PeerOther DEF SentTo
<1>5. Peer(x) \in Sides
  BY PeerOther
<1>6. sent' = [sent EXCEPT ![Peer(x)] = @ \cup {f}]
  BY <1>4, Zenon
<1>7. f \in sent'[Peer(x)] \ sent[Peer(x)]
  BY <1>3, <1>4, <1>5 DEF SentTo
<1> QED  BY <1>1, <1>6, <1>7, Zenon DEF Channel!SendPacket

\* Writing a packet to the TUN is a first delivery in the abstract channel.
LEMMA ReceivedIsDelivery ==
    ASSUME DataInv, NEW x \in Sides, NEW f \in frames, ReceiveForwarded(x, f)
    PROVE  Channel!Deliver(x)
<1>1. ~Unwanted(x, f) /\ CommitReplay(x, f.sequence) /\ frames' = frames
  BY Zenon DEF ReceiveForwarded
<1>2. /\ f.from = Peer(x) /\ f.sequence \in Sequence /\ f.sequence \notin received[x]
      /\ highest[x] = 0 \/ f.sequence > highest[x] - Width
  BY <1>1, CommitWindow, Zenon
<1>3. WindowInv!(x)
  BY Zenon DEF DataInv, WindowInv
<1>4. highest[x] \in Nat /\ Width \in Nat
  BY TypesAt, ConstantsAt, SMTT(30) DEF DataInv
<1>5. \A k \in DOMAIN written[x] : written[x][k] # f
  <2>1. f.sequence \in Nat \ {0}
    BY <1>2 DEF Sequence
  <2> QED  BY <1>2, <1>3, <1>4, <2>1, SMTT(30)
<1>6. written' = [written EXCEPT ![x] = Append(@, f)]
  BY DEF ReceiveForwarded
<1>7. f \in [y \in Sides |-> SentTo(y)][x]
  BY <1>2 DEF SentTo
<1>8. [y \in Sides |-> SentTo(y)]' = [y \in Sides |-> SentTo(y)]
  BY <1>1 DEF SentTo
<1> QED  BY <1>5, <1>6, <1>7, <1>8, Zenon DEF Channel!Deliver

\* Steps that neither send nor write leave the abstract channel alone.
LEMMA OtherStepsStutter ==
    ASSUME frames' = frames, written' = written
    PROVE  UNCHANGED <<[x \in Sides |-> SentTo(x)], written>>
BY DEF SentTo

\* The two loops with their replay windows implement a channel that delivers
\* each packet at most once.
THEOREM DataPlaneIsAtMostOnce == DataSpec => DeliversAtMostOnce
<1> DEFINE sent == [x \in Sides |-> SentTo(x)]
<1>1. DataInit => Channel!ChannelInit
  BY DEF DataInit, SentTo, Channel!ChannelInit
<1>2. DataInv /\ [DataNext]_vars => [Channel!ChannelNext]_<<sent, written>>
  <2> SUFFICES ASSUME DataInv, [DataNext]_vars
               PROVE  Channel!ChannelNext \/ (frames' = frames /\ written' = written)
    BY OtherStepsStutter
  <2>1. ASSUME NEW x \in Sides, NEW n \in Sizes, ReadForwarded(x, n)
        PROVE  Channel!ChannelNext
    BY <2>1, ForwardedIsSend, PeerOther DEF Channel!ChannelNext
  <2>2. ASSUME NEW x \in Sides, NEW f \in frames, ReceiveForwarded(x, f)
        PROVE  Channel!ChannelNext
    BY <2>2, ReceivedIsDelivery DEF Channel!ChannelNext
  <2>3. UNCHANGED vars => frames' = frames /\ written' = written
    BY DEF vars
  <2>4. Tick => frames' = frames /\ written' = written
    BY DEF Tick
  <2>5. ASSUME NEW x \in Sides, SideNext(x)
        PROVE  Channel!ChannelNext \/ (frames' = frames /\ written' = written)
    <3>1. ASSUME NEW n \in Sizes,
                 ReadInvalid(x, n) \/ ReadRefused(x, n) \/ ReadExhausted(x, n)
          PROVE  frames' = frames /\ written' = written
      BY <2>3, <3>1, SMTT(30) DEF ReadInvalid, ReadRefused, ReadExhausted, Return
    <3>2. ASSUME NEW f \in frames, ReceiveUnwanted(x, f) \/ ReceiveRefused(x, f)
          PROVE  frames' = frames /\ written' = written
      BY <2>3, <3>2 DEF ReceiveUnwanted, ReceiveRefused, Return
    <3>3. ASSUME NEW q \in Sequence, ReceiveForged(x, q)
          PROVE  frames' = frames /\ written' = written
      BY <2>3, <3>3 DEF ReceiveForged
    <3>4. SendReturns(x) \/ WriteReturns(x) => frames' = frames /\ written' = written
      BY DEF SendReturns, WriteReturns, RecordSuccess
    <3>5. IoFails(x) \/ Expire(x) \/ CtrlC(x) => frames' = frames /\ written' = written
      BY DEF IoFails, Expire, CtrlC, Return
    <3> QED  BY <2>1, <2>2, <2>5, <3>1, <3>2, <3>3, <3>4, <3>5, Zenon DEF SideNext
  <2> QED  BY <2>3, <2>4, <2>5 DEF DataNext
<1> QED  BY <1>1, <1>2, DataCorrect, PTL DEF DataSpec, DeliversAtMostOnce, Channel!ChannelSpec
-----------------------------------------------------------------------------
(* The biased select!                                                      *)

\* The select! only chooses among the steps of the loops.
LEMMA SelectStepIsDataStep == [SelectNext]_selectVars => [DataNext]_vars
<1>1. ASSUME NEW x \in Sides, Packet(x) \/ Resume(x) \/ Close(x) PROVE SideNext(x)
  BY <1>1, Zenon DEF Packet, Resume, Close, SideNext
<1>2. ASSUME NEW x \in Sides, Signal(x) \/ Poll(x) PROVE UNCHANGED vars
  BY <1>2, Zenon DEF Signal, Poll
<1> QED  BY <1>1, <1>2, Zenon DEF SelectNext, SelectTick, Task, DataNext, selectVars

\* runtime::run is a loop of DataPlane whatever the order in which it polls: all that is
\* proved above holds of it.
THEOREM SelectImplementsData == SelectSpec => DataSpec
<1>1. SelectInit => DataInit
  BY DEF SelectInit
<1> QED  BY <1>1, SelectStepIsDataStep, PTL DEF SelectSpec, DataSpec

\* Once the signal is there, the loop hands over no packet but one it had settled on before.
SelectInv ==
    /\ polled \in [Sides -> BOOLEAN] /\ DOMAIN signalled = Sides
    /\ \A x \in Sides : \A n \in signalled[x] :
          /\ n \in Int
          /\ Crossed(x) <= n + (IF polled[x] THEN 0 ELSE 1)

\* The packets an end handed over are counted.
LEMMA CrossedType == ASSUME DataTypeOK, NEW x \in Sides PROVE Crossed(x) \in Int
<1>1. next[x] \in Int /\ written[x] \in Seq(Frame)
  BY TypesAt
<1> QED  BY <1>1 DEF Crossed

\* One poll hands over one packet at most.
LEMMA PacketCrosses ==
    ASSUME DataTypeOK, NEW x \in Sides, Packet(x)
    PROVE  /\ Crossed(x)' \in {Crossed(x), Crossed(x) + 1}
           /\ \A y \in Sides \ {x} : Crossed(y)' = Crossed(y)
<1>1. next[x] \in Int /\ written[x] \in Seq(Frame) /\ Len(written[x]) \in Nat
  BY TypesAt
<1>2. CASE UNCHANGED <<next, written>>
  BY <1>2 DEF Crossed
<1>3. ASSUME NEW n \in Sizes, ReadForwarded(x, n)
      PROVE  /\ Crossed(x)' = Crossed(x) + 1
             /\ \A y \in Sides \ {x} : Crossed(y)' = Crossed(y)
  <2>1. next' = [next EXCEPT ![x] = Following(next[x])] /\ UNCHANGED written
    BY <1>3, Zenon DEF ReadForwarded
  <2>2. Following(next[x]) = next[x] + 1
    BY DEF Following, SequenceExhausted
  <2>3. next'[x] = next[x] + 1 /\ \A y \in Sides \ {x} : next'[y] = next[y]
    BY <2>1, <2>2, Zenon DEF DataTypeOK
  <2> QED  BY <1>1, <2>1, <2>3, SMTT(30) DEF Crossed
<1>4. ASSUME NEW f \in frames, ReceiveForwarded(x, f)
      PROVE  /\ Crossed(x)' = Crossed(x) + 1
             /\ \A y \in Sides \ {x} : Crossed(y)' = Crossed(y)
  <2>1. written' = [written EXCEPT ![x] = Append(written[x], f)] /\ UNCHANGED next
    BY <1>4 DEF ReceiveForwarded
  <2>2. Len(Append(written[x], f)) = Len(written[x]) + 1
    BY DEF DataTypeOK
  <2>3. /\ Len(written'[x]) = Len(written[x]) + 1
        /\ \A y \in Sides \ {x} : written'[y] = written[y]
    BY <2>1, <2>2, Zenon DEF DataTypeOK
  <2>4. Crossed(x)' = Crossed(x) + 1
    <3>1. Crossed(x)' = next[x] - 1 + (Len(written[x]) + 1)
      BY <2>1, <2>3, Zenon DEF Crossed
    <3>2. \A i, j \in Int : i - 1 + (j + 1) = i - 1 + j + 1
      BY SMT
    <3>3. next[x] \in Int /\ Len(written[x]) \in Int
      BY <1>1
    <3> QED  BY <3>1, <3>2, <3>3, Zenon DEF Crossed
  <2>5. \A y \in Sides \ {x} : Crossed(y)' = Crossed(y)
    BY <2>1, <2>3, Zenon DEF Crossed
  <2> QED  BY <2>4, <2>5, Zenon
<1> QED  BY <1>2, <1>3, <1>4, Zenon DEF Packet, ReadInvalid, ReadRefused, ReadExhausted, ReceiveUnwanted,
              ReceiveRefused, ReceiveForged, IoFails, Return, vars

\* A poll that finds the signal settles on no packet, so a step of the task keeps the bound.
LEMMA SelectInvInductive ==
    ASSUME DataTypeOK, SelectInv, [SelectNext]_selectVars PROVE SelectInv'
<1>1. CASE UNCHANGED <<next, written, signalled, polled>>
  BY <1>1 DEF SelectInv, Crossed
<1>2. ASSUME NEW x \in Sides, Signal(x) PROVE SelectInv'
  <2>1. /\ signalled' = [signalled EXCEPT ![x] = {Crossed(x)}]
        /\ UNCHANGED <<next, written, polled>>
    BY <1>2 DEF Signal, vars
  <2>2. Crossed(x) \in Int /\ \A y \in Sides : Crossed(y)' = Crossed(y)
    BY <2>1, CrossedType DEF Crossed
  <2> QED  BY <2>1, <2>2 DEF SelectInv
<1>3. ASSUME NEW x \in Sides, Poll(x) PROVE SelectInv'
  <2>1. /\ signalled[x] = {} /\ polled' = [polled EXCEPT ![x] = TRUE]
        /\ UNCHANGED <<next, written, signalled>>
    BY <1>3 DEF Poll, vars
  <2>2. \A y \in Sides : Crossed(y)' = Crossed(y)
    BY <2>1 DEF Crossed
  <2> QED  BY <2>1, <2>2 DEF SelectInv
<1>4. ASSUME NEW x \in Sides, Packet(x) PROVE SelectInv'
  <2>1. /\ polled[x] /\ polled' = [polled EXCEPT ![x] = FALSE] /\ UNCHANGED signalled
    BY <1>4 DEF Packet
  <2>2. /\ Crossed(x)' \in {Crossed(x), Crossed(x) + 1} /\ Crossed(x) \in Int
        /\ \A y \in Sides \ {x} : Crossed(y)' = Crossed(y)
    BY <1>4, PacketCrosses, CrossedType, Zenon
  <2> QED  BY <2>1, <2>2 DEF SelectInv
<1>5. ASSUME NEW x \in Sides, Resume(x) \/ Close(x) PROVE SelectInv'
  BY <1>1, <1>5, Zenon DEF Resume, Close, SendReturns, WriteReturns, RecordSuccess, IoFails, Expire, CtrlC, Return
<1>6. CASE SelectTick
  BY <1>1, <1>6 DEF SelectTick, Tick
<1>7. CASE UNCHANGED selectVars
  BY <1>1, <1>7 DEF selectVars, vars
<1> QED  BY <1>2, <1>3, <1>4, <1>5, <1>6, <1>7, SMTT(30) DEF SelectNext, Task

\* The pinned ctrl_c future of runtime::run is polled before the TUN and the socket: once
\* it is ready, at most the one packet the loop had settled on still crosses the tunnel,
\* for any window, limits and packet sizes.
THEOREM CtrlCAlwaysPreempts == SelectSpec => []CtrlCPreempts
<1>1. SelectSpec => []DataTypeOK
  BY SelectImplementsData, DataTypeCorrect, PTL
<1>2. SelectInit => SelectInv
  BY DEF SelectInit, SelectInv
<1>3. DataTypeOK /\ SelectInv /\ [SelectNext]_selectVars => SelectInv'
  BY SelectInvInductive
<1>4. DataTypeOK /\ SelectInv => CtrlCPreempts
  BY CrossedType DEF SelectInv, CtrlCPreempts
<1> QED  BY <1>1, <1>2, <1>3, <1>4, PTL DEF SelectSpec
-----------------------------------------------------------------------------
(* Why a session ends: SessionEnds without the fairness                    *)

\* The packets an end may still count before its session's packet limits are reached
Credit(x) == (MaxOutPackets[x] - outPackets[x]) + (MaxInPackets[x] - inPackets[x])

\* The counters of each end, of one whose loop has returned as well, are within its limits.
CountersWithin ==
    \A x \in Sides : outPackets[x] <= MaxOutPackets[x] /\ inPackets[x] <= MaxInPackets[x]

\* Credit is never given back, and nothing else buys time
ActivityPaid ==
    \A x \in Sides : \/ Credit(x)' = Credit(x) /\ idle'[x] >= idle[x]
                     \/ Credit(x)' = Credit(x) - 1

\* All but record_success leave the packet counters alone, and no idle time shrinks.
LEMMA OnlyRecordsCount ==
    ASSUME DataInv, [DataNext]_vars, \A x \in Sides : ~SendReturns(x) /\ ~WriteReturns(x)
    PROVE  UNCHANGED <<outPackets, inPackets>> /\ \A x \in Sides : idle'[x] >= idle[x]
<1>1. \A x \in Sides : idle[x] \in Nat
  BY Zenon DEF DataInv, DataTypeOK
<1>2. CASE Tick
  <2>1. UNCHANGED <<outPackets, inPackets>>
    BY <1>2, Zenon DEF Tick, counters
  <2>2. ASSUME NEW x \in Sides PROVE idle'[x] >= idle[x]
    <3>1. idle'[x] = IF Due(x) THEN idle[x] ELSE idle[x] + 1
      BY <1>2, Zenon DEF Tick
    <3> QED  BY <1>1, <3>1
  <2> QED  BY <2>1, <2>2
<1>3. ASSUME UNCHANGED <<counters, idle>>
      PROVE  UNCHANGED <<outPackets, inPackets>> /\ \A x \in Sides : idle'[x] >= idle[x]
  <2>1. UNCHANGED <<outPackets, inPackets>> /\ idle' = idle
    BY <1>3, Zenon DEF counters
  <2>2. \A x \in Sides : idle[x] >= idle[x]
    BY <1>1
  <2> QED  BY <2>1, <2>2, Zenon
<1>4. ASSUME NEW x \in Sides, SideNext(x) PROVE UNCHANGED <<counters, idle>>
  BY <1>4, ZenonT(30) DEF SideNext, ReadInvalid, ReadRefused, ReadExhausted, ReadForwarded, ReceiveUnwanted,
       ReceiveRefused, ReceiveForwarded, ReceiveForged, IoFails, Expire, CtrlC, Return, Await, vars
<1>5. CASE UNCHANGED vars
  BY <1>3, <1>5, Zenon DEF vars
<1> QED  BY <1>2, <1>3, <1>4, <1>5, Zenon DEF DataNext

\* record_success counts one packet of one direction, within that direction's limit.
LEMMA RecordCounts ==
    ASSUME DataInv, CountersWithin, NEW x \in Sides, SendReturns(x) \/ WriteReturns(x)
    PROVE  /\ Credit(x)' = Credit(x) - 1 /\ CountersWithin'
           /\ \A y \in Sides \ {x} : Credit(y)' = Credit(y) /\ idle'[y] = idle[y]
<1>1. \A y \in Sides : /\ outPackets[y] \in Int /\ inPackets[y] \in Int
                       /\ MaxOutPackets[y] \in Int /\ MaxInPackets[y] \in Int
  BY TypesAt, ConstantsAt, SMTT(30) DEF DataInv
<1>2. \A y \in Sides \ {x} : /\ outPackets'[y] = outPackets[y] /\ inPackets'[y] = inPackets[y]
                             /\ idle'[y] = idle[y]
  <2>1. DOMAIN outPackets = Sides /\ DOMAIN inPackets = Sides /\ DOMAIN idle = Sides
    BY Zenon DEF DataInv, DataTypeOK
  <2>2. idle' = [idle EXCEPT ![x] = 0]
    BY Zenon DEF SendReturns, WriteReturns, RecordSuccess
  <2>3. CASE SendReturns(x)
    <3>1. outPackets' = [outPackets EXCEPT ![x] = @ + 1] /\ inPackets' = inPackets
      BY <2>3, Zenon DEF SendReturns, RecordSuccess
    <3> QED  BY <2>1, <2>2, <3>1
  <2>4. CASE WriteReturns(x)
    <3>1. inPackets' = [inPackets EXCEPT ![x] = @ + 1] /\ outPackets' = outPackets
      BY <2>4, Zenon DEF WriteReturns, RecordSuccess
    <3> QED  BY <2>1, <2>2, <3>1
  <2> QED  BY <2>3, <2>4, Zenon
<1>3. \/ /\ outPackets'[x] = outPackets[x] + 1 /\ inPackets'[x] = inPackets[x]
         /\ outPackets[x] + 1 <= MaxOutPackets[x]
      \/ /\ inPackets'[x] = inPackets[x] + 1 /\ outPackets'[x] = outPackets[x]
         /\ inPackets[x] + 1 <= MaxInPackets[x]
  <2>1. CASE SendReturns(x)
    <3>1. outPackets'[x] = outPackets[x] + 1 /\ inPackets'[x] = inPackets[x] /\ loop[x] = "Sending"
      BY <2>1, Zenon DEF SendReturns, RecordSuccess, DataInv, DataTypeOK
    <3>2. next[x] - 1 = outPackets[x] + 1 /\ next[x] - 1 <= MaxOutPackets[x]
      BY <3>1 DEF DataInv, CountersInv, PacketLimitsHold
    <3> QED  BY <3>1, <3>2, Zenon
  <2>2. CASE WriteReturns(x)
    <3>1. inPackets'[x] = inPackets[x] + 1 /\ outPackets'[x] = outPackets[x] /\ loop[x] = "Writing"
      BY <2>2, ZenonT(30) DEF WriteReturns, RecordSuccess, DataInv, DataTypeOK
    <3>2. Len(written[x]) = inPackets[x] + 1 /\ Len(written[x]) <= MaxInPackets[x]
      BY <3>1 DEF DataInv, CountersInv, PacketLimitsHold
    <3> QED  BY <3>1, <3>2, Zenon
  <2> QED  BY <2>1, <2>2, SMTT(30)
<1>4. Credit(x)' = Credit(x) - 1
  BY <1>1, <1>3 DEF Credit
<1>5. CountersWithin'
  <2>1. outPackets'[x] <= MaxOutPackets[x] /\ inPackets'[x] <= MaxInPackets[x]
    BY <1>3, Zenon DEF CountersWithin
  <2> QED  BY <1>2, <2>1, Zenon DEF CountersWithin
<1> QED  BY <1>2, <1>4, <1>5, Zenon DEF Credit

\* Every step pays for the activity it records, and stays within the limits.
LEMMA CreditStep ==
    ASSUME DataInv, CountersWithin, [DataNext]_vars PROVE CountersWithin' /\ ActivityPaid
<1>1. CASE \A x \in Sides : ~SendReturns(x) /\ ~WriteReturns(x)
  <2>1. UNCHANGED <<outPackets, inPackets>> /\ \A x \in Sides : idle'[x] >= idle[x]
    BY <1>1, OnlyRecordsCount, Zenon
  <2> QED  BY <2>1, Zenon DEF CountersWithin, ActivityPaid, Credit
<1>2. ASSUME NEW x \in Sides, SendReturns(x) \/ WriteReturns(x) PROVE CountersWithin' /\ ActivityPaid
  <2>1. /\ Credit(x)' = Credit(x) - 1 /\ CountersWithin'
        /\ \A y \in Sides \ {x} : Credit(y)' = Credit(y) /\ idle'[y] = idle[y]
    BY <1>2, RecordCounts, Zenon
  <2>2. \A y \in Sides : idle[y] \in Nat
    BY Zenon DEF DataInv, DataTypeOK
  <2>3. \A y \in Sides : idle[y] >= idle[y]
    BY <2>2
  <2> HIDE DEF Credit
  <2> QED  BY <2>1, <2>3, Zenon DEF ActivityPaid
<1> QED  BY <1>1, <1>2, Zenon

\* No loop counts beyond its limits (SessionLifetime::permit), before it returns or after.
LEMMA CountersAlwaysWithin == DataSpec => []CountersWithin
<1>1. ASSUME DataInit PROVE CountersWithin
  <2>1. ASSUME NEW x \in Sides PROVE outPackets[x] <= MaxOutPackets[x] /\ inPackets[x] <= MaxInPackets[x]
    <3>1. outPackets[x] = 0 /\ inPackets[x] = 0
      BY <1>1, Zenon DEF DataInit
    <3>2. MaxOutPackets[x] \in 1..CounterMax /\ MaxInPackets[x] \in 1..CounterMax
      BY ConstantsAt, Zenon
    <3> QED  BY <3>1, <3>2
  <2> QED  BY <2>1, Zenon DEF CountersWithin
<1>2. DataInv /\ CountersWithin /\ [DataNext]_vars => CountersWithin'
  BY CreditStep
<1> QED  BY <1>1, <1>2, DataCorrect, PTL DEF DataSpec

\* SessionLifetime: a session has as many packets as its limits give it and no more, the
\* count of an end that has returned included.
THEOREM CreditAlwaysBounded ==
    DataSpec => [](\A x \in Sides : Credit(x) \in 0..(MaxOutPackets[x] + MaxInPackets[x]))
<1>1. ASSUME DataInv, CountersWithin, NEW x \in Sides
      PROVE  Credit(x) \in 0..(MaxOutPackets[x] + MaxInPackets[x])
  <2>1. outPackets[x] \in 0..CounterMax /\ inPackets[x] \in 0..CounterMax
    BY <1>1, TypesAt, Zenon DEF DataInv
  <2>2. MaxOutPackets[x] \in 1..CounterMax /\ MaxInPackets[x] \in 1..CounterMax /\ CounterMax \in Nat
    BY ConstantsAt, Zenon
  <2>3. outPackets[x] <= MaxOutPackets[x] /\ inPackets[x] <= MaxInPackets[x]
    BY <1>1, Zenon DEF CountersWithin
  <2> QED  BY <2>1, <2>2, <2>3 DEF Credit
<1>2. DataInv /\ CountersWithin => \A x \in Sides : Credit(x) \in 0..(MaxOutPackets[x] + MaxInPackets[x])
  BY <1>1
<1> QED  BY <1>2, DataCorrect, CountersAlwaysWithin, PTL

\* record_success is the only place that refreshes last_successful_activity, and it uses up
\* one packet of the session's limits: replayed, forged, reflected, oversized and refused
\* packets put off the idle timeout by nothing.
THEOREM ActivityAlwaysPaid == DataSpec => [][ActivityPaid]_vars
<1>1. DataInv /\ CountersWithin /\ [DataNext]_vars => [ActivityPaid]_vars
  BY CreditStep
<1> QED  BY <1>1, DataCorrect, CountersAlwaysWithin, PTL DEF DataSpec
=============================================================================

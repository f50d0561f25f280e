------------------------- MODULE AtMostOnceChannel -------------------------
(***************************************************************************)
(* What an encrypted session promises the TUN device at each of its ends:  *)
(* only packets the peer has sent, each at most once, in any order.        *)
(* Nothing is promised about loss.                                         *)
(***************************************************************************)
EXTENDS Sequences

CONSTANT Ends

VARIABLES
    sent,               \* for each end, the packets its peer has handed in
    delivered           \* for each end, the packets handed out, in order

ChannelInit ==
    /\ sent = [x \in Ends |-> {}]
    /\ delivered = [x \in Ends |-> <<>>]

SendPacket(x) ==
    /\ \E p \in sent'[x] \ sent[x] : sent' = [sent EXCEPT ![x] = @ \cup {p}]
    /\ UNCHANGED delivered

Deliver(x) ==
    /\ \E p \in sent[x] :
          /\ \A k \in DOMAIN delivered[x] : delivered[x][k] # p
          /\ delivered' = [delivered EXCEPT ![x] = Append(@, p)]
    /\ UNCHANGED sent

ChannelNext == \E x \in Ends : SendPacket(x) \/ Deliver(x)

ChannelSpec == ChannelInit /\ [][ChannelNext]_<<sent, delivered>>
=============================================================================

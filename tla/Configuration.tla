---------------------------- MODULE Configuration ----------------------------
(***************************************************************************)
(* The configuration one Crabnet process starts from: how command line     *)
(* arguments override a file (Config::from_args), what Config::validate    *)
(* accepts, and what later code derives from an accepted configuration:    *)
(* route operations, the NAT specification, the context and assessment of  *)
(* the firewall diagnostics.                                               *)
(*                                                                         *)
(* An address is a family and a host.  A network has, besides its prefix   *)
(* length, the set of hosts it contains and the host bits of the address   *)
(* it is written with, which IpNet keeps: 0 for none, as in fd00::/64, a   *)
(* positive number for those of, say, fd00::5/64.  The session limits are  *)
(* the idle timeout in seconds and the smallest of the other four.         *)
(* Ports, the bind address, the log level and gateways play no part.  An   *)
(* optional value is a set of at most one.  The IPv4 forwarding setting    *)
(* stands among the networks as one of no family, so that operations are a *)
(* sequence of one kind of value.                                          *)
(***************************************************************************)
EXTENDS CodecLimits, Sequences

CONSTANTS
    Hosts,
    NftNames,           \* interface names the nftables renderer may be given
    Keys                \* texts that are 64 lowercase hexadecimal digits

UnwrapOr(option, default) == IF option = {} THEN default ELSE CHOOSE x \in option : TRUE
Elements(s) == {s[i] : i \in DOMAIN s}
Distinct(s) == \A i, j \in DOMAIN s : s[i] = s[j] => i = j

Address == [family : {4, 6}, host : Hosts]
Network == [family : {4, 6}, prefix : 0..128, hosts : SUBSET Hosts, bits : Nat]
Limits == [traffic : Nat, idle : Nat]

Modes == {"Client", "Server"}

\* Config, as it is deserialized
Config ==
    [type : Modes, server : SUBSET Address,
     name : STRING, address : Address, prefix : 0..255, mtu : 0..U16Max,
     security : {"Legacy", "NoiseIk"}, keyFile : SUBSET {"Loads", "Fails"},
     serverKey : SUBSET STRING, allowed : Seq(STRING), limits : SUBSET Limits,
     protected : Seq(Network), fullTunnel : BOOLEAN,
     serverRoutes : Seq(Network), forwarding : BOOLEAN, nat : BOOLEAN, egress : SUBSET STRING]

Args ==
    [type : SUBSET Modes, remote : SUBSET Address, name : SUBSET STRING,
     address : SUBSET Address, prefix : SUBSET (0..255), mtu : SUBSET (0..U16Max)]
-----------------------------------------------------------------------------
(* Config::from_args                                                       *)

\* A server file has no server address, so a client made of it starts from the default.
ServerAddress(file, args) ==
    UnwrapOr(args.remote, UnwrapOr(file.server, [family |-> 4, host |-> "localhost"]))

FromArgs(file, args) ==
    [file EXCEPT
        !.type = UnwrapOr(args.type, @),
        !.server = IF UnwrapOr(args.type, file.type) = "Client"
                   THEN {ServerAddress(file, args)} ELSE {},
        !.name = UnwrapOr(args.name, @),
        !.address = UnwrapOr(args.address, @),
        !.prefix = UnwrapOr(args.prefix, @),
        !.mtu = UnwrapOr(args.mtu, @)]
-----------------------------------------------------------------------------
(* Config::validate                                                        *)

Contains(net, ip) == net.family = ip.family /\ ip.host \in net.hosts

TunValid(c) ==
    /\ c.name # ""
    /\ c.prefix <= IF c.address.family = 4 THEN 32 ELSE 128
    /\ c.address.family = 6 => c.mtu >= 1280
    /\ c.mtu # 0

SessionLimitsValid(c) ==
    c.limits # {} /\ \A l \in c.limits : l.traffic > 0 /\ l.idle > 0

\* StaticPrivateKey::load: a file that belongs to the user alone and holds a key
PrivateKeyLoads(c) == c.keyFile = {"Loads"}

IsPublicKey(text) == text \in Keys

SecurityValid(c) ==
    \/ /\ c.security = "Legacy"
       /\ c.keyFile = {} /\ c.serverKey = {} /\ c.allowed = <<>> /\ c.limits = {}
    \/ /\ c.security = "NoiseIk"
       /\ SessionLimitsValid(c)
       /\ PrivateKeyLoads(c)
       /\ \/ /\ c.type = "Client"
             /\ c.serverKey # {} /\ \A k \in c.serverKey : IsPublicKey(k)
             /\ c.allowed = <<>>
          \/ /\ c.type = "Server"
             /\ c.serverKey = {}
             /\ c.allowed # <<>> /\ Distinct(c.allowed)
             /\ \A k \in Elements(c.allowed) : IsPublicKey(k)

ProtectedRoutesValid(c) ==
    /\ \A net \in Elements(c.protected) : net.prefix # 0 /\ net.family = c.address.family
    /\ Distinct(c.protected)

ClientValid(c) ==
    /\ ~c.forwarding /\ ~c.nat /\ c.egress = {} /\ c.serverRoutes = <<>>
    /\ c.fullTunnel => c.protected = <<>>
    /\ \A net \in Elements(c.protected), ip \in c.server : ~Contains(net, ip)

\* validate_nft_interface_name
IsNftName(name) == name \in NftNames

\* Mutant of NatValid: the family of the TUN address is not looked at
NatValidAnyFamily(c) ==
    /\ c.forwarding
    /\ c.prefix # 0
    /\ IsNftName(c.name)
    /\ c.egress # {} /\ \A name \in c.egress : IsNftName(name) /\ name # c.name

NatValid(c) ==
    /\ c.forwarding
    /\ c.address.family = 4
    /\ c.prefix # 0
    /\ IsNftName(c.name)
    /\ c.egress # {} /\ \A name \in c.egress : IsNftName(name) /\ name # c.name

ServerValid(c) ==
    /\ c.protected = <<>> /\ ~c.fullTunnel
    /\ IF c.nat THEN NatValid(c) ELSE c.egress = {}

Valid(c) ==
    /\ TunValid(c)
    /\ SecurityValid(c)
    /\ ProtectedRoutesValid(c)
    /\ IF c.type = "Client" THEN ClientValid(c) ELSE ServerValid(c)
-----------------------------------------------------------------------------
(* What is derived from a configuration                                    *)

Forwarding == [family |-> 0, prefix |-> 0, hosts |-> {}, bits |-> 0]
HostRoute(ip) ==
    [family |-> ip.family, prefix |-> IF ip.family = 4 THEN 32 ELSE 128, hosts |-> {ip.host},
     bits |-> 0]
DefaultRoute(ip) == [family |-> ip.family, prefix |-> 0, hosts |-> Hosts, bits |-> 0]

SplitTunnelOperations(c) == c.protected
FullTunnelOperations(c) ==
    <<HostRoute(CHOOSE ip \in c.server : TRUE), DefaultRoute(c.address)>>
ServerOperations(c) == c.serverRoutes \o IF c.forwarding THEN <<Forwarding>> ELSE <<>>

Operations(c) ==
    IF c.type = "Server" THEN ServerOperations(c)
    ELSE IF c.fullTunnel THEN FullTunnelOperations(c)
    ELSE SplitTunnelOperations(c)

\* build_nat_spec fails for an IPv6 address, a missing interface and a bad prefix
NatSpecFails(c) ==
    c.nat /\ (c.address.family # 4 \/ c.egress = {} \/ c.prefix > 32)

\* SessionLimits::new
SessionLimitsFail(c) == c.limits = {} \/ \E l \in c.limits : l.traffic = 0 \/ l.idle = 0

\* NoiseIkRuntime::bind looks at the limits and the keys again and builds the codec.
RuntimeFails(c) ==
    \/ SessionLimitsFail(c) \/ ~PrivateKeyLoads(c) \/ HandshakeCodecFails(HandshakePayload)
    \/ c.type = "Client" /\ (c.serverKey = {} \/ \E k \in c.serverKey : ~IsPublicKey(k))
    \/ c.type = "Server" /\ \E k \in Elements(c.allowed) : ~IsPublicKey(k)
-----------------------------------------------------------------------------
(* Firewall diagnostics                                                    *)

DiagnosticContext(c) ==
    IF ~c.forwarding THEN "None" ELSE IF c.address.family # 4 THEN "Error" ELSE "Some"

\* parse_forward_base_chains and is_ipv4_forward_base_chain
ForwardChains(chains) ==
    {ch \in chains : ch.family \in {"ip", "inet"} /\ ch.hook = "forward" /\ ch.type = "filter"}

\* classify_policy: a chain without a policy accepts
Policy(ch) ==
    IF ch.policy = {} THEN "ImplicitAccept"
    ELSE IF ch.policy = {"accept"} THEN "Accept"
    ELSE IF ch.policy = {"drop"} THEN "Drop" ELSE "Unknown"

\* Mutant of Assess: a drop policy is reported before unknown ones are noticed
AssessKnownOnly(chains) ==
    LET policies == {Policy(ch) : ch \in ForwardChains(chains)} IN
    IF policies = {} THEN "NoForwardHookObserved"
    ELSE IF "Drop" \in policies THEN "DefaultDropObserved"
    ELSE "NoDefaultDropObserved"

\* assess_forward_chains
Assess(chains) ==
    LET policies == {Policy(ch) : ch \in ForwardChains(chains)} IN
    IF policies = {} THEN "NoForwardHookObserved"
    ELSE IF "Unknown" \in policies THEN "Inconclusive"
    ELSE IF "Drop" \in policies THEN "DefaultDropObserved"
    ELSE "NoDefaultDropObserved"
=============================================================================

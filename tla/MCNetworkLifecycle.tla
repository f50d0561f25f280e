------------------------- MODULE MCNetworkLifecycle -------------------------
EXTENDS NetworkLifecycle

V4(host) == [family |-> 4, host |-> host]
V6(host) == [family |-> 6, host |-> host]
Lan == [family |-> 4, prefix |-> 24, hosts |-> {"lan"}, bits |-> 0]
Wide == [family |-> 4, prefix |-> 8, hosts |-> {"lan", "vpn"}, bits |-> 0]
Lan6 == [family |-> 6, prefix |-> 64, hosts |-> {"lan"}, bits |-> 0]
WithBits(net) == [net EXCEPT !.bits = 5]

Plain(type) ==
    [type |-> type, server |-> IF type = "Client" THEN {V4("vpn")} ELSE {},
     name |-> "crab0", address |-> V4("tun"), prefix |-> 24, mtu |-> 1400, security |-> "Legacy", keyFile |-> {}, serverKey |-> {},
     allowed |-> <<>>, limits |-> {}, protected |-> <<>>, fullTunnel |-> FALSE,
     serverRoutes |-> <<>>, forwarding |-> FALSE, nat |-> FALSE, egress |-> {}]
Noise(c) ==
    [c EXCEPT !.security = "NoiseIk", !.keyFile = {"Loads"}, !.limits = {[traffic |-> 1, idle |-> 1]},
              !.serverKey = IF c.type = "Client" THEN {"k1"} ELSE {},
              !.allowed = IF c.type = "Server" THEN <<"k1", "k2">> ELSE <<>>]
Nat4(c) == [c EXCEPT !.forwarding = TRUE, !.nat = TRUE, !.egress = {"eth0"}]

\* A full tunnel, a split tunnel, one that captures the server unless the command line
\* names another, a repeated route, one with host bits.
ClientFiles ==
    {Noise([Plain("Client") EXCEPT !.fullTunnel = TRUE]),
     [Plain("Client") EXCEPT !.protected = <<Lan>>],
     [Plain("Client") EXCEPT !.protected = <<Wide>>],
     [Plain("Client") EXCEPT !.protected = <<Lan, Lan>>],
     [Plain("Client") EXCEPT !.protected = <<Lan, WithBits(Lan)>>]}

\* With NAT and a route; a repeated route; an MTU near the UDP ceiling; an idle timeout
\* beyond the last instant; IPv6 with and without NAT, there with host bits in a route.
NatServer == Noise(Nat4([Plain("Server") EXCEPT !.serverRoutes = <<Lan>>]))
ServerFiles ==
    {NatServer,
     [Plain("Server") EXCEPT !.serverRoutes = <<Lan, Lan>>],
     Noise([Plain("Server") EXCEPT !.forwarding = TRUE, !.mtu = 65390]),
     Noise([Plain("Server") EXCEPT !.mtu = 65389]),
     [Noise([Plain("Server") EXCEPT !.serverRoutes = <<Lan>>])
         EXCEPT !.limits = {[traffic |-> 1, idle |-> 3]}],
     [NatServer EXCEPT !.limits = {[traffic |-> 1, idle |-> 0]}],
     [NatServer EXCEPT !.address = V6("tun")],
     [NatServer EXCEPT !.allowed = <<"k1", "k1">>],
     [NatServer EXCEPT !.egress = {"crab0"}],
     Noise([Plain("Server") EXCEPT !.address = V6("tun"), !.forwarding = TRUE,
                                   !.serverRoutes = <<WithBits(Lan6), Lan6>>])}

NoArguments ==
    [type |-> {}, remote |-> {}, name |-> {}, address |-> {}, prefix |-> {}, mtu |-> {}]
MCArguments ==
    {NoArguments,
     [NoArguments EXCEPT !.remote = {V4("other")}],
     [NoArguments EXCEPT !.type = {"Server"}],
     [NoArguments EXCEPT !.type = {"Client"}],
     [NoArguments EXCEPT !.mtu = {0}],
     [NoArguments EXCEPT !.prefix = {33}]}
MCFiles == ClientFiles \cup ServerFiles

Chain(family, hook, policy) ==
    [family |-> family, hook |-> hook, type |-> "filter", policy |-> policy]
MCChainListings ==
    SUBSET {Chain("inet", "forward", {"drop"}), Chain("ip", "forward", {"queue"}),
            Chain("ip", "forward", {}), Chain("ip6", "forward", {"drop"}),
            Chain("ip", "input", {"drop"})}

\* The configurations the two documented claims are about.
NatServerOnly == {NatServer}
LargeMtuOnly == {Noise([Plain("Server") EXCEPT !.forwarding = TRUE, !.mtu = 65390])}
NoOverrides == {NoArguments}
NoListings == {}
=============================================================================

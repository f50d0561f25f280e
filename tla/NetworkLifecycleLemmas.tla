----------------------- MODULE NetworkLifecycleLemmas -----------------------
(***************************************************************************)
(* What Config::from_args yields, what the steps of RouteManager do to its *)
(* lists, and what the command a process is at says of the managers.       *)
(***************************************************************************)
EXTENDS NetworkLifecycle, TLAPS

\* Before the first route operation
Early == {"Validate", "Diagnose", "Bind", "Resolve", "NatCheck", "NatLoad", "NatFingerprint",
          "NatUndo"}
Loaded == {"NatFingerprint", "NatUndo"}
Installing == Early \cup {"Inspect", "Add", "Handshake", "Forward"}
NatRestoring == {"NatRevert", "NatDelete"}

\* What the step a process is at says of the managers
Phases ==
    /\ LifecycleTypeOK
    /\ config \in Config /\ (config.type = "Client" => \E ip \in Address : config.server = {ip})
    /\ pc \in Steps \ {"Validate"} => Valid(config)
    /\ pc = "Add" => index <= Len(Operations(config))
    /\ pc \in Early => applied = <<>> /\ index = 1 /\ natApplied = 0
    /\ pc \in Installing \cup NatRestoring \cup {"Exited"} => failed = <<>>
    /\ pc \in NatRestoring => natApplied # 0
    /\ pc \in Loaded => handle # 0

-----------------------------------------------------------------------------
(* Sequences and configurations                                            *)

\* What the operations on stacks do to the elements of a sequence: push at either end, pop.
LEMMA ElementsOf ==
    ASSUME NEW S, NEW s \in Seq(S)
    PROVE  /\ Elements(s) \subseteq S
           /\ \A x \in S : Append(s, x) \in Seq(S) /\ Elements(Append(s, x)) = Elements(s) \cup {x}
           /\ \A x \in S : <<x>> \o s \in Seq(S) /\ Elements(<<x>> \o s) = {x} \cup Elements(s)
           /\ <<>> \o s = s
           /\ s # <<>> => /\ s[Len(s)] \in S /\ SubSeq(s, 1, Len(s) - 1) \in Seq(S)
                          /\ Elements(s) = Elements(SubSeq(s, 1, Len(s) - 1)) \cup {s[Len(s)]}
<1>1. Elements(s) \subseteq S
  BY DEF Elements
<1>2. ASSUME NEW x \in S
      PROVE  Append(s, x) \in Seq(S) /\ Elements(Append(s, x)) = Elements(s) \cup {x}
  <2> DEFINE t == Append(s, x)
  <2>1. t \in Seq(S) /\ Len(t) = Len(s) + 1 /\ t[Len(s) + 1] = x /\ \A i \in 1..Len(s) : t[i] = s[i]
    OBVIOUS
  <2> HIDE DEF t
  <2>2. DOMAIN t = 1..(Len(s) + 1) /\ DOMAIN s = 1..Len(s) /\ Len(s) \in Nat
    BY <2>1
  <2>3. Elements(t) = Elements(s) \cup {x}
    BY <2>1, <2>2 DEF Elements
  <2> QED  BY <2>1, <2>3 DEF t
<1>3. ASSUME NEW x \in S
      PROVE  <<x>> \o s \in Seq(S) /\ Elements(<<x>> \o s) = {x} \cup Elements(s)
  <2> DEFINE t == <<x>> \o s
  <2>1. t \in Seq(S) /\ Len(t) = Len(s) + 1 /\ t[1] = x /\ \A i \in 2..Len(t) : t[i] = s[i - 1]
    OBVIOUS
  <2> HIDE DEF t
  <2>2. DOMAIN t = 1..(Len(s) + 1) /\ DOMAIN s = 1..Len(s) /\ Len(s) \in Nat
    BY <2>1
  <2>3. \A i \in 1..Len(s) : i + 1 \in DOMAIN t /\ t[i + 1] = s[i]
    <3> SUFFICES ASSUME NEW i \in 1..Len(s) PROVE i + 1 \in DOMAIN t /\ t[i + 1] = s[i]
      OBVIOUS
    <3>1. i + 1 \in 2..Len(t) /\ i + 1 \in 1..(Len(s) + 1) /\ (i + 1) - 1 = i
      BY <2>1, <2>2
    <3>2. t[i + 1] = s[(i + 1) - 1]
      BY <2>1, <3>1, Zenon
    <3> QED  BY <2>2, <3>1, <3>2
  <2>4. Elements(t) \subseteq {x} \cup Elements(s)
    <3> SUFFICES ASSUME NEW i \in 1..(Len(s) + 1) PROVE t[i] \in {x} \cup Elements(s)
      BY <2>2 DEF Elements
    <3>1. CASE i = 1
      BY <2>1, <3>1
    <3>2. CASE i # 1
      <4>1. i - 1 \in DOMAIN s /\ t[i] = s[i - 1]
        BY <2>1, <2>2, <3>2
      <4> QED  BY <4>1 DEF Elements
    <3> QED  BY <3>1, <3>2
  <2>5. {x} \cup Elements(s) \subseteq Elements(t)
    <3>1. 1 \in DOMAIN t
      BY <2>2
    <3>2. x \in Elements(t)
      BY <2>1, <3>1 DEF Elements
    <3>3. \A i \in DOMAIN s : s[i] \in Elements(t)
      BY <2>2, <2>3 DEF Elements
    <3> QED  BY <3>2, <3>3 DEF Elements
  <2> QED  BY <2>1, <2>4, <2>5 DEF t
<1>4. ASSUME s # <<>>
      PROVE  /\ s[Len(s)] \in S /\ SubSeq(s, 1, Len(s) - 1) \in Seq(S)
             /\ Elements(s) = Elements(SubSeq(s, 1, Len(s) - 1)) \cup {s[Len(s)]}
  <2> DEFINE t == SubSeq(s, 1, Len(s) - 1)
  <2>1. Len(s) \in Nat /\ Len(s) > 0 /\ DOMAIN s = 1..Len(s)
    BY <1>4
  <2>2. t \in Seq(S) /\ DOMAIN t = 1..(Len(s) - 1) /\ \A i \in 1..(Len(s) - 1) : t[i] = s[i]
    BY <2>1
  <2> HIDE DEF t
  <2>3. Elements(s) = Elements(t) \cup {s[Len(s)]}
    BY <2>1, <2>2, SMTT(30) DEF Elements
  <2> QED  BY <2>1, <2>2, <2>3 DEF t
<1>5. <<>> \o s = s
  OBVIOUS
<1> QED  BY <1>1, <1>2, <1>3, <1>4, <1>5

\* unwrap_or answers with a value of its type.
LEMMA Unwrapped ==
    ASSUME NEW S, NEW option \in SUBSET S, NEW default \in S
    PROVE  UnwrapOr(option, default) \in S
BY DEF UnwrapOr

\* A field of a configuration may be given any other value of its type.
LEMMA ConfigWith ==
    ASSUME NEW f \in Config
    PROVE  /\ \A x \in Modes : [f EXCEPT !.type = x] \in Config
           /\ \A x \in SUBSET Address : [f EXCEPT !.server = x] \in Config
           /\ \A x \in STRING : [f EXCEPT !.name = x] \in Config
           /\ \A x \in Address : [f EXCEPT !.address = x] \in Config
           /\ \A x \in 0..255 : [f EXCEPT !.prefix = x] \in Config
           /\ \A x \in 0..U16Max : [f EXCEPT !.mtu = x] \in Config
<1>1. ASSUME NEW x \in Modes PROVE [f EXCEPT !.type = x] \in Config
  BY ZenonT(30) DEF Config
<1>2. ASSUME NEW x \in SUBSET Address PROVE [f EXCEPT !.server = x] \in Config
  BY ZenonT(30) DEF Config
<1>3. ASSUME NEW x \in STRING PROVE [f EXCEPT !.name = x] \in Config
  BY ZenonT(30) DEF Config
<1>4. ASSUME NEW x \in Address PROVE [f EXCEPT !.address = x] \in Config
  BY ZenonT(30) DEF Config
<1>5. ASSUME NEW x \in 0..255 PROVE [f EXCEPT !.prefix = x] \in Config
  BY ZenonT(30) DEF Config
<1>6. ASSUME NEW x \in 0..U16Max PROVE [f EXCEPT !.mtu = x] \in Config
  BY ZenonT(30) DEF Config
<1> QED  BY <1>1, <1>2, <1>3, <1>4, <1>5, <1>6, ZenonT(30)

\* A replaced field leaves the type of process and its server alone.
LEMMA ConfigKeeps ==
    ASSUME NEW f \in Config, NEW x
    PROVE  /\ [f EXCEPT !.type = x].type = x
           /\ [f EXCEPT !.server = x].type = f.type /\ [f EXCEPT !.server = x].server = x
           /\ [f EXCEPT !.name = x].type = f.type /\ [f EXCEPT !.name = x].server = f.server
           /\ [f EXCEPT !.address = x].type = f.type /\ [f EXCEPT !.address = x].server = f.server
           /\ [f EXCEPT !.prefix = x].type = f.type /\ [f EXCEPT !.prefix = x].server = f.server
           /\ [f EXCEPT !.mtu = x].type = f.type /\ [f EXCEPT !.mtu = x].server = f.server
BY DEF Config

\* The types of the fields a command line may replace
LEMMA ConfigFields ==
    ASSUME NEW f \in Config
    PROVE  /\ f.type \in Modes /\ f.server \in SUBSET Address /\ f.name \in STRING
           /\ f.address \in Address /\ f.prefix \in 0..255 /\ f.mtu \in 0..U16Max
BY SMTT(30) DEF Config

\* Config::from_args gives a configuration, and a client a server.
LEMMA FromArgsType ==
    ASSUME NEW file \in Config, NEW args \in Args, "localhost" \in Hosts
    PROVE  /\ FromArgs(file, args) \in Config
           /\ FromArgs(file, args).type = "Client" =>
                 \E ip \in Address : FromArgs(file, args).server = {ip}
<1> DEFINE type == UnwrapOr(args.type, file.type)
           ip == ServerAddress(file, args)
           server == IF type = "Client" THEN {ip} ELSE {}
           f1 == [file EXCEPT !.type = type]
           f2 == [f1 EXCEPT !.server = server]
           f3 == [f2 EXCEPT !.name = UnwrapOr(args.name, @)]
           f4 == [f3 EXCEPT !.address = UnwrapOr(args.address, @)]
           f5 == [f4 EXCEPT !.prefix = UnwrapOr(args.prefix, @)]
           f6 == [f5 EXCEPT !.mtu = UnwrapOr(args.mtu, @)]
<1>1. /\ type \in Modes /\ args.name \in SUBSET STRING
      /\ args.address \in SUBSET Address
      /\ args.prefix \in SUBSET (0..255) /\ args.mtu \in SUBSET (0..U16Max)
  <2>1. args.type \in SUBSET Modes /\ file.type \in Modes
    BY SMTT(30) DEF Config, Args
  <2> QED  BY <2>1, Unwrapped DEF Args
<1>2. server \in SUBSET Address
  <2>1. [family |-> 4, host |-> "localhost"] \in Address
    BY DEF Address
  <2>2. UnwrapOr(file.server, [family |-> 4, host |-> "localhost"]) \in Address
    BY <2>1, Unwrapped, SMTT(30) DEF Config
  <2>3. ip \in Address
    BY <2>2, Unwrapped DEF ServerAddress, Args
  <2> QED  BY <2>3
<1>3. type = "Client" => \E a \in Address : server = {a}
  BY <1>2
<1> HIDE DEF type, server
<1>4. f1 \in Config /\ f1.type = type
  <2>1. f1 \in Config
    BY <1>1, ConfigWith, ZenonT(30)
  <2> QED  BY <2>1, ConfigKeeps, ZenonT(30)
<1> HIDE DEF f1
<1>5. f2 \in Config /\ f2.type = type /\ f2.server = server
  <2>1. f2 \in Config
    BY <1>2, <1>4, ConfigWith, ZenonT(30)
  <2> QED  BY <1>4, <2>1, ConfigKeeps, ZenonT(30)
<1> HIDE DEF f2
<1>6. f3 \in Config /\ f3.type = type /\ f3.server = server
  <2>1. UnwrapOr(args.name, f2.name) \in STRING
    <3>1. f2.name \in STRING
      BY <1>5, ConfigFields, ZenonT(30)
    <3>2. args.name \in SUBSET STRING
      BY <1>1, ZenonT(30)
    <3> QED  BY <3>1, <3>2, Unwrapped, Zenon
  <2>2. f3 \in Config
    BY <1>5, <2>1, ConfigWith, ZenonT(30)
  <2> QED  BY <1>5, <2>2, ConfigKeeps, ZenonT(30)
<1> HIDE DEF f3
<1>7. f4 \in Config /\ f4.type = type /\ f4.server = server
  <2>1. UnwrapOr(args.address, f3.address) \in Address
    <3>1. f3.address \in Address
      BY <1>6, ConfigFields, ZenonT(30)
    <3>2. args.address \in SUBSET Address
      BY <1>1, ZenonT(30)
    <3> QED  BY <3>1, <3>2, Unwrapped, Zenon
  <2>2. f4 \in Config
    BY <1>6, <2>1, ConfigWith, ZenonT(30)
  <2> QED  BY <1>6, <2>2, ConfigKeeps, ZenonT(30)
<1> HIDE DEF f4
<1>8. f5 \in Config /\ f5.type = type /\ f5.server = server
  <2>1. UnwrapOr(args.prefix, f4.prefix) \in 0..255
    <3>1. f4.prefix \in 0..255
      BY <1>7, ConfigFields, ZenonT(30)
    <3>2. args.prefix \in SUBSET (0..255)
      BY <1>1, ZenonT(30)
    <3> QED  BY <3>1, <3>2, Unwrapped, ZenonT(30)
  <2>2. f5 \in Config
    BY <1>7, <2>1, ConfigWith, ZenonT(30)
  <2> QED  BY <1>7, <2>2, ConfigKeeps, ZenonT(30)
<1> HIDE DEF f5
<1>9. f6 \in Config /\ f6.type = type /\ f6.server = server
  <2>1. UnwrapOr(args.mtu, f5.mtu) \in 0..U16Max
    <3>1. f5.mtu \in 0..U16Max
      BY <1>8, ConfigFields, ZenonT(30)
    <3>2. args.mtu \in SUBSET (0..U16Max)
      BY <1>1, ZenonT(30)
    <3> QED  BY <3>1, <3>2, Unwrapped, Zenon
  <2>2. f6 \in Config
    BY <1>8, <2>1, ConfigWith, ZenonT(30)
  <2> QED  BY <1>8, <2>2, ConfigKeeps, ZenonT(30)
<1>10. FromArgs(file, args) = f6
  BY DEF FromArgs, f1, f2, f3, f4, f5, type, server
<1> HIDE DEF f6
<1> QED  BY <1>3, <1>9, <1>10

\* The operations a configuration plans are a sequence (split_tunnel_operations,
\* server_operations, full_tunnel_operations).
LEMMA OperationsType ==
    ASSUME NEW c \in Config
    PROVE  /\ DOMAIN Operations(c) = 1..Len(Operations(c)) /\ Len(Operations(c)) \in Nat
           /\ \A i \in 1..Len(Operations(c)) : Operations(c)[i] \in Elements(Operations(c))
<1> SUFFICES \E S : Operations(c) \in Seq(S)
  BY DEF Elements
<1>1. c.serverRoutes \in Seq(Network \cup {Forwarding}) /\ c.protected \in Seq(Network)
  BY DEF Config
<1>2. ServerOperations(c) \in Seq(Network \cup {Forwarding})
  <2>1. <<Forwarding>> \in Seq(Network \cup {Forwarding})
    OBVIOUS
  <2>2. CASE c.forwarding
    BY <1>1, <2>1, <2>2 DEF ServerOperations
  <2>3. CASE ~c.forwarding
    BY <1>1, <2>3 DEF ServerOperations
  <2> QED  BY <2>2, <2>3
<1>3. FullTunnelOperations(c) \in
          Seq({HostRoute(CHOOSE ip \in c.server : TRUE), DefaultRoute(c.address)})
  BY DEF FullTunnelOperations
<1>4. CASE c.type = "Server"
  BY <1>2, <1>4 DEF Operations
<1>5. CASE c.type # "Server" /\ c.fullTunnel
  BY <1>3, <1>5 DEF Operations
<1>6. CASE c.type # "Server" /\ ~c.fullTunnel
  BY <1>1, <1>6 DEF Operations, SplitTunnelOperations
<1> QED  BY <1>4, <1>5, <1>6
-----------------------------------------------------------------------------
(* The phases                                                              *)

RouteStep ==
    Inspect \/ AddRoute \/ SetForwarding \/ RevertNext \/ RevertInspect \/ DeleteRoute
    \/ ResetForwarding
TableStep == NatLoad \/ NatFingerprint \/ NatUndo \/ NatRevert \/ NatDelete \/ AdminTable
OtherStep ==
    Validate \/ Diagnose \/ DiagnoseFails \/ BindLegacy \/ BindNoiseIk \/ Resolve \/ ResolveFails
    \/ NatCheck \/ StartLegacy \/ StartNoiseIk \/ Establish \/ RunEnds \/ CtrlC \/ Crash

\* The process starts in a known phase.
LEMMA PhasesInit == LifecycleInit => Phases
<1> SUFFICES ASSUME LifecycleInit PROVE Phases
  OBVIOUS
<1>1. /\ config \in Config
      /\ config.type = "Client" => \E ip \in Address : config.server = {ip}
  BY FromArgsType, NetworkAssumption DEF LifecycleInit
<1>2. Len(Operations(config)) \in Nat
  BY <1>1, OperationsType
<1>3. LifecycleTypeOK
  <2>1. holder \in [Resources -> Parties \cup {"None"}]
    BY DEF LifecycleInit, Parties
  <2>2. rules \in SUBSET Parties
    BY DEF LifecycleInit, Parties
  <2>3. index \in 1..(Len(Operations(config)) + 1) /\ natApplied \in 0..MaxHandle
        /\ handle \in 0..MaxHandle
    BY <1>2, NetworkAssumption DEF LifecycleInit
  <2>4. applied \in Seq(Planned) /\ failed \in Seq(Planned) /\ current = <<>>
    BY DEF LifecycleInit
  <2>5. pc = "Validate" /\ pc \in Steps /\ refusal = {} /\ touched = {} /\ current \in AtMostOne
    BY <2>4 DEF LifecycleInit, Steps, AtMostOne
  <2> QED  BY <2>1, <2>2, <2>3, <2>4, <2>5, Zenon DEF LifecycleInit, LifecycleTypeOK
<1> QED  BY <1>1, <1>3 DEF Phases, LifecycleInit, Early, Installing, NatRestoring, Loaded, Steps, Restoring

\* The steps up to the first operation, and those that only move on
LEMMA PhasesSilent ==
    ASSUME Phases, OtherStep PROVE Phases'
<1> USE DEF OtherStep
<1>1. UNCHANGED <<config, managerVars, natVars, routeVars, touched, fresh>>
  BY Zenon DEF Validate, Diagnose, DiagnoseFails, BindLegacy, BindNoiseIk, Resolve, ResolveFails, NatCheck,
         StartLegacy, StartNoiseIk, Establish, RunEnds, CtrlC, Crash, startVars, hostVars
<1>2. cleanupFailed' \in BOOLEAN /\ signals' \in BOOLEAN /\ refusal' \subseteq Refusals
  BY ZenonT(30) DEF Validate, Diagnose, DiagnoseFails, BindLegacy, BindNoiseIk, Resolve, ResolveFails, NatCheck,
         StartLegacy, StartNoiseIk, Establish, RunEnds, CtrlC, Crash, startVars, Phases,
         LifecycleTypeOK, Refuse, RefuseLate, Loop, Bound, Exit, Refusals
<1>3. \/ pc \in Early \ Loaded /\ pc' \in (Early \ Loaded) \cup {"Inspect", "Exited"}
      \/ pc = "Inspect" /\ pc' \in {"RevertNext", "Forward", "Handshake"}
      \/ pc \in {"Handshake", "Forward"} /\ pc' \in {"RevertNext", "Forward"}
      \/ pc \notin Ended /\ pc' \in {"Interrupted", "Killed"}
  BY ZenonT(30) DEF Validate, Diagnose, DiagnoseFails, BindLegacy, BindNoiseIk, Resolve, ResolveFails, NatCheck,
         StartLegacy, StartNoiseIk, Establish, RunEnds, CtrlC, Crash, Refuse, RefuseLate, Loop, Bound, Exit,
         Early, Loaded
<1>4. pc' \in Steps => pc' # "Validate" /\ Valid(config)
  BY ZenonT(30) DEF Validate, Diagnose, DiagnoseFails, BindLegacy, BindNoiseIk, Resolve, ResolveFails, NatCheck,
         StartLegacy, StartNoiseIk, Establish, RunEnds, CtrlC, Crash, Refuse, RefuseLate, Loop, Bound, Exit,
         Phases, Steps, Restoring
<1>5. LifecycleTypeOK'
  BY <1>1, <1>2, <1>3, ZenonT(30) DEF Phases, LifecycleTypeOK, Steps, Ended, Restoring, Early, Loaded,
         Planned, Resources, AtMostOne, managerVars, natVars, routeVars
<1>6. Phases!2' /\ Phases!3' /\ Phases!4'
  BY <1>1, <1>3, <1>4, Zenon DEF Phases, Early, Loaded
<1>7. Phases!5' /\ Phases!6' /\ Phases!7' /\ Phases!8'
  BY <1>1, <1>3, SMTT(30) DEF Phases, Early, Loaded, Installing, NatRestoring, managerVars, natVars
<1> QED  BY <1>5, <1>6, <1>7, Zenon DEF Phases

\* The steps that change the table
LEMMA PhasesTable ==
    ASSUME Phases, TableStep PROVE Phases'
<1> USE DEF TableStep
<1>1. UNCHANGED <<config, managerVars, routeVars, signals, refusal>>
  BY Zenon DEF NatLoad, NatFingerprint, NatUndo, NatRevert, NatDelete, AdminTable, startVars
<1>2. rules' \in SUBSET Parties
  BY Zenon DEF NatLoad, NatFingerprint, NatUndo, NatRevert, NatDelete, AdminTable, Phases,
         LifecycleTypeOK, Parties, natVars
<1>3. handle' \in 0..MaxHandle /\ natApplied' \in 0..MaxHandle
  <2>1. handle \in 0..MaxHandle /\ natApplied \in 0..MaxHandle /\ MaxHandle \in Nat
    BY NetworkAssumption DEF Phases, LifecycleTypeOK
  <2>2. natApplied' \in {natApplied, handle, 0}
    BY Zenon DEF NatLoad, NatFingerprint, NatUndo, NatRevert, NatDelete, AdminTable, Fingerprint
  <2>3. CASE NatLoad \/ AdminTable
    <3>1. handle' \in {handle, handle + 1} /\ (handle' # handle => handle < MaxHandle)
      BY <2>3, Zenon DEF NatLoad, AdminTable
    <3> QED  BY <2>1, <2>2, <3>1
  <2>4. CASE NatFingerprint \/ NatUndo \/ NatRevert \/ NatDelete
    <3>1. handle' = handle
      BY <2>4, Zenon DEF NatFingerprint, NatUndo, NatRevert, NatDelete
    <3> QED  BY <2>1, <2>2, <3>1
  <2> QED  BY <2>3, <2>4
<1>4. cleanupFailed' \in BOOLEAN /\ fresh' \in BOOLEAN /\ touched' \in SUBSET (Resources \cup {Table})
  BY Zenon DEF NatLoad, NatFingerprint, NatUndo, NatRevert, NatDelete, AdminTable, Phases,
         LifecycleTypeOK, Exit
<1>5. \/ pc = "NatLoad" /\ pc' \in {"NatFingerprint", "Exited"}
      \/ pc = "NatFingerprint" /\ pc' \in {"NatUndo", "Inspect"}
      \/ pc = "NatUndo" /\ pc' = "Exited"
      \/ pc = "NatRevert" /\ pc' \in {"NatDelete", "Exited"}
      \/ pc = "NatDelete" /\ pc' = "Exited"
      \/ pc' = pc
  BY Zenon DEF NatLoad, NatFingerprint, NatUndo, NatRevert, NatDelete, AdminTable, Exit
<1>6. LifecycleTypeOK'
  BY <1>1, <1>2, <1>3, <1>4, <1>5, ZenonT(30) DEF Phases, LifecycleTypeOK, Steps, Ended, Restoring,
         Planned, Resources, AtMostOne, managerVars, routeVars
<1>7. Phases!2' /\ Phases!3' /\ Phases!4'
  BY <1>1, <1>5, SMTT(30) DEF Phases, Steps, Restoring, managerVars
<1>8. pc' \in Early => natApplied' = 0
  BY ZenonT(30) DEF NatLoad, NatFingerprint, NatUndo, NatRevert, NatDelete, AdminTable, Exit, Early, Phases
<1>9. /\ pc' \in NatRestoring => natApplied' # 0
      /\ pc' \in Loaded => handle' # 0
  <2>1. handle + 1 # 0
    BY DEF Phases, LifecycleTypeOK
  <2>2. pc' \in NatRestoring => natApplied' # 0
    BY Zenon DEF NatLoad, NatFingerprint, NatUndo, NatRevert, NatDelete, AdminTable, Exit,
           NatRestoring, Phases
  <2>3. pc' \in Loaded => handle' # 0
    BY <2>1, Zenon DEF NatLoad, NatFingerprint, NatUndo, NatRevert, NatDelete, AdminTable, Exit,
           Loaded, Phases
  <2> QED  BY <2>2, <2>3, Zenon
<1>10. /\ pc' \in Early => applied' = <<>> /\ index' = 1
       /\ pc' \in Installing \cup NatRestoring \cup {"Exited"} => failed' = <<>>
  BY <1>1, <1>5 DEF Phases, managerVars, Early, Installing, NatRestoring
<1> QED  BY <1>6, <1>7, <1>8, <1>9, <1>10, Zenon DEF Phases

\* What the steps of RouteManager do to its lists, the host apart
Moves(step) ==
    /\ UNCHANGED <<startVars, natVars, signals>>
    /\ \/ step = "Identical" /\ pc = "Inspect" /\ index <= Len(Operations(config))
          /\ InstallNext(FALSE) /\ UNCHANGED cleanupFailed
       \/ step = "Missing" /\ pc = "Inspect" /\ index <= Len(Operations(config))
          /\ pc' = "Add" /\ UNCHANGED <<managerVars, cleanupFailed>>
       \/ step = "Added" /\ pc = "Add" /\ InstallNext(TRUE) /\ UNCHANGED cleanupFailed
       \/ step = "Failed" /\ pc \in {"Inspect", "Add"} /\ InstallFails /\ UNCHANGED cleanupFailed
       \/ step = "Popped" /\ RevertNext
       \/ step = "Found" /\ pc = "RevertInspect" /\ pc' = "Delete"
          /\ UNCHANGED <<managerVars, cleanupFailed>>
       \/ step = "Reverted" /\ pc \in {"RevertInspect", "Delete"} /\ Reverted /\ UNCHANGED index
       \/ step = "Retained" /\ pc \in {"RevertInspect", "Delete"} /\ RevertFails /\ UNCHANGED index

\* `current` is the operation being reverted.
LEMMA CurrentOne ==
    ASSUME Phases, pc \in {"RevertInspect", "Delete"}
    PROVE  current[1] \in Planned /\ current = <<current[1]>>
BY DEF Phases, LifecycleTypeOK, AtMostOne

\* The operation that is installed next is a route or the forwarding switch.
LEMMA OperationType ==
    ASSUME Phases, index <= Len(Operations(config)) PROVE Operation \in Planned
BY OperationsType, SMTT(30) DEF Phases, LifecycleTypeOK, Planned, Operation

\* A planned operation has an entry among the resources.
LEMMA EntryType == \A op \in Planned : Entry(op) \in Resources
BY Zenon DEF Resources

\* What the manager tracks are routes and the forwarding switch.
LEMMA TrackedType == ASSUME Phases PROVE Tracked \subseteq Planned
<1>1. /\ applied \in Seq(Planned) /\ failed \in Seq(Planned) /\ current \in Seq(Planned)
  <2>1. current = <<>> \/ \E r \in Planned : current = <<r>>
    BY DEF Phases, LifecycleTypeOK, AtMostOne
  <2>2. <<>> \in Seq(Planned) /\ \A r \in Planned : <<r>> \in Seq(Planned)
    OBVIOUS
  <2>3. current \in Seq(Planned)
    BY <2>1, <2>2, Zenon
  <2> QED  BY <2>3 DEF Phases, LifecycleTypeOK
<1> QED  BY <1>1, ElementsOf DEF Tracked

\* The lists keep their types, and nothing leaves them but what was reverted.
LEMMA MovesEffect ==
    ASSUME Phases, NEW step, Moves(step)
    PROVE  /\ index' \in 1..(Len(Operations(config)) + 1)
           /\ applied' \in Seq(Planned) /\ failed' \in Seq(Planned) /\ current' \in AtMostOne
           /\ current' # <<>> <=> pc' \in {"RevertInspect", "Delete"}
           /\ Tracked' = CASE step = "Added" -> Tracked \cup {Operation}
                           [] step = "Reverted" -> Elements(applied) \cup Elements(failed)
                           [] OTHER -> Tracked
           /\ step = "Reverted" => Tracked = Tracked' \cup {current[1]}
<1>1. /\ applied \in Seq(Planned) /\ failed \in Seq(Planned) /\ current \in AtMostOne
      /\ Len(Operations(config)) \in Nat /\ index \in 1..(Len(Operations(config)) + 1)
  BY OperationsType, SMTT(30) DEF Phases, LifecycleTypeOK
<1>2. Elements(<<>>) = {} /\ \A x : Elements(<<x>>) = {x}
  BY DEF Elements
<1>3. pc \notin {"Interrupted", "Killed"} => (current # <<>> <=> pc \in {"RevertInspect", "Delete"})
  BY DEF Phases, LifecycleTypeOK
<1>4. CASE step \in {"Missing", "Failed", "Found"}
  BY <1>1, <1>3, <1>4, Zenon DEF Moves, InstallFails, Tracked, managerVars
<1>5. CASE step = "Identical"
  BY <1>1, <1>3, <1>5, SMTT(30) DEF Moves, InstallNext, Tracked
<1>6. CASE step = "Added"
  <2>1. index <= Len(Operations(config)) /\ Operation \in Planned
    BY <1>6, OperationType, Zenon DEF Moves, Phases
  <2>2. /\ applied' = Append(applied, Operation) /\ index' = index + 1 /\ pc' = "Inspect"
        /\ UNCHANGED <<current, failed>> /\ pc = "Add"
    BY <1>6 DEF Moves, InstallNext
  <2>3. applied' \in Seq(Planned) /\ Elements(applied') = Elements(applied) \cup {Operation}
    BY <1>1, <2>1, <2>2, ElementsOf, SMTT(30)
  <2>4. Tracked' = Tracked \cup {Operation}
    BY <2>2, <2>3 DEF Tracked
  <2> QED  BY <1>1, <1>3, <1>6, <2>1, <2>2, <2>3, <2>4, SMTT(30)
<1>7. CASE step = "Popped"
  <2>1. pc = "RevertNext" /\ current = <<>> /\ UNCHANGED index
    BY <1>3, <1>7, SMTT(30) DEF Moves, RevertNext
  <2>2. CASE applied # <<>>
    <3>1. /\ current' = <<applied[Len(applied)]>> /\ pc' = "RevertInspect"
          /\ applied' = SubSeq(applied, 1, Len(applied) - 1) /\ UNCHANGED failed
      BY <1>7, <2>2, Zenon DEF Moves, RevertNext
    <3>2. /\ applied[Len(applied)] \in Planned /\ applied' \in Seq(Planned)
          /\ Elements(applied) = Elements(applied') \cup {applied[Len(applied)]}
      BY <1>1, <2>2, <3>1, ElementsOf, Zenon
    <3>3. Tracked' = Tracked
      BY <1>2, <2>1, <3>1, <3>2, SMTT(30) DEF Tracked
    <3> QED  BY <1>1, <1>7, <2>1, <3>1, <3>2, <3>3, Zenon DEF AtMostOne
  <2>3. CASE applied = <<>>
    <3>1. /\ applied' = failed /\ failed' = <<>> /\ current' = current
          /\ pc' \in {"NatRevert", "Exited"}
      BY <1>7, <2>3, SMTT(30) DEF Moves, RevertNext, Exit
    <3>2. Tracked' = Tracked
      BY <1>2, <2>1, <2>3, <3>1 DEF Tracked
    <3> QED  BY <1>1, <1>7, <2>1, <3>1, <3>2, SMTT(30) DEF AtMostOne
  <2> QED  BY <2>2, <2>3
<1>8. CASE step = "Reverted"
  <2>1. /\ current' = <<>> /\ pc' = "RevertNext" /\ UNCHANGED <<applied, failed, index>>
        /\ pc \in {"RevertInspect", "Delete"}
    BY <1>8 DEF Moves, Reverted
  <2>2. current = <<current[1]>>
    BY <2>1, CurrentOne
  <2>3. Tracked' = Elements(applied) \cup Elements(failed) /\ Tracked = Tracked' \cup {current[1]}
    BY <1>2, <2>1, <2>2 DEF Tracked
  <2> QED  BY <1>1, <1>8, <2>1, <2>3 DEF AtMostOne
<1>9. CASE step = "Retained"
  <2>1. /\ failed' = current \o failed /\ current' = <<>> /\ pc' = "RevertNext"
        /\ UNCHANGED <<applied, index>> /\ pc \in {"RevertInspect", "Delete"}
    BY <1>9 DEF Moves, RevertFails
  <2>2. current = <<current[1]>> /\ current[1] \in Planned
    BY <2>1, CurrentOne
  <2>3. failed' \in Seq(Planned) /\ Elements(failed') = {current[1]} \cup Elements(failed)
    <3>1. failed' = <<current[1]>> \o failed
      BY <2>1, <2>2, Zenon
    <3> QED  BY <1>1, <2>2, <3>1, ElementsOf, SMTT(30)
  <2>4. Tracked' = Tracked
    BY <1>2, <2>1, <2>2, <2>3, SMTT(30) DEF Tracked
  <2> QED  BY <1>1, <1>9, <2>1, <2>3, <2>4, SMTT(30) DEF AtMostOne
<1> QED  BY <1>4, <1>5, <1>6, <1>7, <1>8, <1>9, Zenon DEF Moves

\* What such a step does to the host
RouteEffect(step) ==
    /\ Moves(step)
    /\ CASE step = "Identical" -> Existing(Operation) = "Identical" /\ UNCHANGED holder
         [] step = "Missing" -> Existing(Operation) = "Missing" /\ UNCHANGED holder
         [] step = "Added" -> /\ holder[Entry(Operation)] = "None" \/ Operation \in Settings
                              /\ holder' = [holder EXCEPT ![Entry(Operation)] = "Crabnet"]
         [] step = "Found" -> Existing(current[1]) = "Identical" /\ UNCHANGED holder
         [] step = "Reverted" -> \/ Existing(current[1]) = "Missing" /\ UNCHANGED holder
                                 \/ /\ pc = "Delete"
                                    /\ holder' = [holder EXCEPT ![Entry(current[1])] = "None"]
         [] OTHER -> UNCHANGED holder
    /\ UNCHANGED <<conflicting, touched>> /\ fresh' \in {fresh, TRUE}

\* Every step of the routing manager is one of eight kinds.
LEMMA RouteStepsMove ==
    ASSUME Phases, RouteStep
    PROVE  \E step \in {"Identical", "Missing", "Added", "Failed", "Popped", "Found", "Reverted",
                        "Retained"} : RouteEffect(step)
<1> USE DEF startVars, natVars, routeVars, managerVars, RouteStep, RouteEffect
<1>1. CASE Inspect
  BY <1>1, Zenon DEF Inspect, Moves
<1>2. CASE AddRoute \/ SetForwarding
  BY <1>2, Zenon DEF AddRoute, SetForwarding, Perform, Moves
<1>3. CASE RevertNext
  BY <1>3, Zenon DEF RevertNext, Moves
<1>4. CASE RevertInspect
  BY <1>4, SMTT(30) DEF RevertInspect, Moves
<1>5. CASE DeleteRoute \/ ResetForwarding
  BY <1>5, Zenon DEF DeleteRoute, ResetForwarding, Undo, Moves
<1> QED  BY <1>1, <1>2, <1>3, <1>4, <1>5, Zenon

\* A step of the routing manager leads from a known phase to a known phase.
LEMMA PhasesRoutes ==
    ASSUME Phases, RouteStep
    PROVE  Phases'
<1>1. PICK step : RouteEffect(step) /\ Moves(step)
  BY RouteStepsMove, Zenon DEF RouteEffect
<1>2. /\ UNCHANGED <<conflicting, touched>> /\ fresh' \in BOOLEAN
      /\ holder' \in [Resources -> Parties \cup {"None"}]
  BY <1>1, ZenonT(30) DEF RouteEffect, Phases, LifecycleTypeOK, Parties
<1>3. /\ UNCHANGED <<startVars, natVars, signals>>
      /\ pc' \in {"Inspect", "Add", "RevertNext", "RevertInspect", "Delete", "NatRevert", "Exited"}
      /\ pc \in {"Inspect", "Add", "RevertNext", "RevertInspect", "Delete"}
      /\ cleanupFailed' \in BOOLEAN
      /\ pc' \in {"Inspect", "Add"} => pc \in {"Inspect", "Add"} /\ UNCHANGED failed
      /\ pc' = "Add" => index <= Len(Operations(config)) /\ UNCHANGED index
      /\ pc' \in {"NatRevert", "Exited"} => failed' = <<>>
      /\ pc' = "NatRevert" => natApplied # 0
  BY <1>1, Zenon DEF Moves, InstallNext, InstallFails, RevertNext, Reverted, RevertFails, Exit, Phases,
              LifecycleTypeOK, managerVars
<1>4. /\ index' \in 1..(Len(Operations(config)) + 1)
      /\ applied' \in Seq(Planned) /\ failed' \in Seq(Planned) /\ current' \in AtMostOne
      /\ current' # <<>> <=> pc' \in {"RevertInspect", "Delete"}
  BY <1>1, MovesEffect
<1>5. /\ Resources' = Resources /\ Planned' = Planned /\ AtMostOne' = AtMostOne
      /\ Operations(config)' = Operations(config)
  BY <1>3 DEF Planned, Resources, AtMostOne, startVars
<1>6. LifecycleTypeOK'
  BY <1>2, <1>3, <1>4, <1>5, ZenonT(30) DEF Phases, LifecycleTypeOK, Steps, Restoring, Ended, startVars, natVars
<1> QED  BY <1>3, <1>5, <1>6, ZenonT(30) DEF Phases, startVars, natVars, Early, Loaded, Installing, NatRestoring,
                           Steps, Restoring

\* Another administrator's change of a route disturbs no phase.
LEMMA PhasesAdmin ==
    ASSUME Phases, NEW r \in Resources, AdminRoute(r) PROVE Phases'
<1>1. UNCHANGED <<startVars, pc, managerVars, natVars, cleanupFailed, signals>>
  BY DEF AdminRoute
<1>2. /\ holder' \in [Resources -> Parties \cup {"None"}] /\ fresh' \in BOOLEAN
      /\ conflicting' \in SUBSET (Resources \ Settings)
      /\ touched' \in SUBSET (Resources \cup {Table})
  <2>1. holder' \in [Resources -> Parties \cup {"None"}]
    <3>1. PICK h \in {holder[r], "Admin", "None"} : holder' = [holder EXCEPT ![r] = h]
      BY Zenon DEF AdminRoute
    <3>2. holder \in [Resources -> Parties \cup {"None"}] /\ "Admin" \in Parties
      BY DEF Phases, LifecycleTypeOK, Parties
    <3> QED  BY <3>1, <3>2
  <2>2. conflicting' \in SUBSET (Resources \ Settings)
    BY Zenon DEF AdminRoute, Phases, LifecycleTypeOK
  <2> QED  BY <2>1, <2>2, ZenonT(30) DEF AdminRoute, Phases, LifecycleTypeOK
<1>3. LifecycleTypeOK'
  BY <1>1, <1>2, ZenonT(30) DEF Phases, LifecycleTypeOK, Planned, Resources, AtMostOne, startVars, managerVars, natVars
<1> QED  BY <1>1, <1>3, SMTT(30) DEF Phases, startVars, managerVars, natVars
=============================================================================

-------------------------- MODULE NetworkLifecycle --------------------------
(***************************************************************************)
(* One Crabnet process from its command line to its exit (main.rs and      *)
(* application.rs), and what it does to the host's network configuration   *)
(* through RouteManager, NatManager and the Linux backends they drive with *)
(* ip, sysctl and nft.                                                     *)
(*                                                                         *)
(* Every command is awaited and may fail, so a step is one command; the    *)
(* administrator changes the same routes, setting and table between any    *)
(* two of them, Ctrl+C arrives at any time and the process may be killed.  *)
(*                                                                         *)
(* A resource is the kernel's entry for the destination of a route         *)
(* operation, or the IPv4 forwarding setting: `holder` says who made the   *)
(* entry that matches what the operation asks for, `conflicting` holds the *)
(* destinations that have another route.  The kernel keeps no host bits:   *)
(* it refuses an IPv4 destination that has some and masks an IPv6 one.     *)
(* net.ipv4.ip_forward = 0 is a setting nobody holds.                      *)
(* The nftables table is the set of parties that have rules in it, with a  *)
(* handle the kernel never gives twice, which its fingerprint contains.    *)
(***************************************************************************)
EXTENDS Configuration

CONSTANTS
    Files, Arguments,   \* configuration files and command lines to start from
    ChainListings,      \* what `nft -j list chains` may print
    MaxHandle,          \* bound: the changes ever made to the table
    MaxIdle             \* seconds from a session's start to the last Instant there is

ASSUME NetworkAssumption ==
    /\ MaxHandle \in Nat /\ MaxIdle \in Nat
    /\ Files \subseteq Config /\ Arguments \subseteq Args /\ "localhost" \in Hosts

VARIABLES
    config,             \* the configuration the process starts from
    pc,                 \* the command the process runs next
    refusal,            \* the check of the configuration that refused it, if one did
    report,             \* the firewall diagnostics' listing and assessment
    index,              \* the operation being installed
    applied,            \* RouteManager.applied
    current,            \* the operation being reverted, as a sequence of at most one
    failed,             \* `failed` of restore, in the order it has after `reverse`
    natApplied,         \* NatManager.applied: the fingerprint, 0 for None
    cleanupFailed,      \* the returned error mentions a failed rollback or cleanup
    signals,            \* tokio's SIGINT handler is registered
    holder, conflicting, rules, handle,
                        \* the host: see above
    touched,            \* the administrator changed these since the start
    fresh               \* nothing has changed since the last inspection

startVars == <<config, refusal, report>>
managerVars == <<index, applied, current, failed>>
natVars == <<natApplied, rules, handle>>
routeVars == <<holder, conflicting>>
vars == <<startVars, pc, managerVars, natVars, routeVars, cleanupFailed, signals, touched, fresh>>

Parties == {"Crabnet", "Admin"}
Table == [family |-> 0, prefix |-> 1, hosts |-> {}, bits |-> 0]
Ended == {"Exited", "Interrupted", "Killed"}
Restoring == {"RevertNext", "RevertInspect", "Delete", "NatRevert", "NatDelete"}
Steps == {"Validate", "Diagnose", "Bind", "Resolve", "NatCheck", "NatLoad", "NatFingerprint", "NatUndo", "Inspect", "Add",
          "Handshake", "Forward"} \cup Restoring

Settings == {Forwarding}
Planned == Elements(Operations(config))
AtMostOne == {<<>>} \cup {<<op>> : op \in Planned}
Refusals == {"Configuration", "Nat", "Runtime", "Codec", "DataCodec", "IdleDeadline"}

\* The kernel's entry for a destination
Entry(op) == [op EXCEPT !.bits = 0]
Resources == {Entry(op) : op \in Planned}

NoReport == [chains |-> {}, assessment |-> "None"]

\* The state of one process and of the host it configures (application.rs, managers);
\* an operation is out of `applied` and `failed` only while it is being reverted.
LifecycleTypeOK ==
    /\ pc \in Steps \cup Ended /\ refusal \subseteq Refusals
    /\ index \in 1..(Len(Operations(config)) + 1)
    /\ applied \in Seq(Planned) /\ failed \in Seq(Planned) /\ current \in AtMostOne
    /\ pc \notin {"Interrupted", "Killed"} =>
           (current # <<>> <=> pc \in {"RevertInspect", "Delete"})
    /\ natApplied \in 0..MaxHandle
    /\ cleanupFailed \in BOOLEAN /\ signals \in BOOLEAN
    /\ holder \in [Resources -> Parties \cup {"None"}]
    /\ conflicting \in SUBSET (Resources \ Settings)
    /\ rules \in SUBSET Parties /\ handle \in 0..MaxHandle
    /\ touched \in SUBSET (Resources \cup {Table}) /\ fresh \in BOOLEAN

\* The host is as the administrator, or an earlier process that was killed, left it.
LifecycleInit ==
    /\ \E file \in Files, args \in Arguments : config = FromArgs(file, args)
    /\ pc = "Validate" /\ refusal = {} /\ report = NoReport
    /\ index = 1
    /\ applied = <<>> /\ failed = <<>> /\ current = <<>>
    /\ natApplied = 0 /\ cleanupFailed = FALSE /\ signals = FALSE
    /\ holder \in [Resources -> {"Admin", "None"}]
    /\ conflicting \in SUBSET (Resources \ Settings)
    /\ rules \in IF config.nat THEN {{}, {"Admin"}} ELSE {{}}
    /\ handle = 0
    /\ touched = {} /\ fresh = FALSE
-----------------------------------------------------------------------------
(* main, and Application::bind before it touches the network configuration *)

hostVars == <<natVars, routeVars, touched, fresh>>

\* A check of the configuration, with nothing to undo
Refuse(check) ==
    /\ pc' = "Exited" /\ refusal' = {check}

Validate ==
    /\ pc = "Validate"
    /\ \/ Valid(config) /\ UNCHANGED refusal
          /\ pc' = IF config.type = "Server" THEN "Diagnose" ELSE "Bind"
       \/ ~Valid(config) /\ Refuse("Configuration")
    /\ UNCHANGED <<config, report, managerVars, hostVars, cleanupFailed, signals>>

\* FirewallDiagnostics::diagnose
Report(chains) == [chains |-> chains, assessment |-> Assess(chains)]

\* run_server_firewall_diagnostics
Diagnose ==
    /\ pc = "Diagnose" /\ pc' = "Bind"
    /\ DiagnosticContext(config) = "Some"
    /\ \E chains \in ChainListings : report' = Report(chains)
    /\ UNCHANGED <<config, refusal, managerVars, hostVars, cleanupFailed, signals>>

\* There is nothing to report, or nft is missing, fails or is late; this is only logged.
DiagnoseFails ==
    /\ pc = "Diagnose" /\ pc' = "Bind"
    /\ UNCHANGED <<startVars, managerVars, hostVars, cleanupFailed, signals>>

\* The socket is bound and the TUN created, or an error returned.
Bound ==
    /\ pc' \in {"Exited", IF config.nat THEN "NatCheck"
                          ELSE IF config.fullTunnel THEN "Resolve" ELSE "Inspect"}
    /\ UNCHANGED refusal

BindLegacy ==
    /\ pc = "Bind" /\ config.security = "Legacy" /\ report' = NoReport
    /\ IF config.type = "Server" /\ NatSpecFails(config) THEN Refuse("Nat") ELSE Bound
    /\ UNCHANGED <<config, managerVars, hostVars, cleanupFailed, signals>>

BindNoiseIk ==
    /\ pc = "Bind" /\ config.security = "NoiseIk" /\ report' = NoReport
    /\ IF config.type = "Server" /\ NatSpecFails(config) THEN Refuse("Nat")
       ELSE IF RuntimeFails(config) THEN Refuse("Runtime") ELSE Bound
    /\ UNCHANGED <<config, managerVars, hostVars, cleanupFailed, signals>>

\* resolve_underlay_route for the server's address
Resolve ==
    /\ pc = "Resolve" /\ pc' = "Inspect"
    /\ UNCHANGED <<startVars, managerVars, hostVars, cleanupFailed, signals>>

\* The command fails, or its answer is not one route to that address with an interface.
ResolveFails ==
    /\ pc = "Resolve" /\ pc' = "Exited"
    /\ UNCHANGED <<startVars, managerVars, hostVars, cleanupFailed, signals>>
-----------------------------------------------------------------------------
(* NatManager::install: LinuxNatBackend::apply.  A failure ends bind.      *)

Exit(failure) ==
    /\ pc' = "Exited"
    /\ cleanupFailed' = (cleanupFailed \/ failure)

\* inspect_interface for both interfaces, then table_exists.
NatCheck ==
    /\ pc = "NatCheck"
    /\ \/ rules = {} /\ pc' = "NatLoad" /\ UNCHANGED cleanupFailed
       \/ Exit(FALSE)
    /\ UNCHANGED <<startVars, managerVars, natVars, routeVars, signals, touched, fresh>>

\* nft -f: one transaction; `add table` joins a table that has appeared meanwhile.
NatLoad ==
    /\ pc = "NatLoad"
    /\ \/ /\ handle < MaxHandle
          /\ rules' = rules \cup {"Crabnet"} /\ handle' = handle + 1
          /\ pc' = "NatFingerprint" /\ UNCHANGED cleanupFailed
       \/ Exit(FALSE) /\ UNCHANGED <<rules, handle>>
    /\ UNCHANGED <<startVars, managerVars, natApplied, routeVars, signals, touched, fresh>>

\* The listing without the values of counters
Fingerprint == handle

\* inspect_table; listing a table that is gone fails.
NatFingerprint ==
    /\ pc = "NatFingerprint"
    /\ \/ rules # {} /\ natApplied' = Fingerprint /\ pc' = "Inspect"
       \/ pc' = "NatUndo" /\ UNCHANGED natApplied
    /\ UNCHANGED <<startVars, managerVars, rules, handle, routeVars, cleanupFailed, signals, touched, fresh>>

\* The emergency delete_table: bind fails either way and nothing is recorded.
NatUndo ==
    /\ pc = "NatUndo"
    /\ \/ rules # {} /\ rules' = {} /\ Exit(FALSE)
       \/ UNCHANGED rules /\ Exit(TRUE)
    /\ UNCHANGED <<startVars, managerVars, natApplied, handle, routeVars, signals, touched, fresh>>
-----------------------------------------------------------------------------
(* RouteManager::install and the apply functions of LinuxRouteBackend.     *)

Operation == Operations(config)[index]

\* destination_matches compares what `ip` prints, the kernel's entry, with the destination
\* as it was configured, but for the default route.
Recognized(op) == op.bits = 0 \/ op.prefix = 0

\* classify_existing_route: a conflicting route takes precedence; one whose destination
\* does not match is not counted.
ExistingRoute(op) ==
    CASE ~Recognized(op) -> "Missing"
      [] Recognized(op) /\ Entry(op) \in conflicting -> "Conflicting"
      [] Recognized(op) /\ Entry(op) \notin conflicting /\ holder[Entry(op)] # "None" -> "Identical"
      [] OTHER -> "Missing"

\* read_ipv4_forwarding
ExistingSetting(op) == IF holder[Entry(op)] = "None" THEN "Missing" ELSE "Identical"

Existing(op) == IF op \in Settings THEN ExistingSetting(op) ELSE ExistingRoute(op)

\* Applied pushes the operation, Unchanged does not; both go on to the next one.
InstallNext(record) ==
    /\ applied' = IF record THEN Append(applied, Operation) ELSE applied
    /\ index' = index + 1
    /\ pc' = "Inspect"
    /\ UNCHANGED <<current, failed>>

\* An error rolls the earlier operations back before bind returns it.
InstallFails == pc' = "RevertNext" /\ UNCHANGED managerVars

\* Mutants of Inspect: an identical route is adopted; a conflicting one is skipped.
InspectAdopts ==
    /\ pc = "Inspect" /\ index <= Len(Operations(config))
    /\ \/ Existing(Operation) = "Identical" /\ InstallNext(TRUE)
       \/ Existing(Operation) = "Missing" /\ pc' = "Add" /\ UNCHANGED managerVars
       \/ InstallFails
    /\ UNCHANGED <<startVars, natVars, routeVars, cleanupFailed, signals, touched, fresh>>
InspectSkips ==
    /\ pc = "Inspect" /\ index <= Len(Operations(config))
    /\ \/ Existing(Operation) # "Missing" /\ InstallNext(FALSE)
       \/ Existing(Operation) = "Missing" /\ pc' = "Add" /\ UNCHANGED managerVars
       \/ InstallFails
    /\ UNCHANGED <<startVars, natVars, routeVars, cleanupFailed, signals, touched, fresh>>

\* inspect_route, or read_ipv4_forwarding.
Inspect ==
    /\ pc = "Inspect" /\ index <= Len(Operations(config))
    /\ \/ Existing(Operation) = "Identical" /\ InstallNext(FALSE)
       \/ Existing(Operation) = "Missing" /\ pc' = "Add" /\ UNCHANGED managerVars
       \/ InstallFails
    /\ UNCHANGED <<startVars, natVars, routeVars, cleanupFailed, signals, touched, fresh>>

\* The command of an operation succeeds, or fails and changes nothing.
Perform(op) ==
    \/ holder' = [holder EXCEPT ![Entry(op)] = "Crabnet"] /\ InstallNext(TRUE)
    \/ InstallFails /\ UNCHANGED holder

\* `ip route add` refuses to add a route that exists, or one to an IPv4 destination with
\* host bits.
AddRoute ==
    /\ pc = "Add" /\ Operation \notin Settings
    /\ IF holder[Entry(Operation)] = "None" /\ ~(Operation.family = 4 /\ Operation.bits # 0)
       THEN Perform(Operation)
       ELSE InstallFails /\ UNCHANGED holder
    /\ UNCHANGED <<startVars, natVars, conflicting, cleanupFailed, signals, touched, fresh>>

\* write_ipv4_forwarding
SetForwarding ==
    /\ pc = "Add" /\ Operation \in Settings
    /\ Perform(Operation)
    /\ UNCHANGED <<startVars, natVars, conflicting, cleanupFailed, signals, touched, fresh>>

\* The last operation is installed: bind returns and run starts the handshake.
StartNoiseIk ==
    /\ pc = "Inspect" /\ index > Len(Operations(config)) /\ config.security = "NoiseIk"
    /\ pc' = "Handshake"
    /\ UNCHANGED <<startVars, managerVars, hostVars, cleanupFailed, signals>>

\* A check of the configuration, with everything to undo
RefuseLate(check) ==
    /\ pc' = "RevertNext" /\ refusal' = {check} /\ UNCHANGED signals

\* The forwarding loop awaits ctrl_c.
Loop == pc' = "Forward" /\ signals' = TRUE /\ UNCHANGED refusal

\* In the plaintext mode run constructs the codec.
StartLegacy ==
    /\ pc = "Inspect" /\ index > Len(Operations(config)) /\ config.security = "Legacy"
    /\ IF FrameCodecFails(config.mtu) THEN RefuseLate("Codec") ELSE Loop
    /\ UNCHANGED <<config, report, managerVars, hostVars, cleanupFailed>>
-----------------------------------------------------------------------------
(* The run, and Ctrl+C.                                                    *)

\* expire_if_due in the first turn of the loop: SessionLifetimeError::DeadlineOverflow
IdleDeadlineOverflows(c) == \E l \in c.limits : l.idle > MaxIdle

\* The handshake establishes a session: the codec of the encrypted mode is constructed,
\* and the loop derives the idle deadline before it first awaits ctrl_c.
Establish ==
    /\ pc = "Handshake"
    /\ IF DataFrameCodecFails(config.mtu) THEN RefuseLate("DataCodec")
       ELSE IF IdleDeadlineOverflows(config) THEN RefuseLate("IdleDeadline") ELSE Loop
    /\ UNCHANGED <<config, report, managerVars, hostVars, cleanupFailed>>

\* run returns, by itself or with an error (an idle deadline that overflows only later
\* among them); cleanup follows either way.
RunEnds ==
    /\ pc \in {"Handshake", "Forward"}
    /\ pc' = "RevertNext"
    /\ UNCHANGED <<startVars, managerVars, natVars, routeVars, cleanupFailed, signals, touched, fresh>>

\* Without a handler SIGINT ends the process; with one it is only seen by the loop.
CtrlC ==
    /\ pc \notin Ended
    /\ \/ ~signals /\ pc' = "Interrupted"
       \/ pc = "Forward" /\ pc' = "RevertNext"
    /\ UNCHANGED <<startVars, managerVars, natVars, routeVars, cleanupFailed, signals, touched, fresh>>
-----------------------------------------------------------------------------
(* RouteManager::restore, in a rollback or after the run, then NatManager. *)

\* Mutant of RevertNext: the NAT table is forgotten.
RevertNextRoutesOnly ==
    /\ pc = "RevertNext"
    /\ \/ /\ applied # <<>>
          /\ current' = <<applied[Len(applied)]>>
          /\ applied' = SubSeq(applied, 1, Len(applied) - 1)
          /\ pc' = "RevertInspect"
          /\ UNCHANGED <<failed, cleanupFailed>>
       \/ /\ applied = <<>>
          /\ applied' = failed /\ failed' = <<>> /\ UNCHANGED current
          /\ Exit(FALSE)
    /\ UNCHANGED <<startVars, index, natVars, routeVars, signals, touched, fresh>>

\* `while let Some(operation) = self.applied.pop()`; NatManager::restore comes next.
RevertNext ==
    /\ pc = "RevertNext"
    /\ \/ /\ applied # <<>>
          /\ current' = <<applied[Len(applied)]>>
          /\ applied' = SubSeq(applied, 1, Len(applied) - 1)
          /\ pc' = "RevertInspect"
          /\ UNCHANGED <<failed, cleanupFailed>>
       \/ /\ applied = <<>>
          /\ applied' = failed /\ failed' = <<>> /\ UNCHANGED current
          /\ IF natApplied = 0 THEN Exit(FALSE) ELSE pc' = "NatRevert" /\ UNCHANGED cleanupFailed
    /\ UNCHANGED <<startVars, index, natVars, routeVars, signals, touched, fresh>>

\* The operation is reverted, or there was nothing left of it.
Reverted ==
    /\ current' = <<>> /\ pc' = "RevertNext"
    /\ UNCHANGED <<applied, failed, cleanupFailed>>

\* Mutants of RevertFails: it is not taken off the list; it is forgotten; it is tried
\* again at once.
RevertFailsPeeked ==
    /\ failed' = current \o failed /\ pc' = "RevertNext"
    /\ cleanupFailed' = TRUE
    /\ UNCHANGED <<applied, current>>
RevertFailsForgotten ==
    /\ current' = <<>> /\ pc' = "RevertNext"
    /\ UNCHANGED <<applied, failed, cleanupFailed>>
RevertFailsRetried ==
    /\ applied' = applied \o current /\ current' = <<>> /\ pc' = "RevertNext"
    /\ cleanupFailed' = TRUE
    /\ UNCHANGED failed

\* The error is reported in the end, and the operation retained.
RevertFails ==
    /\ failed' = current \o failed /\ current' = <<>> /\ pc' = "RevertNext"
    /\ cleanupFailed' = TRUE
    /\ UNCHANGED applied

\* revert_route, or revert_ipv4_forwarding, whose previous value is 0: the first command.
RevertInspect ==
    /\ pc = "RevertInspect"
    /\ \/ Existing(current[1]) = "Missing" /\ Reverted
       \/ /\ Existing(current[1]) = "Identical" /\ pc' = "Delete"
          /\ UNCHANGED <<applied, current, failed, cleanupFailed>>
       \/ RevertFails
    /\ fresh' = TRUE
    /\ UNCHANGED <<startVars, index, natVars, routeVars, signals, touched>>

Undo(op) ==
    \/ holder' = [holder EXCEPT ![Entry(op)] = "None"] /\ Reverted
    \/ RevertFails /\ UNCHANGED holder

\* `ip route del` fails when the route is gone.
DeleteRoute ==
    /\ pc = "Delete" /\ current[1] \notin Settings
    /\ IF holder[Entry(current[1])] # "None" THEN Undo(current[1])
       ELSE RevertFails /\ UNCHANGED holder
    /\ UNCHANGED <<startVars, index, natVars, conflicting, signals, touched, fresh>>

\* write_ipv4_forwarding, with the previous value
ResetForwarding ==
    /\ pc = "Delete" /\ current[1] \in Settings
    /\ Undo(current[1])
    /\ UNCHANGED <<startVars, index, natVars, conflicting, signals, touched, fresh>>

\* Mutant of NatRevert: the fingerprints are not compared.
NatRevertBlindly ==
    /\ pc = "NatRevert"
    /\ \/ rules = {} /\ natApplied' = 0 /\ Exit(FALSE)
       \/ rules # {} /\ pc' = "NatDelete" /\ UNCHANGED <<natApplied, cleanupFailed>>
       \/ Exit(TRUE) /\ UNCHANGED natApplied
    /\ fresh' = TRUE
    /\ UNCHANGED <<startVars, managerVars, rules, handle, routeVars, signals, touched>>

\* LinuxNatBackend::revert: table_exists, inspect_table and the comparison.
NatRevert ==
    /\ pc = "NatRevert"
    /\ \/ rules = {} /\ natApplied' = 0 /\ Exit(FALSE)
       \/ /\ rules # {} /\ Fingerprint = natApplied
          /\ pc' = "NatDelete" /\ UNCHANGED <<natApplied, cleanupFailed>>
       \/ Exit(TRUE) /\ UNCHANGED natApplied
    /\ fresh' = TRUE
    /\ UNCHANGED <<startVars, managerVars, rules, handle, routeVars, signals, touched>>

\* delete_table; a failure keeps the record.
NatDelete ==
    /\ pc = "NatDelete"
    /\ \/ rules # {} /\ rules' = {} /\ natApplied' = 0 /\ Exit(FALSE)
       \/ Exit(TRUE) /\ UNCHANGED <<rules, natApplied>>
    /\ UNCHANGED <<startVars, managerVars, handle, routeVars, signals, touched, fresh>>
-----------------------------------------------------------------------------
(* The rest of the host.                                                   *)

\* The administrator adds, replaces or removes the entry of a resource.
AdminRoute(r) ==
    /\ \E h \in {holder[r], "Admin", "None"} : holder' = [holder EXCEPT ![r] = h]
    /\ \E c \in SUBSET ({r} \ Settings) : conflicting' = (conflicting \ {r}) \cup c
    /\ touched' = touched \cup {r} /\ fresh' = FALSE
    /\ UNCHANGED <<startVars, pc, managerVars, natVars, cleanupFailed, signals>>

\* The administrator creates, edits, replaces or removes the table; without NAT Crabnet
\* never looks at it.
AdminTable ==
    /\ config.nat /\ handle < MaxHandle
    /\ rules' \in SUBSET (rules \cup {"Admin"})
    /\ handle' = handle + 1
    /\ touched' = touched \cup {Table} /\ fresh' = FALSE
    /\ UNCHANGED <<startVars, pc, managerVars, natApplied, routeVars, cleanupFailed, signals>>

\* SIGKILL, or a panic: nothing more is done.
Crash ==
    /\ pc \notin Ended
    /\ pc' = "Killed"
    /\ UNCHANGED <<startVars, managerVars, natVars, routeVars, cleanupFailed, signals, touched, fresh>>

Command ==
    \/ Validate \/ Diagnose \/ DiagnoseFails \/ BindLegacy \/ BindNoiseIk
    \/ Resolve \/ ResolveFails
    \/ NatCheck \/ NatLoad \/ NatFingerprint \/ NatUndo
    \/ Inspect \/ AddRoute \/ SetForwarding
    \/ StartLegacy \/ StartNoiseIk \/ Establish
    \/ RevertNext \/ RevertInspect \/ DeleteRoute \/ ResetForwarding
    \/ NatRevert \/ NatDelete

Process == Command \/ RunEnds \/ CtrlC

Host == AdminTable \/ \E r \in Resources : AdminRoute(r)

LifecycleNext == Process \/ Crash \/ Host

LifecycleSpec == LifecycleInit /\ [][LifecycleNext]_vars

\* Every command the process awaits returns, with an error if need be.
FairLifecycleSpec == LifecycleSpec /\ WF_vars(Command)
-----------------------------------------------------------------------------
\* What the managers still account for: Application drops them only when it returns.
Tracked == Elements(applied) \cup Elements(failed) \cup Elements(current)

\* What Crabnet made and nobody replaced
Installed == {r \in Resources : holder[r] = "Crabnet"}

\* The entries of destinations with host bits, which classify_existing_route cannot find
Unrecognized == {Entry(op) : op \in {o \in Planned : ~Recognized(o)}}

\* RouteManager: every entry Crabnet made and nobody replaced is one that the
\* manager will revert or has retained; through rollback, restoration and failed
\* reverts no route and no forwarding change is forgotten, but for routes whose
\* configured destination has host bits: revert_route finds none and drops the record.
OwnershipTracked == Installed \subseteq {Entry(op) : op \in Tracked} \cup Unrecognized

\* Nothing of Crabnet's is left on the host.
Clean == Installed = {} /\ "Crabnet" \notin rules

\* Application: a process that returns, from bind or from run, leaves nothing of its
\* own on the host unless the error it returns mentions the failed cleanup, but for
\* routes whose configured destination has host bits.
LeftoverReported ==
    pc = "Exited" /\ ~cleanupFailed => Installed \subseteq Unrecognized /\ "Crabnet" \notin rules

\* apply_route, apply_ipv4_forwarding, table_exists: what was on the host before
\* Crabnet started, and the administrator left alone, is still there at every point,
\* entries identical to the ones Crabnet would have made included.
PreexistingPreserved ==
    [][/\ \A r \in Resources \ touched' : holder[r] = "Admin" => holder'[r] = "Admin"
       /\ Table \notin touched' /\ rules = {"Admin"} => rules' = {"Admin"}]_vars

\* Config::validate and full_tunnel_operations: until cleanup begins, no route of
\* Crabnet's captures the client's own transport.  A route that contains the server's
\* address is on the host only together with the host route to it, unless the
\* administrator removed or replaced that one.
TransportNotCaptured ==
    pc \notin Restoring \cup Ended /\ config.type = "Client" =>
        \A ip \in config.server, r \in Resources :
            Contains(r, ip) /\ r # HostRoute(ip) /\ holder[r] = "Crabnet" =>
                /\ HostRoute(ip) \in Resources
                /\ \/ HostRoute(ip) \in touched
                   \/ holder[HostRoute(ip)] # "None" /\ HostRoute(ip) \notin conflicting

\* What the framing leaves of the largest UDP payload for a packet
LargestDataMtu == 65389

\* Config::validate: what it accepts is not refused later by build_nat_spec, the session
\* limits, the keys or the plaintext codec, which look at the same fields again.  What is
\* refused with the network set up is a configuration of the encrypted mode whose MTU is
\* above 65389 (DataFrameCodec::new) or whose idle timeout no Instant can hold
\* (DeadlineOverflow), and no run with such a configuration reaches the forwarding loop.
LateRefusalsKnown ==
    /\ refusal \subseteq {"Configuration", "DataCodec", "IdleDeadline"}
    /\ "DataCodec" \in refusal => config.security = "NoiseIk" /\ config.mtu > LargestDataMtu
    /\ "IdleDeadline" \in refusal =>
           config.security = "NoiseIk" /\ \E l \in config.limits : l.idle > MaxIdle
    /\ pc = "Forward" /\ config.security = "NoiseIk" =>
           config.mtu <= LargestDataMtu /\ \A l \in config.limits : l.idle <= MaxIdle

\* assess_forward_chains: the report says that nothing is dropped by default only when
\* every forward chain it was given accepts.
AssessmentConservative ==
    report.assessment = "NoDefaultDropObserved" =>
        \A ch \in report.chains :
            ch.hook = "forward" /\ ch.type = "filter" /\ ch.family \in {"ip", "inet"} =>
                ch.policy \in {{}, {"accept"}}

\* revert_route and LinuxNatBackend::revert, "refusing to remove": unless it changed
\* between the last inspection and the command, a route is deleted by cleanup only while
\* there is no other route to its destination, and the table only while it is as it was
\* listed, by a command of its own, after `nft -f` had loaded it.  The emergency deletion
\* of a table that could not be listed compares nothing and is not meant.
ChangedStateKept ==
    [][fresh => /\ pc = "Delete" /\ holder' # holder => Entry(current[1]) \notin conflicting
                /\ pc = "NatDelete" /\ rules' # rules => handle = natApplied]_vars

\* Application: once a rollback or the cleanup has begun it comes to an end, whatever
\* commands fail and whatever the administrator does meanwhile.
RestoreCompletes == pc \in Restoring ~> pc \in Ended

\* docs/noise-ik-provider-design.md:480: Ctrl+C during the handshake is an orderly
\* shutdown with OS cleanup.  The process has no handler for the signal then.
CtrlCDuringHandshakeCleansUp ==
    [][pc = "Handshake" /\ pc' = "Interrupted" => Clean]_vars

\* docs/encrypted-v2-data-plane-design.md:709: the codec is built from the configured MTU
\* before the TUN and the owned networking state exist.  The code builds it after the
\* handshake, so an MTU that only this codec refuses is noticed with everything in place.
DataCodecBuiltFirst == "DataCodec" \in refusal => Clean
=============================================================================

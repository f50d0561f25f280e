----------------------- MODULE NetworkLifecycleProofs -----------------------
(***************************************************************************)
(* For every set of configurations, hosts and chain listings: the process  *)
(* forgets nothing it installed, reports what it leaves behind and spares  *)
(* what was there before it.                                               *)
(***************************************************************************)
EXTENDS NetworkLifecycleLemmas

\* What is left of an operation that was installed or found in place
InPlace(op) ==
    \/ Entry(op) \in touched \/ ~Recognized(op)
    \/ holder[Entry(op)] # "None" /\ Entry(op) \notin conflicting

\* The routes and the forwarding setting
RoutesInv ==
    /\ OwnershipTracked
    /\ \A op \in Tracked : holder[Entry(op)] = "Admin" => Entry(op) \in touched
    /\ pc = "Add" => Entry(Operation) \in touched \/ Existing(Operation) = "Missing"
    /\ fresh /\ pc = "Delete" => Existing(current[1]) = "Identical"
    /\ pc \in Installing =>
          /\ Installed \subseteq {Entry(op) : op \in Tracked}
          /\ \A i \in 1..(index - 1) : InPlace(Operations(config)[i])
          /\ \A r \in Elements(applied) : \E i \in 1..(index - 1) : r = Operations(config)[i]

\* The table
TableInv ==
    /\ "Crabnet" \in rules =>
          natApplied # 0 \/ pc \in Loaded \cup {"Exited", "Interrupted", "Killed"}
    /\ Table \notin touched =>
          /\ pc = "NatLoad" => rules = {}
          /\ natApplied # 0 \/ pc \in Loaded => "Crabnet" \in rules
    /\ fresh /\ pc = "NatDelete" => handle = natApplied

\* What the error says
ReportInv ==
    /\ failed # <<>> => cleanupFailed
    /\ pc \in NatRestoring \cup {"Exited"} /\ applied # <<>> => cleanupFailed
    /\ pc = "Exited" /\ "Crabnet" \in rules => cleanupFailed

\* What was refused; only the encrypted mode has a handshake.
RefusalInv == LateRefusalsKnown /\ (pc = "Handshake" => config.security = "NoiseIk")

LifecycleInv ==
    Phases /\ RoutesInv /\ TableInv /\ ReportInv /\ RefusalInv /\ AssessmentConservative
-----------------------------------------------------------------------------
(* The routes                                                              *)

\* Nothing is installed at the start.
LEMMA RoutesInit == LifecycleInit => RoutesInv
<1> SUFFICES ASSUME LifecycleInit PROVE RoutesInv
  OBVIOUS
<1>1. Tracked = {} /\ Elements(applied) = {}
  BY DEF LifecycleInit, Tracked, Elements
<1>2. pc = "Validate" /\ index = 1 /\ OwnershipTracked /\ Installed = {}
  BY DEF LifecycleInit, OwnershipTracked, Installed
<1> QED  BY <1>1, <1>2 DEF RoutesInv

\* Steps that leave the routes, the setting and the lists alone
LEMMA RoutesQuiet ==
    ASSUME Phases, RoutesInv, OtherStep \/ TableStep PROVE RoutesInv'
<1>1. UNCHANGED <<config, managerVars, routeVars>>
  BY Zenon DEF OtherStep, TableStep, Validate, Diagnose, DiagnoseFails, BindLegacy, BindNoiseIk, Resolve,
         ResolveFails, NatCheck, StartLegacy, StartNoiseIk, Establish, RunEnds, CtrlC, Crash,
         NatLoad, NatFingerprint, NatUndo, NatRevert, NatDelete, AdminTable, startVars, hostVars
<1>2. /\ touched \subseteq touched'
      /\ pc' \in Installing => pc \in Installing
      /\ pc' \in {"Add", "Delete"} => pc' = pc /\ fresh' \in {fresh, FALSE}
  <2>1. CASE OtherStep
    BY <2>1, Zenon DEF OtherStep, Validate, Diagnose, DiagnoseFails, BindLegacy, BindNoiseIk, Resolve,
         ResolveFails, NatCheck, StartLegacy, StartNoiseIk, Establish, RunEnds, CtrlC, Crash,
         Refuse, RefuseLate, Loop, Bound, Exit, hostVars, Installing, Early
  <2>2. CASE TableStep
    BY <2>2, Zenon DEF TableStep, NatLoad, NatFingerprint, NatUndo, NatRevert, NatDelete, AdminTable,
         Exit, Installing, Early
  <2> QED  BY <2>1, <2>2, Zenon
<1>3. /\ Tracked' = Tracked /\ Planned' = Planned /\ Resources' = Resources /\ Operation' = Operation
      /\ Operations(config)' = Operations(config) /\ Unrecognized' = Unrecognized
  BY <1>1, Zenon DEF managerVars, Tracked, Planned, Resources, Operation, Unrecognized
<1>a. \A op : Existing(op)' = Existing(op) /\ (InPlace(op) => InPlace(op)')
  BY <1>1, <1>2, Zenon DEF routeVars, Existing, ExistingRoute, ExistingSetting, InPlace
<1>4. OwnershipTracked'
  BY <1>1, <1>3, Zenon DEF RoutesInv, OwnershipTracked, Installed, routeVars
<1>5. (\A op \in Tracked : holder[Entry(op)] = "Admin" => Entry(op) \in touched)'
  BY <1>1, <1>2, <1>3, Zenon DEF RoutesInv, routeVars
<1>6. (pc = "Add" => Entry(Operation) \in touched \/ Existing(Operation) = "Missing")'
  BY <1>1, <1>2, <1>3, Zenon DEF RoutesInv, routeVars, Existing, ExistingRoute, ExistingSetting
<1>7. (fresh /\ pc = "Delete" => Existing(current[1]) = "Identical")'
  BY <1>1, <1>2, Zenon DEF RoutesInv, managerVars, routeVars, Existing, ExistingRoute, ExistingSetting
<1>8. (pc \in Installing =>
          /\ Installed \subseteq {Entry(op) : op \in Tracked}
          /\ \A i \in 1..(index - 1) : InPlace(Operations(config)[i])
          /\ \A r \in Elements(applied) : \E i \in 1..(index - 1) : r = Operations(config)[i])'
  BY <1>1, <1>2, <1>3, <1>a, Zenon DEF RoutesInv, managerVars, Installed, routeVars
<1> QED  BY <1>4, <1>5, <1>6, <1>7, <1>8, Zenon DEF RoutesInv

\* Another administrator's change of a route keeps what is known of the manager's own.
LEMMA RoutesAdmin ==
    ASSUME Phases, RoutesInv, NEW r \in Resources, AdminRoute(r) PROVE RoutesInv'
<1>1. UNCHANGED <<config, pc, managerVars>> /\ touched' = touched \cup {r} /\ fresh' = FALSE
  BY DEF AdminRoute, startVars
<1>2. /\ \A k \in Resources \ {r} : holder'[k] = holder[k]
      /\ holder'[r] \in {holder[r], "Admin", "None"}
      /\ \A k \in Resources \ {r} : k \in conflicting' <=> k \in conflicting
  BY ZenonT(30) DEF AdminRoute, Phases, LifecycleTypeOK
<1>3. /\ Tracked' = Tracked /\ Planned' = Planned /\ Resources' = Resources
      /\ Operations(config)' = Operations(config) /\ Unrecognized' = Unrecognized
      /\ Operation' = Operation /\ Tracked \subseteq Planned
  BY <1>1, TrackedType, Zenon DEF managerVars, Tracked, Planned, Resources, Operation, Unrecognized
<1>4. \A op \in Planned : Entry(op) # r => Existing(op)' = Existing(op)
  <2> SUFFICES ASSUME NEW op \in Planned, Entry(op) # r PROVE Existing(op)' = Existing(op)
    OBVIOUS
  <2>1. /\ holder'[Entry(op)] = holder[Entry(op)]
        /\ Entry(op) \in conflicting' <=> Entry(op) \in conflicting
    BY <1>2, EntryType, Zenon
  <2> QED  BY <2>1 DEF Existing, ExistingRoute, ExistingSetting
<1>5. \A op \in Planned : InPlace(op) => InPlace(op)'
  <2> SUFFICES ASSUME NEW op \in Planned, InPlace(op) PROVE InPlace(op)'
    OBVIOUS
  <2>1. CASE Entry(op) = r
    BY <1>1, <2>1, Zenon DEF InPlace
  <2>2. CASE Entry(op) # r
    <3>1. /\ holder'[Entry(op)] = holder[Entry(op)]
          /\ Entry(op) \in conflicting' <=> Entry(op) \in conflicting
      BY <1>2, <2>2, EntryType, Zenon
    <3> QED  BY <1>1, <3>1, Zenon DEF InPlace
  <2> QED  BY <2>1, <2>2
<1>b. Installed' \subseteq Installed
  BY <1>2, <1>3 DEF Installed
<1>6. OwnershipTracked' /\ (\A op \in Tracked : holder[Entry(op)] = "Admin" => Entry(op) \in touched)'
  <2>2. OwnershipTracked'
    BY <1>3, <1>b, Zenon DEF RoutesInv, OwnershipTracked
  <2>3. ASSUME NEW op \in Tracked, holder'[Entry(op)] = "Admin" PROVE Entry(op) \in touched'
    <3>1. Entry(op) \in Resources
      BY <1>3, EntryType, Zenon
    <3> QED  BY <1>1, <1>2, <2>3, <3>1, Zenon DEF RoutesInv
  <2> QED  BY <1>3, <2>2, <2>3, Zenon
<1>7. (pc = "Add" => Entry(Operation) \in touched \/ Existing(Operation) = "Missing")'
  <2> SUFFICES ASSUME pc = "Add", NEW op, op = Operation
               PROVE  Entry(op) \in touched' \/ Existing(op)' = "Missing"
    BY <1>1, <1>3, Zenon DEF Existing, ExistingRoute, ExistingSetting
  <2>1. op \in Planned
    BY OperationType, SMTT(30) DEF Phases
  <2>2. Entry(op) \in touched \/ Existing(op) = "Missing"
    BY Zenon DEF RoutesInv
  <2> QED  BY <1>1, <1>4, <2>1, <2>2, Zenon
<1>8. (pc \in Installing =>
          /\ Installed \subseteq {Entry(op) : op \in Tracked}
          /\ \A i \in 1..(index - 1) : InPlace(Operations(config)[i])
          /\ \A k \in Elements(applied) : \E i \in 1..(index - 1) : k = Operations(config)[i])'
  <2>1. \A i \in 1..(index - 1) : Operations(config)[i] \in Planned
    BY OperationsType, SMTT(30) DEF Phases, LifecycleTypeOK, Planned
  <2> QED  BY <1>1, <1>3, <1>5, <1>b, <2>1, Zenon DEF RoutesInv, managerVars
<1> QED  BY <1>1, <1>6, <1>7, <1>8, Zenon DEF RoutesInv

\* The forwarding setting is an entry of its own.
LEMMA SettingEntry == \A op \in Settings : Entry(op) \in Settings
BY DEF Settings, Forwarding, Entry

\* A host route has no host bits: it is its own entry, and is recognised.
LEMMA HostRouteEntry ==
    ASSUME NEW ip
    PROVE  Entry(HostRoute(ip)) = HostRoute(ip) /\ Recognized(HostRoute(ip))
<1>1. \A f, p, h : [[family |-> f, prefix |-> p, hosts |-> h, bits |-> 0] EXCEPT !.bits = 0]
                     = [family |-> f, prefix |-> p, hosts |-> h, bits |-> 0]
  OBVIOUS
<1>2. Entry(HostRoute(ip)) = HostRoute(ip)
  BY <1>1, ZenonT(30) DEF Entry, HostRoute
<1>3. HostRoute(ip).bits = 0
  BY DEF HostRoute
<1> QED  BY <1>2, <1>3, Zenon DEF Recognized

\* What an inspection that finds nothing says of the host
LEMMA MissingFree ==
    ASSUME Phases, NEW op, Existing(op) = "Missing"
    PROVE  /\ ~Recognized(op) \/ holder[Entry(op)] = "None"
           /\ ~Recognized(op) \/ Entry(op) \notin conflicting
           /\ op \in Settings => holder[Entry(op)] = "None"
<1>1. Settings \cap conflicting = {}
  BY SMTT(30) DEF Phases, LifecycleTypeOK
<1>2. CASE op \in Settings
  <2>1. holder[Entry(op)] = "None"
    BY <1>2 DEF Existing, ExistingSetting
  <2>2. Entry(op) \in Settings
    BY <1>2, SettingEntry, Zenon
  <2> QED  BY <1>1, <2>1, <2>2
<1>3. CASE op \notin Settings
  BY <1>3 DEF Existing, ExistingRoute
<1> QED  BY <1>2, <1>3

\* What an inspection that finds the entry says of the host
LEMMA IdenticalInPlace ==
    ASSUME Phases, NEW op, Existing(op) = "Identical"
    PROVE  holder[Entry(op)] # "None" /\ Entry(op) \notin conflicting
<1>1. Settings \cap conflicting = {}
  BY SMTT(30) DEF Phases, LifecycleTypeOK
<1>2. CASE op \in Settings
  <2>1. holder[Entry(op)] # "None"
    BY <1>2 DEF Existing, ExistingSetting
  <2>2. Entry(op) \in Settings
    BY <1>2, SettingEntry, Zenon
  <2> QED  BY <1>1, <2>1, <2>2
<1>3. CASE op \notin Settings
  BY <1>3 DEF Existing, ExistingRoute
<1> QED  BY <1>2, <1>3

\* Installing and reverting keep what is known of the routes.
LEMMA RoutesSteps ==
    ASSUME Phases, RoutesInv, RouteStep PROVE RoutesInv'
<1>1. PICK step \in {"Identical", "Missing", "Added", "Failed", "Popped", "Found", "Reverted",
                     "Retained"} : RouteEffect(step)
  BY RouteStepsMove
<1>2. Moves(step) /\ UNCHANGED <<conflicting, touched, config>> /\ fresh' \in {fresh, TRUE}
  BY <1>1, Zenon DEF RouteEffect, Moves, startVars
<1>3. /\ Resources' = Resources /\ Operations(config)' = Operations(config)
      /\ Unrecognized' = Unrecognized
  BY <1>2, Zenon DEF Resources, Planned, Unrecognized
<1>4. holder \in [Resources -> Parties \cup {"None"}] /\ Settings \cap conflicting = {}
  BY SMTT(30) DEF Phases, LifecycleTypeOK
<1>5. /\ Tracked' = CASE step = "Added" -> Tracked \cup {Operation}
                      [] step = "Reverted" -> Elements(applied) \cup Elements(failed)
                      [] OTHER -> Tracked
      /\ step = "Reverted" => Tracked = Tracked' \cup {current[1]}
  BY <1>2, MovesEffect
<1>6. CASE step \in {"Failed", "Popped", "Retained", "Found"}
  <2>1. /\ UNCHANGED <<holder, Tracked>>
        /\ pc' \in {"RevertNext", "RevertInspect", "NatRevert", "Exited", "Delete"}
        /\ pc' = "Delete" => Existing(current[1]) = "Identical" /\ UNCHANGED current
    BY <1>1, <1>2, <1>5, <1>6, Zenon DEF RouteEffect, Moves, InstallFails, RevertNext, RevertFails, Exit,
                                  managerVars
  <2>2. OwnershipTracked' /\ (\A k \in Tracked : holder[Entry(k)] = "Admin" => Entry(k) \in touched)'
    BY <1>2, <1>3, <2>1, Zenon DEF RoutesInv, OwnershipTracked, Installed
  <2>3. (fresh /\ pc = "Delete" => Existing(current[1]) = "Identical")'
    BY <1>2, <2>1, SMTT(30) DEF Existing, ExistingRoute, ExistingSetting
  <2> QED  BY <2>1, <2>2, <2>3, Zenon DEF RoutesInv, Installing, Early
<1>7. CASE step = "Missing"
  <2>1. /\ UNCHANGED <<holder, Tracked, managerVars>> /\ pc' = "Add" /\ pc \in Installing
        /\ Existing(Operation) = "Missing"
    BY <1>1, <1>2, <1>5, <1>7, Zenon DEF RouteEffect, Moves, Installing
  <2>2. OwnershipTracked' /\ (\A k \in Tracked : holder[Entry(k)] = "Admin" => Entry(k) \in touched)'
    BY <1>2, <1>3, <2>1, Zenon DEF RoutesInv, OwnershipTracked, Installed
  <2>3. Existing(Operation)' = "Missing"
    BY <1>2, <1>3, <2>1, Zenon DEF Existing, ExistingRoute, ExistingSetting, Operation, managerVars
  <2>4. (/\ Installed \subseteq {Entry(op) : op \in Tracked}
         /\ \A i \in 1..(index - 1) : InPlace(Operations(config)[i])
         /\ \A k \in Elements(applied) : \E i \in 1..(index - 1) : k = Operations(config)[i])'
    BY <1>2, <1>3, <2>1, Zenon DEF RoutesInv, managerVars, InPlace, Installed
  <2> QED  BY <2>1, <2>2, <2>3, <2>4, Zenon DEF RoutesInv
<1>8. CASE step \in {"Identical", "Added"}
  <2>1. /\ pc \in {"Inspect", "Add"} /\ index <= Len(Operations(config)) /\ index' = index + 1
        /\ pc' = "Inspect" /\ index \in Nat /\ Operation \in Planned
    <3>1. /\ pc \in {"Inspect", "Add"} /\ index <= Len(Operations(config)) /\ index' = index + 1
          /\ pc' = "Inspect"
      BY <1>2, <1>8, Zenon DEF Moves, InstallNext, Phases
    <3>2. index \in Nat
      BY OperationsType, SMTT(30) DEF Phases, LifecycleTypeOK
    <3> QED  BY <3>1, <3>2, OperationType
  <2> DEFINE entry == Entry(Operation)
  <2>a. entry \in Resources
    BY <2>1, EntryType, Zenon
  <2>2. /\ \A k \in Resources \ {entry} : holder'[k] = holder[k]
        /\ holder'[entry] # "None"
        /\ entry \in touched' \/ ~Recognized(Operation) \/ entry \notin conflicting'
        /\ holder'[entry] \in {"Crabnet", holder[entry]}
        /\ holder'[entry] = "Crabnet" => step = "Added" \/ holder[entry] = "Crabnet"
        /\ step = "Added" => holder'[entry] = "Crabnet"
    <3>1. CASE step = "Identical"
      <4>1. UNCHANGED holder /\ Existing(Operation) = "Identical"
        BY <1>1, <3>1 DEF RouteEffect
      <4>2. holder[entry] # "None" /\ entry \notin conflicting
        BY <4>1, IdenticalInPlace, Zenon
      <4> QED  BY <1>2, <3>1, <4>1, <4>2, Zenon
    <3>2. CASE step = "Added"
      <4>1. holder' = [holder EXCEPT ![entry] = "Crabnet"] /\ pc = "Add"
        BY <1>1, <1>2, <3>2, Zenon DEF RouteEffect, Moves
      <4>2. entry \in touched \/ ~Recognized(Operation) \/ entry \notin conflicting
        BY <4>1, MissingFree, Zenon DEF RoutesInv
      <4> HIDE DEF entry
      <4> QED  BY <1>2, <1>4, <2>a, <3>2, <4>1, <4>2, Zenon
    <3> QED  BY <1>8, <3>1, <3>2, Zenon
  <2>3. Tracked' = IF step = "Added" THEN Tracked \cup {Operation} ELSE Tracked
    BY <1>5, <1>8
  <2>4. OwnershipTracked' /\ (Installed \subseteq {Entry(op) : op \in Tracked})'
    <3> SUFFICES ASSUME NEW k \in Resources, holder'[k] = "Crabnet"
                 PROVE  k \in {Entry(op) : op \in Tracked'}
      BY <1>3, Zenon DEF OwnershipTracked, Installed
    <3>1. CASE holder[k] = "Crabnet"
      <4>1. k \in {Entry(op) : op \in Tracked}
        BY <2>1, <3>1, Zenon DEF RoutesInv, Installed, Installing, Early
      <4>2. Tracked \subseteq Tracked'
        BY <2>3
      <4> QED  BY <4>1, <4>2, Zenon
    <3>2. CASE holder[k] # "Crabnet"
      <4>1. k = entry /\ Operation \in Tracked'
        BY <2>2, <2>3, <3>2, SMTT(30)
      <4> QED  BY <4>1, Zenon
    <3> QED  BY <3>1, <3>2
  <2>5. (\A k \in Tracked : holder[Entry(k)] = "Admin" => Entry(k) \in touched)'
    <3> SUFFICES ASSUME NEW k \in Tracked', holder'[Entry(k)] = "Admin" PROVE Entry(k) \in touched
      BY <1>2, Zenon
    <3>1. k = Operation \/ k \in Tracked
      BY <2>3
    <3>2. Entry(k) = entry => step # "Added"
      BY <2>2
    <3>3. k \in Tracked
      BY <2>3, <3>1, <3>2
    <3>4. Entry(k) \in Resources
      BY <3>3, TrackedType, EntryType, Zenon
    <3>5. holder[Entry(k)] = "Admin"
      BY <2>2, <3>4, SMTT(30)
    <3> QED  BY <3>3, <3>5, Zenon DEF RoutesInv
  <2>6. \A i \in 1..(index' - 1) : InPlace(Operations(config)[i])'
    <3> SUFFICES ASSUME NEW i \in 1..(index' - 1) PROVE InPlace(Operations(config)[i])'
      OBVIOUS
    <3> DEFINE op == Operations(config)[i]
    <3>1. CASE i = index
      <4>1. op = Operation /\ op' = op
        BY <1>3, <3>1, Zenon DEF Operation
      <4> QED  BY <2>2, <4>1, Zenon DEF InPlace
    <3>2. CASE i # index
      <4>1. i \in 1..(index - 1) /\ op \in Planned
        BY <2>1, <3>2, OperationsType, SMTT(30) DEF Phases, LifecycleTypeOK, Planned
      <4>2. InPlace(op)
        BY <2>1, <4>1, SMTT(30) DEF RoutesInv, Installing, Early
      <4>3. op' = op
        BY <1>3, Zenon
      <4> HIDE DEF op
      <4>4. Entry(op) \in Resources
        BY <4>1, EntryType, Zenon
      <4>5. holder'[Entry(op)] = "None" => holder[Entry(op)] = "None"
        BY <2>2, <4>4, Zenon
      <4>6. InPlace(op)'
        BY <1>2, <4>2, <4>3, <4>5, Zenon DEF InPlace
      <4> QED  BY <4>6 DEF op
    <3> QED  BY <3>1, <3>2
  <2>7. \A k \in Elements(applied)' : \E i \in 1..(index' - 1) : k = Operations(config)[i]
    <3>1. Elements(applied)' \subseteq Elements(applied) \cup {Operation}
      <4>1. applied' = applied \/ applied' = Append(applied, Operation)
        BY <1>2, <1>8, Zenon DEF Moves, InstallNext
      <4>2. applied \in Seq(Planned)
        BY SMTT(30) DEF Phases, LifecycleTypeOK
      <4>3. Elements(Append(applied, Operation)) = Elements(applied) \cup {Operation}
        BY <2>1, <4>2, ElementsOf, SMTT(30)
      <4> QED  BY <4>1, <4>3, Zenon
    <3>2. \A k \in Elements(applied) : \E i \in 1..(index - 1) : k = Operations(config)[i]
      BY <2>1, SMTT(30) DEF RoutesInv, Installing, Early
    <3>3. 1..(index - 1) \subseteq 1..(index' - 1) /\ index \in 1..(index' - 1)
      BY <2>1, SMTT(30) DEF Phases, LifecycleTypeOK
    <3> QED  BY <3>1, <3>2, <3>3, SMTT(30) DEF Operation
  <2> QED  BY <1>3, <2>1, <2>4, <2>5, <2>6, <2>7, Zenon DEF RoutesInv
<1>9. CASE step = "Reverted"
  <2>1. /\ pc \in {"RevertInspect", "Delete"} /\ pc' = "RevertNext"
        /\ \/ Existing(current[1]) = "Missing" /\ UNCHANGED holder
           \/ holder' = [holder EXCEPT ![Entry(current[1])] = "None"]
    BY <1>1, <1>2, <1>9, Zenon DEF RouteEffect, Moves, Reverted
  <2> DEFINE op == current[1]
             entry == Entry(op)
  <2>2. op \in Planned /\ entry \in Resources
    BY <2>1, CurrentOne, EntryType, Zenon
  <2>3. /\ \A k \in Resources \ {entry} : holder'[k] = holder[k]
        /\ (~Recognized(op) /\ UNCHANGED holder) \/ holder'[entry] = "None"
    <3>1. CASE Existing(op) = "Missing" /\ UNCHANGED holder
      BY <3>1, MissingFree, Zenon
    <3>2. CASE holder' = [holder EXCEPT ![entry] = "None"]
      <4> HIDE DEF entry
      <4> QED  BY <1>4, <2>2, <3>2, Zenon
    <3> QED  BY <2>1, <3>1, <3>2, Zenon
  <2>4. OwnershipTracked'
    <3> SUFFICES ASSUME NEW k \in Resources, holder'[k] = "Crabnet"
                 PROVE  k \in {Entry(o) : o \in Tracked'} \cup Unrecognized
      BY <1>3, Zenon DEF OwnershipTracked, Installed
    <3>1. holder[k] = "Crabnet"
      BY <2>3
    <3>2. k \in {Entry(o) : o \in Tracked} \cup Unrecognized
      BY <3>1, Zenon DEF RoutesInv, OwnershipTracked, Installed
    <3>3. CASE k = entry
      <4>1. ~Recognized(op)
        BY <2>3, <3>3
      <4> QED  BY <2>2, <3>3, <4>1, Zenon DEF Unrecognized
    <3>4. CASE k # entry
      <4>1. Tracked \subseteq Tracked' \cup {op}
        BY <1>5, <1>9
      <4> QED  BY <3>2, <3>4, <4>1, Zenon
    <3> QED  BY <3>3, <3>4
  <2>5. (\A k \in Tracked : holder[Entry(k)] = "Admin" => Entry(k) \in touched)'
    <3> SUFFICES ASSUME NEW k \in Tracked', holder'[Entry(k)] = "Admin" PROVE Entry(k) \in touched
      BY <1>2, Zenon
    <3>1. k \in Tracked
      BY <1>5, <1>9
    <3>2. Entry(k) \in Resources
      BY <3>1, TrackedType, EntryType, Zenon
    <3>3. holder[Entry(k)] = "Admin"
      BY <2>3, <3>2
    <3> QED  BY <3>1, <3>3, Zenon DEF RoutesInv
  <2> QED  BY <2>1, <2>4, <2>5, Zenon DEF RoutesInv, Installing, Early
<1> QED  BY <1>6, <1>7, <1>8, <1>9
-----------------------------------------------------------------------------
(* The table, and what the error says of the cleanup                       *)

\* Where a step that leaves the table alone leads
LEMMA QuietTable ==
    ASSUME Phases, OtherStep \/ RouteStep
    PROVE  /\ UNCHANGED <<natVars, touched>>
           /\ pc' \in Loaded \cup {"NatDelete"} => FALSE
           /\ pc' = "NatLoad" => rules = {}
           /\ pc \notin Ended
           /\ pc \in Loaded => pc' \in {"Interrupted", "Killed"}
<1>1. CASE OtherStep
  BY <1>1, Zenon DEF OtherStep, Validate, Diagnose, DiagnoseFails, BindLegacy, BindNoiseIk, Resolve,
         ResolveFails, NatCheck, StartLegacy, StartNoiseIk, Establish, RunEnds, CtrlC, Crash,
         Refuse, RefuseLate, Loop, Bound, Exit, hostVars, Loaded, Ended
<1>2. CASE RouteStep
  <2>1. PICK step : RouteEffect(step)
    BY <1>2, RouteStepsMove
  <2>2. UNCHANGED <<natVars, touched>>
    BY <2>1, SMTT(30) DEF RouteEffect, Moves
  <2>3. /\ pc \in {"Inspect", "Add", "RevertNext", "RevertInspect", "Delete"}
        /\ pc' \in {"Inspect", "Add", "RevertNext", "RevertInspect", "Delete", "NatRevert", "Exited"}
    BY <2>1, Zenon DEF RouteEffect, Moves, InstallNext, InstallFails, RevertNext, Reverted, RevertFails, Exit
  <2> QED  BY <2>2, <2>3 DEF Loaded, Ended
<1> QED  BY <1>1, <1>2

\* Steps that do not run nft keep what is known of the table.
LEMMA TableQuiet ==
    ASSUME Phases, TableInv, OtherStep \/ RouteStep PROVE TableInv'
<1>1. /\ UNCHANGED <<natApplied, rules, handle, touched>>
      /\ pc' \in Loaded \cup {"NatDelete"} => FALSE
      /\ pc' = "NatLoad" => rules = {}
      /\ pc \notin Ended
      /\ pc \in Loaded => pc' \in {"Interrupted", "Killed"}
  BY QuietTable DEF natVars
<1> QED  BY <1>1 DEF TableInv, Ended

\* Loading, identifying and deleting the table keep what is known of it.
LEMMA TableSteps ==
    ASSUME Phases, TableInv, TableStep PROVE TableInv'
<1> USE DEF TableInv, Loaded
<1>1. CASE NatLoad
  BY <1>1, SMTT(30) DEF NatLoad, Phases, Exit, Early
<1>2. CASE NatFingerprint
  BY <1>2, SMTT(30) DEF NatFingerprint, Phases, Fingerprint
<1>3. CASE NatUndo
  BY <1>3, SMTT(30) DEF NatUndo, Phases, Exit, Early
<1>4. CASE NatRevert
  BY <1>4 DEF NatRevert, Exit, Fingerprint
<1>5. CASE NatDelete
  BY <1>5 DEF NatDelete, Exit
<1>6. CASE AdminTable
  <2>1. /\ Table \in touched' /\ ~fresh' /\ UNCHANGED <<pc, natApplied>>
        /\ "Crabnet" \in rules' => "Crabnet" \in rules
    BY <1>6 DEF AdminTable
  <2> QED  BY <2>1
<1> QED  BY <1>1, <1>2, <1>3, <1>4, <1>5, <1>6, Zenon DEF TableStep

\* Every step keeps what the report at the end says of the host.
LEMMA ReportSteps ==
    ASSUME Phases, TableInv, ReportInv, OtherStep \/ RouteStep \/ TableStep PROVE ReportInv'
<1> USE DEF ReportInv, NatRestoring
<1>1. CASE OtherStep
  <2>1. /\ UNCHANGED <<managerVars, natVars>> /\ (cleanupFailed => cleanupFailed')
        /\ pc' \in {"NatRevert", "NatDelete"} => FALSE
        /\ pc' = "Exited" => pc \in Early \ Loaded
    BY <1>1, Zenon DEF OtherStep, Validate, Diagnose, DiagnoseFails, BindLegacy, BindNoiseIk, Resolve,
         ResolveFails, NatCheck, StartLegacy, StartNoiseIk, Establish, RunEnds, CtrlC, Crash,
         Refuse, RefuseLate, Loop, Bound, Exit, hostVars, Early, Loaded
  <2>2. pc \in Early \ Loaded => applied = <<>> /\ "Crabnet" \notin rules
    BY DEF Phases, TableInv, Early, Loaded
  <2> QED  BY <2>1, <2>2 DEF managerVars, natVars
<1>2. CASE RouteStep
  <2>1. PICK step : Moves(step)
    BY <1>2, RouteStepsMove, Zenon DEF RouteEffect
  <2>2. CASE step = "Popped"
    <3>1. pc = "RevertNext" /\ UNCHANGED natVars /\ (cleanupFailed => cleanupFailed')
      BY <2>1, <2>2, Zenon DEF Moves, RevertNext, Exit
    <3>2. "Crabnet" \in rules => natApplied # 0
      BY <3>1 DEF TableInv, Loaded
    <3>3. CASE applied # <<>>
      BY <2>1, <2>2, <3>3, Zenon DEF Moves, RevertNext
    <3>4. CASE applied = <<>>
      BY <2>1, <2>2, <3>2, <3>4, Zenon DEF Moves, RevertNext, Exit, natVars
    <3> QED  BY <3>3, <3>4
  <2>3. CASE step # "Popped"
    <3>1. /\ (failed' = failed /\ cleanupFailed' = cleanupFailed) \/ cleanupFailed'
          /\ pc' \in {"Inspect", "Add", "RevertNext", "Delete"}
      BY <2>1, <2>3, Zenon DEF Moves, InstallNext, InstallFails, Reverted, RevertFails, managerVars
    <3> QED  BY <3>1
  <2> QED  BY <2>2, <2>3
<1>3. CASE TableStep
  <2>1. CASE NatLoad
    <3>1. "Crabnet" \notin rules /\ applied = <<>> /\ UNCHANGED managerVars
      BY <2>1, SMTT(30) DEF NatLoad, Phases, TableInv, Early, Loaded
    <3> QED  BY <2>1, <3>1, Zenon DEF NatLoad, Exit, managerVars
  <2>2. CASE NatFingerprint
    BY <2>2 DEF NatFingerprint, managerVars
  <2>3. CASE NatUndo
    <3>1. applied = <<>> /\ UNCHANGED managerVars
      BY <2>3, SMTT(30) DEF NatUndo, Phases, Early
    <3> QED  BY <2>3, <3>1, Zenon DEF NatUndo, Exit, managerVars
  <2>4. CASE NatRevert \/ NatDelete
    BY <2>4, Zenon DEF NatRevert, NatDelete, Exit, managerVars
  <2>5. CASE AdminTable
    <3>1. /\ UNCHANGED <<pc, managerVars, cleanupFailed>>
          /\ "Crabnet" \in rules' => "Crabnet" \in rules
      BY <2>5 DEF AdminTable
    <3> QED  BY <3>1 DEF managerVars
  <2> QED  BY <1>3, <2>1, <2>2, <2>3, <2>4, <2>5, Zenon DEF TableStep
<1> QED  BY <1>1, <1>2, <1>3, SMTT(30)
-----------------------------------------------------------------------------
(* The configuration, and the firewall report                              *)

\* What Config::validate accepts passes the later checks but that of DataFrameCodec::new.
LEMMA ValidPasses ==
    ASSUME NEW c \in Config, Valid(c)
    PROVE  /\ ~FrameCodecFails(c.mtu)
           /\ c.type = "Server" => ~NatSpecFails(c)
           /\ c.security = "NoiseIk" => ~RuntimeFails(c)
<1>1. ~FrameCodecFails(c.mtu)
  <2>1. c.mtu \in 0..U16Max /\ c.mtu # 0
    <3>1. c.mtu # 0
      BY Zenon DEF Valid, TunValid
    <3> QED  BY <3>1, SMTT(30) DEF Config
  <2>2. U16Max \in Nat
    BY DEF U16Max
  <2> QED  BY <2>1, <2>2 DEF FrameCodecFails
<1>2. ASSUME c.type = "Server" PROVE ~NatSpecFails(c)
  <2>1. c.nat => c.address.family = 4 /\ c.egress # {} /\ c.prefix <= 32
    <3>1. c.nat => c.address.family = 4 /\ c.egress # {}
      BY <1>2 DEF Valid, ServerValid, NatValid
    <3>2. c.prefix <= (IF c.address.family = 4 THEN 32 ELSE 128)
      BY Zenon DEF Valid, TunValid
    <3> QED  BY <3>1, <3>2
  <2>2. c.prefix \in 0..255
    BY ZenonT(30) DEF Config
  <2> QED  BY <2>1, <2>2, SMTT(30) DEF NatSpecFails
<1>3. ASSUME c.security = "NoiseIk" PROVE ~RuntimeFails(c)
  <2>1. ~SessionLimitsFail(c) /\ PrivateKeyLoads(c)
    BY <1>3 DEF Valid, SecurityValid, SessionLimitsValid, SessionLimitsFail
  <2>2. ~HandshakeCodecFails(HandshakePayload)
    BY DEF HandshakeCodecFails, HandshakePayload, AttemptIdLength, HeaderLength, U16Max, UdpCeiling
  <2>3. /\ c.type = "Client" => c.serverKey # {} /\ \A k \in c.serverKey : IsPublicKey(k)
        /\ c.type = "Server" => \A k \in Elements(c.allowed) : IsPublicKey(k)
    BY <1>3 DEF Valid, SecurityValid
  <2> QED  BY <2>1, <2>2, <2>3 DEF RuntimeFails
<1> QED  BY <1>1, <1>2, <1>3

\* DataFrameCodec::new on an MTU that Config::validate accepts
LEMMA DataCodecCeiling ==
    ASSUME NEW mtu \in Nat \ {0}
    PROVE  /\ DataFrameCodecFails(mtu) => mtu > LargestDataMtu
           /\ ~DataFrameCodecFails(mtu) => mtu <= LargestDataMtu
BY DEF DataFrameCodecFails, DataFixedLength, DataOverhead, HeaderLength, U16Max, UdpCeiling, LargestDataMtu

\* The idle deadline, for limits as they are deserialized
LEMMA IdleInRange ==
    ASSUME NEW c \in Config, ~IdleDeadlineOverflows(c)
    PROVE  \A l \in c.limits : l.idle <= MaxIdle
<1>1. c.limits \in SUBSET Limits
  BY ZenonT(30) DEF Config
<1> SUFFICES ASSUME NEW l \in c.limits PROVE l.idle <= MaxIdle
  OBVIOUS
<1>2. l.idle \in Nat
  BY <1>1 DEF Limits
<1>3. ~(l.idle > MaxIdle)
  BY Zenon DEF IdleDeadlineOverflows
<1> QED  BY <1>2, <1>3, NetworkAssumption

\* The first turn of the encrypted loop refuses what it cannot run with.
LEMMA EstablishRefuses ==
    ASSUME Phases, RefusalInv, Establish PROVE RefusalInv'
<1>1. pc = "Handshake" /\ pc' # "Handshake" /\ config' = config
  BY Zenon DEF Establish, RefuseLate, Loop
<1>2. \/ DataFrameCodecFails(config.mtu) /\ pc' = "RevertNext" /\ refusal' = {"DataCodec"}
      \/ IdleDeadlineOverflows(config) /\ pc' = "RevertNext" /\ refusal' = {"IdleDeadline"}
      \/ /\ ~DataFrameCodecFails(config.mtu) /\ ~IdleDeadlineOverflows(config)
         /\ refusal' = refusal
  BY Zenon DEF Establish, RefuseLate, Loop
<1>3. config.security = "NoiseIk" /\ LateRefusalsKnown
  BY <1>1, Zenon DEF RefusalInv
<1>4. config \in Config /\ Valid(config)
  BY <1>1, Zenon DEF Phases, Steps
<1>5. config.mtu \in Nat \ {0}
  <2>1. config.mtu \in 0..U16Max
    BY <1>4, ConfigFields, SMTT(30)
  <2>2. config.mtu # 0
    BY <1>4, Zenon DEF Valid, TunValid
  <2> QED  BY <2>1, <2>2
<1>6. CASE DataFrameCodecFails(config.mtu) /\ pc' = "RevertNext" /\ refusal' = {"DataCodec"}
  <2>1. config.mtu > LargestDataMtu
    BY <1>5, <1>6, DataCodecCeiling, Zenon
  <2> QED  BY <1>1, <1>3, <1>6, <2>1, Zenon DEF RefusalInv, LateRefusalsKnown
<1>7. CASE IdleDeadlineOverflows(config) /\ pc' = "RevertNext" /\ refusal' = {"IdleDeadline"}
  BY <1>1, <1>3, <1>7, Zenon DEF RefusalInv, LateRefusalsKnown, IdleDeadlineOverflows
<1>8. CASE /\ ~DataFrameCodecFails(config.mtu) /\ ~IdleDeadlineOverflows(config)
           /\ refusal' = refusal
  <2>1. config.mtu <= LargestDataMtu /\ \A l \in config.limits : l.idle <= MaxIdle
    BY <1>4, <1>5, <1>8, DataCodecCeiling, IdleInRange, Zenon
  <2> QED  BY <1>1, <1>3, <1>8, <2>1, Zenon DEF RefusalInv, LateRefusalsKnown
<1> QED  BY <1>2, <1>6, <1>7, <1>8, Zenon

\* Where the other steps of a process lead, and what they refuse
LEMMA OthersRefuse ==
    ASSUME Phases, OtherStep, ~Establish
    PROVE  /\ config' = config
           /\ refusal' = refusal \/ refusal' = {"Configuration"}
           /\ pc' = "Handshake" => config.security = "NoiseIk"
           /\ pc' = "Forward" => config.security = "Legacy"
<1>1. pc \in {"Bind", "Inspect"} => Valid(config) /\ config \in Config
  BY DEF Phases, Steps
<1>2. config' = config
  BY Zenon DEF OtherStep, Validate, Diagnose, DiagnoseFails, BindLegacy, BindNoiseIk, Resolve,
     ResolveFails, NatCheck, StartLegacy, StartNoiseIk, RunEnds, CtrlC, Crash, startVars
<1>3. refusal' = refusal \/ refusal' = {"Configuration"}
  <2>1. CASE Validate
    BY <2>1, Zenon DEF Validate, Refuse
  <2>2. CASE BindLegacy \/ BindNoiseIk \/ StartLegacy
    BY <1>1, <2>2, ValidPasses, Zenon DEF BindLegacy, BindNoiseIk, StartLegacy, Bound, Loop
  <2>3. CASE ~(Validate \/ BindLegacy \/ BindNoiseIk \/ StartLegacy)
    BY <2>3, Zenon DEF OtherStep, Diagnose, DiagnoseFails, Resolve, ResolveFails, NatCheck,
       StartNoiseIk, RunEnds, CtrlC, Crash, startVars
  <2> QED  BY <2>1, <2>2, <2>3, Zenon
<1>4. /\ pc' = "Handshake" => config.security = "NoiseIk"
      /\ pc' = "Forward" => config.security = "Legacy"
  BY Zenon DEF OtherStep, Validate, Diagnose, DiagnoseFails, BindLegacy, BindNoiseIk, Refuse,
     RefuseLate, Loop, Bound, Resolve, ResolveFails, NatCheck, Exit, StartLegacy, StartNoiseIk,
     RunEnds, CtrlC, Crash
<1> QED  BY <1>2, <1>3, <1>4, Zenon

\* No step refuses a configuration that was accepted by validate but for the two reasons.
LEMMA RefusalSteps ==
    ASSUME Phases, RefusalInv, LifecycleNext PROVE RefusalInv'
<1>1. CASE Establish
  BY <1>1, EstablishRefuses
<1>2. CASE ~Establish
  <2>1. /\ config' = config
        /\ refusal' = refusal \/ refusal' = {"Configuration"}
        /\ pc' = "Handshake" => pc = "Handshake" \/ config.security = "NoiseIk"
        /\ pc' = "Forward" => pc = "Forward" \/ config.security = "Legacy"
    <3>1. CASE OtherStep
      BY <1>2, <3>1, OthersRefuse, Zenon
    <3>2. CASE TableStep
      BY <3>2, Zenon DEF TableStep, NatLoad, NatFingerprint, NatUndo, NatRevert, NatDelete, AdminTable,
         Exit, startVars
    <3>3. CASE RouteStep
      <4>1. PICK step : Moves(step)
        BY <3>3, RouteStepsMove, Zenon DEF RouteEffect
      <4> QED
        BY <4>1, Zenon DEF Moves, InstallNext, InstallFails, RevertNext, Exit, Reverted, RevertFails,
           startVars
    <3>4. ASSUME NEW r \in Resources, AdminRoute(r) PROVE UNCHANGED <<startVars, pc>>
      BY <3>4, Zenon DEF AdminRoute
    <3>5. CASE UNCHANGED <<startVars, pc>>
      BY <3>5, Zenon DEF startVars
    <3>6. OtherStep \/ TableStep \/ RouteStep \/ \E r \in Resources : AdminRoute(r)
      BY Zenon DEF LifecycleNext, Process, Command, Host, OtherStep, TableStep, RouteStep
    <3> QED  BY <3>1, <3>2, <3>3, <3>4, <3>5, <3>6, Zenon
  <2>2. "DataCodec" # "Configuration" /\ "IdleDeadline" # "Configuration" /\ "Legacy" # "NoiseIk"
    OBVIOUS
  <2> QED  BY <2>1, <2>2, Zenon DEF RefusalInv, LateRefusalsKnown
<1> QED  BY <1>1, <1>2

\* No step makes the assessment of the firewall more hopeful than the rules.
LEMMA AssessmentSteps ==
    ASSUME AssessmentConservative, LifecycleNext PROVE AssessmentConservative'
<1>1. CASE UNCHANGED report
  BY <1>1 DEF AssessmentConservative
<1>2. CASE report' = NoReport
  BY <1>2 DEF AssessmentConservative, NoReport
<1>3. ASSUME NEW chains, report' = Report(chains) PROVE AssessmentConservative'
  <2> SUFFICES ASSUME Assess(chains) = "NoDefaultDropObserved", NEW ch \in ForwardChains(chains)
               PROVE  ch.policy \in {{}, {"accept"}}
    BY <1>3 DEF AssessmentConservative, Report, ForwardChains
  <2> DEFINE policies == {Policy(x) : x \in ForwardChains(chains)}
  <2>1. "Unknown" \notin policies /\ "Drop" \notin policies
    BY DEF Assess
  <2>2. Policy(ch) \notin {"Unknown", "Drop"}
    BY <2>1
  <2> QED  BY <2>2 DEF Policy
<1>4. \/ UNCHANGED report \/ report' = NoReport \/ \E chains : report' = Report(chains)
  BY Zenon DEF LifecycleNext, Process, Command, Host, Validate, Establish, BindLegacy, BindNoiseIk,
         StartLegacy, Diagnose, DiagnoseFails, Resolve, ResolveFails,
         NatCheck, NatLoad, NatFingerprint, NatUndo, Inspect, AddRoute, SetForwarding, StartNoiseIk,
         RevertNext, RevertInspect, DeleteRoute, ResetForwarding, NatRevert, NatDelete, RunEnds,
         CtrlC, Crash, AdminTable, AdminRoute, startVars
<1> QED  BY <1>1, <1>2, <1>3, <1>4
-----------------------------------------------------------------------------
(* The invariant                                                           *)

\* A process that was just started satisfies the invariant.
LEMMA LifecycleInvInit == LifecycleInit => LifecycleInv
<1> SUFFICES ASSUME LifecycleInit PROVE LifecycleInv
  OBVIOUS
<1>1. TableInv /\ ReportInv
  BY DEF LifecycleInit, TableInv, ReportInv, Loaded, NatRestoring
<1>2. RefusalInv /\ AssessmentConservative
  BY DEF LifecycleInit, RefusalInv, LateRefusalsKnown, AssessmentConservative, NoReport
<1> QED  BY <1>1, <1>2, PhasesInit, RoutesInit DEF LifecycleInv

\* Every step of the process, of a command and of the host keeps the invariant.
LEMMA LifecycleInvInductive == LifecycleInv /\ [LifecycleNext]_vars => LifecycleInv'
<1> SUFFICES ASSUME LifecycleInv, [LifecycleNext]_vars PROVE LifecycleInv'
  OBVIOUS
<1> USE DEF LifecycleInv
<1>1. CASE LifecycleNext
  <2>1. RefusalInv' /\ AssessmentConservative'
    BY <1>1, RefusalSteps, AssessmentSteps
  <2>2. CASE OtherStep
    BY <2>1, <2>2, PhasesSilent, RoutesQuiet, TableQuiet, ReportSteps, Zenon
  <2>3. CASE TableStep
    BY <2>1, <2>3, PhasesTable, RoutesQuiet, TableSteps, ReportSteps, Zenon
  <2>4. CASE RouteStep
    BY <2>1, <2>4, PhasesRoutes, RoutesSteps, TableQuiet, ReportSteps, Zenon
  <2>5. ASSUME NEW r \in Resources, AdminRoute(r) PROVE LifecycleInv'
    <3>1. UNCHANGED <<pc, managerVars, natVars, cleanupFailed>> /\ ~fresh' /\ touched \subseteq touched'
      BY <2>5 DEF AdminRoute
    <3>2. TableInv' /\ ReportInv'
      BY <3>1, SMTT(30) DEF TableInv, ReportInv, managerVars, natVars
    <3> QED  BY <2>1, <2>5, <3>2, PhasesAdmin, RoutesAdmin, SMTT(30)
  <2> QED  BY <1>1, <2>2, <2>3, <2>4, <2>5, Zenon
           DEF LifecycleNext, Process, Command, Host, OtherStep, TableStep, RouteStep
<1>2. CASE UNCHANGED vars
  <2> USE DEF vars, startVars, managerVars, natVars, routeVars
  <2>1. Phases'
    <3>1. LifecycleTypeOK'
      BY <1>2, ZenonT(30) DEF Phases, LifecycleTypeOK, Planned, Resources, AtMostOne
    <3> QED  BY <1>2, <3>1, ZenonT(30) DEF Phases
  <2>2. RoutesInv'
    BY <1>2, ZenonT(30) DEF RoutesInv, OwnershipTracked, Installed, Unrecognized, Tracked, Planned, Resources,
                Operation, Existing, ExistingRoute, ExistingSetting, InPlace
  <2>3. TableInv'
    BY <1>2, ZenonT(30) DEF TableInv
  <2>4. ReportInv'
    BY <1>2, ZenonT(30) DEF ReportInv
  <2>5. RefusalInv'
    BY <1>2, ZenonT(30) DEF RefusalInv, LateRefusalsKnown
  <2>6. AssessmentConservative'
    BY <1>2, ZenonT(30) DEF AssessmentConservative
  <2> QED  BY <2>1, <2>2, <2>3, <2>4, <2>5, <2>6, Zenon
<1> QED  BY <1>1, <1>2

\* The invariant holds of every behaviour of the process and its host.
LEMMA LifecycleInvAlways == LifecycleSpec => []LifecycleInv
BY LifecycleInvInit, LifecycleInvInductive, PTL DEF LifecycleSpec

\* Application's steps keep the lists, the table's fingerprint and the host well-formed.
THEOREM LifecycleTypeCorrect == LifecycleSpec => []LifecycleTypeOK
<1>1. LifecycleInv => LifecycleTypeOK
  BY DEF LifecycleInv, Phases
<1> QED  BY <1>1, LifecycleInvAlways, PTL

\* RouteManager: no route and no forwarding change is forgotten, on any host, but for routes
\* configured with host bits in their destination.
THEOREM OwnershipAlwaysTracked == LifecycleSpec => []OwnershipTracked
<1>1. LifecycleInv => OwnershipTracked
  BY DEF LifecycleInv, RoutesInv
<1> QED  BY <1>1, LifecycleInvAlways, PTL

\* Application: what a returning process leaves on the host is in its error, but for routes
\* configured with host bits in their destination.
THEOREM LeftoverAlwaysReported == LifecycleSpec => []LeftoverReported
<1>1. LifecycleInv => LeftoverReported
  <2> SUFFICES ASSUME LifecycleInv, pc = "Exited", ~cleanupFailed
               PROVE  Installed \subseteq Unrecognized /\ "Crabnet" \notin rules
    BY DEF LeftoverReported
  <2>1. applied = <<>> /\ failed = <<>> /\ current = <<>>
    BY SMTT(30) DEF LifecycleInv, Phases, LifecycleTypeOK, ReportInv
  <2>2. Tracked = {}
    BY <2>1 DEF Tracked, Elements
  <2>3. Installed \subseteq Unrecognized
    BY <2>2, Zenon DEF LifecycleInv, RoutesInv, OwnershipTracked
  <2> QED  BY <2>3 DEF LifecycleInv, ReportInv
<1> QED  BY <1>1, LifecycleInvAlways, PTL

\* Config::validate, Application::run, DataFrameCodec::new and expire_if_due: a configuration
\* refused once the network is set up is one of the encrypted mode whose MTU is above 65389,
\* where the framing exceeds the largest UDP payload, or whose idle timeout overflows the
\* clock, and no run with such a configuration ever forwards a packet.
THEOREM LateRefusalsExact == LifecycleSpec => []LateRefusalsKnown
<1>1. LifecycleInv => LateRefusalsKnown
  BY DEF LifecycleInv, RefusalInv
<1> QED  BY <1>1, LifecycleInvAlways, PTL

\* assess_forward_chains, for every listing nft may print.
THEOREM AssessmentAlwaysConservative == LifecycleSpec => []AssessmentConservative
<1>1. LifecycleInv => AssessmentConservative
  BY DEF LifecycleInv
<1> QED  BY <1>1, LifecycleInvAlways, PTL

\* Config::validate and full_tunnel_operations: no route of Crabnet's captures its own
\* transport, whatever the configuration.
THEOREM TransportNeverCaptured == LifecycleSpec => []TransportNotCaptured
<1>1. LifecycleInv => TransportNotCaptured
  <2> SUFFICES ASSUME LifecycleInv, pc \notin Restoring \cup Ended, config.type = "Client",
                      NEW ip \in config.server, NEW r \in Resources,
                      Contains(r, ip), r # HostRoute(ip), holder[r] = "Crabnet"
               PROVE  /\ HostRoute(ip) \in Resources
                      /\ \/ HostRoute(ip) \in touched
                         \/ holder[HostRoute(ip)] # "None" /\ HostRoute(ip) \notin conflicting
    BY DEF TransportNotCaptured
  <2>1. pc \in Installing /\ config \in Config
    BY Zenon DEF LifecycleInv, Phases, LifecycleTypeOK, Steps, Installing, Early
  <2>2. failed = <<>> /\ current = <<>>
    BY <2>1, Zenon DEF LifecycleInv, Phases, LifecycleTypeOK, Installing, Early
  <2>3. PICK p \in Elements(applied) : r = Entry(p)
    <3>1. Tracked = Elements(applied)
      BY <2>2 DEF Tracked, Elements
    <3>2. r \in {Entry(op) : op \in Tracked}
      BY <2>1, Zenon DEF LifecycleInv, RoutesInv, Installed
    <3> QED  BY <3>1, <3>2, Zenon
  <2>4. PICK i \in 1..(index - 1) : p = Operations(config)[i]
    BY <2>1, SMTT(30) DEF LifecycleInv, RoutesInv
  <2>5. pc # "Validate" /\ Valid(config)
    <3>1. applied # <<>>
      BY DEF Elements
    <3> QED  BY <2>1, <3>1, Zenon DEF LifecycleInv, Phases, LifecycleTypeOK, Ended, Early
  <2>6. config.fullTunnel
    <3> SUFFICES ASSUME ~config.fullTunnel PROVE FALSE
      OBVIOUS
    <3>1. p \in Elements(config.protected)
      <4>1. Operations(config) = config.protected
        BY DEF Operations, SplitTunnelOperations
      <4>2. p \in Planned
        BY TrackedType DEF LifecycleInv, Tracked
      <4> QED  BY <4>1, <4>2, Zenon DEF Planned
    <3>2. p \in Network
      <4>1. config.protected \in Seq(Network)
        BY <2>1, ZenonT(30) DEF Config
      <4> QED  BY <3>1, <4>1, ElementsOf, SMTT(30)
    <3>3. Contains(p, ip)
      BY <2>3, <3>2, SMTT(30) DEF Network, Contains, Entry
    <3> QED  BY <2>5, <3>1, <3>3, Zenon DEF Valid, ClientValid
  <2>7. Operations(config) = <<HostRoute(ip), DefaultRoute(config.address)>>
    <3>1. config.server = {ip}
      BY SMTT(30) DEF LifecycleInv, Phases
    <3>2. (CHOOSE x \in config.server : TRUE) = ip
      BY <3>1
    <3> QED  BY <2>6, <3>2, Zenon DEF Operations, FullTunnelOperations
  <2>8. index \in Nat /\ index <= 3
    BY <2>7, SMTT(30) DEF LifecycleInv, Phases, LifecycleTypeOK
  <2>9. 1 \in 1..(index - 1) /\ Operations(config)[1] = HostRoute(ip)
    BY <2>4, <2>7, <2>8, SMTT(30)
  <2>10. Entry(HostRoute(ip)) = HostRoute(ip) /\ Recognized(HostRoute(ip))
    BY HostRouteEntry, Zenon
  <2>11. HostRoute(ip) \in Resources
    <3>1. HostRoute(ip) \in Planned
      BY <2>7 DEF Planned, Elements
    <3> QED  BY <2>10, <3>1, EntryType, Zenon
  <2>12. InPlace(HostRoute(ip))
    BY <2>1, <2>9, Zenon DEF LifecycleInv, RoutesInv
  <2> QED  BY <2>10, <2>11, <2>12, Zenon DEF InPlace
<1> QED  BY <1>1, LifecycleInvAlways, PTL

\* A step that is neither a route step nor the administrator's leaves the routes alone,
\* and so does one that is neither a table step nor the administrator's with the table.
LEMMA StepKinds ==
    ASSUME LifecycleInv, LifecycleNext
    PROVE  \/ UNCHANGED <<holder, rules>>
           \/ TableStep /\ UNCHANGED holder
           \/ RouteStep /\ UNCHANGED <<rules, touched>>
           \/ \E r \in Resources : AdminRoute(r)
<1>1. OtherStep \/ TableStep \/ RouteStep \/ \E r \in Resources : AdminRoute(r)
  BY DEF LifecycleNext, Process, Command, Host, OtherStep, TableStep, RouteStep
<1>2. ASSUME OtherStep PROVE UNCHANGED <<holder, rules>>
  BY <1>2, Zenon DEF OtherStep, Validate, Diagnose, DiagnoseFails, BindLegacy, BindNoiseIk, Resolve,
         ResolveFails, NatCheck, StartLegacy, StartNoiseIk, Establish, RunEnds, CtrlC, Crash,
         hostVars, natVars, routeVars
<1>3. ASSUME TableStep PROVE UNCHANGED holder
  BY <1>3, Zenon DEF TableStep, NatLoad, NatFingerprint, NatUndo, NatRevert, NatDelete, AdminTable, routeVars
<1>4. ASSUME RouteStep PROVE UNCHANGED <<rules, touched>>
  BY <1>4, QuietTable DEF LifecycleInv, natVars
<1> QED  BY <1>1, <1>2, <1>3, <1>4, SMTT(30)

\* apply_route, apply_ipv4_forwarding and table_exists: the inspections before a change
\* and the lists that cleanup works through spare what others set up before.
THEOREM PreexistingAlwaysPreserved == LifecycleSpec => PreexistingPreserved
<1> DEFINE Preserved ==
             /\ \A r \in Resources \ touched' : holder[r] = "Admin" => holder'[r] = "Admin"
             /\ Table \notin touched' /\ rules = {"Admin"} => rules' = {"Admin"}
<1>1. ASSUME LifecycleInv, [LifecycleNext]_vars PROVE [Preserved]_vars
  <2> SUFFICES ASSUME LifecycleNext PROVE Preserved
    BY <1>1
  <2>1. Phases /\ RoutesInv /\ TableInv
    BY <1>1 DEF LifecycleInv
  <2>2. holder \in [Resources -> Parties \cup {"None"}]
    BY <2>1, SMTT(30) DEF Phases, LifecycleTypeOK
  <2>3. CASE UNCHANGED <<holder, rules>>
    BY <2>3
  <2>4. CASE TableStep /\ UNCHANGED holder
    <3> SUFFICES ASSUME Table \notin touched', rules = {"Admin"} PROVE rules' = rules
      BY <2>4
    <3>1. CASE NatLoad \/ NatUndo \/ NatDelete
      <4>1. "Crabnet" \notin rules /\ rules # {} /\ Table \notin touched
        BY <3>1, Zenon DEF NatLoad, NatUndo, NatDelete
      <4>2. pc # "NatLoad" /\ pc \notin Loaded /\ natApplied = 0
        BY <2>1, <4>1 DEF TableInv
      <4>3. pc # "NatDelete"
        BY <2>1, <4>2, SMTT(30) DEF Phases, NatRestoring
      <4> QED  BY <3>1, <4>2, <4>3, Zenon DEF NatLoad, NatUndo, NatDelete, Loaded
    <3>2. CASE NatFingerprint \/ NatRevert
      BY <3>2, Zenon DEF NatFingerprint, NatRevert
    <3>3. CASE AdminTable
      BY <3>3 DEF AdminTable
    <3> QED  BY <2>4, <3>1, <3>2, <3>3, SMTT(30) DEF TableStep
  <2>5. CASE RouteStep /\ UNCHANGED <<rules, touched>>
    <3>1. PICK step : RouteEffect(step)
      BY <2>1, <2>5, RouteStepsMove
    <3> SUFFICES ASSUME NEW r \in Resources \ touched, holder[r] = "Admin" PROVE holder'[r] = "Admin"
      BY <2>5
    <3>2. CASE step = "Added"
      <4>1. /\ pc = "Add" /\ holder' = [holder EXCEPT ![Entry(Operation)] = "Crabnet"]
            /\ holder[Entry(Operation)] = "None" \/ Operation \in Settings
        BY <3>1, <3>2, Zenon DEF RouteEffect, Moves
      <4>2. Entry(Operation) \in touched \/ holder[Entry(Operation)] = "None"
        BY <2>1, <4>1, MissingFree, Zenon DEF RoutesInv
      <4>3. r # Entry(Operation)
        BY <4>2
      <4> QED  BY <2>2, <4>1, <4>3, Zenon
    <3>3. CASE step = "Reverted" /\ holder' # holder
      <4>1. pc = "Delete" /\ holder' = [holder EXCEPT ![Entry(current[1])] = "None"]
        BY <3>1, <3>3, Zenon DEF RouteEffect
      <4>2. current[1] \in Tracked
        BY <2>1, <4>1, CurrentOne, SMTT(30) DEF Tracked, Elements
      <4>3. r # Entry(current[1])
        BY <2>1, <4>2, Zenon DEF RoutesInv
      <4> QED  BY <2>2, <4>1, <4>3, Zenon
    <3>4. CASE UNCHANGED holder
      BY <3>4
    <3> QED  BY <3>1, <3>2, <3>3, <3>4, SMTT(30) DEF RouteEffect
  <2>6. ASSUME NEW a \in Resources, AdminRoute(a) PROVE Preserved
    <3>1. /\ touched' = touched \cup {a} /\ UNCHANGED rules
          /\ \E h : holder' = [holder EXCEPT ![a] = h]
      BY <2>6, Zenon DEF AdminRoute, natVars
    <3> QED  BY <2>2, <3>1
  <2> QED  BY <1>1, <2>3, <2>4, <2>5, <2>6, StepKinds, Zenon
<1> QED  BY <1>1, LifecycleInvAlways, PTL DEF LifecycleSpec, PreexistingPreserved

\* revert_route and LinuxNatBackend::revert: while the host is as they inspected it, they
\* delete only what they installed.
THEOREM ChangedStateAlwaysKept == LifecycleSpec => ChangedStateKept
<1> DEFINE Kept ==
             fresh => /\ pc = "Delete" /\ holder' # holder => Entry(current[1]) \notin conflicting
                      /\ pc = "NatDelete" /\ rules' # rules => handle = natApplied
<1>1. ASSUME LifecycleInv PROVE Kept
  <2>1. fresh /\ pc = "NatDelete" => handle = natApplied
    BY <1>1 DEF LifecycleInv, TableInv
  <2>2. fresh /\ pc = "Delete" => Existing(current[1]) = "Identical"
    BY <1>1 DEF LifecycleInv, RoutesInv
  <2>3. fresh /\ pc = "Delete" => Entry(current[1]) \notin conflicting
    BY <1>1, <2>2, IdenticalInPlace, Zenon DEF LifecycleInv
  <2> QED  BY <2>1, <2>3
<1> QED  BY <1>1, LifecycleInvAlways, PTL DEF LifecycleSpec, ChangedStateKept
-----------------------------------------------------------------------------
(* Why cleanup ends: RestoreCompletes without the fairness                 *)

\* The commands that may still follow the one at p, with n operations to revert
Work(p, n) == CASE p = "RevertNext" -> 3 * n + 3
                [] p = "RevertInspect" -> 3 * n + 5
                [] p = "Delete" -> 3 * n + 4
                [] p = "NatRevert" -> 2
                [] p = "NatDelete" -> 1
                [] OTHER -> 0

CleanupWork == Work(pc, Len(applied))

\* RouteManager.applied, `failed` and the operation being reverted
Ledger == Len(applied) + Len(failed) + Len(current)

\* No operation is recorded twice, however often reverting it fails.
LedgerBounded == Ledger <= index - 1

\* A command of cleanup is done, whether it succeeded or not, or the host changed.
CleanupAdvances ==
    pc \in Restoring =>
        \/ pc' \in Restoring \cup Ended /\ CleanupWork' < CleanupWork
        \/ UNCHANGED <<pc, managerVars, natApplied>>

\* The lists have lengths.
LEMMA ListLengths ==
    ASSUME Phases
    PROVE  /\ Len(applied) \in Nat /\ Len(failed) \in Nat /\ Len(current) \in 0..1
           /\ index \in Nat /\ index <= Len(Operations(config)) + 1 /\ Len(Operations(config)) \in Nat
           /\ pc \in {"RevertInspect", "Delete"} => Len(current) = 1
           /\ pc \notin {"RevertInspect", "Delete", "Interrupted", "Killed"} => current = <<>>
<1>1. applied \in Seq(Planned) /\ failed \in Seq(Planned) /\ current \in AtMostOne
  BY SMTT(30) DEF Phases, LifecycleTypeOK
<1>2. Len(Operations(config)) \in Nat
  BY OperationsType DEF Phases
<1>3. index \in Nat /\ index <= Len(Operations(config)) + 1
  BY <1>2, SMTT(30) DEF Phases, LifecycleTypeOK
<1>4. current = <<>> \/ \E r \in Planned : current = <<r>>
  BY <1>1 DEF AtMostOne
<1>5. Len(current) \in 0..1 /\ (current # <<>> => Len(current) = 1)
  BY <1>4
<1>6. /\ pc \in {"RevertInspect", "Delete"} => current # <<>>
      /\ pc \notin {"RevertInspect", "Delete", "Interrupted", "Killed"} => current = <<>>
  BY Zenon DEF Phases, LifecycleTypeOK
<1>7. Len(applied) \in Nat /\ Len(failed) \in Nat
  BY <1>1
<1> QED  BY <1>2, <1>3, <1>5, <1>6, <1>7, Zenon

\* The last operation of the list is taken off it.
LEMMA PoppedLength ==
    ASSUME NEW S, NEW s \in Seq(S), s # <<>>
    PROVE  Len(s) \in Nat \ {0} /\ Len(SubSeq(s, 1, Len(s) - 1)) = Len(s) - 1
<1>1. Len(s) \in Nat /\ Len(s) > 0 /\ DOMAIN s = 1..Len(s)
  OBVIOUS
<1>2. /\ SubSeq(s, 1, Len(s) - 1) \in Seq(S)
      /\ DOMAIN SubSeq(s, 1, Len(s) - 1) = 1..(Len(s) - 1)
  BY <1>1
<1>3. Len(SubSeq(s, 1, Len(s) - 1)) = Len(s) - 1
  BY <1>1, <1>2
<1> QED  BY <1>1, <1>3

\* A step of RouteManager during cleanup
LEMMA RouteAdvances ==
    ASSUME Phases, NEW step, Moves(step), pc \in Restoring
    PROVE  pc' \in Restoring \cup Ended /\ CleanupWork' < CleanupWork
<1> DEFINE n == Len(applied)
<1>1. n \in Nat
  BY ListLengths
<1>2. CASE step = "Popped" /\ applied # <<>>
  <2>1. /\ pc = "RevertNext" /\ pc' = "RevertInspect"
        /\ applied' = SubSeq(applied, 1, Len(applied) - 1)
    BY <1>2, Zenon DEF Moves, RevertNext
  <2>2. Len(applied') = n - 1
    BY <1>2, <2>1, PoppedLength, SMTT(30) DEF Phases, LifecycleTypeOK
  <2>3. Work("RevertInspect", n - 1) < Work("RevertNext", n)
    BY <1>1 DEF Work
  <2>4. CleanupWork' = Work("RevertInspect", n - 1) /\ CleanupWork = Work("RevertNext", n)
    BY <2>1, <2>2, Zenon DEF CleanupWork
  <2> QED  BY <2>1, <2>3, <2>4, SMTT(30) DEF Restoring
<1>3. CASE step = "Popped" /\ applied = <<>>
  <2>1. pc = "RevertNext" /\ pc' \in {"NatRevert", "Exited"}
    BY <1>3, Zenon DEF Moves, RevertNext, Exit
  <2>2. \A m : Work("NatRevert", m) < Work("RevertNext", n) /\ Work("Exited", m) < Work("RevertNext", n)
    BY <1>1 DEF Work
  <2> QED  BY <2>1, <2>2, Zenon DEF CleanupWork, Restoring, Ended
<1>4. CASE step = "Found"
  <2>1. pc = "RevertInspect" /\ pc' = "Delete" /\ applied' = applied
    BY <1>4, Zenon DEF Moves, managerVars
  <2>2. Work("Delete", n) < Work("RevertInspect", n)
    BY <1>1 DEF Work
  <2> QED  BY <2>1, <2>2, Zenon DEF CleanupWork, Restoring
<1>5. CASE step \in {"Reverted", "Retained"}
  <2>1. pc \in {"RevertInspect", "Delete"} /\ pc' = "RevertNext" /\ applied' = applied
    BY <1>5, Zenon DEF Moves, Reverted, RevertFails
  <2>2. Work("RevertNext", n) < Work("RevertInspect", n) /\ Work("RevertNext", n) < Work("Delete", n)
    BY <1>1 DEF Work
  <2> QED  BY <2>1, <2>2, Zenon DEF CleanupWork, Restoring
<1>6. step \in {"Popped", "Found", "Reverted", "Retained"}
  BY Zenon DEF Moves, Restoring
<1> QED  BY <1>2, <1>3, <1>4, <1>5, <1>6, Zenon

\* Every step during cleanup
LEMMA StepAdvances == ASSUME Phases, LifecycleNext PROVE CleanupAdvances
<1> SUFFICES ASSUME pc \in Restoring
             PROVE  \/ pc' \in Restoring \cup Ended /\ CleanupWork' < CleanupWork
                    \/ UNCHANGED <<pc, managerVars, natApplied>>
  BY DEF CleanupAdvances
<1>1. OtherStep \/ TableStep \/ RouteStep \/ \E r \in Resources : AdminRoute(r)
  BY Zenon DEF LifecycleNext, Process, Command, Host, OtherStep, TableStep, RouteStep
<1>2. CleanupWork \in Nat \ {0}
  <2>1. \A n \in Nat : \A p \in Restoring : Work(p, n) \in Nat \ {0}
    BY DEF Work, Restoring
  <2> QED  BY <2>1, ListLengths, Zenon DEF CleanupWork
<1>3. \A p \in Ended : \A n : Work(p, n) = 0
  BY DEF Work, Ended
<1>4. CASE OtherStep
  <2>1. pc' \in Ended
    BY <1>4, Zenon DEF OtherStep, Validate, Diagnose, DiagnoseFails, BindLegacy, BindNoiseIk, Resolve,
         ResolveFails, NatCheck, StartLegacy, StartNoiseIk, Establish, RunEnds, CtrlC, Crash, Restoring, Ended, RefuseLate, Loop
  <2>2. CleanupWork' = 0
    BY <1>3, <2>1, Zenon DEF CleanupWork
  <2> QED  BY <1>2, <2>1, <2>2
<1>5. CASE TableStep
  <2>1. \/ pc = "NatRevert" /\ pc' \in {"NatDelete", "Exited"}
        \/ pc = "NatDelete" /\ pc' = "Exited"
        \/ UNCHANGED <<pc, managerVars, natApplied>>
    BY <1>5, Zenon DEF TableStep, NatLoad, NatFingerprint, NatUndo, NatRevert, NatDelete, AdminTable,
           Exit, Restoring
  <2>2. \A m, n : /\ Work("NatDelete", m) < Work("NatRevert", n) /\ Work("Exited", m) < Work("NatRevert", n)
                  /\ Work("Exited", m) < Work("NatDelete", n)
    BY DEF Work
  <2> QED  BY <2>1, <2>2, Zenon DEF CleanupWork, Restoring, Ended
<1>6. CASE RouteStep
  <2>1. PICK step : Moves(step)
    BY <1>6, RouteStepsMove, Zenon DEF RouteEffect
  <2> QED  BY <2>1, RouteAdvances, Zenon
<1>7. ASSUME NEW r \in Resources, AdminRoute(r) PROVE UNCHANGED <<pc, managerVars, natApplied>>
  BY <1>7, Zenon DEF AdminRoute, natVars
<1> QED  BY <1>1, <1>4, <1>5, <1>6, <1>7, Zenon

\* RouteManager::restore and LinuxNatBackend::revert: every command of a rollback or of
\* cleanup, whether it succeeds or fails, brings it nearer to its end, and nothing the
\* administrator or a signal does takes it further away.  With fairness for the commands,
\* this is what RestoreCompletes rests on.
THEOREM CleanupAlwaysAdvances == LifecycleSpec => [][CleanupAdvances]_vars
<1>1. LifecycleInv /\ [LifecycleNext]_vars => [CleanupAdvances]_vars
  BY StepAdvances, Zenon DEF LifecycleInv
<1> QED  BY <1>1, LifecycleInvAlways, PTL DEF LifecycleSpec

\* The ledger of a step of RouteManager
LEMMA RouteKeepsLedger ==
    ASSUME Phases, LedgerBounded, NEW step, Moves(step)
    PROVE  LedgerBounded'
<1> DEFINE a == Len(applied)
           f == Len(failed)
           c == Len(current)
<1>1. a \in Nat /\ f \in Nat /\ c \in 0..1 /\ index \in Nat /\ a + f + c <= index - 1
  BY ListLengths DEF LedgerBounded, Ledger
<1>2. applied \in Seq(Planned) /\ failed \in Seq(Planned)
  BY SMTT(30) DEF Phases, LifecycleTypeOK
<1> HIDE DEF a, f, c
<1>3. SUFFICES Len(applied') + Len(failed') + Len(current') <= index' - 1
  BY DEF LedgerBounded, Ledger
<1>4. CASE step \in {"Missing", "Failed", "Found"}
  <2>1. UNCHANGED managerVars
    BY <1>4, Zenon DEF Moves, InstallFails
  <2> QED  BY <1>1, <2>1 DEF managerVars, a, f, c
<1>5. CASE step \in {"Identical", "Added"}
  <2>1. /\ \/ applied' = applied
           \/ step = "Added" /\ applied' = Append(applied, Operation)
        /\ index' = index + 1 /\ UNCHANGED <<current, failed>>
    BY <1>5, Zenon DEF Moves, InstallNext
  <2>2. step = "Added" => Operation \in Planned
    BY OperationType, Zenon DEF Moves, Phases
  <2>3. Len(applied') \in {a, a + 1}
    BY <1>2, <2>1, <2>2, SMTT(30) DEF a
  <2>4. Len(failed') = f /\ Len(current') = c
    BY <2>1, Zenon DEF f, c
  <2> QED  BY <1>1, <2>1, <2>3, <2>4, SMTT(30)
<1>6. CASE step = "Popped" /\ applied # <<>>
  <2>1. /\ current' = <<applied[Len(applied)]>> /\ UNCHANGED <<failed, index>>
        /\ applied' = SubSeq(applied, 1, Len(applied) - 1) /\ pc = "RevertNext"
    BY <1>6, Zenon DEF Moves, RevertNext
  <2>2. Len(applied') = a - 1
    BY <1>2, <1>6, <2>1, PoppedLength, SMTT(30) DEF a
  <2>3. Len(current') = 1 /\ Len(failed') = f
    BY <2>1 DEF f
  <2>4. c = 0
    <3>1. current = <<>>
      BY <2>1, ListLengths
    <3> QED  BY <3>1 DEF c
  <2> QED  BY <1>1, <2>1, <2>2, <2>3, <2>4, SMTT(30)
<1>7. CASE step = "Popped" /\ applied = <<>>
  <2>1. applied' = failed /\ failed' = <<>> /\ UNCHANGED <<current, index>>
    BY <1>7, Zenon DEF Moves, RevertNext
  <2>2. Len(applied') = f /\ Len(failed') = 0 /\ Len(current') = c
    BY <2>1 DEF f, c
  <2> QED  BY <1>1, <2>1, <2>2, SMTT(30)
<1>8. CASE step = "Reverted"
  <2>1. current' = <<>> /\ UNCHANGED <<applied, failed, index>>
    BY <1>8, Zenon DEF Moves, Reverted
  <2>2. Len(applied') = a /\ Len(failed') = f /\ Len(current') = 0
    BY <2>1 DEF a, f
  <2> QED  BY <1>1, <2>1, <2>2, SMTT(30)
<1>9. CASE step = "Retained"
  <2>1. /\ failed' = current \o failed /\ current' = <<>> /\ UNCHANGED <<applied, index>>
        /\ pc \in {"RevertInspect", "Delete"}
    BY <1>9, Zenon DEF Moves, RevertFails
  <2>2. current[1] \in Planned /\ current = <<current[1]>>
    BY <2>1, CurrentOne
  <2>3. failed' = <<current[1]>> \o failed
    BY <2>1, <2>2, Zenon
  <2>4. Len(failed') = 1 + f
    BY <1>2, <2>2, <2>3, SMTT(30) DEF f
  <2>5. Len(applied') = a /\ Len(current') = 0 /\ c = 1
    <3>1. Len(current) = 1
      BY <2>1, ListLengths
    <3> QED  BY <2>1, <3>1 DEF a, c
  <2> QED  BY <1>1, <2>1, <2>4, <2>5, SMTT(30)
<1> QED  BY <1>4, <1>5, <1>6, <1>7, <1>8, <1>9, Zenon DEF Moves

\* RouteManager: what it holds never exceeds what it installed, so a rollback or cleanup
\* is a bounded number of commands, whatever fails.
THEOREM CleanupAlwaysBounded ==
    LifecycleSpec => [](pc \in Restoring => CleanupWork \in 1..(3 * Len(Operations(config)) + 3))
<1>1. LifecycleInit => LedgerBounded
  <2> SUFFICES ASSUME LifecycleInit PROVE LedgerBounded
    OBVIOUS
  <2>1. applied = <<>> /\ failed = <<>> /\ current = <<>> /\ index = 1
    BY Zenon DEF LifecycleInit
  <2> QED  BY <2>1 DEF LedgerBounded, Ledger
<1>2. LifecycleInv /\ LedgerBounded /\ [LifecycleNext]_vars => LedgerBounded'
  <2> SUFFICES ASSUME LifecycleInv, LedgerBounded, [LifecycleNext]_vars PROVE LedgerBounded'
    OBVIOUS
  <2>1. Phases
    BY DEF LifecycleInv
  <2>2. CASE UNCHANGED managerVars
    BY <2>2, Zenon DEF LedgerBounded, Ledger, managerVars
  <2>3. CASE RouteStep
    <3>1. PICK step : Moves(step)
      BY <2>1, <2>3, RouteStepsMove, Zenon DEF RouteEffect
    <3> QED  BY <2>1, <3>1, RouteKeepsLedger, Zenon
  <2>4. RouteStep \/ UNCHANGED managerVars
    <3>1. \/ OtherStep \/ TableStep \/ RouteStep \/ (\E r \in Resources : AdminRoute(r))
          \/ UNCHANGED vars
      BY Zenon DEF LifecycleNext, Process, Command, Host, OtherStep, TableStep, RouteStep
    <3>2. ASSUME OtherStep PROVE UNCHANGED managerVars
      BY <3>2, Zenon DEF OtherStep, Validate, Diagnose, DiagnoseFails, BindLegacy, BindNoiseIk, Resolve,
         ResolveFails, NatCheck, StartLegacy, StartNoiseIk, Establish, RunEnds, CtrlC, Crash
    <3>3. ASSUME TableStep PROVE UNCHANGED managerVars
      BY <3>3, Zenon DEF TableStep, NatLoad, NatFingerprint, NatUndo, NatRevert, NatDelete, AdminTable
    <3>4. ASSUME NEW r \in Resources, AdminRoute(r) PROVE UNCHANGED managerVars
      BY <3>4, Zenon DEF AdminRoute
    <3>5. ASSUME UNCHANGED vars PROVE UNCHANGED managerVars
      BY <3>5, Zenon DEF vars
    <3> QED  BY <3>1, <3>2, <3>3, <3>4, <3>5, Zenon
  <2> QED  BY <2>2, <2>3, <2>4, Zenon
<1>3. LifecycleInv /\ LedgerBounded =>
          (pc \in Restoring => CleanupWork \in 1..(3 * Len(Operations(config)) + 3))
  <2> SUFFICES ASSUME LifecycleInv, LedgerBounded, pc \in Restoring
               PROVE  CleanupWork \in 1..(3 * Len(Operations(config)) + 3)
    OBVIOUS
  <2> DEFINE n == Len(applied)
             m == Len(Operations(config))
  <2>1. Phases
    BY DEF LifecycleInv
  <2> DEFINE f == Len(failed)
             c == Len(current)
  <2>2. /\ n \in Nat /\ m \in Nat /\ f \in Nat /\ c \in 0..1 /\ index \in Nat /\ index <= m + 1
        /\ pc \in {"RevertInspect", "Delete"} => c = 1
    BY <2>1, ListLengths, Zenon
  <2>3. n + f + c <= index - 1
    BY Zenon DEF LedgerBounded, Ledger
  <2> HIDE DEF n, m, f, c
  <2>4. n <= m /\ (c = 1 => n + 1 <= m)
    BY <2>2, <2>3
  <2>5. Work(pc, n) \in 1..(3 * m + 3)
    BY <2>2, <2>4 DEF Work, Restoring
  <2> QED  BY <2>5, Zenon DEF CleanupWork, n, m
<1> QED  BY <1>1, <1>2, <1>3, LifecycleInvAlways, PTL DEF LifecycleSpec
=============================================================================

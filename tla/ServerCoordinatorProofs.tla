---------------------- MODULE ServerCoordinatorProofs ----------------------
(***************************************************************************)
(* What SessionManager promises, and what ServerCoordinator does with it:  *)
(* the coordinator drives its session manager only through the manager's   *)
(* operations, and the three maps that hold a candidate agree after every  *)
(* public call, for every set of sources, attempts and payloads and every  *)
(* capacity, timeout and bound.  Then which sessions the coordinator       *)
(* establishes, when, and what that costs the other sources.               *)
(***************************************************************************)
EXTENDS ServerCoordinator, TLAPS

-----------------------------------------------------------------------------
(* The session manager.  ManagerInv is inductive as it stands.             *)

ManagerInv == ManagerTypeOK /\ WithinCapacity /\ IdsDistinct
-----------------------------------------------------------------------------
\* An expiry pass keeps a part of the map, and that part unchanged.
LEMMA LivePendingPart ==
    /\ DOMAIN LivePending \subseteq DOMAIN pending
    /\ \A s \in DOMAIN LivePending : LivePending[s] = pending[s]
BY DEF LivePending, Without

\* The conditions under which admit adds a candidate
LEMMA AddedMeans ==
    ASSUME NEW s \in Sources, AdmissionOutcome(s) = "Added"
    PROVE  /\ manager # "Closed"
           /\ s \notin DOMAIN LivePending
           /\ ~(Cardinality(DOMAIN LivePending) >= MaximumPending)
           /\ ~(now + HandshakeTimeout > MaxInstant)
           /\ nextCandidateId # MaxCandidateId
BY DEF AdmissionOutcome

\* Any part of a well-formed map of candidates is one, and is injective with it.
LEMMA PartKeepsTypes ==
    ASSUME ManagerInv,
           NEW S \in SUBSET DOMAIN pending,
           pending' = [s \in S |-> pending[s]],
           manager' \in {"Running", "Closed"},
           UNCHANGED <<now, nextCandidateId>>
    PROVE  ManagerTypeOK' /\ IdsDistinct' /\ DOMAIN pending' \subseteq DOMAIN pending
<1>1. ManagerTypeOK'
  BY DEF ManagerInv, ManagerTypeOK, IsMap
<1>2. IdsDistinct'
  BY DEF ManagerInv, IdsDistinct
<1> QED
  BY <1>1, <1>2

\* expire_pending keeps types and identifiers, and adds no candidate.
LEMMA ExpirePendingKeepsTypes ==
    ASSUME ManagerInv, ExpirePending
    PROVE  ManagerTypeOK' /\ IdsDistinct' /\ DOMAIN pending' \subseteq DOMAIN pending
BY PartKeepsTypes DEF ExpirePending, LivePending, Without, ManagerInv, ManagerTypeOK

\* So does remove_candidate,
LEMMA RemoveCandidateKeepsTypes ==
    ASSUME ManagerInv, NEW s \in Sources, RemoveCandidate(s)
    PROVE  ManagerTypeOK' /\ IdsDistinct' /\ DOMAIN pending' \subseteq DOMAIN pending
<1> DEFINE S == DOMAIN LivePending \ {s}
<1>1. pending' = [t \in S |-> pending[t]] /\ S \in SUBSET DOMAIN pending
  BY LivePendingPart DEF RemoveCandidate, Without, LivePending
<1> QED
  BY <1>1, PartKeepsTypes DEF RemoveCandidate, ManagerInv, ManagerTypeOK

\* admit followed by remove_candidate in one call,
LEMMA AdmitAndRemoveKeepsTypes ==
    ASSUME ManagerInv, NEW s \in Sources, AdmitAndRemove(s)
    PROVE  ManagerTypeOK' /\ IdsDistinct' /\ DOMAIN pending' \subseteq DOMAIN pending
<1>1. nextCandidateId < MaxCandidateId
  BY AddedMeans, PolicyAssumption DEF AdmitAndRemove, ManagerInv, ManagerTypeOK
<1>2. DOMAIN pending' \subseteq DOMAIN pending /\ \A t \in DOMAIN pending' : pending'[t] = pending[t]
  BY LivePendingPart DEF AdmitAndRemove
<1>3. ManagerTypeOK'
  BY <1>1, <1>2, LivePendingPart, PolicyAssumption
  DEF AdmitAndRemove, LivePending, Without, ManagerInv, ManagerTypeOK, IsMap
<1>4. IdsDistinct'
  <2>1. \A t \in DOMAIN pending : pending[t].id \in Nat
    BY DEF ManagerInv, ManagerTypeOK, IsMap, Candidate
  <2>2. nextCandidateId' = nextCandidateId + 1 /\ nextCandidateId \in Nat
    BY DEF AdmitAndRemove, ManagerInv, ManagerTypeOK
  <2> QED
    BY <1>2, <2>1, <2>2 DEF ManagerInv, IdsDistinct
<1> QED
  BY <1>2, <1>3, <1>4

\* and shutdown.
LEMMA ShutdownManagerKeepsTypes ==
    ASSUME ManagerInv, ShutdownManager
    PROVE  ManagerTypeOK' /\ IdsDistinct' /\ DOMAIN pending' \subseteq DOMAIN pending
<1>1. pending' = [s \in {} |-> pending[s]]
  BY DEF ShutdownManager, EmptyMap
<1> QED
  BY <1>1, PartKeepsTypes, Zenon DEF ShutdownManager

\* admit's effect on the sources that have a candidate
Grows(s) ==
    /\ s \notin DOMAIN LivePending
    /\ ~(Cardinality(DOMAIN LivePending) >= MaximumPending)
    /\ DOMAIN pending' = DOMAIN LivePending \cup {s}

\* admit keeps types and identifiers, and adds one candidate below the capacity.
LEMMA AdmitKeepsTypes ==
    ASSUME ManagerInv, NEW s \in Sources, Admit(s)
    PROVE  ManagerTypeOK' /\ IdsDistinct' /\ Grows(s)
<1> DEFINE L == DOMAIN LivePending
<1>1. /\ s \notin L
      /\ ~(Cardinality(L) >= MaximumPending)
      /\ now + HandshakeTimeout <= MaxInstant
      /\ nextCandidateId < MaxCandidateId
  BY AddedMeans, PolicyAssumption DEF Admit, ManagerInv, ManagerTypeOK
<1>2. pending' = Put(LivePending, s, NewCandidate) /\ DOMAIN pending' = L \cup {s}
  BY DEF Admit, Put
<1>3. NewCandidate \in Candidate
  BY <1>1, PolicyAssumption DEF NewCandidate, Candidate, ManagerInv, ManagerTypeOK
<1>4. ManagerTypeOK'
  <2>1. IsMap(pending', Sources, Candidate)
    BY <1>2, <1>3, LivePendingPart DEF ManagerInv, ManagerTypeOK, IsMap, Put
  <2> QED
    BY <1>1, <2>1, PolicyAssumption DEF Admit, ManagerInv, ManagerTypeOK
<1>5. IdsDistinct'
  <2>1. \A t \in L : pending'[t] = pending[t] /\ t \in DOMAIN pending /\ t # s
    BY <1>1, <1>2, LivePendingPart DEF Put
  <2>2. pending'[s].id = nextCandidateId
    BY <1>2 DEF Put, NewCandidate
  <2>3. \A t \in DOMAIN pending : pending[t].id \in Nat /\ nextCandidateId \in Nat
    BY PolicyAssumption DEF ManagerInv, ManagerTypeOK, IsMap, Candidate
  <2>4. nextCandidateId' = nextCandidateId + 1 /\ nextCandidateId \in Nat
    BY DEF Admit, ManagerInv, ManagerTypeOK
  <2> QED
    BY <1>2, <2>1, <2>2, <2>3, <2>4, SMTT(30) DEF ManagerInv, IdsDistinct
<1> QED
  BY <1>1, <1>2, <1>4, <1>5 DEF Grows

\* The passage of time changes no candidate.
LEMMA TickKeepsTypes ==
    ASSUME ManagerInv, Tick
    PROVE  ManagerTypeOK' /\ IdsDistinct' /\ DOMAIN pending' \subseteq DOMAIN pending
BY PolicyAssumption DEF Tick, ManagerInv, ManagerTypeOK, IdsDistinct

\* Every operation of the manager keeps types and identifiers.
LEMMA ManagerStepTypes ==
    ASSUME ManagerInv, [ManagerNext]_managerVars
    PROVE  /\ ManagerTypeOK' /\ IdsDistinct'
           /\ DOMAIN pending' \subseteq DOMAIN pending \/ \E s \in Sources : Grows(s)
<1>1. CASE Tick
  BY <1>1, TickKeepsTypes
<1>2. CASE ExpirePending
  BY <1>2, ExpirePendingKeepsTypes
<1>3. CASE ShutdownManager
  BY <1>3, ShutdownManagerKeepsTypes
<1>4. ASSUME NEW s \in Sources, Admit(s) PROVE ManagerTypeOK' /\ IdsDistinct' /\ Grows(s)
  BY <1>4, AdmitKeepsTypes
<1>5. ASSUME NEW s \in Sources, RemoveCandidate(s)
      PROVE  ManagerTypeOK' /\ IdsDistinct' /\ DOMAIN pending' \subseteq DOMAIN pending
  BY <1>5, RemoveCandidateKeepsTypes
<1>6. ASSUME NEW s \in Sources, AdmitAndRemove(s)
      PROVE  ManagerTypeOK' /\ IdsDistinct' /\ DOMAIN pending' \subseteq DOMAIN pending
  BY <1>6, AdmitAndRemoveKeepsTypes
<1>7. CASE UNCHANGED managerVars
  BY <1>7 DEF managerVars, ManagerInv, ManagerTypeOK, IdsDistinct
<1> QED
  BY <1>1, <1>2, <1>3, <1>4, <1>5, <1>6, <1>7, SMTT(30) DEF ManagerNext

\* No operation changes a candidate or issues an identifier again.
LEMMA CandidatesStayStep ==
    ASSUME ManagerInv, ManagerNext
    PROVE  \A s \in DOMAIN pending' :
               \/ s \in DOMAIN pending /\ pending'[s] = pending[s]
               \/ pending'[s].id >= nextCandidateId
<1> DEFINE Stays ==
      \A s \in DOMAIN pending' :
          \/ s \in DOMAIN pending /\ pending'[s] = pending[s]
          \/ pending'[s].id >= nextCandidateId
<1> SUFFICES Stays
  OBVIOUS
<1>1. CASE Tick
  BY <1>1 DEF Tick
<1>2. CASE ExpirePending
  BY <1>2, LivePendingPart DEF ExpirePending
<1>3. CASE ShutdownManager
  BY <1>3 DEF ShutdownManager, EmptyMap
<1>4. ASSUME NEW s \in Sources, Admit(s) PROVE Stays
  <2>1. NewCandidate.id >= nextCandidateId
    BY DEF NewCandidate, ManagerInv, ManagerTypeOK
  <2> QED
    BY <1>4, <2>1, LivePendingPart DEF Admit, Put
<1>5. ASSUME NEW s \in Sources, RemoveCandidate(s) PROVE Stays
  BY <1>5, LivePendingPart DEF RemoveCandidate, Without
<1>6. ASSUME NEW s \in Sources, AdmitAndRemove(s) PROVE Stays
  BY <1>6, LivePendingPart DEF AdmitAndRemove
<1> QED
  BY <1>1, <1>2, <1>3, <1>4, <1>5, <1>6, SMTT(30) DEF ManagerNext
-----------------------------------------------------------------------------
(* The coordinator                                                         *)

\* The links between the maps, in both directions.  The code's own check
\* (CandidateMapsAgree) has one direction and a count, which is not inductive.
MapsLinked ==
    /\ \A i \in DOMAIN registry :
          registry[i].source \in DOMAIN pending /\ pending[registry[i].source].id = i
    /\ \A s \in DOMAIN pending :
          pending[s].id \in DOMAIN registry /\ registry[pending[s].id].source = s
    /\ ContextsMatchRegistry

\* The stable pairs of policy state and provider phase, with the manager's
PhasesLinked ==
    /\ state = "Listening" =>
          /\ manager = "Running" /\ phase = "Running"
          /\ established = NoSession
    /\ state = "Established" =>
          phase = "Established" /\ session # NoSession /\ established # NoSession
    /\ state = "Closed" => phase = "Closed" /\ established = NoSession
    /\ state # "Listening" =>
          pending = EmptyMap /\ registry = EmptyMap /\ contexts = EmptyMap

CoordinatorInv == ManagerInv /\ ServerTypeOK /\ MapsLinked /\ PhasesLinked
-----------------------------------------------------------------------------
\* Each call of the coordinator is one step of the manager.
LEMMA ServerNextIsManagerNext ==
    ASSUME ServerNext
    PROVE  ManagerNext
<1>1. CASE Clock
  BY <1>1 DEF Clock, ManagerNext
<1>2. CASE CheckTimeouts
  BY <1>2 DEF CheckTimeouts, ReconcileExpired, ManagerNext
<1>3. CASE Shutdown
  BY <1>3 DEF Shutdown, CloseBoth, ManagerNext
<1>4. ASSUME NEW s \in Sources, NEW a \in Attempts, NEW h \in Hellos,
             ReceiveClientHello(s, a, h)
      PROVE  ManagerNext
  <2>1. CASE HelloDropped(s, a)
    BY <2>1 DEF HelloDropped, ReconcileExpired, ManagerNext
  <2>2. CASE HelloFatal(s)
    BY <2>2 DEF HelloFatal, FailClosed, CloseBoth, ManagerNext
  <2>3. CASE HelloAdmitted(s, a, h)
    BY <2>3 DEF HelloAdmitted, ManagerNext
  <2>4. CASE HelloRejected(s, a, h)
    BY <2>4 DEF HelloRejected, ManagerNext
  <2>5. CASE HelloRepeated(s, a, h)
    BY <2>5 DEF HelloRepeated, ReconcileExpired, ManagerNext
  <2>6. CASE HelloConflicts(s, a, h)
    BY <2>6 DEF HelloConflicts, AbortExactCandidate, RemoveExactCandidate, ManagerNext
  <2> QED
    BY <1>4, <2>1, <2>2, <2>3, <2>4, <2>5, <2>6 DEF ReceiveClientHello
<1>5. ASSUME NEW s \in Sources, NEW a \in Attempts, NEW sid, NEW ok \in BOOLEAN,
             ReceiveClientFinish(s, a, sid, ok)
      PROVE  ManagerNext
  <2>1. CASE FinishDropped(s, a)
    BY <2>1 DEF FinishDropped, ReconcileExpired, ManagerNext
  <2>2. CASE FinishUndecryptable(s, a, sid)
    BY <2>2 DEF FinishUndecryptable, FailClosed, CloseBoth, ManagerNext
  <2>3. CASE FinishRejected(s, a, sid, ok)
    BY <2>3 DEF FinishRejected, AbortExactCandidate, RemoveExactCandidate, ManagerNext
  <2>4. CASE FinishEstablishes(s, a, sid, ok)
    BY <2>4 DEF FinishEstablishes, ManagerNext
  <2>5. CASE FinishDuplicate(s, a)
    BY <2>5 DEF FinishDuplicate, FailClosed, CloseBoth, ManagerNext
  <2> QED
    BY <1>5, <2>1, <2>2, <2>3, <2>4, <2>5 DEF ReceiveClientFinish
<1> QED
  BY <1>1, <1>2, <1>3, <1>4, <1>5, Zenon DEF ServerNext

\* A step that leaves the coordinator alone leaves the manager alone.
LEMMA ServerStepIsManagerStep ==
    ASSUME [ServerNext]_serverVars
    PROVE  [ManagerNext]_managerVars
<1>1. CASE UNCHANGED serverVars
  BY <1>1 DEF serverVars, managerVars
<1> QED
  BY <1>1, ServerNextIsManagerNext, Zenon

\* The handlers use the manager only through admit, expire_pending, remove_candidate and
\* shutdown, so what its invariant says of those operations holds of the server.
THEOREM ServerImplementsManager == ServerSpec => ManagerSpec
<1>1. ServerInit => ManagerInit
  BY DEF ServerInit
<1>2. [ServerNext]_serverVars => [ManagerNext]_managerVars
  BY ServerStepIsManagerStep
<1> QED
  BY <1>1, <1>2, PTL DEF ServerSpec, ManagerSpec
-----------------------------------------------------------------------------
\* A candidate has a context exactly when it is registered.
LEMMA DomainsAgree ==
    ASSUME CoordinatorInv PROVE DOMAIN contexts = DOMAIN registry
BY Zenon DEF CoordinatorInv, MapsLinked, ContextsMatchRegistry

\* f pairs the elements of S with those of T.
Matching(f, S, T) ==
    /\ f \in [S -> T]
    /\ \A x, y \in S : f[x] = f[y] => x = y
    /\ \A y \in T : \E x \in S : f[x] = y

\* The map from sources to identifiers is a bijection between the domains of the
\* manager's map and the registry.
LEMMA SourcesToIds ==
    ASSUME CoordinatorInv PROVE \E f : Matching(f, DOMAIN pending, DOMAIN registry)
<1> DEFINE f == [s \in DOMAIN pending |-> pending[s].id]
<1>1. f \in [DOMAIN pending -> DOMAIN registry]
  BY DEF CoordinatorInv, MapsLinked
<1>2. \A s, t \in DOMAIN pending : f[s] = f[t] => s = t
  BY DEF CoordinatorInv, MapsLinked
<1>3. \A i \in DOMAIN registry : \E s \in DOMAIN pending : f[s] = i
  BY DEF CoordinatorInv, MapsLinked
<1> HIDE DEF f
<1>4. Matching(f, DOMAIN pending, DOMAIN registry)
  BY <1>1, <1>2, <1>3, Zenon DEF Matching
<1> QED
  BY <1>4, Zenon

\* With equally many candidates in each map, the code's own checks succeed.
LEMMA SelfChecksFromCounts ==
    ASSUME CoordinatorInv,
           Cardinality(DOMAIN pending) = Cardinality(DOMAIN registry),
           Cardinality(DOMAIN pending) = Cardinality(DOMAIN contexts)
    PROVE  SelfChecksPass
<1>1. CandidateMapsAgree
  BY DEF CandidateMapsAgree, CoordinatorInv, MapsLinked, PhasesLinked
<1>2. ServerStable
  BY DEF ServerStable, CoordinatorInv, PhasesLinked, ServerTypeOK
<1> QED
  BY <1>1, <1>2 DEF SelfChecksPass

\* Removing the identifiers of some sources leaves those of the others.
LEMMA WithoutIds ==
    ASSUME CoordinatorInv, NEW S \in SUBSET DOMAIN pending
    PROVE  LET gone == {pending[s].id : s \in DOMAIN pending \ S}
               kept == {pending[s].id : s \in S} IN
           /\ Without(registry, gone) = [i \in kept |-> registry[i]]
           /\ Without(contexts, gone) = [i \in kept |-> contexts[i]]
<1> DEFINE gone == {pending[s].id : s \in DOMAIN pending \ S}
           kept == {pending[s].id : s \in S}
<1>1. DOMAIN registry \ gone = kept
  BY DEF CoordinatorInv, MapsLinked
<1>2. DOMAIN contexts = DOMAIN registry
  BY DomainsAgree
<1> QED
  BY <1>1, <1>2 DEF Without

\* What is left of linked maps when some sources lose their candidate is
\* linked.
LEMMA ShrinkKeepsMaps ==
    ASSUME CoordinatorInv,
           NEW S \in SUBSET DOMAIN pending,
           pending' = [s \in S |-> pending[s]],
           registry' = [i \in {pending[s].id : s \in S} |-> registry[i]],
           contexts' = [i \in {pending[s].id : s \in S} |-> contexts[i]]
    PROVE  /\ MapsLinked'
           /\ IsMap(registry', Ids, Binding)
           /\ IsMap(contexts', Ids, Context)
<1> DEFINE kept == {pending[s].id : s \in S}
<1>1. kept \subseteq DOMAIN registry /\ DOMAIN contexts = DOMAIN registry
  BY DEF CoordinatorInv, MapsLinked, ContextsMatchRegistry
<1>2. DOMAIN registry' = kept /\ DOMAIN contexts' = kept /\ DOMAIN pending' = S
  OBVIOUS
<1>3. \A i \in kept : registry'[i] = registry[i] /\ contexts'[i] = contexts[i]
  OBVIOUS
<1>4. IsMap(registry', Ids, Binding)
  BY <1>1, <1>2, <1>3, Zenon DEF CoordinatorInv, ServerTypeOK, IsMap
<1>5. IsMap(contexts', Ids, Context)
  BY <1>1, <1>2, <1>3, Zenon DEF CoordinatorInv, ServerTypeOK, IsMap
<1>6. ContextsMatchRegistry'
  BY <1>1, <1>2, <1>3, Zenon DEF CoordinatorInv, MapsLinked, ContextsMatchRegistry
<1>7. \A i \in DOMAIN registry' :
          registry'[i].source \in DOMAIN pending' /\ pending'[registry'[i].source].id = i
  <2> SUFFICES ASSUME NEW i \in DOMAIN registry'
               PROVE  /\ registry'[i].source \in DOMAIN pending'
                      /\ pending'[registry'[i].source].id = i
    BY Zenon
  <2>1. PICK s \in S : i = pending[s].id
    BY <1>2, Zenon
  <2>2. registry'[i].source = s
    BY <1>2, <1>3, <2>1, Zenon DEF CoordinatorInv, MapsLinked
  <2>3. pending'[s].id = i
    BY <2>1, Zenon
  <2> QED  BY <1>2, <2>2, <2>3, Zenon
<1>8. \A s \in DOMAIN pending' :
          pending'[s].id \in DOMAIN registry' /\ registry'[pending'[s].id].source = s
  BY <1>1, <1>2, <1>3, ZenonT(30) DEF CoordinatorInv, MapsLinked
<1> QED
  BY <1>4, <1>5, <1>6, <1>7, <1>8, Zenon DEF MapsLinked

\* An expiry pass shrinks all three maps to the live sources.
LEMMA ReconcileShrinks ==
    ASSUME CoordinatorInv
    PROVE  /\ DOMAIN LivePending \in SUBSET DOMAIN pending
           /\ LivePending = [s \in DOMAIN LivePending |-> pending[s]]
           /\ LiveRegistry =
                [i \in {pending[s].id : s \in DOMAIN LivePending} |-> registry[i]]
           /\ LiveContexts =
                [i \in {pending[s].id : s \in DOMAIN LivePending} |-> contexts[i]]
<1>1. DOMAIN LivePending = DOMAIN pending \ Expired
  BY DEF LivePending, Without
<1>2. Expired = DOMAIN pending \ DOMAIN LivePending
  BY <1>1 DEF Expired
<1>3. ExpiredIds = {pending[s].id : s \in DOMAIN pending \ DOMAIN LivePending}
  BY <1>2 DEF ExpiredIds
<1>4. LivePending = [s \in DOMAIN LivePending |-> pending[s]]
  BY <1>1 DEF LivePending, Without
<1> QED
  BY <1>1, <1>3, <1>4, WithoutIds, Zenon DEF LiveRegistry, LiveContexts

\* expire_and_reconcile keeps the three maps linked.
LEMMA ReconcileKeepsMaps ==
    ASSUME CoordinatorInv, pending' = LivePending,
           registry' = LiveRegistry, contexts' = LiveContexts
    PROVE  /\ MapsLinked'
           /\ IsMap(registry', Ids, Binding)
           /\ IsMap(contexts', Ids, Context)
<1> DEFINE S == DOMAIN LivePending
<1>1. S \in SUBSET DOMAIN pending /\ pending' = [s \in S |-> pending[s]]
  BY ReconcileShrinks
<1>2. registry' = [i \in {pending[s].id : s \in S} |-> registry[i]]
  BY ReconcileShrinks
<1>3. contexts' = [i \in {pending[s].id : s \in S} |-> contexts[i]]
  BY ReconcileShrinks
<1> HIDE DEF S
<1> QED
  BY <1>1, <1>2, <1>3, ShrinkKeepsMaps, Zenon

\* abort_exact_candidate shrinks all three maps to the other live sources.
LEMMA AbortShrinks ==
    ASSUME CoordinatorInv, NEW s \in Sources, AbortExactCandidate(s)
    PROVE  LET S == DOMAIN LivePending \ {s} IN
           /\ S \in SUBSET DOMAIN pending
           /\ pending' = [t \in S |-> pending[t]]
           /\ registry' = [i \in {pending[t].id : t \in S} |-> registry[i]]
           /\ contexts' = [i \in {pending[t].id : t \in S} |-> contexts[i]]
<1> DEFINE L == DOMAIN LivePending
           S == L \ {s}
           keptL == {pending[t].id : t \in L}
           kept == {pending[t].id : t \in S}
<1>1. L \subseteq DOMAIN pending /\ s \in L
  BY ReconcileShrinks DEF AbortExactCandidate, RemoveExactCandidate, RemoveCandidate
<1>2. pending' = [t \in S |-> pending[t]]
  BY ReconcileShrinks DEF AbortExactCandidate, RemoveExactCandidate, RemoveCandidate, Without
<1>3. keptL \ {Owned(s)} = kept
  BY <1>1 DEF Owned, CoordinatorInv, MapsLinked
<1>4. registry' = [i \in kept |-> registry[i]]
  BY <1>3, ReconcileShrinks, ZenonT(30) DEF AbortExactCandidate, RemoveExactCandidate, Without
<1>5. contexts' = [i \in kept |-> contexts[i]]
  BY <1>3, ReconcileShrinks, ZenonT(30) DEF AbortExactCandidate, RemoveExactCandidate, Without
<1>6. S \in SUBSET DOMAIN pending
  BY <1>1
<1> QED
  BY <1>2, <1>4, <1>5, <1>6, Zenon

\* abort_exact_candidate keeps the three maps linked.
LEMMA AbortKeepsMaps ==
    ASSUME CoordinatorInv, NEW s \in Sources, AbortExactCandidate(s)
    PROVE  /\ MapsLinked'
           /\ IsMap(registry', Ids, Binding)
           /\ IsMap(contexts', Ids, Context)
<1> DEFINE S == DOMAIN LivePending \ {s}
<1>1. /\ S \in SUBSET DOMAIN pending
      /\ pending' = [t \in S |-> pending[t]]
      /\ registry' = [i \in {pending[t].id : t \in S} |-> registry[i]]
      /\ contexts' = [i \in {pending[t].id : t \in S} |-> contexts[i]]
  BY AbortShrinks, Zenon
<1> HIDE DEF S
<1> QED
  BY <1>1, ShrinkKeepsMaps, Zenon

\* Outside Listening there is nothing to expire.
LEMMA NothingToExpire ==
    ASSUME CoordinatorInv, state # "Listening"
    PROVE  LivePending = EmptyMap /\ LiveRegistry = EmptyMap /\ LiveContexts = EmptyMap
BY DEF CoordinatorInv, PhasesLinked, LivePending, LiveRegistry, LiveContexts, Without, EmptyMap

\* A step that keeps the phases, and the links of the maps, keeps the invariant.
LEMMA QuietStepKeepsInv ==
    ASSUME CoordinatorInv, ManagerInv', MapsLinked',
           IsMap(registry', Ids, Binding), IsMap(contexts', Ids, Context),
           toClient' \subseteq ServerMessage,
           ephemerals' \in Nat,
           UNCHANGED <<manager, state, session, phase, established, fatal>>,
           state # "Listening" =>
               pending' = EmptyMap /\ registry' = EmptyMap /\ contexts' = EmptyMap
    PROVE  CoordinatorInv'
<1>1. ServerTypeOK'
  BY DEF CoordinatorInv, ServerTypeOK, ManagerInv
<1>2. PhasesLinked'
  BY DEF CoordinatorInv, PhasesLinked
<1> QED
  BY <1>1, <1>2 DEF CoordinatorInv

\* A call that only reconciles, and may send an old ServerHello again
LEMMA ReconcileKeepsInv ==
    ASSUME CoordinatorInv, ManagerInv', ReconcileExpired,
           toClient' \subseteq ServerMessage,
           UNCHANGED <<state, session, phase, established, ephemerals, fatal>>
    PROVE  CoordinatorInv'
<1>1. pending' = LivePending /\ registry' = LiveRegistry /\ contexts' = LiveContexts
      /\ manager' = manager
  BY DEF ReconcileExpired, ExpirePending
<1>2. /\ MapsLinked'
      /\ IsMap(registry', Ids, Binding)
      /\ IsMap(contexts', Ids, Context)
  BY <1>1, ReconcileKeepsMaps
<1>3. ephemerals' \in Nat
  BY DEF CoordinatorInv, ServerTypeOK
<1> QED
  BY <1>1, <1>2, <1>3, NothingToExpire, QuietStepKeepsInv, SMTT(30)

\* A call that aborts the candidate of one source
LEMMA AbortKeepsInv ==
    ASSUME CoordinatorInv, ManagerInv', NEW s \in Sources, AbortExactCandidate(s),
           state = "Listening",
           UNCHANGED <<state, session, phase, established, ephemerals, fatal, toClient>>
    PROVE  CoordinatorInv'
<1>1. toClient' \subseteq ServerMessage /\ ephemerals' \in Nat
  BY DEF CoordinatorInv, ServerTypeOK
<1>2. UNCHANGED manager
  BY DEF AbortExactCandidate, RemoveExactCandidate, RemoveCandidate
<1> QED
  BY <1>1, <1>2, AbortKeepsMaps, QuietStepKeepsInv, SMTT(30)

\* policy.shutdown and crypto.shutdown
LEMMA CloseBothKeepsInv ==
    ASSUME CoordinatorInv, ManagerInv', CloseBoth, fatal' \in Errors
    PROVE  CoordinatorInv'
<1>1. DOMAIN EmptyMap = {} /\ EmptyMap \in [{} -> Binding] /\ EmptyMap \in [{} -> Context]
  BY DEF EmptyMap
<1>2. pending' = EmptyMap /\ registry' = EmptyMap /\ contexts' = EmptyMap
  BY DEF CloseBoth, ShutdownManager
<1>3. MapsLinked'
  BY <1>1, <1>2 DEF MapsLinked, ContextsMatchRegistry
<1>4. PhasesLinked'
  BY <1>2 DEF CloseBoth, PhasesLinked
<1>5. IsMap(registry', Ids, Binding) /\ IsMap(contexts', Ids, Context)
  BY <1>1, <1>2 DEF IsMap
<1>6. ServerTypeOK'
  BY <1>5 DEF CloseBoth, CoordinatorInv, ServerTypeOK, ManagerInv
<1> QED
  BY <1>3, <1>4, <1>6 DEF CoordinatorInv
-----------------------------------------------------------------------------
\* prepare_server_hello and prepare_server_finish: what the coordinator sends is
\* a message of the protocol.
LEMMA SentIsMessage ==
    ASSUME toClient \subseteq ServerMessage, NEW type \in {"ServerHello", "ServerFinish"},
           NEW s \in Sources, NEW a \in Attempts, NEW sid \in SessionIds,
           Send(type, s, a, sid)
    PROVE  toClient' \subseteq ServerMessage
<1> DEFINE m == [type |-> type, to |-> s, attempt |-> a, sessionId |-> sid]
<1>1. m \in ServerMessage
  BY DEF ServerMessage
<1>2. toClient' = toClient \cup {m}
  BY DEF Send
<1> QED
  BY <1>1, <1>2, Zenon

\* receive_client_hello admitting a candidate adds one entry to each map and leaves the
\* others: the new identifier is in none of them, because every identifier is older.
LEMMA AdmissionExtends ==
    ASSUME CoordinatorInv, NEW s \in Sources, NEW a, NEW h, HelloAdmitted(s, a, h)
    PROVE  LET L == DOMAIN LivePending
               kept == {pending[t].id : t \in L}
               n == nextCandidateId IN
           /\ DOMAIN pending' = L \cup {s}
           /\ pending'[s].id = n
           /\ \A t \in L : pending'[t] = pending[t]
           /\ DOMAIN registry' = kept \cup {n}
           /\ registry'[n] = [source |-> s, attempt |-> a]
           /\ \A i \in kept : registry'[i] = registry[i]
           /\ DOMAIN contexts' = kept \cup {n}
           /\ contexts'[n] = [attempt |-> a, hello |-> h, ephemeral |-> ephemerals + 1]
           /\ \A i \in kept : contexts'[i] = contexts[i]
<1> DEFINE L == DOMAIN LivePending
           kept == {pending[t].id : t \in L}
           n == nextCandidateId
<1>1. /\ pending' = Put(LivePending, s, NewCandidate)
      /\ registry' = Put(LiveRegistry, n, [source |-> s, attempt |-> a])
      /\ contexts' = Put(LiveContexts, n, [attempt |-> a, hello |-> h,
                                           ephemeral |-> ephemerals + 1])
  BY DEF HelloAdmitted, OfferSession, Admit
<1>2. s \notin L
  BY AddedMeans DEF HelloAdmitted, Admit
<1>3. L \subseteq DOMAIN pending /\ \A t \in L : LivePending[t] = pending[t]
  BY LivePendingPart
<1>4. /\ DOMAIN LiveRegistry = kept /\ \A i \in kept : LiveRegistry[i] = registry[i]
      /\ DOMAIN LiveContexts = kept /\ \A i \in kept : LiveContexts[i] = contexts[i]
  BY ReconcileShrinks
<1>5. n \notin kept
  <2>1. \A t \in DOMAIN pending : pending[t].id < n /\ pending[t].id \in Nat
    BY DEF CoordinatorInv, ManagerInv, ManagerTypeOK, IsMap, Candidate, IdsDistinct
  <2>2. n \in Nat
    BY DEF CoordinatorInv, ManagerInv, ManagerTypeOK
  <2> QED
    BY <1>3, <2>1, <2>2
<1>6. /\ DOMAIN pending' = L \cup {s}
      /\ pending'[s].id = n
      /\ \A t \in L : pending'[t] = pending[t]
  BY <1>1, <1>2, <1>3, Zenon DEF Put, NewCandidate
<1>7. /\ DOMAIN registry' = kept \cup {n}
      /\ registry'[n] = [source |-> s, attempt |-> a]
      /\ \A i \in kept : registry'[i] = registry[i]
  BY <1>1, <1>4, <1>5, Zenon DEF Put
<1>8. /\ DOMAIN contexts' = kept \cup {n}
       /\ contexts'[n] = [attempt |-> a, hello |-> h, ephemeral |-> ephemerals + 1]
       /\ \A i \in kept : contexts'[i] = contexts[i]
  BY <1>1, <1>4, <1>5, Zenon DEF Put
<1> QED
  BY <1>6, <1>7, <1>8, Zenon

\* receive_client_hello admitting a candidate
LEMMA HelloAdmittedKeepsInv ==
    ASSUME CoordinatorInv, ManagerInv', NEW s \in Sources, NEW a \in Attempts,
           NEW h \in Hellos, HelloAdmitted(s, a, h)
    PROVE  CoordinatorInv'
<1> DEFINE L == DOMAIN LivePending
           kept == {pending[t].id : t \in L}
           n == nextCandidateId
<1>1. /\ registry' = Put(LiveRegistry, n, [source |-> s, attempt |-> a])
      /\ contexts' = Put(LiveContexts, n, [attempt |-> a, hello |-> h,
                                           ephemeral |-> ephemerals + 1])
  BY DEF HelloAdmitted, OfferSession, Admit
<1>2. L \subseteq DOMAIN pending
  BY LivePendingPart
<1>3. kept \subseteq DOMAIN registry /\ DOMAIN contexts = DOMAIN registry
  BY <1>2 DEF CoordinatorInv, MapsLinked, ContextsMatchRegistry
<1>4. n \in Ids /\ ephemerals + 1 \in Ephemerals /\ ephemerals' \in Nat
  BY DEF HelloAdmitted, CoordinatorInv, ServerTypeOK, ManagerTypeOK, Ids, Ephemerals
<1>5. /\ DOMAIN pending' = L \cup {s}
      /\ pending'[s].id = n
      /\ \A t \in L : pending'[t] = pending[t]
  BY AdmissionExtends, Zenon
<1>6. /\ DOMAIN registry' = kept \cup {n}
      /\ registry'[n] = [source |-> s, attempt |-> a]
      /\ \A i \in kept : registry'[i] = registry[i]
  BY AdmissionExtends, Zenon
<1>7. /\ DOMAIN contexts' = kept \cup {n}
       /\ contexts'[n] = [attempt |-> a, hello |-> h, ephemeral |-> ephemerals + 1]
       /\ \A i \in kept : contexts'[i] = contexts[i]
  <2>1. DOMAIN contexts' = kept \cup {n} /\ \A i \in kept : contexts'[i] = contexts[i]
    BY AdmissionExtends, Zenon
  <2>2. contexts'[n] = [attempt |-> a, hello |-> h, ephemeral |-> ephemerals + 1]
    BY <1>1, Zenon DEF Put
  <2> QED
    BY <2>1, <2>2, Zenon
<1>8. IsMap(registry', Ids, Binding)
  <2>1. kept \subseteq Ids /\ \A i \in kept : registry[i] \in Binding
    BY <1>3 DEF CoordinatorInv, ServerTypeOK, IsMap
  <2>2. registry'[n] \in Binding
    <3>1. [source |-> s, attempt |-> a] \in Binding
      BY DEF Binding
    <3> QED  BY <1>6, <3>1, Zenon
  <2>3. registry' = [i \in DOMAIN registry' |-> registry'[i]]
    BY <1>1, SMTT(30) DEF Put
  <2> QED
    BY <1>4, <1>6, <2>1, <2>2, <2>3, Zenon DEF IsMap
<1>9. IsMap(contexts', Ids, Context)
  <2>1. kept \subseteq Ids /\ \A i \in kept : contexts[i] \in Context
    BY <1>3 DEF CoordinatorInv, ServerTypeOK, IsMap
  <2>2. contexts'[n] \in Context
    <3>1. [attempt |-> a, hello |-> h, ephemeral |-> ephemerals + 1] \in Context
      BY <1>4 DEF Context
    <3> QED  BY <1>7, <3>1, Zenon
  <2>3. contexts' = [i \in DOMAIN contexts' |-> contexts'[i]]
    BY <1>1, SMTT(30) DEF Put
  <2> QED
    BY <1>4, <1>7, <2>1, <2>2, <2>3, Zenon DEF IsMap
<1>10. MapsLinked'
  <2>1. ContextsMatchRegistry'
    <3>1. \A i \in DOMAIN registry : contexts[i].attempt = registry[i].attempt
      BY Zenon DEF CoordinatorInv, MapsLinked, ContextsMatchRegistry
    <3>2. contexts'[n].attempt = registry'[n].attempt
      BY <1>6, <1>7, SMTT(30)
    <3> QED  BY <1>3, <1>6, <1>7, <3>1, <3>2, Zenon DEF ContextsMatchRegistry
  <2>2. \A i \in kept : registry[i].source \in L /\ pending[registry[i].source].id = i
    BY <1>2, <1>3, Zenon DEF CoordinatorInv, MapsLinked
  <2>3. \A t \in L : pending[t].id \in kept /\ registry[pending[t].id].source = t
    BY <1>2, Zenon DEF CoordinatorInv, MapsLinked
  <2>4. \A i \in DOMAIN registry' :
          registry'[i].source \in DOMAIN pending' /\ pending'[registry'[i].source].id = i
    <3>1. registry'[n].source = s
      BY <1>6
    <3>2. registry'[n].source \in DOMAIN pending' /\ pending'[registry'[n].source].id = n
      BY <1>5, <3>1
    <3>3. \A i \in kept : registry'[i].source \in DOMAIN pending' /\ pending'[registry'[i].source].id = i
      <4>1. \A i \in kept : registry'[i].source = registry[i].source
        BY <1>6, Zenon
      <4>2. \A i \in kept : /\ registry[i].source \in DOMAIN pending'
                            /\ pending'[registry[i].source].id = i
        BY <1>5, <2>2, Zenon
      <4> QED  BY <4>1, <4>2, SMTT(30)
    <3> QED  BY <1>6, <3>2, <3>3, Zenon
  <2>5. \A t \in DOMAIN pending' :
          pending'[t].id \in DOMAIN registry' /\ registry'[pending'[t].id].source = t
    <3>1. registry'[n].source = s
      BY <1>6
    <3>2. pending'[s].id \in DOMAIN registry' /\ registry'[pending'[s].id].source = s
      BY <1>5, <1>6, <3>1, SMTT(30)
    <3>3. \A t \in L : pending'[t].id \in DOMAIN registry' /\ registry'[pending'[t].id].source = t
      <4>1. \A t \in L : pending'[t].id = pending[t].id
        BY <1>5, Zenon
      <4>2. \A t \in L : pending[t].id \in DOMAIN registry' /\ registry'[pending[t].id].source = t
        BY <1>6, <2>3, Zenon
      <4> QED  BY <4>1, <4>2, SMTT(30)
    <3> QED  BY <1>5, <3>2, <3>3, Zenon
  <2> QED
    BY <2>1, <2>4, <2>5, SMTT(30) DEF MapsLinked
<1>11. toClient' \subseteq ServerMessage
  <2>1. ephemerals + 1 \in Ephemerals
    BY <1>4
  <2>2. <<h, ephemerals + 1>> \in SessionIds
    BY <2>1 DEF SessionIds
  <2>3. Send("ServerHello", s, a, <<h, ephemerals + 1>>)
    BY Zenon DEF HelloAdmitted, OfferSession
  <2> QED
    BY <2>2, <2>3, SentIsMessage, Zenon DEF CoordinatorInv, ServerTypeOK
<1>12. state = "Listening" /\ UNCHANGED <<manager, state, session, phase, established, fatal>>
  BY SMTT(30) DEF HelloAdmitted, OfferSession, Admit
<1> QED
  BY <1>4, <1>8, <1>9, <1>10, <1>11, <1>12, QuietStepKeepsInv, Zenon

\* receive_client_hello, all outcomes
LEMMA ReceiveClientHelloKeepsInv ==
    ASSUME CoordinatorInv, ManagerInv', NEW s \in Sources, NEW a \in Attempts,
           NEW h \in Hellos, ReceiveClientHello(s, a, h)
    PROVE  CoordinatorInv'
<1>1. CASE HelloDropped(s, a)
  BY <1>1, ReconcileKeepsInv, Zenon DEF HelloDropped, CoordinatorInv, ServerTypeOK
<1>2. CASE HelloFatal(s)
  BY <1>2, CloseBothKeepsInv DEF HelloFatal, FailClosed, Errors
<1>3. CASE HelloAdmitted(s, a, h)
  BY <1>3, HelloAdmittedKeepsInv
<1>4. CASE HelloRejected(s, a, h)
  <2>1. toClient' \subseteq ServerMessage /\ ephemerals' \in Nat
    BY <1>4 DEF HelloRejected, CoordinatorInv, ServerTypeOK
  <2> QED
    BY <1>4, <2>1, ReconcileKeepsMaps, QuietStepKeepsInv, Zenon DEF HelloRejected, AdmitAndRemove
<1>5. CASE HelloRepeated(s, a, h)
  <2>1. Owned(s) \in DOMAIN contexts
    BY <1>5, LivePendingPart, Zenon
    DEF HelloRepeated, AdmissionOutcome, Owned, CoordinatorInv, MapsLinked, ContextsMatchRegistry
  <2>2. SessionIdOf(Owned(s)) \in SessionIds
    BY <2>1 DEF SessionIdOf, SessionIds, CoordinatorInv, ServerTypeOK, IsMap, Context
  <2>3. toClient' \subseteq ServerMessage
    BY <1>5, <2>2, SMTT(30) DEF HelloRepeated, Send, ServerMessage, CoordinatorInv, ServerTypeOK
  <2> QED
    BY <1>5, <2>3, ReconcileKeepsInv, Zenon DEF HelloRepeated
<1>6. CASE HelloConflicts(s, a, h)
  BY <1>6, AbortKeepsInv DEF HelloConflicts
<1> QED
  BY <1>1, <1>2, <1>3, <1>4, <1>5, <1>6, SMTT(30) DEF ReceiveClientHello

\* The candidate a permitted finish belongs to
LEMMA PermittedOwner ==
    ASSUME CoordinatorInv, NEW s \in Sources, NEW a, Permitted(s, a)
    PROVE  /\ s \in DOMAIN pending /\ s \notin Expired
           /\ Owned(s) \in DOMAIN registry /\ Owned(s) \in DOMAIN contexts
           /\ Owned(s) \in Ids
           /\ registry[Owned(s)].source = s /\ contexts[Owned(s)].attempt = a
           /\ SessionIdOf(Owned(s)) \in SessionIds
<1>1. s \in DOMAIN pending /\ s \notin Expired
  BY DEF Permitted, Owns, LivePending, Without
<1>2. /\ Owned(s) \in DOMAIN registry /\ Owned(s) \in DOMAIN contexts
      /\ registry[Owned(s)].source = s /\ contexts[Owned(s)].attempt = a
  BY <1>1, SMTT(30) DEF Permitted, AttemptOf, Owned, CoordinatorInv, MapsLinked, ContextsMatchRegistry
<1>3. Owned(s) \in Ids /\ contexts[Owned(s)] \in Context
  BY <1>2 DEF CoordinatorInv, ServerTypeOK, IsMap
<1>4. SessionIdOf(Owned(s)) \in SessionIds
  BY <1>3 DEF SessionIdOf, SessionIds, Context
<1> QED
  BY <1>1, <1>2, <1>3, <1>4, SMTT(30)

\* Establishing a session keeps the invariant.
LEMMA FinishEstablishesKeepsInv ==
    ASSUME CoordinatorInv, ManagerInv', NEW s \in Sources, NEW a \in Attempts,
           NEW sid, NEW ok \in BOOLEAN, FinishEstablishes(s, a, sid, ok)
    PROVE  CoordinatorInv'
<1>1. Owned(s) \in Ids /\ sid \in SessionIds
  BY PermittedOwner DEF FinishEstablishes
<1>2. DOMAIN EmptyMap = {} /\ EmptyMap \in [{} -> Binding] /\ EmptyMap \in [{} -> Context]
  BY DEF EmptyMap
<1>3. pending' = EmptyMap /\ registry' = EmptyMap /\ contexts' = EmptyMap
  BY DEF FinishEstablishes, CommitSession, ShutdownManager
<1>4. MapsLinked'
  BY <1>2, <1>3 DEF MapsLinked, ContextsMatchRegistry
<1>5. /\ session' = [id |-> Owned(s), source |-> s, attempt |-> a, sessionId |-> sid]
      /\ established' = [id |-> Owned(s), attempt |-> a, sessionId |-> sid]
      /\ state' = "Established" /\ phase' = "Established"
  BY DEF FinishEstablishes, CommitSession
<1>6. session'.id # 0 /\ established'.id # 0 /\ NoSession.id = 0
  BY <1>1, <1>5, SMTT(30) DEF Ids, NoSession
<1>7. PhasesLinked'
  BY <1>3, <1>5, <1>6, SMTT(30) DEF PhasesLinked
<1>8. toClient' \subseteq ServerMessage
  BY <1>1, SentIsMessage, Zenon DEF FinishEstablishes, CommitSession, CoordinatorInv, ServerTypeOK
<1>9. IsMap(registry', Ids, Binding) /\ IsMap(contexts', Ids, Context)
  BY <1>2, <1>3, Zenon DEF IsMap
<1>10. ServerTypeOK'
  <2>1. ManagerTypeOK'
    BY DEF ManagerInv
  <2>2. ephemerals' \in Nat /\ fatal' \in Errors
    BY Zenon DEF FinishEstablishes, CommitSession, CoordinatorInv, ServerTypeOK
  <2>3. established' \in Committed
    BY <1>1, <1>5, SMTT(30) DEF Committed
  <2> QED
    BY <1>1, <1>5, <1>8, <1>9, <2>1, <2>2, <2>3, Zenon DEF ServerTypeOK
<1> QED
  BY <1>4, <1>7, <1>10 DEF CoordinatorInv

\* receive_client_finish, all outcomes
LEMMA ReceiveClientFinishKeepsInv ==
    ASSUME CoordinatorInv, ManagerInv', NEW s \in Sources, NEW a \in Attempts,
           NEW sid, NEW ok \in BOOLEAN, ReceiveClientFinish(s, a, sid, ok)
    PROVE  CoordinatorInv'
<1>1. CASE FinishDropped(s, a)
  BY <1>1, ReconcileKeepsInv, Zenon DEF FinishDropped, CoordinatorInv, ServerTypeOK
<1>2. CASE FinishUndecryptable(s, a, sid)
  BY <1>2, CloseBothKeepsInv DEF FinishUndecryptable, FailClosed, Errors
<1>3. CASE FinishRejected(s, a, sid, ok)
  BY <1>3, AbortKeepsInv DEF FinishRejected, Permitted
<1>4. CASE FinishEstablishes(s, a, sid, ok)
  BY <1>4, FinishEstablishesKeepsInv
<1>5. CASE FinishDuplicate(s, a)
  BY <1>5, CloseBothKeepsInv DEF FinishDuplicate, FailClosed, Errors
<1> QED
  BY <1>1, <1>2, <1>3, <1>4, <1>5, SMTT(30) DEF ReceiveClientFinish

\* Every public call of the coordinator keeps the invariant, as far as the
\* manager keeps its own.
LEMMA LinksStepInv ==
    ASSUME CoordinatorInv, [ServerNext]_serverVars, ManagerInv'
    PROVE  CoordinatorInv'
<1>1. CASE Clock
  <2>1. UNCHANGED <<manager, pending, nextCandidateId, state, session, registry, phase,
                    contexts, established, ephemerals, fatal, toClient>>
    BY <1>1 DEF Clock, Tick, policyVars, cryptoVars
  <2> QED
    BY <2>1, Zenon DEF CoordinatorInv, ManagerInv, ServerTypeOK, MapsLinked, PhasesLinked,
                      ContextsMatchRegistry
<1>2. CASE CheckTimeouts
  BY <1>2, ReconcileKeepsInv, Zenon DEF CheckTimeouts, CoordinatorInv, ServerTypeOK
<1>3. CASE Shutdown
  BY <1>3, CloseBothKeepsInv, Zenon DEF Shutdown, CoordinatorInv, ServerTypeOK
<1>4. ASSUME NEW s \in Sources, NEW a \in Attempts, NEW h \in Hellos,
             ReceiveClientHello(s, a, h)
      PROVE  CoordinatorInv'
  BY <1>4, ReceiveClientHelloKeepsInv
<1>5. ASSUME NEW s \in Sources, NEW a \in Attempts, NEW h \in Hellos, NEW e \in Ids,
             NEW ok \in BOOLEAN, ReceiveClientFinish(s, a, <<h, e>>, ok)
      PROVE  CoordinatorInv'
  BY <1>5, ReceiveClientFinishKeepsInv, Zenon
<1>6. CASE UNCHANGED serverVars
  <2>1. UNCHANGED <<now, manager, pending, nextCandidateId, state, session, registry, phase,
                    contexts, established, ephemerals, fatal, toClient>>
    BY <1>6 DEF serverVars, managerVars, policyVars, cryptoVars
  <2> QED
    BY <2>1, Zenon DEF CoordinatorInv, ManagerInv, ServerTypeOK, ManagerTypeOK, MapsLinked,
                      PhasesLinked, ContextsMatchRegistry
<1> QED
  BY <1>1, <1>2, <1>3, <1>4, <1>5, <1>6, Zenon DEF ServerNext
-----------------------------------------------------------------------------
\* What was offered in a candidate's ServerHello
Offer(i) == [type |-> "ServerHello", to |-> registry[i].source,
             attempt |-> registry[i].attempt, sessionId |-> SessionIdOf(i)]

\* Every candidate's session was offered to its source and only to it, under an
\* ephemeral drawn already; so the next one is fresh.
OfferInv ==
    /\ \A i \in DOMAIN contexts :
          contexts[i].hello \in Acceptable /\ Offer(i) \in toClient
    /\ \A m \in toClient : m.sessionId[2] <= ephemerals
    /\ SessionIdsUnique
    /\ CommittedWasOffered

\* A step that adds no candidate, sends nothing new and keeps the session keeps
\* what is known of the offers.
LEMMA NoOfferKeepsOfferInv ==
    ASSUME CoordinatorInv, OfferInv,
           DOMAIN contexts' \subseteq DOMAIN contexts,
           \A i \in DOMAIN contexts' : contexts'[i] = contexts[i] /\ registry'[i] = registry[i],
           UNCHANGED <<ephemerals, toClient>>,
           state' # "Established" \/ UNCHANGED <<state, session, established>>
    PROVE  OfferInv'
<1>1. \A i \in DOMAIN contexts' : Offer(i)' = Offer(i)
  BY DEF Offer, SessionIdOf
<1>2. SessionIdsUnique'
  BY DEF OfferInv, SessionIdsUnique
<1>3. CommittedWasOffered'
  BY SMTT(30) DEF OfferInv, CommittedWasOffered
<1> QED
  BY <1>1, <1>2, <1>3, SMTT(30) DEF OfferInv

\* A call that only expires candidates keeps what is known of the offers.
LEMMA ReconcileKeepsOfferInv ==
    ASSUME CoordinatorInv, OfferInv, ReconcileExpired,
           UNCHANGED <<state, session, established, ephemerals, toClient>>
    PROVE  OfferInv'
<1>1. DOMAIN contexts = DOMAIN registry
  BY DomainsAgree, Zenon
<1> QED
  BY <1>1, NoOfferKeepsOfferInv DEF ReconcileExpired, LiveContexts, LiveRegistry, Without

\* So does one that aborts a candidate,
LEMMA AbortKeepsOfferInv ==
    ASSUME CoordinatorInv, OfferInv, NEW s \in Sources, AbortExactCandidate(s),
           UNCHANGED <<state, session, established, ephemerals, toClient>>
    PROVE  OfferInv'
<1>1. DOMAIN contexts = DOMAIN registry
  BY DomainsAgree, Zenon
<1> QED
  BY <1>1, NoOfferKeepsOfferInv DEF AbortExactCandidate, RemoveExactCandidate, LiveContexts, LiveRegistry, Without

\* and one that closes the coordinator.
LEMMA CloseBothKeepsOfferInv ==
    ASSUME CoordinatorInv, OfferInv, CloseBoth
    PROVE  OfferInv'
<1>1. DOMAIN contexts' = {}
  BY DEF CloseBoth, EmptyMap
<1> QED
  BY <1>1, NoOfferKeepsOfferInv DEF CloseBoth

\* An admitted hello adds the entries of one candidate and changes no other's.
LEMMA HelloAdmittedEntries ==
    ASSUME CoordinatorInv, NEW s \in Sources, NEW a \in Attempts, NEW h \in Hellos,
           HelloAdmitted(s, a, h), NEW i \in DOMAIN contexts'
    PROVE  \/ /\ contexts'[i] = [attempt |-> a, hello |-> h, ephemeral |-> ephemerals + 1]
              /\ registry'[i] = [source |-> s, attempt |-> a]
           \/ i \in DOMAIN contexts /\ contexts'[i] = contexts[i] /\ registry'[i] = registry[i]
<1>1. /\ registry' = Put(LiveRegistry, nextCandidateId, [source |-> s, attempt |-> a])
      /\ contexts' = Put(LiveContexts, nextCandidateId,
                         [attempt |-> a, hello |-> h, ephemeral |-> ephemerals + 1])
  BY Zenon DEF HelloAdmitted, OfferSession
<1>2. CASE i = nextCandidateId
  BY <1>1, <1>2, ZenonT(30) DEF Put
<1>3. CASE i # nextCandidateId
  BY <1>1, <1>3, ZenonT(30) DEF Put, LiveContexts, LiveRegistry, Without,
                    CoordinatorInv, MapsLinked, ContextsMatchRegistry
<1> QED
  BY <1>2, <1>3, Zenon

\* So every candidate's session has been offered after an admitted hello as well.
LEMMA HelloAdmittedOffers ==
    ASSUME CoordinatorInv, OfferInv, NEW s \in Sources, NEW a \in Attempts,
           NEW h \in Hellos, HelloAdmitted(s, a, h), NEW i \in DOMAIN contexts'
    PROVE  contexts'[i].hello \in Acceptable /\ Offer(i)' \in toClient'
<1> DEFINE e == ephemerals + 1
           sent == [type |-> "ServerHello", to |-> s, attempt |-> a, sessionId |-> <<h, e>>]
<1>1. toClient' = toClient \cup {sent} /\ h \in Acceptable
  BY Zenon DEF HelloAdmitted, OfferSession, Send
<1>2. CASE /\ contexts'[i] = [attempt |-> a, hello |-> h, ephemeral |-> e]
           /\ registry'[i] = [source |-> s, attempt |-> a]
  <2>1. registry'[i].source = s /\ registry'[i].attempt = a
    BY <1>2
  <2>2. contexts'[i].hello = h /\ contexts'[i].ephemeral = e
    BY <1>2
  <2>3. Offer(i)' = sent
    BY <2>1, <2>2, Zenon DEF Offer, SessionIdOf
  <2> QED
    BY <1>1, <2>2, <2>3, Zenon
<1>3. CASE i \in DOMAIN contexts /\ contexts'[i] = contexts[i] /\ registry'[i] = registry[i]
  <2>1. Offer(i)' = Offer(i)
    BY <1>3, Zenon DEF Offer, SessionIdOf
  <2>2. contexts[i].hello \in Acceptable /\ Offer(i) \in toClient
    BY <1>3, Zenon DEF OfferInv
  <2> QED
    BY <1>1, <1>3, <2>1, <2>2, Zenon
<1>4. \/ /\ contexts'[i] = [attempt |-> a, hello |-> h, ephemeral |-> e]
         /\ registry'[i] = [source |-> s, attempt |-> a]
      \/ i \in DOMAIN contexts /\ contexts'[i] = contexts[i] /\ registry'[i] = registry[i]
  BY HelloAdmittedEntries, SMTT(30)
<1> QED
  BY <1>2, <1>3, <1>4, Zenon

\* A new offer has a session identifier no earlier one has.
LEMMA HelloAdmittedKeepsOfferInv ==
    ASSUME CoordinatorInv, OfferInv, NEW s \in Sources, NEW a \in Attempts,
           NEW h \in Hellos, HelloAdmitted(s, a, h)
    PROVE  OfferInv'
<1> DEFINE e == ephemerals + 1
           sent == [type |-> "ServerHello", to |-> s, attempt |-> a, sessionId |-> <<h, e>>]
<1>1. toClient' = toClient \cup {sent} /\ ephemerals' = e /\ ephemerals \in Nat
  BY Zenon DEF HelloAdmitted, OfferSession, Send, CoordinatorInv, ServerTypeOK
<1>2. sent.sessionId = <<h, e>> /\ sent.to = s /\ sent.attempt = a
  OBVIOUS
<1>3. \A m \in toClient : m.sessionId[2] <= ephemerals /\ m.sessionId[2] \in Nat
  BY DEF OfferInv, CoordinatorInv, ServerTypeOK, ServerMessage, SessionIds, Ephemerals
<1>4. \A m \in toClient : m.sessionId # <<h, e>> /\ m.sessionId[2] <= e
  BY <1>1, <1>3, SMTT(30)
<1>5. SessionIdsUnique'
  BY <1>1, <1>2, <1>4, SMTT(30) DEF OfferInv, SessionIdsUnique
<1>6. \A m \in toClient' : m.sessionId[2] <= ephemerals'
  BY <1>1, <1>2, <1>4, SMTT(30)
<1>7. CommittedWasOffered'
  BY Zenon DEF HelloAdmitted, OfferSession, OfferInv, CommittedWasOffered
<1>8. \A i \in DOMAIN contexts' : contexts'[i].hello \in Acceptable /\ Offer(i)' \in toClient'
  BY HelloAdmittedOffers, Zenon
<1> QED
  BY <1>5, <1>6, <1>7, <1>8, Zenon DEF OfferInv

\* The confirmation repeats the offer it answers.
LEMMA FinishEstablishesKeepsOfferInv ==
    ASSUME CoordinatorInv, OfferInv, NEW s \in Sources, NEW a \in Attempts,
           NEW sid, NEW ok \in BOOLEAN, FinishEstablishes(s, a, sid, ok)
    PROVE  OfferInv'
<1> DEFINE i == Owned(s)
           hello == [type |-> "ServerHello", to |-> s, attempt |-> a, sessionId |-> sid]
           sent == [type |-> "ServerFinish", to |-> s, attempt |-> a, sessionId |-> sid]
<1>1. /\ i \in DOMAIN contexts /\ i \in DOMAIN registry
      /\ registry[i].source = s /\ contexts[i].attempt = a
      /\ sid = SessionIdOf(i)
  BY PermittedOwner DEF FinishEstablishes
<1>2. registry[i].attempt = a
  BY <1>1, Zenon DEF CoordinatorInv, MapsLinked, ContextsMatchRegistry
<1>3. Offer(i) = hello
  BY <1>1, <1>2, Zenon DEF Offer
<1>4. hello \in toClient /\ contexts[i].hello \in Acceptable
  BY <1>1, <1>3, SMTT(30) DEF OfferInv
<1>5. toClient' = toClient \cup {sent} /\ ephemerals' = ephemerals /\ DOMAIN contexts' = {}
  BY SMTT(30) DEF FinishEstablishes, CommitSession, Send, EmptyMap
<1>6. \A m \in toClient' : m.sessionId[2] <= ephemerals'
  <2>1. hello.sessionId[2] <= ephemerals
    BY <1>4 DEF OfferInv
  <2> QED
    BY <1>5, <2>1, SMTT(30) DEF OfferInv
<1>7. SessionIdsUnique'
  <2>1. \A m \in toClient : m.sessionId = sid => m.to = s /\ m.attempt = a
    BY <1>4, Zenon DEF OfferInv, SessionIdsUnique
  <2> QED
    BY <1>5, <2>1, SMTT(30) DEF OfferInv, SessionIdsUnique
<1>8. CommittedWasOffered'
  <2>1. /\ session' = [id |-> i, source |-> s, attempt |-> a, sessionId |-> sid]
        /\ established' = [id |-> i, attempt |-> a, sessionId |-> sid]
    BY DEF FinishEstablishes, CommitSession
  <2>2. sid[1] \in Acceptable
    BY <1>1, <1>4, SMTT(30) DEF SessionIdOf
  <2> QED
    BY <1>4, <1>5, <2>1, <2>2, Zenon DEF CommittedWasOffered
<1> QED
  BY <1>5, <1>6, <1>7, <1>8, Zenon DEF OfferInv

\* Every public call keeps what is known of the offers.
LEMMA OfferStepInv ==
    CoordinatorInv /\ OfferInv /\ [ServerNext]_serverVars => OfferInv'
<1> SUFFICES ASSUME CoordinatorInv, OfferInv, [ServerNext]_serverVars PROVE OfferInv'
  OBVIOUS
<1>1. CASE Clock \/ UNCHANGED serverVars
  <2>1. UNCHANGED <<state, session, registry, contexts, established, ephemerals, toClient>>
    BY <1>1 DEF Clock, serverVars, policyVars, cryptoVars
  <2> QED
    BY <2>1, NoOfferKeepsOfferInv
<1>2. CASE CheckTimeouts
  BY <1>2, ReconcileKeepsOfferInv DEF CheckTimeouts
<1>3. CASE Shutdown
  BY <1>3, CloseBothKeepsOfferInv DEF Shutdown
<1>4. ASSUME NEW s \in Sources, NEW a \in Attempts, NEW h \in Hellos,
             ReceiveClientHello(s, a, h)
      PROVE  OfferInv'
  <2>1. CASE HelloDropped(s, a)
    BY <2>1, ReconcileKeepsOfferInv DEF HelloDropped
  <2>2. CASE HelloFatal(s)
    BY <2>2, CloseBothKeepsOfferInv DEF HelloFatal, FailClosed
  <2>3. CASE HelloAdmitted(s, a, h)
    BY <2>3, HelloAdmittedKeepsOfferInv
  <2>4. CASE HelloRejected(s, a, h)
    <3>1. DOMAIN contexts = DOMAIN registry
      BY DomainsAgree
    <3> QED
      BY <2>4, <3>1, NoOfferKeepsOfferInv, SMTT(30) DEF HelloRejected, LiveContexts, LiveRegistry, Without
  <2>5. CASE HelloRepeated(s, a, h)
    <3>1. s \in DOMAIN pending
      BY <2>5, LivePendingPart, Zenon DEF HelloRepeated, AdmissionOutcome
    <3>2. Owned(s) \in DOMAIN contexts /\ registry[Owned(s)].source = s
          /\ registry[Owned(s)].attempt = a
      BY <2>5, <3>1, Zenon DEF HelloRepeated, AttemptOf, Owned, CoordinatorInv, MapsLinked,
                        ContextsMatchRegistry
    <3>3. Offer(Owned(s)) \in toClient
      BY <3>2, Zenon DEF OfferInv
    <3>4. toClient' = toClient \cup {Offer(Owned(s))}
      BY <2>5, <3>2, Zenon DEF HelloRepeated, Send, Offer
    <3>5. toClient' = toClient
      BY <3>3, <3>4
    <3> QED
      BY <2>5, <3>5, ReconcileKeepsOfferInv, SMTT(30) DEF HelloRepeated
  <2>6. CASE HelloConflicts(s, a, h)
    BY <2>6, AbortKeepsOfferInv DEF HelloConflicts
  <2> QED
    BY <1>4, <2>1, <2>2, <2>3, <2>4, <2>5, <2>6, Zenon DEF ReceiveClientHello
<1>5. ASSUME NEW s \in Sources, NEW a \in Attempts, NEW h \in Hellos, NEW e \in Ids,
             NEW ok \in BOOLEAN, ReceiveClientFinish(s, a, <<h, e>>, ok)
      PROVE  OfferInv'
  <2>1. CASE FinishDropped(s, a)
    BY <2>1, ReconcileKeepsOfferInv DEF FinishDropped
  <2>2. CASE FinishUndecryptable(s, a, <<h, e>>)
    BY <2>2, CloseBothKeepsOfferInv DEF FinishUndecryptable, FailClosed
  <2>3. CASE FinishRejected(s, a, <<h, e>>, ok)
    BY <2>3, AbortKeepsOfferInv DEF FinishRejected
  <2>4. CASE FinishEstablishes(s, a, <<h, e>>, ok)
    BY <2>4, FinishEstablishesKeepsOfferInv
  <2>5. CASE FinishDuplicate(s, a)
    BY <2>5, CloseBothKeepsOfferInv DEF FinishDuplicate, FailClosed
  <2> QED
    BY <1>5, <2>1, <2>2, <2>3, <2>4, <2>5, Zenon DEF ReceiveClientFinish
<1> QED
  BY <1>1, <1>2, <1>3, <1>4, <1>5, Zenon DEF ServerNext

\* A freshly built coordinator has offered nothing.
LEMMA OfferInvInit == ServerInit => OfferInv
BY DEF ServerInit, OfferInv, EmptyMap, SessionIdsUnique, CommittedWasOffered
-----------------------------------------------------------------------------
\* Which calls establish a session
LEMMA OnlyFinishEstablishes ==
    ASSUME CoordinatorInv, ServerNext, state = "Listening", state' = "Established"
    PROVE  \E s \in Sources, a \in Attempts, h \in Hellos, e \in Ids, ok \in BOOLEAN :
               FinishEstablishes(s, a, <<h, e>>, ok)
<1>1. ~Clock /\ ~CheckTimeouts /\ ~Shutdown
  BY Zenon DEF Clock, CheckTimeouts, Shutdown, CloseBoth, policyVars
<1>2. ASSUME NEW s \in Sources, NEW a \in Attempts, NEW h \in Hellos,
             ReceiveClientHello(s, a, h)
      PROVE  FALSE
  BY <1>2, Zenon DEF ReceiveClientHello, HelloDropped, HelloFatal, FailClosed, CloseBoth,
              HelloAdmitted, OfferSession, HelloRejected, HelloRepeated, HelloConflicts
<1>3. ASSUME NEW s \in Sources, NEW a \in Attempts, NEW h \in Hellos, NEW e \in Ids,
             NEW ok \in BOOLEAN, ReceiveClientFinish(s, a, <<h, e>>, ok)
      PROVE  FinishEstablishes(s, a, <<h, e>>, ok)
  BY <1>3, Zenon DEF ReceiveClientFinish, FinishDropped, FinishUndecryptable, FailClosed, CloseBoth,
              FinishRejected, FinishDuplicate
<1>4. PICK s \in Sources, a \in Attempts, h \in Hellos, e \in Ids, ok \in BOOLEAN :
          ReceiveClientFinish(s, a, <<h, e>>, ok)
  BY <1>1, <1>2, Zenon DEF ServerNext
<1>5. FinishEstablishes(s, a, <<h, e>>, ok)
  BY <1>3, <1>4
<1> QED
  BY <1>5

\* A finish that establishes a session finds its candidate alive.
LEMMA EstablishingStep ==
    ASSUME CoordinatorInv, ServerNext, state = "Listening", state' = "Established"
    PROVE  LET s == session'.source IN
           /\ s \in DOMAIN pending
           /\ now < pending[s].deadline
           /\ session'.sessionId = SessionIdOf(pending[s].id)
<1>1. PICK s \in Sources, a \in Attempts, h \in Hellos, e \in Ids, ok \in BOOLEAN :
             FinishEstablishes(s, a, <<h, e>>, ok)
  BY OnlyFinishEstablishes
<1>2. /\ Permitted(s, a)
      /\ <<h, e>> = SessionIdOf(Owned(s))
      /\ session' = [id |-> Owned(s), source |-> s, attempt |-> a, sessionId |-> <<h, e>>]
  BY <1>1, Zenon DEF FinishEstablishes, CommitSession
<1>3. session'.source = s /\ session'.sessionId = SessionIdOf(pending[s].id)
  BY <1>2, Zenon DEF Owned
<1>4. s \in DOMAIN pending /\ s \notin Expired
  BY <1>2, PermittedOwner, Zenon
<1>5. pending[s].deadline \in Nat /\ now \in Nat
  BY <1>4, PolicyAssumption, SMTT(30) DEF CoordinatorInv, ManagerInv, ManagerTypeOK, IsMap, Candidate
<1>6. now < pending[s].deadline
  BY <1>4, <1>5 DEF Expired
<1> QED
  BY <1>3, <1>4, <1>6, SMTT(30)

\* Maps that shrink to the sources of S keep the candidates of S.
LEMMA ShrinkKeepsCandidates ==
    ASSUME NEW S,
           pending' = [t \in S |-> pending[t]],
           registry' = [i \in {pending[t].id : t \in S} |-> registry[i]],
           contexts' = [i \in {pending[t].id : t \in S} |-> contexts[i]]
    PROVE  \A t \in S : CandidateKept(t)
BY Zenon DEF CandidateKept

\* An expiry pass keeps every candidate that is not due.
LEMMA ReconcileSparesAll ==
    ASSUME CoordinatorInv, pending' = LivePending,
           registry' = LiveRegistry, contexts' = LiveContexts
    PROVE  AllSpared
<1> DEFINE S == DOMAIN LivePending
<1>1. /\ pending' = [t \in S |-> pending[t]]
      /\ registry' = [i \in {pending[t].id : t \in S} |-> registry[i]]
      /\ contexts' = [i \in {pending[t].id : t \in S} |-> contexts[i]]
  BY ReconcileShrinks, Zenon
<1> HIDE DEF S
<1>2. \A t \in S : CandidateKept(t)
  BY <1>1, ShrinkKeepsCandidates, Zenon
<1> QED
  BY <1>2, Zenon DEF AllSpared, S

\* abort_exact_candidate keeps the live candidates of all other sources.
LEMMA AbortSparesOthers ==
    ASSUME CoordinatorInv, NEW s \in Sources, AbortExactCandidate(s)
    PROVE  \A t \in DOMAIN LivePending \ {s} : CandidateKept(t)
<1> DEFINE S == DOMAIN LivePending \ {s}
<1>1. /\ pending' = [t \in S |-> pending[t]]
      /\ registry' = [i \in {pending[t].id : t \in S} |-> registry[i]]
      /\ contexts' = [i \in {pending[t].id : t \in S} |-> contexts[i]]
  BY AbortShrinks, Zenon
<1> HIDE DEF S
<1>2. \A t \in S : CandidateKept(t)
  BY <1>1, ShrinkKeepsCandidates, Zenon
<1> QED
  BY <1>2, Zenon DEF S

\* admit keeps every live candidate.
LEMMA AdmissionSparesAll ==
    ASSUME CoordinatorInv, NEW s \in Sources, NEW a, NEW h, HelloAdmitted(s, a, h)
    PROVE  AllSpared
<1> SUFFICES ASSUME NEW t \in DOMAIN LivePending PROVE CandidateKept(t)
  BY Zenon DEF AllSpared
<1> DEFINE kept == {pending[u].id : u \in DOMAIN LivePending}
<1>1. pending[t].id \in kept
  OBVIOUS
<1>2. t \in DOMAIN pending' /\ pending'[t] = pending[t]
  BY AdmissionExtends, Zenon
<1>3. kept \subseteq DOMAIN registry' /\ \A i \in kept : registry'[i] = registry[i]
  BY AdmissionExtends, Zenon
<1>4. kept \subseteq DOMAIN contexts' /\ \A i \in kept : contexts'[i] = contexts[i]
  BY AdmissionExtends, Zenon
<1> HIDE DEF kept
<1> QED
  BY <1>1, <1>2, <1>3, <1>4, Zenon DEF CandidateKept

\* The passing of time changes no candidate.
LEMMA ClockSparesAll ==
    ASSUME CoordinatorInv, Clock PROVE AllSpared
<1>1. UNCHANGED <<pending, registry, contexts>>
  BY DEF Clock, Tick, policyVars, cryptoVars
<1>2. \A t \in DOMAIN LivePending : t \in DOMAIN pending
  BY LivePendingPart
<1>3. \A t \in DOMAIN pending : pending[t].id \in DOMAIN registry /\ pending[t].id \in DOMAIN contexts
  BY DomainsAgree, Zenon DEF CoordinatorInv, MapsLinked
<1> QED
  BY <1>1, <1>2, <1>3, Zenon DEF AllSpared, CandidateKept

\* A datagram of s costs no other source its candidate while the server listens on.
LEMMA DatagramSparesOthers ==
    ASSUME CoordinatorInv, state = "Listening", NEW s \in Sources, DatagramOf(s)
    PROVE  OthersSpared(s)
<1>1. ASSUME AllSpared, state' = "Listening" PROVE OthersSpared(s)
  BY <1>1, Zenon DEF AllSpared, OthersSpared
<1>2. ASSUME ReconcileExpired, state' = "Listening" PROVE OthersSpared(s)
  BY <1>1, <1>2, ReconcileSparesAll, Zenon DEF ReconcileExpired, ExpirePending
<1>3. ASSUME AbortExactCandidate(s), state' = "Listening" PROVE OthersSpared(s)
  BY <1>3, AbortSparesOthers, Zenon DEF OthersSpared
<1>4. ASSUME NEW a \in Attempts, NEW h \in Hellos, ReceiveClientHello(s, a, h)
      PROVE  OthersSpared(s)
  <2>1. CASE HelloDropped(s, a)
    BY <1>2, <2>1, Zenon DEF HelloDropped
  <2>2. CASE HelloFatal(s)
    BY <2>2 DEF HelloFatal, FailClosed, CloseBoth, OthersSpared
  <2>3. CASE HelloAdmitted(s, a, h)
    <3>1. state' = "Listening"
      BY <2>3, Zenon DEF HelloAdmitted, OfferSession
    <3> QED  BY <1>1, <2>3, <3>1, AdmissionSparesAll, Zenon
  <2>4. CASE HelloRejected(s, a, h)
    BY <1>1, <2>4, ReconcileSparesAll, Zenon DEF HelloRejected, AdmitAndRemove
  <2>5. CASE HelloRepeated(s, a, h)
    BY <1>2, <2>5, Zenon DEF HelloRepeated
  <2>6. CASE HelloConflicts(s, a, h)
    BY <1>3, <2>6, Zenon DEF HelloConflicts
  <2> QED
    BY <1>4, <2>1, <2>2, <2>3, <2>4, <2>5, <2>6, Zenon DEF ReceiveClientHello
<1>5. ASSUME NEW a \in Attempts, NEW h \in Hellos, NEW e \in Ids, NEW ok \in BOOLEAN,
             ReceiveClientFinish(s, a, <<h, e>>, ok)
      PROVE  OthersSpared(s)
  <2>1. CASE FinishDropped(s, a)
    BY <1>2, <2>1, Zenon DEF FinishDropped
  <2>2. CASE FinishUndecryptable(s, a, <<h, e>>)
    BY <2>2 DEF FinishUndecryptable, Permitted, FailClosed, CloseBoth, OthersSpared
  <2>3. CASE FinishRejected(s, a, <<h, e>>, ok)
    BY <1>3, <2>3, Zenon DEF FinishRejected
  <2>4. CASE FinishEstablishes(s, a, <<h, e>>, ok)
    BY <2>4, SMTT(30) DEF FinishEstablishes, CommitSession, OthersSpared
  <2>5. ~FinishDuplicate(s, a)
    BY DEF FinishDuplicate
  <2> QED
    BY <1>5, <2>1, <2>2, <2>3, <2>4, <2>5, Zenon DEF ReceiveClientFinish
<1> QED
  BY <1>4, <1>5, Zenon DEF DatagramOf

\* The timer and the clock take no candidate that is not due.
LEMMA TimerSparesAll ==
    ASSUME CoordinatorInv, Clock \/ CheckTimeouts PROVE AllSpared
<1>1. CheckTimeouts => AllSpared
  BY ReconcileSparesAll, Zenon DEF CheckTimeouts, ReconcileExpired, ExpirePending
<1> QED
  BY <1>1, ClockSparesAll, Zenon

\* Once it no longer listens, a call leaves the coordinator as it is or closes it.
LEMMA NoLongerListening ==
    ASSUME ServerNext, state # "Listening"
    PROVE  \/ state' = state /\ session' = session /\ toClient' = toClient
           \/ state' = "Closed" /\ toClient' = toClient
<1> DEFINE Kept == state' = state /\ session' = session /\ toClient' = toClient
           Shut == state' = "Closed" /\ toClient' = toClient
<1> SUFFICES Kept \/ Shut
  OBVIOUS
<1>1. CASE Clock
  BY <1>1 DEF Clock, policyVars
<1>2. CASE CheckTimeouts
  BY <1>2 DEF CheckTimeouts
<1>3. CASE Shutdown
  BY <1>3 DEF Shutdown, CloseBoth
<1>4. ASSUME NEW s \in Sources, NEW a \in Attempts, NEW h \in Hellos,
             ReceiveClientHello(s, a, h)
      PROVE  Kept \/ Shut
  BY <1>4, Zenon DEF ReceiveClientHello, HelloDropped, HelloFatal, HelloAdmitted,
              HelloRejected, HelloRepeated, HelloConflicts
<1>5. ASSUME NEW s \in Sources, NEW a \in Attempts, NEW h \in Hellos, NEW e \in Ids,
             NEW ok \in BOOLEAN, ReceiveClientFinish(s, a, <<h, e>>, ok)
      PROVE  Kept \/ Shut
  BY <1>5, Zenon DEF ReceiveClientFinish, FinishDropped, FinishUndecryptable, FinishRejected,
              FinishEstablishes, Permitted, FinishDuplicate, FailClosed, CloseBoth
<1> QED
  BY <1>1, <1>2, <1>3, <1>4, <1>5, ZenonT(30) DEF ServerNext
-----------------------------------------------------------------------------
(* Why candidates resolve: CandidatesResolve without the fairness          *)

\* The deadline of a candidate is at most one timeout away.
DeadlinesNear == \A s \in DOMAIN pending : pending[s].deadline <= now + HandshakeTimeout

NothingDue == \A s \in DOMAIN pending : now < pending[s].deadline

\* What an expiry pass keeps is not due.
LEMMA LiveNotDue ==
    ASSUME ManagerInv
    PROVE  \A s \in DOMAIN LivePending :
              s \in DOMAIN pending /\ LivePending[s] = pending[s] /\ now < LivePending[s].deadline
<1> SUFFICES ASSUME NEW s \in DOMAIN LivePending
             PROVE  s \in DOMAIN pending /\ LivePending[s] = pending[s] /\ now < LivePending[s].deadline
  OBVIOUS
<1>1. s \in DOMAIN pending /\ LivePending[s] = pending[s]
  BY LivePendingPart
<1>2. s \notin Expired
  BY DEF LivePending, Without
<1>3. now \in Nat /\ pending[s].deadline \in Nat
  BY <1>1 DEF ManagerInv, ManagerTypeOK, IsMap, Candidate
<1>4. now < pending[s].deadline
  BY <1>1, <1>2, <1>3, SMTT(30) DEF Expired
<1> QED
  BY <1>1, <1>4, Zenon

\* The deadline admit gives a new candidate
LEMMA NewDeadline ==
    ASSUME ManagerInv
    PROVE  now < NewCandidate.deadline /\ NewCandidate.deadline <= now + HandshakeTimeout
<1>1. now \in Nat
  BY DEF ManagerInv, ManagerTypeOK
<1> QED
  BY <1>1, PolicyAssumption DEF NewCandidate

\* An operation of the manager leaves nothing that is due.
LEMMA OperationsExpire ==
    ASSUME ManagerInv, ManagerNext, now' = now
    PROVE  /\ NothingDue'
           /\ \A s \in DOMAIN pending' :
                 \/ s \in DOMAIN pending /\ pending'[s] = pending[s]
                 \/ pending'[s] = NewCandidate
<1> DEFINE Kept(s) == /\ now < pending'[s].deadline
                      /\ \/ s \in DOMAIN pending /\ pending'[s] = pending[s]
                         \/ pending'[s] = NewCandidate
<1> SUFFICES \A s \in DOMAIN pending' : Kept(s)
  BY Zenon DEF NothingDue
<1>1. CASE pending' = LivePending
  BY <1>1, LiveNotDue, Zenon
<1>2. CASE ShutdownManager
  BY <1>2 DEF ShutdownManager, EmptyMap
<1>3. ASSUME NEW s \in Sources, Admit(s) PROVE \A t \in DOMAIN pending' : Kept(t)
  <2>1. /\ DOMAIN pending' = DOMAIN LivePending \cup {s} /\ pending'[s] = NewCandidate
        /\ \A t \in DOMAIN LivePending \ {s} : pending'[t] = LivePending[t]
    BY <1>3 DEF Admit, Put
  <2> QED
    BY <2>1, LiveNotDue, NewDeadline, Zenon
<1>4. ASSUME NEW s \in Sources, RemoveCandidate(s) PROVE \A t \in DOMAIN pending' : Kept(t)
  <2>1. /\ DOMAIN pending' \subseteq DOMAIN LivePending
        /\ \A t \in DOMAIN pending' : pending'[t] = LivePending[t]
    BY <1>4 DEF RemoveCandidate, Without
  <2> QED
    BY <2>1, LiveNotDue, Zenon
<1>5. ~Tick
  <2>1. now + 1 # now
    BY DEF ManagerInv, ManagerTypeOK
  <2> QED
    BY <2>1, Zenon DEF Tick
<1> HIDE DEF Kept
<1> QED
  BY <1>1, <1>2, <1>3, <1>4, <1>5, Zenon DEF ManagerNext, ExpirePending, AdmitAndRemove

\* A step of the manager or of the clock keeps the deadlines near.
LEMMA DeadlinesStayNear ==
    ASSUME ManagerInv, DeadlinesNear, [ManagerNext]_managerVars PROVE DeadlinesNear'
<1>1. CASE UNCHANGED managerVars
  BY <1>1, Zenon DEF DeadlinesNear, managerVars
<1>2. CASE ManagerNext /\ now' = now
  BY <1>2, OperationsExpire, NewDeadline, Zenon DEF DeadlinesNear
<1>3. CASE Tick
  <2>1. now' = now + 1 /\ pending' = pending
    BY <1>3 DEF Tick
  <2>2. now \in Nat /\ HandshakeTimeout \in Nat
    BY PolicyAssumption DEF ManagerInv, ManagerTypeOK
  <2> SUFFICES ASSUME NEW s \in DOMAIN pending
               PROVE  pending[s].deadline <= now + 1 + HandshakeTimeout
    BY <2>1, Zenon DEF DeadlinesNear
  <2>3. pending[s].deadline <= now + HandshakeTimeout
    BY DEF DeadlinesNear
  <2>4. pending[s].deadline \in Nat
    BY DEF ManagerInv, ManagerTypeOK, IsMap, Candidate
  <2> QED
    BY <2>2, <2>3, <2>4, SMTT(30)
<1>4. ManagerNext => Tick \/ now' = now
  BY Zenon DEF ManagerNext, ExpirePending, ShutdownManager, Admit, RemoveCandidate, AdmitAndRemove
<1> QED
  BY <1>1, <1>2, <1>3, <1>4, Zenon
-----------------------------------------------------------------------------
(* The capacity, and what follows from all of it                           *)

LOCAL Sets == INSTANCE FiniteSetTheorems

\* The library counts as FiniteSets does.
LEMMA SameCount ==
    \A S : Sets!Cardinality(S) = Cardinality(S) /\ (Sets!IsFiniteSet(S) <=> IsFiniteSet(S))
BY Zenon DEF Sets!Cardinality, Cardinality, Sets!IsFiniteSet, IsFiniteSet

\* A part of a finite set is finite, and no larger.
LEMMA PartCount ==
    ASSUME NEW S, IsFiniteSet(S), NEW T \in SUBSET S
    PROVE  /\ IsFiniteSet(T) /\ Cardinality(T) <= Cardinality(S)
           /\ Cardinality(S) \in Nat /\ Cardinality(T) \in Nat
BY SameCount, Sets!FS_Subset, Sets!FS_CardinalityType, ZenonT(30)

\* One more element makes a finite set one larger.
LEMMA OneMoreCount ==
    ASSUME NEW S, IsFiniteSet(S), NEW x, x \notin S
    PROVE  Cardinality(S \cup {x}) = Cardinality(S) + 1
BY SameCount, Sets!FS_AddElement, ZenonT(30)

\* The empty set is finite and has no element to count.
LEMMA EmptyCount == IsFiniteSet({}) /\ Cardinality({}) = 0
BY SameCount, Sets!FS_EmptySet, Zenon

\* Sets in bijection are of one size.
LEMMA BijectionCount ==
    ASSUME NEW S, IsFiniteSet(S), NEW T, NEW f, Matching(f, S, T)
    PROVE  Cardinality(S) = Cardinality(T)
<1>1. f \in Sets!Bijection(S, T)
  BY DEF Matching, Sets!Bijection, Sets!Injection, Sets!Surjection, Sets!IsInjective
<1>2. Sets!ExistsBijection(S, T)
  BY <1>1, SMTT(30) DEF Sets!ExistsBijection
<1> QED
  BY <1>2, SameCount, Sets!FS_Bijection, Zenon

-----------------------------------------------------------------------------
\* No operation of the manager takes it beyond its capacity.
LEMMA CapacityStep ==
    ASSUME ManagerInv, [ManagerNext]_managerVars
    PROVE  WithinCapacity'
<1>1. IsFiniteSet(DOMAIN pending) /\ MaximumPending \in Nat
  BY PolicyAssumption, PartCount, Zenon DEF ManagerInv, ManagerTypeOK, IsMap
<1>2. CASE DOMAIN pending' \subseteq DOMAIN pending
  <2>1. /\ Cardinality(DOMAIN pending') <= Cardinality(DOMAIN pending)
        /\ Cardinality(DOMAIN pending') \in Nat /\ Cardinality(DOMAIN pending) \in Nat
    BY <1>1, <1>2, PartCount, ZenonT(30)
  <2>2. Cardinality(DOMAIN pending) <= MaximumPending
    BY Zenon DEF ManagerInv, WithinCapacity
  <2> QED
    BY <1>1, <2>1, <2>2, SMTT(30) DEF WithinCapacity
<1>3. ASSUME NEW s \in Sources, Grows(s) PROVE WithinCapacity'
  <2>1. IsFiniteSet(DOMAIN LivePending) /\ Cardinality(DOMAIN LivePending) \in Nat
    BY <1>1, LivePendingPart, PartCount, ZenonT(30)
  <2>2. Cardinality(DOMAIN pending') = Cardinality(DOMAIN LivePending) + 1
    BY <1>3, <2>1, OneMoreCount, ZenonT(30) DEF Grows
  <2>3. ~(Cardinality(DOMAIN LivePending) >= MaximumPending)
    BY <1>3, Zenon DEF Grows
  <2> QED
    BY <1>1, <2>1, <2>2, <2>3, SMTT(30) DEF WithinCapacity
<1> QED
  BY <1>2, <1>3, ManagerStepTypes, Zenon

\* Every operation of the manager keeps the invariant.
LEMMA ManagerStepInv == ManagerInv /\ [ManagerNext]_managerVars => ManagerInv'
BY ManagerStepTypes, CapacityStep, Zenon DEF ManagerInv

\* SessionManager::new satisfies the invariant.
LEMMA ManagerInitInv == ManagerInit => ManagerInv
<1> SUFFICES ASSUME ManagerInit PROVE ManagerInv
  OBVIOUS
<1>1. DOMAIN pending = {}
  BY DEF ManagerInit, EmptyMap
<1>2. ManagerTypeOK
  BY PolicyAssumption, SMTT(30) DEF ManagerInit, EmptyMap, ManagerTypeOK, IsMap
<1>3. 0 <= MaximumPending
  BY PolicyAssumption, SMTT(30)
<1> QED
  BY <1>1, <1>2, <1>3, EmptyCount, ZenonT(30) DEF ManagerInv, WithinCapacity, IdsDistinct

\* The manager is well typed, never holds more than maximum_pending candidates
\* (admit's len() >= maximum_pending), and never two under one identifier.
THEOREM ManagerCorrect == ManagerSpec => []ManagerInv
BY ManagerInitInv, ManagerStepInv, PTL DEF ManagerSpec

\* The capacity admit enforces is never exceeded.
THEOREM CapacityKept == ServerSpec => []WithinCapacity
<1>1. ManagerInv => WithinCapacity
  BY DEF ManagerInv
<1> QED
  BY <1>1, ManagerCorrect, ServerImplementsManager, PTL

\* Candidates never change once admitted and identifiers are never reused
\* (reserve_candidate_id, and admit's AlreadyPending return).
THEOREM CandidatesStay == ServerSpec => CandidatesNeverChange
<1> DEFINE Stays ==
      \A s \in DOMAIN pending' :
          \/ s \in DOMAIN pending /\ pending'[s] = pending[s]
          \/ pending'[s].id >= nextCandidateId
<1>1. ManagerInv /\ [ManagerNext]_managerVars => [Stays]_managerVars
  BY CandidatesStayStep, Zenon
<1> QED
  BY <1>1, ManagerCorrect, ServerImplementsManager, PTL DEF ManagerSpec, CandidatesNeverChange

\* admit: no candidate is ever given more than handshake_timeout to complete, and nothing
\* that happens to it later gives it more.
THEOREM DeadlinesAlwaysNear == ServerSpec => []DeadlinesNear
<1>1. ManagerInit => DeadlinesNear
  BY DEF ManagerInit, EmptyMap, DeadlinesNear
<1> QED
  BY <1>1, DeadlinesStayNear, ManagerCorrect, ServerImplementsManager, PTL DEF ManagerSpec

\* receive_client_hello, receive_client_finish, check_timeouts and shutdown: whatever the
\* call and however it ends, no candidate that was due when it was made is left behind.
\* With the timer that makes such a call, this is what CandidatesResolve rests on.
THEOREM DueAlwaysRemoved == ServerSpec => DueCandidatesRemoved
<1> DEFINE Removed == now' = now => \A s \in DOMAIN pending' : now < pending'[s].deadline
<1>1. ManagerInv /\ [ServerNext]_serverVars => [Removed]_serverVars
  BY ServerNextIsManagerNext, OperationsExpire, Zenon DEF NothingDue
<1> QED
  BY <1>1, ServerImplementsManager, ManagerCorrect, PTL DEF ServerSpec, DueCandidatesRemoved
-----------------------------------------------------------------------------
\* A freshly built coordinator satisfies the invariant.
LEMMA ServerInitInv == ServerInit => CoordinatorInv
<1> SUFFICES ASSUME ServerInit PROVE CoordinatorInv
  OBVIOUS
<1>1. ManagerInv
  BY ManagerInitInv, SMTT(30) DEF ServerInit
<1>2. DOMAIN EmptyMap = {} /\ EmptyMap \in [{} -> Binding] /\ EmptyMap \in [{} -> Context]
  BY DEF EmptyMap
<1>3. pending = EmptyMap /\ manager = "Running"
  BY DEF ServerInit, ManagerInit
<1>4. MapsLinked
  BY <1>2, <1>3, Zenon DEF ServerInit, MapsLinked, ContextsMatchRegistry
<1>5. PhasesLinked
  BY <1>3, Zenon DEF ServerInit, PhasesLinked
<1>6. ServerTypeOK
  BY <1>1, <1>2, Zenon DEF ServerInit, ServerTypeOK, ManagerInv, IsMap, Errors
<1> QED
  BY <1>1, <1>4, <1>5, <1>6, ZenonT(30) DEF CoordinatorInv

\* Every public call of the coordinator keeps the invariant.
LEMMA ServerStepInv == CoordinatorInv /\ [ServerNext]_serverVars => CoordinatorInv'
<1> SUFFICES ASSUME CoordinatorInv, [ServerNext]_serverVars PROVE CoordinatorInv'
  OBVIOUS
<1>1. ManagerInv'
  <2>1. ManagerInv
    BY Zenon DEF CoordinatorInv
  <2> QED
    BY <2>1, ServerStepIsManagerStep, ManagerStepInv, Zenon
<1> QED
  BY <1>1, LinksStepInv, Zenon

\* Every public call of the coordinator keeps its maps linked and its phases
\* paired.
THEOREM CoordinatorCorrect == ServerSpec => []CoordinatorInv
BY ServerInitInv, ServerStepInv, PTL DEF ServerSpec

\* A datagram of one source leaves the candidates of the others that are not due, in every
\* map, while the server listens on, and the timer leaves those of all
\* (abort_exact_candidate, expire_and_reconcile).
THEOREM RemovalAlwaysExact == ServerSpec => RemovalIsExact
<1> DEFINE Exact ==
      state = "Listening" =>
          /\ \A s \in Sources : OthersSpared(s) \/ ~DatagramOf(s)
          /\ AllSpared \/ ~(Clock \/ CheckTimeouts)
<1>1. CoordinatorInv => Exact
  BY DatagramSparesOthers, TimerSparesAll, Zenon
<1> QED
  BY <1>1, CoordinatorCorrect, PTL DEF RemovalIsExact

\* The manager and the registry hold equally many candidates, because the map
\* from sources to identifiers is a bijection between their domains.
LEMMA EquallyMany ==
    ASSUME CoordinatorInv
    PROVE  /\ Cardinality(DOMAIN pending) = Cardinality(DOMAIN registry)
           /\ Cardinality(DOMAIN pending) = Cardinality(DOMAIN contexts)
<1>1. IsFiniteSet(DOMAIN pending)
  BY PolicyAssumption, PartCount, Zenon DEF CoordinatorInv, ManagerInv, ManagerTypeOK, IsMap
<1>2. Cardinality(DOMAIN pending) = Cardinality(DOMAIN registry)
  BY <1>1, SourcesToIds, BijectionCount, Zenon
<1> QED
  BY <1>2, DomainsAgree, ZenonT(30)

\* ServerHandshakeCoordinator's types: the maps, their identifiers and what was sent.
THEOREM ServerTypeCorrect == ServerSpec => []ServerTypeOK
<1>1. CoordinatorInv => ServerTypeOK
  BY Zenon DEF CoordinatorInv
<1> QED
  BY <1>1, CoordinatorCorrect, PTL

\* verify_candidate_maps and verify_server_stable never fail: no ServerStateError
\* of the registry and no CoordinatorInvariantError is ever returned, for any
\* number of sources and candidates.
THEOREM SelfChecksNeverFail == ServerSpec => []SelfChecksPass
<1>1. CoordinatorInv => SelfChecksPass
  BY EquallyMany, SelfChecksFromCounts, Zenon
<1> QED
  BY <1>1, CoordinatorCorrect, PTL

\* The provider has a context for exactly the registered candidates, so every
\* cleanup finds what it expects (no CandidateCleanupMismatch).
THEOREM ContextsAlwaysMatch == ServerSpec => []ContextsMatchRegistry
<1>1. CoordinatorInv => ContextsMatchRegistry
  BY SMTT(30) DEF CoordinatorInv, MapsLinked
<1> QED
  BY <1>1, CoordinatorCorrect, PTL

\* No consistency check of the coordinator, the policy or the provider ever fails.
THEOREM CandidatesAlwaysInStep == ServerSpec => []CandidatesInStep
<1>1. SelfChecksPass /\ ContextsMatchRegistry => CandidatesInStep
  BY DEF CandidatesInStep
<1> QED
  BY <1>1, SelfChecksNeverFail, ContextsAlwaysMatch, PTL

\* Both invariants hold of every behaviour of the coordinator.
LEMMA OffersCorrect == ServerSpec => [](CoordinatorInv /\ OfferInv)
BY ServerInitInv, ServerStepInv, OfferInvInit, OfferStepInv, PTL DEF ServerSpec

\* The session a server commits is one it offered to that source and attempt,
\* and policy and provider commit the same (receive_client_finish).
THEOREM CommittedAlwaysOffered == ServerSpec => []CommittedWasOffered
<1>1. OfferInv => CommittedWasOffered
  BY DEF OfferInv
<1> QED
  BY <1>1, OffersCorrect, PTL

\* A session identifier belongs to one source and one attempt, as long as the
\* responder's ephemerals are fresh (prepare_server_hello).
THEOREM SessionIdsAlwaysUnique == ServerSpec => []SessionIdsUnique
<1>1. OfferInv => SessionIdsUnique
  BY DEF OfferInv
<1> QED
  BY <1>1, OffersCorrect, PTL

\* Sessions belong to the source and attempt they were offered to, the committed one
\* included (prepare_server_hello, commit_session).
THEOREM SessionsAlwaysBindPeers == ServerSpec => []SessionsBindPeers
<1>1. CommittedWasOffered /\ SessionIdsUnique => SessionsBindPeers
  BY DEF SessionsBindPeers
<1> QED
  BY <1>1, CommittedAlwaysOffered, SessionIdsAlwaysUnique, PTL

\* A session is established strictly before its candidate's deadline, with the
\* keys of that candidate (precheck_client_finish, authenticate_client_finish).
THEOREM AlwaysEstablishedInTime == ServerSpec => EstablishedInTime
<1> DEFINE InTime ==
      state = "Listening" /\ state' = "Established" =>
          LET s == session'.source IN
          /\ s \in DOMAIN pending
          /\ now < pending[s].deadline
          /\ session'.sessionId = SessionIdOf(pending[s].id)
<1>1. CoordinatorInv /\ [ServerNext]_serverVars => [InTime]_serverVars
  BY EstablishingStep, Zenon
<1> QED
  BY <1>1, CoordinatorCorrect, PTL DEF ServerSpec, EstablishedInTime

\* An established coordinator keeps its peer until it closes, and a closed one
\* neither reopens nor sends (the policy's Established and Closed arms).
THEOREM LifecycleAlwaysMonotone == ServerSpec => LifecycleIsMonotone
<1> DEFINE Monotone ==
             /\ state = "Established" =>
                   pending' = EmptyMap /\ (state' = "Closed" \/ session' = session)
             /\ state = "Closed" => state' = "Closed" /\ toClient' = toClient
<1>1. CoordinatorInv /\ CoordinatorInv' /\ [ServerNext]_serverVars => [Monotone]_serverVars
  BY NoLongerListening, Zenon DEF CoordinatorInv, PhasesLinked
<1> QED
  BY <1>1, CoordinatorCorrect, PTL DEF ServerSpec, LifecycleIsMonotone
=============================================================================

------------------------- MODULE ServerCoordinator -------------------------
(***************************************************************************)
(* The server side of the authenticated handshake: ServerHandshakeCoordi-  *)
(* nator (handshake/server.rs) driving the admission policy of session/    *)
(* server.rs, whose candidates SessionManager holds, and the Noise IK      *)
(* provider of crypto/noise_ik/server.rs in lockstep.  Every action is one *)
(* whole call of a public method of the coordinator.                       *)
(*                                                                         *)
(* The same candidate is kept in three maps: pending by source, registry   *)
(* by identifier, contexts by identifier.  The errors the code returns     *)
(* when they disagree (ServerStateError, CoordinatorInvariantError and the *)
(* provider's CryptoStateError) are not branches here: they are the        *)
(* invariants below, so a behaviour that would take such a branch violates *)
(* an invariant.                                                           *)
(*                                                                         *)
(* Noise is symbolic.  A ClientHello payload is a member of Hellos; a      *)
(* responder draws a fresh ephemeral for every payload it accepts; the     *)
(* handshake hash, and with it the session identifier and the transport    *)
(* keys, is the pair <<hello, ephemeral>>.                                 *)
(***************************************************************************)
EXTENDS SessionManager

CONSTANTS
    Attempts,           \* client attempt identifiers
    Hellos,             \* ClientHello payloads
    Acceptable          \* those that decrypt and name an allowlisted client key

ASSUME HelloAssumption == Acceptable \subseteq Hellos

VARIABLES
    state,              \* ServerHandshakeState
    session,            \* EstablishedServerSession, or NoSession
    registry,           \* candidate_by_id: id -> [source, attempt]
    phase,              \* ServerCryptoPhase
    contexts,           \* candidates: id -> [attempt, hello, ephemeral]
    established,        \* the committed Noise context, or NoSession
    ephemerals,         \* responder ephemerals drawn so far
    fatal,              \* the FatalCoordinatorError returned, if any
    toClient            \* every datagram handed to the socket

policyVars == <<state, session, registry>>
cryptoVars == <<phase, contexts, established, ephemerals>>
serverVars == <<managerVars, policyVars, cryptoVars, fatal, toClient>>

NoSession == [id |-> 0]
Errors == {"None", "DeadlineOverflow", "CandidateIdExhausted",
           "NoiseIkServerFailure", "MissingServerCandidateContext"}
Ids == 1..MaxCandidateId
Ephemerals == Nat \ {0}
SessionIds == Hellos \X Ephemerals

Binding == [source : Sources, attempt : Attempts]
Context == [attempt : Attempts, hello : Hellos, ephemeral : Ephemerals]
Committed == [id : Ids, attempt : Attempts, sessionId : SessionIds]
ServerMessage == [type : {"ServerHello", "ServerFinish"}, to : Sources,
                  attempt : Attempts, sessionId : SessionIds]

\* Type invariant of ServerHandshakeCoordinator: its maps and its offers.
ServerTypeOK ==
    /\ ManagerTypeOK
    /\ state \in {"Listening", "Established", "Closed"}
    /\ session \in {NoSession} \cup
          [id : Ids, source : Sources, attempt : Attempts, sessionId : SessionIds]
    /\ IsMap(registry, Ids, Binding)
    /\ phase \in {"Running", "Established", "Closed"}
    /\ IsMap(contexts, Ids, Context)
    /\ established \in {NoSession} \cup Committed
    /\ ephemerals \in Nat
    /\ fatal \in Errors
    /\ toClient \subseteq ServerMessage

\* What ServerHandshake::new, ServerProvider::new and build create.
ServerInit ==
    /\ ManagerInit
    /\ state = "Listening"
    /\ session = NoSession
    /\ registry = EmptyMap
    /\ phase = "Running"
    /\ contexts = EmptyMap
    /\ established = NoSession
    /\ ephemerals = 0
    /\ fatal = "None"
    /\ toClient = {}
-----------------------------------------------------------------------------
(***************************************************************************)
(* Every handler first expires what is due, in all three maps              *)
(* (expire_and_reconcile, then reconcile_expired).                         *)
(***************************************************************************)
ExpiredIds == {pending[s].id : s \in Expired}
\* Mutants of LiveRegistry and LiveContexts: what expires stays in the map
RegistryKept == registry
ContextsKept == contexts
LiveRegistry == Without(registry, ExpiredIds)
LiveContexts == Without(contexts, ExpiredIds)

ReconcileExpired ==
    /\ ExpirePending
    /\ registry' = LiveRegistry
    /\ contexts' = LiveContexts

\* The candidate a source owns after expiry (current_candidate)
Owns(s) == s \in DOMAIN LivePending
Owned(s) == pending[s].id
AttemptOf(s) == registry[Owned(s)].attempt
SessionIdOf(i) == <<contexts[i].hello, contexts[i].ephemeral>>

\* The policy's part: its entry in the manager and in the registry
RemoveExactCandidate(s) ==
    /\ RemoveCandidate(s)
    /\ registry' = Without(LiveRegistry, {Owned(s)})

\* Mutants of AbortExactCandidate: the provider keeps its context; the candidate
\* is looked up by its attempt, which clients of several sources share
AbortPolicyOnly(s) ==
    /\ RemoveExactCandidate(s)
    /\ contexts' = LiveContexts
AbortByAttempt(s) ==
    \E t \in DOMAIN LivePending :
        /\ AttemptOf(t) = AttemptOf(s)
        /\ RemoveExactCandidate(t)
        /\ contexts' = Without(LiveContexts, {Owned(t)})

\* abort_exact_candidate, then remove_candidate of the provider
AbortExactCandidate(s) ==
    /\ RemoveExactCandidate(s)
    /\ contexts' = Without(LiveContexts, {Owned(s)})

Send(type, s, a, sid) ==
    toClient' = toClient \cup
        {[type |-> type, to |-> s, attempt |-> a, sessionId |-> sid]}

\* policy.shutdown and crypto.shutdown
CloseBoth ==
    /\ ShutdownManager
    /\ state' = "Closed"
    /\ session' = NoSession
    /\ registry' = EmptyMap
    /\ phase' = "Closed"
    /\ contexts' = EmptyMap
    /\ established' = NoSession
    /\ UNCHANGED <<ephemerals, toClient>>

FailClosed(error) ==
    /\ CloseBoth
    /\ fatal' = error
-----------------------------------------------------------------------------
(***************************************************************************)
(* receive_client_hello                                                    *)
(***************************************************************************)
\* Closed, another peer active, at capacity, or another attempt of the source
HelloDropped(s, a) ==
    /\ \/ state # "Listening"
       \/ AdmissionOutcome(s) = "AtCapacity"
       \/ AdmissionOutcome(s) = "AlreadyPending" /\ AttemptOf(s) # a
    /\ ReconcileExpired
    /\ UNCHANGED <<state, session, phase, established, ephemerals, fatal, toClient>>

HelloFatal(s) ==
    /\ state = "Listening"
    /\ AdmissionOutcome(s) \in {"DeadlineOverflow", "CandidateIdExhausted"}
    /\ FailClosed(AdmissionOutcome(s))

\* The registry entry, the provider's context and the ServerHello of a new
\* candidate, with responder ephemeral e
OfferSession(s, a, h, e) ==
    /\ registry' = Put(LiveRegistry, nextCandidateId, [source |-> s, attempt |-> a])
    /\ contexts' = Put(LiveContexts, nextCandidateId,
                       [attempt |-> a, hello |-> h, ephemeral |-> e])
    /\ Send("ServerHello", s, a, <<h, e>>)
    /\ UNCHANGED <<state, session, phase, established, fatal>>

\* Mutants of HelloAdmitted: the responder's ephemeral is not fresh; any
\* client key is accepted
AdmittedSameEphemeral(s, a, h) ==
    /\ state = "Listening" /\ h \in Acceptable /\ Admit(s)
    /\ OfferSession(s, a, h, 1)
    /\ UNCHANGED ephemerals
AdmittedAnyKey(s, a, h) ==
    /\ state = "Listening" /\ Admit(s)
    /\ ephemerals' = ephemerals + 1
    /\ OfferSession(s, a, h, ephemerals + 1)

HelloAdmitted(s, a, h) ==
    /\ state = "Listening"
    /\ h \in Acceptable
    /\ Admit(s)
    /\ ephemerals' = ephemerals + 1
    /\ OfferSession(s, a, h, ephemerals + 1)

\* InvalidProof or IdentityMismatch: the candidate just admitted is aborted
HelloRejected(s, a, h) ==
    /\ state = "Listening"
    /\ h \notin Acceptable
    /\ AdmitAndRemove(s)
    /\ registry' = LiveRegistry
    /\ contexts' = LiveContexts
    /\ UNCHANGED <<state, session, phase, established, ephemerals, fatal, toClient>>

\* The same bytes again: the cached ServerHello is sent again
HelloRepeated(s, a, h) ==
    /\ state = "Listening"
    /\ AdmissionOutcome(s) = "AlreadyPending"
    /\ AttemptOf(s) = a
    /\ contexts[Owned(s)].hello = h
    /\ ReconcileExpired
    /\ Send("ServerHello", s, a, SessionIdOf(Owned(s)))
    /\ UNCHANGED <<state, session, phase, established, ephemerals, fatal>>

\* Other bytes for the same attempt (TranscriptMismatch): the candidate goes
HelloConflicts(s, a, h) ==
    /\ state = "Listening"
    /\ AdmissionOutcome(s) = "AlreadyPending"
    /\ AttemptOf(s) = a
    /\ contexts[Owned(s)].hello # h
    /\ AbortExactCandidate(s)
    /\ UNCHANGED <<state, session, phase, established, ephemerals, fatal, toClient>>

ReceiveClientHello(s, a, h) ==
    \/ HelloDropped(s, a)
    \/ HelloFatal(s)
    \/ HelloAdmitted(s, a, h)
    \/ HelloRejected(s, a, h)
    \/ HelloRepeated(s, a, h)
    \/ HelloConflicts(s, a, h)
-----------------------------------------------------------------------------
(***************************************************************************)
(* receive_client_finish.  The payload is encrypted under the transport    *)
(* keys of session sid; ok says whether the control data it carries is the *)
(* one expected (Profile::validate_control).                               *)
(***************************************************************************)
Permitted(s, a) == state = "Listening" /\ Owns(s) /\ AttemptOf(s) = a

FinishDropped(s, a) ==
    /\ \/ state = "Closed"
       \/ state = "Established" /\ ~(s = session.source /\ a = session.attempt)
       \/ state = "Listening" /\ ~Owns(s)
       \/ state = "Listening" /\ Owns(s) /\ AttemptOf(s) # a
    /\ ReconcileExpired
    /\ UNCHANGED <<state, session, phase, established, ephemerals, fatal, toClient>>

\* The tag does not verify under the candidate's keys: read_message fails and
\* the provider returns an error, not a remote failure
FinishUndecryptable(s, a, sid) ==
    /\ Permitted(s, a)
    /\ sid # SessionIdOf(Owned(s))
    /\ FailClosed("NoiseIkServerFailure")

\* It decrypts to other control data (InvalidConfirmation)
FinishRejected(s, a, sid, ok) ==
    /\ Permitted(s, a)
    /\ sid = SessionIdOf(Owned(s))
    /\ ~ok
    /\ AbortExactCandidate(s)
    /\ UNCHANGED <<state, session, phase, established, ephemerals, fatal, toClient>>

\* The policy records the peer, the provider commits, the confirmation is sent
CommitSession(s, a, sid) ==
    /\ registry' = EmptyMap
    /\ state' = "Established"
    /\ session' = [id |-> Owned(s), source |-> s, attempt |-> a, sessionId |-> sid]
    /\ contexts' = EmptyMap
    /\ phase' = "Established"
    /\ established' = [id |-> Owned(s), attempt |-> a, sessionId |-> sid]
    /\ Send("ServerFinish", s, a, sid)
    /\ UNCHANGED <<ephemerals, fatal>>

\* Mutants of FinishEstablishes: the tag is not verified; other candidates
\* stay pending
EstablishesUnverified(s, a, sid, ok) ==
    Permitted(s, a) /\ ok /\ ShutdownManager /\ CommitSession(s, a, sid)
EstablishesBesideOthers(s, a, sid, ok) ==
    /\ Permitted(s, a) /\ sid = SessionIdOf(Owned(s)) /\ ok
    /\ RemoveCandidate(s)
    /\ CommitSession(s, a, sid)

\* The peer is established, and every other candidate dropped with the manager
FinishEstablishes(s, a, sid, ok) ==
    /\ Permitted(s, a)
    /\ sid = SessionIdOf(Owned(s))
    /\ ok
    /\ ShutdownManager
    /\ CommitSession(s, a, sid)

\* A finish of the established peer: the policy permits it as a duplicate, but
\* commit_session emptied the map authenticate_client_finish looks in
FinishDuplicate(s, a) ==
    /\ state = "Established"
    /\ s = session.source
    /\ a = session.attempt
    /\ FailClosed("MissingServerCandidateContext")

ReceiveClientFinish(s, a, sid, ok) ==
    \/ FinishDropped(s, a)
    \/ FinishUndecryptable(s, a, sid)
    \/ FinishRejected(s, a, sid, ok)
    \/ FinishEstablishes(s, a, sid, ok)
    \/ FinishDuplicate(s, a)
-----------------------------------------------------------------------------
CheckTimeouts ==
    /\ ReconcileExpired
    /\ UNCHANGED <<state, session, phase, established, ephemerals, fatal, toClient>>

Shutdown == CloseBoth /\ UNCHANGED fatal

Clock == Tick /\ UNCHANGED <<policyVars, cryptoVars, fatal, toClient>>

ServerNext ==
    \/ Clock
    \/ CheckTimeouts
    \/ Shutdown
    \/ \E s \in Sources, a \in Attempts, h \in Hellos : ReceiveClientHello(s, a, h)
    \/ \E s \in Sources, a \in Attempts, h \in Hellos, e \in Ids, ok \in BOOLEAN :
          ReceiveClientFinish(s, a, <<h, e>>, ok)

ServerSpec == ServerInit /\ [][ServerNext]_serverVars
-----------------------------------------------------------------------------
\* verify_candidate_maps: the manager and the registry hold the same
\* candidates, so no CandidateRegistryMissing, Orphaned, SourceMismatch or
\* CountMismatch is ever returned.
CandidateMapsAgree ==
    /\ state # "Listening" => registry = EmptyMap
    /\ \A i \in DOMAIN registry :
          /\ registry[i].source \in DOMAIN pending
          /\ pending[registry[i].source].id = i
    /\ Cardinality(DOMAIN pending) = Cardinality(DOMAIN registry)

\* verify_server_stable: after every public call policy and crypto are in one
\* of the three stable pairs, with equally many pending candidates.
ServerStable ==
    \/ /\ state = "Listening" /\ phase = "Running"
       /\ Cardinality(DOMAIN pending) = Cardinality(DOMAIN contexts)
       /\ established = NoSession
    \/ /\ state = "Established" /\ phase = "Established"
       /\ contexts = EmptyMap /\ established # NoSession
    \/ /\ state = "Closed" /\ phase = "Closed"
       /\ contexts = EmptyMap /\ established = NoSession

\* The consistency checks the code makes of itself after every call never fail, so
\* no interleaving of sources and timers makes the server close for its own sake.
SelfChecksPass == CandidateMapsAgree /\ ServerStable

\* Stronger than the code's own check, which only counts: the provider holds a
\* context for exactly the registered identifiers, under the same attempt, so
\* every cleanup finds what it expects (no CandidateCleanupMismatch, no
\* AttemptIdMismatch).
ContextsMatchRegistry ==
    /\ DOMAIN contexts = DOMAIN registry
    /\ \A i \in DOMAIN registry : contexts[i].attempt = registry[i].attempt

\* verify_candidate_maps, verify_server_stable and the cleanup of candidates: policy,
\* registry and provider stay in step, so that none of their checks ever fails.
CandidatesInStep == SelfChecksPass /\ ContextsMatchRegistry

\* A committed session is one whose ServerHello went to the very source and
\* attempt that completed it, under keys no other candidate shares, and policy
\* and provider committed the same one.
CommittedWasOffered ==
    state = "Established" =>
        /\ [type |-> "ServerHello", to |-> session.source, attempt |-> session.attempt,
            sessionId |-> session.sessionId] \in toClient
        /\ established = [id |-> session.id, attempt |-> session.attempt,
                          sessionId |-> session.sessionId]
        /\ session.sessionId[1] \in Acceptable

\* Two ServerHellos never share a session identifier unless one is the cached
\* copy of the other: a session belongs to one source and one attempt.
SessionIdsUnique ==
    \A m, n \in toClient :
        m.sessionId = n.sessionId => m.to = n.to /\ m.attempt = n.attempt

\* commit_session: the session that policy and provider commit belongs to the one source
\* and attempt it was offered to.
SessionsBindPeers == CommittedWasOffered /\ SessionIdsUnique

\* The candidate of t is in all three maps as it was.
CandidateKept(t) ==
    LET i == pending[t].id IN
    /\ t \in DOMAIN pending' /\ pending'[t] = pending[t]
    /\ i \in DOMAIN registry' /\ registry'[i] = registry[i]
    /\ i \in DOMAIN contexts' /\ contexts'[i] = contexts[i]

\* A datagram of s, whatever it carries
DatagramOf(s) ==
    \/ \E a \in Attempts, h \in Hellos : ReceiveClientHello(s, a, h)
    \/ \E a \in Attempts, h \in Hellos, e \in Ids, ok \in BOOLEAN :
          ReceiveClientFinish(s, a, <<h, e>>, ok)

\* What a datagram of s may do to the other sources, and the timer to all
OthersSpared(s) ==
    \/ state' = "Listening" /\ \A t \in DOMAIN LivePending \ {s} : CandidateKept(t)
    \/ state' = "Established" /\ session'.source = s
    \/ /\ state' = "Closed" /\ fatal' # "None"
       /\ Owns(s) \/ fatal' \in {"DeadlineOverflow", "CandidateIdExhausted"}
AllSpared == \A t \in DOMAIN LivePending : CandidateKept(t)

\* abort_exact_candidate and expire_and_reconcile: while the server listens, a datagram
\* of one source leaves the candidates of all the others, unless they are due, in every
\* map as they were, and the timer those of all.  The others lose theirs to s only
\* together with the server's listening: the session of s itself is established, or the
\* server closes with an error, which takes a candidate of s or an exhausted clock or
\* counter.
RemovalIsExact ==
    [][state = "Listening" =>
          /\ \A s \in Sources : OthersSpared(s) \/ ~DatagramOf(s)
          /\ AllSpared \/ ~(Clock \/ CheckTimeouts)]_serverVars

\* expire_and_reconcile, which every handler begins with: no call that changes anything
\* leaves a candidate that was due when it was made, however many fell due together and
\* whatever becomes of its datagram.
DueCandidatesRemoved ==
    [][now' = now => \A s \in DOMAIN pending' : now < pending'[s].deadline]_serverVars

\* A session is only established by a candidate whose deadline has not come
\* ("A deadline is expired when now >= deadline", docs/handshake.md).
EstablishedInTime ==
    [][state = "Listening" /\ state' = "Established" =>
          LET s == session'.source IN
          /\ s \in DOMAIN pending
          /\ now < pending[s].deadline
          /\ session'.sessionId = SessionIdOf(pending[s].id)]_serverVars

\* A coordinator only moves from Listening to Established to Closed: the
\* established peer is never replaced and nothing is pending beside it, and a
\* closed coordinator neither reopens nor sends.
LifecycleIsMonotone ==
    [][/\ state = "Established" =>
             pending' = EmptyMap /\ (state' = "Closed" \/ session' = session)
       /\ state = "Closed" => state' = "Closed" /\ toClient' = toClient]_serverVars

\* "After establishment, only an exact duplicate ClientFinish from the
\* established peer may cause the confirmation to be prepared again"
\* (docs/handshake.md): an established session ends by local shutdown only.
DuplicateFinishKeepsSession ==
    [][state = "Established" /\ state' = "Closed" => fatal' = fatal]_serverVars
=============================================================================

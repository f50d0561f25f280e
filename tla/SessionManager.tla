--------------------------- MODULE SessionManager ---------------------------
(***************************************************************************)
(* The bounded set of unauthenticated handshake candidates that a server   *)
(* keeps (session.rs): at most one per source address, each with a fresh   *)
(* identifier and a deadline that no later message moves.                  *)
(*                                                                         *)
(* Time is a natural number; MaxInstant is the last representable Instant  *)
(* and MaxCandidateId stands for u64::MAX.                                 *)
(***************************************************************************)
EXTENDS Naturals, FiniteSets, Maps

CONSTANTS
    Sources,            \* transport addresses datagrams come from
    MaximumPending,     \* SessionPolicy::maximum_pending
    HandshakeTimeout,   \* SessionPolicy::handshake_timeout
    MaxInstant,
    MaxCandidateId

\* SessionPolicy::new refuses a zero capacity and a zero timeout.
ASSUME PolicyAssumption ==
    /\ IsFiniteSet(Sources)
    /\ MaximumPending \in Nat \ {0}
    /\ HandshakeTimeout \in Nat \ {0}
    /\ MaxInstant \in Nat
    /\ MaxCandidateId \in Nat \ {0}

VARIABLES
    now,                \* the caller's clock, an argument of every operation
    manager,            \* ManagerState
    pending,            \* pending_by_source: source -> [id, deadline]
    nextCandidateId     \* next_candidate_id

managerVars == <<now, manager, pending, nextCandidateId>>

Candidate == [id : 1..MaxCandidateId, deadline : 0..MaxInstant]

\* Type invariant of SessionManager: its registry, its counter and its clock.
ManagerTypeOK ==
    /\ now \in 0..MaxInstant
    /\ manager \in {"Running", "Closed"}
    /\ IsMap(pending, Sources, Candidate)
    /\ nextCandidateId \in 1..MaxCandidateId

ManagerInit ==
    /\ now = 0
    /\ manager = "Running"
    /\ pending = EmptyMap
    /\ nextCandidateId = 1
-----------------------------------------------------------------------------
\* Mutants of Expired: the deadline's own instant still counts; the pass stops
\* at the oldest candidate
ExpiredLate == {s \in DOMAIN pending : now > pending[s].deadline}
ExpiredOldest ==
    {s \in DOMAIN pending :
        /\ now >= pending[s].deadline
        /\ \A t \in DOMAIN pending : pending[s].id <= pending[t].id}

\* A deadline is due at its exact instant.
Expired == {s \in DOMAIN pending : now >= pending[s].deadline}

LivePending == Without(pending, Expired)

\* Mutants of AdmissionOutcome: plain instead of checked addition; one
\* candidate too many
AdmissionUnchecked(s) ==
    IF manager = "Closed" THEN "Closed"
    ELSE IF s \in DOMAIN LivePending THEN "AlreadyPending"
    ELSE IF Cardinality(DOMAIN LivePending) >= MaximumPending THEN "AtCapacity"
    ELSE "Added"
AdmissionOneTooMany(s) ==
    IF manager = "Closed" THEN "Closed"
    ELSE IF s \in DOMAIN LivePending THEN "AlreadyPending"
    ELSE IF Cardinality(DOMAIN LivePending) > MaximumPending THEN "AtCapacity"
    ELSE IF now + HandshakeTimeout > MaxInstant THEN "DeadlineOverflow"
    ELSE IF nextCandidateId = MaxCandidateId THEN "CandidateIdExhausted"
    ELSE "Added"

\* The early returns of admit, in order; the last two are its errors.
AdmissionOutcome(s) ==
    IF manager = "Closed" THEN "Closed"
    ELSE IF s \in DOMAIN LivePending THEN "AlreadyPending"
    ELSE IF Cardinality(DOMAIN LivePending) >= MaximumPending THEN "AtCapacity"
    ELSE IF now + HandshakeTimeout > MaxInstant THEN "DeadlineOverflow"
    ELSE IF nextCandidateId = MaxCandidateId THEN "CandidateIdExhausted"
    ELSE "Added"

NewCandidate == [id |-> nextCandidateId, deadline |-> now + HandshakeTimeout]

\* expire_pending, and admit when it adds nothing
ExpirePending ==
    /\ pending' = LivePending
    /\ UNCHANGED <<now, manager, nextCandidateId>>

\* Mutant of Admit: a repeated hello refreshes the deadline of its candidate
AdmitRefreshing(s) ==
    /\ AdmissionOutcome(s) \in {"Added", "AlreadyPending"}
    /\ pending' = IF s \in DOMAIN LivePending
                  THEN [LivePending EXCEPT ![s].deadline = now + HandshakeTimeout]
                  ELSE Put(LivePending, s, NewCandidate)
    /\ nextCandidateId' = IF s \in DOMAIN LivePending THEN nextCandidateId
                          ELSE nextCandidateId + 1
    /\ UNCHANGED <<now, manager>>

\* admit when it adds a candidate
Admit(s) ==
    /\ AdmissionOutcome(s) = "Added"
    /\ pending' = Put(LivePending, s, NewCandidate)
    /\ nextCandidateId' = nextCandidateId + 1
    /\ UNCHANGED <<now, manager>>

\* remove_candidate, always after an expiry pass in the same call of the server
RemoveCandidate(s) ==
    /\ s \in DOMAIN LivePending
    /\ pending' = Without(LivePending, {s})
    /\ UNCHANGED <<now, manager, nextCandidateId>>

\* admit followed by remove_candidate within one call of the server: the hello
\* was admitted before its payload turned out not to authenticate
AdmitAndRemove(s) ==
    /\ AdmissionOutcome(s) = "Added"
    /\ pending' = LivePending
    /\ nextCandidateId' = nextCandidateId + 1
    /\ UNCHANGED <<now, manager>>

ShutdownManager ==
    /\ manager' = "Closed"
    /\ pending' = EmptyMap
    /\ UNCHANGED <<now, nextCandidateId>>

Tick ==
    /\ now < MaxInstant
    /\ now' = now + 1
    /\ UNCHANGED <<manager, pending, nextCandidateId>>

ManagerNext ==
    \/ Tick
    \/ ExpirePending
    \/ ShutdownManager
    \/ \E s \in Sources : Admit(s) \/ RemoveCandidate(s) \/ AdmitAndRemove(s)

ManagerSpec == ManagerInit /\ [][ManagerNext]_managerVars
-----------------------------------------------------------------------------
\* The capacity is never exceeded, whatever the order of admissions,
\* expirations and removals (admit: len() >= maximum_pending).
WithinCapacity == Cardinality(DOMAIN pending) <= MaximumPending

\* No two pending sources share an identifier, and none has the next one: an
\* identifier names one candidate for the life of the manager.
IdsDistinct ==
    /\ \A s \in DOMAIN pending : pending[s].id < nextCandidateId
    /\ \A s, t \in DOMAIN pending : pending[s].id = pending[t].id => s = t

\* A candidate never changes once admitted (a repeated hello refreshes no
\* deadline), and an identifier is never issued twice, not even after its
\* candidate is gone: what appears in the map is newer than all before it.
CandidatesNeverChange ==
    [][\A s \in DOMAIN pending' :
          \/ s \in DOMAIN pending /\ pending'[s] = pending[s]
          \/ pending'[s].id >= nextCandidateId]_managerVars
=============================================================================

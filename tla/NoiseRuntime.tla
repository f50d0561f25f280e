---------------------------- MODULE NoiseRuntime ----------------------------
(***************************************************************************)
(* The two sides of the handshake over UDP: the receive loops of           *)
(* noise_runtime.rs around the client and the server coordinator, up to    *)
(* the point where a side hands its committed transport to the encrypted   *)
(* data plane.                                                             *)
(*                                                                         *)
(* The network is the two sets of all datagrams ever sent: a datagram may  *)
(* be received at any later time, in any order, any number of times, by a  *)
(* later process at the same address, or never.  Processes end at any time *)
(* (a signal, a failed send, a crash, the end of the data session) and are *)
(* launched again; a new process remembers nothing, but draws ephemerals   *)
(* no process has drawn before.  A client's address is its bind_addr, the  *)
(* same in all its runs, so clients and addresses are one set.             *)
(***************************************************************************)
EXTENDS Naturals, FiniteSets

CONSTANTS
    Clients,
    Allowed,            \* clients whose public key the server's allowlist has
    MaximumPending,     \* MAX_PENDING
    HandshakeTimeout,   \* HANDSHAKE_TIMEOUT
    MaxInstant,         \* bound: the clock stops here
    MaxCandidateId,     \* bound: identifiers of one server process
    MaxClientRuns,      \* bound: runs of one client
    MaxServerRuns       \* bound: runs of the server

\* The allowlist is of clients' keys, and timeouts, instants and runs are counted.
ASSUME RuntimeAssumption ==
    /\ Allowed \subseteq Clients
    /\ HandshakeTimeout \in Nat /\ MaxInstant \in Nat /\ MaxClientRuns \in Nat

VARIABLES
    now,
    \* the server process
    manager, pending, nextCandidateId, state, session, registry,
    phase, contexts, established, ephemerals, fatal,
    serverRun, serverRuns,
    \* the client processes
    policy, crypto, drawn, failed,
    run, runDeadline,
    \* the network
    toClient, toServer

Attempts == {1}
Hellos == Clients \X (1..MaxClientRuns)
Acceptable == Allowed \X (1..MaxClientRuns)

Server == INSTANCE ServerCoordinator WITH Sources <- Clients
Client == INSTANCE ClientCoordinator

coordinatorVars == <<manager, pending, nextCandidateId, state, session, registry,
                     phase, contexts, established, fatal>>
serverVars == <<coordinatorVars, ephemerals, toClient, serverRun, serverRuns>>
clientVars == <<policy, crypto, drawn, failed, run, runDeadline, toServer>>
runtimeVars == <<now, serverVars, clientVars>>

\* The server is up; no client is
RuntimeInit ==
    /\ Server!ServerInit
    /\ Client!ClientInit
    /\ serverRun = "Handshake"
    /\ serverRuns = 1
    /\ run = [c \in Clients |-> "Ended"]
    /\ runDeadline = [c \in Clients |-> 0]

\* Bounds: near the end of modelled time datagrams are lost, and hellos when a
\* server process has no identifiers left, so that neither instants nor u64
\* identifiers run out here (ServerCoordinator covers both)
InHorizon == now + HandshakeTimeout <= MaxInstant
IdentifiersLeft == nextCandidateId < MaxCandidateId
-----------------------------------------------------------------------------
\* bind, and run up to the loop: the hello is sent once, never again, and one
\* deadline bounds the whole handshake
ClientLaunches(c) ==
    /\ InHorizon
    /\ run[c] = "Ended"
    /\ policy[c].state = "Idle"
    /\ drawn[c] < MaxClientRuns
    /\ Client!Start(c)
    /\ run' = [run EXCEPT ![c] = "Handshake"]
    /\ runDeadline' = [runDeadline EXCEPT ![c] = now + HandshakeTimeout]
    /\ UNCHANGED serverVars

\* What the client loop makes of the coordinator's report
RunAfter(c) ==
    IF c \in failed' THEN "Ended"
    ELSE IF policy'[c].state = "Established" THEN "Data"
    ELSE "Handshake"

\* timeout_at polls the socket first: a datagram may win at the deadline
ClientReceives(c) ==
    /\ InHorizon
    /\ run[c] = "Handshake"
    /\ \E m \in toClient :
          /\ m.to = c
          /\ \/ /\ m.type = "ServerHello"
                /\ Client!ReceiveServerHello(c, m.attempt, m.sessionId, TRUE, TRUE)
             \/ /\ m.type = "ServerFinish"
                /\ Client!ReceiveServerFinish(c, m.attempt, m.sessionId, TRUE, TRUE)
    /\ run' = [run EXCEPT ![c] = RunAfter(c)]
    /\ UNCHANGED <<serverVars, runDeadline>>

\* The process is gone, and its coordinator with it
ClientGone(c) ==
    /\ policy' = [policy EXCEPT ![c] = Client!FreshPolicy]
    /\ crypto' = [crypto EXCEPT ![c] = Client!FreshCrypto]
    /\ failed' = failed \ {c}
    /\ run' = [run EXCEPT ![c] = "Ended"]
    /\ runDeadline' = [runDeadline EXCEPT ![c] = 0]
    /\ UNCHANGED <<now, drawn, toServer, serverVars>>

\* Mutant of ClientTimesOut: a run whose coordinator is closed is not watched
TimesOutUnlessClosed(c) ==
    /\ run[c] = "Handshake" /\ policy[c].state # "Closed"
    /\ now >= runDeadline[c]
    /\ ClientGone(c)

ClientTimesOut(c) ==
    /\ run[c] = "Handshake"
    /\ now >= runDeadline[c]
    /\ ClientGone(c)

ClientEnds(c) == run[c] # "Ended" /\ ClientGone(c)
-----------------------------------------------------------------------------
\* Mutant of ServerRunAfter: the loop goes on with the coordinator
RunAfterGoesOn == IF fatal' # "None" THEN "Ended" ELSE "Handshake"

\* What the server loop makes of the coordinator's answer: an error ends the
\* process, an established session consumes the coordinator
ServerRunAfter ==
    IF fatal' # "None" THEN "Ended"
    ELSE IF state' = "Established" THEN "Data"
    ELSE "Handshake"

ServerReceives ==
    /\ InHorizon
    /\ serverRun = "Handshake"
    /\ \E m \in toServer :
          \/ /\ m.type = "ClientHello"
             /\ IdentifiersLeft
             /\ Server!ReceiveClientHello(m.from, m.attempt, m.hello)
          \/ /\ m.type = "ClientFinish"
             /\ Server!ReceiveClientFinish(m.from, m.attempt, m.sessionId, TRUE)
    /\ serverRun' = ServerRunAfter
    /\ UNCHANGED <<serverRuns, clientVars>>

\* Mutant of ServerTimesOut: the timer only wakes the loop
TimerOnlyWakes ==
    /\ serverRun = "Handshake"
    /\ \E s \in DOMAIN pending : pending[s].deadline <= now
    /\ UNCHANGED runtimeVars

\* sleep_until(next_deadline), then check_timeouts
ServerTimesOut ==
    /\ serverRun = "Handshake"
    /\ \E s \in DOMAIN pending : pending[s].deadline <= now
    /\ Server!CheckTimeouts
    /\ UNCHANGED <<serverRun, serverRuns, clientVars>>

ServerGone ==
    /\ manager' = "Running"
    /\ pending' = <<>>
    /\ nextCandidateId' = 1
    /\ state' = "Listening"
    /\ session' = Server!NoSession
    /\ registry' = <<>>
    /\ phase' = "Running"
    /\ contexts' = <<>>
    /\ established' = Server!NoSession
    /\ fatal' = "None"
    /\ UNCHANGED <<now, ephemerals, toClient, clientVars>>

ServerEnds ==
    /\ serverRun # "Ended"
    /\ serverRun' = "Ended"
    /\ ServerGone
    /\ UNCHANGED serverRuns

ServerLaunches ==
    /\ serverRun = "Ended"
    /\ serverRuns < MaxServerRuns
    /\ serverRun' = "Handshake"
    /\ serverRuns' = serverRuns + 1
    /\ ServerGone
-----------------------------------------------------------------------------
Tick ==
    /\ now < MaxInstant
    /\ now' = now + 1
    /\ UNCHANGED <<serverVars, clientVars>>

RuntimeNext ==
    \/ Tick
    \/ ServerReceives
    \/ ServerTimesOut
    \/ ServerEnds
    \/ ServerLaunches
    \/ \E c \in Clients :
        ClientLaunches(c) \/ ClientReceives(c) \/ ClientTimesOut(c) \/ ClientEnds(c)

RuntimeSpec == RuntimeInit /\ [][RuntimeNext]_runtimeVars

\* Time passes and the runtime's timers fire; no datagram need arrive
FairRuntimeSpec ==
    /\ RuntimeSpec
    /\ WF_runtimeVars(Tick)
    /\ WF_runtimeVars(ServerTimesOut)
    /\ \A c \in Clients : WF_runtimeVars(ClientTimesOut(c))
-----------------------------------------------------------------------------
\* Agreement ("both endpoints commit the same session ID and opposite peer
\* identities", docs/handshake.md): a client in an established session was
\* confirmed by a server that had committed that session for that client, and
\* the session's keys are of the client's present run.
Agreement ==
    \A c \in Clients : policy[c].state = "Established" =>
        /\ [type |-> "ServerFinish", to |-> c, attempt |-> policy[c].attempt,
            sessionId |-> crypto[c].sessionId] \in toClient
        /\ crypto[c].sessionId[1] = <<c, drawn[c]>>

\* The server only enters the data plane for an allowlisted client that proved
\* possession of the session's keys, and hands it the transport of that session.
ServerPeerProven ==
    serverRun = "Data" =>
        /\ session.source \in Allowed
        /\ session.sessionId[1][1] = session.source
        /\ [type |-> "ClientFinish", from |-> session.source, attempt |-> session.attempt,
            sessionId |-> session.sessionId] \in toServer
        /\ established.sessionId = session.sessionId

\* No transport key serves two data sessions, not even when a restarted server
\* is sent an old ClientHello and an old ClientFinish again: the data plane
\* counts nonces from FIRST_SEQUENCE in every session.
SessionUsedOnce ==
    [][serverRun = "Handshake" /\ serverRun' = "Data" =>
          \A m \in toClient :
              m.type = "ServerFinish" => m.sessionId # session'.sessionId]_runtimeVars

\* When both the server and the client at its peer's address forward data, they
\* do so in the same session, whatever was restarted, delayed or repeated.
NoCrossedSessions ==
    \A c \in Clients :
        run[c] = "Data" /\ serverRun = "Data" /\ session.source = c =>
            crypto[c].sessionId = session.sessionId

\* NoiseIkRuntime::run on both sides: what a client is established in was committed for
\* it, and two ends that forward data to each other do so in one session.
SessionsAgree == Agreement /\ NoCrossedSessions

\* The server loop hands the coordinator over when a session is established,
\* so a duplicate ClientFinish of the peer, fatal to a coordinator that is
\* still driven, never ends the process.
DuplicateFinishNeverFatal == fatal # "MissingServerCandidateContext"

\* "An invalid remote message is normal hostile input, not a local program
\* failure" (docs/handshake.md): no datagram makes the server process end.
NoDatagramEndsServer == fatal = "None"

\* A client run always leaves the handshake: by establishing the session, or
\* because the deadline of run comes, even when the coordinator is closed.
ClientRunResolves ==
    \A c \in Clients : run[c] = "Handshake" ~> run[c] # "Handshake"

\* Every candidate leaves the server's tables: established, aborted or
\* expired, without any further datagram.
CandidatesResolve ==
    \A i \in 1..MaxCandidateId : i \in DOMAIN registry ~> i \notin DOMAIN registry
=============================================================================

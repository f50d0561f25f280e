------------------------- MODULE ClientCoordinator -------------------------
(***************************************************************************)
(* The client side of the authenticated handshake, for a set of clients:   *)
(* ClientHandshakeCoordinator (handshake/client.rs) driving the policy of  *)
(* session/client.rs and the Noise IK provider of crypto/noise_ik/         *)
(* client.rs in lockstep.  Every action is one whole call of a public      *)
(* method of one client's coordinator.                                     *)
(*                                                                         *)
(* As in ServerCoordinator, errors that report a disagreement of policy    *)
(* and provider are invariants, not branches.  Each started attempt draws  *)
(* a fresh initiator ephemeral n, and its ClientHello payload is <<c, n>>; *)
(* a ServerHello authenticates when it answers that very payload, and the  *)
(* session identifier is the pair of the payload and the server's          *)
(* ephemeral.                                                              *)
(***************************************************************************)
EXTENDS Naturals

CONSTANTS
    Clients,
    HandshakeTimeout,   \* handshake_timeout, per phase
    MaxInstant,         \* the last representable Instant
    Attempts            \* attempt identifiers datagrams carry

\* ClientHandshake::new refuses a zero timeout.
ASSUME ClientAssumption ==
    /\ HandshakeTimeout \in Nat \ {0}
    /\ MaxInstant \in Nat
    /\ Attempts \subseteq Nat \ {0}
    /\ 1 \in Attempts

VARIABLES
    now,
    policy,             \* ClientHandshake of each client
    crypto,             \* ClientProvider of each client
    drawn,              \* initiator ephemerals each client has drawn so far
    failed,             \* the clients a FatalCoordinatorError was returned to
    toServer            \* every datagram handed to a client's socket

clientVars == <<policy, crypto, drawn, failed, toServer>>
vars == <<now, clientVars>>

States == {"Idle", "AwaitingServerHello", "AwaitingServerFinish", "Established", "Closed"}
Awaiting == {"AwaitingServerHello", "AwaitingServerFinish"}
Hello == Clients \X Nat
SessionId == Hello \X Nat
NoSessionId == <<>>
NoHello == <<>>

ClientMessage ==
    [type : {"ClientHello"}, from : Clients, attempt : Attempts, hello : Hello]
    \cup
    [type : {"ClientFinish"}, from : Clients, attempt : Attempts, sessionId : SessionId]

\* Type invariant of ClientHandshakeCoordinator and of its single request.
ClientTypeOK ==
    /\ now \in 0..MaxInstant
    /\ policy \in [Clients ->
          [state : States, attempt : {0} \cup Attempts, deadline : 0..MaxInstant]]
    /\ crypto \in [Clients ->
          [phase : States, id : {0} \cup Attempts, hello : {NoHello} \cup Hello,
           sessionId : {NoSessionId} \cup SessionId]]
    /\ drawn \in [Clients -> Nat]
    /\ failed \subseteq Clients
    /\ toServer \subseteq ClientMessage

\* ClientHandshake::new and ClientProvider::new; attempt and deadline are 0 in
\* the states that carry none
FreshPolicy == [state |-> "Idle", attempt |-> 0, deadline |-> 0]
FreshCrypto == [phase |-> "Idle", id |-> 0, hello |-> NoHello, sessionId |-> NoSessionId]

ClientInit ==
    /\ now = 0
    /\ policy = [c \in Clients |-> FreshPolicy]
    /\ crypto = [c \in Clients |-> FreshCrypto]
    /\ drawn = [c \in Clients |-> 0]
    /\ failed = {}
    /\ toServer = {}
-----------------------------------------------------------------------------
\* Closing leaves neither an attempt nor, in the provider, a context.
ClosedPolicy == [FreshPolicy EXCEPT !.state = "Closed"]
ClosedCrypto == [FreshCrypto EXCEPT !.phase = "Closed"]

\* Mutants of CloseBoth: the provider keeps the context; it is not closed
CloseKeepsContext(c) ==
    /\ policy' = [policy EXCEPT ![c] = ClosedPolicy]
    /\ crypto' = [crypto EXCEPT ![c].phase = "Closed"]
    /\ UNCHANGED <<now, drawn, toServer>>
ClosePolicyOnly(c) ==
    /\ policy' = [policy EXCEPT ![c] = ClosedPolicy]
    /\ UNCHANGED <<now, crypto, drawn, toServer>>

\* policy.shutdown, or the policy closing itself, and then the provider
CloseBoth(c) ==
    /\ policy' = [policy EXCEPT ![c] = ClosedPolicy]
    /\ crypto' = [crypto EXCEPT ![c] = ClosedCrypto]
    /\ UNCHANGED <<now, drawn, toServer>>

FailClosed(c) ==
    /\ CloseBoth(c)
    /\ failed' = failed \cup {c}

\* Mutant of CannotStart: plain instead of checked addition
CannotStartUnchecked(c) == policy[c].state # "Idle"

\* Nothing leads back to Idle, so reserve_attempt_id issues next_attempt_id = 1 only, once.
FirstAttempt == 1

\* start in any state but Idle is InvalidLocalTransition.
CannotStart(c) ==
    \/ policy[c].state # "Idle"
    \/ now + HandshakeTimeout > MaxInstant

Start(c) ==
    LET attempt == FirstAttempt
        hello == <<c, drawn[c] + 1>> IN
    /\ ~CannotStart(c)
    /\ policy' = [policy EXCEPT ![c] =
          [state |-> "AwaitingServerHello", attempt |-> attempt,
           deadline |-> now + HandshakeTimeout]]
    /\ crypto' = [crypto EXCEPT ![c] =
          [phase |-> "AwaitingServerHello", id |-> attempt, hello |-> hello,
           sessionId |-> NoSessionId]]
    /\ drawn' = [drawn EXCEPT ![c] = @ + 1]
    /\ toServer' = toServer \cup
          {[type |-> "ClientHello", from |-> c, attempt |-> attempt, hello |-> hello]}
    /\ UNCHANGED <<now, failed>>

StartFatal(c) == CannotStart(c) /\ FailClosed(c)
-----------------------------------------------------------------------------
(***************************************************************************)
(* precheck, which precedes all cryptography: a message of another source  *)
(* or outside an attempt is dropped; at the deadline the attempt is closed *)
(* whatever the message is; then kind and attempt must be the current ones.*)
(***************************************************************************)
Ignored(c, expecting, a, fromServer) ==
    \/ ~fromServer
    \/ policy[c].state \notin Awaiting
    \/ /\ now < policy[c].deadline
       /\ policy[c].state # expecting \/ policy[c].attempt # a

TimedOut(c) == policy[c].state \in Awaiting /\ now >= policy[c].deadline

\* Mutant of Permit: the deadline's own instant still counts
PermitAtDeadline(c, expecting, a, fromServer) ==
    fromServer /\ policy[c].state = expecting /\ now <= policy[c].deadline /\ policy[c].attempt = a

Permit(c, expecting, a, fromServer) ==
    /\ fromServer
    /\ policy[c].state = expecting
    /\ now < policy[c].deadline
    /\ policy[c].attempt = a

Drop(c, expecting, a, fromServer) ==
    Ignored(c, expecting, a, fromServer) /\ UNCHANGED vars

ReceiveLate(c, fromServer) ==
    fromServer /\ TimedOut(c) /\ CloseBoth(c) /\ UNCHANGED failed

\* InvalidProof or InvalidConfirmation: handle_authentication_failure closes
\* the attempt
ReceiveUnauthentic(c) == CloseBoth(c) /\ UNCHANGED failed

\* Mutant of HelloAuthentic: the answer is not bound to the hello
HelloUnbound(c, sid, ok) == ok

\* receive_server_hello; ok: the control data decrypts to what is expected
HelloAuthentic(c, sid, ok) == ok /\ sid[1] = crypto[c].hello

SendFinish(c, sid) ==
    toServer' = toServer \cup
        {[type |-> "ClientFinish", from |-> c, attempt |-> policy[c].attempt, sessionId |-> sid]}

\* Mutant of HelloAccepted: neither side advances
HelloAcceptedAgain(c, sid) ==
    /\ now + HandshakeTimeout <= MaxInstant
    /\ SendFinish(c, sid)
    /\ UNCHANGED <<now, policy, crypto, drawn, failed>>

HelloAccepted(c, sid) ==
    /\ now + HandshakeTimeout <= MaxInstant
    /\ policy' = [policy EXCEPT ![c].state = "AwaitingServerFinish",
                                ![c].deadline = now + HandshakeTimeout]
    /\ crypto' = [crypto EXCEPT ![c].phase = "AwaitingServerFinish",
                                ![c].sessionId = sid]
    /\ SendFinish(c, sid)
    /\ UNCHANGED <<now, drawn, failed>>

\* The next phase's deadline is not representable
HelloOverflow(c) == now + HandshakeTimeout > MaxInstant /\ FailClosed(c)

ReceiveServerHello(c, a, sid, ok, fromServer) ==
    \/ Drop(c, "AwaitingServerHello", a, fromServer)
    \/ ReceiveLate(c, fromServer)
    \/ /\ Permit(c, "AwaitingServerHello", a, fromServer)
       /\ IF HelloAuthentic(c, sid, ok)
          THEN HelloAccepted(c, sid) \/ HelloOverflow(c)
          ELSE ReceiveUnauthentic(c)

\* Mutant of FinishAuthentic: any session's confirmation counts
FinishUnbound(c, sid, ok) == ok

\* receive_server_finish: the policy establishes, then the provider commits
FinishAuthentic(c, sid, ok) == ok /\ sid = crypto[c].sessionId

EstablishSession(c) ==
    policy' = [policy EXCEPT ![c].state = "Established", ![c].deadline = 0]
CommitSession(c) == crypto' = [crypto EXCEPT ![c].phase = "Established"]

FinishAccepted(c) ==
    /\ EstablishSession(c)
    /\ CommitSession(c)
    /\ UNCHANGED <<now, drawn, failed, toServer>>

ReceiveServerFinish(c, a, sid, ok, fromServer) ==
    \/ Drop(c, "AwaitingServerFinish", a, fromServer)
    \/ ReceiveLate(c, fromServer)
    \/ /\ Permit(c, "AwaitingServerFinish", a, fromServer)
       /\ IF FinishAuthentic(c, sid, ok) THEN FinishAccepted(c) ELSE ReceiveUnauthentic(c)
-----------------------------------------------------------------------------
CheckTimeout(c) == TimedOut(c) /\ CloseBoth(c) /\ UNCHANGED failed

Shutdown(c) == CloseBoth(c) /\ UNCHANGED failed

Tick == now < MaxInstant /\ now' = now + 1 /\ UNCHANGED clientVars

\* Payloads a client can be sent: answers to its own hellos and to others'
Answerable == {m.hello : m \in {n \in toServer : n.type = "ClientHello"}} \X {1, 2}

ClientNext ==
    \/ Tick
    \/ \E c \in Clients :
        \/ Start(c)
        \/ StartFatal(c)
        \/ CheckTimeout(c)
        \/ Shutdown(c)
        \/ \E a \in Attempts, sid \in Answerable, ok, fromServer \in BOOLEAN :
              \/ ReceiveServerHello(c, a, sid, ok, fromServer)
              \/ ReceiveServerFinish(c, a, sid, ok, fromServer)

ClientSpec == ClientInit /\ [][ClientNext]_vars
-----------------------------------------------------------------------------
\* verify_client_phases: policy and provider are in the same phase after every
\* public call, and the provider's context belongs to the policy's attempt, so
\* close_context always finds a context to remove under the right identifier.
ClientPhasesAgree ==
    \A c \in Clients :
        /\ crypto[c].phase = policy[c].state
        /\ policy[c].state \in Awaiting \cup {"Established"} =>
              crypto[c].id = policy[c].attempt /\ crypto[c].hello # NoHello
        /\ policy[c].state \in {"AwaitingServerFinish", "Established"} =>
              crypto[c].sessionId # NoSessionId

\* A client sends one ClientFinish per ClientHello at most: nonce zero of a
\* session is used once, and one hello never completes two sessions.
OneFinishPerHello ==
    \A m, n \in {k \in toServer : k.type = "ClientFinish"} :
        m.sessionId[1] = n.sessionId[1] => m = n

\* A client only confirms a session that answers a hello it sent itself, under
\* the attempt it sent it.
FinishAnswersOwnHello ==
    \A m \in {k \in toServer : k.type = "ClientFinish"} :
        [type |-> "ClientHello", from |-> m.from, attempt |-> m.attempt,
         hello |-> m.sessionId[1]] \in toServer

\* handle_server_hello and accept_server_hello: every ClientFinish answers a hello of its
\* own sender, and no two answer the same one, whatever servers and networks send.
FinishesAnswerHellos == OneFinishPerHello /\ FinishAnswersOwnHello

\* A session is established only in time and only by the attempt that is
\* waiting for the confirmation: never straight from the hello phase.
EstablishedFromFinishPhase ==
    [][\A c \in Clients :
          policy'[c].state = "Established" /\ policy[c].state # "Established" =>
              /\ policy[c].state = "AwaitingServerFinish"
              /\ now < policy[c].deadline
              /\ crypto'[c].sessionId = crypto[c].sessionId]_vars

\* Closed is final: a closed attempt never sends, and its keys are gone.
ClosedErasesKeys ==
    [][\A c \in Clients :
          policy[c].state = "Closed" =>
              /\ policy'[c].state = "Closed"
              /\ crypto'[c].sessionId = NoSessionId
              /\ \A m \in toServer' \ toServer : m.from # c]_vars

\* handle_server_finish, check_timeout and shutdown: an attempt is established in time
\* from the finish phase, or not at all, and nothing comes after it is closed.
PhasesOnlyAdvance == EstablishedFromFinishPhase /\ ClosedErasesKeys
=============================================================================

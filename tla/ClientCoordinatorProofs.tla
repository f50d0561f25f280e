----------------------- MODULE ClientCoordinatorProofs -----------------------
(***************************************************************************)
(* For every set of clients, every timeout and every sequence of messages, *)
(* authentic or not: policy and provider stay in the same phase, and a     *)
(* client confirms at most one session, its own.                           *)
(***************************************************************************)
EXTENDS ClientCoordinator, Sequences, TLAPS

Finishes == {m \in toServer : m.type = "ClientFinish"}
HelloMessage(c, attempt, hello) ==
    [type |-> "ClientHello", from |-> c, attempt |-> attempt, hello |-> hello]
FinishMessage(c, attempt, sid) ==
    [type |-> "ClientFinish", from |-> c, attempt |-> attempt, sessionId |-> sid]

\* What a client has sent in each phase.  A client starts once, so it has one hello and
\* one finish at most.
SentInv ==
    /\ \A m \in toServer : m.type = "ClientHello" => m.hello[1] = m.from
    /\ FinishAnswersOwnHello
    /\ \A m, n \in Finishes : m.from = n.from => m = n
    /\ \A c \in Clients :
          /\ policy[c].state \in {"Idle", "AwaitingServerHello"} => \A m \in Finishes : m.from # c
          /\ policy[c].state = "AwaitingServerHello" =>
                HelloMessage(c, policy[c].attempt, crypto[c].hello) \in toServer

\* Closing leaves no key.
ErasedInv == \A c \in Clients : policy[c].state = "Closed" => crypto[c].sessionId = NoSessionId

ClientInv == ClientTypeOK /\ ClientPhasesAgree /\ SentInv /\ ErasedInv
-----------------------------------------------------------------------------
(* The kinds of steps                                                      *)

Closing(c) == CloseBoth(c) /\ failed' \in {failed, failed \cup {c}}
Accepting(c, sid) ==
    /\ policy[c].state = "AwaitingServerHello" /\ now < policy[c].deadline
    /\ sid \in SessionId /\ sid[1] = crypto[c].hello
    /\ HelloAccepted(c, sid)
Establishing(c) ==
    /\ policy[c].state = "AwaitingServerFinish" /\ now < policy[c].deadline
    /\ FinishAccepted(c)

\* Only identifiers of hellos that were sent are answered, so they are well typed.
LEMMA AnswerableIds == ASSUME ClientTypeOK PROVE Answerable \subseteq SessionId
<1> SUFFICES ASSUME NEW m \in toServer, m.type = "ClientHello" PROVE m.hello \in Hello
  BY DEF Answerable, SessionId
<1> QED  BY DEF ClientTypeOK, ClientMessage

\* Every step closes, starts, takes a hello, takes a finish, or leaves the client alone
\* (receive_server_hello, receive_server_finish, check_timeout, shutdown).
LEMMA StepKinds ==
    ASSUME ClientTypeOK, [ClientNext]_vars
    PROVE  \/ UNCHANGED vars \/ Tick
           \/ \E c \in Clients :
                 \/ Closing(c) \/ Start(c) \/ Establishing(c)
                 \/ \E sid \in SessionId : Accepting(c, sid)
<1>1. ASSUME NEW c \in Clients, StartFatal(c) \/ CheckTimeout(c) \/ Shutdown(c) PROVE Closing(c)
  BY <1>1 DEF StartFatal, CheckTimeout, Shutdown, FailClosed, Closing
<1>2. ASSUME NEW c \in Clients, NEW a, NEW sid \in Answerable, NEW ok, NEW fromServer,
             ReceiveServerHello(c, a, sid, ok, fromServer)
      PROVE  UNCHANGED vars \/ Closing(c) \/ Accepting(c, sid)
  <2>1. sid \in SessionId
    BY <1>2, AnswerableIds
  <2> QED  BY <1>2, <2>1 DEF ReceiveServerHello, Drop, ReceiveLate, Permit, HelloAuthentic, HelloOverflow,
                    FailClosed, ReceiveUnauthentic, Closing, Accepting
<1>3. ASSUME NEW c \in Clients, NEW a, NEW sid, NEW ok, NEW fromServer,
             ReceiveServerFinish(c, a, sid, ok, fromServer)
      PROVE  UNCHANGED vars \/ Closing(c) \/ Establishing(c)
  BY <1>3 DEF ReceiveServerFinish, Drop, ReceiveLate, Permit, ReceiveUnauthentic, Closing, Establishing
<1>4. \A sid \in Answerable : sid \in SessionId
  BY AnswerableIds
<1> QED  BY <1>1, <1>2, <1>3, <1>4 DEF ClientNext
-----------------------------------------------------------------------------
(* The invariant                                                           *)

\* The values that stand for None differ from every hello and session identifier.
LEMMA Distinguished ==
    /\ \A sid \in SessionId : sid # NoSessionId
    /\ \A hello \in Hello : hello # NoHello
<1>1. ASSUME NEW S, NEW T, NEW pair \in S \X T PROVE pair # <<>>
  <2>1. PICK s \in S, t \in T : pair = <<s, t>>
    BY <1>1
  <2>2. Len(<<s, t>>) = 2 /\ Len(<<>>) = 0
    OBVIOUS
  <2> QED  BY <2>1, <2>2
<1> QED  BY <1>1 DEF SessionId, Hello, NoSessionId, NoHello

\* A client that was just built satisfies the invariant.
LEMMA ClientInvInit == ClientInit => ClientInv
<1> SUFFICES ASSUME ClientInit PROVE ClientInv
  OBVIOUS
<1>1. ClientTypeOK
  BY ClientAssumption DEF ClientInit, ClientTypeOK, FreshPolicy, FreshCrypto, States
<1>2. ClientPhasesAgree /\ ErasedInv
  BY DEF ClientInit, ClientPhasesAgree, ErasedInv, FreshPolicy, FreshCrypto, Awaiting
<1>3. SentInv
  BY DEF ClientInit, SentInv, FinishAnswersOwnHello, Finishes, FreshPolicy
<1> QED  BY <1>1, <1>2, <1>3 DEF ClientInv

\* policy.shutdown and ClientProvider::close
LEMMA ClosingKeeps ==
    ASSUME ClientInv, NEW c \in Clients, Closing(c) PROVE ClientInv'
<1>1. /\ policy' = [policy EXCEPT ![c] = ClosedPolicy] /\ crypto' = [crypto EXCEPT ![c] = ClosedCrypto]
      /\ UNCHANGED <<now, drawn, toServer>> /\ failed' \in {failed, failed \cup {c}}
  BY DEF Closing, CloseBoth
<1>2. /\ ClosedPolicy = [state |-> "Closed", attempt |-> 0, deadline |-> 0]
      /\ ClosedCrypto = [phase |-> "Closed", id |-> 0, hello |-> NoHello, sessionId |-> NoSessionId]
  BY DEF ClosedPolicy, ClosedCrypto, FreshPolicy, FreshCrypto
<1> HIDE DEF ClosedPolicy, ClosedCrypto
<1>3. /\ policy' \in [Clients -> [state : States, attempt : {0} \cup Attempts, deadline : 0..MaxInstant]]
      /\ crypto' \in [Clients -> [phase : States, id : {0} \cup Attempts, hello : {NoHello} \cup Hello,
                                  sessionId : {NoSessionId} \cup SessionId]]
  <2>1. ClosedPolicy \in [state : States, attempt : {0} \cup Attempts, deadline : 0..MaxInstant]
    BY <1>2, ClientAssumption DEF States
  <2>2. ClosedCrypto \in [phase : States, id : {0} \cup Attempts, hello : {NoHello} \cup Hello,
                          sessionId : {NoSessionId} \cup SessionId]
    BY <1>2 DEF States
  <2> QED  BY <1>1, <2>1, <2>2 DEF ClientInv, ClientTypeOK
<1>4. ClientTypeOK'
  BY <1>1, <1>3 DEF ClientInv, ClientTypeOK
<1>5. /\ policy'[c] = ClosedPolicy /\ crypto'[c] = ClosedCrypto
      /\ \A d \in Clients \ {c} : policy'[d] = policy[d] /\ crypto'[d] = crypto[d]
  BY <1>1 DEF ClientInv, ClientTypeOK
<1>6. ClientPhasesAgree' /\ ErasedInv'
  BY <1>2, <1>5, SMTT(30) DEF ClientInv, ClientPhasesAgree, ErasedInv, Awaiting
<1>7. SentInv'
  BY <1>1, <1>2, <1>5, SMTT(30) DEF ClientInv, SentInv, FinishAnswersOwnHello, Finishes
<1> QED  BY <1>4, <1>6, <1>7 DEF ClientInv

\* start
LEMMA StartKeeps ==
    ASSUME ClientInv, NEW c \in Clients, Start(c) PROVE ClientInv'
<1> DEFINE hello == <<c, drawn[c] + 1>>
           message == HelloMessage(c, 1, hello)
<1>1. /\ policy[c].state = "Idle" /\ now + HandshakeTimeout <= MaxInstant
      /\ policy' = [policy EXCEPT ![c] = [state |-> "AwaitingServerHello", attempt |-> 1,
                                          deadline |-> now + HandshakeTimeout]]
      /\ crypto' = [crypto EXCEPT ![c] = [phase |-> "AwaitingServerHello", id |-> 1, hello |-> hello,
                                          sessionId |-> NoSessionId]]
      /\ drawn' = [drawn EXCEPT ![c] = drawn[c] + 1]
      /\ toServer' = toServer \cup {message} /\ UNCHANGED <<now, failed>>
  <2>1. now + HandshakeTimeout \in Nat /\ MaxInstant \in Nat
    BY ClientAssumption DEF ClientInv, ClientTypeOK
  <2> QED  BY <2>1 DEF Start, CannotStart, FirstAttempt, HelloMessage
<1>2. hello \in Hello /\ drawn[c] + 1 \in Nat /\ hello[1] = c
  BY DEF ClientInv, ClientTypeOK, Hello
<1>3. /\ message \in ClientMessage /\ message.type = "ClientHello" /\ message.from = c
      /\ message.hello = hello
  BY <1>2, ClientAssumption DEF HelloMessage, ClientMessage
<1> HIDE DEF hello, message
<1>4. /\ policy' \in [Clients -> [state : States, attempt : {0} \cup Attempts, deadline : 0..MaxInstant]]
      /\ crypto' \in [Clients -> [phase : States, id : {0} \cup Attempts, hello : {NoHello} \cup Hello,
                                  sessionId : {NoSessionId} \cup SessionId]]
  <2>1. now + HandshakeTimeout \in 0..MaxInstant
    BY <1>1, ClientAssumption DEF ClientInv, ClientTypeOK
  <2> QED  BY <1>1, <1>2, <2>1, ClientAssumption, Zenon DEF ClientInv, ClientTypeOK, States
<1>5. ClientTypeOK'
  BY <1>1, <1>2, <1>3, <1>4, Zenon DEF ClientInv, ClientTypeOK
<1>6. /\ policy'[c].state = "AwaitingServerHello" /\ policy'[c].attempt = 1
      /\ crypto'[c].phase = "AwaitingServerHello" /\ crypto'[c].id = 1 /\ crypto'[c].hello = hello
      /\ \A d \in Clients \ {c} : policy'[d] = policy[d] /\ crypto'[d] = crypto[d]
  BY <1>1 DEF ClientInv, ClientTypeOK
<1>7. ClientPhasesAgree' /\ ErasedInv'
  BY <1>2, <1>6, Distinguished, SMTT(30) DEF ClientInv, ClientPhasesAgree, ErasedInv, Awaiting
<1>8. Finishes' = Finishes
  BY <1>1, <1>3 DEF Finishes
<1>9. SentInv'
  <2>1. (\A m \in toServer : m.type = "ClientHello" => m.hello[1] = m.from)'
    BY <1>1, <1>2, <1>3, SMTT(30) DEF ClientInv, SentInv
  <2>2. FinishAnswersOwnHello'
    BY <1>1, <1>8, Zenon DEF ClientInv, SentInv, FinishAnswersOwnHello, Finishes
  <2>3. ASSUME NEW d \in Clients
        PROVE (/\ policy[d].state \in {"Idle", "AwaitingServerHello"} => \A m \in Finishes : m.from # d
               /\ policy[d].state = "AwaitingServerHello" =>
                     HelloMessage(d, policy[d].attempt, crypto[d].hello) \in toServer)'
    BY <1>1, <1>6, <1>8, SMTT(30) DEF ClientInv, SentInv, message
  <2> QED  BY <1>8, <2>1, <2>2, <2>3 DEF ClientInv, SentInv
<1> QED  BY <1>5, <1>7, <1>9 DEF ClientInv

\* handle_authenticated_server_hello, and the ClientFinish
LEMMA AcceptingKeeps ==
    ASSUME ClientInv, NEW c \in Clients, NEW sid \in SessionId, Accepting(c, sid) PROVE ClientInv'
<1> DEFINE message == FinishMessage(c, policy[c].attempt, sid)
<1>1. /\ policy[c].state = "AwaitingServerHello" /\ now + HandshakeTimeout <= MaxInstant
      /\ sid[1] = crypto[c].hello
      /\ policy' = [policy EXCEPT ![c].state = "AwaitingServerFinish", ![c].deadline = now + HandshakeTimeout]
      /\ crypto' = [crypto EXCEPT ![c].phase = "AwaitingServerFinish", ![c].sessionId = sid]
      /\ toServer' = toServer \cup {message} /\ UNCHANGED <<now, drawn, failed>>
  BY DEF Accepting, HelloAccepted, SendFinish, FinishMessage
<1>2. /\ crypto[c].phase = "AwaitingServerHello" /\ crypto[c].id = policy[c].attempt
      /\ crypto[c].hello # NoHello
  BY <1>1 DEF ClientInv, ClientPhasesAgree, Awaiting
<1>3. HelloMessage(c, policy[c].attempt, crypto[c].hello) \in toServer
  BY <1>1 DEF ClientInv, SentInv
<1>4. policy[c].attempt \in Attempts
  BY <1>3 DEF ClientInv, ClientTypeOK, ClientMessage, HelloMessage
<1>5. /\ message \in ClientMessage /\ message.type = "ClientFinish" /\ message.from = c
      /\ message.attempt = policy[c].attempt /\ message.sessionId = sid
  BY <1>4 DEF FinishMessage, ClientMessage
<1> HIDE DEF message
<1>6. /\ policy' \in [Clients -> [state : States, attempt : {0} \cup Attempts, deadline : 0..MaxInstant]]
      /\ crypto' \in [Clients -> [phase : States, id : {0} \cup Attempts, hello : {NoHello} \cup Hello,
                                  sessionId : {NoSessionId} \cup SessionId]]
  <2>1. now + HandshakeTimeout \in 0..MaxInstant
    BY <1>1, ClientAssumption DEF ClientInv, ClientTypeOK
  <2> DEFINE Policy == [state : States, attempt : {0} \cup Attempts, deadline : 0..MaxInstant]
             Crypto == [phase : States, id : {0} \cup Attempts, hello : {NoHello} \cup Hello,
                        sessionId : {NoSessionId} \cup SessionId]
             waiting == [policy[c] EXCEPT !.state = "AwaitingServerFinish", !.deadline = now + HandshakeTimeout]
             keyed == [crypto[c] EXCEPT !.phase = "AwaitingServerFinish", !.sessionId = sid]
  <2>2. policy \in [Clients -> Policy] /\ crypto \in [Clients -> Crypto]
    BY DEF ClientInv, ClientTypeOK
  <2>3. waiting \in Policy
    BY <2>1, <2>2, ZenonT(30) DEF States
  <2>4. keyed \in Crypto
    BY <2>2, ZenonT(30) DEF States
  <2>5. policy' = [policy EXCEPT ![c] = waiting] /\ crypto' = [crypto EXCEPT ![c] = keyed]
    BY <1>1, <2>2, Zenon
  <2> HIDE DEF Policy, Crypto, waiting, keyed
  <2>6. policy' \in [Clients -> Policy] /\ crypto' \in [Clients -> Crypto]
    BY <2>2, <2>3, <2>4, <2>5
  <2> QED  BY <2>6 DEF Policy, Crypto
<1>7. ClientTypeOK'
  BY <1>1, <1>5, <1>6, ZenonT(30) DEF ClientInv, ClientTypeOK
<1>8. /\ policy'[c].state = "AwaitingServerFinish" /\ policy'[c].attempt = policy[c].attempt
      /\ crypto'[c].phase = "AwaitingServerFinish" /\ crypto'[c].id = crypto[c].id
      /\ crypto'[c].hello = crypto[c].hello /\ crypto'[c].sessionId = sid
      /\ \A d \in Clients \ {c} : policy'[d] = policy[d] /\ crypto'[d] = crypto[d]
  BY <1>1, SMTT(30) DEF ClientInv, ClientTypeOK
<1>9. ClientPhasesAgree' /\ ErasedInv'
  BY <1>2, <1>8, Distinguished, SMTT(30) DEF ClientInv, ClientPhasesAgree, ErasedInv, Awaiting
<1>10. Finishes' = Finishes \cup {message}
  BY <1>1, <1>5 DEF Finishes
<1>11. \A m \in Finishes : m.from # c
  BY <1>1 DEF ClientInv, SentInv
<1>12. SentInv'
  <2>1. (\A m \in toServer : m.type = "ClientHello" => m.hello[1] = m.from)'
    BY <1>1, <1>5 DEF ClientInv, SentInv
  <2>2. FinishAnswersOwnHello'
    <3>1. [type |-> "ClientHello", from |-> message.from, attempt |-> message.attempt,
           hello |-> message.sessionId[1]] \in toServer
      BY <1>1, <1>3, <1>5 DEF HelloMessage
    <3> QED  BY <1>1, <1>10, <3>1, Zenon DEF ClientInv, SentInv, FinishAnswersOwnHello, Finishes
  <2>3. (\A m, n \in Finishes : m.from = n.from => m = n)'
    BY <1>5, <1>10, <1>11 DEF ClientInv, SentInv
  <2>4. ASSUME NEW d \in Clients
        PROVE (/\ policy[d].state \in {"Idle", "AwaitingServerHello"} => \A m \in Finishes : m.from # d
               /\ policy[d].state = "AwaitingServerHello" =>
                     HelloMessage(d, policy[d].attempt, crypto[d].hello) \in toServer)'
    <3>1. CASE d = c
      BY <1>8, <3>1
    <3>2. CASE d # c
      <4>1. policy'[d] = policy[d] /\ crypto'[d] = crypto[d]
        BY <1>8, <3>2
      <4>2. /\ policy[d].state \in {"Idle", "AwaitingServerHello"} => \A m \in Finishes : m.from # d
            /\ policy[d].state = "AwaitingServerHello" =>
                  HelloMessage(d, policy[d].attempt, crypto[d].hello) \in toServer
        BY DEF ClientInv, SentInv
      <4> QED  BY <1>1, <1>5, <1>10, <3>2, <4>1, <4>2, SMTT(30)
    <3> QED  BY <3>1, <3>2
  <2> QED  BY <2>1, <2>2, <2>3, <2>4 DEF SentInv
<1> QED  BY <1>7, <1>9, <1>12 DEF ClientInv

\* handle_authenticated_server_finish and commit_session
LEMMA EstablishingKeeps ==
    ASSUME ClientInv, NEW c \in Clients, Establishing(c) PROVE ClientInv'
<1>1. /\ policy[c].state = "AwaitingServerFinish"
      /\ policy' = [policy EXCEPT ![c].state = "Established", ![c].deadline = 0]
      /\ crypto' = [crypto EXCEPT ![c].phase = "Established"]
      /\ UNCHANGED <<now, drawn, failed, toServer>>
  BY DEF Establishing, FinishAccepted, EstablishSession, CommitSession
<1>2. ClientTypeOK'
  <2>1. 0 \in 0..MaxInstant
    BY ClientAssumption
  <2>2. policy' \in [Clients -> [state : States, attempt : {0} \cup Attempts, deadline : 0..MaxInstant]]
    <3> DEFINE Policy == [state : States, attempt : {0} \cup Attempts, deadline : 0..MaxInstant]
               settled == [policy[c] EXCEPT !.state = "Established", !.deadline = 0]
    <3>1. policy \in [Clients -> Policy]
      BY Zenon DEF ClientInv, ClientTypeOK
    <3>2. settled \in Policy
      BY <2>1, <3>1, Zenon DEF States
    <3>3. policy' = [policy EXCEPT ![c] = settled]
      BY <1>1, <3>1, Zenon
    <3> HIDE DEF Policy, settled
    <3>4. policy' \in [Clients -> Policy]
      BY <3>1, <3>2, <3>3
    <3> QED  BY <3>4 DEF Policy
  <2>3. crypto' \in [Clients -> [phase : States, id : {0} \cup Attempts, hello : {NoHello} \cup Hello,
                                 sessionId : {NoSessionId} \cup SessionId]]
    <3> DEFINE Crypto == [phase : States, id : {0} \cup Attempts, hello : {NoHello} \cup Hello,
                          sessionId : {NoSessionId} \cup SessionId]
               committed == [crypto[c] EXCEPT !.phase = "Established"]
    <3>1. crypto \in [Clients -> Crypto]
      BY Zenon DEF ClientInv, ClientTypeOK
    <3>2. committed \in Crypto
      BY <3>1, ZenonT(30) DEF States
    <3>3. crypto' = [crypto EXCEPT ![c] = committed]
      BY <1>1, Zenon
    <3> HIDE DEF Crypto, committed
    <3>4. crypto' \in [Clients -> Crypto]
      BY <3>1, <3>2, <3>3
    <3> QED  BY <3>4 DEF Crypto
  <2> QED  BY <1>1, <2>2, <2>3, Zenon DEF ClientInv, ClientTypeOK
<1>3. /\ policy'[c].state = "Established" /\ policy'[c].attempt = policy[c].attempt
      /\ crypto'[c].phase = "Established" /\ crypto'[c].id = crypto[c].id
      /\ crypto'[c].hello = crypto[c].hello /\ crypto'[c].sessionId = crypto[c].sessionId
      /\ \A d \in Clients \ {c} : policy'[d] = policy[d] /\ crypto'[d] = crypto[d]
  BY <1>1 DEF ClientInv, ClientTypeOK
<1>4. ASSUME NEW d \in Clients, d # c PROVE policy'[d] = policy[d] /\ crypto'[d] = crypto[d]
  BY <1>3, <1>4
<1>5. ClientPhasesAgree' /\ ErasedInv'
  <2>1. ClientPhasesAgree /\ ErasedInv
    BY DEF ClientInv
  <2>2. /\ crypto[c].id = policy[c].attempt /\ crypto[c].hello # NoHello
        /\ crypto[c].sessionId # NoSessionId
    BY <1>1, <2>1 DEF ClientPhasesAgree, Awaiting
  <2>3. ClientPhasesAgree'
    BY <1>3, <1>4, <2>1, <2>2, SMTT(30) DEF ClientPhasesAgree
  <2>4. ErasedInv'
    BY <1>3, <1>4, <2>1 DEF ErasedInv
  <2> QED  BY <2>3, <2>4
<1>6. SentInv'
  <2>1. SentInv /\ toServer' = toServer /\ Finishes' = Finishes
    BY <1>1 DEF ClientInv, Finishes
  <2>2. FinishAnswersOwnHello'
    BY <2>1, Zenon DEF SentInv, FinishAnswersOwnHello
  <2> QED  BY <1>3, <1>4, <2>1, <2>2, ZenonT(30) DEF SentInv
<1> QED  BY <1>2, <1>5, <1>6 DEF ClientInv

\* Every call of a client keeps the invariant.
LEMMA ClientInvInductive == ClientInv /\ [ClientNext]_vars => ClientInv'
<1> SUFFICES ASSUME ClientInv, [ClientNext]_vars PROVE ClientInv'
  OBVIOUS
<1>1. CASE UNCHANGED vars \/ Tick
  <2>1. UNCHANGED clientVars /\ now' \in 0..MaxInstant
    BY <1>1, ClientAssumption DEF vars, Tick, ClientInv, ClientTypeOK
  <2> QED  BY <2>1, ZenonT(30) DEF clientVars, ClientInv, ClientTypeOK, ClientPhasesAgree, SentInv,
                       FinishAnswersOwnHello, Finishes, ErasedInv
<1> QED  BY <1>1, StepKinds, ClosingKeeps, StartKeeps, EstablishingKeeps, AcceptingKeeps DEF ClientInv

\* Every call of the client coordinator keeps its types, phases and keys in order.
THEOREM ClientCorrect == ClientSpec => []ClientInv
BY ClientInvInit, ClientInvInductive, PTL DEF ClientSpec

\* ClientHandshakeCoordinator and its requests, with deadlines that stay representable.
THEOREM ClientTypeCorrect == ClientSpec => []ClientTypeOK
<1>1. ClientInv => ClientTypeOK
  BY DEF ClientInv
<1> QED  BY <1>1, ClientCorrect, PTL

\* verify_client_phases never fails, for any number of clients.
THEOREM PhasesAlwaysAgree == ClientSpec => []ClientPhasesAgree
<1>1. ClientInv => ClientPhasesAgree
  BY DEF ClientInv
<1> QED  BY <1>1, ClientCorrect, PTL

\* handle_server_hello: one ClientFinish for one's own hello, whatever arrives.
THEOREM FinishesAlwaysAnswerHellos == ClientSpec => []FinishesAnswerHellos
<1>1. ASSUME ClientInv PROVE FinishesAnswerHellos
  <2>1. FinishAnswersOwnHello
    BY <1>1 DEF ClientInv, SentInv
  <2>2. ASSUME NEW m \in Finishes PROVE m.sessionId[1][1] = m.from
    <3> DEFINE answered == HelloMessage(m.from, m.attempt, m.sessionId[1])
    <3>1. answered \in toServer
      BY <2>1 DEF FinishAnswersOwnHello, Finishes, HelloMessage
    <3>2. /\ answered.type = "ClientHello" /\ answered.from = m.from
          /\ answered.hello = m.sessionId[1]
      BY DEF HelloMessage
    <3> HIDE DEF answered
    <3>3. answered.hello[1] = answered.from
      BY <1>1, <3>1, <3>2 DEF ClientInv, SentInv
    <3> QED  BY <3>2, <3>3
  <2>3. OneFinishPerHello
    BY <1>1, <2>2 DEF OneFinishPerHello, ClientInv, SentInv, Finishes
  <2> QED  BY <2>1, <2>3 DEF FinishesAnswerHellos
<1> QED  BY <1>1, ClientCorrect, PTL

\* handle_server_finish, check_timeout and shutdown: established in time from the finish
\* phase or not at all, and nothing after closing.
THEOREM PhasesAlwaysAdvance == ClientSpec => PhasesOnlyAdvance
<1> DEFINE Advance ==
             \A c \in Clients :
                policy'[c].state = "Established" /\ policy[c].state # "Established" =>
                    /\ policy[c].state = "AwaitingServerFinish"
                    /\ now < policy[c].deadline
                    /\ crypto'[c].sessionId = crypto[c].sessionId
           Erase ==
             \A c \in Clients :
                policy[c].state = "Closed" =>
                    /\ policy'[c].state = "Closed"
                    /\ crypto'[c].sessionId = NoSessionId
                    /\ \A m \in toServer' \ toServer : m.from # c
<1>1. ASSUME ClientInv, [ClientNext]_vars PROVE [Advance]_vars /\ [Erase]_vars
  <2>1. ClientTypeOK /\ ErasedInv
    BY <1>1 DEF ClientInv
  <2>2. CASE UNCHANGED vars \/ Tick
    BY <2>1, <2>2 DEF vars, Tick, clientVars, ErasedInv
  <2>3. ASSUME NEW c \in Clients, Closing(c) PROVE Advance /\ Erase
    <3>1. /\ policy'[c].state = "Closed" /\ crypto'[c].sessionId = NoSessionId /\ UNCHANGED toServer
          /\ \A d \in Clients \ {c} : policy'[d] = policy[d] /\ crypto'[d] = crypto[d]
      BY <2>1, <2>3 DEF Closing, CloseBoth, ClientTypeOK, ClosedPolicy, ClosedCrypto, FreshPolicy, FreshCrypto
    <3> QED  BY <2>1, <3>1 DEF ErasedInv
  <2>4. ASSUME NEW c \in Clients, Start(c) PROVE Advance /\ Erase
    <3>1. /\ policy[c].state = "Idle" /\ policy'[c].state = "AwaitingServerHello"
          /\ \A d \in Clients \ {c} : policy'[d] = policy[d] /\ crypto'[d] = crypto[d]
      BY <2>1, <2>4, Zenon DEF Start, CannotStart, ClientTypeOK
    <3>2. \A m \in toServer' \ toServer : m.from = c
      BY <2>4 DEF Start
    <3> QED  BY <2>1, <3>1, <3>2 DEF ErasedInv
  <2>5. ASSUME NEW c \in Clients, NEW sid \in SessionId, Accepting(c, sid) PROVE Advance /\ Erase
    <3>1. /\ policy[c].state = "AwaitingServerHello" /\ policy'[c].state = "AwaitingServerFinish"
          /\ \A d \in Clients \ {c} : policy'[d] = policy[d] /\ crypto'[d] = crypto[d]
      BY <2>1, <2>5 DEF Accepting, HelloAccepted, ClientTypeOK
    <3>2. \A m \in toServer' \ toServer : m.from = c
      BY <2>5 DEF Accepting, HelloAccepted, SendFinish
    <3> QED  BY <2>1, <3>1, <3>2 DEF ErasedInv
  <2>6. ASSUME NEW c \in Clients, Establishing(c) PROVE Advance /\ Erase
    <3>1. /\ policy[c].state = "AwaitingServerFinish" /\ now < policy[c].deadline
          /\ crypto'[c].sessionId = crypto[c].sessionId /\ UNCHANGED toServer
          /\ \A d \in Clients \ {c} : policy'[d] = policy[d] /\ crypto'[d] = crypto[d]
      BY <2>1, <2>6 DEF Establishing, FinishAccepted, EstablishSession, CommitSession, ClientTypeOK
    <3> QED  BY <2>1, <3>1 DEF ErasedInv
  <2> QED  BY <1>1, <2>1, <2>2, <2>3, <2>4, <2>5, <2>6, StepKinds, Zenon
<1> QED  BY <1>1, ClientCorrect, PTL
         DEF ClientSpec, PhasesOnlyAdvance, EstablishedFromFinishPhase, ClosedErasesKeys
=============================================================================

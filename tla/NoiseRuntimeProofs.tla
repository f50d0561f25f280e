------------------------- MODULE NoiseRuntimeProofs -------------------------
(***************************************************************************)
(* Every step of a client keeps the inductive invariant of NoiseRuntime,   *)
(* and what follows from it: the two sides of the handshake agree on their *)
(* session, the server's peer has proved itself, no session is used twice, *)
(* and one deadline bounds a client's whole handshake.                     *)
(***************************************************************************)
EXTENDS NoiseRuntimeLemmas
-----------------------------------------------------------------------------
(* Every step of a client keeps the invariant                              *)

Policies == [state : Client!States, attempt : {0} \cup Attempts, deadline : 0..MaxInstant]
Cryptos == [phase : Client!States, id : {0} \cup Attempts, hello : {Client!NoHello} \cup Client!Hello,
            sessionId : {Client!NoSessionId} \cup Client!SessionId]
Runs == {"Ended", "Handshake", "Data"}

\* The types of the clients' state, by name.
LEMMA ClientTypes ==
    ClientsInv => /\ policy \in [Clients -> Policies] /\ crypto \in [Clients -> Cryptos]
                  /\ run \in [Clients -> Runs] /\ drawn \in [Clients -> Nat]
                  /\ now \in 0..MaxInstant /\ failed = {} /\ toServer \subseteq Client!ClientMessage
BY DEF ClientsInv, Client!ClientTypeOK, Policies, Cryptos, Runs

\* The records of a client's coordinator with some of their fields replaced
LEMMA PolicyWith ==
    ASSUME NEW A, NEW B, NEW C, NEW p \in [state : A, attempt : B, deadline : C],
           NEW a \in A, NEW d \in C
    PROVE  /\ [p EXCEPT !.state = a, !.deadline = d] \in [state : A, attempt : B, deadline : C]
           /\ [p EXCEPT !.state = a, !.deadline = d].state = a
           /\ [p EXCEPT !.state = a, !.deadline = d].attempt = p.attempt
BY Zenon

\* The same for the provider's record
LEMMA CryptoWith ==
    ASSUME NEW A, NEW B, NEW C, NEW D, NEW k \in [phase : A, id : B, hello : C, sessionId : D],
           NEW a \in A, NEW s \in D
    PROVE  /\ [k EXCEPT !.phase = a, !.sessionId = s] \in [phase : A, id : B, hello : C, sessionId : D]
           /\ [k EXCEPT !.phase = a, !.sessionId = s].hello = k.hello
           /\ [k EXCEPT !.phase = a, !.sessionId = s].sessionId = s
           /\ [k EXCEPT !.phase = a] \in [phase : A, id : B, hello : C, sessionId : D]
           /\ [k EXCEPT !.phase = a].hello = k.hello
           /\ [k EXCEPT !.phase = a].sessionId = k.sessionId
BY Zenon

\* What client c does is no business of the others
LEMMA OtherClients ==
    ASSUME ClientsInv, NEW c \in Clients, NEW P, NEW K, NEW r,
           policy' = [policy EXCEPT ![c] = P], crypto' = [crypto EXCEPT ![c] = K],
           run' = [run EXCEPT ![c] = r], \A d \in Clients \ {c} : drawn'[d] = drawn[d],
           toServer \subseteq toServer', toClient' = toClient,
           \A m \in Finishes' \ Finishes : ClientOf(m.sessionId) = c
    PROVE  \A d \in Clients \ {c} : ClientInv(d)'
<1> SUFFICES ASSUME NEW d \in Clients, d # c PROVE ClientInv(d)'
  OBVIOUS
<1>1. policy'[d] = policy[d] /\ crypto'[d] = crypto[d] /\ run'[d] = run[d] /\ drawn'[d] = drawn[d]
  BY ClientTypes
<1>2. ClientInv(d)
  BY DEF ClientsInv
<1>3. \A m \in Finishes' \ Finishes : m.sessionId[1] # <<d, drawn[d]>>
  BY DEF ClientOf
<1>4. policy[d].state = "AwaitingServerHello" =>
         \A m \in Finishes' : m.sessionId[1] # <<d, drawn[d]>>
  BY <1>2, <1>3, Zenon DEF ClientInv
<1>5. /\ policy[d].state \in {"AwaitingServerFinish", "Established"} =>
            FinishMessage(d, policy'[d].attempt, crypto'[d].sessionId) \in toServer'
      /\ policy[d].state = "Established" =>
            Confirmation(d, policy'[d].attempt, crypto'[d].sessionId) \in toClient'
  <2>1. /\ FinishMessage(d, policy'[d].attempt, crypto'[d].sessionId)
              = FinishMessage(d, policy[d].attempt, crypto[d].sessionId)
        /\ Confirmation(d, policy'[d].attempt, crypto'[d].sessionId)
              = Confirmation(d, policy[d].attempt, crypto[d].sessionId)
    BY <1>1
  <2>2. /\ policy[d].state \in {"AwaitingServerFinish", "Established"} =>
              FinishMessage(d, policy[d].attempt, crypto[d].sessionId) \in toServer'
        /\ policy[d].state = "Established" =>
              Confirmation(d, policy[d].attempt, crypto[d].sessionId) \in toClient'
    BY <1>2, Zenon DEF ClientInv
  <2> QED  BY <2>1, <2>2, Zenon
<1> QED  BY <1>1, <1>2, <1>4, <1>5, ZenonT(30) DEF ClientInv

\* The coordinator closes, or its process is gone
LEMMA ForgettingKeeps ==
    ASSUME RuntimeInv, NEW c \in Clients, NEW P \in Policies, NEW K \in Cryptos,
           P.state \in {"Idle", "Closed"}, NEW r \in {"Ended", "Handshake"},
           policy' = [policy EXCEPT ![c] = P], crypto' = [crypto EXCEPT ![c] = K],
           run' = [run EXCEPT ![c] = r], failed' = {},
           UNCHANGED <<now, drawn, toServer>>, UNCHANGED serverVars
    PROVE  RuntimeInv'
<1>1. SentInv /\ ClientsInv /\ CandidatesInv /\ ServerInv /\ UNCHANGED <<toClient, ephemerals>>
  BY DEF RuntimeInv, serverVars
<1>2. SentInv' /\ CandidatesInv' /\ ServerInv'
  BY <1>1, SentUndisturbed, ServerUndisturbed, Zenon
<1>3. policy' \in [Clients -> Policies] /\ crypto' \in [Clients -> Cryptos] /\ run' \in [Clients -> Runs]
  BY <1>1, ClientTypes, Zenon DEF Runs
<1>4. Client!ClientTypeOK' /\ run' \in [Clients -> {"Ended", "Handshake", "Data"}]
  BY <1>1, <1>3, Zenon DEF ClientsInv, Client!ClientTypeOK, Policies, Cryptos, Runs
<1>5. ClientInv(c)'
  <2>1. policy'[c] = P /\ run'[c] = r
    BY <1>1, ClientTypes, SMTT(30)
  <2> QED  BY <2>1, Zenon DEF ClientInv
<1>6. \A d \in Clients \ {c} : ClientInv(d)'
  <2>1. Finishes' = Finishes
    BY DEF Finishes
  <2> QED  BY <1>1, <2>1, OtherClients, Zenon
<1> QED  BY <1>2, <1>4, <1>5, <1>6, Zenon DEF RuntimeInv, ClientsInv

\* A coordinator that is new, or closed, has well-typed policy and provider, and no session.
LEMMA BlankClient ==
    /\ Client!FreshPolicy \in Policies /\ Client!FreshPolicy.state = "Idle"
    /\ Client!ClosedPolicy \in Policies /\ Client!ClosedPolicy.state = "Closed"
    /\ Client!FreshCrypto \in Cryptos /\ Client!ClosedCrypto \in Cryptos
BY RuntimeAssumption DEF Client!FreshPolicy, Client!ClosedPolicy, Client!FreshCrypto,
    Client!ClosedCrypto, Policies, Cryptos, Client!States

\* A client process that ends takes its coordinator with it, and nothing else.
LEMMA ClientGoneKeeps ==
    ASSUME RuntimeInv, NEW c \in Clients, ClientGone(c) PROVE RuntimeInv'
<1>1. failed' = {}
  BY DEF ClientGone, RuntimeInv, ClientsInv
<1>2. UNCHANGED serverVars /\ UNCHANGED <<now, drawn, toServer>>
  BY DEF ClientGone
<1> QED  BY <1>1, <1>2, BlankClient, ForgettingKeeps, ZenonT(30) DEF ClientGone

\* start: a new run, with a hello no finish answers yet
LEMMA ClientLaunchesKeeps ==
    ASSUME RuntimeInv, NEW c \in Clients, ClientLaunches(c) PROVE RuntimeInv'
<1> DEFINE hello == <<c, drawn[c] + 1>>
           message == [type |-> "ClientHello", from |-> c, attempt |-> 1, hello |-> hello]
           P == [state |-> "AwaitingServerHello", attempt |-> 1, deadline |-> now + HandshakeTimeout]
           K == [phase |-> "AwaitingServerHello", id |-> 1, hello |-> hello,
                 sessionId |-> Client!NoSessionId]
<1>1. /\ policy' = [policy EXCEPT ![c] = P] /\ crypto' = [crypto EXCEPT ![c] = K]
      /\ drawn' = [drawn EXCEPT ![c] = drawn[c] + 1] /\ toServer' = toServer \cup {message}
      /\ run' = [run EXCEPT ![c] = "Handshake"]
      /\ UNCHANGED <<now, failed>> /\ UNCHANGED serverVars
      /\ now + HandshakeTimeout <= MaxInstant
  BY Zenon DEF ClientLaunches, Client!Start, Client!FirstAttempt, InHorizon
<1>2. SentInv /\ ClientsInv /\ CandidatesInv /\ ServerInv /\ UNCHANGED <<toClient, ephemerals>>
  BY <1>1, Zenon DEF RuntimeInv, serverVars
<1>3. drawn[c] \in Nat /\ drawn \in [Clients -> Nat] /\ now + HandshakeTimeout \in 0..MaxInstant
  <2>1. /\ drawn \in [Clients -> Nat] /\ now \in 0..MaxInstant
        /\ now + HandshakeTimeout <= MaxInstant
    BY <1>1, <1>2, ClientTypes, Zenon
  <2> QED  BY <2>1, RuntimeAssumption
<1>4. /\ hello \in Client!Hello /\ hello[1] = c /\ hello[2] = drawn[c] + 1
      /\ P \in Policies /\ K \in Cryptos
      /\ P.state = "AwaitingServerHello" /\ P.attempt = 1 /\ K.hello = hello
  BY <1>3, SMTT(30) DEF Client!Hello, Policies, Cryptos, Client!States, Attempts
<1>5. /\ message \in Client!ClientMessage /\ message.type = "ClientHello"
      /\ message.from = c /\ message.hello = hello
  BY <1>4, Zenon DEF Client!ClientMessage, Attempts
<1> HIDE DEF hello, message, P, K
<1>6. /\ policy' \in [Clients -> Policies] /\ crypto' \in [Clients -> Cryptos]
      /\ run' \in [Clients -> Runs] /\ drawn' \in [Clients -> Nat]
      /\ toServer' \subseteq Client!ClientMessage
  <2>1. drawn[c] + 1 \in Nat
    BY <1>3
  <2> QED  BY <1>1, <1>2, <1>4, <1>5, <2>1, ClientTypes, ZenonT(30) DEF Runs
<1>7. Client!ClientTypeOK' /\ run' \in [Clients -> {"Ended", "Handshake", "Data"}] /\ failed' = {}
  BY <1>1, <1>2, <1>6, Zenon DEF ClientsInv, Client!ClientTypeOK, Policies, Cryptos, Runs
<1>8. Finishes' = Finishes
  BY <1>1, <1>5, SMTT(30) DEF Finishes
<1>9. /\ policy'[c] = P /\ crypto'[c] = K /\ run'[c] = "Handshake" /\ drawn'[c] = drawn[c] + 1
      /\ \A d \in Clients \ {c} : drawn'[d] = drawn[d]
  BY <1>1, <1>2, ClientTypes, Zenon
<1>10. ClientInv(c)'
  <2>1. ASSUME NEW m \in Finishes PROVE m.sessionId[1] # hello
    <3>1. /\ ClientOf(m.sessionId) = m.from /\ RunOf(m.sessionId) <= drawn[m.from]
          /\ RunOf(m.sessionId) \in Nat
      BY <1>2, MessageTypes, Zenon DEF SentInv
    <3>2. CASE m.sessionId[1] = hello
      <4>1. m.from = c /\ RunOf(m.sessionId) = drawn[c] + 1
        BY <1>4, <3>1, <3>2, Zenon DEF ClientOf, RunOf
      <4> QED  BY <1>3, <3>1, <4>1, SMTT(30)
    <3> QED  BY <3>2
  <2>2. hello = <<c, drawn'[c]>>
    BY <1>9 DEF hello
  <2> QED  BY <1>4, <1>8, <1>9, <2>1, <2>2, ZenonT(30) DEF ClientInv, Attempts
<1>11. \A d \in Clients \ {c} : ClientInv(d)'
  BY <1>1, <1>2, <1>8, <1>9, OtherClients, ZenonT(30)
<1>12. SentInv'
  <2>1. \A d \in Clients : drawn[d] \in Nat /\ drawn'[d] \in Nat /\ drawn[d] <= drawn'[d]
    BY <1>3, <1>9, SMTT(30)
  <2>2. ASSUME NEW m \in toServer', m.type = "ClientHello"
        PROVE  m.hello[1] = m.from /\ m.hello[2] <= drawn'[m.from]
    <3>1. CASE m = message
      <4>1. /\ m.hello[1] = m.from /\ m.hello[2] = drawn[c] + 1
            /\ drawn'[m.from] = drawn[c] + 1
        BY <1>4, <1>5, <1>9, <3>1, ZenonT(30)
      <4> QED  BY <1>3, <4>1, SMTT(30)
    <3>2. CASE m \in toServer
      <4>1. m.hello[1] = m.from /\ m.hello[2] <= drawn[m.from] /\ m.from \in Clients
        BY <1>2, <2>2, <3>2, MessageTypes, Zenon DEF SentInv
      <4>2. m.hello \in Client!Hello
        BY <1>2, <2>2, <3>2, ClientTypes, ZenonT(30) DEF Client!ClientMessage
      <4>3. m.hello[2] \in Nat
        BY <4>2 DEF Client!Hello
      <4> QED  BY <2>1, <4>1, <4>3, SMTT(30)
    <3> QED  BY <1>1, <2>2, <3>1, <3>2, ZenonT(30)
  <2>3. ASSUME NEW m \in Finishes PROVE RunOf(m.sessionId) <= drawn'[m.from]
    <3>1. RunOf(m.sessionId) \in Nat /\ RunOf(m.sessionId) <= drawn[m.from] /\ m.from \in Clients
      BY <1>2, MessageTypes, Zenon DEF SentInv, Finishes
    <3> QED  BY <2>1, <3>1, SMTT(30)
  <2>4. ASSUME NEW n \in toClient PROVE RunOf(n.sessionId) <= drawn'[n.to]
    <3>1. RunOf(n.sessionId) \in Nat /\ RunOf(n.sessionId) <= drawn[n.to] /\ n.to \in Clients
      BY <1>2, MessageTypes, Zenon DEF SentInv
    <3> QED  BY <2>1, <3>1, SMTT(30)
  <2> QED  BY <1>2, <1>8, <2>2, <2>3, <2>4, ZenonT(30) DEF SentInv
<1>13. CandidatesInv' /\ ServerInv'
  BY <1>1, <1>2, ServerUndisturbed, Zenon
<1> QED  BY <1>7, <1>10, <1>11, <1>12, <1>13, ZenonT(30) DEF RuntimeInv, ClientsInv

\* handle_authenticated_server_hello, and the ClientFinish: the first for this run's hello,
\* and no answer to a later run exists yet.
LEMMA ConfirmingKeeps ==
    ASSUME RuntimeInv, NEW c \in Clients, NEW n \in toClient, n.to = c,
           policy[c].state = "AwaitingServerHello", n.sessionId[1] = crypto[c].hello,
           Client!HelloAccepted(c, n.sessionId), run' = [run EXCEPT ![c] = RunAfter(c)],
           UNCHANGED serverVars
    PROVE  RuntimeInv'
<1> DEFINE sid == n.sessionId
           message == FinishMessage(c, policy[c].attempt, sid)
           P == [policy[c] EXCEPT !.state = "AwaitingServerFinish", !.deadline = now + HandshakeTimeout]
           K == [crypto[c] EXCEPT !.phase = "AwaitingServerFinish", !.sessionId = sid]
<1>1. /\ SentInv /\ ClientsInv /\ CandidatesInv /\ ServerInv
      /\ UNCHANGED <<toClient, ephemerals>> /\ ClientInv(c)
  BY DEF RuntimeInv, ClientsInv, serverVars
<1>2. /\ policy \in [Clients -> Policies] /\ crypto \in [Clients -> Cryptos]
      /\ run \in [Clients -> Runs] /\ drawn \in [Clients -> Nat] /\ failed = {}
      /\ toServer \subseteq Client!ClientMessage
  BY <1>1, ClientTypes, Zenon
<1>3. /\ policy' = [policy EXCEPT ![c] = P] /\ crypto' = [crypto EXCEPT ![c] = K]
      /\ toServer' = toServer \cup {message} /\ UNCHANGED <<now, drawn, failed>>
      /\ now + HandshakeTimeout <= MaxInstant
  BY <1>2, Zenon DEF Client!HelloAccepted, Client!SendFinish, FinishMessage
<1>4. now + HandshakeTimeout \in 0..MaxInstant
  <2>1. now \in 0..MaxInstant /\ now + HandshakeTimeout <= MaxInstant
    BY <1>1, <1>3, ClientTypes, Zenon
  <2> QED  BY <2>1, RuntimeAssumption, SMTT(30)
<1>5. /\ sid \in Client!SessionId /\ RunOf(sid) \in Nat /\ EphemeralOf(sid) \in Nat
      /\ EphemeralOf(sid) <= ephemerals
  BY <1>1, MessageTypes, Zenon DEF SentInv
<1>6. /\ sid[1] = <<c, drawn[c]>> /\ policy[c].attempt \in Attempts /\ crypto[c].hello = <<c, drawn[c]>>
      /\ \A m \in Finishes : m.sessionId[1] # <<c, drawn[c]>>
  BY <1>1, Zenon DEF ClientInv
<1>7. /\ P \in Policies /\ P.state = "AwaitingServerFinish" /\ P.attempt = policy[c].attempt
  <2>1. "AwaitingServerFinish" \in Client!States /\ policy[c] \in Policies
    BY <1>2 DEF Client!States
  <2> QED  BY <1>4, <2>1, PolicyWith, ZenonT(30) DEF Policies
<1>8. /\ K \in Cryptos /\ K.sessionId = sid /\ K.hello = crypto[c].hello
  <2>1. /\ "AwaitingServerFinish" \in Client!States /\ crypto[c] \in Cryptos
        /\ sid \in {Client!NoSessionId} \cup Client!SessionId
    BY <1>2, <1>5, SMTT(30) DEF Client!States
  <2> QED  BY <2>1, CryptoWith, ZenonT(30) DEF Cryptos
<1>9. /\ message \in Client!ClientMessage /\ message.type = "ClientFinish"
      /\ message.from = c /\ message.sessionId = sid
  BY <1>5, <1>6, Zenon DEF Client!ClientMessage, FinishMessage
<1>10. /\ message = FinishMessage(c, policy[c].attempt, sid)
       /\ ClientOf(sid) = c /\ RunOf(sid) = drawn[c]
  BY <1>6, SMTT(30) DEF ClientOf, RunOf
<1> HIDE DEF message, P, K, sid
<1>11. /\ policy'[c] = P /\ crypto'[c] = K
  BY <1>2, <1>3, Zenon
<1>12. RunAfter(c) = "Handshake"
  BY <1>2, <1>3, <1>7, <1>11, ZenonT(30) DEF RunAfter
<1>13. run' = [run EXCEPT ![c] = "Handshake"] /\ run'[c] = "Handshake"
  BY <1>2, <1>12, SMTT(30)
<1>14. /\ policy' \in [Clients -> Policies] /\ crypto' \in [Clients -> Cryptos]
       /\ run' \in [Clients -> Runs] /\ toServer' \subseteq Client!ClientMessage
  BY <1>2, <1>3, <1>7, <1>8, <1>9, <1>13, ZenonT(30) DEF Runs
<1>15. Client!ClientTypeOK' /\ run' \in [Clients -> {"Ended", "Handshake", "Data"}] /\ failed' = {}
  BY <1>1, <1>2, <1>3, <1>14, ZenonT(30) DEF ClientsInv, Client!ClientTypeOK, Policies, Cryptos, Runs
<1>16. Finishes' = Finishes \cup {message}
  BY <1>3, <1>9, Zenon DEF Finishes
<1>17. ClientInv(c)'
  <2>1. /\ policy'[c].state = "AwaitingServerFinish" /\ policy'[c].attempt = policy[c].attempt
        /\ crypto'[c].sessionId = sid /\ crypto'[c].hello = crypto[c].hello
    BY <1>7, <1>8, <1>11, Zenon
  <2>2. crypto'[c].hello = <<c, drawn'[c]>> /\ sid[1] = <<c, drawn'[c]>>
    BY <1>3, <1>6, <2>1, Zenon
  <2>3. FinishMessage(c, policy'[c].attempt, crypto'[c].sessionId) \in toServer'
    <3>1. FinishMessage(c, policy'[c].attempt, crypto'[c].sessionId) = message
      BY <1>10, <2>1, SMTT(30)
    <3>2. message \in toServer'
      BY <1>3, Zenon
    <3> QED  BY <3>1, <3>2, SMTT(30)
  <2> QED  BY <1>6, <1>13, <2>1, <2>2, <2>3, ZenonT(30) DEF ClientInv
<1>18. \A d \in Clients \ {c} : ClientInv(d)'
  BY <1>1, <1>3, <1>9, <1>10, <1>13, <1>16, OtherClients, ZenonT(30)
<1>19. SentInv'
  <2>1. \A m \in toServer' : m.type = "ClientHello" => m.hello[1] = m.from /\ m.hello[2] <= drawn'[m.from]
    BY <1>1, <1>3, <1>9, ZenonT(30) DEF SentInv
  <2>2. drawn[c] \in Nat
    BY <1>2, Zenon
  <2>3. \A m \in Finishes' :
           /\ ClientOf(m.sessionId) = m.from /\ RunOf(m.sessionId) <= drawn'[m.from]
           /\ EphemeralOf(m.sessionId) <= ephemerals'
    <3>1. RunOf(sid) <= drawn[c]
      BY <1>10, <2>2, SMTT(30)
    <3> QED  BY <1>1, <1>3, <1>5, <1>9, <1>10, <1>16, <3>1, ZenonT(30) DEF SentInv
  <2>4. \A m, k \in Finishes' : m.sessionId[1] = k.sessionId[1] => m = k
    <3>1. message.sessionId[1] = <<c, drawn[c]>>
      BY <1>6, <1>9, Zenon DEF sid
    <3>2. \A m, k \in Finishes : m.sessionId[1] = k.sessionId[1] => m = k
      BY <1>1, Zenon DEF SentInv
    <3>3. \A m \in Finishes : m.sessionId[1] # message.sessionId[1]
      BY <1>6, <3>1, Zenon
    <3> QED  BY <1>16, <3>2, <3>3, ZenonT(30)
  <2>5. ASSUME NEW k \in toClient, k.to = c PROVE ~(RunOf(sid) < RunOf(k.sessionId))
    <3>1. RunOf(k.sessionId) <= drawn[c] /\ RunOf(k.sessionId) \in Nat
      BY <1>1, <2>5, MessageTypes, Zenon DEF SentInv
    <3> QED  BY <1>10, <2>2, <3>1, SMTT(30)
  <2>6. \A m \in Finishes', k \in toClient' :
           m.from = k.to /\ RunOf(m.sessionId) < RunOf(k.sessionId) =>
               EphemeralOf(m.sessionId) < EphemeralOf(k.sessionId)
    BY <1>1, <1>9, <1>16, <2>5, ZenonT(30) DEF SentInv
  <2> QED  BY <1>1, <1>3, <2>1, <2>3, <2>4, <2>6, ZenonT(30) DEF SentInv
<1>20. CandidatesInv' /\ ServerInv'
  BY <1>1, <1>3, ServerUndisturbed, ZenonT(30)
<1> QED  BY <1>15, <1>17, <1>18, <1>19, <1>20, ZenonT(30) DEF RuntimeInv, ClientsInv

\* handle_authenticated_server_finish and commit_session
LEMMA EstablishingKeeps ==
    ASSUME RuntimeInv, NEW c \in Clients, NEW n \in toClient, n.to = c, n.type = "ServerFinish",
           policy[c].state = "AwaitingServerFinish", policy[c].attempt = n.attempt,
           n.sessionId = crypto[c].sessionId,
           Client!FinishAccepted(c), run' = [run EXCEPT ![c] = RunAfter(c)],
           UNCHANGED serverVars
    PROVE  RuntimeInv'
<1> DEFINE P == [policy[c] EXCEPT !.state = "Established", !.deadline = 0]
           K == [crypto[c] EXCEPT !.phase = "Established"]
<1>1. /\ SentInv /\ ClientsInv /\ CandidatesInv /\ ServerInv
      /\ UNCHANGED <<toClient, ephemerals>> /\ ClientInv(c)
  BY Zenon DEF RuntimeInv, ClientsInv, serverVars
<1>2. /\ policy \in [Clients -> Policies] /\ crypto \in [Clients -> Cryptos]
      /\ run \in [Clients -> Runs] /\ failed = {}
  BY <1>1, ClientTypes, Zenon
<1>3. /\ policy' = [policy EXCEPT ![c] = P] /\ crypto' = [crypto EXCEPT ![c] = K]
      /\ UNCHANGED <<now, drawn, failed, toServer>>
  BY <1>2, Zenon DEF Client!FinishAccepted, Client!EstablishSession, Client!CommitSession
<1>4. 0 \in 0..MaxInstant
  BY RuntimeAssumption
<1>5. P \in Policies /\ P.state = "Established" /\ P.attempt = policy[c].attempt
  <2>1. "Established" \in Client!States /\ policy[c] \in Policies
    BY <1>2 DEF Client!States
  <2> QED  BY <1>4, <2>1, PolicyWith, ZenonT(30) DEF Policies
<1>6. /\ K \in Cryptos /\ K.sessionId = crypto[c].sessionId /\ K.hello = crypto[c].hello
  <2>1. "Established" \in Client!States /\ crypto[c] \in Cryptos
    BY <1>2 DEF Client!States
  <2> QED  BY <2>1, CryptoWith, ZenonT(30) DEF Cryptos
<1> HIDE DEF P, K
<1>7. /\ policy'[c] = P /\ crypto'[c] = K
  BY <1>2, <1>3, SMTT(30)
<1>8. RunAfter(c) = "Data" /\ run'[c] = "Data"
  BY <1>2, <1>3, <1>5, <1>7, Zenon DEF RunAfter
<1>9. /\ policy' \in [Clients -> Policies] /\ crypto' \in [Clients -> Cryptos]
      /\ run' \in [Clients -> Runs]
  BY <1>2, <1>3, <1>5, <1>6, <1>8, Zenon DEF Runs
<1>10. Client!ClientTypeOK' /\ run' \in [Clients -> {"Ended", "Handshake", "Data"}] /\ failed' = {}
  BY <1>1, <1>2, <1>3, <1>9, ZenonT(30) DEF ClientsInv, Client!ClientTypeOK, Policies, Cryptos, Runs
<1>11. Confirmation(c, P.attempt, K.sessionId) \in toClient'
  <2>1. n = Confirmation(n.to, n.attempt, n.sessionId)
    BY <1>1, MessageTypes, Zenon DEF Confirmations
  <2> QED  BY <1>1, <1>5, <1>6, <2>1, ZenonT(30)
<1>12. ClientInv(c)'
  <2>1. /\ crypto[c].hello = <<c, drawn[c]>> /\ policy[c].attempt \in Attempts
        /\ crypto[c].sessionId[1] = <<c, drawn[c]>>
        /\ FinishMessage(c, policy[c].attempt, crypto[c].sessionId) \in toServer
    BY <1>1, Zenon DEF ClientInv
  <2>2. /\ policy'[c].state = "Established" /\ policy'[c].attempt = policy[c].attempt
        /\ crypto'[c].sessionId = crypto[c].sessionId /\ crypto'[c].hello = crypto[c].hello
        /\ Confirmation(c, policy'[c].attempt, crypto'[c].sessionId) \in toClient'
    BY <1>5, <1>6, <1>7, <1>11, Zenon
  <2>3. FinishMessage(c, policy'[c].attempt, crypto'[c].sessionId) \in toServer'
    <3>1. FinishMessage(c, policy'[c].attempt, crypto'[c].sessionId)
            = FinishMessage(c, policy[c].attempt, crypto[c].sessionId)
      BY <2>2, SMTT(30)
    <3>2. FinishMessage(c, policy[c].attempt, crypto[c].sessionId) \in toServer'
      BY <1>3, <2>1, Zenon
    <3> QED  BY <3>1, <3>2, SMTT(30)
  <2> QED  BY <1>3, <1>8, <2>1, <2>2, <2>3, ZenonT(30) DEF ClientInv
<1>13. \A d \in Clients \ {c} : ClientInv(d)'
  <2>1. Finishes' = Finishes
    BY <1>3 DEF Finishes
  <2> QED  BY <1>1, <1>3, <2>1, OtherClients, ZenonT(30)
<1>14. SentInv' /\ CandidatesInv' /\ ServerInv'
  BY <1>1, <1>3, SentUndisturbed, ServerUndisturbed, Zenon
<1> QED  BY <1>10, <1>12, <1>13, <1>14, Zenon DEF RuntimeInv, ClientsInv

\* fail_closed in the client's coordinator: the loop goes on with a closed coordinator.
LEMMA ClosingKeeps ==
    ASSUME RuntimeInv, NEW c \in Clients, Client!CloseBoth(c), UNCHANGED failed,
           run' = [run EXCEPT ![c] = RunAfter(c)], UNCHANGED serverVars
    PROVE  RuntimeInv'
<1>1. /\ policy' = [policy EXCEPT ![c] = Client!ClosedPolicy]
      /\ crypto' = [crypto EXCEPT ![c] = Client!ClosedCrypto] /\ UNCHANGED <<now, drawn, toServer>>
  BY DEF Client!CloseBoth
<1>2. failed' = {} /\ policy \in [Clients -> Policies]
  BY ClientTypes DEF RuntimeInv, ClientsInv
<1>3. RunAfter(c) = "Handshake"
  BY <1>1, <1>2, BlankClient, Zenon DEF RunAfter
<1> QED  BY <1>1, <1>2, <1>3, BlankClient, ForgettingKeeps, Zenon

\* Time, and datagrams that are dropped, disturb nothing.
LEMMA UnchangedKeeps ==
    ASSUME RuntimeInv, UNCHANGED serverVars, UNCHANGED <<policy, crypto, drawn, failed, run, toServer>>,
           now' \in 0..MaxInstant
    PROVE  RuntimeInv'
<1>1. SentInv /\ ClientsInv /\ CandidatesInv /\ ServerInv /\ UNCHANGED <<toClient, ephemerals>>
  BY DEF RuntimeInv, serverVars
<1>2. Client!ClientTypeOK' /\ failed' = {} /\ run' \in [Clients -> {"Ended", "Handshake", "Data"}]
  BY <1>1, Zenon DEF ClientsInv, Client!ClientTypeOK
<1>3. ASSUME NEW c \in Clients PROVE ClientInv(c)'
  BY <1>1, Zenon DEF ClientsInv, ClientInv, Finishes, FinishMessage, Confirmation
<1> QED  BY <1>1, <1>2, <1>3, SentUndisturbed, ServerUndisturbed, ZenonT(30) DEF RuntimeInv, ClientsInv

\* The client's loop
LEMMA ClientReceivesKeeps ==
    ASSUME RuntimeInv, NEW c \in Clients, ClientReceives(c) PROVE RuntimeInv'
<1>1. PICK n \in toClient :
         /\ n.to = c
         /\ \/ /\ n.type = "ServerHello"
               /\ Client!ReceiveServerHello(c, n.attempt, n.sessionId, TRUE, TRUE)
            \/ /\ n.type = "ServerFinish"
               /\ Client!ReceiveServerFinish(c, n.attempt, n.sessionId, TRUE, TRUE)
  BY Zenon DEF ClientReceives
<1>2. /\ UNCHANGED serverVars /\ run' = [run EXCEPT ![c] = RunAfter(c)]
      /\ run[c] = "Handshake" /\ now + HandshakeTimeout <= MaxInstant
      /\ now \in 0..MaxInstant /\ failed = {} /\ run \in [Clients -> Runs] /\ ClientInv(c)
  BY ClientTypes, Zenon DEF ClientReceives, InHorizon, RuntimeInv, ClientsInv
<1>3. CASE UNCHANGED Client!vars
  <2>1. UNCHANGED <<now, policy, crypto, drawn, failed, toServer>>
    BY <1>3, Zenon DEF Client!vars, Client!clientVars
  <2>2. RunAfter(c) = "Handshake"
    BY <1>2, <2>1, Zenon DEF RunAfter, ClientInv
  <2>3. UNCHANGED run
    BY <1>2, <2>2, SMTT(30)
  <2> QED  BY <1>2, <2>1, <2>3, UnchangedKeeps, Zenon
<1>4. CASE Client!CloseBoth(c) /\ UNCHANGED failed
  BY <1>2, <1>4, ClosingKeeps, Zenon
<1>5. ~Client!HelloOverflow(c)
  BY <1>2, RuntimeAssumption, SMTT(30) DEF Client!HelloOverflow
<1>6. CASE n.type = "ServerHello" /\ Client!ReceiveServerHello(c, n.attempt, n.sessionId, TRUE, TRUE)
  BY <1>1, <1>2, <1>3, <1>4, <1>5, <1>6, ConfirmingKeeps, ZenonT(30)
     DEF Client!ReceiveServerHello, Client!Drop, Client!ReceiveLate, Client!Permit,
         Client!HelloAuthentic, Client!ReceiveUnauthentic
<1>7. CASE n.type = "ServerFinish" /\ Client!ReceiveServerFinish(c, n.attempt, n.sessionId, TRUE, TRUE)
  BY <1>1, <1>2, <1>3, <1>4, <1>7, EstablishingKeeps, ZenonT(30)
     DEF Client!ReceiveServerFinish, Client!Drop, Client!ReceiveLate, Client!Permit,
         Client!FinishAuthentic, Client!ReceiveUnauthentic
<1> QED  BY <1>1, <1>6, <1>7, Zenon
-----------------------------------------------------------------------------
(* The theorems                                                            *)

\* Before anything was sent the invariant holds.
LEMMA RuntimeInvInit == RuntimeInit => RuntimeInv
<1> SUFFICES ASSUME RuntimeInit PROVE RuntimeInv
  OBVIOUS
<1>1. /\ toClient = {} /\ toServer = {} /\ ephemerals = 0 /\ nextCandidateId = 1
      /\ DOMAIN pending = {} /\ DOMAIN registry = {} /\ DOMAIN contexts = {}
      /\ state = "Listening" /\ fatal = "None" /\ serverRun = "Handshake"
  BY DEF RuntimeInit, Server!ServerInit, Server!ManagerInit, Server!EmptyMap, Client!ClientInit
<1>2. SentInv /\ CandidatesInv /\ ServerInv
  BY <1>1, Zenon DEF SentInv, CandidatesInv, ServerInv, Finishes
<1>3. /\ now = 0 /\ policy = [c \in Clients |-> Client!FreshPolicy]
      /\ crypto = [c \in Clients |-> Client!FreshCrypto]
      /\ drawn = [c \in Clients |-> 0] /\ failed = {} /\ run = [c \in Clients |-> "Ended"]
  BY DEF RuntimeInit, Client!ClientInit
<1>4. /\ now \in 0..MaxInstant /\ policy \in [Clients -> Policies] /\ crypto \in [Clients -> Cryptos]
      /\ drawn \in [Clients -> Nat] /\ run \in [Clients -> Runs]
  BY <1>3, BlankClient, RuntimeAssumption, SMTT(30) DEF Runs
<1>5. Client!ClientTypeOK /\ run \in [Clients -> {"Ended", "Handshake", "Data"}]
  BY <1>1, <1>3, <1>4, Zenon DEF Client!ClientTypeOK, Policies, Cryptos, Runs
<1>6. ASSUME NEW c \in Clients PROVE ClientInv(c)
  BY <1>3, BlankClient, Zenon DEF ClientInv
<1> QED  BY <1>2, <1>3, <1>5, <1>6, Zenon DEF RuntimeInv, ClientsInv

\* Every step of either loop, every restart and the passage of time keep the invariant.
LEMMA RuntimeInvInductive == RuntimeInv /\ [RuntimeNext]_runtimeVars => RuntimeInv'
<1> SUFFICES ASSUME RuntimeInv, [RuntimeNext]_runtimeVars PROVE RuntimeInv'
  OBVIOUS
<1>1. now \in 0..MaxInstant
  BY ClientTypes DEF RuntimeInv
<1>2. CASE UNCHANGED runtimeVars
  <2>1. UNCHANGED serverVars /\ UNCHANGED clientVars /\ UNCHANGED now
    BY <1>2 DEF runtimeVars
  <2> QED  BY <1>1, <2>1, UnchangedKeeps, SMTT(30) DEF clientVars
<1>3. CASE Tick
  <2>1. UNCHANGED serverVars /\ UNCHANGED clientVars /\ now' \in 0..MaxInstant
    BY <1>1, <1>3, RuntimeAssumption, SMTT(30) DEF Tick
  <2> QED  BY <2>1, UnchangedKeeps DEF clientVars
<1>4. CASE ServerEnds \/ ServerLaunches
  BY <1>4, ServerGoneKeeps DEF ServerEnds, ServerLaunches
<1>5. ASSUME NEW c \in Clients, ClientTimesOut(c) \/ ClientEnds(c) PROVE RuntimeInv'
  BY <1>5, ClientGoneKeeps DEF ClientTimesOut, ClientEnds
<1> QED  BY <1>2, <1>3, <1>4, <1>5, ServerReceivesKeeps, ServerTimesOutKeeps,
            ClientLaunchesKeeps, ClientReceivesKeeps, ZenonT(30) DEF RuntimeNext

\* Every step of the loops, and every restart, keeps the ages of sessions in order.
THEOREM RuntimeCorrect == RuntimeSpec => []RuntimeInv
BY RuntimeInvInit, RuntimeInvInductive, PTL DEF RuntimeSpec

\* NoiseIkServerRuntime::run enters the data plane only for an allowlisted client that has
\* proved possession of the session's keys.
THEOREM ServerPeerAlwaysProven == RuntimeSpec => []ServerPeerProven
<1>1. RuntimeInv => ServerPeerProven
  BY SMTT(30) DEF RuntimeInv, ServerInv, ServerPeerProven, FinishMessage, ClientOf
<1> QED  BY <1>1, RuntimeCorrect, PTL

\* The loop of NoiseIkServerRuntime::run hands the coordinator over with the session, so
\* that a duplicate ClientFinish never ends the process.
THEOREM DuplicateFinishAlwaysHarmless == RuntimeSpec => []DuplicateFinishNeverFatal
<1>1. RuntimeInv => DuplicateFinishNeverFatal
  BY Zenon DEF RuntimeInv, ServerInv, DuplicateFinishNeverFatal
<1> QED  BY <1>1, RuntimeCorrect, PTL

\* Both ends of the data plane are in the session that the server committed for this run of
\* this client.  Were the server's session of an earlier run, its ephemeral would be older
\* than the client's, which was confirmed before; of the same run, the client sent one finish.
THEOREM SessionsAlwaysAgree == RuntimeSpec => []SessionsAgree
<1>1. ASSUME RuntimeInv PROVE Agreement
  BY <1>1, Zenon DEF RuntimeInv, ClientsInv, ClientInv, Agreement, Confirmation
<1>2. ASSUME RuntimeInv, NEW c \in Clients,
             run[c] = "Data", serverRun = "Data", session.source = c
      PROVE  crypto[c].sessionId = session.sessionId
  <2> DEFINE mine == FinishMessage(c, policy[c].attempt, crypto[c].sessionId)
             theirs == FinishMessage(c, session.attempt, session.sessionId)
             confirmed == Confirmation(c, policy[c].attempt, crypto[c].sessionId)
  <2>1. /\ SentInv /\ ClientsInv
        /\ crypto[c].sessionId[1] = <<c, drawn[c]>>
        /\ mine \in toServer /\ confirmed \in toClient
    BY <1>2, Zenon DEF RuntimeInv, ClientsInv, ClientInv
  <2>2. /\ theirs \in toServer
        /\ \A m \in Confirmations : \/ m.sessionId = session.sessionId
                                    \/ EphemeralOf(m.sessionId) < EphemeralOf(session.sessionId)
    BY <1>2, Zenon DEF RuntimeInv, ServerInv
  <2>3. /\ mine \in Finishes /\ mine.from = c /\ mine.sessionId = crypto[c].sessionId
        /\ theirs \in Finishes /\ theirs.from = c /\ theirs.sessionId = session.sessionId
        /\ confirmed \in Confirmations /\ confirmed.to = c
        /\ confirmed.sessionId = crypto[c].sessionId
    BY <2>1, <2>2, Zenon DEF Finishes, Confirmations, FinishMessage, Confirmation
  <2> HIDE DEF mine, theirs, confirmed
  <2>4. /\ ClientOf(session.sessionId) = c /\ RunOf(session.sessionId) <= drawn[c]
        /\ RunOf(session.sessionId) \in Nat /\ EphemeralOf(session.sessionId) \in Nat
        /\ EphemeralOf(crypto[c].sessionId) \in Nat /\ drawn[c] \in Nat
        /\ RunOf(crypto[c].sessionId) = drawn[c]
    <3>1. ClientOf(session.sessionId) = c /\ RunOf(session.sessionId) <= drawn[c]
      BY <2>1, <2>3, ZenonT(30) DEF SentInv
    <3>2. /\ RunOf(session.sessionId) \in Nat /\ EphemeralOf(session.sessionId) \in Nat
          /\ EphemeralOf(crypto[c].sessionId) \in Nat /\ drawn[c] \in Nat
      BY <2>1, <2>3, MessageTypes, Zenon
    <3>3. RunOf(crypto[c].sessionId) = drawn[c]
      BY <2>1 DEF RunOf
    <3> QED  BY <3>1, <3>2, <3>3, Zenon
  <2>5. CASE RunOf(session.sessionId) < drawn[c]
    <3>1. EphemeralOf(session.sessionId) < EphemeralOf(crypto[c].sessionId)
      <4>1. \A m \in Finishes, k \in toClient :
               m.from = k.to /\ RunOf(m.sessionId) < RunOf(k.sessionId) =>
                   EphemeralOf(m.sessionId) < EphemeralOf(k.sessionId)
        BY <2>1, Zenon DEF SentInv
      <4> QED  BY <2>1, <2>3, <2>4, <2>5, <4>1, ZenonT(30)
    <3>2. ~(EphemeralOf(crypto[c].sessionId) < EphemeralOf(session.sessionId))
      BY <2>4, <3>1, SMTT(30)
    <3> QED  BY <2>2, <2>3, <3>2, Zenon
  <2>6. CASE RunOf(session.sessionId) = drawn[c]
    <3>1. session.sessionId[1] = <<c, drawn[c]>>
      <4>1. theirs.sessionId \in Client!SessionId
        BY <2>1, <2>3, ClientTypes, Zenon DEF Client!ClientMessage, Finishes
      <4>2. session.sessionId[1] \in Clients \X Nat
        BY <2>3, <4>1, SMTT(30) DEF Client!SessionId, Client!Hello
      <4>3. session.sessionId[1][1] = c /\ session.sessionId[1][2] = drawn[c]
        BY <2>4, <2>6, Zenon DEF ClientOf, RunOf
      <4> QED  BY <4>2, <4>3, SMTT(30)
    <3>2. mine = theirs
      <4>1. \A m, k \in Finishes : m.sessionId[1] = k.sessionId[1] => m = k
        BY <2>1, Zenon DEF SentInv
      <4> QED  BY <2>1, <2>3, <3>1, <4>1, ZenonT(30)
    <3> QED  BY <2>3, <3>2, SMTT(30)
  <2>7. RunOf(session.sessionId) < drawn[c] \/ RunOf(session.sessionId) = drawn[c]
    BY <2>4
  <2> QED  BY <2>5, <2>6, <2>7, Zenon
<1>3. RuntimeInv => SessionsAgree
  BY <1>1, <1>2 DEF SessionsAgree, NoCrossedSessions
<1> QED  BY <1>3, RuntimeCorrect, PTL

\* No two data planes, of one server process or of several, ever run under the same keys:
\* the session a server enters the data plane with was confirmed to nobody before.
THEOREM SessionsAlwaysFresh == RuntimeSpec => SessionUsedOnce
<1> DEFINE Fresh == serverRun = "Handshake" /\ serverRun' = "Data" =>
                       \A m \in toClient : m.type = "ServerFinish" => m.sessionId # session'.sessionId
<1>1. ASSUME RuntimeInv, [RuntimeNext]_runtimeVars, serverRun = "Handshake", serverRun' = "Data",
             NEW n \in toClient, n.type = "ServerFinish"
      PROVE  n.sessionId # session'.sessionId
  <2>1. ServerReceives
    BY <1>1, ZenonT(30) DEF RuntimeNext, runtimeVars, serverVars, Tick, ServerTimesOut, ServerEnds, ServerLaunches,
                ClientLaunches, ClientReceives, ClientTimesOut, ClientEnds, ClientGone
  <2>2. /\ SentInv /\ ClientsInv /\ CandidatesInv /\ state = "Listening"
        /\ serverRun' = ServerRunAfter /\ UNCHANGED clientVars
    BY <1>1, <2>1, Zenon DEF RuntimeInv, ServerInv, ServerReceives
  <2>3. state' = "Established"
    BY <1>1, <2>2 DEF ServerRunAfter
  <2>4. PICK m \in toServer :
           \/ m.type = "ClientHello" /\ Server!ReceiveClientHello(m.from, m.attempt, m.hello)
           \/ m.type = "ClientFinish" /\ Server!ReceiveClientFinish(m.from, m.attempt, m.sessionId, TRUE)
    BY <2>1, Zenon DEF ServerReceives
  <2>5. ~Prune /\ ~Clear /\ ~Server!HelloAdmitted(m.from, m.attempt, m.hello)
    BY <2>2, <2>3, Zenon DEF Prune, Clear, Server!HelloAdmitted, Server!OfferSession
  <2>6. m.type = "ClientFinish" /\ Server!FinishEstablishes(m.from, m.attempt, m.sessionId, TRUE)
    BY <2>2, <2>4, <2>5, HelloKinds, FinishKinds, ZenonT(30)
  <2>7. EphemeralOf(n.sessionId) < EphemeralOf(session'.sessionId)
    BY <1>1, <2>2, <2>6, CommitmentKeeps, ZenonT(30) DEF Confirmations
  <2>8. EphemeralOf(n.sessionId) \in Nat
    BY <2>2, MessageTypes, Zenon
  <2> QED  BY <2>7, <2>8
<1>2. RuntimeInv /\ [RuntimeNext]_runtimeVars => [Fresh]_runtimeVars
  BY <1>1
<1>3. RuntimeSpec => [][Fresh]_runtimeVars
  BY <1>2, RuntimeCorrect, PTL DEF RuntimeSpec
<1> QED  BY <1>3 DEF SessionUsedOnce
-----------------------------------------------------------------------------
(* Why a client run resolves: ClientRunResolves without the fairness       *)

\* A run in the handshake has at most HANDSHAKE_TIMEOUT left, and no phase of its
\* coordinator is given up before the run is: that deadline is the one that counts.
RunBudget(c) ==
    run[c] = "Handshake" =>
        /\ runDeadline[c] <= now + HandshakeTimeout
        /\ policy[c].state \in {"AwaitingServerHello", "AwaitingServerFinish"} =>
              runDeadline[c] <= policy[c].deadline

RunsBudgeted == runDeadline \in [Clients -> Nat] /\ \A c \in Clients : RunBudget(c)

\* A client whose process and coordinator do nothing keeps its budget, while time passes.
LEMMA IdleRunBudgeted ==
    ASSUME now \in Nat, now' \in {now, now + 1}, NEW c \in Clients, runDeadline[c] \in Nat, RunBudget(c),
           run'[c] = run[c], runDeadline'[c] = runDeadline[c], policy'[c] = policy[c]
    PROVE  RunBudget(c)'
<1>1. runDeadline[c] <= now + HandshakeTimeout => runDeadline'[c] <= now' + HandshakeTimeout
  BY RuntimeAssumption
<1> QED  BY <1>1, Zenon DEF RunBudget

\* The handlers of the server coordinator read the clock and leave it alone.
LEMMA ServerReadsClock ==
    ASSUME RuntimeInv, ServerReceives \/ ServerTimesOut \/ ServerEnds \/ ServerLaunches
    PROVE  now' = now /\ UNCHANGED clientVars
<1>1. CandidatesInv /\ ServerInv
  BY DEF RuntimeInv
<1>2. CASE ServerReceives
  <2>1. state = "Listening" /\ UNCHANGED clientVars
    BY <1>1, <1>2, Zenon DEF ServerInv, ServerReceives
  <2>2. PICK m \in toServer :
           \/ Server!ReceiveClientHello(m.from, m.attempt, m.hello)
           \/ Server!ReceiveClientFinish(m.from, m.attempt, m.sessionId, TRUE)
    BY <1>2, Zenon DEF ServerReceives
  <2>3. \/ Prune \/ Clear \/ Server!HelloAdmitted(m.from, m.attempt, m.hello)
        \/ Server!FinishEstablishes(m.from, m.attempt, m.sessionId, TRUE)
    BY <1>1, <2>1, <2>2, HelloKinds, FinishKinds, ZenonT(30)
  <2>4. now' = now
    BY <2>3, Zenon DEF Prune, Clear, Server!HelloAdmitted, Server!Admit, Server!OfferSession,
                Server!FinishEstablishes, Server!ShutdownManager
  <2> QED  BY <2>1, <2>4
<1>3. CASE ServerTimesOut
  BY <1>3, Zenon DEF ServerTimesOut, Server!CheckTimeouts, Server!ReconcileExpired, Server!ExpirePending
<1>4. CASE ServerEnds \/ ServerLaunches
  BY <1>4, Zenon DEF ServerEnds, ServerLaunches, ServerGone
<1> QED  BY <1>2, <1>3, <1>4, Zenon

\* What one client does to its coordinator, and to its run's deadline, leaves the others' alone.
LEMMA OtherRunsBudgeted ==
    ASSUME ClientsInv, RunsBudgeted, now' = now, NEW c \in Clients, NEW P, NEW r, NEW t \in Nat,
           policy' = [policy EXCEPT ![c] = P], run' = [run EXCEPT ![c] = r],
           runDeadline' = [runDeadline EXCEPT ![c] = t],
           r = "Handshake" =>
              /\ t <= now + HandshakeTimeout
              /\ P.state \in {"AwaitingServerHello", "AwaitingServerFinish"} => t <= P.deadline
    PROVE  RunsBudgeted'
<1>1. policy \in [Clients -> Policies] /\ run \in [Clients -> Runs] /\ now \in 0..MaxInstant
  BY ClientTypes, Zenon
<1>2. now \in Nat
  BY <1>1
<1>3. runDeadline' \in [Clients -> Nat] /\ policy'[c] = P /\ run'[c] = r /\ runDeadline'[c] = t
  BY <1>1, Zenon DEF RunsBudgeted
<1>4. ASSUME NEW d \in Clients PROVE RunBudget(d)'
  <2>1. CASE d = c
    BY <1>3, <2>1, Zenon DEF RunBudget
  <2>2. CASE d # c
    <3>1. policy'[d] = policy[d] /\ run'[d] = run[d] /\ runDeadline'[d] = runDeadline[d]
      BY <1>1, <2>2, Zenon DEF RunsBudgeted
    <3>2. runDeadline[d] \in Nat /\ RunBudget(d)
      BY Zenon DEF RunsBudgeted
    <3> QED  BY <1>2, <3>1, <3>2, IdleRunBudgeted, ZenonT(30)
  <2> QED  BY <2>1, <2>2, SMTT(30)
<1> QED  BY <1>3, <1>4, Zenon DEF RunsBudgeted

\* A datagram: dropped, or the end of the attempt, or the phase's deadline begins anew, which
\* is never before the run's, or the session is established.
LEMMA ReceivingBudgeted ==
    ASSUME RuntimeInv, RunsBudgeted, NEW c \in Clients, ClientReceives(c) PROVE RunsBudgeted'
<1>1. /\ ClientsInv /\ run[c] = "Handshake" /\ run' = [run EXCEPT ![c] = RunAfter(c)]
      /\ UNCHANGED runDeadline
  BY Zenon DEF RuntimeInv, ClientReceives
<1>2. /\ runDeadline[c] \in Nat /\ runDeadline[c] <= now + HandshakeTimeout
      /\ policy[c].state \in {"AwaitingServerHello", "AwaitingServerFinish"} =>
            runDeadline[c] <= policy[c].deadline
  BY <1>1, Zenon DEF RunsBudgeted, RunBudget
<1>3. runDeadline' = [runDeadline EXCEPT ![c] = runDeadline[c]]
  BY <1>1, Zenon DEF RunsBudgeted
<1>4. policy \in [Clients -> Policies]
  BY <1>1, ClientTypes, Zenon
<1>5. PICK n \in toClient :
         \/ Client!ReceiveServerHello(c, n.attempt, n.sessionId, TRUE, TRUE)
         \/ Client!ReceiveServerFinish(c, n.attempt, n.sessionId, TRUE, TRUE)
  BY Zenon DEF ClientReceives
<1>6. \/ UNCHANGED <<now, policy>>
      \/ Client!CloseBoth(c)
      \/ Client!HelloAccepted(c, n.sessionId)
      \/ Client!FinishAccepted(c)
  <2>1. CASE Client!ReceiveServerHello(c, n.attempt, n.sessionId, TRUE, TRUE)
    BY <2>1, Zenon DEF Client!ReceiveServerHello, Client!Drop, Client!vars, Client!clientVars,
       Client!ReceiveLate, Client!ReceiveUnauthentic, Client!HelloOverflow, Client!FailClosed
  <2>2. CASE Client!ReceiveServerFinish(c, n.attempt, n.sessionId, TRUE, TRUE)
    BY <2>2, Zenon DEF Client!ReceiveServerFinish, Client!Drop, Client!vars, Client!clientVars,
       Client!ReceiveLate, Client!ReceiveUnauthentic
  <2> QED  BY <1>5, <2>1, <2>2, Zenon
<1>7. CASE UNCHANGED <<now, policy>>
  <2>1. now' = now /\ policy' = [policy EXCEPT ![c] = policy[c]]
    BY <1>4, <1>7, Zenon
  <2> QED  BY <1>1, <1>2, <1>3, <2>1, OtherRunsBudgeted, ZenonT(30)
<1>8. CASE Client!CloseBoth(c)
  <2>1. now' = now /\ policy' = [policy EXCEPT ![c] = Client!ClosedPolicy]
    BY <1>8, Zenon DEF Client!CloseBoth
  <2>2. Client!ClosedPolicy.state \notin {"AwaitingServerHello", "AwaitingServerFinish"}
    BY BlankClient
  <2> QED  BY <1>1, <1>2, <1>3, <2>1, <2>2, OtherRunsBudgeted, ZenonT(30)
<1>9. CASE Client!HelloAccepted(c, n.sessionId)
  <2> DEFINE P == [policy[c] EXCEPT !.state = "AwaitingServerFinish", !.deadline = now + HandshakeTimeout]
  <2>1. now' = now /\ policy' = [policy EXCEPT ![c] = P]
    BY <1>4, <1>9, Zenon DEF Client!HelloAccepted
  <2>2. P.deadline = now + HandshakeTimeout
    BY <1>4, Zenon DEF Policies
  <2>3. runDeadline[c] <= P.deadline
    BY <1>2, <2>2, Zenon
  <2> HIDE DEF P
  <2> QED  BY <1>1, <1>2, <1>3, <2>1, <2>3, OtherRunsBudgeted, ZenonT(30)
<1>10. CASE Client!FinishAccepted(c)
  <2> DEFINE P == [policy[c] EXCEPT !.state = "Established", !.deadline = 0]
  <2>1. now' = now /\ policy' = [policy EXCEPT ![c] = P]
    BY <1>4, <1>10, Zenon DEF Client!FinishAccepted, Client!EstablishSession
  <2>2. P.state = "Established"
    BY <1>4, Zenon DEF Policies
  <2>3. P.state \notin {"AwaitingServerHello", "AwaitingServerFinish"}
    BY <2>2
  <2> HIDE DEF P
  <2> QED  BY <1>1, <1>2, <1>3, <2>1, <2>3, OtherRunsBudgeted, ZenonT(30)
<1> QED  BY <1>6, <1>7, <1>8, <1>9, <1>10, ZenonT(30)

\* Every step keeps the budgets.
LEMMA BudgetsInductive ==
    ASSUME RuntimeInv, RunsBudgeted, [RuntimeNext]_runtimeVars PROVE RunsBudgeted'
<1>1. ClientsInv /\ now \in 0..MaxInstant
  BY ClientTypes, Zenon DEF RuntimeInv
<1>2. now \in Nat /\ now + HandshakeTimeout \in Nat
  BY <1>1, RuntimeAssumption
<1>3. ASSUME now' \in {now, now + 1}, UNCHANGED clientVars PROVE RunsBudgeted'
  <2>1. UNCHANGED <<policy, run, runDeadline>>
    BY <1>3, Zenon DEF clientVars
  <2>2. ASSUME NEW c \in Clients PROVE RunBudget(c)'
    <3>1. runDeadline[c] \in Nat /\ RunBudget(c)
      BY Zenon DEF RunsBudgeted
    <3> QED  BY <1>2, <1>3, <2>1, <3>1, IdleRunBudgeted, ZenonT(30)
  <2> QED  BY <2>1, <2>2, Zenon DEF RunsBudgeted
<1>4. ASSUME NEW c \in Clients, ClientGone(c) PROVE RunsBudgeted'
  BY <1>1, <1>4, OtherRunsBudgeted, Zenon DEF ClientGone
<1>5. ASSUME NEW c \in Clients, ClientLaunches(c) PROVE RunsBudgeted'
  <2> DEFINE P == [state |-> "AwaitingServerHello", attempt |-> 1, deadline |-> now + HandshakeTimeout]
  <2>1. /\ now' = now /\ policy' = [policy EXCEPT ![c] = P] /\ run' = [run EXCEPT ![c] = "Handshake"]
        /\ runDeadline' = [runDeadline EXCEPT ![c] = now + HandshakeTimeout]
    BY <1>5, Zenon DEF ClientLaunches, Client!Start, Client!FirstAttempt
  <2>2. P.deadline = now + HandshakeTimeout /\ now + HandshakeTimeout <= now + HandshakeTimeout
    BY <1>2
  <2> HIDE DEF P
  <2> QED  BY <1>1, <1>2, <2>1, <2>2, OtherRunsBudgeted, ZenonT(30)
<1>6. CASE Tick \/ UNCHANGED runtimeVars
  BY <1>3, <1>6, Zenon DEF Tick, runtimeVars
<1>7. CASE ServerReceives \/ ServerTimesOut \/ ServerEnds \/ ServerLaunches
  BY <1>3, <1>7, ServerReadsClock, Zenon
<1>8. ASSUME NEW c \in Clients, ClientLaunches(c) \/ ClientReceives(c) \/ ClientTimesOut(c) \/ ClientEnds(c)
      PROVE  RunsBudgeted'
  BY <1>4, <1>5, <1>8, ReceivingBudgeted, Zenon DEF ClientTimesOut, ClientEnds
<1> QED  BY <1>6, <1>7, <1>8, ZenonT(30) DEF RuntimeNext

\* NoiseIkClientRuntime::run: at no time has a handshake more than HANDSHAKE_TIMEOUT left,
\* whatever arrived, and the coordinator's own deadlines, renewed by every phase, are never
\* before that of the run.
THEOREM RunsAlwaysBudgeted == RuntimeSpec => []RunsBudgeted
<1>1. ASSUME RuntimeInit PROVE RunsBudgeted
  <2>1. runDeadline = [c \in Clients |-> 0] /\ run = [c \in Clients |-> "Ended"]
    BY <1>1, Zenon DEF RuntimeInit
  <2>2. 0 \in Nat
    OBVIOUS
  <2> QED  BY <2>1, <2>2, Zenon DEF RunsBudgeted, RunBudget
<1>2. RuntimeInv /\ RunsBudgeted /\ [RuntimeNext]_runtimeVars => RunsBudgeted'
  BY BudgetsInductive
<1> QED  BY <1>1, <1>2, RuntimeCorrect, PTL DEF RuntimeSpec

\* No step of anybody moves the deadline of a handshake
DeadlineFixed ==
    \A c \in Clients :
        run[c] = "Handshake" /\ run'[c] = "Handshake" => runDeadline'[c] = runDeadline[c]

\* NoiseIkClientRuntime::run computes its deadline once: no datagram, however many and in
\* whatever order, moves it while the handshake lasts, and nothing of another client does.
THEOREM RunDeadlineNeverMoves == RuntimeSpec => [][DeadlineFixed]_runtimeVars
<1>1. ASSUME RuntimeInv, RunsBudgeted, [RuntimeNext]_runtimeVars, NEW c \in Clients,
             run[c] = "Handshake", run'[c] = "Handshake"
      PROVE  runDeadline'[c] = runDeadline[c]
  <2>1. run \in [Clients -> Runs] /\ runDeadline \in [Clients -> Nat]
    BY <1>1, ClientTypes, Zenon DEF RuntimeInv, RunsBudgeted
  <2>2. CASE Tick \/ UNCHANGED runtimeVars
    BY <2>2, Zenon DEF Tick, runtimeVars, clientVars
  <2>3. CASE ServerReceives \/ ServerTimesOut \/ ServerEnds \/ ServerLaunches
    BY <1>1, <2>3, ServerReadsClock, Zenon DEF clientVars
  <2>4. ASSUME NEW d \in Clients, ClientLaunches(d) \/ ClientGone(d)
        PROVE  runDeadline'[c] = runDeadline[c]
    <3>1. d # c
      BY <1>1, <2>1, <2>4, ZenonT(30) DEF ClientLaunches, ClientGone
    <3> QED  BY <2>1, <2>4, <3>1, Zenon DEF ClientLaunches, ClientGone
  <2>5. ASSUME NEW d \in Clients, ClientLaunches(d) \/ ClientReceives(d) \/ ClientTimesOut(d) \/ ClientEnds(d)
        PROVE  runDeadline'[c] = runDeadline[c]
    BY <2>4, <2>5, Zenon DEF ClientReceives, ClientTimesOut, ClientEnds
  <2> QED  BY <1>1, <2>2, <2>3, <2>5, Zenon DEF RuntimeNext
<1>2. RuntimeInv /\ RunsBudgeted /\ [RuntimeNext]_runtimeVars => [DeadlineFixed]_runtimeVars
  BY <1>1, Zenon DEF DeadlineFixed
<1> QED  BY <1>2, RuntimeCorrect, RunsAlwaysBudgeted, PTL DEF RuntimeSpec
=============================================================================

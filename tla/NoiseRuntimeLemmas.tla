------------------------- MODULE NoiseRuntimeLemmas -------------------------
(***************************************************************************)
(* The inductive invariant of NoiseRuntime, and that every step of the     *)
(* server keeps it, for every set of clients, allowlist and capacity and   *)
(* any number of runs of each side, with datagrams lost, delayed,          *)
(* reordered and repeated across restarts.                                 *)
(*                                                                         *)
(* The argument is about age.  A responder ephemeral is drawn once, so     *)
(* what answers a later run of a client has a later ephemeral than what    *)
(* that client confirmed before (SentInv), and a candidate is younger than *)
(* every session confirmed by this or an earlier server process            *)
(* (CandidatesInv): an old finish replayed finds no candidate to complete. *)
(***************************************************************************)
EXTENDS NoiseRuntime, TLAPS

Finishes == {m \in toServer : m.type = "ClientFinish"}
Confirmations == {m \in toClient : m.type = "ServerFinish"}

FinishMessage(c, attempt, sid) ==
    [type |-> "ClientFinish", from |-> c, attempt |-> attempt, sessionId |-> sid]
Confirmation(c, attempt, sid) ==
    [type |-> "ServerFinish", to |-> c, attempt |-> attempt, sessionId |-> sid]

\* A session identifier is a hello, which is a client and the number of its run, and a
\* responder ephemeral.
ClientOf(sid) == sid[1][1]
RunOf(sid) == sid[1][2]
EphemeralOf(sid) == sid[2]

\* What was sent names runs and ephemerals that were drawn.  A hello is answered by one
\* finish at most, and an answer to a later run is younger than what an earlier run confirmed.
SentInv ==
    /\ toClient \subseteq Server!ServerMessage
    /\ \A m \in toServer : m.type = "ClientHello" =>
          m.hello[1] = m.from /\ m.hello[2] <= drawn[m.from]
    /\ \A m \in Finishes :
          /\ ClientOf(m.sessionId) = m.from /\ RunOf(m.sessionId) <= drawn[m.from]
          /\ EphemeralOf(m.sessionId) <= ephemerals
    /\ \A m, n \in Finishes : m.sessionId[1] = n.sessionId[1] => m = n
    /\ \A n \in toClient :
          /\ ClientOf(n.sessionId) = n.to /\ RunOf(n.sessionId) <= drawn[n.to]
          /\ EphemeralOf(n.sessionId) <= ephemerals
    /\ \A m \in Finishes, n \in toClient :
          m.from = n.to /\ RunOf(m.sessionId) < RunOf(n.sessionId) =>
              EphemeralOf(m.sessionId) < EphemeralOf(n.sessionId)

\* What a client's coordinator knows is of its present run.
ClientInv(c) ==
    /\ run[c] = "Data" <=> policy[c].state = "Established"
    /\ policy[c].state \in {"AwaitingServerHello", "AwaitingServerFinish", "Established"} =>
          crypto[c].hello = <<c, drawn[c]>> /\ policy[c].attempt \in Attempts
    /\ policy[c].state = "AwaitingServerHello" =>
          \A m \in Finishes : m.sessionId[1] # <<c, drawn[c]>>
    /\ policy[c].state \in {"AwaitingServerFinish", "Established"} =>
          /\ crypto[c].sessionId[1] = <<c, drawn[c]>>
          /\ FinishMessage(c, policy[c].attempt, crypto[c].sessionId) \in toServer
    /\ policy[c].state = "Established" =>
          Confirmation(c, policy[c].attempt, crypto[c].sessionId) \in toClient

ClientsInv ==
    /\ Client!ClientTypeOK /\ run \in [Clients -> {"Ended", "Handshake", "Data"}]
    /\ failed = {}
    /\ \A c \in Clients : ClientInv(c)

\* The ServerHello that was sent for a candidate
Offer(i) == [type |-> "ServerHello", to |-> registry[i].source,
             attempt |-> registry[i].attempt, sessionId |-> Server!SessionIdOf(i)]

\* A candidate belongs to the client its hello names, was offered to it, and is younger
\* than every session that was ever confirmed.
CandidatesInv ==
    /\ ephemerals \in Nat /\ nextCandidateId \in Nat
    /\ \A s \in DOMAIN pending :
          /\ pending[s].id \in DOMAIN registry /\ registry[pending[s].id].source = s
          /\ pending[s].id \in Nat /\ pending[s].id < nextCandidateId
    /\ DOMAIN contexts = DOMAIN registry
    /\ \A i \in DOMAIN contexts :
          /\ contexts[i].hello \in Acceptable
          /\ Offer(i) \in toClient
          /\ \A m \in Confirmations : EphemeralOf(m.sessionId) < contexts[i].ephemeral

\* The loop and its coordinator.  An established session is of an allowed client that
\* proved it has the keys, and no session that was confirmed is younger.
ServerInv ==
    /\ serverRun = "Handshake" => state = "Listening"
    /\ serverRun = "Data" => state = "Established"
    /\ fatal # "MissingServerCandidateContext"
    /\ state = "Established" =>
          /\ session.source \in Allowed
          /\ ClientOf(session.sessionId) = session.source
          /\ FinishMessage(session.source, session.attempt, session.sessionId) \in toServer
          /\ Confirmation(session.source, session.attempt, session.sessionId) \in toClient
          /\ established.sessionId = session.sessionId
          /\ \A m \in Confirmations :
                \/ m.sessionId = session.sessionId
                \/ EphemeralOf(m.sessionId) < EphemeralOf(session.sessionId)

RuntimeInv == SentInv /\ ClientsInv /\ CandidatesInv /\ ServerInv
-----------------------------------------------------------------------------
(* What the types give                                                     *)

\* What was sent has the fields its type says, and its session's run and ephemeral are numbers.
LEMMA MessageTypes ==
    ASSUME SentInv, ClientsInv
    PROVE  /\ drawn \in [Clients -> Nat]
           /\ \A m \in toServer : m.from \in Clients /\ m.attempt \in Attempts
           /\ \A m \in Finishes :
                 /\ RunOf(m.sessionId) \in Nat /\ EphemeralOf(m.sessionId) \in Nat
                 /\ m = FinishMessage(m.from, m.attempt, m.sessionId)
           /\ \A n \in toClient :
                 /\ n.to \in Clients /\ n.attempt \in Attempts
                 /\ n.sessionId \in Server!SessionIds /\ n.sessionId \in Client!SessionId
                 /\ RunOf(n.sessionId) \in Nat /\ EphemeralOf(n.sessionId) \in Nat
           /\ \A n \in Confirmations : n = Confirmation(n.to, n.attempt, n.sessionId)
<1>1. drawn \in [Clients -> Nat] /\ toServer \subseteq Client!ClientMessage
  BY DEF ClientsInv, Client!ClientTypeOK
<1>2. \A m \in toServer : m.from \in Clients /\ m.attempt \in Attempts
  BY <1>1 DEF Client!ClientMessage
<1>3. ASSUME NEW m \in Finishes
      PROVE  /\ RunOf(m.sessionId) \in Nat /\ EphemeralOf(m.sessionId) \in Nat
             /\ m = FinishMessage(m.from, m.attempt, m.sessionId)
  <2>1. m \in [type : {"ClientFinish"}, from : Clients, attempt : Attempts, sessionId : Client!SessionId]
    BY <1>1 DEF Finishes, Client!ClientMessage
  <2> QED  BY <2>1 DEF FinishMessage, RunOf, EphemeralOf, Client!SessionId, Client!Hello
<1>4. ASSUME NEW n \in toClient
      PROVE  /\ n.to \in Clients /\ n.attempt \in Attempts
             /\ n.sessionId \in Server!SessionIds /\ n.sessionId \in Client!SessionId
             /\ RunOf(n.sessionId) \in Nat /\ EphemeralOf(n.sessionId) \in Nat
             /\ n.type = "ServerFinish" => n = Confirmation(n.to, n.attempt, n.sessionId)
  <2>1. n \in Server!ServerMessage
    BY DEF SentInv
  <2>2. /\ n.to \in Clients /\ n.attempt \in Attempts /\ n.sessionId \in Server!SessionIds
        /\ n.type = "ServerFinish" => n = Confirmation(n.to, n.attempt, n.sessionId)
    BY <2>1 DEF Server!ServerMessage, Confirmation
  <2>3. PICK c \in Clients, k \in 1..MaxClientRuns, e \in Nat \ {0} : n.sessionId = <<<<c, k>>, e>>
    BY <2>2 DEF Server!SessionIds, Server!Ephemerals, Hellos
  <2> QED  BY <2>2, <2>3, RuntimeAssumption, SMTT(30)
             DEF Client!SessionId, Client!Hello, RunOf, EphemeralOf
<1> QED  BY <1>1, <1>2, <1>3, <1>4, Zenon DEF Confirmations

\* A hello of an allowlisted key is some client's hello.
LEMMA AcceptableHellos == Acceptable \subseteq Hellos
BY RuntimeAssumption DEF Acceptable, Hellos
-----------------------------------------------------------------------------
(* What a step of one side leaves of the other's invariant                 *)

\* A step of the server leaves the clients alone: datagrams under way to them only
\* become more.
LEMMA ClientsUndisturbed ==
    ASSUME ClientsInv, UNCHANGED clientVars, now' \in 0..MaxInstant, toClient \subseteq toClient'
    PROVE  ClientsInv'
<1>1. UNCHANGED <<policy, crypto, drawn, failed, run, toServer>>
  BY DEF clientVars
<1>2. Client!ClientTypeOK' /\ failed' = {} /\ run' \in [Clients -> {"Ended", "Handshake", "Data"}]
  BY <1>1 DEF ClientsInv, Client!ClientTypeOK
<1>3. ASSUME NEW c \in Clients PROVE ClientInv(c)'
  BY <1>1, Zenon DEF ClientsInv, ClientInv, Finishes, FinishMessage, Confirmation
<1> QED  BY <1>2, <1>3 DEF ClientsInv

\* A step of a client leaves the server alone: datagrams under way to it only become more.
LEMMA ServerUndisturbed ==
    ASSUME CandidatesInv, ServerInv, UNCHANGED serverVars, toServer \subseteq toServer'
    PROVE  CandidatesInv' /\ ServerInv'
<1>1. UNCHANGED <<pending, nextCandidateId, state, session, registry, contexts, established,
                  fatal, ephemerals, toClient, serverRun>>
  BY DEF serverVars, coordinatorVars
<1>2. CandidatesInv'
  BY <1>1, ZenonT(30) DEF CandidatesInv, Confirmations, Offer, Server!SessionIdOf
<1>3. ServerInv'
  BY <1>1, Zenon DEF ServerInv, Confirmations, FinishMessage, Confirmation
<1> QED  BY <1>2, <1>3

\* Where nothing is sent or drawn, nothing changes about what was sent.
LEMMA SentUndisturbed ==
    ASSUME SentInv, UNCHANGED <<toServer, drawn, toClient, ephemerals>>
    PROVE  SentInv'
BY SMTT(30) DEF SentInv, Finishes

\* A datagram of the server keeps the order of ephemerals when it is younger than every
\* finish, or repeats the session of a datagram sent before.
LEMMA SendingKeepsSent ==
    ASSUME SentInv, ClientsInv, CandidatesInv, UNCHANGED <<toServer, drawn>>,
           ephemerals' \in Nat, ephemerals <= ephemerals',
           NEW n \in Server!ServerMessage, toClient' = toClient \cup {n},
           ClientOf(n.sessionId) = n.to, RunOf(n.sessionId) <= drawn[n.to],
           EphemeralOf(n.sessionId) <= ephemerals',
           \A m \in Finishes : m.from = n.to /\ RunOf(m.sessionId) < RunOf(n.sessionId) =>
               EphemeralOf(m.sessionId) < EphemeralOf(n.sessionId)
    PROVE  SentInv'
<1>1. Finishes' = Finishes
  BY DEF Finishes
<1>2. ephemerals \in Nat
  BY DEF CandidatesInv
<1>3. ASSUME NEW m \in Finishes PROVE EphemeralOf(m.sessionId) <= ephemerals'
  <2>1. EphemeralOf(m.sessionId) \in Nat /\ EphemeralOf(m.sessionId) <= ephemerals
    BY MessageTypes, Zenon DEF SentInv
  <2> QED  BY <1>2, <2>1
<1>4. ASSUME NEW k \in toClient PROVE EphemeralOf(k.sessionId) <= ephemerals'
  <2>1. EphemeralOf(k.sessionId) \in Nat /\ EphemeralOf(k.sessionId) <= ephemerals
    BY MessageTypes, Zenon DEF SentInv
  <2> QED  BY <1>2, <2>1
<1> QED  BY <1>1, <1>3, <1>4, ZenonT(30) DEF SentInv
-----------------------------------------------------------------------------
(* The steps of the server                                                 *)

\* Tables p, r and x hold only candidates the server has, each in all three or in none.
Pruned(p, r, x) ==
    /\ \A s \in DOMAIN p : s \in DOMAIN pending /\ p[s] = pending[s] /\ p[s].id \in DOMAIN r
    /\ DOMAIN x = DOMAIN r
    /\ \A i \in DOMAIN r : i \in DOMAIN registry /\ r[i] = registry[i] /\ x[i] = contexts[i]

\* Candidates expire or are aborted
Prune ==
    /\ Pruned(pending', registry', contexts')
    /\ nextCandidateId' \in {nextCandidateId, nextCandidateId + 1}
    /\ UNCHANGED <<now, state, session, established, fatal, ephemerals, toClient>>

\* The coordinator closes, or its process is gone
Clear ==
    /\ DOMAIN pending' = {} /\ DOMAIN registry' = {} /\ DOMAIN contexts' = {}
    /\ nextCandidateId' \in Nat
    /\ state' # "Established" /\ fatal' # "MissingServerCandidateContext"
    /\ UNCHANGED <<now, ephemerals, toClient>>

\* expire_pending, and remove_exact_candidate after it, take a candidate out of all three
\* tables or out of none.
LEMMA LiveTables ==
    ASSUME CandidatesInv
    PROVE  /\ Pruned(Server!LivePending, Server!LiveRegistry, Server!LiveContexts)
           /\ \A s \in DOMAIN Server!LivePending :
                 Pruned(Server!Without(Server!LivePending, {s}),
                        Server!Without(Server!LiveRegistry, {Server!Owned(s)}),
                        Server!Without(Server!LiveContexts, {Server!Owned(s)}))
<1>1. \A s, t \in DOMAIN pending : pending[s].id = pending[t].id => s = t
  BY DEF CandidatesInv
<1>2. Pruned(Server!LivePending, Server!LiveRegistry, Server!LiveContexts)
  BY <1>1, ZenonT(30) DEF CandidatesInv, Pruned, Server!LivePending, Server!LiveRegistry,
              Server!LiveContexts, Server!Without, Server!ExpiredIds, Server!Expired
<1>3. ASSUME NEW s \in DOMAIN Server!LivePending
      PROVE  Pruned(Server!Without(Server!LivePending, {s}),
                    Server!Without(Server!LiveRegistry, {Server!Owned(s)}),
                    Server!Without(Server!LiveContexts, {Server!Owned(s)}))
  BY <1>1, <1>2, ZenonT(30) DEF Pruned, Server!Without, Server!Owned
<1> QED  BY <1>2, <1>3

\* expire_and_reconcile only removes candidates.
LEMMA ExpiryPrunes ==
    ASSUME CandidatesInv, Server!ReconcileExpired,
           UNCHANGED <<state, session, established, ephemerals, fatal, toClient>>
    PROVE  Prune
BY LiveTables DEF Server!ReconcileExpired, Server!ExpirePending, Prune

\* abort_exact_candidate only removes candidates.
LEMMA AbortPrunes ==
    ASSUME CandidatesInv, NEW s, Server!AbortExactCandidate(s),
           UNCHANGED <<state, session, established, ephemerals, fatal, toClient>>
    PROVE  Prune
BY LiveTables DEF Server!AbortExactCandidate, Server!RemoveExactCandidate, Server!RemoveCandidate, Prune

\* fail_closed leaves no candidate.
LEMMA FailureClears ==
    ASSUME CandidatesInv, NEW error, error # "MissingServerCandidateContext",
           Server!FailClosed(error)
    PROVE  Clear
BY DEF CandidatesInv, Server!FailClosed, Server!CloseBoth, Server!ShutdownManager, Server!EmptyMap, Clear

\* expire_and_reconcile finds the candidate of every source in all three tables.
LEMMA OwnedCandidate ==
    ASSUME CandidatesInv, NEW s, s \in DOMAIN Server!LivePending
    PROVE  /\ s \in DOMAIN pending /\ Server!Owned(s) \in DOMAIN contexts
           /\ registry[Server!Owned(s)].source = s
BY DEF CandidatesInv, Server!LivePending, Server!Without, Server!Owned

\* receive_client_hello
LEMMA HelloKinds ==
    ASSUME CandidatesInv, NEW s, NEW a, NEW h, Server!ReceiveClientHello(s, a, h)
    PROVE  \/ Prune
           \/ Clear /\ fatal' # "None"
           \/ Server!HelloAdmitted(s, a, h)
<1>1. CASE Server!HelloDropped(s, a)
  BY <1>1, ExpiryPrunes DEF Server!HelloDropped
<1>2. CASE Server!HelloFatal(s)
  <2>1. PICK error \in {"DeadlineOverflow", "CandidateIdExhausted"} : Server!FailClosed(error)
    BY <1>2 DEF Server!HelloFatal
  <2>2. error # "None" /\ error # "MissingServerCandidateContext" /\ fatal' = error
    BY <2>1 DEF Server!FailClosed
  <2> QED  BY <2>1, <2>2, FailureClears
<1>3. CASE Server!HelloRejected(s, a, h)
  BY <1>3, LiveTables, SMTT(30) DEF Server!HelloRejected, Server!AdmitAndRemove, Prune
<1>4. CASE Server!HelloRepeated(s, a, h)
  <2>1. s \in DOMAIN Server!LivePending
    BY <1>4, Zenon DEF Server!HelloRepeated, Server!AdmissionOutcome
  <2>2. Offer(Server!Owned(s)) \in toClient
    BY <2>1, OwnedCandidate, Zenon DEF CandidatesInv
  <2>3. Offer(Server!Owned(s)) =
           [type |-> "ServerHello", to |-> s, attempt |-> a, sessionId |-> Server!SessionIdOf(Server!Owned(s))]
    BY <1>4, <2>1, OwnedCandidate, Zenon DEF Offer, Server!HelloRepeated, Server!AttemptOf
  <2>4. toClient' = toClient
    BY <1>4, <2>2, <2>3, Zenon DEF Server!HelloRepeated, Server!Send
  <2> QED  BY <1>4, <2>4, ExpiryPrunes, SMTT(30) DEF Server!HelloRepeated
<1>5. CASE Server!HelloConflicts(s, a, h)
  BY <1>5, AbortPrunes DEF Server!HelloConflicts
<1> QED  BY <1>1, <1>2, <1>3, <1>4, <1>5, Zenon DEF Server!ReceiveClientHello

\* receive_client_finish, as the loop calls it
LEMMA FinishKinds ==
    ASSUME CandidatesInv, state = "Listening", NEW s, NEW a, NEW sid,
           Server!ReceiveClientFinish(s, a, sid, TRUE)
    PROVE  \/ Prune
           \/ Clear /\ fatal' # "None"
           \/ Server!FinishEstablishes(s, a, sid, TRUE)
<1>1. CASE Server!FinishDropped(s, a)
  BY <1>1, ExpiryPrunes DEF Server!FinishDropped
<1>2. CASE Server!FinishUndecryptable(s, a, sid)
  <2>1. Server!FailClosed("NoiseIkServerFailure")
    BY <1>2 DEF Server!FinishUndecryptable
  <2>2. fatal' # "None"
    BY <2>1 DEF Server!FailClosed
  <2> QED  BY <2>1, <2>2, FailureClears, Zenon
<1> QED  BY <1>1, <1>2, Zenon DEF Server!ReceiveClientFinish, Server!FinishRejected, Server!FinishDuplicate
-----------------------------------------------------------------------------
(* Every step of the server keeps the invariant                            *)

\* Removing candidates keeps what is known of the others.
LEMMA PruneKeeps ==
    ASSUME CandidatesInv, Prune PROVE CandidatesInv'
<1>1. /\ UNCHANGED <<ephemerals, toClient>> /\ Confirmations' = Confirmations
      /\ nextCandidateId' \in Nat /\ nextCandidateId <= nextCandidateId'
  BY DEF Prune, CandidatesInv, Confirmations
<1>2. ASSUME NEW s \in DOMAIN pending'
      PROVE  /\ pending'[s].id \in DOMAIN registry' /\ registry'[pending'[s].id].source = s
             /\ pending'[s].id \in Nat /\ pending'[s].id < nextCandidateId'
  <2>1. /\ s \in DOMAIN pending /\ pending'[s] = pending[s] /\ pending[s].id \in DOMAIN registry'
        /\ registry'[pending[s].id] = registry[pending[s].id]
    BY DEF Prune, Pruned
  <2>2. /\ registry[pending[s].id].source = s /\ pending[s].id \in Nat
        /\ pending[s].id < nextCandidateId
    BY <2>1, SMTT(30) DEF CandidatesInv
  <2>3. pending[s].id < nextCandidateId'
    <3>1. nextCandidateId \in Nat
      BY DEF CandidatesInv
    <3> QED  BY <1>1, <2>2, <3>1, SMTT(30)
  <2> QED  BY <2>1, <2>2, <2>3, Zenon
<1>3. ASSUME NEW i \in DOMAIN contexts'
      PROVE  i \in DOMAIN contexts /\ contexts'[i] = contexts[i] /\ Offer(i)' = Offer(i)
  BY Zenon DEF Prune, Pruned, CandidatesInv, Offer, Server!SessionIdOf
<1>4. DOMAIN contexts' = DOMAIN registry'
  BY DEF Prune, Pruned
<1> QED  BY <1>1, <1>2, <1>3, <1>4, Zenon DEF CandidatesInv

\* Without candidates nothing has to be known of them.
LEMMA ClearKeeps ==
    ASSUME CandidatesInv, Clear PROVE CandidatesInv'
BY DEF Clear, CandidatesInv

\* admit_client_hello and authenticate_client_hello: the new candidate is the youngest.
LEMMA AdmissionKeeps ==
    ASSUME RuntimeInv, NEW m \in toServer, m.type = "ClientHello", UNCHANGED clientVars,
           Server!HelloAdmitted(m.from, m.attempt, m.hello)
    PROVE  SentInv' /\ CandidatesInv' /\ toClient \subseteq toClient'
<1> DEFINE i == nextCandidateId
           sid == <<m.hello, ephemerals + 1>>
           offer == [type |-> "ServerHello", to |-> m.from, attempt |-> m.attempt, sessionId |-> sid]
<1>1. /\ m.hello \in Acceptable /\ ephemerals' = ephemerals + 1 /\ nextCandidateId' = i + 1
      /\ pending' = Server!Put(Server!LivePending, m.from, Server!NewCandidate)
      /\ registry' = Server!Put(Server!LiveRegistry, i, [source |-> m.from, attempt |-> m.attempt])
      /\ contexts' = Server!Put(Server!LiveContexts, i,
                        [attempt |-> m.attempt, hello |-> m.hello, ephemeral |-> ephemerals + 1])
      /\ toClient' = toClient \cup {offer}
  BY Zenon DEF Server!HelloAdmitted, Server!Admit, Server!OfferSession, Server!Send
<1>2. /\ SentInv /\ ClientsInv /\ CandidatesInv /\ ephemerals \in Nat /\ i \in Nat
      /\ UNCHANGED <<toServer, drawn>>
  BY Zenon DEF RuntimeInv, CandidatesInv, clientVars
<1>3. m.from \in Clients /\ m.attempt \in Attempts /\ m.hello \in Hellos
  BY <1>1, <1>2, MessageTypes, AcceptableHellos, Zenon
<1>4. /\ offer \in Server!ServerMessage /\ offer.sessionId = sid /\ offer.to = m.from
      /\ EphemeralOf(sid) = ephemerals + 1 /\ sid[1] = m.hello
  <2>1. sid \in Server!SessionIds
    BY <1>2, <1>3 DEF Server!SessionIds, Server!Ephemerals
  <2> QED  BY <1>3, <2>1, SMTT(30) DEF Server!ServerMessage, EphemeralOf
<1>5. ClientOf(sid) = m.from /\ RunOf(sid) <= drawn[m.from]
  BY <1>2, <1>4, Zenon DEF SentInv, ClientOf, RunOf
<1> HIDE DEF offer, sid
<1>6. ASSUME NEW k \in Finishes \cup toClient PROVE EphemeralOf(k.sessionId) < ephemerals + 1
  <2>1. EphemeralOf(k.sessionId) \in Nat /\ EphemeralOf(k.sessionId) <= ephemerals
    BY <1>2, MessageTypes, Zenon DEF SentInv
  <2> QED  BY <1>2, <2>1
<1>7. SentInv'
  <2>1. ephemerals' \in Nat /\ ephemerals <= ephemerals' /\ EphemeralOf(sid) <= ephemerals'
    BY <1>1, <1>2, <1>4, SMTT(30)
  <2>2. \A k \in Finishes : EphemeralOf(k.sessionId) < EphemeralOf(sid)
    BY <1>4, <1>6, Zenon
  <2> QED  BY <1>1, <1>2, <1>4, <1>5, <2>1, <2>2, SendingKeepsSent, ZenonT(30)
<1>8. Confirmations' = Confirmations
  <2>1. offer.type # "ServerFinish"
    BY DEF offer
  <2> QED  BY <1>1, <2>1, Zenon DEF Confirmations
<1>9. Pruned(Server!LivePending, Server!LiveRegistry, Server!LiveContexts)
  BY <1>2, LiveTables
<1>10. ASSUME NEW s \in DOMAIN pending'
       PROVE  /\ pending'[s].id \in DOMAIN registry' /\ registry'[pending'[s].id].source = s
              /\ pending'[s].id \in Nat /\ pending'[s].id < nextCandidateId'
  <2>1. CASE s = m.from
    <3>1. pending'[s].id = i
      BY <1>1, <2>1, Zenon DEF Server!Put, Server!NewCandidate
    <3>2. i \in DOMAIN registry' /\ registry'[i].source = s
      BY <1>1, <2>1, Zenon DEF Server!Put
    <3>3. i < i + 1
      BY <1>2
    <3> QED  BY <1>1, <1>2, <3>1, <3>2, <3>3, Zenon
  <2>2. CASE s # m.from
    <3>1. s \in DOMAIN Server!LivePending /\ pending'[s] = Server!LivePending[s]
      BY <1>1, <2>2, Zenon DEF Server!Put
    <3>2. /\ s \in DOMAIN pending /\ pending'[s] = pending[s]
          /\ pending[s].id \in DOMAIN Server!LiveRegistry
          /\ Server!LiveRegistry[pending[s].id] = registry[pending[s].id]
      BY <1>9, <3>1, Zenon DEF Pruned
    <3>3. registry[pending[s].id].source = s /\ pending[s].id \in Nat /\ pending[s].id < i
      BY <1>2, <3>2, Zenon DEF CandidatesInv
    <3>4. pending[s].id # i
      BY <1>2, <3>3, SMTT(30)
    <3>5. pending[s].id \in DOMAIN registry' /\ registry'[pending[s].id] = registry[pending[s].id]
      BY <1>1, <3>2, <3>4, Zenon DEF Server!Put
    <3>6. pending[s].id < i + 1
      BY <1>2, <3>3, SMTT(30)
    <3> QED  BY <1>1, <3>2, <3>3, <3>5, <3>6, Zenon
  <2> QED  BY <2>1, <2>2, Zenon
<1>11. DOMAIN contexts' = DOMAIN registry'
  BY <1>1, <1>9, Zenon DEF Server!Put, Pruned
<1>12. ASSUME NEW j \in DOMAIN contexts'
       PROVE  /\ contexts'[j].hello \in Acceptable
              /\ Offer(j)' \in toClient'
              /\ \A k \in Confirmations : EphemeralOf(k.sessionId) < contexts'[j].ephemeral
  <2>1. CASE j = i
    <3>1. /\ registry'[j] = [source |-> m.from, attempt |-> m.attempt]
          /\ contexts'[j] = [attempt |-> m.attempt, hello |-> m.hello, ephemeral |-> ephemerals + 1]
      BY <1>1, <2>1, Zenon DEF Server!Put
    <3>2. Offer(j)' = offer
      <4>1. registry'[j].source = m.from /\ registry'[j].attempt = m.attempt
        BY <3>1
      <4>2. contexts'[j].hello = m.hello /\ contexts'[j].ephemeral = ephemerals + 1
        BY <3>1
      <4> QED  BY <4>1, <4>2, Zenon DEF Offer, Server!SessionIdOf, offer, sid
    <3>3. contexts'[j].hello = m.hello /\ contexts'[j].ephemeral = ephemerals + 1
      BY <3>1
    <3> QED  BY <1>1, <1>6, <3>2, <3>3, Zenon DEF Confirmations
  <2>2. CASE j # i
    <3>1. /\ j \in DOMAIN contexts /\ contexts'[j] = contexts[j] /\ registry'[j] = registry[j]
      BY <1>1, <1>2, <1>9, <2>2, Zenon DEF Server!Put, Pruned, CandidatesInv
    <3>2. Offer(j)' = Offer(j)
      BY <3>1 DEF Offer, Server!SessionIdOf
    <3> QED  BY <1>1, <1>2, <3>1, <3>2, Zenon DEF CandidatesInv
  <2> QED  BY <2>1, <2>2, SMTT(30)
<1>13. CandidatesInv'
  <2>1. ephemerals' \in Nat /\ nextCandidateId' \in Nat
    <3>1. ephemerals' = ephemerals + 1 /\ nextCandidateId' = i + 1
      BY <1>1, Zenon
    <3> QED  BY <1>2, <3>1
  <2> QED  BY <1>8, <1>10, <1>11, <1>12, <2>1, Zenon DEF CandidatesInv
<1> QED  BY <1>1, <1>7, <1>13, Zenon

\* authenticate_client_finish and commit_session: the session is the candidate's own, which
\* is younger than every session confirmed before.
LEMMA CommitmentKeeps ==
    ASSUME RuntimeInv, NEW m \in toServer, m.type = "ClientFinish", UNCHANGED clientVars,
           Server!FinishEstablishes(m.from, m.attempt, m.sessionId, TRUE),
           serverRun' = ServerRunAfter
    PROVE  /\ SentInv' /\ CandidatesInv' /\ ServerInv' /\ toClient \subseteq toClient'
           /\ \A k \in Confirmations : EphemeralOf(k.sessionId) < EphemeralOf(session'.sessionId)
<1> DEFINE i == Server!Owned(m.from)
           confirmation == Confirmation(m.from, m.attempt, m.sessionId)
<1>1. /\ m.from \in DOMAIN Server!LivePending /\ registry[i].attempt = m.attempt
      /\ m.sessionId = Server!SessionIdOf(i)
      /\ Server!ShutdownManager /\ Server!CommitSession(m.from, m.attempt, m.sessionId)
  BY Zenon DEF Server!FinishEstablishes, Server!Permitted, Server!Owns, Server!AttemptOf
<1>2. /\ pending' = Server!EmptyMap /\ registry' = Server!EmptyMap /\ contexts' = Server!EmptyMap
      /\ nextCandidateId' = nextCandidateId /\ state' = "Established"
      /\ session' = [id |-> i, source |-> m.from, attempt |-> m.attempt, sessionId |-> m.sessionId]
      /\ established' = [id |-> i, attempt |-> m.attempt, sessionId |-> m.sessionId]
      /\ toClient' = toClient \cup {confirmation} /\ UNCHANGED <<ephemerals, fatal>>
  BY <1>1, Zenon DEF Server!ShutdownManager, Server!CommitSession, Server!Send, Confirmation
<1>3. /\ SentInv /\ ClientsInv /\ CandidatesInv /\ ServerInv /\ UNCHANGED <<toServer, drawn>>
  BY DEF RuntimeInv, clientVars
<1>4. m \in Finishes
  BY DEF Finishes
<1>5. /\ i \in DOMAIN contexts /\ registry[i].source = m.from
  BY <1>1, <1>3, OwnedCandidate, Zenon
<1>6. /\ Offer(i) \in toClient /\ Offer(i).to = m.from /\ Offer(i).sessionId = m.sessionId
      /\ contexts[i].hello \in Acceptable
      /\ \A k \in Confirmations : EphemeralOf(k.sessionId) < EphemeralOf(m.sessionId)
  <2>1. /\ contexts[i].hello \in Acceptable /\ Offer(i) \in toClient
        /\ \A k \in Confirmations : EphemeralOf(k.sessionId) < contexts[i].ephemeral
    BY <1>3, <1>5, Zenon DEF CandidatesInv
  <2>2. Offer(i).to = registry[i].source /\ Offer(i).sessionId = Server!SessionIdOf(i)
    BY DEF Offer
  <2>3. EphemeralOf(Server!SessionIdOf(i)) = contexts[i].ephemeral
    BY DEF EphemeralOf, Server!SessionIdOf
  <2> QED  BY <1>1, <1>5, <2>1, <2>2, <2>3, Zenon
<1>7. m.from \in Clients /\ m.attempt \in Attempts /\ m.sessionId \in Server!SessionIds
  BY <1>3, <1>6, MessageTypes, Zenon
<1>8. /\ confirmation \in Server!ServerMessage /\ confirmation.to = m.from
      /\ confirmation.sessionId = m.sessionId /\ confirmation.type = "ServerFinish"
  BY <1>7 DEF Confirmation, Server!ServerMessage
<1>9. ClientOf(m.sessionId) = m.from /\ m.from \in Allowed
  <2>1. ClientOf(m.sessionId) = m.from
    BY <1>3, <1>4, Zenon DEF SentInv
  <2>2. m.sessionId[1] \in Acceptable
    <3>1. Server!SessionIdOf(i)[1] = contexts[i].hello
      BY DEF Server!SessionIdOf
    <3> QED  BY <1>1, <1>6, <3>1, Zenon
  <2> QED  BY <2>1, <2>2 DEF Acceptable, ClientOf
<1>10. m = FinishMessage(m.from, m.attempt, m.sessionId)
  BY <1>3, <1>4, MessageTypes, Zenon
<1> HIDE DEF confirmation, i
<1>11. SentInv'
  <2>1. RunOf(m.sessionId) <= drawn[m.from] /\ EphemeralOf(m.sessionId) <= ephemerals
    BY <1>3, <1>4, Zenon DEF SentInv
  <2>2. \A k \in Finishes : k.from = m.from /\ RunOf(k.sessionId) < RunOf(m.sessionId) =>
            EphemeralOf(k.sessionId) < EphemeralOf(m.sessionId)
    BY <1>3, <1>6, ZenonT(30) DEF SentInv
  <2>3. ephemerals' \in Nat /\ ephemerals <= ephemerals' /\ ephemerals' = ephemerals
    <3>1. ephemerals \in Nat /\ ephemerals' = ephemerals
      BY <1>2, <1>3, Zenon DEF CandidatesInv
    <3> QED  BY <3>1
  <2> QED  BY <1>2, <1>3, <1>8, <1>9, <2>1, <2>2, <2>3, SendingKeepsSent, ZenonT(30)
<1>12. CandidatesInv'
  BY <1>2, <1>3, Zenon DEF CandidatesInv, Server!EmptyMap
<1>13. Confirmations' = Confirmations \cup {confirmation}
  BY <1>2, <1>8, ZenonT(30) DEF Confirmations
<1>14. ServerInv'
  <2>1. serverRun' # "Handshake"
    BY <1>2, Zenon DEF ServerRunAfter
  <2>2. fatal' # "MissingServerCandidateContext"
    BY <1>2, <1>3, Zenon DEF ServerInv
  <2>3. FinishMessage(m.from, m.attempt, m.sessionId) \in toServer'
    BY <1>3, <1>10
  <2>4. Confirmation(m.from, m.attempt, m.sessionId) \in toClient'
    BY <1>2, SMTT(30) DEF confirmation
  <2>5. /\ session'.source = m.from /\ session'.attempt = m.attempt
        /\ session'.sessionId = m.sessionId /\ established'.sessionId = m.sessionId
    BY <1>2, Zenon
  <2>6. \A k \in Confirmations' : \/ k.sessionId = m.sessionId
                                  \/ EphemeralOf(k.sessionId) < EphemeralOf(m.sessionId)
    BY <1>6, <1>8, <1>13, Zenon
  <2> QED  BY <1>2, <1>9, <2>1, <2>2, <2>3, <2>4, <2>5, <2>6, ZenonT(30) DEF ServerInv
<1> QED  BY <1>2, <1>6, <1>11, <1>12, <1>14, Zenon

\* The server's loop: each datagram, and the end of the handshake
LEMMA ServerReceivesKeeps ==
    ASSUME RuntimeInv, ServerReceives PROVE RuntimeInv'
<1>1. /\ SentInv /\ ClientsInv /\ CandidatesInv /\ ServerInv
      /\ state = "Listening" /\ serverRun' = ServerRunAfter /\ UNCHANGED clientVars
  BY DEF RuntimeInv, ServerInv, ServerReceives
<1>2. UNCHANGED <<toServer, drawn>>
  BY <1>1 DEF clientVars
<1>3. /\ UNCHANGED now => now' \in 0..MaxInstant
  BY <1>1 DEF ClientsInv, Client!ClientTypeOK
<1>4. CASE Prune
  <2>1. CandidatesInv' /\ SentInv'
    BY <1>1, <1>2, <1>4, PruneKeeps, SentUndisturbed, Zenon DEF Prune
  <2>2. ServerInv'
    <3>1. UNCHANGED <<state, session, established, fatal, toClient>>
      BY <1>4 DEF Prune
    <3>2. serverRun' # "Data"
      BY <1>1, <3>1, Zenon DEF ServerRunAfter
    <3> QED  BY <1>1, <3>1, <3>2, Zenon DEF ServerInv
  <2>3. ClientsInv'
    BY <1>1, <1>3, <1>4, ClientsUndisturbed, Zenon DEF Prune
  <2> QED  BY <2>1, <2>2, <2>3 DEF RuntimeInv
<1>5. CASE Clear /\ fatal' # "None"
  <2>1. CandidatesInv' /\ SentInv'
    BY <1>1, <1>2, <1>5, ClearKeeps, SentUndisturbed, Zenon DEF Clear
  <2>2. ServerInv'
    <3>1. serverRun' = "Ended"
      BY <1>1, <1>5, Zenon DEF ServerRunAfter
    <3> QED  BY <1>5, <3>1 DEF Clear, ServerInv
  <2>3. ClientsInv'
    BY <1>1, <1>3, <1>5, ClientsUndisturbed, Zenon DEF Clear
  <2> QED  BY <2>1, <2>2, <2>3 DEF RuntimeInv
<1>6. ASSUME NEW m \in toServer, m.type = "ClientHello",
             Server!HelloAdmitted(m.from, m.attempt, m.hello)
      PROVE  RuntimeInv'
  <2>1. SentInv' /\ CandidatesInv' /\ toClient \subseteq toClient'
    BY <1>1, <1>6, AdmissionKeeps, Zenon
  <2>2. UNCHANGED <<now, state, fatal>>
    BY <1>6, Zenon DEF Server!HelloAdmitted, Server!Admit, Server!OfferSession
  <2>3. ServerInv'
    <3>1. serverRun' # "Data"
      BY <1>1, <2>2, Zenon DEF ServerRunAfter
    <3> QED  BY <1>1, <2>2, <3>1, Zenon DEF ServerInv
  <2>4. ClientsInv'
    BY <1>1, <1>3, <2>1, <2>2, ClientsUndisturbed, Zenon
  <2> QED  BY <2>1, <2>3, <2>4 DEF RuntimeInv
<1>7. ASSUME NEW m \in toServer, m.type = "ClientFinish",
             Server!FinishEstablishes(m.from, m.attempt, m.sessionId, TRUE)
      PROVE  RuntimeInv'
  <2>1. SentInv' /\ CandidatesInv' /\ ServerInv' /\ toClient \subseteq toClient'
    BY <1>1, <1>7, CommitmentKeeps, Zenon
  <2>2. UNCHANGED now
    BY <1>7 DEF Server!FinishEstablishes, Server!ShutdownManager
  <2>3. ClientsInv'
    BY <1>1, <1>3, <2>1, <2>2, ClientsUndisturbed, Zenon
  <2> QED  BY <2>1, <2>3 DEF RuntimeInv
<1>8. PICK m \in toServer :
         \/ m.type = "ClientHello" /\ Server!ReceiveClientHello(m.from, m.attempt, m.hello)
         \/ m.type = "ClientFinish" /\ Server!ReceiveClientFinish(m.from, m.attempt, m.sessionId, TRUE)
  BY Zenon DEF ServerReceives
<1>9. CASE m.type = "ClientHello" /\ Server!ReceiveClientHello(m.from, m.attempt, m.hello)
  BY <1>1, <1>4, <1>5, <1>6, <1>9, HelloKinds, Zenon
<1>10. CASE m.type = "ClientFinish" /\ Server!ReceiveClientFinish(m.from, m.attempt, m.sessionId, TRUE)
  BY <1>1, <1>4, <1>5, <1>7, <1>10, FinishKinds, Zenon
<1> QED  BY <1>8, <1>9, <1>10, ZenonT(30)

\* The timer of NoiseIkServerRuntime::run, with check_timeouts, keeps the invariant.
LEMMA ServerTimesOutKeeps ==
    ASSUME RuntimeInv, ServerTimesOut PROVE RuntimeInv'
<1>1. /\ SentInv /\ ClientsInv /\ CandidatesInv /\ ServerInv
      /\ Server!CheckTimeouts /\ UNCHANGED serverRun /\ UNCHANGED clientVars
  BY DEF RuntimeInv, ServerTimesOut
<1>2. Prune
  BY <1>1, ExpiryPrunes DEF Server!CheckTimeouts
<1>3. UNCHANGED <<now, state, session, established, fatal, toClient, ephemerals, toServer, drawn>>
  BY <1>1, <1>2 DEF Prune, clientVars
<1>4. now' \in 0..MaxInstant
  BY <1>1, <1>3, Zenon DEF ClientsInv, Client!ClientTypeOK
<1>5. ServerInv'
  BY <1>1, <1>3, Zenon DEF ServerInv, Confirmations, FinishMessage, Confirmation
<1> QED  BY <1>1, <1>2, <1>3, <1>4, <1>5, PruneKeeps, SentUndisturbed, ClientsUndisturbed, Zenon DEF RuntimeInv

\* The end of a server process, and the next one: what was sent stays in the network.
LEMMA ServerGoneKeeps ==
    ASSUME RuntimeInv, ServerGone, serverRun' \in {"Ended", "Handshake"} PROVE RuntimeInv'
<1>1. /\ SentInv /\ ClientsInv /\ CandidatesInv
      /\ UNCHANGED <<now, ephemerals, toClient>> /\ UNCHANGED clientVars
      /\ state' = "Listening" /\ fatal' = "None"
  BY DEF RuntimeInv, ServerGone
<1>2. Clear
  <2>1. DOMAIN <<>> = {}
    OBVIOUS
  <2> QED  BY <2>1 DEF ServerGone, Clear
<1>3. now' \in 0..MaxInstant
  BY <1>1 DEF ClientsInv, Client!ClientTypeOK
<1>4. ServerInv'
  BY <1>1 DEF ServerInv
<1>5. UNCHANGED <<toServer, drawn>>
  BY <1>1 DEF clientVars
<1> QED  BY <1>1, <1>2, <1>3, <1>4, <1>5, ClearKeeps, SentUndisturbed, ClientsUndisturbed, Zenon DEF RuntimeInv
=============================================================================

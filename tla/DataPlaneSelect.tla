-------------------------- MODULE DataPlaneSelect --------------------------
(***************************************************************************)
(* The order in which the biased select! of data_plane/runtime.rs polls    *)
(* its branches: the idle deadline, Ctrl+C, the TUN, the socket.           *)
(*                                                                         *)
(* A poll that finds neither the deadline nor the signal settles on a      *)
(* packet; time and the signal may overtake it before that branch reads    *)
(* the clock.  Only the scheduler is assumed to be fair, not the branches. *)
(***************************************************************************)
EXTENDS DataPlane

VARIABLES
    signalled,          \* Ctrl+C has completed the pinned future: {} or {Crossed(x)} then
    polled              \* the poll settled on a packet

selectVars == <<vars, signalled, polled>>

\* The packets this end has handed to its socket and to its TUN
Crossed(x) == next[x] - 1 + Len(written[x])

SelectInit ==
    /\ DataInit
    /\ signalled = [x \in Sides |-> {}]
    /\ polled = [x \in Sides |-> FALSE]

Signal(x) ==
    /\ loop[x] # "Ended" /\ signalled[x] = {}
    /\ signalled' = [signalled EXCEPT ![x] = {Crossed(x)}]
    /\ UNCHANGED <<vars, polled>>

\* Mutant of Poll: the packets are polled before the signal
PollBeforeSignal(x) ==
    /\ loop[x] = "Select" /\ ~polled[x]
    /\ ~Due(x)
    /\ polled' = [polled EXCEPT ![x] = TRUE]
    /\ UNCHANGED <<vars, signalled>>

Poll(x) ==
    /\ loop[x] = "Select" /\ ~polled[x]
    /\ ~Due(x) /\ signalled[x] = {}
    /\ polled' = [polled EXCEPT ![x] = TRUE]
    /\ UNCHANGED <<vars, signalled>>

\* The TUN and the socket branch, up to their first await
Packet(x) ==
    /\ polled[x]
    /\ \/ \E n \in Sizes : \/ ReadInvalid(x, n) \/ ReadRefused(x, n)
                           \/ ReadExhausted(x, n) \/ ReadForwarded(x, n)
       \/ \E f \in frames : \/ ReceiveUnwanted(x, f) \/ ReceiveRefused(x, f)
                            \/ ReceiveForwarded(x, f)
       \/ \E q \in Sequence : ReceiveForged(x, q)
       \/ IoFails(x)
    /\ polled' = [polled EXCEPT ![x] = FALSE]
    /\ UNCHANGED signalled

\* The awaited call returns, or fails
Resume(x) ==
    /\ loop[x] \in {"Sending", "Writing"}
    /\ SendReturns(x) \/ WriteReturns(x) \/ IoFails(x)
    /\ UNCHANGED <<signalled, polled>>

Close(x) ==
    /\ ~polled[x]
    /\ Expire(x) \/ (signalled[x] # {} /\ ~Due(x) /\ CtrlC(x))
    /\ UNCHANGED <<signalled, polled>>

Task(x) == Poll(x) \/ Packet(x) \/ Resume(x) \/ Close(x)

SelectTick == Tick /\ UNCHANGED <<signalled, polled>>

SelectNext == SelectTick \/ \E x \in Sides : Signal(x) \/ Task(x)

SelectSpec == SelectInit /\ [][SelectNext]_selectVars

\* Time passes, the two tasks are scheduled and awaited calls return.
FairSelectSpec ==
    /\ SelectSpec
    /\ WF_selectVars(SelectTick)
    /\ \A x \in Sides : WF_selectVars(Task(x))
-----------------------------------------------------------------------------
\* runtime::run polls Ctrl+C before the TUN and the socket, and the pinned future keeps a
\* signal that arrives while a call is awaited: however much traffic is ready, at most the
\* one packet the loop had settled on still crosses the tunnel.
CtrlCPreempts == \A x \in Sides : \A n \in signalled[x] : Crossed(x) <= n + 1
=============================================================================

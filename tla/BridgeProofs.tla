---------------------------- MODULE BridgeProofs -----------------------------
(***************************************************************************)
(* Theorems about Bridge, for every set of connections and of calls: type  *)
(* correctness, one open socket and no other, no call left waiting, and a  *)
(* revocation that is final.                                               *)
(***************************************************************************)
EXTENDS Bridge, TLAPS

-----------------------------------------------------------------------------
(* Type correctness                                                        *)

\* The types hold initially.
LEMMA TypeInit == Init => TypeOK
  BY DEF Init, TypeOK, VariablesOK, Rows, Phases, CallPhases

\* Every step keeps the variables' types.
LEMMA VariablesNext == ASSUME TypeOK, [Next]_vars PROVE VariablesOK'
<1> VariablesOK
  BY DEF TypeOK
<1> USE DEF sockVars, callVars
<1>1. ASSUME NEW c \in Conns, Admit(c) PROVE VariablesOK'
  BY <1>1 DEF Admit, Moves, VariablesOK, Phases
<1>2. ASSUME NEW c \in Conns, Precheck(c) PROVE VariablesOK'
  BY <1>2 DEF Precheck, Moves, VariablesOK, Phases
<1>3. ASSUME NEW c \in Conns, RegisterReads(c) PROVE VariablesOK'
  BY <1>3 DEF RegisterReads, Moves, VariablesOK, Phases
<1>4. ASSUME NEW c \in Conns, RegisterWrites(c) PROVE VariablesOK'
  BY <1>4 DEF RegisterWrites, Phases, Moves, Registered, VariablesOK, Rows
<1>5. ASSUME NEW c \in Conns, RefuseRevoked(c) PROVE VariablesOK'
  BY <1>5 DEF RefuseRevoked, Phases, Moves, VariablesOK, Rows
<1>6. ASSUME NEW c \in Conns, Attach(c) PROVE VariablesOK'
  BY <1>6 DEF Attach, VariablesOK, Rows, Phases
<1>7. ASSUME NEW c \in Conns, RegisterThrows(c) PROVE VariablesOK'
  BY <1>7 DEF RegisterThrows, Phases, Moves, VariablesOK, Rows
<1>8. ASSUME NEW c \in Conns, HelloReads(c) PROVE VariablesOK'
  BY <1>8 DEF HelloReads, Receives, VariablesOK
<1>9. ASSUME NEW c \in Conns, HelloWrites(c) PROVE VariablesOK'
  BY <1>9 DEF HelloWrites, Registered, VariablesOK, Rows
<1>10. ASSUME NEW c \in Conns, Pong(c) PROVE VariablesOK'
  BY <1>10 DEF Pong, Receives, VariablesOK
<1>11. ASSUME NEW c \in Conns, PeerCloses(c) PROVE VariablesOK'
  BY <1>11 DEF PeerCloses, Moves, Receives, VariablesOK, Phases
<1>12. ASSUME NEW c \in Conns, PeerVanishes(c) PROVE VariablesOK'
  BY <1>12 DEF PeerVanishes, Receives, VariablesOK
<1>13. ASSUME NEW c \in Conns, CloseEvent(c) PROVE VariablesOK'
  BY <1>13 DEF CloseEvent, CallPhases, Moves, FailPending, VariablesOK, Phases
<1>14. ASSUME Heartbeat PROVE VariablesOK'
  BY <1>14 DEF Heartbeat, VariablesOK, Phases
<1>15. ASSUME OwnerChanges PROVE VariablesOK'
  BY <1>15 DEF OwnerChanges, VariablesOK
<1>16. ASSUME RevokeWrites PROVE VariablesOK'
  BY <1>16 DEF RevokeWrites, VariablesOK, Rows
<1>17. ASSUME RevokeReturns PROVE VariablesOK'
  BY <1>17 DEF RevokeReturns, VariablesOK, Phases
<1>18. ASSUME NEW s \in Calls, StepStarts(s) PROVE VariablesOK'
  BY <1>18 DEF StepStarts, Goes, VariablesOK, CallPhases
<1>19. ASSUME NEW s \in Calls, StepGranted(s) PROVE VariablesOK'
  BY <1>19 DEF StepGranted, Goes, VariablesOK, CallPhases
<1>20. ASSUME NEW s \in Calls, Deliver(s) PROVE VariablesOK'
  BY <1>20 DEF Deliver, Goes, VariablesOK, CallPhases
<1>21. ASSUME NEW s \in Calls, UnwrapFails(s) PROVE VariablesOK'
  BY <1>21 DEF UnwrapFails, Goes, VariablesOK, CallPhases
<1>22. ASSUME NEW s \in Calls, Invoke(s) PROVE VariablesOK'
  BY <1>22 DEF Invoke, Dispatch, Goes, VariablesOK, CallPhases
<1>23. ASSUME NEW s \in Calls, InvokeRefused(s) PROVE VariablesOK'
  BY <1>23 DEF InvokeRefused, Goes, VariablesOK, CallPhases
<1>24. ASSUME NEW s \in Calls, Delegate(s) PROVE VariablesOK'
  BY <1>24 DEF Delegate, Goes, VariablesOK, CallPhases
<1>25. ASSUME NEW s \in Calls, SignRefused(s) PROVE VariablesOK'
  BY <1>25 DEF SignRefused, Goes, VariablesOK, CallPhases
<1>26. ASSUME NEW s \in Calls, Sign(s) PROVE VariablesOK'
  BY <1>26 DEF Sign, Dispatch, Goes, VariablesOK, CallPhases
<1>27. ASSUME NEW s \in Calls, Timeout(s) PROVE VariablesOK'
  BY <1>27 DEF Timeout, Settles, Goes, VariablesOK, CallPhases
<1>28. ASSUME NEW c \in Conns, NEW s \in Calls, Result(c, s) PROVE VariablesOK'
  BY <1>28 DEF Result, CallPhases, Settles, Goes, VariablesOK
<1>29. CASE UNCHANGED vars
  BY <1>29 DEF vars, VariablesOK
<1> QED
  BY <1>1, <1>2, <1>3, <1>4, <1>5, <1>6, <1>7, <1>8, <1>9, <1>10, <1>11, <1>12, <1>13,
     <1>14, <1>15, <1>16, <1>17, <1>18, <1>19, <1>20, <1>21, <1>22, <1>23, <1>24, <1>25,
     <1>26, <1>27, <1>28, <1>29 DEF Next, Connecting, CallStep

\* What the server does for a call, and what comes back for it.
OfCall(s) ==
    \/ StepStarts(s) \/ Delegate(s) \/ CallStep(s) \/ UnwrapFails(s) \/ InvokeRefused(s)
    \/ \E c \in Conns : Result(c, s)

\* Nothing of it touches the sockets, the row or the revocation.
LEMMA CallsApart ==
    ASSUME NEW s \in Calls, OfCall(s)
    PROVE  UNCHANGED <<row, phase, snap, hello, lost, live, owner, revoke, raced>>
  BY DEF OfCall, CallStep, StepStarts, StepGranted, Deliver, UnwrapFails, Invoke, InvokeRefused,
         Delegate, SignRefused, Sign, Timeout, Result, Dispatch, Settles, sockVars

\* Every step keeps the entry of the live map a socket whose close event is to come.
LEMMA LiveNext ==
    ASSUME TypeOK, [Next]_vars
    PROVE  (live # None => phase[live] \in {"open", "closing"})'
<1> DEFINE Entry == live # None => phase[live] \in {"open", "closing"}
<1> VariablesOK /\ Entry
  BY DEF TypeOK
<1> USE DEF sockVars, callVars
<1> SUFFICES Entry'
  OBVIOUS
<1>1. ASSUME NEW c \in Conns, Admit(c) PROVE Entry'
  BY <1>1 DEF Admit, Moves, VariablesOK
<1>2. ASSUME NEW c \in Conns, Precheck(c) PROVE Entry'
  BY <1>2 DEF Precheck, Moves, VariablesOK
<1>3. ASSUME NEW c \in Conns, RegisterReads(c) PROVE Entry'
  BY <1>3 DEF RegisterReads, Moves, VariablesOK
<1>4. ASSUME NEW c \in Conns, RegisterWrites(c) PROVE Entry'
  BY <1>4 DEF RegisterWrites, Moves, Registered, VariablesOK
<1>5. ASSUME NEW c \in Conns, RefuseRevoked(c) PROVE Entry'
  BY <1>5 DEF RefuseRevoked, Moves, VariablesOK
<1>6. ASSUME NEW c \in Conns, Attach(c) PROVE Entry'
  BY <1>6 DEF Attach, VariablesOK
<1>7. ASSUME NEW c \in Conns, RegisterThrows(c) PROVE Entry'
  BY <1>7 DEF RegisterThrows, Moves, VariablesOK
<1>8. ASSUME NEW c \in Conns, HelloReads(c) PROVE Entry'
  BY <1>8 DEF HelloReads, Receives, VariablesOK
<1>9. ASSUME NEW c \in Conns, HelloWrites(c) PROVE Entry'
  BY <1>9 DEF HelloWrites, Registered, VariablesOK
<1>10. ASSUME NEW c \in Conns, Pong(c) PROVE Entry'
  BY <1>10 DEF Pong, Receives, VariablesOK
<1>11. ASSUME NEW c \in Conns, PeerCloses(c) PROVE Entry'
  BY <1>11 DEF PeerCloses, Moves, Receives, VariablesOK
<1>12. ASSUME NEW c \in Conns, PeerVanishes(c) PROVE Entry'
  BY <1>12 DEF PeerVanishes, Receives, VariablesOK
<1>13. ASSUME NEW c \in Conns, CloseEvent(c) PROVE Entry'
  BY <1>13 DEF CloseEvent, Moves, FailPending, VariablesOK
<1>14. ASSUME Heartbeat PROVE Entry'
  BY <1>14 DEF Heartbeat, VariablesOK
<1>15. ASSUME OwnerChanges PROVE Entry'
  BY <1>15 DEF OwnerChanges, VariablesOK
<1>16. ASSUME RevokeWrites PROVE Entry'
  BY <1>16 DEF RevokeWrites, VariablesOK
<1>17. ASSUME RevokeReturns PROVE Entry'
  BY <1>17 DEF RevokeReturns, VariablesOK
<1>18. ASSUME NEW s \in Calls, OfCall(s) PROVE Entry'
  BY <1>18, CallsApart DEF VariablesOK
<1>19. CASE UNCHANGED vars
  BY <1>19 DEF vars, VariablesOK
<1> QED
  BY <1>1, <1>2, <1>3, <1>4, <1>5, <1>6, <1>7, <1>8, <1>9, <1>10, <1>11, <1>12, <1>13,
     <1>14, <1>15, <1>16, <1>17, <1>18, <1>19 DEF Next, Connecting, CallStep, OfCall

\* Type correctness of the bridge: TypeOK is inductive.
THEOREM TypeCorrect == Spec => []TypeOK
<1>1. TypeOK /\ [Next]_vars => TypeOK'
  BY VariablesNext, LiveNext DEF TypeOK
<1> QED
  BY TypeInit, <1>1, PTL DEF Spec

-----------------------------------------------------------------------------
(* The sockets and the calls that wait for them                            *)

\* What the close events rely on: one open socket, and it is the one in the
\* map; a call waits only for a socket whose close event is to come.
SocketInv == TypeOK /\ OpenIsLive /\ PendingHasSocket

\* Every step keeps the open sockets and the waiting calls accounted for.
LEMMA SocketsNext ==
    ASSUME SocketInv, [Next]_vars
    PROVE  OpenIsLive' /\ PendingHasSocket'
<1> DEFINE Goal == OpenIsLive /\ PendingHasSocket
<1> VariablesOK /\ (live # None => phase[live] \in {"open", "closing"}) /\ Goal
  BY DEF SocketInv, TypeOK
<1> USE DEF sockVars, callVars
<1> SUFFICES Goal'
  OBVIOUS
<1>1. ASSUME NEW c \in Conns, Admit(c) PROVE Goal'
  BY <1>1 DEF Admit, Moves, VariablesOK, OpenIsLive, PendingHasSocket
<1>2. ASSUME NEW c \in Conns, Precheck(c) PROVE Goal'
  BY <1>2 DEF Precheck, Moves, VariablesOK, OpenIsLive, PendingHasSocket
<1>3. ASSUME NEW c \in Conns, RegisterReads(c) PROVE Goal'
  BY <1>3 DEF RegisterReads, Moves, VariablesOK, OpenIsLive, PendingHasSocket
<1>4. ASSUME NEW c \in Conns, RegisterWrites(c) PROVE Goal'
  BY <1>4 DEF RegisterWrites, Moves, Registered, VariablesOK, OpenIsLive, PendingHasSocket
<1>5. ASSUME NEW c \in Conns, RefuseRevoked(c) PROVE Goal'
  BY <1>5 DEF RefuseRevoked, Moves, VariablesOK, OpenIsLive, PendingHasSocket
<1>6. ASSUME NEW c \in Conns, Attach(c) PROVE Goal'
  BY <1>6 DEF Attach, VariablesOK, OpenIsLive, PendingHasSocket
<1>7. ASSUME NEW c \in Conns, RegisterThrows(c) PROVE Goal'
  BY <1>7 DEF RegisterThrows, Moves, VariablesOK, OpenIsLive, PendingHasSocket
<1>8. ASSUME NEW c \in Conns, HelloReads(c) PROVE Goal'
  BY <1>8 DEF HelloReads, Receives, VariablesOK, OpenIsLive, PendingHasSocket
<1>9. ASSUME NEW c \in Conns, HelloWrites(c) PROVE Goal'
  BY <1>9 DEF HelloWrites, Registered, VariablesOK, OpenIsLive, PendingHasSocket
<1>10. ASSUME NEW c \in Conns, Pong(c) PROVE Goal'
  BY <1>10 DEF Pong, Receives, VariablesOK, OpenIsLive, PendingHasSocket
<1>11. ASSUME NEW c \in Conns, PeerCloses(c) PROVE Goal'
  BY <1>11 DEF PeerCloses, Moves, Receives, VariablesOK, OpenIsLive, PendingHasSocket
<1>12. ASSUME NEW c \in Conns, PeerVanishes(c) PROVE Goal'
  BY <1>12 DEF PeerVanishes, Receives, VariablesOK, OpenIsLive, PendingHasSocket
<1>13. ASSUME NEW c \in Conns, CloseEvent(c) PROVE Goal'
  BY <1>13 DEF CloseEvent, Moves, FailPending, VariablesOK, OpenIsLive, PendingHasSocket
<1>14. ASSUME Heartbeat PROVE Goal'
  BY <1>14 DEF Heartbeat, VariablesOK, OpenIsLive, PendingHasSocket
<1>15. ASSUME OwnerChanges PROVE Goal'
  BY <1>15 DEF OwnerChanges, VariablesOK, OpenIsLive, PendingHasSocket
<1>16. ASSUME RevokeWrites PROVE Goal'
  BY <1>16 DEF RevokeWrites, VariablesOK, OpenIsLive, PendingHasSocket
<1>17. ASSUME RevokeReturns PROVE Goal'
  BY <1>17 DEF RevokeReturns, VariablesOK, OpenIsLive, PendingHasSocket
<1>18. ASSUME NEW s \in Calls, StepStarts(s) PROVE Goal'
  BY <1>18 DEF StepStarts, Goes, VariablesOK, OpenIsLive, PendingHasSocket
<1>19. ASSUME NEW s \in Calls, StepGranted(s) PROVE Goal'
  BY <1>19 DEF StepGranted, Goes, VariablesOK, OpenIsLive, PendingHasSocket
<1>20. ASSUME NEW s \in Calls, Deliver(s) PROVE Goal'
  BY <1>20 DEF Deliver, Goes, VariablesOK, OpenIsLive, PendingHasSocket
<1>21. ASSUME NEW s \in Calls, UnwrapFails(s) PROVE Goal'
  BY <1>21 DEF UnwrapFails, Goes, VariablesOK, OpenIsLive, PendingHasSocket
<1>22. ASSUME NEW s \in Calls, Invoke(s) PROVE Goal'
  BY <1>22 DEF Invoke, Dispatch, Goes, VariablesOK, OpenIsLive, PendingHasSocket
<1>23. ASSUME NEW s \in Calls, InvokeRefused(s) PROVE Goal'
  BY <1>23 DEF InvokeRefused, Goes, VariablesOK, OpenIsLive, PendingHasSocket
<1>24. ASSUME NEW s \in Calls, Delegate(s) PROVE Goal'
  BY <1>24 DEF Delegate, Goes, VariablesOK, OpenIsLive, PendingHasSocket
<1>25. ASSUME NEW s \in Calls, SignRefused(s) PROVE Goal'
  BY <1>25 DEF SignRefused, Goes, VariablesOK, OpenIsLive, PendingHasSocket
<1>26. ASSUME NEW s \in Calls, Sign(s) PROVE Goal'
  BY <1>26 DEF Sign, Dispatch, Goes, VariablesOK, OpenIsLive, PendingHasSocket
<1>27. ASSUME NEW s \in Calls, Timeout(s) PROVE Goal'
  BY <1>27 DEF Timeout, Settles, Goes, VariablesOK, OpenIsLive, PendingHasSocket
<1>28. ASSUME NEW c \in Conns, NEW s \in Calls, Result(c, s) PROVE Goal'
  BY <1>28 DEF Result, Settles, Goes, VariablesOK, OpenIsLive, PendingHasSocket
<1>29. CASE UNCHANGED vars
  BY <1>29 DEF vars, VariablesOK, OpenIsLive, PendingHasSocket
<1> QED
  BY <1>1, <1>2, <1>3, <1>4, <1>5, <1>6, <1>7, <1>8, <1>9, <1>10, <1>11, <1>12, <1>13,
     <1>14, <1>15, <1>16, <1>17, <1>18, <1>19, <1>20, <1>21, <1>22, <1>23, <1>24, <1>25,
     <1>26, <1>27, <1>28, <1>29 DEF Next, Connecting, CallStep

\* Both are invariant, with the types.
LEMMA SocketsHold == Spec => []SocketInv
<1>1. Init => SocketInv
  <2>1. Init => OpenIsLive /\ PendingHasSocket
    BY DEF Init, OpenIsLive, PendingHasSocket
  <2> QED
    BY <2>1, TypeInit DEF SocketInv
<1>2. SocketInv /\ [Next]_vars => SocketInv'
  BY VariablesNext, LiveNext, SocketsNext DEF SocketInv, TypeOK
<1> QED
  BY <1>1, <1>2, PTL DEF Spec

\* A redial, a revocation and the close events, in whatever order, leave no
\* socket open that is not in the live map.
THEOREM OneOpenSocket == Spec => []OpenIsLive
<1>1. SocketInv => OpenIsLive
  BY DEF SocketInv
<1> QED
  BY <1>1, SocketsHold, PTL

\* However many calls are in flight and sockets replace one another, no call
\* waits for a socket whose close event has been and gone.
THEOREM WaitingIsReachable == Spec => []PendingHasSocket
<1>1. SocketInv => PendingHasSocket
  BY DEF SocketInv
<1> QED
  BY <1>1, SocketsHold, PTL

-----------------------------------------------------------------------------
(* The revocation                                                          *)

\* Once the tombstone is written and no registration overlapped it, whoever
\* holds a copy of the row holds the tombstone; once the revocation has returned
\* and no admission overlapped it, nobody is let in with an older copy.
RevokeInv ==
    /\ revoke # "idle" /\ raced = "no" => row = "revoked" /\ ~Registering
    /\ revoke = "done" /\ raced = "no" => live = None /\ ~Entering

\* Every step keeps the tombstone out of reach of older copies.
LEMMA RevokeNext == ASSUME TypeOK, RevokeInv, [Next]_vars PROVE RevokeInv'
<1> VariablesOK
  BY DEF TypeOK
<1> USE DEF sockVars, callVars
<1>1. ASSUME NEW c \in Conns, Admit(c) PROVE RevokeInv'
  BY <1>1 DEF Admit, Moves, VariablesOK, RevokeInv, Registering, Entering
<1>2. ASSUME NEW c \in Conns, Precheck(c) PROVE RevokeInv'
  BY <1>2 DEF Precheck, Moves, VariablesOK, RevokeInv, Registering, Entering
<1>3. ASSUME NEW c \in Conns, RegisterReads(c) PROVE RevokeInv'
  BY <1>3 DEF RegisterReads, Moves, VariablesOK, RevokeInv, Registering, Entering
<1>4. ASSUME NEW c \in Conns, RegisterWrites(c) PROVE RevokeInv'
  BY <1>4 DEF RegisterWrites, Moves, Registered, VariablesOK, RevokeInv, Registering, Entering
<1>5. ASSUME NEW c \in Conns, RefuseRevoked(c) PROVE RevokeInv'
  BY <1>5 DEF RefuseRevoked, Moves, VariablesOK, RevokeInv, Registering, Entering, Registered
<1>6. ASSUME NEW c \in Conns, Attach(c) PROVE RevokeInv'
  BY <1>6 DEF Attach, VariablesOK, RevokeInv, Registering, Entering, Registered
<1>7. ASSUME NEW c \in Conns, RegisterThrows(c) PROVE RevokeInv'
  BY <1>7 DEF RegisterThrows, Moves, VariablesOK, RevokeInv, Registering, Entering
<1>8. ASSUME NEW c \in Conns, HelloReads(c) PROVE RevokeInv'
  BY <1>8 DEF HelloReads, Receives, VariablesOK, RevokeInv, Registering, Entering
<1>9. ASSUME NEW c \in Conns, HelloWrites(c) PROVE RevokeInv'
  BY <1>9 DEF HelloWrites, Registered, VariablesOK, RevokeInv, Registering, Entering, Rows
<1>10. ASSUME NEW c \in Conns, Pong(c) PROVE RevokeInv'
  BY <1>10 DEF Pong, Receives, VariablesOK, RevokeInv, Registering, Entering
<1>11. ASSUME NEW c \in Conns, PeerCloses(c) PROVE RevokeInv'
  BY <1>11 DEF PeerCloses, Moves, Receives, VariablesOK, RevokeInv, Registering, Entering
<1>12. ASSUME NEW c \in Conns, PeerVanishes(c) PROVE RevokeInv'
  BY <1>12 DEF PeerVanishes, Receives, VariablesOK, RevokeInv, Registering, Entering
<1>13. ASSUME NEW c \in Conns, CloseEvent(c) PROVE RevokeInv'
  BY <1>13 DEF CloseEvent, Moves, FailPending, VariablesOK, RevokeInv, Registering, Entering
<1>14. ASSUME Heartbeat PROVE RevokeInv'
  BY <1>14 DEF Heartbeat, VariablesOK, RevokeInv, Registering, Entering
<1>15. ASSUME OwnerChanges PROVE RevokeInv'
  BY <1>15 DEF OwnerChanges, VariablesOK, RevokeInv, Registering, Entering
<1>16. ASSUME RevokeWrites PROVE RevokeInv'
  BY <1>16 DEF RevokeWrites, VariablesOK, RevokeInv, Registering, Entering
<1>17. ASSUME RevokeReturns PROVE RevokeInv'
  BY <1>17 DEF RevokeReturns, VariablesOK, RevokeInv, Registering, Entering
<1>18. ASSUME NEW s \in Calls, OfCall(s) PROVE RevokeInv'
  BY <1>18, CallsApart DEF VariablesOK, RevokeInv, Registering, Entering
<1>19. CASE UNCHANGED vars
  BY <1>19 DEF vars, VariablesOK, RevokeInv, Registering, Entering
<1> QED
  BY <1>1, <1>2, <1>3, <1>4, <1>5, <1>6, <1>7, <1>8, <1>9, <1>10, <1>11, <1>12, <1>13,
     <1>14, <1>15, <1>16, <1>17, <1>18, <1>19 DEF Next, Connecting, CallStep, OfCall

\* A revocation that has returned and was overlapped by no registration and no
\* admission is final, whatever connects or advertises afterwards.
THEOREM RevocationIsFinal == Spec => []RevokeSticks
<1>1. Init => RevokeInv
  BY DEF Init, RevokeInv
<1>2. RevokeInv => RevokeSticks
  BY DEF RevokeInv, RevokeSticks
<1> QED
  BY <1>1, <1>2, RevokeNext, TypeCorrect, PTL DEF Spec
=============================================================================

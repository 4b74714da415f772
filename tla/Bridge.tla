-------------------------------- MODULE Bridge ---------------------------------
(***************************************************************************)
(* The bridge to a user's machine (api/src/bridge), for one pairing: the   *)
(* connects and the revocation that race for its stored row, the sockets   *)
(* that replace one another (registry.ts, server.ts), the heartbeat, and   *)
(* the calls the server has in flight on the machine: daemon steps         *)
(* (daemon-step-seam.ts, secret-delivery.ts, tool-invocation.ts) and       *)
(* delegations (delegation.ts).                                            *)
(*                                                                         *)
(* A connection is an admitted token, spent by one connect, and the socket *)
(* it may become.  The event loop runs one handler up to its next await,   *)
(* which is one action here.                                               *)
(***************************************************************************)
EXTENDS Naturals

CONSTANTS Conns,   \* bound: connections of this pairing in one behaviour
          Calls,   \* bound: calls on this pairing in one behaviour
          None     \* no connection

ASSUME BridgeAssumption == None \notin Conns

VARIABLES row,      \* the pairing's row in bridge_pairings
          phase,    \* how far each connection is
          snap,     \* what its registerPairing read
          hello,    \* its advertisement, and what that registerPairing read
          lost,     \* connections whose machine vanished without a close
          live,     \* the live-socket map's entry
          alive,    \* the heartbeat state of that entry
          owner,    \* the owner's activation
          revoke,   \* revokePairing
          armed,    \* whether the ingress filter holds delivered values
          call,     \* how far each call is
          on,       \* the connection its frame was sent on
          raced     \* history: a registration or an admission overlapped the revocation

sockVars == <<phase, lost, live, alive>>
callVars == <<armed, call, on>>
vars == <<row, phase, snap, hello, lost, live, alive, owner, revoke, armed, call, on, raced>>

Rows   == {"absent", "paired", "revoked"}
Phases == {"new", "admitted", "checked", "read", "written",     \* onUpgrade
           "open", "closing", "ended"}
\* "failed": refused, unreachable, disconnected or timed out.
CallPhases == {"idle", "grant", "unwrap", "invoke", "signing", "pending",
               "answered", "failed"}

\* ws.on('message') fires until the close event, even while closing.
Receives(c) == phase[c] \in {"open", "closing"} /\ c \notin lost

Init ==
    /\ row = "absent"
    /\ phase = [c \in Conns |-> "new"]
    /\ snap = [c \in Conns |-> "absent"]
    /\ hello = [c \in Conns |-> "none"]
    /\ lost = {}
    /\ live = None
    /\ alive = "no"
    /\ owner = "active"
    /\ revoke = "idle"
    /\ armed = "no"
    /\ call = [s \in Calls |-> "idle"]
    /\ on = [s \in Calls |-> None]
    /\ raced = "no"

-----------------------------------------------------------------------------
(* Connecting                                                              *)

Moves(c, from, to) == phase[c] = from /\ phase' = [phase EXCEPT ![c] = to]

\* The token, its nonce and the owner's activation; then resolveUserOrg.
Admit(c) ==
    /\ Moves(c, "new", IF owner = "active" THEN "admitted" ELSE "ended")
    /\ UNCHANGED <<row, snap, hello, lost, live, alive, owner, revoke, callVars, raced>>

\* A pairing already revoked is refused before anything is written.
Precheck(c) ==
    /\ Moves(c, "admitted", IF row = "revoked" THEN "ended" ELSE "checked")
    /\ UNCHANGED <<row, snap, hello, lost, live, alive, owner, revoke, callVars, raced>>

\* registerPairing reads the row ...
RegisterReads(c) ==
    /\ Moves(c, "checked", "read")
    /\ snap' = [snap EXCEPT ![c] = row]
    /\ UNCHANGED <<row, hello, lost, live, alive, owner, revoke, callVars, raced>>

\* Mutant: a registration starts from a clean row.
RegisteredAfresh(read) == "paired"

\* ... and puts it back, the tombstone it read included, whatever is there now.
Registered(read) == IF read = "revoked" THEN "revoked" ELSE "paired"

RegisterWrites(c) ==
    /\ Moves(c, "read", "written")
    /\ row' = Registered(snap[c])
    /\ UNCHANGED <<snap, hello, lost, live, alive, owner, revoke, callVars, raced>>

\* The store throws.
RegisterThrows(c) ==
    /\ Moves(c, "read", "ended")
    /\ snap' = [snap EXCEPT ![c] = "absent"]
    /\ UNCHANGED <<row, hello, lost, live, alive, owner, revoke, callVars, raced>>

\* A revocation that registerPairing saw refuses the connect after all.
RefuseRevoked(c) ==
    /\ Registered(snap[c]) = "revoked"
    /\ Moves(c, "written", "ended")
    /\ snap' = [snap EXCEPT ![c] = "absent"]
    /\ UNCHANGED <<row, hello, lost, live, alive, owner, revoke, callVars, raced>>

\* Mutant: the new socket takes the entry and leaves the old one open.
AttachKeepingStale(c) ==
    /\ Registered(snap[c]) # "revoked"
    /\ Moves(c, "written", "open")
    /\ live' = c
    /\ alive' = "yes"
    /\ snap' = [snap EXCEPT ![c] = "absent"]
    /\ UNCHANGED <<row, hello, lost, owner, revoke, callVars, raced>>

\* onConnection: attachLiveConnection closes the socket it replaces.
Attach(c) ==
    /\ phase[c] = "written"
    /\ Registered(snap[c]) # "revoked"
    /\ phase' = [d \in Conns |-> IF d = c THEN "open"
                                ELSE IF d = live /\ phase[d] = "open" THEN "closing"
                                ELSE phase[d]]
    /\ live' = c
    /\ alive' = "yes"
    /\ snap' = [snap EXCEPT ![c] = "absent"]
    /\ UNCHANGED <<row, hello, lost, owner, revoke, callVars, raced>>

-----------------------------------------------------------------------------
(* The open socket                                                         *)

\* A hello frame of the live socket registers the pairing again, capabilities
\* and all; one of a retired socket is dropped.
HelloReads(c) ==
    /\ Receives(c) /\ live = c
    /\ hello[c] = "none"                                    \* bound: one per connection
    /\ hello' = [hello EXCEPT ![c] = row]
    /\ UNCHANGED <<row, snap, sockVars, owner, revoke, callVars, raced>>

HelloWrites(c) ==
    /\ hello[c] \in Rows
    /\ row' = Registered(hello[c])
    /\ hello' = [hello EXCEPT ![c] = "done"]
    /\ UNCHANGED <<snap, sockVars, owner, revoke, callVars, raced>>

\* The pong handler does not ask which socket is live.
Pong(c) ==
    /\ Receives(c)
    /\ live # None
    /\ alive' = "yes"
    /\ UNCHANGED <<row, snap, hello, phase, lost, live, owner, revoke, callVars, raced>>

PeerCloses(c) ==
    /\ Receives(c)
    /\ Moves(c, "open", "closing")
    /\ UNCHANGED <<row, snap, hello, lost, live, alive, owner, revoke, callVars, raced>>

PeerVanishes(c) ==
    /\ Receives(c)
    /\ lost' = lost \cup {c}
    /\ UNCHANGED <<row, snap, hello, phase, live, alive, owner, revoke, callVars, raced>>

\* failDelegationsForPairing, failInvocationsForPairing.
FailPending ==
    /\ call' = [s \in Calls |-> IF call[s] = "pending" THEN "failed" ELSE call[s]]
    /\ on' = [s \in Calls |-> None]

\* Mutant: a retired socket's close event cleans up nothing.
CloseEventGuarded(c) ==
    /\ Moves(c, "closing", "ended")
    /\ IF live = c
       THEN /\ live' = None
            /\ armed' = "no"
            /\ FailPending
       ELSE UNCHANGED <<live, callVars>>
    /\ lost' = lost \ {c}
    /\ UNCHANGED <<row, snap, hello, alive, owner, revoke, raced>>

\* Mutant: the close event leaves the entry to the heartbeat.
CloseEventKeepsEntry(c) ==
    /\ Moves(c, "closing", "ended")
    /\ armed' = "no"
    /\ FailPending
    /\ lost' = lost \ {c}
    /\ UNCHANGED <<row, snap, hello, live, alive, owner, revoke, raced>>

\* The close event removes the entry only if it is this socket's; the filter
\* and the calls in flight are the pairing's, whichever socket they were sent on.
CloseEvent(c) ==
    /\ Moves(c, "closing", "ended")
    /\ live' = IF live = c THEN None ELSE live
    /\ armed' = "no"
    /\ FailPending
    /\ lost' = lost \ {c}
    /\ UNCHANGED <<row, snap, hello, alive, owner, revoke, raced>>

\* Mutant: admission is judged at the upgrade only.
HeartbeatWithoutAdmission ==
    /\ live # None
    /\ phase' = [phase EXCEPT ![live] = IF @ = "open" /\ alive = "no" THEN "closing" ELSE @]
    /\ alive' = "no"
    /\ UNCHANGED <<row, snap, hello, lost, live, owner, revoke, callVars, raced>>

\* One tick: sweepAdmission closes the socket of an owner who may no longer
\* connect; a socket whose last ping went unanswered is terminated, any other
\* is marked stale and pinged.
Heartbeat ==
    /\ live # None
    /\ phase' = [phase EXCEPT ![live] =
          IF @ = "open" /\ (owner # "active" \/ alive = "no") THEN "closing" ELSE @]
    /\ alive' = "no"
    /\ UNCHANGED <<row, snap, hello, lost, live, owner, revoke, callVars, raced>>

\* Deactivation, the billing lock and the token epoch.
OwnerChanges ==
    /\ owner' = IF owner = "active" THEN "barred" ELSE "active"
    /\ UNCHANGED <<row, snap, hello, sockVars, revoke, callVars, raced>>

-----------------------------------------------------------------------------
(* The revocation                                                          *)

\* A registration that has read the row and not written it yet, and a connect
\* that has registered and not been let in yet.
Registering == \E c \in Conns : \/ phase[c] = "read" /\ snap[c] # "revoked"
                                \/ hello[c] \in {"absent", "paired"}
Entering    == \E c \in Conns : phase[c] = "written" /\ snap[c] # "revoked"

\* revokePairing stamps the row ...
RevokeWrites ==
    /\ revoke = "idle"                                      \* bound: one revocation
    /\ row # "absent"
    /\ row' = "revoked"
    /\ revoke' = "wrote"
    /\ raced' = IF Registering THEN "yes" ELSE raced
    /\ UNCHANGED <<snap, hello, sockVars, owner, callVars>>

\* ... and when that write has returned it takes the socket down.
RevokeReturns ==
    /\ revoke = "wrote"
    /\ revoke' = "done"
    /\ live' = None
    /\ phase' = [c \in Conns |-> IF c = live /\ phase[c] = "open" THEN "closing" ELSE phase[c]]
    /\ raced' = IF Entering THEN "yes" ELSE raced
    /\ UNCHANGED <<row, snap, hello, lost, alive, owner, callVars>>

-----------------------------------------------------------------------------
(* Calls on the machine                                                    *)

Goes(s, from, to) == call[s] = from /\ call' = [call EXCEPT ![s] = to]

\* runStep asks for the grant before anything else.
StepStarts(s) ==
    /\ Goes(s, "idle", "grant")
    /\ UNCHANGED <<row, snap, hello, sockVars, owner, revoke, armed, on, raced>>

\* A step with credentials has a delivery authorised and redeemed at once (no
\* await lies between the two) and waits for the vault to unwrap them.
StepGranted(s) ==
    /\ \E next \in {"failed", "unwrap", "invoke"} : Goes(s, "grant", next)
    /\ UNCHANGED <<row, snap, hello, sockVars, owner, revoke, armed, on, raced>>

\* deliverSecrets: the filter is armed before the value is sent, and a step
\* whose delivery was not sent does not run.
Deliver(s) ==
    /\ Goes(s, "unwrap", IF live = None THEN "failed" ELSE "invoke")
    /\ armed' = "yes"
    /\ UNCHANGED <<row, snap, hello, sockVars, owner, revoke, on, raced>>

UnwrapFails(s) ==
    /\ Goes(s, "unwrap", "failed")
    /\ UNCHANGED <<row, snap, hello, sockVars, owner, revoke, armed, on, raced>>

\* Pending and sent, or settled at once when there is no socket.  A socket that
\* is closing takes the frame and loses it.
Dispatch(s, from) ==
    /\ Goes(s, from, IF live = None THEN "failed" ELSE "pending")
    /\ on' = [on EXCEPT ![s] = live]
    /\ UNCHANGED <<row, snap, hello, sockVars, owner, revoke, armed, raced>>

\* invokeTool reads the grant again.
Invoke(s) == Dispatch(s, "invoke")

InvokeRefused(s) ==
    /\ Goes(s, "invoke", "failed")
    /\ UNCHANGED <<row, snap, hello, sockVars, owner, revoke, armed, on, raced>>

\* delegateToLocal: a live connection and an active owner, before the await.
Delegate(s) ==
    /\ Goes(s, "idle", IF live = None \/ owner # "active" THEN "failed" ELSE "signing")
    /\ UNCHANGED <<row, snap, hello, sockVars, owner, revoke, armed, on, raced>>

\* A revoked pairing has no signing secret; the task goes to whichever socket
\* is live by now.
SignRefused(s) ==
    /\ row = "revoked"
    /\ Goes(s, "signing", "failed")
    /\ UNCHANGED <<row, snap, hello, sockVars, owner, revoke, armed, on, raced>>

Sign(s) == row # "revoked" /\ Dispatch(s, "signing")

\* settle: once, and a late frame or timer finds nothing pending.
Settles(s, as) ==
    /\ Goes(s, "pending", as)
    /\ on' = [on EXCEPT ![s] = None]
    /\ UNCHANGED <<row, snap, hello, sockVars, owner, revoke, armed, raced>>

\* A result frame counts when it comes from the live socket; the machine may
\* have redialed since it was asked.
Result(c, s) ==
    /\ Receives(c) /\ live = c
    /\ on[s] \notin lost
    /\ Settles(s, "answered")

\* Mutant: the timer counts on the close event while there is a socket.
TimeoutOffline(s) ==
    /\ live = None
    /\ Settles(s, "failed")

Timeout(s) == Settles(s, "failed")

-----------------------------------------------------------------------------
Connecting(c) == \/ Admit(c) \/ Precheck(c) \/ RegisterReads(c) \/ RegisterWrites(c)
                 \/ RefuseRevoked(c) \/ Attach(c)

CallStep(s) == \/ StepGranted(s) \/ Deliver(s) \/ Invoke(s)
               \/ SignRefused(s) \/ Sign(s) \/ Timeout(s)

Next ==
    \/ \E c \in Conns :
          \/ Connecting(c) \/ RegisterThrows(c) \/ HelloReads(c) \/ HelloWrites(c)
          \/ Pong(c) \/ PeerCloses(c) \/ PeerVanishes(c) \/ CloseEvent(c)
    \/ Heartbeat \/ OwnerChanges \/ RevokeWrites \/ RevokeReturns
    \/ \E s \in Calls :
          \/ StepStarts(s) \/ Delegate(s) \/ CallStep(s) \/ UnwrapFails(s) \/ InvokeRefused(s)
    \/ \E c \in Conns, s \in Calls : Result(c, s)

Spec == Init /\ [][Next]_vars

\* The store and the vault answer, the interval and the timers fire, and a
\* socket that is closing closes.  Nothing obliges a machine, an owner or a
\* caller to act.
Fairness ==
    /\ WF_vars(Heartbeat)
    /\ WF_vars(RevokeReturns)
    /\ \A c \in Conns : WF_vars(Connecting(c)) /\ WF_vars(HelloWrites(c)) /\ WF_vars(CloseEvent(c))
    /\ \A s \in Calls : WF_vars(CallStep(s))

FairSpec == Spec /\ Fairness

-----------------------------------------------------------------------------
(* Properties                                                              *)

VariablesOK ==
    /\ row \in Rows
    /\ phase \in [Conns -> Phases]
    /\ snap \in [Conns -> Rows]
    /\ hello \in [Conns -> Rows \cup {"none", "done"}]
    /\ lost \subseteq Conns
    /\ live \in Conns \cup {None}
    /\ alive \in {"yes", "no"}
    /\ owner \in {"active", "barred"}
    /\ revoke \in {"idle", "wrote", "done"}
    /\ armed \in {"yes", "no"}
    /\ call \in [Calls -> CallPhases]
    /\ on \in [Calls -> Conns \cup {None}]
    /\ raced \in {"yes", "no"}

\* Every variable holds a value the program could hold, and the entry of the
\* live map is a socket that has been let in and whose close event is to come.
TypeOK ==
    /\ VariablesOK
    /\ live # None => phase[live] \in {"open", "closing"}

\* A socket that nobody has begun to close is the one in the live map: a redial,
\* a revocation and a close event leave no socket open behind the map's back,
\* where neither the heartbeat nor the next revocation would find it.
OpenIsLive == \A c \in Conns : phase[c] = "open" => live = c

\* A call that is waiting waits for a socket whose close event is still to come
\* (server.ts:272-276, "or an automation step would hang on a machine that is
\* already gone"): no interleaving of a send, a redial and two closes leaves a
\* call behind that only its timer would end.
PendingHasSocket ==
    \A s \in Calls : call[s] = "pending" =>
        on[s] # None /\ phase[on[s]] \in {"open", "closing"}

\* A revocation that has returned, and that no registration or admission
\* overlapped, is final: the row keeps its tombstone and the pairing has no
\* socket, whatever connects, advertises or redials later (registry.ts:140-142, "a
\* revoked pairingId stays revoked forever").
RevokeSticks ==
    revoke = "done" /\ raced = "no" => row = "revoked" /\ live = None

\* Every call that has been made is settled (tool-invocation.ts:12-14, "a step
\* never hangs forever"), whatever the machine and its sockets do.
CallsSettle == \A s \in Calls : call[s] # "idle" ~> call[s] \in {"answered", "failed"}

\* The heartbeat gets rid of what should not be live: a machine that vanished
\* without closing, even while pongs of the socket it replaced still arrive, and
\* the socket of an owner who may no longer connect, also of one whose connect
\* passed the admission check a moment before (server.ts:457-467).
DeadIsDropped ==
    /\ \A c \in Conns : live = c /\ c \in lost ~> live # c
    /\ owner = "barred" ~> owner = "active" \/ live = None
=============================================================================

------------------------------ MODULE Delivery ------------------------------
(***************************************************************************)
(* The durable event queue (api/src/events/queue.ts) and the pipeline that *)
(* drains it (api/src/events/delivery.ts), with the processes that run the *)
(* pipeline: boot, recovery, shutdown and crash (api/src/server.ts).       *)
(*                                                                         *)
(* An action is one await-to-await stretch of the JavaScript: everything   *)
(* between two awaits runs without interleaving, everything else may       *)
(* interleave.  Store.update (a compare-and-swap loop) is one atomic step  *)
(* on a row.  The clock is not a number here: what the code asks of it is  *)
(* whether a row's nextAttemptAt has passed ("due") and whether its        *)
(* claimedAt is STUCK_DISPATCHING_MS old ("old"), so those two answers     *)
(* are the state, and they change on their own.                            *)
(***************************************************************************)
EXTENDS Naturals, FiniteSets

CONSTANTS Procs,         \* API processes sharing the database
          Events,        \* (trigger, dedup key) pairs that may be enqueued
          MaxInFlight,   \* MAX_IN_FLIGHT
          MaxRetries,    \* RETRY_SCHEDULE_MS.length
          MaxBoots       \* bound: process starts in one behaviour

ASSUME DeliveryAssumption ==
    /\ MaxInFlight \in Nat \ {0}
    /\ MaxRetries \in Nat
    /\ MaxBoots \in Nat

VARIABLES rows,      \* the event_queue collection: one row per event
          triggers,  \* the trigger row each event names
          life,      \* where each process is between boot and exit
          recovery,  \* rows a booting process has read as stuck and not yet flipped
          drain,     \* the drain loop of each process ("idle" = not draining)
          scan,      \* pending rows the loop's claimNext has read and not yet tried
          owed,      \* an accepted ingress that has not called wakeDelivery yet
          awaited,   \* deliveries stopDelivery is waiting for
          flights,   \* dispatchOne calls in progress
          boots,     \* number of process starts so far
          oks,       \* history: how often the target of an event answered ok
          losses     \* history: dispatches that vanished before they settled

store   == <<rows, triggers>>
loop    == <<drain, scan>>
history == <<oks, losses>>
vars    == <<rows, triggers, life, recovery, drain, scan, owed, awaited,
             flights, boots, oks, losses>>

-----------------------------------------------------------------------------
(* Types                                                                   *)

Statuses == {"absent", "pending", "dispatching", "delivered", "dead"}
Ended    == {"delivered", "dead"}

\* Only the claim of a dispatching row is asked its age, so every other row is young.
Row == [status : Statuses, attempts : Nat, next : {"due", "later"}, age : {"young", "old"}]
NoRow == [status |-> "absent", attempts |-> 0, next |-> "due", age |-> "young"]

\* "unbound": the trigger row has no automationId / no artifact target.
TriggerStates == {"bound", "unbound", "gone"}

\* "stalled": recovery threw, so the pipeline runs without its interval.
Lives  == {"down", "booting", "recovering", "up", "stalled", "stopping", "stopped"}
\* "refuse": the dead-letter write of an unbound trigger, inside the try block.
Phases == {"load", "run", "refuse", "failed", "settle"}

\* A dispatchOne call; "verdict" is what its last write will record.
Flight == [proc : Procs, ev : Events, attempt : Nat, phase : Phases,
           verdict : {"none", "delivered", "dead", "retry"}]
FlightKey == [ev : Events, attempt : Nat]

Running(p) == life[p] \in {"booting", "recovering", "up", "stalled"}   \* state.running
FlightsOf(p) == {f \in flights : f.proc = p}
KeyOf(f) == [ev |-> f.ev, attempt |-> f.attempt]
Deliveries(p) == {KeyOf(f) : f \in FlightsOf(p)}

\* Mutant: the loop is entered without counting the slots in use.
DrainEntryUncounted(p, alive, inFlight) ==
    IF alive /\ drain[p] = "idle" THEN "find" ELSE drain[p]

\* The entry of drain(): one loop at a time, and only while a slot is free.
DrainEntry(p, alive, inFlight) ==
    IF alive /\ drain[p] = "idle" /\ Cardinality(inFlight) < MaxInFlight
    THEN "find" ELSE drain[p]

-----------------------------------------------------------------------------
Init ==
    /\ rows = [e \in Events |-> NoRow]
    /\ triggers \in [Events -> {"bound", "unbound"}]
    /\ life = [p \in Procs |-> "down"]
    /\ recovery = [p \in Procs |-> {}]
    /\ drain = [p \in Procs |-> "idle"]
    /\ scan = [p \in Procs |-> {}]
    /\ owed = [p \in Procs |-> FALSE]
    /\ awaited = [p \in Procs |-> {}]
    /\ flights = {}
    /\ boots = 0
    /\ oks = [e \in Events |-> 0]
    /\ losses = [e \in Events |-> 0]

-----------------------------------------------------------------------------
(* Ingress                                                                 *)

\* Mutant: the row is put rather than inserted, so a duplicate is a new event.
EnqueueUpserts(p, e) ==
    /\ life[p] # "down"
    /\ rows' = [rows EXCEPT ![e] = [NoRow EXCEPT !.status = "pending"]]
    /\ owed' = [owed EXCEPT ![p] = TRUE]
    /\ UNCHANGED <<triggers, life, recovery, loop, awaited, flights, boots, history>>

\* handleIngress up to its audit write.  The deterministic _id makes a second
\* webhook with the same dedup key a duplicate: nothing is written for it.  The
\* trigger row was read earlier in the request and may be gone by now.
Enqueue(p, e) ==
    /\ life[p] # "down"
    /\ rows[e].status = "absent"
    /\ rows' = [rows EXCEPT ![e] = [NoRow EXCEPT !.status = "pending"]]
    /\ owed' = [owed EXCEPT ![p] = TRUE]
    /\ UNCHANGED <<triggers, life, recovery, loop, awaited, flights, boots, history>>

\* wakeDelivery after the audit row: a no-op when stopped or already draining.
Wake(p) ==
    /\ owed[p]
    /\ owed' = [owed EXCEPT ![p] = FALSE]
    /\ drain' = [drain EXCEPT ![p] = DrainEntry(p, Running(p), FlightsOf(p))]
    /\ UNCHANGED <<store, life, recovery, scan, awaited, flights, boots, history>>

DeleteTrigger(e) ==
    /\ triggers[e] # "gone"
    /\ triggers' = [triggers EXCEPT ![e] = "gone"]
    /\ UNCHANGED <<rows, life, recovery, loop, owed, awaited, flights, boots, history>>

-----------------------------------------------------------------------------
(* The drain loop                                                          *)

\* Mutant: startDelivery does not arm the interval.
SafetyNetUnarmed(p) == life[p] = "booting" /\ drain[p] = "never" /\ UNCHANGED vars

\* The 5s interval, armed once startDelivery has finished its recovery.
SafetyNet(p) ==
    /\ life[p] = "up"
    /\ DrainEntry(p, TRUE, FlightsOf(p)) # drain[p]
    /\ drain' = [drain EXCEPT ![p] = DrainEntry(p, TRUE, FlightsOf(p))]
    /\ UNCHANGED <<store, life, recovery, scan, owed, awaited, flights, boots, history>>

\* claimNext's find: the pending rows that are due now.  None ends the loop.
ClaimFind(p) ==
    /\ drain[p] = "find"
    /\ LET candidates == {e \in Events : rows[e].status = "pending" /\ rows[e].next = "due"}
       IN  /\ scan' = [scan EXCEPT ![p] = candidates]
           /\ drain' = [drain EXCEPT ![p] = IF candidates = {} THEN "idle" ELSE "scan"]
    /\ UNCHANGED <<store, life, recovery, owed, awaited, flights, boots, history>>

\* The claim's mutator: pending -> dispatching, anything else as it is.
Claimed(row) == IF row.status # "pending" THEN row
                ELSE [status |-> "dispatching", attempts |-> row.attempts + 1,
                      next |-> row.next, age |-> "young"]

\* Mutant: a row that comes back dispatching is taken for a win, whose claim it was.
WinsClaimAnyDispatching(row) == row.status \in {"pending", "dispatching"}

\* Only the caller whose own claim token is on the row after the write has won.
WinsClaim(row) == row.status = "pending"

\* One compare-and-swap of claimNext.  A winner is dispatched at once, without
\* asking again whether the pipeline is still running; a loser tries the next
\* row it read.  The loop goes on while the pipeline runs and a slot is free.
TryClaim(p, e) ==
    /\ drain[p] = "scan"
    /\ e \in scan[p]
    /\ IF WinsClaim(rows[e])
       THEN LET f == [proc |-> p, ev |-> e, attempt |-> Claimed(rows[e]).attempts,
                      phase |-> "load", verdict |-> "none"]
            IN  /\ rows' = [rows EXCEPT ![e] = Claimed(@)]
                /\ flights' = flights \cup {f}
                /\ scan' = [scan EXCEPT ![p] = {}]
                /\ drain' = [drain EXCEPT ![p] =
                       IF Running(p) /\ Cardinality(FlightsOf(p) \cup {f}) < MaxInFlight
                       THEN "find" ELSE "idle"]
       ELSE /\ scan' = [scan EXCEPT ![p] = @ \ {e}]
            /\ drain' = [drain EXCEPT ![p] = IF scan[p] = {e} THEN "idle" ELSE @]
            /\ UNCHANGED <<rows, flights>>
    /\ UNCHANGED <<triggers, life, recovery, owed, awaited, boots, history>>

\* Mutant: the loop has no finally block, so "draining" stays set.
ClaimThrowsDraining(p) ==
    /\ drain[p] # "idle"
    /\ scan' = [scan EXCEPT ![p] = {}]
    /\ UNCHANGED <<store, life, recovery, drain, owed, awaited, flights, boots, history>>

\* claimNext throws (the store is unreachable, the compare-and-swap gave up):
\* the loop ends.  The write may have reached the database all the same, and
\* then the row is dispatching with nobody delivering it.
ClaimThrows(p) ==
    /\ drain[p] # "idle"
    /\ scan' = [scan EXCEPT ![p] = {}]
    /\ drain' = [drain EXCEPT ![p] = "idle"]
    /\ \/ UNCHANGED <<rows, losses>>
       \/ \E e \in scan[p] :
             /\ WinsClaim(rows[e])
             /\ losses[e] < MaxBoots                     \* bound
             /\ rows' = [rows EXCEPT ![e] = Claimed(@)]
             /\ losses' = [losses EXCEPT ![e] = @ + 1]
    /\ UNCHANGED <<triggers, life, recovery, owed, awaited, flights, boots, oks>>

-----------------------------------------------------------------------------
(* dispatchOne                                                             *)

Advance(f, g) == flights' = (flights \ {f}) \cup {g}

\* Reads the trigger row; an event that has nowhere to go is dead-lettered, for
\* a trigger that is gone before the try block, for an unbound one within it.
LoadTrigger(f) ==
    /\ f.phase = "load"
    /\ Advance(f, CASE triggers[f.ev] = "bound"   -> [f EXCEPT !.phase = "run"]
                    [] triggers[f.ev] = "unbound" -> [f EXCEPT !.phase = "refuse", !.verdict = "dead"]
                    [] triggers[f.ev] = "gone"    -> [f EXCEPT !.phase = "settle", !.verdict = "dead"])
    /\ UNCHANGED <<store, life, recovery, loop, owed, awaited, boots, history>>

\* The target answers: ok, a permanent refusal, or a failure (thrown or not).
TargetAnswers(f) ==
    /\ f.phase = "run"
    /\ \/ /\ Advance(f, [f EXCEPT !.phase = "settle", !.verdict = "delivered"])
          /\ oks' = [oks EXCEPT ![f.ev] = @ + 1]
       \/ /\ Advance(f, [f EXCEPT !.phase = "settle", !.verdict = "dead"])
          /\ UNCHANGED oks
       \/ /\ Advance(f, [f EXCEPT !.phase = "failed"])
          /\ UNCHANGED oks
    /\ UNCHANGED <<store, life, recovery, loop, owed, awaited, boots, losses>>

\* retryDelayMs: a delay exists for attempts 1..MaxRetries, and then no more.
HasRetry(attempts) == attempts <= MaxRetries

\* markFailed's read: the attempts counted on the row decide retry or dead.
JudgeFailure(f) ==
    /\ f.phase = "failed"
    /\ Advance(f, [f EXCEPT !.phase = "settle",
                            !.verdict = IF HasRetry(rows[f.ev].attempts)
                                        THEN "retry" ELSE "dead"])
    /\ UNCHANGED <<store, life, recovery, loop, owed, awaited, boots, history>>

\* Mutant: the update is spread in the wrong order, { status, ...cur }.
SettledBehind(row, verdict) ==
    IF verdict = "retry" THEN [row EXCEPT !.status = "pending", !.next = "later"] ELSE row

\* What markDelivered, markDead and markFailed write, whatever the row says now.
Settled(row, verdict) ==
    CASE verdict = "delivered" -> [row EXCEPT !.status = "delivered", !.age = "young"]
      [] verdict = "dead"      -> [row EXCEPT !.status = "dead", !.age = "young"]
      [] verdict = "retry"     -> [row EXCEPT !.status = "pending", !.age = "young", !.next = "later"]

\* The last write, then the finally block: free the slot, drain again if running.
Settle(f) ==
    /\ f.phase \in {"refuse", "settle"}
    /\ rows' = [rows EXCEPT ![f.ev] = Settled(@, f.verdict)]
    /\ flights' = flights \ {f}
    /\ drain' = [drain EXCEPT ![f.proc] =
                    DrainEntry(f.proc, Running(f.proc), FlightsOf(f.proc) \ {f})]
    /\ UNCHANGED <<triggers, life, recovery, scan, owed, awaited, boots, history>>

\* The dead-letter write of an unbound trigger throws, whether or not it reached
\* the database: the catch block takes that for a failed attempt.
RefusalThrows(f) ==
    /\ f.phase = "refuse"
    /\ Advance(f, [f EXCEPT !.phase = "failed", !.verdict = "none"])
    /\ rows' \in {rows, [rows EXCEPT ![f.ev] = Settled(@, "dead")]}
    /\ UNCHANGED <<triggers, life, recovery, loop, owed, awaited, boots, history>>

\* A store call outside the try block throws: .catch(() => undefined) drops the
\* delivery, the row stays as it is, the slot is freed.
DispatchThrows(f) ==
    /\ f.phase \in {"load", "failed", "settle"}
    /\ losses[f.ev] < MaxBoots                          \* bound
    /\ flights' = flights \ {f}
    /\ losses' = [losses EXCEPT ![f.ev] = @ + 1]
    /\ drain' = [drain EXCEPT ![f.proc] =
                    DrainEntry(f.proc, Running(f.proc), FlightsOf(f.proc) \ {f})]
    /\ UNCHANGED <<store, life, recovery, scan, owed, awaited, boots, oks>>

-----------------------------------------------------------------------------
(* Boot, recovery, shutdown, crash                                         *)

\* startDelivery: running is set before recoverStuck is awaited.
Boot(p) ==
    /\ life[p] = "down"
    /\ boots < MaxBoots                                  \* bound
    /\ boots' = boots + 1
    /\ life' = [life EXCEPT ![p] = "booting"]
    /\ UNCHANGED <<store, recovery, loop, owed, awaited, flights, history>>

\* Mutant: every dispatching row is taken for a leftover of the last process.
IsStuckAtAnyAge(row) == row.status = "dispatching"

\* recoverStuck's find: dispatching rows claimed STUCK_DISPATCHING_MS ago.
IsStuck(row) == row.status = "dispatching" /\ row.age = "old"

RecoverFind(p) ==
    /\ life[p] = "booting"
    /\ recovery' = [recovery EXCEPT ![p] = {e \in Events : IsStuck(rows[e])}]
    /\ life' = [life EXCEPT ![p] = "recovering"]
    /\ UNCHANGED <<store, loop, owed, awaited, flights, boots, history>>

\* recoverStuck's mutator.
Recovered(row) == [row EXCEPT !.status = "pending", !.age = "young"]

\* One row of recoverStuck's loop; the mutator does not look at the row again.
RecoverRow(p, e) ==
    /\ life[p] \in {"recovering", "stopping", "stopped"}
    /\ e \in recovery[p]
    /\ rows' = [rows EXCEPT ![e] = Recovered(@)]
    /\ recovery' = [recovery EXCEPT ![p] = @ \ {e}]
    /\ UNCHANGED <<triggers, life, loop, owed, awaited, flights, boots, history>>

\* A store call of recoverStuck throws, in its find or in one of its updates (which
\* may have reached the database).  startDelivery rejects before it arms the
\* interval or starts a drain; running stays set, so nothing ever starts it again.
RecoverThrows(p) ==
    /\ boots < MaxBoots                                  \* bound: a restart may follow
    /\ \/ life[p] = "booting" /\ UNCHANGED rows
       \/ \E e \in recovery[p] : rows' \in {rows, [rows EXCEPT ![e] = Recovered(@)]}
    /\ recovery' = [recovery EXCEPT ![p] = {}]
    /\ life' = [life EXCEPT ![p] = IF @ \in {"booting", "recovering"} THEN "stalled" ELSE @]
    /\ UNCHANGED <<triggers, loop, owed, awaited, flights, boots, history>>

\* Recovery is over: the timer is armed and the first drain starts.
Open(p) ==
    /\ life[p] = "recovering"
    /\ recovery[p] = {}
    /\ life' = [life EXCEPT ![p] = "up"]
    /\ drain' = [drain EXCEPT ![p] = DrainEntry(p, TRUE, FlightsOf(p))]
    /\ UNCHANGED <<store, recovery, scan, owed, awaited, flights, boots, history>>

\* stopDelivery: running is cleared and the deliveries in flight NOW are awaited.
Stop(p) ==
    /\ life[p] \in {"recovering", "up", "stalled"}
    /\ boots < MaxBoots                                  \* bound: a restart follows
    /\ life' = [life EXCEPT ![p] = "stopping"]
    /\ awaited' = [awaited EXCEPT ![p] = Deliveries(p)]
    /\ UNCHANGED <<store, recovery, loop, owed, flights, boots, history>>

\* The awaited deliveries have all settled: stopDelivery returns.
StopReturns(p) ==
    /\ life[p] = "stopping"
    /\ awaited[p] \cap Deliveries(p) = {}
    /\ life' = [life EXCEPT ![p] = "stopped"]
    /\ awaited' = [awaited EXCEPT ![p] = {}]
    /\ UNCHANGED <<store, recovery, loop, owed, flights, boots, history>>

\* The process is gone: what it was doing is lost, what it wrote stays.
Exit(p) ==
    /\ life' = [life EXCEPT ![p] = "down"]
    /\ recovery' = [recovery EXCEPT ![p] = {}]
    /\ drain' = [drain EXCEPT ![p] = "idle"]
    /\ scan' = [scan EXCEPT ![p] = {}]
    /\ owed' = [owed EXCEPT ![p] = FALSE]
    /\ awaited' = [awaited EXCEPT ![p] = {}]
    /\ flights' = flights \ FlightsOf(p)
    /\ losses' = [e \in Events |->
                    losses[e] + Cardinality({f \in FlightsOf(p) : f.ev = e})]
    /\ UNCHANGED <<store, boots, oks>>

\* process.exit(0) once every teardown has returned, or stopDelivery's 30s are up.
Shutdown(p) == life[p] \in {"stopping", "stopped"} /\ Exit(p)

Crash(p) ==
    /\ Running(p)
    /\ boots < MaxBoots                                  \* bound: a restart follows
    /\ Exit(p)

-----------------------------------------------------------------------------
(* The clock                                                               *)

\* nextAttemptAt passes.
BackoffElapses(e) ==
    /\ rows[e].status = "pending"
    /\ rows[e].next = "later"
    /\ rows' = [rows EXCEPT ![e].next = "due"]
    /\ UNCHANGED <<triggers, life, recovery, loop, owed, awaited, flights, boots, history>>

\* Ten minutes pass since the row was claimed.  recoverStuck compares with the
\* time of the boot, so no row grows old between Boot and RecoverFind.
RowAges(e) ==
    /\ rows[e].status = "dispatching"
    /\ rows[e].age = "young"
    /\ \A p \in Procs : life[p] # "booting"
    /\ rows' = [rows EXCEPT ![e].age = "old"]
    /\ UNCHANGED <<triggers, life, recovery, loop, owed, awaited, flights, boots, history>>

-----------------------------------------------------------------------------
FlightStep(f) ==
    \/ LoadTrigger(f)
    \/ TargetAnswers(f)
    \/ JudgeFailure(f)
    \/ Settle(f)

ProcStep(p) ==
    \/ Wake(p)
    \/ SafetyNet(p)
    \/ ClaimFind(p)
    \/ \E e \in Events : TryClaim(p, e) \/ RecoverRow(p, e)
    \/ Boot(p)
    \/ RecoverFind(p)
    \/ Open(p)
    \/ Shutdown(p)

Next ==
    \/ \E p \in Procs : ProcStep(p)
    \/ \E f \in flights : FlightStep(f) \/ DispatchThrows(f) \/ RefusalThrows(f)
    \/ \E e \in Events : DeleteTrigger(e) \/ BackoffElapses(e) \/ RowAges(e)
    \/ \E p \in Procs, e \in Events : Enqueue(p, e)
    \/ \E p \in Procs : \/ ClaimThrows(p) \/ RecoverThrows(p)
                       \/ Stop(p) \/ StopReturns(p) \/ Crash(p)

Spec == Init /\ [][Next]_vars

\* The event loop runs what is ready: a woken loop proceeds, a dispatch goes
\* on, a target answers, time passes, a process that is down is restarted.
\* A store call that keeps throwing is not tried for ever, hence SF on the
\* claim.  Recovery goes on until it is over or throws.  Nothing obliges a webhook
\* to come, a trigger to go, or a process to stop or crash.
Fairness ==
    /\ WF_vars(\E f \in flights : FlightStep(f))
    /\ \A e \in Events : WF_vars(BackoffElapses(e)) /\ WF_vars(RowAges(e))
    /\ \A p \in Procs :
          /\ WF_vars(Boot(p) \/ RecoverFind(p) \/ Open(p) \/ Shutdown(p))
          /\ WF_vars(\E e \in Events : RecoverRow(p, e))
          /\ WF_vars(SafetyNet(p))
          /\ SF_vars(ClaimFind(p))
          /\ SF_vars(\E e \in Events : TryClaim(p, e))

FairSpec == Spec /\ Fairness

-----------------------------------------------------------------------------
(* Properties                                                              *)

VariablesOK ==
    /\ rows \in [Events -> Row]
    /\ triggers \in [Events -> TriggerStates]
    /\ life \in [Procs -> Lives]
    /\ recovery \in [Procs -> SUBSET Events]
    /\ drain \in [Procs -> {"idle", "find", "scan"}]
    /\ scan \in [Procs -> SUBSET Events]
    /\ owed \in [Procs -> BOOLEAN]
    /\ awaited \in [Procs -> SUBSET FlightKey]
    /\ flights \subseteq Flight /\ IsFiniteSet(flights)
    /\ boots \in Nat
    /\ oks \in [Events -> Nat]
    /\ losses \in [Events -> Nat]

PhasesOK ==
    /\ \A p \in Procs :
          /\ drain[p] = "scan" <=> scan[p] # {}
          /\ recovery[p] # {} => life[p] \in {"recovering", "stopping", "stopped"}
          /\ life[p] = "down" => drain[p] = "idle" /\ ~owed[p]
    /\ \A f \in flights :
          /\ life[f.proc] # "down"
          /\ f.phase \in {"refuse", "settle"} <=> f.verdict # "none"

\* Every variable holds a value the program could hold; a recovery list and a
\* claim scan exist only in the phase that reads them, and a process that is
\* down has nothing in memory.
TypeOK == VariablesOK /\ PhasesOK

\* Two processes never both win the claim of one attempt: an attempt number of
\* an event has at most one delivery in progress, whatever boots, recoveries
\* and claims of other processes come between (queue.ts claimNext, the random
\* claim token; tests/events/delivery.test.ts, "exactly one winner").
ClaimExclusive ==
    \A f, g \in flights : f.ev = g.ev /\ f.attempt = g.attempt => f = g

\* While a single process runs the pipeline, an event is never delivered twice
\* at the same time: recovery only hands back rows nobody is delivering, even
\* when a webhook starts the drain loop before recovery is over.
OneFlightPerEvent ==
    \A f, g \in flights : f.ev = g.ev => f = g

\* The dead-letter write of this dispatch landed and threw all the same; the
\* dispatch goes on to record a failure.
RefusalLost(f) ==
    /\ rows[f.ev].status = "dead"
    /\ triggers[f.ev] # "bound"
    /\ f.phase \in {"failed", "settle"} /\ f.verdict # "delivered"

\* Why that is so, and for any number of slots: a row that is being delivered
\* stays dispatching, though recovery may still be awaited when a webhook's drain
\* claims (delivery.ts:129-141); a booting process has only fresh claims in
\* flight, and what recovery is about to flip back is in nobody's hands.  Only a
\* dispatch that has no target can find its row dead, by its own lost write.
FlightsHoldTheirRows ==
    /\ \A f \in flights : rows[f.ev].status = "dispatching" \/ RefusalLost(f)
    /\ \A p \in Procs : life[p] = "booting" => \A f \in flights : rows[f.ev].age = "young"
    /\ \A p \in Procs : \A e \in recovery[p] :
          /\ rows[e].status = "dispatching"
          /\ \A f \in flights : f.ev # e

\* The drain loop, its wakes and the finally blocks together never run more
\* than MAX_IN_FLIGHT deliveries in one process.
SlotsBounded ==
    \A p \in Procs : Cardinality(FlightsOf(p)) <= MaxInFlight

\* Delivery is at-least-once.  An event is attempted once plus once per retry of
\* the schedule and delivered once, and more often only by as many times as a
\* dispatch vanished before its outcome was written (a crash, a shutdown, a
\* dropped store error).
RepeatNeedsLoss ==
    \A e \in Events :
       /\ oks[e] <= 1 + losses[e]
       /\ rows[e].attempts <= MaxRetries + 1 + losses[e]

\* A dispatching row that no process is delivering.
Orphaned(e) ==
    /\ rows[e].status = "dispatching"
    /\ \A f \in flights : f.ev # e

\* A pending row of a pipeline whose recovery threw: no interval looks for it, and
\* no delivery is under way whose end would.
Unserved(e) ==
    /\ rows[e].status = "pending"
    /\ \E p \in Procs : life[p] = "stalled" /\ drain[p] = "idle" /\ FlightsOf(p) = {}

\* An accepted event comes to its end: delivered, dead, or, after a loss, left
\* dispatching until a boot finds it old enough.  Only where recovery has thrown,
\* and startDelivery with it, may a due event wait for a webhook or a restart.
Settles ==
    \A e \in Events :
       rows[e].status \in {"pending", "dispatching"}
          ~> rows[e].status \in Ended \/ Orphaned(e) \/ Unserved(e)

\* What a stopped process leaves behind is taken up again: delivery.ts:145,
\* "waits up to 30s for in-flight deliveries (the rest recovers next boot)".
RestRecovers ==
    \A p \in Procs, e \in Events :
       life[p] = "down" /\ Orphaned(e) ~> ~Orphaned(e)

\* A pipeline that is stopping only winds down, whatever settles or wakes it: its
\* drain loop is not entered again, and the claim it may have under way, which is
\* dispatched without asking whether the pipeline still runs (delivery.ts:114-116), is its last.
StopWindsDown ==
    [][\A p \in Procs : life[p] \in {"stopping", "stopped"} /\ life'[p] # "down" =>
          /\ drain[p] = "idle" => drain'[p] = "idle" /\ Deliveries(p)' \subseteq Deliveries(p)
          /\ Deliveries(p)' \subseteq Deliveries(p) \/ drain'[p] = "idle"]_vars

-----------------------------------------------------------------------------
(* The abstract lifecycle of WorkItem                                      *)

Stage(row) ==
    CASE row.status = "absent"      -> "absent"
      [] row.status = "pending"     -> "queued"
      [] row.status = "dispatching" -> "taken"
      [] row.status \in Ended       -> "ended"

\* An event is taken for as long as a dispatch of it is at work, even when its row
\* has been dead since that dispatch's own write landed and threw.
InHand(e) == \E f \in flights : f.ev = e

Work == INSTANCE WorkItem WITH
            Items <- Events, MayRequeue <- TRUE,
            state <- [e \in Events |-> IF InHand(e) THEN "taken" ELSE Stage(rows[e])]

\* With one process an event goes through the life of a unit of work: it is taken
\* before it is delivered, handed back only by the dispatch that holds it or by
\* recovery, and once its row has ended and its dispatch is over it never becomes
\* work again.  Until then the dispatch may undo its own dead-letter
\* (delivery.ts:86 or 92 landing and throwing, then 105).
ImplementsWorkItem == Work!WorkSpec
=============================================================================

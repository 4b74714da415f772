--------------------------- MODULE AutomationRuns ---------------------------
(***************************************************************************)
(* The life of one automation run (api/src/automation): the engine's       *)
(* passes over its recipe (engine.ts), the requests that resume, cancel    *)
(* and answer it (service.ts), the waiter that a new credential wakes      *)
(* (credential-waiters.ts) and the sweep at boot (agents/jobs.ts).         *)
(*                                                                         *)
(* A run that needs a credential ends its pass and is parked; a later pass *)
(* goes on where it stopped.  A pass started for a user has a set of       *)
(* signals in memory, through which it is cancelled and resumed; the first *)
(* pass of a run started by a trigger or a schedule has none.  What a step *)
(* does in the browser, the model calls and the recipe's fixes are left    *)
(* out: a step is done, fails, halts, or waits for its owner.              *)
(***************************************************************************)
EXTENDS Naturals, FiniteSets, Bags

CONSTANTS Last,       \* index of the recipe's last step
          Commands,   \* the steps that run a command and need consent
          Origins,    \* who may start the run: "user" (with signals) or "rail"
          MaxPauses,  \* REHEARSAL_BUDGET / NORMAL_RUN_BUDGET .maxNormalPauses
          MaxCalls,   \* bound: requests and wakes in progress at a time
          MaxPasses,  \* bound: passes of the run
          MaxFaults   \* bound: store errors and restarts in one behaviour

ASSUME AutomationRunsAssumption ==
    /\ Last \in Nat
    /\ Commands \subseteq 0 .. Last
    /\ Origins \subseteq {"user", "rail"}
    /\ MaxPauses \in Nat
    /\ MaxCalls \in Nat
    /\ MaxPasses \in Nat \ {0}
    /\ MaxFaults \in Nat

VARIABLES row,        \* the run's document in automation_runs
          approved,   \* approved_commands: the steps approved "always"
          signals,    \* the pass the signals map holds for this run, or none
          signed,     \* passes under way that were given signals
          cancelled,  \* passes whose signals say cancelled
          resumed,    \* passes whose resumeFlag is up
          once,       \* runApprovedShapes of each pass
          phase,      \* where each pass is
          at,         \* the step each pass is at
          outcome,    \* the status a pass is about to record as its end
          pauses,     \* pauseForUserCount of each pass
          passes,     \* number of passes begun
          waiter,     \* whether a credential waiter is registered for the run
          calls,      \* a bag: requests and wakes in progress
          faults,     \* number of store errors and restarts so far
          shown,      \* history: steps whose command was put to the owner
          odd         \* history: the mishaps since the last dispatch, see Mishaps

memory == <<signals, signed, cancelled, resumed, once>>
pass   == <<phase, at, outcome, pauses, passes>>
vars   == <<row, approved, memory, pass, waiter, calls, faults, shown, odd>>

-----------------------------------------------------------------------------
(* Types                                                                   *)

Steps  == 0 .. Last
Pages  == Steps \ Commands       \* steps that need the browser
None   == 0                      \* no signals; passes count from 1
Passes == 1 .. MaxPasses

Ended    == {"completed", "failed", "cancelled"}
\* "halted": awaiting_daemon, awaiting_integration, or an integration's consent.
Statuses == Ended \cup {"absent", "running", "paused_for_user", "awaiting_consent",
                        "needs_credentials", "halted"}

\* "from" is where credentialRequest says a resume begins, "shape" the step of
\* consentRequest (Last + 1: there is none).
Row   == [status : Statuses, from : Steps, shape : 0 .. Last + 1]
NoRow == [status |-> "absent", from |-> 0, shape |-> Last + 1]

\* "leaked": the insert of the run threw after its signals were set.
\* "load" and "mark" are before the engine's try, "failing" is its catch,
\* "closing" its finally and what the caller does before it drops the signals.
Phases == {"none", "leaked", "load", "mark", "step", "halting", "waiting",
           "resuming", "ending", "failing", "closing", "over"}
Live(k) == phase[k] \notin {"none", "leaked", "over"}

\* A request or a wake between two awaits.  "woken" has not read the row yet;
\* "wake" and "resume" have read a parked row ("saw") and go on from step "arg"; "flag"
\* only raises the resumeFlag; "once" and "always" answer for the command of step
\* "arg", and "bank" stores it, holding the signals of pass "sig".
Kinds == {"woken", "wake", "resume", "flag", "once", "always", "bank"}
Call  == [kind : Kinds, arg : Steps, saw : Statuses, sig : 0 .. MaxPasses]
Asks(kind, arg) == [kind |-> kind, arg |-> arg, saw |-> "absent", sig |-> None]
GoesOn(kind, r) == [kind |-> kind, arg |-> r.from, saw |-> r.status, sig |-> None]

\* stale: the pass in hand was dispatched on a row whose status had changed
\* since it was read.
\* overlap: it was dispatched while a pass without signals was tearing down.
\* missed: a wake was refused because the parked pass was still tearing down.
\* unparked: a cancel took away the waiter of a run that was already parked.
\* unwritten: a pass ended without being able to record its end.
Mishaps == {"stale", "overlap", "missed", "unparked", "unwritten"}

Tagged(cond, tag) == IF cond THEN {tag} ELSE {}

-----------------------------------------------------------------------------
Init ==
    /\ row = NoRow
    /\ approved \in SUBSET Commands                        \* from earlier runs
    /\ signals = None
    /\ signed = {} /\ cancelled = {} /\ resumed = {}
    /\ once = [k \in Passes |-> {}]
    /\ phase = [k \in Passes |-> "none"]
    /\ at = [k \in Passes |-> 0]
    /\ outcome = [k \in Passes |-> "none"]
    /\ pauses = [k \in Passes |-> 0]
    /\ passes = 0
    /\ waiter = "none"
    /\ calls = EmptyBag
    /\ faults = 0
    /\ shown = approved
    /\ odd = {}

Fault ==
    /\ faults < MaxFaults                                   \* bound
    /\ faults' = faults + 1

-----------------------------------------------------------------------------
(* Starting                                                                *)

\* startRunInternal: the signals, then the row, then the engine.  A trigger or
\* a schedule calls the engine, which inserts the row itself.
Create ==
    /\ passes = 0
    /\ \E origin \in Origins :
          IF origin = "user" THEN signals' = 1 /\ signed' = {1} ELSE UNCHANGED <<signals, signed>>
    /\ row' = [NoRow EXCEPT !.status = "running"]
    /\ phase' = [phase EXCEPT ![1] = "load"]
    /\ passes' = 1
    /\ UNCHANGED <<approved, cancelled, resumed, once, at, outcome, pauses, waiter, calls, faults, shown, odd>>

\* The insert throws, having reached the database or not: no engine starts, and
\* the signals stay.
CreateThrows ==
    /\ passes = 0
    /\ "user" \in Origins
    /\ Fault
    /\ signals' = 1 /\ signed' = {1}
    /\ row' \in {row, [NoRow EXCEPT !.status = "running"]}
    /\ phase' = [phase EXCEPT ![1] = "leaked"]
    /\ passes' = 1
    /\ odd' = odd \cup {"unwritten"}
    /\ UNCHANGED <<approved, cancelled, resumed, once, at, outcome, pauses, waiter, calls, shown>>

-----------------------------------------------------------------------------
(* The engine                                                              *)

Moves(k, ph) == phase' = [phase EXCEPT ![k] = ph]

Ending(k, status) == Moves(k, "ending") /\ outcome' = [outcome EXCEPT ![k] = status]

\* The head of the loop: past the last step the run is complete, whatever the
\* signals say; before a step a cancel is honoured.
Goes(k, i) ==
    /\ at' = [at EXCEPT ![k] = i]
    /\ IF i > Last THEN Ending(k, "completed")
       ELSE IF k \in cancelled THEN Ending(k, "cancelled")
       ELSE Moves(k, "step") /\ UNCHANGED outcome

Forgets(k) ==
    /\ signed' = signed \ {k} /\ cancelled' = cancelled \ {k} /\ resumed' = resumed \ {k}
    /\ once' = [once EXCEPT ![k] = {}]
    /\ at' = [at EXCEPT ![k] = 0] /\ outcome' = [outcome EXCEPT ![k] = "none"]
    /\ pauses' = [pauses EXCEPT ![k] = 0]

\* Mutant: only a pass that came to its end drops the signals.
LeavesKept(k) ==
    /\ Moves(k, "over")
    /\ signals' = IF phase[k] = "closing" THEN None ELSE signals
    /\ Forgets(k)

\* The promise of the pass has settled: the caller drops the run's signals, and
\* nothing is left of the pass.
Leaves(k) ==
    /\ Moves(k, "over")
    /\ signals' = IF k \in signed THEN None ELSE signals
    /\ Forgets(k)

\* The recipe is read; a resume from its first step is not told from a start.
Load(k) ==
    /\ phase[k] = "load"
    /\ IF at[k] > 0 THEN Moves(k, "mark") /\ UNCHANGED <<at, outcome>> ELSE Goes(k, 0)
    /\ UNCHANGED <<row, approved, memory, pauses, passes, waiter, calls, faults, shown, odd>>

\* A resumed run is put back to running, its request dropped.
Mark(k) ==
    /\ phase[k] = "mark"
    /\ row' = [row EXCEPT !.status = "running", !.from = 0]
    /\ Goes(k, at[k])
    /\ UNCHANGED <<approved, memory, pauses, passes, waiter, calls, faults, shown, odd>>

\* Before its try block the engine only rejects: nothing records the end.
StartThrows(k) ==
    /\ phase[k] \in {"load", "mark"}
    /\ Fault
    /\ row' \in {row} \cup (IF phase[k] = "mark" THEN {[row EXCEPT !.status = "running", !.from = 0]} ELSE {})
    /\ Leaves(k)
    /\ odd' = odd \cup {"unwritten"}
    /\ UNCHANGED <<approved, passes, waiter, calls, shown>>

Consented(k, i) == i \in Commands => i \in approved \cup once[k]

\* The step is done and the loop goes on; a command needs its consent.
StepDone(k) ==
    /\ phase[k] = "step"
    /\ Consented(k, at[k])
    /\ Goes(k, at[k] + 1)
    /\ UNCHANGED <<row, approved, memory, pauses, passes, waiter, calls, faults, shown, odd>>

\* The step fails for good, a budget is spent, or it halts with a status that
\* nothing resumes.
StepFails(k) ==
    /\ phase[k] = "step"
    /\ \E status \in {"failed", "halted"} : Ending(k, status)
    /\ UNCHANGED <<row, approved, memory, at, pauses, passes, waiter, calls, faults, shown, odd>>

\* haltForCredentials, first write: raised by the gate before the step, or by
\* a wall met in it; then the resume begins at an earlier navigation.
Halt(k) ==
    /\ phase[k] = "step"
    /\ at[k] \in Pages
    /\ \E from \in 0 .. at[k] :
          row' = [row EXCEPT !.status = "needs_credentials", !.from = from]
    /\ Moves(k, "halting")
    /\ UNCHANGED <<approved, memory, at, outcome, pauses, passes, waiter, calls, faults, shown, odd>>

\* Mutant: the halt forgets to register its waiter.
HaltDoneUnregistered(k) ==
    /\ phase[k] = "halting"
    /\ row' = [row EXCEPT !.status = "needs_credentials"]
    /\ Moves(k, "closing")
    /\ UNCHANGED <<approved, memory, at, outcome, pauses, passes, waiter, calls, faults, shown, odd>>

\* ... then finalize, and only after it the waiter.
HaltDone(k) ==
    /\ phase[k] = "halting"
    /\ row' = [row EXCEPT !.status = "needs_credentials"]
    /\ waiter' = "parked"
    /\ Moves(k, "closing")
    /\ UNCHANGED <<approved, memory, at, outcome, pauses, passes, calls, faults, shown, odd>>

\* A command nobody has approved: its shape is put to the owner.
AskConsent(k) ==
    /\ phase[k] = "step"
    /\ ~Consented(k, at[k])
    /\ row' = [row EXCEPT !.status = "awaiting_consent", !.shape = at[k]]
    /\ shown' = shown \cup {at[k]}
    /\ Moves(k, "waiting")
    /\ UNCHANGED <<approved, memory, at, outcome, pauses, passes, waiter, calls, faults, odd>>

\* pauseRunForUser: the page needs a human.
Pause(k) ==
    /\ phase[k] = "step"
    /\ at[k] \in Pages
    /\ pauses[k] < MaxPauses
    /\ row' = [row EXCEPT !.status = "paused_for_user"]
    /\ pauses' = [pauses EXCEPT ![k] = @ + 1]
    /\ Moves(k, "waiting")
    /\ UNCHANGED <<approved, memory, at, outcome, passes, waiter, calls, faults, shown, odd>>

\* Mutant: the poll looks for a resume only.
PollResumeOnly(k) ==
    /\ phase[k] = "waiting"
    /\ k \in resumed
    /\ resumed' = resumed \ {k} /\ Moves(k, "resuming") /\ UNCHANGED outcome
    /\ UNCHANGED <<row, approved, signals, signed, cancelled, once, at, pauses, passes, waiter, calls,
                   faults, shown, odd>>

\* waitForResumeOrCancel: a cancel before a resume; a pass without signals does
\* not wait at all.
Poll(k) ==
    /\ phase[k] = "waiting"
    /\ IF k \in cancelled \/ k \notin signed THEN Ending(k, "cancelled") /\ UNCHANGED resumed
       ELSE k \in resumed /\ resumed' = resumed \ {k} /\ Moves(k, "resuming") /\ UNCHANGED outcome
    /\ UNCHANGED <<row, approved, signals, signed, cancelled, once, at, pauses, passes, waiter, calls,
                   faults, shown, odd>>

\* The row is running again, the request dropped, and the step is tried again.
Resume(k) ==
    /\ phase[k] = "resuming"
    /\ row' = [row EXCEPT !.status = "running", !.shape = Last + 1]
    /\ Goes(k, at[k])
    /\ UNCHANGED <<approved, memory, pauses, passes, waiter, calls, faults, shown, odd>>

\* finalize records how the pass ended.
End(k) ==
    /\ phase[k] = "ending"
    /\ row' = [row EXCEPT !.status = outcome[k]]
    /\ Moves(k, "closing")
    /\ UNCHANGED <<approved, memory, at, outcome, pauses, passes, waiter, calls, faults, shown, odd>>

\* A step or a write throws inside the try block, the write having reached the
\* database or not.
Throws(k) ==
    LET written == CASE phase[k] = "resuming" -> {[row EXCEPT !.status = "running", !.shape = Last + 1]}
                     [] phase[k] = "ending"   -> {[row EXCEPT !.status = outcome[k]]}
                     [] OTHER                 -> {}
    IN  /\ phase[k] \in {"step", "halting", "resuming", "ending"}
        /\ Fault
        /\ row' \in {row} \cup written
        /\ Moves(k, "failing")
        /\ UNCHANGED <<approved, memory, at, outcome, pauses, passes, waiter, calls, shown, odd>>

\* The catch block records the failure, or the store throws again.
Fail(k) ==
    /\ phase[k] = "failing"
    /\ row' = [row EXCEPT !.status = "failed"]
    /\ Moves(k, "closing")
    /\ UNCHANGED <<approved, memory, at, outcome, pauses, passes, waiter, calls, faults, shown, odd>>

FailThrows(k) ==
    /\ phase[k] = "failing"
    /\ Moves(k, "closing")
    /\ odd' = odd \cup {"unwritten"}
    /\ UNCHANGED <<row, approved, memory, at, outcome, pauses, passes, waiter, calls, faults, shown>>

\* The finally block frees the browser and its lease, and the pass is over.
Close(k) ==
    /\ phase[k] = "closing"
    /\ Leaves(k)
    /\ UNCHANGED <<row, approved, passes, waiter, calls, faults, shown, odd>>

EngineStep(k) ==
    \/ Load(k) \/ Mark(k) \/ StepDone(k) \/ StepFails(k) \/ Halt(k) \/ HaltDone(k)
    \/ AskConsent(k) \/ Pause(k) \/ Poll(k) \/ Resume(k) \/ End(k) \/ Fail(k) \/ Close(k)

-----------------------------------------------------------------------------
(* Requests and wakes                                                      *)

Begins(c) ==
    /\ BagCardinality(calls) < MaxCalls                     \* bound
    /\ calls' = calls (+) SetToBag({c})
Returns(c)       == calls' = calls (-) SetToBag({c})
Becomes(c, then) == calls' = (calls (-) SetToBag({c})) (+) SetToBag({then})

\* The flag of a pass whose signals are still in the map.
Raised(k) == resumed' = resumed \cup ({k} \ {None})

\* resumeRun reads the row: anything but a parked or a paused run is refused.
AskResume ==
    /\ \/ row.status = "needs_credentials" /\ Begins(GoesOn("resume", row))
       \/ row.status = "paused_for_user" /\ Begins(Asks("flag", 0))
    /\ UNCHANGED <<row, approved, memory, pass, waiter, faults, shown, odd>>

\* onCredentialEstablished: the waiter is dropped before the run is woken.
Mint ==
    /\ waiter = "parked"
    /\ waiter' = "none"
    /\ Begins(Asks("woken", 0))
    /\ UNCHANGED <<row, approved, memory, pass, faults, shown, odd>>

\* Mutant: the wake trusts the waiter and does not look at the row's status.
WakeReadsTrusting(c) ==
    /\ c.kind = "woken"
    /\ Becomes(c, GoesOn("wake", row))
    /\ UNCHANGED <<row, approved, memory, pass, waiter, faults, shown, odd>>

\* redispatchRunAwaitingCredentials re-reads the row.
WakeReads(c) ==
    /\ c.kind = "woken"
    /\ IF row.status = "needs_credentials" THEN Becomes(c, GoesOn("wake", row)) ELSE Returns(c)
    /\ UNCHANGED <<row, approved, memory, pass, waiter, faults, shown, odd>>

\* Mutant: the dispatch does not ask whether a pass is in flight.
DispatchUnclaimed(c) ==
    LET k == passes + 1
    IN  /\ c.kind \in {"resume", "wake"}
        /\ passes < MaxPasses
        /\ signals' = k
        /\ signed' = signed \cup {k}
        /\ passes' = k
        /\ phase' = [phase EXCEPT ![k] = "load"]
        /\ at' = [at EXCEPT ![k] = c.arg]
        /\ waiter' = "none"
        /\ Returns(c)
        /\ UNCHANGED <<row, approved, cancelled, resumed, once, outcome, pauses, faults, shown, odd>>

\* dispatchCredentialResume: the signals are the claim; the new pass has its own.
Dispatch(c) ==
    LET k == passes + 1
    IN  /\ c.kind \in {"resume", "wake"}
        /\ signals = None
        /\ passes < MaxPasses                               \* bound
        /\ signals' = k
        /\ signed' = signed \cup {k}
        /\ passes' = k
        /\ phase' = [phase EXCEPT ![k] = "load"]
        /\ at' = [at EXCEPT ![k] = c.arg]
        /\ waiter' = "none"
        /\ odd' = Tagged(row.status # c.saw, "stale")
                     \cup Tagged(\E j \in Passes : Live(j), "overlap")
        /\ Returns(c)
        /\ UNCHANGED <<row, approved, cancelled, resumed, once, outcome, pauses, faults, shown>>

\* A pass is in flight, or still tearing down: the wake is lost.
Refuse(c) ==
    /\ c.kind \in {"resume", "wake"}
    /\ signals # None
    /\ odd' = odd \cup Tagged(c.kind = "wake" /\ phase[signals] = "closing", "missed")
    /\ Returns(c)
    /\ UNCHANGED <<row, approved, memory, pass, waiter, faults, shown>>

\* The flag of whatever pass is in flight goes up, be it paused or not.
Flag(c) ==
    /\ c.kind = "flag"
    /\ Raised(signals)
    /\ Returns(c)
    /\ UNCHANGED <<row, approved, signals, signed, cancelled, once, pass, waiter, faults, shown, odd>>

\* Mutant: the answer's shape is not compared with the one the run awaits.
AnswerUnmatched ==
    /\ row.status # "absent"
    /\ IF row.status = "awaiting_consent" /\ row.shape \in Steps
       THEN \E kind \in {"once", "always"}, shape \in Steps : Begins(Asks(kind, shape))
       ELSE Begins(Asks("flag", 0))
    /\ UNCHANGED <<row, approved, memory, pass, waiter, faults, shown, odd>>

\* resolveConsent, but for its "stop": an answer counts only for the shape the
\* row awaits, any other is refused; a run that awaits none is merely resumed.
Answer ==
    /\ row.status # "absent"
    /\ IF row.status = "awaiting_consent" /\ row.shape \in Steps
       THEN \E kind \in {"once", "always"} : Begins(Asks(kind, row.shape))
       ELSE Begins(Asks("flag", 0))
    /\ UNCHANGED <<row, approved, memory, pass, waiter, faults, shown, odd>>

\* "Once" is noted on the pass in flight, which is resumed.
AllowOnce(c) ==
    /\ c.kind = "once"
    /\ once' = IF signals = None THEN once ELSE [once EXCEPT ![signals] = @ \cup {c.arg}]
    /\ Raised(signals)
    /\ Returns(c)
    /\ UNCHANGED <<row, approved, signals, signed, cancelled, pass, waiter, faults, shown, odd>>

\* "Always" takes the signals in hand and stores the approval ...
AllowAlways(c) ==
    /\ c.kind = "always"
    /\ Becomes(c, [c EXCEPT !.kind = "bank", !.sig = signals])
    /\ UNCHANGED <<row, approved, memory, pass, waiter, faults, shown, odd>>

\* ... and raises the flag it had in hand.
Bank(c) ==
    /\ c.kind = "bank"
    /\ approved' = approved \cup {c.arg}
    /\ Raised(IF c.sig = signals THEN signals ELSE None)
    /\ Returns(c)
    /\ UNCHANGED <<row, signals, signed, cancelled, once, pass, waiter, faults, shown, odd>>

\* The store throws: the caller is told, and a wake is lost.
CallThrows(c) ==
    /\ c.kind \in {"woken", "bank"}
    /\ Fault
    /\ \/ UNCHANGED approved
       \/ c.kind = "bank" /\ approved' = approved \cup {c.arg}
    /\ odd' = odd \cup Tagged(c.kind = "woken", "missed")
    /\ Returns(c)
    /\ UNCHANGED <<row, memory, pass, waiter, shown>>

\* cancelRun: the waiter goes, whatever the row says, and the pass is told.
Cancel ==
    /\ row.status # "absent"
    /\ waiter' = "none"
    /\ cancelled' = cancelled \cup ({signals} \ {None})
    /\ odd' = odd \cup Tagged(waiter = "parked", "unparked")
    /\ UNCHANGED <<row, approved, signals, signed, resumed, once, pass, calls, faults, shown>>

\* The consent answer "stop" tells the pass only.
Stop ==
    /\ row.status # "absent"
    /\ cancelled' = cancelled \cup ({signals} \ {None})
    /\ UNCHANGED <<row, approved, signals, signed, resumed, once, pass, waiter, calls, faults, shown, odd>>

CallStep(c) ==
    \/ WakeReads(c) \/ Dispatch(c) \/ Refuse(c) \/ Flag(c)
    \/ AllowOnce(c) \/ AllowAlways(c) \/ Bank(c) \/ CallThrows(c)

-----------------------------------------------------------------------------
\* The process ends and boots again: what is in memory is gone, and sweepOrphans
\* fails every run that has not ended, a parked one too.
Restart ==
    /\ passes > 0
    /\ Fault
    /\ row' = IF row.status \in Ended \cup {"absent"} THEN row ELSE [row EXCEPT !.status = "failed"]
    /\ signals' = None
    /\ signed' = {} /\ cancelled' = {} /\ resumed' = {}
    /\ once' = [k \in Passes |-> {}]
    /\ phase' = [k \in Passes |-> IF phase[k] = "none" THEN "none" ELSE "over"]
    /\ at' = [k \in Passes |-> 0]
    /\ outcome' = [k \in Passes |-> "none"]
    /\ pauses' = [k \in Passes |-> 0]
    /\ waiter' = "none"
    /\ calls' = EmptyBag
    /\ odd' = {}
    /\ UNCHANGED <<approved, passes, shown>>

Next ==
    \/ Create \/ CreateThrows
    \/ \E k \in Passes : EngineStep(k) \/ StartThrows(k) \/ Throws(k) \/ FailThrows(k)
    \/ AskResume \/ Mint \/ Answer \/ Cancel \/ Stop
    \/ \E c \in BagToSet(calls) : CallStep(c)
    \/ Restart

Spec == Init /\ [][Next]_vars

\* Awaited calls of the engine return, and the poll of a waiting pass goes on.
\* Nobody is obliged to ask, answer, cancel or restart anything.
FairSpec == Spec /\ \A k \in Passes : WF_vars(EngineStep(k))

-----------------------------------------------------------------------------
(* Properties                                                              *)

VariablesOK ==
    /\ row \in Row
    /\ approved \subseteq Steps
    /\ signals \in 0 .. MaxPasses
    /\ signed \subseteq Passes /\ cancelled \subseteq signed /\ resumed \subseteq signed
    /\ once \in [Passes -> SUBSET Steps]
    /\ phase \in [Passes -> Phases]
    /\ at \in [Passes -> 0 .. Last + 1]
    /\ outcome \in [Passes -> Ended \cup {"halted", "none"}]
    /\ pauses \in [Passes -> 0 .. MaxPauses]
    /\ passes \in 0 .. MaxPasses
    /\ waiter \in {"none", "parked"}
    /\ IsABag(calls) /\ BagToSet(calls) \subseteq Call
    /\ faults \in 0 .. MaxFaults
    /\ shown \subseteq Commands
    /\ odd \subseteq Mishaps

\* Every variable holds a value the program could hold, and the signals map is
\* what dispatchCredentialResume takes it for: a pass that was given signals is
\* in the map for as long as it lives and no longer, unless its run was never inserted.
TypeOK ==
    /\ VariablesOK
    /\ \A k \in Passes : phase[k] = "none" <=> k > passes
    /\ \A k \in signed : Live(k) => signals = k
    /\ signals # None => signals \in signed /\ (Live(signals) \/ phase[signals] = "leaked")

\* Two passes of one run are never at work together (service.ts:965-976, the
\* claim): when they overlap, the older one belongs to a trigger or a schedule
\* and is only tearing down.
PassesOverlapOnlyInTeardown ==
    \A j, k \in Passes : j < k /\ Live(j) /\ Live(k)
       => j \notin signed /\ phase[j] \in {"halting", "failing", "closing"}

Wakeable ==
    \/ waiter = "parked"
    \/ \E c \in BagToSet(calls) : c.kind \in {"woken", "wake"}
    \/ odd \cap {"missed", "unparked", "unwritten"} # {}

\* When no pass is under way the row says how things stand: a run that still
\* says running or waiting failed to record its end, and a parked run can be
\* woken by the next credential, unless a cancel or a refusal took its waiter
\* (engine.ts:1092-1095, "parked forever with nothing able to wake it").
AtRest ==
    (\A k \in Passes : ~Live(k)) =>
       /\ row.status \in {"running", "paused_for_user", "awaiting_consent"} => "unwritten" \in odd
       /\ row.status = "needs_credentials" => Wakeable

\* No approval is ever held for a command that was not put to the owner
\* (service.ts:1055-1062), however late an answer arrives.
ApprovalsWereShown == approved \cup (UNION {once[k] : k \in Passes}) \subseteq shown

\* A run that has ended stays as it ended: late wakes, resumes, answers and
\* restarts leave it alone (service.ts:939-941).  Exempt are the writes of a pass
\* that was dispatched on an outdated read or beside another pass, and the failure
\* that a pass records after recording its end has thrown.
EndedStays ==
    [][row.status \in Ended /\ row' # row
          => odd \cap {"stale", "overlap"} # {} \/ \E k \in Passes : Fail(k)]_vars

\* The pass in the signals map has been cancelled and is still at work.
CancelPending == signals \in cancelled /\ Live(signals)

\* A cancelled pass comes to its end, wherever it was when the cancel came and
\* whoever resumes or answers it meanwhile (service.ts:899, engine.ts:3496-3510).
CancelEnds == CancelPending ~> ~CancelPending
=============================================================================

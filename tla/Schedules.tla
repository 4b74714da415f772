----------------------------- MODULE Schedules ------------------------------
(***************************************************************************)
(* The timer rail (api/src/schedules): the owner's edits (service.ts), the *)
(* stored schedules and run rows (store.ts) and the supervisor that claims *)
(* due occurrences and fires them (supervisor.ts).                         *)
(*                                                                         *)
(* An occurrence is a pair of a schedule and the instant it is planned     *)
(* for; its run row's _id is deterministic, so at most one insert of it    *)
(* succeeds.  Time is a small number; a recurring schedule has an          *)
(* occurrence at every instant, a one-time schedule at one (recurrence.ts  *)
(* is reduced to "the first occurrence strictly after").                   *)
(***************************************************************************)
EXTENDS Naturals, FiniteSets

CONSTANTS Procs,          \* API processes sharing the database
          Scheds,         \* schedule ids
          Targets,        \* the kinds of target the owner may choose
          Grace,          \* SKIP_GRACE_MS
          MaxConcurrent,  \* MAX_CONCURRENT_FIRES
          Ceiling,        \* FAILURE_CEILING
          BackoffCap,     \* NEUTRAL_BACKOFF_MAX_MS
          MaxTime,        \* bound: the clock stops here
          MaxEdits,       \* bound: edits and deletions in one behaviour
          MaxFaults       \* bound: store errors, stops and crashes in one behaviour

ASSUME SchedulesAssumption ==
    /\ Targets \subseteq {"task", "job"}
    /\ Grace \in Nat
    /\ MaxConcurrent \in Nat \ {0}
    /\ Ceiling \in Nat \ {0}
    /\ BackoffCap \in Nat \ {0}
    /\ MaxTime \in Nat \ {0}
    /\ MaxEdits \in Nat
    /\ MaxFaults \in Nat

VARIABLES now,       \* the wall clock
          docs,      \* the schedules collection
          runs,      \* the schedule_runs collection, by run id
          purging,   \* deleted schedules whose run rows are still to be deleted
          life,      \* each process's supervisor
          step,      \* where the pass of each process is ("none": no pass)
          due,       \* the schedules the pass has read and not yet visited
          listed,    \* the schedules the pass has visited
          cur,       \* the schedule being claimed, and whether the claim won
          clock,     \* the instant the pass judges by
          seen,      \* seenDue: when an occurrence was first seen due
          flights,   \* execute() calls in progress
          edits,     \* number of edits and deletions so far
          faults,    \* number of store errors, stops and crashes so far
          fired,     \* history: how often an occurrence was executed
          deferred   \* history: occurrences put off for want of a slot, and not
                     \* edited, deleted or cooled since

passVars == <<step, due, listed, cur, clock, seen>>
vars == <<now, docs, runs, purging, life, step, due, listed, cur, clock, seen,
          flights, edits, faults, fired, deferred>>

-----------------------------------------------------------------------------
(* Types                                                                   *)

Null  == 0                       \* nextRunAt: null, neutralBackoffUntil: null
Every == 0                       \* the spec of a recurring schedule
Times == 1 .. MaxTime
Specs == {Every} \cup Times      \* a number is the instant of a one-time spec
Same  == MaxTime + 1             \* in an edit: the spec is not in the body

\* "new": not created yet; "gone": deleted (an id is never used again).
\* A target is a manual task or a job the rail executes.
Doc == [state : {"new", "live", "gone"}, enabled : {"yes", "no"}, spec : Specs,
        target : {"task", "job"}, next : Nat, failures : Nat, streak : Nat, cool : Nat]
NoDoc == [state |-> "new", enabled |-> "no", spec |-> Every, target |-> "job",
          next |-> Null, failures |-> 0, streak |-> 0, cool |-> Null]

\* The run row of an occurrence, and the one the owner asks for (run-now): its
\* id is random, so no occurrence collides with it.
RunNow == 0
RunIds == [sched : Scheds, at : Times \cup {RunNow}]
Occurrence(s, t) == [sched |-> s, at |-> t]

\* "removed": the row was deleted with its schedule; an insert would succeed.
Statuses  == {"absent", "pending", "running", "ok", "failed", "blocked",
              "done", "dismissed", "removed"}
Stored(r) == runs[r] \notin {"absent", "removed"}

\* What the pass keeps of a row it has read, and of the row it is claiming.
Snapshot == [sched : Scheds, planned : Times, spec : Specs, target : {"task", "job"},
             cool : Nat]
Seen     == [planned : Nat, at : Nat]
NotSeen  == [planned |-> Null, at |-> 0]

Outcomes == {"ok", "failed", "blocked", "neutral"}
Flight   == [proc : Procs, run : RunIds, phase : {"run", "finalize", "record"},
             outcome : Outcomes \cup {"none"}]
FlightsOf(p) == {f \in flights : f.proc = p}

Larger(a, b)  == IF a > b THEN a ELSE b
Smaller(a, b) == IF a < b THEN a ELSE b

-----------------------------------------------------------------------------
Init ==
    /\ now = 1
    /\ docs = [s \in Scheds |-> NoDoc]
    /\ runs = [r \in RunIds |-> "absent"]
    /\ purging = {}
    /\ life = [p \in Procs |-> "down"]
    /\ step = [p \in Procs |-> "none"]
    /\ due = [p \in Procs |-> {}]
    /\ listed = [p \in Procs |-> {}]
    /\ cur = [p \in Procs |-> {}]
    /\ clock = [p \in Procs |-> 0]
    /\ seen = [p \in Procs |-> [s \in Scheds |-> NotSeen]]
    /\ flights = {}
    /\ edits = 0
    /\ faults = 0
    /\ fired = [r \in RunIds |-> 0]
    /\ deferred = {}

-----------------------------------------------------------------------------
(* The owner                                                               *)

\* nextOccurrence: the first occurrence strictly after an instant.
NextOccurrence(spec, after) ==
    IF spec = Every THEN after + 1 ELSE IF spec > after THEN spec ELSE Null

\* validateSpec: a one-time instant must lie ahead.
ValidSpec(spec, at) == spec = Every \/ spec > at

Create(s) ==
    /\ docs[s].state = "new"
    /\ \E spec \in Specs, target \in Targets, on \in {"yes", "no"} :
          /\ ValidSpec(spec, now)
          /\ docs' = [docs EXCEPT ![s] =
                [NoDoc EXCEPT !.state = "live", !.enabled = on, !.spec = spec, !.target = target,
                    !.next = IF on = "yes" THEN NextOccurrence(spec, now) ELSE Null]]
    /\ UNCHANGED <<now, runs, purging, life, passVars, flights, faults, fired, deferred, edits>>

\* patchSchedule's mutator.  "at" is the instant the request was received.
Patched(doc, spec, target, enabled, at) ==
    LET on == IF enabled = "keep" THEN doc.enabled ELSE enabled
        cadence == IF spec = Same THEN doc.spec ELSE spec
        changed == spec # Same \/ enabled # "keep" \/ doc.next = Null
        cleared == enabled = "yes"
    IN [doc EXCEPT !.spec = cadence, !.target = target, !.enabled = on,
           !.next = IF on = "no" THEN Null
                    ELSE IF changed THEN NextOccurrence(cadence, at) ELSE doc.next,
           !.failures = IF cleared THEN 0 ELSE @,
           !.streak = IF cleared THEN 0 ELSE @,
           !.cool = IF cleared THEN Null ELSE @]

\* An edit reads the clock when it arrives and writes a moment later.
Patch(s) ==
    /\ docs[s].state = "live"
    /\ edits < MaxEdits                                     \* bound
    /\ \E at \in {now, now - 1}, target \in Targets, enabled \in {"keep", "yes", "no"} :
          \/ docs' = [docs EXCEPT ![s] = Patched(@, Same, target, enabled, at)]
          \/ \E spec \in Specs :
                /\ ValidSpec(spec, at)
                /\ docs' = [docs EXCEPT ![s] = Patched(@, spec, target, enabled, at)]
    /\ deferred' = {x \in deferred : x[2] # s}
    /\ edits' = edits + 1
    /\ UNCHANGED <<now, runs, purging, life, passVars, flights, faults, fired>>

\* deleteSchedule: the row first, its runs, one by one, in a second call.
Delete(s) ==
    /\ docs[s].state = "live"
    /\ edits < MaxEdits                                     \* bound
    /\ edits' = edits + 1
    /\ docs' = [docs EXCEPT ![s] = [NoDoc EXCEPT !.state = "gone"]]
    /\ purging' = purging \cup {s}
    /\ deferred' = {x \in deferred : x[2] # s}
    /\ UNCHANGED <<now, runs, life, passVars, flights, faults, fired>>

DeleteRuns(s) ==
    /\ s \in purging
    /\ LET rows == {r \in RunIds : r.sched = s /\ Stored(r)}
       IN \/ /\ \E r \in rows : runs' = [runs EXCEPT ![r] = "removed"]
             /\ UNCHANGED purging
          \/ /\ rows = {}
             /\ purging' = purging \ {s}
             /\ UNCHANGED runs
    /\ UNCHANGED <<now, docs, life, passVars, flights, faults, fired, deferred, edits>>

\* The process dies, or the store throws, between the two calls.
DeleteRunsLost(s) ==
    /\ s \in purging
    /\ faults < MaxFaults                                   \* bound
    /\ faults' = faults + 1
    /\ purging' = purging \ {s}
    /\ UNCHANGED <<now, docs, runs, life, passVars, flights, fired, deferred, edits>>

\* completeRun: only a pending task can be done or dismissed.
CompleteRun(r) ==
    /\ runs[r] = "pending"
    /\ \E s \in {"done", "dismissed"} : runs' = [runs EXCEPT ![r] = s]
    /\ UNCHANGED <<now, docs, purging, life, passVars, flights, faults, fired, deferred, edits>>

\* A manual task waits for its owner; every other target is executed.
ClaimedAs(target) == IF target = "task" THEN "pending" ELSE "running"

Launch(p, r) == flights \cup {[proc |-> p, run |-> r, phase |-> "run", outcome |-> "none"]}

\* fireNow: out of band, whatever the supervisor is doing, the slots included.
FireNow(p, s) ==
    LET r == [sched |-> s, at |-> RunNow]
    IN  /\ life[p] # "down"
        /\ docs[s].state = "live"
        /\ runs[r] = "absent"                               \* bound: one per schedule
        /\ runs' = [runs EXCEPT ![r] = ClaimedAs(docs[s].target)]
        /\ flights' = IF docs[s].target = "task" THEN flights ELSE Launch(p, r)
        /\ UNCHANGED <<now, docs, purging, life, passVars, faults, fired, deferred, edits>>

-----------------------------------------------------------------------------
(* The pass                                                                *)

\* listDueSchedules, at the instant the whole pass will judge by.
TickStarts(p) ==
    /\ life[p] = "up"
    /\ step[p] = "none"
    /\ step' = [step EXCEPT ![p] = "judge"]
    /\ clock' = [clock EXCEPT ![p] = now]
    /\ listed' = [listed EXCEPT ![p] = {}]
    /\ due' = [due EXCEPT ![p] =
          {[sched |-> s, planned |-> docs[s].next, spec |-> docs[s].spec,
            target |-> docs[s].target, cool |-> docs[s].cool] :
              s \in {x \in Scheds : /\ docs[x].state = "live" /\ docs[x].enabled = "yes"
                                    /\ docs[x].next # Null /\ docs[x].next <= now}}]
    /\ UNCHANGED <<now, docs, runs, purging, life, cur, seen, flights, faults, fired, deferred, edits>>

\* Mutant: the grace is measured by the clock of the pass alone.
FirstSeenNow(p, d) == clock[p]

\* firstSeenDue, and the two verdicts on a due schedule.
FirstSeen(p, d) == IF seen[p][d.sched].planned = d.planned
                   THEN seen[p][d.sched].at ELSE clock[p]
IsStale(p, d)   == FirstSeen(p, d) > d.planned + Grace
IsCooling(p, d) == d.cool > clock[p]
NoSlot(p)       == Cardinality(FlightsOf(p)) >= MaxConcurrent

\* The loop takes the schedules in the order of nextRunAt, and stops at the
\* first it meets after stop() has moved the generation.
IsNext(p, d) ==
    /\ life[p] = "up"
    /\ step[p] = "judge"
    /\ d \in due[p]
    /\ \A x \in due[p] : d.planned <= x.planned

Visits(p, d) ==
    /\ IsNext(p, d)
    /\ due' = [due EXCEPT ![p] = @ \ {d}]
    /\ listed' = [listed EXCEPT ![p] = @ \cup {d.sched}]

Forget(p, s) == seen' = [seen EXCEPT ![p][s] = NotSeen]

\* advance's mutator: past the occurrence, and not before "adopt"; an edit that
\* moved the pointer meanwhile wins.
Advanced(doc, planned, adopt) ==
    IF doc.state # "live" \/ doc.next # planned THEN doc
    ELSE [doc EXCEPT !.next = IF doc.enabled = "no" THEN Null
             ELSE NextOccurrence(doc.spec, Larger(planned, IF adopt > 0 THEN adopt - 1 ELSE 0))]

\* advance swallows a store error: the pointer then stays where it is.
Advance(s, planned, adopt) ==
    \/ /\ docs' = [docs EXCEPT ![s] = Advanced(@, planned, adopt)]
       /\ UNCHANGED faults
    \/ /\ faults < MaxFaults                                \* bound
       /\ faults' = faults + 1
       /\ UNCHANGED docs

\* 1. A recurring occurrence beyond the grace: adopt the present.
SkipStale(p, d) ==
    /\ Visits(p, d)
    /\ IsStale(p, d) /\ d.spec = Every
    /\ Advance(d.sched, d.planned, clock[p])
    /\ Forget(p, d.sched)
    /\ UNCHANGED <<now, runs, purging, life, step, cur, clock, flights, fired, deferred, edits>>

\* Mutant: a missed one-time occurrence is skipped like a recurring one.
MissOnceSilently(p, d) ==
    /\ Visits(p, d)
    /\ IsStale(p, d) /\ d.spec # Every
    /\ cur' = [cur EXCEPT ![p] = {d}]
    /\ step' = [step EXCEPT ![p] = "adopt"]
    /\ Forget(p, d.sched)
    /\ UNCHANGED <<now, docs, runs, purging, life, clock, flights, faults, fired, deferred, edits>>

\* 1. A one-time occurrence beyond the grace: its row lands terminal.
MissOnce(p, d) ==
    LET r == Occurrence(d.sched, d.planned)
    IN  /\ Visits(p, d)
        /\ IsStale(p, d) /\ d.spec # Every
        /\ cur' = [cur EXCEPT ![p] = {d}]
        /\ IF Stored(r)
           THEN step' = [step EXCEPT ![p] = "adopt"] /\ UNCHANGED runs
           ELSE step' = [step EXCEPT ![p] = "miss"] /\ runs' = [runs EXCEPT ![r] = "failed"]
        /\ Forget(p, d.sched)
        /\ UNCHANGED <<now, docs, purging, life, clock, flights, faults, fired, deferred, edits>>

\* 1b. A cooling schedule moves past the cooldown and claims nothing.
CoolDown(p, d) ==
    /\ Visits(p, d)
    /\ ~IsStale(p, d) /\ IsCooling(p, d)
    /\ Advance(d.sched, d.planned, d.cool)
    /\ Forget(p, d.sched)
    /\ deferred' = deferred \ {<<p, d.sched, d.planned>>}
    /\ UNCHANGED <<now, runs, purging, life, step, cur, clock, flights, fired, edits>>

MustWait(p, d) == d.target = "job" /\ NoSlot(p)

\* Every slot is busy: the occurrence waits for the next pass, its grace kept.
Defer(p, d) ==
    /\ Visits(p, d)
    /\ ~IsStale(p, d) /\ ~IsCooling(p, d) /\ MustWait(p, d)
    /\ seen' = [seen EXCEPT ![p][d.sched] = [planned |-> d.planned, at |-> FirstSeen(p, d)]]
    /\ deferred' = deferred \cup {<<p, d.sched, d.planned>>}
    /\ UNCHANGED <<now, docs, runs, purging, life, step, cur, clock, flights, faults, fired, edits>>

\* Mutant: the run row is put rather than inserted.
ClaimUpserts(p, d) ==
    /\ Visits(p, d)
    /\ ~IsStale(p, d) /\ ~IsCooling(p, d) /\ ~MustWait(p, d)
    /\ cur' = [cur EXCEPT ![p] = {d}]
    /\ step' = [step EXCEPT ![p] = "won"]
    /\ runs' = [runs EXCEPT ![Occurrence(d.sched, d.planned)] = ClaimedAs(d.target)]
    /\ Forget(p, d.sched)
    /\ UNCHANGED <<now, docs, purging, life, clock, flights, faults, fired, deferred, edits>>

\* 2. The insert of the deterministic run row is the claim.
Claim(p, d) ==
    LET r == Occurrence(d.sched, d.planned)
    IN  /\ Visits(p, d)
        /\ ~IsStale(p, d) /\ ~IsCooling(p, d) /\ ~MustWait(p, d)
        /\ cur' = [cur EXCEPT ![p] = {d}]
        /\ IF Stored(r)
           THEN step' = [step EXCEPT ![p] = "lost"] /\ UNCHANGED runs
           ELSE /\ step' = [step EXCEPT ![p] = "won"]
                /\ runs' = [runs EXCEPT ![r] = ClaimedAs(d.target)]
        /\ Forget(p, d.sched)
        /\ UNCHANGED <<now, docs, purging, life, clock, flights, faults, fired, deferred, edits>>

\* The insert of a claim, or of a missed run, throws, having reached the database
\* or not: the pass is over.
InsertThrows(p, d) ==
    LET r == Occurrence(d.sched, d.planned)
    IN  /\ IsNext(p, d)
        /\ faults < MaxFaults                               \* bound
        /\ faults' = faults + 1
        /\ \/ /\ ~IsStale(p, d) /\ ~IsCooling(p, d) /\ ~MustWait(p, d)
              /\ \/ UNCHANGED runs
                 \/ ~Stored(r) /\ runs' = [runs EXCEPT ![r] = ClaimedAs(d.target)]
           \/ /\ IsStale(p, d) /\ d.spec # Every
              /\ \/ UNCHANGED runs
                 \/ ~Stored(r) /\ runs' = [runs EXCEPT ![r] = "failed"]
        /\ seen' = [seen EXCEPT ![p][d.sched] = [planned |-> d.planned, at |-> FirstSeen(p, d)]]
        /\ step' = [step EXCEPT ![p] = "none"]
        /\ due' = [due EXCEPT ![p] = {}]
        /\ listed' = [listed EXCEPT ![p] = {}]
        /\ clock' = [clock EXCEPT ![p] = 0]
        /\ UNCHANGED <<now, docs, purging, life, cur, flights, fired, deferred, edits>>

\* Mutant: the pass returns before the advance when it has not won the claim.
AdvanceWonOnly(p) ==
    /\ step[p] \in {"won", "lost"}
    /\ \E d \in cur[p] :
          LET r == Occurrence(d.sched, d.planned)
          IN  IF step[p] = "lost" THEN UNCHANGED <<docs, faults, flights, fired>>
              ELSE /\ Advance(d.sched, d.planned, 0)
                   /\ IF d.target = "job"
                      THEN /\ flights' = Launch(p, r)
                           /\ fired' = [fired EXCEPT ![r] = @ + 1]
                      ELSE UNCHANGED <<flights, fired>>
    /\ cur' = [cur EXCEPT ![p] = {}]
    /\ step' = [step EXCEPT ![p] = "judge"]
    /\ UNCHANGED <<now, runs, purging, life, due, listed, clock, seen, deferred, edits>>

\* 3. The pointer moves before the fire, whoever owns the claim.
\* 4. The winner of an executable target fires it without awaiting it; a manual
\*    task is its pending row.
AdvanceClaimed(p) ==
    /\ step[p] \in {"won", "lost"}
    /\ \E d \in cur[p] :
          LET r == Occurrence(d.sched, d.planned)
          IN  /\ Advance(d.sched, d.planned, 0)
              /\ IF step[p] = "won" /\ d.target = "job"
                 THEN /\ flights' = Launch(p, r)
                      /\ fired' = [fired EXCEPT ![r] = @ + 1]
                 ELSE UNCHANGED <<flights, fired>>
    /\ cur' = [cur EXCEPT ![p] = {}]
    /\ step' = [step EXCEPT ![p] = "judge"]
    /\ UNCHANGED <<now, runs, purging, life, due, listed, clock, seen, deferred, edits>>

\* The pass has visited everything, or stop() abandoned it: an occurrence that
\* is no longer due is forgotten, but not on the word of an abandoned pass.
PassEnds(p) ==
    /\ step[p] = "judge"
    /\ due[p] = {} \/ life[p] # "up"
    /\ step' = [step EXCEPT ![p] = "none"]
    /\ seen' = IF due[p] = {}
               THEN [seen EXCEPT ![p] = [s \in Scheds |->
                        IF s \in listed[p] THEN seen[p][s] ELSE NotSeen]]
               ELSE seen
    /\ due' = [due EXCEPT ![p] = {}]
    /\ listed' = [listed EXCEPT ![p] = {}]
    /\ clock' = [clock EXCEPT ![p] = 0]
    /\ UNCHANGED <<now, docs, runs, purging, life, cur, flights, faults, fired, deferred, edits>>

-----------------------------------------------------------------------------
(* The outcome                                                             *)

\* neutralBackoffMs: 1, 2, 4 ... units, capped.
Backoff(n) == Smaller(2 ^ (n - 1), BackoffCap)

\* Mutant: the auto-pause leaves the pointer where it was.
RecordedPointerKept(doc, outcome) ==
    LET failures == CASE outcome = "ok"      -> 0
                      [] outcome = "neutral" -> doc.failures
                      [] OTHER               -> doc.failures + 1
        streak   == IF outcome = "neutral" THEN doc.streak + 1 ELSE 0
    IN IF doc.state # "live" THEN doc
       ELSE [doc EXCEPT !.failures = failures, !.streak = streak,
                !.cool = IF outcome = "neutral" THEN now + Backoff(streak) ELSE Null,
                !.enabled = IF failures >= Ceiling THEN "no" ELSE @]

\* recordOutcome's mutator: only an ok resets the counter, a neutral block
\* leaves it and cools the schedule, anything else counts towards the ceiling.
Recorded(doc, outcome) ==
    LET failures == CASE outcome = "ok"      -> 0
                      [] outcome = "neutral" -> doc.failures
                      [] OTHER               -> doc.failures + 1
        streak   == IF outcome = "neutral" THEN doc.streak + 1 ELSE 0
        pause    == /\ outcome \in {"failed", "blocked"} /\ failures >= Ceiling
                    /\ doc.enabled = "yes"
    IN IF doc.state # "live" THEN doc
       ELSE [doc EXCEPT !.failures = failures, !.streak = streak,
                !.cool = IF outcome = "neutral" THEN now + Backoff(streak) ELSE Null,
                !.enabled = IF pause THEN "no" ELSE @,
                !.next = IF pause THEN Null ELSE @]

\* A store error of recordOutcome is swallowed too.
Record(s, outcome) ==
    \/ /\ docs' = [docs EXCEPT ![s] = Recorded(@, outcome)]
       /\ UNCHANGED faults
    \/ /\ faults < MaxFaults                                \* bound
       /\ faults' = faults + 1
       /\ UNCHANGED docs

\* The missed one-time occurrence is an outcome like any other, and then the
\* pointer adopts the present.
RecordMiss(p) ==
    /\ step[p] = "miss"
    /\ \E d \in cur[p] : Record(d.sched, "failed")
    /\ step' = [step EXCEPT ![p] = "adopt"]
    /\ UNCHANGED <<now, runs, purging, life, due, listed, cur, clock, seen, flights, fired, deferred, edits>>

AdoptPresent(p) ==
    /\ step[p] = "adopt"
    /\ \E d \in cur[p] : Advance(d.sched, d.planned, clock[p])
    /\ cur' = [cur EXCEPT ![p] = {}]
    /\ step' = [step EXCEPT ![p] = "judge"]
    /\ UNCHANGED <<now, runs, purging, life, due, listed, clock, seen, flights, fired, deferred, edits>>

Becomes(f, g) == flights' = (flights \ {f}) \cup {g}

TargetAnswers(f) ==
    /\ f.phase = "run"
    /\ \E o \in Outcomes : Becomes(f, [f EXCEPT !.phase = "finalize", !.outcome = o])
    /\ UNCHANGED <<now, docs, runs, purging, life, passVars, faults, fired, deferred, edits>>

\* finalizeRun: a row that is gone is left alone.
Finalize(f) ==
    /\ f.phase = "finalize"
    /\ Becomes(f, [f EXCEPT !.phase = "record"])
    /\ runs' = IF Stored(f.run)
               THEN [runs EXCEPT ![f.run] = IF f.outcome = "neutral" THEN "blocked" ELSE f.outcome]
               ELSE runs
    /\ UNCHANGED <<now, docs, purging, life, passVars, faults, fired, deferred, edits>>

RecordOutcome(f) ==
    /\ f.phase = "record"
    /\ Record(f.run.sched, f.outcome)
    /\ flights' = flights \ {f}
    /\ UNCHANGED <<now, runs, purging, life, passVars, fired, deferred, edits>>

\* finalizeRun throws: the fire is over and its row stays running.
FinalizeThrows(f) ==
    /\ f.phase = "finalize"
    /\ faults < MaxFaults                                   \* bound
    /\ faults' = faults + 1
    /\ flights' = flights \ {f}
    /\ UNCHANGED <<now, docs, runs, purging, life, passVars, fired, deferred, edits>>

-----------------------------------------------------------------------------
(* Start, stop, crash, and the clock                                       *)

Start(p) ==
    /\ life[p] = "down"
    /\ life' = [life EXCEPT ![p] = "up"]
    /\ UNCHANGED <<now, docs, runs, purging, passVars, flights, faults, fired, deferred, edits>>

\* stop() first moves the generation: the pass claims nothing new ...
Stop(p) ==
    /\ life[p] = "up"
    /\ faults < MaxFaults                                   \* bound: shared with crashes
    /\ faults' = faults + 1
    /\ life' = [life EXCEPT ![p] = "stopping"]
    /\ UNCHANGED <<now, docs, runs, purging, passVars, flights, fired, deferred, edits>>

\* Mutant: only the fires in flight are awaited, not the pass.
StopReturnsMidPass(p) ==
    /\ life[p] = "stopping"
    /\ FlightsOf(p) = {}
    /\ life' = [life EXCEPT ![p] = "stopped"]
    /\ seen' = [seen EXCEPT ![p] = [s \in Scheds |-> NotSeen]]
    /\ UNCHANGED <<now, docs, runs, purging, step, due, listed, cur, clock, flights, faults, fired, deferred, edits>>

\* ... then it awaits the pass, and after it the fires until none remain.
StopReturns(p) ==
    /\ life[p] = "stopping"
    /\ step[p] = "none"
    /\ FlightsOf(p) = {}
    /\ life' = [life EXCEPT ![p] = "stopped"]
    /\ seen' = [seen EXCEPT ![p] = [s \in Scheds |-> NotSeen]]
    /\ UNCHANGED <<now, docs, runs, purging, step, due, listed, cur, clock, flights, faults, fired, deferred, edits>>

Gone(p) ==
    /\ life' = [life EXCEPT ![p] = "down"]
    /\ step' = [step EXCEPT ![p] = "none"]
    /\ due' = [due EXCEPT ![p] = {}]
    /\ listed' = [listed EXCEPT ![p] = {}]
    /\ cur' = [cur EXCEPT ![p] = {}]
    /\ seen' = [seen EXCEPT ![p] = [s \in Scheds |-> NotSeen]]
    /\ flights' = flights \ FlightsOf(p)
    /\ clock' = [clock EXCEPT ![p] = 0]
    /\ deferred' = {x \in deferred : x[1] # p}
    /\ UNCHANGED <<now, docs, runs, purging, fired, edits>>

\* process.exit once every stop has returned.
Exit(p) == life[p] = "stopped" /\ Gone(p) /\ UNCHANGED faults

Crash(p) ==
    /\ life[p] # "down"
    /\ faults < MaxFaults                                   \* bound
    /\ faults' = faults + 1
    /\ Gone(p)

ClockTicks ==
    /\ now < MaxTime                                        \* bound
    /\ now' = now + 1
    /\ UNCHANGED <<docs, runs, purging, life, passVars, flights, faults, fired, deferred, edits>>

-----------------------------------------------------------------------------
Visit(p, d) == \/ SkipStale(p, d) \/ MissOnce(p, d) \/ CoolDown(p, d)
               \/ Defer(p, d) \/ Claim(p, d)

PassStep(p) == \/ \E d \in due[p] : Visit(p, d)
               \/ AdvanceClaimed(p) \/ RecordMiss(p) \/ AdoptPresent(p) \/ PassEnds(p)

FlightStep(f) == TargetAnswers(f) \/ Finalize(f) \/ RecordOutcome(f)

Next ==
    \/ \E s \in Scheds : Create(s) \/ Patch(s) \/ Delete(s) \/ DeleteRuns(s) \/ DeleteRunsLost(s)
    \/ \E r \in RunIds : CompleteRun(r)
    \/ \E p \in Procs, s \in Scheds : FireNow(p, s)
    \/ \E p \in Procs : TickStarts(p) \/ PassStep(p)
    \/ \E p \in Procs : \E d \in due[p] : InsertThrows(p, d)
    \/ \E f \in flights : FlightStep(f) \/ FinalizeThrows(f)
    \/ \E p \in Procs : Start(p) \/ Stop(p) \/ StopReturns(p) \/ Exit(p) \/ Crash(p)
    \/ ClockTicks

Spec == Init /\ [][Next]_vars

\* The interval ticks, a pass and a fire go on, a target answers in the end, a
\* process that is down is started again and a stop is followed by the exit.
\* Nothing obliges the owner, the clock, a stop or a fault to happen.
Fairness ==
    /\ \A p \in Procs :
          /\ WF_vars(TickStarts(p))
          /\ WF_vars(PassStep(p))
          /\ WF_vars(Start(p) \/ StopReturns(p) \/ Exit(p))
    /\ WF_vars(\E f \in flights : FlightStep(f))

FairSpec == Spec /\ Fairness

-----------------------------------------------------------------------------
(* Properties                                                              *)

VariablesOK ==
    /\ now \in Nat
    /\ docs \in [Scheds -> Doc]
    /\ runs \in [RunIds -> Statuses]
    /\ purging \in SUBSET Scheds
    /\ life \in [Procs -> {"down", "up", "stopping", "stopped"}]
    /\ step \in [Procs -> {"none", "judge", "won", "lost", "miss", "adopt"}]
    /\ due \in [Procs -> SUBSET Snapshot]
    /\ listed \in [Procs -> SUBSET Scheds]
    /\ cur \in [Procs -> SUBSET Snapshot]
    /\ clock \in [Procs -> Nat]
    /\ seen \in [Procs -> [Scheds -> Seen]]
    /\ flights \subseteq Flight
    /\ edits \in Nat /\ faults \in Nat
    /\ fired \in [RunIds -> Nat]
    /\ deferred \subseteq (Procs \X Scheds \X Times)

PhasesOK ==
    /\ \A p \in Procs :
          /\ step[p] \in {"won", "lost", "miss", "adopt"} <=> cur[p] # {}
          /\ step[p] = "none" => due[p] = {}
          /\ life[p] \in {"down", "stopped"} => step[p] = "none"
    /\ \A f \in flights :
          /\ life[f.proc] # "down"
          /\ f.phase = "run" <=> f.outcome = "none"

\* Every variable holds a value the program could hold; a schedule is in hand
\* only between its claim and its advance, and a supervisor that has stopped
\* or gone has no pass.
TypeOK == VariablesOK /\ PhasesOK

\* An occurrence of a schedule that still exists is executed at most once,
\* however many processes see it due and wherever they crash: the insert of the
\* deterministic run row decides (supervisor.ts:17-23, "never a double fire").
AtMostOnce ==
    \A s \in Scheds, t \in Times : docs[s].state = "live" => fired[Occurrence(s, t)] <= 1

\* Pointer, ceiling and switch agree, whichever of an edit, a late outcome of an
\* old fire, an auto-pause and an advance came last: a paused schedule never looks
\* due, and none runs on at the ceiling (supervisor.ts:520-551, service.ts:183-226).
PauseAgrees ==
    \A s \in Scheds :
       /\ docs[s].enabled = "no" => docs[s].next = Null
       /\ docs[s].enabled = "yes" => docs[s].failures < Ceiling

\* An occurrence the supervisor itself put off is not called stale by the same
\* process while nobody has claimed it, unless an edit, a deletion or a cooldown
\* came between: its own queueing cannot turn a live occurrence into a skipped one (supervisor.ts:14-15).
DeferralKeepsGrace ==
    \A p \in Procs : step[p] = "judge" =>
       \A d \in due[p] : <<p, d.sched, d.planned>> \in deferred /\ IsStale(p, d)
          => Stored(Occurrence(d.sched, d.planned))

\* Shutdown drains to empty: when stop() has returned, no claimed occurrence is
\* still executing or about to (supervisor.ts:183-187).
StopDrains ==
    \A p \in Procs : life[p] = "stopped" =>
       /\ step[p] = "none"
       /\ \A f \in FlightsOf(p) : f.run.at = RunNow

\* The step drops the pointer of an enabled one-time schedule.
DropsOnce(s) ==
    /\ docs[s].state = "live" /\ docs[s].enabled = "yes"
    /\ docs[s].spec # Every /\ docs[s].next # Null
    /\ docs'[s].state = "live" /\ docs'[s].next = Null

LeavesRow(s) == DropsOnce(s) => runs'[Occurrence(s, docs[s].next)] \notin {"absent", "removed"}

\* A pass that fires or skips a one-time occurrence leaves its run row behind.
FiredOrMissedLeavesRow ==
    [][\A p \in Procs, s \in Scheds :
          (AdvanceClaimed(p) \/ AdoptPresent(p) \/ \E d \in due[p] : SkipStale(p, d))
             => LeavesRow(s)]_vars

\* supervisor.ts:12-13, of a one-time schedule: "vanishing without a trace is
\* the one outcome a missed one-time schedule must not have".
OnceLeavesTrace ==
    [][\A p \in Procs, s \in Scheds : PassStep(p) => LeavesRow(s)]_vars

\* A pointer that has come due moves on: the occurrence is fired, skipped or
\* edited away, and neither a lost claim, a slow fire nor a restart pins it.
DueIsServed ==
    \A s \in Scheds, t \in Times :
       docs[s].next = t /\ now >= t ~> docs[s].next # t

-----------------------------------------------------------------------------
(* The abstract lifecycle of WorkItem                                      *)

\* A claimed occurrence is taken for good: nothing hands it back.  What becomes
\* of the rows of a deleted schedule is not a matter of this lifecycle.
Stage(r) ==
    IF docs[r.sched].state = "gone" THEN "ended"
    ELSE CASE runs[r] = "absent"                 -> "absent"
           [] runs[r] \in {"pending", "running"} -> "taken"
           [] OTHER                              -> "ended"

Work == INSTANCE WorkItem WITH
            Items <- RunIds, MayRequeue <- FALSE,
            state <- [r \in RunIds |-> Stage(r)]

\* While its schedule exists, a run row is recorded once and ends once: a claim
\* is never handed back and a finished or dismissed run never runs again, however
\* the fire, the owner's answer, a lost claim and a crash interleave.
ImplementsWorkItem == Work!WorkSpec
=============================================================================

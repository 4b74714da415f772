----------------------------- MODULE VerifiedSync ------------------------------
(***************************************************************************)
(* The completeness-verified sync of one key (api/src/events):             *)
(* runVerifiedSync (verified-sync.ts), its state row (sync-state.ts), and   *)
(* the queue of one (sync-serialize.ts) behind which                       *)
(* a process runs one sync of the key at a time.  Two processes do overlap:*)
(* the queue is local to each.                                             *)
(*                                                                         *)
(* The source is external.  It makes an item visible no later than Lag     *)
(* after the item's own date, and it answers a walk as the contract in     *)
(* verified-sync.ts asks.  The streaks and the last outcome of the row and *)
(* the reports are left out: nothing reads them but a view.                *)
(***************************************************************************)
EXTENDS Integers, FiniteSets

CONSTANTS Procs,    \* processes that sync the key
          Items,    \* bound: what the source will ever publish
          Lag,      \* the longest the source takes to publish
          Skew,     \* untilSkewMs
          Margin,   \* SEEN_MARGIN_MS
          Cap,      \* SEEN_HARD_CAP
          MaxTime,  \* bound: the clock stops here
          MaxRuns   \* bound: runs started in one behaviour

ASSUME SyncAssumption ==
    /\ Lag \in Nat /\ Skew \in Nat /\ Margin \in Nat /\ Cap \in Nat
    /\ MaxTime \in Nat /\ MaxRuns \in Nat
    /\ Lag <= Skew                      \* the clause #visibility-monotonic

VARIABLES now,        \* the clock
          date,       \* the date each item bears
          visible,    \* the items the source shows
          watermark, seen,   \* the state row
          landed,     \* the landed items
          trusted,    \* history: whether a count alone ever proved a run complete
          started,    \* number of runs so far
          phase,      \* where the run of each process is
          until,      \* its ceiling
          since, known,      \* the row as it read it
          sight,      \* what the window held when the walk began
          swept,      \* the items of its walks
          todo,       \* those of the last walk still to land
          proof       \* what would prove it complete: "end", "count" or nothing

world   == <<now, date, visible>>
row     == <<watermark, seen>>
held    == <<until, since, known, sight, swept, todo, proof>>
vars    == <<world, row, landed, trusted, started, phase, held>>

\* No watermark yet: below every date and every ceiling.
Null == -Skew - 1

Phases == {"idle", "read", "walk1", "land1", "walk2", "land2"}

Init ==
    /\ now = 0
    /\ date \in [Items -> 0..(MaxTime - Skew)]
    /\ visible = {}
    /\ watermark = Null /\ seen = {} /\ landed = {}
    /\ trusted = "no"
    /\ started = 0
    /\ phase = [p \in Procs |-> "idle"]
    /\ until = [p \in Procs |-> Null] /\ since = [p \in Procs |-> Null]
    /\ known = [p \in Procs |-> {}]   /\ sight = [p \in Procs |-> {}]
    /\ swept = [p \in Procs |-> {}]   /\ todo = [p \in Procs |-> {}]
    /\ proof = [p \in Procs |-> "none"]

-----------------------------------------------------------------------------
(* The source                                                              *)

Publish(i) ==
    /\ i \in Items \ visible
    /\ date[i] <= now
    /\ visible' = visible \cup {i}
    /\ UNCHANGED <<now, date, row, landed, trusted, started, phase, held>>

ClockTicks ==
    /\ now < MaxTime                                        \* bound
    /\ \A i \in Items : date[i] + Lag <= now => i \in visible
    /\ now' = now + 1
    /\ UNCHANGED <<date, visible, row, landed, trusted, started, phase, held>>

\* The window has no ceiling, and includes its floor.
Sight(floor) == {i \in visible : date[i] >= floor}

\* A walk answers any of the items that are visible by its end; when it has
\* reached the end of the window, all those that were visible at its beginning.
Answers(p, items, end) ==
    /\ items \subseteq visible
    /\ end = "end" => sight[p] \subseteq items

-----------------------------------------------------------------------------
(* One run                                                                 *)

Goes(p, from, to) == phase[p] = from /\ phase' = [phase EXCEPT ![p] = to]

\* Mutant: the ceiling is the clock's.
CeilingAtNow == now

\* The clock, held back.
Ceiling == now - Skew

\* The queue of one, and the ceiling, taken before the row is read.
Start(p) ==
    /\ started < MaxRuns                                    \* bound
    /\ started' = started + 1
    /\ Goes(p, "idle", "read")
    /\ until' = [until EXCEPT ![p] = Ceiling]
    /\ UNCHANGED <<world, row, landed, trusted, since, known, sight, swept, todo, proof>>

\* The row is read and the first walk begins.
Read(p) ==
    /\ Goes(p, "read", "walk1")
    /\ since' = [since EXCEPT ![p] = watermark]
    /\ known' = [known EXCEPT ![p] = seen]
    /\ sight' = [sight EXCEPT ![p] = Sight(watermark)]
    /\ UNCHANGED <<world, row, landed, trusted, started, until, swept, todo, proof>>

\* Mutant: what the row knows is landed again.
NewItemsAll(p, items) == items \ swept[p]

\* The items that neither the row nor an earlier walk of the run accounts for.
NewItems(p, items) == items \ (known[p] \cup swept[p])

\* countCheck: the advertised total is the number of items the window had.
CountMatches(p, items) == Cardinality(items) = Cardinality(sight[p])

\* What a walk may prove: its count, when the source advertised a total, and
\* otherwise that it reached the end.
Proves(p, items, end, proven) ==
    \/ proven = (IF end = "end" THEN "end" ELSE "none")
    \/ proven = (IF CountMatches(p, items) THEN "count" ELSE "none")

Sweeps(p, items) ==
    /\ swept' = [swept EXCEPT ![p] = @ \cup items]
    /\ todo' = [todo EXCEPT ![p] = NewItems(p, items)]
    /\ sight' = [sight EXCEPT ![p] = {}]

FirstWalk(p) ==
    /\ Goes(p, "walk1", "land1")
    /\ \E items \in SUBSET visible, end \in {"end", "cut"}, proven \in {"end", "count", "none"} :
          /\ Answers(p, items, end)
          /\ Proves(p, items, end, proven)
          /\ Sweeps(p, items)
          /\ proof' = [proof EXCEPT ![p] = proven]
    /\ UNCHANGED <<world, row, landed, trusted, started, until, since, known>>

\* Mutant: a land that failed is taken for a duplicate.
LandRefused(p, i) ==
    /\ i \in todo[p]
    /\ landed' \in {landed, landed \cup {i}}
    /\ todo' = [todo EXCEPT ![p] = @ \ {i}]
    /\ UNCHANGED <<world, row, trusted, started, phase, until, since, known, sight, swept, proof>>

\* One item lands, or is found to have landed before.
Land(p, i) ==
    /\ i \in todo[p]
    /\ landed' = landed \cup {i}
    /\ todo' = [todo EXCEPT ![p] = @ \ {i}]
    /\ UNCHANGED <<world, row, trusted, started, phase, until, since, known, sight, swept, proof>>

\* All new items of the first walk have landed: the second one begins, and the
\* floor is not asked for again.
WalkAgain(p) ==
    /\ todo[p] = {}
    /\ Goes(p, "land1", "walk2")
    /\ sight' = [sight EXCEPT ![p] = Sight(since[p])]
    /\ since' = [since EXCEPT ![p] = Null]
    /\ UNCHANGED <<world, row, landed, trusted, started, until, known, swept, todo, proof>>

\* The run stays as proved as it was when the second walk adds no item and, short
\* of a matching count, reaches the end as well.
SecondWalk(p) ==
    /\ Goes(p, "walk2", "land2")
    /\ \E items \in SUBSET visible, end \in {"end", "cut"} :
          /\ Answers(p, items, end)
          /\ Sweeps(p, items)
          /\ proof' = [proof EXCEPT ![p] =
                IF NewItems(p, items) = {} /\ (end = "end" \/ @ = "count") THEN @ ELSE "none"]
    /\ UNCHANGED <<world, row, landed, trusted, started, until, since, known>>

\* newSeen: every item this run was the one to land.
NewSeen(p) == swept[p] \ known[p]

\* pruneSeen: what is older than the margin goes, then the oldest above the cap.
Recent(refs, w) == {i \in refs : w = Null \/ date[i] >= w - Margin}
Pruned(refs, w) ==
    {kept \in SUBSET Recent(refs, w) :
       /\ \A i \in kept, j \in Recent(refs, w) \ kept : date[i] >= date[j]
       /\ IF Cardinality(Recent(refs, w)) <= Cap
          THEN kept = Recent(refs, w) ELSE Cardinality(kept) = Cap}

\* forwardWatermark.
Forward(current, proposed) == IF proposed >= current THEN proposed ELSE current

\* The run is over, and what it held is gone.
Forget(p) ==
    /\ phase' = [phase EXCEPT ![p] = "idle"]
    /\ until' = [until EXCEPT ![p] = Null] /\ since' = [since EXCEPT ![p] = Null]
    /\ known' = [known EXCEPT ![p] = {}]   /\ sight' = [sight EXCEPT ![p] = {}]
    /\ swept' = [swept EXCEPT ![p] = {}]   /\ todo' = [todo EXCEPT ![p] = {}]
    /\ proof' = [proof EXCEPT ![p] = "none"]

\* advanceWatermark, one compare-and-swap on the row as it is now; the
\* report of a complete run that follows is for the view.
Advance(p) ==
    /\ todo[p] = {}
    /\ proof[p] # "none"
    /\ phase[p] = "land2"
    /\ watermark' = Forward(watermark, until[p])
    /\ seen' \in Pruned(seen \cup NewSeen(p), watermark')
    /\ trusted' = IF proof[p] = "count" THEN "yes" ELSE trusted
    /\ Forget(p)
    /\ UNCHANGED <<world, landed, started>>

\* absorbRefs; bumpIncomplete and the report that follow are for the view.
Absorb(p) ==
    /\ phase[p] = "land2"
    /\ todo[p] = {}
    /\ proof[p] = "none"
    /\ seen' \in Pruned(seen \cup NewSeen(p), watermark)
    /\ Forget(p)
    /\ UNCHANGED <<world, watermark, landed, trusted, started>>

\* finishFailed: neither the watermark nor the seen-set moves; what has landed
\* stays.
WalkFails(p) ==
    /\ phase[p] \in {"walk1", "walk2"}
    /\ Forget(p)
    /\ UNCHANGED <<world, row, landed, trusted, started>>

\* A land or a write of the row throws, or the process dies: the run is gone.
RunDies(p) ==
    /\ phase[p] # "idle"
    /\ Forget(p)
    /\ UNCHANGED <<world, row, landed, trusted, started>>

-----------------------------------------------------------------------------
RunStep(p) ==
    \/ Start(p) \/ Read(p) \/ FirstWalk(p) \/ WalkAgain(p) \/ SecondWalk(p)
    \/ \E i \in Items : Land(p, i)
    \/ Advance(p) \/ Absorb(p) \/ WalkFails(p) \/ RunDies(p)

Next ==
    \/ \E i \in Items : Publish(i)
    \/ ClockTicks
    \/ \E p \in Procs : RunStep(p)

Spec == Init /\ [][Next]_vars

-----------------------------------------------------------------------------
(* Properties                                                              *)

VariablesOK ==
    /\ now \in Nat /\ date \in [Items -> Nat] /\ visible \subseteq Items
    /\ watermark \in Int /\ seen \subseteq Items /\ landed \subseteq Items
    /\ trusted \in {"no", "yes"} /\ started \in Nat
    /\ phase \in [Procs -> Phases]
    /\ until \in [Procs -> Int] /\ since \in [Procs -> Int]
    /\ known \in [Procs -> SUBSET Items] /\ sight \in [Procs -> SUBSET Items]
    /\ swept \in [Procs -> SUBSET Items] /\ todo \in [Procs -> SUBSET Items]
    /\ proof \in [Procs -> {"none", "end", "count"}]

\* Every variable holds a value the program could hold, and a run lands only
\* what neither the row it read nor an earlier landing of its own accounts for.
TypeOK ==
    /\ VariablesOK
    /\ \A p \in Procs :
          /\ todo[p] # {} => phase[p] \in {"land1", "land2"}
          /\ todo[p] \cap known[p] = {}

\* A reference is in the seen-set, or in a run's copy of it, only when its item
\* has landed: at no point of a run, whichever writes of another run, deaths and
\* failed walks come between, can deduplication skip an item that is nowhere
\* (verified-sync.ts:16-21).
SeenIsLanded == seen \subseteq landed /\ \A p \in Procs : known[p] \subseteq landed

\* No item is both behind the watermark and unlanded (verified-sync.ts:23-31),
\* though items show up late, walks are cut short and other processes advance the
\* watermark in the middle of a run.  The exception is a run proved complete by
\* its count alone: a walk that missed one item and caught one that was published
\* meanwhile has the right count.
NoSilentMiss ==
    \A i \in Items : date[i] < watermark => i \in landed \/ trusted = "yes"
=============================================================================

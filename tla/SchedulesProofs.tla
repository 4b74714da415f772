--------------------------- MODULE SchedulesProofs ----------------------------
(***************************************************************************)
(* Theorems about the timer rail, for any number of processes, schedules   *)
(* and slots and any length of behaviour: types, the at-most-once fire,    *)
(* pauses, shutdown, the grace of put-off occurrences, the rows that fired *)
(* and missed occurrences leave, and the lifecycle of WorkItem.            *)
(***************************************************************************)
EXTENDS Schedules, FiniteSetTheorems, TLAPS

LEMMA NextType ==
    ASSUME NEW spec \in Specs, NEW after \in Nat
    PROVE  NextOccurrence(spec, after) \in Nat
  BY SchedulesAssumption DEF NextOccurrence, Specs, Every, Times, Null

LEMMA PatchedType ==
    ASSUME NEW doc \in Doc, NEW spec \in Specs \cup {Same}, NEW target \in {"task", "job"},
           NEW enabled \in {"keep", "yes", "no"}, NEW at \in Nat
    PROVE  Patched(doc, spec, target, enabled, at) \in Doc
<1> DEFINE on == IF enabled = "keep" THEN doc.enabled ELSE enabled
           cadence == IF spec = Same THEN doc.spec ELSE spec
<1>1. on \in {"yes", "no"} /\ cadence \in Specs
  BY DEF Doc
<1>2. NextOccurrence(cadence, at) \in Nat /\ Null \in Nat
  BY <1>1, NextType DEF Null
<1> HIDE DEF on, cadence
<1> QED
  BY <1>1, <1>2 DEF Patched, Doc, on, cadence, Null

LEMMA BackoffType ==
    ASSUME NEW n \in Nat \ {0}
    PROVE  Backoff(n) \in Nat
<1>1. n - 1 \in Nat /\ 2 \in Nat /\ BackoffCap \in Nat
  BY SchedulesAssumption
<1> DEFINE S == 1 .. (n - 1)
<1>2. IsFiniteSet(S) /\ Cardinality(S) = n - 1
  BY <1>1, FS_Interval
<1>3. Cardinality(SUBSET S) = 2 ^ Cardinality(S) /\ Cardinality(SUBSET S) \in Nat
  BY <1>2, FS_SUBSET, FS_CardinalityType
<1> QED
  BY <1>1, <1>2, <1>3 DEF Backoff, Smaller

LEMMA RecordedType ==
    ASSUME NEW doc \in Doc, NEW outcome \in Outcomes, now \in Nat
    PROVE  Recorded(doc, outcome) \in Doc
<1> DEFINE failures == CASE outcome = "ok"      -> 0
                         [] outcome = "neutral" -> doc.failures
                         [] OTHER               -> doc.failures + 1
           streak   == IF outcome = "neutral" THEN doc.streak + 1 ELSE 0
           pause    == /\ outcome \in {"failed", "blocked"} /\ failures >= Ceiling
                       /\ doc.enabled = "yes"
           cool     == IF outcome = "neutral" THEN now + Backoff(streak) ELSE Null
           on       == IF pause THEN "no" ELSE doc.enabled
           next     == IF pause THEN Null ELSE doc.next
<1>1. failures \in Nat /\ streak \in Nat
  BY DEF Doc
<1>2. cool \in Nat
  BY BackoffType DEF Doc, Null
<1>3. on \in {"yes", "no"} /\ next \in Nat
  BY DEF Doc, Null
<1> HIDE DEF failures, streak, pause, cool, on, next
<1>4. CASE doc.state # "live"
  BY <1>4 DEF Recorded
<1>5. CASE doc.state = "live"
  <2>1. Recorded(doc, outcome) =
           [doc EXCEPT !.failures = failures, !.streak = streak, !.cool = cool,
               !.enabled = on, !.next = next]
    BY <1>5 DEF Recorded, failures, streak, pause, cool, on, next
  <2>2. QED
    BY <1>1, <1>2, <1>3, <2>1 DEF Doc
<1>6. QED
  BY <1>4, <1>5

LEMMA AdvancedType ==
    ASSUME NEW doc \in Doc, NEW planned \in Nat, NEW adopt \in Nat
    PROVE  Advanced(doc, planned, adopt) \in Doc
  BY NextType DEF Advanced, Doc, Null, Larger

-----------------------------------------------------------------------------
\* The clock stays within its bound, so what is due has an instant of Times.
Typed == TypeOK /\ now \in Times

LEMMA TypeInit == Init => Typed
  BY SchedulesAssumption DEF Init, Typed, TypeOK, VariablesOK, PhasesOK, Times, Doc, NoDoc,
     RunIds, Statuses, Seen, NotSeen, Null, Specs, Every

LEMMA OwnerKeepsType ==
    ASSUME Typed, NEW s \in Scheds, Create(s) \/ Patch(s) \/ Delete(s) \/ DeleteRuns(s) \/ DeleteRunsLost(s)
    PROVE  Typed'
<1> USE SchedulesAssumption DEF Typed, TypeOK, VariablesOK, PhasesOK, passVars
<1>1. CASE Create(s)
  <2>1. PICK spec \in Specs, target \in Targets, on \in {"yes", "no"} :
           /\ ValidSpec(spec, now)
           /\ docs' = [docs EXCEPT ![s] =
                 [NoDoc EXCEPT !.state = "live", !.enabled = on, !.spec = spec, !.target = target,
                     !.next = IF on = "yes" THEN NextOccurrence(spec, now) ELSE Null]]
    BY <1>1, Zenon DEF Create
  <2>2. now \in Nat /\ Every \in Specs /\ Null \in Nat
    BY DEF Specs, Null
  <2> DEFINE next == IF on = "yes" THEN NextOccurrence(spec, now) ELSE Null
  <2>3. next \in Nat
    BY <2>2, NextType
  <2> HIDE DEF next
  <2>4. docs' = [docs EXCEPT ![s] =
             [NoDoc EXCEPT !.state = "live", !.enabled = on, !.spec = spec, !.target = target, !.next = next]]
    BY <2>1 DEF next
  <2>5. docs' \in [Scheds -> Doc]
    BY <2>2, <2>3, <2>4 DEF Doc, NoDoc
  <2>6. QED
    BY <1>1, <2>5 DEF Create
<1>2. CASE Patch(s)
  <2>1. PICK at \in {now, now - 1}, target \in Targets, enabled \in {"keep", "yes", "no"},
             spec \in Specs \cup {Same} :
           docs' = [docs EXCEPT ![s] = Patched(@, spec, target, enabled, at)]
    BY <1>2 DEF Patch
  <2>2. at \in Nat /\ docs[s] \in Doc /\ target \in {"task", "job"}
    BY DEF Times
  <2>3. Patched(docs[s], spec, target, enabled, at) \in Doc
    BY <2>2, PatchedType
  <2>4. docs' \in [Scheds -> Doc]
    BY <2>1, <2>3
  <2>5. QED
    BY <1>2, <2>4 DEF Patch
<1>3. CASE Delete(s)
  BY <1>3 DEF Delete, Doc, NoDoc, Specs, Every, Null
<1>4. CASE DeleteRuns(s)
  BY <1>4 DEF DeleteRuns, Statuses
<1>5. CASE DeleteRunsLost(s)
  BY <1>5 DEF DeleteRunsLost
<1>6. QED
  BY <1>1, <1>2, <1>3, <1>4, <1>5

LEMMA AdvanceType ==
    ASSUME Typed, NEW s \in Scheds, NEW planned \in Nat, NEW adopt \in Nat, Advance(s, planned, adopt)
    PROVE  docs' \in [Scheds -> Doc] /\ faults' \in Nat
<1>1. docs \in [Scheds -> Doc] /\ docs[s] \in Doc /\ faults \in Nat
  BY DEF Typed, TypeOK, VariablesOK
<1>2. Advanced(docs[s], planned, adopt) \in Doc
  BY <1>1, AdvancedType
<1>3. QED
  BY <1>1, <1>2 DEF Advance

LEMMA RecordType ==
    ASSUME Typed, NEW s \in Scheds, NEW outcome \in Outcomes, Record(s, outcome)
    PROVE  docs' \in [Scheds -> Doc] /\ faults' \in Nat
  BY RecordedType DEF Typed, TypeOK, VariablesOK, Record, Times

LEMMA VisitKeepsType ==
    ASSUME Typed, NEW p \in Procs, NEW d \in due[p], Visit(p, d) \/ InsertThrows(p, d)
    PROVE  Typed'
<1> USE SchedulesAssumption DEF Typed, TypeOK, VariablesOK, PhasesOK
<1>1. /\ d \in Snapshot /\ d.sched \in Scheds /\ d.planned \in Times /\ d.planned \in Nat
      /\ d.cool \in Nat /\ clock[p] \in Nat /\ Occurrence(d.sched, d.planned) \in RunIds
  BY DEF Snapshot, Occurrence, RunIds, Times
<1>2. FirstSeen(p, d) \in Nat
  BY <1>1 DEF FirstSeen, Seen
<1>3. ClaimedAs(d.target) \in Statuses /\ "failed" \in Statuses
  BY DEF ClaimedAs, Statuses
<1>4. CASE SkipStale(p, d)
  <2>1. docs' \in [Scheds -> Doc] /\ faults' \in Nat
    BY <1>1, <1>4, AdvanceType DEF SkipStale
  <2>2. QED
    BY <1>1, <1>4, <2>1 DEF SkipStale, Visits, IsNext, Forget, Seen, NotSeen, Null
<1>5. CASE MissOnce(p, d)
  <2>1. runs' \in [RunIds -> Statuses]
    BY <1>1, <1>3, <1>5 DEF MissOnce
  <2>2. step'[p] \in {"adopt", "miss"} /\ \E x \in {"adopt", "miss"} : step' = [step EXCEPT ![p] = x]
    BY <1>5 DEF MissOnce
  <2>3. QED
    BY <1>1, <1>5, <2>1, <2>2 DEF MissOnce, Visits, IsNext, Forget, Seen, NotSeen, Null
<1>6. CASE CoolDown(p, d)
  <2>1. docs' \in [Scheds -> Doc] /\ faults' \in Nat
    BY <1>1, <1>6, AdvanceType DEF CoolDown
  <2>2. QED
    BY <1>1, <1>6, <2>1 DEF CoolDown, Visits, IsNext, Forget, Seen, NotSeen, Null
<1>7. CASE Defer(p, d)
  BY <1>1, <1>2, <1>7 DEF Defer, Visits, IsNext, Seen
<1>8. CASE Claim(p, d)
  <2>1. runs' \in [RunIds -> Statuses]
    BY <1>1, <1>3, <1>8 DEF Claim
  <2>2. step'[p] \in {"won", "lost"} /\ \E x \in {"won", "lost"} : step' = [step EXCEPT ![p] = x]
    BY <1>8 DEF Claim
  <2>3. QED
    BY <1>1, <1>8, <2>1, <2>2 DEF Claim, Visits, IsNext, Forget, Seen, NotSeen, Null
<1>9. CASE InsertThrows(p, d)
  <2>1. runs' \in [RunIds -> Statuses]
    BY <1>1, <1>3, <1>9 DEF InsertThrows
  <2>2. QED
    BY <1>1, <1>2, <1>9, <2>1 DEF InsertThrows, IsNext, Seen
<1>10. QED
  BY <1>4, <1>5, <1>6, <1>7, <1>8, <1>9 DEF Visit

LEMMA PassKeepsType ==
    ASSUME Typed, NEW p \in Procs,
           TickStarts(p) \/ AdvanceClaimed(p) \/ RecordMiss(p) \/ AdoptPresent(p) \/ PassEnds(p)
    PROVE  Typed'
<1> USE SchedulesAssumption DEF Typed, TypeOK, VariablesOK, PhasesOK
<1>1. \A d \in cur[p] : /\ d.sched \in Scheds /\ d.planned \in Times /\ d.planned \in Nat
                        /\ Occurrence(d.sched, d.planned) \in RunIds
  BY DEF Snapshot, Occurrence, RunIds, Times
<1>2. CASE TickStarts(p)
  BY <1>2 DEF TickStarts, Snapshot, Doc, Null, Times
<1>3. CASE AdvanceClaimed(p)
  <2>1. PICK d \in cur[p] :
           LET r == Occurrence(d.sched, d.planned)
           IN  /\ Advance(d.sched, d.planned, 0)
               /\ IF step[p] = "won" /\ d.target = "job"
                  THEN /\ flights' = Launch(p, r)
                       /\ fired' = [fired EXCEPT ![r] = @ + 1]
                  ELSE UNCHANGED <<flights, fired>>
    BY <1>3 DEF AdvanceClaimed
  <2>2. docs' \in [Scheds -> Doc] /\ faults' \in Nat
    BY <1>1, <2>1, AdvanceType
  <2> DEFINE r == Occurrence(d.sched, d.planned)
             new == [proc |-> p, run |-> r, phase |-> "run", outcome |-> "none"]
  <2>3. new \in Flight /\ life[p] # "down"
    BY <1>1, <1>3 DEF AdvanceClaimed, Flight
  <2>4. \/ flights' = flights \cup {new} /\ fired' = [fired EXCEPT ![r] = @ + 1]
        \/ UNCHANGED <<flights, fired>>
    BY <2>1 DEF Launch
  <2>5. r \in RunIds /\ fired[r] + 1 \in Nat
    BY <1>1
  <2> HIDE DEF r
  <2>6. (flights' = flights \cup {new} \/ flights' = flights) /\ fired' \in [RunIds -> Nat]
    BY <2>4, <2>5
  <2>7. new.proc = p /\ new.phase = "run" /\ new.outcome = "none"
    OBVIOUS
  <2> HIDE DEF new
  <2>8. /\ flights' \subseteq Flight
        /\ \A f \in flights' : life[f.proc] # "down" /\ (f.phase = "run" <=> f.outcome = "none")
    BY <2>3, <2>6, <2>7
  <2>9. QED
    BY <1>3, <2>2, <2>6, <2>8 DEF AdvanceClaimed
<1>4. CASE RecordMiss(p)
  <2>1. docs' \in [Scheds -> Doc] /\ faults' \in Nat
    BY <1>1, <1>4, RecordType DEF RecordMiss, Outcomes
  <2>2. QED
    BY <1>4, <2>1 DEF RecordMiss
<1>5. CASE AdoptPresent(p)
  <2>1. docs' \in [Scheds -> Doc] /\ faults' \in Nat
    BY <1>1, <1>5, AdvanceType DEF AdoptPresent
  <2>2. QED
    BY <1>5, <2>1 DEF AdoptPresent
<1>6. CASE PassEnds(p)
  BY <1>6 DEF PassEnds, Seen, NotSeen, Null
<1>7. QED
  BY <1>2, <1>3, <1>4, <1>5, <1>6

LEMMA FlightKeepsType ==
    ASSUME Typed, NEW f \in flights, FlightStep(f) \/ FinalizeThrows(f)
    PROVE  Typed'
<1> USE SchedulesAssumption DEF Typed, TypeOK, VariablesOK, PhasesOK, passVars
<1>1. f \in Flight /\ f.run \in RunIds /\ f.run.sched \in Scheds
  BY DEF Flight, RunIds
<1>2. CASE TargetAnswers(f)
  <2>1. PICK o \in Outcomes : Becomes(f, [f EXCEPT !.phase = "finalize", !.outcome = o])
    BY <1>2 DEF TargetAnswers
  <2> DEFINE g == [f EXCEPT !.phase = "finalize", !.outcome = o]
  <2>2. g \in Flight /\ g.proc = f.proc /\ g.phase = "finalize" /\ g.outcome # "none"
    BY <1>1 DEF Flight, Outcomes
  <2>3. flights' = (flights \ {f}) \cup {g}
    BY <2>1 DEF Becomes
  <2> HIDE DEF g
  <2>4. QED
    BY <1>2, <2>2, <2>3 DEF TargetAnswers
<1>3. f.phase # "run" => f.outcome \in Outcomes
  BY <1>1 DEF Flight
<1>4. CASE Finalize(f)
  <2> DEFINE g == [f EXCEPT !.phase = "record"]
  <2>1. g \in Flight /\ g.proc = f.proc /\ g.phase = "record" /\ g.outcome # "none"
    BY <1>1, <1>3, <1>4 DEF Finalize, Flight, Outcomes
  <2>2. flights' = (flights \ {f}) \cup {g}
    BY <1>4 DEF Finalize, Becomes
  <2>3. f.outcome \in Outcomes
    BY <1>3, <1>4 DEF Finalize
  <2>4. runs' \in [RunIds -> Statuses]
    BY <1>4, <2>3 DEF Finalize, Outcomes, Statuses
  <2> HIDE DEF g
  <2>5. QED
    BY <1>4, <2>1, <2>2, <2>4 DEF Finalize
<1>5. CASE RecordOutcome(f)
  <2>1. docs' \in [Scheds -> Doc] /\ faults' \in Nat
    BY <1>1, <1>3, <1>5, RecordType DEF RecordOutcome
  <2>2. QED
    BY <1>5, <2>1 DEF RecordOutcome
<1>6. CASE FinalizeThrows(f)
  BY <1>6 DEF FinalizeThrows
<1>7. QED
  BY <1>2, <1>4, <1>5, <1>6 DEF FlightStep

LEMMA RestKeepsType ==
    ASSUME Typed,
           \/ \E r \in RunIds : CompleteRun(r)
           \/ \E p \in Procs, s \in Scheds : FireNow(p, s)
           \/ \E p \in Procs : Start(p) \/ Stop(p) \/ StopReturns(p) \/ Exit(p) \/ Crash(p)
           \/ ClockTicks
    PROVE  Typed'
<1> USE SchedulesAssumption DEF Typed, TypeOK, VariablesOK, PhasesOK, passVars
<1>1. ASSUME NEW r \in RunIds, CompleteRun(r) PROVE Typed'
  BY <1>1 DEF CompleteRun, Statuses
<1>2. ASSUME NEW p \in Procs, NEW s \in Scheds, FireNow(p, s) PROVE Typed'
  BY <1>2 DEF FireNow, Launch, Flight, RunIds, RunNow, ClaimedAs, Statuses
<1>3. ASSUME NEW p \in Procs, Start(p) PROVE Typed'
  BY <1>3 DEF Start
<1>4. ASSUME NEW p \in Procs, Stop(p) PROVE Typed'
  BY <1>4 DEF Stop
<1>5. ASSUME NEW p \in Procs, StopReturns(p) PROVE Typed'
  BY <1>5 DEF StopReturns, FlightsOf, Seen, NotSeen, Null
<1>6. ASSUME NEW p \in Procs, Gone(p), faults' \in Nat PROVE Typed'
  BY <1>6 DEF Gone, FlightsOf, Seen, NotSeen, Null
<1>7. CASE ClockTicks
  BY <1>7 DEF ClockTicks, Times
<1>8. QED
  BY <1>1, <1>2, <1>3, <1>4, <1>5, <1>6, <1>7 DEF Exit, Crash

LEMMA TypeStep ==
    ASSUME Typed, [Next]_vars
    PROVE  Typed'
<1>1. CASE UNCHANGED vars
  BY <1>1 DEF vars, passVars, Typed, TypeOK, VariablesOK, PhasesOK
<1>2. CASE Next
  BY <1>2, OwnerKeepsType, VisitKeepsType, PassKeepsType, FlightKeepsType, RestKeepsType
     DEF Next, PassStep
<1>3. QED
  BY <1>1, <1>2

\* Every variable of the timer rail always holds a value the program could hold:
\* a schedule is in hand only between its claim and its advance, and a supervisor
\* that has stopped or gone has no pass (supervisor.ts:249-258).
THEOREM TypeCorrect == Spec => []TypeOK
<1>1. Typed => TypeOK
  BY DEF Typed
<1>2. QED
  BY TypeInit, TypeStep, <1>1, PTL DEF Spec

-----------------------------------------------------------------------------
(* An occurrence is executed at most once: its run row is inserted once, and   *)
(* only who inserted it may fire it.                                           *)

Kept(s) == docs[s].state # "gone"

\* The pass of p has won the claim of run r and has not fired it yet.
Holds(p, r) == step[p] = "won" /\ \E d \in cur[p] : Occurrence(d.sched, d.planned) = r

OneInHand == \A p \in Procs : \A d, e \in cur[p] : d = e

\* Rows are deleted only for a schedule that is gone.
PurgesGone == \A s \in purging : ~Kept(s)

\* A fired occurrence has its row, and a claim in hand has not been fired.
FiredIsStored ==
    \A r \in RunIds : Kept(r.sched) => fired[r] <= 1 /\ (fired[r] = 1 => Stored(r))

ClaimIsFresh ==
    \A p \in Procs, r \in RunIds : Kept(r.sched) /\ Holds(p, r) => Stored(r) /\ fired[r] = 0

\* No two passes have won the same claim.
OneWinner ==
    \A p, q \in Procs, r \in RunIds :
       Kept(r.sched) /\ Holds(p, r) /\ Holds(q, r) => p = q

OnceInv == OneInHand /\ PurgesGone /\ FiredIsStored /\ ClaimIsFresh /\ OneWinner

\* A step that wins no claim, fires nothing and deletes no row of a schedule
\* that is kept leaves the argument alone.
LEMMA Undisturbed ==
    ASSUME OnceInv, OneInHand', PurgesGone', fired' = fired,
           \A s \in Scheds : Kept(s)' => Kept(s),
           \A r \in RunIds : Kept(r.sched)' /\ Stored(r) => Stored(r)',
           \A p \in Procs, r \in RunIds : Holds(p, r)' => Holds(p, r)
    PROVE  OnceInv'
<1>1. \A r \in RunIds : r.sched \in Scheds
  BY DEF RunIds
<1> HIDE DEF Kept, Stored, Holds, OneInHand, PurgesGone
<1>2. FiredIsStored' /\ ClaimIsFresh' /\ OneWinner'
  BY <1>1 DEF OnceInv, FiredIsStored, ClaimIsFresh, OneWinner
<1>3. QED
  BY <1>2 DEF OnceInv

LEMMA AdvanceKeeps ==
    ASSUME Typed, NEW s \in Scheds, NEW planned, NEW adopt, Advance(s, planned, adopt), NEW x \in Scheds
    PROVE  docs'[x].state = docs[x].state
<1>1. docs \in [Scheds -> Doc] /\ docs[s] \in Doc
  BY DEF Typed, TypeOK, VariablesOK
<1>2. Advanced(docs[s], planned, adopt).state = docs[s].state
  BY <1>1 DEF Advanced, Doc
<1>3. QED
  BY <1>1, <1>2 DEF Advance

LEMMA RecordKeeps ==
    ASSUME Typed, NEW s \in Scheds, NEW outcome, Record(s, outcome), NEW x \in Scheds
    PROVE  docs'[x].state = docs[x].state
<1>1. docs \in [Scheds -> Doc] /\ docs[s] \in Doc
  BY DEF Typed, TypeOK, VariablesOK
<1>2. Recorded(docs[s], outcome).state = docs[s].state
  BY <1>1 DEF Recorded, Doc
<1>3. QED
  BY <1>1, <1>2 DEF Record

LEMMA OnceInit == Init => OnceInv
  BY DEF Init, OnceInv, OneInHand, PurgesGone, FiredIsStored, ClaimIsFresh, OneWinner, Holds

LEMMA OwnerKeepsOnce ==
    ASSUME Typed, OnceInv, NEW s \in Scheds,
           Create(s) \/ Patch(s) \/ Delete(s) \/ DeleteRuns(s) \/ DeleteRunsLost(s)
    PROVE  OnceInv'
<1> USE DEF Typed, TypeOK, VariablesOK
<1>1. cur' = cur /\ step' = step /\ fired' = fired
  BY DEF Create, Patch, Delete, DeleteRuns, DeleteRunsLost, passVars
<1>2. OneInHand' /\ (\A p \in Procs, r \in RunIds : Holds(p, r)' => Holds(p, r))
  BY <1>1 DEF OnceInv, OneInHand, Holds
<1>3. ASSUME docs' = docs, purging' \subseteq purging,
             \A r \in RunIds : Kept(r.sched) /\ Stored(r) => Stored(r)'
      PROVE  OnceInv'
  BY <1>1, <1>2, <1>3, Undisturbed DEF OnceInv, PurgesGone, Kept
<1>4. ASSUME \A x \in Scheds : Kept(x)' => Kept(x), runs' = runs, PurgesGone' PROVE OnceInv'
  BY <1>1, <1>2, <1>4, Undisturbed DEF Stored
<1>5. CASE Create(s)
  BY <1>4, <1>5 DEF Create, Kept, OnceInv, PurgesGone
<1>6. CASE Patch(s)
  <2>1. PICK at \in {now, now - 1}, target \in Targets, enabled \in {"keep", "yes", "no"},
             spec \in Specs \cup {Same} :
           docs' = [docs EXCEPT ![s] = Patched(@, spec, target, enabled, at)]
    BY <1>6 DEF Patch
  <2>2. Patched(docs[s], spec, target, enabled, at).state = docs[s].state
    BY DEF Patched, Doc
  <2>3. \A x \in Scheds : docs'[x].state = docs[x].state
    BY <2>1, <2>2
  <2>4. QED
    BY <1>4, <1>6, <2>3 DEF Patch, Kept, OnceInv, PurgesGone
<1>7. CASE Delete(s)
  BY <1>4, <1>7 DEF Delete, NoDoc, Kept, OnceInv, PurgesGone
<1>8. CASE DeleteRuns(s)
  BY <1>3, <1>8 DEF DeleteRuns, Stored, OnceInv, PurgesGone
<1>9. CASE DeleteRunsLost(s)
  BY <1>3, <1>9 DEF DeleteRunsLost, Stored
<1>10. QED
  BY <1>5, <1>6, <1>7, <1>8, <1>9

\* The claim: the row was not there, so nobody fired it and nobody holds it.
LEMMA ClaimKeepsOnce ==
    ASSUME Typed, OnceInv, NEW p \in Procs, NEW d \in due[p], Claim(p, d)
    PROVE  OnceInv'
<1> DEFINE r == Occurrence(d.sched, d.planned)
<1> USE DEF Typed, TypeOK, VariablesOK
<1>1. r \in RunIds
  BY DEF Snapshot, Occurrence, RunIds
<1>2. /\ docs' = docs /\ purging' = purging /\ fired' = fired
      /\ cur' = [cur EXCEPT ![p] = {d}] /\ step[p] = "judge"
  BY DEF Claim, Visits, IsNext
<1>3. OneInHand' /\ PurgesGone'
  BY <1>2 DEF OnceInv, OneInHand, PurgesGone, Kept
<1>4. CASE Stored(r)
  <2>1. step' = [step EXCEPT ![p] = "lost"] /\ runs' = runs
    BY <1>4 DEF Claim
  <2>2. \A q \in Procs, x \in RunIds : Holds(q, x)' => Holds(q, x)
    BY <1>2, <2>1 DEF Holds
  <2>3. QED
    BY <1>2, <1>3, <2>1, <2>2, Undisturbed DEF Kept, Stored
<1>5. CASE ~Stored(r)
  <2>1. step' = [step EXCEPT ![p] = "won"] /\ runs' = [runs EXCEPT ![r] = ClaimedAs(d.target)]
    BY <1>5 DEF Claim
  <2>2. \A x \in RunIds : (Stored(x) => Stored(x)') /\ Stored(r)'
    BY <1>1, <2>1 DEF Stored, ClaimedAs
  <2>3. \A x \in RunIds : Holds(p, x)' => x = r
    BY <1>2, <2>1 DEF Holds
  <2>4. \A q \in Procs \ {p}, x \in RunIds : Holds(q, x)' => Holds(q, x)
    BY <1>2, <2>1 DEF Holds
  <2>5. Kept(r.sched) => fired[r] = 0 /\ \A q \in Procs : ~Holds(q, r)
    <3>1. fired[r] \in Nat
      BY <1>1
    <3> HIDE DEF r, Kept, Stored, Holds, Typed, TypeOK
    <3>2. Kept(r.sched) => fired[r] <= 1 /\ fired[r] # 1
      BY <1>1, <1>5 DEF OnceInv, FiredIsStored
    <3>3. Kept(r.sched) => \A q \in Procs : ~Holds(q, r)
      BY <1>1, <1>5 DEF OnceInv, ClaimIsFresh
    <3>4. QED
      BY <3>1, <3>2, <3>3
  <2>6. \A x \in Scheds : Kept(x)' <=> Kept(x)
    BY <1>2 DEF Kept
  <2>7. \A x \in RunIds : x.sched \in Scheds
    BY DEF RunIds
  <2> HIDE DEF r, Kept, Stored, Holds, Typed
  <2>8. FiredIsStored' /\ ClaimIsFresh' /\ OneWinner'
    BY <1>1, <1>2, <2>2, <2>3, <2>4, <2>5, <2>6, <2>7
       DEF OnceInv, FiredIsStored, ClaimIsFresh, OneWinner
  <2>9. QED
    BY <1>3, <2>8 DEF OnceInv
<1>6. QED
  BY <1>4, <1>5

LEMMA VisitKeepsOnce ==
    ASSUME Typed, OnceInv, NEW p \in Procs, NEW d \in due[p], Visit(p, d) \/ InsertThrows(p, d)
    PROVE  OnceInv'
<1> USE DEF Typed, TypeOK, VariablesOK
<1>1. d.sched \in Scheds /\ Occurrence(d.sched, d.planned) \in RunIds
  BY DEF Snapshot, Occurrence, RunIds
<1>2. ASSUME \A x \in Scheds : docs'[x].state = docs[x].state, purging' = purging, fired' = fired,
             \A r \in RunIds : Stored(r) => Stored(r)',
             OneInHand', \A q \in Procs, r \in RunIds : Holds(q, r)' => Holds(q, r)
      PROVE  OnceInv'
  <2>1. (\A x \in Scheds : Kept(x)' => Kept(x)) /\ PurgesGone'
    BY <1>2 DEF Kept, OnceInv, PurgesGone
  <2>2. QED
    BY <1>2, <2>1, Undisturbed
<1>3. ASSUME cur' = cur, step' = step
      PROVE  OneInHand' /\ \A q \in Procs, r \in RunIds : Holds(q, r)' => Holds(q, r)
  BY <1>3 DEF OnceInv, OneInHand, Holds
<1>4. CASE SkipStale(p, d)
  BY <1>1, <1>2, <1>3, <1>4, AdvanceKeeps DEF SkipStale, Visits, Stored
<1>5. CASE MissOnce(p, d)
  <2>1. \A r \in RunIds : Stored(r) => Stored(r)'
    BY <1>1, <1>5 DEF MissOnce, Stored
  <2>2. cur' = [cur EXCEPT ![p] = {d}] /\ \E x \in {"adopt", "miss"} : step' = [step EXCEPT ![p] = x]
    BY <1>5 DEF MissOnce
  <2>3. OneInHand' /\ \A q \in Procs, r \in RunIds : Holds(q, r)' => Holds(q, r)
    BY <2>2 DEF OnceInv, OneInHand, Holds
  <2>4. QED
    BY <1>2, <1>5, <2>1, <2>3 DEF MissOnce
<1>6. CASE CoolDown(p, d)
  BY <1>1, <1>2, <1>3, <1>6, AdvanceKeeps DEF CoolDown, Visits, Stored
<1>7. CASE Defer(p, d)
  BY <1>2, <1>3, <1>7 DEF Defer, Visits, Stored
<1>8. CASE Claim(p, d)
  BY <1>8, ClaimKeepsOnce
<1>9. CASE InsertThrows(p, d)
  <2>1. \A r \in RunIds : Stored(r) => Stored(r)'
    BY <1>1, <1>9 DEF InsertThrows, Stored, ClaimedAs
  <2>2. cur' = cur /\ step' = [step EXCEPT ![p] = "none"]
    BY <1>9 DEF InsertThrows
  <2>3. OneInHand' /\ \A q \in Procs, r \in RunIds : Holds(q, r)' => Holds(q, r)
    BY <2>2 DEF OnceInv, OneInHand, Holds
  <2>4. QED
    BY <1>2, <1>9, <2>1, <2>3 DEF InsertThrows
<1>10. QED
  BY <1>4, <1>5, <1>6, <1>7, <1>8, <1>9 DEF Visit

\* The fire: who holds the claim spends it.
LEMMA FireKeepsOnce ==
    ASSUME Typed, OnceInv, NEW p \in Procs, AdvanceClaimed(p)
    PROVE  OnceInv'
<1> USE DEF Typed, TypeOK, VariablesOK
<1>1. PICK d \in cur[p] :
         LET r == Occurrence(d.sched, d.planned)
         IN  /\ Advance(d.sched, d.planned, 0)
             /\ IF step[p] = "won" /\ d.target = "job"
                THEN /\ flights' = Launch(p, r)
                     /\ fired' = [fired EXCEPT ![r] = @ + 1]
                ELSE UNCHANGED <<flights, fired>>
  BY DEF AdvanceClaimed
<1> DEFINE r == Occurrence(d.sched, d.planned)
<1>2. d.sched \in Scheds /\ r \in RunIds /\ fired[r] \in Nat
  <2>1. d \in Snapshot
    OBVIOUS
  <2>2. r \in RunIds
    BY <2>1 DEF Snapshot, Occurrence, RunIds
  <2>3. QED
    BY <2>1, <2>2 DEF Snapshot
<1>3. /\ runs' = runs /\ purging' = purging
      /\ step' = [step EXCEPT ![p] = "judge"] /\ cur' = [cur EXCEPT ![p] = {}]
  BY DEF AdvanceClaimed
<1>4. \A x \in Scheds : Kept(x)' <=> Kept(x)
  BY <1>1, <1>2, AdvanceKeeps DEF Kept
<1>5. OneInHand' /\ PurgesGone'
  BY <1>3, <1>4 DEF OnceInv, OneInHand, PurgesGone
<1>6. \A q \in Procs, x \in RunIds : Holds(q, x)' => q # p /\ Holds(q, x)
  BY <1>3 DEF Holds
<1>7. \A x \in RunIds : x.sched \in Scheds
  BY DEF RunIds
<1>8. CASE fired' = fired
  BY <1>3, <1>4, <1>5, <1>6, <1>8, Undisturbed DEF Stored
<1>9. CASE step[p] = "won" /\ fired' = [fired EXCEPT ![r] = @ + 1]
  <2>1. Holds(p, r)
    BY <1>9 DEF Holds
  <2>2. \A x \in RunIds : Stored(x)' <=> Stored(x)
    BY <1>3 DEF Stored
  <2>3. \A x \in RunIds : fired'[x] = IF x = r THEN fired[r] + 1 ELSE fired[x]
    BY <1>2, <1>9
  <2> HIDE DEF r, Kept, Stored, Holds, Typed, TypeOK
  <2>4. Kept(r.sched) => /\ Stored(r) /\ fired[r] = 0
                         /\ \A q \in Procs : Holds(q, r) => q = p
    BY <1>2, <2>1 DEF OnceInv, ClaimIsFresh, OneWinner
  <2>5. FiredIsStored'
    BY <1>2, <1>4, <1>7, <2>2, <2>3, <2>4 DEF OnceInv, FiredIsStored
  <2>6. ClaimIsFresh'
    BY <1>2, <1>4, <1>6, <1>7, <2>2, <2>3, <2>4 DEF OnceInv, ClaimIsFresh
  <2>7. OneWinner'
    BY <1>4, <1>6, <1>7 DEF OnceInv, OneWinner
  <2>8. QED
    BY <1>5, <2>5, <2>6, <2>7 DEF OnceInv
<1>10. QED
  BY <1>1, <1>8, <1>9

LEMMA RestKeepsOnce ==
    ASSUME Typed, OnceInv, Next,
           \A s \in Scheds : ~(Create(s) \/ Patch(s) \/ Delete(s) \/ DeleteRuns(s) \/ DeleteRunsLost(s)),
           \A p \in Procs : ~AdvanceClaimed(p),
           \A p \in Procs : \A d \in due[p] : ~(Visit(p, d) \/ InsertThrows(p, d))
    PROVE  OnceInv'
<1> USE DEF Typed, TypeOK, VariablesOK
<1>1. ASSUME \A x \in Scheds : docs'[x].state = docs[x].state, purging' = purging, fired' = fired,
             \A r \in RunIds : Stored(r) => Stored(r)',
             \A p \in Procs : cur'[p] \subseteq cur[p],
             \A p \in Procs : step'[p] = "won" => step[p] = "won"
      PROVE  OnceInv'
  <2>1. (\A x \in Scheds : Kept(x)' => Kept(x)) /\ PurgesGone'
    BY <1>1 DEF Kept, OnceInv, PurgesGone
  <2>2. OneInHand' /\ \A q \in Procs, r \in RunIds : Holds(q, r)' => Holds(q, r)
    BY <1>1 DEF OnceInv, OneInHand, Holds
  <2>3. QED
    BY <1>1, <2>1, <2>2, Undisturbed
<1> USE DEF passVars
<1>2. ASSUME NEW r \in RunIds, CompleteRun(r) PROVE OnceInv'
  BY <1>1, <1>2 DEF CompleteRun, Stored
<1>3. ASSUME NEW p \in Procs, NEW s \in Scheds, FireNow(p, s) PROVE OnceInv'
  <2>1. \A r \in RunIds : Stored(r) => Stored(r)'
    BY <1>3 DEF FireNow, Stored
  <2>2. QED
    BY <1>1, <1>3, <2>1 DEF FireNow
<1>4. ASSUME NEW p \in Procs, TickStarts(p) PROVE OnceInv'
  BY <1>1, <1>4 DEF TickStarts, Stored
<1>5. ASSUME NEW p \in Procs, RecordMiss(p) PROVE OnceInv'
  <2>1. \A x \in Scheds : docs'[x].state = docs[x].state
    BY <1>5, RecordKeeps DEF RecordMiss, Snapshot
  <2>2. QED
    BY <1>1, <1>5, <2>1 DEF RecordMiss, Stored
<1>6. ASSUME NEW p \in Procs, AdoptPresent(p) PROVE OnceInv'
  <2>1. \A x \in Scheds : docs'[x].state = docs[x].state
    BY <1>6, AdvanceKeeps DEF AdoptPresent, Snapshot
  <2>2. QED
    BY <1>1, <1>6, <2>1 DEF AdoptPresent, Stored
<1>7. ASSUME NEW p \in Procs, PassEnds(p) PROVE OnceInv'
  BY <1>1, <1>7 DEF PassEnds, Stored
<1>8. ASSUME NEW f \in flights, FlightStep(f) \/ FinalizeThrows(f) PROVE OnceInv'
  <2>1. \A r \in RunIds : Stored(r) => Stored(r)'
    <3>1. f.phase = "finalize" => f.outcome \in Outcomes
      BY DEF PhasesOK, Flight
    <3>2. QED
      BY <1>8, <3>1 DEF FlightStep, TargetAnswers, Finalize, RecordOutcome, FinalizeThrows, Stored, Outcomes
  <2>2. \A x \in Scheds : docs'[x].state = docs[x].state
    <3>1. f.run.sched \in Scheds
      BY DEF Flight, RunIds
    <3>2. QED
      BY <1>8, <3>1, RecordKeeps DEF FlightStep, TargetAnswers, Finalize, RecordOutcome, FinalizeThrows
  <2>3. QED
    BY <1>1, <1>8, <2>1, <2>2 DEF FlightStep, TargetAnswers, Finalize, RecordOutcome, FinalizeThrows
<1>9. ASSUME NEW p \in Procs, Start(p) \/ Stop(p) \/ StopReturns(p) PROVE OnceInv'
  BY <1>1, <1>9 DEF Start, Stop, StopReturns, Stored
<1>10. ASSUME NEW p \in Procs, Gone(p) PROVE OnceInv'
  BY <1>1, <1>10 DEF Gone, Stored
<1>11. CASE ClockTicks
  BY <1>1, <1>11 DEF ClockTicks, Stored
<1>12. QED
  BY <1>2, <1>3, <1>4, <1>5, <1>6, <1>7, <1>8, <1>9, <1>10, <1>11 DEF Next, PassStep, Exit, Crash

LEMMA OnceStep ==
    ASSUME Typed, OnceInv, [Next]_vars
    PROVE  OnceInv'
<1>1. CASE UNCHANGED vars
  BY <1>1 DEF vars, passVars, OnceInv, OneInHand, PurgesGone, FiredIsStored, ClaimIsFresh, OneWinner,
              Holds, Kept, Stored
<1>2. CASE Next
  BY <1>2, OwnerKeepsOnce, VisitKeepsOnce, FireKeepsOnce, RestKeepsOnce
<1>3. QED
  BY <1>1, <1>2

\* However many processes read an occurrence as due, and wherever any of them
\* crashes, stops or meets a store error, the occurrence of a schedule that still
\* exists is executed at most once (supervisor.ts:17-23, "never a double fire").
THEOREM FiredAtMostOnce == Spec => []AtMostOnce
<1>1. Typed /\ OnceInv => AtMostOnce
  <2>1. \A s \in Scheds, t \in Times : /\ Occurrence(s, t) \in RunIds
                                        /\ Occurrence(s, t).sched = s
    BY DEF Occurrence, RunIds
  <2>2. QED
    BY <2>1 DEF OnceInv, FiredIsStored, Kept, AtMostOnce
<1>2. QED
  BY TypeInit, TypeStep, OnceInit, OnceStep, <1>1, PTL DEF Spec

-----------------------------------------------------------------------------
(* Pointer, ceiling and switch of one document.                            *)

Agrees(doc) == /\ doc.enabled = "no" => doc.next = Null
               /\ doc.enabled = "yes" => doc.failures < Ceiling

LEMMA AgreesAtFirst == Agrees(NoDoc)
  BY DEF Agrees, NoDoc

LEMMA CreatedAgrees ==
    ASSUME NEW spec, NEW target, NEW on \in {"yes", "no"}
    PROVE  Agrees([NoDoc EXCEPT !.state = "live", !.enabled = on, !.spec = spec, !.target = target,
                       !.next = IF on = "yes" THEN NextOccurrence(spec, now) ELSE Null])
  BY SchedulesAssumption DEF Agrees, NoDoc

LEMMA PatchedAgrees ==
    ASSUME NEW doc \in Doc, Agrees(doc), NEW spec, NEW target,
           NEW enabled \in {"keep", "yes", "no"}, NEW at
    PROVE  Agrees(Patched(doc, spec, target, enabled, at))
  BY SchedulesAssumption DEF Agrees, Patched, Doc

LEMMA AdvancedAgrees ==
    ASSUME NEW doc \in Doc, Agrees(doc), NEW planned, NEW adopt
    PROVE  Agrees(Advanced(doc, planned, adopt))
  BY DEF Agrees, Advanced, Doc

LEMMA RecordedAgrees ==
    ASSUME NEW doc \in Doc, Agrees(doc), NEW outcome \in Outcomes
    PROVE  Agrees(Recorded(doc, outcome))
  BY SchedulesAssumption DEF Agrees, Recorded, Doc, Outcomes

\* Every write of a schedule document is one of these five.
LEMMA DocsWritten ==
    ASSUME Typed, Next, NEW s \in Scheds
    PROVE  \/ docs'[s] = docs[s]
           \/ docs'[s] = [NoDoc EXCEPT !.state = "gone"]
           \/ \E spec \in Specs, target \in Targets, on \in {"yes", "no"} :
                 docs'[s] = [NoDoc EXCEPT !.state = "live", !.enabled = on, !.spec = spec, !.target = target,
                                !.next = IF on = "yes" THEN NextOccurrence(spec, now) ELSE Null]
           \/ \E spec, target, at : \E enabled \in {"keep", "yes", "no"} :
                 docs'[s] = Patched(docs[s], spec, target, enabled, at)
           \/ \E planned, adopt : docs'[s] = Advanced(docs[s], planned, adopt)
           \/ \E outcome \in Outcomes : docs'[s] = Recorded(docs[s], outcome)
<1> USE DEF Typed, TypeOK, VariablesOK
<1>1. ASSUME NEW x \in Scheds, NEW planned, NEW adopt, Advance(x, planned, adopt)
      PROVE  docs'[s] = docs[s] \/ \E pl, ad : docs'[s] = Advanced(docs[s], pl, ad)
  BY <1>1 DEF Advance
<1>2. ASSUME NEW x \in Scheds, NEW outcome \in Outcomes, Record(x, outcome)
      PROVE  docs'[s] = docs[s] \/ \E o \in Outcomes : docs'[s] = Recorded(docs[s], o)
  BY <1>2 DEF Record
<1>3. ASSUME NEW x \in Scheds, Create(x)
      PROVE  \/ docs'[s] = docs[s]
             \/ \E spec \in Specs, target \in Targets, on \in {"yes", "no"} :
                   docs'[s] = [NoDoc EXCEPT !.state = "live", !.enabled = on, !.spec = spec, !.target = target,
                                  !.next = IF on = "yes" THEN NextOccurrence(spec, now) ELSE Null]
  <2>1. PICK spec \in Specs, target \in Targets, on \in {"yes", "no"} :
           /\ ValidSpec(spec, now)
           /\ docs' = [docs EXCEPT ![x] =
                 [NoDoc EXCEPT !.state = "live", !.enabled = on, !.spec = spec, !.target = target,
                     !.next = IF on = "yes" THEN NextOccurrence(spec, now) ELSE Null]]
    BY <1>3, Zenon DEF Create
  <2>2. QED
    BY <2>1, Zenon
<1>4. ASSUME NEW x \in Scheds, Patch(x)
      PROVE  \/ docs'[s] = docs[s]
             \/ \E spec, target, at : \E enabled \in {"keep", "yes", "no"} :
                   docs'[s] = Patched(docs[s], spec, target, enabled, at)
  <2>1. PICK at \in {now, now - 1}, target \in Targets, enabled \in {"keep", "yes", "no"},
             spec \in Specs \cup {Same} :
           docs' = [docs EXCEPT ![x] = Patched(@, spec, target, enabled, at)]
    BY <1>4 DEF Patch
  <2>2. QED
    BY <2>1
<1>5. ASSUME NEW x \in Scheds, Delete(x) \/ DeleteRuns(x) \/ DeleteRunsLost(x)
      PROVE  docs'[s] = docs[s] \/ docs'[s] = [NoDoc EXCEPT !.state = "gone"]
  BY <1>5 DEF Delete, DeleteRuns, DeleteRunsLost
<1>6. ASSUME NEW p \in Procs, NEW d \in due[p], Visit(p, d) \/ InsertThrows(p, d)
      PROVE  docs'[s] = docs[s] \/ \E pl, ad : docs'[s] = Advanced(docs[s], pl, ad)
  <2>1. d.sched \in Scheds
    BY DEF Snapshot
  <2>2. QED
    BY <1>1, <1>6, <2>1 DEF Visit, SkipStale, MissOnce, CoolDown, Defer, Claim, InsertThrows
<1>7. ASSUME NEW p \in Procs, AdvanceClaimed(p) \/ AdoptPresent(p)
      PROVE  docs'[s] = docs[s] \/ \E pl, ad : docs'[s] = Advanced(docs[s], pl, ad)
  <2>1. \A d \in cur[p] : d.sched \in Scheds
    BY DEF Snapshot
  <2>2. QED
    BY <1>1, <1>7, <2>1 DEF AdvanceClaimed, AdoptPresent
<1>8. ASSUME NEW p \in Procs, RecordMiss(p)
      PROVE  docs'[s] = docs[s] \/ \E o \in Outcomes : docs'[s] = Recorded(docs[s], o)
  <2>1. \A d \in cur[p] : d.sched \in Scheds
    BY DEF Snapshot
  <2>2. QED
    BY <1>2, <1>8, <2>1 DEF RecordMiss, Outcomes
<1>9. ASSUME NEW f \in flights, RecordOutcome(f)
      PROVE  docs'[s] = docs[s] \/ \E o \in Outcomes : docs'[s] = Recorded(docs[s], o)
  <2>1. f.run.sched \in Scheds /\ (f.phase = "record" => f.outcome \in Outcomes)
    BY DEF Flight, RunIds, PhasesOK
  <2>2. QED
    BY <1>2, <1>9, <2>1 DEF RecordOutcome
<1>10. ASSUME UNCHANGED docs PROVE docs'[s] = docs[s]
  BY <1>10
<1>11. QED
  <2>1. \/ \E x \in Scheds : Create(x) \/ Patch(x) \/ Delete(x) \/ DeleteRuns(x) \/ DeleteRunsLost(x)
        \/ \E p \in Procs : \E d \in due[p] : Visit(p, d) \/ InsertThrows(p, d)
        \/ \E p \in Procs : AdvanceClaimed(p) \/ AdoptPresent(p) \/ RecordMiss(p)
        \/ \E f \in flights : RecordOutcome(f)
        \/ UNCHANGED docs
    BY DEF Next, PassStep, FlightStep, CompleteRun, FireNow, TickStarts, PassEnds, TargetAnswers, Finalize,
           FinalizeThrows, Start, Stop, StopReturns, Exit, Crash, Gone, ClockTicks
  <2> HIDE DEF Typed, TypeOK, VariablesOK
  <2>2. CASE \E x \in Scheds : Create(x) \/ Patch(x) \/ Delete(x) \/ DeleteRuns(x) \/ DeleteRunsLost(x)
    BY <2>2, <1>3, <1>4, <1>5
  <2>3. CASE \E p \in Procs : \E d \in due[p] : Visit(p, d) \/ InsertThrows(p, d)
    BY <2>3, <1>6
  <2>4. CASE \E p \in Procs : AdvanceClaimed(p) \/ AdoptPresent(p) \/ RecordMiss(p)
    BY <2>4, <1>7, <1>8
  <2>5. CASE \E f \in flights : RecordOutcome(f)
    BY <2>5, <1>9
  <2>6. QED
    BY <1>10, <2>1, <2>2, <2>3, <2>4, <2>5

\* A paused schedule has no pointer and an enabled one is below the failure ceiling,
\* whichever of an edit, a late outcome, an auto-pause and an advance came last.
THEOREM PauseCorrect == Spec => []PauseAgrees
<1> DEFINE Inv == \A s \in Scheds : Agrees(docs[s])
<1>1. Init => Inv
  BY AgreesAtFirst DEF Init
<1>2. ASSUME Typed, Inv, [Next]_vars PROVE Inv'
  <2>1. CASE UNCHANGED vars
    BY <1>2, <2>1 DEF vars, Agrees
  <2>2. ASSUME Next, NEW s \in Scheds PROVE Agrees(docs'[s])
    <3>1. docs[s] \in Doc /\ Agrees(docs[s])
      BY <1>2 DEF Typed, TypeOK, VariablesOK
    <3>2. Agrees([NoDoc EXCEPT !.state = "gone"])
      BY DEF Agrees, NoDoc
    <3> DEFINE Created == \E spec \in Specs, target \in Targets, on \in {"yes", "no"} :
                  docs'[s] = [NoDoc EXCEPT !.state = "live", !.enabled = on, !.spec = spec, !.target = target,
                                 !.next = IF on = "yes" THEN NextOccurrence(spec, now) ELSE Null]
               Edited == \E spec, target, at : \E enabled \in {"keep", "yes", "no"} :
                  docs'[s] = Patched(docs[s], spec, target, enabled, at)
               Moved == \E planned, adopt : docs'[s] = Advanced(docs[s], planned, adopt)
               Judged == \E outcome \in Outcomes : docs'[s] = Recorded(docs[s], outcome)
    <3>3. \/ docs'[s] = docs[s] \/ docs'[s] = [NoDoc EXCEPT !.state = "gone"]
          \/ Created \/ Edited \/ Moved \/ Judged
      BY <1>2, <2>2, DocsWritten, Zenon
    <3>4. CASE Created
      <4> DEFINE new(spec, target, on) ==
                    [NoDoc EXCEPT !.state = "live", !.enabled = on, !.spec = spec, !.target = target,
                        !.next = IF on = "yes" THEN NextOccurrence(spec, now) ELSE Null]
      <4>1. PICK spec \in Specs, target \in Targets, on \in {"yes", "no"} : docs'[s] = new(spec, target, on)
        BY <3>4, Zenon
      <4>2. Agrees(new(spec, target, on))
        BY CreatedAgrees, Zenon
      <4> HIDE DEF new
      <4>3. QED
        BY <4>1, <4>2
    <3>5. CASE Edited
      BY <3>1, <3>5, PatchedAgrees
    <3>6. CASE Moved
      BY <3>1, <3>6, AdvancedAgrees
    <3>7. CASE Judged
      BY <3>1, <3>7, RecordedAgrees
    <3> HIDE DEF Created, Edited, Moved, Judged
    <3>8. QED
      BY <3>1, <3>2, <3>3, <3>4, <3>5, <3>6, <3>7
  <2>3. Next => Inv'
    BY <2>2 DEF Agrees
  <2>4. QED
    BY <1>2, <2>1, <2>3
<1>3. Inv => PauseAgrees
  BY DEF Agrees, PauseAgrees
<1>4. QED
  BY TypeInit, TypeStep, <1>1, <1>2, <1>3, PTL DEF Spec

-----------------------------------------------------------------------------
(* Shutdown                                                                *)

\* Only these steps touch a supervisor's life or the fires in progress.
LEMMA LivesAndFires ==
    ASSUME [Next]_vars
    PROVE  \/ UNCHANGED <<life, flights>>
           \/ \E p \in Procs, s \in Scheds : FireNow(p, s)
           \/ \E p \in Procs : AdvanceClaimed(p)
           \/ \E f \in flights : FlightStep(f) \/ FinalizeThrows(f)
           \/ \E p \in Procs : Start(p) \/ Stop(p) \/ StopReturns(p) \/ Exit(p) \/ Crash(p)
<1>1. \A s \in Scheds : Create(s) \/ Patch(s) \/ Delete(s) \/ DeleteRuns(s) \/ DeleteRunsLost(s)
         => UNCHANGED <<life, flights>>
  BY DEF Create, Patch, Delete, DeleteRuns, DeleteRunsLost
<1>2. \A p \in Procs : \A d \in due[p] : Visit(p, d) \/ InsertThrows(p, d) => UNCHANGED <<life, flights>>
  BY DEF Visit, SkipStale, MissOnce, CoolDown, Defer, Claim, InsertThrows
<1>3. \A p \in Procs : TickStarts(p) \/ RecordMiss(p) \/ AdoptPresent(p) \/ PassEnds(p)
         => UNCHANGED <<life, flights>>
  BY DEF TickStarts, RecordMiss, AdoptPresent, PassEnds
<1>4. (\E r \in RunIds : CompleteRun(r)) \/ ClockTicks \/ UNCHANGED vars => UNCHANGED <<life, flights>>
  BY DEF CompleteRun, ClockTicks, vars
<1>5. QED
  BY <1>1, <1>2, <1>3, <1>4, Zenon DEF Next, PassStep

\* A process that has stopped has no pass, so it can launch nothing but what the
\* owner asks for, and stop() returned when it had no fire left: shutdown drains
\* to empty (supervisor.ts:183-187).
THEOREM ShutdownDrains == Spec => []StopDrains
<1> DEFINE Drained == \A f \in flights : life[f.proc] = "stopped" => f.run.at = RunNow
<1>1. Init => Drained
  BY DEF Init
<1>2. ASSUME Typed, Drained, [Next]_vars PROVE Drained'
  <2>0. /\ \A f \in flights : f.proc \in Procs /\ f \in Flight
        /\ life \in [Procs -> {"down", "up", "stopping", "stopped"}]
        /\ \A p \in Procs : life[p] = "stopped" => step[p] = "none"
    BY <1>2 DEF Typed, TypeOK, VariablesOK, PhasesOK, Flight
  <2>1. ASSUME NEW p \in Procs, NEW s \in Scheds, FireNow(p, s) PROVE Drained'
    BY <1>2, <2>1 DEF FireNow, Launch
  <2>2. ASSUME NEW p \in Procs, AdvanceClaimed(p) PROVE Drained'
    <3>1. life' = life /\ life[p] # "stopped" /\ \A f \in flights' : f \in flights \/ f.proc = p
      BY <2>0, <2>2 DEF AdvanceClaimed, Launch
    <3>2. QED
      BY <1>2, <3>1
  <2>3. ASSUME NEW f \in flights, FlightStep(f) \/ FinalizeThrows(f) PROVE Drained'
    <3>1. \A o : LET g == [f EXCEPT !.phase = "finalize", !.outcome = o] IN g.run = f.run /\ g.proc = f.proc
      BY <2>0 DEF Flight
    <3>2. LET g == [f EXCEPT !.phase = "record"] IN g.run = f.run /\ g.proc = f.proc
      BY <2>0 DEF Flight
    <3>3. life' = life
      BY <2>3 DEF FlightStep, TargetAnswers, Finalize, RecordOutcome, FinalizeThrows
    <3>4. CASE TargetAnswers(f)
      <4>1. PICK o : flights' = (flights \ {f}) \cup {[f EXCEPT !.phase = "finalize", !.outcome = o]}
        BY <3>4 DEF TargetAnswers, Becomes
      <4> DEFINE g == [f EXCEPT !.phase = "finalize", !.outcome = o]
      <4>2. g.run = f.run /\ g.proc = f.proc
        BY <3>1
      <4>3. flights' = (flights \ {f}) \cup {g}
        BY <4>1
      <4> HIDE DEF g
      <4>4. QED
        BY <1>2, <3>3, <4>2, <4>3
    <3>5. CASE Finalize(f)
      <4> DEFINE g == [f EXCEPT !.phase = "record"]
      <4>1. flights' = (flights \ {f}) \cup {g} /\ g.run = f.run /\ g.proc = f.proc
        BY <3>2, <3>5 DEF Finalize, Becomes
      <4> HIDE DEF g
      <4>2. QED
        BY <1>2, <3>3, <4>1
    <3>6. CASE RecordOutcome(f) \/ FinalizeThrows(f)
      BY <1>2, <3>3, <3>6 DEF RecordOutcome, FinalizeThrows
    <3>7. QED
      BY <2>3, <3>4, <3>5, <3>6 DEF FlightStep
  <2>4. ASSUME NEW p \in Procs, Start(p) \/ Stop(p) \/ StopReturns(p) PROVE Drained'
    BY <1>2, <2>0, <2>4 DEF Start, Stop, StopReturns, FlightsOf
  <2>5. ASSUME NEW p \in Procs, Exit(p) \/ Crash(p) PROVE Drained'
    BY <1>2, <2>0, <2>5 DEF Exit, Crash, Gone, FlightsOf
  <2>6. CASE UNCHANGED <<life, flights>>
    BY <1>2, <2>6
  <2> HIDE DEF Drained
  <2>7. QED
    BY <1>2, <2>1, <2>2, <2>3, <2>4, <2>5, <2>6, LivesAndFires
<1>3. Typed /\ Drained => StopDrains
  BY DEF Typed, TypeOK, PhasesOK, StopDrains, FlightsOf
<1>4. QED
  BY TypeInit, TypeStep, <1>1, <1>2, <1>3, PTL DEF Spec

-----------------------------------------------------------------------------
(* What a step may do to a pointer and to a run row                        *)

\* None of the occurrences of s counts as put off any longer.
Dropped(s) == \A x \in deferred' : x[2] # s

\* The pointer of a schedule that exists only moves on, but for an edit, which
\* sets it to an instant that has not passed.
PointerStep(s) ==
    /\ docs'[s].state # "live" => docs'[s].next = Null \/ docs'[s] = docs[s]
    /\ \/ docs[s].state = "new"
       \/ /\ docs'[s].state # "new"
          /\ docs[s].state = "gone" => docs'[s].state = "gone"
          /\ docs'[s].state # docs[s].state => Dropped(s)
          /\ \/ docs'[s].next = Null
             \/ docs'[s].next = docs[s].next /\ docs'[s].spec = docs[s].spec
             \/ docs[s].next # Null /\ docs'[s].next > docs[s].next /\ docs'[s].spec = docs[s].spec
             \/ docs'[s].next >= now /\ Dropped(s)

LEMMA AdvancedMoves ==
    ASSUME NEW doc \in Doc, NEW planned \in Times, NEW adopt \in Nat
    PROVE  LET new == Advanced(doc, planned, adopt)
           IN  /\ new.state = doc.state /\ new.spec = doc.spec
               /\ new = doc \/ doc.state = "live"
               /\ \/ new.next = doc.next
                  \/ new.next = Null
                  \/ doc.next # Null /\ new.next > doc.next
<1> DEFINE after == Larger(planned, IF adopt > 0 THEN adopt - 1 ELSE 0)
           next == IF doc.enabled = "no" THEN Null ELSE NextOccurrence(doc.spec, after)
<1>1. after \in Nat /\ after >= planned /\ planned \in Nat /\ planned # Null
  BY DEF Larger, Times, Null
<1>2. next = Null \/ next > planned
  <2>1. doc.spec \in Nat
    BY DEF Doc, Specs, Every, Times
  <2> HIDE DEF after
  <2>2. QED
    BY <1>1, <2>1 DEF NextOccurrence, Null
<1>3. CASE doc.state # "live" \/ doc.next # planned
  BY <1>3 DEF Advanced
<1>4. CASE doc.state = "live" /\ doc.next = planned
  <2> HIDE DEF next
  <2>1. Advanced(doc, planned, adopt) = [doc EXCEPT !.next = next]
    BY <1>4 DEF Advanced, next
  <2>2. QED
    BY <1>1, <1>2, <1>4, <2>1 DEF Doc
<1>5. QED
  BY <1>3, <1>4

LEMMA AdvanceLaw ==
    ASSUME Typed, NEW s \in Scheds, NEW planned \in Times, NEW adopt \in Nat, Advance(s, planned, adopt),
           NEW x \in Scheds
    PROVE  PointerStep(x)
<1>1. docs \in [Scheds -> Doc] /\ docs[x] \in Doc /\ docs[s] \in Doc
  BY DEF Typed, TypeOK, VariablesOK
<1>2. CASE docs'[x] = docs[x]
  BY <1>2 DEF PointerStep
<1>3. CASE docs'[x] = Advanced(docs[x], planned, adopt)
  BY <1>1, <1>3, AdvancedMoves DEF PointerStep
<1>4. QED
  BY <1>1, <1>2, <1>3 DEF Advance

LEMMA RecordLaw ==
    ASSUME Typed, NEW s \in Scheds, NEW outcome, Record(s, outcome), NEW x \in Scheds
    PROVE  PointerStep(x)
<1>1. docs \in [Scheds -> Doc] /\ docs[x] \in Doc /\ docs[s] \in Doc
  BY DEF Typed, TypeOK, VariablesOK
<1>2. CASE docs'[x] = docs[x]
  BY <1>2 DEF PointerStep
<1>3. CASE docs'[x] = Recorded(docs[x], outcome)
  <2>1. LET new == Recorded(docs[x], outcome)
        IN  /\ new.state = docs[x].state /\ new.spec = docs[x].spec /\ new.next \in {docs[x].next, Null}
            /\ new = docs[x] \/ docs[x].state = "live"
    BY <1>1 DEF Recorded, Doc
  <2>2. QED
    BY <1>3, <2>1 DEF PointerStep
<1>4. QED
  BY <1>1, <1>2, <1>3 DEF Record

LEMMA OwnerLaw ==
    ASSUME Typed, NEW s \in Scheds, NEW x \in Scheds,
           Create(s) \/ Patch(s) \/ Delete(s) \/ DeleteRuns(s) \/ DeleteRunsLost(s)
    PROVE  PointerStep(x)
<1>1. docs \in [Scheds -> Doc] /\ docs[x] \in Doc /\ docs[s] \in Doc /\ now \in Nat /\ now \in Times
  BY DEF Typed, TypeOK, VariablesOK
<1>2. CASE docs'[x] = docs[x]
  BY <1>2 DEF PointerStep
<1>3. CASE Create(s)
  <2>1. PICK spec \in Specs, target \in Targets, on \in {"yes", "no"} :
           /\ ValidSpec(spec, now)
           /\ docs' = [docs EXCEPT ![s] =
                 [NoDoc EXCEPT !.state = "live", !.enabled = on, !.spec = spec, !.target = target,
                     !.next = IF on = "yes" THEN NextOccurrence(spec, now) ELSE Null]]
    BY <1>3, Zenon DEF Create
  <2> DEFINE next == IF on = "yes" THEN NextOccurrence(spec, now) ELSE Null
  <2>2. docs' = [docs EXCEPT ![s] =
             [NoDoc EXCEPT !.state = "live", !.enabled = on, !.spec = spec, !.target = target, !.next = next]]
    BY <2>1
  <2> HIDE DEF next
  <2>3. docs'[s].state = "live"
    BY <1>1, <2>2 DEF NoDoc
  <2>4. x # s => docs'[x] = docs[x]
    BY <1>1, <2>2
  <2>5. QED
    BY <1>2, <1>3, <2>3, <2>4 DEF Create, PointerStep
<1>4. CASE Patch(s) /\ x = s
  <2>1. PICK at \in {now, now - 1}, target \in Targets, enabled \in {"keep", "yes", "no"},
             spec \in Specs \cup {Same} :
           docs' = [docs EXCEPT ![s] = Patched(@, spec, target, enabled, at)]
    BY <1>4 DEF Patch
  <2> DEFINE new == Patched(docs[s], spec, target, enabled, at)
             cadence == IF spec = Same THEN docs[s].spec ELSE spec
             next == NextOccurrence(cadence, at)
  <2>2. new.state = docs[s].state
    BY <1>1 DEF Patched, Doc
  <2>3. \/ new.next = Null
        \/ new.next = docs[s].next /\ new.spec = docs[s].spec
        \/ new.next = next
    <3> HIDE DEF next
    <3>1. CASE spec = Same /\ enabled = "keep" /\ docs[s].next # Null
      BY <1>1, <3>1 DEF Patched, Doc
    <3>2. CASE ~(spec = Same /\ enabled = "keep" /\ docs[s].next # Null)
      BY <1>1, <3>2 DEF Patched, Doc, next
    <3>3. QED
      BY <3>1, <3>2
  <2>4. next = Null \/ next >= now
    <3>1. cadence \in Nat
      BY <1>1 DEF Doc, Specs, Every, Times
    <3>2. at \in Nat /\ at + 1 >= now
      BY <1>1 DEF Times
    <3> HIDE DEF cadence
    <3>3. QED
      BY <1>1, <3>1, <3>2 DEF NextOccurrence, Null
  <2>5. Dropped(x) /\ docs'[x] = new /\ docs[s].state = "live"
    BY <1>1, <1>4, <2>1 DEF Patch, Dropped
  <2> HIDE DEF new, next
  <2>6. QED
    BY <1>4, <2>2, <2>3, <2>4, <2>5 DEF PointerStep
<1>5. CASE Delete(s) /\ x = s
  BY <1>1, <1>5 DEF Delete, NoDoc, Dropped, PointerStep
<1>6. CASE (Patch(s) \/ Delete(s)) /\ x # s
  BY <1>1, <1>2, <1>6 DEF Patch, Delete
<1>7. CASE DeleteRuns(s) \/ DeleteRunsLost(s)
  BY <1>2, <1>7 DEF DeleteRuns, DeleteRunsLost
<1>8. QED
  BY <1>3, <1>4, <1>5, <1>6, <1>7

LEMMA PointerLaw ==
    ASSUME Typed, [Next]_vars, NEW x \in Scheds
    PROVE  PointerStep(x)
<1>0. \A p \in Procs : \A d \in due[p] \cup cur[p] : d.sched \in Scheds /\ d.planned \in Times /\ d.cool \in Nat
  BY DEF Typed, TypeOK, VariablesOK, Snapshot
<1>1. \A p \in Procs : clock[p] \in Nat /\ 0 \in Nat
  BY DEF Typed, TypeOK, VariablesOK
<1>2. ASSUME docs' = docs PROVE PointerStep(x)
  BY <1>2 DEF PointerStep
<1>3. ASSUME NEW p \in Procs, NEW d \in due[p], Visit(p, d) \/ InsertThrows(p, d) PROVE PointerStep(x)
  BY <1>0, <1>1, <1>2, <1>3, AdvanceLaw DEF Visit, SkipStale, MissOnce, CoolDown, Defer, Claim, InsertThrows
<1>4. ASSUME NEW p \in Procs, AdvanceClaimed(p) \/ AdoptPresent(p) PROVE PointerStep(x)
  BY <1>0, <1>1, <1>4, AdvanceLaw DEF AdvanceClaimed, AdoptPresent
<1>5. ASSUME NEW p \in Procs, RecordMiss(p) PROVE PointerStep(x)
  BY <1>0, <1>5, RecordLaw DEF RecordMiss
<1>6. ASSUME NEW f \in flights, FlightStep(f) \/ FinalizeThrows(f) PROVE PointerStep(x)
  <2>1. f.run.sched \in Scheds
    BY DEF Typed, TypeOK, VariablesOK, Flight, RunIds
  <2>2. QED
    BY <1>2, <1>6, <2>1, RecordLaw DEF FlightStep, TargetAnswers, Finalize, RecordOutcome, FinalizeThrows
<1>7. (\E p \in Procs : TickStarts(p) \/ PassEnds(p) \/ Start(p) \/ Stop(p) \/ StopReturns(p) \/ Exit(p) \/ Crash(p))
         => docs' = docs
  BY DEF TickStarts, PassEnds, Start, Stop, StopReturns, Exit, Crash, Gone
<1>8. ASSUME \/ \E r \in RunIds : CompleteRun(r)
             \/ \E p \in Procs, s \in Scheds : FireNow(p, s)
             \/ ClockTicks
             \/ UNCHANGED vars
      PROVE  docs' = docs
  BY <1>8 DEF CompleteRun, FireNow, ClockTicks, vars
<1>9. ASSUME NEW s \in Scheds, Create(s) \/ Patch(s) \/ Delete(s) \/ DeleteRuns(s) \/ DeleteRunsLost(s)
      PROVE  PointerStep(x)
  BY <1>9, OwnerLaw
<1> HIDE DEF PointerStep
<1>10. QED
  BY <1>2, <1>3, <1>4, <1>5, <1>6, <1>7, <1>8, <1>9 DEF Next, PassStep

\* A stored row goes on, ends, or is deleted after its schedule.
RowStep(r) ==
    \/ runs'[r] = runs[r]
    \/ ~Stored(r) /\ Stored(r)'
    \/ Stored(r) /\ runs'[r] \in {"ok", "failed", "blocked", "done", "dismissed"}
    \/ ~Kept(r.sched) /\ runs'[r] = "removed"

LEMMA RowLaw ==
    ASSUME Typed, OnceInv, [Next]_vars, NEW r \in RunIds
    PROVE  RowStep(r)
<1>0. /\ runs \in [RunIds -> Statuses]
      /\ \A p \in Procs : \A d \in due[p] : Occurrence(d.sched, d.planned) \in RunIds
      /\ \A f \in flights : f.phase = "finalize" => f.outcome \in Outcomes
  BY DEF Typed, TypeOK, VariablesOK, PhasesOK, Snapshot, Occurrence, RunIds, Flight
<1>1. ASSUME runs' = runs PROVE RowStep(r)
  BY <1>1 DEF RowStep
<1>2. ASSUME NEW x \in RunIds, NEW v \in {"pending", "running", "failed"}, ~Stored(x),
             runs' = [runs EXCEPT ![x] = v]
      PROVE  RowStep(r)
  BY <1>0, <1>2 DEF RowStep, Stored
<1>3. ASSUME NEW s \in Scheds, Create(s) \/ Patch(s) \/ Delete(s) \/ DeleteRuns(s) \/ DeleteRunsLost(s)
      PROVE  RowStep(r)
  <2>1. CASE DeleteRuns(s)
    BY <1>0, <2>1 DEF DeleteRuns, OnceInv, PurgesGone, Kept, RowStep
  <2>2. CASE ~DeleteRuns(s)
    BY <1>1, <1>3, <2>2 DEF Create, Patch, Delete, DeleteRunsLost
  <2>3. QED
    BY <2>1, <2>2
<1>4. ASSUME NEW x \in RunIds, CompleteRun(x) PROVE RowStep(r)
  BY <1>0, <1>4 DEF CompleteRun, RowStep, Stored
<1>5. ASSUME NEW p \in Procs, NEW s \in Scheds, FireNow(p, s) PROVE RowStep(r)
  <2>1. [sched |-> s, at |-> RunNow] \in RunIds
    BY DEF RunIds
  <2>2. QED
    BY <1>2, <1>5, <2>1 DEF FireNow, ClaimedAs, Stored
<1>6. ASSUME NEW p \in Procs, NEW d \in due[p], Visit(p, d) \/ InsertThrows(p, d) PROVE RowStep(r)
  <2>1. CASE runs' = runs
    BY <1>1, <2>1
  <2>2. CASE runs' # runs
    <3>1. LET x == Occurrence(d.sched, d.planned)
          IN  ~Stored(x) /\ \E v \in {"pending", "running", "failed"} : runs' = [runs EXCEPT ![x] = v]
      BY <1>6, <2>2 DEF Visit, SkipStale, MissOnce, CoolDown, Defer, Claim, InsertThrows, ClaimedAs
    <3>2. QED
      BY <1>0, <1>2, <3>1
  <2>3. QED
    BY <2>1, <2>2
<1>7. ASSUME NEW f \in flights, FlightStep(f) \/ FinalizeThrows(f) PROVE RowStep(r)
  BY <1>0, <1>1, <1>7 DEF FlightStep, TargetAnswers, Finalize, RecordOutcome, FinalizeThrows, Outcomes, RowStep
<1>8. (\E p \in Procs : \/ TickStarts(p) \/ AdvanceClaimed(p) \/ RecordMiss(p) \/ AdoptPresent(p) \/ PassEnds(p)
                        \/ Start(p) \/ Stop(p) \/ StopReturns(p) \/ Exit(p) \/ Crash(p))
         => runs' = runs
  BY DEF TickStarts, AdvanceClaimed, RecordMiss, AdoptPresent, PassEnds, Start, Stop, StopReturns, Exit, Crash, Gone
<1>9. ClockTicks \/ UNCHANGED vars => runs' = runs
  BY DEF ClockTicks, vars
<1> HIDE DEF RowStep
<1>10. QED
  BY <1>1, <1>3, <1>4, <1>5, <1>6, <1>7, <1>8, <1>9 DEF Next, PassStep

-----------------------------------------------------------------------------
(* An occurrence that was put off keeps its grace                          *)

Pointed(s, t) == docs[s].next = Null \/ docs[s].next >= t
Beyond(s, t)  == docs[s].next = Null \/ docs[s].next > t

\* A schedule that does not exist has no pointer.
PointersOfLive == \A s \in Scheds : docs[s].state # "live" => docs[s].next = Null

\* The clocks of a pass lie in the past.
ClocksPast(p) ==
    /\ clock[p] <= now
    /\ \A s \in Scheds : /\ seen[p][s].at <= now
                         /\ step[p] # "none" => seen[p][s].at <= clock[p]

\* What the pass of p has read: one snapshot of a schedule, which the pointer has
\* not fallen behind; and once the instant has passed, a pointer that is still
\* where it was read is that of the cadence that was read.
ReadOK(p) ==
    /\ \A d, e \in due[p] : d.sched = e.sched => d = e
    /\ \A d \in due[p] :
          /\ d.planned <= clock[p]
          /\ docs[d.sched].state # "new"
          /\ Pointed(d.sched, d.planned)
          /\ clock[p] > d.planned /\ docs[d.sched].next = d.planned => docs[d.sched].spec = d.spec

\* The first sighting of the occurrence is remembered, and was within the grace.
Graced(p, s, t) == seen[p][s].planned = t /\ seen[p][s].at <= t + Grace

Taken(s, t) == docs[s].state = "live" /\ Stored(Occurrence(s, t))

\* Neither the pointer nor the pass in hand will come to the occurrence again.
LeftBehind(p, s, t) == Beyond(s, t) /\ \A d \in due[p] : d.sched = s => d.planned # t

\* An occurrence that p has put off: no pass of p can lose sight of it while it
\* may still be claimed.
PutOffOK(p, s, t) ==
    /\ t <= now
    /\ docs[s].state # "new"
    /\ Pointed(s, t)
    /\ \A d \in due[p] : d.sched = s => d.planned >= t
    /\ step[p] # "none" => s \in listed[p] \/ (\E d \in due[p] : d.sched = s) \/ Beyond(s, t)
    /\ Graced(p, s, t) \/ Taken(s, t) \/ LeftBehind(p, s, t) \/ life[p] = "stopped"

PassOK(p) ==
    /\ ClocksPast(p)
    /\ ReadOK(p)
    /\ \A s \in Scheds, t \in Times : <<p, s, t>> \in deferred => PutOffOK(p, s, t)

GraceInv == PointersOfLive /\ \A p \in Procs : PassOK(p)

\* What the proofs below need of the types, of this state and of the next.
GraceTypes ==
    /\ now \in Nat /\ Grace \in Nat
    /\ \A s \in Scheds : docs[s].next \in Nat
    /\ \A p \in Procs : clock[p] \in Nat
    /\ \A p \in Procs, s \in Scheds : seen[p][s].at \in Nat
    /\ \A p \in Procs : \A d \in due[p] : d.sched \in Scheds /\ d.planned \in Nat /\ d.planned \in Times

LEMMA TypesOfGrace == Typed => GraceTypes
  BY SchedulesAssumption DEF Typed, TypeOK, VariablesOK, GraceTypes, Doc, Seen, Snapshot, Times

LEMMA PointersStep ==
    ASSUME Typed, PointersOfLive, [Next]_vars
    PROVE  PointersOfLive'
  BY PointerLaw DEF PointerStep, PointersOfLive

\* A step that does not touch the pass of q.
LEMMA PassUndisturbed ==
    ASSUME GraceTypes, GraceTypes', NEW q \in Procs, PassOK(q),
           \A s \in Scheds : PointerStep(s),
           \A r \in RunIds : docs'[r.sched].state = "live" /\ Stored(r) => Stored(r)',
           now' >= now,
           due'[q] = due[q], listed'[q] = listed[q], clock'[q] = clock[q], seen'[q] = seen[q],
           step'[q] # "none" => step[q] # "none",
           life[q] = "stopped" => life'[q] = "stopped",
           \A s \in Scheds, t \in Times : <<q, s, t>> \in deferred' => <<q, s, t>> \in deferred
    PROVE  PassOK(q)'
<1>1. ClocksPast(q)'
  BY DEF PassOK, ClocksPast, GraceTypes
<1>2. \A s \in Scheds, t \in Nat : Pointed(s, t) /\ t <= now /\ docs[s].state # "new" => Pointed(s, t)'
  BY DEF PointerStep, Pointed, GraceTypes
<1>3. \A s \in Scheds, t \in Nat :
         Beyond(s, t) /\ t <= now /\ docs[s].state # "new" => Beyond(s, t)' \/ Dropped(s)
  BY DEF PointerStep, Beyond, GraceTypes
<1>4. \A s \in Scheds : docs[s].state # "new" => docs'[s].state # "new"
  BY DEF PointerStep
<1>5. ReadOK(q)'
  <2>1. ASSUME NEW d \in due[q]
        PROVE  /\ docs'[d.sched].state # "new"
               /\ Pointed(d.sched, d.planned)'
               /\ clock[q] > d.planned /\ docs'[d.sched].next = d.planned => docs'[d.sched].spec = d.spec
    <3>1. d.sched \in Scheds /\ d.planned \in Nat /\ d.planned # 0 /\ d.planned <= clock[q] /\ clock[q] <= now
      BY DEF GraceTypes, Times, PassOK, ReadOK, ClocksPast
    <3>2. /\ docs[d.sched].state # "new" /\ Pointed(d.sched, d.planned)
          /\ clock[q] > d.planned /\ docs[d.sched].next = d.planned => docs[d.sched].spec = d.spec
      BY DEF PassOK, ReadOK
    <3>3. d.planned <= now
      BY <3>1 DEF GraceTypes
    <3>4. clock[q] > d.planned /\ docs'[d.sched].next = d.planned => docs'[d.sched].spec = d.spec
      BY <3>1, <3>2 DEF PointerStep, Pointed, GraceTypes, Null
    <3>5. QED
      BY <1>2, <1>4, <3>1, <3>2, <3>3, <3>4
  <2>2. QED
    BY <2>1 DEF PassOK, ReadOK
<1>6. ASSUME NEW s \in Scheds, NEW t \in Times, <<q, s, t>> \in deferred' PROVE PutOffOK(q, s, t)'
  <2>1. PutOffOK(q, s, t) /\ t \in Nat /\ ~Dropped(s)
    BY <1>6 DEF PassOK, Times, Dropped
  <2>2. t <= now' /\ docs'[s].state # "new" /\ Pointed(s, t)'
    BY <1>2, <1>4, <2>1 DEF PutOffOK, GraceTypes
  <2>3. Beyond(s, t) => Beyond(s, t)'
    BY <1>3, <2>1 DEF PutOffOK
  <2>4. Taken(s, t) => Taken(s, t)'
    <3>1. Occurrence(s, t) \in RunIds /\ Occurrence(s, t).sched = s
      BY DEF Occurrence, RunIds
    <3>2. docs'[s].state = docs[s].state
      BY <2>1 DEF PutOffOK, PointerStep
    <3>3. QED
      BY <3>1, <3>2 DEF Taken
  <2>5. Graced(q, s, t) => Graced(q, s, t)'
    BY DEF Graced
  <2>6. LeftBehind(q, s, t) => LeftBehind(q, s, t)'
    BY <2>3 DEF LeftBehind
  <2> HIDE DEF Beyond, Taken, Graced, LeftBehind, Pointed
  <2>7. QED
    BY <2>1, <2>2, <2>3, <2>4, <2>5, <2>6 DEF PutOffOK
<1>7. QED
  BY <1>1, <1>5, <1>6 DEF PassOK

\* The pass begins.
LEMMA TickKeepsPass ==
    ASSUME Typed, GraceTypes, GraceTypes', GraceInv, PauseAgrees, NEW p \in Procs, TickStarts(p)
    PROVE  PassOK(p)'
<1>1. /\ docs' = docs /\ runs' = runs /\ now' = now /\ life' = life /\ seen' = seen /\ deferred' = deferred
      /\ step'[p] = "judge" /\ clock'[p] = now /\ listed'[p] = {} /\ life[p] = "up"
  BY DEF TickStarts, Typed, TypeOK, VariablesOK
<1>2. due'[p] = {[sched |-> s, planned |-> docs[s].next, spec |-> docs[s].spec,
                  target |-> docs[s].target, cool |-> docs[s].cool] :
                     s \in {x \in Scheds : /\ docs[x].state = "live" /\ docs[x].enabled = "yes"
                                           /\ docs[x].next # Null /\ docs[x].next <= now}}
  BY DEF TickStarts, Typed, TypeOK, VariablesOK
<1>3. \A d \in due'[p] : /\ d.sched \in Scheds /\ docs[d.sched].state = "live" /\ docs[d.sched].next # Null
                         /\ docs[d.sched].next <= now
                         /\ d = [sched |-> d.sched, planned |-> docs[d.sched].next, spec |-> docs[d.sched].spec,
                                 target |-> docs[d.sched].target, cool |-> docs[d.sched].cool]
  BY <1>2
<1>4. \A s \in Scheds : \/ \E d \in due'[p] : d.sched = s
                        \/ docs[s].next = Null \/ docs[s].next > now
  <2>1. ASSUME NEW s \in Scheds, docs[s].next # Null, docs[s].next <= now
        PROVE  \E d \in due'[p] : d.sched = s
    <3>1. docs[s].state = "live" /\ docs[s].enabled = "yes"
      BY <2>1 DEF PauseAgrees, GraceInv, PointersOfLive, Typed, TypeOK, VariablesOK, Doc
    <3>2. [sched |-> s, planned |-> docs[s].next, spec |-> docs[s].spec,
           target |-> docs[s].target, cool |-> docs[s].cool] \in due'[p]
      BY <1>2, <2>1, <3>1
    <3>3. QED
      BY <3>2
  <2>2. QED
    BY <2>1 DEF GraceTypes
<1>5. ClocksPast(p)'
  BY <1>1 DEF ClocksPast, GraceInv, PassOK, GraceTypes
<1>6. ReadOK(p)'
  BY <1>1, <1>3 DEF ReadOK, Pointed, GraceTypes
<1>7. ASSUME NEW s \in Scheds, NEW t \in Times, <<p, s, t>> \in deferred' PROVE PutOffOK(p, s, t)'
  <2>1. PutOffOK(p, s, t) /\ t \in Nat
    BY <1>1, <1>7 DEF GraceInv, PassOK, Times
  <2>2. \A d \in due'[p] : d.sched = s => d.planned = docs[s].next /\ docs[s].next # Null
    BY <1>3
  <2>3. \A d \in due'[p] : d.sched = s => d.planned >= t
    BY <2>1, <2>2 DEF PutOffOK, Pointed
  <2>4. (\E d \in due'[p] : d.sched = s) \/ Beyond(s, t)
    BY <1>4, <2>1 DEF PutOffOK, Beyond, GraceTypes
  <2>5. Graced(p, s, t) \/ Taken(s, t) \/ (Beyond(s, t) /\ \A d \in due'[p] : d.sched = s => d.planned # t)
    BY <1>1, <2>1, <2>2 DEF PutOffOK, LeftBehind, Beyond, GraceTypes
  <2>6. QED
    BY <1>1, <2>1, <2>3, <2>4, <2>5 DEF PutOffOK, Pointed, Beyond, Graced, Taken, LeftBehind, Stored
<1>8. QED
  BY <1>5, <1>6, <1>7 DEF PassOK

\* The pass visits the schedule of d, and does not come back to it.
LEMMA VisitedPass ==
    ASSUME GraceTypes, GraceTypes', NEW p \in Procs, NEW d \in due[p], PassOK(p), step[p] # "none",
           \A s \in Scheds : PointerStep(s),
           \A r \in RunIds : docs'[r.sched].state = "live" /\ Stored(r) => Stored(r)',
           now' = now, life' = life,
           \/ /\ due'[p] = due[p] \ {d} /\ listed'[p] = listed[p] \cup {d.sched}
              /\ clock'[p] = clock[p]
           \/ due'[p] = {} /\ step'[p] = "none" /\ clock'[p] = 0,
           \A s \in Scheds : s # d.sched => seen'[p][s] = seen[p][s],
           seen'[p][d.sched].at <= clock[p],
           \A s \in Scheds, t \in Times :
              <<p, s, t>> \in deferred' => <<p, s, t>> \in deferred \/ (s = d.sched /\ t = d.planned),
           <<p, d.sched, d.planned>> \in deferred'
              => \/ Graced(p, d.sched, d.planned)' \/ Taken(d.sched, d.planned)'
                 \/ Beyond(d.sched, d.planned)' \/ life[p] = "stopped"
    PROVE  PassOK(p)'
<1>1. /\ d.sched \in Scheds /\ d.planned \in Nat /\ d.planned \in Times /\ d.planned # 0
      /\ d.planned <= clock[p] /\ clock[p] <= now /\ d.planned <= now
      /\ docs[d.sched].state # "new" /\ Pointed(d.sched, d.planned)
  BY DEF GraceTypes, Times, PassOK, ReadOK, ClocksPast
<1>2. due'[p] \subseteq due[p] /\ \A e \in due'[p] : e.sched # d.sched
  BY DEF PassOK, ReadOK
<1>3. ClocksPast(p)'
  BY <1>1 DEF PassOK, ClocksPast, GraceTypes
<1>4. \A s \in Scheds, t \in Nat : Pointed(s, t) /\ t <= now /\ docs[s].state # "new" => Pointed(s, t)'
  BY DEF PointerStep, Pointed, GraceTypes
<1>5. \A s \in Scheds, t \in Nat :
         Beyond(s, t) /\ t <= now /\ docs[s].state # "new" => Beyond(s, t)' \/ Dropped(s)
  BY DEF PointerStep, Beyond, GraceTypes
<1>6. \A s \in Scheds : docs[s].state # "new" => docs'[s].state # "new"
  BY DEF PointerStep
<1>7. ReadOK(p)'
  <2>1. ASSUME NEW e \in due'[p]
        PROVE  /\ e.planned <= clock'[p]
               /\ docs'[e.sched].state # "new"
               /\ Pointed(e.sched, e.planned)'
               /\ clock'[p] > e.planned /\ docs'[e.sched].next = e.planned => docs'[e.sched].spec = e.spec
    <3>1. e \in due[p] /\ clock'[p] = clock[p]
      BY <1>2
    <3>2. e.sched \in Scheds /\ e.planned \in Nat /\ e.planned # 0 /\ e.planned <= clock[p] /\ clock[p] <= now
      BY <3>1 DEF GraceTypes, Times, PassOK, ReadOK, ClocksPast
    <3>3. /\ docs[e.sched].state # "new" /\ Pointed(e.sched, e.planned)
          /\ clock[p] > e.planned /\ docs[e.sched].next = e.planned => docs[e.sched].spec = e.spec
      BY <3>1 DEF PassOK, ReadOK
    <3>4. e.planned <= now
      BY <3>2 DEF GraceTypes
    <3>5. clock[p] > e.planned /\ docs'[e.sched].next = e.planned => docs'[e.sched].spec = e.spec
      BY <3>2, <3>3 DEF PointerStep, Pointed, GraceTypes, Null
    <3>6. QED
      BY <1>4, <1>6, <3>1, <3>2, <3>3, <3>4, <3>5
  <2>2. QED
    BY <1>2, <2>1 DEF PassOK, ReadOK
<1>8. step'[p] # "none" => d.sched \in listed'[p]
  OBVIOUS
<1>9. ASSUME <<p, d.sched, d.planned>> \in deferred' PROVE PutOffOK(p, d.sched, d.planned)'
  <2>1. Pointed(d.sched, d.planned)' /\ docs'[d.sched].state # "new"
    BY <1>1, <1>4, <1>6
  <2>2. Beyond(d.sched, d.planned)' => LeftBehind(p, d.sched, d.planned)'
    BY <1>2 DEF LeftBehind
  <2> HIDE DEF Pointed, Beyond, Graced, Taken, LeftBehind
  <2>3. QED
    BY <1>1, <1>2, <1>8, <1>9, <2>1, <2>2 DEF PutOffOK
<1>10. ASSUME NEW t \in Times, t # d.planned, <<p, d.sched, t>> \in deferred' PROVE PutOffOK(p, d.sched, t)'
  <2>1. PutOffOK(p, d.sched, t) /\ t \in Nat /\ ~Dropped(d.sched)
    BY <1>1, <1>10 DEF PassOK, Times, Dropped
  <2>2. d.planned > t
    BY <1>1, <1>10, <2>1 DEF PutOffOK
  <2>3. Beyond(d.sched, t)
    BY <1>1, <2>1, <2>2 DEF Pointed, Beyond, GraceTypes
  <2>4. Beyond(d.sched, t)' /\ Pointed(d.sched, t)'
    BY <1>1, <1>4, <1>5, <2>1, <2>3 DEF PutOffOK
  <2>5. LeftBehind(p, d.sched, t)'
    BY <1>2, <2>4 DEF LeftBehind
  <2> HIDE DEF Pointed, Beyond, Graced, Taken, LeftBehind
  <2>6. QED
    BY <1>1, <1>2, <1>6, <1>8, <2>1, <2>4, <2>5 DEF PutOffOK
<1>11. ASSUME NEW s \in Scheds, s # d.sched, NEW t \in Times, <<p, s, t>> \in deferred'
       PROVE  PutOffOK(p, s, t)'
  <2>1. PutOffOK(p, s, t) /\ t \in Nat /\ ~Dropped(s)
    BY <1>11 DEF PassOK, Times, Dropped
  <2>2. t <= now' /\ docs'[s].state # "new" /\ Pointed(s, t)'
    BY <1>4, <1>6, <2>1 DEF PutOffOK
  <2>3. Beyond(s, t) => Beyond(s, t)'
    BY <1>5, <2>1 DEF PutOffOK
  <2>4. Taken(s, t) => Taken(s, t)'
    <3>1. Occurrence(s, t) \in RunIds /\ Occurrence(s, t).sched = s
      BY DEF Occurrence, RunIds
    <3>2. docs'[s].state = docs[s].state
      BY <2>1 DEF PutOffOK, PointerStep
    <3>3. QED
      BY <3>1, <3>2 DEF Taken
  <2>5. Graced(p, s, t) => Graced(p, s, t)'
    BY <1>11 DEF Graced
  <2>6. LeftBehind(p, s, t) => LeftBehind(p, s, t)'
    BY <1>2, <2>3 DEF LeftBehind
  <2>7. step'[p] # "none" => s \in listed'[p] \/ (\E e \in due'[p] : e.sched = s) \/ Beyond(s, t)'
    <3> HIDE DEF Beyond
    <3>1. step'[p] # "none" => due'[p] = due[p] \ {d} /\ listed'[p] = listed[p] \cup {d.sched}
      OBVIOUS
    <3>2. s \in listed[p] \/ (\E e \in due[p] : e.sched = s) \/ Beyond(s, t)
      BY <2>1 DEF PutOffOK
    <3>3. (\E e \in due[p] : e.sched = s) => \E e \in due[p] \ {d} : e.sched = s
      BY <1>11
    <3>4. QED
      BY <2>3, <3>1, <3>2, <3>3
  <2> HIDE DEF Beyond, Taken, Graced, LeftBehind, Pointed
  <2>8. QED
    BY <1>2, <2>1, <2>2, <2>4, <2>5, <2>6, <2>7 DEF PutOffOK
<1>12. QED
  BY <1>3, <1>7, <1>9, <1>10, <1>11 DEF PassOK

\* An occurrence that was put off is still within its grace when it is visited,
\* unless it was claimed.
LEMMA NotStale ==
    ASSUME Typed, GraceTypes, NEW p \in Procs, PassOK(p), NEW d \in due[p], life[p] # "stopped",
           <<p, d.sched, d.planned>> \in deferred
    PROVE  ~IsStale(p, d) \/ Taken(d.sched, d.planned)
<1>1. PutOffOK(p, d.sched, d.planned) /\ d.planned \in Nat
  BY DEF GraceTypes, PassOK
<1>2. ~LeftBehind(p, d.sched, d.planned)
  BY DEF LeftBehind
<1>3. Graced(p, d.sched, d.planned) => ~IsStale(p, d)
  BY <1>1 DEF Graced, IsStale, FirstSeen, GraceTypes
<1>4. QED
  BY <1>1, <1>2, <1>3 DEF PutOffOK

LEMMA VisitKeepsPass ==
    ASSUME Typed, GraceTypes, GraceTypes', GraceInv, NEW p \in Procs, NEW d \in due[p],
           Visit(p, d) \/ InsertThrows(p, d),
           \A s \in Scheds : PointerStep(s),
           \A r \in RunIds : docs'[r.sched].state = "live" /\ Stored(r) => Stored(r)'
    PROVE  PassOK(p)'
<1>1. /\ PassOK(p) /\ PointersOfLive /\ d.sched \in Scheds /\ d.planned \in Nat /\ d.planned \in Times
      /\ d.planned # 0 /\ d.planned <= clock[p] /\ clock[p] \in Nat
  BY DEF GraceInv, GraceTypes, PassOK, ReadOK, Times
<1>2. /\ IsNext(p, d) /\ life[p] = "up" /\ step[p] = "judge" /\ now' = now /\ life' = life
  BY DEF Visit, SkipStale, MissOnce, CoolDown, Defer, Claim, InsertThrows, Visits, IsNext
<1>3. /\ due \in [Procs -> SUBSET Snapshot] /\ listed \in [Procs -> SUBSET Scheds]
      /\ clock \in [Procs -> Nat] /\ seen \in [Procs -> [Scheds -> Seen]]
      /\ step \in [Procs -> {"none", "judge", "won", "lost", "miss", "adopt"}]
      /\ docs \in [Scheds -> Doc]
  BY DEF Typed, TypeOK, VariablesOK
<1>4. FirstSeen(p, d) <= clock[p]
  BY <1>1, <1>2 DEF FirstSeen, PassOK, ClocksPast
<1>5. Visits(p, d) => /\ due'[p] = due[p] \ {d} /\ listed'[p] = listed[p] \cup {d.sched}
  BY <1>3 DEF Visits
<1>6. Forget(p, d.sched) => /\ \A s \in Scheds : s # d.sched => seen'[p][s] = seen[p][s]
                            /\ seen'[p][d.sched].at <= clock[p]
  BY <1>1, <1>3 DEF Forget, NotSeen
<1>7. seen' = [seen EXCEPT ![p][d.sched] = [planned |-> d.planned, at |-> FirstSeen(p, d)]]
         => /\ \A s \in Scheds : s # d.sched => seen'[p][s] = seen[p][s]
            /\ seen'[p][d.sched].planned = d.planned /\ seen'[p][d.sched].at = FirstSeen(p, d)
  BY <1>1, <1>3
<1>8. Taken(d.sched, d.planned) => Taken(d.sched, d.planned)' \/ Beyond(d.sched, d.planned)'
  <2>1. Occurrence(d.sched, d.planned) \in RunIds /\ Occurrence(d.sched, d.planned).sched = d.sched
    BY <1>1 DEF Occurrence, RunIds
  <2>2. docs'[d.sched].state = "live" \/ docs'[d.sched].next = Null
    <3>1. PointerStep(d.sched)
      BY <1>1
    <3>2. docs'[d.sched] = docs[d.sched] => docs'[d.sched].state = "live" \/ docs'[d.sched].next = Null
      BY <1>1 DEF PointersOfLive
    <3>3. QED
      BY <3>1, <3>2 DEF PointerStep
  <2>3. QED
    BY <2>1, <2>2 DEF Taken, Beyond
<1>9. CASE SkipStale(p, d) \/ MissOnce(p, d)
  <2>1. Visits(p, d) /\ Forget(p, d.sched) /\ IsStale(p, d) /\ deferred' = deferred /\ clock' = clock
    BY <1>9 DEF SkipStale, MissOnce
  <2>2. <<p, d.sched, d.planned>> \in deferred' => Taken(d.sched, d.planned)
    BY <1>1, <1>2, <2>1, NotStale
  <2>3. QED
    BY <1>1, <1>2, <1>5, <1>6, <1>8, <2>1, <2>2, VisitedPass
<1>10. CASE CoolDown(p, d)
  <2>1. /\ Visits(p, d) /\ Forget(p, d.sched) /\ clock' = clock
        /\ deferred' = deferred \ {<<p, d.sched, d.planned>>}
    BY <1>10 DEF CoolDown
  <2>2. QED
    BY <1>1, <1>2, <1>5, <1>6, <2>1, VisitedPass
<1>11. CASE Defer(p, d)
  <2>1. /\ Visits(p, d) /\ clock' = clock /\ ~IsStale(p, d)
        /\ seen' = [seen EXCEPT ![p][d.sched] = [planned |-> d.planned, at |-> FirstSeen(p, d)]]
        /\ deferred' = deferred \cup {<<p, d.sched, d.planned>>}
    BY <1>11 DEF Defer
  <2>2. FirstSeen(p, d) \in Nat
    BY <1>1 DEF FirstSeen, GraceTypes
  <2>3. Graced(p, d.sched, d.planned)'
    BY <1>1, <1>7, <2>1, <2>2 DEF Graced, IsStale, GraceTypes
  <2>4. \A s \in Scheds, t \in Times :
           <<p, s, t>> \in deferred' => <<p, s, t>> \in deferred \/ (s = d.sched /\ t = d.planned)
    BY <2>1
  <2>5. QED
    BY <1>1, <1>2, <1>4, <1>5, <1>7, <2>1, <2>3, <2>4, VisitedPass
<1>12. CASE Claim(p, d)
  <2>1. Visits(p, d) /\ Forget(p, d.sched) /\ deferred' = deferred /\ clock' = clock /\ docs' = docs
    BY <1>12 DEF Claim
  <2>2. Stored(Occurrence(d.sched, d.planned))'
    <3>1. Occurrence(d.sched, d.planned) \in RunIds
      BY <1>1 DEF Occurrence, RunIds
    <3>2. QED
      BY <1>12, <3>1 DEF Claim, Stored, ClaimedAs, Typed, TypeOK, VariablesOK
  <2>3. Taken(d.sched, d.planned)' \/ Beyond(d.sched, d.planned)'
    BY <1>1, <2>1, <2>2 DEF Taken, Beyond, PointersOfLive
  <2>4. QED
    BY <1>1, <1>2, <1>5, <1>6, <2>1, <2>3, VisitedPass
<1>13. CASE InsertThrows(p, d)
  <2>1. /\ clock'[p] = 0 /\ due'[p] = {} /\ step'[p] = "none" /\ deferred' = deferred
        /\ seen' = [seen EXCEPT ![p][d.sched] = [planned |-> d.planned, at |-> FirstSeen(p, d)]]
    BY <1>3, <1>13 DEF InsertThrows
  <2>2. <<p, d.sched, d.planned>> \in deferred
           => Graced(p, d.sched, d.planned) \/ Taken(d.sched, d.planned)
    <3>1. <<p, d.sched, d.planned>> \in deferred => PutOffOK(p, d.sched, d.planned)
      BY <1>1 DEF PassOK
    <3>2. ~LeftBehind(p, d.sched, d.planned)
      BY DEF LeftBehind
    <3>3. QED
      BY <1>2, <3>1, <3>2 DEF PutOffOK
  <2>3. Graced(p, d.sched, d.planned) => Graced(p, d.sched, d.planned)'
    BY <1>7, <2>1 DEF Graced, FirstSeen
  <2>4. QED
    BY <1>1, <1>2, <1>4, <1>7, <1>8, <2>1, <2>2, <2>3, VisitedPass
<1>14. QED
  BY <1>9, <1>10, <1>11, <1>12, <1>13 DEF Visit

\* The pass is over: what it has not found due any more it forgets.
LEMMA EndKeepsPass ==
    ASSUME Typed, GraceTypes, NEW p \in Procs, PassOK(p), PassEnds(p)
    PROVE  PassOK(p)'
<1>1. /\ docs' = docs /\ runs' = runs /\ now' = now /\ life' = life /\ deferred' = deferred
      /\ step'[p] = "none" /\ clock'[p] = 0 /\ due'[p] = {} /\ step[p] = "judge"
  BY DEF PassEnds, Typed, TypeOK, VariablesOK
<1>2. \A s \in Scheds : \/ seen'[p][s] = seen[p][s]
                        \/ due[p] = {} /\ s \notin listed[p] /\ seen'[p][s] = NotSeen
  BY DEF PassEnds, Typed, TypeOK, VariablesOK
<1>3. ClocksPast(p)' /\ ReadOK(p)'
  BY <1>1, <1>2 DEF PassOK, ClocksPast, ReadOK, GraceTypes, NotSeen
<1>4. ASSUME NEW s \in Scheds, NEW t \in Times, <<p, s, t>> \in deferred' PROVE PutOffOK(p, s, t)'
  <2>1. PutOffOK(p, s, t)
    BY <1>1, <1>4 DEF PassOK
  <2>2. Graced(p, s, t) => Graced(p, s, t)' \/ Beyond(s, t)
    BY <1>1, <1>2, <2>1 DEF Graced, PutOffOK
  <2>3. /\ Beyond(s, t)' <=> Beyond(s, t)
        /\ Taken(s, t)' <=> Taken(s, t)
        /\ Pointed(s, t)' <=> Pointed(s, t)
        /\ LeftBehind(p, s, t)' <=> Beyond(s, t)
        /\ LeftBehind(p, s, t) => Beyond(s, t)
    BY <1>1 DEF Beyond, Taken, Stored, Pointed, LeftBehind
  <2> HIDE DEF Graced, Beyond, Taken, Pointed, LeftBehind
  <2>4. QED
    BY <1>1, <2>1, <2>2, <2>3 DEF PutOffOK
<1>5. QED
  BY <1>3, <1>4 DEF PassOK

\* A process that stops or goes never sees the occurrence again.
LEMMA HaltKeepsPass ==
    ASSUME Typed, GraceTypes, NEW p \in Procs, PassOK(p), StopReturns(p) \/ Gone(p)
    PROVE  PassOK(p)'
<1>1. /\ docs' = docs /\ runs' = runs /\ now' = now /\ seen'[p] = [s \in Scheds |-> NotSeen]
      /\ step'[p] = "none" /\ due'[p] = {} /\ clock'[p] <= now
  BY DEF StopReturns, Gone, Typed, TypeOK, VariablesOK, PhasesOK, PassOK, ClocksPast
<1>2. ClocksPast(p)' /\ ReadOK(p)'
  BY <1>1 DEF ClocksPast, ReadOK, GraceTypes, NotSeen
<1>3. ASSUME NEW s \in Scheds, NEW t \in Times, <<p, s, t>> \in deferred' PROVE PutOffOK(p, s, t)'
  <2>1. StopReturns(p) /\ life'[p] = "stopped" /\ deferred' = deferred
    BY <1>3 DEF StopReturns, Gone, Typed, TypeOK, VariablesOK
  <2>2. PutOffOK(p, s, t)
    BY <1>3, <2>1 DEF PassOK
  <2>3. QED
    BY <1>1, <2>1, <2>2 DEF PutOffOK, Pointed
<1>4. QED
  BY <1>2, <1>3 DEF PassOK

LEMMA GraceInit == Init => GraceInv
  BY DEF Init, GraceInv, PointersOfLive, PassOK, ClocksPast, ReadOK, NoDoc, NotSeen

LEMMA GraceStep ==
    ASSUME Typed, OnceInv, PauseAgrees, GraceInv, [Next]_vars
    PROVE  GraceInv'
<1>1. GraceTypes /\ GraceTypes'
  <2>1. Typed'
    BY TypeStep
  <2>2. QED
    BY <2>1, TypesOfGrace, SchedulesAssumption
       DEF GraceTypes, Typed, TypeOK, VariablesOK, Doc, Seen, Snapshot, Times
<1>2. \A s \in Scheds : PointerStep(s)
  BY PointerLaw
<1>3. \A r \in RunIds : docs'[r.sched].state = "live" /\ Stored(r) => Stored(r)'
  <2>1. ASSUME NEW r \in RunIds, docs'[r.sched].state = "live", Stored(r) PROVE Stored(r)'
    <3>1. RowStep(r) /\ PointerStep(r.sched)
      BY <1>2, RowLaw DEF RunIds
    <3>2. Kept(r.sched)
      BY <2>1, <3>1 DEF PointerStep, Kept
    <3>3. QED
      BY <2>1, <3>1, <3>2 DEF RowStep, Stored
  <2>2. QED
    BY <2>1
<1>4. PointersOfLive'
  BY PointersStep DEF GraceInv
<1>5. \A q \in Procs : PassOK(q)
  BY DEF GraceInv
<1>6. now' >= now /\ now \in Nat
  <2>1. ClockTicks => now' >= now
    BY <1>1 DEF ClockTicks, GraceTypes
  <2>2. \A s \in Scheds : Create(s) \/ Patch(s) \/ Delete(s) \/ DeleteRuns(s) \/ DeleteRunsLost(s) => now' = now
    BY DEF Create, Patch, Delete, DeleteRuns, DeleteRunsLost
  <2>3. \A p \in Procs : \A d \in due[p] : Visit(p, d) \/ InsertThrows(p, d) => now' = now
    BY DEF Visit, SkipStale, MissOnce, CoolDown, Defer, Claim, InsertThrows
  <2>4. \A p \in Procs : TickStarts(p) \/ AdvanceClaimed(p) \/ RecordMiss(p) \/ AdoptPresent(p) \/ PassEnds(p)
                         => now' = now
    BY DEF TickStarts, AdvanceClaimed, RecordMiss, AdoptPresent, PassEnds
  <2>5. \A f \in flights : FlightStep(f) \/ FinalizeThrows(f) => now' = now
    BY DEF FlightStep, TargetAnswers, Finalize, RecordOutcome, FinalizeThrows
  <2>6. \A p \in Procs : Start(p) \/ Stop(p) \/ StopReturns(p) \/ Exit(p) \/ Crash(p) => now' = now
    BY DEF Start, Stop, StopReturns, Exit, Crash, Gone
  <2>7. (\E r \in RunIds : CompleteRun(r)) \/ (\E p \in Procs, s \in Scheds : FireNow(p, s)) \/ UNCHANGED vars
           => now' = now
    BY DEF CompleteRun, FireNow, vars
  <2>8. ClockTicks \/ now' = now
    BY <2>2, <2>3, <2>4, <2>5, <2>6, <2>7, Zenon DEF Next, PassStep
  <2>9. QED
    BY <1>1, <2>1, <2>8 DEF GraceTypes
<1>7. /\ due \in [Procs -> SUBSET Snapshot] /\ listed \in [Procs -> SUBSET Scheds]
      /\ clock \in [Procs -> Nat] /\ seen \in [Procs -> [Scheds -> Seen]]
      /\ step \in [Procs -> {"none", "judge", "won", "lost", "miss", "adopt"}]
      /\ life \in [Procs -> {"down", "up", "stopping", "stopped"}]
  BY DEF Typed, TypeOK, VariablesOK
<1> DEFINE Left(q) == /\ due'[q] = due[q] /\ listed'[q] = listed[q] /\ clock'[q] = clock[q] /\ seen'[q] = seen[q]
                      /\ step'[q] # "none" => step[q] # "none"
                      /\ life[q] = "stopped" => life'[q] = "stopped"
                      /\ \A s \in Scheds, t \in Times : <<q, s, t>> \in deferred' => <<q, s, t>> \in deferred
<1>8. ASSUME NEW q \in Procs, Left(q) PROVE PassOK(q)'
  BY <1>1, <1>2, <1>3, <1>5, <1>6, <1>8, PassUndisturbed
<1>9. ASSUME NEW p \in Procs, TickStarts(p) PROVE \A q \in Procs : PassOK(q)'
  <2>1. \A q \in Procs : q # p => Left(q)
    BY <1>7, <1>9 DEF TickStarts
  <2> HIDE DEF Left
  <2>2. QED
    BY <1>1, <1>8, <1>9, <2>1, TickKeepsPass
<1>10. ASSUME NEW p \in Procs, NEW d \in due[p], Visit(p, d) \/ InsertThrows(p, d)
       PROVE  \A q \in Procs : PassOK(q)'
  <2>1. \A q \in Procs : q # p => Left(q)
    BY <1>7, <1>10 DEF Visit, SkipStale, MissOnce, CoolDown, Defer, Claim, InsertThrows, Visits, Forget
  <2>2. PassOK(p)'
    BY <1>1, <1>2, <1>3, <1>10, VisitKeepsPass
  <2> HIDE DEF Left
  <2>3. QED
    BY <1>8, <2>1, <2>2
<1>11. ASSUME NEW p \in Procs, PassEnds(p) PROVE \A q \in Procs : PassOK(q)'
  <2>1. \A q \in Procs : q # p => Left(q)
    BY <1>7, <1>11 DEF PassEnds
  <2> HIDE DEF Left
  <2>2. QED
    BY <1>1, <1>5, <1>8, <1>11, <2>1, EndKeepsPass
<1>12. ASSUME NEW p \in Procs, StopReturns(p) \/ Gone(p) PROVE \A q \in Procs : PassOK(q)'
  <2>1. \A q \in Procs : q # p => Left(q)
    BY <1>7, <1>12 DEF StopReturns, Gone
  <2> HIDE DEF Left
  <2>2. QED
    BY <1>1, <1>5, <1>8, <1>12, <2>1, HaltKeepsPass
<1>13. ASSUME NEW p \in Procs, AdvanceClaimed(p) \/ RecordMiss(p) \/ AdoptPresent(p)
       PROVE  \A q \in Procs : PassOK(q)'
  <2>1. \A q \in Procs : Left(q)
    BY <1>7, <1>13 DEF AdvanceClaimed, RecordMiss, AdoptPresent
  <2>2. QED
    BY <1>8, <2>1
<1>14. ASSUME NEW p \in Procs, Start(p) \/ Stop(p) PROVE \A q \in Procs : PassOK(q)'
  <2>1. \A q \in Procs : Left(q)
    BY <1>7, <1>14 DEF Start, Stop, passVars
  <2>2. QED
    BY <1>8, <2>1
<1>15. ASSUME \/ \E s \in Scheds : Create(s) \/ Patch(s) \/ Delete(s) \/ DeleteRuns(s) \/ DeleteRunsLost(s)
              \/ \E r \in RunIds : CompleteRun(r)
              \/ \E p \in Procs, s \in Scheds : FireNow(p, s)
              \/ \E f \in flights : FlightStep(f) \/ FinalizeThrows(f)
              \/ ClockTicks
              \/ UNCHANGED vars
       PROVE  \A q \in Procs : PassOK(q)'
  <2>1. UNCHANGED <<life, passVars>> /\ deferred' \subseteq deferred
    <3>1. \A s \in Scheds : Create(s) \/ Patch(s) \/ Delete(s) \/ DeleteRuns(s) \/ DeleteRunsLost(s)
             => UNCHANGED <<life, passVars>> /\ deferred' \subseteq deferred
      BY DEF Create, Patch, Delete, DeleteRuns, DeleteRunsLost
    <3>2. \A r \in RunIds : CompleteRun(r) => UNCHANGED <<life, passVars>> /\ deferred' \subseteq deferred
      BY DEF CompleteRun
    <3>3. \A p \in Procs, s \in Scheds : FireNow(p, s) => UNCHANGED <<life, passVars>> /\ deferred' \subseteq deferred
      BY DEF FireNow
    <3>4. \A f \in flights : FlightStep(f) \/ FinalizeThrows(f)
             => UNCHANGED <<life, passVars>> /\ deferred' \subseteq deferred
      BY DEF FlightStep, TargetAnswers, Finalize, RecordOutcome, FinalizeThrows
    <3>5. ClockTicks \/ UNCHANGED vars => UNCHANGED <<life, passVars>> /\ deferred' \subseteq deferred
      BY DEF ClockTicks, vars, passVars
    <3>6. QED
      BY <1>15, <3>1, <3>2, <3>3, <3>4, <3>5, Zenon
  <2>2. \A q \in Procs : Left(q)
    BY <2>1 DEF passVars
  <2>3. QED
    BY <1>8, <2>2
<1> HIDE DEF Left
<1>16. \A q \in Procs : PassOK(q)'
  BY <1>9, <1>10, <1>11, <1>12, <1>13, <1>14, <1>15 DEF Next, PassStep, Exit, Crash
<1>17. QED
  BY <1>4, <1>16 DEF GraceInv

\* An occurrence that a process put off because every slot was busy is never called
\* stale by that process while nobody has claimed it: whatever other processes, edits
\* of other schedules, lost claims and aborted passes come between, its own queueing
\* cannot turn a live occurrence into a skipped one (supervisor.ts:14-15).
THEOREM QueueingKeepsGrace == Spec => []DeferralKeepsGrace
<1>1. ASSUME Typed, GraceInv PROVE DeferralKeepsGrace
  <2>1. ASSUME NEW p \in Procs, step[p] = "judge", NEW d \in due[p],
               <<p, d.sched, d.planned>> \in deferred, IsStale(p, d)
        PROVE  Stored(Occurrence(d.sched, d.planned))
    <3>1. life[p] # "stopped"
      BY <1>1, <2>1 DEF Typed, TypeOK, PhasesOK
    <3>2. PassOK(p) /\ GraceTypes
      BY <1>1, TypesOfGrace DEF GraceInv
    <3>3. QED
      BY <1>1, <2>1, <3>1, <3>2, NotStale DEF Taken
  <2>2. QED
    BY <2>1 DEF DeferralKeepsGrace
<1>2. QED
  BY TypeInit, TypeStep, OnceInit, OnceStep, PauseCorrect, GraceInit, GraceStep, <1>1, PTL DEF Spec

-----------------------------------------------------------------------------
(* What is fired or missed leaves its run row                              *)

\* The schedule in hand has the run row of its occurrence, as long as it exists.
InHandIsStored ==
    \A p \in Procs : \A d \in cur[p] :
       docs[d.sched].state # "new"
       /\ (docs[d.sched].state = "live" => Stored(Occurrence(d.sched, d.planned)))

LEMMA InHandStep ==
    ASSUME Typed, OnceInv, GraceInv, InHandIsStored, [Next]_vars
    PROVE  InHandIsStored'
<1>1. /\ cur \in [Procs -> SUBSET Snapshot] /\ runs \in [RunIds -> Statuses]
      /\ \A p \in Procs : \A d \in due[p] \cup cur[p] :
            /\ d.sched \in Scheds /\ Occurrence(d.sched, d.planned) \in RunIds
            /\ Occurrence(d.sched, d.planned).sched = d.sched
      /\ \A r \in RunIds : r.sched \in Scheds
  BY DEF Typed, TypeOK, VariablesOK, Snapshot, Occurrence, RunIds
<1>2. \A s \in Scheds : docs[s].state # "new" => /\ docs'[s].state # "new"
                                                 /\ docs'[s].state = "live" => docs[s].state = "live"
  BY PointerLaw DEF PointerStep, Typed, TypeOK, VariablesOK, Doc
<1>3. \A r \in RunIds : docs[r.sched].state = "live" /\ docs'[r.sched].state = "live" /\ Stored(r) => Stored(r)'
  BY RowLaw DEF RowStep, Stored, Kept
<1>4. ASSUME \A p \in Procs : cur'[p] \subseteq cur[p] PROVE InHandIsStored'
  <2>1. ASSUME NEW p \in Procs, NEW d \in cur'[p]
        PROVE  /\ docs'[d.sched].state # "new"
               /\ docs'[d.sched].state = "live" => Stored(Occurrence(d.sched, d.planned))'
    <3>1. d \in cur[p]
      BY <1>4, <2>1
    <3>2. /\ docs[d.sched].state # "new"
          /\ docs[d.sched].state = "live" => Stored(Occurrence(d.sched, d.planned))
      BY <3>1 DEF InHandIsStored
    <3>3. QED
      BY <1>1, <1>2, <1>3, <3>1, <3>2
  <2>2. QED
    BY <2>1 DEF InHandIsStored
<1>5. ASSUME NEW p \in Procs, NEW d \in due[p], Claim(p, d) \/ MissOnce(p, d) PROVE InHandIsStored'
  <2>1. cur' = [cur EXCEPT ![p] = {d}] /\ docs' = docs
    BY <1>5 DEF Claim, MissOnce
  <2>2. Stored(Occurrence(d.sched, d.planned))'
    BY <1>1, <1>5 DEF Claim, MissOnce, Stored, ClaimedAs
  <2>3. docs[d.sched].state # "new"
    BY DEF GraceInv, PassOK, ReadOK
  <2>4. ASSUME NEW q \in Procs, q # p, NEW e \in cur'[q]
        PROVE  /\ docs'[e.sched].state # "new"
               /\ docs'[e.sched].state = "live" => Stored(Occurrence(e.sched, e.planned))'
    <3>1. e \in cur[q]
      BY <1>1, <2>1, <2>4
    <3>2. /\ docs[e.sched].state # "new"
          /\ docs[e.sched].state = "live" => Stored(Occurrence(e.sched, e.planned))
      BY <3>1 DEF InHandIsStored
    <3>3. QED
      BY <1>1, <1>2, <1>3, <3>1, <3>2
  <2>5. cur'[p] = {d}
    BY <1>1, <2>1
  <2>6. QED
    BY <2>1, <2>2, <2>3, <2>4, <2>5 DEF InHandIsStored
<1>6. \A p \in Procs : \A d \in due[p] :
         SkipStale(p, d) \/ CoolDown(p, d) \/ Defer(p, d) \/ InsertThrows(p, d) => cur' = cur
  BY DEF SkipStale, CoolDown, Defer, InsertThrows
<1>7. \A p \in Procs : TickStarts(p) \/ RecordMiss(p) \/ PassEnds(p) \/ Start(p) \/ Stop(p) \/ StopReturns(p)
         => cur' = cur
  BY DEF TickStarts, RecordMiss, PassEnds, Start, Stop, StopReturns, passVars
<1>8. \A p \in Procs : AdvanceClaimed(p) \/ AdoptPresent(p) \/ Gone(p) => cur' = [cur EXCEPT ![p] = {}]
  BY DEF AdvanceClaimed, AdoptPresent, Gone
<1>9. \A s \in Scheds : Create(s) \/ Patch(s) \/ Delete(s) \/ DeleteRuns(s) \/ DeleteRunsLost(s) => cur' = cur
  BY DEF Create, Patch, Delete, DeleteRuns, DeleteRunsLost, passVars
<1>10. \A f \in flights : FlightStep(f) \/ FinalizeThrows(f) => cur' = cur
  BY DEF FlightStep, TargetAnswers, Finalize, RecordOutcome, FinalizeThrows, passVars
<1>11. (\E r \in RunIds : CompleteRun(r)) \/ (\E p \in Procs, s \in Scheds : FireNow(p, s))
          \/ ClockTicks \/ UNCHANGED vars => cur' = cur
  BY DEF CompleteRun, FireNow, ClockTicks, vars, passVars
<1>12. \/ cur' = cur
       \/ \E p \in Procs : cur' = [cur EXCEPT ![p] = {}]
       \/ \E p \in Procs : \E d \in due[p] : Claim(p, d) \/ MissOnce(p, d)
  BY <1>6, <1>7, <1>8, <1>9, <1>10, <1>11, Zenon DEF Next, PassStep, Visit, Exit, Crash
<1>13. QED
  BY <1>1, <1>4, <1>5, <1>12

\* When a pass drops the pointer of a one-time schedule because it has fired the
\* occurrence or called it missed, the occurrence has its run row: what was edited,
\* lost to another process or skipped meanwhile cannot make it vanish
\* (supervisor.ts:12-13).
THEOREM FiredOrMissedIsRecorded == Spec => FiredOrMissedLeavesRow
<1>1. Init => InHandIsStored
  BY DEF Init, InHandIsStored
<1> DEFINE Leaves == \A p \in Procs, s \in Scheds :
                        (AdvanceClaimed(p) \/ AdoptPresent(p) \/ \E d \in due[p] : SkipStale(p, d)) => LeavesRow(s)
<1>2. ASSUME Typed, GraceInv, InHandIsStored PROVE Leaves
  <2>1. ASSUME NEW p \in Procs, NEW d \in due[p] \cup cur[p], NEW adopt, NEW s \in Scheds, DropsOnce(s),
               Advance(d.sched, d.planned, adopt)
        PROVE  s = d.sched /\ docs[s].next = d.planned
    <3>1. docs \in [Scheds -> Doc] /\ d.sched \in Scheds
      BY <1>2 DEF Typed, TypeOK, VariablesOK, Snapshot
    <3>2. docs'[s] # docs[s]
      BY <2>1 DEF DropsOnce
    <3>3. QED
      BY <2>1, <3>1, <3>2 DEF Advance, Advanced
  <2>2. ASSUME NEW p \in Procs, NEW s \in Scheds, AdvanceClaimed(p) \/ AdoptPresent(p), DropsOnce(s)
        PROVE  runs'[Occurrence(s, docs[s].next)] \notin {"absent", "removed"}
    <3>1. PICK d \in cur[p] : \E adopt : Advance(d.sched, d.planned, adopt)
      BY <2>2 DEF AdvanceClaimed, AdoptPresent
    <3>2. s = d.sched /\ docs[s].next = d.planned /\ docs[s].state = "live"
      BY <2>1, <2>2, <3>1 DEF DropsOnce
    <3>3. runs' = runs
      BY <2>2 DEF AdvanceClaimed, AdoptPresent
    <3>4. Stored(Occurrence(s, docs[s].next))
      BY <1>2, <3>2 DEF InHandIsStored
    <3>5. QED
      BY <3>3, <3>4 DEF Stored
  <2>3. ASSUME NEW p \in Procs, NEW s \in Scheds, NEW d \in due[p], SkipStale(p, d), DropsOnce(s)
        PROVE  FALSE
    <3>1. Advance(d.sched, d.planned, clock[p]) /\ IsStale(p, d) /\ d.spec = Every /\ step[p] = "judge"
      BY <2>3 DEF SkipStale, Visits, IsNext
    <3>2. s = d.sched /\ docs[s].next = d.planned
      BY <2>1, <2>3, <3>1
    <3>3. GraceTypes /\ PassOK(p)
      BY <1>2, TypesOfGrace DEF GraceInv
    <3>4. FirstSeen(p, d) <= clock[p] /\ FirstSeen(p, d) \in Nat
      BY <3>1, <3>3 DEF FirstSeen, PassOK, ClocksPast, GraceTypes
    <3>5. clock[p] > d.planned
      BY <3>1, <3>3, <3>4 DEF IsStale, GraceTypes
    <3>6. docs[s].spec = Every
      BY <3>1, <3>2, <3>3, <3>5 DEF PassOK, ReadOK
    <3>7. QED
      BY <2>3, <3>6 DEF DropsOnce
  <2>4. QED
    BY <2>2, <2>3 DEF LeavesRow
<1>3. QED
  <2>1. FiredOrMissedLeavesRow <=> [][Leaves]_vars
    BY DEF FiredOrMissedLeavesRow
  <2> HIDE DEF Leaves
  <2>2. QED
    BY <1>1, <1>2, <2>1, TypeInit, TypeStep, OnceInit, OnceStep, PauseCorrect, GraceInit, GraceStep, InHandStep,
       PTL DEF Spec

-----------------------------------------------------------------------------
(* The run rows implement the lifecycle of WorkItem                        *)

StageMap == [r \in RunIds |-> Stage(r)]

\* Only the rows of a schedule that is gone are deleted.
RemovedAreGone == \A r \in RunIds : runs[r] = "removed" => ~Kept(r.sched)

LEMMA GoneForGood ==
    ASSUME Typed, [Next]_vars, NEW s \in Scheds, ~Kept(s)
    PROVE  ~Kept(s)'
  BY PointerLaw DEF PointerStep, Kept

LEMMA RemovedStep ==
    ASSUME Typed, OnceInv, RemovedAreGone, [Next]_vars
    PROVE  RemovedAreGone'
<1>1. ASSUME NEW r \in RunIds, runs'[r] = "removed" PROVE ~Kept(r.sched)'
  <2>1. r.sched \in Scheds
    BY DEF RunIds
  <2>2. ~Kept(r.sched)
    BY <1>1, RowLaw DEF RowStep, Stored, RemovedAreGone
  <2>3. QED
    BY <2>1, <2>2, GoneForGood
<1>2. QED
  BY <1>1 DEF RemovedAreGone

LEMMA WorkStep ==
    ASSUME Typed, OnceInv, RemovedAreGone, [Next]_vars
    PROVE  Work!WorkNext
<1>1. \A r \in RunIds : StageMap[r] = Stage(r) /\ StageMap'[r] = Stage(r)'
  BY DEF StageMap
<1>2. StageMap' \in [RunIds -> Work!Stages]
  BY DEF StageMap, Stage, Work!Stages
<1>3. ASSUME NEW r \in RunIds
      PROVE  \/ StageMap'[r] = StageMap[r]
             \/ Work!Records(StageMap[r], StageMap'[r])
             \/ Work!Finishes(StageMap[r], StageMap'[r])
  <2>1. r.sched \in Scheds /\ runs[r] \in Statuses /\ runs'[r] \in Statuses /\ RowStep(r)
    BY TypeStep, RowLaw DEF RunIds, Typed, TypeOK, VariablesOK
  <2>2. runs[r] = "removed" => ~Kept(r.sched)
    BY DEF RemovedAreGone
  <2>3. ~Kept(r.sched) => ~Kept(r.sched)'
    BY <2>1, GoneForGood
  <2>4. CASE ~Kept(r.sched)
    BY <1>1, <2>3, <2>4 DEF Stage, Kept
  <2>5. CASE Kept(r.sched) /\ Kept(r.sched)'
    <3>1. Stage(r) = CASE runs[r] = "absent"                 -> "absent"
                       [] runs[r] \in {"pending", "running"} -> "taken"
                       [] OTHER                              -> "ended"
      BY <2>5 DEF Stage, Kept
    <3>2. Stage(r)' = CASE runs'[r] = "absent"                 -> "absent"
                        [] runs'[r] \in {"pending", "running"} -> "taken"
                        [] OTHER                               -> "ended"
      BY <2>5 DEF Stage, Kept
    <3>3. (runs[r] # "removed" /\ runs'[r] # "removed") \/ runs'[r] = runs[r]
      BY <2>1, <2>2, <2>5 DEF RowStep, Stored
    <3>4. CASE runs'[r] = runs[r]
      BY <1>1, <3>1, <3>2, <3>4
    <3>5. CASE runs[r] = "absent" /\ runs'[r] # "absent"
      BY <1>1, <1>2, <3>1, <3>2, <3>5 DEF Work!Records, Work!Stages
    <3>6. CASE runs[r] \notin {"absent", "removed"} /\ runs'[r] \in {"ok", "failed", "blocked", "done", "dismissed"}
      BY <1>1, <3>1, <3>2, <3>6 DEF Work!Finishes
    <3>7. QED
      BY <2>1, <2>5, <3>3, <3>4, <3>5, <3>6 DEF RowStep, Stored
  <2>6. CASE Kept(r.sched) /\ ~Kept(r.sched)'
    <3>1. Stage(r)' = "ended" /\ Stage(r) \in {"absent", "taken", "ended"}
      BY <2>6 DEF Stage, Kept
    <3>2. QED
      BY <1>1, <3>1 DEF Work!Records, Work!Finishes, Work!Stages
  <2>7. QED
    BY <2>4, <2>5, <2>6
<1>4. QED
  BY <1>2, <1>3 DEF Work!WorkNext, StageMap

\* While its schedule exists a run row is recorded once and ends once: a claim is
\* never handed back and a finished or dismissed run never runs again, with any
\* number of processes, however the fire, the owner's answer, a lost claim and a
\* crash interleave.
THEOREM ImplementsLifecycle == Spec => ImplementsWorkItem
<1>1. Init => Work!WorkInit /\ RemovedAreGone
  BY DEF Init, Work!WorkInit, Stage, NoDoc, RemovedAreGone, RunIds
<1>2. Typed /\ OnceInv /\ RemovedAreGone /\ [Next]_vars => [Work!WorkNext]_StageMap
  BY WorkStep
<1>3. ImplementsWorkItem <=> Work!WorkInit /\ [][Work!WorkNext]_StageMap
  BY DEF ImplementsWorkItem, Work!WorkSpec, StageMap
<1>4. QED
  BY <1>1, <1>2, <1>3, TypeInit, TypeStep, OnceInit, OnceStep, RemovedStep, PTL DEF Spec
=============================================================================

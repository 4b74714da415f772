--------------------------- MODULE DeliveryProofs ---------------------------
(***************************************************************************)
(* Theorems about Delivery, for every set of processes and events and every *)
(* limit: type correctness, the exclusive claim, the slots, and, for one    *)
(* process, that an event is never delivered twice at the same time, nor    *)
(* more often than dispatches were lost, and follows WorkItem.              *)
(***************************************************************************)
EXTENDS Delivery, FiniteSetTheorems, TLAPS

-----------------------------------------------------------------------------
(* Type correctness                                                        *)

\* Entering the drain loop leaves it idle or in the find, never in a scan.
LEMMA DrainEntryType ==
    ASSUME NEW p \in Procs, NEW alive, NEW inFlight, VariablesOK
    PROVE  /\ DrainEntry(p, alive, inFlight) \in {"idle", "find", "scan"}
           /\ DrainEntry(p, alive, inFlight) = "scan" <=> drain[p] = "scan"
           /\ ~alive => DrainEntry(p, alive, inFlight) = drain[p]
  BY DEF DrainEntry, VariablesOK

\* What a settling delivery writes is a row that keeps its attempts.
LEMMA SettledType ==
    ASSUME NEW row \in Row, NEW v \in {"delivered", "dead", "retry"}
    PROVE  /\ Settled(row, v) \in Row
           /\ Settled(row, v).attempts = row.attempts
           /\ Settled(row, v).status = IF v = "retry" THEN "pending" ELSE v
  BY DEF Settled, Row, Statuses

\* A recovered row is a pending row that keeps its attempts.
LEMMA RecoveredType ==
    ASSUME NEW row \in Row
    PROVE  /\ Recovered(row) \in Row
           /\ Recovered(row).attempts = row.attempts
           /\ Recovered(row).status = "pending"
  BY DEF Recovered, Row, Statuses

\* A recovery that throws has flipped one of its rows, or none.
LEMMA RecoverThrowsRows ==
    ASSUME VariablesOK, NEW p \in Procs, RecoverThrows(p)
    PROVE  \/ UNCHANGED rows
           \/ \E e \in recovery[p] : e \in Events /\ rows' = [rows EXCEPT ![e] = Recovered(@)]
  BY DEF RecoverThrows, VariablesOK

\* A refusal that throws has written the dead letter, or not, and its dispatch is
\* a failed one.
LEMMA RefusalThrowsRows ==
    ASSUME VariablesOK, NEW f \in flights, RefusalThrows(f)
    PROVE  /\ f \in Flight /\ f.ev \in Events /\ f.phase = "refuse"
           /\ \/ UNCHANGED rows
              \/ rows' = [rows EXCEPT ![f.ev] = Settled(@, "dead")]
           /\ \E g \in Flight : /\ Advance(f, g)
                                 /\ g.proc = f.proc /\ g.ev = f.ev /\ g.attempt = f.attempt
                                 /\ g.phase = "failed" /\ g.verdict = "none"
<1> DEFINE g == [f EXCEPT !.phase = "failed", !.verdict = "none"]
<1>1. f \in Flight
  BY DEF VariablesOK
<1>2. /\ g \in Flight /\ g.proc = f.proc /\ g.ev = f.ev /\ g.attempt = f.attempt
      /\ g.phase = "failed" /\ g.verdict = "none"
  BY <1>1 DEF Flight, Phases
<1>3. Advance(f, g)
  BY DEF RefusalThrows
<1> HIDE DEF g
<1> QED
  BY <1>1, <1>2, <1>3 DEF RefusalThrows, Flight

\* A dispatch that has read its trigger row runs, or is about to dead-letter.
LEMMA LoadMoves ==
    ASSUME TypeOK, NEW f \in flights, LoadTrigger(f)
    PROVE  \E g \in Flight :
              /\ Advance(f, g)
              /\ g.proc = f.proc /\ g.ev = f.ev /\ g.attempt = f.attempt
              /\ \/ g.phase = "run" /\ g.verdict = "none"
                 \/ g.phase \in {"refuse", "settle"} /\ g.verdict = "dead"
              /\ g.phase = "refuse" => triggers[f.ev] # "bound"
<1>1. /\ f \in Flight /\ f.verdict = "none" /\ f.phase = "load"
      /\ triggers[f.ev] \in TriggerStates
  BY DEF TypeOK, VariablesOK, PhasesOK, Flight, LoadTrigger
<1>2. ASSUME NEW ph \in Phases, Advance(f, [f EXCEPT !.phase = ph, !.verdict = "dead"]),
             ph \in {"refuse", "settle"}
      PROVE  \E g \in Flight :
                /\ Advance(f, g)
                /\ g.proc = f.proc /\ g.ev = f.ev /\ g.attempt = f.attempt
                /\ g.phase = ph /\ g.verdict = "dead"
  <2> DEFINE h == [f EXCEPT !.phase = ph, !.verdict = "dead"]
  <2>1. /\ h \in Flight /\ h.proc = f.proc /\ h.ev = f.ev /\ h.attempt = f.attempt
        /\ h.phase = ph /\ h.verdict = "dead"
    BY <1>1 DEF Flight
  <2>2. Advance(f, h)
    BY <1>2
  <2> HIDE DEF h
  <2> QED
    BY <1>2, <2>1, <2>2
<1>3. CASE triggers[f.ev] = "bound"
  <2> DEFINE h == [f EXCEPT !.phase = "run"]
  <2>1. /\ h \in Flight /\ h.proc = f.proc /\ h.ev = f.ev /\ h.attempt = f.attempt
        /\ h.phase = "run" /\ h.verdict = "none"
    BY <1>1 DEF Flight, Phases
  <2>2. Advance(f, h)
    BY <1>3 DEF LoadTrigger
  <2> HIDE DEF h
  <2> QED
    BY <2>1, <2>2
<1>4. CASE triggers[f.ev] = "unbound"
  BY <1>2, <1>4 DEF LoadTrigger, Phases
<1>5. CASE triggers[f.ev] = "gone"
  BY <1>2, <1>5 DEF LoadTrigger, Phases
<1> QED
  BY <1>1, <1>3, <1>4, <1>5 DEF TriggerStates

\* A claimed row is a row that is dispatching and has one more attempt.
LEMMA ClaimedType ==
    ASSUME NEW row \in Row, WinsClaim(row)
    PROVE  /\ Claimed(row) \in Row
           /\ Claimed(row).attempts = row.attempts + 1
           /\ Claimed(row).status = "dispatching"
           /\ Claimed(row).age = "young"
  BY DEF Claimed, WinsClaim, Row, Statuses

\* A delivery that moves on is still the delivery of the same attempt.
LEMMA FlightMoves ==
    ASSUME NEW f \in Flight, NEW ph \in Phases,
           NEW v \in {"none", "delivered", "dead", "retry"}
    PROVE  /\ [f EXCEPT !.phase = ph] \in Flight
           /\ [f EXCEPT !.phase = ph].ev = f.ev
           /\ [f EXCEPT !.phase = ph].attempt = f.attempt
           /\ [f EXCEPT !.phase = ph, !.verdict = v] \in Flight
           /\ [f EXCEPT !.phase = ph, !.verdict = v].ev = f.ev
           /\ [f EXCEPT !.phase = ph, !.verdict = v].attempt = f.attempt
  BY DEF Flight, Phases

\* Flights come and go one at a time, so there are finitely many of them.
LEMMA FlightsFinite ==
    ASSUME NEW S, NEW f, NEW g, IsFiniteSet(S)
    PROVE  /\ IsFiniteSet(S \cup {g})
           /\ IsFiniteSet(S \ {f})
           /\ IsFiniteSet((S \ {f}) \cup {g})
<1>1. IsFiniteSet(S \ {f})
  BY FS_RemoveElement
<1> QED
  BY <1>1, FS_AddElement

\* The dispatches an exiting process loses are counted by a number.
LEMMA LossesType ==
    ASSUME VariablesOK, NEW p \in Procs, NEW e \in Events
    PROVE  Cardinality({f \in FlightsOf(p) : f.ev = e}) \in Nat
<1>1. {f \in FlightsOf(p) : f.ev = e} \subseteq flights
  BY DEF FlightsOf
<1> QED
  BY <1>1, FS_Subset, FS_CardinalityType DEF VariablesOK

\* The type invariant holds initially.
LEMMA TypeInit == Init => TypeOK
  BY FS_EmptySet DEF Init, TypeOK, VariablesOK, PhasesOK, Row, NoRow, Statuses, TriggerStates, Lives

\* Every step keeps the variables' types.
LEMMA VariablesNext == ASSUME TypeOK, [Next]_vars PROVE VariablesOK'
<1> VariablesOK /\ PhasesOK
  BY DEF TypeOK
<1> USE DEF loop, store, history
<1>1. ASSUME NEW p \in Procs, NEW e \in Events, Enqueue(p, e) PROVE VariablesOK'
  BY <1>1 DEF Enqueue, Row, NoRow, Statuses, VariablesOK
<1>2. ASSUME NEW p \in Procs, Wake(p) PROVE VariablesOK'
  <2>1. drain' \in [Procs -> {"idle", "find", "scan"}]
    BY <1>2, DrainEntryType DEF Wake, VariablesOK
  <2> QED
    BY <1>2, <2>1 DEF Wake, VariablesOK
<1>3. ASSUME NEW e \in Events, DeleteTrigger(e) PROVE VariablesOK'
  BY <1>3 DEF DeleteTrigger, TriggerStates, VariablesOK
<1>4. ASSUME NEW p \in Procs, SafetyNet(p) PROVE VariablesOK'
  <2>1. drain' \in [Procs -> {"idle", "find", "scan"}]
    BY <1>4, DrainEntryType DEF SafetyNet, VariablesOK
  <2> QED
    BY <1>4, <2>1 DEF SafetyNet, VariablesOK
<1>5. ASSUME NEW p \in Procs, ClaimFind(p) PROVE VariablesOK'
  BY <1>5 DEF ClaimFind, VariablesOK
<1>6. ASSUME NEW p \in Procs, NEW e \in Events, TryClaim(p, e) PROVE VariablesOK'
  <2>1. CASE WinsClaim(rows[e])
    <3> DEFINE f == [proc |-> p, ev |-> e, attempt |-> Claimed(rows[e]).attempts,
                     phase |-> "load", verdict |-> "none"]
    <3>1. rows' \in [Events -> Row]
      BY <1>6, <2>1, ClaimedType DEF TryClaim, VariablesOK
    <3>2. f \in Flight
      BY <2>1, ClaimedType DEF VariablesOK, Row, Flight, Phases
    <3>3. flights' = flights \cup {f}
      BY <1>6, <2>1 DEF TryClaim
    <3>4. drain' \in [Procs -> {"idle", "find", "scan"}] /\ scan' \in [Procs -> SUBSET Events]
      BY <1>6, <2>1 DEF TryClaim, VariablesOK
    <3> QED
      BY <1>6, <3>1, <3>2, <3>3, <3>4, FlightsFinite DEF TryClaim, VariablesOK
  <2>2. CASE ~WinsClaim(rows[e])
    BY <1>6, <2>2 DEF TryClaim, VariablesOK
  <2> QED
    BY <2>1, <2>2
<1>7. ASSUME NEW p \in Procs, ClaimThrows(p) PROVE VariablesOK'
  <2>1. rows' \in [Events -> Row] /\ losses' \in [Events -> Nat]
    BY <1>7, ClaimedType DEF ClaimThrows, VariablesOK
  <2> QED
    BY <1>7, <2>1 DEF ClaimThrows, VariablesOK
<1>8. ASSUME NEW f \in flights, LoadTrigger(f) PROVE VariablesOK'
  <2>1. PICK g \in Flight : Advance(f, g)
    BY <1>8, LoadMoves
  <2>2. flights' \subseteq Flight /\ IsFiniteSet(flights')
    BY <2>1, FlightsFinite DEF Advance, VariablesOK
  <2> QED
    BY <1>8, <2>2 DEF LoadTrigger, VariablesOK
<1>9. ASSUME NEW f \in flights, TargetAnswers(f) PROVE VariablesOK'
  <2>1. /\ flights' \subseteq Flight /\ IsFiniteSet(flights')
        /\ oks' \in [Events -> Nat]
    <3>1. CASE /\ Advance(f, [f EXCEPT !.phase = "settle", !.verdict = "delivered"])
               /\ oks' = [oks EXCEPT ![f.ev] = @ + 1]
      <4>1. [f EXCEPT !.phase = "settle", !.verdict = "delivered"] \in Flight
        BY DEF Flight, Phases, VariablesOK
      <4>2. oks' \in [Events -> Nat]
        BY <3>1 DEF VariablesOK, Flight
      <4> QED
        BY <3>1, <4>1, <4>2, FlightsFinite DEF Advance, VariablesOK
    <3>2. CASE /\ Advance(f, [f EXCEPT !.phase = "settle", !.verdict = "dead"])
               /\ UNCHANGED oks
      BY <3>2, FlightsFinite DEF Advance, Flight, Phases, VariablesOK
    <3>3. CASE /\ Advance(f, [f EXCEPT !.phase = "failed"])
               /\ UNCHANGED oks
      BY <3>3, FlightsFinite DEF Advance, Flight, Phases, VariablesOK
    <3> QED
      BY <1>9, <3>1, <3>2, <3>3 DEF TargetAnswers
  <2> QED
    BY <1>9, <2>1 DEF TargetAnswers, VariablesOK
<1>10. ASSUME NEW f \in flights, JudgeFailure(f) PROVE VariablesOK'
  BY <1>10, FlightsFinite DEF JudgeFailure, Advance, Flight, Phases, VariablesOK
<1>11. ASSUME NEW f \in flights, Settle(f) PROVE VariablesOK'
  <2>1. /\ f \in Flight
        /\ f.verdict \in {"delivered", "dead", "retry"}
    BY <1>11 DEF Settle, VariablesOK, PhasesOK, Flight
  <2>2. rows' \in [Events -> Row]
    BY <1>11, <2>1, SettledType DEF Settle, VariablesOK, Flight
  <2>3. drain' \in [Procs -> {"idle", "find", "scan"}]
    BY <1>11, <2>1, DrainEntryType DEF Settle, VariablesOK, Flight
  <2> QED
    BY <1>11, <2>2, <2>3, FlightsFinite DEF Settle, VariablesOK
<1>12. ASSUME NEW f \in flights, DispatchThrows(f) PROVE VariablesOK'
  <2>1. f \in Flight
    BY DEF VariablesOK
  <2>2. drain' \in [Procs -> {"idle", "find", "scan"}]
    BY <1>12, <2>1, DrainEntryType DEF DispatchThrows, VariablesOK, Flight
  <2>3. losses' \in [Events -> Nat]
    BY <1>12, <2>1 DEF DispatchThrows, VariablesOK, Flight
  <2> QED
    BY <1>12, <2>2, <2>3, FlightsFinite DEF DispatchThrows, VariablesOK
<1>13. ASSUME NEW p \in Procs, Boot(p) PROVE VariablesOK'
  BY <1>13 DEF Boot, Lives, VariablesOK
<1>14. ASSUME NEW p \in Procs, RecoverFind(p) PROVE VariablesOK'
  BY <1>14 DEF RecoverFind, Lives, VariablesOK
<1>15. ASSUME NEW p \in Procs, NEW e \in Events, RecoverRow(p, e) PROVE VariablesOK'
  BY <1>15, RecoveredType DEF RecoverRow, VariablesOK
<1>16. ASSUME NEW p \in Procs, Open(p) PROVE VariablesOK'
  <2>1. drain' \in [Procs -> {"idle", "find", "scan"}]
    BY <1>16, DrainEntryType DEF Open, VariablesOK
  <2> QED
    BY <1>16, <2>1 DEF Open, Lives, VariablesOK
<1>17. ASSUME NEW p \in Procs, Stop(p) PROVE VariablesOK'
  BY <1>17 DEF Stop, FlightsOf, Lives, FlightKey, Deliveries, KeyOf, Flight, VariablesOK
<1>18. ASSUME NEW p \in Procs, StopReturns(p) PROVE VariablesOK'
  BY <1>18 DEF StopReturns, Lives, VariablesOK
<1>19. ASSUME NEW p \in Procs, Exit(p) PROVE VariablesOK'
  <2>1. losses' \in [Events -> Nat]
    BY <1>19, LossesType DEF Exit, VariablesOK
  <2>2. flights' \subseteq flights /\ IsFiniteSet(flights')
    BY <1>19, FS_Subset DEF Exit, VariablesOK
  <2> QED
    BY <1>19, <2>1, <2>2 DEF Exit, Lives, VariablesOK
<1>20. ASSUME NEW e \in Events, BackoffElapses(e) PROVE VariablesOK'
  BY <1>20 DEF BackoffElapses, Row, VariablesOK
<1>21. ASSUME NEW e \in Events, RowAges(e) PROVE VariablesOK'
  BY <1>21 DEF RowAges, Row, VariablesOK
<1>22. ASSUME NEW f \in flights, RefusalThrows(f) PROVE VariablesOK'
  <2>1. rows' \in [Events -> Row]
    BY <1>22, RefusalThrowsRows, SettledType DEF VariablesOK
  <2>2. PICK g \in Flight : Advance(f, g)
    BY <1>22, RefusalThrowsRows
  <2>3. flights' \subseteq Flight /\ IsFiniteSet(flights')
    BY <2>2, FlightsFinite DEF Advance, VariablesOK
  <2> QED
    BY <1>22, <2>1, <2>3 DEF RefusalThrows, VariablesOK
<1>23. ASSUME NEW p \in Procs, RecoverThrows(p) PROVE VariablesOK'
  <2>1. rows' \in [Events -> Row]
    BY <1>23, RecoverThrowsRows, RecoveredType DEF VariablesOK
  <2> QED
    BY <1>23, <2>1 DEF RecoverThrows, Lives, VariablesOK
<1>24. CASE UNCHANGED vars
  BY <1>24 DEF vars, VariablesOK
<1> QED
  BY <1>1, <1>2, <1>3, <1>4, <1>5, <1>6, <1>7, <1>8, <1>9, <1>10, <1>11, <1>12, <1>13,
     <1>14, <1>15, <1>16, <1>17, <1>18, <1>19, <1>20, <1>21, <1>22, <1>23, <1>24
     DEF Next, ProcStep, FlightStep, Shutdown, Crash

\* Every step keeps what a process may hold in each phase of its life.
LEMMA PhasesNext == ASSUME TypeOK, [Next]_vars PROVE PhasesOK'
<1> VariablesOK /\ PhasesOK
  BY DEF TypeOK
<1> USE DEF loop, store, history
<1>1. ASSUME NEW p \in Procs, NEW e \in Events, Enqueue(p, e) PROVE PhasesOK'
  BY <1>1 DEF Enqueue, PhasesOK, VariablesOK
<1>2. ASSUME NEW p \in Procs, Wake(p) PROVE PhasesOK'
  BY <1>2, DrainEntryType DEF Wake, PhasesOK, VariablesOK
<1>3. ASSUME NEW e \in Events, DeleteTrigger(e) PROVE PhasesOK'
  BY <1>3 DEF DeleteTrigger, PhasesOK
<1>4. ASSUME NEW p \in Procs, SafetyNet(p) PROVE PhasesOK'
  <2>1. DrainEntry(p, TRUE, FlightsOf(p)) = "scan" <=> drain[p] = "scan"
    BY DrainEntryType
  <2> QED
    BY <1>4, <2>1 DEF SafetyNet, PhasesOK, VariablesOK
<1>5. ASSUME NEW p \in Procs, ClaimFind(p) PROVE PhasesOK'
  BY <1>5 DEF ClaimFind, PhasesOK, VariablesOK
<1>6. ASSUME NEW p \in Procs, NEW e \in Events, TryClaim(p, e) PROVE PhasesOK'
  BY <1>6 DEF TryClaim, PhasesOK, VariablesOK
<1>7. ASSUME NEW p \in Procs, ClaimThrows(p) PROVE PhasesOK'
  BY <1>7 DEF ClaimThrows, PhasesOK, VariablesOK
<1>8. ASSUME NEW f \in flights, LoadTrigger(f) PROVE PhasesOK'
  <2>1. PICK g \in Flight :
           /\ Advance(f, g) /\ g.proc = f.proc
           /\ g.phase \in {"refuse", "settle"} <=> g.verdict # "none"
    BY <1>8, LoadMoves
  <2> QED
    BY <1>8, <2>1 DEF LoadTrigger, Advance, PhasesOK
<1>9. ASSUME NEW f \in flights, TargetAnswers(f) PROVE PhasesOK'
  BY <1>9 DEF TargetAnswers, Advance, Flight, PhasesOK, VariablesOK
<1>10. ASSUME NEW f \in flights, JudgeFailure(f) PROVE PhasesOK'
  BY <1>10 DEF JudgeFailure, Advance, Flight, PhasesOK, VariablesOK
<1>11. ASSUME NEW f \in flights, Settle(f) PROVE PhasesOK'
  BY <1>11, DrainEntryType DEF Settle, Flight, PhasesOK, VariablesOK
<1>12. ASSUME NEW f \in flights, DispatchThrows(f) PROVE PhasesOK'
  BY <1>12, DrainEntryType DEF DispatchThrows, Flight, PhasesOK, VariablesOK
<1>13. ASSUME NEW p \in Procs, Boot(p) PROVE PhasesOK'
  BY <1>13 DEF Boot, PhasesOK, VariablesOK
<1>14. ASSUME NEW p \in Procs, RecoverFind(p) PROVE PhasesOK'
  BY <1>14 DEF RecoverFind, PhasesOK, VariablesOK
<1>15. ASSUME NEW p \in Procs, NEW e \in Events, RecoverRow(p, e) PROVE PhasesOK'
  BY <1>15 DEF RecoverRow, PhasesOK, VariablesOK
<1>16. ASSUME NEW p \in Procs, Open(p) PROVE PhasesOK'
  <2>1. DrainEntry(p, TRUE, FlightsOf(p)) = "scan" <=> drain[p] = "scan"
    BY DrainEntryType
  <2> QED
    <3>1. drain' = [drain EXCEPT ![p] = DrainEntry(p, TRUE, FlightsOf(p))]
      BY <1>16 DEF Open
    <3>2. \A q \in Procs : drain'[q] = "scan" <=> drain[q] = "scan"
      BY <2>1, <3>1 DEF VariablesOK
    <3>3. /\ life' = [life EXCEPT ![p] = "up"] /\ life[p] # "down" /\ recovery[p] = {}
          /\ UNCHANGED <<scan, recovery, owed, flights>>
      BY <1>16 DEF Open
    <3>4. \A q \in Procs : q # p => drain'[q] = drain[q]
      BY <3>1 DEF VariablesOK
    <3> QED
      BY <3>2, <3>3, <3>4 DEF PhasesOK, VariablesOK
<1>17. ASSUME NEW p \in Procs, Stop(p) PROVE PhasesOK'
  BY <1>17 DEF Stop, PhasesOK, VariablesOK
<1>18. ASSUME NEW p \in Procs, StopReturns(p) PROVE PhasesOK'
  BY <1>18 DEF StopReturns, PhasesOK, VariablesOK
<1>19. ASSUME NEW p \in Procs, Exit(p) PROVE PhasesOK'
  BY <1>19 DEF Exit, FlightsOf, PhasesOK, VariablesOK
<1>20. ASSUME NEW e \in Events, BackoffElapses(e) PROVE PhasesOK'
  BY <1>20 DEF BackoffElapses, PhasesOK
<1>21. ASSUME NEW e \in Events, RowAges(e) PROVE PhasesOK'
  BY <1>21 DEF RowAges, PhasesOK
<1>22. ASSUME NEW f \in flights, RefusalThrows(f) PROVE PhasesOK'
  BY <1>22, RefusalThrowsRows DEF RefusalThrows, Advance, PhasesOK
<1>23. ASSUME NEW p \in Procs, RecoverThrows(p) PROVE PhasesOK'
  BY <1>23 DEF RecoverThrows, PhasesOK, VariablesOK
<1>24. CASE UNCHANGED vars
  BY <1>24 DEF vars, PhasesOK
<1> QED
  BY <1>1, <1>2, <1>3, <1>4, <1>5, <1>6, <1>7, <1>8, <1>9, <1>10, <1>11, <1>12, <1>13,
     <1>14, <1>15, <1>16, <1>17, <1>18, <1>19, <1>20, <1>21, <1>22, <1>23, <1>24
     DEF Next, ProcStep, FlightStep, Shutdown, Crash

\* Type correctness of the event queue and its pipeline: TypeOK is inductive.
THEOREM TypeCorrect == Spec => []TypeOK
<1>1. TypeOK /\ [Next]_vars => TypeOK'
  BY VariablesNext, PhasesNext DEF TypeOK
<1> QED
  BY TypeInit, <1>1, PTL DEF Spec

-----------------------------------------------------------------------------
(* The exclusive claim                                                     *)

\* A flight carries the number its claim put on the row, and a row's attempts
\* only grow: that is what tells an old delivery of an event from the next one.
AttemptsCounted ==
    /\ \A f \in flights : 1 <= f.attempt /\ f.attempt <= rows[f.ev].attempts
    /\ \A e \in Events : rows[e].status = "absent" => rows[e].attempts = 0

ClaimInv == TypeOK /\ AttemptsCounted /\ ClaimExclusive

\* A step that starts no delivery and lowers no row's attempts keeps the count
\* and the exclusion.
LEMMA NoNewFlight ==
    ASSUME ClaimInv, TypeOK',
           \A g \in flights' : \E f \in flights : f.ev = g.ev /\ f.attempt = g.attempt,
           \A f, g \in flights' : f.ev = g.ev /\ f.attempt = g.attempt => f = g,
           \A e \in Events : rows'[e].attempts >= rows[e].attempts,
           \A e \in Events : rows'[e].status = "absent" => rows'[e].attempts = 0
    PROVE  AttemptsCounted' /\ ClaimExclusive'
<1>1. ClaimExclusive'
  BY DEF ClaimExclusive
<1>2. ASSUME NEW g \in flights'
      PROVE  1 <= g.attempt /\ g.attempt <= rows'[g.ev].attempts
  <2>1. PICK f \in flights : f.ev = g.ev /\ f.attempt = g.attempt
    OBVIOUS
  <2>2. g.ev \in Events /\ g.attempt \in Nat
    BY <1>2 DEF TypeOK, VariablesOK, Flight
  <2>3. rows[g.ev].attempts \in Nat /\ rows'[g.ev].attempts \in Nat
    BY <2>2 DEF ClaimInv, TypeOK, VariablesOK, Row
  <2>4. 1 <= f.attempt /\ f.attempt <= rows[f.ev].attempts
    BY DEF ClaimInv, AttemptsCounted
  <2> QED
    BY <2>1, <2>2, <2>3, <2>4
<1> QED
  BY <1>1, <1>2 DEF AttemptsCounted

\* Every step preserves the exclusive claim.
LEMMA ClaimNext == ASSUME ClaimInv, [Next]_vars PROVE ClaimInv'
<1>1. TypeOK /\ TypeOK'
  BY VariablesNext, PhasesNext DEF ClaimInv, TypeOK
<1> VariablesOK /\ VariablesOK'
  BY <1>1 DEF TypeOK
<1> AttemptsCounted /\ ClaimExclusive
  BY DEF ClaimInv
<1> SUFFICES AttemptsCounted' /\ ClaimExclusive'
  BY <1>1 DEF ClaimInv
<1> USE DEF loop, store, history
<1> DEFINE Kept == /\ \A e \in Events : rows'[e].attempts >= rows[e].attempts
                   /\ \A e \in Events : rows'[e].status = "absent" => rows'[e].attempts = 0
           Fewer == flights' \subseteq flights
<1> HIDE DEF Kept, Fewer
<1>2. Kept /\ Fewer => AttemptsCounted' /\ ClaimExclusive'
  BY <1>1, NoNewFlight DEF Kept, Fewer, ClaimInv, ClaimExclusive
<1>3. UNCHANGED rows => Kept
  BY DEF Kept, AttemptsCounted, VariablesOK, Row
<1>4. UNCHANGED flights => Fewer
  BY DEF Fewer
<1>5. ASSUME NEW f \in flights, NEW g \in Flight, g.ev = f.ev, g.attempt = f.attempt,
             Advance(f, g), Kept
      PROVE  AttemptsCounted' /\ ClaimExclusive'
  <2>1. \A h \in flights' : \E k \in flights : k.ev = h.ev /\ k.attempt = h.attempt
    BY <1>5 DEF Advance
  <2>2. \A h, k \in flights' : h.ev = k.ev /\ h.attempt = k.attempt => h = k
    BY <1>5 DEF Advance, ClaimExclusive
  <2> QED
    BY <1>1, <1>5, <2>1, <2>2, NoNewFlight DEF Kept, ClaimInv
<1>6. ASSUME NEW e \in Events, WinsClaim(rows[e]), rows' = [rows EXCEPT ![e] = Claimed(@)]
      PROVE  Kept /\ rows'[e].attempts = rows[e].attempts + 1
  BY <1>6 DEF Kept, AttemptsCounted, VariablesOK, Row, Claimed, WinsClaim
<1>7. ASSUME NEW p \in Procs, NEW e \in Events, Enqueue(p, e)
      PROVE  AttemptsCounted' /\ ClaimExclusive'
  <2>1. Kept
    BY <1>7 DEF Enqueue, NoRow, Kept, AttemptsCounted, VariablesOK, Row
  <2> QED
    BY <1>2, <1>4, <1>7, <2>1 DEF Enqueue
<1>8. ASSUME NEW p \in Procs, NEW e \in Events, TryClaim(p, e)
      PROVE  AttemptsCounted' /\ ClaimExclusive'
  <2>1. CASE WinsClaim(rows[e])
    <3> DEFINE f == [proc |-> p, ev |-> e, attempt |-> Claimed(rows[e]).attempts,
                     phase |-> "load", verdict |-> "none"]
    <3>1. flights' = flights \cup {f} /\ rows' = [rows EXCEPT ![e] = Claimed(@)]
      BY <1>8, <2>1 DEF TryClaim
    <3>2. Kept /\ rows'[e].attempts = rows[e].attempts + 1
      BY <1>6, <2>1, <3>1
    <3>3. rows[e].attempts \in Nat /\ f.attempt = rows[e].attempts + 1
      BY <2>1, ClaimedType DEF VariablesOK, Row
    <3>4. \A g \in flights : g.ev = e => g.attempt < rows[e].attempts + 1
      BY <3>3 DEF AttemptsCounted, VariablesOK, Flight
    <3>5. ClaimExclusive'
      BY <3>1, <3>3, <3>4 DEF ClaimExclusive, VariablesOK, Flight
    <3>6. \A g \in flights : 1 <= g.attempt /\ g.attempt <= rows'[g.ev].attempts
      BY <3>2 DEF Kept, AttemptsCounted, VariablesOK, Flight, Row
    <3>7. 1 <= f.attempt /\ f.attempt <= rows'[f.ev].attempts
      BY <3>2, <3>3
    <3> QED
      BY <3>1, <3>2, <3>5, <3>6, <3>7 DEF AttemptsCounted, Kept
  <2>2. CASE ~WinsClaim(rows[e])
    BY <1>2, <1>3, <1>4, <1>8, <2>2 DEF TryClaim
  <2> QED
    BY <2>1, <2>2
<1>9. ASSUME NEW p \in Procs, ClaimThrows(p) PROVE AttemptsCounted' /\ ClaimExclusive'
  <2>1. Kept
    BY <1>3, <1>6, <1>9 DEF ClaimThrows, VariablesOK
  <2> QED
    BY <1>2, <1>4, <1>9, <2>1 DEF ClaimThrows
<1>10. ASSUME NEW f \in flights, LoadTrigger(f) PROVE AttemptsCounted' /\ ClaimExclusive'
  <2>1. \E g \in Flight : Advance(f, g) /\ g.ev = f.ev /\ g.attempt = f.attempt
    BY <1>1, <1>10, LoadMoves
  <2> QED
    BY <1>3, <1>5, <1>10, <2>1 DEF LoadTrigger
<1>11. ASSUME NEW f \in flights, TargetAnswers(f) PROVE AttemptsCounted' /\ ClaimExclusive'
  <2>1. \E g \in Flight : Advance(f, g) /\ g.ev = f.ev /\ g.attempt = f.attempt
    <3>1. PICK ph \in Phases, v \in {"none", "delivered", "dead", "retry"} :
             \/ Advance(f, [f EXCEPT !.phase = ph])
             \/ Advance(f, [f EXCEPT !.phase = ph, !.verdict = v])
      BY <1>11 DEF TargetAnswers, Phases
    <3> QED
      <4>1. f \in Flight
        BY DEF VariablesOK
      <4>2. CASE Advance(f, [f EXCEPT !.phase = ph])
        BY <4>1, <4>2, FlightMoves
      <4>3. CASE Advance(f, [f EXCEPT !.phase = ph, !.verdict = v])
        BY <4>1, <4>3, FlightMoves
      <4> QED
        BY <3>1, <4>2, <4>3
  <2> QED
    BY <1>3, <1>5, <1>11, <2>1 DEF TargetAnswers
<1>12. ASSUME NEW f \in flights, JudgeFailure(f) PROVE AttemptsCounted' /\ ClaimExclusive'
  <2>1. \E g \in Flight : Advance(f, g) /\ g.ev = f.ev /\ g.attempt = f.attempt
    BY <1>12, FlightMoves DEF JudgeFailure, VariablesOK, Phases
  <2> QED
    BY <1>3, <1>5, <1>12, <2>1 DEF JudgeFailure
<1>13. ASSUME NEW f \in flights, Settle(f) PROVE AttemptsCounted' /\ ClaimExclusive'
  <2>1. /\ f.ev \in Events
        /\ f.verdict \in {"delivered", "dead", "retry"}
    BY <1>1, <1>13 DEF Settle, TypeOK, VariablesOK, PhasesOK, Flight
  <2>2. Kept
    BY <1>13, <2>1, SettledType DEF Settle, Kept, AttemptsCounted, VariablesOK, Row
  <2> QED
    BY <1>2, <1>13, <2>2 DEF Settle, Fewer
<1>14. ASSUME NEW f \in flights, DispatchThrows(f) PROVE AttemptsCounted' /\ ClaimExclusive'
  BY <1>2, <1>3, <1>14 DEF DispatchThrows, Fewer
<1>15. ASSUME NEW p \in Procs, NEW e \in Events, RecoverRow(p, e)
       PROVE  AttemptsCounted' /\ ClaimExclusive'
  <2>1. Kept
    BY <1>15, RecoveredType DEF RecoverRow, Kept, AttemptsCounted, VariablesOK, Row
  <2> QED
    BY <1>2, <1>4, <1>15, <2>1 DEF RecoverRow
<1>16. ASSUME NEW p \in Procs, Exit(p) PROVE AttemptsCounted' /\ ClaimExclusive'
  BY <1>2, <1>3, <1>16 DEF Exit, Fewer
<1>17. ASSUME NEW e \in Events, BackoffElapses(e) \/ RowAges(e)
       PROVE  AttemptsCounted' /\ ClaimExclusive'
  <2>1. CASE BackoffElapses(e)
    <3>1. Kept
      BY <2>1 DEF BackoffElapses, Kept, AttemptsCounted, VariablesOK, Row
    <3> QED
      BY <1>2, <1>4, <2>1, <3>1 DEF BackoffElapses
  <2>2. CASE RowAges(e)
    <3>1. Kept
      BY <2>2 DEF RowAges, Kept, AttemptsCounted, VariablesOK, Row
    <3> QED
      BY <1>2, <1>4, <2>2, <3>1 DEF RowAges
  <2> QED
    BY <1>17, <2>1, <2>2
<1>18. ASSUME UNCHANGED <<rows, flights>> PROVE AttemptsCounted' /\ ClaimExclusive'
  BY <1>2, <1>3, <1>4, <1>18
<1>19. ASSUME NEW p \in Procs,
              \/ Wake(p) \/ SafetyNet(p) \/ ClaimFind(p) \/ Boot(p) \/ RecoverFind(p)
              \/ Open(p) \/ Stop(p) \/ StopReturns(p)
       PROVE  UNCHANGED <<rows, flights>>
  BY <1>19 DEF Wake, SafetyNet, ClaimFind, Boot, RecoverFind, Open, Stop, StopReturns
<1>20. ASSUME NEW e \in Events, DeleteTrigger(e) PROVE UNCHANGED <<rows, flights>>
  BY <1>20 DEF DeleteTrigger
<1>21. ASSUME NEW f \in flights, RefusalThrows(f) PROVE AttemptsCounted' /\ ClaimExclusive'
  <2>1. Kept
    <3>1. CASE UNCHANGED rows
      BY <1>3, <3>1
    <3>2. CASE rows' = [rows EXCEPT ![f.ev] = Settled(@, "dead")]
      <4>1. f.ev \in Events /\ rows'[f.ev].attempts = rows[f.ev].attempts
            /\ rows'[f.ev].status = "dead"
        BY <1>21, <3>2, RefusalThrowsRows, SettledType DEF VariablesOK
      <4> QED
        BY <3>2, <4>1 DEF Kept, AttemptsCounted, VariablesOK, Row
    <3> QED
      BY <1>21, <3>1, <3>2, RefusalThrowsRows
  <2> QED
    BY <1>5, <1>21, <2>1, RefusalThrowsRows
<1>22. ASSUME NEW p \in Procs, RecoverThrows(p) PROVE AttemptsCounted' /\ ClaimExclusive'
  <2>1. Kept
    <3>1. CASE UNCHANGED rows
      BY <1>3, <3>1
    <3>2. ASSUME NEW e \in Events, rows' = [rows EXCEPT ![e] = Recovered(@)] PROVE Kept
      BY <3>2, RecoveredType DEF Kept, AttemptsCounted, VariablesOK, Row
    <3> QED
      BY <1>22, <3>1, <3>2, RecoverThrowsRows
  <2> QED
    BY <1>2, <1>4, <1>22, <2>1 DEF RecoverThrows
<1>23. CASE UNCHANGED vars
  BY <1>18, <1>23 DEF vars
<1> QED
  BY <1>7, <1>8, <1>9, <1>10, <1>11, <1>12, <1>13, <1>14, <1>15, <1>16, <1>17,
     <1>18, <1>19, <1>20, <1>21, <1>22, <1>23 DEF Next, ProcStep, FlightStep, Shutdown, Crash

\* However many processes share the queue, one attempt of an event is delivered
\* by one of them only.
THEOREM ClaimsExclude == Spec => []ClaimExclusive
<1>1. Init => ClaimInv
  BY TypeInit DEF Init, ClaimInv, AttemptsCounted, ClaimExclusive, NoRow
<1>2. ClaimInv /\ [Next]_vars => ClaimInv'
  BY ClaimNext
<1>3. ClaimInv => ClaimExclusive
  BY DEF ClaimInv
<1> QED
  BY <1>1, <1>2, <1>3, PTL DEF Spec

-----------------------------------------------------------------------------
(* The slots                                                               *)

\* A drain loop that is running has a slot for the row it may win.
SlotsInv ==
    \A p \in Procs :
       /\ Cardinality(FlightsOf(p)) <= MaxInFlight
       /\ drain[p] # "idle" => Cardinality(FlightsOf(p)) < MaxInFlight

\* The deliveries of one process are finitely many.
LEMMA FlightsOfType ==
    ASSUME VariablesOK, NEW p
    PROVE  IsFiniteSet(FlightsOf(p)) /\ Cardinality(FlightsOf(p)) \in Nat
<1>1. FlightsOf(p) \subseteq flights
  BY DEF FlightsOf
<1> QED
  BY <1>1, FS_Subset, FS_CardinalityType DEF VariablesOK

\* A delivery that moves on, and one that ends, take no further slot.
LEMMA SlotsKept ==
    ASSUME VariablesOK, VariablesOK', NEW p,
           \/ flights' \subseteq flights
           \/ \E f \in flights : \E g : g.proc = f.proc /\ Advance(f, g)
    PROVE  Cardinality(FlightsOf(p)') <= Cardinality(FlightsOf(p))
<1>1. IsFiniteSet(FlightsOf(p)) /\ Cardinality(FlightsOf(p)) \in Nat
  BY FlightsOfType
<1>2. CASE flights' \subseteq flights
  <2>1. FlightsOf(p)' \subseteq FlightsOf(p)
    BY <1>2 DEF FlightsOf
  <2> QED
    BY <1>1, <2>1, FS_Subset
<1>3. ASSUME NEW f \in flights, NEW g, g.proc = f.proc, Advance(f, g)
      PROVE  Cardinality(FlightsOf(p)') <= Cardinality(FlightsOf(p))
  <2>1. CASE f.proc = p
    <3> DEFINE Rest == FlightsOf(p) \ {f}
    <3>1. FlightsOf(p)' = Rest \cup {g} /\ f \in FlightsOf(p)
      BY <1>3, <2>1 DEF FlightsOf, Advance
    <3>2. IsFiniteSet(Rest) /\ Cardinality(Rest) = Cardinality(FlightsOf(p)) - 1
      BY <1>1, <3>1, FS_RemoveElement
    <3> HIDE DEF Rest
    <3>3. Cardinality(Rest \cup {g}) <= Cardinality(Rest) + 1
      BY <1>1, <3>2, FS_AddElement
    <3> QED
      BY <1>1, <3>1, <3>2, <3>3
  <2>2. CASE f.proc # p
    <3>1. FlightsOf(p)' = FlightsOf(p)
      BY <1>3, <2>2 DEF FlightsOf, Advance
    <3> QED
      BY <1>1, <3>1
  <2> QED
    BY <2>1, <2>2
<1> QED
  BY <1>2, <1>3

\* Every step keeps the deliveries of a process within its slots: only a won
\* claim starts one, and only a loop with a free slot claims.
LEMMA SlotsNext == ASSUME TypeOK, SlotsInv, [Next]_vars PROVE SlotsInv'
<1>1. VariablesOK /\ VariablesOK'
  BY VariablesNext DEF TypeOK
<1> VariablesOK /\ PhasesOK /\ MaxInFlight \in Nat
  BY DeliveryAssumption DEF TypeOK
<1> USE DEF loop, store, history
<1>2. \A p \in Procs : /\ Cardinality(FlightsOf(p)) \in Nat
                       /\ Cardinality(FlightsOf(p)') \in Nat
  <2>1. \A p \in Procs : FlightsOf(p)' \subseteq flights' /\ IsFiniteSet(flights')
    BY <1>1 DEF FlightsOf, VariablesOK
  <2>2. \A p \in Procs : IsFiniteSet(FlightsOf(p)')
    BY <2>1, FS_Subset
  <2> QED
    BY <2>2, FlightsOfType, FS_CardinalityType
<1> DEFINE NoMore == \A p \in Procs : Cardinality(FlightsOf(p)') <= Cardinality(FlightsOf(p))
<1>3. flights' \subseteq flights => NoMore
  BY <1>1, SlotsKept
<1> HIDE DEF NoMore
<1>4. ASSUME NoMore,
             \A p \in Procs : drain'[p] # "idle" =>
                \/ drain[p] # "idle"
                \/ Cardinality(FlightsOf(p)') < MaxInFlight
      PROVE  SlotsInv'
  BY <1>2, <1>4 DEF SlotsInv, NoMore
<1>5. ASSUME NEW p \in Procs, NEW alive, NEW inFlight, inFlight = FlightsOf(p)',
             drain' = [drain EXCEPT ![p] = DrainEntry(p, alive, inFlight)], NoMore
      PROVE  SlotsInv'
  <2>1. DrainEntry(p, alive, inFlight) # "idle" =>
           drain[p] # "idle" \/ Cardinality(inFlight) < MaxInFlight
    BY DEF DrainEntry
  <2>2. \A q \in Procs : drain'[q] = IF q = p THEN DrainEntry(p, alive, inFlight) ELSE drain[q]
    BY <1>5 DEF VariablesOK
  <2> QED
    BY <1>4, <1>5, <2>1, <2>2
<1>6. ASSUME NEW p \in Procs, NEW e \in Events, TryClaim(p, e) PROVE SlotsInv'
  <2>1. CASE WinsClaim(rows[e])
    <3> DEFINE f == [proc |-> p, ev |-> e, attempt |-> Claimed(rows[e]).attempts,
                     phase |-> "load", verdict |-> "none"]
    <3>1. /\ flights' = flights \cup {f}
          /\ drain' = [drain EXCEPT ![p] =
                IF Running(p) /\ Cardinality(FlightsOf(p) \cup {f}) < MaxInFlight
                THEN "find" ELSE "idle"]
          /\ drain[p] = "scan"
      BY <1>6, <2>1 DEF TryClaim
    <3>2. f.proc = p
      OBVIOUS
    <3> HIDE DEF f
    <3>3. FlightsOf(p)' = FlightsOf(p) \cup {f}
      BY <3>1, <3>2 DEF FlightsOf
    <3>4. \A q \in Procs : q # p => FlightsOf(q)' = FlightsOf(q) /\ drain'[q] = drain[q]
      BY <3>1, <3>2 DEF FlightsOf, VariablesOK
    <3>5. Cardinality(FlightsOf(p)') <= MaxInFlight
      <4>1. Cardinality(FlightsOf(p) \cup {f}) <= Cardinality(FlightsOf(p)) + 1
        <5>1. IsFiniteSet(FlightsOf(p))
          BY FlightsOfType
        <5>2. Cardinality(FlightsOf(p) \cup {f}) =
                 IF f \in FlightsOf(p) THEN Cardinality(FlightsOf(p))
                                      ELSE Cardinality(FlightsOf(p)) + 1
          BY <5>1, FS_AddElement
        <5> QED
          BY <1>2, <5>2
      <4>2. Cardinality(FlightsOf(p)) < MaxInFlight
        BY <3>1 DEF SlotsInv
      <4> QED
        BY <1>2, <3>3, <4>1, <4>2
    <3>6. drain'[p] # "idle" => Cardinality(FlightsOf(p)') < MaxInFlight
      BY <3>1, <3>3 DEF VariablesOK
    <3> QED
      BY <3>4, <3>5, <3>6 DEF SlotsInv
  <2>2. CASE ~WinsClaim(rows[e])
    <3>1. flights' = flights /\ \A q \in Procs : drain'[q] # "idle" => drain[q] # "idle"
      BY <1>6, <2>2 DEF TryClaim, VariablesOK
    <3> QED
      BY <1>3, <1>4, <3>1
  <2> QED
    BY <2>1, <2>2
<1>7. ASSUME NEW p \in Procs,
             Wake(p) \/ SafetyNet(p) \/ Open(p)
      PROVE  SlotsInv'
  <2>1. UNCHANGED flights /\ FlightsOf(p)' = FlightsOf(p)
    BY <1>7 DEF Wake, SafetyNet, Open, FlightsOf
  <2>2. \E alive : drain' = [drain EXCEPT ![p] = DrainEntry(p, alive, FlightsOf(p))]
    BY <1>7 DEF Wake, SafetyNet, Open
  <2> QED
    BY <1>3, <1>5, <2>1, <2>2
<1>8. ASSUME NEW f \in flights, Settle(f) \/ DispatchThrows(f) PROVE SlotsInv'
  <2>1. f.proc \in Procs
    BY DEF VariablesOK, Flight
  <2>2. flights' = flights \ {f} /\ FlightsOf(f.proc)' = FlightsOf(f.proc) \ {f}
    BY <1>8 DEF Settle, DispatchThrows, FlightsOf
  <2>3. drain' = [drain EXCEPT ![f.proc] =
                     DrainEntry(f.proc, Running(f.proc), FlightsOf(f.proc) \ {f})]
    BY <1>8 DEF Settle, DispatchThrows
  <2> QED
    BY <1>3, <1>5, <2>1, <2>2, <2>3
<1>9. ASSUME NEW f \in flights, TargetAnswers(f) \/ JudgeFailure(f)
      PROVE  SlotsInv'
  <2>1. PICK ph \in Phases, v \in {"none", "delivered", "dead", "retry"} :
             \/ Advance(f, [f EXCEPT !.phase = ph])
             \/ Advance(f, [f EXCEPT !.phase = ph, !.verdict = v])
    BY <1>9 DEF TargetAnswers, JudgeFailure, Phases
  <2>2. \E g : g.proc = f.proc /\ Advance(f, g)
    BY <2>1 DEF VariablesOK, Flight
  <2>3. NoMore
    BY <1>1, <2>2, SlotsKept DEF NoMore
  <2>4. UNCHANGED drain
    BY <1>9 DEF TargetAnswers, JudgeFailure
  <2> QED
    BY <1>4, <2>3, <2>4
<1>10. ASSUME NEW p \in Procs, ClaimFind(p) \/ ClaimThrows(p) \/ Exit(p) PROVE SlotsInv'
  <2>1. flights' \subseteq flights
    BY <1>10 DEF ClaimFind, ClaimThrows, Exit
  <2>2. \A q \in Procs : drain'[q] # "idle" => drain[q] # "idle"
    BY <1>10 DEF ClaimFind, ClaimThrows, Exit, VariablesOK
  <2> QED
    BY <1>3, <1>4, <2>1, <2>2
<1>15. ASSUME NEW f \in flights, LoadTrigger(f) \/ RefusalThrows(f) PROVE SlotsInv'
  <2>1. \E g : g.proc = f.proc /\ Advance(f, g)
    BY <1>15, LoadMoves, RefusalThrowsRows
  <2>2. NoMore
    BY <1>1, <2>1, SlotsKept DEF NoMore
  <2> QED
    BY <1>4, <1>15, <2>2 DEF LoadTrigger, RefusalThrows
<1>11. CASE UNCHANGED <<flights, drain>>
  BY <1>3, <1>4, <1>11
<1>12. ASSUME NEW p \in Procs,
              \/ Boot(p) \/ RecoverFind(p) \/ RecoverThrows(p) \/ Stop(p) \/ StopReturns(p)
              \/ \E e \in Events : Enqueue(p, e) \/ RecoverRow(p, e)
       PROVE  SlotsInv'
  BY <1>11, <1>12 DEF Boot, RecoverFind, RecoverThrows, Stop, StopReturns, Enqueue, RecoverRow
<1>13. ASSUME NEW e \in Events, DeleteTrigger(e) \/ BackoffElapses(e) \/ RowAges(e)
       PROVE  SlotsInv'
  BY <1>11, <1>13 DEF DeleteTrigger, BackoffElapses, RowAges
<1>14. CASE UNCHANGED vars
  BY <1>11, <1>14 DEF vars
<1> QED
  BY <1>6, <1>7, <1>8, <1>9, <1>10, <1>12, <1>13, <1>14, <1>15
     DEF Next, ProcStep, FlightStep, Shutdown, Crash

\* The wakes, the interval and the finally blocks together never start more
\* deliveries in a process than it has slots.
THEOREM SlotsHold == Spec => []SlotsBounded
<1>1. Init => SlotsInv
  <2>1. Init => \A p \in Procs : Cardinality(FlightsOf(p)) = 0 /\ drain[p] = "idle"
    BY FS_EmptySet DEF Init, FlightsOf
  <2> QED
    BY <2>1, DeliveryAssumption DEF SlotsInv
<1>2. SlotsInv => SlotsBounded
  BY DEF SlotsInv, SlotsBounded
<1> QED
  BY <1>1, <1>2, SlotsNext, TypeCorrect, PTL DEF Spec

-----------------------------------------------------------------------------
(* The stop                                                                *)

\* What a step does to process p that is stopping: it winds down, or ends.
WindsDown(p) ==
    /\ drain[p] = "idle" => drain'[p] = "idle" /\ Deliveries(p)' \subseteq Deliveries(p)
    /\ Deliveries(p)' \subseteq Deliveries(p) \/ drain'[p] = "idle"

\* No delivery begins, and the loop is not entered.
LEMMA NothingStarts ==
    ASSUME NEW p \in Procs, Deliveries(p)' \subseteq Deliveries(p),
           drain[p] = "idle" => drain'[p] = "idle"
    PROVE  WindsDown(p)
  BY DEF WindsDown

\* A delivery that moves on, or is over, is no new delivery.
LEMMA SameDeliveries ==
    ASSUME NEW p \in Procs, NEW f \in flights, NEW g,
           g.proc = f.proc, g.ev = f.ev, g.attempt = f.attempt,
           flights' \subseteq (flights \ {f}) \cup {g}
    PROVE  Deliveries(p)' \subseteq Deliveries(p)
  BY DEF Deliveries, FlightsOf, KeyOf

LEMMA FewerDeliveries ==
    ASSUME NEW p \in Procs, flights' \subseteq flights
    PROVE  Deliveries(p)' \subseteq Deliveries(p)
  BY DEF Deliveries, FlightsOf

\* The loop of a process that does not run is not entered from outside.
LEMMA StoppedEntry ==
    ASSUME NEW p \in Procs, NEW S, life[p] \in {"stopping", "stopped"}
    PROVE  ~Running(p) /\ DrainEntry(p, Running(p), S) = drain[p]
  BY DEF Running, DrainEntry

LEMMA StopStep ==
    ASSUME TypeOK, [Next]_vars, NEW p \in Procs, life[p] \in {"stopping", "stopped"},
           life'[p] # "down"
    PROVE  WindsDown(p)
<1> VariablesOK
  BY DEF TypeOK
<1> USE DEF loop, store, history
<1>1. ASSUME UNCHANGED <<drain, flights>> PROVE WindsDown(p)
  BY <1>1, FewerDeliveries, NothingStarts
<1>2. ASSUME NEW q \in Procs, NEW e \in Events, Enqueue(q, e) PROVE WindsDown(p)
  BY <1>1, <1>2 DEF Enqueue
<1>3. ASSUME NEW q \in Procs, Wake(q) PROVE WindsDown(p)
  <2>1. drain'[p] = drain[p]
    BY <1>3, StoppedEntry DEF Wake, VariablesOK
  <2> QED
    BY <1>3, <2>1, FewerDeliveries, NothingStarts DEF Wake
<1>4. ASSUME NEW e \in Events, DeleteTrigger(e) \/ BackoffElapses(e) \/ RowAges(e)
      PROVE  WindsDown(p)
  BY <1>1, <1>4 DEF DeleteTrigger, BackoffElapses, RowAges
<1>5. ASSUME NEW q \in Procs, SafetyNet(q) \/ Boot(q) \/ Open(q) PROVE WindsDown(p)
  <2>1. q # p /\ drain'[p] = drain[p]
    BY <1>5 DEF SafetyNet, Boot, Open, VariablesOK
  <2> QED
    BY <1>5, <2>1, FewerDeliveries, NothingStarts DEF SafetyNet, Boot, Open
<1>6. ASSUME NEW q \in Procs, ClaimFind(q) \/ ClaimThrows(q) PROVE WindsDown(p)
  <2>1. drain[p] = "idle" => drain'[p] = "idle"
    BY <1>6 DEF ClaimFind, ClaimThrows, VariablesOK
  <2> QED
    BY <1>6, <2>1, FewerDeliveries, NothingStarts DEF ClaimFind, ClaimThrows
<1>7. ASSUME NEW q \in Procs, NEW e \in Events, TryClaim(q, e) PROVE WindsDown(p)
  <2>1. CASE q # p
    <3>1. drain'[p] = drain[p]
      BY <1>7, <2>1 DEF TryClaim, VariablesOK
    <3>2. \A f \in flights' : f.proc = p => f \in flights
      BY <1>7, <2>1 DEF TryClaim
    <3> QED
      BY <3>1, <3>2, NothingStarts DEF Deliveries, FlightsOf
  <2>2. CASE q = p /\ ~WinsClaim(rows[e])
    BY <1>7, <2>2, FewerDeliveries DEF TryClaim, WindsDown, VariablesOK
  <2>3. CASE q = p /\ WinsClaim(rows[e])
    BY <1>7, <2>3, StoppedEntry DEF TryClaim, WindsDown, VariablesOK
  <2> QED
    BY <2>1, <2>2, <2>3
<1>8. ASSUME NEW f \in flights, FlightStep(f) \/ DispatchThrows(f) \/ RefusalThrows(f)
      PROVE  WindsDown(p)
  <2>1. f \in Flight
    BY DEF VariablesOK
  <2>2. ASSUME NEW g, g.proc = f.proc, g.ev = f.ev, g.attempt = f.attempt, Advance(f, g), UNCHANGED drain
        PROVE  WindsDown(p)
    BY <2>2, SameDeliveries, NothingStarts DEF Advance
  <2>3. CASE LoadTrigger(f)
    BY <2>2, <2>3, LoadMoves DEF LoadTrigger
  <2>4. CASE TargetAnswers(f)
    BY <2>1, <2>2, <2>4 DEF TargetAnswers, Flight
  <2>5. CASE JudgeFailure(f)
    BY <2>1, <2>2, <2>5 DEF JudgeFailure, Flight
  <2>6. CASE Settle(f) \/ DispatchThrows(f)
    <3>1. drain'[p] = drain[p]
      BY <2>1, <2>6, StoppedEntry DEF Settle, DispatchThrows, VariablesOK
    <3> QED
      BY <2>6, <3>1, FewerDeliveries, NothingStarts DEF Settle, DispatchThrows
  <2>7. CASE RefusalThrows(f)
    BY <2>2, <2>7, RefusalThrowsRows DEF RefusalThrows
  <2> QED
    BY <1>8, <2>3, <2>4, <2>5, <2>6, <2>7 DEF FlightStep
<1>9. ASSUME NEW q \in Procs, \/ RecoverFind(q) \/ RecoverThrows(q) \/ Stop(q) \/ StopReturns(q)
                              \/ \E e \in Events : RecoverRow(q, e)
      PROVE  WindsDown(p)
  BY <1>1, <1>9 DEF RecoverFind, RecoverThrows, RecoverRow, Stop, StopReturns
<1>10. ASSUME NEW q \in Procs, Exit(q) PROVE WindsDown(p)
  <2>1. drain[p] = "idle" => drain'[p] = "idle"
    BY <1>10 DEF Exit, VariablesOK
  <2> QED
    BY <1>10, <2>1, FewerDeliveries, NothingStarts DEF Exit
<1>11. CASE UNCHANGED vars
  BY <1>1, <1>11 DEF vars
<1> QED
  BY <1>2, <1>3, <1>4, <1>5, <1>6, <1>7, <1>8, <1>9, <1>10, <1>11
     DEF Next, ProcStep, Shutdown, Crash

\* A stopping pipeline only winds down: no settle, wake or interval enters its loop
\* again, and at most the claim it had under way is still dispatched.
THEOREM StopsWindDown == Spec => StopWindsDown
<1>1. ASSUME TypeOK, [Next]_vars
      PROVE  [\A p \in Procs : life[p] \in {"stopping", "stopped"} /\ life'[p] # "down" =>
                 /\ drain[p] = "idle" => drain'[p] = "idle" /\ Deliveries(p)' \subseteq Deliveries(p)
                 /\ Deliveries(p)' \subseteq Deliveries(p) \/ drain'[p] = "idle"]_vars
  BY <1>1, StopStep DEF WindsDown
<1> QED
  BY <1>1, TypeCorrect, PTL DEF Spec, StopWindsDown

-----------------------------------------------------------------------------
(* One process: one delivery of an event at a time                         *)

\* A dispatch that is dead-lettering within its try block has no target.
RefusedUnbound ==
    \A f \in flights : f.phase = "refuse" => f.verdict = "dead" /\ triggers[f.ev] # "bound"

SoloInv == TypeOK /\ RefusedUnbound /\ FlightsHoldTheirRows /\ OneFlightPerEvent

\* No trigger becomes bound, and only an unbound one is refused.
LEMMA RefusedNext == ASSUME TypeOK, RefusedUnbound, [Next]_vars PROVE RefusedUnbound'
<1> VariablesOK /\ PhasesOK
  BY DEF TypeOK
<1> USE DEF loop, store, history
<1>1. \A f \in flights : f \in Flight /\ f.ev \in Events
  BY DEF VariablesOK, Flight
<1>2. ASSUME flights' \subseteq flights,
             \A e \in Events : triggers'[e] \in {triggers[e], "gone"}
      PROVE  RefusedUnbound'
  BY <1>1, <1>2 DEF RefusedUnbound
<1>3. ASSUME NEW f \in flights, NEW g, Advance(f, g), g.ev = f.ev, UNCHANGED triggers,
             g.phase = "refuse" => g.verdict = "dead" /\ triggers[f.ev] # "bound"
      PROVE  RefusedUnbound'
  BY <1>3 DEF Advance, RefusedUnbound
<1>4. ASSUME NEW p \in Procs, NEW e \in Events, TryClaim(p, e) PROVE RefusedUnbound'
  <2>1. UNCHANGED triggers
    BY <1>4 DEF TryClaim
  <2>2. \A g \in flights' : g \in flights \/ g.phase = "load"
    BY <1>4 DEF TryClaim
  <2> QED
    BY <2>1, <2>2 DEF RefusedUnbound
<1>5. ASSUME NEW f \in flights, LoadTrigger(f) PROVE RefusedUnbound'
  BY <1>3, <1>5, LoadMoves DEF LoadTrigger
<1>6. ASSUME NEW f \in flights, TargetAnswers(f) PROVE RefusedUnbound'
  <2>1. UNCHANGED triggers
    BY <1>6 DEF TargetAnswers
  <2>2. \E g : Advance(f, g) /\ g.ev = f.ev /\ g.phase \in {"settle", "failed"}
    <3> DEFINE a == [f EXCEPT !.phase = "settle", !.verdict = "delivered"]
               b == [f EXCEPT !.phase = "settle", !.verdict = "dead"]
               c == [f EXCEPT !.phase = "failed"]
    <3>1. /\ a.ev = f.ev /\ b.ev = f.ev /\ c.ev = f.ev
          /\ a.phase = "settle" /\ b.phase = "settle" /\ c.phase = "failed"
      BY <1>1 DEF Flight
    <3>2. Advance(f, a) \/ Advance(f, b) \/ Advance(f, c)
      BY <1>6 DEF TargetAnswers
    <3> HIDE DEF a, b, c
    <3> QED
      BY <3>1, <3>2
  <2> QED
    BY <1>3, <2>1, <2>2
<1>7. ASSUME NEW f \in flights, JudgeFailure(f) PROVE RefusedUnbound'
  <2> DEFINE g == [f EXCEPT !.phase = "settle",
                            !.verdict = IF HasRetry(rows[f.ev].attempts) THEN "retry" ELSE "dead"]
  <2>1. Advance(f, g) /\ UNCHANGED triggers
    BY <1>7 DEF JudgeFailure
  <2>2. g.ev = f.ev /\ g.phase = "settle"
    BY <1>1 DEF Flight
  <2> HIDE DEF g
  <2> QED
    BY <1>3, <2>1, <2>2
<1>8. ASSUME NEW f \in flights, RefusalThrows(f) PROVE RefusedUnbound'
  BY <1>3, <1>8, RefusalThrowsRows DEF RefusalThrows
<1>9. ASSUME NEW f \in flights, Settle(f) \/ DispatchThrows(f) PROVE RefusedUnbound'
  BY <1>2, <1>9 DEF Settle, DispatchThrows
<1>10. ASSUME NEW p \in Procs, Exit(p) PROVE RefusedUnbound'
  BY <1>2, <1>10 DEF Exit
<1>11. ASSUME NEW e \in Events, DeleteTrigger(e) PROVE RefusedUnbound'
  BY <1>2, <1>11 DEF DeleteTrigger, VariablesOK
<1>12. ASSUME NEW p \in Procs,
              \/ Wake(p) \/ SafetyNet(p) \/ ClaimFind(p) \/ ClaimThrows(p) \/ Boot(p)
              \/ RecoverFind(p) \/ Open(p) \/ Stop(p) \/ StopReturns(p) \/ RecoverThrows(p)
       PROVE  UNCHANGED <<triggers, flights>>
  BY <1>12 DEF Wake, SafetyNet, ClaimFind, ClaimThrows, Boot, RecoverFind, Open, Stop,
               StopReturns, RecoverThrows
<1>13. ASSUME NEW p \in Procs, NEW e \in Events, Enqueue(p, e) \/ RecoverRow(p, e)
       PROVE  UNCHANGED <<triggers, flights>>
  BY <1>13 DEF Enqueue, RecoverRow
<1>14. ASSUME NEW e \in Events, BackoffElapses(e) \/ RowAges(e)
       PROVE  UNCHANGED <<triggers, flights>>
  BY <1>14 DEF BackoffElapses, RowAges
<1>15. UNCHANGED <<triggers, flights>> => RefusedUnbound'
  BY DEF RefusedUnbound
<1>16. CASE UNCHANGED vars
  BY <1>15, <1>16 DEF vars
<1> QED
  BY <1>4, <1>5, <1>6, <1>7, <1>8, <1>9, <1>10, <1>11, <1>12, <1>13, <1>14, <1>15, <1>16
     DEF Next, ProcStep, FlightStep, Shutdown, Crash

\* A delivery that moves on keeps its row, or has just lost the reply to its dead
\* letter, and stays the only one of its event.
LEMMA SoloMove ==
    ASSUME SoloInv, NEW f \in flights, NEW g, g.ev = f.ev, Advance(f, g),
           \A d \in Events : d # f.ev => rows'[d] = rows[d],
           rows'[f.ev].status = "dispatching" \/ RefusalLost(g)',
           rows'[f.ev].age \in {rows[f.ev].age, "young"},
           UNCHANGED <<triggers, life, recovery>>
    PROVE  FlightsHoldTheirRows' /\ OneFlightPerEvent'
<1>1. \A h \in flights' : h = g \/ (h \in flights /\ h # f)
  BY DEF Advance
<1>2. OneFlightPerEvent'
  BY <1>1 DEF SoloInv, OneFlightPerEvent
<1>3. \A h \in flights : h # f => h.ev # f.ev /\ h.ev \in Events
  BY DEF SoloInv, OneFlightPerEvent, TypeOK, VariablesOK, Flight
<1>4. ASSUME NEW h \in flights' PROVE rows'[h.ev].status = "dispatching" \/ RefusalLost(h)'
  <2>1. CASE h = g
    BY <2>1
  <2>2. CASE h \in flights /\ h # f
    BY <1>3, <2>2 DEF SoloInv, FlightsHoldTheirRows, RefusalLost
  <2> QED
    BY <1>1, <2>1, <2>2
<1>5. ASSUME NEW p \in Procs, life'[p] = "booting", NEW h \in flights'
      PROVE  rows'[h.ev].age = "young"
  BY <1>1, <1>3, <1>5 DEF SoloInv, FlightsHoldTheirRows
<1>6. ASSUME NEW p \in Procs, NEW e \in recovery'[p]
      PROVE  rows'[e].status = "dispatching" /\ \A h \in flights' : h.ev # e
  <2>1. e \in Events /\ e # f.ev /\ rows[e].status = "dispatching" /\ \A h \in flights : h.ev # e
    BY <1>6 DEF SoloInv, FlightsHoldTheirRows, TypeOK, VariablesOK
  <2> QED
    BY <1>1, <2>1
<1> QED
  BY <1>2, <1>4, <1>5, <1>6 DEF FlightsHoldTheirRows

\* With one process every step keeps deliveries of one event apart.
LEMMA SoloNext ==
    ASSUME \A p, q \in Procs : p = q, SoloInv, [Next]_vars
    PROVE  SoloInv'
<1>1. TypeOK /\ TypeOK'
  BY VariablesNext, PhasesNext DEF SoloInv, TypeOK
<1> VariablesOK /\ PhasesOK
  BY <1>1 DEF TypeOK
<1> RefusedUnbound /\ FlightsHoldTheirRows /\ OneFlightPerEvent
  BY DEF SoloInv
<1> RefusedUnbound'
  BY <1>1, RefusedNext
<1> DEFINE Solo == FlightsHoldTheirRows /\ OneFlightPerEvent
<1> SUFFICES Solo'
  BY <1>1 DEF SoloInv
<1> USE DEF loop, store, history, RefusalLost
<1>2. ASSUME NEW p \in Procs, NEW e \in Events, Enqueue(p, e) PROVE Solo'
  BY <1>2 DEF Enqueue, NoRow, FlightsHoldTheirRows, OneFlightPerEvent, VariablesOK, Flight, Row
<1>3. ASSUME NEW p \in Procs, NEW e \in Events, TryClaim(p, e) PROVE Solo'
  <2>1. CASE WinsClaim(rows[e])
    <3> DEFINE f == [proc |-> p, ev |-> e, attempt |-> Claimed(rows[e]).attempts,
                     phase |-> "load", verdict |-> "none"]
    <3>1. /\ flights' = flights \cup {f} /\ rows' = [rows EXCEPT ![e] = Claimed(@)]
          /\ rows[e].status = "pending"
          /\ UNCHANGED <<triggers, life, recovery>>
      BY <1>3, <2>1 DEF TryClaim, WinsClaim
    <3>2. \A g \in flights : g.ev # e
      BY <3>1 DEF FlightsHoldTheirRows
    <3>3. OneFlightPerEvent'
      BY <3>1, <3>2 DEF OneFlightPerEvent
    <3>4. rows'[e].status = "dispatching" /\ rows'[e].age = "young"
      BY <3>1, <2>1, ClaimedType DEF VariablesOK
    <3>5. \A d \in Events : d # e => rows'[d] = rows[d]
      BY <3>1 DEF VariablesOK
    <3>6. \A q \in Procs : e \notin recovery[q]
      BY <3>1 DEF FlightsHoldTheirRows
    <3>7. \A g \in flights : g.ev \in Events
      BY DEF VariablesOK, Flight
    <3>8. \A q \in Procs : recovery[q] \subseteq Events
      BY DEF VariablesOK
    <3> QED
      BY <3>1, <3>2, <3>3, <3>4, <3>5, <3>6, <3>7, <3>8 DEF FlightsHoldTheirRows
  <2>2. CASE ~WinsClaim(rows[e])
    BY <1>3, <2>2 DEF TryClaim, FlightsHoldTheirRows, OneFlightPerEvent
  <2> QED
    BY <2>1, <2>2
<1>4. ASSUME NEW p \in Procs, ClaimThrows(p) PROVE Solo'
  <2>1. CASE UNCHANGED rows
    BY <1>4, <2>1 DEF ClaimThrows, FlightsHoldTheirRows, OneFlightPerEvent
  <2>2. ASSUME NEW e \in scan[p], WinsClaim(rows[e]),
               rows' = [rows EXCEPT ![e] = Claimed(@)]
        PROVE  Solo'
    <3>1. e \in Events /\ rows[e].status = "pending" /\ UNCHANGED <<triggers, life, recovery, flights>>
      BY <1>4, <2>2 DEF ClaimThrows, WinsClaim, VariablesOK
    <3>2. \A d \in Events : d # e => rows'[d] = rows[d]
      BY <2>2 DEF VariablesOK
    <3>3. \A g \in flights : g.ev # e /\ g.ev \in Events
      BY <3>1 DEF FlightsHoldTheirRows, VariablesOK, Flight
    <3>4. \A q \in Procs : e \notin recovery[q] /\ recovery[q] \subseteq Events
      BY <3>1 DEF FlightsHoldTheirRows, VariablesOK
    <3> QED
      BY <3>1, <3>2, <3>3, <3>4 DEF FlightsHoldTheirRows, OneFlightPerEvent
  <2> QED
    BY <1>4, <2>1, <2>2 DEF ClaimThrows
<1>5. ASSUME NEW f \in flights, LoadTrigger(f) PROVE Solo'
  <2>1. /\ f.ev \in Events /\ rows[f.ev].status = "dispatching"
        /\ UNCHANGED <<rows, triggers, life, recovery>>
    BY <1>5 DEF LoadTrigger, FlightsHoldTheirRows, VariablesOK, Flight
  <2>2. PICK g \in Flight : Advance(f, g) /\ g.ev = f.ev
    BY <1>1, <1>5, LoadMoves
  <2> QED
    BY <2>1, <2>2, SoloMove
<1>6. ASSUME NEW f \in flights, TargetAnswers(f) PROVE Solo'
  <2>1. /\ f \in Flight /\ f.ev \in Events /\ rows[f.ev].status = "dispatching"
        /\ UNCHANGED <<rows, triggers, life, recovery>>
    BY <1>6 DEF TargetAnswers, FlightsHoldTheirRows, VariablesOK, Flight
  <2>2. PICK ph \in Phases, v \in {"none", "delivered", "dead", "retry"} :
             \/ Advance(f, [f EXCEPT !.phase = ph])
             \/ Advance(f, [f EXCEPT !.phase = ph, !.verdict = v])
    BY <1>6 DEF TargetAnswers, Phases
  <2>3. CASE Advance(f, [f EXCEPT !.phase = ph])
    BY <2>1, <2>3, FlightMoves, SoloMove
  <2>4. CASE Advance(f, [f EXCEPT !.phase = ph, !.verdict = v])
    BY <2>1, <2>4, FlightMoves, SoloMove
  <2> QED
    BY <2>2, <2>3, <2>4
<1>7. ASSUME NEW f \in flights, JudgeFailure(f) PROVE Solo'
  <2>1. /\ f \in Flight /\ f.ev \in Events
        /\ rows[f.ev].status = "dispatching" \/ RefusalLost(f)
        /\ UNCHANGED <<rows, triggers, life, recovery>>
    BY <1>7 DEF JudgeFailure, FlightsHoldTheirRows, VariablesOK, Flight
  <2>2. PICK g : /\ Advance(f, g) /\ g.ev = f.ev /\ g.phase = "settle"
                 /\ g.verdict \in {"retry", "dead"}
    <3> DEFINE v == IF HasRetry(rows[f.ev].attempts) THEN "retry" ELSE "dead"
               h == [f EXCEPT !.phase = "settle", !.verdict = v]
    <3>1. Advance(f, h) /\ h.ev = f.ev /\ h.phase = "settle" /\ h.verdict \in {"retry", "dead"}
      BY <1>7, <2>1 DEF JudgeFailure, Flight
    <3> HIDE DEF h
    <3> QED
      BY <3>1
  <2>3. rows'[f.ev].status = "dispatching" \/ RefusalLost(g)'
    BY <2>1, <2>2
  <2> QED
    BY <2>1, <2>2, <2>3, SoloMove
<1>8. ASSUME NEW f \in flights, flights' = flights \ {f},
             \A d \in Events : d # f.ev => rows'[d] = rows[d],
             UNCHANGED <<triggers, life, recovery>>
      PROVE  Solo'
  <2>1. \A g \in flights' : g \in flights /\ g.ev # f.ev /\ g.ev \in Events
    BY <1>8 DEF OneFlightPerEvent, VariablesOK, Flight
  <2>2. \A q \in Procs : f.ev \notin recovery[q] /\ recovery[q] \subseteq Events
    BY DEF FlightsHoldTheirRows, VariablesOK
  <2> QED
    BY <1>8, <2>1, <2>2 DEF FlightsHoldTheirRows, OneFlightPerEvent
<1>9. ASSUME NEW f \in flights, Settle(f) PROVE Solo'
  BY <1>8, <1>9 DEF Settle, VariablesOK
<1>10. ASSUME NEW f \in flights, DispatchThrows(f) PROVE Solo'
  BY <1>8, <1>10 DEF DispatchThrows
<1>11. ASSUME NEW p \in Procs, Boot(p) PROVE Solo'
  <2>1. flights = {}
    BY <1>11 DEF Boot, PhasesOK, VariablesOK, Flight
  <2> QED
    BY <1>11, <2>1 DEF Boot, FlightsHoldTheirRows, OneFlightPerEvent
<1>12. ASSUME NEW p \in Procs, RecoverFind(p) PROVE Solo'
  <2>1. /\ \A f \in flights : rows[f.ev].age = "young" /\ f.ev \in Events
        /\ life' = [life EXCEPT ![p] = "recovering"]
        /\ recovery' = [recovery EXCEPT ![p] = {e \in Events : IsStuck(rows[e])}]
        /\ UNCHANGED <<rows, triggers, flights>>
    BY <1>12 DEF RecoverFind, FlightsHoldTheirRows, VariablesOK, Flight
  <2>2. \A q \in Procs : q = p
    OBVIOUS
  <2>3. \A q \in Procs : life'[q] = "recovering" /\ recovery'[q] = {e \in Events : IsStuck(rows[e])}
    BY <2>1, <2>2 DEF VariablesOK
  <2> QED
    BY <2>1, <2>3 DEF IsStuck, FlightsHoldTheirRows, OneFlightPerEvent
<1>13. ASSUME NEW p \in Procs, NEW e \in Events, RecoverRow(p, e) PROVE Solo'
  <2>1. /\ \A f \in flights : f.ev # e /\ f.ev \in Events
        /\ \A d \in Events : d # e => rows'[d] = rows[d]
        /\ recovery' = [recovery EXCEPT ![p] = @ \ {e}]
        /\ UNCHANGED <<triggers, life, flights>>
    BY <1>13 DEF RecoverRow, FlightsHoldTheirRows, VariablesOK, Flight
  <2>2. \A q \in Procs : e \notin recovery'[q] /\ recovery'[q] \subseteq recovery[q]
    BY <2>1 DEF VariablesOK
  <2>3. \A q \in Procs : recovery[q] \subseteq Events
    BY DEF VariablesOK
  <2> QED
    BY <2>1, <2>2, <2>3 DEF FlightsHoldTheirRows, OneFlightPerEvent
<1>14. ASSUME NEW p \in Procs, Exit(p) PROVE Solo'
  <2>1. flights' \subseteq flights /\ UNCHANGED <<rows, triggers>>
    BY <1>14 DEF Exit
  <2>2. \A q \in Procs : life'[q] = "down" /\ recovery'[q] = {}
    BY <1>14 DEF Exit, VariablesOK
  <2> QED
    BY <2>1, <2>2 DEF FlightsHoldTheirRows, OneFlightPerEvent
<1>15. ASSUME NEW e \in Events, BackoffElapses(e) PROVE Solo'
  BY <1>15 DEF BackoffElapses, FlightsHoldTheirRows, OneFlightPerEvent, VariablesOK, Flight, Row
<1>16. ASSUME NEW e \in Events, RowAges(e) PROVE Solo'
  BY <1>16 DEF RowAges, FlightsHoldTheirRows, OneFlightPerEvent, VariablesOK, Flight, Row
<1>17. ASSUME UNCHANGED <<rows, flights, recovery>>,
              \A e \in Events : triggers'[e] \in {triggers[e], "gone"},
              \A q \in Procs : life'[q] = "booting" => life[q] = "booting"
       PROVE  Solo'
  BY <1>17 DEF FlightsHoldTheirRows, OneFlightPerEvent, VariablesOK, Flight
<1>18. ASSUME NEW p \in Procs,
              \/ Wake(p) \/ SafetyNet(p) \/ ClaimFind(p) \/ Open(p) \/ Stop(p) \/ StopReturns(p)
       PROVE  Solo'
  BY <1>17, <1>18 DEF Wake, SafetyNet, ClaimFind, Open, Stop, StopReturns, VariablesOK
<1>19. ASSUME NEW e \in Events, DeleteTrigger(e) PROVE Solo'
  BY <1>17, <1>19 DEF DeleteTrigger, VariablesOK
<1>20. CASE UNCHANGED vars
  BY <1>17, <1>20 DEF vars
<1>21. ASSUME NEW f \in flights, RefusalThrows(f) PROVE Solo'
  <2>1. /\ f.ev \in Events /\ rows[f.ev].status = "dispatching" /\ rows[f.ev] \in Row
        /\ UNCHANGED <<triggers, life, recovery>>
    BY <1>21, RefusalThrowsRows DEF RefusalThrows, FlightsHoldTheirRows, VariablesOK
  <2>2. triggers[f.ev] # "bound"
    BY <1>21 DEF RefusalThrows, RefusedUnbound
  <2>3. PICK g \in Flight : Advance(f, g) /\ g.ev = f.ev /\ g.phase = "failed" /\ g.verdict = "none"
    BY <1>21, RefusalThrowsRows
  <2>4. CASE UNCHANGED rows
    BY <2>1, <2>3, <2>4, SoloMove
  <2>5. CASE rows' = [rows EXCEPT ![f.ev] = Settled(@, "dead")]
    <3>1. /\ rows'[f.ev].status = "dead" /\ rows'[f.ev].age = "young"
          /\ \A d \in Events : d # f.ev => rows'[d] = rows[d]
      BY <2>1, <2>5 DEF Settled, Row, VariablesOK
    <3>2. RefusalLost(g)'
      BY <2>1, <2>2, <2>3, <3>1
    <3> QED
      BY <2>1, <2>3, <3>1, <3>2, SoloMove
  <2> QED
    BY <1>21, <2>4, <2>5, RefusalThrowsRows
<1>22. ASSUME NEW p \in Procs, RecoverThrows(p) PROVE Solo'
  <2>1. /\ recovery' = [recovery EXCEPT ![p] = {}]
        /\ UNCHANGED <<triggers, flights>>
    BY <1>22 DEF RecoverThrows
  <2>2. \A q \in Procs : recovery'[q] = {} /\ life'[q] # "booting"
    BY <1>22 DEF RecoverThrows, VariablesOK
  <2>3. CASE UNCHANGED rows
    BY <2>1, <2>2, <2>3 DEF FlightsHoldTheirRows, OneFlightPerEvent
  <2>4. ASSUME NEW e \in recovery[p], rows' = [rows EXCEPT ![e] = Recovered(@)]
        PROVE  Solo'
    <3>1. \A f \in flights : f.ev # e /\ rows'[f.ev] = rows[f.ev]
      BY <2>4 DEF FlightsHoldTheirRows, VariablesOK, Flight
    <3> QED
      BY <2>1, <2>2, <3>1 DEF FlightsHoldTheirRows, OneFlightPerEvent
  <2> QED
    BY <1>22, <2>3, <2>4, RecoverThrowsRows
<1> QED
  BY <1>2, <1>3, <1>4, <1>5, <1>6, <1>7, <1>9, <1>10, <1>11, <1>12, <1>13, <1>14,
     <1>15, <1>16, <1>18, <1>19, <1>20, <1>21, <1>22 DEF Next, ProcStep, FlightStep, Shutdown, Crash

\* In the deployment the code is written for, one process, no recovery takes a
\* row out of the hands of its delivery, and so an event is never delivered
\* twice at the same time.
THEOREM SingleDelivery ==
    ASSUME \A p, q \in Procs : p = q
    PROVE  Spec => [](FlightsHoldTheirRows /\ OneFlightPerEvent)
<1>1. Init => SoloInv
  BY TypeInit DEF Init, SoloInv, RefusedUnbound, FlightsHoldTheirRows, OneFlightPerEvent
<1>2. SoloInv /\ [Next]_vars => SoloInv'
  BY SoloNext
<1>3. SoloInv => FlightsHoldTheirRows /\ OneFlightPerEvent
  BY DEF SoloInv
<1> QED
  BY <1>1, <1>2, <1>3, PTL DEF Spec

-----------------------------------------------------------------------------
(* One process: a repeat needs a loss                                      *)

\* What an event that nobody is delivering has used up.
Owing(e) == oks[e] <= losses[e] /\ rows[e].attempts <= MaxRetries + losses[e]

\* A row that may still be claimed has one attempt and one answer left; a
\* delivery in progress has claimed the attempt, and has the answer left until
\* its target has answered ok.
BudgetAt(e) ==
    /\ oks[e] <= 1 + losses[e]
    /\ rows[e].attempts <= MaxRetries + 1 + losses[e]
    /\ rows[e].status \in {"absent", "pending"} \/ Orphaned(e) => Owing(e)
    /\ \A f \in flights : f.ev = e =>
          /\ f.verdict # "delivered" => oks[e] <= losses[e]
          /\ f.verdict = "retry" => Owing(e)

BudgetInv == SoloInv /\ \A e \in Events : BudgetAt(e)

\* The counters of an event are numbers.
LEMMA CountersType ==
    ASSUME VariablesOK, NEW e \in Events
    PROVE  rows[e].attempts \in Nat /\ oks[e] \in Nat /\ losses[e] \in Nat
  BY DEF VariablesOK, Row

\* A step that has nothing to do with an event leaves its budget alone.
LEMMA BudgetElsewhere ==
    ASSUME NEW e \in Events, BudgetAt(e),
           oks'[e] = oks[e], losses'[e] = losses[e],
           rows'[e].status = rows[e].status, rows'[e].attempts = rows[e].attempts,
           \A f : f.ev = e => (f \in flights' <=> f \in flights)
    PROVE  BudgetAt(e)'
<1>1. Owing(e)' <=> Owing(e)
  BY DEF Owing
<1>2. Orphaned(e)' <=> Orphaned(e)
  BY DEF Orphaned
<1> QED
  BY <1>1, <1>2 DEF BudgetAt

\* The only delivery of an event moves on without an answer, or with a judgement,
\* and may have dead-lettered its row.
LEMMA BudgetMove ==
    ASSUME BudgetInv, NEW f \in flights, NEW g, g.ev = f.ev, Advance(f, g),
           \A d \in Events : d # f.ev => rows'[d] = rows[d],
           rows'[f.ev].attempts = rows[f.ev].attempts,
           rows'[f.ev].status \in {rows[f.ev].status, "dead"},
           UNCHANGED <<oks, losses>>,
           f.verdict # "delivered", g.verdict # "delivered",
           g.verdict = "retry" => Owing(f.ev)
    PROVE  \A e \in Events : BudgetAt(e)'
<1> SUFFICES ASSUME NEW e \in Events PROVE BudgetAt(e)'
  OBVIOUS
<1>1. BudgetAt(e) /\ OneFlightPerEvent /\ f.ev \in Events
  BY DEF BudgetInv, SoloInv, TypeOK, VariablesOK, Flight
<1>2. CASE e # f.ev
  BY <1>1, <1>2, BudgetElsewhere DEF Advance
<1>3. CASE e = f.ev
  <2>1. g \in flights' /\ \A h \in flights' : h.ev = e => h = g
    BY <1>1, <1>3 DEF Advance, OneFlightPerEvent
  <2>2. ~Orphaned(e)'
    BY <1>3, <2>1 DEF Orphaned
  <2>3. oks[e] <= losses[e]
    BY <1>1, <1>3 DEF BudgetAt
  <2>4. Owing(e)' <=> Owing(e)
    BY <1>3 DEF Owing
  <2> QED
    BY <1>1, <1>3, <2>1, <2>2, <2>3, <2>4 DEF BudgetAt
<1> QED
  BY <1>2, <1>3

\* With one process every step keeps every event within its budget.
LEMMA BudgetNext ==
    ASSUME \A p, q \in Procs : p = q, BudgetInv, [Next]_vars
    PROVE  BudgetInv'
<1>1. SoloInv /\ SoloInv'
  BY SoloNext DEF BudgetInv
<1> VariablesOK /\ PhasesOK /\ FlightsHoldTheirRows /\ OneFlightPerEvent /\ MaxRetries \in Nat
  BY <1>1, DeliveryAssumption DEF SoloInv, TypeOK
<1> \A e \in Events : BudgetAt(e)
  BY DEF BudgetInv
<1> DEFINE Budget == \A e \in Events : BudgetAt(e)
<1> SUFFICES Budget'
  BY <1>1 DEF BudgetInv
<1> USE DEF loop, store, history
<1>2. ASSUME UNCHANGED <<oks, losses, flights>>,
             \A e \in Events : /\ rows'[e].status = rows[e].status
                               /\ rows'[e].attempts = rows[e].attempts
      PROVE  Budget'
  BY <1>2, BudgetElsewhere
<1>3. ASSUME NEW p \in Procs, NEW e \in Events, Enqueue(p, e) PROVE Budget'
  <2>1. /\ rows' = [rows EXCEPT ![e] = [NoRow EXCEPT !.status = "pending"]]
        /\ rows[e].status = "absent"
        /\ UNCHANGED <<oks, losses, flights>>
    BY <1>3 DEF Enqueue
  <2>2. rows'[e].status = "pending" /\ rows'[e].attempts = 0
    BY <2>1 DEF VariablesOK, NoRow
  <2>3. oks[e] <= losses[e]
    BY <2>1 DEF BudgetAt, Owing
  <2>4. \A f \in flights : f.ev # e
    BY <2>1 DEF FlightsHoldTheirRows, RefusalLost
  <2>5. BudgetAt(e)'
    BY <2>1, <2>2, <2>3, <2>4, CountersType DEF BudgetAt, Owing
  <2>6. \A d \in Events : d # e => BudgetAt(d)'
    BY <2>1, BudgetElsewhere DEF VariablesOK
  <2> QED
    BY <2>5, <2>6
<1>4. ASSUME NEW p \in Procs, NEW e \in Events, TryClaim(p, e) PROVE Budget'
  <2>1. CASE WinsClaim(rows[e])
    <3> DEFINE f == [proc |-> p, ev |-> e, attempt |-> Claimed(rows[e]).attempts,
                     phase |-> "load", verdict |-> "none"]
    <3>1. /\ flights' = flights \cup {f} /\ rows' = [rows EXCEPT ![e] = Claimed(@)]
          /\ rows[e].status = "pending"
          /\ UNCHANGED <<oks, losses>>
      BY <1>4, <2>1 DEF TryClaim, WinsClaim
    <3>2. rows'[e].status = "dispatching" /\ rows'[e].attempts = rows[e].attempts + 1
      BY <2>1, <3>1, ClaimedType DEF VariablesOK
    <3>3. Owing(e)
      BY <3>1 DEF BudgetAt
    <3>4. \A g \in flights' : g.ev = e => g.verdict = "none"
      BY <3>1 DEF FlightsHoldTheirRows, RefusalLost
    <3>5. ~Orphaned(e)'
      <4>1. f \in flights' /\ f.ev = e
        BY <3>1
      <4> HIDE DEF f
      <4> QED
        BY <4>1 DEF Orphaned
    <3>6. BudgetAt(e)'
      BY <3>1, <3>2, <3>3, <3>4, <3>5, CountersType DEF BudgetAt, Owing
    <3>7. \A d \in Events : d # e => BudgetAt(d)'
      BY <3>1, BudgetElsewhere DEF VariablesOK
    <3> QED
      BY <3>6, <3>7
  <2>2. CASE ~WinsClaim(rows[e])
    BY <1>2, <1>4, <2>2 DEF TryClaim
  <2> QED
    BY <2>1, <2>2
<1>5. ASSUME NEW p \in Procs, ClaimThrows(p) PROVE Budget'
  <2>1. CASE UNCHANGED <<rows, losses>>
    BY <1>2, <1>5, <2>1 DEF ClaimThrows
  <2>2. ASSUME NEW e \in scan[p], WinsClaim(rows[e]),
               rows' = [rows EXCEPT ![e] = Claimed(@)],
               losses' = [losses EXCEPT ![e] = @ + 1]
        PROVE  Budget'
    <3>1. e \in Events /\ rows[e].status = "pending" /\ UNCHANGED <<oks, flights>>
      BY <1>5, <2>2 DEF ClaimThrows, WinsClaim, VariablesOK
    <3>2. /\ rows'[e].status = "dispatching" /\ rows'[e].attempts = rows[e].attempts + 1
          /\ losses'[e] = losses[e] + 1
      BY <2>2, <3>1, ClaimedType DEF VariablesOK
    <3>3. Owing(e)
      BY <3>1 DEF BudgetAt
    <3>4. \A g \in flights : g.ev # e
      BY <3>1 DEF FlightsHoldTheirRows, RefusalLost
    <3>5. BudgetAt(e)'
      BY <3>1, <3>2, <3>3, <3>4, CountersType DEF BudgetAt, Owing
    <3>6. \A d \in Events : d # e => BudgetAt(d)'
      BY <2>2, <3>1, BudgetElsewhere DEF VariablesOK
    <3> QED
      BY <3>5, <3>6
  <2> QED
    BY <1>5, <2>1, <2>2 DEF ClaimThrows
<1>6. ASSUME NEW f \in flights, LoadTrigger(f) PROVE Budget'
  <2>1. f.verdict = "none" /\ UNCHANGED <<rows, oks, losses>>
    BY <1>6 DEF LoadTrigger, PhasesOK
  <2>2. \E g : Advance(f, g) /\ g.ev = f.ev /\ g.verdict \in {"none", "dead"}
    BY <1>1, <1>6, LoadMoves DEF SoloInv
  <2> QED
    BY <2>1, <2>2, BudgetMove
<1>7. ASSUME NEW f \in flights, TargetAnswers(f) PROVE Budget'
  <2>1. /\ f \in Flight /\ f.verdict = "none" /\ f.ev \in Events
        /\ UNCHANGED <<rows, losses>>
    BY <1>7 DEF TargetAnswers, VariablesOK, PhasesOK, Flight
  <2>2. CASE /\ Advance(f, [f EXCEPT !.phase = "settle", !.verdict = "delivered"])
             /\ oks' = [oks EXCEPT ![f.ev] = @ + 1]
    <3> DEFINE g == [f EXCEPT !.phase = "settle", !.verdict = "delivered"]
    <3>1. g.ev = f.ev /\ g.verdict = "delivered" /\ g \in flights'
      BY <2>1, <2>2 DEF Flight, Advance
    <3>2. \A h \in flights' : h.ev = f.ev => h.verdict = "delivered"
      BY <2>2, <3>1 DEF Advance, OneFlightPerEvent
    <3>3. oks[f.ev] <= losses[f.ev] /\ oks'[f.ev] = oks[f.ev] + 1
      BY <2>1, <2>2 DEF BudgetAt, VariablesOK
    <3>4. ~Orphaned(f.ev)' /\ rows[f.ev].status = "dispatching"
      BY <1>7, <3>1 DEF Orphaned, FlightsHoldTheirRows, RefusalLost, TargetAnswers
    <3>5. BudgetAt(f.ev)'
      BY <2>1, <3>2, <3>3, <3>4, CountersType DEF BudgetAt
    <3>6. \A d \in Events : d # f.ev => BudgetAt(d)'
      BY <2>1, <2>2, <3>1, BudgetElsewhere DEF VariablesOK, Advance
    <3> QED
      BY <3>5, <3>6
  <2>3. CASE /\ \/ Advance(f, [f EXCEPT !.phase = "settle", !.verdict = "dead"])
                \/ Advance(f, [f EXCEPT !.phase = "failed"])
             /\ UNCHANGED oks
    <3>1. \E g : Advance(f, g) /\ g.ev = f.ev /\ g.verdict \in {"none", "dead"}
      <4>1. /\ f.ev = [f EXCEPT !.phase = "failed"].ev
            /\ [f EXCEPT !.phase = "failed"].verdict = "none"
        BY <2>1 DEF Flight
      <4>2. /\ f.ev = [f EXCEPT !.phase = "settle", !.verdict = "dead"].ev
            /\ [f EXCEPT !.phase = "settle", !.verdict = "dead"].verdict = "dead"
        BY <2>1 DEF Flight
      <4> QED
        BY <2>3, <4>1, <4>2
    <3> QED
      BY <2>1, <2>3, <3>1, BudgetMove
  <2> QED
    BY <1>7, <2>2, <2>3 DEF TargetAnswers
<1>8. ASSUME NEW f \in flights, JudgeFailure(f) PROVE Budget'
  <2>1. /\ f \in Flight /\ f.verdict = "none" /\ f.ev \in Events
        /\ UNCHANGED <<rows, oks, losses>>
    BY <1>8 DEF JudgeFailure, VariablesOK, PhasesOK, Flight
  <2>2. HasRetry(rows[f.ev].attempts) => Owing(f.ev)
    <3>1. oks[f.ev] <= losses[f.ev]
      BY <2>1 DEF BudgetAt
    <3> QED
      BY <2>1, <3>1, CountersType DEF HasRetry, Owing
  <2> DEFINE v == IF HasRetry(rows[f.ev].attempts) THEN "retry" ELSE "dead"
             g == [f EXCEPT !.phase = "settle", !.verdict = v]
  <2>3. Advance(f, g) /\ g.ev = f.ev /\ g.verdict = v
    BY <1>8, <2>1 DEF JudgeFailure, Flight
  <2>4. g.verdict # "delivered" /\ (g.verdict = "retry" => Owing(f.ev))
    BY <2>2, <2>3
  <2> HIDE DEF g
  <2> QED
    BY <2>1, <2>3, <2>4, BudgetMove
<1>9. ASSUME NEW f \in flights, Settle(f) PROVE Budget'
  <2>1. /\ f \in Flight /\ f.ev \in Events /\ f.verdict \in {"delivered", "dead", "retry"}
        /\ rows' = [rows EXCEPT ![f.ev] = Settled(@, f.verdict)]
        /\ flights' = flights \ {f}
        /\ UNCHANGED <<oks, losses>>
    BY <1>9 DEF Settle, VariablesOK, PhasesOK, Flight
  <2>2. /\ rows'[f.ev].attempts = rows[f.ev].attempts
        /\ rows'[f.ev].status = IF f.verdict = "retry" THEN "pending" ELSE f.verdict
    BY <2>1, SettledType DEF VariablesOK
  <2>3. f.verdict = "retry" => Owing(f.ev)
    BY <2>1 DEF BudgetAt
  <2>4. \A h \in flights' : h.ev # f.ev
    BY <2>1 DEF OneFlightPerEvent
  <2>5. Owing(f.ev)' <=> Owing(f.ev)
    BY <2>1, <2>2 DEF Owing
  <2>6. BudgetAt(f.ev)'
    BY <2>1, <2>2, <2>3, <2>4, <2>5 DEF BudgetAt, Orphaned
  <2>7. \A d \in Events : d # f.ev => BudgetAt(d)'
    BY <2>1, BudgetElsewhere DEF VariablesOK
  <2> QED
    BY <2>6, <2>7
<1>10. ASSUME NEW f \in flights, DispatchThrows(f) PROVE Budget'
  <2>1. /\ f.ev \in Events
        /\ flights' = flights \ {f}
        /\ losses' = [losses EXCEPT ![f.ev] = @ + 1]
        /\ UNCHANGED <<rows, oks>>
    BY <1>10 DEF DispatchThrows, VariablesOK, Flight
  <2>2. \A h \in flights' : h.ev # f.ev
    BY <2>1 DEF OneFlightPerEvent
  <2>3. losses'[f.ev] = losses[f.ev] + 1
    BY <2>1 DEF VariablesOK
  <2>4. BudgetAt(f.ev)'
    BY <2>1, <2>2, <2>3, CountersType DEF BudgetAt, Owing
  <2>5. \A d \in Events : d # f.ev => BudgetAt(d)'
    BY <2>1, BudgetElsewhere DEF VariablesOK
  <2> QED
    BY <2>4, <2>5
<1>11. ASSUME NEW p \in Procs, NEW e \in recovery[p], e \in Events,
              rows' = [rows EXCEPT ![e] = Recovered(@)], UNCHANGED <<flights, oks, losses>>
       PROVE  Budget'
  <2>1. Orphaned(e) /\ \A f \in flights : f.ev # e
    BY DEF FlightsHoldTheirRows, Orphaned
  <2>2. rows'[e].attempts = rows[e].attempts
    BY <1>11, RecoveredType DEF VariablesOK
  <2>3. BudgetAt(e)'
    BY <1>11, <2>1, <2>2 DEF BudgetAt, Owing
  <2>4. \A d \in Events : d # e => BudgetAt(d)'
    BY <1>11, BudgetElsewhere DEF VariablesOK
  <2> QED
    BY <2>3, <2>4
<1>12. ASSUME NEW p \in Procs, Exit(p) PROVE Budget'
  <2> SUFFICES ASSUME NEW e \in Events PROVE BudgetAt(e)'
    OBVIOUS
  <2> DEFINE Lost == {f \in FlightsOf(p) : f.ev = e}
  <2>1. /\ flights' = {}
        /\ losses'[e] = losses[e] + Cardinality(Lost)
        /\ UNCHANGED <<rows, oks>>
    BY <1>12 DEF Exit, FlightsOf, VariablesOK, Flight
  <2>2. CASE \E f \in flights : f.ev = e
    <3>1. Lost # {} /\ Lost \subseteq flights
      BY <2>2 DEF FlightsOf, VariablesOK, Flight
    <3>2. IsFiniteSet(Lost) /\ Cardinality(Lost) \in Nat /\ Cardinality(Lost) # 0
      BY <3>1, FS_Subset, FS_CardinalityType, FS_EmptySet DEF VariablesOK
    <3> HIDE DEF Lost
    <3>3. losses'[e] >= losses[e] + 1
      BY <2>1, <3>2, CountersType
    <3>4. losses'[e] \in Nat
      BY <2>1, <3>2, CountersType
    <3> QED
      BY <2>1, <3>3, <3>4, CountersType DEF BudgetAt, Owing
  <2>3. CASE \A f \in flights : f.ev # e
    <3>1. Lost = {}
      BY <2>3 DEF FlightsOf
    <3>2. losses'[e] = losses[e]
      <4>1. Cardinality(Lost) = 0
        BY <3>1, FS_EmptySet
      <4> HIDE DEF Lost
      <4> QED
        BY <2>1, <4>1, CountersType
    <3> QED
      BY <2>1, <2>3, <3>2, BudgetElsewhere
  <2> QED
    BY <2>2, <2>3
<1>13. ASSUME NEW e \in Events, BackoffElapses(e) \/ RowAges(e) PROVE Budget'
  <2>1. /\ rows' \in {[rows EXCEPT ![e].next = "due"], [rows EXCEPT ![e].age = "old"]}
        /\ UNCHANGED <<oks, losses, flights>>
    BY <1>13 DEF BackoffElapses, RowAges
  <2>2. \A d \in Events : /\ rows'[d].status = rows[d].status
                          /\ rows'[d].attempts = rows[d].attempts
    <3>1. CASE rows' = [rows EXCEPT ![e].next = "due"]
      BY <3>1 DEF VariablesOK, Row
    <3>2. CASE rows' = [rows EXCEPT ![e].age = "old"]
      BY <3>2 DEF VariablesOK, Row
    <3> QED
      BY <2>1, <3>1, <3>2
  <2> QED
    BY <1>2, <2>1, <2>2
<1>14. ASSUME NEW p \in Procs,
              \/ Wake(p) \/ SafetyNet(p) \/ ClaimFind(p) \/ Boot(p) \/ RecoverFind(p)
              \/ Open(p) \/ Stop(p) \/ StopReturns(p)
       PROVE  Budget'
  BY <1>2, <1>14
     DEF Wake, SafetyNet, ClaimFind, Boot, RecoverFind, Open, Stop, StopReturns
<1>15. ASSUME NEW e \in Events, DeleteTrigger(e) PROVE Budget'
  BY <1>2, <1>15 DEF DeleteTrigger
<1>16. CASE UNCHANGED vars
  BY <1>2, <1>16 DEF vars
<1>17. ASSUME NEW f \in flights, RefusalThrows(f) PROVE Budget'
  <2>1. f.verdict # "delivered" /\ UNCHANGED <<oks, losses>>
    <3>1. f.verdict # "delivered"
      BY <1>1, <1>17 DEF RefusalThrows, SoloInv, RefusedUnbound
    <3> QED
      BY <1>17, <3>1 DEF RefusalThrows
  <2>2. \E g : Advance(f, g) /\ g.ev = f.ev /\ g.verdict = "none"
    BY <1>17, RefusalThrowsRows
  <2>3. CASE UNCHANGED rows
    BY <2>1, <2>2, <2>3, BudgetMove
  <2>4. CASE rows' = [rows EXCEPT ![f.ev] = Settled(@, "dead")]
    <3>1. /\ rows'[f.ev].status = "dead" /\ rows'[f.ev].attempts = rows[f.ev].attempts
          /\ \A d \in Events : d # f.ev => rows'[d] = rows[d]
      BY <1>17, <2>4, RefusalThrowsRows, SettledType DEF VariablesOK
    <3> QED
      BY <2>1, <2>2, <3>1, BudgetMove
  <2> QED
    BY <1>17, <2>3, <2>4, RefusalThrowsRows
<1>18. ASSUME NEW p \in Procs, NEW e \in Events, RecoverRow(p, e) PROVE Budget'
  BY <1>11, <1>18 DEF RecoverRow
<1>19. ASSUME NEW p \in Procs, RecoverThrows(p) PROVE Budget'
  BY <1>2, <1>11, <1>19, RecoverThrowsRows DEF RecoverThrows
<1> QED
  BY <1>3, <1>4, <1>5, <1>6, <1>7, <1>8, <1>9, <1>10, <1>12, <1>13, <1>14, <1>15, <1>16,
     <1>17, <1>18, <1>19
     DEF Next, ProcStep, FlightStep, Shutdown, Crash

\* In the deployment the code is written for, an event is delivered and
\* attempted more often than its schedule says only by as many times as a
\* dispatch vanished before its outcome was written.
THEOREM RepeatsAreLosses ==
    ASSUME \A p, q \in Procs : p = q
    PROVE  Spec => []RepeatNeedsLoss
<1>1. Init => BudgetInv
  <2>1. Init => SoloInv
    BY TypeInit DEF Init, SoloInv, RefusedUnbound, FlightsHoldTheirRows, OneFlightPerEvent
  <2>2. Init => \A e \in Events : BudgetAt(e)
    BY DeliveryAssumption DEF Init, BudgetAt, Owing, NoRow
  <2> QED
    BY <2>1, <2>2 DEF BudgetInv
<1>2. BudgetInv /\ [Next]_vars => BudgetInv'
  BY BudgetNext
<1>3. BudgetInv => RepeatNeedsLoss
  BY DEF BudgetInv, BudgetAt, RepeatNeedsLoss
<1> QED
  BY <1>1, <1>2, <1>3, PTL DEF Spec

-----------------------------------------------------------------------------
(* One process: the queue implements the life of a unit of work            *)

StageMap == [e \in Events |-> IF InHand(e) THEN "taken" ELSE Stage(rows[e])]

\* The stage of a row only looks at its status.
LEMMA StageOfStatus ==
    ASSUME NEW row \in Row
    PROVE  /\ Stage(row) \in Work!Stages
           /\ row.status = "absent" => Stage(row) = "absent"
           /\ row.status = "pending" => Stage(row) = "queued"
           /\ row.status = "dispatching" => Stage(row) = "taken"
           /\ row.status \in {"delivered", "dead"} => Stage(row) = "ended"
  BY DEF Stage, Row, Statuses, Ended, Work!Stages

\* One legal move of an event, or none.
Moves(e) ==
    \/ StageMap'[e] = StageMap[e]
    \/ Work!Records(StageMap[e], StageMap'[e])
    \/ Work!Takes(StageMap[e], StageMap'[e])
    \/ Work!Requeues(StageMap[e], StageMap'[e])
    \/ Work!Finishes(StageMap[e], StageMap'[e])

\* What the mapping says of one event, before and after a step.
LEMMA StageAt ==
    ASSUME NEW e \in Events
    PROVE  /\ StageMap[e] = IF InHand(e) THEN "taken" ELSE Stage(rows[e])
           /\ StageMap'[e] = IF InHand(e)' THEN "taken" ELSE Stage(rows'[e])
  BY DEF StageMap

\* An event whose row and dispatches are left alone does not move.
LEMMA Untouched ==
    ASSUME NEW e \in Events, rows'[e].status = rows[e].status,
           rows[e] \in Row, rows'[e] \in Row, InHand(e)' <=> InHand(e)
    PROVE  Moves(e)
<1>1. Stage(rows'[e]) = Stage(rows[e])
  BY StageOfStatus DEF Row, Statuses
<1> QED
  BY <1>1, StageAt DEF Moves

\* A dispatch that goes on keeps its event taken, whatever it wrote.
LEMMA StillInHand ==
    ASSUME NEW e \in Events, InHand(e), InHand(e)'
    PROVE  Moves(e)
  BY StageAt DEF Moves

\* An event nobody holds is recorded, or taken, as its row is.
LEMMA RowTaken ==
    ASSUME NEW e \in Events, rows[e] \in Row, rows'[e] \in Row, ~InHand(e),
           \/ rows[e].status = "absent" /\ rows'[e].status = "pending" /\ ~InHand(e)'
           \/ rows[e].status = "pending" /\ rows'[e].status = "dispatching"
    PROVE  Moves(e)
<1>1. CASE rows[e].status = "absent" /\ rows'[e].status = "pending" /\ ~InHand(e)'
  <2>1. StageMap[e] = "absent" /\ StageMap'[e] = "queued"
    BY <1>1, StageAt, StageOfStatus
  <2> QED
    BY <2>1 DEF Moves, Work!Records, Work!Stages
<1>2. CASE rows[e].status = "pending" /\ rows'[e].status = "dispatching"
  <2>1. StageMap[e] = "queued" /\ StageMap'[e] = "taken"
    BY <1>2, StageAt, StageOfStatus
  <2> QED
    BY <2>1 DEF Moves, Work!Takes
<1> QED
  BY <1>1, <1>2

\* A taken event whose dispatch is over, or that recovery hands back, is where its
\* row says it is.
LEMMA HandedOver ==
    ASSUME NEW e \in Events, rows'[e] \in Row, rows'[e].status # "absent",
           StageMap[e] = "taken"
    PROVE  Moves(e)
<1>1. StageMap'[e] \in {"queued", "taken", "ended"}
  BY StageAt, StageOfStatus DEF Row, Statuses
<1> QED
  BY <1>1 DEF Moves, Work!Requeues, Work!Finishes

\* With one process every step of the queue is a step of WorkItem or a stutter.
LEMMA WorkStep ==
    ASSUME \A p, q \in Procs : p = q, SoloInv, TypeOK', [Next]_vars
    PROVE  [Work!WorkNext]_StageMap
<1>1. \A e \in Events : rows[e] \in Row /\ rows'[e] \in Row
  BY DEF SoloInv, TypeOK, VariablesOK
<1>2. StageMap' \in [Events -> Work!Stages]
  BY <1>1, StageOfStatus DEF StageMap, Work!Stages
<1> SUFFICES ASSUME NEW e \in Events PROVE Moves(e)
  BY <1>2 DEF Moves, StageMap, Work!WorkNext
<1> TypeOK /\ VariablesOK /\ PhasesOK /\ FlightsHoldTheirRows /\ OneFlightPerEvent
  BY DEF SoloInv, TypeOK
<1> USE DEF store
<1>3. InHand(e) => rows[e].status \in {"dispatching", "dead"}
  BY DEF InHand, FlightsHoldTheirRows, RefusalLost
<1>4. InHand(e) \/ rows[e].status = "dispatching" => StageMap[e] = "taken"
  BY <1>1, StageAt, StageOfStatus
<1>5. ASSUME rows'[e].status = rows[e].status, UNCHANGED flights PROVE Moves(e)
  BY <1>1, <1>5, Untouched DEF InHand
<1>6. ASSUME NEW f \in flights, NEW g, Advance(f, g), g.ev = f.ev,
             e # f.ev => rows'[e].status = rows[e].status
      PROVE  Moves(e)
  <2>1. CASE e = f.ev
    <3>1. InHand(e) /\ InHand(e)'
      BY <1>6, <2>1 DEF InHand, Advance
    <3> QED
      BY <3>1, StillInHand
  <2>2. CASE e # f.ev
    <3>1. InHand(e)' <=> InHand(e)
      BY <1>6, <2>2 DEF InHand, Advance
    <3> QED
      BY <1>1, <1>6, <2>2, <3>1, Untouched
  <2> QED
    BY <2>1, <2>2
<1>7. ASSUME NEW f \in flights, flights' = flights \ {f}, rows'[f.ev].status # "absent",
             e # f.ev => rows'[e].status = rows[e].status
      PROVE  Moves(e)
  <2>1. CASE e = f.ev
    <3>1. StageMap[e] = "taken"
      BY <1>4, <2>1 DEF InHand
    <3> QED
      BY <1>1, <1>7, <2>1, <3>1, HandedOver
  <2>2. CASE e # f.ev
    <3>1. InHand(e)' <=> InHand(e)
      BY <1>7, <2>2 DEF InHand
    <3> QED
      BY <1>1, <1>7, <2>2, <3>1, Untouched
  <2> QED
    BY <2>1, <2>2
<1>8. ASSUME NEW d \in Events, WinsClaim(rows[d]), rows' = [rows EXCEPT ![d] = Claimed(@)],
             \A g : g.ev = e /\ e # d => (g \in flights' <=> g \in flights)
      PROVE  Moves(e)
  <2>1. CASE e = d
    <3>1. rows[e].status = "pending" /\ rows'[e].status = "dispatching"
      BY <1>1, <1>8, <2>1, ClaimedType DEF WinsClaim, VariablesOK
    <3> QED
      BY <1>1, <1>3, <3>1, RowTaken
  <2>2. CASE e # d
    <3>1. InHand(e)' <=> InHand(e)
      BY <1>8, <2>2 DEF InHand
    <3>2. rows'[e] = rows[e]
      BY <1>8, <2>2 DEF VariablesOK
    <3> QED
      BY <1>1, <3>1, <3>2, Untouched
  <2> QED
    BY <2>1, <2>2
<1>9. ASSUME NEW p \in Procs, NEW d \in recovery[p], d \in Events,
             rows' = [rows EXCEPT ![d] = Recovered(@)], UNCHANGED flights
      PROVE  Moves(e)
  <2>1. CASE e = d
    <3>1. StageMap[e] = "taken"
      BY <1>4, <2>1 DEF FlightsHoldTheirRows
    <3>2. rows'[e].status # "absent"
      BY <1>1, <1>9, <2>1, RecoveredType DEF VariablesOK
    <3> QED
      BY <1>1, <3>1, <3>2, HandedOver
  <2>2. CASE e # d
    BY <1>5, <1>9, <2>2 DEF VariablesOK
  <2> QED
    BY <2>1, <2>2
<1>10. ASSUME NEW p \in Procs, NEW d \in Events, Enqueue(p, d) PROVE Moves(e)
  <2>1. UNCHANGED flights /\ rows[d].status = "absent"
        /\ rows' = [rows EXCEPT ![d] = [NoRow EXCEPT !.status = "pending"]]
    BY <1>10 DEF Enqueue
  <2>2. CASE e = d
    <3>1. rows'[e].status = "pending" /\ ~InHand(e) /\ ~InHand(e)'
      BY <1>3, <2>1, <2>2 DEF NoRow, InHand, VariablesOK
    <3> QED
      BY <1>1, <2>1, <2>2, <3>1, RowTaken
  <2>3. CASE e # d
    BY <1>5, <2>1, <2>3 DEF VariablesOK
  <2> QED
    BY <2>2, <2>3
<1>11. ASSUME NEW p \in Procs, NEW d \in Events, TryClaim(p, d) PROVE Moves(e)
  <2>1. CASE WinsClaim(rows[d])
    <3>1. \A g \in flights' : g \in flights \/ g.ev = d
      BY <1>11, <2>1 DEF TryClaim
    <3>2. flights \subseteq flights' /\ rows' = [rows EXCEPT ![d] = Claimed(@)]
      BY <1>11, <2>1 DEF TryClaim
    <3> QED
      BY <1>8, <2>1, <3>1, <3>2
  <2>2. CASE ~WinsClaim(rows[d])
    BY <1>5, <1>11, <2>2 DEF TryClaim
  <2> QED
    BY <2>1, <2>2
<1>12. ASSUME NEW p \in Procs, ClaimThrows(p) PROVE Moves(e)
  <2>1. UNCHANGED flights
    BY <1>12 DEF ClaimThrows
  <2>2. CASE UNCHANGED rows
    BY <1>5, <2>1, <2>2
  <2>3. ASSUME NEW d \in scan[p], WinsClaim(rows[d]), rows' = [rows EXCEPT ![d] = Claimed(@)]
        PROVE  Moves(e)
    BY <1>8, <2>1, <2>3 DEF VariablesOK
  <2> QED
    BY <1>12, <2>2, <2>3 DEF ClaimThrows
<1>13. ASSUME NEW f \in flights, LoadTrigger(f) PROVE Moves(e)
  BY <1>6, <1>13, LoadMoves DEF LoadTrigger
<1>14. ASSUME NEW f \in flights, TargetAnswers(f) PROVE Moves(e)
  <2>1. UNCHANGED rows
    BY <1>14 DEF TargetAnswers
  <2>2. f \in Flight
    BY DEF VariablesOK
  <2>3. PICK ph \in Phases, v \in {"none", "delivered", "dead", "retry"} :
             \/ Advance(f, [f EXCEPT !.phase = ph])
             \/ Advance(f, [f EXCEPT !.phase = ph, !.verdict = v])
    BY <1>14 DEF TargetAnswers, Phases
  <2>4. CASE Advance(f, [f EXCEPT !.phase = ph])
    BY <1>6, <2>1, <2>2, <2>4, FlightMoves
  <2>5. CASE Advance(f, [f EXCEPT !.phase = ph, !.verdict = v])
    BY <1>6, <2>1, <2>2, <2>5, FlightMoves
  <2> QED
    BY <2>3, <2>4, <2>5
<1>15. ASSUME NEW f \in flights, JudgeFailure(f) PROVE Moves(e)
  <2>1. \E g : Advance(f, g) /\ g.ev = f.ev
    BY <1>15, FlightMoves DEF JudgeFailure, VariablesOK, Phases
  <2> QED
    BY <1>6, <1>15, <2>1 DEF JudgeFailure
<1>16. ASSUME NEW f \in flights, RefusalThrows(f) PROVE Moves(e)
  <2>1. e # f.ev => rows'[e] = rows[e]
    BY <1>16, RefusalThrowsRows DEF VariablesOK
  <2> QED
    BY <1>6, <1>16, <2>1, RefusalThrowsRows
<1>17. ASSUME NEW f \in flights, Settle(f) PROVE Moves(e)
  <2>1. f.ev \in Events /\ f.verdict \in {"delivered", "dead", "retry"}
    BY <1>17 DEF Settle, VariablesOK, PhasesOK, Flight
  <2>2. rows'[f.ev].status # "absent"
    BY <1>1, <1>17, <2>1, SettledType DEF Settle, VariablesOK
  <2>3. e # f.ev => rows'[e].status = rows[e].status
    BY <1>17 DEF Settle, VariablesOK
  <2> QED
    BY <1>7, <1>17, <2>2, <2>3 DEF Settle
<1>18. ASSUME NEW f \in flights, DispatchThrows(f) PROVE Moves(e)
  <2>1. rows[f.ev].status # "absent"
    BY DEF FlightsHoldTheirRows, RefusalLost
  <2> QED
    BY <1>7, <1>18, <2>1 DEF DispatchThrows
<1>19. ASSUME NEW p \in Procs, NEW d \in Events, RecoverRow(p, d) PROVE Moves(e)
  BY <1>9, <1>19 DEF RecoverRow
<1>20. ASSUME NEW p \in Procs, RecoverThrows(p) PROVE Moves(e)
  BY <1>5, <1>9, <1>20, RecoverThrowsRows DEF RecoverThrows
<1>21. ASSUME NEW p \in Procs, Exit(p) PROVE Moves(e)
  <2>1. UNCHANGED rows /\ flights' \subseteq flights
    BY <1>21 DEF Exit
  <2>2. CASE InHand(e)
    <3>1. StageMap[e] = "taken" /\ rows'[e].status # "absent"
      BY <1>3, <1>4, <2>1, <2>2
    <3> QED
      BY <1>1, <3>1, HandedOver
  <2>3. CASE ~InHand(e)
    <3>1. ~InHand(e)'
      BY <2>1, <2>3 DEF InHand
    <3> QED
      BY <1>1, <2>1, <2>3, <3>1, Untouched
  <2> QED
    BY <2>2, <2>3
<1>22. ASSUME NEW d \in Events, BackoffElapses(d) PROVE Moves(e)
  BY <1>1, <1>5, <1>22 DEF BackoffElapses, VariablesOK, Row
<1>23. ASSUME NEW d \in Events, RowAges(d) PROVE Moves(e)
  BY <1>1, <1>5, <1>23 DEF RowAges, VariablesOK, Row
<1>24. ASSUME NEW p \in Procs,
              \/ Wake(p) \/ SafetyNet(p) \/ ClaimFind(p) \/ Boot(p) \/ RecoverFind(p)
              \/ Open(p) \/ Stop(p) \/ StopReturns(p)
       PROVE  UNCHANGED <<rows, flights>>
  BY <1>24 DEF Wake, SafetyNet, ClaimFind, Boot, RecoverFind, Open, Stop, StopReturns
<1>25. ASSUME NEW d \in Events, DeleteTrigger(d) PROVE UNCHANGED <<rows, flights>>
  BY <1>25 DEF DeleteTrigger
<1>26. CASE UNCHANGED vars
  BY <1>5, <1>26 DEF vars
<1> QED
  BY <1>5, <1>10, <1>11, <1>12, <1>13, <1>14, <1>15, <1>16, <1>17, <1>18, <1>19, <1>20,
     <1>21, <1>22, <1>23, <1>24, <1>25, <1>26
     DEF Next, ProcStep, FlightStep, Shutdown, Crash

\* With one process the queue implements WorkItem: an event is taken before it is
\* delivered, handed back only by the dispatch that holds it or by recovery, and
\* once it has ended and its dispatch is over it never becomes work again.
THEOREM QueueImplementsWorkItem ==
    ASSUME \A p, q \in Procs : p = q
    PROVE  Spec => ImplementsWorkItem
<1>1. Init => SoloInv
  BY TypeInit DEF Init, SoloInv, RefusedUnbound, FlightsHoldTheirRows, OneFlightPerEvent
<1>2. SoloInv /\ [Next]_vars => SoloInv'
  BY SoloNext
<1>3. Init => Work!WorkInit
  <2>1. Stage(NoRow) = "absent"
    BY DEF Stage, NoRow, Ended
  <2>2. Init => \A e \in Events : ~InHand(e)
    BY DEF Init, InHand
  <2> QED
    BY <2>1, <2>2 DEF Init, Work!WorkInit
<1>4. SoloInv /\ SoloInv' /\ [Next]_vars => [Work!WorkNext]_StageMap
  BY WorkStep DEF SoloInv
<1> QED
  BY <1>1, <1>2, <1>3, <1>4, PTL DEF Spec, ImplementsWorkItem, Work!WorkSpec, StageMap
=============================================================================

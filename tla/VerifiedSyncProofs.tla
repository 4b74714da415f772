-------------------------- MODULE VerifiedSyncProofs ---------------------------
(***************************************************************************)
(* The completeness argument of verified-sync.ts, for any number of        *)
(* processes and items, any lag the skew covers, any margin and any cap.   *)
(***************************************************************************)
EXTENDS VerifiedSync, TLAPS

\* What the lag of the source means to a ceiling held back by the skew.
Published == \A i \in Items : date[i] + Lag < now => i \in visible

\* A ceiling is behind the clock.
CeilingHeld == \A p \in Procs : until[p] + Skew <= now

\* What a run has swept has landed, or is still to land.
SweptIsLanded == \A p \in Procs : swept[p] \subseteq landed \cup todo[p]

\* During the first walk: nothing is missing below the floor, and what lies
\* between the floor and the ceiling is in the window.
WindowCovers ==
    \A p \in Procs, i \in Items :
       /\ phase[p] = "walk1" /\ date[i] < since[p] => i \in landed \/ trusted = "yes"
       /\ phase[p] = "walk1" /\ since[p] <= date[i] /\ date[i] < until[p] => i \in sight[p]

\* After it, and if it reached the end: nothing is missing below the ceiling.
EndCovers ==
    \A p \in Procs, i \in Items :
       phase[p] \in {"land1", "walk2", "land2"} /\ proof[p] = "end" /\ date[i] < until[p]
          => i \in landed \cup swept[p] \/ trusted = "yes"

Covered == CeilingHeld /\ SweptIsLanded /\ WindowCovers /\ EndCovers

SyncInv == TypeOK /\ SeenIsLanded /\ NoSilentMiss /\ Published /\ Covered

-----------------------------------------------------------------------------
\* A run that is over holds nothing that any part of the invariant is about.
LEMMA ForgetKeeps ==
    ASSUME SyncInv, NEW p \in Procs, Forget(p),
           now' = now, date' = date, visible' = visible,
           landed' = landed, trusted = "yes" => trusted' = "yes"
    PROVE  Covered' /\ Published' /\ (\A q \in Procs : known'[q] \subseteq landed')
<1> USE SyncAssumption DEF SyncInv, TypeOK, VariablesOK, Forget
<1>1. CeilingHeld'
  BY DEF Covered, CeilingHeld, Null
<1>2. SweptIsLanded'
  BY DEF Covered, SweptIsLanded
<1>3. WindowCovers'
  BY DEF Covered, WindowCovers
<1>4. EndCovers'
  BY DEF Covered, EndCovers
<1>5. Published' /\ (\A q \in Procs : known'[q] \subseteq landed')
  BY DEF Published, SeenIsLanded
<1>6. QED
  BY <1>1, <1>2, <1>3, <1>4, <1>5 DEF Covered

-----------------------------------------------------------------------------
\* Every variable of the sync always holds a value the program could hold, and
\* no run lands again what the row it read accounts for.
LEMMA TypeInit == Init => TypeOK
  BY SyncAssumption DEF Init, TypeOK, VariablesOK, Null, Phases

LEMMA TypeStep ==
    ASSUME TypeOK, [Next]_vars
    PROVE  TypeOK'
<1> USE SyncAssumption DEF TypeOK, VariablesOK, Phases, row, world, held
<1>1. CASE UNCHANGED vars
  BY <1>1 DEF vars
<1>2. ASSUME NEW i \in Items, Publish(i) PROVE TypeOK'
  BY <1>2 DEF Publish
<1>3. CASE ClockTicks
  BY <1>3 DEF ClockTicks
<1>4. ASSUME NEW p \in Procs, Start(p) PROVE TypeOK'
  BY <1>4 DEF Start, Goes, Ceiling
<1>5. ASSUME NEW p \in Procs, Read(p) PROVE TypeOK'
  BY <1>5 DEF Read, Goes, Sight
<1>6. ASSUME NEW p \in Procs, FirstWalk(p) PROVE TypeOK'
  BY <1>6 DEF FirstWalk, Goes, Sweeps, NewItems
<1>7. ASSUME NEW p \in Procs, WalkAgain(p) PROVE TypeOK'
  BY <1>7 DEF WalkAgain, Goes, Sight, Null
<1>8. ASSUME NEW p \in Procs, SecondWalk(p) PROVE TypeOK'
  BY <1>8 DEF SecondWalk, Goes, Sweeps, NewItems
<1>9. ASSUME NEW p \in Procs, NEW i \in Items, Land(p, i) PROVE TypeOK'
  BY <1>9 DEF Land
<1>10. ASSUME NEW p \in Procs, Advance(p) PROVE TypeOK'
  BY <1>10 DEF Advance, Forget, Forward, Pruned, Recent, NewSeen, Null
<1>11. ASSUME NEW p \in Procs, Absorb(p) PROVE TypeOK'
  BY <1>11 DEF Absorb, Forget, Pruned, Recent, NewSeen, Null
<1>12. ASSUME NEW p \in Procs, WalkFails(p) PROVE TypeOK'
  BY <1>12 DEF WalkFails, Forget, Null
<1>13. ASSUME NEW p \in Procs, RunDies(p) PROVE TypeOK'
  BY <1>13 DEF RunDies, Forget, Null
<1>14. QED
  BY <1>1, <1>2, <1>3, <1>4, <1>5, <1>6, <1>7, <1>8, <1>9, <1>10, <1>11, <1>12, <1>13
     DEF Next, RunStep

-----------------------------------------------------------------------------
LEMMA InvInit == Init => SyncInv
<1> SUFFICES ASSUME Init PROVE SyncInv
  OBVIOUS
<1> USE SyncAssumption DEF Init, Null
<1>1. TypeOK /\ SeenIsLanded
  BY TypeInit DEF SeenIsLanded
<1>2. NoSilentMiss /\ Published /\ CeilingHeld
  BY DEF NoSilentMiss, Published, CeilingHeld
<1>3. SweptIsLanded /\ WindowCovers /\ EndCovers
  BY DEF SweptIsLanded, WindowCovers, EndCovers
<1>4. QED
  BY <1>1, <1>2, <1>3 DEF SyncInv, Covered

\* The source: what is dated before a ceiling's reach has been published.
LEMMA SourceKeeps ==
    ASSUME SyncInv, TypeOK', ClockTicks \/ \E i \in Items : Publish(i)
    PROVE  SyncInv'
<1> USE SyncAssumption DEF SyncInv, Covered, TypeOK, VariablesOK, row, held
<1>1. CASE ClockTicks
  <2> USE <1>1 DEF ClockTicks
  <2>1. SeenIsLanded' /\ NoSilentMiss'
    BY DEF SeenIsLanded, NoSilentMiss
  <2>2. Published'
    BY DEF Published
  <2>3. CeilingHeld'
    BY DEF CeilingHeld
  <2>4. SweptIsLanded' /\ WindowCovers' /\ EndCovers'
    BY DEF SweptIsLanded, WindowCovers, EndCovers
  <2>5. QED
    BY <2>1, <2>2, <2>3, <2>4
<1>2. ASSUME NEW i \in Items, Publish(i) PROVE SyncInv'
  <2> USE <1>2 DEF Publish
  <2>1. SeenIsLanded' /\ NoSilentMiss'
    BY DEF SeenIsLanded, NoSilentMiss
  <2>2. Published' /\ CeilingHeld'
    BY DEF Published, CeilingHeld
  <2>3. SweptIsLanded' /\ WindowCovers' /\ EndCovers'
    BY DEF SweptIsLanded, WindowCovers, EndCovers
  <2>4. QED
    BY <2>1, <2>2, <2>3
<1>3. QED
  BY <1>1, <1>2

\* The beginning of a run: the ceiling is behind the clock, so what lies below it
\* is visible by the time the row is read.
LEMMA BeginningKeeps ==
    ASSUME SyncInv, TypeOK', NEW p \in Procs, Start(p) \/ Read(p)
    PROVE  SyncInv'
<1> USE SyncAssumption DEF SyncInv, Covered, TypeOK, VariablesOK, Phases, row, world, Goes
<1>1. CASE Start(p)
  <2> USE <1>1 DEF Start, Ceiling
  <2>1. SeenIsLanded' /\ NoSilentMiss' /\ Published'
    BY DEF SeenIsLanded, NoSilentMiss, Published
  <2>2. CeilingHeld'
    BY DEF CeilingHeld
  <2>3. SweptIsLanded'
    BY DEF SweptIsLanded
  <2>4. WindowCovers' /\ EndCovers'
    BY DEF WindowCovers, EndCovers
  <2>5. QED
    BY <2>1, <2>2, <2>3, <2>4
<1>2. CASE Read(p)
  <2> USE <1>2 DEF Read
  <2>1. SeenIsLanded' /\ NoSilentMiss' /\ Published'
    BY DEF SeenIsLanded, NoSilentMiss, Published
  <2>2. CeilingHeld' /\ SweptIsLanded'
    BY DEF CeilingHeld, SweptIsLanded
  <2>3. \A i \in Items : date[i] < until[p] => i \in visible
    <3>1. until[p] \in Int /\ until[p] + Skew <= now
      BY DEF CeilingHeld
    <3>2. QED
      BY <3>1 DEF Published
  <2>4. WindowCovers'
    BY <2>3 DEF WindowCovers, NoSilentMiss, Sight
  <2>5. EndCovers'
    BY DEF EndCovers
  <2>6. QED
    BY <2>1, <2>2, <2>4, <2>5
<1>3. QED
  BY <1>1, <1>2

\* The two walks: what the first one leaves uncovered it has not proved.
LEMMA WalkKeeps ==
    ASSUME SyncInv, TypeOK', NEW p \in Procs, FirstWalk(p) \/ WalkAgain(p) \/ SecondWalk(p)
    PROVE  SyncInv'
<1> USE SyncAssumption DEF SyncInv, Covered, TypeOK, VariablesOK, Phases, row, world, Goes
<1>1. CASE FirstWalk(p)
  <2>1. SeenIsLanded' /\ NoSilentMiss' /\ Published' /\ CeilingHeld'
    BY <1>1 DEF FirstWalk, Sweeps, SeenIsLanded, NoSilentMiss, Published, CeilingHeld
  <2>2. SweptIsLanded'
    BY <1>1 DEF FirstWalk, Sweeps, NewItems, SweptIsLanded, SeenIsLanded
  <2>3. WindowCovers'
    BY <1>1 DEF FirstWalk, Sweeps, WindowCovers
  <2>4. EndCovers'
    BY <1>1 DEF FirstWalk, Sweeps, Proves, Answers, WindowCovers, EndCovers
  <2>5. QED
    BY <1>1, <2>1, <2>2, <2>3, <2>4
<1>2. CASE WalkAgain(p)
  <2>1. SeenIsLanded' /\ NoSilentMiss' /\ Published' /\ CeilingHeld'
    BY <1>2 DEF WalkAgain, SeenIsLanded, NoSilentMiss, Published, CeilingHeld
  <2>2. SweptIsLanded' /\ EndCovers'
    BY <1>2 DEF WalkAgain, SweptIsLanded, EndCovers
  <2>3. WindowCovers'
    BY <1>2 DEF WalkAgain, WindowCovers
  <2>4. QED
    BY <2>1, <2>2, <2>3
<1>3. CASE SecondWalk(p)
  <2>1. SeenIsLanded' /\ NoSilentMiss' /\ Published' /\ CeilingHeld'
    BY <1>3 DEF SecondWalk, Sweeps, SeenIsLanded, NoSilentMiss, Published, CeilingHeld
  <2>2. SweptIsLanded'
    BY <1>3 DEF SecondWalk, Sweeps, NewItems, SweptIsLanded, SeenIsLanded
  <2>3. WindowCovers'
    BY <1>3 DEF SecondWalk, Sweeps, WindowCovers
  <2>4. EndCovers'
    BY <1>3 DEF SecondWalk, Sweeps, EndCovers
  <2>5. QED
    BY <2>1, <2>2, <2>3, <2>4
<1>4. QED
  BY <1>1, <1>2, <1>3

LEMMA LandKeeps ==
    ASSUME SyncInv, TypeOK', NEW p \in Procs, NEW i \in Items, Land(p, i)
    PROVE  SyncInv'
<1> USE DEF SyncInv, Covered, TypeOK, VariablesOK, row, world, Land
<1>1. SeenIsLanded' /\ NoSilentMiss' /\ Published' /\ CeilingHeld'
  BY DEF SeenIsLanded, NoSilentMiss, Published, CeilingHeld
<1>2. SweptIsLanded'
  BY DEF SweptIsLanded
<1>3. WindowCovers' /\ EndCovers'
  BY DEF WindowCovers, EndCovers
<1>4. QED
  BY <1>1, <1>2, <1>3

\* What a run absorbs has landed.
LEMMA AbsorbsLanded ==
    ASSUME SyncInv, NEW p \in Procs, todo[p] = {}, NEW w \in Int,
           seen' \in Pruned(seen \cup NewSeen(p), w)
    PROVE  seen' \subseteq landed
<1>1. seen \cup NewSeen(p) \subseteq landed
  BY DEF SyncInv, Covered, SweptIsLanded, SeenIsLanded, NewSeen
<1>2. QED
  BY <1>1 DEF Pruned, Recent

\* The watermark moves only behind what a run has covered, or on a count's word.
LEMMA AdvanceKeeps ==
    ASSUME SyncInv, TypeOK', NEW p \in Procs, Advance(p)
    PROVE  SyncInv'
<1> USE SyncAssumption DEF SyncInv, Covered, TypeOK, VariablesOK, Phases, world
<1>1. trusted = "yes" => trusted' = "yes"
  BY DEF Advance
<1>2. Covered' /\ Published' /\ (\A q \in Procs : known'[q] \subseteq landed')
  BY <1>1, ForgetKeeps DEF Advance
<1>3. SeenIsLanded'
  <2>1. watermark' \in Int
    OBVIOUS
  <2>2. seen' \subseteq landed
    BY <2>1, AbsorbsLanded DEF Advance
  <2>3. QED
    BY <1>2, <2>2 DEF Advance, SeenIsLanded
<1>4. swept[p] \subseteq landed
  BY DEF Advance, SweptIsLanded
<1>5. ASSUME NEW i \in Items, date[i] < until[p] PROVE i \in landed \/ trusted' = "yes"
  <2>1. CASE proof[p] = "count"
    BY <2>1 DEF Advance
  <2>2. CASE proof[p] = "end"
    BY <1>1, <1>4, <1>5, <2>2 DEF Advance, EndCovers
  <2>3. QED
    BY <2>1, <2>2 DEF Advance
<1>6. NoSilentMiss'
  <2>1. watermark' \in {watermark, until[p]} /\ landed' = landed /\ date' = date
    BY DEF Advance, Forward
  <2>2. QED
    BY <1>1, <1>5, <2>1 DEF NoSilentMiss
<1>7. QED
  BY <1>2, <1>3, <1>6

\* The ends of a run.
LEMMA EndKeeps ==
    ASSUME SyncInv, TypeOK', NEW p \in Procs,
           Absorb(p) \/ WalkFails(p) \/ RunDies(p)
    PROVE  SyncInv'
<1> USE DEF row, world
<1>1. Covered' /\ Published' /\ (\A q \in Procs : known'[q] \subseteq landed')
  BY ForgetKeeps DEF Absorb, WalkFails, RunDies
<1>2. landed' = landed /\ date' = date /\ trusted' = trusted /\ watermark' = watermark
  BY DEF Absorb, WalkFails, RunDies
<1>3. NoSilentMiss'
  BY <1>2 DEF SyncInv, NoSilentMiss
<1>4. seen' \subseteq landed'
  <2>1. CASE Absorb(p)
    <3>1. watermark \in Int
      BY DEF SyncInv, TypeOK, VariablesOK
    <3>2. QED
      BY <1>2, <2>1, <3>1, AbsorbsLanded DEF Absorb
  <2>2. CASE WalkFails(p) \/ RunDies(p)
    BY <1>2, <2>2 DEF WalkFails, RunDies, SyncInv, SeenIsLanded
  <2>3. QED
    BY <2>1, <2>2
<1>5. QED
  BY <1>1, <1>3, <1>4 DEF SyncInv, SeenIsLanded

LEMMA StutterKeeps ==
    ASSUME SyncInv, UNCHANGED vars
    PROVE  SyncInv'
  BY DEF SyncInv, Covered, TypeOK, VariablesOK, SeenIsLanded, NoSilentMiss, Published, CeilingHeld,
         SweptIsLanded, WindowCovers, EndCovers, vars, row, world, held

-----------------------------------------------------------------------------
LEMMA InvStep ==
    ASSUME SyncInv, [Next]_vars
    PROVE  SyncInv'
<1>1. TypeOK'
  BY TypeStep DEF SyncInv
<1>2. QED
  BY <1>1, SourceKeeps, BeginningKeeps, WalkKeeps, LandKeeps, AdvanceKeeps, EndKeeps, StutterKeeps
     DEF Next, RunStep

\* Every variable of the sync always holds a value the program could hold, and
\* no run lands again what the row it read accounts for (sync-state.ts, the
\* seen-set).
THEOREM TypeCorrect == Spec => []TypeOK
<1>1. QED
  BY TypeInit, TypeStep, PTL DEF Spec

\* Deduplication never skips an item that has not landed: whatever runs overlap,
\* fail or die, the seen-set names landed items only (verified-sync.ts:16-21).
THEOREM SeenSetSound == Spec => []SeenIsLanded
<1>1. SyncInv => SeenIsLanded
  BY DEF SyncInv
<1>2. QED
  BY <1>1, InvInit, InvStep, PTL DEF Spec

\* No item is both behind the watermark and unlanded, unless a run was ever
\* proved complete by its count alone (verified-sync.ts:23-31): for any number
\* of overlapping processes, and any skew that covers the source's lag.
THEOREM NothingMissed == Spec => []NoSilentMiss
<1>1. SyncInv => NoSilentMiss
  BY DEF SyncInv
<1>2. QED
  BY <1>1, InvInit, InvStep, PTL DEF Spec

=============================================================================

----------------------------- MODULE BuildsProofs ------------------------------
(***************************************************************************)
(* The safety of Builds for any set of jobs and any number of faults: one  *)
(* invariant about each job by itself, one about the reservation, and one  *)
(* about the two checks of the follow-ups.                                 *)
(***************************************************************************)
EXTENDS Builds, TLAPS

\* The entry, the stream and the row of a job go by where its handler or its
\* pipeline is; a job that is over and whose row does not say what its stream was
\* told has had its terminal write throw or be cut off, and a swept one is over.
ConsistentAt(j) ==
    /\ Building(j) => run[j] = "live"
    /\ run[j] = "live" => told[j] = {} /\ row[j] \notin Terminal
    /\ step[j] \in {"idle", "check", "classify"} => told[j] = {} /\ row[j] = "absent"
    /\ step[j] = "fail" => told[j] = {"error"}
    /\ step[j] = "complete" => told[j] = {"complete"}
    /\ step[j] = "cancel" => told[j] = {}
    /\ row[j] \in Terminal => step[j] \in {"finish", "over"}
    /\ told[j] # {} /\ row[j] \in Open /\ step[j] \in {"finish", "over"} => j \in unsaved
    /\ j \in swept => step[j] = "over" /\ row[j] = "failed"
    /\ up = "no" => run[j] = "none" /\ step[j] \in {"idle", "over"}

Consistent == \A j \in Jobs : ConsistentAt(j)

\* An aborted job does not get past the agent, unless a user's cancel came after
\* it; and only a user's cancel leads to the silent end.
Obedient ==
    \A j \in Jobs :
       /\ step[j] \in {"wrap", "complete"} \/ row[j] = "completed"
             => j \notin (timedOut \cup cancelled) \ late
       /\ step[j] = "cancel" \/ row[j] = "cancelled" => j \in cancelled

\* A first build under way holds the reservation, unless that has expired; only a
\* follow-up is checked and classified.
Reserved ==
    \A j \in Jobs : kind[j] = "first" =>
       /\ Building(j) => holder = j \/ j \in expired
       /\ step[j] \notin {"check", "classify"}

\* A follow-up between its checks has seen every other one that is under way
\* register behind it.
CheckedBehind ==
    \A j, k \in FollowUps : j # k /\ step[j] = "check" /\ Building(k) => j \in stale

JobInv == TypeOK /\ Consistent /\ ToldIsStored

-----------------------------------------------------------------------------
LEMMA JobInit == Init => JobInv
  BY BuildsAssumption DEF Init, JobInv, TypeOK, VariablesOK, Consistent, ConsistentAt, ToldIsStored, Steps, Open,
                          Terminal, Building, InPipeline

\* The steps of one job that take the terminal transition: its entry is live.
LEMMA FinishesKeeps ==
    ASSUME JobInv, NEW j \in Jobs, NEW from \in {"start", "prepare", "agent", "wrap"},
           NEW frames \in SUBSET {"complete", "error"}, NEW write \in Writing,
           write = "fail" => frames = {"error"},
           write = "complete" => frames = {"complete"},
           write = "cancel" => frames = {},
           Finishes(j, from, frames, write),
           row' \in {row, [row EXCEPT ![j] = "running"]},
           UNCHANGED <<up, kind, holder, flags, waits, unsaved, swept>>,
           faults' \in Nat, hurt \subseteq hurt', hurt' \subseteq Jobs
    PROVE  JobInv'
<1> USE DEF JobInv, VariablesOK, Steps, Open, Terminal, Writing, flags, waits
<1>1. step[j] = from /\ up = "yes" /\ run[j] = "live" /\ told[j] = {} /\ j \notin swept
  <2>1. step[j] = from /\ up = "yes"
    BY DEF Finishes, Goes
  <2>2. QED
    BY <2>1 DEF TypeOK, InPipeline, Building, Consistent, ConsistentAt
<1>2. /\ told' = [told EXCEPT ![j] = frames]
      /\ step' = [step EXCEPT ![j] = write]
      /\ run' = [run EXCEPT ![j] = "final"]
  <2>1. told[j] \cup frames = frames
    BY <1>1
  <2>2. QED
    BY <1>1, <2>1 DEF Finishes, FinalizeOnce, Goes
<1>3. VariablesOK'
  BY <1>2 DEF TypeOK
<1>4. TypeOK'
  BY <1>2, <1>3 DEF TypeOK, InPipeline, Building
<1>5. row[j] \notin Terminal /\ row'[j] \notin Terminal
  BY <1>1 DEF TypeOK, Consistent, ConsistentAt
<1>6. ASSUME NEW k \in Jobs, k # j
      PROVE  /\ step'[k] = step[k] /\ run'[k] = run[k] /\ told'[k] = told[k] /\ row'[k] = row[k]
  BY <1>2, <1>6 DEF TypeOK
<1>7. step'[j] = write /\ run'[j] = "final" /\ told'[j] = frames
  BY <1>2 DEF TypeOK
<1>8. Consistent'
  <2> SUFFICES ASSUME NEW k \in Jobs PROVE ConsistentAt(k)'
    BY DEF Consistent
  <2>1. CASE k = j
    BY <1>1, <1>5, <1>7, <2>1 DEF ConsistentAt, Building
  <2>2. CASE k # j
    BY <1>6, <2>2 DEF Consistent, ConsistentAt, Building
  <2>3. QED
    BY <2>1, <2>2
<1>9. ToldIsStored'
  <2> SUFFICES ASSUME NEW k \in Jobs
               PROVE  /\ told'[k] # {"complete", "error"}
                      /\ row'[k] \in Terminal /\ k \notin swept' => told'[k] = Announced(row'[k])
                      /\ k \in swept' /\ told'[k] # {} => k \in unsaved'
                      /\ row'[k] \in Open /\ step'[k] \in {"finish", "over"}
                            => up' = "no" \/ k \in hurt'
    BY DEF ToldIsStored
  <2>1. CASE k = j
    BY <1>1, <1>5, <1>7, <2>1
  <2>2. CASE k # j
    BY <1>6, <2>2 DEF ToldIsStored
  <2>3. QED
    BY <2>1, <2>2
<1>10. QED
  BY <1>4, <1>8, <1>9

LEMMA PostKeeps ==
    ASSUME JobInv, NEW j \in Jobs,
           \/ PostFirst(j) \/ PostFollowUp(j) \/ FollowUpChecked(j) \/ Answered(j)
           \/ Modification(j) \/ Persisted(j) \/ PersistThrows(j)
    PROVE  JobInv'
<1> USE BuildsAssumption DEF JobInv, VariablesOK, Steps, Open, Terminal, flags, ghosts, waits, outcomes,
        Goes, Registers, Unregisters, Fault
<1>1. TypeOK'
  BY DEF TypeOK, InPipeline, Building, Consistent, ConsistentAt,
         PostFirst, PostFollowUp, FollowUpChecked, Answered, Modification, Persisted, PersistThrows
<1>2. Consistent' /\ ToldIsStored'
  BY DEF TypeOK, Building, Consistent, ConsistentAt, ToldIsStored,
         PostFirst, PostFollowUp, FollowUpChecked, Answered, Modification, Persisted, PersistThrows
<1>3. QED
  BY <1>1, <1>2

\* The two outcomes of the preparation.
PreparedAborted(j) == Prepared(j) /\ Aborted(j)
PreparedWell(j)    == Prepared(j) /\ ~Aborted(j)

\* The ways to a terminal transition: an error from anywhere, a completion from
\* the wrap, an abort.
LEMMA EndingKeeps ==
    ASSUME JobInv, NEW j \in Jobs,
           \/ StartThrows(j) \/ PreparationFails(j) \/ PreparedAborted(j)
           \/ AgentFails(j) \/ AgentAborts(j) \/ Completes(j) \/ WrapFails(j)
    PROVE  JobInv'
<1> USE DEF flags, ghosts, waits, outcomes
<1>1. faults' \in Nat /\ hurt \subseteq hurt' /\ hurt' \subseteq Jobs
  BY DEF JobInv, TypeOK, VariablesOK, Fault, StartThrows, PreparationFails, PreparedAborted, Prepared, AgentFails,
         AgentAborts, Completes, WrapFails
<1>2. /\ UNCHANGED <<up, kind, holder, flags, waits, unsaved, swept>>
      /\ row' \in {row, [row EXCEPT ![j] = "running"]}
  BY DEF Fault, StartThrows, PreparationFails, PreparedAborted, Prepared, AgentFails, AgentAborts,
         Completes, WrapFails
<1>3. ASSUME NEW from \in {"start", "prepare", "agent", "wrap"},
             FinishError(j, from)
      PROVE  JobInv'
  BY <1>1, <1>2, <1>3, FinishesKeeps DEF FinishError, Writing
<1>4. ASSUME NEW from \in {"prepare", "agent"}, SettleAborted(j, from)
      PROVE  JobInv'
  <2>1. CASE j \in timedOut \ cancelled
    BY <1>3, <1>4, <2>1 DEF SettleAborted
  <2>2. CASE j \notin timedOut \ cancelled
    BY <1>1, <1>2, <1>4, <2>2, FinishesKeeps DEF SettleAborted, Writing
  <2>3. QED
    BY <2>1, <2>2
<1>5. CASE Completes(j)
  BY <1>1, <1>2, <1>5, FinishesKeeps DEF Completes, Writing
<1>6. CASE PreparedAborted(j)
  BY <1>4, <1>6 DEF PreparedAborted, Prepared
<1>7. CASE AgentAborts(j)
  BY <1>4, <1>7 DEF AgentAborts
<1>8. CASE StartThrows(j) \/ PreparationFails(j) \/ AgentFails(j) \/ WrapFails(j)
  BY <1>3, <1>8 DEF StartThrows, PreparationFails, AgentFails, WrapFails
<1>9. QED
  BY <1>5, <1>6, <1>7, <1>8

LEMMA PipelineKeeps ==
    ASSUME JobInv, NEW j \in Jobs,
           \/ Starts(j) \/ PreparedWell(j) \/ AgentReturns(j) \/ Finish(j)
           \/ TimesOut(j) \/ Cancel(j) \/ ReservationExpires(j)
    PROVE  JobInv'
<1> USE BuildsAssumption DEF JobInv, VariablesOK, Steps, Open, Terminal, flags, ghosts, waits, outcomes,
        Goes, Unregisters, Released
<1>1. CASE Starts(j) \/ PreparedWell(j) \/ AgentReturns(j) \/ Finish(j)
  <2>1. TypeOK'
    BY <1>1 DEF TypeOK, InPipeline, Building, Starts, PreparedWell, Prepared, AgentReturns, Finish
  <2>2. Consistent' /\ ToldIsStored'
    BY <1>1 DEF TypeOK, Building, Consistent, ConsistentAt, ToldIsStored,
                Starts, PreparedWell, Prepared, AgentReturns, Finish
  <2>3. QED
    BY <2>1, <2>2
<1>2. CASE TimesOut(j) \/ Cancel(j) \/ ReservationExpires(j)
  <2>1. TypeOK'
    BY <1>2 DEF TypeOK, InPipeline, Building, TimesOut, Cancel, ReservationExpires
  <2>2. Consistent' /\ ToldIsStored'
    BY <1>2 DEF Building, Consistent, ConsistentAt, ToldIsStored, TimesOut, Cancel, ReservationExpires
  <2>3. QED
    BY <2>1, <2>2
<1>3. QED
  BY <1>1, <1>2

\* A terminal write, and one that throws.
LEMMA WritesKeeps ==
    ASSUME JobInv, NEW j \in Jobs, NEW s \in Writing, Writes(j, s)
    PROVE  JobInv'
<1> USE DEF JobInv, VariablesOK, Steps, Open, Terminal, Writing, flags, ghosts, waits, outcomes, Goes
<1>1. TypeOK'
  BY DEF TypeOK, InPipeline, Building, Writes, Written
<1>2. Consistent' /\ ToldIsStored'
  BY DEF TypeOK, Building, InPipeline, Consistent, ConsistentAt, ToldIsStored, Announced, Writes, Written
<1>3. QED
  BY <1>1, <1>2

LEMMA WriteThrowsKeeps ==
    ASSUME JobInv, NEW j \in Jobs, NEW s \in Writing, WriteThrows(j, s)
    PROVE  JobInv'
<1> USE DEF JobInv, VariablesOK, Steps, Open, Terminal, Writing, flags, waits
<1>1. step[j] = s /\ up = "yes" /\ run[j] = "final"
  BY DEF TypeOK, InPipeline, Building, WriteThrows, FinishError, Finishes, Goes
<1>2. /\ step' = [step EXCEPT ![j] = "finish"]
      /\ row' \in {row, [row EXCEPT ![j] = Written(s)]}
      /\ hurt' = hurt \cup {j} /\ unsaved' = unsaved \cup {j} /\ faults' = faults + 1
      /\ UNCHANGED <<up, kind, run, told, holder, flags, waits, swept>>
  BY <1>1 DEF WriteThrows, FinishError, Finishes, FinalizeOnce, Goes, Fault
<1>3. TypeOK'
  BY <1>1, <1>2 DEF TypeOK, InPipeline, Building, Written
<1>4. Consistent' /\ ToldIsStored'
  BY <1>1, <1>2 DEF TypeOK, Building, Consistent, ConsistentAt, ToldIsStored, Announced, Written
<1>5. QED
  BY <1>3, <1>4

LEMMA ProcessKeeps ==
    ASSUME JobInv, Crash \/ Boot \/ UNCHANGED vars
    PROVE  JobInv'
<1> USE DEF JobInv, VariablesOK, Steps, Open, Terminal, Writing, flags, ghosts, waits, outcomes
<1>1. TypeOK'
  BY BuildsAssumption DEF TypeOK, InPipeline, Building, Crash, Boot, Swept, vars
<1>2. CASE Crash
  BY <1>1, <1>2 DEF TypeOK, Building, Consistent, ConsistentAt, ToldIsStored, Crash
<1>3. CASE Boot
  <2>1. \A j \in Jobs : /\ row'[j] \notin Open
                        /\ row[j] \in Open => row'[j] = "failed" /\ j \in swept'
                        /\ row[j] \notin Open => row'[j] = row[j]
                        /\ row[j] \notin Open => (j \in swept' <=> j \in swept)
    BY <1>3 DEF TypeOK, Boot, Swept
  <2>2. up = "no" /\ up' = "yes" /\ UNCHANGED <<step, run, told, unsaved>>
    BY <1>3 DEF Boot
  <2>3. \A j \in Jobs : run[j] = "none" /\ step[j] \in {"idle", "over"}
    BY <2>2 DEF Consistent, ConsistentAt
  <2>4. \A j \in Jobs : row[j] \in {"absent"} \cup Open \cup Terminal
    BY DEF TypeOK
  <2>5. Consistent'
    BY <2>1, <2>2, <2>3, <2>4 DEF Building, Consistent, ConsistentAt
  <2>6. ToldIsStored'
    <3> SUFFICES ASSUME NEW j \in Jobs
                 PROVE  /\ told[j] # {"complete", "error"}
                        /\ row'[j] \in Terminal /\ j \notin swept' => told[j] = Announced(row'[j])
                        /\ j \in swept' /\ told[j] # {} => j \in unsaved
      BY <2>1, <2>2 DEF ToldIsStored
    <3>1. CASE row[j] \in Open
      BY <2>1, <2>3, <3>1 DEF ToldIsStored, Consistent, ConsistentAt
    <3>2. CASE row[j] \notin Open
      BY <2>1, <3>2 DEF ToldIsStored
    <3>3. QED
      BY <3>1, <3>2
  <2>7. QED
    BY <1>1, <2>5, <2>6
<1>4. CASE UNCHANGED vars
  BY <1>1, <1>4 DEF Building, Consistent, ConsistentAt, ToldIsStored, vars
<1>5. QED
  BY <1>2, <1>3, <1>4

LEMMA JobStep ==
    ASSUME JobInv, [Next]_vars
    PROVE  JobInv'
<1>1. ASSUME NEW j \in Jobs,
             \/ PostFirst(j) \/ PostFollowUp(j) \/ FollowUpChecked(j) \/ Answered(j)
             \/ Modification(j) \/ Persisted(j) \/ PersistThrows(j)
      PROVE  JobInv'
  BY <1>1, PostKeeps
<1>2. ASSUME NEW j \in Jobs,
             \/ StartThrows(j) \/ PreparationFails(j) \/ AgentFails(j) \/ AgentAborts(j)
             \/ Completes(j) \/ WrapFails(j)
      PROVE  JobInv'
  BY <1>2, EndingKeeps
<1>3. ASSUME NEW j \in Jobs,
             \/ Starts(j) \/ AgentReturns(j) \/ Finish(j) \/ TimesOut(j) \/ Cancel(j) \/ ReservationExpires(j)
      PROVE  JobInv'
  BY <1>3, PipelineKeeps
<1>4. ASSUME NEW j \in Jobs, Prepared(j) PROVE JobInv'
  BY <1>4, EndingKeeps, PipelineKeeps DEF PreparedAborted, PreparedWell
<1>5. ASSUME NEW j \in Jobs, NEW s \in Writing, Writes(j, s) PROVE JobInv'
  BY <1>5, WritesKeeps
<1>6. ASSUME NEW j \in Jobs, NEW s \in Writing, WriteThrows(j, s) PROVE JobInv'
  BY <1>6, WriteThrowsKeeps
<1>7. CASE Crash \/ Boot \/ UNCHANGED vars
  BY <1>7, ProcessKeeps
<1>8. QED
  BY <1>1, <1>2, <1>3, <1>4, <1>5, <1>6, <1>7 DEF Next, Progress

-----------------------------------------------------------------------------
\* The reservation and the two checks: what the steps of the other jobs do to
\* them is nothing.
LEMMA ReservedStep ==
    ASSUME JobInv, Reserved, [Next]_vars
    PROVE  Reserved'
<1> USE BuildsAssumption DEF JobInv, TypeOK, VariablesOK, Reserved, Building, Goes, flags, ghosts, waits, outcomes
<1>1. ASSUME NEW j \in Jobs, PostFirst(j) \/ Finish(j) \/ ReservationExpires(j) PROVE Reserved'
  BY <1>1 DEF PostFirst, Reservable, Finish, Released, ReservationExpires
<1>2. ASSUME NEW j \in Jobs,
             \/ PostFollowUp(j) \/ FollowUpChecked(j) \/ Answered(j) \/ Modification(j) \/ Persisted(j)
             \/ PersistThrows(j) \/ Starts(j) \/ AgentReturns(j)
             \/ \E s \in Writing : Writes(j, s)
      PROVE  Reserved'
  <2>1. UNCHANGED <<kind, holder, expired>>
    BY <1>2 DEF PostFollowUp, FollowUpChecked, Answered, Modification, Persisted, PersistThrows,
                Starts, AgentReturns, Writes
  <2>2. ASSUME NEW k \in Jobs, kind[k] = "first"
        PROVE  (Building(k)' => Building(k)) /\ step'[k] \notin {"check", "classify"}
    BY <1>2, <2>2 DEF PostFollowUp, FollowUpChecked, Answered, Modification, Persisted,
                      PersistThrows, Starts, AgentReturns, Writes
  <2>3. QED
    BY <2>1, <2>2
<1>3. ASSUME NEW j \in Jobs,
             \/ StartThrows(j) \/ PreparationFails(j) \/ Prepared(j) \/ AgentFails(j) \/ AgentAborts(j)
             \/ Completes(j) \/ WrapFails(j)
             \/ \E s \in Writing : WriteThrows(j, s)
      PROVE  Reserved'
  BY <1>3 DEF StartThrows, PreparationFails, Prepared, AgentFails, AgentAborts, Completes, WrapFails,
              WriteThrows, FinishError, SettleAborted, Finishes
<1>4. ASSUME NEW j \in Jobs, TimesOut(j) \/ Cancel(j) PROVE Reserved'
  BY <1>4 DEF TimesOut, Cancel
<1>5. CASE Crash \/ Boot \/ UNCHANGED vars
  BY <1>5 DEF Crash, Boot, vars
<1>6. QED
  BY <1>1, <1>2, <1>3, <1>4, <1>5 DEF Next, Progress

LEMMA ObedientStep ==
    ASSUME JobInv, Obedient, [Next]_vars
    PROVE  Obedient'
<1> USE DEF JobInv, TypeOK, VariablesOK, Obedient, Terminal, Writing, Goes, Fault, flags, ghosts, waits, outcomes
<1>1. ASSUME NEW j \in Jobs,
             \/ PostFirst(j) \/ PostFollowUp(j) \/ FollowUpChecked(j) \/ Answered(j)
             \/ Modification(j) \/ Persisted(j) \/ PersistThrows(j)
             \/ Starts(j) \/ Finish(j) \/ ReservationExpires(j)
      PROVE  Obedient'
  BY <1>1 DEF PostFirst, PostFollowUp, FollowUpChecked, Answered, Modification, Persisted, PersistThrows,
              Starts, Finish, ReservationExpires
<1>2. ASSUME NEW j \in Jobs, StartThrows(j) \/ PreparationFails(j) \/ AgentFails(j) \/ WrapFails(j)
      PROVE  Obedient'
  BY <1>2 DEF StartThrows, PreparationFails, AgentFails, WrapFails, FinishError, Finishes
<1>3. ASSUME NEW j \in Jobs, Prepared(j) \/ AgentAborts(j) \/ AgentReturns(j)
      PROVE  Obedient'
  BY <1>3 DEF Prepared, AgentAborts, AgentReturns, SettleAborted, FinishError, Finishes, Aborted
<1>4. ASSUME NEW j \in Jobs, Completes(j) PROVE Obedient'
  BY <1>4 DEF Completes, Finishes
<1>5. ASSUME NEW j \in Jobs, NEW s \in Writing, Writes(j, s) PROVE Obedient'
  BY <1>5 DEF Writes, Written
<1>6. ASSUME NEW j \in Jobs, NEW s \in Writing, WriteThrows(j, s) PROVE Obedient'
  BY <1>6 DEF WriteThrows, Written, FinishError, Finishes
<1>7. ASSUME NEW j \in Jobs, TimesOut(j) PROVE Obedient'
  BY <1>7 DEF TimesOut, Consistent, ConsistentAt
<1>8. ASSUME NEW j \in Jobs, Cancel(j) PROVE Obedient'
  BY <1>8 DEF Cancel, Consistent, ConsistentAt, InPipeline, Building
<1>9. CASE Crash \/ Boot \/ UNCHANGED vars
  BY <1>9 DEF Crash, Boot, Swept, vars
<1>10. QED
  BY <1>1, <1>2, <1>3, <1>4, <1>5, <1>6, <1>7, <1>8, <1>9 DEF Next, Progress

LEMMA CheckedStep ==
    ASSUME JobInv, CheckedBehind, FollowUpsOverlapOnlyInChecks, [Next]_vars
    PROVE  CheckedBehind' /\ FollowUpsOverlapOnlyInChecks'
<1> USE DEF JobInv, TypeOK, VariablesOK, CheckedBehind, FollowUpsOverlapOnlyInChecks, FollowUps, Building,
        Goes, flags, ghosts, waits, outcomes
<1>1. ASSUME NEW j \in Jobs, PostFirst(j) \/ FollowUpChecked(j)
      PROVE  CheckedBehind' /\ FollowUpsOverlapOnlyInChecks'
  BY <1>1 DEF PostFirst, FollowUpChecked
<1>2. ASSUME NEW j \in Jobs, PostFollowUp(j)
      PROVE  CheckedBehind' /\ FollowUpsOverlapOnlyInChecks'
  BY <1>2 DEF PostFollowUp, HasLiveJob, Consistent, ConsistentAt
<1>3. ASSUME NEW j \in Jobs,
             \/ Answered(j) \/ Modification(j) \/ Persisted(j) \/ PersistThrows(j) \/ Starts(j)
             \/ AgentReturns(j) \/ Finish(j) \/ TimesOut(j) \/ Cancel(j) \/ ReservationExpires(j)
      PROVE  CheckedBehind' /\ FollowUpsOverlapOnlyInChecks'
  BY <1>3 DEF Answered, Modification, Persisted, PersistThrows, Starts, AgentReturns, Finish, TimesOut,
              Cancel, ReservationExpires
<1>4. ASSUME NEW j \in Jobs,
             \/ StartThrows(j) \/ PreparationFails(j) \/ Prepared(j) \/ AgentFails(j) \/ AgentAborts(j)
             \/ Completes(j) \/ WrapFails(j)
      PROVE  CheckedBehind' /\ FollowUpsOverlapOnlyInChecks'
  BY <1>4 DEF StartThrows, PreparationFails, Prepared, AgentFails, AgentAborts, Completes, WrapFails,
              FinishError, SettleAborted, Finishes
<1>5. ASSUME NEW j \in Jobs, NEW s \in Writing, Writes(j, s) \/ WriteThrows(j, s)
      PROVE  CheckedBehind' /\ FollowUpsOverlapOnlyInChecks'
  BY <1>5 DEF Writes, WriteThrows, FinishError, Finishes
<1>6. CASE Crash \/ Boot \/ UNCHANGED vars
  BY <1>6 DEF Crash, Boot, vars
<1>7. QED
  BY <1>1, <1>2, <1>3, <1>4, <1>5, <1>6 DEF Next, Progress

\* Every variable holds a value the program could hold, and a pipeline runs only
\* under a registered entry, finalized from the terminal transition on
\* (registry.ts:113-124).
THEOREM TypeCorrect == Spec => []TypeOK
<1>1. JobInv => TypeOK
  BY DEF JobInv
<1>2. QED
  BY <1>1, JobInit, JobStep, PTL DEF Spec

\* Whatever completions, cancels, watchdogs, failed writes, crashes and boots race,
\* the stream is told one frame at most and a terminal row agrees with it, unless a
\* boot ended a row whose terminal write threw or was cut off (registry.ts:113-118,
\* build.ts finishError, jobs.ts:135-140).
THEOREM TerminalOnce == Spec => []ToldIsStored
<1>1. JobInv => ToldIsStored
  BY DEF JobInv
<1>2. QED
  BY <1>1, JobInit, JobStep, PTL DEF Spec

\* Two first builds of one session are under way together only if one of them
\* outlived its reservation (registry.ts:191-213): for any number of POSTs, so
\* also for the third that a late release of the first could have let in.
THEOREM OneFirstBuild == Spec => []FirstBuildsExclusive
<1>1. Init => JobInv /\ Reserved
  BY JobInit DEF Init, Reserved, Building
<1>2. JobInv /\ Reserved /\ [Next]_vars => (JobInv /\ Reserved)'
  BY JobStep, ReservedStep
<1>3. JobInv /\ Reserved => FirstBuildsExclusive
  BY DEF Reserved, FirstBuildsExclusive
<1>4. QED
  BY <1>1, <1>2, <1>3, PTL DEF Spec

\* A job aborted before its agent returned never completes, and only a user's
\* cancel ends in silence (build.ts:1092-1112, registry.ts:134-147).
THEOREM AbortsCount == Spec => []AbortHonoured
<1>1. Init => JobInv /\ Obedient
  BY JobInit DEF Init, Obedient
<1>2. JobInv /\ Obedient /\ [Next]_vars => (JobInv /\ Obedient)'
  BY JobStep, ObedientStep
<1>3. Obedient => AbortHonoured
  BY DEF Obedient, AbortHonoured
<1>4. QED
  BY <1>1, <1>2, <1>3, PTL DEF Spec

\* Two follow-ups are built together only if one registered while the other was
\* waiting for its second check (build.ts:190-205): for any number of follow-ups,
\* there is no other way in.
THEOREM OneWayIn == Spec => []FollowUpsOverlapOnlyInChecks
<1>1. Init => JobInv /\ CheckedBehind /\ FollowUpsOverlapOnlyInChecks
  <2>1. ASSUME Init, NEW j \in Jobs PROVE step[j] = "idle"
    BY <2>1 DEF Init
  <2>2. QED
    BY <2>1, JobInit DEF CheckedBehind, FollowUpsOverlapOnlyInChecks, FollowUps, Building
<1>2. JobInv /\ CheckedBehind /\ FollowUpsOverlapOnlyInChecks /\ [Next]_vars
         => (JobInv /\ CheckedBehind /\ FollowUpsOverlapOnlyInChecks)'
  BY JobStep, CheckedStep
<1>3. QED
  BY <1>1, <1>2, PTL DEF Spec
=============================================================================

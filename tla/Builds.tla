-------------------------------- MODULE Builds ---------------------------------
(***************************************************************************)
(* Build jobs (api/src/agents): the POST that admits them (build.ts        *)
(* handleFirstBuild, handleFollowUp), the pipeline of each                 *)
(* (executeBuildJob), the registry of live runs and the first-build        *)
(* reservation (registry.ts), the job rows (jobs.ts), and the boot sweep.  *)
(*                                                                         *)
(* Every job belongs to one session.  A first build makes an application   *)
(* of its own; all follow-ups of the model change the same one.  The       *)
(* status of the application's row (draft, active) is left out: nothing    *)
(* here reads it.                                                          *)
(***************************************************************************)
EXTENDS Naturals, FiniteSets

CONSTANTS Jobs,       \* bound: POSTs in one behaviour
          None,       \* nobody holds the reservation
          MaxFaults   \* bound: store errors and crashes in one behaviour

ASSUME BuildsAssumption == None \notin Jobs /\ MaxFaults \in Nat

VARIABLES up,         \* whether the process serves requests
          kind,       \* what each POST asks for
          step,       \* where its handler or its pipeline is
          row,        \* its row in the jobs collection
          run,        \* its entry in the registry of live runs
          holder,     \* the job of the first-build reservation
          timedOut, cancelled,  \* the flags of the entries
          told,       \* history: the terminal frames on each job's stream
          faults,     \* number of store errors and crashes so far
          expired,    \* history: jobs whose reservation outlived its TTL
          late,       \* history: jobs cancelled after the last abort check
          stale,      \* history: follow-ups another one registered behind
          hurt,       \* history: jobs one of whose writes threw since the last boot
          unsaved,    \* history: jobs whose terminal write threw or was cut off
          swept       \* history: jobs a boot ended

waits    == <<expired, late, stale>>
outcomes == <<hurt, unsaved, swept>>
ghosts   == <<waits, outcomes>>
flags    == <<timedOut, cancelled>>
vars == <<up, kind, step, row, run, holder, flags, told, faults, ghosts>>

Steps == {"idle",                                  \* not posted
          "check", "classify", "persist",          \* the POST
          "start", "prepare", "agent", "wrap",     \* the pipeline
          "fail", "complete", "cancel",            \* a terminal write under way
          "finish", "over"}
Writing  == {"fail", "complete", "cancel"}
Open     == {"created", "running"}
Terminal == {"completed", "failed", "cancelled"}

Init ==
    /\ up = "yes"
    /\ kind \in [Jobs -> {"first", "follow"}]
    /\ step = [j \in Jobs |-> "idle"]
    /\ row = [j \in Jobs |-> "absent"]
    /\ run = [j \in Jobs |-> "none"]
    /\ holder = None
    /\ timedOut = {} /\ cancelled = {}
    /\ told = [j \in Jobs |-> {}]
    /\ faults = 0
    /\ expired = {} /\ late = {} /\ stale = {}
    /\ hurt = {} /\ unsaved = {} /\ swept = {}

Goes(j, from, to) == up = "yes" /\ step[j] = from /\ step' = [step EXCEPT ![j] = to]

\* A write of a job's row throws; it may have reached the database all the same.
Fault(j, status) ==
    /\ faults < MaxFaults                                   \* bound
    /\ faults' = faults + 1
    /\ hurt' = hurt \cup {j}
    /\ row' \in {row, [row EXCEPT ![j] = status]}

Registers(j) == run' = [run EXCEPT ![j] = "live"]
Unregisters(j) == run' = [run EXCEPT ![j] = "none"]

-----------------------------------------------------------------------------
(* The POST                                                                *)

\* Mutant: a reservation is good for as long as the agent may take.
ReservableAfterAgent ==
    holder = None \/ \E j \in Jobs : j = holder /\ (j \in expired \/ step[j] = "wrap")

\* reserveFirstBuild; while the reservation is alive the POST is answered with
\* the job it is bound to.
Reservable == holder = None \/ holder \in expired

\* Reserved, bound and registered without an await.
PostFirst(j) ==
    /\ kind[j] = "first"
    /\ Reservable
    /\ Goes(j, "idle", "persist")
    /\ holder' = j
    /\ Registers(j)
    /\ UNCHANGED <<up, kind, row, flags, told, faults, ghosts>>

FollowUps == {j \in Jobs : kind[j] = "follow"}

\* Mutant: the registry is not asked, only the stored rows are.
HasLiveJobNever == FALSE

\* hasLiveJobForArtifact.
HasLiveJob == \E k \in FollowUps : run[k] = "live"

\* nonTerminalJobForArtifact.
HasOpenRow == \E k \in FollowUps : row[k] \in Open

\* The two checks of a follow-up; the second awaits the store ...
PostFollowUp(j) ==
    /\ kind[j] = "follow"
    /\ Goes(j, "idle", IF HasLiveJob THEN "over" ELSE "check")
    /\ UNCHANGED <<up, kind, row, run, holder, flags, told, faults, ghosts>>

\* ... and only then is the run registered, without asking the registry again.
FollowUpChecked(j) ==
    /\ IF HasOpenRow
       THEN Goes(j, "check", "over") /\ UNCHANGED <<run, stale>>
       ELSE /\ Goes(j, "check", "classify")
            /\ Registers(j)
            /\ stale' = stale \cup {k \in Jobs \ {j} : step[k] = "check"}
    /\ UNCHANGED <<up, kind, row, holder, flags, told, faults, expired, late, outcomes>>

\* A question, a request for an integration, or an abort: answered, no job.
Answered(j) ==
    /\ Goes(j, "classify", "over")
    /\ Unregisters(j)
    /\ UNCHANGED <<up, kind, row, holder, flags, told, faults, ghosts>>

\* Mutant: the entry is removed once the message has been classified, whatever
\* it turned out to be.
ModificationUnregistered(j) ==
    /\ Goes(j, "classify", "persist")
    /\ Unregisters(j)
    /\ UNCHANGED <<up, kind, row, holder, flags, told, faults, ghosts>>

Modification(j) ==
    /\ Goes(j, "classify", "persist")
    /\ UNCHANGED <<up, kind, row, run, holder, flags, told, faults, ghosts>>

\* The row exists before the response; then the pipeline is fired.
Persisted(j) ==
    /\ Goes(j, "persist", "start")
    /\ row' = [row EXCEPT ![j] = "created"]
    /\ UNCHANGED <<up, kind, run, holder, flags, told, faults, ghosts>>

\* The write throws, and so does the handler: the entry and the reservation stay.
PersistThrows(j) ==
    /\ Goes(j, "persist", "over")
    /\ Fault(j, "created")
    /\ UNCHANGED <<up, kind, run, holder, flags, told, waits, unsaved, swept>>

-----------------------------------------------------------------------------
(* The terminal transition                                                 *)

\* Mutant: the terminal transition can be taken twice.
FinalizeAgain(j) == TRUE

\* finalizeOnce, as a guard; who takes it marks the entry.
FinalizeOnce(j) == run[j] = "live"

\* A frame for the stream, then the write; whoever comes second does neither.
Finishes(j, from, frames, write) ==
    IF FinalizeOnce(j)
    THEN /\ Goes(j, from, write)
         /\ run' = [run EXCEPT ![j] = "final"]
         /\ told' = [told EXCEPT ![j] = @ \cup frames]
    ELSE Goes(j, from, "finish") /\ UNCHANGED <<run, told>>

FinishError(j, from) == Finishes(j, from, {"error"}, "fail")

\* The job's abort signal.
Aborted(j) == j \in timedOut \cup cancelled

\* settleAborted: a timeout is an error, unless the user cancelled as well; a
\* cancel ends in silence.
SettleAborted(j, from) ==
    IF j \in timedOut \ cancelled THEN FinishError(j, from) ELSE Finishes(j, from, {}, "cancel")

Written(s) == CASE s = "fail" -> "failed" [] s = "complete" -> "completed" [] s = "cancel" -> "cancelled"

Writes(j, s) ==
    /\ Goes(j, s, "finish")
    /\ row' = [row EXCEPT ![j] = Written(s)]
    /\ UNCHANGED <<up, kind, run, holder, flags, told, faults, ghosts>>

\* The terminal write throws: the handler of the pipeline tries to finish with
\* an error, finds the transition taken, and the row stays as it is.
WriteThrows(j, s) ==
    /\ FinishError(j, s)
    /\ Fault(j, Written(s))
    /\ unsaved' = unsaved \cup {j}
    /\ UNCHANGED <<up, kind, holder, flags, waits, swept>>

-----------------------------------------------------------------------------
(* The pipeline                                                            *)

\* The watchdogs are armed and the row is marked running.
Starts(j) ==
    /\ Goes(j, "start", "prepare")
    /\ row' = [row EXCEPT ![j] = "running"]
    /\ UNCHANGED <<up, kind, run, holder, flags, told, faults, ghosts>>

StartThrows(j) ==
    /\ FinishError(j, "start")
    /\ Fault(j, "running")
    /\ UNCHANGED <<up, kind, holder, flags, waits, unsaved, swept>>

\* The allowance, the scaffold or the revalidation, the routing: each await is
\* followed by a look at the abort signal, but what goes wrong is an error
\* whether or not the signal is up.
PreparationFails(j) ==
    /\ FinishError(j, "prepare")
    /\ UNCHANGED <<up, kind, row, holder, flags, faults, ghosts>>

Prepared(j) ==
    /\ IF Aborted(j) THEN SettleAborted(j, "prepare")
       ELSE Goes(j, "prepare", "agent") /\ UNCHANGED <<run, told>>
    /\ UNCHANGED <<up, kind, row, holder, flags, faults, ghosts>>

\* Mutant: an attempt that ended well is not asked whether it was aborted.
AgentReturnsUnasked(j) ==
    /\ Goes(j, "agent", "wrap")
    /\ UNCHANGED <<up, kind, row, run, told, holder, flags, faults, ghosts>>

\* The attempt, or its one retry, is over: healthy, and the watchdogs are
\* cleared, or beyond repair.
AgentReturns(j) ==
    /\ ~Aborted(j)
    /\ Goes(j, "agent", "wrap")
    /\ UNCHANGED <<up, kind, row, run, told, holder, flags, faults, ghosts>>

AgentFails(j) ==
    /\ ~Aborted(j)
    /\ FinishError(j, "agent")
    /\ UNCHANGED <<up, kind, row, holder, flags, faults, ghosts>>

AgentAborts(j) ==
    /\ Aborted(j)
    /\ SettleAborted(j, "agent")
    /\ UNCHANGED <<up, kind, row, holder, flags, faults, ghosts>>

\* The bundle, the snapshot, the progress gate and the verification; nobody
\* looks at the abort signal any more.
Completes(j) ==
    /\ Finishes(j, "wrap", {"complete"}, "complete")
    /\ UNCHANGED <<up, kind, row, holder, flags, faults, ghosts>>

WrapFails(j) ==
    /\ FinishError(j, "wrap")
    /\ UNCHANGED <<up, kind, row, holder, flags, faults, ghosts>>

\* releaseReservation: a late release cannot free a newer reservation.
Released(j) == IF holder = j THEN None ELSE holder

\* The finally block.  Its net for a run without a terminal state comes too
\* late to take the transition: every path to it has taken it before.
Finish(j) ==
    /\ Goes(j, "finish", "over")
    /\ holder' = Released(j)
    /\ Unregisters(j)
    /\ UNCHANGED <<up, kind, row, flags, told, faults, ghosts>>

-----------------------------------------------------------------------------
(* The watchdogs, the user, the reservation's TTL, and the process         *)

\* onTimeout of either watchdog, cleared once the agent has returned.
TimesOut(j) ==
    /\ up = "yes"
    /\ step[j] \in {"start", "prepare", "agent"}
    /\ ~Aborted(j)
    /\ timedOut' = timedOut \cup {j}
    /\ UNCHANGED <<up, kind, step, row, run, holder, cancelled, told, faults, ghosts>>

\* cancelRun: acknowledged while the run is registered, not finalized and not
\* cancelled before.
Cancel(j) ==
    /\ run[j] = "live"
    /\ j \notin cancelled
    /\ cancelled' = cancelled \cup {j}
    /\ late' = IF step[j] = "wrap" THEN late \cup {j} ELSE late
    /\ UNCHANGED <<up, kind, step, row, run, holder, timedOut, told, faults, expired, stale, outcomes>>

\* The TTL is the wall clock plus the verification's: it passes once the agent
\* has returned, or after the POST failed.
ReservationExpires(j) ==
    /\ holder = j /\ j \notin expired
    /\ step[j] \in {"wrap", "fail", "complete", "cancel", "finish", "over"}
    /\ expired' = expired \cup {j}
    /\ UNCHANGED <<up, kind, step, row, run, holder, flags, told, faults, late, stale, outcomes>>

Crash ==
    /\ up = "yes"
    /\ faults < MaxFaults                                   \* bound
    /\ faults' = faults + 1
    /\ up' = "no"
    /\ step' = [j \in Jobs |-> IF step[j] = "idle" THEN "idle" ELSE "over"]
    /\ run' = [j \in Jobs |-> "none"]
    /\ holder' = None
    /\ unsaved' = unsaved \cup {j \in Jobs : step[j] \in Writing}
    /\ UNCHANGED <<kind, row, flags, told, waits, hurt, swept>>

\* Mutant: the sweep looks for running jobs only.
SweptIfRunning(status) == IF status = "running" THEN "failed" ELSE status

\* Whatever the stream may have said, a row that is still open has failed.
Swept(status) == IF status \in Open THEN "failed" ELSE status

\* sweepOrphans, before the process listens.
Boot ==
    /\ up = "no"
    /\ up' = "yes"
    /\ row' = [j \in Jobs |-> Swept(row[j])]
    /\ swept' = swept \cup {j \in Jobs : Swept(row[j]) # row[j]}
    /\ hurt' = {}
    /\ UNCHANGED <<kind, step, run, holder, flags, told, faults, waits, unsaved>>

-----------------------------------------------------------------------------
\* What the store, the awaited calls and the runtime bring about by themselves.
\* An agent that has not been aborted may go on for ever.
Progress(j) ==
    \/ FollowUpChecked(j) \/ Answered(j) \/ Modification(j) \/ Persisted(j) \/ Starts(j)
    \/ PreparationFails(j) \/ Prepared(j) \/ AgentAborts(j)
    \/ Completes(j) \/ WrapFails(j) \/ Finish(j)
    \/ \E s \in Writing : Writes(j, s)

Next ==
    \/ \E j \in Jobs :
          \/ PostFirst(j) \/ PostFollowUp(j) \/ Progress(j)
          \/ PersistThrows(j) \/ StartThrows(j)
          \/ \E s \in Writing : WriteThrows(j, s)
          \/ AgentReturns(j) \/ AgentFails(j)
          \/ TimesOut(j) \/ Cancel(j) \/ ReservationExpires(j)
    \/ Crash \/ Boot

Spec == Init /\ [][Next]_vars

\* Awaited calls return, the watchdogs fire, and a process that died is started
\* again.  Nothing obliges a user to post or cancel, or an agent to end.
Fairness ==
    /\ \A j \in Jobs : WF_vars(Progress(j)) /\ WF_vars(TimesOut(j))
    /\ WF_vars(Boot)

FairSpec == Spec /\ Fairness

-----------------------------------------------------------------------------
(* Properties                                                              *)

VariablesOK ==
    /\ up \in {"yes", "no"}
    /\ kind \in [Jobs -> {"first", "follow"}]
    /\ step \in [Jobs -> Steps]
    /\ row \in [Jobs -> {"absent"} \cup Open \cup Terminal]
    /\ run \in [Jobs -> {"none", "live", "final"}]
    /\ holder \in Jobs \cup {None}
    /\ timedOut \subseteq Jobs /\ cancelled \subseteq Jobs
    /\ told \in [Jobs -> SUBSET {"complete", "error"}]
    /\ faults \in Nat
    /\ expired \subseteq Jobs /\ late \subseteq Jobs /\ stale \subseteq Jobs
    /\ hurt \subseteq Jobs /\ unsaved \subseteq Jobs /\ swept \subseteq Jobs

InPipeline(j) == step[j] \in {"start", "prepare", "agent", "wrap", "fail", "complete", "cancel", "finish"}
Building(j)   == step[j] \in {"classify", "persist", "start", "prepare", "agent", "wrap"}

\* Every variable holds a value the program could hold; a pipeline runs only
\* under a registered entry, which is finalized exactly from the terminal
\* transition on.
TypeOK ==
    /\ VariablesOK
    /\ \A j \in Jobs : InPipeline(j) =>
          run[j] = (IF Building(j) THEN "live" ELSE "final")

Announced(status) ==
    CASE status = "completed" -> {"complete"} [] status = "failed" -> {"error"} [] OTHER -> {}

\* The stream is told one terminal frame at most, and the row says the same: no
\* race of a completion, a cancel, a watchdog and a failed write yields two frames
\* or another status (registry.ts:113-118).  The one exception is a job whose
\* terminal write threw or was cut off: the boot sweep (jobs.ts:135-140) then
\* records failed, also under a stream that was told complete.  Until that boot,
\* only a job one of whose writes threw is over with its row still open.
ToldIsStored ==
    \A j \in Jobs :
       /\ told[j] # {"complete", "error"}
       /\ row[j] \in Terminal /\ j \notin swept => told[j] = Announced(row[j])
       /\ j \in swept /\ told[j] # {} => j \in unsaved
       /\ row[j] \in Open /\ step[j] \in {"finish", "over"} => up = "no" \/ j \in hurt

\* A job that was aborted before the agent returned never completes, and only a
\* user's cancel ends as cancelled: a watchdog that fires during an early await
\* is reported as the error it is (build.ts:1103-1106).
AbortHonoured ==
    \A j \in Jobs :
       /\ j \in (timedOut \cup cancelled) \ late => row[j] # "completed"
       /\ row[j] = "cancelled" => j \in cancelled

\* One first build of a session at a time, unless one of the two outlived its
\* reservation: neither a late release nor a failed POST lets a second one in
\* (registry.ts:206-213).
FirstBuildsExclusive ==
    \A j, k \in Jobs :
       j # k /\ kind[j] = "first" /\ kind[k] = "first" /\ Building(j) /\ Building(k)
          => j \in expired \/ k \in expired

\* Two follow-ups are built at once only when one of them registered while the
\* other was waiting for its second check: whatever the order of terminal
\* writes, unregistrations and new POSTs, there is no other way in.
FollowUpsOverlapOnlyInChecks ==
    \A j, k \in FollowUps :
       j # k /\ Building(j) /\ Building(k) => j \in stale \/ k \in stale

\* build.ts:188-189: "One follow-up build per artifact (§5.3.5): reject a
\* concurrent build targeting the same artifact".
FollowUpsExclusive ==
    \A j, k \in FollowUps : j # k => ~(Building(j) /\ Building(k))

\* A job that has been admitted comes to its end in the store and in the
\* registry, whatever its agent does, unless one of its own writes threw.
JobsEnd ==
    \A j \in Jobs :
       row[j] \in Open \/ run[j] # "none"
          ~> (row[j] \notin Open /\ run[j] = "none") \/ j \in hurt
=============================================================================

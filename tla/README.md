# Ekoa API: formal model of the durable rails

This directory holds TLA+ models of the parts of `api/src` in which correctness
depends on the order of steps: work kept in Mongo, claimed, executed, retried
and recovered by a Node process that may stop or die at any `await`. TLC checks
the models on small instances; TLAPS proves the central facts for every value of
the constants.

## 1. The system

The API is one Node process (FIXED-8: a single process, see
`auth/revocation.ts:6`, `agents/registry.ts:4`) over MongoDB. There are no
multi-document transactions: everything rests on single-document atomic
operations (`data/store.ts:1-8`). Within the process, code runs to the next
`await` without interruption; between two awaits any other request, timer or
callback may run. Deploys can overlap two processes for a moment, and the code
keeps claim tokens and deterministic ids for that case.

### Inventory

| Component | State it keeps | Operations | What is hard | What makes it correct |
|---|---|---|---|---|
| Event queue, delivery pipeline (`events/queue.ts`, `events/delivery.ts`) | `event_queue` rows; in memory `running`, `draining`, `inFlight`, timer | enqueue, wake, drain, claim, dispatch, settle, recover, start, stop | drains re-entered from three places; claim awaited across `stop`; crash between claim and settle; lost writes; a recovery that throws; a dead letter that lands and throws | one winner per attempt; one delivery per event; retry budget; slots; every event settles unless recovery threw; an event that has ended and whose dispatch is over stays ended |
| Ingress and triggers (`events/service.ts`) | trigger rows, audit rows | verify, dedup, enqueue, wake; trigger CRUD | a trigger deleted while its event waits | duplicate webhooks are one event |
| Verified sync (`events/verified-sync.ts`, `sync-state.ts`, `sync-serialize.ts`) | per key a watermark and the seen references; landed items; in memory the queue of one | start, read the row, walk, land, walk again, advance or absorb, fail | items that show up late; walks cut short; a death between a land and the row; a queue that is local to a process | nothing behind the watermark, or in the seen-set, that has not landed |
| Listener (`events/listener-*.ts`) | cursors | poll, enqueue, advance the cursor | crash between enqueue and cursor; a put over a newer cursor | nothing skipped |
| Schedules (`schedules/*`) | schedules, run rows; in memory generation, pass, `inFlight`, `seenDue` | create, patch, delete, complete, run-now; tick, claim, advance, fire, record | edits during a pass; crash between claim and fire; late outcomes; auto-pause; slots against grace; stop against a pass | at most one fire per occurrence; a paused schedule has no pointer; the pointer moves on; no one-time schedule vanishes |
| Document store, collections engine (`data/store.ts`, `data/collections-engine.ts`) | documents with `_rev` | insert, get, put, update, delete, consume, create, upsert | concurrent compare-and-swaps; lost replies; revisions issued again | acknowledged writes stay; a swap replaces what it read |
| Live runs, build pipeline, jobs (`agents/registry.ts`, `jobs.ts`, `build.ts`) | the run map, job rows, first-build reservations | admit, register, cancel, time out, finalize, reserve, bind, release, orphan sweep | completion, cancel, watchdog and failed writes racing; a build outliving its reservation; two follow-ups past one check; a cancel after the last look; a sweep of another process's jobs | one terminal frame, and a row that agrees with it unless a boot had to end the job; aborts are kept; one first build per session, one follow-up per application; every job ends |
| Chat and tools (`agents/chat.ts`, ...) | session documents | turn, stream, tool loop | shares the run registry | one terminal event per turn |
| Automation runs (`automation/engine.ts`, `service.ts`, `credential-waiters.ts`) | run rows, approved commands; in memory the signals of a run, credential waiters | start, step, halt, ask, pause, resume, answer, cancel, wake, finalize, boot sweep | requests and wakes that read the row before a pass moves it; a halt against its own teardown; a cancel between two looks; answers that come late; ends that cannot be recorded | one pass at work per run; approvals were put to the owner; an ended run stays ended; a parked run can be woken; a cancelled pass ends |
| Bridge (`bridge/*`) | pairing rows; in memory the live-socket map, heartbeat flags, pending calls, the ingress filter | connect, register, hello, replace, pong, close, heartbeat, revoke; step, deliver, invoke, delegate, settle | a connect racing a revocation; the late close of a replaced socket; frames lost in a closing socket; machines that vanish | no socket outside the live map; no call left behind by its socket; a revocation stays; every call, vanished machine and barred owner comes to an end |
| Billing (`billing/*`) | windows, ledgers | check, record, alert | admission and recording are two steps | caps are exceeded by no more than the calls in flight |
| Cofre, auth, integrations | secrets, tokens, connections | CRUD and policy checks | mostly request-local | policy on every path |
| LLM gateway, knowledge, memory, legal, apps, services, streaming, voice, uploads, content, routes | files, indexes, sockets | I/O | external systems | - |
| Web dashboard, CLI, daemon | - | clients of the API | - | - |

Interactions. Ingress calls `enqueue` and then, after its audit write,
`wakeDelivery`; delivery calls targets (automations, app backends) which may
call back into the server. Schedules call automations and integration actions.
All rails share only the store. `server.ts` starts the rails after the listener
is up and on a signal stops all of them in parallel (`Promise.allSettled`), then
calls `process.exit(0)`.

## 2. Modules

| Module | Models | Kind |
|---|---|---|
| `WorkItem` | what a durable rail promises of one unit of work: recorded once, taken before it ends, ended at most once; `MayRequeue` says whether taken work may be handed back | abstract specification |
| `AtomicDocument` | what a rail takes for granted of a document: a call takes effect in one step on what is there, at most once, or is refused or gives up without effect | abstract specification |
| `Delivery` | the event queue and the delivery pipeline, with the tail of ingress and trigger deletion | component |
| `Schedules` | the timer rail: owner edits, passes, fires, outcomes | component |
| `CasStore` | one document of the store and of the collections engine under concurrent calls | component |
| `Bridge` | one pairing with the user's machine: connects, revocation, sockets, heartbeat, calls in flight | component |
| `Builds` | build jobs: admission, registry, reservation, pipeline, terminal writes, boot sweep | component |
| `VerifiedSync` | the completeness-verified sync of one key by one or more processes, over an external source | component |
| `AutomationRuns` | one automation run: its passes, the requests that resume, cancel and answer it, the credential waiter, the boot sweep | component |
| `DeliveryProofs`, `SchedulesProofs`, `CasStoreProofs`, `BridgeProofs`, `BuildsProofs`, `VerifiedSyncProofs`, `AutomationRunsProofs` | theorems and their lemmas | proofs |
| `MCDelivery`, `MCSchedules`, `MCCasStore`, `MCBridge`, `MCBuilds`, `MCVerifiedSync`, `MCAutomationRuns` | model values, instances, symmetry | model checking |

`Delivery` and `Schedules` both instantiate `WorkItem` (`Work == INSTANCE
WorkItem WITH ...`) and check the refinement as a property. `CasStore` instantiates
`AtomicDocument`, which it implements until the first put or removal.

### How the models follow the code

An action is the code between two awaits that matter: a database call is the
point at which a step takes effect, everything synchronous after it belongs to
the same action. A rejected or lost database call is an action of its own where
the code handles (or swallows) it, with both outcomes: the write may or may not
have reached the database. A crash removes everything in memory and keeps the
collections.

`Delivery`

- `rows[e]` is the `event_queue` document of event `e`: status, attempts, whether
  `nextAttemptAt` is past ("due") and whether `claimedAt` is at least ten minutes
  old ("old"). `BackoffElapses` and `RowAges` move those two clocks; nothing else
  about time is kept. Only `recoverStuck` asks for the age, and only of a dispatching row,
  so every other row counts as young. Ids are deterministic, so an event is its
  `(trigger, dedup key)` pair.
- `life`, `drain`, `scan`, `awaited` and `flights` are the module state of
  `delivery.ts`: `running` and where the process is in `startDelivery` or
  `stopDelivery`, the `draining` flag with the loop's position, the rows that
  `claimNext` has read, the snapshot `stopDelivery` awaits, and `inFlight`.
- `Enqueue`/`Wake` are the two halves of an accepted ingress; `ClaimFind`/`TryClaim`
  the find and the compare-and-swap of `claimNext`; `LoadTrigger`, `TargetAnswers`,
  `JudgeFailure`, `Settle` the awaits of `dispatchOne`; `Boot`, `RecoverFind`,
  `RecoverRow`, `Open` those of `startDelivery`; `Stop`, `StopReturns`, `Exit` the
  shutdown. A settle and the `finally` that re-enters `drain` are one action.
- The errors are where the code puts them. A trigger that is gone is dead-lettered before
  the `try` of `dispatchOne`, an unbound one inside it (phase `refuse`): if that `markDead` throws,
  landed or not, the `catch` makes a failed attempt of it and `markFailed` runs
  (`RefusalThrows`). A store call outside the `try` that throws drops the dispatch
  (`DispatchThrows`). `startDelivery` has no `catch` around `recoverStuck`: if one of its store
  calls throws, `running` stays set with no interval and no first drain, and a second start
  returns at once (`RecoverThrows`, after which `life` is "stalled"). Webhooks and settled
  deliveries still drain such a pipeline.
- In the refinement an event is taken as long as a dispatch of it is at work (`InHand`), even
  when its row has been dead since that dispatch's own dead letter landed and threw.
  The update's compare-and-swap loop is one step here; `CasStore` is where that
  step is looked into.

`Schedules`

- `docs[s]` is the schedule document (state, enabled, spec, target, `nextRunAt`,
  failure counter, neutral streak and cooldown), `runs` the run rows under their
  deterministic ids, plus one run-now row per schedule.
- Time is a small number. A recurring spec has an occurrence at each instant, a
  one-time spec at one: what the supervisor needs of `recurrence.ts` is "the first
  occurrence strictly after". Calendar arithmetic is not modelled.
- `step`, `due`, `listed`, `cur`, `clock` and `seen` are the locals of a pass and the
  `seenDue` map. Each schedule of a pass is visited in the order of `nextRunAt`:
  `SkipStale`, `MissOnce`, `CoolDown`, `Defer` or `Claim`, the branches of `pass` and
  `claimAndFire` in the code's order; `AdvanceClaimed`, `RecordMiss`,
  `AdoptPresent` are the awaits that follow. `InsertThrows` ends the pass, as the
  `catch` of `tick` does; `Advance` and `Record` swallow their store errors, as the
  code does.
- The generation counter is `life[p] # "up"`: a stop moves it and nothing moves it
  back in the same process.
- `lastRun` and the notification throttle are not kept: no step reads them.

`CasStore`

- `doc` is one document; its content is the set of calls whose write it carries,
  which is exactly what a lost update loses. Every call makes one operation, read
  and write apart, and its reply may be lost after its write has taken effect.
- The store's `update` and the engine's `upsert` share `Read`, `Swap` and
  `LosesRace`; the engine's `create` and `importCreate` are `Insert`; `consume` and
  both deletes are `Delete`.
- `era`, `wiped`, `writes` and a copy's `fresh` are history: they are never read by a
  guard.

`Bridge`

- `row` is the pairing's row in `bridge_pairings` (absent, paired, revoked). A connection
  is an admitted token, which its nonce lets through once, and the socket it may become.
  `phase` walks it through the awaits of `onUpgrade` (`Admit`, `Precheck`,
  `RegisterReads`, `RegisterWrites`, then `RefuseRevoked` or `Attach`); `snap` is what its
  `registerPairing` read, and a `hello` frame makes the same read and write once more.
- `live` and `alive` are the live-socket map's entry; `lost` is what only the world
  knows, that a machine has vanished without a close. A socket that is closing still
  receives, and swallows what is sent on it, until its close event.
- `CloseEvent` is the whole close handler: the entry goes only if it is this socket's,
  the filter and the calls in flight go whichever socket they belong to.
- A call is a daemon step (`StepStarts` to `Invoke`) or a delegation (`Delegate`,
  `Sign`); `on` is the socket its frame went out on. Both settle through the same
  once-only `settle`.
- `raced` is history: a registration or an admission lay across the revocation.

`Builds`

- `row` is the job's row, `run` its entry in the registry (`finalized` is "final"),
  `holder` the reservation of the session, `timedOut` and `cancelled` the entry's flags.
- `step` follows the handler and then `executeBuildJob`: the awaits of the POST, the
  first write, the preparation (allowance, scaffold or revalidation, routing; several
  awaits with the same two exits), the agent with its one retry, the wrap-up after
  `clearTimers`, and the three terminal writes. `Finishes` is `finalizeOnce`, the frame
  and the beginning of the write; `WriteThrows` is that write throwing into the `catch`.
- Wall clock and inactivity watchdog are `TimesOut`; the reservation's TTL, which is
  longer than the wall clock, expires only after the agent has returned
  (`ReservationExpires`).
- A write of the row that throws may have reached the database or not (`Fault`). `Swept` is
  what the boot sweep writes, the same "failed" that the pipeline writes.
- `expired`, `late` and `stale` are history: which jobs outlived their reservation, were
  cancelled after the last look at the signal, or waited for the second check while another
  follow-up registered. So are `hurt` (a write of the job threw since the last boot), `unsaved` (its
  terminal write threw, or a crash came while it was under way) and `swept` (a boot ended it).

`VerifiedSync`

- `watermark` and `seen` are the state row, `landed` the items stored. The report a run
  writes last is read by views only and is not kept.
- The source is external: `Publish` shows an item no later than `Lag` after its date,
  `Answers` says what a walk may return, which is what the contract at the head of
  `verified-sync.ts` asks of a source: all that was visible when the walk began if it
  reached the end, any part of what is visible otherwise.
- `phase` and the locals `until`, `since`, `known`, `swept`, `todo`, `proof` are those of
  `runVerifiedSync`; `Advance` and `Absorb` are the compare-and-swap of `mutateState` on the
  row as it then is. `pruneSeen` is `Pruned`: past the margin, then the oldest beyond the cap.
- `RunDies` is a land or a write that throws, or the end of the process, at any point.

`AutomationRuns`

- `row` is the run's document: its status, where `credentialRequest` says a resume
  begins, and the step whose command `consentRequest` shows. `approved` is
  `approved_commands`, a command being known by the step it belongs to.
- A pass is one call of `runAutomation`; passes are numbered as they begin. `signals` is the
  entry of the signals map, i.e. which pass it belongs to; `signed`, `cancelled`,
  `resumed` and `once` are the fields of the `RunSignals` of each pass under way. The first
  pass of a run that a trigger or a schedule started has none.
- `phase` walks a pass through the awaits that a request can fall between: `Load` and
  `Mark` before the engine's `try`, the step, the two writes of `haltForCredentials`
  (`Halt`, `HaltDone`, after which the waiter is registered), the wait for a consent or a
  human (`AskConsent`, `Pause`, `Poll`, `Resume`), `finalize` (`End`), the `catch` (`Fail`) and the
  `finally` with what the caller awaits before it drops the signals (`Close`). What a step
  does is a choice: done, failed, halted, parked, or waiting for its owner.
- `calls` are the requests and wakes between the read of the row and the act on it:
  `resumeRun`, `redispatchRunAwaitingCredentials` and `resolveConsent` all read first, and the
  row may move before they go on. They are a bag: two equal ones are two. `cancelRun` and the
  answer "stop" look at nothing in the row but its owner, so they are one action.
- `Restart` is the end of the process and the boot sweep, which runs before the server listens.
- `shown` and `odd` are history: commands put to the owner (or approved in earlier runs),
  and what befell the run since its last dispatch.

Operators whose comment begins with "Mutant:" are faulty variants of the
definition that follows them. No specification uses them; they exist so that
each property can be seen to fail when the code is wrong.

## 3. Runs

| Run | Instance | Properties | What it shows |
|---|---|---|---|
| `delivery` | 1 process, 2 events, 1 slot, 1 retry, 2 boots, fairness | `TypeOK`, `FlightsHoldTheirRows`, `RepeatNeedsLoss`, `Settles`, `ImplementsWorkItem` | the pipeline as deployed, through crashes, shutdowns, lost writes and dead letters, and a recovery that throws; recovery against a drain that a webhook started. `Settles` leaves out one case by name (`Unserved`): a due row of a pipeline whose recovery threw, until a webhook or a restart |
| `delivery_overlap` | 2 processes, 1 event, 1 slot, 3 boots | `ClaimExclusive`, `SlotsBounded` | an overlapping deploy: one winner per attempt; an event handed back by the other process while its delivery hangs does not take a second slot |
| `delivery_rest` | 1 process, 1 event | `RestRecovers` (violated) | a delivery cut off by a shutdown is not recovered by an early boot |
| `schedules` | 1 process, 1 schedule of either kind of target, 2 instants, 1 slot, ceiling 2, 1 edit, 1 fault, fairness | `TypeOK`, `AtMostOnce`, `PauseAgrees`, `DeferralKeepsGrace`, `StopDrains`, `FiredOrMissedLeavesRow`, `ImplementsWorkItem`, `DueIsServed` | the rail as deployed |
| `schedules_once` | 1 process, 1 schedule, 3 instants, 1 edit | `OnceLeavesTrace` (violated) | a one-time schedule inside a cooldown vanishes |
| `store` | 4 calls of any kind, 2 tries | `TypeOK`, `LossesHaveWinners`, `CleanSwap`, `AtomicToCallers` | compare-and-swap loses nothing it should keep; until the first put or removal a call is one atomic step |
| `store_mixed` | 3 calls of any kind | `NotSilentlyLost` (violated) | a removal, an insert and a stale swap lose an acknowledged write |
| `bridge` | 2 connections, 1 call, 1 revocation, fairness | `TypeOK`, `OpenIsLive`, `PendingHasSocket`, `RevokeSticks`, `CallsSettle`, `DeadIsDropped` | redials, vanished machines, a revocation at any point of a connect, and a call across all of them |
| `builds` | 2 jobs of any kind, 2 faults, fairness | `TypeOK`, `ToldIsStored`, `AbortHonoured`, `FirstBuildsExclusive`, `FollowUpsOverlapOnlyInChecks`, `JobsEnd` | every race for the end of a job, with writes that throw, landed or not; the row a boot sweep writes over what the stream was told, and when; admission of the second while the first is anywhere |
| `builds_twice` | 2 jobs, no fault | `FollowUpsExclusive` (violated) | two follow-ups of one application are built at once |
| `sync` | 2 processes, 2 items, 3 runs, 3 instants, lag 1, skew 1, cap 1 | `TypeOK`, `SeenIsLanded`, `NoSilentMiss` | late items, cut walks, deaths and overlapping processes leave no gap |
| `autoruns` | 1 run of 2 steps (a command, a page), started by a user or by a trigger, 3 passes, 2 calls in progress, 1 pause, 1 fault, fairness | `TypeOK`, `PassesOverlapOnlyInTeardown`, `AtRest`, `ApprovalsWereShown`, `EndedStays`, `CancelEnds` | resumes, wakes, answers and cancels at any point of a pass, its halt and its teardown |

Deadlock is checked in every run except those of `CasStore`, `Builds`, `VerifiedSync` and
`AutomationRuns`, whose calls, jobs and runs end.

### Bounds, and why they are enough

- `MaxInFlight`/`MaxConcurrent` is 1 where the slots are in question: with one busy
  the other event (or occurrence, or run-now) meets a full pool, and a pool that lets
  one too many in shows with two flights. That a second delivery of the same event
  never starts, whatever the slots, follows from `FlightsHoldTheirRows`, and
  `SingleDelivery` proves it.
- `MaxRetries` is 1: first attempt, one retry, exhaustion.
- `MaxBoots` is 2 or 3: a first life, and a recovery after it; 3 lets both processes
  start and one restart. A recovery throws, a stop and a crash come only while a boot is left
  (`boots < MaxBoots`), so the last life of a behaviour shows what a sound start makes of it; the
  life before may stay stalled for ever, since nothing obliges the restart.
- `MaxTime` 2 with `Grace` 0: an occurrence may be on time or stale, a slot may be
  freed before or after the next instant. `schedules_once` needs a third instant. Two
  instants are too few for one behaviour of `DeferralKeepsGrace`: an occurrence put off, then
  claimed, its advance lost, its schedule deleted with its rows while a pass still holds the
  old snapshot. The proof of `QueueingKeepsGrace` met it; a deletion now ends the put-off it
  concerns (`deferred`, a history variable), and the theorem holds for any `MaxTime`.
- `Ceiling` 2: one failure is survived, the second pauses.
- `MaxEdits` and `MaxFaults` 1: each property's hazard is one edit or one fault at
  any point; two of the same kind are left to later work.
- Four calls in `store`: two losers and a winner of one race plus a call that wipes.
- Two connections in `bridge`: the one that is live, and the one that replaces it or
  races the revocation; a third would meet what the second met. One call meets every
  state of both sockets; calls do not touch one another.
- Two jobs in `builds` and two faults: a failed write and a crash in one behaviour. A
  third job is needed for one hazard alone, a late release that frees a newer
  reservation for yet another POST; the theorem `OneFirstBuild` covers it.
- Two items, three runs and `Cap` 1 in `sync`: one item pruned by the cap, a run that
  overlaps another, and one afterwards; `Lag` = `Skew` is the limit the contract allows.
- Two steps in `autoruns`: a resume at the first step is not told from a start, one at the
  second is; the first runs a command, the second needs the page. Three passes: a wake read
  before the second pass may be dispatched after it has ended. Two calls: one that reads and
  one that acts in between. One pause, one fault: a pass that is paused and goes on, a write
  that fails or a restart at any point.
- Two processes that see the same occurrence due are not run for `Schedules`: every safety
  property of it, and its refinement, is proved for any number of them.
- Every clock, edit, boot and fault counter is capped in a guard marked `\* bound`.

### Fairness

`Delivery`: the interval of `startDelivery` keeps firing while the process is up; a
promise that can settle settles; a process that is down is booted again while boots
are left, a shutdown runs to its end, and a boot until its recovery is over or has thrown
(`RecoverThrows` is never obliged, and disables the rest of the boot); a backoff and a row's age
elapse with time. The loop's two store calls have strong fairness: `claimNext` may
throw any number of times, and is then called again by the next interval, but it
does not throw for ever. Nothing obliges a crash, a stop, a webhook or a lost write
to happen.

`Schedules`: the interval ticks, a pass and a fire go on, a target answers in the
end, a stopped process exits and is started again. The clock, the owner and
faults are not obliged to anything. A target that hangs for ever is excluded by
this assumption: the code has no timeout of its own around a fire, and with every
slot held by such a target `DueIsServed` would not hold. Weak fairness is enough
here: a pass that throws is counted as a fault, and faults are bounded.

`Bridge`: the store and the vault answer, the heartbeat interval fires, the timers of the
calls fire (`INVOCATION_TIMEOUT_MS`, `DELEGATION_AWAIT_TIMEOUT_MS`), a socket that is closing
gets its close event (`ws` bounds a close handshake by itself). No machine, owner,
revocation or caller is obliged to act, and pongs may arrive for ever.

`Builds`: awaited calls return, the watchdogs fire, and a process that died is started
again. An agent that nobody aborts may go on for ever.

`AutomationRuns`: the awaits of a pass return and a waiting pass polls (every 250 ms,
`engine.ts:3508`). No request, wake, restart or fault is obliged to come, and a step may ask its
owner for ever.

`sync` states no liveness: a source that is always cut short never proves a run
complete, and nothing in the code promises otherwise.

## 4. Findings

Four statements of the repository that the code does not keep; each is a run that
ends in a counterexample, and is described in `PROJECT.json` under `findings`.

1. "The rest recovers next boot" (`delivery.ts:145`, `server.ts:2322`): only if that
   boot comes ten minutes or more after the claim.
2. "Vanishing without a trace is the one outcome a missed one-time schedule must
   not have" (`supervisor.ts:12-13`): the cooling branch does it.
3. "Updates are CAS on a `_rev` field" (`store.ts:6`), "a concurrent write cannot be
   silently lost" (`sync-state.ts:167-168`): `_rev` starts again at 0 after a
   removal, so a stale swap can match. The same holds of a `put`, which writes its
   caller's copy without comparing.
4. "One follow-up build per artifact: reject a concurrent build targeting the same
   artifact" (`build.ts:188-189`): two POSTs that wait for the store at the same time
   are both admitted, because the registry is asked before that wait and not after it.

Others, met while modelling, without a run of their own:

- "The delivery pipeline drains in-flight dispatches" (`server.ts:2322`): `stopDelivery`
  clears `running` and takes its snapshot while the drain loop may be awaiting
  `claimNext` (`delivery.ts:114`); a claim that then wins is dispatched outside the
  snapshot and cut off by the exit. `StopWindsDown` says that this is one
  claim at most, and `StopsWindDown` proves it.
- `startDelivery` sets `running` and awaits `recoverStuck` with nothing around it
  (`delivery.ts:138-139`). If the store fails there, the interval is never armed, no drain starts,
  and a second `startDelivery` returns at line 137; `server.ts:2284` voids the promise and
  `server.ts:2272` logs the rejection. The process goes on serving, and a due row waits for a
  webhook or a restart. `Settles` exempts exactly such a row (`Unserved`).
- `markDead` of an unbound trigger (`delivery.ts:86`, `92`) is inside the `try`. If it lands and
  throws, line 98 makes a failed attempt of it and `markFailed` (105) turns the dead row into a pending
  one, which is work again. The row says dead for a moment while its dispatch is
  still at work; the refinement counts it as taken until that is over.
- A job whose stream was told complete may be stored as failed: the write of "completed" throws
  without landing, or the process dies before it lands, and the boot sweep finds the row open
  (`jobs.ts:132-140`). `ToldIsStored` allows this for exactly such a job (`unsaved`).
- `supervisor.ts:34-35` says the owner's next edit clears the failure counter;
  `patchSchedule` clears it only for `enabled: true`. `Patched` follows the code. No property
  tells the two apart: a streak that is kept leaves pause, pointer and counter in agreement.
- `registry.ts:140-142` of the bridge says a revoked pairing stays revoked forever; a
  connect or a `hello` that has read the row before the revocation puts the unrevoked row
  back after it. `RevokeSticks` exempts exactly these two overlaps (`raced`).
- The late close event of a replaced socket fails the calls already sent on its
  successor and disarms the ingress filter armed for it (`server.ts:262-276`).
- The zombie net of a build (`build.ts:1064-1070`) cannot act: every path to it has
  taken `finalizeOnce`. When a terminal write throws without landing, the row stays `running` until
  a boot sweeps it, and blocks further follow-ups of its application until then. When the
  first write of a POST throws, its registry entry and reservation stay until a restart
  or the TTL.
- A cancel that comes after the agent has returned is acknowledged and the job
  completes. `AbortHonoured` exempts it by name (`late`).
- "The run survives an api restart, a deploy" (`engine.ts:1087-1088`, of a run parked for a
  credential; `credential-waiters.ts:14-16` agrees): `sweepOrphans` (`jobs.ts:145-154`), called
  before the server listens, fails every run that has not ended, the parked ones too.
- "A live signal set IS the 'a pass is already in flight' fact" (`service.ts:965-976`): the first
  pass of a run started by a trigger or a schedule has no signals (`service.ts:1281-1292`), so
  a resume during its halt or its teardown starts a second pass beside it, and a failure the
  first one still records lands on the second one's row. `PassesOverlapOnlyInTeardown` exempts
  exactly that, and a pass without signals that meets a consent gate is cancelled at once.
- A cancel is acknowledged, and the step under way then parks the run: its waiter is
  registered after `cancelRun` cleared it (`service.ts:897-899`), and a later credential wakes
  the cancelled run. Of a run already parked a cancel takes the waiter and answers
  `{cancelled: false}`; the row stays parked, and a resume runs it (`unparked` in the model).
- A wake that comes while the pass that parked the run is still tearing down is refused,
  after its one-shot waiter was dropped: no later credential wakes the run, only its owner
  can (`missed`). `AtRest` exempts this and the last case by name.
- A resume from step 0 does not put the row back to running (`engine.ts:537-564`): the run works
  while its row says it needs credentials.
- A resume, or an answer to a consent that is no longer asked for, raises the flag of
  whatever pass is in flight (`service.ts:1102-1103`); its next pause then goes on unanswered.
- When the insert of a new run throws, its signals stay in the map (`service.ts:666-683`), and
  when the engine throws before its `try`, or recording a failure throws, the row says running
  until a boot sweeps it (`unwritten`).
- A run of the verified sync that is certified by its count alone may have missed an
  item and caught another published meanwhile. No source advertises a total today
  (`citius-sync.ts` leaves it out on purpose), so `NoSilentMiss` exempts it (`trusted`).

## 5. Proofs

All proofs are checked by TLAPS with no fact taken on trust; constants are bound
only by the named assumptions of the modules (`DeliveryAssumption`,
`SchedulesAssumption`, `CasStoreAssumption`, `BuildsAssumption`, `SyncAssumption`,
`AutomationRunsAssumption`; the theorems about `Bridge` need none), which TLC evaluates on every run. The bounds that
TLC needs (`MaxTime`, `MaxFaults`, `MaxPasses`, ...) are constants of the theorems too, so each holds
however large they are.

`DeliveryProofs`

- `TypeCorrect`: `TypeOK` is inductive as it stands: `VariablesOK` gives the types,
  `PhasesOK` ties the positions of the loop and of the process to the data they
  carry. One lemma per half, one step per action.
- `ClaimsExclude`: at most one flight per attempt of an event, for any number of
  processes. `ClaimExclusive` alone is not inductive: a claim could repeat the number
  of an older flight. `ClaimInv` adds `AttemptsCounted`: no flight carries a number
  beyond what its row counts, so the number a claim puts on the row is new. Most
  actions start no flight and lower no count, which is one lemma (`NoNewFlight`).
- `SingleDelivery` and `QueueImplementsWorkItem`, under the assumption that there is
  one process (as deployed; with two, a boot of one may hand back a row the other
  has been delivering for ten minutes). `SoloInv` carries
  `FlightsHoldTheirRows`: a flight's row is still dispatching at its attempt until the
  flight settles it, or dead by the flight's own dead letter that landed and threw
  (`RefusalLost`, `RefusedUnbound`); no row of a flight is old while the process boots, and
  recovery holds only rows without a flight. `OneFlightPerEvent`, at most one delivery of an
  event under way, follows from it. The refinement proof goes event by event: a step leaves
  an event as it is or makes one `WorkItem` move of it (`Moves`), by one lemma per way to
  move it: claimed (`RowTaken`), let go by its dispatch (`HandedOver`), still at work
  (`StillInHand`), not concerned (`Untouched`).
- `SlotsHold`: for any number of processes. `SlotsInv` adds that a drain loop that is not idle
  has a slot free for the row it may win.
- `StopsWindDown`, for any number of processes and slots, follows from the types, action by action:
  only `TryClaim` starts a delivery, and only a process that runs enters its loop (`StoppedEntry`).
- `RepeatsAreLosses`, for one process: `BudgetInv` says of each event what it has used up. A
  row that may still be claimed has an attempt and an answer left (`Owing`), a delivery in
  progress has its answer left until its target has said ok, and a row without a delivery has
  been counted as a loss. It rests on `SoloInv`.

`SchedulesProofs`, for any processes, schedules, slots, grace and ceiling

- `TypeCorrect`: `TypeOK` with the clock within its bound (`Typed`). That the backoff is a
  number needs a word, because the prover knows nothing of exponentiation: `BackoffType` takes
  the power of two as the number of subsets of an interval.
- `FiredAtMostOnce`: `AtMostOnce` alone is not inductive. `OnceInv` adds that a fired
  occurrence has its row (`FiredIsStored`), that a claim in hand has its row and has not been
  fired (`ClaimIsFresh`), that no two passes hold the same claim (`OneWinner`), and that rows
  are deleted only for schedules that are gone (`PurgesGone`). All but two actions win no
  claim and fire nothing, which is one lemma (`Undisturbed`).
- `PauseCorrect`: every write of a schedule is one of five (`DocsWritten`), and each keeps
  pointer, counter and switch in agreement.
- `ShutdownDrains`: few steps touch a process's life or its fires (`LivesAndFires`); a stopped
  process has no pass to launch a fire from, only its owner can still ask for one, and `stop`
  returned when none was left.
- `QueueingKeepsGrace`: the longest argument. Two laws say how one step changes a schedule's
  pointer and a row (`PointerLaw`, `RowLaw`). `GraceInv` says of each process that the clocks of
  its pass lie in the past (`ClocksPast`), that the pointer has not fallen behind what the pass
  has read (`ReadOK`), and that an occurrence it put off stays in its sight, first seen within
  the grace, unless it has been taken or left behind (`PutOffOK`). What a process does not do
  itself keeps all three (`PassUndisturbed`).
- `FiredOrMissedIsRecorded`: what a pass has in hand when it advances has its row stored
  (`InHandIsStored`).
- `ImplementsLifecycle`: each occurrence maps to a `WorkItem`; no step recreates a removed row,
  because rows are removed only with their schedules (`RemovedAreGone`), and no occurrence ends
  twice. It needs no assumption on the number of processes, unlike the event queue: the timer
  rail never hands a claimed occurrence back.

`CasStoreProofs`, for any calls, operations and retry bound

- One inductive invariant, `IndInv`, carries the first four theorems. `TypeCorrect` is its
  first part.
- `LossesMeanProgress`: `LossesMatched` says that a call about to lose (its copy is
  outdated) is already matched by a write, so the loss cannot overtake the count.
- `NoLostUpdate` and `SwapsAreClean` rest on `CopiesAgree`: among copies no put or
  removal has outdated, equal revisions mean equal content and the document's
  revision has only grown. `SteadyIsFresh` says that before the first put or removal
  every copy is of that kind.
- `NoLostUpdate` says of `AtomicToCallers`, which the run checks, what matters most to a caller
  (`AcknowledgedStays`): what has taken effect stays.
- `ConditionalWritesAreAtomic`: `AtomicInv` adds to `IndInv` that, until the first put or removal,
  a call that is not over has not taken effect; then a swap that wins lands on what it read
  (`CopiesAgree`), which is the one step of `AtomicDocument`, and any other step is
  invisible, a refusal on what is there, or an end without effect.
- `ImplementsAtomicDocument`: a document that meets nothing but inserts, updates and upserts
  implements `AtomicDocument` outright. This is why the rails may take an update of their
  documents for one step. With a put or a removal in between, the refinement fails, as
  `store_mixed` shows.

`BuildsProofs`, for any jobs and faults

- `TypeCorrect`, `TerminalOnce` and `AbortsCount`: a job's state is a point of a small
  graph, and most actions move one job. `JobInv` says of each job how its step, its
  entry, its row, its frames and its flags go together, with which of its writes threw or
  were cut off (`hurt`, `unsaved`) and whether a boot ended it (`swept`); lemmas prove it for
  the job that moves and show that it stays true of the others. A frame and a row that disagree
  need all three: a frame sent, a terminal write that did not land, and a sweep.
- `OneFirstBuild`: a first build that is under way holds the reservation, or has
  outlived it (`Reserved`). A reservation passes to another job only when it has expired
  or its holder has finished.
- `OneWayIn`: `CheckedBehind` says of a follow-up between its two checks that whoever
  builds registered behind it, and of two that build that one has done so.

`VerifiedSyncProofs`, for any processes, items, lag, skew, margin and cap

- `NothingMissed` is the completeness argument of the file's header made exact. The
  invariant `SyncInv` says of a run: what its window held when it began
  is in its walk once the walk has reached the end (`EndCovers`); what it has walked has
  landed or is still to land (`SweptIsLanded`); an item dated before its ceiling was visible
  by then, because the ceiling lies `Skew` back and the source is at most `Lag` <= `Skew` late
  (`Published`, `CeilingHeld`); and what lies before the window has landed already
  (`WindowCovers`, from the watermark the run read). Together, everything before the
  ceiling has landed when the watermark moves to it.
- `SeenSetSound` is part of the same invariant.

`BridgeProofs`, for any connections and calls

- `TypeCorrect`, `OneOpenSocket` and `WaitingIsReachable` are one invariant (`SocketInv`): a
  socket leaves the live map only by being closed or by its close event, and that event takes
  every waiting call with it, so what waits afterwards was sent on a later socket.
- `RevocationIsFinal`: `RevokeInv` keeps, with the tombstone and the empty map, that after a
  revocation nothing overlapped no connect holds an unrevoked row in hand.

`AutomationRunsProofs`, for any recipe, passes, requests, pauses and faults

- `TypeCorrect`: `TypeInv` adds to the types what the signals map means: exactly the pass it
  holds has signals, and that pass lives, or its run was never inserted (`MemoryOK`); a pass at
  a step is at one of the recipe's (`PassesOK`). The bag of calls is dealt with in four lemmas
  (`CallBegins`, `CallReturns`, `CallBecomes`, `NoCalls`).
- `OnePassAtWork`: `OverlapInv` says that only the first pass may live without signals, and
  that while it is at work the run is not parked and no resume or wake is under way.
- `ParkedRunsCanBeWoken`: `RestInv` is the claim as soon as no pass is working, teardown not
  counted: `HaltDone` registers its waiter before the pass starts to close.
- `OnlyShownCommandsAreApproved`: `ShownInv` extends the claim to what the row asks for and to
  the answers under way.
- `EndsAreFinal`: `EndedInv` says that a resume or a wake in progress has seen a parked row, so
  an end in between shows at its dispatch, and that unless dispatches overlapped the pass that
  recorded the end is the only one and writes nothing more but a failure.

Only model-checked: liveness (`Settles`, `DueIsServed`, `CallsSettle`, `DeadIsDropped`, `JobsEnd`,
`CancelEnds`), since fairness and ENABLED are out of the prover's reach, and the
counterexamples of section 4, which are statements about one behaviour. Every invariant, action
property and refinement that a passing run checks is a theorem.

## 6. Not modelled, and why

- Calendar and time-zone arithmetic, signatures, dedup-key derivation, formatting,
  audit and notification texts: data no property here tells apart.
- Other rails' part in the shutdown: `stopDelivery` returning, or its 30 seconds being
  up, lets the process exit (`Shutdown`), whatever the other stops are doing.
- Queries over many documents read each collection at one instant. A Mongo cursor
  may in fact interleave with writes; every claim re-checks its row, so a stale
  read is a lost claim, which the models have.
- `Bridge`: the choice among several machines of one owner, capability grants (a grant
  is an answer that may be no), ceremonies and provider requests, which keep no state
  across the handlers modelled.
- `Builds`: the application's status row, steering, the display frames of the stream, and
  the automation runs that the boot sweep closes in the same way.
- `AutomationRuns`: what a step does in the browser or through the daemon, the fixes and
  rehearsals, wall-clock budgets (a budget that is spent is a step that fails),
  sub-automations, the retry of an action after its learning run, the idempotency keys of
  `startRun`, edits of the recipe, the expiry and revocation of approvals, and runs that a
  daemon or an integration parks, which nothing resumes.
- `VerifiedSync`: streaks, last outcome and the reports, which only views read; the fallback of `mutateState` for a row deleted in
  between, since nothing deletes one; the listener supervisor.
- The components with status `not_modelled` in `PROJECT.json`, each with its reason.

## 7. Plan

Done: `WorkItem`, `Delivery`, `Schedules`, `CasStore`, `Bridge`, `Builds`, `VerifiedSync`,
`AutomationRuns`, and the proofs above.

Next, in this order:

1. The listener supervisor (cursor after enqueue, the put of `bumpListenerFailure`), with its
   theorem that no item behind the cursor was skipped.
2. An abstract specification of a build job and its refinement.
3. Billing admission.

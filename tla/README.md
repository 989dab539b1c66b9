# A TLA+ development of the gsv Gateway: processes, Kernel, adapters

These modules model the parts of the repository that keep agents working:

- the Process Durable Object (`gateway/src/process/do.ts`, `store.ts`), which
  admits messages, runs the model, dispatches its tool calls, asks for
  approvals, takes events while it is busy and reports every finished run;
- the Kernel's durable protocols (`gateway/src/kernel/`): calls between
  processes, the scheduler, requests to devices, and the way of an inbound
  message to a process and of its answer back;
- the two ledgers of the messaging adapters (`adapters/shared/src/`), for
  inbound messages and for outbound deliveries.

Paths in the text are relative to `src/`; a bare `do.ts` is the process'.

Why these: each object is single-threaded, but each of its handlers awaits, and
between two awaits any other handler may run, an alarm may fire, or the object
may be evicted and constructed anew from its SQLite tables. Almost every promise
the code makes depends on what is read before an await and written after it.

- [Inventory](#inventory)
- [Modules](#modules)
- [Runs](#runs)
- [Fairness](#fairness)
- [Proofs](#proofs)
- [Where the code and what is said of it differ](#where-the-code-and-what-is-said-of-it-differ)
- [Not modelled](#not-modelled)
- [Plan](#plan)

## Inventory

| Component | State | Operations | Hard because | What makes it correct |
|---|---|---|---|---|
| Process: run lifecycle | `currentRun` (one row of `process_kv`), `message_queue`, `messages`, schedule rows of the host; in memory the lifecycle lock, the admission chain, `activeTickRunIds`, `deferredTickRunIds` | `proc.send`, `proc.ipc.deliver`, `prepareRunMedia`, `tick`, `finishRun`, `proc.abort`, `proc.reset`, `proc.kill`, constructor | six ways to end a run, two locks, awaits in reset and kill, host calls that may be refused, restarts | a run is admitted once, ends once, is reported once; the queue moves whenever a run ends; an active run always has something to move it |
| Process: tool loop | `pending_tool_calls`, `pending_hil` (one row), deadline rows; in memory ticks, loops, CodeMode executions and their approval promises | `runTick`, `processToolCalls`, `beginToolDispatch`, `launchToolDispatch`, `handleRes`, `onToolDispatchTimeout`, `proc.hil`, `waitForCodeModeApproval` | loops over snapshots with awaits inside, several loops at once, late answers, restarts | a call is executed at most once and only when permitted; each call has one result when the model is called; the run is never stranded |
| Process: runtime events | `pendingRuntimeEvents`, `HANDLED_IPC_CALLS`, `ABORTED_RUN_IDS` | `handleWatchedSignalTriggered`, `handleProcScheduleDeliver`, `handleIpcSignal`, `handleRuntimeEvent`, `buildGenerationContext`, `finishRun` | events arrive at every await of the tick; repeated deliveries; stale copies of the run record | an event is read by a generation or wakes a run; a reply is taken once |
| Process: run-finish outbox | one JSON array in `process_kv`, retry rows | `emitRunFinished`, `onRunFinishDelivery`, constructor | the array is read before a send and written after it; deliveries overlap | every finish arrives or is given up with a note; counters are honest |
| Process: compaction, context pressure, provider ordering | checkpoints, archived segments | `normalizeCompactionCut`, `orderMessagesForProvider`, ... | pure algorithms with pairing constraints | a cut never splits a call from its result |
| Kernel: IPC calls | `ipc_calls` rows with a claim (`delivery_started_at`), deadline rows, delivery rows | `proc.ipc.call`, `completeIpcCallsForProcessSignal`, `failIpcCallsByTarget`, `onIpcCallTimeout`, `deliverIpcCall`, `cancelBySourceRun`, `recoverDeliveryIds` | a send that throws may have been admitted; a finish, a deadline, an abort and a restart race | one verdict, told to the source, and nothing more than that unless a delivery failed |
| Kernel: scheduler | `schedules` rows, wake rows of the host | `sched.add`, `sched.update`, `sched.remove`, `sched.run`, `onScheduleDue`, `markRunning`, `finishRun` | a dispatch awaits its target while users update, force and remove; crash between running and recording | one dispatch at a time; retries keep their key; what is enabled has its wake |
| Kernel: request routing | `routing_table` rows, expiry rows; in memory the requests under way and remembered cancellations | `routeToTarget`, `requestDevice`, `handleRes`, `onRouteExpired`, `cancelRequest`, `onClose`, `disconnectDeviceConnections` | late results, reconnects that replace a connection, cancellations that overtake requests | a request ends once; no device works for nobody |
| Kernel: run routes | `run_routes` rows | set, use, delete | a route has to outlive every retry of its answer | a finished run is answered, or its process is told |
| Kernel: ingress receipts, adapter handlers | leased receipts with a claim token, a checkpoint, a result | `handleAdapterInboundForAccount`: claim, checkpoint, complete, abandon, replay | leases expire while the owner works; the process may have acted although the call failed | one effect and one result for each inbound message |
| Kernel: signal watches | watches with expiry | watch, trigger, expire | once-only triggers | a watch fires at most once |
| Kernel: dispatch, connections, processes, accounts, auth, capabilities, config, devices, AI configuration, skills, repositories | SQL tables | syscalls | mostly sequential | lookups and permission checks |
| Inference, native drivers, CodeMode host | none of their own between requests | generate, file system, shell | external protocols | external here |
| Adapters: delivery ledger | one record per delivery id, a count, a pruning time | `claim`, `succeed`, `failAmbiguous`, `failPermanent`, `releaseRetryable` | repeated and overlapping sends, restarts, expiry, capacity | at most one message per remembered delivery; what a repeat is told is true |
| Adapters: sends (Telegram, Discord, WhatsApp) | none | send | a provider's failure may hide a success | failures are classified correctly |
| Adapters: inbound delivery, alarms | one record per message, with the responses still to send | `enqueueAndArm`, `attempt`, `deliverResponses`, `clear` | attempts that outlive a `clear`; the answer of the Kernel lost | the record stays until the Kernel has settled the message |
| Client package, CLI and device, extension, web UI, ripgit | connections, pending requests | | reconnects | |

How they interact: an adapter hands an inbound message to the Kernel, which
sends `proc.send` to a process; the process sends syscalls (tools) and signals
(`proc.run.*`) to the Kernel; the Kernel routes syscalls to devices and other
processes, tells processes of ended IPC calls, triggered watches and schedule
occurrences, and hands finished answers to the adapter that owns the surface,
which sends them through its ledger. Calls between Durable Objects can be
repeated, and can fail after they took effect.

Everything in this code that is hard to test is listed under `hazards` in
`PROJECT.json`, with its line and the properties that are about it.

## Modules

`X.tla` specifies a component, `MCX.tla` declares what TLC needs for it,
`X_<question>.cfg` is a run, `XProofs.tla` holds theorems. An action is the code
between two awaits, with every storage write it makes. Operators called
"Mutant of ..." stand beside the definition they vary: each is a plausible slip
in that code, and replacing the definition by it violates a property of the runs.

### The process

**RunLifecycle** is the process as a queue of runs. `lock` is
`acquireLifecycleTransition`. Holders that do not await between their writes are
one action; `proc.reset` (`ResetBegin`, `ResetEnd`) and `proc.kill` (`KillBegin`,
`KillNoticeFails` or `KillClear`, `KillWipe`) are several, and while they hold
the lock only what does not ask for it can go on. `waiting` is the admission
chain of background work. `Conclude` is the tail common to `finishRun`,
`proc.abort` and `failPendingMedia`. `ticks` and `watches` are rows of the host's
durable scheduler; `failing` and `unfit` are the promise handlers that a refused
row leaves behind, which a restart forgets. `media` is
`pendingMediaMessageId`: "stored" while the message still has its media,
"cleared" once a failed preparation removed them. What a tick does is reduced to
"calls tools", "answers" or "returns".

**RunProtocol** is what a process promises to those who send it work: start,
queue, supersede, finish, wipe. RunLifecycle implements it under
`active <- current, backlog <- queue, done <- finishes + killed`
(`KeepsTheProtocol`).

**ToolLoop** is one run in detail. `row` is the status of each `pending_tool_calls`
row, `hil` the one `pending_hil` row, `loop` each `processToolCalls` in progress
(the tick's and those of `proc.hil` handlers): the call at hand and the calls left
of its snapshot, taken in the order of the answer. `work` is the dispatch of each
call. `Process` is the loop up to its next await: denied calls fail, an asking call
stores its request and ends the loop, any other call asks the scheduler for its
deadline. Failures end the run: `TickFails` is a `runTick` that rejects after the
answer was stored, `Resume` and `EndTick` may be refused their tick, and
`TickErrorEnds` and `ScheduleErrorEnds` are the catches, which end the run without
ingesting anything (`errored`). `lost` is a tick that was refused where nothing
catches it, in the constructor or for an outdated approval. The approval policy of a
call is its `Kind`; a "codeask" call is a CodeMode execution that makes one inner
request that needs approval.

**RuntimeEvents** is `pendingRuntimeEvents` through the awaits of `runTick`:
`stale` is the run record read at its start, `count` and `context` what
`buildGenerationContext` read before its own await. `read` collects what was in
the context of a generation that answered, `swallowed` what only the context
built after the answer contained. `call` and `source` are the Kernel's record of
delegated tasks, external here (IpcCalls models it).

**FinishOutbox** is the array of undelivered finishes. A delivery (`calls`)
carries the array it read; `KernelReceives` separates the send's effect from its
return, so a send may take effect and fail. A failed one stores the array with the
raised counter (`CountFailure`) and then asks for a retry row, which is stored
(`RetryStored`) or refused (`RetryRefused`), or the object stops in between.
`stranded` are the runs that were refused a row since the last restart.

### The Kernel

**IpcCalls** is the life of delegated tasks. `row` and `claimed` are the row in
`ipc_calls` and its `delivery_started_at`; `timers` and `jobs` are the host's
rows for the deadline and the delivery. `handler` is `proc.ipc.call` between its
awaits, `queued` an idempotent `schedule()` not yet answered, `flights` each
`deliverIpcCall` past its claim, run by a row of the alarm or directly. `told` is
what the caller was answered, `heard` the verdicts that reached the source. The
target is external: it may take a run although the send throws, and signal its
finish twice or never.

**Scheduler** is one schedule: its row (`enabled`, `next`, `running`, `occ` for
the one-shot's occurrence id, `tries`, `wake` for the recorded wake id) and the
host's wake `rows`. The handlers across their awaits are `dispatches` (the target
is being told), `arms` (a wake is stored and its id not recorded yet) and
`updates` (the old wake is being cancelled). A dispatch carries the record it read
at its beginning, as in the code, and what its end writes back comes from there.
`sched.run` of one schedule is `RunNow`; without an id it reads all that is due
(`ListDue`) and awaits one after the other, so by its turn this schedule may run
(`BatchRuns`), be marked as running with nothing to run (`BatchMarks`) or be passed
over (`BatchSkips`); `listed` counts such batches. The calls of the host that store
or cancel a wake are taken to succeed.
The times of cron, `every` and `at` are a next run that has or has not passed.

**DeviceRequests** is the forwarding of requests to a device. `route` is the
request's row in `routing_table` with the connection chosen, `timers` its expiry
row; `fiber` the handler that stores the route or, for `requestProcessNetFetch`,
waits for the answer; `aborted` and `remembered` are the cancellations kept in
memory for a request under way and for one that has not come yet. `link` tells
connections that are listed from replaced, dropped and closed ones; `work` and
`told` are the device's view; `mail` is an answer on its way to a process.

**Ingress** composes adapter, Kernel and process over one inbound message: the
adapter's record and attempt (`inbox`, `rounds`, `attempt`, `clear()` in two
steps), the Kernel's receipt (`receipt`, `result`, `progress` for the checkpoint,
`owner` for the claim token, `held` for the lease) and every `adapter.inbound`
past its claim (`requests`), the reply `route`, the signal of the finish with its
retry `rows` and the failure `notice`. The process is reduced to what RunLifecycle
and FinishOutbox show of it: it admits a run id once and repeats its finish until
that is acknowledged. The message may be answered at once, decide a pending
approval, or open or join a run. `moved` says that the sender is now linked to
somebody else or nobody (`LinkMoves`): a replay that finds it so is refused its
checkpoint and answers without it (`Disowns`).

**MessageProtocol** is what is promised about one message, with no receipts,
claims, leases or restarts in it: at most one effect, one verdict, the verdict
says what the effect was, and nothing comes of the message after it; a verdict for
the sake of the sender's link (`Disown`) says nothing of the effect. Ingress
implements it (`HandledOnce`): `effect` is "run" once the process has admitted
one, "decision" once an approval was decided; `verdict` is the result of the
completed receipt.

### The adapters

**DeliveryLedger** is the outbound ledger with the sends that use it. A ledger
transaction is one action, as in the code. `stored` and `ledger` are the records,
`meta` the maintained count, `accepted` how often the provider took the message of a
record (a delivery id and the record's `createdAt`), `doubts` how often it answered
"try again" although it had taken the message: Discord's 408 and 5xx are released as
retryable (discord-delivery.ts:195-198). `ReleasesDoubts` tells a provider for which
that may happen; `ProviderRecognises` is its nonce, which it may have forgotten. A
send cut off by a restart is "lost": its message may still arrive. The inbound
ledger is in Ingress.

Taken from outside `src/` (each marked external in the map): the host stores a
schedule row when the call is made or rejects it, runs the rows of one object's
alarm one after the other, repeats a row whose callback threw or was cut off, and
deletes it after the callback returned; `crypto.randomUUID` returns an id nothing
refers to; the receiver of a call may handle it and the call still fail; a
provider takes a message at most once per request.

## Runs

`CHECK_DEADLOCK FALSE` everywhere: an idle process, an empty outbox, an answered
message or a ledger out of attempts may stop.

| Run | Checks | Instance |
|---|---|---|
| `RunLifecycle_safety` | `Accounted` `AdmittedOnce` `Unstalled` `NoOvertaking` `KeepsTheProtocol` | a user message (with or without media), a background message, a wake run; 1 tool round, 1 reset or kill, 1 refused host call or restart |
| `RunLifecycle_recovers` | `EveryRunEnds` | a user and a background message; the same bounds |
| `ToolLoop_approvals` | `ExecutedOnce` `OnlyPermitted` `HistoryValid` | answers (auto, ask) and (codeask, deny); two overlapping approval handlers, 1 restart, 1 refused deadline, any tick that throws or is refused; events at every await |
| `ToolLoop_recovers` | `RunEnds` | answers (ask, auto, deny) and (codeask); 1 restart, 1 refused deadline, any tick that throws or is refused; events at every await |
| `RuntimeEvents_safety` | `RepeatsAddNothing` `EventsAccounted` `WakesAreWarranted` | a user message and two events out of a signal, an occurrence, a reply occurrence and two delegated tasks, each repeated; 1 tombstone, 1 tool round, 1 reset |
| `FinishOutbox_safety` | `NoteIsEarned` `OnceWhenQuiet` `LoneFinishSettles` | two finishes, 2 attempts, 1 restart, any retry row refused |
| `FinishOutbox_overlap` | `EventuallySettled` violated | two finishes, 3 attempts, no restart |
| `IpcCalls_safety` | `OneVerdict` `RepeatsExplained` `Pursued` `CancelledSilent` `StartedAnswered` | one call, 3 refused rows or failed sends, 2 restarts |
| `Scheduler_safety` | `OneRunAtATime` `RetriesKeepTheKey` `DisabledStays` `Armed` `DueRuns` | a one-shot or a repeating schedule, 2 attempts, 5 wake ids, 2 updates, runs by hand, batches or restarts |
| `DeviceRequests_safety` | `OneEnd` `NoIdleWork` `CancelHolds` `RequestsEnd` | a request of each kind, three connections of the device, 2 faults, 2 restarts |
| `Ingress_safety` | `OneEffect` `OneResult` `HandedOver` `HandledOnce` `MessageSettles` `AnswerArrives` | one message offered twice, 2 rounds of responses, 3 attempts at the answer, 3 troubles (a lost call, a lease, a restart, a changed link), 1 `clear()` |
| `DeliveryLedger_safety` | `AtMostOnce` `OutcomesAreTrue` `CountIsExact` `NeverForgotten` | three deliveries, two requests, two sends; 2 records, 3 attempts, retention 1, pruning every 2, clock up to 3; `ReleasesDoubts` |

Bounds, by name, and why they are enough:

- `MaxRounds`, `Batches`: a second round of tools begins where the first did,
  after all rows were ingested; two answers let rows of an old round, late
  results and old deadlines meet a new one.
- `MaxResets`, `MaxCrashes`, `MaxFaults`, `MaxRefusals`: one of each lands
  between any two steps. Two restarts in a row are no new case for code that
  keeps nothing in memory. `MaxTroubles` of RunLifecycle bounds faults and
  restarts together, by 1: see the media watchdog under [Not modelled](#not-modelled).
- Three runs let one be active, one queued and one arrive. The theorems about
  the lifecycle hold for any number.
- `MaxRepeats` 2: one original and one repeat. `MaxEvents` 2 of RuntimeEvents:
  any two of the events meet. `TombstoneLimit` (256 in the code) 1 with two
  delegated tasks: the second answer exhausts it and forgets the first task, by
  design, which is the exception that `RepeatsAddNothing` states.
- IpcCalls: calls share nothing, so one is enough; 3 faults let a
  delivery be refused its row, fail, and be refused its retry, and 2 restarts let
  one hit the recovery from the other.
- Scheduler: `MaxAttempts` (10 in the code) 2 separates "retry" from "last";
  `MaxWakes` 5 is more than the ids in use at once with `MaxEvents` 2, so no step
  is cut off for want of one.
- DeviceRequests: requests share only the connections, so one is enough; three
  connections are a first, its replacement, and one after a disconnect.
- Ingress: `MaxTroubles` 3 bounds failed calls, expired leases, changes of the
  sender's link and restarts of either side together: an owner loses its lease, its
  successor loses its call, and the third sees both leftovers. `MaxOffers` 2 is a
  message and its repeat.
- `MaxRecords` 2 with three deliveries fills the ledger; retention 1 and pruning
  every 2 with a clock to 3 let a record expire before and after pruning is due
  and be created again.
- `MaxAttempts` of the outbox, 10 in the code: 2 and 3 separate "retry" from
  "last attempt".

Symmetry is used only in runs without liveness properties, over ids that nothing
distinguishes (minted run ids, delegated tasks, deliveries, requests, sends).

What the runs show.

- *Process.* `Accounted` says each admission is active, queued, finished with
  exactly one report, or removed by kill or reset: a run is never ended by two of
  its six ends, and never silently. `Unstalled` and `EveryRunEnds` say that a
  refused tick, a hung or failed media preparation or a restart still leaves
  someone who ends the run. `KeepsTheProtocol` says callers need to know none of
  this. `ExecutedOnce` and `OnlyPermitted` say that neither the tick and an
  approval racing over one snapshot, nor a restart, nor a request that was
  overwritten lets a call run twice or unapproved; `HistoryValid` that each call
  has exactly one result whenever the model is called (but see below for a run that
  an error ended). `RunEnds` needs nothing
  from the Kernel: deadlines end what is never answered; it excepts a run with an
  approval request that outlived its call (`Orphaned`) and one whose tick was refused
  where nothing catches it (`lost`). `LoneFinishSettles` says that a finish whose
  delivery meets no other is delivered or given up with a note, and excepts only a
  refused retry row. `RepeatsAddNothing` says
  that a repeated delivery changes nothing, `EventsAccounted` that no event is lost
  but in the one way `swallowed` names.
- *Delegation.* Whatever races, the source hears one verdict (`OneVerdict`), again
  only after a failure (`RepeatsExplained`), nothing once it cancelled
  (`CancelledSilent`), and always something when it was told "started"
  (`StartedAnswered`). The exception the properties name, `stranded`, is a direct
  delivery whose retry row the host refused: it waits for the next restart.
- *Schedules.* `Armed` and `DueRuns` say that an enabled schedule is run when it is
  due. What they except (`cut`) is in the code: a restart inside of a run leaves
  the schedule marked as running, a batch that read an old record marks a one-shot
  that has nothing to run, and a run by hand makes the wake that fires meanwhile skip
  the schedule. `RetriesKeepTheKey` lets the target recognise a repetition;
  `DisabledStays` says that the end of an older run does not enable a one-shot again
  that the user disabled (the end of a due run of a repeating schedule does).
- *Devices.* `OneEnd` is over seven ways to end a request. `NoIdleWork` says that
  whenever the Kernel drops a route it told the device, or has no connection to
  tell it over. `CancelHolds` covers the cancellation that overtakes its request.
- *Messages.* `OneEffect` says that a message that is offered, claimed, replayed
  and sent by several owners becomes one run or one decision, never both.
  `HandledOnce` adds that the verdict is true: a message reported as delivered made
  its run, a refused one made none and decided nothing, and no request that
  outlived its lease changes that afterwards. The exception is a verdict for the sake
  of a changed link (see below).
  `HandedOver` and `MessageSettles` say the adapter neither forgets nor keeps it
  for ever; `AnswerArrives` that a finished run's answer reaches the adapter, or
  the process hears that it did not. `dropped` is the case it excepts (see below).
- *Deliveries.* `AtMostOnce` says that repeats, restarts and lost outcomes add no
  copy: one message for a remembered delivery, and one more only for each "try again"
  of a provider that had taken it and has forgotten its nonce. `OutcomesAreTrue` is
  what the attempt id is for: without it a late outcome overwrites another attempt's
  record.

## Fairness

- RunLifecycle: promise chains are served in order (`Admit`, `ResetEnd`,
  `KillWipe`, `FinishRun`, `FailPendingMedia`, `FinishUnscheduled`); alarms fire
  (`TickFires`, `WatchFires`), which is what the durable scheduler is for; a
  generation ends, because the code gives it a timeout and an abort controller;
  a round of tools ends, which ToolLoop shows. Media preparation is *not* fair:
  it may hang, and the watchdog must do. Nobody has to send, abort or reset.
- ToolLoop: ticks, loops and deadlines go on, and a rejected promise reaches its
  catch; CodeMode code ends by its own timeout; a user who is asked answers. The
  Kernel is not fair: it may never answer a request.
- FinishOutbox: a send returns or throws, the host stores or refuses a row, and the
  alarm runs each retry row in its turn (strong fairness, as for IpcCalls).
- IpcCalls: time passes, the host answers, a signal that is sent arrives and
  returns or throws, and the alarm runs each row. The last is strong fairness
  (`TimeoutFires`, `JobFires`), because one row at a time is run and each waits
  while another is. Nothing of the target is fair.
- Scheduler: time passes, wake rows fire, and every await ends. Users do nothing.
- DeviceRequests: calls of the host and of processes return, and expiry rows fire.
  A device may be silent for ever.
- Ingress: both alarms run their rows, every call returns, and the process repeats
  its finish until it is acknowledged, which is FinishOutbox's business. Neither
  the provider nor the end of the run is fair.

RuntimeEvents and DeliveryLedger state no fairness and no liveness.

## Proofs

All theorems are for every value of the constants that satisfies the named
assumptions of the module (`ToolBounds`, `EventBounds`, `MaxAttemptsAssumption`,
`DistinctIds`, `LedgerBounds`, `IpcAssumption`, ...): any number of runs, calls,
requests, connections, attempts and restarts. Each module below proves
type correctness and then the invariants from an inductive one, step by step.

**ProcessProofs** is about RuntimeEvents and FinishOutbox. They describe one
object, and the theorems extend both modules; the names of the outbox carry a
prefix for this.

*Events.* `WakesWarranted` is an action property: only an event that no answering
generation read makes `finishRun` queue a wake run. It rests on `Warrant`, that a
positive count is backed by an unread event in every copy of the count that
`runTick` holds. `NoEventMissed` rests on `Accounting`, the same in the other
direction at the three stages where a run decides to end.
`RepeatsAddNothingHolds` has two halves. A delegated task is answered again only
after its tombstone was pushed out: the list holds different answered tasks, so a
task without one means `TombstoneLimit` others (`Tombstones`, by the pigeonhole
principle: `ForgottenCall`). A reply occurrence is in one place, the queue, the
active run or the log (`InOnePlace`).

*Outbox.* `OutboxInv` adds to `AttemptsHonest` and `NoteIsEarned` that a delivery
in flight carries the entry of its own run (`CallsCarryTheirRun`): only then does
a failed send raise the counter it read. The point of `AttemptsHonest` is that it
speaks of every *copy* of the array; about the stored array alone it is not
inductive, since any copy may become the array. `NoSpontaneousDuplicate` needs a
second invariant: as long as a run's sends have not failed and the object has not
restarted, its only delivery is the one its emit started, no timer exists, and
the Kernel has the finish exactly when that send was handled.
`LoneFinishPursuedHolds` is the safety half of `LoneFinishSettles`: a lone finish
that is not settled is in the array, and a delivery or a retry row of it exists, or
its row was refused since the last restart (`stranded`), which delivers it again.
That the copies of the array contain nothing else (`OnlyEmitted`) is what fails
with two finishes, as `FinishOutbox_overlap` shows.

Two theorems say how far that goes. `OnlyStaleWritesLose`: if no failed send writes
back an array read before an unsettled finish was pushed (`LosesEntry`), then every
finish that is not settled has its entry in the array, and a delivery or a retry row
unless it is stranded (`EveryFinishPursued`), whatever else overlaps.
`OverlapAloneLoses`: it is enough that no run ends while another's finish is being
delivered (`EmitsAlone`), since then every copy of the array under way holds all
that is not settled. So neither a retry alarm that runs into a delivery nor a
restart that delivers the whole array at once loses anything, and a refused row
never loses an entry. Both hypotheses are on the steps of the same specification;
what `FinishOutbox_overlap` does is break them.

**RunLifecycleProofs.** One lemma reduces every step of a well-typed state to a
few shapes: a run begins, is queued, takes over, ends (with the queue handed on),
everything is emptied, or nothing the protocol sees changes (`StepShape`). Each
shape keeps `QueueImpliesBusy`, and with it `NothingOvertakes` follows: a run
begins only when the process is idle, so nothing is queued then. Each shape is a
step of RunProtocol (`KeepsRunProtocol`), and each keeps the books
(`EveryAdmissionAccounted`), whose content is how the number of copies of a run
in the queue changes when a message is appended or the head is taken.
`AdmittedAtMostOnce` rests on `Admissions`: an id that was admitted is still in the
history or still waits (`Remembered`), and what deletes the history counts a reset
first.

`OnlyLostMediaStall` has no bound on what goes wrong and names the only way in which
the active run can be left with nothing to move it: its message lost its media, the
watchdog that would end it was refused, and the object restarted before
`failPendingMedia` (`Forsaken`). The invariant `Moving` counts: a message whose media
have no watchdog row had one trouble already (`Guarded`), and a forsaken one had two
(`Movable`). With `Budget`, that troubles stay within `MaxTroubles`, it follows that
one restart or refused host call cannot strand a run, which is `NeverStalled`, for
`MaxTroubles <= 1`. Both take the constructor's tick to be stored.

**ToolLoopProofs.** `ExecutedOnce` and `OnlyPermitted` are not inductive: that a
call runs once is known because its row was claimed, and a loop that is about to
launch it claimed it before its await. `Claims` says so of each loop, and that no
other loop is about to launch the same call; `Fresh` that an unclaimed call has not
been touched; `Waits` that the inner request of a CodeMode execution is sent at the
end of its wait. `RowsFollow`, `ResultsFollow` and `NothingOpen` carry
`HistoryValid`; a run that an error ended may keep open rows of its last answer,
which is why `NothingOpen` speaks of the other ends only. Most actions close rows
and start nothing; one lemma (`QuietStep`) serves them all.

`NeverStranded` is the safety half of `RunEnds`, and tells more: it names what can
strand a run. A run is stranded when it is active, no tick is scheduled or running,
no loop, no code of its own and no deadline of an open row will act, and the user is
not asked, and no catch is about to end it. That cannot be, unless a request outlived
its call (`Orphaned`), a CodeMode request replaced another one (`Displaced`), or a
tick was refused where nothing catches it (`lost`), all of which the code lets
happen. The invariant has four parts: `Timed`, a dispatched row has a deadline
(`DispatchedAreTimed` holds without any condition); `Covered`, a registered row is
before its dispatch in the tick, in a snapshot that some loop still works on, behind
a request, or will be found by the tick of a restart; `Resumable`, when no row is
open somebody will look at the rows again; and `Awaited`, a CodeMode request is
waited for unless a restart interrupted it, after which nothing moves before its
answer. TLC checked the invariant on instances with CodeMode before it was proved,
and finds a stranded state as soon as the conditions are dropped.

**DeliveryLedgerProofs.** The invariant says that attempt ids are fresh (no
record, no send has one that was not handed out), that a send whose attempt a
record names reports for that record's age, that no two sends work for the same
record, that the record of a busy send names its attempt and stays while it
lives, and that what a send knows of the provider is right. What `accepted` may be
beyond `doubts` is bounded by what the record says. `AtMostOnce` alone is
not inductive: a second send for a record must be excluded by what the record
says, and the record's word by what the sends know. One lemma covers both ways a
claim is granted. `DeliveredAtMostOnce` adds that without `ReleasesDoubts` a message
is taken at most once. `CountsExactly` is a separate invariant with the theorems on
finite cardinalities.

**IpcCallsProofs.** `Exclusive` is the heart: a row is claimed exactly while one
delivery of it is in progress. Then rows, deliveries and what was heard agree on
the verdict (`Judged`), a delivery that may still be heard starts with every
signal accounted for by a failure or a restart (`Counted`), and a cancelled call
has no row to start one from (`Silenced`). `Young` is about calls not yet made.
`Kept` says that the row of a call whose caller saw no error goes only with its
signal or its source; with `Pursued` it gives `StartedPursuedHolds`, the safety half
of `StartedAnswered`: a started call was heard, or cancelled, or has a deadline row,
a delivery or a delivery row, unless a direct delivery was refused its retry.

**SchedulerProofs.** `Single` ties the mark of a running schedule to its one
dispatch, `Keyed` an armed one-shot to an occurrence the user granted, `Tried` the
attempts at it to those counted or under way, and `Waked` says that a wake id that
is being recorded means nothing else yet, without which recording it could hide
another's. A batch changes none of that: it starts the schedule as it is stored, and
the one thing it can do wrong is named (`cut`). `Counted` bounds the occurrence ids.
They also give `AttemptsBoundedHolds`: no mixture of forced runs, updates and old
wakes tries one arming more often than `MaxAttempts`.

**DeviceRequestsProofs.** `Unended` says that each of the things that can still
end a request (its handler, its route, an answer in the mail) finds it not ended:
`OneEnd` follows because they exclude one another. `Placed` ties routes and work
to the connection chosen, `Remembers` says where a cancellation is kept until the
request would begin. `PursuedHolds` is the safety half of `RequestsEnd`: past its
handler's awaits a request has ended, or its answer is in the mail, or it has a
route, and every route has an `onRouteExpired` row. It needs that a `fetch` whose
handler is over has ended, which a step from a route alone cannot tell
(`DeliveredEnds`).

**IngressProofs.** `Tokens` and `Planned` say what the claim token fences: the
checkpoint is written once, by the owner, before anything is sent, and everything
sent follows it; so a second owner repeats the first one's plan and `OneEffect`
follows. `Settled` says that results come from a completed receipt, which does not
change, and `Routed` why a route may be gone. `AnswerKeptHolds` is the safety half
of `AnswerArrives`: an acknowledged finish was answered, or a durable row
carries it. `ClaimsAreServed` is that of `MessageSettles`: an attempt that waits,
and a claim that turns other attempts away, each have a request at work, so after
any failure, lease or restart the alarm can ask again and is not told "in
progress" for ever.

`HandledOnceHolds` is the refinement of MessageProtocol. It needs that results are
true when they are stored (`ResultsAreTrue`), which is not a matter of the receipt
alone: the answer comes from the process, to a request that may be a replay of
another's. `Backed` says what a request brings back is so; `Firsthand` that the
owner of a receipt without a checkpoint is the only request that ever gets to the
process, so that when its decision is declined nobody else has applied it; `Told`
what a completed receipt says, by its checkpoint, unless it was disowned. Then each
step has an effect and says nothing (`Acts`) or says something and has no effect
(`Tells`).

Of the properties the runs check, only the liveness is left to TLC alone: with
fairness it is out of the prover's reach. The safety half of each is proved, that
while the promise is open something that will act on it exists.

| Liveness (TLC) | Safety half (proved) |
|---|---|
| `EveryRunEnds` | `QueueNeverStuck`, `NeverStalled`, `OnlyLostMediaStall` |
| `RunEnds` | `NeverStranded`, with its exceptions |
| `LoneFinishSettles` | `LoneFinishPursuedHolds`; for several finishes `OnlyStaleWritesLose` |
| `StartedAnswered` | `StartedPursuedHolds` |
| `DueRuns` | `ArmedHolds` |
| `RequestsEnd` | `PursuedHolds` |
| `MessageSettles` | `ClaimsAreServed`, `HandedOverHolds` |
| `AnswerArrives` | `AnswerKeptHolds` |

What stays with TLC is that this something is not undone for ever and that each act
brings the end nearer. `EventuallySettled` is not a theorem: the code violates it.

## Where the code and what is said of it differ

One run expects a violation of what tests say: `FinishOutbox_overlap`. A failed
delivery writes back an old copy of the outbox (do.ts:5077), and another finish is
forgotten.

Other places where the code does less than one may expect were met while
modelling. No run is spent on them; the properties of the passing runs are stated
so that they hold of the code as it is, and name the exception:

- An event during the last generation is counted as read by the context built
  after the answer (do.ts:4289), and no wake run follows (`swallowed` in
  `EventsAccounted`).
- An occurrence repeated to a busy process is appended twice
  (do.ts:3684-3697); `RepeatsAddNothing` is about replies and delegated tasks.
- A finish whose send failed and whose retry row is refused waits for the next
  restart: the counter is stored, `schedule` rejects, and nothing catches that
  (do.ts:5077-5078; `stranded` in FinishOutbox).
- `tick.error` and `schedule.error` end a run without ingesting its calls
  (do.ts:3769-3795, 4474-4509, 5800-5807). Those of its last answer have no result
  then, and `orderMessagesForProvider` (do.ts:6517) inserts none; its comment says
  "Providers require tool results to immediately follow the assistant tool-call
  message". `HistoryValid` excepts them (`errored`).
- The constructor's tick (do.ts:892) and that of an outdated approval (do.ts:1925)
  may be refused without a catch: the run waits for a restart or a new message (`lost`
  in `RunEnds`).
- A CodeMode approval replaces a pending approval request (do.ts:6085,
  store.ts:454-455), whose call then waits for a restart or a new message
  (`Displaced` in the proofs; in `ToolLoop_recovers` CodeMode has an answer of its
  own for this reason).
- An approval request may outlive its call, and its answer then only clears it,
  without a tick (do.ts:1905-1940; `Orphaned` in `RunEnds`). One way: the tick and
  a `proc.hil` handler walk overlapping snapshots, and the tick asks again for a
  call that was approved meanwhile; results that arrive while the request is
  pending do not resume the run. Another: the outer deadline of a CodeMode call
  passes and the object restarts before the user answers.
- `sched.run` without an id reads all due schedules and then awaits one after the
  other (kernel/do.ts:2596-2603). By its turn a one-shot may have run and be
  disarmed: it is marked as running and `occurrenceKey` throws outside the `try`
  (2639; scheduler.ts:349-351), which takes the rest of the batch with it. Nothing
  unmarks it; every later wake skips it, also after the user armed it again
  (`cut` in `OneRunAtATime`, `Armed`). A schedule whose time was moved runs early,
  and a repeating one that was disabled meanwhile is run and enabled again.
- A replay of a message whose sender was unlinked or linked to somebody else since
  is refused, challenged or dropped before the checkpoint is looked at
  (kernel/adapter-handlers.ts:917-965), although the first attempt may have made
  its run; the receipt then says so for ever (`Disown` in MessageProtocol).
- A repeat of a message that is answered as recorded deletes the reply route of a
  run that may not have answered yet (kernel/adapter-handlers.ts:1259,
  run-routes.ts:29-31; `dropped` in `AnswerArrives`).
- When the lookup of the pending approval fails, an approval's answer goes on as
  conversation (kernel/adapter-handlers.ts:1995): one effect, not the one meant.
- An attempt that began before `clear()` deletes its key afterwards
  (inbound-delivery.ts:159), and with it a message enqueued meanwhile (`cleared`
  in `HandedOver`).
- The rows of a device are all deleted before `failDeviceRoutes` sends their
  answers (kernel/do.ts:2988). The Kernel is taken not to stop between.

## Not modelled

- Formatting, prompts, token counts, model metadata, media contents, the text of
  results, client notifications that change nothing.
- `remember` of an approval: it changes the policy of later calls, which the
  models take as given per call.
- More than one inner request of a CodeMode execution at a time.
- A refused tick of the constructor (do.ts:892) in RunLifecycle, where it is taken to
  be stored; ToolLoop has it (`lost`). Refused wake rows of the scheduler.
- Compaction of the history (`compactHistoryPrefix`, store.ts:198): it deletes the
  messages by which a repeated run id is recognised, as a reset does, so
  `AdmittedOnce` and `RepeatsAddNothing` speak of a history that is not compacted.
- A tick more when `runTick` writes an older record back and with it an older
  `tickGeneration`.
- A refused media watchdog, the removal of the message's media, *and* a restart
  together: the run then waits for a user. `MaxTroubles` is 1 where `Unstalled`
  is checked. `OnlyLostMediaStall` proves that nothing else leaves a run so, the
  constructor's tick taken to be stored.
- `proc.kill` deletes undelivered finishes with everything else.
- Cron and interval arithmetic: the next run of a schedule is a time after now.
- Request and response bodies on their way through the Kernel, shell sessions, and
  requests the Kernel makes for itself.
- Several messages in one inbound ledger: they share the alarm and the capacity,
  nothing else. Reply routes to connections. Which account may do what, link
  challenges and destinations: lookups, of which only the sender's link matters
  after a checkpoint (`LinkMoves`); a user that is deleted counts as a changed link.
- Resets and kills of the process in Ingress.
- Everything the inventory lists without a module above. The reasons are with
  the components in `PROJECT.json`: stores with one statement per operation,
  request plumbing without state, provider protocols, the user interface, and
  most of the repository's lines, which are these.

## Plan

What is left, in order of what is most worth knowing:

1. **SignalWatches** (once-only triggers and their expiry), composed with
   RuntimeEvents; the client package's pending requests across reconnects.
2. `normalizeCompactionCut` and `orderMessagesForProvider` as operators, checked
   against reference definitions.
3. Liveness of RuntimeEvents, with restarts bounded.

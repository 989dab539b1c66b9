---------------------------- MODULE RunLifecycle ----------------------------
(***************************************************************************)
(* The runs of one Process Durable Object: how a message becomes the       *)
(* active run or a queued one, how a run ends and hands over to the next,  *)
(* and what abort, reset, kill and a restart of the object do to both.     *)
(*                                                                         *)
(* An action is one stretch of a handler between two awaits, with the      *)
(* storage writes it makes. The lifecycle transition (a promise chain) is  *)
(* `lock`; only proc.reset and proc.kill change state on both sides of an  *)
(* await while they hold it, so the other holders are single actions.      *)
(* Left to other modules: the rounds of tool calls (ToolLoop), which       *)
(* runtime events a run has read and so whether finishRun owes a wake      *)
(* (RuntimeEvents), and the delivery of the finishes (FinishOutbox).       *)
(***************************************************************************)
EXTENDS Naturals, Sequences, FiniteSets

CONSTANTS UserRuns,    \* direct user messages, with the stable id of their delivery
          BgRuns,      \* proc.send of process or scheduler origin, stable ids
          IpcRuns,     \* proc.ipc.deliver: the Kernel sends each once
          SchedRuns,   \* proc.schedule.deliver: a stable id per occurrence
          WakeRuns,    \* ids the process mints itself (crypto.randomUUID)
          NoRun,       \* "currentRun is null"
          MaxRounds,   \* bound on the tool rounds of a run
          MaxResets,   \* bound on proc.reset
          MaxCrashes,  \* bound on the restarts of the object
          MaxFaults,   \* bound on refused schedule rows and failed storage calls
          MaxTroubles  \* bound on restarts and refusals together

Runs == UserRuns \cup BgRuns \cup IpcRuns \cup SchedRuns \cup WakeRuns

ASSUME NoRunAssumption == NoRun \notin Runs
ASSUME DistinctIds ==
  /\ WakeRuns \cap (UserRuns \cup BgRuns \cup IpcRuns \cup SchedRuns) = {}
  /\ IpcRuns \cap (UserRuns \cup BgRuns \cup SchedRuns) = {}
ASSUME BoundsAssumption ==
  /\ MaxRounds \in Nat /\ MaxResets \in Nat /\ MaxCrashes \in Nat /\ MaxFaults \in Nat
  /\ MaxTroubles \in Nat

VARIABLES
  \* Durable: process_kv, message_queue, messages, the host's schedule rows.
  alive,      \* pid and identity are stored
  current,    \* currentRun.runId, or NoRun
  media,      \* currentRun.pendingMediaMessageId: "none", "stored", "cleared"
  queue,      \* message_queue
  recorded,   \* runs some row of messages belongs to
  ticks,      \* runs with a schedule row for tick, of the current tickGeneration
  watches,    \* runs with a schedule row for onMediaPreparationTimeout
  tools,      \* runs with unresolved pending_tool_calls
  \* In memory: gone after a restart.
  lock,       \* the lifecycle transition: "free", "reset", "kill", "wipe"
  waiting,    \* the chain of queuedSendAdmission
  fiber,      \* runTick of the run: "none", "working", "finishing"
  deferred,   \* deferredTickRunIds
  preparing,  \* runs prepareRunMedia works for, until their run is stopped
  failing,    \* runs whose scheduleTick rejected and whose finishRun is due
  unfit,      \* runs whose failPendingMedia is due, until their run is stopped
  \* Bounds and history.
  sent,       \* ids of IpcRuns and WakeRuns already used
  rounds,     \* tool rounds of each run
  resets, crashes, faults,
  admits,     \* how often the run was admitted
  finishes,   \* how many finishes were emitted for it
  killed,     \* how often proc.kill ended it, with a notice of its own
  dropped     \* how often it was deleted from the queue

durable == <<alive, current, media, queue, recorded, ticks, watches, tools>>
volatile == <<lock, waiting, fiber, deferred, preparing, failing, unfit>>
history == <<sent, rounds, resets, crashes, admits, finishes, killed, dropped>>
vars == <<durable, volatile, history, faults>>

-----------------------------------------------------------------------------
InQueue(r) == \E i \in 1 .. Len(queue) : queue[i] = r

Copies(q, r) == Cardinality({i \in 1 .. Len(q) : q[i] = r})

\* Mutant of Located: the queue is not searched.
LocatedUnqueued(r) == current = r \/ r \in recorded

\* existingRunAdmission: active, queued or recorded.
Located(r) == current = r \/ InQueue(r) \/ r \in recorded

Busy == current # NoRun

Bumped(f, r) == [f EXCEPT ![r] = @ + 1]

\* A call of the host (a schedule row, an archive write) succeeds or rejects.
Outcome(ok) ==
  /\ ok \/ (faults < MaxFaults /\ faults + crashes < MaxTroubles)
  /\ faults' = IF ok THEN faults ELSE faults + 1

\* Mutant of ScheduleTick: a rejection is only logged.
ScheduleTickAndHope(r, ok, others) ==
  /\ ticks' = IF ok THEN ticks \cup {r} ELSE ticks
  /\ failing' = others

\* scheduleTick stores the row or rejects, and then the caller's catch calls
\* finishRun. `others` are the other runs such a catch is due for.
ScheduleTick(r, ok, others) ==
  /\ ticks' = IF ok THEN ticks \cup {r} ELSE ticks
  /\ failing' = IF ok THEN others ELSE others \cup {r}

\* The run becomes active: message appended, currentRun written, tick scheduled.
StartRun(r, ok, others) ==
  /\ current' = r
  /\ recorded' = recorded \cup {r}
  /\ ScheduleTick(r, ok, others)

\* Mutant of Conclude: the newest queued run is claimed.
ConcludeNewestFirst(q, ok, others) ==
  /\ finishes' = Bumped(finishes, current)
  /\ media' = "none"
  /\ preparing' = preparing \ {current}
  /\ unfit' = unfit \ {current}
  /\ IF q = << >>
       THEN /\ current' = NoRun
            /\ queue' = q
            /\ failing' = others
            /\ UNCHANGED <<recorded, ticks>>
       ELSE /\ StartRun(q[Len(q)], ok, others)
            /\ queue' = SubSeq(q, 1, Len(q) - 1)

\* The common tail of finishRun, proc.abort and failPendingMedia:
\* emitRunFinished, currentRun = null, claimNextQueuedRun, promoteNextQueuedRun.
Conclude(q, ok, others) ==
  /\ finishes' = Bumped(finishes, current)
  /\ media' = "none"
  /\ preparing' = preparing \ {current}
  /\ unfit' = unfit \ {current}
  /\ IF q = << >>
       THEN /\ current' = NoRun
            /\ queue' = q
            /\ failing' = others
            /\ UNCHANGED <<recorded, ticks>>
       ELSE /\ StartRun(Head(q), ok, others)
            /\ queue' = Tail(q)

-----------------------------------------------------------------------------
Init ==
  /\ alive = TRUE /\ current = NoRun /\ media = "none"
  /\ queue = << >> /\ recorded = {}
  /\ ticks = {} /\ watches = {} /\ tools = {}
  /\ lock = "free" /\ waiting = << >>
  /\ fiber = [r \in Runs |-> "none"] /\ deferred = {}
  /\ preparing = {} /\ failing = {} /\ unfit = {}
  /\ sent = {} /\ rounds = [r \in Runs |-> 0]
  /\ resets = 0 /\ crashes = 0 /\ faults = 0
  /\ admits = [r \in Runs |-> 0]
  /\ finishes = [r \in Runs |-> 0]
  /\ killed = [r \in Runs |-> 0]
  /\ dropped = [r \in Runs |-> 0]

\* handleProcSend, direct user message: it starts, or supersedes the active
\* run, whose tool rows are turned into results. With media the run waits for
\* prepareRunMedia under a stored watchdog; otherwise a tick is scheduled. A
\* replay of a located id answers without a change.
UserSend(r, withMedia, ok) ==
  /\ alive /\ lock = "free"
  /\ ~Located(r)
  /\ Outcome(ok)
  /\ admits' = Bumped(admits, r)
  /\ finishes' = IF Busy THEN Bumped(finishes, current) ELSE finishes
  /\ tools' = tools \ {current}
  /\ current' = r
  /\ recorded' = recorded \cup {r}
  /\ IF withMedia
       THEN /\ media' = "stored"
            /\ preparing' = (preparing \ {current}) \cup {r}
            /\ watches' = IF ok THEN watches \cup {r} ELSE watches
            /\ unfit' = IF ok THEN unfit \ {current} ELSE (unfit \ {current}) \cup {r}
            /\ UNCHANGED <<ticks, failing>>
       ELSE /\ media' = "none"
            /\ ScheduleTick(r, ok, failing)
            /\ preparing' = preparing \ {current}
            /\ unfit' = unfit \ {current}
            /\ UNCHANGED watches
  /\ UNCHANGED <<alive, queue, lock, waiting, fiber, deferred,
                 sent, rounds, resets, crashes, killed, dropped>>

\* A process-, scheduler- or IPC-origin message joins the admission chain. The
\* sender of a stable id repeats it only when the request before it ended.
Arrive(r) ==
  /\ alive
  /\ \A i \in 1 .. Len(waiting) : waiting[i] # r
  /\ r \in IpcRuns => r \notin sent
  /\ waiting' = Append(waiting, r)
  /\ sent' = IF r \in IpcRuns THEN sent \cup {r} ELSE sent
  /\ UNCHANGED <<durable, lock, fiber, deferred, preparing, failing, unfit,
                 rounds, resets, crashes, faults, admits, finishes, killed, dropped>>

\* The head of the chain gets the lifecycle lock: a queued run behind an active
\* one, otherwise the active run. Only stable ids are looked up first.
Admit(ok) ==
  /\ waiting # << >> /\ lock = "free"
  /\ Outcome(ok)
  /\ waiting' = Tail(waiting)
  /\ LET r == Head(waiting) IN
       IF ~alive \/ (r \in BgRuns /\ Located(r))
         THEN UNCHANGED <<current, queue, recorded, ticks, failing, admits>>
         ELSE /\ admits' = Bumped(admits, r)
              /\ IF Busy
                   THEN /\ queue' = Append(queue, r)
                        /\ UNCHANGED <<current, recorded, ticks, failing>>
                   ELSE /\ StartRun(r, ok, failing)
                        /\ UNCHANGED queue
  /\ UNCHANGED <<alive, media, watches, tools, lock, fiber, deferred, preparing,
                 unfit, sent, rounds, resets, crashes, finishes, killed, dropped>>

\* handleRuntimeEvent and handleIpcSignal: an idle process starts a run for
\* the event. A busy one queues a run when the event needs a run of its own;
\* an event that joins the active run changes nothing here.
RuntimeEvent(r, ok) ==
  /\ alive /\ lock = "free"
  /\ IF r \in WakeRuns THEN r \notin sent ELSE ~Located(r)
  /\ Outcome(ok)
  /\ sent' = IF r \in WakeRuns THEN sent \cup {r} ELSE sent
  /\ admits' = Bumped(admits, r)
  /\ IF Busy
       THEN /\ queue' = Append(queue, r)
            /\ UNCHANGED <<current, recorded, ticks, failing>>
       ELSE /\ StartRun(r, ok, failing)
            /\ UNCHANGED queue
  /\ UNCHANGED <<alive, media, watches, tools, lock, waiting, fiber, deferred,
                 preparing, unfit, rounds, resets, crashes, finishes, killed, dropped>>

\* prepareRunMedia done: the flag goes and the first tick is scheduled.
MediaReady(r, ok) ==
  /\ lock = "free" /\ r \in preparing
  /\ Outcome(ok)
  /\ preparing' = preparing \ {r}
  /\ IF current = r /\ media # "none"
       THEN /\ media' = "none"
            /\ ScheduleTick(r, ok, failing)
       ELSE UNCHANGED <<media, ticks, failing>>
  /\ UNCHANGED <<alive, current, queue, recorded, watches, tools, lock, waiting,
                 fiber, deferred, unfit, history>>

\* prepareRunMedia failed: the message loses its media and failPendingMedia is
\* due, unless deleting the uploads nothing refers to rejects.
MediaFails(r, ok) ==
  /\ lock = "free" /\ r \in preparing
  /\ Outcome(ok)
  /\ preparing' = preparing \ {r}
  /\ unfit' = IF ok THEN unfit \cup {r} ELSE unfit
  /\ media' = IF current = r /\ media = "stored" THEN "cleared" ELSE media
  /\ UNCHANGED <<alive, current, queue, recorded, ticks, watches, tools, lock,
                 waiting, fiber, deferred, failing, history>>

\* onMediaPreparationTimeout. The scheduler deletes the row when the callback
\* has returned, so it stays while failPendingMedia is due.
WatchFires(r) ==
  /\ r \in watches
  /\ IF current = r /\ media # "none"
       THEN /\ unfit' = unfit \cup {r}
            /\ UNCHANGED watches
       ELSE /\ watches' = watches \ {r}
            /\ UNCHANGED unfit
  /\ UNCHANGED <<alive, current, media, queue, recorded, ticks, tools, lock,
                 waiting, fiber, deferred, preparing, failing, history, faults>>

\* failPendingMedia under the lifecycle lock.
FailPendingMedia(r, ok) ==
  /\ lock = "free" /\ r \in unfit
  /\ Outcome(ok)
  /\ IF current = r /\ media # "none"
       THEN Conclude(queue, ok, failing)
       ELSE /\ unfit' = unfit \ {r}
            /\ UNCHANGED <<current, media, queue, recorded, ticks, preparing,
                           failing, finishes>>
  /\ UNCHANGED <<alive, watches, tools, lock, waiting, fiber, deferred,
                 sent, rounds, resets, crashes, admits, killed, dropped>>

-----------------------------------------------------------------------------
(* The tick of a run. *)

\* tick: only the active run; a second tick waits for the first to end. A row of an
\* older tickGeneration does nothing, and of those of the current generation the
\* first one to fire makes the others old: `ticks` is a set of runs. (When runTick
\* writes an older record back, a row may count again: one more tick, left out.)
TickFires(r) ==
  /\ r \in ticks
  /\ ticks' = ticks \ {r}
  /\ IF current # r THEN UNCHANGED <<fiber, deferred>>
     ELSE IF fiber[r] = "none"
       THEN /\ fiber' = [fiber EXCEPT ![r] = "working"]
            /\ UNCHANGED deferred
       ELSE /\ deferred' = deferred \cup {r}
            /\ UNCHANGED fiber
  /\ UNCHANGED <<alive, current, media, queue, recorded, watches, tools, lock,
                 waiting, preparing, failing, unfit, history, faults>>

\* The `finally` of tick: a deferred tick of the run that is still active is
\* scheduled now.
EndTick(r, ok) ==
  /\ Outcome(ok)
  /\ fiber' = [fiber EXCEPT ![r] = "none"]
  /\ deferred' = deferred \ {r}
  /\ IF r \in deferred /\ current = r
       THEN ScheduleTick(r, ok, failing)
       ELSE UNCHANGED <<ticks, failing>>

\* runTick returns: the run was stopped, its media or tool calls are pending.
TickReturns(r, ok) ==
  /\ fiber[r] = "working"
  /\ current # r \/ (lock = "free" /\ (media # "none" \/ r \in tools))
  /\ EndTick(r, ok)
  /\ UNCHANGED <<alive, current, media, queue, recorded, watches, tools, lock,
                 waiting, preparing, unfit, history>>

Generating(r) ==
  fiber[r] = "working" /\ current = r /\ media = "none" /\ r \notin tools

\* The model asked for tools: the calls are registered and the tick ends.
ModelCallsTools(r, ok) ==
  /\ Generating(r)
  /\ rounds[r] < MaxRounds
  /\ rounds' = Bumped(rounds, r)
  /\ tools' = tools \cup {r}
  /\ EndTick(r, ok)
  /\ UNCHANGED <<alive, current, media, queue, recorded, watches, lock, waiting,
                 preparing, unfit, sent, resets, crashes, admits, finishes, killed,
                 dropped>>

\* The last call of the round got its result (resumeResolvedToolRun).
ToolsResolved(r, ok) ==
  /\ r \in tools
  /\ Outcome(ok)
  /\ tools' = tools \ {r}
  /\ IF current = r THEN ScheduleTick(r, ok, failing) ELSE UNCHANGED <<ticks, failing>>
  /\ UNCHANGED <<alive, current, media, queue, recorded, watches, lock, waiting,
                 fiber, deferred, preparing, unfit, history>>

\* The model answered, or the generation failed: finishRun is due.
ModelAnswers(r) ==
  /\ Generating(r)
  /\ fiber' = [fiber EXCEPT ![r] = "finishing"]
  /\ UNCHANGED <<durable, lock, waiting, deferred, preparing, failing, unfit,
                 history, faults>>

\* finishRun called by the tick. A wake run for events the run has not read is
\* queued only behind an empty queue; whether one is owed is RuntimeEvents'.
FinishRun(r, wake, ok) ==
  /\ lock = "free" /\ fiber[r] = "finishing"
  /\ wake # << >> => current = r /\ queue = << >> /\ wake[1] \notin sent
  /\ Outcome(ok)
  /\ fiber' = [fiber EXCEPT ![r] = "none"]
  /\ deferred' = deferred \ {r}
  /\ IF current = r
       THEN /\ Conclude(queue \o wake, ok, failing)
            /\ sent' = sent \cup {wake[i] : i \in 1 .. Len(wake)}
            /\ admits' = IF wake = << >> THEN admits ELSE Bumped(admits, wake[1])
       ELSE UNCHANGED <<current, media, queue, recorded, ticks, failing, preparing,
                        unfit, finishes, sent, admits>>
  /\ UNCHANGED <<alive, watches, tools, lock, waiting, rounds, resets, crashes,
                 killed, dropped>>

\* finishRun("schedule.error") called from the catch of a rejected scheduleTick.
FinishUnscheduled(r, ok) ==
  /\ lock = "free" /\ r \in failing
  /\ Outcome(ok)
  /\ IF current = r
       THEN Conclude(queue, ok, failing \ {r})
       ELSE /\ failing' = failing \ {r}
            /\ UNCHANGED <<current, media, queue, recorded, ticks, preparing,
                           unfit, finishes>>
  /\ UNCHANGED <<alive, watches, tools, lock, waiting, fiber, deferred,
                 sent, rounds, resets, crashes, admits, killed, dropped>>

-----------------------------------------------------------------------------
(* Abort, reset, kill, restart. *)

\* handleProcAbort: the active run ends and the next queued one takes over.
Abort(ok) ==
  /\ alive /\ lock = "free" /\ Busy
  /\ Outcome(ok)
  /\ tools' = tools \ {current}
  /\ Conclude(queue, ok, failing)
  /\ UNCHANGED <<alive, watches, lock, waiting, fiber, deferred,
                 sent, rounds, resets, crashes, admits, killed, dropped>>

\* Mutant of ClearExecution: the queue stays.
ClearActive ==
  /\ current' = NoRun /\ media' = "none" /\ tools' = {}
  /\ preparing' = {} /\ unfit' = {}
  /\ UNCHANGED <<queue, dropped>>

\* resetExecutionState: no active run, no queue, no tool rows.
ClearExecution ==
  /\ current' = NoRun /\ media' = "none" /\ queue' = << >> /\ tools' = {}
  /\ preparing' = {} /\ unfit' = {}
  /\ dropped' = [r \in Runs |-> dropped[r] + Copies(queue, r)]

\* Mutant of ResetBegin: the active run is cleared without its finish.
ResetSilently ==
  /\ alive /\ lock = "free" /\ resets < MaxResets
  /\ resets' = resets + 1
  /\ lock' = "reset"
  /\ ClearExecution
  /\ UNCHANGED <<alive, recorded, ticks, watches, waiting, fiber, deferred, failing,
                 sent, rounds, crashes, faults, admits, finishes, killed>>

\* handleProcReset, up to the archive of the history.
ResetBegin ==
  /\ alive /\ lock = "free" /\ resets < MaxResets
  /\ resets' = resets + 1
  /\ lock' = "reset"
  /\ finishes' = IF Busy THEN Bumped(finishes, current) ELSE finishes
  /\ ClearExecution
  /\ UNCHANGED <<alive, recorded, ticks, watches, waiting, fiber, deferred, failing,
                 sent, rounds, crashes, faults, admits, killed>>

\* The archive is written and the history deleted; or the archive failed.
ResetEnd(ok) ==
  /\ lock = "reset"
  /\ Outcome(ok)
  /\ lock' = "free"
  /\ recorded' = IF ok THEN {} ELSE recorded
  /\ UNCHANGED <<alive, current, media, queue, ticks, watches, tools, waiting, fiber,
                 deferred, preparing, failing, unfit, history>>

\* handleProcKill: the Kernel is told of the active run's end before anything
\* is cleared.
KillBegin ==
  /\ alive /\ lock = "free" /\ resets < MaxResets
  /\ resets' = resets + 1
  /\ lock' = "kill"
  /\ UNCHANGED <<durable, waiting, fiber, deferred, preparing, failing, unfit,
                 sent, rounds, crashes, faults, admits, finishes, killed, dropped>>

\* sendSignal rejected: proc.kill fails and the process goes on.
KillNoticeFails ==
  /\ lock = "kill" /\ Busy
  /\ Outcome(FALSE)
  /\ lock' = "free"
  /\ UNCHANGED <<durable, waiting, fiber, deferred, preparing, failing, unfit, history>>

\* Mutant of KillClear: the run is cleared without its notice.
KillClearSilently ==
  /\ lock = "kill"
  /\ lock' = "wipe"
  /\ ClearExecution
  /\ UNCHANGED <<alive, recorded, ticks, watches, waiting, fiber, deferred, failing,
                 sent, rounds, resets, crashes, faults, admits, finishes, killed>>

\* The notice is delivered (none is due for an idle process): resetExecutionState.
KillClear ==
  /\ lock = "kill"
  /\ lock' = "wipe"
  /\ killed' = IF Busy THEN Bumped(killed, current) ELSE killed
  /\ ClearExecution
  /\ UNCHANGED <<alive, recorded, ticks, watches, waiting, fiber, deferred, failing,
                 sent, rounds, resets, crashes, faults, admits, finishes>>

\* The history is archived and the storage deleted; or the archive failed and
\* the process goes on with nothing to do.
KillWipe(ok) ==
  /\ lock = "wipe"
  /\ Outcome(ok)
  /\ lock' = "free"
  /\ IF ok
       THEN /\ alive' = FALSE
            /\ recorded' = {} /\ ticks' = {} /\ watches' = {} /\ tools' = {}
       ELSE UNCHANGED <<alive, recorded, ticks, watches, tools>>
  /\ UNCHANGED <<current, media, queue, waiting, fiber, deferred, preparing, failing,
                 unfit, history>>

\* The object stops at any point and its constructor runs again: what was in
\* memory is gone; a media flag whose message still has its media is dropped;
\* a run without the flag gets a tick, unless one of its calls waits for an
\* approval.
Restart(approval) ==
  /\ alive /\ crashes < MaxCrashes /\ faults + crashes < MaxTroubles
  /\ crashes' = crashes + 1
  /\ lock' = "free" /\ waiting' = << >>
  /\ fiber' = [r \in Runs |-> "none"] /\ deferred' = {}
  /\ preparing' = {} /\ failing' = {} /\ unfit' = {}
  /\ media' = IF media = "stored" THEN "none" ELSE media
  /\ approval => current \in tools
  /\ ticks' = IF Busy /\ media' = "none" /\ ~approval THEN ticks \cup {current} ELSE ticks
  /\ UNCHANGED <<alive, current, queue, recorded, watches, tools, sent, rounds,
                 resets, faults, admits, finishes, killed, dropped>>

-----------------------------------------------------------------------------
\* What the process goes on doing by itself.
Progress(ok) ==
  \/ Admit(ok)
  \/ ResetEnd(ok) \/ KillWipe(ok)
  \/ \E r \in Runs : \/ MediaReady(r, ok) \/ MediaFails(r, ok) \/ FailPendingMedia(r, ok)
                     \/ TickReturns(r, ok) \/ ModelCallsTools(r, ok) \/ ToolsResolved(r, ok)
                     \/ FinishUnscheduled(r, ok)
                     \/ \E wake \in {<< >>} \cup {<<w>> : w \in WakeRuns} : FinishRun(r, wake, ok)

Next ==
  \/ \E ok \in BOOLEAN : \/ Progress(ok)
                         \/ Abort(ok)
                         \/ \E r \in UserRuns, withMedia \in BOOLEAN : UserSend(r, withMedia, ok)
                         \/ \E r \in SchedRuns \cup WakeRuns : RuntimeEvent(r, ok)
  \/ \E r \in BgRuns \cup IpcRuns : Arrive(r)
  \/ \E r \in Runs : WatchFires(r) \/ TickFires(r) \/ ModelAnswers(r)
  \/ ResetBegin \/ KillBegin \/ KillNoticeFails \/ KillClear
  \/ \E approval \in BOOLEAN : Restart(approval)

Spec == Init /\ [][Next]_vars

\* Promise chains are served in order, timers fire, a generation ends, a tool
\* call is answered or timed out. Media preparation may hang: its watchdog does
\* not. Nobody has to send, abort, reset or kill, and nothing has to crash.
Fairness ==
  /\ WF_vars(\E ok \in BOOLEAN : Admit(ok))
  /\ WF_vars(\E ok \in BOOLEAN : ResetEnd(ok) \/ KillWipe(ok))
  /\ WF_vars(KillClear \/ KillNoticeFails)
  /\ \A r \in Runs :
       /\ WF_vars(TickFires(r))
       /\ WF_vars(WatchFires(r))
       /\ WF_vars(\E ok \in BOOLEAN : FailPendingMedia(r, ok))
       /\ WF_vars(\E ok \in BOOLEAN :
                    TickReturns(r, ok) \/ ModelCallsTools(r, ok) \/ ModelAnswers(r))
       /\ WF_vars(\E ok \in BOOLEAN : ToolsResolved(r, ok))
       /\ WF_vars(\E ok \in BOOLEAN : FinishUnscheduled(r, ok))
       /\ WF_vars(\E ok \in BOOLEAN, wake \in {<< >>} \cup {<<w>> : w \in WakeRuns} :
                    FinishRun(r, wake, ok))

FairSpec == Spec /\ Fairness

-----------------------------------------------------------------------------
\* Every variable keeps its type.
TypeOK ==
  /\ alive \in BOOLEAN
  /\ current \in Runs \cup {NoRun}
  /\ media \in {"none", "stored", "cleared"}
  /\ queue \in Seq(Runs)
  /\ recorded \subseteq Runs /\ ticks \subseteq Runs /\ watches \subseteq Runs
  /\ tools \subseteq Runs /\ deferred \subseteq Runs /\ preparing \subseteq Runs
  /\ failing \subseteq Runs /\ unfit \subseteq Runs /\ sent \subseteq Runs
  /\ lock \in {"free", "reset", "kill", "wipe"}
  /\ waiting \in Seq(BgRuns \cup IpcRuns)
  /\ fiber \in [Runs -> {"none", "working", "finishing"}]
  /\ rounds \in [Runs -> Nat] /\ admits \in [Runs -> Nat] /\ finishes \in [Runs -> Nat]
  /\ killed \in [Runs -> Nat] /\ dropped \in [Runs -> Nat]
  /\ resets \in 0 .. MaxResets /\ crashes \in 0 .. MaxCrashes /\ faults \in 0 .. MaxFaults

\* Work waits in the queue only while a run is active: each of the ways a run
\* ends claims the next queued message in the same step, and reset and kill
\* empty the queue with the active run.
QueueImpliesBusy == queue # << >> => Busy

\* Each admission of a run is accounted for exactly once: it is active, it is
\* queued, its one proc.run.finished was emitted, or kill or reset removed it.
\* Breaks when a path ends a run silently or twice.
Accounted ==
  \A r \in Runs :
    admits[r] = finishes[r] + killed[r] + dropped[r] + Copies(queue, r)
                + (IF current = r THEN 1 ELSE 0)

\* A replayed stable id is never admitted twice; only a reset, which deletes
\* the history that remembers it, makes it new (existingRunAdmission). Compaction
\* of the history (compactHistoryPrefix) deletes it as well; it is not modelled.
AdmittedOnce == \A r \in Runs : admits[r] <= 1 + resets

\* The active run always has something left to move it: a tick row, a running
\* tick, a due finish, an open tool call, or a stored or running guard of its media.
Unstalled ==
  Busy => \/ media = "none" /\ \/ current \in ticks \cup failing \cup tools
                               \/ fiber[current] # "none"
          \/ media # "none" /\ current \in watches \cup unfit

\* Only a direct user message, or work that finds nothing queued, becomes
\* active; everything else is taken from the head of the queue.
NoOvertaking ==
  [][ current' \notin UserRuns \cup {current, NoRun} =>
        \/ queue = << >>
        \/ current' = Head(queue) /\ queue' = Tail(queue) ]_vars

\* An admitted run gets its turn and ends; none waits in the queue for ever.
EveryRunEnds == \A r \in Runs : (current = r \/ InQueue(r)) ~> (current # r /\ ~InQueue(r))

\* What the process promises about its runs, whatever the locks, timers, media
\* and restarts do: see RunProtocol.
Promised ==
  INSTANCE RunProtocol WITH
    active <- current, backlog <- queue,
    done <- [r \in Runs |-> finishes[r] + killed[r]]

\* Start, queue, supersede, finish, wipe: the process does nothing else to its
\* runs, with whatever handler, timer or restart it does it.
KeepsTheProtocol == Promised!Spec

=============================================================================

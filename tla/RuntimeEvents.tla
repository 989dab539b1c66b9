---------------------------- MODULE RuntimeEvents ---------------------------
(***************************************************************************)
(* Events that reach a process while it may be busy: watched signals,      *)
(* schedule occurrences, replies of delegated tasks. An event is appended  *)
(* to the history; an idle process starts a run for it, a busy one counts  *)
(* it in currentRun.pendingRuntimeEvents. A generation reads the whole     *)
(* history and takes what it saw off the count; a run that ends with a     *)
(* count left is followed by a wake run.                                   *)
(*                                                                         *)
(* The stages of runTick are the stretches between its awaits. It works on *)
(* a copy of the run record read at its start, and some of its awaits end  *)
(* by writing that copy back.                                              *)
(***************************************************************************)
EXTENDS Naturals, Sequences, FiniteSets

CONSTANTS UserRuns,       \* direct user messages
          WakeRuns,       \* run ids the process mints; free ones are reused
          Signals,        \* watched signals, each triggered once
          Occurrences,    \* schedule occurrences, which join the active run
          Replies,        \* schedule occurrences with a replyTo: runs of their own
          Calls,          \* delegated tasks
          NoRun,
          TombstoneLimit, \* IPC_TOMBSTONE_LIMIT, 256 in the code
          MaxRounds,      \* bound on the tool rounds of a run
          MaxResets,      \* bound on proc.reset
          MaxRepeats,     \* bound on the appends of one event
          MaxEvents       \* bound on the events that happen in one behaviour

Events == Signals \cup Occurrences \cup Replies \cup Calls
Stable == UserRuns \cup Occurrences \cup Replies   \* run ids the sender chose
Runs == Stable \cup WakeRuns

\* Ids of different kinds differ.
ASSUME KindsDiffer ==
  /\ Calls \cap (Signals \cup Occurrences \cup Replies) = {}
  /\ Signals \cap (Occurrences \cup Replies) = {}
  /\ Occurrences \cap Replies = {}

ASSUME EventBounds ==
  /\ NoRun \notin Runs
  /\ WakeRuns \cap Stable = {} /\ UserRuns \cap (Occurrences \cup Replies) = {}
  /\ TombstoneLimit \in Nat \ {0}
  /\ {MaxRounds, MaxResets, MaxRepeats, MaxEvents} \subseteq Nat

VARIABLES
  \* Durable.
  run,        \* currentRun.runId
  pending,    \* currentRun.pendingRuntimeEvents
  configured, \* currentRun.config is loaded
  queue,      \* message_queue
  log,        \* events in messages
  recorded,   \* stable run ids in messages
  handled,    \* HANDLED_IPC_CALLS, the last TombstoneLimit of them
  fenced,     \* ABORTED_RUN_IDS, the last TombstoneLimit of them
  \* The Kernel's record of each call.
  call,       \* "new", "open", "ended", "old" (ended before the last reset)
  source,     \* the run that made it
  \* runTick of the active run.
  stage, stale, count, context, fellBack, rounds,
  \* Bounds and history.
  resets,
  appended,   \* how often the event was appended
  read,       \* events in the context of a generation that answered
  swallowed,  \* events counted as read after the answer, by no generation
  ended       \* how the last run ended

process == <<run, pending, configured, queue, log, recorded>>
fences == <<handled, fenced, call, source>>
fiber == <<stage, stale, count, context, fellBack, rounds>>
history == <<resets, appended, read, swallowed, ended>>
vars == <<process, fences, fiber, history>>

-----------------------------------------------------------------------------
Holds(s, x) == \E i \in 1 .. Len(s) : s[i] = x

Queued(r) == Holds(queue, r)

Located(r) == run = r \/ Queued(r) \/ r \in recorded

\* Ids crypto.randomUUID can return: none that still means something.
Fresh == {w \in WakeRuns : run # w /\ ~Queued(w) /\ ~Holds(fenced, w)
                           /\ \A c \in Calls : source[c] # w}

\* Mutant of Less: nothing is taken off.
LessNothing(n, m) == n

Less(n, m) == IF n > m THEN n - m ELSE 0

\* Mutant of LastOf: the newest tombstone is dropped with the oldest.
LastButNewest(s, n) == SubSeq(s, IF Len(s) > n THEN Len(s) - n + 1 ELSE 1, Len(s) - 1)

LastOf(s, n) == IF Len(s) > n THEN SubSeq(s, Len(s) - n + 1, Len(s)) ELSE s

\* The abort of run r is remembered, at most TombstoneLimit of them.
Fence(r) == fenced' = IF r = NoRun \/ Holds(fenced, r) THEN fenced
                      ELSE LastOf(Append(fenced, r), TombstoneLimit)

Appends(es) ==
  /\ log' = log \cup es
  /\ appended' = [e \in Events |-> IF e \in es THEN appended[e] + 1 ELSE appended[e]]

\* Run r becomes active with a tick to come.
Activate(r) ==
  /\ run' = r
  /\ recorded' = recorded \cup ({r} \cap Stable)
  /\ pending' = 0 /\ configured' = FALSE
  /\ stage' = "none" /\ stale' = 0 /\ count' = 0 /\ context' = {}
  /\ fellBack' = FALSE /\ rounds' = 0

\* The active run ends and the head of q is claimed.
EndRun(q, how) ==
  /\ ended' = how
  /\ IF q = << >>
       THEN /\ Activate(NoRun)
            /\ queue' = q
            /\ Appends({})
       ELSE /\ Activate(Head(q))
            /\ queue' = Tail(q)
            /\ Appends({Head(q)} \cap Replies)

\* An event for the active run is appended and counted.
Count(e) ==
  /\ pending' = pending + 1
  /\ Appends({e})
  /\ UNCHANGED <<run, configured, queue, recorded, fiber>>

Init ==
  /\ run = NoRun /\ pending = 0 /\ configured = FALSE
  /\ queue = << >> /\ log = {} /\ recorded = {}
  /\ handled = << >> /\ fenced = << >>
  /\ call = [c \in Calls |-> "new"] /\ source = [c \in Calls |-> NoRun]
  /\ stage = "none" /\ stale = 0 /\ count = 0 /\ context = {}
  /\ fellBack = FALSE /\ rounds = 0
  /\ resets = 0 /\ appended = [e \in Events |-> 0]
  /\ read = {} /\ swallowed = {} /\ ended = "ok"

-----------------------------------------------------------------------------
(* What arrives. *)

\* handleProcSend: a direct user message starts a run, or supersedes one.
UserSend(u) ==
  /\ ~Located(u)
  /\ Activate(u)
  /\ Fence(run)
  /\ UNCHANGED <<queue, log, handled, call, source, history>>

Begun(e) == appended[e] > 0 \/ (e \in Calls /\ call[e] # "new")

\* The bounds let the event come, or come again.
Room(e) ==
  /\ appended[e] < MaxRepeats
  /\ Cardinality({x \in Events \ {e} : Begun(x)}) < MaxEvents

\* handleWatchedSignalTriggered.
Signal(e) ==
  /\ appended[e] = 0 /\ Room(e)
  /\ IF run # NoRun THEN Count(e)
     ELSE /\ \E w \in Fresh : Activate(w)
          /\ Appends({e})
          /\ UNCHANGED queue
  /\ UNCHANGED <<fences, resets, read, swallowed, ended>>

\* handleProcScheduleDeliver; the Kernel repeats it when the response is lost.
Occurrence(e) ==
  /\ ~Located(e) /\ Room(e)
  /\ IF run # NoRun
       THEN IF e \in Replies
              THEN /\ queue' = Append(queue, e)
                   /\ UNCHANGED <<run, pending, configured, log, recorded, fiber, appended>>
              ELSE Count(e)
       ELSE /\ Activate(e)
            /\ Appends({e})
            /\ UNCHANGED queue
  /\ UNCHANGED <<fences, resets, read, swallowed, ended>>

\* A tool of the active run delegates a task.
Delegate(c) ==
  /\ run # NoRun /\ call[c] = "new" /\ Room(c)
  /\ call' = [call EXCEPT ![c] = "open"]
  /\ source' = [source EXCEPT ![c] = run]
  /\ UNCHANGED <<process, handled, fenced, fiber, history>>

\* The task ends; the Kernel sends its terminal event from now on.
CallEnds(c) ==
  /\ call[c] = "open"
  /\ call' = [call EXCEPT ![c] = "ended"]
  /\ UNCHANGED <<process, handled, fenced, source, fiber, history>>

\* handleIpcSignal: nothing for a handled call, an aborted source or an event
\* older than the reset. An event of another run than the active one queues a
\* wake run and is not counted.
IpcReply(c) ==
  /\ call[c] = "ended"
  /\ ~Holds(handled, c)
  /\ ~Holds(fenced, source[c])
  /\ Room(c)
  /\ handled' = LastOf(Append(handled, c), TombstoneLimit)
  /\ IF run = NoRun
       THEN /\ \E w \in Fresh : Activate(w)
            /\ Appends({c})
            /\ UNCHANGED queue
     ELSE IF source[c] # run
       THEN /\ \E w \in Fresh : queue' = Append(queue, w)
            /\ Appends({c})
            /\ UNCHANGED <<run, pending, configured, recorded, fiber>>
     ELSE Count(c)
  /\ UNCHANGED <<fenced, call, source, resets, read, swallowed, ended>>

-----------------------------------------------------------------------------
(* runTick. *)

Moves(from, to) == run # NoRun /\ stage = from /\ stage' = to

\* The run record is read; it is kept over the awaits to come.
Begin ==
  /\ Moves("none", IF configured THEN "build" ELSE "config")
  /\ stale' = pending /\ fellBack' = FALSE
  /\ UNCHANGED <<process, fences, count, context, rounds, history>>

\* The AI config, the tools or the prompt are loaded: the copy is written back.
LoadConfig(more) ==
  /\ Moves("config", IF more THEN "config" ELSE "build")
  /\ pending' = stale
  /\ configured' = ~more
  /\ UNCHANGED <<run, queue, log, recorded, fences, stale, count, context, fellBack,
                 rounds, history>>

\* buildGenerationContext: count and history are read, media are fetched...
ReadHistory ==
  /\ Moves("build", "hydrate")
  /\ count' = pending /\ context' = log
  /\ UNCHANGED <<process, fences, stale, fellBack, rounds, history>>

\* ... and consumeRuntimeEventsInContext takes the count off; the model is called.
Generate ==
  /\ Moves("hydrate", "generate")
  /\ pending' = Less(pending, count)
  /\ UNCHANGED <<run, configured, queue, log, recorded, fences, stale, count, context,
                 fellBack, rounds, history>>

\* switchToFallback writes the copy of the run back and builds a new context.
Fallback ==
  /\ Moves("generate", "build")
  /\ ~fellBack /\ fellBack' = TRUE
  /\ pending' = stale
  /\ UNCHANGED <<run, configured, queue, log, recorded, fences, stale, count, context,
                 rounds, history>>

\* The model answered, with or without tool calls: the answer is appended and
\* the context is built once more, now only to measure it.
Answer(final) ==
  /\ Moves("generate", IF final THEN "closing" ELSE "calling")
  /\ final \/ rounds < MaxRounds
  /\ rounds' = IF final THEN rounds ELSE rounds + 1
  /\ read' = read \cup context
  /\ count' = pending /\ context' = log
  /\ UNCHANGED <<process, fences, stale, fellBack, resets, appended, swallowed, ended>>

\* The second context is built: what it holds is taken off the count. The run
\* finishes, or its tools run and the next tick begins.
Measured ==
  /\ \/ Moves("closing", "finish")
     \/ Moves("calling", "none")
  /\ pending' = Less(pending, count)
  /\ swallowed' = swallowed \cup (context \ read)
  /\ UNCHANGED <<run, configured, queue, log, recorded, fences, stale, count, context,
                 fellBack, rounds, resets, appended, read, ended>>

\* An await of runTick rejects, or the generation failed for good.
Fail ==
  /\ \E s \in {"config", "build", "hydrate", "generate"} : Moves(s, "failing")
  /\ UNCHANGED <<process, fences, stale, count, context, fellBack, rounds, history>>

\* Mutant of FinishRun: no wake run is queued.
FinishWithoutWake ==
  /\ run # NoRun /\ stage \in {"finish", "failing"}
  /\ EndRun(queue, IF stage = "finish" THEN "ok" ELSE "error")
  /\ UNCHANGED <<fences, resets, read, swallowed>>

\* finishRun: a wake run if events are left and nothing else is queued.
FinishRun ==
  /\ run # NoRun /\ stage \in {"finish", "failing"}
  /\ LET how == IF stage = "finish" THEN "ok" ELSE "error" IN
       IF pending > 0 /\ queue = << >>
         THEN \E w \in Fresh : EndRun(<<w>>, how)
         ELSE EndRun(queue, how)
  /\ UNCHANGED <<fences, resets, read, swallowed>>

-----------------------------------------------------------------------------
\* handleProcAbort: the count goes with the run.
Abort ==
  /\ run # NoRun
  /\ Fence(run)
  /\ EndRun(queue, "aborted")
  /\ UNCHANGED <<handled, call, source, resets, read, swallowed>>

\* handleProcReset, with the history deleted.
Reset ==
  /\ resets < MaxResets /\ resets' = resets + 1
  /\ Fence(run)
  /\ run' = NoRun /\ pending' = 0 /\ configured' = FALSE
  /\ queue' = << >> /\ log' = {} /\ recorded' = {}
  /\ call' = [c \in Calls |-> IF call[c] = "ended" THEN "old" ELSE call[c]]
  /\ stage' = "none" /\ stale' = 0 /\ count' = 0 /\ context' = {}
  /\ fellBack' = FALSE /\ rounds' = 0
  /\ ended' = "aborted"
  /\ UNCHANGED <<handled, source, appended, read, swallowed>>

\* The object restarts: the tick of the active run begins again.
Restart ==
  /\ stage # "none"
  /\ stage' = "none" /\ stale' = 0 /\ count' = 0 /\ context' = {} /\ fellBack' = FALSE
  /\ UNCHANGED <<process, fences, rounds, history>>

Next ==
  \/ \E u \in UserRuns : UserSend(u)
  \/ \E e \in Signals : Signal(e)
  \/ \E e \in Occurrences \cup Replies : Occurrence(e)
  \/ \E c \in Calls : Delegate(c) \/ CallEnds(c) \/ IpcReply(c)
  \/ Begin \/ ReadHistory \/ Generate \/ Fallback \/ Measured \/ Fail \/ FinishRun
  \/ \E b \in BOOLEAN : LoadConfig(b) \/ Answer(b)
  \/ Abort \/ Reset \/ Restart

Spec == Init /\ [][Next]_vars

-----------------------------------------------------------------------------
\* Every variable keeps its type; a fenced run is a run, never "no run".
TypeOK ==
  /\ run \in Runs \cup {NoRun} /\ queue \in Seq(Runs)
  /\ pending \in Nat /\ stale \in Nat /\ count \in Nat /\ rounds \in Nat /\ resets \in Nat
  /\ configured \in BOOLEAN /\ fellBack \in BOOLEAN
  /\ log \subseteq Events /\ context \subseteq Events
  /\ read \subseteq Events /\ swallowed \subseteq Events
  /\ recorded \subseteq Stable /\ handled \in Seq(Calls) /\ fenced \in Seq(Runs)
  /\ call \in [Calls -> {"new", "open", "ended", "old"}]
  /\ source \in [Calls -> Runs \cup {NoRun}]
  /\ stage \in {"none", "config", "build", "hydrate", "generate", "closing",
                "calling", "finish", "failing"}
  /\ appended \in [Events -> Nat]
  /\ ended \in {"ok", "error", "aborted"}

\* Calls with a reply in the history, now or before a reset.
Answered == {c \in Calls : appended[c] > 0}

\* However often the Kernel repeats a delivery, and whichever run is active: one
\* delegated task puts one message into the history as long as no more than
\* TombstoneLimit tasks were answered; one reply occurrence is one run, queued,
\* active or recorded, until a reset forgets it. Compaction of the history
\* (compactHistoryPrefix) forgets it as well; it is not modelled.
RepeatsAddNothing ==
  /\ \A c \in Calls : appended[c] > 1 => Cardinality(Answered) > TombstoneLimit
  /\ \A e \in Replies :
       /\ appended[e] + (IF Queued(e) THEN 1 ELSE 0) <= 1 + resets
       /\ \A i, j \in 1 .. Len(queue) : queue[i] = e /\ queue[j] = e => i = j

\* When a process falls idle after a completed run, every event in its history
\* was in the context of a generation that answered, or was in the second
\* context its run built after the answer.
EventsAccounted == run = NoRun /\ ended = "ok" => log \subseteq read \cup swallowed

\* A wake run is queued only for an event no answering generation has seen, or
\* if an occurrence or an answer came again, after one had.
WakesAreWarranted ==
  [][ (stage \in {"finish", "failing"} /\ queue = << >> /\ run' \in WakeRuns \ {run})
        => ~(log \subseteq read) \/ \E e \in Occurrences \cup Calls : appended[e] > 1 ]_vars

=============================================================================

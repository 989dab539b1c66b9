------------------------------ MODULE Scheduler ------------------------------
(***************************************************************************)
(* One schedule of the Kernel: its row in `schedules`, the wake rows of    *)
(* the host's alarm, and the handlers that change them across awaits.      *)
(*                                                                         *)
(* A wake names the schedule and is obeyed only while its id is the one    *)
(* the schedule records. A run marks the schedule, awaits the target,      *)
(* writes back what it computed from the record it read before, and arms   *)
(* the next wake. sched.update cancels the wake, awaits, stores, arms.     *)
(* sched.run without an id reads all that is due and runs it record by     *)
(* record, so what it knows of a schedule may be old when its turn comes.  *)
(* An instant is abstracted to whether it has passed; a wake may fire      *)
(* early. The host's schedule and cancel calls are taken to succeed: a     *)
(* refused wake row would leave a schedule without a wake, too.            *)
(***************************************************************************)
EXTENDS Naturals, FiniteSets

CONSTANTS Kinds,        \* subset of {"once", "repeat"}: at/after, every/cron
          MaxAttempts,  \* MAX_ONE_SHOT_SCHEDULE_DELIVERY_ATTEMPTS, 10 in the code
          MaxWakes,     \* bound on the wake ids in use at once
          MaxEvents     \* bound on updates, runs by a user and restarts together

ASSUME SchedulerAssumption ==
  /\ Kinds \subseteq {"once", "repeat"}
  /\ MaxAttempts \in Nat \ {0}
  /\ MaxWakes \in Nat /\ MaxEvents \in Nat

VARIABLES
  \* Durable: the row of `schedules` and the host's rows for onScheduleDue.
  phase,      \* "new", "live", "removed"
  kind,       \* of the expression; an update does not change it here
  enabled,
  next,       \* next_run_at: "null", "future", "due"
  running,    \* running_at is set
  occ,        \* one_shot_occurrence_id, 0 for NULL
  tries,      \* one_shot_attempt_count
  wake,       \* wake_schedule_id, 0 for NULL
  rows,       \* wake rows of the host
  \* In memory: the handlers that await.
  dispatches, \* runScheduleRecord awaiting its target
  arms,       \* scheduleScheduleWake done, setWakeScheduleId due
  updates,    \* handleSchedulerUpdate awaiting the cancellation
  listed,     \* runSchedules without an id that have read the schedule as due
  \* Bounds and history.
  issued,     \* occurrence ids handed out so far
  granted,    \* those of sched.add and sched.update
  attempts,   \* due dispatches of the occurrence granted last
  wish,       \* what the user last said of `enabled`
  cut,        \* what a wake or the end of a run was lost by, if ever: "restart",
              \* "force", "batch"
  events

row == <<phase, kind, enabled, next, running, occ, tries, wake>>
memory == <<dispatches, arms, updates, listed>>
history == <<granted, attempts, wish, cut>>
vars == <<row, rows, memory, issued, history, events>>

-----------------------------------------------------------------------------
Wakes == 1 .. MaxWakes

Occs == 1 .. 1 + MaxEvents

Live == phase = "live"

\* computeNextRunAt is after now, so what it returns has not passed.
Armable == enabled /\ next # "null"

\* Wake ids are random; the model takes one that nothing refers to any more.
Held == rows \cup {wake} \cup {a.id : a \in arms} \cup {u.prev : u \in updates}
             \cup {x.via : x \in dispatches \cup arms}

FreeWakes == Wakes \ Held

\* Mutant of Stored: the row of a new wake is left out.
NotStored(others, id) == others

\* The host's rows once it has stored a new one.
Stored(others, id) == others \cup {id}

\* scheduleScheduleWake for a record with a next run, next to the rows `others`:
\* the row is stored, its id returned later. `via` is the wake row whose callback
\* waits for it, or 0.
Arm(others, via) ==
  \E id \in FreeWakes :
    /\ \A other \in FreeWakes : id <= other
    /\ rows' = Stored(others, id)
    /\ arms' = arms \cup {[id |-> id, via |-> via]}

\* The callback of a wake row has returned: the host deletes the row.
Settled(via) == rows' = rows \ {via}

Init ==
  /\ phase = "new" /\ kind \in Kinds
  /\ enabled = FALSE /\ next = "null" /\ running = FALSE
  /\ occ = 0 /\ tries = 0 /\ wake = 0 /\ rows = {}
  /\ dispatches = {} /\ arms = {} /\ updates = {} /\ listed = 0
  /\ issued = 0 /\ granted = {} /\ attempts = 0
  /\ wish = FALSE /\ cut = {}
  /\ events = 0

\* handleSchedulerAdd with an enabled expression.
Add ==
  /\ phase = "new"
  /\ phase' = "live"
  /\ enabled' = TRUE /\ next' = "future" /\ wish' = TRUE
  /\ IF kind = "once"
       THEN /\ occ' = issued + 1 /\ issued' = issued + 1 /\ granted' = {issued + 1}
       ELSE UNCHANGED <<occ, issued, granted>>
  /\ Arm(rows, 0)
  /\ UNCHANGED <<kind, running, tries, wake, dispatches, updates, listed, attempts,
                 cut, events>>

TimePasses ==
  /\ next = "future"
  /\ next' = "due"
  /\ UNCHANGED <<phase, kind, enabled, running, occ, tries, wake, rows, memory,
                 issued, history, events>>

\* armSchedule, runScheduleRecord and onScheduleDue after the await: the id is
\* recorded (on a row that may be gone), the callback's own row is deleted.
WakeRecorded(a) ==
  /\ arms' = arms \ {a}
  /\ wake' = IF Live THEN a.id ELSE wake
  /\ rows' = rows \ {a.via}
  /\ UNCHANGED <<phase, kind, enabled, next, running, occ, tries, dispatches, updates,
                 listed, issued, history, events>>

-----------------------------------------------------------------------------
(* A run. *)

\* Mutant of Idle: running_at is not looked at.
NeverBusy == TRUE

\* markRunning refuses a schedule whose running_at is set.
Idle == ~running

\* markRunning and the start of the dispatch. The stored occurrence of an armed
\* one-shot is its key; force runs have a random key and count no attempt.
StartRun(mode, via) ==
  /\ Live /\ Idle
  /\ running' = TRUE
  /\ LET armed == kind = "once" /\ Armable
         key == IF armed THEN occ ELSE 0 IN
       /\ occ' = key
       /\ tries' = IF key = 0 THEN 0 ELSE tries
       /\ attempts' = IF armed /\ mode = "due" THEN attempts + 1 ELSE attempts
       /\ dispatches' = dispatches \cup
            {[mode |-> mode, via |-> via, enabled |-> enabled, next |-> next,
              occ |-> key, try |-> tries + 1]}

\* The alarm runs its rows one after the other, and a row fires at least a
\* second after it was stored, when its id has long been recorded.
Ready(w) ==
  /\ w \in rows
  /\ \A x \in dispatches \cup arms : x.via = 0
  /\ \A a \in arms : a.id # w

\* onScheduleDue of a wake the schedule does not record.
FireStale(w) ==
  /\ Ready(w)
  /\ ~Live \/ wake # w
  /\ rows' = rows \ {w}
  /\ UNCHANGED <<row, memory, issued, history, events>>

\* Mutant of Early: a wake that comes early is used up.
NeverEarly == FALSE

\* The wake came before the time it is meant for (or another run has moved it).
Early == enabled /\ next = "future"

\* onScheduleDue of the recorded wake: the schedule runs; or it is not due yet
\* and is armed again; or the run is skipped and the wake used up. A due run
\* arms the next wake itself when it ends; a force run does not.
FireDue(w) ==
  /\ Ready(w)
  /\ Live /\ wake = w
  /\ IF enabled /\ next = "due" /\ Idle
       THEN /\ StartRun("due", w)
            /\ UNCHANGED <<rows, arms, cut>>
     ELSE IF Early
       THEN /\ Arm(rows, w)
            /\ UNCHANGED <<running, occ, tries, attempts, dispatches, cut>>
       ELSE /\ rows' = rows \ {w}
            /\ cut' = IF Armable /\ \E d \in dispatches : d.mode = "force"
                        THEN cut \cup {"force"} ELSE cut
            /\ UNCHANGED <<running, occ, tries, attempts, dispatches, arms>>
  /\ UNCHANGED <<phase, kind, enabled, next, wake, updates, listed, issued,
                 granted, wish, events>>

\* sched.run by a user of one schedule, if it is due or by force.
RunNow(mode) ==
  /\ events < MaxEvents
  /\ mode = "due" => enabled /\ next = "due"
  /\ StartRun(mode, 0)
  /\ events' = events + 1
  /\ UNCHANGED <<phase, kind, enabled, next, wake, rows, arms, updates, listed, issued,
                 granted, wish, cut>>

\* sched.run without an id: the schedule is among the records that are due; those
\* before it are run first.
ListDue ==
  /\ events < MaxEvents
  /\ Live /\ enabled /\ next = "due"
  /\ listed' = listed + 1
  /\ events' = events + 1
  /\ UNCHANGED <<row, rows, dispatches, arms, updates, issued, history>>

\* The turn of the schedule comes. Only the record read before is asked whether it
\* is due: the schedule runs as it is stored now, even if it is no longer due.
BatchRuns ==
  /\ listed > 0
  /\ listed' = listed - 1
  /\ kind = "once" => Armable
  /\ StartRun("due", 0)
  /\ UNCHANGED <<phase, kind, enabled, next, wake, rows, arms, updates, issued, granted,
                 wish, cut, events>>

\* A one-shot that is no longer armed is marked as running, but has no occurrence,
\* and occurrenceKey throws before anything that would end the run.
BatchMarks ==
  /\ listed > 0
  /\ listed' = listed - 1
  /\ Live /\ Idle
  /\ kind = "once" /\ ~Armable
  /\ running' = TRUE
  /\ occ' = 0 /\ tries' = 0
  /\ cut' = cut \cup {"batch"}
  /\ UNCHANGED <<phase, kind, enabled, next, wake, rows, dispatches, arms, updates, issued,
                 granted, attempts, wish, events>>

\* The schedule is running or removed when its turn comes, or the record before it
\* has thrown and taken the rest of the batch with it.
BatchSkips ==
  /\ listed > 0
  /\ listed' = listed - 1
  /\ UNCHANGED <<row, rows, dispatches, arms, updates, issued, history, events>>

\* What a run writes back: a force run what it read, a one-shot that may be
\* tried again a later time, otherwise computeNextRunAfterFinish.
Outcome(d, result) ==
  IF d.mode = "force" THEN [enabled |-> d.enabled, next |-> d.next]
  ELSE IF kind = "once" /\ result = "retry" /\ d.try < MaxAttempts
    THEN [enabled |-> TRUE, next |-> "future"]
  ELSE IF kind = "once" THEN [enabled |-> FALSE, next |-> "null"]
  ELSE [enabled |-> TRUE, next |-> "future"]

\* Mutant of Superseded: the stored occurrence is not compared.
NeverSuperseded(d) == FALSE

\* finishRun: the occurrence of the run is no longer the stored one.
Superseded(d) == d.occ # 0 /\ occ # d.occ

\* What a force run read as a future instant may have passed when it writes it back.
Passing(d, n) == IF d.mode = "force" /\ n = "future" THEN {"future", "due"} ELSE {n}

\* Only an attempt at the stored occurrence counts, and no force run does.
CountedTries(d) == IF d.mode = "due" /\ occ = d.occ THEN tries + 1 ELSE tries

\* Mutant of KeptOccurrence: a retry gets a new occurrence.
NewOccurrence == issued + 1

\* The occurrence a one-shot that stays armed goes on with.
KeptOccurrence == occ

\* finishRun of a schedule that still exists. Only a one-shot notices that it
\* was updated meanwhile.
FinishRow(d, result) ==
  LET out == Outcome(d, result) IN
  /\ enabled' = IF Superseded(d) THEN enabled ELSE out.enabled
  /\ next' \in IF Superseded(d) /\ next # "null" THEN {next} ELSE Passing(d, out.next)
  /\ LET kept == kind = "once" /\ enabled' /\ next' # "null" IN
       /\ occ' = IF kept THEN KeptOccurrence ELSE 0
       /\ tries' = IF kept /\ occ # 0 THEN CountedTries(d) ELSE 0

\* The dispatch returned: finishRun, and a due run arms what is enabled. A force
\* run that writes back over an update may enable the schedule without a wake.
DispatchReturns(d, result) ==
  /\ dispatches' = dispatches \ {d}
  /\ IF ~Live
       THEN /\ Settled(d.via)
            /\ UNCHANGED <<enabled, next, running, occ, tries, wake, arms, cut>>
       ELSE /\ running' = FALSE
            /\ FinishRow(d, result)
            /\ IF enabled' /\ next' # "null" /\ d.mode = "due"
                 THEN /\ Arm(rows, d.via)
                      /\ UNCHANGED wake
                 ELSE /\ Settled(d.via)
                      /\ wake' = IF enabled' THEN wake ELSE 0
                      /\ UNCHANGED arms
            /\ cut' = IF d.mode = "force" /\ enabled' /\ ~enabled
                        THEN cut \cup {"force"} ELSE cut
  /\ UNCHANGED <<phase, kind, updates, listed, issued, granted, attempts, wish, events>>

-----------------------------------------------------------------------------
(* Update, removal, restart. *)

\* A patch of the name, the target or the like, of the expression, of `enabled`.
Patches == {"rename", "retime", "enable", "disable"}

\* handleSchedulerUpdate up to the cancellation of the wake it read.
UpdateBegin(p) ==
  /\ Live /\ events < MaxEvents
  /\ events' = events + 1
  /\ updates' = updates \cup {[prev |-> wake, patch |-> p]}
  /\ UNCHANGED <<row, rows, dispatches, arms, listed, issued, history>>

\* store.update. The handler always passes the target, so every update starts a
\* new occurrence of an armed one-shot.
UpdateStores(u) ==
  /\ updates' = updates \ {u}
  /\ LET p == u.patch
         on == p = "enable" \/ (enabled /\ p # "disable")
         at == IF ~on THEN "null" ELSE IF p = "rename" THEN next ELSE "future"
         armed == kind = "once" /\ on /\ at # "null"
         cancelled == rows \ {u.prev} IN
       IF ~Live
         THEN /\ rows' = cancelled
              /\ UNCHANGED <<enabled, next, occ, tries, wake, arms, issued, granted,
                             attempts, wish>>
         ELSE /\ enabled' = on /\ next' = at
              /\ occ' = IF armed THEN issued + 1 ELSE 0
              /\ issued' = IF armed THEN issued + 1 ELSE issued
              /\ granted' = IF armed THEN granted \cup {issued + 1} ELSE granted
              /\ attempts' = 0
              /\ tries' = IF occ' = occ THEN tries ELSE 0
              /\ wish' = (p = "enable" \/ (wish /\ p # "disable"))
              /\ IF on /\ at # "null"
                   THEN /\ Arm(cancelled, 0)
                        /\ UNCHANGED wake
                   ELSE /\ rows' = cancelled
                        /\ wake' = 0
                        /\ UNCHANGED arms
  /\ UNCHANGED <<phase, kind, running, dispatches, listed, cut, events>>

\* handleSchedulerRemove. A wake that fires before it is cancelled finds nothing.
Remove ==
  /\ Live
  /\ phase' = "removed"
  /\ rows' = rows \ {wake}
  /\ UNCHANGED <<kind, enabled, next, running, occ, tries, wake, memory, issued,
                 history, events>>

\* The Kernel stops and is constructed again. The alarm repeats the rows whose
\* callbacks had not returned; nothing clears running_at, and nothing takes up
\* what a user asked for, or the end of a run whose own wake an update cancelled.
Restart ==
  /\ events < MaxEvents
  /\ events' = events + 1
  /\ dispatches' = {} /\ arms' = {} /\ updates' = {} /\ listed' = 0
  /\ cut' = IF running \/ updates # {} \/ \E a \in arms : a.via # wake \/ a.via \notin rows
              THEN cut \cup {"restart"} ELSE cut
  /\ UNCHANGED <<row, rows, issued, granted, attempts, wish>>

Results == {"ok", "retry", "fail"}

Next ==
  \/ Add \/ TimePasses \/ Remove \/ Restart
  \/ \E w \in rows : FireStale(w) \/ FireDue(w)
  \/ \E a \in arms : WakeRecorded(a)
  \/ \E d \in dispatches, result \in Results : DispatchReturns(d, result)
  \/ \E mode \in {"due", "force"} : RunNow(mode)
  \/ ListDue \/ BatchRuns \/ BatchMarks \/ BatchSkips
  \/ \E p \in Patches : UpdateBegin(p)
  \/ \E u \in updates : UpdateStores(u)

Spec == Init /\ [][Next]_vars

\* Time passes, the alarm runs its rows, and every await ends.
Fairness ==
  /\ WF_vars(TimePasses)
  /\ \A w \in Wakes : WF_vars(FireStale(w) \/ FireDue(w))
  /\ WF_vars(\E a \in arms : WakeRecorded(a))
  /\ WF_vars(\E d \in dispatches, result \in Results : DispatchReturns(d, result))
  /\ WF_vars(\E u \in updates : UpdateStores(u))

FairSpec == Spec /\ Fairness

-----------------------------------------------------------------------------
Dispatches ==
  [mode : {"due", "force"}, via : Wakes \cup {0}, enabled : BOOLEAN,
   next : {"null", "future", "due"}, occ : Occs \cup {0}, try : 1 .. MaxAttempts + 1]

RowOK ==
  /\ phase \in {"new", "live", "removed"} /\ kind \in Kinds
  /\ enabled \in BOOLEAN /\ next \in {"null", "future", "due"} /\ running \in BOOLEAN
  /\ occ \in 0 .. issued /\ tries \in 0 .. MaxAttempts /\ wake \in Wakes \cup {0}

MemoryOK ==
  /\ rows \subseteq Wakes /\ dispatches \subseteq Dispatches
  /\ arms \subseteq [id : Wakes, via : Wakes \cup {0}]
  /\ updates \subseteq [prev : Wakes \cup {0}, patch : Patches]
  /\ listed \in 0 .. MaxEvents

HistoryOK ==
  /\ issued \in 0 .. 1 + MaxEvents /\ granted \subseteq Occs
  /\ attempts \in Nat /\ wish \in BOOLEAN /\ events \in 0 .. MaxEvents
  /\ cut \subseteq {"restart", "force", "batch"}

TypeOK == RowOK /\ MemoryOK /\ HistoryOK

\* A schedule is dispatched by one run at a time (overlap policy "skip"), and
\* marked running only by a run there is, unless a restart killed that run or a
\* batch with an old record marked a one-shot that has nothing to run.
OneRunAtATime ==
  /\ Cardinality(dispatches) <= 1
  /\ Live /\ running => dispatches # {} \/ cut \cap {"restart", "batch"} # {}

\* Every retry of a one-shot presents the key the user's add or update gave it,
\* so the target can tell a repetition from a new occurrence.
RetriesKeepTheKey ==
  \A d \in dispatches : d.mode = "due" /\ kind = "once" => d.occ \in granted

\* One arming of a one-shot is tried at most MaxAttempts times, however often
\* it is forced, updated or woken meanwhile.
AttemptsBounded == attempts <= MaxAttempts

\* A one-shot that the user disabled is not enabled by the end of a run that
\* began before.
DisabledStays == Live /\ kind = "once" /\ enabled => wish

\* An enabled schedule with a next run has a recorded wake, or a step under way
\* that will record one. As long as the host takes every wake row, three things
\* lose it: a restart inside a run or a user's request; a force run, which makes a
\* due wake skip it and writes back over an update; and the mark of a batch that
\* read an old record, which makes every wake skip it.
Armed ==
  Live /\ Armable /\ cut = {} =>
    \/ wake \in rows \/ arms # {} \/ updates # {}
    \/ \E d \in dispatches : d.mode = "due"

\* Due, and no run has taken it.
Overdue == Live /\ enabled /\ next = "due" /\ ~running

\* What is due runs, or is updated or removed, unless its wake was lost (Armed).
DueRuns == Overdue ~> ~Overdue \/ cut # {}

=============================================================================

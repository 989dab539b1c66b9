---------------------------- MODULE FinishOutbox ----------------------------
(***************************************************************************)
(* The durable outbox of proc.run.finished in the Process Durable Object.  *)
(*                                                                         *)
(* emitRunFinished appends the finish of a run to an array kept under one  *)
(* key of process_kv and starts onRunFinishDelivery, which reads the whole *)
(* array, awaits the signal to the Kernel, and then either filters the run *)
(* out of the array as it is NOW, or, when the send failed, writes back    *)
(* the array it read BEFORE the await with the attempt counter raised.     *)
(* Deliveries of different runs are in flight at once, and a restart       *)
(* redelivers what the array holds. The retry row is asked for only after  *)
(* that write: the host may refuse it, or the object stop before it.       *)
(***************************************************************************)
EXTENDS Naturals

CONSTANTS Finishes,     \* the runs whose finish is emitted
          MaxAttempts,  \* MAX_RUN_FINISH_DELIVERY_ATTEMPTS, 10 in the code
          MaxCrashes    \* bound on the restarts of the object

ASSUME MaxAttemptsAssumption == MaxAttempts \in Nat \ {0}
ASSUME MaxCrashesAssumption == MaxCrashes \in Nat

VARIABLES outbox,    \* the stored array: deliveryAttempts of each run it holds
          calls,     \* deliveries awaiting their send, each with the array it read
          timers,    \* rows of the durable scheduler for onRunFinishDelivery
          emitted,   \* runs that emitRunFinished was called for
          received,  \* how often the Kernel got the finish (0, 1, "2 or more")
          noted,     \* runs whose delivery was given up with a history note
          failures,  \* failed sends of the run so far, saturating
          stranded,  \* runs refused a retry row since the last restart
          crashes    \* restarts so far

outboxVars ==
  <<outbox, calls, timers, emitted, received, noted, failures, stranded, crashes>>

-----------------------------------------------------------------------------
\* The array, one entry per run: its runs mapped to their failed attempts.
Box == UNION {[S -> 0 .. MaxAttempts - 1] : S \in SUBSET Finishes}

\* What started a delivery: the emit itself, a retry timer, or the constructor.
Via == {"emit", "timer", "boot"}

\* Where it stands: the send is on its way, the Kernel has it, or the send threw,
\* the counter is stored, and the retry row is asked for.
Call == [run : Finishes, via : Via, snap : Box, at : {"out", "got", "counted"}]

Pending(box, r) == r \in DOMAIN box

Without(box, r) == [x \in DOMAIN box \ {r} |-> box[x]]

\* `payload.deliveryAttempts = attempts` on the array that was read.
Retried(box, r) == [box EXCEPT ![r] = @ + 1]

\* `pending.some((finish) => finish.runId === run.runId)` guards the push.
Pushed(box, r) ==
  [x \in DOMAIN box \cup {r} |-> IF x \in DOMAIN box THEN box[x] ELSE 0]

\* The synchronous prefix of onRunFinishDelivery: the array is read, the send begins.
DeliveryCall(box, r, via) == [run |-> r, via |-> via, snap |-> box, at |-> "out"]

\* The host runs one callback of its alarm at a time.
AlarmBusy == \E c \in calls : c.via = "timer"

\* A row stays while its callback runs, so that a restart repeats it, and is
\* deleted when the callback returned.
RowsAfter(c) == IF c.via = "timer" THEN [timers EXCEPT ![c.run] = @ - 1] ELSE timers

Saturated(n, top) == IF n < top THEN n + 1 ELSE n

-----------------------------------------------------------------------------
OutboxInit ==
  /\ outbox = [r \in {} |-> 0]
  /\ calls = {}
  /\ timers = [r \in Finishes |-> 0]
  /\ emitted = {}
  /\ received = [r \in Finishes |-> 0]
  /\ noted = {}
  /\ failures = [r \in Finishes |-> 0]
  /\ stranded = {}
  /\ crashes = 0

\* Mutant of EmitRunFinished: a retry is scheduled along with the first send.
EmitAndSchedule(r) ==
  /\ r \notin emitted
  /\ emitted' = emitted \cup {r}
  /\ outbox' = Pushed(outbox, r)
  /\ calls' = calls \cup {DeliveryCall(Pushed(outbox, r), r, "emit")}
  /\ timers' = [timers EXCEPT ![r] = 1]
  /\ UNCHANGED <<received, noted, failures, stranded, crashes>>

\* emitRunFinished: push unless present, then start the delivery.
EmitRunFinished(r) ==
  /\ r \notin emitted
  /\ emitted' = emitted \cup {r}
  /\ outbox' = Pushed(outbox, r)
  /\ calls' = calls \cup {DeliveryCall(Pushed(outbox, r), r, "emit")}
  /\ UNCHANGED <<timers, received, noted, failures, stranded, crashes>>

\* The host runs a retry row: the delivery begins, or returns at once when the
\* array holds no entry of the run.
RetryTimer(r) ==
  /\ timers[r] > 0 /\ ~AlarmBusy
  /\ \/ /\ Pending(outbox, r)
        /\ calls' = calls \cup {DeliveryCall(outbox, r, "timer")}
        /\ UNCHANGED timers
     \/ /\ ~Pending(outbox, r)
        /\ timers' = [timers EXCEPT ![r] = @ - 1]
        /\ UNCHANGED calls
  /\ UNCHANGED <<outbox, emitted, received, noted, failures, stranded, crashes>>

\* The Kernel handles the signal; the caller does not know it yet.
KernelReceives(c) ==
  /\ c.at = "out"
  /\ calls' = (calls \ {c}) \cup {[c EXCEPT !.at = "got"]}
  /\ received' = [received EXCEPT ![c.run] = Saturated(@, 2)]
  /\ UNCHANGED <<outbox, timers, emitted, noted, failures, stranded, crashes>>

\* The send returned: removePendingRunFinish on the array as it is now.
SendReturns(c) ==
  /\ c.at = "got"
  /\ calls' = calls \ {c}
  /\ timers' = RowsAfter(c)
  /\ outbox' = Without(outbox, c.run)
  /\ UNCHANGED <<emitted, received, noted, failures, stranded, crashes>>

\* Mutant of LastAttempt: one attempt too few.
OneAttemptLess(c) == c.snap[c.run] + 2 >= MaxAttempts

LastAttempt(c) == c.snap[c.run] + 1 >= MaxAttempts

\* The send threw, whether or not the Kernel had the signal.
SendFailsBase(c) ==
  /\ c.at # "counted"
  /\ failures' = [failures EXCEPT ![c.run] = Saturated(@, MaxAttempts)]
  /\ UNCHANGED <<emitted, received, stranded, crashes>>

\* It threw for the MaxAttempts-th time: drop the entry, leave a note.
GiveUp(c) ==
  /\ LastAttempt(c)
  /\ SendFailsBase(c)
  /\ calls' = calls \ {c}
  /\ timers' = RowsAfter(c)
  /\ outbox' = Without(outbox, c.run)
  /\ noted' = noted \cup {c.run}

\* It threw before that: the array read before it is written back with the
\* counter raised, and a retry row is asked for.
CountFailure(c) ==
  /\ ~LastAttempt(c)
  /\ SendFailsBase(c)
  /\ outbox' = Retried(c.snap, c.run)
  /\ calls' = (calls \ {c}) \cup {[c EXCEPT !.snap = Retried(@, c.run), !.at = "counted"]}
  /\ UNCHANGED <<timers, noted>>

\* Mutant of RetryStored: the call is over, and there is no row.
RetryForgotten(c) ==
  /\ c.at = "counted"
  /\ calls' = calls \ {c}
  /\ timers' = RowsAfter(c)
  /\ UNCHANGED <<outbox, emitted, received, noted, failures, stranded, crashes>>

\* The row is stored: in place of the one that is running, if it was a retry.
RetryStored(c) ==
  /\ c.at = "counted"
  /\ calls' = calls \ {c}
  /\ timers' = [RowsAfter(c) EXCEPT ![c.run] = @ + 1]
  /\ UNCHANGED <<outbox, emitted, received, noted, failures, stranded, crashes>>

\* The row is refused, and the error ends the delivery: nothing catches that of an
\* emit or of the constructor. The row that was running is tried again, or it is
\* gone as well once the host gave up its tries.
RetryRefused(c) ==
  /\ c.at = "counted"
  /\ calls' = calls \ {c}
  /\ \/ c.via = "timer" /\ UNCHANGED <<timers, stranded>>
     \/ timers' = RowsAfter(c) /\ stranded' = stranded \cup {c.run}
  /\ UNCHANGED <<outbox, emitted, received, noted, failures, crashes>>

\* The object is evicted and constructed anew: the deliveries in flight are
\* gone, and every finish of the stored array is delivered again.
Redeliver ==
  /\ crashes < MaxCrashes
  /\ crashes' = crashes + 1
  /\ calls' = {DeliveryCall(outbox, r, "boot") : r \in DOMAIN outbox}
  /\ stranded' = {}
  /\ UNCHANGED <<outbox, timers, emitted, received, noted, failures>>

OutboxNext ==
  \/ \E r \in Finishes : EmitRunFinished(r) \/ RetryTimer(r)
  \/ \E c \in calls :
       \/ KernelReceives(c) \/ SendReturns(c) \/ GiveUp(c) \/ CountFailure(c)
       \/ RetryStored(c) \/ RetryRefused(c)
  \/ Redeliver

OutboxSpec == OutboxInit /\ [][OutboxNext]_outboxVars

\* Every send and every request for a row ends one way or the other. The rows of
\* the alarm wait for one another, and each gets its turn.
DeliveryEnds(r, via) ==
  \E c \in calls :
    /\ c.run = r /\ c.via = via
    /\ \/ SendReturns(c) \/ GiveUp(c) \/ CountFailure(c)
       \/ RetryStored(c) \/ RetryRefused(c)

OutboxFairness ==
  /\ \A r \in Finishes : SF_outboxVars(RetryTimer(r))
  /\ \A r \in Finishes, via \in Via : WF_outboxVars(DeliveryEnds(r, via))

OutboxFairSpec == OutboxSpec /\ OutboxFairness

-----------------------------------------------------------------------------
(* Properties. *)

\* The array and every copy of it hold attempt counters below the limit: what
\* reaches the limit is removed, never stored.
OutboxTypeOK ==
  /\ outbox \in Box
  /\ calls \subseteq Call
  /\ timers \in [Finishes -> Nat]
  /\ emitted \subseteq Finishes
  /\ received \in [Finishes -> 0 .. 2]
  /\ noted \subseteq Finishes
  /\ failures \in [Finishes -> 0 .. MaxAttempts]
  /\ stranded \subseteq Finishes
  /\ crashes \in 0 .. MaxCrashes

\* The attempt counter of an entry, in the array or in any copy of it that a
\* delivery may still write back, never exceeds the sends of that run that
\* really failed.
AttemptsHonest ==
  /\ \A r \in DOMAIN outbox : outbox[r] <= failures[r]
  /\ \A c \in calls : \A r \in DOMAIN c.snap : c.snap[r] <= failures[r]

\* A delivery in flight carries the entry it read for its own run.
CallsCarryTheirRun == \A c \in calls : Pending(c.snap, c.run)

\* The note "Automatic reply delivery stopped after repeated transport
\* failures" is written for a run only after MaxAttempts of its own sends
\* failed, whatever other deliveries wrote to the shared array meanwhile.
NoteIsEarned == \A r \in noted : failures[r] = MaxAttempts

\* Without a restart and without a failed send of its own, the Kernel gets the
\* finish of a run at most once, even when another run's stale write puts the
\* delivered entry back into the array.
OnceWhenQuiet ==
  \A r \in Finishes : received[r] = 2 => failures[r] > 0 \/ crashes > 0

\* Every emitted finish reaches the Kernel or is given up with a note in the
\* history (do.test.ts:6884 "keeps failed run-finish delivery in the durable
\* outbox", do.test.ts:6915 "stops terminal delivery after ten attempts and
\* records an inspectable history note"), even if a refused retry row is excused.
Settled(r) == received[r] > 0 \/ r \in noted

EventuallySettled ==
  \A r \in Finishes : r \in emitted ~> Settled(r) \/ r \in stranded

\* A finish that stays alone is settled: its sends may fail, the object may stop
\* between any two steps, also between the raised counter and the row, and its
\* alarm may run into its own unfinished delivery. The one thing that leaves it
\* waiting is a refused retry row: nothing but the next restart takes it up again,
\* and from there the promise holds anew.
LoneFinishSettles ==
  \A r \in Finishes : emitted = {r} ~> Settled(r) \/ emitted # {r} \/ r \in stranded

=============================================================================

------------------------------ MODULE IpcCalls ------------------------------
(***************************************************************************)
(* The calls that one run of a process makes to another process through   *)
(* the Kernel: the rows of ipc_calls, the wake rows of their deadlines,    *)
(* the delivery rows of the host's alarm, and the handlers that await in   *)
(* between. proc.ipc.call answers when the target has admitted the run;    *)
(* the result comes later as ipc.reply or ipc.timeout.                     *)
(*                                                                         *)
(* External: the target process (it may admit a run although the send     *)
(* throws, and its finish may be signalled twice or never) and the source  *)
(* process (RuntimeEvents models what it does with a signal). The host     *)
(* runs the rows of its alarm one after the other, repeats a row whose     *)
(* callback threw or was cut off, and may refuse to store a row.           *)
(***************************************************************************)
EXTENDS Naturals, FiniteSets

CONSTANTS Calls,       \* calls of one source run to one target
          MaxFaults,   \* bound on refused rows and sends that throw, together
          MaxRestarts  \* bound on restarts of the Kernel

ASSUME IpcAssumption ==
  /\ IsFiniteSet(Calls)
  /\ MaxFaults \in Nat /\ MaxRestarts \in Nat

VARIABLES
  \* Durable.
  row,        \* "none", "pending", "completed", "timed_out"
  claimed,    \* delivery_started_at is set
  timers,     \* calls with a stored wake row for the deadline
  jobs,       \* number of onIpcCallDelivery rows of a call
  past,       \* calls whose deadline has passed
  \* In memory.
  handler,    \* of proc.ipc.call: "new", "arming", "sending", "done"
  queued,     \* calls whose idempotent schedule() is not answered yet
  flights,    \* deliverIpcCall past its claim: a set of records
  \* External and history.
  target,     \* the target's run: "none", "admitted", "signalled", "again"
  told,       \* answer of proc.ipc.call: "none", "started", "late", "error"
  heard,      \* verdicts that reached the source
  signals,    \* number of signals that reached the source
  cancelled,  \* calls whose source run was aborted after they were made
  stranded,   \* calls whose delivery gave up before a restart
  troubles,   \* failures of each call's delivery and restarts
  faults, restarts

durable == <<row, claimed, timers, jobs, past>>
memory == <<handler, queued, flights>>
history == <<target, told, heard, signals, cancelled, stranded, troubles>>
vars == <<durable, memory, history, faults, restarts>>

-----------------------------------------------------------------------------
Terminal == {"completed", "timed_out"}

\* A deliverIpcCall in progress: of a call, run by a job row of the alarm or
\* directly; `kind` is the status it read when it claimed the row.
Flights == [call : Calls, via : {"job", "direct"}, kind : Terminal,
            at : {"out", "arrived", "again"}]

Delivering(c) == {f \in flights : f.call = c /\ f.at # "again"}

\* The alarm waits for the callback it has started.
AlarmFree == \A f \in flights : f.via # "job"

Fault ==
  /\ faults < MaxFaults
  /\ faults' = faults + 1

Init ==
  /\ row = [c \in Calls |-> "none"] /\ claimed = [c \in Calls |-> FALSE]
  /\ timers = {} /\ jobs = [c \in Calls |-> 0] /\ past = {}
  /\ handler = [c \in Calls |-> "new"] /\ queued = {} /\ flights = {}
  /\ target = [c \in Calls |-> "none"] /\ told = [c \in Calls |-> "none"]
  /\ heard = [c \in Calls |-> {}] /\ signals = [c \in Calls |-> 0]
  /\ cancelled = {} /\ stranded = {} /\ troubles = [c \in Calls |-> 0]
  /\ faults = 0 /\ restarts = 0

-----------------------------------------------------------------------------
(* handleProcIpcCall. *)

\* The row is created and the deadline's wake row asked for.
Create(c) ==
  /\ handler[c] = "new"
  /\ handler' = [handler EXCEPT ![c] = "arming"]
  /\ row' = [row EXCEPT ![c] = "pending"]
  /\ UNCHANGED <<claimed, timers, jobs, past, queued, flights, history, faults, restarts>>

\* scheduleIpcCallTimeout stored the wake row; the request goes to the target.
TimerStored(c) ==
  /\ handler[c] = "arming"
  /\ handler' = [handler EXCEPT ![c] = "sending"]
  /\ timers' = timers \cup {c}
  /\ UNCHANGED <<row, claimed, jobs, past, queued, flights, history, faults, restarts>>

\* proc.ipc.call answers `answer`; a caller that is told "error" has its row removed.
Answer(c, answer) ==
  /\ handler' = [handler EXCEPT ![c] = "done"]
  /\ told' = [told EXCEPT ![c] = answer]
  /\ row' = IF answer = "error" THEN [row EXCEPT ![c] = "none"] ELSE row
  /\ UNCHANGED <<claimed, timers, jobs, past, queued, flights, target, heard, signals,
                 cancelled, stranded, troubles, restarts>>

TimerRefused(c) ==
  /\ handler[c] = "arming"
  /\ Answer(c, "error")
  /\ Fault

\* The target takes the run; its answer is still on the way.
TargetAdmits(c) ==
  /\ handler[c] = "sending" /\ target[c] = "none"
  /\ target' = [target EXCEPT ![c] = "admitted"]
  /\ UNCHANGED <<durable, memory, told, heard, signals, cancelled, stranded, troubles,
                 faults, restarts>>

\* The target answered that it admitted the run. The row may be gone by then.
SendAnswered(c) ==
  /\ handler[c] = "sending" /\ target[c] # "none"
  /\ Answer(c, IF c \in past \/ row[c] = "timed_out" THEN "late" ELSE "started")
  /\ UNCHANGED faults

TargetRefuses(c) ==
  /\ handler[c] = "sending" /\ target[c] = "none"
  /\ Answer(c, "error")
  /\ UNCHANGED faults

\* The send throws, or returns no proper answer, whatever the target did.
SendThrows(c) ==
  /\ handler[c] = "sending"
  /\ Answer(c, "error")
  /\ Fault

DeadlinePasses(c) ==
  /\ handler[c] # "new" /\ c \notin past
  /\ past' = past \cup {c}
  /\ UNCHANGED <<row, claimed, timers, jobs, memory, history, faults, restarts>>

-----------------------------------------------------------------------------
(* What ends a call. *)

\* Mutant of Open: a row that has its verdict takes another.
AlwaysOpen(c) == row[c] # "none"

\* completeByRun, failByTargetPid and timeout change a pending row only.
Open(c) == row[c] = "pending"

\* The rows of `these` calls get the verdict, and their deliveries are queued.
Conclude(these, verdict) ==
  /\ row' = [c \in Calls |-> IF c \in these THEN verdict ELSE row[c]]
  /\ queued' = queued \cup these

\* completeIpcCallsForProcessSignal: the finish of the target's run is signalled,
\* perhaps again.
TargetFinishes(c) ==
  /\ target[c] \in {"admitted", "signalled"}
  /\ target' = [target EXCEPT ![c] = IF @ = "admitted" THEN "signalled" ELSE "again"]
  /\ Conclude(IF Open(c) /\ c \notin past THEN {c} ELSE {}, "completed")
  /\ UNCHANGED <<claimed, timers, jobs, past, handler, flights, told, heard, signals,
                 cancelled, stranded, troubles, faults, restarts>>

\* failIpcCallsByTarget after proc.reset or proc.kill of the target.
TargetFails ==
  /\ \E c \in Calls : Open(c)
  /\ Conclude({c \in Calls : Open(c)}, "completed")
  /\ UNCHANGED <<claimed, timers, jobs, past, handler, flights, history, faults, restarts>>

\* The wake row of the deadline. It is rounded up, so the deadline has passed.
TimeoutFires(c) ==
  /\ AlarmFree /\ c \in timers /\ c \in past
  /\ timers' = timers \ {c}
  /\ Conclude(IF Open(c) THEN {c} ELSE {}, "timed_out")
  /\ UNCHANGED <<claimed, jobs, past, handler, flights, history, faults, restarts>>

\* Mutant of Dropped: the rows of the source run stay.
NoneDropped == {}

\* The rows cancelBySourceRun and cancelBySourcePid delete.
Dropped == {c \in Calls : row[c] # "none"}

\* The source run is aborted, or its process reset or killed.
SourceAborts ==
  /\ cancelled = {} /\ \E c \in Calls : row[c] # "none"
  /\ cancelled' = {c \in Calls : row[c] # "none"}
  /\ row' = [c \in Calls |-> IF c \in Dropped THEN "none" ELSE row[c]]
  /\ UNCHANGED <<claimed, timers, jobs, past, memory, target, told, heard, signals,
                 stranded, troubles, faults, restarts>>

-----------------------------------------------------------------------------
(* Delivery. *)

\* Mutant of Claimable: delivery_started_at is not looked at.
ClaimableTwice(c) == row[c] \in Terminal

\* claimDelivery finds a row to deliver.
Claimable(c) == row[c] \in Terminal /\ ~claimed[c]

\* claimDelivery; the signal is sent.
Claim(c, via) ==
  /\ claimed' = [claimed EXCEPT ![c] = TRUE]
  /\ flights' = flights \cup {[call |-> c, via |-> via, kind |-> row[c], at |-> "out"]}

\* queueIpcCallDelivery stored its row, or found one: the call is idempotent.
DeliveryStored(c) ==
  /\ c \in queued
  /\ queued' = queued \ {c}
  /\ jobs' = [jobs EXCEPT ![c] = IF @ = 0 THEN 1 ELSE @]
  /\ UNCHANGED <<row, claimed, timers, past, handler, flights, history, faults, restarts>>

\* queueIpcCallDelivery was refused its row: it delivers at once.
DeliveryRefused(c) ==
  /\ c \in queued
  /\ queued' = queued \ {c}
  /\ IF Claimable(c) THEN Claim(c, "direct") ELSE UNCHANGED <<claimed, flights>>
  /\ Fault
  /\ UNCHANGED <<row, timers, jobs, past, handler, history, restarts>>

\* The alarm runs onIpcCallDelivery.
JobFires(c) ==
  /\ AlarmFree /\ jobs[c] > 0
  /\ IF Claimable(c)
       THEN Claim(c, "job") /\ UNCHANGED jobs
       ELSE /\ jobs' = [jobs EXCEPT ![c] = @ - 1]
            /\ UNCHANGED <<claimed, flights>>
  /\ UNCHANGED <<row, timers, past, handler, queued, history, faults, restarts>>

\* The source process gets the signal.
SignalArrives(f) ==
  /\ f.at = "out"
  /\ flights' = (flights \ {f}) \cup {[f EXCEPT !.at = "arrived"]}
  /\ heard' = [heard EXCEPT ![f.call] = @ \cup {f.kind}]
  /\ signals' = [signals EXCEPT ![f.call] = @ + 1]
  /\ UNCHANGED <<durable, handler, queued, target, told, cancelled, stranded, troubles,
                 faults, restarts>>

\* The callback of a delivery returned: the host deletes the job row.
Returned(f) == IF f.via = "job" THEN [jobs EXCEPT ![f.call] = @ - 1] ELSE jobs

\* The send returned: the row is removed.
DeliveryReturns(f) ==
  /\ f.at = "arrived"
  /\ flights' = flights \ {f}
  /\ row' = [row EXCEPT ![f.call] = "none"]
  /\ jobs' = Returned(f)
  /\ UNCHANGED <<claimed, timers, past, handler, queued, history, faults, restarts>>

\* Mutant of Released: the claim is kept for the retry.
KeepsClaim(f) == claimed

\* releaseDelivery, of a row that still has a verdict.
Released(f) ==
  [claimed EXCEPT ![f.call] = IF row[f.call] \in Terminal THEN FALSE ELSE @]

\* The send threw, whether the signal arrived or not: the claim is released and
\* a new row asked for.
DeliveryThrows(f) ==
  /\ f.at \in {"out", "arrived"}
  /\ Fault
  /\ flights' = (flights \ {f}) \cup {[f EXCEPT !.at = "again"]}
  /\ claimed' = Released(f)
  /\ troubles' = [troubles EXCEPT ![f.call] = @ + 1]
  /\ UNCHANGED <<row, timers, jobs, past, handler, queued, target, told, heard, signals,
                 cancelled, stranded, restarts>>

\* The new row is stored next to the one whose callback now returns.
RetryStored(f) ==
  /\ f.at = "again"
  /\ flights' = flights \ {f}
  /\ jobs' = [Returned(f) EXCEPT ![f.call] = @ + 1]
  /\ UNCHANGED <<row, claimed, timers, past, handler, queued, history, faults, restarts>>

\* The new row is refused. The callback of a job row throws, and the host will
\* repeat it; a direct delivery ends here.
RetryRefused(f) ==
  /\ f.at = "again"
  /\ Fault
  /\ flights' = flights \ {f}
  /\ stranded' = IF f.via = "direct" THEN stranded \cup {f.call} ELSE stranded
  /\ UNCHANGED <<durable, handler, queued, target, told, heard, signals, cancelled,
                 troubles, restarts>>

-----------------------------------------------------------------------------
\* Mutant of Recovered: the constructor queues only what nothing was delivering.
RecoversUnclaimed == {c \in Calls : row[c] \in Terminal /\ ~claimed[c]}

\* recoverDeliveryIds.
Recovered == {c \in Calls : row[c] \in Terminal}

\* The Kernel stops and is constructed again. A wake row that was asked for may
\* have been stored; a caller that waits gets an error.
Restart ==
  /\ restarts < MaxRestarts
  /\ restarts' = restarts + 1
  /\ LET waiting == {c \in Calls : handler[c] \in {"arming", "sending"}} IN
       /\ handler' = [c \in Calls |-> IF c \in waiting THEN "done" ELSE handler[c]]
       /\ told' = [c \in Calls |-> IF c \in waiting THEN "error" ELSE told[c]]
       /\ \E stored \in SUBSET {c \in waiting : handler[c] = "arming"} :
            timers' = timers \cup stored
  /\ flights' = {}
  /\ queued' = Recovered
  /\ claimed' = [c \in Calls |-> IF c \in Recovered THEN FALSE ELSE claimed[c]]
  /\ stranded' = {}
  /\ troubles' = [c \in Calls |-> troubles[c] + 1]
  /\ UNCHANGED <<row, jobs, past, target, heard, signals, cancelled, faults>>

Next ==
  \/ \E c \in Calls :
       \/ Create(c) \/ TimerStored(c) \/ TimerRefused(c)
       \/ TargetAdmits(c) \/ TargetRefuses(c) \/ SendAnswered(c) \/ SendThrows(c)
       \/ DeadlinePasses(c) \/ TargetFinishes(c) \/ TimeoutFires(c)
       \/ DeliveryStored(c) \/ DeliveryRefused(c) \/ JobFires(c)
  \/ TargetFails \/ SourceAborts \/ Restart
  \/ \E f \in flights :
       SignalArrives(f) \/ DeliveryReturns(f) \/ DeliveryThrows(f)
         \/ RetryStored(f) \/ RetryRefused(f)

Spec == Init /\ [][Next]_vars

\* Time passes, the alarm runs each of its rows, the host answers, and a signal
\* that is sent arrives and returns or throws. Nothing of the target is fair.
Fairness ==
  /\ \A c \in Calls :
       WF_vars(DeadlinePasses(c)) /\ SF_vars(TimeoutFires(c))
         /\ WF_vars(DeliveryStored(c)) /\ SF_vars(JobFires(c))
  /\ WF_vars(\E f \in flights : SignalArrives(f) \/ DeliveryReturns(f) \/ RetryStored(f))

FairSpec == Spec /\ Fairness

-----------------------------------------------------------------------------
TypeOK ==
  /\ row \in [Calls -> {"none", "pending"} \cup Terminal] /\ claimed \in [Calls -> BOOLEAN]
  /\ timers \subseteq Calls /\ jobs \in [Calls -> Nat] /\ past \subseteq Calls
  /\ handler \in [Calls -> {"new", "arming", "sending", "done"}]
  /\ queued \subseteq Calls /\ flights \subseteq Flights
  /\ target \in [Calls -> {"none", "admitted", "signalled", "again"}]
  /\ told \in [Calls -> {"none", "started", "late", "error"}]
  /\ heard \in [Calls -> SUBSET Terminal] /\ signals \in [Calls -> Nat]
  /\ cancelled \subseteq Calls /\ stranded \subseteq Calls /\ troubles \in [Calls -> Nat]
  /\ faults \in 0 .. MaxFaults /\ restarts \in 0 .. MaxRestarts

\* A source never hears both a reply and a timeout of one call, however its
\* target's finish, its deadline, a reset and a restart fall together.
OneVerdict == \A c \in Calls : Cardinality(heard[c]) <= 1

\* A source hears a call again only if a delivery of it failed or the Kernel
\* restarted in between.
RepeatsExplained == \A c \in Calls : signals[c] <= 1 + troubles[c]

\* A call cannot be forgotten: a pending row has its deadline's wake (unless a
\* restart cut off the handler, whose caller got an error), and a row with a verdict
\* is being delivered, or has a row or a request that will deliver it, unless
\* a direct delivery was refused its retry.
Pursued ==
  \A c \in Calls :
    /\ row[c] = "pending" => c \in timers \/ handler[c] = "arming" \/ told[c] = "error"
    /\ row[c] \in Terminal =>
         \/ c \in queued \/ jobs[c] > 0 \/ c \in stranded
         \/ \E f \in flights : f.call = c

\* The abort of a source run cancels its calls for good: no delivery of them
\* starts afterwards.
CancelledSilent ==
  [][\A f \in flights' \ flights : f.at = "out" => f.call \notin cancelled]_vars

\* A caller that was told "started" hears the result, unless it was aborted or
\* a direct delivery was refused its retry.
StartedAnswered ==
  \A c \in Calls :
    told[c] = "started" ~> heard[c] # {} \/ c \in cancelled \/ c \in stranded

=============================================================================

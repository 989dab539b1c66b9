-------------------------- MODULE RunLifecycleProofs --------------------------
(***************************************************************************)
(* What RunLifecycle guarantees for every set of runs and every bound: its *)
(* types, that work never waits in the queue of an idle process, that      *)
(* nothing overtakes the queue, that every admission is accounted for and  *)
(* RunProtocol kept, that a repeated id is admitted once, and that only a  *)
(* message which lost its media and its watchdog strands the active run,   *)
(* which takes two restarts or refused host calls.                         *)
(***************************************************************************)
EXTENDS RunLifecycle, FiniteSetTheorems, TLAPS

-----------------------------------------------------------------------------
(* Types. *)

\* Counting a finish or an admission.
LEMMA BumpedType ==
  ASSUME NEW f \in [Runs -> Nat], NEW r \in Runs
  PROVE  /\ Bumped(f, r) \in [Runs -> Nat]
         /\ \A x \in Runs : Bumped(f, r)[x] = IF x = r THEN f[x] + 1 ELSE f[x]
BY DEF Bumped

\* Queueing a message.
LEMMA AppendType ==
  ASSUME NEW q \in Seq(Runs), NEW r \in Runs
  PROVE  Append(q, r) \in Seq(Runs)
OBVIOUS

\* Whatever the host answers, the number of its failures stays in its bound.
LEMMA OutcomeType ==
  ASSUME TypeOK, NEW ok \in BOOLEAN, Outcome(ok)
  PROVE  faults' \in 0 .. MaxFaults
BY BoundsAssumption DEF Outcome, TypeOK

\* What the common tail of the ways a run ends assigns is well typed.
LEMMA ConcludeTypes ==
  ASSUME TypeOK, Busy, NEW q \in Seq(Runs), NEW ok \in BOOLEAN,
         NEW others \in SUBSET Runs, Conclude(q, ok, others)
  PROVE  /\ current' \in Runs \cup {NoRun} /\ media' \in {"none", "stored", "cleared"}
         /\ queue' \in Seq(Runs)
         /\ recorded' \subseteq Runs /\ ticks' \subseteq Runs /\ failing' \subseteq Runs
         /\ preparing' \subseteq Runs /\ unfit' \subseteq Runs
         /\ finishes' \in [Runs -> Nat]
<1>1. CASE q = << >>
  BY <1>1, BumpedType DEF Conclude, TypeOK, Busy
<1>2. CASE q # << >>
  <2>1. Head(q) \in Runs /\ Tail(q) \in Seq(Runs)
    BY <1>2
  <2>2. current \in Runs
    BY DEF TypeOK, Busy
  <2>3. finishes' \in [Runs -> Nat]
    BY <2>2, BumpedType DEF Conclude, TypeOK
  <2>4. current' = Head(q) /\ queue' = Tail(q) /\ media' = "none"
        /\ recorded' = recorded \cup {Head(q)} /\ ticks' \subseteq ticks \cup {Head(q)}
        /\ failing' \subseteq others \cup {Head(q)}
        /\ preparing' \subseteq preparing /\ unfit' \subseteq unfit
    BY <1>2 DEF Conclude, StartRun, ScheduleTick
  <2>5. QED
    BY <2>1, <2>3, <2>4 DEF TypeOK
<1>3. QED
  BY <1>1, <1>2

\* The deferred tick that the end of a tick may schedule is well typed.
LEMMA EndTickTypes ==
  ASSUME TypeOK, NEW r \in Runs, NEW ok \in BOOLEAN, EndTick(r, ok)
  PROVE  /\ fiber' \in [Runs -> {"none", "working", "finishing"}]
         /\ deferred' \subseteq Runs /\ ticks' \subseteq Runs /\ failing' \subseteq Runs
         /\ faults' \in 0 .. MaxFaults
<1>1. fiber' \in [Runs -> {"none", "working", "finishing"}]
  BY DEF EndTick, TypeOK
<1>2. deferred' \subseteq Runs /\ faults' \in 0 .. MaxFaults
  BY OutcomeType DEF EndTick, TypeOK
<1>3. ticks' \subseteq Runs /\ failing' \subseteq Runs
  <2>1. ticks' \subseteq ticks \cup {r} /\ failing' \subseteq failing \cup {r}
    BY DEF EndTick, ScheduleTick
  <2>2. QED
    BY <2>1 DEF TypeOK
<1>4. QED
  BY <1>1, <1>2, <1>3

\* The number of times a run is queued is a number.
LEMMA CopiesType ==
  ASSUME NEW q \in Seq(Runs), NEW r
  PROVE  /\ IsFiniteSet({i \in 1 .. Len(q) : q[i] = r})
         /\ Copies(q, r) \in Nat
<1>1. IsFiniteSet(1 .. Len(q))
  BY FS_Interval
<1>2. IsFiniteSet({i \in 1 .. Len(q) : q[i] = r})
  BY <1>1, FS_Subset
<1>3. QED
  BY <1>2, FS_CardinalityType DEF Copies

\* resetExecutionState leaves well-typed state.
LEMMA ClearTypes ==
  ASSUME TypeOK, ClearExecution
  PROVE  /\ current' = NoRun /\ media' = "none" /\ queue' = << >> /\ tools' = {}
         /\ preparing' = {} /\ unfit' = {}
         /\ dropped' \in [Runs -> Nat]
<1>1. \A r \in Runs : Copies(queue, r) \in Nat
  BY CopiesType DEF TypeOK
<1>2. \A r \in Runs : dropped[r] \in Nat
  BY DEF TypeOK
<1>3. dropped' = [r \in Runs |-> dropped[r] + Copies(queue, r)]
  BY DEF ClearExecution
<1>4. dropped' \in [Runs -> Nat]
  BY <1>1, <1>2, <1>3
<1>5. QED
  BY <1>4 DEF ClearExecution

\* Every handler, timer and restart keeps the types.
LEMMA TypeStep == TypeOK /\ [Next]_vars => TypeOK'
<1> SUFFICES ASSUME TypeOK, [Next]_vars PROVE TypeOK'
  OBVIOUS
<1> USE BoundsAssumption
<1>1. ASSUME NEW ok \in BOOLEAN, Admit(ok)
      PROVE  TypeOK'
  <2>1. Head(waiting) \in Runs /\ Tail(waiting) \in Seq(BgRuns \cup IpcRuns)
    BY <1>1 DEF Admit, TypeOK, Runs
  <2>2. CASE ~alive \/ (Head(waiting) \in BgRuns /\ Located(Head(waiting)))
    BY <1>1, <2>1, <2>2, OutcomeType DEF Admit, TypeOK
  <2>3. CASE ~(~alive \/ (Head(waiting) \in BgRuns /\ Located(Head(waiting)))) /\ Busy
    <3>1. queue' = Append(queue, Head(waiting)) /\ admits' = Bumped(admits, Head(waiting))
      BY <1>1, <2>3 DEF Admit
    <3>2. queue' \in Seq(Runs) /\ admits' \in [Runs -> Nat]
      <4>1. queue \in Seq(Runs) /\ admits \in [Runs -> Nat]
        BY DEF TypeOK
      <4>2. QED
        BY <2>1, <3>1, <4>1, AppendType, BumpedType
    <3>3. QED
      BY <1>1, <2>1, <2>3, <3>2, OutcomeType DEF Admit, TypeOK
  <2>4. CASE ~(~alive \/ (Head(waiting) \in BgRuns /\ Located(Head(waiting)))) /\ ~Busy
    <3>1. StartRun(Head(waiting), ok, failing) /\ admits' = Bumped(admits, Head(waiting))
      BY <1>1, <2>4 DEF Admit
    <3>2. current' \in Runs /\ admits' \in [Runs -> Nat]
      BY <2>1, <3>1, BumpedType DEF TypeOK, StartRun
    <3>3. QED
      BY <1>1, <2>1, <2>4, <3>1, <3>2, OutcomeType DEF Admit, TypeOK, StartRun, ScheduleTick
  <2>5. QED
    BY <2>2, <2>3, <2>4
<1>2. ASSUME NEW ok \in BOOLEAN, ResetEnd(ok) \/ KillWipe(ok)
      PROVE  TypeOK'
  BY <1>2, OutcomeType DEF ResetEnd, KillWipe, TypeOK, history
<1>3. ASSUME NEW ok \in BOOLEAN, NEW r \in Runs, MediaReady(r, ok) \/ MediaFails(r, ok)
      PROVE  TypeOK'
  <2>1. CASE MediaReady(r, ok)
    <3>1. CASE current = r /\ media # "none"
      BY <2>1, <3>1, OutcomeType DEF MediaReady, ScheduleTick, TypeOK, history
    <3>2. CASE ~(current = r /\ media # "none")
      BY <2>1, <3>2, OutcomeType DEF MediaReady, TypeOK, history
    <3>3. QED
      BY <3>1, <3>2
  <2>2. CASE MediaFails(r, ok)
    BY <2>2, OutcomeType DEF MediaFails, TypeOK, history
  <2>3. QED
    BY <1>3, <2>1, <2>2
<1>4. ASSUME NEW ok \in BOOLEAN, NEW r \in Runs, FailPendingMedia(r, ok)
      PROVE  TypeOK'
  <2>1. CASE current = r /\ media # "none"
    <3>1. Busy /\ Conclude(queue, ok, failing) /\ failing \in SUBSET Runs /\ queue \in Seq(Runs)
      BY <1>4, <2>1, NoRunAssumption DEF FailPendingMedia, Busy, TypeOK
    <3>2. QED
      BY <1>4, <2>1, <3>1, ConcludeTypes, OutcomeType DEF FailPendingMedia, TypeOK
  <2>2. CASE ~(current = r /\ media # "none")
    BY <1>4, <2>2, OutcomeType DEF FailPendingMedia, TypeOK
  <2>3. QED
    BY <2>1, <2>2
<1>5. ASSUME NEW ok \in BOOLEAN, NEW r \in Runs, TickReturns(r, ok)
      PROVE  TypeOK'
  BY <1>5, EndTickTypes DEF TickReturns, TypeOK, history
<1>6. ASSUME NEW ok \in BOOLEAN, NEW r \in Runs, ModelCallsTools(r, ok)
      PROVE  TypeOK'
  <2>1. rounds' \in [Runs -> Nat]
    BY <1>6, BumpedType DEF ModelCallsTools, TypeOK
  <2>2. QED
    BY <1>6, <2>1, EndTickTypes DEF ModelCallsTools, TypeOK
<1>7. ASSUME NEW ok \in BOOLEAN, NEW r \in Runs, ToolsResolved(r, ok)
      PROVE  TypeOK'
  <2>1. ticks' \subseteq ticks \cup {r} /\ failing' \subseteq failing \cup {r}
        /\ tools' \subseteq tools
    BY <1>7 DEF ToolsResolved, ScheduleTick
  <2>2. faults' \in 0 .. MaxFaults
    BY <1>7, OutcomeType DEF ToolsResolved
  <2>3. QED
    BY <1>7, <2>1, <2>2 DEF ToolsResolved, TypeOK, history
<1>8. ASSUME NEW ok \in BOOLEAN, NEW r \in Runs, FinishUnscheduled(r, ok)
      PROVE  TypeOK'
  <2>1. CASE current = r
    <3>1. Busy /\ Conclude(queue, ok, failing \ {r}) /\ (failing \ {r}) \in SUBSET Runs
          /\ queue \in Seq(Runs)
      BY <1>8, <2>1, NoRunAssumption DEF FinishUnscheduled, Busy, TypeOK
    <3>2. QED
      BY <1>8, <2>1, <3>1, ConcludeTypes, OutcomeType DEF FinishUnscheduled, TypeOK
  <2>2. CASE current # r
    BY <1>8, <2>2, OutcomeType DEF FinishUnscheduled, TypeOK
  <2>3. QED
    BY <2>1, <2>2
<1>9. ASSUME NEW ok \in BOOLEAN, NEW r \in Runs,
             NEW wake \in {<< >>} \cup {<<w>> : w \in WakeRuns}, FinishRun(r, wake, ok)
      PROVE  TypeOK'
  <2>1. wake \in Seq(Runs) /\ {wake[i] : i \in 1 .. Len(wake)} \subseteq Runs
    <3>1. CASE wake = << >>
      BY <3>1
    <3>2. ASSUME NEW w \in WakeRuns, wake = <<w>>
          PROVE  wake \in Seq(Runs) /\ {wake[i] : i \in 1 .. Len(wake)} \subseteq Runs
      BY <3>2 DEF Runs
    <3>3. QED
      BY <3>1, <3>2
  <2>2. fiber' \in [Runs -> {"none", "working", "finishing"}] /\ deferred' \in SUBSET Runs
        /\ faults' \in 0 .. MaxFaults
    BY <1>9, OutcomeType DEF FinishRun, TypeOK
  <2>3. CASE current = r
    <3>1. Busy /\ Conclude(queue \o wake, ok, failing) /\ failing \in SUBSET Runs
          /\ queue \o wake \in Seq(Runs)
      <4>1. queue \in Seq(Runs) /\ failing \in SUBSET Runs
        BY DEF TypeOK
      <4>2. queue \o wake \in Seq(Runs)
        BY <2>1, <4>1
      <4>3. QED
        BY <1>9, <2>3, <4>1, <4>2, NoRunAssumption DEF FinishRun, Busy
    <3>2. sent' \in SUBSET Runs
      BY <1>9, <2>1, <2>3 DEF FinishRun, TypeOK
    <3>3. admits' = IF wake = << >> THEN admits ELSE Bumped(admits, wake[1])
      BY <1>9, <2>3 DEF FinishRun
    <3>4. admits' \in [Runs -> Nat]
      <4>1. wake # << >> => wake[1] \in Runs
        BY <2>1
      <4>2. QED
        BY <3>3, <4>1, BumpedType DEF TypeOK
    <3>5. QED
      <4>1. /\ current' \in Runs \cup {NoRun} /\ media' \in {"none", "stored", "cleared"}
            /\ queue' \in Seq(Runs)
            /\ recorded' \subseteq Runs /\ ticks' \subseteq Runs /\ failing' \subseteq Runs
            /\ preparing' \subseteq Runs /\ unfit' \subseteq Runs
            /\ finishes' \in [Runs -> Nat]
        BY <3>1, ConcludeTypes
      <4>2. UNCHANGED <<alive, watches, tools, lock, waiting, rounds, resets, crashes,
                        killed, dropped>>
        BY <1>9 DEF FinishRun
      <4>3. QED
        BY <2>2, <3>2, <3>4, <4>1, <4>2 DEF TypeOK
  <2>4. CASE current # r
    BY <1>9, <2>2, <2>4 DEF FinishRun, TypeOK
  <2>5. QED
    BY <2>3, <2>4
<1>10. ASSUME NEW ok \in BOOLEAN, Abort(ok)
       PROVE  TypeOK'
  <2>1. Busy /\ Conclude(queue, ok, failing) /\ failing \in SUBSET Runs /\ queue \in Seq(Runs)
    BY <1>10 DEF Abort, TypeOK
  <2>2. QED
    BY <1>10, <2>1, ConcludeTypes, OutcomeType DEF Abort, TypeOK
<1>11. ASSUME NEW ok \in BOOLEAN, NEW r \in UserRuns, NEW withMedia \in BOOLEAN,
              UserSend(r, withMedia, ok)
       PROVE  TypeOK'
  <2>1. r \in Runs
    BY DEF Runs
  <2>2. admits' \in [Runs -> Nat] /\ finishes' \in [Runs -> Nat]
    <3>1. Busy => current \in Runs
      BY DEF Busy, TypeOK
    <3>2. QED
      BY <1>11, <2>1, <3>1, BumpedType DEF UserSend, TypeOK
  <2>3. QED
    BY <1>11, <2>1, <2>2, OutcomeType DEF UserSend, ScheduleTick, TypeOK
<1>12. ASSUME NEW ok \in BOOLEAN, NEW r \in SchedRuns \cup WakeRuns, RuntimeEvent(r, ok)
       PROVE  TypeOK'
  <2>1. r \in Runs
    BY DEF Runs
  <2>2. admits' \in [Runs -> Nat] /\ sent' \in SUBSET Runs
    <3>1. admits' = Bumped(admits, r) /\ sent' \subseteq sent \cup {r}
      BY <1>12 DEF RuntimeEvent
    <3>2. admits \in [Runs -> Nat] /\ sent \subseteq Runs
      BY DEF TypeOK
    <3>3. QED
      BY <2>1, <3>1, <3>2, BumpedType
  <2>3. CASE Busy
    <3>1. queue' = Append(queue, r) /\ queue' \in Seq(Runs)
      <4>1. queue \in Seq(Runs) /\ queue' = Append(queue, r)
        BY <1>12, <2>3 DEF RuntimeEvent, TypeOK
      <4>2. QED
        BY <2>1, <4>1, AppendType
    <3>2. QED
      BY <1>12, <2>2, <2>3, <3>1, OutcomeType DEF RuntimeEvent, TypeOK
  <2>4. CASE ~Busy
    BY <1>12, <2>1, <2>2, <2>4, OutcomeType DEF RuntimeEvent, StartRun, ScheduleTick, TypeOK
  <2>5. QED
    BY <2>3, <2>4
<1>13. ASSUME NEW r \in BgRuns \cup IpcRuns, Arrive(r)
       PROVE  TypeOK'
  <2>1. waiting' \in Seq(BgRuns \cup IpcRuns)
    <3>1. waiting' = Append(waiting, r) /\ waiting \in Seq(BgRuns \cup IpcRuns)
      BY <1>13 DEF Arrive, TypeOK
    <3>2. QED
      BY <3>1
  <2>2. sent' \subseteq Runs
    <3>1. sent' \subseteq sent \cup {r} /\ r \in Runs /\ sent \subseteq Runs
      BY <1>13 DEF Arrive, TypeOK, Runs
    <3>2. QED
      BY <3>1
  <2>3. QED
    BY <1>13, <2>1, <2>2 DEF Arrive, TypeOK, durable
<1>14. ASSUME NEW r \in Runs, WatchFires(r) \/ TickFires(r) \/ ModelAnswers(r)
       PROVE  TypeOK'
  <2>1. CASE WatchFires(r)
    <3>1. unfit' \subseteq unfit \cup {r} /\ watches' \subseteq watches
      BY <2>1 DEF WatchFires
    <3>2. QED
      BY <2>1, <3>1 DEF WatchFires, TypeOK, history
  <2>2. CASE TickFires(r)
    <3>1. ticks' \subseteq ticks /\ deferred' \subseteq deferred \cup {r}
      BY <2>2 DEF TickFires
    <3>2. fiber' \in [Runs -> {"none", "working", "finishing"}]
      BY <2>2 DEF TickFires, TypeOK
    <3>3. QED
      BY <2>2, <3>1, <3>2 DEF TickFires, TypeOK, history
  <2>3. CASE ModelAnswers(r)
    BY <2>3 DEF ModelAnswers, TypeOK, history, durable
  <2>4. QED
    BY <1>14, <2>1, <2>2, <2>3
<1>15. CASE ResetBegin
  <2>1. Busy => current \in Runs
    BY DEF Busy, TypeOK
  <2>2. finishes' \in [Runs -> Nat] /\ resets' \in 0 .. MaxResets
    <3>1. finishes' \in [Runs -> Nat]
      BY <1>15, <2>1, BumpedType DEF ResetBegin, TypeOK
    <3>2. resets' \in 0 .. MaxResets
      BY <1>15 DEF ResetBegin, TypeOK
    <3>3. QED
      BY <3>1, <3>2
  <2>3. ClearExecution
    BY <1>15 DEF ResetBegin
  <2>4. /\ current' = NoRun /\ media' = "none" /\ queue' = << >> /\ tools' = {}
        /\ preparing' = {} /\ unfit' = {} /\ dropped' \in [Runs -> Nat]
    BY <2>3, ClearTypes
  <2>5. QED
    BY <1>15, <2>2, <2>4 DEF ResetBegin, TypeOK
<1>16. CASE KillBegin \/ KillNoticeFails
  <2>1. CASE KillBegin
    BY <2>1 DEF KillBegin, TypeOK, durable
  <2>2. CASE KillNoticeFails
    BY <2>2, OutcomeType DEF KillNoticeFails, TypeOK, durable, history
  <2>3. QED
    BY <1>16, <2>1, <2>2
<1>17. CASE KillClear
  <2>1. Busy => current \in Runs
    BY DEF Busy, TypeOK
  <2>2. killed' \in [Runs -> Nat]
    BY <1>17, <2>1, BumpedType DEF KillClear, TypeOK
  <2>3. ClearExecution
    BY <1>17 DEF KillClear
  <2>4. /\ current' = NoRun /\ media' = "none" /\ queue' = << >> /\ tools' = {}
        /\ preparing' = {} /\ unfit' = {} /\ dropped' \in [Runs -> Nat]
    BY <2>3, ClearTypes
  <2>5. QED
    BY <1>17, <2>2, <2>4 DEF KillClear, TypeOK
<1>18. ASSUME NEW approval \in BOOLEAN, Restart(approval)
       PROVE  TypeOK'
  BY <1>18 DEF Restart, TypeOK, Busy
<1>19. CASE UNCHANGED vars
  BY <1>19 DEF vars, durable, volatile, history, TypeOK
<1>20. QED
  BY <1>1, <1>2, <1>3, <1>4, <1>5, <1>6, <1>7, <1>8, <1>9, <1>10, <1>11, <1>12, <1>13,
     <1>14, <1>15, <1>16, <1>17, <1>18, <1>19 DEF Next, Progress

\* Every variable keeps its type, through every handler, timer and restart.
THEOREM TypeCorrect == Spec => []TypeOK
<1>1. Init => TypeOK
  BY BoundsAssumption DEF Init, TypeOK
<1>2. QED
  BY <1>1, TypeStep, PTL DEF Spec

-----------------------------------------------------------------------------
(* What the steps do to the runs, whichever handler makes them. *)

runs == <<current, queue, admits, finishes, killed, dropped>>

\* An idle process starts a run.
Begins(r) ==
  /\ ~Busy /\ current' = r /\ admits' = Bumped(admits, r)
  /\ UNCHANGED <<queue, finishes, killed, dropped>>

\* A busy one queues it.
Enqueues(r) ==
  /\ Busy /\ queue' = Append(queue, r) /\ admits' = Bumped(admits, r)
  /\ UNCHANGED <<current, finishes, killed, dropped>>

\* A direct user message takes over.
TakesOver(r) ==
  /\ r \in UserRuns /\ r # current
  /\ current' = r /\ admits' = Bumped(admits, r)
  /\ finishes' = IF Busy THEN Bumped(finishes, current) ELSE finishes
  /\ UNCHANGED <<queue, killed, dropped>>

\* The active run ends; `wake` is the run it leaves behind an empty queue.
Ends(wake) ==
  /\ Busy
  /\ wake # << >> => queue = << >>
  /\ finishes' = Bumped(finishes, current)
  /\ admits' = IF wake = << >> THEN admits ELSE Bumped(admits, wake[1])
  /\ IF queue \o wake = << >>
       THEN current' = NoRun /\ queue' = queue \o wake
       ELSE current' = Head(queue \o wake) /\ queue' = Tail(queue \o wake)
  /\ UNCHANGED <<killed, dropped>>

\* Reset and kill empty the process.
Empties ==
  /\ current' = NoRun /\ queue' = << >>
  /\ dropped' = [r \in Runs |-> dropped[r] + Copies(queue, r)]
  /\ \/ finishes' = (IF Busy THEN Bumped(finishes, current) ELSE finishes) /\ killed' = killed
     \/ killed' = (IF Busy THEN Bumped(killed, current) ELSE killed) /\ finishes' = finishes
  /\ UNCHANGED admits

Wakes == {<< >>} \cup {<<w>> : w \in WakeRuns}

\* A finish queues at most one wake run.
LEMMA WakeType ==
  ASSUME NEW wake \in Wakes
  PROVE  wake \in Seq(Runs) /\ (wake = << >> \/ \E w \in Runs : wake = <<w>>)
<1>1. CASE wake = << >>
  BY <1>1
<1>2. ASSUME NEW w \in WakeRuns, wake = <<w>>
      PROVE  wake \in Seq(Runs) /\ \E x \in Runs : wake = <<x>>
  BY <1>2 DEF Runs
<1>3. QED
  BY <1>1, <1>2 DEF Wakes

Shapes ==
  \/ UNCHANGED runs
  \/ \E r \in Runs : Begins(r) \/ Enqueues(r) \/ TakesOver(r)
  \/ \E wake \in Wakes : Ends(wake)
  \/ Empties

\* The common tail of the ends of a run, as a step on run and queue.
LEMMA ConcludeShape ==
  ASSUME TypeOK, Busy, NEW ok, NEW others, Conclude(queue, ok, others),
         UNCHANGED <<admits, killed, dropped>>
  PROVE  Ends(<< >>)
<1>1. queue \in Seq(Runs) /\ queue \o << >> = queue
  BY DEF TypeOK
<1>2. QED
  BY <1>1 DEF Conclude, StartRun, Ends

\* Every step of the process has one of these shapes.
LEMMA StepShape == TypeOK /\ [Next]_vars => Shapes
<1> SUFFICES ASSUME TypeOK, [Next]_vars PROVE Shapes
  OBVIOUS
<1>1. ASSUME NEW ok \in BOOLEAN, Admit(ok)
      PROVE  Shapes
  <2>1. Head(waiting) \in Runs
    BY <1>1 DEF Admit, TypeOK, Runs
  <2>2. UNCHANGED runs \/ Begins(Head(waiting)) \/ Enqueues(Head(waiting))
    BY <1>1 DEF Admit, StartRun, Begins, Enqueues, runs
  <2>3. QED
    BY <2>1, <2>2 DEF Shapes
<1>2. ASSUME NEW ok \in BOOLEAN, ResetEnd(ok) \/ KillWipe(ok)
      PROVE  Shapes
  BY <1>2 DEF ResetEnd, KillWipe, Shapes, runs, history
<1>3. ASSUME NEW ok \in BOOLEAN, NEW r \in Runs,
             \/ MediaReady(r, ok) \/ MediaFails(r, ok) \/ TickReturns(r, ok)
             \/ ModelCallsTools(r, ok) \/ ToolsResolved(r, ok)
      PROVE  Shapes
  BY <1>3 DEF MediaReady, MediaFails, TickReturns, ModelCallsTools, ToolsResolved,
              Shapes, runs, history
<1>4. ASSUME NEW ok \in BOOLEAN, NEW r \in Runs, FailPendingMedia(r, ok)
      PROVE  Shapes
  <2>1. UNCHANGED <<admits, killed, dropped>>
    BY <1>4 DEF FailPendingMedia
  <2>2. CASE current = r /\ media # "none"
    <3>1. Ends(<< >>)
      BY <1>4, <2>1, <2>2, ConcludeShape, NoRunAssumption DEF FailPendingMedia, Busy
    <3>2. QED
      BY <3>1 DEF Shapes, Wakes
  <2>3. CASE ~(current = r /\ media # "none")
    BY <1>4, <2>1, <2>3 DEF FailPendingMedia, Shapes, runs
  <2>4. QED
    BY <2>2, <2>3
<1>5. ASSUME NEW ok \in BOOLEAN, NEW r \in Runs, FinishUnscheduled(r, ok)
      PROVE  Shapes
  <2>1. UNCHANGED <<admits, killed, dropped>>
    BY <1>5 DEF FinishUnscheduled
  <2>2. CASE current = r
    <3>1. Ends(<< >>)
      BY <1>5, <2>1, <2>2, ConcludeShape, NoRunAssumption DEF FinishUnscheduled, Busy
    <3>2. QED
      BY <3>1 DEF Shapes, Wakes
  <2>3. CASE current # r
    BY <1>5, <2>1, <2>3 DEF FinishUnscheduled, Shapes, runs
  <2>4. QED
    BY <2>2, <2>3
<1>6. ASSUME NEW ok \in BOOLEAN, Abort(ok)
      PROVE  Shapes
  <2>1. Ends(<< >>)
    BY <1>6, ConcludeShape DEF Abort
  <2>2. QED
    BY <2>1 DEF Shapes, Wakes
<1>7. ASSUME NEW ok \in BOOLEAN, NEW r \in Runs, NEW wake \in Wakes, FinishRun(r, wake, ok)
      PROVE  Shapes
  <2>1. CASE current = r
    <3>1. Ends(wake)
      BY <1>7, <2>1, NoRunAssumption DEF FinishRun, Conclude, StartRun, Ends, Busy
    <3>2. QED
      BY <3>1 DEF Shapes
  <2>2. CASE current # r
    BY <1>7, <2>2 DEF FinishRun, Shapes, runs
  <2>3. QED
    BY <2>1, <2>2
<1>8. ASSUME NEW ok \in BOOLEAN, NEW r \in UserRuns, NEW withMedia \in BOOLEAN,
             UserSend(r, withMedia, ok)
      PROVE  Shapes
  <2>1. r \in Runs /\ TakesOver(r)
    BY <1>8 DEF UserSend, Located, TakesOver, Runs
  <2>2. QED
    BY <2>1 DEF Shapes
<1>9. ASSUME NEW ok \in BOOLEAN, NEW r \in SchedRuns \cup WakeRuns, RuntimeEvent(r, ok)
      PROVE  Shapes
  <2>1. r \in Runs /\ (Begins(r) \/ Enqueues(r))
    BY <1>9 DEF RuntimeEvent, StartRun, Begins, Enqueues, Runs
  <2>2. QED
    BY <2>1 DEF Shapes
<1>10. ASSUME NEW r \in BgRuns \cup IpcRuns, Arrive(r)
       PROVE  Shapes
  BY <1>10 DEF Arrive, Shapes, runs, durable
<1>11. ASSUME NEW r \in Runs, WatchFires(r) \/ TickFires(r) \/ ModelAnswers(r)
       PROVE  Shapes
  BY <1>11 DEF WatchFires, TickFires, ModelAnswers, Shapes, runs, durable, history
<1>12. CASE ResetBegin \/ KillClear
  BY <1>12 DEF ResetBegin, KillClear, ClearExecution, Shapes, Empties
<1>13. CASE KillBegin \/ KillNoticeFails
  BY <1>13 DEF KillBegin, KillNoticeFails, Shapes, runs, durable, history
<1>14. ASSUME NEW approval \in BOOLEAN, Restart(approval)
       PROVE  Shapes
  BY <1>14 DEF Restart, Shapes, runs
<1>15. CASE UNCHANGED vars
  BY <1>15 DEF vars, durable, history, Shapes, runs
<1>16. QED
  BY <1>1, <1>2, <1>3, <1>4, <1>5, <1>6, <1>7, <1>8, <1>9, <1>10, <1>11, <1>12, <1>13,
     <1>14, <1>15 DEF Next, Progress, Wakes

-----------------------------------------------------------------------------
(* The queue, and the protocol. *)

\* A queue without an active run behind which it waits is never left behind.
LEMMA QueueStep == TypeOK /\ QueueImpliesBusy /\ Shapes => QueueImpliesBusy'
<1> SUFFICES ASSUME TypeOK, QueueImpliesBusy, Shapes PROVE QueueImpliesBusy'
  OBVIOUS
<1>1. ASSUME NEW wake \in Wakes, Ends(wake)
      PROVE  QueueImpliesBusy'
  <2>1. wake \in Seq(Runs) /\ queue \in Seq(Runs)
    BY WakeType DEF TypeOK
  <2>2. queue \o wake \in Seq(Runs)
    BY <2>1
  <2>3. CASE queue \o wake = << >>
    BY <1>1, <2>3 DEF Ends, QueueImpliesBusy
  <2>4. CASE queue \o wake # << >>
    <3>1. Head(queue \o wake) \in Runs
      BY <2>2, <2>4
    <3>2. QED
      BY <1>1, <2>4, <3>1, NoRunAssumption DEF Ends, QueueImpliesBusy, Busy
  <2>5. QED
    BY <2>3, <2>4
<1>2. ASSUME NEW r \in Runs, Begins(r) \/ Enqueues(r) \/ TakesOver(r)
      PROVE  QueueImpliesBusy'
  BY <1>2, NoRunAssumption DEF Begins, Enqueues, TakesOver, QueueImpliesBusy, Busy
<1>3. CASE UNCHANGED runs \/ Empties
  BY <1>3 DEF runs, Empties, QueueImpliesBusy, Busy
<1>4. QED
  BY <1>1, <1>2, <1>3 DEF Shapes

\* The types, and a queue only behind an active run, for ever.
LEMMA QueueInvariant == Spec => [](TypeOK /\ QueueImpliesBusy)
<1>1. Init => QueueImpliesBusy
  BY DEF Init, QueueImpliesBusy
<1>2. TypeOK /\ QueueImpliesBusy /\ [Next]_vars => QueueImpliesBusy'
  BY StepShape, QueueStep
<1>3. QED
  BY <1>1, <1>2, TypeCorrect, PTL DEF Spec

\* Work waits in the queue only behind an active run.
THEOREM QueueNeverStuck == Spec => []QueueImpliesBusy
BY QueueInvariant, PTL

\* Nothing but a direct user message overtakes the queue.
THEOREM NothingOvertakes == Spec => NoOvertaking
<1> DEFINE Step == current' \notin UserRuns \cup {current, NoRun} =>
                     \/ queue = << >>
                     \/ current' = Head(queue) /\ queue' = Tail(queue)
<1>1. TypeOK /\ QueueImpliesBusy /\ [Next]_vars => [Step]_vars
  <2> SUFFICES ASSUME TypeOK, QueueImpliesBusy, Shapes PROVE Step
    BY StepShape
  <2>1. ASSUME NEW wake \in Wakes, Ends(wake)
        PROVE  Step
    <3>1. CASE wake = << >>
      <4>1. queue \o wake = queue
        BY <3>1 DEF TypeOK
      <4>2. QED
        BY <2>1, <4>1 DEF Ends
    <3>2. CASE wake # << >>
      BY <2>1, <3>2 DEF Ends
    <3>3. QED
      BY <3>1, <3>2
  <2>2. ASSUME NEW r \in Runs, Begins(r) \/ Enqueues(r) \/ TakesOver(r)
        PROVE  Step
    BY <2>2 DEF Begins, Enqueues, TakesOver, QueueImpliesBusy
  <2>3. CASE UNCHANGED runs \/ Empties
    BY <2>3 DEF runs, Empties
  <2>4. QED
    BY <2>1, <2>2, <2>3 DEF Shapes
<1>2. QED
  BY <1>1, QueueInvariant, PTL DEF Spec, NoOvertaking

\* The runs of a process keep RunProtocol: one active run, a backlog started in
\* order, and a finish or kill notice with every run that leaves.
THEOREM KeepsRunProtocol == Spec => KeepsTheProtocol
<1> DEFINE done == [r \in Runs |-> finishes[r] + killed[r]]
<1>1. Init => Promised!Init
  BY DEF Init, Promised!Init
<1>2. TypeOK /\ [Next]_vars => [Promised!Next]_(Promised!vars)
  <2> SUFFICES ASSUME TypeOK, Shapes PROVE [Promised!Next]_(Promised!vars)
    BY StepShape
  <2>2. finishes \in [Runs -> Nat] /\ killed \in [Runs -> Nat] /\ (Busy => current \in Runs)
    BY DEF TypeOK, Busy
  <2>3. Busy /\ finishes' = Bumped(finishes, current) /\ killed' = killed
          => Promised!Announced(current)
    <3> SUFFICES ASSUME Busy, finishes' = Bumped(finishes, current), killed' = killed
                 PROVE  done' = [done EXCEPT ![current] = @ + 1]
      BY DEF Promised!Announced
    <3>1. finishes' \in [Runs -> Nat]
          /\ \A x \in Runs : finishes'[x] = IF x = current THEN finishes[x] + 1 ELSE finishes[x]
      BY <2>2, BumpedType
    <3>2. current \in Runs
      BY <2>2
    <3>3. \A x \in Runs : finishes'[x] + killed[x] = IF x = current THEN done[x] + 1 ELSE done[x]
      BY <2>2, <3>1
    <3>4. \A x \in Runs : [done EXCEPT ![current] = @ + 1][x]
                           = IF x = current THEN done[x] + 1 ELSE done[x]
      OBVIOUS
    <3>5. QED
      BY <3>3, <3>4
  <2>4. Busy /\ killed' = Bumped(killed, current) /\ finishes' = finishes
          => Promised!Announced(current)
    <3> SUFFICES ASSUME Busy, killed' = Bumped(killed, current), finishes' = finishes
                 PROVE  done' = [done EXCEPT ![current] = @ + 1]
      BY DEF Promised!Announced
    <3>1. killed' \in [Runs -> Nat]
          /\ \A x \in Runs : killed'[x] = IF x = current THEN killed[x] + 1 ELSE killed[x]
      BY <2>2, BumpedType
    <3>2. current \in Runs
      BY <2>2
    <3>3. \A x \in Runs : finishes[x] + killed'[x] = IF x = current THEN done[x] + 1 ELSE done[x]
      BY <2>2, <3>1
    <3>4. \A x \in Runs : [done EXCEPT ![current] = @ + 1][x]
                           = IF x = current THEN done[x] + 1 ELSE done[x]
      OBVIOUS
    <3>5. QED
      BY <3>3, <3>4
  <2>5. finishes' = finishes /\ killed' = killed => done' = done
    OBVIOUS
  <2>6. ASSUME NEW r \in Runs, Begins(r)
        PROVE  Promised!Start(r)
    BY <2>5, <2>6 DEF Begins, Promised!Start, Busy
  <2>7. ASSUME NEW r \in Runs, Enqueues(r)
        PROVE  Promised!Queue(r)
    BY <2>5, <2>7 DEF Enqueues, Promised!Queue, Busy
  <2>8. ASSUME NEW r \in Runs, TakesOver(r)
        PROVE  Promised!Start(r) \/ Promised!Supersede(r)
    <3>1. CASE Busy
      BY <2>3, <2>8, <3>1 DEF TakesOver, Promised!Supersede, Busy
    <3>2. CASE ~Busy
      BY <2>5, <2>8, <3>2 DEF TakesOver, Promised!Start, Busy
    <3>3. QED
      BY <3>1, <3>2
  <2>9. ASSUME NEW wake \in Wakes, Ends(wake)
        PROVE  Promised!Finish(wake)
    BY <2>3, <2>9 DEF Ends, Promised!Finish, Promised!NextOf, Promised!RestOf, Busy
  <2>10. CASE Empties
    <3>1. CASE Busy
      BY <2>3, <2>4, <2>10, <3>1 DEF Empties, Promised!Wipe, Promised!Next, Busy
    <3>2. CASE ~Busy
      BY <2>5, <2>10, <3>2 DEF Empties, Promised!Wipe, Promised!Next, Busy
    <3>3. QED
      BY <3>1, <3>2
  <2>11. CASE UNCHANGED runs
    BY <2>5, <2>11 DEF runs, Promised!vars
  <2>12. QED
    <3>1. CASE \E r \in Runs : Begins(r) \/ Enqueues(r) \/ TakesOver(r)
      BY <2>6, <2>7, <2>8, <3>1 DEF Promised!Next
    <3>2. ASSUME NEW wake \in Wakes, Ends(wake)
          PROVE  Promised!Next
      BY <2>9, <3>2, WakeType DEF Promised!Next
    <3>3. QED
      BY <2>10, <2>11, <3>1, <3>2 DEF Shapes, Promised!Next
<1>3. QED
  BY <1>1, <1>2, TypeCorrect, PTL DEF Spec, KeepsTheProtocol, Promised!Spec

-----------------------------------------------------------------------------
(* The account of the admissions. *)

\* An empty queue holds no run.
LEMMA CopiesEmpty == ASSUME NEW r PROVE Copies(<< >>, r) = 0
<1>1. {i \in 1 .. Len(<< >>) : << >>[i] = r} = {}
  OBVIOUS
<1>2. QED
  BY <1>1, FS_EmptySet DEF Copies

\* One more at the end of the queue.
LEMMA CopiesAppend ==
  ASSUME NEW q \in Seq(Runs), NEW x \in Runs, NEW r
  PROVE  Copies(Append(q, x), r) = Copies(q, r) + (IF x = r THEN 1 ELSE 0)
<1> DEFINE Before == {i \in 1 .. Len(q) : q[i] = r}
           last == Len(q) + 1
<1>1. IsFiniteSet(Before) /\ Cardinality(Before) \in Nat
  BY CopiesType, FS_CardinalityType
<1>4. last \notin Before
  OBVIOUS
<1>2. {i \in 1 .. Len(Append(q, x)) : Append(q, x)[i] = r}
        = IF x = r THEN Before \cup {last} ELSE Before
  OBVIOUS
<1>5. Cardinality(Before \cup {last}) = Cardinality(Before) + 1
  BY <1>1, <1>4, FS_AddElement
<1>6. Copies(q, r) = Cardinality(Before)
      /\ Copies(Append(q, x), r) = Cardinality(IF x = r THEN Before \cup {last} ELSE Before)
  BY <1>2 DEF Copies
<1>7. QED
  BY <1>1, <1>5, <1>6

\* One less at its head.
LEMMA CopiesTail ==
  ASSUME NEW q \in Seq(Runs), q # << >>, NEW r
  PROVE  Copies(q, r) = Copies(Tail(q), r) + (IF Head(q) = r THEN 1 ELSE 0)
<1> DEFINE All == {i \in 1 .. Len(q) : q[i] = r}
           Rest == {i \in 1 .. Len(Tail(q)) : Tail(q)[i] = r}
           f == [i \in Rest |-> i + 1]
<1>1. Tail(q) \in Seq(Runs) /\ Len(Tail(q)) = Len(q) - 1 /\ Len(q) \in Nat
      /\ \A i \in 1 .. Len(Tail(q)) : Tail(q)[i] = q[i + 1]
  OBVIOUS
<1>2. IsFiniteSet(All) /\ IsFiniteSet(Rest) /\ Cardinality(All) \in Nat
  BY <1>1, CopiesType DEF Copies
<1>3. 1 \in All <=> Head(q) = r
  OBVIOUS
<1>4. f \in Bijection(Rest, All \ {1})
  <2>1. \A i \in Rest : i \in Nat /\ i + 1 \in All \ {1}
    BY <1>1
  <2>2. \A j \in All \ {1} : j - 1 \in Rest /\ (j - 1) + 1 = j
    BY <1>1
  <2>3. f \in [Rest -> All \ {1}]
    BY <2>1
  <2>4. \A a, b \in Rest : f[a] = f[b] => a = b
    BY <2>1
  <2>5. \A j \in All \ {1} : \E i \in Rest : f[i] = j
    BY <2>2
  <2>6. QED
    BY <2>3, <2>4, <2>5 DEF Bijection, Injection, Surjection, IsInjective
<1>5. Cardinality(All \ {1}) = Cardinality(Rest)
  <2>1. ExistsBijection(Rest, All \ {1})
    BY <1>4, Zenon DEF ExistsBijection
  <2> HIDE DEF All, Rest
  <2>2. QED
    BY <1>2, <2>1, FS_Bijection
<1>6. Cardinality(All \ {1}) = IF 1 \in All THEN Cardinality(All) - 1 ELSE Cardinality(All)
  BY <1>2, FS_RemoveElement
<1>7. Copies(q, r) = Cardinality(All) /\ Copies(Tail(q), r) = Cardinality(Rest)
  BY DEF Copies
<1> HIDE DEF All, Rest
<1>8. Copies(q, r) \in Nat
      /\ Copies(Tail(q), r) = IF Head(q) = r THEN Copies(q, r) - 1 ELSE Copies(q, r)
  BY <1>2, <1>3, <1>5, <1>6, <1>7
<1>9. QED
  BY <1>8

\* Where the admissions of a run have gone, or where it is.
Places(r) == finishes[r] + killed[r] + dropped[r] + Copies(queue, r)
             + (IF current = r THEN 1 ELSE 0)

\* The sums in which one run more is counted at one of its places.
LEMMA OneMore ==
  \A a, c \in Nat : (a + 1) + c = a + (c + 1) /\ a + (c + 1) = a + c + 1
OBVIOUS

LEMMA OneMoreFinish ==
  \A f, k, d, c \in Nat : f + k + d + c + 1 = (f + 1) + k + d + c
OBVIOUS

LEMMA OneMoreQueued ==
  \A f, k, d, c, i \in Nat : (f + k + d + c + i) + 1 = f + k + d + (c + 1) + i
OBVIOUS

LEMMA QueueDropped ==
  \A f, k, d, c \in Nat :
    f + k + d + c + 1 = (f + k + 1) + (d + c) /\ f + k + d + c = (f + k) + (d + c)
OBVIOUS

\* An end takes the head of what waits: one finish more, one copy less.
LEMMA EndBalances ==
  ASSUME TypeOK, Accounted, NEW wake \in Wakes, Ends(wake), NEW r \in Runs
  PROVE  admits'[r] = Places(r)'
<1> DEFINE q == queue \o wake
<1>1. /\ queue \in Seq(Runs) /\ current \in Runs /\ q \in Seq(Runs)
      /\ admits[r] \in Nat /\ finishes[r] \in Nat /\ killed[r] \in Nat /\ dropped[r] \in Nat
      /\ Copies(queue, r) \in Nat /\ Copies(q, r) \in Nat
  <2>1. queue \in Seq(Runs) /\ wake \in Seq(Runs)
    BY WakeType DEF TypeOK
  <2>2. q \in Seq(Runs)
    BY <2>1
  <2>3. QED
    BY <2>1, <2>2, CopiesType DEF TypeOK, Ends, Busy
<1>n. /\ admits[r] \in Nat /\ finishes[r] \in Nat /\ killed[r] \in Nat /\ dropped[r] \in Nat
      /\ Copies(queue, r) \in Nat /\ Copies(q, r) \in Nat
  BY <1>1
<1>2. admits'[r] + Copies(queue, r) = admits[r] + Copies(q, r) /\ admits'[r] \in Nat
  <2>1. CASE wake = << >>
    <3>1. q = queue
      BY <1>1, <2>1
    <3>2. admits' = admits
      BY <2>1 DEF Ends
    <3>3. QED
      BY <1>1, <3>1, <3>2
  <2>2. CASE wake # << >>
    <3>1. PICK w \in Runs : wake = <<w>>
      BY <2>2, WakeType
    <3>2. queue = << >> /\ admits' = Bumped(admits, w)
      BY <2>2, <3>1 DEF Ends
    <3>3. q = Append(queue, w)
      BY <1>1, <3>1
    <3>4. Copies(q, r) = Copies(queue, r) + (IF w = r THEN 1 ELSE 0)
      BY <1>1, <3>3, CopiesAppend
    <3>5. admits'[r] = IF r = w THEN admits[r] + 1 ELSE admits[r]
      <4>1. admits \in [Runs -> Nat]
        BY DEF TypeOK
      <4>2. QED
        BY <3>2, <4>1, BumpedType
    <3>6. CASE w = r
      <4>1. admits'[r] = admits[r] + 1 /\ Copies(q, r) = Copies(queue, r) + 1
        BY <3>4, <3>5, <3>6
      <4> HIDE DEF q
      <4>2. QED
        BY <1>n, <4>1, OneMore
    <3>7. CASE w # r
      BY <1>n, <3>4, <3>5, <3>7
    <3>8. QED
      BY <3>6, <3>7
  <2>3. QED
    BY <2>1, <2>2
<1>3. finishes'[r] = IF r = current THEN finishes[r] + 1 ELSE finishes[r]
  <2>1. finishes \in [Runs -> Nat] /\ current \in Runs
    BY <1>1 DEF TypeOK
  <2>2. finishes' = Bumped(finishes, current)
    BY DEF Ends
  <2>3. QED
    BY <2>1, <2>2, BumpedType
<1>4. Copies(q, r) = Copies(queue', r) + (IF current' = r THEN 1 ELSE 0)
  <2>1. CASE q = << >>
    <3>1. queue' = q /\ current' # r
      BY <2>1, NoRunAssumption DEF Ends
    <3>2. QED
      BY <1>1, <3>1
  <2>2. CASE q # << >>
    <3>1. queue' = Tail(q) /\ current' = Head(q)
      BY <2>2 DEF Ends
    <3>2. QED
      BY <1>1, <2>2, <3>1, CopiesTail
  <2>3. QED
    BY <2>1, <2>2
<1>5. Copies(queue', r) \in Nat
  <2>1. CASE q = << >>
    BY <1>1, <2>1, CopiesType DEF Ends
  <2>2. CASE q # << >>
    <3>1. queue' = Tail(q)
      BY <2>2 DEF Ends
    <3> HIDE DEF q
    <3>2. Tail(q) \in Seq(Runs)
      BY <1>1, <2>2
    <3>3. QED
      BY <3>1, <3>2, CopiesType
  <2>3. QED
    BY <2>1, <2>2
<1>6. admits[r] = finishes[r] + killed[r] + dropped[r] + Copies(queue, r)
                  + (IF current = r THEN 1 ELSE 0)
  BY DEF Accounted
<1>7. killed' = killed /\ dropped' = dropped
  BY DEF Ends
<1> HIDE DEF q
<1>8. admits'[r] = finishes'[r] + killed'[r] + dropped'[r] + Copies(queue', r)
                   + (IF current' = r THEN 1 ELSE 0)
  <2>1. killed'[r] = killed[r] /\ dropped'[r] = dropped[r]
    BY <1>7
  <2>2. finishes'[r] = finishes[r] + (IF current = r THEN 1 ELSE 0)
    BY <1>1, <1>3
  <2>3. admits'[r] + Copies(queue, r)
          = admits[r] + Copies(queue', r) + (IF current' = r THEN 1 ELSE 0)
    <3>1. CASE current' = r
      <4>1. Copies(q, r) = Copies(queue', r) + 1
        BY <1>4, <3>1
      <4> HIDE DEF q
      <4>2. admits[r] + Copies(q, r) = admits[r] + Copies(queue', r) + 1
        BY <1>n, <1>5, <4>1, OneMore
      <4>3. QED
        BY <1>2, <3>1, <4>2
    <3>2. CASE current' # r
      <4>1. Copies(q, r) = Copies(queue', r)
        BY <1>4, <1>5, <3>2
      <4>2. QED
        BY <1>n, <1>2, <1>5, <3>2, <4>1
    <3>3. QED
      BY <3>1, <3>2
  <2>4. PICK a \in Nat : a = IF current = r THEN 1 ELSE 0
    OBVIOUS
  <2>5. PICK b \in Nat : b = IF current' = r THEN 1 ELSE 0
    OBVIOUS
  <2>6. /\ finishes'[r] = finishes[r] + a
        /\ admits'[r] + Copies(queue, r) = admits[r] + Copies(queue', r) + b
        /\ admits[r] = finishes[r] + killed[r] + dropped[r] + Copies(queue, r) + a
    BY <1>6, <2>2, <2>3, <2>4, <2>5
  <2>7. admits'[r] = finishes'[r] + killed'[r] + dropped'[r] + Copies(queue', r) + b
    <3>1. /\ admits'[r] \in Nat /\ Copies(queue', r) \in Nat /\ a \in Nat /\ b \in Nat
          /\ finishes[r] \in Nat /\ killed[r] \in Nat /\ dropped[r] \in Nat
          /\ admits[r] \in Nat /\ Copies(queue, r) \in Nat
      BY <1>1, <1>2, <1>5
    <3>2. \A x, y, f, k, d, c, e \in Nat :
            x + c = y + e + b /\ y = f + k + d + c + a => x = (f + a) + k + d + e + b
      BY <3>1
    <3>3. admits'[r] = (finishes[r] + a) + killed[r] + dropped[r] + Copies(queue', r) + b
      BY <2>6, <3>1, <3>2
    <3>4. QED
      BY <2>1, <2>6, <3>3
  <2>8. QED
    BY <2>5, <2>7
<1>9. QED
  BY <1>8 DEF Places, Copies

\* Every kind of step keeps the books of admissions balanced.
LEMMA AccountStep == TypeOK /\ Accounted /\ Shapes => Accounted'
<1> SUFFICES ASSUME TypeOK, Accounted, Shapes, NEW r \in Runs
             PROVE  admits'[r] = Places(r)'
  BY DEF Accounted, Places
<1>1. /\ queue \in Seq(Runs) /\ (Busy => current \in Runs)
      /\ admits[r] \in Nat /\ finishes[r] \in Nat /\ killed[r] \in Nat /\ dropped[r] \in Nat
      /\ Copies(queue, r) \in Nat /\ (~Busy => current # r)
  BY CopiesType, NoRunAssumption DEF TypeOK, Busy
<1>n. /\ admits[r] \in Nat /\ finishes[r] \in Nat /\ killed[r] \in Nat /\ dropped[r] \in Nat
      /\ Copies(queue, r) \in Nat
  BY <1>1
<1>2. admits[r] = finishes[r] + killed[r] + dropped[r] + Copies(queue, r)
                  + (IF current = r THEN 1 ELSE 0)
  BY DEF Accounted
<1>9. admits \in [Runs -> Nat] /\ finishes \in [Runs -> Nat] /\ killed \in [Runs -> Nat]
  BY DEF TypeOK
<1> DEFINE Goal == admits'[r] = finishes'[r] + killed'[r] + dropped'[r] + Copies(queue', r)
                                + (IF current' = r THEN 1 ELSE 0)
<1>3. ASSUME NEW x \in Runs, Begins(x) \/ TakesOver(x)
      PROVE  Goal
  <2>1. /\ admits' = Bumped(admits, x)
        /\ finishes' = IF Busy THEN Bumped(finishes, current) ELSE finishes
        /\ killed' = killed /\ dropped' = dropped /\ queue' = queue /\ current' = x
    BY <1>3 DEF Begins, TakesOver
  <2>5. admits'[r] = IF r = x THEN admits[r] + 1 ELSE admits[r]
    BY <1>9, <2>1, BumpedType
  <2>2. finishes'[r] = IF Busy /\ r = current THEN finishes[r] + 1 ELSE finishes[r]
    <3>1. Busy => Bumped(finishes, current)[r]
                    = IF r = current THEN finishes[r] + 1 ELSE finishes[r]
      BY <1>1, <1>9, BumpedType
    <3>2. QED
      BY <2>1, <3>1
  <2>3. r = x => current # r
    BY <1>1, <1>3 DEF Begins, TakesOver
  <2>4. QED
    <3>1. CASE r = x
      BY <1>1, <1>2, <2>1, <2>2, <2>3, <2>5, <3>1
    <3>2. CASE r # x /\ Busy /\ r = current
      <4>1. /\ admits'[r] = admits[r] /\ finishes'[r] = finishes[r] + 1
            /\ admits[r] = finishes[r] + killed[r] + dropped[r] + Copies(queue, r) + 1
        BY <1>2, <2>2, <2>5, <3>2
      <4>2. admits[r] = (finishes[r] + 1) + killed[r] + dropped[r] + Copies(queue, r)
        BY <1>n, <4>1, OneMoreFinish
      <4>3. QED
        BY <1>1, <2>1, <3>2, <4>1, <4>2
    <3>3. CASE r # x /\ ~(Busy /\ r = current)
      <4>1. admits'[r] = admits[r] /\ finishes'[r] = finishes[r] /\ current # r
        BY <1>1, <2>2, <2>5, <3>3
      <4>2. QED
        BY <1>1, <1>2, <2>1, <3>3, <4>1
    <3>4. QED
      BY <3>1, <3>2, <3>3
<1>4. ASSUME NEW x \in Runs, Enqueues(x)
      PROVE  Goal
  <2>1. admits'[r] = IF r = x THEN admits[r] + 1 ELSE admits[r]
    <3>1. admits' = Bumped(admits, x)
      BY <1>4 DEF Enqueues
    <3>2. QED
      BY <1>9, <3>1, BumpedType
  <2>2. Copies(queue', r) = Copies(queue, r) + (IF x = r THEN 1 ELSE 0)
    BY <1>1, <1>4, CopiesAppend DEF Enqueues
  <2>3. UNCHANGED <<current, finishes, killed, dropped>>
    BY <1>4 DEF Enqueues
  <2>4. CASE r = x
    <3>1. admits'[r] = admits[r] + 1 /\ Copies(queue', r) = Copies(queue, r) + 1
      BY <2>1, <2>2, <2>4
    <3>2. PICK i \in Nat : i = IF current = r THEN 1 ELSE 0
      OBVIOUS
    <3>3. admits[r] + 1 = finishes[r] + killed[r] + dropped[r] + (Copies(queue, r) + 1) + i
      <4>1. admits[r] = finishes[r] + killed[r] + dropped[r] + Copies(queue, r) + i
        BY <1>2, <3>2
      <4>2. QED
        BY <1>n, <4>1, OneMoreQueued
    <3>4. QED
      BY <2>3, <3>1, <3>2, <3>3
  <2>5. CASE r # x
    <3>1. admits'[r] = admits[r] /\ Copies(queue', r) = Copies(queue, r)
      BY <1>1, <2>1, <2>2, <2>5
    <3>2. QED
      BY <1>2, <2>3, <3>1
  <2>6. QED
    BY <2>4, <2>5
<1>5. ASSUME Empties
      PROVE  Goal
  <2>1. dropped'[r] = dropped[r] + Copies(queue, r) /\ admits' = admits
        /\ Copies(queue', r) = 0 /\ current' # r
    BY <1>5, CopiesEmpty, NoRunAssumption DEF Empties
  <2>2. \/ finishes' = (IF Busy THEN Bumped(finishes, current) ELSE finishes) /\ killed' = killed
        \/ killed' = (IF Busy THEN Bumped(killed, current) ELSE killed) /\ finishes' = finishes
    BY <1>5 DEF Empties
  <2>3. /\ finishes'[r] \in Nat /\ killed'[r] \in Nat
        /\ finishes'[r] + killed'[r]
             = finishes[r] + killed[r] + (IF Busy /\ r = current THEN 1 ELSE 0)
    <3>1. Busy => /\ Bumped(finishes, current)[r]
                       = IF r = current THEN finishes[r] + 1 ELSE finishes[r]
                  /\ Bumped(killed, current)[r]
                       = IF r = current THEN killed[r] + 1 ELSE killed[r]
      BY <1>1, <1>9, BumpedType
    <3>2. CASE Busy /\ r = current
      <4>1. \/ finishes'[r] = finishes[r] + 1 /\ killed'[r] = killed[r]
            \/ finishes'[r] = finishes[r] /\ killed'[r] = killed[r] + 1
        BY <2>2, <3>1, <3>2
      <4>2. CASE finishes'[r] = finishes[r] + 1 /\ killed'[r] = killed[r]
        BY <1>n, <3>2, <4>2, OneMore
      <4>3. CASE finishes'[r] = finishes[r] /\ killed'[r] = killed[r] + 1
        BY <1>n, <3>2, <4>3, OneMore
      <4>4. QED
        BY <4>1, <4>2, <4>3
    <3>3. CASE ~(Busy /\ r = current)
      <4>1. finishes'[r] = finishes[r] /\ killed'[r] = killed[r]
        BY <2>2, <3>1, <3>3
      <4>2. QED
        BY <1>n, <3>3, <4>1
    <3>4. QED
      BY <3>2, <3>3
  <2>4. CASE Busy /\ r = current
    <3>1. finishes'[r] + killed'[r] = finishes[r] + killed[r] + 1
      BY <2>3, <2>4
    <3>2. admits[r] = finishes[r] + killed[r] + dropped[r] + Copies(queue, r) + 1
      BY <1>2, <2>4
    <3>3. dropped'[r] \in Nat
      BY <1>1, <2>1
    <3>4. admits[r] = finishes'[r] + killed'[r] + (dropped[r] + Copies(queue, r))
      BY <1>n, <3>1, <3>2, QueueDropped
    <3>5. QED
      BY <2>1, <2>3, <3>3, <3>4
  <2>5. CASE ~(Busy /\ r = current)
    <3>1. finishes'[r] + killed'[r] = finishes[r] + killed[r] /\ current # r
      BY <1>1, <2>3, <2>5
    <3>2. admits[r] = finishes[r] + killed[r] + dropped[r] + Copies(queue, r)
      BY <1>1, <1>2, <3>1
    <3>3. dropped'[r] \in Nat
      BY <1>1, <2>1
    <3>4. admits[r] = finishes'[r] + killed'[r] + (dropped[r] + Copies(queue, r))
      BY <1>n, <3>1, <3>2, QueueDropped
    <3>5. QED
      BY <2>1, <2>3, <3>3, <3>4
  <2>6. QED
    BY <2>4, <2>5
<1>6. ASSUME UNCHANGED runs
      PROVE  Goal
  BY <1>2, <1>6 DEF runs
<1>7. Goal => admits'[r] = Places(r)'
  BY DEF Places, Copies
<1> HIDE DEF Goal
<1>8. QED
  BY <1>3, <1>4, <1>5, <1>6, <1>7, EndBalances DEF Shapes

\* Each admission of a run is accounted for exactly once, whichever way it ends.
THEOREM EveryAdmissionAccounted == Spec => []Accounted
<1>1. Init => Accounted
  <2>1. \A r \in Runs : Copies(<< >>, r) = 0
    BY CopiesEmpty
  <2>2. QED
    BY <2>1, NoRunAssumption DEF Init, Accounted
<1>2. TypeOK /\ Accounted /\ [Next]_vars => Accounted'
  BY StepShape, AccountStep
<1>3. QED
  BY <1>1, <1>2, TypeCorrect, PTL DEF Spec
-----------------------------------------------------------------------------
(* One admission for every id. *)

\* Ids that their senders may repeat.
Stable == UserRuns \cup BgRuns \cup SchedRuns

\* The active run is in the history, and what clears the history has emptied
\* the process before.
Logged ==
  /\ Busy => current \in recorded
  /\ lock \in {"reset", "wipe"} => ~Busy /\ queue = << >>

\* A repeated id is admitted again only if reset or kill forgets it, which count
\* before they do.
Remembered ==
  \A r \in Stable :
    /\ admits[r] <= resets + (IF Located(r) THEN 1 ELSE 0)
    /\ lock # "free" => admits[r] <= resets

\* An id the process mints is used once.
Minted == \A r \in WakeRuns : admits[r] = IF r \in sent THEN 1 ELSE 0

\* The Kernel sends an IPC run once, and it waits once for its admission.
Chained ==
  /\ \A r \in IpcRuns : admits[r] <= 1 /\ (r \notin sent => admits[r] = 0)
  /\ \A i, j \in 1 .. Len(waiting) : waiting[i] = waiting[j] => i = j
  /\ \A i \in 1 .. Len(waiting) :
       waiting[i] \in IpcRuns => waiting[i] \in sent /\ admits[waiting[i]] = 0

Admissions == Logged /\ Remembered /\ Minted /\ Chained

\* What the end of a run and the claim of the next one keep.
LEMMA ConcludeKeeps ==
  ASSUME TypeOK, Busy, Logged, NEW q \in Seq(Runs), NEW ok, NEW others,
         Conclude(q, ok, others)
  PROVE  /\ Busy' => current' \in recorded'
         /\ \A x : current = x \/ x \in recorded \/ (\E i \in 1 .. Len(q) : q[i] = x)
                     => Located(x)'
<1>1. CASE q = << >>
  BY <1>1 DEF Conclude, Located, Logged, Busy
<1>2. CASE q # << >>
  <2>1. /\ current' = Head(q) /\ queue' = Tail(q)
        /\ recorded' = recorded \cup {Head(q)}
    BY <1>2 DEF Conclude, StartRun
  <2>2. ASSUME NEW i \in 1 .. Len(q), i # 1
        PROVE  i - 1 \in 1 .. Len(Tail(q)) /\ Tail(q)[i - 1] = q[i]
    BY <1>2, <2>2
  <2>3. ASSUME NEW i \in 1 .. Len(q) PROVE Located(q[i])'
    <3>1. CASE i = 1
      BY <1>2, <2>1, <3>1 DEF Located
    <3>2. CASE i # 1
      BY <2>1, <2>2, <3>2 DEF Located, InQueue
    <3>3. QED
      BY <3>1, <3>2
  <2>4. QED
    BY <2>1, <2>3 DEF Located, Logged
<1>3. QED
  BY <1>1, <1>2

\* A step under the free lock that admits nothing and forgets nothing.
LEMMA ForgetsNothing ==
  ASSUME TypeOK, Admissions, lock = "free", UNCHANGED <<admits, resets, lock, waiting, sent>>,
         Busy' => current' \in recorded', \A x \in Runs : Located(x) => Located(x)'
  PROVE  Admissions'
<1>1. Logged'
  BY DEF Logged
<1>2. Remembered'
  <2>1. \A r \in Stable : admits[r] \in Nat /\ resets \in Nat
    BY DEF TypeOK, Stable, Runs
  <2>2. Stable \subseteq Runs
    BY DEF Stable, Runs
  <2>3. QED
    BY <2>1, <2>2 DEF Admissions, Remembered
<1>3. Minted' /\ Chained'
  BY DEF Admissions, Minted, Chained
<1>4. QED
  BY <1>1, <1>2, <1>3 DEF Admissions

\* One admission more, for one run.
LEMMA AdmittedMore ==
  ASSUME TypeOK, NEW r \in Runs, admits' = Bumped(admits, r)
  PROVE  \A x \in Runs : /\ admits[x] \in Nat
                          /\ admits'[x] = IF x = r THEN admits[x] + 1 ELSE admits[x]
<1>1. admits \in [Runs -> Nat]
  BY DEF TypeOK
<1>2. QED
  BY <1>1, BumpedType

\* What is queued stays where it is when a run is queued behind it.
LEMMA QueuedBehind ==
  ASSUME TypeOK, NEW r \in Runs, queue' = Append(queue, r)
  PROVE  /\ \E i \in 1 .. Len(queue') : queue'[i] = r
         /\ \A i \in 1 .. Len(queue) : i \in 1 .. Len(queue') /\ queue'[i] = queue[i]
<1>1. queue \in Seq(Runs)
  BY DEF TypeOK
<1>2. Len(queue) + 1 \in 1 .. Len(queue') /\ queue'[Len(queue) + 1] = r
  BY <1>1
<1>3. QED
  BY <1>1, <1>2

\* A run is admitted at its own place, once its id is known to be new.
LEMMA AdmitsOne ==
  ASSUME TypeOK, Admissions, lock = "free", NEW r \in Runs, UNCHANGED <<resets, lock>>,
         admits' = Bumped(admits, r), r \in Stable => ~Located(r),
         Located(r)', \A x \in Runs : Located(x) => Located(x)'
  PROVE  Remembered'
<1>1. resets \in Nat
  BY DEF TypeOK
<1>2. Stable \subseteq Runs
  BY DEF Stable, Runs
<1>3. QED
  BY <1>1, <1>2, AdmittedMore DEF Admissions, Remembered

\* Every step keeps what AdmittedOnce rests on.
LEMMA AdmissionStep == TypeOK /\ Admissions /\ [Next]_vars => Admissions'
<1> SUFFICES ASSUME TypeOK, Admissions, [Next]_vars PROVE Admissions'
  OBVIOUS
<1> DEFINE Still == UNCHANGED <<current, queue, recorded, admits, resets, lock, waiting, sent>>
           Passes == UNCHANGED <<admits, resets, lock, waiting, sent>>
<1>0. Logged /\ Remembered /\ Minted /\ Chained
  BY DEF Admissions
<1>s. ASSUME Still PROVE Admissions'
  BY <1>0, <1>s DEF Admissions, Logged, Remembered, Minted, Chained, Located, InQueue, Busy
<1>c. ASSUME NEW ok, NEW others, Busy, lock = "free", Conclude(queue, ok, others), Passes
      PROVE  Admissions'
  <2>1. queue \in Seq(Runs)
    BY DEF TypeOK
  <2>2. Busy' => current' \in recorded'
    BY <1>0, <1>c, <2>1, ConcludeKeeps
  <2>3. \A x \in Runs : Located(x) => Located(x)'
    BY <1>0, <1>c, <2>1, ConcludeKeeps DEF Located, InQueue
  <2>4. QED
    BY <1>c, <2>2, <2>3, ForgetsNothing
<1>1. ASSUME NEW ok \in BOOLEAN, Admit(ok)
      PROVE  Admissions'
  <2>w. waiting \in Seq(BgRuns \cup IpcRuns) /\ waiting # << >> /\ waiting' = Tail(waiting)
    BY <1>1 DEF Admit, TypeOK
  <2>h. PICK h \in BgRuns \cup IpcRuns : h = Head(waiting)
    BY <2>w
  <2> DEFINE known == ~alive \/ (h \in BgRuns /\ Located(h))
  <2>1. /\ h \in Runs /\ 1 \in 1 .. Len(waiting) /\ h = waiting[1]
        /\ Len(waiting') = Len(waiting) - 1 /\ Len(waiting) \in Nat
        /\ \A i \in 1 .. Len(waiting') : /\ i + 1 \in 1 .. Len(waiting) /\ i + 1 # 1
                                         /\ waiting'[i] = waiting[i + 1]
    BY <2>w, <2>h DEF Runs
  <2>2. lock = "free" /\ UNCHANGED <<resets, lock, sent>>
    BY <1>1 DEF Admit
  <2>3. \A i \in 1 .. Len(waiting') : waiting'[i] # h
    BY <1>0, <2>1 DEF Chained
  <2>4. CASE known
    <3>1. UNCHANGED <<current, queue, recorded, admits>>
      BY <1>1, <2>h, <2>4 DEF Admit
    <3>2. Chained'
      <4>1. /\ \A i, j \in 1 .. Len(waiting') : waiting'[i] = waiting'[j] => i = j
            /\ \A i \in 1 .. Len(waiting') : waiting'[i] \in IpcRuns =>
                 waiting'[i] \in sent /\ admits[waiting'[i]] = 0
        BY <1>0, <2>1 DEF Chained
      <4>2. QED
        BY <1>0, <2>2, <3>1, <4>1 DEF Chained
    <3>3. QED
      BY <1>0, <2>2, <3>1, <3>2
         DEF Admissions, Logged, Remembered, Minted, Located, InQueue, Busy
  <2>5. CASE ~known
    <3>1. admits' = Bumped(admits, h)
      BY <1>1, <2>h, <2>5 DEF Admit
    <3>2. \A x \in Runs : /\ admits[x] \in Nat
                          /\ admits'[x] = IF x = h THEN admits[x] + 1 ELSE admits[x]
      BY <2>1, <3>1, AdmittedMore
    <3>3. /\ Busy' => current' \in recorded'
          /\ Located(h)'
          /\ \A x \in Runs : Located(x) => Located(x)'
      <4>1. CASE Busy
        <5>1. queue' = Append(queue, h) /\ UNCHANGED <<current, recorded>>
          BY <1>1, <2>h, <2>5, <4>1 DEF Admit
        <5>2. /\ \E i \in 1 .. Len(queue') : queue'[i] = h
              /\ \A i \in 1 .. Len(queue) : i \in 1 .. Len(queue') /\ queue'[i] = queue[i]
          BY <2>1, <5>1, QueuedBehind
        <5>3. QED
          BY <1>0, <5>1, <5>2 DEF Logged, Located, InQueue, Busy
      <4>2. CASE ~Busy
        <5>1. StartRun(h, ok, failing) /\ queue' = queue
          BY <1>1, <2>h, <2>5, <4>2 DEF Admit
        <5>2. current \notin Runs /\ (current = NoRun)
          BY <4>2, NoRunAssumption DEF Busy
        <5>3. QED
          BY <5>1, <5>2 DEF StartRun, Located, InQueue
      <4>3. QED
        BY <4>1, <4>2
    <3>4. Remembered'
      <4>1. h \in Stable => ~Located(h)
        BY <2>1, <2>5, DistinctIds DEF Stable
      <4>2. QED
        BY <2>1, <2>2, <3>1, <3>3, <4>1, AdmitsOne
    <3>5. Minted' /\ Chained'
      <4>1. h \notin WakeRuns
        BY <2>1, DistinctIds
      <4>2. Minted'
        BY <1>0, <2>2, <3>2, <4>1 DEF Minted, Runs
      <4>3. h \in IpcRuns => h \in sent /\ admits[h] = 0
        BY <1>0, <2>1 DEF Chained
      <4>4. \A r \in IpcRuns : admits'[r] <= 1 /\ (r \notin sent' => admits'[r] = 0)
        BY <1>0, <2>2, <3>2, <4>3 DEF Chained, Runs
      <4>5. \A i, j \in 1 .. Len(waiting') : waiting'[i] = waiting'[j] => i = j
        BY <1>0, <2>1 DEF Chained
      <4>6. \A i \in 1 .. Len(waiting') : waiting'[i] \in IpcRuns =>
              waiting'[i] \in sent' /\ admits'[waiting'[i]] = 0
        <5>1. ASSUME NEW i \in 1 .. Len(waiting'), waiting'[i] \in IpcRuns
              PROVE  waiting'[i] \in sent' /\ admits'[waiting'[i]] = 0
          <6>1. waiting'[i] # h /\ waiting'[i] \in Runs
            BY <2>3, <5>1 DEF Runs
          <6>2. waiting'[i] \in sent /\ admits[waiting'[i]] = 0
            BY <1>0, <2>1, <5>1 DEF Chained
          <6>3. QED
            BY <2>2, <3>2, <6>1, <6>2
        <5>2. QED
          BY <5>1
      <4>7. QED
        BY <4>2, <4>4, <4>5, <4>6 DEF Chained
    <3>6. QED
      BY <2>2, <3>3, <3>4, <3>5 DEF Admissions, Logged
  <2>6. QED
    BY <2>4, <2>5
<1>2. ASSUME NEW ok \in BOOLEAN, ResetEnd(ok) \/ KillWipe(ok)
      PROVE  Admissions'
  <2>1. /\ lock \in {"reset", "wipe"} /\ lock' = "free"
        /\ UNCHANGED <<current, queue, admits, resets, waiting, sent>>
    BY <1>2 DEF ResetEnd, KillWipe, history
  <2>2. Logged'
    BY <1>0, <2>1 DEF Logged, Busy
  <2>3. Remembered'
    <3>1. \A r \in Stable : admits[r] \in Nat /\ resets \in Nat
      BY DEF TypeOK, Stable, Runs
    <3>2. QED
      BY <1>0, <2>1, <3>1 DEF Remembered
  <2>4. Minted' /\ Chained'
    BY <1>0, <2>1 DEF Minted, Chained
  <2>5. QED
    BY <2>2, <2>3, <2>4 DEF Admissions
<1>3. ASSUME NEW ok \in BOOLEAN, NEW r \in Runs, MediaReady(r, ok) \/ MediaFails(r, ok)
      PROVE  Admissions'
  BY <1>3, <1>s DEF MediaReady, MediaFails, history
<1>4. ASSUME NEW ok \in BOOLEAN, NEW r \in Runs, FailPendingMedia(r, ok)
      PROVE  Admissions'
  <2>1. CASE current = r /\ media # "none"
    BY <1>4, <1>c, <2>1, NoRunAssumption DEF FailPendingMedia, Busy
  <2>2. CASE ~(current = r /\ media # "none")
    BY <1>4, <1>s, <2>2 DEF FailPendingMedia
  <2>3. QED
    BY <2>1, <2>2
<1>5. ASSUME NEW ok \in BOOLEAN, NEW r \in Runs, TickReturns(r, ok) \/ ModelCallsTools(r, ok)
      PROVE  Admissions'
  BY <1>5, <1>s DEF TickReturns, ModelCallsTools, history
<1>6. ASSUME NEW ok \in BOOLEAN, NEW r \in Runs, ToolsResolved(r, ok)
      PROVE  Admissions'
  BY <1>6, <1>s DEF ToolsResolved, history
<1>7. ASSUME NEW ok \in BOOLEAN, NEW r \in Runs, FinishUnscheduled(r, ok)
      PROVE  Admissions'
  <2>1. CASE current = r
    BY <1>7, <1>c, <2>1, NoRunAssumption DEF FinishUnscheduled, Busy
  <2>2. CASE current # r
    BY <1>7, <1>s, <2>2 DEF FinishUnscheduled
  <2>3. QED
    BY <2>1, <2>2
<1>8. ASSUME NEW ok \in BOOLEAN, NEW r \in Runs,
             NEW wake \in {<< >>} \cup {<<w>> : w \in WakeRuns}, FinishRun(r, wake, ok)
      PROVE  Admissions'
  <2>1. CASE current # r
    BY <1>8, <1>s, <2>1 DEF FinishRun
  <2>2. CASE current = r /\ wake = << >>
    <3>1. queue \o wake = queue /\ {wake[i] : i \in 1 .. Len(wake)} = {}
      BY <2>2 DEF TypeOK
    <3>2. Busy /\ lock = "free" /\ Conclude(queue, ok, failing) /\ Passes
      BY <1>8, <2>2, <3>1, NoRunAssumption DEF FinishRun, Busy
    <3>3. QED
      BY <1>c, <3>2
  <2>3. ASSUME NEW w \in WakeRuns, wake = <<w>>, current = r
        PROVE  Admissions'
    <3>1. /\ Busy /\ lock = "free" /\ UNCHANGED <<resets, lock, waiting>>
          /\ queue = << >> /\ w \notin sent
          /\ Conclude(queue \o wake, ok, failing)
          /\ sent' = sent \cup {w} /\ admits' = Bumped(admits, w)
      <4>1. wake # << >> /\ wake[1] = w /\ {wake[i] : i \in 1 .. Len(wake)} = {w}
        BY <2>3
      <4>2. QED
        BY <1>8, <2>3, <4>1, NoRunAssumption DEF FinishRun, Busy
    <3>2. queue \o wake = <<w>> /\ <<w>> \in Seq(Runs) /\ w \in Runs
      BY <2>3, <3>1 DEF Runs
    <3>3. /\ Busy' => current' \in recorded'
          /\ \A x \in Runs : Located(x) => Located(x)'
          /\ Located(w)'
      <4>1. \A x : current = x \/ x \in recorded => Located(x)'
        BY <1>0, <3>1, <3>2, ConcludeKeeps
      <4>2. Busy' => current' \in recorded'
        BY <1>0, <3>1, <3>2, ConcludeKeeps
      <4>3. current' = w
        BY <3>1, <3>2 DEF Conclude, StartRun
      <4>4. QED
        BY <3>1, <4>1, <4>2, <4>3 DEF Located, InQueue
    <3>4. Remembered'
      <4>1. w \notin Stable
        BY <2>3, DistinctIds DEF Stable
      <4>2. QED
        BY <3>1, <3>2, <3>3, <4>1, AdmitsOne
    <3>5. Minted' /\ Chained'
      <4>1. \A x \in Runs : /\ admits[x] \in Nat
                           /\ admits'[x] = IF x = w THEN admits[x] + 1 ELSE admits[x]
        BY <3>1, <3>2, AdmittedMore
      <4>2. w \notin IpcRuns
        BY <2>3, DistinctIds
      <4>3. Minted'
        BY <1>0, <3>1, <4>1 DEF Minted, Runs
      <4>4. Chained'
        BY <1>0, <3>1, <4>1, <4>2 DEF Chained, Runs
      <4>5. QED
        BY <4>3, <4>4
    <3>6. QED
      BY <3>1, <3>3, <3>4, <3>5 DEF Admissions, Logged
  <2>4. QED
    BY <2>1, <2>2, <2>3
<1>9. ASSUME NEW ok \in BOOLEAN, Abort(ok)
      PROVE  Admissions'
  BY <1>9, <1>c DEF Abort
<1>10. ASSUME NEW ok \in BOOLEAN, NEW r \in UserRuns, NEW withMedia \in BOOLEAN,
              UserSend(r, withMedia, ok)
       PROVE  Admissions'
  <2>1. /\ r \in Runs /\ lock = "free" /\ ~Located(r) /\ admits' = Bumped(admits, r)
        /\ current' = r /\ recorded' = recorded \cup {r}
        /\ UNCHANGED <<queue, resets, lock, waiting, sent>>
    BY <1>10 DEF UserSend, Runs
  <2>2. Busy' => current' \in recorded'
    BY <2>1
  <2>3. Located(r)' /\ \A x \in Runs : Located(x) => Located(x)'
    BY <1>0, <2>1, NoRunAssumption DEF Located, InQueue, Logged, Busy
  <2>4. Remembered'
    BY <2>1, <2>3, AdmitsOne
  <2>5. Minted' /\ Chained'
    <3>1. \A x \in Runs : admits'[x] = IF x = r THEN admits[x] + 1 ELSE admits[x]
      BY <2>1, AdmittedMore
    <3>2. r \notin WakeRuns /\ r \notin IpcRuns
      BY DistinctIds
    <3>3. QED
      BY <1>0, <2>1, <3>1, <3>2 DEF Minted, Chained, Runs
  <2>6. QED
    BY <2>1, <2>2, <2>4, <2>5 DEF Admissions, Logged
<1>11. ASSUME NEW ok \in BOOLEAN, NEW r \in SchedRuns \cup WakeRuns, RuntimeEvent(r, ok)
       PROVE  Admissions'
  <2>1. /\ r \in Runs /\ lock = "free" /\ admits' = Bumped(admits, r)
        /\ UNCHANGED <<resets, lock, waiting>>
        /\ IF r \in WakeRuns THEN r \notin sent /\ sent' = sent \cup {r}
                             ELSE ~Located(r) /\ sent' = sent
    BY <1>11 DEF RuntimeEvent, Runs
  <2>2. (Busy' => current' \in recorded') /\ Located(r)'
        /\ \A x \in Runs : Located(x) => Located(x)'
    <3>1. CASE Busy
      <4>1. queue' = Append(queue, r) /\ UNCHANGED <<current, recorded>>
        BY <1>11, <3>1 DEF RuntimeEvent
      <4>2. /\ \E i \in 1 .. Len(queue') : queue'[i] = r
            /\ \A i \in 1 .. Len(queue) : i \in 1 .. Len(queue') /\ queue'[i] = queue[i]
        BY <2>1, <4>1, QueuedBehind
      <4>3. QED
        BY <1>0, <4>1, <4>2 DEF Logged, Located, InQueue, Busy
    <3>2. CASE ~Busy
      <4>1. StartRun(r, ok, failing) /\ queue' = queue
        BY <1>11, <3>2 DEF RuntimeEvent
      <4>2. current \notin Runs
        BY <3>2, NoRunAssumption DEF Busy
      <4>3. QED
        BY <4>1, <4>2 DEF StartRun, Located, InQueue
    <3>3. QED
      BY <3>1, <3>2
  <2>3. Remembered'
    <3>1. r \in Stable => ~Located(r)
      BY <2>1, DistinctIds DEF Stable
    <3>2. QED
      BY <2>1, <2>2, <3>1, AdmitsOne
  <2>4. Minted' /\ Chained'
    <3>1. \A x \in Runs : /\ admits[x] \in Nat
                         /\ admits'[x] = IF x = r THEN admits[x] + 1 ELSE admits[x]
      BY <2>1, AdmittedMore
    <3>2. r \notin IpcRuns
      BY DistinctIds
    <3>3. Minted'
      BY <1>0, <2>1, <3>1 DEF Minted, Runs
    <3>4. Chained'
      BY <1>0, <2>1, <3>1, <3>2 DEF Chained, Runs
    <3>5. QED
      BY <3>3, <3>4
  <2>5. QED
    BY <2>1, <2>2, <2>3, <2>4 DEF Admissions, Logged
<1>12. ASSUME NEW r \in BgRuns \cup IpcRuns, Arrive(r)
       PROVE  Admissions'
  <2>1. /\ waiting' = Append(waiting, r)
        /\ \A i \in 1 .. Len(waiting) : waiting[i] # r
        /\ r \in IpcRuns => r \notin sent
        /\ sent' = IF r \in IpcRuns THEN sent \cup {r} ELSE sent
        /\ UNCHANGED <<current, queue, recorded, admits, resets, lock>>
    BY <1>12 DEF Arrive, durable
  <2>2. /\ Len(waiting') = Len(waiting) + 1 /\ waiting'[Len(waiting')] = r
        /\ \A i \in 1 .. Len(waiting') :
             i # Len(waiting') => i \in 1 .. Len(waiting) /\ waiting'[i] = waiting[i]
    BY <2>1 DEF TypeOK
  <2>3. Minted'
    <3>1. r \notin WakeRuns
      BY DistinctIds
    <3>2. QED
      BY <1>0, <2>1, <3>1 DEF Minted
  <2>4. Chained'
    <3>1. \A i, j \in 1 .. Len(waiting') : waiting'[i] = waiting'[j] => i = j
      BY <1>0, <2>1, <2>2 DEF Chained
    <3>2. QED
      BY <1>0, <2>1, <2>2, <3>1 DEF Chained
  <2>5. QED
    BY <1>0, <2>1, <2>3, <2>4 DEF Admissions, Logged, Remembered, Located, InQueue, Busy
<1>13. ASSUME NEW r \in Runs, WatchFires(r) \/ TickFires(r) \/ ModelAnswers(r)
       PROVE  Admissions'
  BY <1>13, <1>s DEF WatchFires, TickFires, ModelAnswers, history, durable
<1>14. CASE ResetBegin \/ KillBegin
  <2>1. /\ lock = "free" /\ lock' \in {"reset", "kill"} /\ resets' = resets + 1
        /\ UNCHANGED <<recorded, admits, waiting, sent>>
        /\ lock' = "reset" => current' = NoRun /\ queue' = << >>
        /\ lock' = "kill" => UNCHANGED <<current, queue>>
    BY <1>14 DEF ResetBegin, KillBegin, ClearExecution, durable
  <2>2. Logged'
    BY <1>0, <2>1 DEF Logged, Busy
  <2>3. Remembered'
    <3>1. \A r \in Stable : admits[r] \in Nat /\ resets \in Nat
      BY DEF TypeOK, Stable, Runs
    <3>2. \A r \in Stable : admits'[r] <= resets'
      BY <1>0, <2>1, <3>1 DEF Remembered
    <3>3. QED
      BY <2>1, <3>1, <3>2 DEF Remembered
  <2>4. QED
    BY <1>0, <2>1, <2>2, <2>3 DEF Admissions, Minted, Chained
<1>15. CASE KillNoticeFails \/ KillClear
  <2>1. /\ lock = "kill" /\ lock' \in {"free", "wipe"}
        /\ UNCHANGED <<recorded, admits, resets, waiting, sent>>
        /\ lock' = "wipe" => current' = NoRun /\ queue' = << >>
        /\ lock' = "free" => UNCHANGED <<current, queue>>
    BY <1>15 DEF KillNoticeFails, KillClear, ClearExecution, durable, history
  <2>2. Logged'
    BY <1>0, <2>1 DEF Logged, Busy
  <2>3. Remembered'
    <3>1. \A r \in Stable : admits[r] \in Nat /\ resets \in Nat
      BY DEF TypeOK, Stable, Runs
    <3>2. \A r \in Stable : admits'[r] <= resets'
      BY <1>0, <2>1 DEF Remembered
    <3>3. QED
      BY <2>1, <3>1, <3>2 DEF Remembered
  <2>4. QED
    BY <1>0, <2>1, <2>2, <2>3 DEF Admissions, Minted, Chained
<1>16. ASSUME NEW approval \in BOOLEAN, Restart(approval)
       PROVE  Admissions'
  <2>1. /\ lock' = "free" /\ waiting' = << >>
        /\ UNCHANGED <<current, queue, recorded, admits, resets, sent>>
    BY <1>16 DEF Restart
  <2>2. Logged' /\ Minted' /\ Chained'
    BY <1>0, <2>1 DEF Logged, Minted, Chained, Busy
  <2>3. Remembered'
    BY <1>0, <2>1 DEF Remembered, Located, InQueue
  <2>4. QED
    BY <2>2, <2>3 DEF Admissions
<1>17. CASE UNCHANGED vars
  BY <1>17, <1>s DEF vars, durable, volatile, history
<1>18. QED
  BY <1>1, <1>2, <1>3, <1>4, <1>5, <1>6, <1>7, <1>8, <1>9, <1>10, <1>11, <1>12, <1>13,
     <1>14, <1>15, <1>16, <1>17 DEF Next, Progress

\* The books of admission, at every moment.
LEMMA AdmissionsHold == Spec => [](TypeOK /\ Admissions)
<1>1. Init => TypeOK /\ Admissions
  BY BoundsAssumption DEF Init, TypeOK, Admissions, Logged, Remembered, Minted, Chained, Busy,
     Stable, Runs
<1>2. TypeOK /\ Admissions /\ [Next]_vars => (TypeOK /\ Admissions)'
  BY TypeStep, AdmissionStep
<1>3. QED
  BY <1>1, <1>2, PTL DEF Spec

\* A repeated message, occurrence or IPC run is admitted once, whenever it comes,
\* and again only after a reset or kill that deletes the history. Compaction, which
\* deletes a part of it, is not modelled.
THEOREM AdmittedAtMostOnce == Spec => []AdmittedOnce
<1>1. TypeOK /\ Admissions => AdmittedOnce
  <2> SUFFICES ASSUME TypeOK, Admissions, NEW r \in Runs PROVE admits[r] <= 1 + resets
    BY DEF AdmittedOnce
  <2>1. admits[r] \in Nat /\ resets \in Nat
    BY DEF TypeOK
  <2>2. CASE r \in Stable
    BY <2>1, <2>2 DEF Admissions, Remembered
  <2>3. CASE r \notin Stable
    BY <2>1, <2>3 DEF Admissions, Minted, Chained, Stable, Runs
  <2>4. QED
    BY <2>2, <2>3
<1>2. QED
  BY <1>1, AdmissionsHold, PTL

-----------------------------------------------------------------------------
(* Something always moves the active run. *)

\* Only an active run waits for media.
Bare == ~Busy => media = "none"

\* A run whose media have lost the watchdog has had its trouble already.
Guarded == Busy /\ media # "none" /\ current \notin watches => faults + crashes >= 1

\* A run whose message has lost its media without a watchdog to end it: it waits
\* for a user (the restart drops failPendingMedia, and the constructor
\* keeps the flag of a message that has no media left).
Forsaken == Busy /\ media = "cleared" /\ current \notin watches

\* Something moves the run, or two troubles have left it forsaken.
Movable == Unstalled \/ (Forsaken /\ faults + crashes >= 2)

Moving == Bare /\ Guarded /\ Movable

\* A run that has just become active has its tick, or the end of a refused one due.
LEMMA StartMoves ==
  ASSUME NEW r, NEW ok, NEW others, StartRun(r, ok, others), media' = "none"
  PROVE  Moving'
BY DEF StartRun, ScheduleTick, Moving, Bare, Guarded, Movable, Forsaken, Unstalled

\* The end of a run leaves nothing to move, or a run that has just begun.
LEMMA ConcludeMoves ==
  ASSUME NEW q, NEW ok, NEW others, Conclude(q, ok, others)
  PROVE  Moving'
<1>1. CASE q = << >>
  BY <1>1 DEF Conclude, Busy, Moving, Bare, Guarded, Movable, Forsaken, Unstalled
<1>2. CASE q # << >>
  BY <1>2, StartMoves DEF Conclude
<1>3. QED
  BY <1>1, <1>2

\* A step that leaves the active run alone, and whatever moves it.
LEMMA MovingStays ==
  ASSUME Moving, UNCHANGED <<current, media, fiber, tools>>,
         ticks \subseteq ticks', failing \ failing' \subseteq Runs \ {current},
         watches \ watches' \subseteq Runs \ {current}, unfit \ unfit' \subseteq Runs \ {current},
         faults + crashes >= 1 => faults' + crashes' >= 1,
         faults + crashes >= 2 => faults' + crashes' >= 2
  PROVE  Moving'
BY DEF Moving, Bare, Guarded, Movable, Forsaken, Unstalled, Busy

\* A run that waits for no media, with its tick or tool calls, is moved by them.
LEMMA Unmediated ==
  ASSUME media' = "none", Busy' => current' \in ticks' \cup tools'
  PROVE  Movable'
<1>1. Unstalled'
  BY DEF Unstalled
<1>2. QED
  BY <1>1 DEF Movable

\* One that waits for media is moved by its watchdog.
LEMMA Watched ==
  ASSUME media' # "none", current' \in watches'
  PROVE  Movable'
<1>1. Unstalled'
  BY DEF Unstalled
<1>2. QED
  BY <1>1 DEF Movable

\* Every step keeps it.
LEMMA MovingStep == TypeOK /\ Logged /\ Moving /\ [Next]_vars => Moving'
<1> SUFFICES ASSUME TypeOK, Logged, Moving, [Next]_vars PROVE Moving'
  OBVIOUS
<1>0. faults \in Nat /\ crashes \in Nat /\ MaxTroubles \in Nat /\ NoRun \notin Runs
  BY BoundsAssumption, NoRunAssumption DEF TypeOK
<1>f. ASSUME NEW ok \in BOOLEAN, Outcome(ok), UNCHANGED crashes
      PROVE  /\ faults + crashes >= 1 => faults' + crashes' >= 1
             /\ faults + crashes >= 2 => faults' + crashes' >= 2
  BY <1>0, <1>f DEF Outcome
<1>1. ASSUME NEW ok \in BOOLEAN, Admit(ok)
      PROVE  Moving'
  <2>1. CASE UNCHANGED <<current, ticks, failing>>
    BY <1>1, <1>f, <2>1, MovingStays DEF Admit
  <2>2. CASE ~Busy /\ StartRun(Head(waiting), ok, failing)
    BY <1>1, <2>2, StartMoves DEF Admit, Moving, Bare
  <2>3. QED
    BY <1>1, <2>1, <2>2 DEF Admit
<1>2. ASSUME NEW ok \in BOOLEAN, ResetEnd(ok) \/ KillWipe(ok)
      PROVE  Moving'
  BY <1>2
  DEF ResetEnd, KillWipe, Logged, Busy, Moving, Bare, Guarded, Movable, Forsaken, Unstalled, history
<1>3. ASSUME NEW ok \in BOOLEAN, NEW r \in Runs, MediaReady(r, ok)
      PROVE  Moving'
  <2>1. CASE current = r /\ media # "none"
    BY <1>3, <2>1
    DEF MediaReady, ScheduleTick, Busy, Moving, Bare, Guarded, Movable, Forsaken, Unstalled
  <2>2. CASE ~(current = r /\ media # "none")
    BY <1>3, <1>f, <2>2, MovingStays DEF MediaReady, history
  <2>3. QED
    BY <2>1, <2>2
<1>4. ASSUME NEW ok \in BOOLEAN, NEW r \in Runs, MediaFails(r, ok)
      PROVE  Moving'
  <2>1. CASE current = r /\ media = "stored"
    BY <1>0, <1>3, <1>4, <1>f, <2>1
    DEF MediaFails, Busy, Moving, Bare, Guarded, Movable, Forsaken, Unstalled, history
  <2>2. CASE ~(current = r /\ media = "stored")
    BY <1>4, <1>f, <2>2, MovingStays DEF MediaFails, history
  <2>3. QED
    BY <2>1, <2>2
<1>5. ASSUME NEW ok \in BOOLEAN, NEW r \in Runs, FailPendingMedia(r, ok)
      PROVE  Moving'
  <2>1. CASE current = r /\ media # "none"
    BY <1>5, <2>1, ConcludeMoves DEF FailPendingMedia
  <2>2. CASE ~(current = r /\ media # "none")
    BY <1>0, <1>5, <1>f, <2>2
    DEF FailPendingMedia, Busy, Moving, Bare, Guarded, Movable, Forsaken, Unstalled
  <2>3. QED
    BY <2>1, <2>2
<1>6. ASSUME NEW ok \in BOOLEAN, NEW r \in Runs, TickReturns(r, ok) \/ ModelCallsTools(r, ok)
      PROVE  Moving'
  <2>1. /\ UNCHANGED <<current, media, watches, unfit, crashes>>
        /\ Outcome(ok) /\ fiber' = [fiber EXCEPT ![r] = "none"]
        /\ ticks \subseteq ticks' /\ failing \subseteq failing'
        /\ tools \subseteq tools'
        /\ current = r /\ media = "none" => r \in tools'
    BY <1>6 DEF TickReturns, ModelCallsTools, EndTick, ScheduleTick, Generating, history
  <2>2. current # r => fiber'[current] = fiber[current] \/ current \notin Runs
    BY <2>1 DEF TypeOK
  <2>3. QED
    BY <1>0, <1>f, <2>1, <2>2 DEF TypeOK, Busy, Moving, Bare, Guarded, Movable, Forsaken, Unstalled
<1>7. ASSUME NEW ok \in BOOLEAN, NEW r \in Runs, ToolsResolved(r, ok)
      PROVE  Moving'
  <2>1. /\ UNCHANGED <<current, media, watches, unfit, fiber, crashes>>
        /\ Outcome(ok) /\ tools' = tools \ {r}
        /\ ticks \subseteq ticks' /\ failing \subseteq failing'
        /\ current = r => r \in ticks' \cup failing'
    BY <1>7 DEF ToolsResolved, ScheduleTick, history
  <2>2. QED
    BY <1>f, <2>1 DEF Busy, Moving, Bare, Guarded, Movable, Forsaken, Unstalled
<1>8. ASSUME NEW ok \in BOOLEAN, NEW r \in Runs, FinishUnscheduled(r, ok)
      PROVE  Moving'
  <2>1. CASE current = r
    BY <1>8, <2>1, ConcludeMoves DEF FinishUnscheduled
  <2>2. CASE current # r
    BY <1>8, <1>f, <2>2, MovingStays DEF FinishUnscheduled
  <2>3. QED
    BY <2>1, <2>2
<1>9. ASSUME NEW ok \in BOOLEAN, NEW r \in Runs,
             NEW wake \in {<< >>} \cup {<<w>> : w \in WakeRuns}, FinishRun(r, wake, ok)
      PROVE  Moving'
  <2>1. CASE current = r
    BY <1>9, <2>1, ConcludeMoves DEF FinishRun
  <2>2. CASE current # r
    <3>1. /\ UNCHANGED <<current, media, watches, unfit, tools, ticks, failing, crashes>>
          /\ Outcome(ok) /\ fiber' = [fiber EXCEPT ![r] = "none"]
      BY <1>9, <2>2 DEF FinishRun
    <3>2. fiber'[current] = fiber[current] \/ current \notin Runs
      BY <2>2, <3>1 DEF TypeOK
    <3>3. QED
      BY <1>0, <1>f, <3>1, <3>2
      DEF TypeOK, Busy, Moving, Bare, Guarded, Movable, Forsaken, Unstalled
  <2>3. QED
    BY <2>1, <2>2
<1>10. ASSUME NEW ok \in BOOLEAN, Abort(ok)
       PROVE  Moving'
  BY <1>10, ConcludeMoves DEF Abort
<1>11. ASSUME NEW ok \in BOOLEAN, NEW r \in UserRuns, NEW withMedia \in BOOLEAN,
              UserSend(r, withMedia, ok)
       PROVE  Moving'
  <2>1. current' = r /\ r \in Runs /\ Outcome(ok) /\ UNCHANGED crashes
    BY <1>11 DEF UserSend, Runs
  <2>2. CASE withMedia
    <3>1. media' = "stored" /\ (IF ok THEN r \in watches' ELSE r \in unfit')
      BY <1>11, <2>2 DEF UserSend
    <3>2. ~ok => faults' + crashes' >= 1
      BY <1>0, <2>1 DEF Outcome
    <3>3. QED
      BY <1>0, <2>1, <3>1, <3>2 DEF Busy, Moving, Bare, Guarded, Movable, Forsaken, Unstalled
  <2>3. CASE ~withMedia
    BY <1>11, <2>3, StartMoves DEF UserSend, StartRun
  <2>4. QED
    BY <2>2, <2>3
<1>12. ASSUME NEW ok \in BOOLEAN, NEW r \in SchedRuns \cup WakeRuns, RuntimeEvent(r, ok)
       PROVE  Moving'
  <2>1. CASE Busy
    BY <1>12, <1>f, <2>1, MovingStays DEF RuntimeEvent
  <2>2. CASE ~Busy
    BY <1>12, <2>2, StartMoves DEF RuntimeEvent, Moving, Bare
  <2>3. QED
    BY <2>1, <2>2
<1>13. ASSUME NEW r \in BgRuns \cup IpcRuns, Arrive(r)
       PROVE  Moving'
  BY <1>13, MovingStays DEF Arrive, durable
<1>14. ASSUME NEW r \in Runs, WatchFires(r)
       PROVE  Moving'
  BY <1>14 DEF WatchFires, Busy, Moving, Bare, Guarded, Movable, Forsaken, Unstalled, history
<1>15. ASSUME NEW r \in Runs, TickFires(r)
       PROVE  Moving'
  <2>1. /\ UNCHANGED <<current, media, watches, unfit, tools, failing, faults, crashes>>
        /\ ticks' = ticks \ {r}
    BY <1>15 DEF TickFires, history
  <2>2. CASE current # r
    BY <1>15, <2>1, <2>2 DEF TickFires, Busy, Moving, Bare, Guarded, Movable, Forsaken, Unstalled
  <2>3. CASE current = r
    <3>1. fiber'[r] # "none"
      BY <1>15, <2>3 DEF TickFires, TypeOK
    <3>2. QED
      BY <2>1, <2>3, <3>1 DEF Busy, Moving, Bare, Guarded, Movable, Forsaken, Unstalled
  <2>4. QED
    BY <2>2, <2>3
<1>16. ASSUME NEW r \in Runs, ModelAnswers(r)
       PROVE  Moving'
  <2>1. /\ UNCHANGED <<current, media, watches, unfit, tools, ticks, failing, faults, crashes>>
        /\ current = r /\ fiber'[r] # "none"
    BY <1>16 DEF ModelAnswers, Generating, TypeOK, durable, history
  <2>2. QED
    BY <2>1 DEF Busy, Moving, Bare, Guarded, Movable, Forsaken, Unstalled
<1>17. CASE ResetBegin \/ KillClear
  BY <1>17
  DEF ResetBegin, KillClear, ClearExecution, Busy, Moving, Bare, Guarded, Movable, Forsaken,
      Unstalled
<1>18. CASE KillBegin \/ KillNoticeFails
  <2>1. CASE KillBegin
    BY <2>1, MovingStays DEF KillBegin, durable
  <2>2. CASE KillNoticeFails
    BY <1>f, <2>2, MovingStays DEF KillNoticeFails, durable, history
  <2>3. QED
    BY <1>18, <2>1, <2>2
<1>19. ASSUME NEW approval \in BOOLEAN, Restart(approval)
       PROVE  Moving'
  <2>1. /\ UNCHANGED <<current, watches, tools>>
        /\ media' = IF media = "stored" THEN "none" ELSE media
        /\ approval => current \in tools
        /\ ticks' = IF Busy /\ media' = "none" /\ ~approval THEN ticks \cup {current} ELSE ticks
    BY <1>19 DEF Restart
  <2>2. /\ faults' + crashes' >= 1
        /\ faults + crashes >= 1 => faults' + crashes' >= 2
    BY <1>0, <1>19 DEF Restart
  <2>3. Bare' /\ Guarded'
    BY <2>1, <2>2 DEF Moving, Bare, Guarded, Busy
  <2>4. CASE media' = "none"
    <3>1. Busy' => current' \in ticks' \cup tools'
      BY <2>1, <2>4 DEF Busy
    <3>2. QED
      BY <2>3, <2>4, <3>1, Unmediated DEF Moving
  <2>5. CASE media' # "none" /\ current \in watches
    BY <2>1, <2>3, <2>5, Watched DEF Moving
  <2>6. CASE media' # "none" /\ current \notin watches
    <3>1. media' = "cleared"
      BY <2>1, <2>6 DEF TypeOK
    <3>2. Busy => faults + crashes >= 1
      BY <2>1, <2>6 DEF Moving, Guarded
    <3>3. Busy' => Forsaken' /\ faults' + crashes' >= 2
      BY <2>1, <2>2, <2>6, <3>1, <3>2 DEF Forsaken, Busy
    <3>4. ~Busy' => Unstalled'
      BY DEF Unstalled
    <3>5. QED
      BY <2>3, <3>3, <3>4 DEF Moving, Movable
  <2>7. QED
    BY <2>4, <2>5, <2>6
<1>20. CASE UNCHANGED vars
  BY <1>20, MovingStays DEF vars, durable, volatile, history
<1>21. QED
  BY <1>1, <1>2, <1>3, <1>4, <1>5, <1>6, <1>7, <1>8, <1>9, <1>10, <1>11, <1>12, <1>13,
     <1>14, <1>15, <1>16, <1>17, <1>18, <1>19, <1>20 DEF Next, Progress

\* Restarts and refusals are counted against their bound.
Budget == faults + crashes <= MaxTroubles

\* Every step keeps within it.
LEMMA BudgetStep == TypeOK /\ Budget /\ [Next]_vars => Budget'
<1> SUFFICES ASSUME TypeOK, Budget, [Next]_vars PROVE Budget'
  OBVIOUS
<1>0. faults \in Nat /\ crashes \in Nat /\ MaxTroubles \in Nat
  BY BoundsAssumption DEF TypeOK
<1>1. ASSUME NEW ok \in BOOLEAN, Outcome(ok), UNCHANGED crashes
      PROVE  Budget'
  BY <1>0, <1>1 DEF Outcome, Budget
<1>2. CASE UNCHANGED <<faults, crashes>>
  BY <1>2 DEF Budget
<1>3. ASSUME NEW ok \in BOOLEAN, Progress(ok)
      PROVE  Budget'
  <2>1. Outcome(ok) /\ UNCHANGED crashes
    BY <1>3 DEF Progress, Admit, ResetEnd, KillWipe, MediaReady, MediaFails,
       FailPendingMedia, TickReturns, ModelCallsTools, ToolsResolved, FinishUnscheduled,
       FinishRun, EndTick, history
  <2>2. QED
    BY <1>1, <2>1
<1>4. ASSUME NEW ok \in BOOLEAN,
             \/ Abort(ok)
             \/ \E r \in UserRuns, withMedia \in BOOLEAN : UserSend(r, withMedia, ok)
             \/ \E r \in SchedRuns \cup WakeRuns : RuntimeEvent(r, ok)
      PROVE  Budget'
  <2>1. Outcome(ok) /\ UNCHANGED crashes
    BY <1>4 DEF Abort, UserSend, RuntimeEvent
  <2>2. QED
    BY <1>1, <2>1
<1>5. CASE KillNoticeFails
  <2>1. faults' = faults + 1 /\ UNCHANGED crashes /\ faults + crashes < MaxTroubles
    BY <1>5 DEF KillNoticeFails, Outcome, history
  <2>2. QED
    BY <1>0, <2>1 DEF Budget
<1>6. CASE \E approval \in BOOLEAN : Restart(approval)
  BY <1>0, <1>6 DEF Restart, Budget
<1>7. CASE \/ \E r \in BgRuns \cup IpcRuns : Arrive(r)
           \/ \E r \in Runs : WatchFires(r) \/ TickFires(r) \/ ModelAnswers(r)
           \/ ResetBegin \/ KillBegin \/ KillClear
           \/ UNCHANGED vars
  <2>1. UNCHANGED <<faults, crashes>>
    BY <1>7 DEF Arrive, WatchFires, TickFires, ModelAnswers, ResetBegin, KillBegin, KillClear,
       history, vars
  <2>2. QED
    BY <1>2, <2>1
<1>8. QED
  BY <1>3, <1>4, <1>5, <1>6, <1>7 DEF Next

\* Both hold throughout.
LEMMA MovingHolds == Spec => [](Moving /\ Budget)
<1>1. Init => Moving /\ Budget
  BY BoundsAssumption DEF Init, Budget, Busy, Moving, Bare, Guarded, Movable, Forsaken, Unstalled
<1>2. TypeOK /\ Logged /\ Moving /\ [Next]_vars => Moving'
  BY MovingStep
<1>3. TypeOK /\ Budget /\ [Next]_vars => Budget'
  BY BudgetStep
<1>4. TypeOK /\ Admissions => TypeOK /\ Logged
  BY DEF Admissions
<1>5. QED
  BY <1>1, <1>2, <1>3, <1>4, AdmissionsHold, PTL DEF Spec

\* However many restarts, refused host calls, runs, resets and tool rounds: the
\* only active run nothing moves is one whose media were given up on while its
\* watchdog row had been refused. Generation, tool calls, approvals, deferred
\* ticks and the catch of a rejected tick never strand a run. (The tick of the
\* constructor is stored here, see Restart: nothing catches its rejection.)
THEOREM OnlyLostMediaStall == Spec => [](Unstalled \/ Forsaken)
<1>1. Moving /\ Budget => Unstalled \/ Forsaken
  BY DEF Moving, Movable
<1>2. QED
  BY <1>1, MovingHolds, PTL

\* With at most one restart or refused host call the active run always has
\* something that will move it: losing the media so takes two of them.
THEOREM NeverStalled ==
  ASSUME MaxTroubles <= 1
  PROVE  Spec => []Unstalled
<1>1. ASSUME TypeOK, Moving, Budget
      PROVE  Unstalled
  <2>1. faults \in Nat /\ crashes \in Nat /\ MaxTroubles \in Nat
    BY <1>1, BoundsAssumption DEF TypeOK
  <2>2. ~(faults + crashes >= 2)
    BY <1>1, <2>1 DEF Budget
  <2>3. QED
    BY <1>1, <2>2 DEF Moving, Movable
<1>2. TypeOK /\ Moving /\ Budget => Unstalled
  BY <1>1
<1>3. QED
  BY <1>2, MovingHolds, TypeCorrect, PTL
=============================================================================

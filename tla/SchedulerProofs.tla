--------------------------- MODULE SchedulerProofs ---------------------------
(***************************************************************************)
(* Proofs about Scheduler, for every bound and any interleaving of wakes,  *)
(* runs, updates and restarts: one run at a time, the key and the number   *)
(* of a one-shot's attempts, and the wake of whatever is armed.            *)
(*                                                                         *)
(* The invariant IInv has one part for each thing that a handler relies on *)
(* after its await. Single: the run mark and the run it stands for. Keyed: *)
(* an armed one-shot has an occurrence that the user granted. Tried: the   *)
(* attempts at it that are counted, or under way. Waked: the ids of wakes  *)
(* being recorded mean nothing else yet.                                   *)
(***************************************************************************)
EXTENDS Scheduler, FiniteSetTheorems, TLAPS

\* There is one run, it is marked, and only a restart or a batch with an old record
\* leaves a mark without one.
Single ==
  /\ \A d, e \in dispatches : d = e
  /\ dispatches # {} => running
  /\ Live /\ running => dispatches # {} \/ cut \cap {"restart", "batch"} # {}
  /\ phase = "new" =>
       dispatches = {} /\ ~running /\ ~enabled /\ occ = 0 /\ tries = 0 /\ attempts = 0

\* Each occurrence was paid for by the add or by an update, and each batch that has
\* read the schedule by its request.
Counted ==
  /\ IsFiniteSet(updates)
  /\ issued + Cardinality(updates) <= events + (IF phase = "new" THEN 0 ELSE 1)
  /\ phase = "new" => updates = {}
  /\ listed <= events

\* What is enabled has a next run, and a one-shot then has a granted occurrence.
Keyed ==
  /\ Live /\ enabled => next # "null"
  /\ \A d \in dispatches : d.enabled => d.next # "null"
  /\ kind = "once" =>
       /\ occ # 0 => occ \in granted /\ wish
       /\ Live /\ enabled => occ # 0
       /\ \A d \in dispatches : /\ d.mode = "due" => d.occ \in granted
                                /\ d.enabled => d.occ # 0
                                /\ d.occ <= issued
  /\ kind # "once" => occ = 0 /\ \A d \in dispatches : d.occ = 0

\* An attempt at the stored occurrence that is not counted yet.
Working == \E d \in dispatches : d.mode = "due" /\ d.occ = occ

\* The attempts at the stored occurrence are counted but for the one under way, or
\* the one a restart killed, which leaves the schedule marked for good.
Tried ==
  kind = "once" /\ occ # 0 =>
    /\ tries < MaxAttempts
    /\ attempts <= tries + (IF Working \/ (running /\ dispatches = {}) THEN 1 ELSE 0)
    /\ \A d \in dispatches : Live /\ d.occ = occ => d.try = tries + 1

\* A wake that is being recorded has its row, and nobody else will delete it.
Waked ==
  /\ \A a \in arms : /\ a.id \in rows \ {0, wake, a.via}
                     /\ \A b \in arms : a.id # b.via /\ (a.id = b.id => a = b)
                     /\ \A d \in dispatches : a.id # d.via
                     /\ \A u \in updates : a.id # u.prev
  /\ \A d \in dispatches : d.mode = "force" => d.via = 0

IInv ==
  TypeOK /\ Single /\ Counted /\ Keyed /\ Tried /\ AttemptsBounded /\ Waked /\ Armed

-----------------------------------------------------------------------------
\* An id for a new wake is one that nothing refers to.
LEMMA FreshWake ==
  ASSUME NEW id \in FreeWakes
  PROVE  /\ id \in Wakes /\ id \notin rows /\ id # wake
         /\ \A a \in arms : id # a.id /\ id # a.via
         /\ \A d \in dispatches : id # d.via
         /\ \A u \in updates : id # u.prev
BY DEF FreeWakes, Held

\* scheduleScheduleWake stores a row under such an id.
LEMMA ArmStores ==
  ASSUME NEW others, NEW via, Arm(others, via)
  PROVE  \E id \in FreeWakes : /\ rows' = others \cup {id}
                               /\ arms' = arms \cup {[id |-> id, via |-> via]}
BY DEF Arm, Stored

LEMMA ArmAdds ==
  ASSUME NEW others, NEW via, Arm(others, via)
  PROVE  arms' # {}
<1>1. PICK id \in FreeWakes : arms' = arms \cup {[id |-> id, via |-> via]}
  BY ArmStores
<1>2. [id |-> id, via |-> via] \in arms'
  BY <1>1
<1> QED
  BY <1>2

\* A run that starts is marked and waits for its target.
LEMMA StartAdds ==
  ASSUME NEW mode, NEW via, StartRun(mode, via)
  PROVE  /\ \E d \in dispatches' : d.mode = mode
         /\ attempts' \in {attempts, attempts + 1}
<1> DEFINE new == [mode |-> mode, via |-> via, enabled |-> enabled, next |-> next,
                   occ |-> IF kind = "once" /\ Armable THEN occ ELSE 0, try |-> tries + 1]
<1>1. new \in dispatches' /\ new.mode = mode
  BY DEF StartRun
<1>2. attempts' \in {attempts, attempts + 1}
  BY DEF StartRun
<1> HIDE DEF new
<1> QED
  BY <1>1, <1>2

\* The ids of the wakes being recorded stay apart when one more is armed.
LEMMA ArmApart ==
  ASSUME Waked, NEW others, NEW via, Arm(others, via),
         \A a \in arms : a.id \in others \ {via},
         via \in {0, wake} \cup {d.via : d \in dispatches}
  PROVE  \A a \in arms' : /\ a.id \in rows' \ {0, wake, a.via}
                          /\ \A b \in arms' : a.id # b.via /\ (a.id = b.id => a = b)
                          /\ \A d \in dispatches : a.id # d.via
                          /\ \A u \in updates : a.id # u.prev
<1>1. PICK id \in FreeWakes : /\ rows' = others \cup {id}
                             /\ arms' = arms \cup {[id |-> id, via |-> via]}
  BY ArmStores
<1> DEFINE new == [id |-> id, via |-> via]
<1>3. /\ id # 0 /\ id # wake /\ id # via
      /\ \A a \in arms : id # a.id /\ id # a.via
      /\ \A d \in dispatches : id # d.via
      /\ \A u \in updates : id # u.prev
  BY FreshWake DEF Wakes
<1>4. new.id = id /\ new.via = via /\ arms' = arms \cup {new}
  BY <1>1
<1> HIDE DEF new
<1> QED
  BY <1>1, <1>3, <1>4 DEF Waked

LEMMA ArmTyped ==
  ASSUME MemoryOK, NEW others \in SUBSET Wakes, NEW via \in Wakes \cup {0}, Arm(others, via)
  PROVE  rows' \subseteq Wakes /\ arms' \subseteq [id : Wakes, via : Wakes \cup {0}]
<1>1. PICK id \in FreeWakes : /\ rows' = others \cup {id}
                             /\ arms' = arms \cup {[id |-> id, via |-> via]}
  BY ArmStores
<1>2. id \in Wakes
  BY FreshWake
<1> QED
  BY <1>1, <1>2 DEF MemoryOK

LEMMA StartTyped ==
  ASSUME TypeOK, NEW mode \in {"due", "force"}, NEW via \in Wakes \cup {0},
         StartRun(mode, via)
  PROVE  dispatches' \subseteq Dispatches
<1> DEFINE key == IF kind = "once" /\ Armable THEN occ ELSE 0
           new == [mode |-> mode, via |-> via, enabled |-> enabled, next |-> next,
                   occ |-> key, try |-> tries + 1]
<1>1. dispatches' = dispatches \cup {new}
  BY DEF StartRun
<1>2. key \in Occs \cup {0}
  BY SchedulerAssumption DEF TypeOK, RowOK, HistoryOK, Occs
<1>3. tries + 1 \in 1 .. MaxAttempts + 1
  BY SchedulerAssumption DEF TypeOK, RowOK
<1>4. enabled \in BOOLEAN /\ next \in {"null", "future", "due"}
  BY DEF TypeOK, RowOK
<1> HIDE DEF key
<1>5. new \in Dispatches
  BY <1>2, <1>3, <1>4 DEF Dispatches
<1> QED
  BY <1>1, <1>5 DEF TypeOK, MemoryOK

\* Every step keeps the types.
LEMMA TypeOKKept ==
  ASSUME TypeOK, Counted, Tried, AttemptsBounded, [Next]_vars
  PROVE  TypeOK'
<1> USE SchedulerAssumption DEF TypeOK, Counted, Tried, AttemptsBounded, RowOK, MemoryOK,
  HistoryOK, Dispatches, Live, Armable, Wakes, Occs, Results, Patches
<1>1. ASSUME Add
      PROVE  TypeOK'
  <2>0. issued <= MaxEvents
    BY <1>1, FS_EmptySet DEF Add
  <2>1. RowOK'
    BY <1>1, <2>0 DEF Add, row, memory, history
  <2>2. MemoryOK'
    <3>1. rows' \subseteq Wakes /\ arms' \subseteq [id : Wakes, via : Wakes \cup {0}]
      <4> HIDE DEF MemoryOK, Wakes
      <4>1. rows \in SUBSET Wakes
        BY DEF MemoryOK
      <4> QED
        BY <1>1, <4>1, ArmTyped DEF Add
    <3> QED
      BY <1>1, <3>1 DEF Add
  <2>3. HistoryOK'
    <3>1. issued' \in 0 .. 1 + MaxEvents /\ granted' \subseteq Occs
      <4>1. CASE issued' = issued /\ granted' = granted
        BY <4>1
      <4>2. CASE issued' = issued + 1 /\ granted' = {issued + 1}
        BY <2>0, <4>2
      <4> QED
        BY <1>1, <4>1, <4>2 DEF Add
    <3> QED
      BY <1>1, <3>1 DEF Add
  <2> HIDE DEF RowOK, MemoryOK, HistoryOK
  <2> QED
    BY <2>1, <2>2, <2>3
<1>2. ASSUME TimePasses
      PROVE  TypeOK'
  BY <1>2 DEF TimePasses, row, memory, history
<1>3. ASSUME Remove
      PROVE  TypeOK'
  BY <1>3 DEF Remove, row, memory, history
<1>4. ASSUME Restart
      PROVE  TypeOK'
  BY <1>4 DEF Restart, row, memory, history
<1>5. ASSUME NEW w \in rows, FireStale(w)
      PROVE  TypeOK'
  BY <1>5 DEF FireStale, Ready, row, memory, history
<1>6. ASSUME NEW w \in rows, FireDue(w)
      PROVE  TypeOK'
  <2>1. RowOK'
    <3>1. CASE enabled /\ next = "due" /\ Idle
      BY <1>6, <3>1 DEF FireDue, StartRun
    <3>2. CASE ~(enabled /\ next = "due" /\ Idle)
      BY <1>6, <3>2 DEF FireDue
    <3> QED
      BY <3>1, <3>2
  <2>2. MemoryOK'
    <3>1. CASE enabled /\ next = "due" /\ Idle
      <4>1. StartRun("due", w) /\ UNCHANGED <<rows, arms, updates, listed>>
        BY <1>6, <3>1 DEF FireDue
      <4>2. dispatches' \subseteq Dispatches
        BY <4>1, StartTyped
      <4> QED
        BY <4>1, <4>2
    <3>2. CASE ~(enabled /\ next = "due" /\ Idle) /\ Early
      <4>1. rows' \subseteq Wakes /\ arms' \subseteq [id : Wakes, via : Wakes \cup {0}]
        <5> HIDE DEF MemoryOK, Wakes
        <5>1. rows \in SUBSET Wakes /\ w \in Wakes
          BY DEF MemoryOK
        <5> QED
          BY <1>6, <3>2, <5>1, ArmTyped DEF FireDue
      <4> QED
        BY <1>6, <3>2, <4>1 DEF FireDue
    <3>3. CASE ~(enabled /\ next = "due" /\ Idle) /\ ~Early
      BY <1>6, <3>3 DEF FireDue
    <3> QED
      BY <3>1, <3>2, <3>3
  <2>3. HistoryOK'
    <3>1. CASE enabled /\ next = "due" /\ Idle
      <4>1. StartRun("due", w) /\ UNCHANGED <<cut, issued, granted, wish, events>>
        BY <1>6, <3>1 DEF FireDue
      <4> QED
        BY <4>1, StartAdds
    <3>2. CASE ~(enabled /\ next = "due" /\ Idle)
      BY <1>6, <3>2 DEF FireDue
    <3> QED
      BY <3>1, <3>2
  <2> HIDE DEF RowOK, MemoryOK, HistoryOK
  <2> QED
    BY <2>1, <2>2, <2>3
<1>7. ASSUME NEW a \in arms, WakeRecorded(a)
      PROVE  TypeOK'
  BY <1>7 DEF WakeRecorded, row, memory, history
<1>8. ASSUME NEW d \in dispatches, NEW result \in Results,
               DispatchReturns(d, result)
      PROVE  TypeOK'
  <2>1. RowOK'
    <3>1. CASE ~Live
      BY <1>8, <3>1 DEF DispatchReturns
    <3>2. CASE Live
      <4>1. FinishRow(d, result) /\ running' = FALSE
        BY <1>8, <3>2 DEF DispatchReturns
      <4>2. enabled' \in BOOLEAN /\ next' \in {"null", "future", "due"}
        BY <4>1 DEF FinishRow, Outcome, Passing, Superseded
      <4>3. occ' \in 0 .. issued
        BY <4>1 DEF FinishRow, KeptOccurrence
      <4>4. tries' \in 0 .. MaxAttempts
        BY <3>2, <4>1 DEF FinishRow, CountedTries
      <4>5. wake' \in Wakes \cup {0} /\ UNCHANGED <<phase, kind, issued>>
        BY <1>8, <3>2 DEF DispatchReturns
      <4> QED
        BY <4>1, <4>2, <4>3, <4>4, <4>5
    <3> QED
      BY <3>1, <3>2
  <2>2. MemoryOK'
    <3>1. CASE \E via \in Wakes \cup {0} : Arm(rows, via)
      <4>1. rows' \subseteq Wakes /\ arms' \subseteq [id : Wakes, via : Wakes \cup {0}]
        <5> HIDE DEF MemoryOK, Wakes
        <5>1. rows \in SUBSET Wakes
          BY DEF MemoryOK
        <5> QED
          BY <3>1, <5>1, ArmTyped
      <4> QED
        BY <1>8, <4>1 DEF DispatchReturns
    <3>2. CASE ~\E via \in Wakes \cup {0} : Arm(rows, via)
      BY <1>8, <3>2 DEF DispatchReturns, Settled
    <3> QED
      BY <3>1, <3>2
  <2>3. HistoryOK'
    BY <1>8 DEF DispatchReturns, FinishRow, Superseded, Outcome, Passing, CountedTries,
      KeptOccurrence, Settled, row, memory, history
  <2> HIDE DEF RowOK, MemoryOK, HistoryOK
  <2> QED
    BY <2>1, <2>2, <2>3
<1>9. ASSUME NEW mode \in {"due", "force"}, RunNow(mode)
      PROVE  TypeOK'
  <2>1. RowOK'
    BY <1>9 DEF RunNow, StartRun, Idle, row, memory, history
  <2>2. MemoryOK'
    <3>1. StartRun(mode, 0) /\ UNCHANGED <<rows, arms, updates, listed>>
      BY <1>9 DEF RunNow
    <3>2. dispatches' \subseteq Dispatches
      BY <3>1, StartTyped
    <3> QED
      BY <3>1, <3>2
  <2>3. HistoryOK'
    BY <1>9 DEF RunNow, StartRun, Idle, row, memory, history
  <2> HIDE DEF RowOK, MemoryOK, HistoryOK
  <2> QED
    BY <2>1, <2>2, <2>3
<1>10. ASSUME NEW p \in Patches, UpdateBegin(p)
      PROVE  TypeOK'
  BY <1>10 DEF UpdateBegin, row, memory, history
<1>11. ASSUME NEW u \in updates, UpdateStores(u)
      PROVE  TypeOK'
  <2>0. issued <= MaxEvents
    <3>1. Cardinality(updates) \in Nat /\ Cardinality(updates) # 0 /\ phase # "new"
      BY FS_EmptySet, FS_CardinalityType
    <3> HIDE DEF RowOK, MemoryOK
    <3> QED
      BY <3>1
  <2>1. RowOK'
    <3>1. CASE ~Live
      BY <1>11, <3>1 DEF UpdateStores
    <3>2. CASE Live
      <4>1. enabled' \in BOOLEAN /\ next' \in {"null", "future", "due"}
        BY <1>11, <3>2 DEF UpdateStores
      <4>2. occ' \in 0 .. issued'
        BY <1>11, <3>2 DEF UpdateStores
      <4>3. tries' \in {0, tries} /\ wake' \in {0, wake} /\ UNCHANGED <<phase, kind, running>>
        BY <1>11, <3>2 DEF UpdateStores
      <4> QED
        BY <4>1, <4>2, <4>3
    <3> QED
      BY <3>1, <3>2
  <2>2. MemoryOK'
    <3> DEFINE others == rows \ {u.prev}
    <3>1. CASE Arm(others, 0)
      <4>1. rows' \subseteq Wakes /\ arms' \subseteq [id : Wakes, via : Wakes \cup {0}]
        <5>1. others \in SUBSET Wakes
          OBVIOUS
        <5> HIDE DEF MemoryOK, Wakes, others
        <5> QED
          BY <3>1, <5>1, ArmTyped
      <4> QED
        BY <1>11, <4>1 DEF UpdateStores
    <3>2. CASE ~Arm(others, 0)
      BY <1>11, <3>2 DEF UpdateStores
    <3> QED
      BY <3>1, <3>2
  <2>3. HistoryOK'
    <3>1. issued' \in 0 .. 1 + MaxEvents /\ granted' \subseteq Occs
      <4>1. CASE issued' = issued /\ granted' = granted
        BY <4>1
      <4>2. CASE issued' = issued + 1 /\ granted' = granted \cup {issued + 1}
        BY <2>0, <4>2
      <4> QED
        BY <1>11, <4>1, <4>2 DEF UpdateStores
    <3>2. attempts' \in {0, attempts} /\ wish' \in BOOLEAN /\ UNCHANGED <<cut, events>>
      <4>1. CASE Live
        BY <1>11, <4>1 DEF UpdateStores
      <4>2. CASE ~Live
        BY <1>11, <4>2 DEF UpdateStores
      <4> QED
        BY <4>1, <4>2
    <3> QED
      BY <3>1, <3>2
  <2> HIDE DEF RowOK, MemoryOK, HistoryOK
  <2> QED
    BY <2>1, <2>2, <2>3
<1>12. ASSUME ListDue
      PROVE  TypeOK'
  <2>1. listed' \in 0 .. MaxEvents /\ events' \in 0 .. MaxEvents
    BY <1>12 DEF ListDue
  <2>2. UNCHANGED <<row, rows, dispatches, arms, updates, issued, history>>
    BY <1>12 DEF ListDue
  <2> QED
    BY <2>1, <2>2 DEF row, history
<1>13. ASSUME BatchRuns
      PROVE  TypeOK'
  <2>1. RowOK'
    BY <1>13 DEF BatchRuns, StartRun, Idle
  <2>2. MemoryOK'
    <3>1. StartRun("due", 0) /\ UNCHANGED <<rows, arms, updates>>
      BY <1>13 DEF BatchRuns
    <3>2. dispatches' \subseteq Dispatches
      BY <3>1, StartTyped
    <3>3. listed' \in 0 .. MaxEvents
      BY <1>13 DEF BatchRuns
    <3> QED
      BY <3>1, <3>2, <3>3
  <2>3. HistoryOK'
    BY <1>13 DEF BatchRuns, StartRun, Idle
  <2> HIDE DEF RowOK, MemoryOK, HistoryOK
  <2> QED
    BY <2>1, <2>2, <2>3
<1>14. ASSUME BatchMarks
      PROVE  TypeOK'
  BY <1>14 DEF BatchMarks, Idle, row, memory, history
<1>15. ASSUME BatchSkips
      PROVE  TypeOK'
  BY <1>15 DEF BatchSkips, row, memory, history
<1>16. ASSUME UNCHANGED vars
      PROVE  TypeOK'
  BY <1>16 DEF vars, row, memory, history
<1> QED
  BY <1>1, <1>2, <1>3, <1>4, <1>5, <1>6, <1>7, <1>8, <1>9, <1>10, <1>11, <1>12,
    <1>13, <1>14, <1>15, <1>16 DEF Next

\* markRunning admits one run, which ends with the mark.
LEMMA SingleKept ==
  ASSUME TypeOK, Single, [Next]_vars
  PROVE  Single'
<1> USE DEF TypeOK, Single, RowOK, MemoryOK, HistoryOK, Dispatches, Live, Armable
<1>1. ASSUME Add
      PROVE  Single'
  BY <1>1 DEF Add, row, memory, history
<1>2. ASSUME TimePasses
      PROVE  Single'
  BY <1>2 DEF TimePasses, row, memory, history
<1>3. ASSUME Remove
      PROVE  Single'
  BY <1>3 DEF Remove, row, memory, history
<1>4. ASSUME Restart
      PROVE  Single'
  BY <1>4 DEF Restart, row, memory, history
<1>5. ASSUME NEW w \in rows, FireStale(w)
      PROVE  Single'
  BY <1>5 DEF FireStale, Ready, row, memory, history
<1>6. ASSUME NEW w \in rows, FireDue(w)
      PROVE  Single'
  BY <1>6 DEF FireDue, StartRun, Ready, Early, Idle, row, memory, history
<1>7. ASSUME NEW a \in arms, WakeRecorded(a)
      PROVE  Single'
  BY <1>7 DEF WakeRecorded, row, memory, history
<1>8. ASSUME NEW d \in dispatches, NEW result \in Results,
               DispatchReturns(d, result)
      PROVE  Single'
  BY <1>8 DEF DispatchReturns, FinishRow, Superseded, Outcome, Passing, CountedTries,
    KeptOccurrence, Settled, row, memory, history
<1>9. ASSUME NEW mode \in {"due", "force"}, RunNow(mode)
      PROVE  Single'
  BY <1>9 DEF RunNow, StartRun, Idle, row, memory, history
<1>10. ASSUME NEW p \in Patches, UpdateBegin(p)
      PROVE  Single'
  BY <1>10 DEF UpdateBegin, row, memory, history
<1>11. ASSUME NEW u \in updates, UpdateStores(u)
      PROVE  Single'
  BY <1>11 DEF UpdateStores, row, memory, history
<1>12. ASSUME ListDue
      PROVE  Single'
  BY <1>12 DEF ListDue, row, memory, history
<1>13. ASSUME BatchRuns
      PROVE  Single'
  BY <1>13 DEF BatchRuns, StartRun, Idle, row, memory, history
<1>14. ASSUME BatchMarks
      PROVE  Single'
  BY <1>14 DEF BatchMarks, Idle, row, memory, history
<1>15. ASSUME BatchSkips
      PROVE  Single'
  BY <1>15 DEF BatchSkips, row, memory, history
<1>16. ASSUME UNCHANGED vars
      PROVE  Single'
  BY <1>16 DEF vars, row, memory, history
<1> QED
  BY <1>1, <1>2, <1>3, <1>4, <1>5, <1>6, <1>7, <1>8, <1>9, <1>10, <1>11, <1>12,
    <1>13, <1>14, <1>15, <1>16 DEF Next

\* No step issues an occurrence of its own.
LEMMA CountedKept ==
  ASSUME TypeOK, Counted, [Next]_vars
  PROVE  Counted'
<1> USE DEF TypeOK, Counted, RowOK, MemoryOK, HistoryOK, Dispatches, Live, Armable
<1>1. ASSUME Add
      PROVE  Counted'
  <2>1. updates = {} /\ Cardinality({}) = 0
    BY <1>1, FS_EmptySet DEF Add, row, memory, history
  <2>2. issued \in Nat /\ events \in Nat /\ listed \in Nat /\ Cardinality(updates) \in Nat
    BY FS_CardinalityType, SchedulerAssumption
  <2> HIDE DEF TypeOK, RowOK, MemoryOK, HistoryOK
  <2> QED
    BY <1>1, <2>1, <2>2 DEF Add
<1>2. ASSUME TimePasses
      PROVE  Counted'
  BY <1>2 DEF TimePasses, row, memory, history
<1>3. ASSUME Remove
      PROVE  Counted'
  BY <1>3 DEF Remove, row, memory, history
<1>4. ASSUME Restart
      PROVE  Counted'
  <2>1. updates' = {} /\ IsFiniteSet({}) /\ Cardinality({}) = 0
    BY <1>4, FS_EmptySet DEF Restart, row, memory, history
  <2>2. issued \in Nat /\ events \in Nat /\ listed \in Nat /\ Cardinality(updates) \in Nat
    BY FS_CardinalityType, SchedulerAssumption
  <2> HIDE DEF TypeOK, RowOK, MemoryOK, HistoryOK
  <2> QED
    BY <1>4, <2>1, <2>2 DEF Restart, row
<1>5. ASSUME NEW w \in rows, FireStale(w)
      PROVE  Counted'
  BY <1>5 DEF FireStale, Ready, row, memory, history
<1>6. ASSUME NEW w \in rows, FireDue(w)
      PROVE  Counted'
  BY <1>6 DEF FireDue, StartRun, Ready, Early, Idle, row, memory, history
<1>7. ASSUME NEW a \in arms, WakeRecorded(a)
      PROVE  Counted'
  BY <1>7 DEF WakeRecorded, row, memory, history
<1>8. ASSUME NEW d \in dispatches, NEW result \in Results,
               DispatchReturns(d, result)
      PROVE  Counted'
  BY <1>8 DEF DispatchReturns, FinishRow, Superseded, Outcome, Passing, CountedTries,
    KeptOccurrence, Settled, row, memory, history
<1>9. ASSUME NEW mode \in {"due", "force"}, RunNow(mode)
      PROVE  Counted'
  <2>1. events' = events + 1 /\ UNCHANGED <<updates, listed, issued, phase>>
    BY <1>9 DEF RunNow, StartRun, Idle, row, memory, history
  <2>2. issued \in Nat /\ events \in Nat /\ listed \in Nat /\ Cardinality(updates) \in Nat
    BY FS_CardinalityType, SchedulerAssumption
  <2> HIDE DEF TypeOK, RowOK, MemoryOK, HistoryOK
  <2> QED
    BY <1>9, <2>1, <2>2 DEF RunNow
<1>10. ASSUME NEW p \in Patches, UpdateBegin(p)
      PROVE  Counted'
  <2> DEFINE new == [prev |-> wake, patch |-> p]
  <2>1. /\ updates' = updates \cup {new} /\ events' = events + 1
        /\ UNCHANGED <<issued, phase, listed>>
    BY <1>10 DEF UpdateBegin, row
  <2>2. phase # "new"
    BY <1>10 DEF UpdateBegin
  <2> HIDE DEF new
  <2>3. IsFiniteSet(updates') /\ Cardinality(updates') \in Nat
    BY <2>1, FS_AddElement, FS_CardinalityType
  <2>4. Cardinality(updates') = Cardinality(updates) \/ Cardinality(updates') =
    Cardinality(updates) + 1
    BY <2>1, FS_AddElement
  <2>5. issued \in Nat /\ events \in Nat /\ listed \in Nat /\ Cardinality(updates) \in Nat
    BY FS_CardinalityType, SchedulerAssumption
  <2> HIDE DEF TypeOK, RowOK, MemoryOK, HistoryOK
  <2> QED
    BY <2>1, <2>2, <2>3, <2>4, <2>5
<1>11. ASSUME NEW u \in updates, UpdateStores(u)
      PROVE  Counted'
  <2>1. /\ IsFiniteSet(updates')
        /\ Cardinality(updates') = Cardinality(updates) - 1
    BY <1>11, FS_RemoveElement DEF UpdateStores, row, memory, history
  <2>2. issued \in Nat /\ events \in Nat /\ listed \in Nat /\ Cardinality(updates) \in Nat
    BY FS_CardinalityType, SchedulerAssumption
  <2> HIDE DEF TypeOK, RowOK, MemoryOK, HistoryOK
  <2> QED
    BY <1>11, <2>1, <2>2 DEF UpdateStores
<1>12. ASSUME ListDue
      PROVE  Counted'
  <2>1. /\ listed' = listed + 1 /\ events' = events + 1
        /\ UNCHANGED <<updates, issued, phase>>
    BY <1>12 DEF ListDue, row
  <2>2. issued \in Nat /\ events \in Nat /\ listed \in Nat /\ Cardinality(updates) \in Nat
    BY FS_CardinalityType, SchedulerAssumption
  <2> HIDE DEF TypeOK, RowOK, MemoryOK, HistoryOK
  <2> QED
    BY <2>1, <2>2
<1>13. ASSUME BatchRuns
      PROVE  Counted'
  BY <1>13 DEF BatchRuns, StartRun, Idle, row, memory, history
<1>14. ASSUME BatchMarks
      PROVE  Counted'
  BY <1>14 DEF BatchMarks, Idle, row, memory, history
<1>15. ASSUME BatchSkips
      PROVE  Counted'
  BY <1>15 DEF BatchSkips, row, memory, history
<1>16. ASSUME UNCHANGED vars
      PROVE  Counted'
  BY <1>16 DEF vars, row, memory, history
<1> QED
  BY <1>1, <1>2, <1>3, <1>4, <1>5, <1>6, <1>7, <1>8, <1>9, <1>10, <1>11, <1>12,
    <1>13, <1>14, <1>15, <1>16 DEF Next

\* What is written back after an await is fenced by the occurrence.
LEMMA KeyedKept ==
  ASSUME TypeOK, Single, Keyed, [Next]_vars
  PROVE  Keyed'
<1> USE DEF TypeOK, Single, Keyed, RowOK, MemoryOK, HistoryOK, Dispatches, Live, Armable
<1>1. ASSUME Add
      PROVE  Keyed'
  BY <1>1 DEF Add, row, memory, history
<1>2. ASSUME TimePasses
      PROVE  Keyed'
  BY <1>2 DEF TimePasses, row, memory, history
<1>3. ASSUME Remove
      PROVE  Keyed'
  BY <1>3 DEF Remove, row, memory, history
<1>4. ASSUME Restart
      PROVE  Keyed'
  BY <1>4 DEF Restart, row, memory, history
<1>5. ASSUME NEW w \in rows, FireStale(w)
      PROVE  Keyed'
  BY <1>5 DEF FireStale, Ready, row, memory, history
<1>6. ASSUME NEW w \in rows, FireDue(w)
      PROVE  Keyed'
  BY <1>6 DEF FireDue, StartRun, Ready, Early, Idle, row, memory, history
<1>7. ASSUME NEW a \in arms, WakeRecorded(a)
      PROVE  Keyed'
  BY <1>7 DEF WakeRecorded, row, memory, history
<1>8. ASSUME NEW d \in dispatches, NEW result \in Results,
               DispatchReturns(d, result)
      PROVE  Keyed'
  <2>1. /\ dispatches' = {} /\ UNCHANGED <<phase, kind, granted, wish, issued>>
    BY <1>8 DEF DispatchReturns
  <2>2. CASE ~Live
    <3>1. UNCHANGED <<occ, enabled, next>>
      BY <1>8, <2>2 DEF DispatchReturns
    <3> QED
      BY <2>1, <2>2, <3>1
  <2>3. CASE Live
    <3>1. FinishRow(d, result)
      BY <1>8, <2>3 DEF DispatchReturns
    <3>2. CASE Superseded(d)
      <4>1. /\ enabled' = enabled /\ (next # "null" => next' = next)
            /\ occ' \in {0, occ}
            /\ kind = "once" /\ enabled' /\ next' # "null" => occ' = occ
        BY <3>1, <3>2 DEF FinishRow, KeptOccurrence
      <4> QED
        BY <2>1, <2>3, <4>1
    <3>3. CASE ~Superseded(d)
      <4>1. /\ enabled' = Outcome(d, result).enabled
            /\ next' \in Passing(d, Outcome(d, result).next)
            /\ occ' \in {0, occ}
            /\ kind = "once" /\ enabled' /\ next' # "null" => occ' = occ
        BY <3>1, <3>3 DEF FinishRow, KeptOccurrence
      <4>2. d.occ # 0 => d.occ = occ
        BY <3>3 DEF Superseded
      <4>3. enabled' => next' # "null"
        BY <4>1 DEF Outcome, Passing
      <4>4. kind = "once" /\ enabled' => d.occ # 0
        <5>1. CASE d.mode = "force"
          BY <4>1, <5>1 DEF Outcome
        <5>2. CASE d.mode = "due"
          BY <5>2 DEF Occs
        <5> QED
          BY <5>1, <5>2
      <4> QED
        BY <2>1, <2>3, <4>1, <4>2, <4>3, <4>4
    <3> QED
      BY <3>2, <3>3
  <2> QED
    BY <2>2, <2>3
<1>9. ASSUME NEW mode \in {"due", "force"}, RunNow(mode)
      PROVE  Keyed'
  BY <1>9 DEF RunNow, StartRun, Idle, row, memory, history
<1>10. ASSUME NEW p \in Patches, UpdateBegin(p)
      PROVE  Keyed'
  BY <1>10 DEF UpdateBegin, row, memory, history
<1>11. ASSUME NEW u \in updates, UpdateStores(u)
      PROVE  Keyed'
  <2>1. UNCHANGED <<phase, kind, dispatches>>
    BY <1>11 DEF UpdateStores
  <2>2. CASE ~Live
    <3>1. UNCHANGED <<occ, enabled, next, issued, granted, wish>>
      BY <1>11, <2>2 DEF UpdateStores
    <3> QED
      BY <2>1, <2>2, <3>1
  <2>3. CASE Live
    <3> DEFINE on == u.patch = "enable" \/ (enabled /\ u.patch # "disable")
               at == IF ~on THEN "null" ELSE IF u.patch = "rename" THEN next ELSE "future"
               armed == kind = "once" /\ on /\ at # "null"
    <3>1. /\ enabled' = on /\ next' = at
          /\ occ' = IF armed THEN issued + 1 ELSE 0
          /\ issued' = IF armed THEN issued + 1 ELSE issued
          /\ granted' = IF armed THEN granted \cup {issued + 1} ELSE granted
          /\ wish' = (u.patch = "enable" \/ (wish /\ u.patch # "disable"))
      BY <1>11, <2>3 DEF UpdateStores
    <3>2. on => at # "null"
      BY <2>3
    <3>3. kind = "once" /\ enabled => wish
      BY <2>3
    <3>4. issued \in Nat /\ granted \subseteq granted'
      BY <3>1
    <3>5. enabled' => next' # "null"
      BY <3>1, <3>2
    <3>6. kind = "once" => /\ occ' # 0 => occ' \in granted' /\ wish'
                           /\ enabled' => occ' # 0
      <4> SUFFICES ASSUME kind = "once"
                   PROVE  /\ occ' # 0 => occ' \in granted' /\ wish'
                          /\ enabled' => occ' # 0
        OBVIOUS
      <4>1. CASE on
        <5>1. armed /\ wish'
          BY <3>1, <3>2, <3>3, <4>1
        <5>2. occ' = issued + 1 /\ occ' \in granted' /\ occ' # 0
          BY <3>1, <3>4, <5>1
        <5> QED
          BY <5>1, <5>2
      <4>2. CASE ~on
        BY <3>1, <4>2
      <4> QED
        BY <4>1, <4>2
    <3>7. \A d \in dispatches : d.occ <= issued => d.occ <= issued'
      BY <3>1, <3>4 DEF Occs
    <3>8. kind # "once" => occ' = 0
      BY <3>1
    <3> HIDE DEF on, at, armed
    <3> QED
      BY <2>1, <3>4, <3>5, <3>6, <3>7, <3>8
  <2> QED
    BY <2>2, <2>3
<1>12. ASSUME ListDue
      PROVE  Keyed'
  BY <1>12 DEF ListDue, row, memory, history
<1>13. ASSUME BatchRuns
      PROVE  Keyed'
  BY <1>13 DEF BatchRuns, StartRun, Idle, row, memory, history
<1>14. ASSUME BatchMarks
      PROVE  Keyed'
  BY <1>14 DEF BatchMarks, Idle, row, memory, history
<1>15. ASSUME BatchSkips
      PROVE  Keyed'
  BY <1>15 DEF BatchSkips, row, memory, history
<1>16. ASSUME UNCHANGED vars
      PROVE  Keyed'
  BY <1>16 DEF vars, row, memory, history
<1> QED
  BY <1>1, <1>2, <1>3, <1>4, <1>5, <1>6, <1>7, <1>8, <1>9, <1>10, <1>11, <1>12,
    <1>13, <1>14, <1>15, <1>16 DEF Next

\* A due run that ends is counted once.
LEMMA TriedKept ==
  ASSUME TypeOK, Single, Keyed, Tried, [Next]_vars
  PROVE  Tried'
<1> USE SchedulerAssumption DEF TypeOK, Single, Keyed, Tried, RowOK, MemoryOK, HistoryOK,
  Dispatches, Live, Armable, Working
<1>1. ASSUME Add
      PROVE  Tried'
  <2>1. tries' = 0 /\ attempts' = attempts /\ UNCHANGED <<dispatches, running>>
    BY <1>1 DEF Add
  <2>2. dispatches = {} /\ attempts = 0
    BY <1>1 DEF Add
  <2> QED
    BY <2>1, <2>2
<1>2. ASSUME TimePasses
      PROVE  Tried'
  BY <1>2 DEF TimePasses, row, memory, history
<1>3. ASSUME Remove
      PROVE  Tried'
  BY <1>3 DEF Remove, row, memory, history
<1>4. ASSUME Restart
      PROVE  Tried'
  <2>1. /\ dispatches' = {} /\ UNCHANGED <<running, occ, tries, attempts, kind, phase>>
    BY <1>4 DEF Restart, row
  <2>2. CASE Working \/ (running /\ dispatches = {})
    BY <2>1, <2>2
  <2>3. CASE ~(Working \/ (running /\ dispatches = {}))
    BY <2>1, <2>3
  <2> QED
    BY <2>2, <2>3
<1>5. ASSUME NEW w \in rows, FireStale(w)
      PROVE  Tried'
  BY <1>5 DEF FireStale, Ready, row, memory, history
<1>6. ASSUME NEW w \in rows, FireDue(w)
      PROVE  Tried'
  BY <1>6 DEF FireDue, StartRun, Ready, Early, Idle, row, memory, history
<1>7. ASSUME NEW a \in arms, WakeRecorded(a)
      PROVE  Tried'
  BY <1>7 DEF WakeRecorded, row, memory, history
<1>8. ASSUME NEW d \in dispatches, NEW result \in Results,
               DispatchReturns(d, result)
      PROVE  Tried'
  <2>1. dispatches' = {} /\ running /\ UNCHANGED <<attempts, kind, phase>>
    BY <1>8 DEF DispatchReturns
  <2>2. CASE ~Live
    <3>1. UNCHANGED <<occ, tries, running>>
      BY <1>8, <2>2 DEF DispatchReturns
    <3> QED
      BY <2>1, <3>1
  <2>3. CASE Live /\ kind = "once" /\ occ' # 0
    <3>1. FinishRow(d, result) /\ running' = FALSE
      BY <1>8, <2>3 DEF DispatchReturns
    <3>2. /\ occ' = occ /\ occ # 0 /\ enabled' /\ next' # "null" /\ tries' = CountedTries(d)
      BY <2>3, <3>1 DEF FinishRow, KeptOccurrence
    <3>3. CASE d.mode = "due" /\ d.occ = occ
      <4>1. enabled' = Outcome(d, result).enabled
        BY <3>1, <3>3 DEF FinishRow, Superseded
      <4>2. d.try < MaxAttempts
        BY <2>3, <3>2, <3>3, <4>1 DEF Outcome
      <4>3. d.try = tries + 1 /\ tries' = tries + 1
        BY <2>3, <3>2, <3>3 DEF CountedTries
      <4>4. tries \in Nat /\ attempts \in Nat /\ attempts <= tries + 1
        BY <2>3, <3>2
      <4> HIDE DEF TypeOK, Tried
      <4> QED
        BY <2>1, <3>1, <3>2, <4>2, <4>3, <4>4 DEF Tried
    <3>4. CASE ~(d.mode = "due" /\ d.occ = occ)
      <4>1. tries' = tries /\ ~Working
        BY <3>2, <3>4 DEF CountedTries
      <4> QED
        BY <2>1, <2>3, <3>1, <3>2, <4>1
    <3> QED
      BY <3>3, <3>4
  <2>4. CASE Live /\ ~(kind = "once" /\ occ' # 0)
    BY <2>1, <2>4
  <2> QED
    BY <2>2, <2>3, <2>4
<1>9. ASSUME NEW mode \in {"due", "force"}, RunNow(mode)
      PROVE  Tried'
  BY <1>9 DEF RunNow, StartRun, Idle, row, memory, history
<1>10. ASSUME NEW p \in Patches, UpdateBegin(p)
      PROVE  Tried'
  BY <1>10 DEF UpdateBegin, row, memory, history
<1>11. ASSUME NEW u \in updates, UpdateStores(u)
      PROVE  Tried'
  BY <1>11 DEF UpdateStores, row, memory, history
<1>12. ASSUME ListDue
      PROVE  Tried'
  BY <1>12 DEF ListDue, row, memory, history
<1>13. ASSUME BatchRuns
      PROVE  Tried'
  <2>1. StartRun("due", 0) /\ UNCHANGED <<phase, kind>>
    BY <1>13 DEF BatchRuns
  <2> QED
    BY <2>1 DEF StartRun, Idle
<1>14. ASSUME BatchMarks
      PROVE  Tried'
  BY <1>14 DEF BatchMarks, Idle, row, memory, history
<1>15. ASSUME BatchSkips
      PROVE  Tried'
  BY <1>15 DEF BatchSkips, row, memory, history
<1>16. ASSUME UNCHANGED vars
      PROVE  Tried'
  BY <1>16 DEF vars, row, memory, history
<1> QED
  BY <1>1, <1>2, <1>3, <1>4, <1>5, <1>6, <1>7, <1>8, <1>9, <1>10, <1>11, <1>12,
    <1>13, <1>14, <1>15, <1>16 DEF Next

\* No further attempt is made once the count is full.
LEMMA AttemptsBoundedKept ==
  ASSUME TypeOK, Single, Keyed, Tried, AttemptsBounded, [Next]_vars
  PROVE  AttemptsBounded'
<1> USE SchedulerAssumption DEF TypeOK, Single, Keyed, Tried, AttemptsBounded, RowOK, MemoryOK,
  HistoryOK, Dispatches, Live, Armable, Working
<1>1. ASSUME Add
      PROVE  AttemptsBounded'
  BY <1>1 DEF Add, row, memory, history
<1>2. ASSUME TimePasses
      PROVE  AttemptsBounded'
  BY <1>2 DEF TimePasses, row, memory, history
<1>3. ASSUME Remove
      PROVE  AttemptsBounded'
  BY <1>3 DEF Remove, row, memory, history
<1>4. ASSUME Restart
      PROVE  AttemptsBounded'
  BY <1>4 DEF Restart, row, memory, history
<1>5. ASSUME NEW w \in rows, FireStale(w)
      PROVE  AttemptsBounded'
  BY <1>5 DEF FireStale, Ready, row, memory, history
<1>6. ASSUME NEW w \in rows, FireDue(w)
      PROVE  AttemptsBounded'
  BY <1>6 DEF FireDue, StartRun, Ready, Early, Idle, row, memory, history
<1>7. ASSUME NEW a \in arms, WakeRecorded(a)
      PROVE  AttemptsBounded'
  BY <1>7 DEF WakeRecorded, row, memory, history
<1>8. ASSUME NEW d \in dispatches, NEW result \in Results,
               DispatchReturns(d, result)
      PROVE  AttemptsBounded'
  BY <1>8 DEF DispatchReturns, FinishRow, Superseded, Outcome, Passing, CountedTries,
    KeptOccurrence, Settled, row, memory, history
<1>9. ASSUME NEW mode \in {"due", "force"}, RunNow(mode)
      PROVE  AttemptsBounded'
  BY <1>9 DEF RunNow, StartRun, Idle, row, memory, history
<1>10. ASSUME NEW p \in Patches, UpdateBegin(p)
      PROVE  AttemptsBounded'
  BY <1>10 DEF UpdateBegin, row, memory, history
<1>11. ASSUME NEW u \in updates, UpdateStores(u)
      PROVE  AttemptsBounded'
  BY <1>11 DEF UpdateStores, row, memory, history
<1>12. ASSUME ListDue
      PROVE  AttemptsBounded'
  BY <1>12 DEF ListDue, row, memory, history
<1>13. ASSUME BatchRuns
      PROVE  AttemptsBounded'
  BY <1>13 DEF BatchRuns, StartRun, Idle, row, memory, history
<1>14. ASSUME BatchMarks
      PROVE  AttemptsBounded'
  BY <1>14 DEF BatchMarks, Idle, row, memory, history
<1>15. ASSUME BatchSkips
      PROVE  AttemptsBounded'
  BY <1>15 DEF BatchSkips, row, memory, history
<1>16. ASSUME UNCHANGED vars
      PROVE  AttemptsBounded'
  BY <1>16 DEF vars, row, memory, history
<1> QED
  BY <1>1, <1>2, <1>3, <1>4, <1>5, <1>6, <1>7, <1>8, <1>9, <1>10, <1>11, <1>12,
    <1>13, <1>14, <1>15, <1>16 DEF Next

\* The ids in use stay apart.
LEMMA WakedKept ==
  ASSUME TypeOK, Single, Waked, [Next]_vars
  PROVE  Waked'
<1> USE DEF TypeOK, Single, Waked, RowOK, MemoryOK, HistoryOK, Dispatches, Live, Armable
<1>1. ASSUME Add
      PROVE  Waked'
  <2>1. Arm(rows, 0) /\ UNCHANGED <<wake, dispatches, updates>>
    BY <1>1 DEF Add
  <2>2. \A a \in arms : a.id \in rows \ {0}
    OBVIOUS
  <2>3. 0 \in {0, wake} \cup {d.via : d \in dispatches}
    OBVIOUS
  <2>4. \A a \in arms' : /\ a.id \in rows' \ {0, wake, a.via}
                         /\ \A b \in arms' : a.id # b.via /\ (a.id = b.id => a = b)
                         /\ \A x \in dispatches : a.id # x.via
                         /\ \A y \in updates : a.id # y.prev
    BY <2>1, <2>2, <2>3, ArmApart
  <2> HIDE DEF TypeOK, RowOK, MemoryOK, HistoryOK, Dispatches, Single, Live, Armable
  <2>5. wake' = wake /\ dispatches' = dispatches /\ updates' = updates
    BY <2>1
  <2> QED
    BY <2>4, <2>5
<1>2. ASSUME TimePasses
      PROVE  Waked'
  BY <1>2 DEF TimePasses, row, memory, history
<1>3. ASSUME Remove
      PROVE  Waked'
  BY <1>3 DEF Remove, row, memory, history
<1>4. ASSUME Restart
      PROVE  Waked'
  BY <1>4 DEF Restart, row, memory, history
<1>5. ASSUME NEW w \in rows, FireStale(w)
      PROVE  Waked'
  BY <1>5 DEF FireStale, Ready, row, memory, history
<1>6. ASSUME NEW w \in rows, FireDue(w)
      PROVE  Waked'
  <2>1. CASE enabled /\ next = "due" /\ Idle
    <3> DEFINE key == IF kind = "once" /\ Armable THEN occ ELSE 0
               new == [mode |-> "due", via |-> w, enabled |-> enabled, next |-> next,
                       occ |-> key, try |-> tries + 1]
    <3>1. /\ dispatches' = dispatches \cup {new} /\ new.via = w /\ new.mode = "due"
          /\ UNCHANGED <<rows, arms, updates, wake>>
      BY <1>6, <2>1 DEF FireDue, StartRun
    <3>2. \A a \in arms : a.id # w
      BY <1>6 DEF FireDue, Ready
    <3> HIDE DEF new
    <3> QED
      BY <3>1, <3>2
  <2>2. CASE ~(enabled /\ next = "due" /\ Idle) /\ Early
    <3>1. Arm(rows, w) /\ UNCHANGED <<wake, dispatches, updates>> /\ w = wake
      BY <1>6, <2>2 DEF FireDue
    <3>2. \A a \in arms : a.id \in rows \ {w}
      BY <3>1
    <3>3. \A a \in arms' : /\ a.id \in rows' \ {0, wake, a.via}
                           /\ \A b \in arms' : a.id # b.via /\ (a.id = b.id => a = b)
                           /\ \A x \in dispatches : a.id # x.via
                           /\ \A y \in updates : a.id # y.prev
      BY <3>1, <3>2, ArmApart
    <3> HIDE DEF TypeOK, RowOK, MemoryOK, HistoryOK, Dispatches, Single, Live, Armable
    <3>4. wake' = wake /\ dispatches' = dispatches /\ updates' = updates
      BY <3>1
    <3> QED
      BY <3>3, <3>4
  <2>3. CASE ~(enabled /\ next = "due" /\ Idle) /\ ~Early
    BY <1>6, <2>3 DEF FireDue
  <2> QED
    BY <2>1, <2>2, <2>3
<1>7. ASSUME NEW a \in arms, WakeRecorded(a)
      PROVE  Waked'
  BY <1>7 DEF WakeRecorded, row, memory, history
<1>8. ASSUME NEW d \in dispatches, NEW result \in Results,
               DispatchReturns(d, result)
      PROVE  Waked'
  <2>1. CASE Arm(rows, d.via) /\ UNCHANGED wake
    <3>1. \A a \in arms : a.id \in rows \ {d.via}
      OBVIOUS
    <3>2. d.via \in {0, wake} \cup {x.via : x \in dispatches}
      OBVIOUS
    <3>3. dispatches' \subseteq dispatches /\ UNCHANGED updates
      BY <1>8 DEF DispatchReturns
    <3> QED
      BY <2>1, <3>1, <3>2, <3>3, ArmApart
  <2>2. CASE ~(Arm(rows, d.via) /\ UNCHANGED wake)
    <3>1. /\ wake' \in {wake, 0} /\ rows' = rows \ {d.via} /\ dispatches' = dispatches \ {d}
          /\ UNCHANGED <<arms, updates>>
      BY <1>8, <2>2 DEF DispatchReturns, Settled
    <3> QED
      BY <3>1
  <2> QED
    BY <2>1, <2>2
<1>9. ASSUME NEW mode \in {"due", "force"}, RunNow(mode)
      PROVE  Waked'
  BY <1>9 DEF RunNow, StartRun, Idle, row, memory, history
<1>10. ASSUME NEW p \in Patches, UpdateBegin(p)
      PROVE  Waked'
  BY <1>10 DEF UpdateBegin, row, memory, history
<1>11. ASSUME NEW u \in updates, UpdateStores(u)
      PROVE  Waked'
  <2> DEFINE others == rows \ {u.prev}
  <2>0. UNCHANGED dispatches /\ updates' \subseteq updates
    BY <1>11 DEF UpdateStores
  <2>1. CASE Arm(others, 0) /\ UNCHANGED wake
    <3>1. \A a \in arms : a.id \in others \ {0}
      OBVIOUS
    <3>2. 0 \in {0, wake} \cup {x.via : x \in dispatches}
      OBVIOUS
    <3>3. \A a \in arms' : /\ a.id \in rows' \ {0, wake, a.via}
                           /\ \A b \in arms' : a.id # b.via /\ (a.id = b.id => a = b)
                           /\ \A x \in dispatches : a.id # x.via
                           /\ \A y \in updates : a.id # y.prev
      <4> HIDE DEF others
      <4> QED
        BY <2>1, <3>1, <3>2, ArmApart
    <3> HIDE DEF TypeOK, RowOK, MemoryOK, HistoryOK, Dispatches, Single, Live, Armable
    <3>4. wake' = wake /\ dispatches' = dispatches
      BY <2>0, <2>1
    <3> QED
      BY <2>0, <3>3, <3>4
  <2>2. CASE ~(Arm(others, 0) /\ UNCHANGED wake)
    <3>1. wake' \in {wake, 0} /\ rows' = others /\ UNCHANGED arms
      BY <1>11, <2>2 DEF UpdateStores
    <3> QED
      BY <2>0, <3>1
  <2> QED
    BY <2>1, <2>2
<1>12. ASSUME ListDue
      PROVE  Waked'
  BY <1>12 DEF ListDue, row, memory, history
<1>13. ASSUME BatchRuns
      PROVE  Waked'
  BY <1>13 DEF BatchRuns, StartRun, Idle, row, memory, history
<1>14. ASSUME BatchMarks
      PROVE  Waked'
  BY <1>14 DEF BatchMarks, Idle, row, memory, history
<1>15. ASSUME BatchSkips
      PROVE  Waked'
  BY <1>15 DEF BatchSkips, row, memory, history
<1>16. ASSUME UNCHANGED vars
      PROVE  Waked'
  BY <1>16 DEF vars, row, memory, history
<1> QED
  BY <1>1, <1>2, <1>3, <1>4, <1>5, <1>6, <1>7, <1>8, <1>9, <1>10, <1>11, <1>12,
    <1>13, <1>14, <1>15, <1>16 DEF Next

\* Whatever uses up a wake arms the next.
LEMMA ArmedKept ==
  ASSUME TypeOK, Single, Keyed, Waked, Armed, [Next]_vars
  PROVE  Armed'
<1> USE DEF TypeOK, Single, Keyed, Waked, Armed, RowOK, MemoryOK, HistoryOK, Dispatches, Live,
  Armable
<1>1. ASSUME Add
      PROVE  Armed'
  <2>1. arms' # {}
    <3>1. Arm(rows, 0)
      BY <1>1 DEF Add
    <3> QED
      BY <3>1, ArmAdds
  <2> QED
    BY <2>1
<1>2. ASSUME TimePasses
      PROVE  Armed'
  BY <1>2 DEF TimePasses, row, memory, history
<1>3. ASSUME Remove
      PROVE  Armed'
  BY <1>3 DEF Remove, row, memory, history
<1>4. ASSUME Restart
      PROVE  Armed'
  BY <1>4 DEF Restart, row, memory, history
<1>5. ASSUME NEW w \in rows, FireStale(w)
      PROVE  Armed'
  BY <1>5 DEF FireStale, Ready, row, memory, history
<1>6. ASSUME NEW w \in rows, FireDue(w)
      PROVE  Armed'
  <2>1. CASE enabled /\ next = "due" /\ Idle
    <3>1. \E d \in dispatches' : d.mode = "due"
      <4>1. StartRun("due", w)
        BY <1>6, <2>1 DEF FireDue
      <4> QED
        BY <4>1, StartAdds
    <3> QED
      BY <3>1
  <2>2. CASE ~(enabled /\ next = "due" /\ Idle) /\ Early
    <3>1. arms' # {}
      <4>1. Arm(rows, w)
        BY <1>6, <2>2 DEF FireDue
      <4> QED
        BY <4>1, ArmAdds
    <3> QED
      BY <3>1
  <2>3. CASE ~(enabled /\ next = "due" /\ Idle) /\ ~Early
    BY <1>6, <2>3 DEF FireDue, Early, Idle
  <2> QED
    BY <2>1, <2>2, <2>3
<1>7. ASSUME NEW a \in arms, WakeRecorded(a)
      PROVE  Armed'
  BY <1>7 DEF WakeRecorded, row, memory, history
<1>8. ASSUME NEW d \in dispatches, NEW result \in Results,
               DispatchReturns(d, result)
      PROVE  Armed'
  <2>1. CASE Arm(rows, d.via)
    <3>1. arms' # {}
      BY <2>1, ArmAdds
    <3> QED
      BY <3>1
  <2>2. CASE ~Arm(rows, d.via) /\ Live
    <3>1. /\ rows' = rows \ {d.via} /\ UNCHANGED <<arms, updates, phase>>
          /\ wake' = IF enabled' THEN wake ELSE 0
          /\ cut \subseteq cut' /\ (cut' = {} /\ d.mode = "force" /\ enabled' => enabled)
          /\ ~(enabled' /\ next' # "null" /\ d.mode = "due")
      BY <1>8, <2>2 DEF DispatchReturns, Settled
    <3>2. d.mode \in {"due", "force"} /\ (d.mode = "force" => d.via = 0) /\ 0 \notin rows
      BY DEF Wakes
    <3>3. \A x \in dispatches : x = d
      OBVIOUS
    <3> QED
      BY <2>2, <3>1, <3>2, <3>3
  <2>3. CASE ~Live
    BY <1>8, <2>3 DEF DispatchReturns
  <2> QED
    BY <2>1, <2>2, <2>3
<1>9. ASSUME NEW mode \in {"due", "force"}, RunNow(mode)
      PROVE  Armed'
  BY <1>9 DEF RunNow, StartRun, Idle, row, memory, history
<1>10. ASSUME NEW p \in Patches, UpdateBegin(p)
      PROVE  Armed'
  BY <1>10 DEF UpdateBegin, row, memory, history
<1>11. ASSUME NEW u \in updates, UpdateStores(u)
      PROVE  Armed'
  <2> DEFINE others == rows \ {u.prev}
  <2>1. CASE Arm(others, 0)
    <3>1. arms' # {}
      BY <2>1, ArmAdds
    <3> QED
      BY <3>1
  <2>2. CASE ~Arm(others, 0)
    BY <1>11, <2>2 DEF UpdateStores
  <2> QED
    BY <2>1, <2>2
<1>12. ASSUME ListDue
      PROVE  Armed'
  BY <1>12 DEF ListDue, row, memory, history
<1>13. ASSUME BatchRuns
      PROVE  Armed'
  BY <1>13 DEF BatchRuns, StartRun, Idle, row, memory, history
<1>14. ASSUME BatchMarks
      PROVE  Armed'
  BY <1>14 DEF BatchMarks, Idle, row, memory, history
<1>15. ASSUME BatchSkips
      PROVE  Armed'
  BY <1>15 DEF BatchSkips, row, memory, history
<1>16. ASSUME UNCHANGED vars
      PROVE  Armed'
  BY <1>16 DEF vars, row, memory, history
<1> QED
  BY <1>1, <1>2, <1>3, <1>4, <1>5, <1>6, <1>7, <1>8, <1>9, <1>10, <1>11, <1>12,
    <1>13, <1>14, <1>15, <1>16 DEF Next

-----------------------------------------------------------------------------
LEMMA IInvInit == Init => IInv
<1> SUFFICES ASSUME Init PROVE IInv
  OBVIOUS
<1> USE DEF Init
<1>1. 0 \in 0 .. MaxAttempts /\ 0 \in 0 .. MaxEvents /\ 0 \in 0 .. 1 + MaxEvents
  <2> HIDE DEF Init
  <2> QED
    BY SchedulerAssumption
<1>2. RowOK
  <2>1. occ \in 0 .. issued
    OBVIOUS
  <2>2. phase \in {"new", "live", "removed"} /\ next \in {"null", "future", "due"}
    OBVIOUS
  <2>3. enabled \in BOOLEAN /\ running \in BOOLEAN /\ kind \in Kinds
    OBVIOUS
  <2>4. tries \in 0 .. MaxAttempts /\ wake \in Wakes \cup {0}
    BY <1>1
  <2> HIDE DEF Init
  <2> QED
    BY <2>1, <2>2, <2>3, <2>4 DEF RowOK
<1>3. MemoryOK
  BY <1>1 DEF MemoryOK
<1>4. HistoryOK
  BY <1>1 DEF HistoryOK
<1>5. Single /\ Keyed
  BY DEF Single, Keyed, Live
<1>6. Counted
  BY FS_EmptySet DEF Counted
<1>7. Tried /\ Waked
  BY DEF Tried, Waked
<1>8. AttemptsBounded /\ Armed
  BY SchedulerAssumption DEF AttemptsBounded, Armed, Live
<1> HIDE DEF Init
<1> QED
  BY <1>2, <1>3, <1>4, <1>5, <1>6, <1>7, <1>8 DEF IInv, TypeOK

LEMMA IInvNext == IInv /\ [Next]_vars => IInv'
  BY TypeOKKept, SingleKept, CountedKept, KeyedKept, TriedKept, AttemptsBoundedKept,
    WakedKept, ArmedKept DEF IInv

LEMMA IInvAlways == Spec => []IInv
<1>1. Init => IInv
  BY IInvInit
<1>2. IInv /\ [Next]_vars => IInv'
  BY IInvNext
<1> QED
  BY <1>1, <1>2, PTL DEF Spec

\* Every variable of the schedule and its handlers keeps its type.
THEOREM TypesHold == Spec => []TypeOK
<1>1. IInv => TypeOK
  BY DEF IInv
<1> QED
  BY <1>1, IInvAlways, PTL

\* markRunning refuses a schedule that is marked, and the mark outlives every
\* update: there is one run at a time. A mark without a run is left by a restart, or
\* by a batch that marks a one-shot on the word of an old record.
THEOREM OneRunAtATimeHolds == Spec => []OneRunAtATime
<1>1. IInv => OneRunAtATime
  <2> SUFFICES ASSUME IInv PROVE OneRunAtATime
    OBVIOUS
  <2>1. Cardinality(dispatches) <= 1
    <3>1. CASE dispatches = {}
      BY <3>1, FS_EmptySet
    <3>2. CASE dispatches # {}
      <4>1. PICK d \in dispatches : dispatches = {d}
        BY <3>2 DEF IInv, Single
      <4> QED
        BY <4>1, FS_Singleton
    <3> QED
      BY <3>1, <3>2
  <2> QED
    BY <2>1 DEF IInv, Single, OneRunAtATime
<1> QED
  BY <1>1, IInvAlways, PTL

\* finishRun keeps the occurrence of a one-shot that stays armed and a force run has
\* none: every due attempt presents a key that the add or an update gave it.
THEOREM RetriesKeepTheKeyHolds == Spec => []RetriesKeepTheKey
<1>1. IInv => RetriesKeepTheKey
  BY DEF IInv, Keyed, RetriesKeepTheKey
<1> QED
  BY <1>1, IInvAlways, PTL

\* finishRun counts every attempt at the stored occurrence, and a mark that a
\* restart left behind admits no further one.
THEOREM AttemptsBoundedHolds == Spec => []AttemptsBounded
<1>1. IInv => AttemptsBounded
  BY DEF IInv
<1> QED
  BY <1>1, IInvAlways, PTL

\* finishRun of a one-shot writes back what its run computed only while its
\* occurrence is the stored one, which a disabling update has deleted.
THEOREM DisabledStaysHolds == Spec => []DisabledStays
<1>1. IInv => DisabledStays
  BY DEF IInv, Keyed, DisabledStays
<1> QED
  BY <1>1, IInvAlways, PTL

\* onScheduleDue, a due run and sched.update arm what they leave enabled before
\* anything else can use up the recorded wake; a restart, a force run and the mark
\* that such a batch leaves behind are the three exceptions.
THEOREM ArmedHolds == Spec => []Armed
<1>1. IInv => Armed
  BY DEF IInv
<1> QED
  BY <1>1, IInvAlways, PTL

=============================================================================

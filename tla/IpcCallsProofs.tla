--------------------------- MODULE IpcCallsProofs ---------------------------
(***************************************************************************)
(* Proofs about IpcCalls, for every set of calls and every bound: a source *)
(* hears one verdict of a call, a repetition has a cause, no call is       *)
(* forgotten, and the abort of a source run silences its calls.            *)
(*                                                                         *)
(* The invariant IInv says what a row, its claim and its deliveries tell   *)
(* of one another. Young: a row is created once. Judged: a verdict is      *)
(* never taken back. Exclusive: a claim is one delivery. Counted: what was *)
(* heard against what failed. Kept: a row goes with its signal.            *)
(***************************************************************************)
EXTENDS IpcCalls, FiniteSetTheorems, TLAPS

\* A call that was not made yet has left no trace, and a pending one no claim.
Young ==
  \A c \in Calls :
    /\ handler[c] = "new" =>
         /\ row[c] = "none" /\ heard[c] = {} /\ signals[c] = 0
         /\ ~claimed[c] /\ c \notin cancelled
         /\ \A f \in flights : f.call # c
    /\ row[c] = "pending" => ~claimed[c]
    /\ handler[c] # "done" => told[c] = "none"

\* Rows, deliveries and what was heard agree on the verdict of a call.
Judged ==
  /\ \A c \in Calls :
       /\ row[c] = "pending" => heard[c] = {} /\ \A f \in flights : f.call # c
       /\ row[c] \in Terminal => heard[c] \subseteq {row[c]}
       /\ \A v, w \in heard[c] : v = w
  /\ \A f \in flights :
       /\ row[f.call] \in Terminal => f.kind = row[f.call]
       /\ heard[f.call] \subseteq {f.kind}
       /\ \A g \in flights : f.call = g.call => f.kind = g.kind

\* A row is claimed exactly while one delivery of it is in progress, and the
\* alarm runs one callback, of a row that it still has.
Exclusive ==
  /\ \A f, g \in flights :
       f.call = g.call /\ f.at # "again" /\ g.at # "again" => f = g
  /\ \A f \in flights : f.at # "again" /\ row[f.call] \in Terminal => claimed[f.call]
  /\ \A c \in Calls : row[c] \in Terminal /\ claimed[c] =>
       \E f \in flights : f.call = c /\ f.at # "again"
  /\ \A f \in flights : f.via = "job" => jobs[f.call] >= 1
  /\ \A f, g \in flights : f.via = "job" /\ g.via = "job" => f = g

\* A delivery that may still be heard starts with every signal accounted for.
Counted ==
  /\ \A c \in Calls :
       /\ signals[c] <= 1 + troubles[c]
       /\ row[c] = "pending" => signals[c] <= troubles[c]
       /\ row[c] \in Terminal /\ ~claimed[c] => signals[c] <= troubles[c]
  /\ \A f \in flights : f.at = "out" => signals[f.call] <= troubles[f.call]

\* A cancelled call has no row.
Silenced == \A c \in cancelled : row[c] = "none"

\* A call whose caller was not told of an error has its row until it was heard.
Kept ==
  /\ \A c \in Calls :
       handler[c] \in {"arming", "sending"} \/ told[c] \in {"started", "late"} =>
         row[c] # "none" \/ heard[c] # {} \/ c \in cancelled
  /\ \A f \in flights : f.at = "arrived" => heard[f.call] # {}

IInv == TypeOK /\ Young /\ Judged /\ Exclusive /\ Counted /\ Pursued /\ Silenced /\ Kept

\* Something under way will bring the result of the call to its source.
Underway(c) ==
  \/ row[c] = "pending" /\ c \in timers
  \/ /\ row[c] \in Terminal
     /\ c \in queued \/ jobs[c] > 0 \/ \E f \in flights : f.call = c

\* Whoever was told that a call has started was told its result, or will be, or has
\* been aborted, or its direct delivery was refused the retry.
StartedPursued ==
  \A c \in Calls :
    told[c] = "started" => heard[c] # {} \/ c \in cancelled \cup stranded \/ Underway(c)

-----------------------------------------------------------------------------
\* Every step keeps the types.
LEMMA TypeOKKept ==
  ASSUME TypeOK, Exclusive, [Next]_vars
  PROVE  TypeOK'
<1> USE IpcAssumption DEF TypeOK, Exclusive, Terminal, Flights
<1>1. ASSUME NEW c \in Calls, Create(c)
      PROVE  TypeOK'
  BY <1>1 DEF Create, durable, memory, history
<1>2. ASSUME NEW c \in Calls, TimerStored(c)
      PROVE  TypeOK'
  BY <1>2 DEF TimerStored, durable, memory, history
<1>3. ASSUME NEW c \in Calls, TimerRefused(c)
      PROVE  TypeOK'
  BY <1>3 DEF TimerRefused, Answer, Fault, durable, memory, history
<1>4. ASSUME NEW c \in Calls, TargetAdmits(c)
      PROVE  TypeOK'
  BY <1>4 DEF TargetAdmits, durable, memory, history
<1>5. ASSUME NEW c \in Calls, TargetRefuses(c)
      PROVE  TypeOK'
  BY <1>5 DEF TargetRefuses, Answer, durable, memory, history
<1>6. ASSUME NEW c \in Calls, SendAnswered(c)
      PROVE  TypeOK'
  BY <1>6 DEF SendAnswered, Answer, durable, memory, history
<1>7. ASSUME NEW c \in Calls, SendThrows(c)
      PROVE  TypeOK'
  BY <1>7 DEF SendThrows, Answer, Fault, durable, memory, history
<1>8. ASSUME NEW c \in Calls, DeadlinePasses(c)
      PROVE  TypeOK'
  BY <1>8 DEF DeadlinePasses, durable, memory, history
<1>9. ASSUME NEW c \in Calls, TargetFinishes(c)
      PROVE  TypeOK'
  BY <1>9 DEF TargetFinishes, Conclude, Open, durable, memory, history
<1>10. ASSUME NEW c \in Calls, TimeoutFires(c)
      PROVE  TypeOK'
  BY <1>10 DEF TimeoutFires, Conclude, Open, AlarmFree, durable, memory, history
<1>11. ASSUME NEW c \in Calls, DeliveryStored(c)
      PROVE  TypeOK'
  BY <1>11 DEF DeliveryStored, durable, memory, history
<1>12. ASSUME NEW c \in Calls, DeliveryRefused(c)
      PROVE  TypeOK'
  <2>1. CASE Claimable(c)
    <3>1. [call |-> c, via |-> "direct", kind |-> row[c], at |-> "out"] \in Flights
      BY <2>1 DEF Claimable
    <3>2. flights' \subseteq Flights
      BY <1>12, <2>1, <3>1 DEF DeliveryRefused, Claim, Claimable, Fault, durable, memory, history
    <3>3. faults' \in 0 .. MaxFaults
      BY <1>12 DEF DeliveryRefused, Claim, Claimable, Fault, durable, memory, history
    <3>4. claimed' \in [Calls -> BOOLEAN]
      BY <1>12, <2>1 DEF DeliveryRefused, Claim, Claimable, Fault, durable, memory, history
    <3> QED
      BY <1>12, <3>2, <3>3, <3>4 DEF DeliveryRefused, Claim, Claimable, Fault, durable,
        memory, history
  <2>2. CASE ~Claimable(c)
    BY <1>12, <2>2 DEF DeliveryRefused, Claim, Claimable, Fault, durable, memory, history
  <2> QED
    BY <2>1, <2>2
<1>13. ASSUME NEW c \in Calls, JobFires(c)
      PROVE  TypeOK'
  <2>1. CASE Claimable(c)
    <3>1. [call |-> c, via |-> "job", kind |-> row[c], at |-> "out"] \in Flights
      BY <2>1 DEF Claimable
    <3>2. flights' \subseteq Flights
      BY <1>13, <2>1, <3>1 DEF JobFires, Claim, Claimable, AlarmFree, durable, memory, history
    <3>3. claimed' = [claimed EXCEPT ![c] = TRUE]
      BY <1>13, <2>1, Zenon DEF JobFires, Claim
    <3>4. claimed \in [Calls -> BOOLEAN]
      OBVIOUS
    <3>5. claimed' \in [Calls -> BOOLEAN]
      BY <3>3, <3>4, Zenon
    <3> QED
      BY <1>13, <2>1, <3>2, <3>5 DEF JobFires, Claim, Claimable, AlarmFree, durable, memory,
        history
  <2>2. CASE ~Claimable(c)
    BY <1>13, <2>2 DEF JobFires, Claim, Claimable, AlarmFree, durable, memory, history
  <2> QED
    BY <2>1, <2>2
<1>14. ASSUME TargetFails
      PROVE  TypeOK'
  BY <1>14 DEF TargetFails, Conclude, Open, durable, memory, history
<1>15. ASSUME SourceAborts
      PROVE  TypeOK'
  BY <1>15 DEF SourceAborts, Dropped, durable, memory, history
<1>16. ASSUME Restart
      PROVE  TypeOK'
  <2>1. timers' \subseteq Calls /\ queued' \subseteq Calls /\ flights' \subseteq Flights
    BY <1>16 DEF Restart, Recovered, durable, memory, history
  <2>2. /\ handler' \in [Calls -> {"new", "arming", "sending", "done"}]
        /\ told' \in [Calls -> {"none", "started", "late", "error"}]
    BY <1>16 DEF Restart, Recovered, durable, memory, history
  <2>3. claimed' \in [Calls -> BOOLEAN]
    <3>1. \A c \in Calls : (IF c \in Recovered THEN FALSE ELSE claimed[c]) \in BOOLEAN
      OBVIOUS
    <3> QED
      BY <1>16, <3>1, Zenon DEF Restart
  <2>4. troubles' \in [Calls -> Nat]
    BY <1>16 DEF Restart, Recovered, durable, memory, history
  <2>5. restarts' \in 0 .. MaxRestarts
    BY <1>16 DEF Restart, Recovered, durable, memory, history
  <2> QED
    BY <1>16, <2>1, <2>2, <2>3, <2>4, <2>5 DEF Restart, durable, memory, history
<1>17. ASSUME NEW f \in flights, SignalArrives(f)
      PROVE  TypeOK'
  BY <1>17 DEF SignalArrives, durable, memory, history
<1>18. ASSUME NEW f \in flights, DeliveryReturns(f)
      PROVE  TypeOK'
  BY <1>18 DEF DeliveryReturns, Returned, durable, memory, history
<1>19. ASSUME NEW f \in flights, DeliveryThrows(f)
      PROVE  TypeOK'
  <2> DEFINE new == [f EXCEPT !.at = "again"]
  <2>1. /\ flights' = (flights \ {f}) \cup {new}
        /\ new.call = f.call /\ new.at = "again" /\ new.via = f.via /\ new.kind = f.kind
    BY <1>19 DEF DeliveryThrows, Released, Fault, durable, memory, history
  <2>2. new \in Flights
    BY DEF Flights
  <2> HIDE DEF new
  <2>3. flights' \subseteq Flights
    BY <2>1, <2>2
  <2>4. faults' \in 0 .. MaxFaults
    BY <1>19 DEF DeliveryThrows, Released, Fault, durable, memory, history
  <2>5. claimed' = Released(f) /\ Released(f) \in [Calls -> BOOLEAN]
    BY <1>19 DEF DeliveryThrows, Released, Fault, durable, memory, history
  <2>6. troubles' \in [Calls -> Nat]
    BY <1>19 DEF DeliveryThrows, Released, Fault, durable, memory, history
  <2> QED
    BY <1>19, <2>3, <2>4, <2>5, <2>6 DEF DeliveryThrows, durable, memory, history
<1>20. ASSUME NEW f \in flights, RetryStored(f)
      PROVE  TypeOK'
  BY <1>20 DEF RetryStored, Returned, durable, memory, history
<1>21. ASSUME NEW f \in flights, RetryRefused(f)
      PROVE  TypeOK'
  BY <1>21 DEF RetryRefused, Fault, durable, memory, history
<1>22. ASSUME UNCHANGED vars
      PROVE  TypeOK'
  BY <1>22 DEF vars, durable, memory, history
<1> QED
  BY <1>1, <1>2, <1>3, <1>4, <1>5, <1>6, <1>7, <1>8, <1>9, <1>10, <1>11, <1>12,
    <1>13, <1>14, <1>15, <1>16, <1>17, <1>18, <1>19, <1>20, <1>21, <1>22 DEF Next

\* A step touches only the traces of calls that were made.
LEMMA YoungKept ==
  ASSUME TypeOK, Young, [Next]_vars
  PROVE  Young'
<1> USE DEF TypeOK, Young, Terminal, Flights
<1>1. ASSUME NEW c \in Calls, Create(c)
      PROVE  Young'
  BY <1>1 DEF Create, durable, memory, history
<1>2. ASSUME NEW c \in Calls, TimerStored(c)
      PROVE  Young'
  BY <1>2 DEF TimerStored, durable, memory, history
<1>3. ASSUME NEW c \in Calls, TimerRefused(c)
      PROVE  Young'
  BY <1>3 DEF TimerRefused, Answer, Fault, durable, memory, history
<1>4. ASSUME NEW c \in Calls, TargetAdmits(c)
      PROVE  Young'
  BY <1>4 DEF TargetAdmits, durable, memory, history
<1>5. ASSUME NEW c \in Calls, TargetRefuses(c)
      PROVE  Young'
  BY <1>5 DEF TargetRefuses, Answer, durable, memory, history
<1>6. ASSUME NEW c \in Calls, SendAnswered(c)
      PROVE  Young'
  BY <1>6 DEF SendAnswered, Answer, durable, memory, history
<1>7. ASSUME NEW c \in Calls, SendThrows(c)
      PROVE  Young'
  BY <1>7 DEF SendThrows, Answer, Fault, durable, memory, history
<1>8. ASSUME NEW c \in Calls, DeadlinePasses(c)
      PROVE  Young'
  BY <1>8 DEF DeadlinePasses, durable, memory, history
<1>9. ASSUME NEW c \in Calls, TargetFinishes(c)
      PROVE  Young'
  BY <1>9 DEF TargetFinishes, Conclude, Open, durable, memory, history
<1>10. ASSUME NEW c \in Calls, TimeoutFires(c)
      PROVE  Young'
  BY <1>10 DEF TimeoutFires, Conclude, Open, AlarmFree, durable, memory, history
<1>11. ASSUME NEW c \in Calls, DeliveryStored(c)
      PROVE  Young'
  BY <1>11 DEF DeliveryStored, durable, memory, history
<1>12. ASSUME NEW c \in Calls, DeliveryRefused(c)
      PROVE  Young'
  BY <1>12 DEF DeliveryRefused, Claim, Claimable, Fault, durable, memory, history
<1>13. ASSUME NEW c \in Calls, JobFires(c)
      PROVE  Young'
  BY <1>13 DEF JobFires, Claim, Claimable, AlarmFree, durable, memory, history
<1>14. ASSUME TargetFails
      PROVE  Young'
  BY <1>14 DEF TargetFails, Conclude, Open, durable, memory, history
<1>15. ASSUME SourceAborts
      PROVE  Young'
  BY <1>15 DEF SourceAborts, Dropped, durable, memory, history
<1>16. ASSUME Restart
      PROVE  Young'
  BY <1>16 DEF Restart, Recovered, durable, memory, history
<1>17. ASSUME NEW f \in flights, SignalArrives(f)
      PROVE  Young'
  BY <1>17 DEF SignalArrives, durable, memory, history
<1>18. ASSUME NEW f \in flights, DeliveryReturns(f)
      PROVE  Young'
  BY <1>18 DEF DeliveryReturns, Returned, durable, memory, history
<1>19. ASSUME NEW f \in flights, DeliveryThrows(f)
      PROVE  Young'
  BY <1>19 DEF DeliveryThrows, Released, Fault, durable, memory, history
<1>20. ASSUME NEW f \in flights, RetryStored(f)
      PROVE  Young'
  BY <1>20 DEF RetryStored, Returned, durable, memory, history
<1>21. ASSUME NEW f \in flights, RetryRefused(f)
      PROVE  Young'
  BY <1>21 DEF RetryRefused, Fault, durable, memory, history
<1>22. ASSUME UNCHANGED vars
      PROVE  Young'
  BY <1>22 DEF vars, durable, memory, history
<1> QED
  BY <1>1, <1>2, <1>3, <1>4, <1>5, <1>6, <1>7, <1>8, <1>9, <1>10, <1>11, <1>12,
    <1>13, <1>14, <1>15, <1>16, <1>17, <1>18, <1>19, <1>20, <1>21, <1>22 DEF Next

\* No step gives a call a second verdict.
LEMMA JudgedKept ==
  ASSUME TypeOK, Young, Judged, [Next]_vars
  PROVE  Judged'
<1> USE DEF TypeOK, Young, Judged, Terminal, Flights
<1>1. ASSUME NEW c \in Calls, Create(c)
      PROVE  Judged'
  BY <1>1 DEF Create, durable, memory, history
<1>2. ASSUME NEW c \in Calls, TimerStored(c)
      PROVE  Judged'
  BY <1>2 DEF TimerStored, durable, memory, history
<1>3. ASSUME NEW c \in Calls, TimerRefused(c)
      PROVE  Judged'
  BY <1>3 DEF TimerRefused, Answer, Fault, durable, memory, history
<1>4. ASSUME NEW c \in Calls, TargetAdmits(c)
      PROVE  Judged'
  BY <1>4 DEF TargetAdmits, durable, memory, history
<1>5. ASSUME NEW c \in Calls, TargetRefuses(c)
      PROVE  Judged'
  BY <1>5 DEF TargetRefuses, Answer, durable, memory, history
<1>6. ASSUME NEW c \in Calls, SendAnswered(c)
      PROVE  Judged'
  BY <1>6 DEF SendAnswered, Answer, durable, memory, history
<1>7. ASSUME NEW c \in Calls, SendThrows(c)
      PROVE  Judged'
  BY <1>7 DEF SendThrows, Answer, Fault, durable, memory, history
<1>8. ASSUME NEW c \in Calls, DeadlinePasses(c)
      PROVE  Judged'
  BY <1>8 DEF DeadlinePasses, durable, memory, history
<1>9. ASSUME NEW c \in Calls, TargetFinishes(c)
      PROVE  Judged'
  BY <1>9 DEF TargetFinishes, Conclude, Open, durable, memory, history
<1>10. ASSUME NEW c \in Calls, TimeoutFires(c)
      PROVE  Judged'
  BY <1>10 DEF TimeoutFires, Conclude, Open, AlarmFree, durable, memory, history
<1>11. ASSUME NEW c \in Calls, DeliveryStored(c)
      PROVE  Judged'
  BY <1>11 DEF DeliveryStored, durable, memory, history
<1>12. ASSUME NEW c \in Calls, DeliveryRefused(c)
      PROVE  Judged'
  BY <1>12 DEF DeliveryRefused, Claim, Claimable, Fault, durable, memory, history
<1>13. ASSUME NEW c \in Calls, JobFires(c)
      PROVE  Judged'
  BY <1>13 DEF JobFires, Claim, Claimable, AlarmFree, durable, memory, history
<1>14. ASSUME TargetFails
      PROVE  Judged'
  BY <1>14 DEF TargetFails, Conclude, Open, durable, memory, history
<1>15. ASSUME SourceAborts
      PROVE  Judged'
  BY <1>15 DEF SourceAborts, Dropped, durable, memory, history
<1>16. ASSUME Restart
      PROVE  Judged'
  BY <1>16 DEF Restart, Recovered, durable, memory, history
<1>17. ASSUME NEW f \in flights, SignalArrives(f)
      PROVE  Judged'
  BY <1>17 DEF SignalArrives, durable, memory, history
<1>18. ASSUME NEW f \in flights, DeliveryReturns(f)
      PROVE  Judged'
  BY <1>18 DEF DeliveryReturns, Returned, durable, memory, history
<1>19. ASSUME NEW f \in flights, DeliveryThrows(f)
      PROVE  Judged'
  BY <1>19 DEF DeliveryThrows, Released, Fault, durable, memory, history
<1>20. ASSUME NEW f \in flights, RetryStored(f)
      PROVE  Judged'
  BY <1>20 DEF RetryStored, Returned, durable, memory, history
<1>21. ASSUME NEW f \in flights, RetryRefused(f)
      PROVE  Judged'
  BY <1>21 DEF RetryRefused, Fault, durable, memory, history
<1>22. ASSUME UNCHANGED vars
      PROVE  Judged'
  BY <1>22 DEF vars, durable, memory, history
<1> QED
  BY <1>1, <1>2, <1>3, <1>4, <1>5, <1>6, <1>7, <1>8, <1>9, <1>10, <1>11, <1>12,
    <1>13, <1>14, <1>15, <1>16, <1>17, <1>18, <1>19, <1>20, <1>21, <1>22 DEF Next

\* No step starts a second delivery of a claimed row.
LEMMA ExclusiveKept ==
  ASSUME TypeOK, Young, Judged, Exclusive, [Next]_vars
  PROVE  Exclusive'
<1> USE DEF TypeOK, Young, Judged, Exclusive, Terminal, Flights
<1>1. ASSUME NEW c \in Calls, Create(c)
      PROVE  Exclusive'
  BY <1>1 DEF Create, durable, memory, history
<1>2. ASSUME NEW c \in Calls, TimerStored(c)
      PROVE  Exclusive'
  BY <1>2 DEF TimerStored, durable, memory, history
<1>3. ASSUME NEW c \in Calls, TimerRefused(c)
      PROVE  Exclusive'
  BY <1>3 DEF TimerRefused, Answer, Fault, durable, memory, history
<1>4. ASSUME NEW c \in Calls, TargetAdmits(c)
      PROVE  Exclusive'
  BY <1>4 DEF TargetAdmits, durable, memory, history
<1>5. ASSUME NEW c \in Calls, TargetRefuses(c)
      PROVE  Exclusive'
  BY <1>5 DEF TargetRefuses, Answer, durable, memory, history
<1>6. ASSUME NEW c \in Calls, SendAnswered(c)
      PROVE  Exclusive'
  BY <1>6 DEF SendAnswered, Answer, durable, memory, history
<1>7. ASSUME NEW c \in Calls, SendThrows(c)
      PROVE  Exclusive'
  BY <1>7 DEF SendThrows, Answer, Fault, durable, memory, history
<1>8. ASSUME NEW c \in Calls, DeadlinePasses(c)
      PROVE  Exclusive'
  BY <1>8 DEF DeadlinePasses, durable, memory, history
<1>9. ASSUME NEW c \in Calls, TargetFinishes(c)
      PROVE  Exclusive'
  BY <1>9 DEF TargetFinishes, Conclude, Open, durable, memory, history
<1>10. ASSUME NEW c \in Calls, TimeoutFires(c)
      PROVE  Exclusive'
  BY <1>10 DEF TimeoutFires, Conclude, Open, AlarmFree, durable, memory, history
<1>11. ASSUME NEW c \in Calls, DeliveryStored(c)
      PROVE  Exclusive'
  BY <1>11 DEF DeliveryStored, durable, memory, history
<1>12. ASSUME NEW c \in Calls, DeliveryRefused(c)
      PROVE  Exclusive'
  <2> DEFINE new == [call |-> c, via |-> "direct", kind |-> row[c], at |-> "out"]
  <2>1. CASE Claimable(c)
    <3>1. /\ flights' = flights \cup {new} /\ claimed' = [claimed EXCEPT ![c] = TRUE]
          /\ new.call = c /\ new.at = "out" /\ new.via = "direct" /\ new.kind = row[c]
      BY <1>12, <2>1 DEF DeliveryRefused, Claim, Claimable, Fault, durable, memory, history
    <3>2. row' = row /\ jobs' = jobs /\ row[c] \in Terminal /\ ~claimed[c]
      BY <1>12, <2>1 DEF DeliveryRefused, Claim, Claimable, Fault, durable, memory, history
    <3>3. \A f \in flights : f.call = c => f.at = "again"
      BY <3>2
    <3> HIDE DEF new
    <3> QED
      BY <3>1, <3>2, <3>3
  <2>2. CASE ~Claimable(c)
    BY <1>12, <2>2 DEF DeliveryRefused, Claim, Claimable, Fault, durable, memory, history
  <2> QED
    BY <2>1, <2>2
<1>13. ASSUME NEW c \in Calls, JobFires(c)
      PROVE  Exclusive'
  <2> DEFINE new == [call |-> c, via |-> "job", kind |-> row[c], at |-> "out"]
  <2>1. CASE Claimable(c)
    <3>1. /\ flights' = flights \cup {new} /\ claimed' = [claimed EXCEPT ![c] = TRUE]
          /\ new.call = c /\ new.at = "out" /\ new.via = "job" /\ new.kind = row[c]
      BY <1>13, <2>1 DEF JobFires, Claim, Claimable, AlarmFree, durable, memory, history
    <3>2. row' = row /\ jobs' = jobs /\ row[c] \in Terminal /\ ~claimed[c]
      BY <1>13, <2>1 DEF JobFires, Claim, Claimable, AlarmFree, durable, memory, history
    <3>3. \A f \in flights : f.call = c => f.at = "again"
      BY <3>2
    <3> HIDE DEF new
    <3>4. jobs[c] >= 1 /\ \A f \in flights : f.via # "job"
      BY <1>13 DEF JobFires, AlarmFree
    <3> QED
      BY <3>1, <3>2, <3>3, <3>4
  <2>2. CASE ~Claimable(c)
    BY <1>13, <2>2 DEF JobFires, Claim, Claimable, AlarmFree, durable, memory, history
  <2> QED
    BY <2>1, <2>2
<1>14. ASSUME TargetFails
      PROVE  Exclusive'
  BY <1>14 DEF TargetFails, Conclude, Open, durable, memory, history
<1>15. ASSUME SourceAborts
      PROVE  Exclusive'
  BY <1>15 DEF SourceAborts, Dropped, durable, memory, history
<1>16. ASSUME Restart
      PROVE  Exclusive'
  BY <1>16 DEF Restart, Recovered, durable, memory, history
<1>17. ASSUME NEW f \in flights, SignalArrives(f)
      PROVE  Exclusive'
  <2> DEFINE new == [f EXCEPT !.at = "arrived"]
  <2>1. /\ flights' = (flights \ {f}) \cup {new}
        /\ new.call = f.call /\ new.at = "arrived" /\ new.via = f.via /\ new.kind = f.kind
    BY <1>17 DEF SignalArrives, durable, memory, history
  <2>2. f.at = "out" /\ row' = row /\ claimed' = claimed /\ jobs' = jobs
    BY <1>17 DEF SignalArrives, durable, memory, history
  <2> HIDE DEF new
  <2> QED
    BY <2>1, <2>2
<1>18. ASSUME NEW f \in flights, DeliveryReturns(f)
      PROVE  Exclusive'
  BY <1>18 DEF DeliveryReturns, Returned, durable, memory, history
<1>19. ASSUME NEW f \in flights, DeliveryThrows(f)
      PROVE  Exclusive'
  BY <1>19 DEF DeliveryThrows, Released, Fault, durable, memory, history
<1>20. ASSUME NEW f \in flights, RetryStored(f)
      PROVE  Exclusive'
  BY <1>20 DEF RetryStored, Returned, durable, memory, history
<1>21. ASSUME NEW f \in flights, RetryRefused(f)
      PROVE  Exclusive'
  BY <1>21 DEF RetryRefused, Fault, durable, memory, history
<1>22. ASSUME UNCHANGED vars
      PROVE  Exclusive'
  BY <1>22 DEF vars, durable, memory, history
<1> QED
  BY <1>1, <1>2, <1>3, <1>4, <1>5, <1>6, <1>7, <1>8, <1>9, <1>10, <1>11, <1>12,
    <1>13, <1>14, <1>15, <1>16, <1>17, <1>18, <1>19, <1>20, <1>21, <1>22 DEF Next

\* A signal is heard once for each claim, and only a trouble makes a second claim.
LEMMA CountedKept ==
  ASSUME TypeOK, Young, Judged, Exclusive, Counted, [Next]_vars
  PROVE  Counted'
<1> USE DEF TypeOK, Young, Judged, Exclusive, Counted, Terminal, Flights
<1>1. ASSUME NEW c \in Calls, Create(c)
      PROVE  Counted'
  BY <1>1 DEF Create, durable, memory, history
<1>2. ASSUME NEW c \in Calls, TimerStored(c)
      PROVE  Counted'
  BY <1>2 DEF TimerStored, durable, memory, history
<1>3. ASSUME NEW c \in Calls, TimerRefused(c)
      PROVE  Counted'
  BY <1>3 DEF TimerRefused, Answer, Fault, durable, memory, history
<1>4. ASSUME NEW c \in Calls, TargetAdmits(c)
      PROVE  Counted'
  BY <1>4 DEF TargetAdmits, durable, memory, history
<1>5. ASSUME NEW c \in Calls, TargetRefuses(c)
      PROVE  Counted'
  BY <1>5 DEF TargetRefuses, Answer, durable, memory, history
<1>6. ASSUME NEW c \in Calls, SendAnswered(c)
      PROVE  Counted'
  BY <1>6 DEF SendAnswered, Answer, durable, memory, history
<1>7. ASSUME NEW c \in Calls, SendThrows(c)
      PROVE  Counted'
  BY <1>7 DEF SendThrows, Answer, Fault, durable, memory, history
<1>8. ASSUME NEW c \in Calls, DeadlinePasses(c)
      PROVE  Counted'
  BY <1>8 DEF DeadlinePasses, durable, memory, history
<1>9. ASSUME NEW c \in Calls, TargetFinishes(c)
      PROVE  Counted'
  BY <1>9 DEF TargetFinishes, Conclude, Open, durable, memory, history
<1>10. ASSUME NEW c \in Calls, TimeoutFires(c)
      PROVE  Counted'
  BY <1>10 DEF TimeoutFires, Conclude, Open, AlarmFree, durable, memory, history
<1>11. ASSUME NEW c \in Calls, DeliveryStored(c)
      PROVE  Counted'
  BY <1>11 DEF DeliveryStored, durable, memory, history
<1>12. ASSUME NEW c \in Calls, DeliveryRefused(c)
      PROVE  Counted'
  BY <1>12 DEF DeliveryRefused, Claim, Claimable, Fault, durable, memory, history
<1>13. ASSUME NEW c \in Calls, JobFires(c)
      PROVE  Counted'
  BY <1>13 DEF JobFires, Claim, Claimable, AlarmFree, durable, memory, history
<1>14. ASSUME TargetFails
      PROVE  Counted'
  BY <1>14 DEF TargetFails, Conclude, Open, durable, memory, history
<1>15. ASSUME SourceAborts
      PROVE  Counted'
  BY <1>15 DEF SourceAborts, Dropped, durable, memory, history
<1>16. ASSUME Restart
      PROVE  Counted'
  BY <1>16 DEF Restart, Recovered, durable, memory, history
<1>17. ASSUME NEW f \in flights, SignalArrives(f)
      PROVE  Counted'
  BY <1>17 DEF SignalArrives, durable, memory, history
<1>18. ASSUME NEW f \in flights, DeliveryReturns(f)
      PROVE  Counted'
  BY <1>18 DEF DeliveryReturns, Returned, durable, memory, history
<1>19. ASSUME NEW f \in flights, DeliveryThrows(f)
      PROVE  Counted'
  BY <1>19 DEF DeliveryThrows, Released, Fault, durable, memory, history
<1>20. ASSUME NEW f \in flights, RetryStored(f)
      PROVE  Counted'
  BY <1>20 DEF RetryStored, Returned, durable, memory, history
<1>21. ASSUME NEW f \in flights, RetryRefused(f)
      PROVE  Counted'
  BY <1>21 DEF RetryRefused, Fault, durable, memory, history
<1>22. ASSUME UNCHANGED vars
      PROVE  Counted'
  BY <1>22 DEF vars, durable, memory, history
<1> QED
  BY <1>1, <1>2, <1>3, <1>4, <1>5, <1>6, <1>7, <1>8, <1>9, <1>10, <1>11, <1>12,
    <1>13, <1>14, <1>15, <1>16, <1>17, <1>18, <1>19, <1>20, <1>21, <1>22 DEF Next

\* Whatever stops pursuing a call leaves something else that does.
LEMMA PursuedKept ==
  ASSUME TypeOK, Young, Exclusive, Pursued, [Next]_vars
  PROVE  Pursued'
<1> USE DEF TypeOK, Young, Exclusive, Pursued, Terminal, Flights
<1>1. ASSUME NEW c \in Calls, Create(c)
      PROVE  Pursued'
  BY <1>1 DEF Create, durable, memory, history
<1>2. ASSUME NEW c \in Calls, TimerStored(c)
      PROVE  Pursued'
  BY <1>2 DEF TimerStored, durable, memory, history
<1>3. ASSUME NEW c \in Calls, TimerRefused(c)
      PROVE  Pursued'
  BY <1>3 DEF TimerRefused, Answer, Fault, durable, memory, history
<1>4. ASSUME NEW c \in Calls, TargetAdmits(c)
      PROVE  Pursued'
  BY <1>4 DEF TargetAdmits, durable, memory, history
<1>5. ASSUME NEW c \in Calls, TargetRefuses(c)
      PROVE  Pursued'
  BY <1>5 DEF TargetRefuses, Answer, durable, memory, history
<1>6. ASSUME NEW c \in Calls, SendAnswered(c)
      PROVE  Pursued'
  BY <1>6 DEF SendAnswered, Answer, durable, memory, history
<1>7. ASSUME NEW c \in Calls, SendThrows(c)
      PROVE  Pursued'
  BY <1>7 DEF SendThrows, Answer, Fault, durable, memory, history
<1>8. ASSUME NEW c \in Calls, DeadlinePasses(c)
      PROVE  Pursued'
  BY <1>8 DEF DeadlinePasses, durable, memory, history
<1>9. ASSUME NEW c \in Calls, TargetFinishes(c)
      PROVE  Pursued'
  BY <1>9 DEF TargetFinishes, Conclude, Open, durable, memory, history
<1>10. ASSUME NEW c \in Calls, TimeoutFires(c)
      PROVE  Pursued'
  BY <1>10 DEF TimeoutFires, Conclude, Open, AlarmFree, durable, memory, history
<1>11. ASSUME NEW c \in Calls, DeliveryStored(c)
      PROVE  Pursued'
  BY <1>11 DEF DeliveryStored, durable, memory, history
<1>12. ASSUME NEW c \in Calls, DeliveryRefused(c)
      PROVE  Pursued'
  <2>1. CASE Claimable(c)
    <3> DEFINE new == [call |-> c, via |-> "direct", kind |-> row[c], at |-> "out"]
    <3>1. new \in flights' /\ new.call = c
      BY <1>12, <2>1 DEF DeliveryRefused, Claim, Claimable, Fault, durable, memory, history
    <3> HIDE DEF new
    <3>2. \E f \in flights' : f.call = c
      BY <3>1
    <3> QED
      BY <1>12, <2>1, <3>2 DEF DeliveryRefused, Claim, Claimable, Fault, durable, memory, history
  <2>2. CASE ~Claimable(c)
    BY <1>12, <2>2 DEF DeliveryRefused, Claim, Claimable, Fault, durable, memory, history
  <2> QED
    BY <2>1, <2>2
<1>13. ASSUME NEW c \in Calls, JobFires(c)
      PROVE  Pursued'
  BY <1>13 DEF JobFires, Claim, Claimable, AlarmFree, durable, memory, history
<1>14. ASSUME TargetFails
      PROVE  Pursued'
  BY <1>14 DEF TargetFails, Conclude, Open, durable, memory, history
<1>15. ASSUME SourceAborts
      PROVE  Pursued'
  BY <1>15 DEF SourceAborts, Dropped, durable, memory, history
<1>16. ASSUME Restart
      PROVE  Pursued'
  BY <1>16 DEF Restart, Recovered, durable, memory, history
<1>17. ASSUME NEW f \in flights, SignalArrives(f)
      PROVE  Pursued'
  <2> DEFINE new == [f EXCEPT !.at = "arrived"]
  <2>1. /\ flights' = (flights \ {f}) \cup {new}
        /\ new.call = f.call /\ new.at = "arrived" /\ new.via = f.via /\ new.kind = f.kind
    BY <1>17 DEF SignalArrives, durable, memory, history
  <2> HIDE DEF new
  <2> QED
    BY <1>17, <2>1 DEF SignalArrives, durable, memory, history
<1>18. ASSUME NEW f \in flights, DeliveryReturns(f)
      PROVE  Pursued'
  BY <1>18 DEF DeliveryReturns, Returned, durable, memory, history
<1>19. ASSUME NEW f \in flights, DeliveryThrows(f)
      PROVE  Pursued'
  <2> DEFINE new == [f EXCEPT !.at = "again"]
  <2>1. /\ flights' = (flights \ {f}) \cup {new}
        /\ new.call = f.call /\ new.at = "again" /\ new.via = f.via /\ new.kind = f.kind
    BY <1>19 DEF DeliveryThrows, Released, Fault, durable, memory, history
  <2> HIDE DEF new
  <2> QED
    BY <1>19, <2>1 DEF DeliveryThrows, Released, Fault, durable, memory, history
<1>20. ASSUME NEW f \in flights, RetryStored(f)
      PROVE  Pursued'
  BY <1>20 DEF RetryStored, Returned, durable, memory, history
<1>21. ASSUME NEW f \in flights, RetryRefused(f)
      PROVE  Pursued'
  BY <1>21 DEF RetryRefused, Fault, durable, memory, history
<1>22. ASSUME UNCHANGED vars
      PROVE  Pursued'
  BY <1>22 DEF vars, durable, memory, history
<1> QED
  BY <1>1, <1>2, <1>3, <1>4, <1>5, <1>6, <1>7, <1>8, <1>9, <1>10, <1>11, <1>12,
    <1>13, <1>14, <1>15, <1>16, <1>17, <1>18, <1>19, <1>20, <1>21, <1>22 DEF Next

\* No step makes a row of a cancelled call.
LEMMA SilencedKept ==
  ASSUME TypeOK, Young, Silenced, [Next]_vars
  PROVE  Silenced'
<1> USE DEF TypeOK, Young, Silenced, Terminal, Flights
<1>1. ASSUME NEW c \in Calls, Create(c)
      PROVE  Silenced'
  BY <1>1 DEF Create, durable, memory, history
<1>2. ASSUME NEW c \in Calls, TimerStored(c)
      PROVE  Silenced'
  BY <1>2 DEF TimerStored, durable, memory, history
<1>3. ASSUME NEW c \in Calls, TimerRefused(c)
      PROVE  Silenced'
  BY <1>3 DEF TimerRefused, Answer, Fault, durable, memory, history
<1>4. ASSUME NEW c \in Calls, TargetAdmits(c)
      PROVE  Silenced'
  BY <1>4 DEF TargetAdmits, durable, memory, history
<1>5. ASSUME NEW c \in Calls, TargetRefuses(c)
      PROVE  Silenced'
  BY <1>5 DEF TargetRefuses, Answer, durable, memory, history
<1>6. ASSUME NEW c \in Calls, SendAnswered(c)
      PROVE  Silenced'
  BY <1>6 DEF SendAnswered, Answer, durable, memory, history
<1>7. ASSUME NEW c \in Calls, SendThrows(c)
      PROVE  Silenced'
  BY <1>7 DEF SendThrows, Answer, Fault, durable, memory, history
<1>8. ASSUME NEW c \in Calls, DeadlinePasses(c)
      PROVE  Silenced'
  BY <1>8 DEF DeadlinePasses, durable, memory, history
<1>9. ASSUME NEW c \in Calls, TargetFinishes(c)
      PROVE  Silenced'
  BY <1>9 DEF TargetFinishes, Conclude, Open, durable, memory, history
<1>10. ASSUME NEW c \in Calls, TimeoutFires(c)
      PROVE  Silenced'
  BY <1>10 DEF TimeoutFires, Conclude, Open, AlarmFree, durable, memory, history
<1>11. ASSUME NEW c \in Calls, DeliveryStored(c)
      PROVE  Silenced'
  BY <1>11 DEF DeliveryStored, durable, memory, history
<1>12. ASSUME NEW c \in Calls, DeliveryRefused(c)
      PROVE  Silenced'
  BY <1>12 DEF DeliveryRefused, Claim, Claimable, Fault, durable, memory, history
<1>13. ASSUME NEW c \in Calls, JobFires(c)
      PROVE  Silenced'
  BY <1>13 DEF JobFires, Claim, Claimable, AlarmFree, durable, memory, history
<1>14. ASSUME TargetFails
      PROVE  Silenced'
  BY <1>14 DEF TargetFails, Conclude, Open, durable, memory, history
<1>15. ASSUME SourceAborts
      PROVE  Silenced'
  BY <1>15 DEF SourceAborts, Dropped, durable, memory, history
<1>16. ASSUME Restart
      PROVE  Silenced'
  BY <1>16 DEF Restart, Recovered, durable, memory, history
<1>17. ASSUME NEW f \in flights, SignalArrives(f)
      PROVE  Silenced'
  BY <1>17 DEF SignalArrives, durable, memory, history
<1>18. ASSUME NEW f \in flights, DeliveryReturns(f)
      PROVE  Silenced'
  BY <1>18 DEF DeliveryReturns, Returned, durable, memory, history
<1>19. ASSUME NEW f \in flights, DeliveryThrows(f)
      PROVE  Silenced'
  BY <1>19 DEF DeliveryThrows, Released, Fault, durable, memory, history
<1>20. ASSUME NEW f \in flights, RetryStored(f)
      PROVE  Silenced'
  BY <1>20 DEF RetryStored, Returned, durable, memory, history
<1>21. ASSUME NEW f \in flights, RetryRefused(f)
      PROVE  Silenced'
  BY <1>21 DEF RetryRefused, Fault, durable, memory, history
<1>22. ASSUME UNCHANGED vars
      PROVE  Silenced'
  BY <1>22 DEF vars, durable, memory, history
<1> QED
  BY <1>1, <1>2, <1>3, <1>4, <1>5, <1>6, <1>7, <1>8, <1>9, <1>10, <1>11, <1>12,
    <1>13, <1>14, <1>15, <1>16, <1>17, <1>18, <1>19, <1>20, <1>21, <1>22 DEF Next

\* A row is removed after its signal, with its source, or with an error to the caller.
LEMMA KeptKept ==
  ASSUME TypeOK, Young, Silenced, Kept, [Next]_vars
  PROVE  Kept'
<1> USE DEF TypeOK, Young, Silenced, Kept, Terminal, Flights
<1>1. ASSUME NEW c \in Calls, Create(c)
      PROVE  Kept'
  BY <1>1 DEF Create, durable, memory, history
<1>2. ASSUME NEW c \in Calls, TimerStored(c)
      PROVE  Kept'
  BY <1>2 DEF TimerStored, durable, memory, history
<1>3. ASSUME NEW c \in Calls, TimerRefused(c)
      PROVE  Kept'
  BY <1>3 DEF TimerRefused, Answer, Fault, durable, memory, history
<1>4. ASSUME NEW c \in Calls, TargetAdmits(c)
      PROVE  Kept'
  BY <1>4 DEF TargetAdmits, durable, memory, history
<1>5. ASSUME NEW c \in Calls, TargetRefuses(c)
      PROVE  Kept'
  BY <1>5 DEF TargetRefuses, Answer, durable, memory, history
<1>6. ASSUME NEW c \in Calls, SendAnswered(c)
      PROVE  Kept'
  BY <1>6 DEF SendAnswered, Answer, durable, memory, history
<1>7. ASSUME NEW c \in Calls, SendThrows(c)
      PROVE  Kept'
  BY <1>7 DEF SendThrows, Answer, Fault, durable, memory, history
<1>8. ASSUME NEW c \in Calls, DeadlinePasses(c)
      PROVE  Kept'
  BY <1>8 DEF DeadlinePasses, durable, memory, history
<1>9. ASSUME NEW c \in Calls, TargetFinishes(c)
      PROVE  Kept'
  BY <1>9 DEF TargetFinishes, Conclude, Open, durable, memory, history
<1>10. ASSUME NEW c \in Calls, TimeoutFires(c)
      PROVE  Kept'
  BY <1>10 DEF TimeoutFires, Conclude, Open, AlarmFree, durable, memory, history
<1>11. ASSUME NEW c \in Calls, DeliveryStored(c)
      PROVE  Kept'
  BY <1>11 DEF DeliveryStored, durable, memory, history
<1>12. ASSUME NEW c \in Calls, DeliveryRefused(c)
      PROVE  Kept'
  BY <1>12 DEF DeliveryRefused, Claim, Claimable, Fault, durable, memory, history
<1>13. ASSUME NEW c \in Calls, JobFires(c)
      PROVE  Kept'
  BY <1>13 DEF JobFires, Claim, Claimable, AlarmFree, durable, memory, history
<1>14. ASSUME TargetFails
      PROVE  Kept'
  BY <1>14 DEF TargetFails, Conclude, Open, durable, memory, history
<1>15. ASSUME SourceAborts
      PROVE  Kept'
  BY <1>15 DEF SourceAborts, Dropped, durable, memory, history
<1>16. ASSUME Restart
      PROVE  Kept'
  BY <1>16 DEF Restart, Recovered, durable, memory, history
<1>17. ASSUME NEW f \in flights, SignalArrives(f)
      PROVE  Kept'
  <2> DEFINE g == [f EXCEPT !.at = "arrived"]
  <2>1. f.call \in Calls /\ f.kind \in Terminal
    OBVIOUS
  <2>2. /\ handler' = handler /\ told' = told /\ row' = row /\ cancelled' = cancelled
        /\ flights' = (flights \ {f}) \cup {g}
        /\ heard' = [heard EXCEPT ![f.call] = @ \cup {f.kind}]
    BY <1>17 DEF SignalArrives, durable
  <2>3. g.call = f.call
    OBVIOUS
  <2> HIDE DEF g
  <2>4. /\ \A c \in Calls : heard[c] \subseteq heard'[c]
        /\ heard'[f.call] # {}
    <3>1. heard \in [Calls -> SUBSET Terminal] /\ heard' = [heard EXCEPT ![f.call] =
            heard[f.call] \cup {f.kind}]
      BY <2>2
    <3> HIDE DEF TypeOK, Young, Silenced, Kept, Terminal, Flights
    <3>2. heard'[f.call] = heard[f.call] \cup {f.kind}
      BY <2>1, <3>1
    <3>3. \A c \in Calls : c # f.call => heard'[c] = heard[c]
      BY <2>1, <3>1
    <3> QED
      BY <3>2, <3>3
  <2>5. \A h \in flights' : h.at = "arrived" => heard'[h.call] # {}
    BY <2>2, <2>3, <2>4
  <2>6. \A c \in Calls :
          handler'[c] \in {"arming", "sending"} \/ told'[c] \in {"started", "late"}
            => row'[c] # "none" \/ heard'[c] # {} \/ c \in cancelled'
    BY <2>2, <2>4
  <2> QED
    BY <2>5, <2>6
<1>18. ASSUME NEW f \in flights, DeliveryReturns(f)
      PROVE  Kept'
  BY <1>18 DEF DeliveryReturns, Returned, durable, memory, history
<1>19. ASSUME NEW f \in flights, DeliveryThrows(f)
      PROVE  Kept'
  BY <1>19 DEF DeliveryThrows, Released, Fault, durable, memory, history
<1>20. ASSUME NEW f \in flights, RetryStored(f)
      PROVE  Kept'
  BY <1>20 DEF RetryStored, Returned, durable, memory, history
<1>21. ASSUME NEW f \in flights, RetryRefused(f)
      PROVE  Kept'
  BY <1>21 DEF RetryRefused, Fault, durable, memory, history
<1>22. ASSUME UNCHANGED vars
      PROVE  Kept'
  BY <1>22 DEF vars, durable, memory, history
<1> QED
  BY <1>1, <1>2, <1>3, <1>4, <1>5, <1>6, <1>7, <1>8, <1>9, <1>10, <1>11, <1>12,
    <1>13, <1>14, <1>15, <1>16, <1>17, <1>18, <1>19, <1>20, <1>21, <1>22 DEF Next

-----------------------------------------------------------------------------
LEMMA IInvInit == Init => IInv
  BY IpcAssumption DEF Init, IInv, TypeOK, Young, Judged, Exclusive, Counted, Pursued, Silenced,
    Kept, Terminal, Flights

LEMMA IInvNext == IInv /\ [Next]_vars => IInv'
  BY TypeOKKept, YoungKept, JudgedKept, ExclusiveKept, CountedKept, PursuedKept,
    SilencedKept, KeptKept DEF IInv

LEMMA IInvAlways == Spec => []IInv
<1>1. Init => IInv
  BY IInvInit
<1>2. IInv /\ [Next]_vars => IInv'
  BY IInvNext
<1> QED
  BY <1>1, <1>2, PTL DEF Spec

\* Every variable of the Kernel's calls keeps its type.
THEOREM TypesHold == Spec => []TypeOK
<1>1. IInv => TypeOK
  BY DEF IInv
<1> QED
  BY <1>1, IInvAlways, PTL

\* completeByRun, failByTargetPid and timeout never change a row that has its
\* verdict, and a delivery in progress carries the verdict of its row: a source hears
\* one verdict of a call, whatever is retried, refused or restarted.
THEOREM OneVerdictHolds == Spec => []OneVerdict
<1>1. IInv => OneVerdict
  <2> SUFFICES ASSUME IInv, NEW c \in Calls
               PROVE  Cardinality(heard[c]) <= 1
    BY DEF OneVerdict
  <2>1. CASE heard[c] = {}
    BY <2>1, FS_EmptySet
  <2>2. CASE heard[c] # {}
    <3>1. PICK v \in heard[c] : TRUE
      BY <2>2
    <3>2. heard[c] = {v}
      BY <3>1 DEF IInv, Judged
    <3>3. Cardinality({v}) = 1
      BY FS_Singleton
    <3> QED
      BY <3>2, <3>3
  <2> QED
    BY <2>1, <2>2
<1> QED
  BY <1>1, IInvAlways, PTL

\* claimDelivery admits one delivery of a row at a time, so that a source hears a
\* call again only after a failed delivery or a restart.
THEOREM RepeatsExplainedHolds == Spec => []RepeatsExplained
<1>1. IInv => RepeatsExplained
  BY DEF IInv, Counted, RepeatsExplained
<1> QED
  BY <1>1, IInvAlways, PTL

\* A row of ipc_calls is never left without something that will end or deliver it.
THEOREM PursuedHolds == Spec => []Pursued
<1>1. IInv => Pursued
  BY DEF IInv
<1> QED
  BY <1>1, IInvAlways, PTL

\* handleProcIpcCall answers "started" only for a row that is kept until its signal has
\* arrived, and what Pursued says of rows is then said of callers: nobody who counts on
\* a result waits for nothing. This is the safety half of StartedAnswered.
THEOREM StartedPursuedHolds == Spec => []StartedPursued
<1>1. IInv => StartedPursued
  <2> SUFFICES ASSUME IInv, NEW c \in Calls, told[c] = "started"
               PROVE  heard[c] # {} \/ c \in cancelled \cup stranded \/ Underway(c)
    BY DEF StartedPursued
  <2>1. handler[c] = "done"
    BY DEF IInv, Young
  <2>2. CASE row[c] = "none"
    BY <2>2 DEF IInv, Kept
  <2>3. CASE row[c] = "pending"
    BY <2>1, <2>3 DEF IInv, Pursued, Underway
  <2>4. CASE row[c] \in Terminal
    BY <2>4 DEF IInv, Pursued, Underway
  <2> QED
    BY <2>2, <2>3, <2>4 DEF IInv, TypeOK
<1> QED
  BY <1>1, IInvAlways, PTL

\* cancelBySourceRun deletes the rows of an aborted run, and no step of the
\* Kernel starts a delivery of such a call again.
THEOREM CancelledSilentHolds == Spec => CancelledSilent
<1> DEFINE Quiet == \A f \in flights' \ flights : f.at = "out" => f.call \notin cancelled
<1>1. IInv /\ [Next]_vars => Quiet
  <2> SUFFICES ASSUME IInv, [Next]_vars
               PROVE  Quiet
    OBVIOUS
  <2>1. ASSUME NEW c \in Calls, NEW via, Claimable(c), Claim(c, via)
        PROVE  Quiet
    <3>1. c \notin cancelled
      BY <2>1 DEF IInv, Silenced, Claimable, Terminal
    <3> QED
      BY <2>1, <3>1 DEF Claim
  <2>2. ASSUME NEW c \in Calls, DeliveryRefused(c) \/ JobFires(c)
        PROVE  Quiet
    BY <2>1, <2>2 DEF DeliveryRefused, JobFires
  <2>3. ASSUME NEW f \in flights, SignalArrives(f) \/ DeliveryThrows(f)
        PROVE  Quiet
    BY <2>3 DEF SignalArrives, DeliveryThrows, IInv, TypeOK, Flights
  <2>4. CASE flights' \subseteq flights
    BY <2>4
  <2>5. ASSUME NEW c \in Calls, TargetFinishes(c) \/ TimeoutFires(c)
        PROVE  flights' \subseteq flights
    BY <2>5 DEF TargetFinishes, TimeoutFires
  <2>6. ASSUME NEW c \in Calls,
               \/ Create(c) \/ TimerStored(c) \/ TimerRefused(c) \/ TargetAdmits(c)
               \/ TargetRefuses(c) \/ SendAnswered(c) \/ SendThrows(c)
               \/ DeadlinePasses(c) \/ DeliveryStored(c)
        PROVE  flights' \subseteq flights
    BY <2>6 DEF Create, TimerStored, TimerRefused, TargetAdmits, TargetRefuses, SendAnswered,
      SendThrows, DeadlinePasses, DeliveryStored, Answer, memory
  <2>7. ASSUME TargetFails \/ SourceAborts \/ Restart \/ UNCHANGED vars
        PROVE  flights' \subseteq flights
    BY <2>7 DEF TargetFails, SourceAborts, Restart, vars, memory
  <2>8. ASSUME NEW f \in flights, DeliveryReturns(f) \/ RetryStored(f) \/ RetryRefused(f)
        PROVE  flights' \subseteq flights
    BY <2>8 DEF DeliveryReturns, RetryStored, RetryRefused
  <2> HIDE DEF Quiet
  <2> QED
    BY <2>2, <2>3, <2>4, <2>5, <2>6, <2>7, <2>8 DEF Next
<1>2. IInv /\ [Next]_vars => [Quiet]_vars
  BY <1>1
<1> QED
  BY <1>2, IInvAlways, PTL DEF Spec, CancelledSilent

=============================================================================

--------------------------- MODULE ToolLoopProofs ---------------------------
(***************************************************************************)
(* Proofs about ToolLoop, for any answers, policies, overlapping handlers, *)
(* restarts and refused deadlines: one execution for every call, none      *)
(* without permission, one result for every call, and no run is stranded   *)
(* but in three ways.                                                      *)
(*                                                                         *)
(* The invariant Inv says what a row tells of its call. RowsFollow,        *)
(* ResultsFollow, NothingOpen, Earlier: rows and results follow the        *)
(* answers, whatever error ended the run in the middle of them. Fresh,     *)
(* Waits, Claims: where the call stands, and that nobody else has it. Most *)
(* steps are quiet (QuietStep): they close rows and start no execution.    *)
(***************************************************************************)
EXTENDS ToolLoop, FiniteSetTheorems, TLAPS

RowStates == {"none", "registered", "pending", "done", "ingested"}
Hils == {NoHil} \cup [call : Calls, nested : BOOLEAN]
Places == [at : {"idle", "stored", "refused", "started", "asked", "over"},
           call : Calls \cup {NoCall}, todo : SUBSET Calls, snap : BOOLEAN]

\* A call has a row from the answer that made it on.
RowsFollow == \A c \in Calls : row[c] = "none" <=> c[1] > round

\* A result is a row that was ingested.
ResultsFollow == \A c \in Calls : results[c] = IF row[c] = "ingested" THEN 1 ELSE 0

\* No row is left over for the model, or for an end of the run that is no error.
NothingOpen ==
  fiber = "model" \/ (~active /\ ~errored) => \A c \in Calls : row[c] \in {"none", "ingested"}

\* The rows of earlier answers were ingested before the model was called again.
Earlier == \A c \in Calls : c[1] < round => row[c] = "ingested"

\* What happens to a call happens after its row was claimed.
Fresh == \A c \in Calls : row[c] \in {"none", "registered"} => executed[c] = 0 /\ work[c] = "none"

\* The request inside of CodeMode is sent at the end of its wait.
WaitOf(c) ==
  /\ work[c] \in {"code", "asking", "granted"} => executed[c] = 0
  /\ work[c] \in {"asking", "granted"} => Kind(c) = "codeask"
  /\ work[c] = "granted" => [call |-> c, nested |-> TRUE] \in approved

Waits == \A c \in Calls : WaitOf(c)

\* A loop that is about to launch a call has claimed it, alone, and nobody
\* has launched it.
ClaimOf(l) ==
  /\ loop[l].at \in {"stored", "refused", "started"} => loop[l].call \in Calls
  /\ loop[l].at = "started" =>
       /\ row[loop[l].call] \notin {"none", "registered"}
       /\ executed[loop[l].call] = 0 /\ work[loop[l].call] = "none"
       /\ \A m \in Loops : loop[m].at = "started" /\ loop[m].call = loop[l].call => m = l
  /\ loop[l].at \in {"stored", "started"} /\ Kind(loop[l].call) = "ask" =>
       [call |-> loop[l].call, nested |-> FALSE] \in approved

Claims == \A l \in Loops : ClaimOf(l)

Inv ==
  /\ RowsFollow /\ ResultsFollow /\ NothingOpen /\ Earlier
  /\ Fresh /\ Waits /\ Claims /\ ExecutedOnce /\ OnlyPermitted

-----------------------------------------------------------------------------
(* The steps that actions share. *)

\* A call is a pair of numbers, and no call is the absent one.
LEMMA CallsArePairs ==
  /\ \A c \in Calls : c[1] \in Nat /\ c[2] \in Nat
  /\ NoCall \notin Calls
BY ToolBounds DEF Calls, Rounds, NoCall

\* Closing or failing rows changes open rows only, to "done".
LEMMA RowsClose ==
  ASSUME NEW rows \in [Calls -> RowStates]
  PROVE  /\ \A c :
              /\ Closed(rows, c) \in [Calls -> RowStates]
              /\ \A d \in Calls : \/ Closed(rows, c)[d] = rows[d]
                                  \/ IsOpen(rows[d]) /\ Closed(rows, c)[d] = "done"
         /\ \A D : /\ Failed(rows, D) \in [Calls -> RowStates]
                   /\ \A d \in Calls : \/ Failed(rows, D)[d] = rows[d]
                                       \/ IsOpen(rows[d]) /\ Failed(rows, D)[d] = "done"
BY DEF Closed, Failed, IsOpen, RowStates

\* A loop that is over has nothing left.
LEMMA OverEffect ==
  ASSUME TypeOK, NEW l \in Loops, Place(l, "over", NoCall, {}, TRUE)
  PROVE  /\ loop' \in [Loops -> Places]
         /\ \A m \in Loops \ {l} : loop'[m] = loop[m]
         /\ loop'[l].at = "over"
<1> DEFINE p == [at |-> "over", call |-> NoCall, todo |-> {}, snap |-> TRUE]
<1>1. p \in Places /\ p.at = "over"
  BY DEF Places
<1>2. loop' = [loop EXCEPT ![l] = p] /\ loop \in [Loops -> Places]
  BY DEF Place, TypeOK, Places
<1> HIDE DEF p
<1> QED
  BY <1>1, <1>2

\* Asking for a deadline leaves the loop with it, stored or refused.
LEMMA AskEffect ==
  ASSUME TypeOK, NEW l \in Loops, NEW c \in Calls, NEW todo \in SUBSET Calls,
         NEW snap \in BOOLEAN, AskDeadline(l, c, todo, snap)
  PROVE  /\ deadlines' \in [Calls -> Nat] /\ refusals' \in 0 .. MaxRefusals
         /\ loop' \in [Loops -> Places]
         /\ \A m \in Loops \ {l} : loop'[m] = loop[m]
         /\ loop'[l].at \in {"stored", "refused"} /\ loop'[l].call = c
<1>1. /\ deadlines' \in [Calls -> Nat] /\ refusals' \in 0 .. MaxRefusals
  <2>1. deadlines \in [Calls -> Nat] /\ refusals \in 0 .. MaxRefusals /\ MaxRefusals \in Nat
    BY ToolBounds DEF TypeOK
  <2>2. \/ deadlines' = [deadlines EXCEPT ![c] = @ + 1] /\ UNCHANGED refusals
        \/ refusals < MaxRefusals /\ refusals' = refusals + 1 /\ UNCHANGED deadlines
    BY DEF AskDeadline
  <2> QED
    BY <2>1, <2>2
<1>2. PICK at \in {"stored", "refused"} : Place(l, at, c, todo, snap)
  BY DEF AskDeadline
<1> DEFINE p == [at |-> at, call |-> c, todo |-> todo, snap |-> snap]
<1>3. p \in Places /\ p.at = at /\ p.call = c
  BY DEF Places
<1>4. loop' = [loop EXCEPT ![l] = p] /\ loop \in [Loops -> Places]
  BY <1>2 DEF Place, TypeOK, Places
<1> HIDE DEF p
<1> QED
  BY <1>1, <1>3, <1>4

\* A loop that goes on fails the denied calls and stops at a deadline of a call
\* that needs no approval, at a request, or at its end.
LEMMA ProcessEffect ==
  ASSUME TypeOK, NEW l \in Loops, NEW rows \in [Calls -> RowStates], NEW h \in Hils,
         NEW todo \in SUBSET Calls, Process(l, rows, h, todo)
  PROVE  /\ hil' \in Hils
         /\ deadlines' \in [Calls -> Nat] /\ refusals' \in 0 .. MaxRefusals
         /\ row' \in [Calls -> RowStates]
         /\ \A d \in Calls : row'[d] = rows[d] \/ (IsOpen(rows[d]) /\ row'[d] = "done")
         /\ loop' \in [Loops -> Places]
         /\ \A m \in Loops \ {l} : loop'[m] = loop[m]
         /\ loop'[l].at \in {"stored", "refused", "asked", "over"}
         /\ loop'[l].at \in {"stored", "refused"} =>
              loop'[l].call \in Calls /\ Kind(loop'[l].call) # "ask"
<1>1. ASSUME NEW at \in {"asked", "over"}, Place(l, at, NoCall, {}, TRUE)
      PROVE  /\ loop' \in [Loops -> Places]
             /\ \A m \in Loops \ {l} : loop'[m] = loop[m]
             /\ loop'[l].at \in {"asked", "over"}
  <2> DEFINE p == [at |-> at, call |-> NoCall, todo |-> {}, snap |-> TRUE]
  <2>1. p \in Places /\ p.at = at
    BY DEF Places
  <2>2. loop' = [loop EXCEPT ![l] = p] /\ loop \in [Loops -> Places]
    BY <1>1 DEF Place, TypeOK, Places
  <2> HIDE DEF p
  <2> QED
    BY <2>1, <2>2
<1>2. deadlines \in [Calls -> Nat] /\ refusals \in 0 .. MaxRefusals
  BY DEF TypeOK
<1>3. CASE /\ \A c \in todo : Kind(c) = "deny"
           /\ row' = Failed(rows, todo)
           /\ Place(l, "over", NoCall, {}, TRUE)
           /\ hil' = h
           /\ UNCHANGED <<deadlines, refusals>>
  <2> USE DEF Places
  <2>1. /\ loop' \in [Loops -> Places]
        /\ \A m \in Loops \ {l} : loop'[m] = loop[m]
        /\ loop'[l].at \in {"asked", "over"}
    BY <1>1, <1>3
  <2> QED
    BY <1>2, <1>3, <2>1, RowsClose
<1>4. CASE \E c \in todo :
             LET before == {d \in todo : d[2] < c[2]} IN
             /\ Kind(c) # "deny" /\ \A d \in before : Kind(d) = "deny"
             /\ row' = Failed(rows, before)
             /\ \/ /\ Kind(c) = "ask"
                   /\ Place(l, "asked", NoCall, {}, TRUE)
                   /\ hil' = [call |-> c, nested |-> FALSE]
                   /\ UNCHANGED <<deadlines, refusals>>
                \/ /\ Kind(c) # "ask"
                   /\ hil' = h
                   /\ AskDeadline(l, c, {d \in todo : d[2] > c[2]}, TRUE)
  <2>1. PICK c \in todo :
          /\ \E D : row' = Failed(rows, D)
          /\ \/ /\ Kind(c) = "ask"
                /\ Place(l, "asked", NoCall, {}, TRUE)
                /\ hil' = [call |-> c, nested |-> FALSE]
                /\ UNCHANGED <<deadlines, refusals>>
             \/ /\ Kind(c) # "ask"
                /\ hil' = h
                /\ AskDeadline(l, c, {d \in todo : d[2] > c[2]}, TRUE)
    BY <1>4
  <2>2. /\ row' \in [Calls -> RowStates]
        /\ \A d \in Calls : row'[d] = rows[d] \/ (IsOpen(rows[d]) /\ row'[d] = "done")
    BY <2>1, RowsClose
  <2>3. CASE /\ Place(l, "asked", NoCall, {}, TRUE)
             /\ hil' = [call |-> c, nested |-> FALSE]
             /\ UNCHANGED <<deadlines, refusals>>
    <3>1. /\ loop' \in [Loops -> Places]
          /\ \A m \in Loops \ {l} : loop'[m] = loop[m]
          /\ loop'[l].at \in {"asked", "over"}
      BY <1>1, <2>3
    <3>2. hil' \in Hils
      BY <2>3 DEF Hils
    <3> QED
      BY <1>2, <2>2, <2>3, <3>1, <3>2
  <2>4. CASE /\ Kind(c) # "ask"
             /\ hil' = h
             /\ AskDeadline(l, c, {d \in todo : d[2] > c[2]}, TRUE)
    <3>1. c \in Calls /\ {d \in todo : d[2] > c[2]} \in SUBSET Calls
      OBVIOUS
    <3>2. /\ deadlines' \in [Calls -> Nat] /\ refusals' \in 0 .. MaxRefusals
          /\ loop' \in [Loops -> Places]
          /\ \A m \in Loops \ {l} : loop'[m] = loop[m]
          /\ loop'[l].at \in {"stored", "refused"} /\ loop'[l].call = c
      BY <2>4, <3>1, AskEffect
    <3> QED
      BY <2>2, <2>4, <3>1, <3>2
  <2> QED
    BY <2>1, <2>3, <2>4
<1> QED
  BY <1>3, <1>4 DEF Process

-----------------------------------------------------------------------------
(* Types. *)

LEMMA TypesInit == Init => TypeOK
<1> SUFFICES ASSUME Init
             PROVE  TypeOK
  OBVIOUS
<1>1. Len(Batches) \in Nat /\ MaxCrashes \in Nat /\ MaxRefusals \in Nat
  BY ToolBounds
<1>2. 0 \in 0 .. Len(Batches) /\ 0 \in 0 .. MaxCrashes /\ 0 \in 0 .. MaxRefusals
  BY <1>1
<1>3. Idle \in Places
  BY DEF Idle, Places
<1>4. loop \in [Loops -> Places]
  BY <1>3 DEF Init
<1> QED
  BY <1>2, <1>4 DEF Init, TypeOK, Places

\* Going on to Process keeps the types.
LEMMA TypesProcess ==
  ASSUME TypeOK, NEW l \in Loops, NEW rows \in [Calls -> RowStates], NEW h \in Hils,
         NEW todo \in SUBSET Calls, Process(l, rows, h, todo)
  PROVE  /\ hil' \in Hils
         /\ deadlines' \in [Calls -> Nat] /\ refusals' \in 0 .. MaxRefusals
         /\ row' \in [Calls -> RowStates]
         /\ loop' \in [Loops -> Places]
BY ProcessEffect

LEMMA TypesContinue ==
  ASSUME TypeOK, NEW l \in Loops, NEW rows \in [Calls -> RowStates], Continue(l, rows)
  PROVE  /\ hil' \in Hils
         /\ deadlines' \in [Calls -> Nat] /\ refusals' \in 0 .. MaxRefusals
         /\ row' \in [Calls -> RowStates]
         /\ loop' \in [Loops -> Places]
<1>1. hil \in Hils /\ loop[l].todo \in SUBSET Calls /\ Registered(rows) \in SUBSET Calls
  BY DEF TypeOK, Hils, Registered
<1>2. PICK todo \in SUBSET Calls : Process(l, rows, hil, todo)
  BY <1>1 DEF Continue
<1> QED
  BY <1>1, <1>2, TypesProcess

LEMMA TypesIngest ==
  ASSUME TypeOK, Ingest
  PROVE  row' \in [Calls -> RowStates] /\ results' \in [Calls -> Nat]
BY DEF TypeOK, Ingest, RowStates

\* Every step keeps the types.
LEMMA TypesStep == TypeOK /\ [Next]_vars => TypeOK'
<1> SUFFICES ASSUME TypeOK, [Next]_vars
             PROVE  TypeOK'
  OBVIOUS
<1> DEFINE Typed ==
      /\ {active, due, deferred, failing, errored, lost} \subseteq BOOLEAN
      /\ round \in 0 .. Len(Batches)
      /\ row \in [Calls -> RowStates]
      /\ hil \in Hils
      /\ deadlines \in [Calls -> Nat]
      /\ fiber \in {"none", "begin", "recover", "model", "answered", "dispatch", "failed"}
      /\ loop \in [Loops -> Places]
      /\ work \in [Calls -> {"none", "sent", "routed", "over",
                             "code", "asking", "granted", "settled"}]
      /\ crashes \in 0 .. MaxCrashes /\ refusals \in 0 .. MaxRefusals
      /\ executed \in [Calls -> Nat] /\ results \in [Calls -> Nat]
      /\ approved \subseteq [call : Calls, nested : BOOLEAN]
<1>1. Typed
  BY DEF TypeOK, RowStates, Hils, Places
<1>2. SUFFICES Typed'
  BY DEF TypeOK, RowStates, Hils, Places
<1>3. Idle \in Places /\ NoHil \in Hils
  BY DEF Idle, Places, Hils
<1>4. \A c : Closed(row, c) \in [Calls -> RowStates]
  BY <1>1, RowsClose
<1>5. Registered(row) \in SUBSET Calls
  BY DEF Registered
<1>6. Len(Batches) \in Nat /\ MaxCrashes \in Nat /\ MaxRefusals \in Nat
  BY ToolBounds
<1> USE DEF durable, volatile, history, ends
<1>10. ASSUME TickFires
      PROVE  Typed'
  BY <1>10, <1>1 DEF TickFires
<1>11. ASSUME Begin
      PROVE  Typed'
  <2>1. CASE ~active
    BY <1>11, <1>1, <2>1 DEF Begin, EndTick
  <2>2. CASE active /\ hil = NoHil /\ \E c \in Calls : row[c] = "registered"
    <3>1. Process("tick", row, hil, Registered(row)) /\ "tick" \in Loops
      BY <1>11, <2>2 DEF Begin, Loops
    <3>2. /\ hil' \in Hils
          /\ deadlines' \in [Calls -> Nat] /\ refusals' \in 0 .. MaxRefusals
          /\ row' \in [Calls -> RowStates]
          /\ loop' \in [Loops -> Places]
      BY <1>1, <1>5, <3>1, TypesProcess
    <3> QED
      BY <1>11, <1>1, <2>2, <3>2 DEF Begin
  <2>3. CASE active /\ ~(hil = NoHil /\ \E c \in Calls : row[c] = "registered")
    <3>1. CASE \E c \in Calls : IsOpen(row[c])
      BY <1>11, <1>1, <2>3, <3>1 DEF Begin, CheckRows, EndTick
    <3>2. CASE ~\E c \in Calls : IsOpen(row[c])
      BY <1>11, <1>1, <2>3, <3>2, TypesIngest DEF Begin, CheckRows
    <3> QED
      BY <3>1, <3>2
  <2> QED
    BY <2>1, <2>2, <2>3
<1>12. ASSUME Recovered
      PROVE  Typed'
  <2>1. CASE active /\ ~\E c \in Calls : IsOpen(row[c])
    BY <1>12, <1>1, <1>3, <2>1, TypesIngest DEF Recovered, CheckRows
  <2>2. CASE ~(active /\ ~\E c \in Calls : IsOpen(row[c]))
    BY <1>12, <1>1, <1>3, <2>2 DEF Recovered, CheckRows, EndTick
  <2> QED
    BY <2>1, <2>2
<1>13. ASSUME ModelCallsTools
      PROVE  Typed'
  BY <1>13, <1>1, <1>6 DEF ModelCallsTools, RowStates
<1>14. ASSUME ModelFinishes
      PROVE  Typed'
  BY <1>14, <1>1, <1>3 DEF ModelFinishes
<1>15. ASSUME TickStops
      PROVE  Typed'
  BY <1>15, <1>1 DEF TickStops, EndTick
<1>16. ASSUME ProcessAnswer
      PROVE  Typed'
  <2>1. Process("tick", row, hil, Registered(row)) /\ "tick" \in Loops
    BY <1>16 DEF ProcessAnswer, Loops
  <2>2. /\ hil' \in Hils
        /\ deadlines' \in [Calls -> Nat] /\ refusals' \in 0 .. MaxRefusals
        /\ row' \in [Calls -> RowStates]
        /\ loop' \in [Loops -> Places]
    BY <1>1, <1>5, <2>1, TypesProcess
  <2> QED
    BY <1>16, <1>1, <2>2 DEF ProcessAnswer
<1>17. ASSUME Dispatched
      PROVE  Typed'
  BY <1>17, <1>1, <1>3 DEF Dispatched, EndTick
<1>18. ASSUME NEW l \in Loops, LoopRefused(l)
      PROVE  Typed'
  <2>1. CASE active
    BY <1>18, <1>1, <1>4, <2>1, TypesContinue DEF LoopRefused
  <2>2. CASE ~active
    <3>1. row' = Closed(row, loop[l].call) /\ Place(l, "over", NoCall, {}, TRUE)
      BY <1>18, <2>2 DEF LoopRefused
    <3>2. row' \in [Calls -> RowStates] /\ loop' \in [Loops -> Places]
      BY <1>4, <3>1, OverEffect
    <3> QED
      BY <1>18, <1>1, <2>2, <3>2 DEF LoopRefused
  <2> QED
    BY <2>1, <2>2
<1>19. ASSUME NEW l \in Loops, LoopClaims(l)
      PROVE  Typed'
  <2> DEFINE c == loop[l].call
  <2>1. CASE ~active
    BY <1>19, <1>1, <2>1, OverEffect DEF LoopClaims
  <2>2. CASE active /\ row[c] = "registered"
    <3>1. loop' = [loop EXCEPT ![l].at = "started"] /\ row' = [row EXCEPT ![c] = "pending"]
      BY <1>19, <2>2 DEF LoopClaims
    <3>2. loop' \in [Loops -> Places]
      <4>1. loop \in [Loops -> Places]
        BY <1>1
      <4>2. [loop[l] EXCEPT !.at = "started"] \in Places
        BY <4>1 DEF Places
      <4>3. loop' = [loop EXCEPT ![l] = [loop[l] EXCEPT !.at = "started"]]
        BY <3>1
      <4> QED
        BY <4>1, <4>2, <4>3
    <3>3. row' \in [Calls -> RowStates]
      BY <1>1, <3>1 DEF RowStates
    <3> QED
      BY <1>19, <1>1, <2>2, <3>2, <3>3 DEF LoopClaims
  <2>3. CASE active /\ row[c] # "registered"
    BY <1>19, <1>1, <2>3, TypesContinue DEF LoopClaims
  <2> QED
    BY <2>1, <2>2, <2>3
<1>20. ASSUME NEW l \in Loops, LoopLaunches(l)
      PROVE  Typed'
  <2> DEFINE c == loop[l].call
  <2>1. CASE ~active
    BY <1>20, <1>1, <2>1, OverEffect DEF LoopLaunches
  <2>2. CASE active
    <3>1. Continue(l, row)
      BY <1>20, <2>2 DEF LoopLaunches
    <3>2. /\ hil' \in Hils
          /\ deadlines' \in [Calls -> Nat] /\ refusals' \in 0 .. MaxRefusals
          /\ row' \in [Calls -> RowStates]
          /\ loop' \in [Loops -> Places]
      BY <1>1, <3>1, TypesContinue
    <3>3. /\ \/ UNCHANGED <<work, executed>>
             \/ work' = [work EXCEPT ![c] = "code"] /\ UNCHANGED executed
             \/ work' = [work EXCEPT ![c] = "sent"] /\ executed' = [executed EXCEPT ![c] = @ + 1]
          /\ {due', failing'} \subseteq BOOLEAN
      BY <1>20, <1>1, <2>2 DEF LoopLaunches, Resume
    <3>4. executed' \in [Calls -> Nat]
      <4>1. executed \in [Calls -> Nat]
        BY <1>1
      <4>2. executed' = executed \/ executed' = [executed EXCEPT ![c] = @ + 1]
        BY <3>3
      <4> QED
        BY <4>1, <4>2
    <3> QED
      BY <1>20, <1>1, <3>2, <3>3, <3>4 DEF LoopLaunches
  <2> QED
    BY <2>1, <2>2
<1>21. ASSUME NEW h \in Handlers, HandlerEnds(h)
      PROVE  Typed'
  BY <1>21, <1>1, <1>3 DEF HandlerEnds, Resume
<1>22. ASSUME NEW c \in Calls, Responds(c)
      PROVE  Typed'
  BY <1>22, <1>1, <1>4 DEF Responds, Resume
<1>23. ASSUME NEW c \in Calls, Routes(c)
      PROVE  Typed'
  BY <1>23, <1>1 DEF Routes, Resume
<1>24. ASSUME NEW c \in Calls, ResultFrame(c)
      PROVE  Typed'
  BY <1>24, <1>1, <1>4 DEF ResultFrame, Resume
<1>25. ASSUME NEW c \in Calls, Deadline(c)
      PROVE  Typed'
  <2> DEFINE stored == {l \in Loops : loop[l].at = "stored" /\ loop[l].call = c}
  <2>1. Cardinality(stored) \in Nat
    <3>1. IsFiniteSet({"tick"})
      BY FS_Singleton
    <3>2. IsFiniteSet(Loops)
      BY <3>1, ToolBounds, FS_Union DEF Loops
    <3> QED
      BY <3>2, FS_Subset, FS_CardinalityType
  <2>2. deadlines[c] > Cardinality(stored) /\ deadlines' = [deadlines EXCEPT ![c] = @ - 1]
    BY <1>25 DEF Deadline
  <2> HIDE DEF stored
  <2>3. deadlines' \in [Calls -> Nat]
    BY <1>1, <2>1, <2>2
  <2>4. row' \in [Calls -> RowStates] /\ {due', failing'} \subseteq BOOLEAN
    BY <1>25, <1>1, <1>4 DEF Deadline, Resume
  <2> QED
    BY <1>25, <1>1, <2>3, <2>4 DEF Deadline
<1>26. ASSUME NEW c \in Calls, CodeAsks(c)
      PROVE  Typed'
  BY <1>26, <1>1 DEF CodeAsks, Hils
<1>27. ASSUME NEW c \in Calls, ApprovalTimesOut(c)
      PROVE  Typed'
  BY <1>27, <1>1, <1>3 DEF ApprovalTimesOut
<1>28. ASSUME NEW c \in Calls, CodeExecutes(c)
      PROVE  Typed'
  BY <1>28, <1>1 DEF CodeExecutes
<1>29. ASSUME NEW c \in Calls, CodeEnds(c)
      PROVE  Typed'
  BY <1>29, <1>1, <1>4 DEF CodeEnds, Resume
<1>30. ASSUME NEW approve \in BOOLEAN, HilCodeMode(approve)
      PROVE  Typed'
  BY <1>30, <1>1, <1>3, <1>4 DEF HilCodeMode, Decided, Hils
<1>31. ASSUME HilStale
      PROVE  Typed'
  <2>1. /\ hil' \in Hils /\ approved' = approved
        /\ row' = Closed(row, hil.call) \/ UNCHANGED row
        /\ due' \in BOOLEAN /\ lost' \in BOOLEAN
    BY <1>31, <1>1, <1>3 DEF HilStale, Decided
  <2>2. row' \in [Calls -> RowStates] /\ {active', due', deferred'} \subseteq BOOLEAN
    BY <1>31, <1>1, <1>4, <2>1 DEF HilStale
  <2> QED
    BY <1>31, <1>1, <2>1, <2>2 DEF HilStale
<1>32. ASSUME NEW h \in Handlers, HilApproves(h)
      PROVE  Typed'
  <2>1. hil \in [call : Calls, nested : BOOLEAN] /\ AskDeadline(h, hil.call, {}, FALSE)
    BY <1>32, <1>1 DEF HilApproves, Hils
  <2>2. h \in Loops /\ hil.call \in Calls
    BY <2>1 DEF Loops
  <2>3. /\ deadlines' \in [Calls -> Nat] /\ refusals' \in 0 .. MaxRefusals
        /\ loop' \in [Loops -> Places]
    BY <2>1, <2>2, AskEffect
  <2> QED
    BY <1>32, <1>1, <1>3, <2>1, <2>3 DEF HilApproves
<1>33. ASSUME NEW h \in Handlers, HilDenies(h)
      PROVE  Typed'
  <2> DEFINE rows == Closed(row, hil.call)
  <2>1. Process(h, rows, NoHil, Registered(rows)) /\ h \in Loops
    BY <1>33 DEF HilDenies, Loops
  <2>2. rows \in [Calls -> RowStates] /\ Registered(rows) \in SUBSET Calls
    BY <1>4 DEF Registered
  <2> HIDE DEF rows
  <2>3. /\ hil' \in Hils
        /\ deadlines' \in [Calls -> Nat] /\ refusals' \in 0 .. MaxRefusals
        /\ row' \in [Calls -> RowStates]
        /\ loop' \in [Loops -> Places]
    BY <1>3, <2>1, <2>2, TypesProcess
  <2> QED
    BY <1>33, <1>1, <2>3 DEF HilDenies
<1>34. ASSUME Stop
      PROVE  Typed'
  BY <1>34, <1>1, <1>3, TypesIngest DEF Stop
<1>35. ASSUME Restart
      PROVE  Typed'
  <2>1. crashes' \in 0 .. MaxCrashes
    BY <1>35, <1>1, <1>6 DEF Restart
  <2>2. loop' \in [Loops -> Places]
    BY <1>35, <1>3 DEF Restart
  <2>3. {active', due', deferred', failing', lost'} \subseteq BOOLEAN
    BY <1>35, <1>1 DEF Restart
  <2> QED
    BY <1>35, <1>1, <2>1, <2>2, <2>3 DEF Restart
<1>36. ASSUME TickFails
       PROVE  Typed'
  BY <1>36, <1>1, <1>3 DEF TickFails
<1>37. ASSUME TickErrorEnds
       PROVE  Typed'
  BY <1>37, <1>1, <1>3 DEF TickErrorEnds, FinishError, EndTick
<1>38. ASSUME ScheduleErrorEnds
       PROVE  Typed'
  BY <1>38, <1>1, <1>3 DEF ScheduleErrorEnds, FinishError
<1>39. CASE UNCHANGED vars
  BY <1>39, <1>1 DEF vars
<1> QED
  BY <1>10, <1>11, <1>12, <1>13, <1>14, <1>15, <1>16, <1>17, <1>18, <1>19, <1>20, <1>21,
     <1>22, <1>23, <1>24, <1>25, <1>26, <1>27, <1>28, <1>29, <1>30, <1>31, <1>32, <1>33,
     <1>34, <1>35, <1>36, <1>37, <1>38, <1>39 DEF Next, Returns,
     TickStep, LoopStep, CodeStep, UserDecides

\* Every variable keeps its type, for any answers, policies, handlers and bounds.
THEOREM TypesHold == Spec => []TypeOK
<1>1. Init => TypeOK
  BY TypesInit
<1>2. TypeOK /\ [Next]_vars => TypeOK'
  BY TypesStep
<1> QED
  BY <1>1, <1>2, PTL DEF Spec

-----------------------------------------------------------------------------
(* What most steps have in common: they close rows, a loop does not come to *)
(* launch a call, and no execution starts.                                  *)

RowsClosed ==
  \A c \in Calls : \/ row'[c] = row[c]
                   \/ row[c] \in {"registered", "pending"} /\ row'[c] \in {"pending", "done"}

RowsQuiet ==
  \A c \in Calls : row'[c] \in {"none", "registered"} => row[c] \in {"none", "registered"}

LoopQuiet(l) ==
  \/ loop'[l] = loop[l]
  \/ /\ loop'[l].at # "started"
     /\ loop'[l].at \in {"stored", "refused"} =>
          /\ loop'[l].call \in Calls
          /\ Kind(loop'[l].call) = "ask" => [call |-> loop'[l].call, nested |-> FALSE] \in approved'

WorkQuiet ==
  \A c \in Calls : \/ work'[c] = work[c]
                   \/ work[c] # "none" /\ work'[c] \notin {"code", "asking", "granted"}

History == RowsFollow /\ ResultsFollow /\ NothingOpen /\ Earlier
Effects == Fresh /\ Waits /\ Claims /\ ExecutedOnce /\ OnlyPermitted

\* Closing rows leaves the history as it should be.
LEMMA HistoryQuiet ==
  ASSUME TypeOK, History, RowsClosed, UNCHANGED <<round, results>>,
         active' = active, errored' = errored, fiber' = "model" => fiber = "model"
  PROVE  History'
BY DEF History, RowsFollow, ResultsFollow, NothingOpen, Earlier, RowsClosed

\* Ingesting makes it so.
LEMMA HistoryIngest ==
  ASSUME TypeOK, History, Ingest, UNCHANGED round
  PROVE  History'
<1>1. \A c \in Calls : row'[c] = IF row[c] = "none" THEN "none" ELSE "ingested"
  BY DEF Ingest
<1>2. \A c \in Calls : results'[c] = IF row[c] \in {"none", "ingested"}
                                       THEN results[c] ELSE results[c] + 1
  BY DEF Ingest
<1>3. RowsFollow'
  BY <1>1 DEF History, RowsFollow
<1>4. ResultsFollow'
  <2> SUFFICES ASSUME NEW c \in Calls
               PROVE  results'[c] = IF row'[c] = "ingested" THEN 1 ELSE 0
    BY DEF ResultsFollow
  <2>1. results[c] = IF row[c] = "ingested" THEN 1 ELSE 0
    BY DEF History, ResultsFollow
  <2>2. CASE row[c] \in {"none", "ingested"}
    BY <1>1, <1>2, <2>1, <2>2
  <2>3. CASE row[c] \notin {"none", "ingested"}
    BY <1>1, <1>2, <2>1, <2>3
  <2> QED
    BY <2>2, <2>3
<1>5. NothingOpen'
  BY <1>1 DEF NothingOpen
<1>6. Earlier'
  BY <1>1 DEF History, Earlier
<1> QED
  BY <1>3, <1>4, <1>5, <1>6 DEF History

\* A quiet step disturbs no claim and no execution.
LEMMA EffectsQuiet ==
  ASSUME TypeOK, Effects, RowsQuiet, \A l \in Loops : LoopQuiet(l), WorkQuiet,
         UNCHANGED executed, approved \subseteq approved'
  PROVE  Effects'
<1>1. Fresh'
  BY DEF Effects, Fresh, RowsQuiet, WorkQuiet
<1>2. Waits'
  <2> SUFFICES ASSUME NEW c \in Calls
               PROVE  WaitOf(c)'
    BY DEF Waits
  <2>1. WaitOf(c)
    BY DEF Effects, Waits
  <2>2. CASE work'[c] = work[c]
    BY <2>1, <2>2 DEF WaitOf
  <2>3. CASE work'[c] \notin {"code", "asking", "granted"}
    BY <2>3 DEF WaitOf
  <2> QED
    BY <2>2, <2>3 DEF WorkQuiet
<1>3. Claims'
  <2> SUFFICES ASSUME NEW l \in Loops
                PROVE  ClaimOf(l)'
    BY DEF Claims
  <2>1. \A m \in Loops : loop'[m].at = "started" => loop'[m] = loop[m]
    BY DEF LoopQuiet
  <2>2. CASE loop'[l] = loop[l]
    BY <2>1, <2>2 DEF Effects, Claims, ClaimOf, RowsQuiet, WorkQuiet
  <2>3. CASE loop'[l] # loop[l]
    BY <2>3 DEF LoopQuiet, ClaimOf
  <2> QED
    BY <2>2, <2>3
<1>4. ExecutedOnce' /\ OnlyPermitted'
  BY DEF Effects, ExecutedOnce, OnlyPermitted
<1> QED
  BY <1>1, <1>2, <1>3, <1>4 DEF Effects

\* Both together, for the steps that are quiet in both ways.
LEMMA QuietStep ==
  ASSUME TypeOK, Inv, RowsClosed, \A l \in Loops : LoopQuiet(l), WorkQuiet,
         UNCHANGED <<round, results, executed>>, active' = active,
         errored' = errored, fiber' = "model" => fiber = "model", approved \subseteq approved'
  PROVE  Inv'
<1>1. RowsQuiet
  BY DEF RowsClosed, RowsQuiet
<1> QED
  BY <1>1, HistoryQuiet, EffectsQuiet DEF Inv, History, Effects

\* A loop that goes on is quiet.
LEMMA ProcessQuiet ==
  ASSUME TypeOK, NEW l \in Loops, NEW rows \in [Calls -> RowStates], NEW h \in Hils,
         NEW todo \in SUBSET Calls, Process(l, rows, h, todo),
         \A c \in Calls : \/ rows[c] = row[c]
                          \/ row[c] \in {"registered", "pending"} /\ rows[c] = "done"
  PROVE  /\ RowsClosed
         /\ \A m \in Loops : LoopQuiet(m)
         /\ loop'[l].at # "started" /\ \A m \in Loops \ {l} : loop'[m] = loop[m]
<1>1. /\ \A d \in Calls : row'[d] = rows[d] \/ (IsOpen(rows[d]) /\ row'[d] = "done")
      /\ \A m \in Loops \ {l} : loop'[m] = loop[m]
      /\ loop'[l].at \in {"stored", "refused", "asked", "over"}
      /\ loop'[l].at \in {"stored", "refused"} =>
           loop'[l].call \in Calls /\ Kind(loop'[l].call) # "ask"
  BY ProcessEffect
<1>2. RowsClosed
  BY <1>1 DEF RowsClosed, IsOpen
<1>3. \A m \in Loops : LoopQuiet(m)
  BY <1>1 DEF LoopQuiet
<1> QED
  BY <1>1, <1>2, <1>3

LEMMA ContinueQuiet ==
  ASSUME TypeOK, NEW l \in Loops, NEW rows \in [Calls -> RowStates], Continue(l, rows),
         \A c \in Calls : \/ rows[c] = row[c]
                          \/ row[c] \in {"registered", "pending"} /\ rows[c] = "done"
  PROVE  /\ RowsClosed
         /\ \A m \in Loops : LoopQuiet(m)
         /\ loop'[l].at # "started" /\ \A m \in Loops \ {l} : loop'[m] = loop[m]
<1>1. hil \in Hils /\ loop[l].todo \in SUBSET Calls /\ Registered(rows) \in SUBSET Calls
  BY DEF TypeOK, Hils, Registered
<1>2. PICK todo \in SUBSET Calls : Process(l, rows, hil, todo)
  BY <1>1 DEF Continue
<1> QED
  BY <1>1, <1>2, ProcessQuiet

\* Closing a row is quiet.
LEMMA ClosedQuiet ==
  ASSUME TypeOK, NEW c
  PROVE  /\ Closed(row, c) \in [Calls -> RowStates]
         /\ \A d \in Calls : \/ Closed(row, c)[d] = row[d]
                             \/ row[d] \in {"registered", "pending"} /\ Closed(row, c)[d] = "done"
<1>1. row \in [Calls -> RowStates]
  BY DEF TypeOK, RowStates
<1> QED
  BY <1>1, RowsClose DEF IsOpen

-----------------------------------------------------------------------------
(* The invariant. *)

LEMMA InvInit == Init => Inv
<1> SUFFICES ASSUME Init
             PROVE  Inv
  OBVIOUS
<1>1. RowsFollow /\ Earlier
  BY CallsArePairs, ToolBounds DEF Init, RowsFollow, Earlier, Calls, Rounds
<1>2. \A l \in Loops : loop[l].at = "idle"
  BY DEF Init, Idle
<1> QED
  BY <1>1, <1>2 DEF Init, Inv, ResultsFollow, NothingOpen, Fresh, Waits, WaitOf, Claims, ClaimOf,
    ExecutedOnce,
     OnlyPermitted

\* Every step keeps the invariant.
LEMMA InvStep == TypeOK /\ Inv /\ [Next]_vars => Inv'
<1> SUFFICES ASSUME TypeOK, Inv, [Next]_vars
             PROVE  Inv'
  OBVIOUS
<1>1. row \in [Calls -> RowStates] /\ hil \in Hils /\ NoHil \in Hils /\ loop \in [Loops -> Places]
  BY DEF TypeOK, RowStates, Hils, Places
<1>2. History /\ Effects
  BY DEF Inv, History, Effects
<1>3. SUFFICES History' /\ Effects'
  BY DEF Inv, History, Effects
<1>4. Registered(row) \in SUBSET Calls
  BY DEF Registered
<1>5. ASSUME NEW l \in Loops, loop' = [loop EXCEPT ![l] = Idle]
      PROVE  \A m \in Loops : LoopQuiet(m)
  BY <1>1, <1>5 DEF LoopQuiet, Idle
<1>6. ASSUME UNCHANGED loop
      PROVE  \A m \in Loops : LoopQuiet(m)
  BY <1>6 DEF LoopQuiet
<1>7. ASSUME UNCHANGED work
      PROVE  WorkQuiet
  BY <1>7 DEF WorkQuiet
<1>8. ASSUME UNCHANGED row
      PROVE  RowsClosed
  BY <1>8 DEF RowsClosed
<1>9. ASSUME NEW c, row' = Closed(row, c)
      PROVE  RowsClosed
  BY <1>9, ClosedQuiet DEF RowsClosed
<1>10. ASSUME RowsClosed, \A l \in Loops : LoopQuiet(l), WorkQuiet,
              UNCHANGED <<round, results, executed>>, active' = active, errored' = errored,
              fiber' = "model" => fiber = "model", approved \subseteq approved'
       PROVE  History' /\ Effects'
  BY <1>10, QuietStep DEF Inv, History, Effects
<1>11. ASSUME Ingest, \A l \in Loops : LoopQuiet(l), WorkQuiet,
              UNCHANGED <<round, executed>>, approved \subseteq approved'
       PROVE  History' /\ Effects'
  <2>1. RowsQuiet
    BY <1>11 DEF Ingest, RowsQuiet
  <2> QED
    BY <1>2, <1>11, <2>1, HistoryIngest, EffectsQuiet
<1> USE DEF durable, volatile, history, ends
<1>20. ASSUME TickFires
       PROVE  History' /\ Effects'
  BY <1>20, <1>6, <1>7, <1>8, <1>10 DEF TickFires
<1>21. ASSUME Begin
       PROVE  History' /\ Effects'
  <2>1. CASE ~active
    BY <1>21, <1>6, <1>7, <1>8, <1>10, <2>1 DEF Begin, EndTick
  <2>2. CASE active /\ hil = NoHil /\ \E c \in Calls : row[c] = "registered"
    <3>1. Process("tick", row, hil, Registered(row)) /\ "tick" \in Loops
      BY <1>21, <2>2 DEF Begin, Loops
    <3>2. RowsClosed /\ \A l \in Loops : LoopQuiet(l)
      BY <1>1, <1>4, <3>1, ProcessQuiet
    <3> QED
      BY <1>21, <1>7, <1>10, <2>2, <3>2 DEF Begin
  <2>3. CASE active /\ ~(hil = NoHil /\ \E c \in Calls : row[c] = "registered")
    BY <1>21, <1>6, <1>7, <1>8, <1>10, <1>11, <2>3 DEF Begin, CheckRows, EndTick
  <2> QED
    BY <2>1, <2>2, <2>3
<1>22. ASSUME Recovered
       PROVE  History' /\ Effects'
  <2>1. \A l \in Loops : LoopQuiet(l)
    BY <1>22, <1>5 DEF Recovered, Loops
  <2> QED
    BY <1>22, <1>7, <1>8, <1>10, <1>11, <2>1 DEF Recovered, CheckRows, EndTick
<1>23. ASSUME ModelCallsTools
       PROVE  History' /\ Effects'
  <2>1. \A c \in Calls : row'[c] = IF c[1] = round + 1 THEN "registered" ELSE row[c]
    BY <1>23 DEF ModelCallsTools
  <2>2. \A c \in Calls : row[c] = "none" <=> c[1] > round
    BY <1>2 DEF History, RowsFollow
  <2>3. round \in Nat /\ round' = round + 1 /\ active' /\ fiber' # "model"
    BY <1>23, ToolBounds DEF ModelCallsTools, TypeOK
  <2>4. RowsFollow'
    BY <2>1, <2>2, <2>3, CallsArePairs DEF RowsFollow
  <2>5. \A c \in Calls : c[1] = round + 1 => row[c] = "none"
    BY <2>2, <2>3
  <2>6. ResultsFollow'
    BY <1>23, <1>2, <2>1, <2>5 DEF ModelCallsTools, History, ResultsFollow
  <2>7. Earlier'
    <3>1. \A c \in Calls : row[c] \in {"none", "ingested"}
      BY <1>23, <1>2 DEF ModelCallsTools, History, NothingOpen
    <3>2. \A c \in Calls : c[1] < round + 1 => ~(c[1] > round) /\ c[1] # round + 1
      BY <2>3, CallsArePairs
    <3> QED
      BY <2>1, <2>2, <2>3, <3>1, <3>2 DEF Earlier
  <2>8. History'
    BY <2>3, <2>4, <2>6, <2>7 DEF History, NothingOpen
  <2>9. RowsQuiet
    BY <2>1, <2>5 DEF RowsQuiet
  <2> QED
    BY <1>23, <1>2, <1>6, <1>7, <2>8, <2>9, EffectsQuiet DEF ModelCallsTools
<1>24. ASSUME ModelFinishes
       PROVE  History' /\ Effects'
  <2>1. History'
    BY <1>24, <1>2 DEF ModelFinishes, History, RowsFollow, ResultsFollow, NothingOpen, Earlier
  <2>2. RowsQuiet
    BY <1>24 DEF ModelFinishes, RowsQuiet
  <2> QED
    BY <1>24, <1>2, <1>6, <1>7, <2>1, <2>2, EffectsQuiet DEF ModelFinishes
<1>25. ASSUME TickStops
       PROVE  History' /\ Effects'
  BY <1>25, <1>6, <1>7, <1>8, <1>10 DEF TickStops, EndTick
<1>26. ASSUME ProcessAnswer
       PROVE  History' /\ Effects'
  <2>1. Process("tick", row, hil, Registered(row)) /\ "tick" \in Loops
    BY <1>26 DEF ProcessAnswer, Loops
  <2>2. RowsClosed /\ \A l \in Loops : LoopQuiet(l)
    BY <1>1, <1>4, <2>1, ProcessQuiet
  <2> QED
    BY <1>26, <1>7, <1>10, <2>2 DEF ProcessAnswer
<1>27. ASSUME Dispatched
       PROVE  History' /\ Effects'
  <2>1. \A l \in Loops : LoopQuiet(l)
    BY <1>27, <1>5 DEF Dispatched, Loops
  <2> QED
    BY <1>27, <1>7, <1>8, <1>10, <2>1 DEF Dispatched, EndTick
<1>28. ASSUME NEW l \in Loops, LoopRefused(l)
       PROVE  History' /\ Effects'
  <2> DEFINE rows == Closed(row, loop[l].call)
  <2>1. /\ rows \in [Calls -> RowStates]
        /\ \A d \in Calls : \/ rows[d] = row[d]
                            \/ row[d] \in {"registered", "pending"} /\ rows[d] = "done"
    BY ClosedQuiet
  <2>2. \/ active /\ Continue(l, rows)
        \/ row' = rows /\ Place(l, "over", NoCall, {}, TRUE)
    BY <1>28 DEF LoopRefused
  <2> HIDE DEF rows
  <2>3. RowsClosed /\ \A m \in Loops : LoopQuiet(m)
    <3>1. CASE Continue(l, rows)
      BY <2>1, <3>1, ContinueQuiet
    <3>2. CASE row' = rows /\ Place(l, "over", NoCall, {}, TRUE)
      BY <2>1, <3>2, OverEffect DEF RowsClosed, LoopQuiet
    <3> QED
      BY <2>2, <3>1, <3>2
  <2> QED
    BY <1>28, <1>7, <1>10, <2>3 DEF LoopRefused
<1>29. ASSUME NEW l \in Loops, LoopClaims(l)
       PROVE  History' /\ Effects'
  <2> DEFINE c == loop[l].call
  <2>1. CASE ~active
    <3>1. \A m \in Loops : LoopQuiet(m)
      BY <1>29, <2>1, OverEffect DEF LoopClaims, LoopQuiet
    <3> QED
      BY <1>29, <1>7, <1>8, <1>10, <2>1, <3>1 DEF LoopClaims
  <2>2. CASE active /\ row[c] = "registered"
    <3>1. /\ loop' = [loop EXCEPT ![l].at = "started"] /\ row' = [row EXCEPT ![c] = "pending"]
          /\ loop[l].at = "stored"
      BY <1>29, <2>2 DEF LoopClaims
    <3>2. c \in Calls
      BY <1>2, <3>1 DEF Effects, Claims, ClaimOf
    <3>3. RowsClosed
      BY <1>1, <2>2, <3>1, <3>2 DEF RowsClosed
    <3>4. History'
      BY <1>29, <1>2, <3>3, HistoryQuiet DEF LoopClaims
    <3>5. UNCHANGED <<work, executed, approved>>
      BY <1>29 DEF LoopClaims
    <3>6. Fresh' /\ Waits' /\ ExecutedOnce' /\ OnlyPermitted'
      BY <1>1, <1>2, <3>1, <3>2, <3>5 DEF Effects, Fresh, Waits, WaitOf, ExecutedOnce, OnlyPermitted
    <3>7. executed[c] = 0 /\ work[c] = "none"
      BY <1>2, <2>2, <3>2 DEF Effects, Fresh
    <3>8. Kind(c) = "ask" => [call |-> c, nested |-> FALSE] \in approved
      BY <1>2, <3>1 DEF Effects, Claims, ClaimOf
    <3>9. /\ loop'[l].at = "started" /\ loop'[l].call = c
          /\ \A m \in Loops \ {l} : loop'[m] = loop[m]
      BY <1>1, <3>1 DEF Places
    <3>10. \A m \in Loops : loop[m].at = "started" => loop[m].call # c
      BY <1>2, <2>2 DEF Effects, Claims, ClaimOf
    <3>11. row'[c] = "pending" /\ \A d \in Calls \ {c} : row'[d] = row[d]
      BY <1>1, <3>1, <3>2
    <3> HIDE DEF c
    <3>12. Claims'
      <4> SUFFICES ASSUME NEW k \in Loops
                    PROVE  ClaimOf(k)'
        BY DEF Claims
      <4>1. CASE k = l
        BY <3>2, <3>5, <3>7, <3>8, <3>9, <3>10, <3>11, <4>1 DEF ClaimOf
      <4>2. CASE k # l
        BY <1>2, <3>5, <3>9, <3>10, <3>11, <4>2 DEF Effects, Claims, ClaimOf
      <4> QED
        BY <4>1, <4>2
    <3> QED
      BY <3>4, <3>6, <3>12 DEF Effects
  <2>3. CASE active /\ row[c] # "registered"
    <3>1. Continue(l, row)
      BY <1>29, <2>3 DEF LoopClaims
    <3>2. RowsClosed /\ \A m \in Loops : LoopQuiet(m)
      BY <1>1, <3>1, ContinueQuiet
    <3> QED
      BY <1>29, <1>7, <1>10, <2>3, <3>2 DEF LoopClaims
  <2> QED
    BY <2>1, <2>2, <2>3
<1>30. ASSUME NEW l \in Loops, LoopLaunches(l)
       PROVE  History' /\ Effects'
  <2> DEFINE c == loop[l].call
  <2>1. CASE ~active
    <3>1. \A m \in Loops : LoopQuiet(m)
      BY <1>30, <2>1, OverEffect DEF LoopLaunches, LoopQuiet
    <3> QED
      BY <1>30, <1>7, <1>8, <1>10, <2>1, <3>1 DEF LoopLaunches
  <2>2. CASE active
    <3>1. Continue(l, row) /\ loop[l].at = "started"
      BY <1>30, <2>2 DEF LoopLaunches
    <3>2. /\ RowsClosed
          /\ \A m \in Loops : LoopQuiet(m)
          /\ loop'[l].at # "started" /\ \A m \in Loops \ {l} : loop'[m] = loop[m]
      BY <1>1, <3>1, ContinueQuiet
    <3>3. /\ c \in Calls /\ row[c] \notin {"none", "registered"}
          /\ executed[c] = 0 /\ work[c] = "none"
          /\ \A m \in Loops \ {l} : loop[m].at = "started" => loop[m].call # c
          /\ Kind(c) = "ask" => [call |-> c, nested |-> FALSE] \in approved
      BY <1>2, <3>1 DEF Effects, Claims, ClaimOf
    <3>4. History' /\ approved' = approved
      BY <1>30, <1>2, <3>2, HistoryQuiet DEF LoopLaunches
    <3>5. \/ UNCHANGED <<work, executed>>
          \/ work' = [work EXCEPT ![c] = "code"] /\ UNCHANGED executed
          \/ /\ work' = [work EXCEPT ![c] = "sent"] /\ executed' = [executed EXCEPT ![c] = @ + 1]
             /\ Kind(c) \in {"auto", "ask"}
      BY <1>30, <2>2 DEF LoopLaunches
    <3>6. CASE UNCHANGED <<work, executed>>
      BY <1>7, <1>10, <1>30, <2>2, <3>2, <3>6 DEF LoopLaunches
    <3>7. CASE ~UNCHANGED <<work, executed>>
      <4> HIDE DEF c
      <4>1. /\ work'[c] \in {"code", "sent"} /\ executed'[c] \in {0, 1}
            /\ work'[c] = "code" => executed'[c] = 0
            /\ executed'[c] = 1 => Kind(c) \in {"auto", "ask"}
            /\ \A d \in Calls \ {c} : work'[d] = work[d] /\ executed'[d] = executed[d]
        BY <3>3, <3>5, <3>7 DEF TypeOK
      <4>2. \A d \in Calls : row'[d] \in {"none", "registered"} =>
                             row[d] \in {"none", "registered"} /\ d # c
        BY <3>2, <3>3 DEF RowsClosed
      <4>3. Fresh'
        BY <1>2, <4>1, <4>2 DEF Effects, Fresh
      <4>4. Waits'
        <5> SUFFICES ASSUME NEW d \in Calls
                      PROVE  WaitOf(d)'
          BY DEF Waits
        <5>1. CASE d = c
          BY <4>1, <5>1 DEF WaitOf
        <5>2. CASE d # c
          BY <1>2, <3>4, <4>1, <5>2 DEF Effects, Waits, WaitOf
        <5> QED
          BY <5>1, <5>2
      <4>5. ExecutedOnce' /\ OnlyPermitted'
        <5> SUFFICES ASSUME NEW d \in Calls
                     PROVE  /\ executed'[d] <= 1
                            /\ executed'[d] > 0 =>
                                 CASE Kind(d) = "deny"    -> FALSE
                                   [] Kind(d) = "ask"     ->
                                        [call |-> d, nested |-> FALSE] \in approved'
                                   [] Kind(d) = "codeask" ->
                                        [call |-> d, nested |-> TRUE] \in approved'
                                   [] OTHER               -> TRUE
          BY DEF ExecutedOnce, OnlyPermitted
        <5>1. CASE d = c
          BY <3>3, <3>4, <4>1, <5>1
        <5>2. CASE d # c
          BY <1>2, <3>4, <4>1, <5>2 DEF Effects, ExecutedOnce, OnlyPermitted
        <5> QED
          BY <5>1, <5>2
      <4>6. Claims'
        <5> SUFFICES ASSUME NEW k \in Loops
                      PROVE  ClaimOf(k)'
          BY DEF Claims
        <5>1. CASE k = l
          BY <3>1, <3>2, <5>1 DEF LoopQuiet, ClaimOf
        <5>2. CASE k # l
          <6>1. /\ loop'[k] = loop[k] /\ (loop[k].at = "started" => loop[k].call # c)
                /\ \A m \in Loops : loop'[m].at = "started" => loop'[m] = loop[m]
            BY <3>2, <3>3, <5>2
          <6>2. /\ loop[k].at \in {"stored", "refused", "started"} => loop[k].call \in Calls
                /\ loop[k].at = "started" =>
                     /\ row[loop[k].call] \notin {"none", "registered"}
                     /\ executed[loop[k].call] = 0 /\ work[loop[k].call] = "none"
                     /\ \A m \in Loops : loop[m].at = "started"
                          /\ loop[m].call = loop[k].call => m = k
                /\ loop[k].at \in {"stored", "started"} /\ Kind(loop[k].call) = "ask" =>
                     [call |-> loop[k].call, nested |-> FALSE] \in approved
            BY <1>2 DEF Effects, Claims, ClaimOf
          <6>3. CASE loop[k].at = "started"
            <7>1. loop[k].call \in Calls \ {c}
              BY <6>1, <6>2, <6>3
            <7> QED
              BY <3>4, <4>1, <4>2, <6>1, <6>2, <6>3, <7>1 DEF ClaimOf
          <6>4. CASE loop[k].at # "started"
            BY <3>4, <6>1, <6>2, <6>4 DEF ClaimOf
          <6> QED
            BY <6>3, <6>4
        <5> QED
          BY <5>1, <5>2
      <4> QED
        BY <3>4, <4>3, <4>4, <4>5, <4>6 DEF Effects
    <3> QED
      BY <3>6, <3>7
  <2> QED
    BY <2>1, <2>2
<1>31. ASSUME NEW h \in Handlers, HandlerEnds(h)
       PROVE  History' /\ Effects'
  <2>1. \A l \in Loops : LoopQuiet(l)
    BY <1>31, <1>5 DEF HandlerEnds, Loops
  <2> QED
    BY <1>31, <1>7, <1>8, <1>10, <2>1 DEF HandlerEnds, Resume
<1>32. ASSUME NEW c \in Calls, Responds(c)
       PROVE  History' /\ Effects'
  <2>1. WorkQuiet
    BY <1>32 DEF Responds, WorkQuiet, TypeOK
  <2> QED
    BY <1>32, <1>6, <1>9, <1>10, <2>1 DEF Responds
<1>33. ASSUME NEW c \in Calls, Routes(c)
       PROVE  History' /\ Effects'
  <2>1. WorkQuiet
    BY <1>33 DEF Routes, WorkQuiet, TypeOK
  <2> QED
    BY <1>33, <1>6, <1>8, <1>10, <2>1 DEF Routes
<1>34. ASSUME NEW c \in Calls, ResultFrame(c)
       PROVE  History' /\ Effects'
  <2>1. WorkQuiet
    BY <1>34 DEF ResultFrame, WorkQuiet, TypeOK
  <2> QED
    BY <1>34, <1>6, <1>9, <1>10, <2>1 DEF ResultFrame
<1>35. ASSUME NEW c \in Calls, Deadline(c)
       PROVE  History' /\ Effects'
  <2>1. RowsClosed
    BY <1>35, <1>8, <1>9 DEF Deadline
  <2> QED
    BY <1>35, <1>6, <1>7, <1>10, <2>1 DEF Deadline
<1>36. ASSUME NEW c \in Calls, CodeAsks(c)
       PROVE  History' /\ Effects'
  <2>1. History'
    BY <1>36, <1>2, <1>8, HistoryQuiet DEF CodeAsks
  <2>2. /\ work[c] = "code" /\ Kind(c) = "codeask" /\ work' = [work EXCEPT ![c] = "asking"]
        /\ UNCHANGED <<row, loop, executed, approved>>
    BY <1>36 DEF CodeAsks
  <2>3. work'[c] = "asking" /\ \A d \in Calls \ {c} : work'[d] = work[d]
    BY <2>2 DEF TypeOK
  <2>4. Fresh' /\ Waits' /\ ExecutedOnce' /\ OnlyPermitted'
    BY <1>2, <2>2, <2>3 DEF Effects, Fresh, Waits, WaitOf, ExecutedOnce, OnlyPermitted
  <2>5. Claims'
    BY <1>2, <2>2, <2>3 DEF Effects, Claims, ClaimOf
  <2> QED
    BY <2>1, <2>4, <2>5 DEF Effects
<1>37. ASSUME NEW c \in Calls, ApprovalTimesOut(c)
       PROVE  History' /\ Effects'
  <2>1. WorkQuiet
    BY <1>37 DEF ApprovalTimesOut, WorkQuiet, TypeOK
  <2> QED
    BY <1>37, <1>6, <1>8, <1>10, <2>1 DEF ApprovalTimesOut
<1>38. ASSUME NEW c \in Calls, CodeExecutes(c)
       PROVE  History' /\ Effects'
  <2>1. History'
    BY <1>38, <1>2, <1>8, HistoryQuiet DEF CodeExecutes
  <2>2. /\ work[c] = "granted" /\ work' = [work EXCEPT ![c] = "settled"]
        /\ executed' = [executed EXCEPT ![c] = @ + 1]
        /\ UNCHANGED <<row, loop, approved>>
    BY <1>38 DEF CodeExecutes
  <2>3. /\ work'[c] = "settled" /\ executed[c] = 0 /\ executed'[c] = 1
        /\ Kind(c) = "codeask" /\ [call |-> c, nested |-> TRUE] \in approved
        /\ \A d \in Calls \ {c} : work'[d] = work[d] /\ executed'[d] = executed[d]
    BY <1>2, <2>2 DEF TypeOK, Effects, Waits, WaitOf
  <2>4. Fresh' /\ Waits'
    BY <1>2, <2>2, <2>3 DEF Effects, Fresh, Waits, WaitOf
  <2>5. ExecutedOnce' /\ OnlyPermitted'
    <3> SUFFICES ASSUME NEW d \in Calls
                 PROVE  /\ executed'[d] <= 1
                        /\ executed'[d] > 0 =>
                             CASE Kind(d) = "deny"    -> FALSE
                               [] Kind(d) = "ask"     ->
                                    [call |-> d, nested |-> FALSE] \in approved'
                               [] Kind(d) = "codeask" ->
                                    [call |-> d, nested |-> TRUE] \in approved'
                               [] OTHER               -> TRUE
      BY DEF ExecutedOnce, OnlyPermitted
    <3>1. CASE d = c
      BY <2>2, <2>3, <3>1
    <3>2. CASE d # c
      BY <1>2, <2>2, <2>3, <3>2 DEF Effects, ExecutedOnce, OnlyPermitted
    <3> QED
      BY <3>1, <3>2
  <2>6. Claims'
    BY <1>2, <2>2, <2>3 DEF Effects, Claims, ClaimOf
  <2> QED
    BY <2>1, <2>4, <2>5, <2>6 DEF Effects
<1>39. ASSUME NEW c \in Calls, CodeEnds(c)
       PROVE  History' /\ Effects'
  <2>1. WorkQuiet
    BY <1>39 DEF CodeEnds, WorkQuiet, TypeOK
  <2> QED
    BY <1>39, <1>6, <1>9, <1>10, <2>1 DEF CodeEnds
<1>40. ASSUME NEW approve \in BOOLEAN, HilCodeMode(approve)
       PROVE  History' /\ Effects'
  <2> DEFINE c == hil.call
  <2>1. /\ hil \in [call : Calls, nested : BOOLEAN] /\ hil.nested /\ work[c] = "asking"
        /\ row' = (IF approve THEN row ELSE Closed(row, c))
        /\ work' = [work EXCEPT ![c] = IF approve THEN "granted" ELSE "settled"]
        /\ approved' = (IF approve THEN approved \cup {hil} ELSE approved)
        /\ UNCHANGED <<loop, executed, round, results, active, errored, fiber>>
    BY <1>40, <1>1 DEF HilCodeMode, Decided, Hils
  <2>2. RowsClosed
    BY <1>8, <1>9, <2>1
  <2>3. History'
    BY <1>2, <2>1, <2>2, HistoryQuiet
  <2>4. hil = [call |-> c, nested |-> TRUE] /\ c \in Calls
    BY <2>1
  <2>5. /\ work'[c] \in {"granted", "settled"}
        /\ work'[c] = "granted" => [call |-> c, nested |-> TRUE] \in approved'
        /\ \A d \in Calls \ {c} : work'[d] = work[d]
        /\ approved \subseteq approved'
    BY <2>1, <2>4 DEF TypeOK
  <2> HIDE DEF c
  <2>6. Fresh'
    BY <1>2, <2>1, <2>2, <2>4, <2>5 DEF Effects, Fresh, RowsClosed
  <2>7. Waits'
    <3> SUFFICES ASSUME NEW d \in Calls
                 PROVE  WaitOf(d)'
      BY DEF Waits
    <3>1. WaitOf(d) /\ executed' = executed
      BY <1>2, <2>1 DEF Effects, Waits
    <3>2. CASE d = c
      BY <2>1, <2>4, <2>5, <3>1, <3>2 DEF WaitOf
    <3>3. CASE d # c
      BY <2>5, <3>1, <3>3 DEF WaitOf
    <3> QED
      BY <3>2, <3>3
  <2>8. ExecutedOnce' /\ OnlyPermitted'
    BY <1>2, <2>1, <2>5 DEF Effects, ExecutedOnce, OnlyPermitted
  <2>9. Claims'
    BY <1>2, <2>1, <2>2, <2>5 DEF Effects, Claims, ClaimOf, RowsClosed
  <2> QED
    BY <2>3, <2>6, <2>7, <2>8, <2>9 DEF Effects
<1>41. ASSUME HilStale
       PROVE  History' /\ Effects'
  <2>1. RowsClosed
    BY <1>41, <1>8, <1>9 DEF HilStale
  <2> QED
    BY <1>41, <1>6, <1>7, <1>10, <2>1 DEF HilStale, Decided
<1>42. ASSUME NEW h \in Handlers, HilApproves(h)
       PROVE  History' /\ Effects'
  <2>1. /\ hil \in [call : Calls, nested : BOOLEAN] /\ ~hil.nested
        /\ AskDeadline(h, hil.call, {}, FALSE) /\ approved' = approved \cup {hil}
    BY <1>42, <1>1 DEF HilApproves, Hils
  <2>2. h \in Loops /\ hil.call \in Calls /\ hil = [call |-> hil.call, nested |-> FALSE]
    BY <2>1 DEF Loops
  <2>3. /\ \A m \in Loops \ {h} : loop'[m] = loop[m]
        /\ loop'[h].at \in {"stored", "refused"} /\ loop'[h].call = hil.call
    BY <2>1, <2>2, AskEffect
  <2>4. \A l \in Loops : LoopQuiet(l)
    BY <2>1, <2>2, <2>3 DEF LoopQuiet
  <2> QED
    BY <1>42, <1>7, <1>8, <1>10, <2>1, <2>4 DEF HilApproves
<1>43. ASSUME NEW h \in Handlers, HilDenies(h)
       PROVE  History' /\ Effects'
  <2> DEFINE rows == Closed(row, hil.call)
  <2>1. Process(h, rows, NoHil, Registered(rows)) /\ h \in Loops
    BY <1>43 DEF HilDenies, Loops
  <2>2. /\ rows \in [Calls -> RowStates] /\ Registered(rows) \in SUBSET Calls
        /\ \A d \in Calls : \/ rows[d] = row[d]
                            \/ row[d] \in {"registered", "pending"} /\ rows[d] = "done"
    BY ClosedQuiet DEF Registered
  <2> HIDE DEF rows
  <2>3. RowsClosed /\ \A l \in Loops : LoopQuiet(l)
    BY <1>1, <2>1, <2>2, ProcessQuiet
  <2> QED
    BY <1>43, <1>7, <1>10, <2>3 DEF HilDenies
<1>44. ASSUME Stop
       PROVE  History' /\ Effects'
  <2>1. WorkQuiet
    BY <1>44 DEF Stop, WorkQuiet
  <2> QED
    BY <1>44, <1>6, <1>11, <2>1 DEF Stop
<1>45. ASSUME Restart
       PROVE  History' /\ Effects'
  <2>1. WorkQuiet
    BY <1>45 DEF Restart, WorkQuiet
  <2>2. \A l \in Loops : LoopQuiet(l)
    BY <1>45 DEF Restart, LoopQuiet, Idle
  <2> QED
    BY <1>45, <1>8, <1>10, <2>1, <2>2 DEF Restart
<1>46. CASE UNCHANGED vars
  BY <1>46, <1>6, <1>7, <1>8, <1>10 DEF vars
<1>47. ASSUME TickFails
       PROVE  History' /\ Effects'
  <2>1. \A l \in Loops : LoopQuiet(l)
    BY <1>47, <1>5 DEF TickFails, Loops
  <2> QED
    BY <1>47, <1>7, <1>8, <1>10, <2>1 DEF TickFails
\* An error end leaves the rows as they are.
<1>48. ASSUME TickErrorEnds \/ ScheduleErrorEnds
       PROVE  History' /\ Effects'
  <2>1. /\ UNCHANGED <<row, round, results, loop, work, executed, approved>>
        /\ fiber' = "model" => fiber = "model"
        /\ \/ ~active' /\ errored'
           \/ active' = active /\ errored' = errored
    BY <1>48 DEF TickErrorEnds, ScheduleErrorEnds, FinishError, EndTick
  <2>2. History'
    BY <1>2, <2>1 DEF History, RowsFollow, ResultsFollow, NothingOpen, Earlier
  <2>3. RowsQuiet
    BY <2>1 DEF RowsQuiet
  <2> QED
    BY <1>2, <1>6, <1>7, <2>1, <2>2, <2>3, EffectsQuiet
<1> QED
  BY <1>20, <1>21, <1>22, <1>23, <1>24, <1>25, <1>26, <1>27, <1>28, <1>29, <1>30, <1>31,
     <1>32, <1>33, <1>34, <1>35, <1>36, <1>37, <1>38, <1>39, <1>40, <1>41, <1>42, <1>43,
     <1>44, <1>45, <1>46, <1>47, <1>48 DEF Next, Returns,
     TickStep, LoopStep, CodeStep, UserDecides

LEMMA InvHolds == Spec => [](TypeOK /\ Inv)
<1>1. Init => TypeOK /\ Inv
  BY TypesInit, InvInit
<1>2. (TypeOK /\ Inv) /\ [Next]_vars => (TypeOK /\ Inv)'
  BY TypesStep, InvStep
<1> QED
  BY <1>1, <1>2, PTL DEF Spec

\* No call, and no request of a CodeMode execution, goes to the Kernel twice,
\* with any number of overlapping loops.
THEOREM ExecutedOnceHolds == Spec => []ExecutedOnce
<1>1. TypeOK /\ Inv => ExecutedOnce
  BY DEF Inv
<1> QED
  BY <1>1, InvHolds, PTL

\* What needs an approval goes to the Kernel only with it, what is denied never.
THEOREM OnlyPermittedHolds == Spec => []OnlyPermitted
<1>1. TypeOK /\ Inv => OnlyPermitted
  BY DEF Inv
<1> QED
  BY <1>1, InvHolds, PTL

\* Each call has one result in the history when the model is called next and
\* when the run is over; an error that ended the run leaves at most the calls of
\* the last answer without.
THEOREM HistoryValidHolds == Spec => []HistoryValid
<1>1. ASSUME TypeOK, Inv
      PROVE  HistoryValid
  <2>1. \A c \in Calls : row[c] = "none" <=> ~(c[1] <= round)
    <3>1. round \in Nat
      BY <1>1, ToolBounds DEF TypeOK
    <3> QED
      BY <1>1, <3>1, CallsArePairs DEF Inv, RowsFollow
  <2>2. \A c \in Calls : results[c] = IF row[c] = "ingested" THEN 1 ELSE 0
    BY <1>1 DEF Inv, ResultsFollow
  <2>3. fiber = "model" \/ (~active /\ ~errored) =>
          \A c \in Calls : results[c] = IF c[1] <= round THEN 1 ELSE 0
    BY <1>1, <2>1, <2>2 DEF Inv, NothingOpen
  <2>4. ASSUME NEW c \in Calls
        PROVE  IF c[1] = round THEN results[c] <= 1
               ELSE results[c] = IF c[1] < round THEN 1 ELSE 0
    <3>1. c[1] \in Nat /\ round \in Nat
      BY <1>1, CallsArePairs, ToolBounds DEF TypeOK
    <3>2. c[1] < round => row[c] = "ingested"
      BY <1>1 DEF Inv, Earlier
    <3>3. c[1] > round => row[c] = "none"
      BY <1>1 DEF Inv, RowsFollow
    <3> QED
      BY <2>2, <3>1, <3>2, <3>3
  <2> QED
    BY <2>3, <2>4 DEF HistoryValid
<1> QED
  BY <1>1, InvHolds, PTL

-----------------------------------------------------------------------------
(* No run is stranded. A run that waits for the Kernel, for the user or for  *)
(* code of its own is not stuck; one whose calls all have results, and for   *)
(* which no tick is scheduled, would be. The run survives everything but     *)
(* three things the code lets happen: a request that outlives its call       *)
(* (Orphaned), a CodeMode request that takes pending_hil while another is    *)
(* pending, and a tick that was refused where nothing catches that (lost).   *)

NothingIsOpen == \A c \in Calls : ~IsOpen(row[c])
Running(c) == work[c] \in {"code", "asking", "granted", "settled"}

\* A catch is about to end the run.
Ending == failing \/ fiber = "failed"

\* Nothing of the run will go on by itself, and no approval is asked for.
Stranded ==
  /\ active /\ ~due /\ fiber = "none" /\ ~failing /\ hil = NoHil
  /\ \A h \in Handlers : loop[h].at \in {"idle", "asked"}
  /\ \A c \in Calls : ~Running(c) /\ (IsOpen(row[c]) => deadlines[c] = 0)

\* A CodeMode request replaces the pending one.
Displaced == hil # NoHil /\ hil' # hil /\ hil'.nested

\* A row waits for its dispatch, or for its result, under a deadline.
Timed ==
  /\ active => \A c \in Calls : row[c] = "pending" => deadlines[c] > 0
  /\ \A l \in Loops : loop[l].at = "stored" => deadlines[loop[l].call] > 0

\* The tick has a loop exactly while it waits for one; loops and open rows are
\* about the calls of one answer; those of the tick's answer are not ingested.
Linked ==
  /\ deferred => fiber # "none"
  /\ fiber \in {"recover", "dispatch"} <=> loop["tick"].at # "idle"
  /\ \A l \in Loops : \A c, d \in loop[l].todo : c[1] = d[1]
  /\ \A c \in Calls : IsOpen(row[c]) => c[1] = round
  /\ fiber \in {"answered", "dispatch"} => round > 0
  /\ active /\ fiber \in {"answered", "dispatch"} =>
       \A c \in Calls : c[1] = round => row[c] # "ingested"

Plain == hil # NoHil /\ ~hil.nested

\* After a restart a tick comes before anything else touches pending_hil.
Recovering ==
  /\ fiber = "begin" \/ (fiber = "none" /\ due)
  /\ hil = NoHil
  /\ \A l \in Loops : loop[l].at = "idle"
  /\ \A c \in Calls : work[c] \notin {"code", "asking"}

\* ... or its user is still to answer the CodeMode call that was interrupted.
Interrupted ==
  /\ fiber \in {"none", "begin"}
  /\ hil # NoHil /\ hil.nested /\ row[hil.call] = "pending"
  /\ \A l \in Loops : loop[l].at = "idle"
  /\ \A c \in Calls : work[c] \notin {"code", "asking"}

\* The loop will come to the call.
Covers(l, c) ==
  /\ loop[l].at \in {"stored", "refused", "started"}
  /\ c = loop[l].call \/ c \in loop[l].todo \/ ~loop[l].snap

\* A registered call will be dispatched, or waits for the user.
Covered ==
  \A c \in Calls : row[c] = "registered" =>
    \/ fiber = "answered" \/ Plain \/ Recovering \/ Interrupted
    \/ \E l \in Loops : Covers(l, c)

\* A CodeMode request is waited for, or its execution was interrupted.
Awaited == hil # NoHil /\ hil.nested => work[hil.call] = "asking" \/ Interrupted

\* Something will look at the rows again.
Resumable ==
  \/ due \/ deferred \/ fiber \in {"begin", "recover", "model", "answered"}
  \/ fiber = "dispatch" /\ loop["tick"].at # "asked"
  \/ \E h \in Handlers : loop[h].at \notin {"idle", "asked"}
  \/ \E c \in Calls : Running(c)

Pursued == active /\ ~Ending => Awaited /\ Covered /\ (NothingIsOpen => Resumable)

\* Rows are closed or stay.
RowsShut == \A c \in Calls : row'[c] = row[c] \/ row'[c] \in {"done", "ingested"}

\* What Process does to the loop, the request and the deadlines.
LEMMA ProcessCovers ==
  ASSUME TypeOK, NEW l \in Loops, NEW rows \in [Calls -> RowStates], NEW h \in Hils,
         NEW todo \in SUBSET Calls, \A c, d \in todo : c[1] = d[1],
         Process(l, rows, h, todo)
  PROVE  /\ IF loop'[l].at = "asked" THEN Plain' ELSE hil' = h
         /\ \A c \in todo : row'[c] = "registered" => Plain' \/ Covers(l, c)'
         /\ \A c, d \in loop'[l].todo : c[1] = d[1]
         /\ \A c \in Calls : deadlines'[c] >= deadlines[c]
         /\ loop'[l].at = "stored" => deadlines'[loop'[l].call] > 0
<1>1. loop \in [Loops -> Places] /\ deadlines \in [Calls -> Nat]
  BY DEF TypeOK, Places
<1>2. ASSUME NEW at \in {"asked", "over"}, Place(l, at, NoCall, {}, TRUE)
      PROVE  loop'[l].at = at /\ loop'[l].todo = {}
  BY <1>1, <1>2 DEF Place
<1>3. CASE /\ \A c \in todo : Kind(c) = "deny"
           /\ row' = Failed(rows, todo)
           /\ Place(l, "over", NoCall, {}, TRUE)
           /\ hil' = h
           /\ UNCHANGED <<deadlines, refusals>>
  <2>1. loop'[l].at = "over" /\ loop'[l].todo = {}
    BY <1>2, <1>3
  <2>2. \A c \in todo : row'[c] # "registered"
    BY <1>3 DEF Failed, IsOpen
  <2> QED
    BY <1>1, <1>3, <2>1, <2>2
<1>4. CASE \E c \in todo :
             LET before == {d \in todo : d[2] < c[2]} IN
             /\ Kind(c) # "deny" /\ \A d \in before : Kind(d) = "deny"
             /\ row' = Failed(rows, before)
             /\ \/ /\ Kind(c) = "ask"
                   /\ Place(l, "asked", NoCall, {}, TRUE)
                   /\ hil' = [call |-> c, nested |-> FALSE]
                   /\ UNCHANGED <<deadlines, refusals>>
                \/ /\ Kind(c) # "ask"
                   /\ hil' = h
                   /\ AskDeadline(l, c, {d \in todo : d[2] > c[2]}, TRUE)
  <2>1. PICK c \in todo :
          /\ row' = Failed(rows, {d \in todo : d[2] < c[2]})
          /\ \/ /\ Place(l, "asked", NoCall, {}, TRUE)
                /\ hil' = [call |-> c, nested |-> FALSE]
                /\ UNCHANGED <<deadlines, refusals>>
             \/ /\ hil' = h
                /\ AskDeadline(l, c, {d \in todo : d[2] > c[2]}, TRUE)
    BY <1>4
  <2>2. CASE /\ Place(l, "asked", NoCall, {}, TRUE)
             /\ hil' = [call |-> c, nested |-> FALSE]
             /\ UNCHANGED <<deadlines, refusals>>
    <3>1. Plain'
      BY <2>2, CallsArePairs DEF Plain, NoHil
    <3>2. loop'[l].at = "asked" /\ loop'[l].todo = {}
      BY <1>2, <2>2
    <3> QED
      BY <1>1, <2>2, <3>1, <3>2
  <2>3. CASE hil' = h /\ AskDeadline(l, c, {d \in todo : d[2] > c[2]}, TRUE)
    <3> DEFINE after == {d \in todo : d[2] > c[2]}
    <3>1. PICK at \in {"stored", "refused"} :
            /\ loop' = [loop EXCEPT ![l] = [at |-> at, call |-> c, todo |-> after, snap |-> TRUE]]
            /\ IF at = "stored" THEN deadlines' = [deadlines EXCEPT ![c] = @ + 1]
                                ELSE UNCHANGED deadlines
      BY <2>3 DEF AskDeadline, Place
    <3>2. loop'[l] = [at |-> at, call |-> c, todo |-> after, snap |-> TRUE]
      BY <1>1, <3>1
    <3>3. /\ loop'[l].at = at /\ at # "asked" /\ loop'[l].call = c /\ loop'[l].todo = after
      BY <3>2
    <3>4. \A d \in Calls : deadlines'[d] >= deadlines[d]
      BY <1>1, <3>1
    <3>5. at = "stored" => deadlines'[c] > 0
      BY <1>1, <3>1
    <3>6. ASSUME NEW d \in todo, row'[d] = "registered"
          PROVE  Covers(l, d)'
      <4>1. ~(d[2] < c[2])
        BY <2>1, <3>6 DEF Failed, IsOpen
      <4>2. d = c \/ d[2] > c[2]
        <5>1. c \in Calls /\ d \in Calls /\ d[1] = c[1]
          OBVIOUS
        <5>2. d[2] \in Nat /\ c[2] \in Nat /\ d = <<d[1], d[2]>> /\ c = <<c[1], c[2]>>
          BY <5>1, ToolBounds DEF Calls, Rounds
        <5> QED
          BY <4>1, <5>1, <5>2
      <4> QED
        BY <3>3, <4>2 DEF Covers
    <3> QED
      BY <2>3, <3>3, <3>4, <3>5, <3>6
  <2> QED
    BY <2>1, <2>2, <2>3
<1> QED
  BY <1>3, <1>4 DEF Process

\* Going on after a call: every other call the loop covers stays covered.
LEMMA ContinueCovers ==
  ASSUME TypeOK, Linked, NEW l \in Loops, NEW rows \in [Calls -> RowStates], Continue(l, rows),
         \A c \in Calls : rows[c] = "registered" => row[c] = "registered"
  PROVE  /\ IF loop'[l].at = "asked" THEN Plain' ELSE hil' = hil
         /\ \A c \in Calls : /\ row'[c] = "registered" /\ Covers(l, c)
                             /\ c = loop[l].call => rows[c] # "registered"
                             => Plain' \/ Covers(l, c)'
         /\ \A c, d \in loop'[l].todo : c[1] = d[1]
         /\ \A c \in Calls : deadlines'[c] >= deadlines[c]
         /\ loop'[l].at = "stored" => deadlines'[loop'[l].call] > 0
<1> DEFINE todo == IF loop[l].snap THEN loop[l].todo ELSE Registered(rows)
<1>1. hil \in Hils /\ todo \in SUBSET Calls
  BY DEF TypeOK, Hils, Registered
<1>2. \A c, d \in todo : c[1] = d[1]
  BY DEF Linked, Registered, IsOpen
<1>3. Process(l, rows, hil, todo)
  BY DEF Continue
<1>4. \A c \in Calls : /\ row'[c] = "registered" /\ Covers(l, c)
                       /\ c = loop[l].call => rows[c] # "registered"
                       => c \in todo
  <2>1. \A c \in Calls : row'[c] = "registered" => rows[c] = "registered"
    <3> HIDE DEF todo
    <3> QED
      BY <1>1, <1>3, ProcessEffect DEF IsOpen
  <2> QED
    BY <2>1 DEF Covers, Registered
<1> HIDE DEF todo
<1> QED
  BY <1>1, <1>2, <1>3, <1>4, ProcessCovers

\* A step that closes rows, takes no deadline away and moves one loop at most.
LEMMA LinkedMove ==
  ASSUME TypeOK, Linked, Timed, RowsShut, NEW l \in Loops, round' = round, active' => active,
         \A m \in Loops \ {l} : loop'[m] = loop[m] \/ loop'[m] = Idle,
         \A c, d \in loop'[l].todo : c[1] = d[1],
         \A c \in Calls : deadlines'[c] \in Nat /\ deadlines'[c] >= deadlines[c],
         loop'[l].at = "stored" => loop'[l].call \in Calls /\ deadlines'[loop'[l].call] > 0,
         \A m \in Loops : loop[m].at = "stored" => loop[m].call \in Calls,
         deferred' => fiber' # "none",
         fiber' \in {"recover", "dispatch"} <=> loop'["tick"].at # "idle",
         fiber' \in {"answered", "dispatch"} =>
           /\ fiber \in {"answered", "dispatch"}
           /\ active' => active /\ \A c \in Calls : row'[c] = "ingested" => row[c] = "ingested"
  PROVE  Linked' /\ Timed'
<1>1. deadlines \in [Calls -> Nat]
  BY DEF TypeOK
<1>2. active' => \A c \in Calls : row'[c] = "pending" => deadlines'[c] > 0
  BY <1>1 DEF Timed, RowsShut
<1>3. \A m \in Loops : loop'[m].at = "stored" => deadlines'[loop'[m].call] > 0
  BY <1>1 DEF Timed, Idle
<1>4. \A m \in Loops : \A c, d \in loop'[m].todo : c[1] = d[1]
  BY DEF Linked, Idle
<1>5. \A c \in Calls : IsOpen(row'[c]) => c[1] = round'
  BY DEF Linked, RowsShut, IsOpen
<1> QED
  BY <1>2, <1>3, <1>4, <1>5 DEF Linked, Timed

LEMMA LinkedInit == Init => Linked /\ Timed
<1> SUFFICES ASSUME Init
             PROVE  Linked /\ Timed
  OBVIOUS
<1>1. \A l \in Loops : loop[l].at = "idle" /\ loop[l].todo = {}
  BY DEF Init, Idle
<1>2. "tick" \in Loops
  BY DEF Loops
<1> QED
  BY <1>1, <1>2 DEF Init, Linked, Timed, IsOpen

\* Every step keeps the links and the deadlines.
LEMMA LinkedStep == TypeOK /\ Inv /\ Linked /\ Timed /\ [Next]_vars => Linked' /\ Timed'
<1> SUFFICES ASSUME TypeOK, Inv, Linked, Timed, [Next]_vars
             PROVE  Linked' /\ Timed'
  OBVIOUS
<1>1. /\ row \in [Calls -> RowStates] /\ hil \in Hils /\ NoHil \in Hils
      /\ loop \in [Loops -> Places] /\ deadlines \in [Calls -> Nat] /\ round \in Nat
  BY ToolBounds DEF TypeOK, RowStates, Hils, Places
<1>2. "tick" \in Loops /\ "tick" \notin Handlers
  BY ToolBounds DEF Loops
<1>3. \A m \in Loops : loop[m].at = "stored" => loop[m].call \in Calls
  BY DEF Inv, Claims, ClaimOf
<1>4. Registered(row) \in SUBSET Calls /\ \A c, d \in Registered(row) : c[1] = d[1]
  BY DEF Registered, Linked, IsOpen
<1>5. \A c : /\ Closed(row, c) \in [Calls -> RowStates]
             /\ \A d \in Calls : Closed(row, c)[d] = row[d] \/ Closed(row, c)[d] = "done"
  BY <1>1, RowsClose
<1>6. ASSUME UNCHANGED <<round, loop, deadlines, fiber, deferred>>, active' => active,
             row' = row \/ \E c : row' = Closed(row, c)
      PROVE  Linked' /\ Timed'
  <2>1. RowsShut /\ \A c \in Calls : row'[c] = "ingested" => row[c] = "ingested"
    BY <1>5, <1>6 DEF RowsShut
  <2> QED
    BY <1>1, <1>2, <1>3, <1>6, <2>1, LinkedMove DEF Linked, Timed
<1> USE DEF durable, volatile, history, ends
<1>20. ASSUME TickFires
       PROVE  Linked' /\ Timed'
  <2>1. RowsShut
    BY <1>20 DEF TickFires, RowsShut
  <2> QED
    BY <1>1, <1>2, <1>3, <1>20, <2>1, LinkedMove DEF TickFires, Linked, Timed
<1>21. ASSUME Begin
       PROVE  Linked' /\ Timed'
  <2>0. fiber = "begin" /\ loop["tick"].at = "idle"
    BY <1>21 DEF Begin, Linked
  <2>1. CASE ~active
    <3>1. RowsShut
      BY <1>21, <2>1 DEF Begin, RowsShut
    <3> QED
      BY <1>1, <1>2, <1>3, <1>21, <2>0, <2>1, <3>1, LinkedMove DEF Begin, EndTick, Linked, Timed
  <2>2. CASE active /\ hil = NoHil /\ \E c \in Calls : row[c] = "registered"
    <3>1. /\ Process("tick", row, hil, Registered(row)) /\ fiber' = "recover"
          /\ UNCHANGED <<round, active, deferred>>
      BY <1>21, <2>2 DEF Begin
    <3>2. /\ deadlines' \in [Calls -> Nat]
          /\ \A d \in Calls : row'[d] = row[d] \/ (IsOpen(row[d]) /\ row'[d] = "done")
          /\ \A m \in Loops \ {"tick"} : loop'[m] = loop[m]
          /\ loop'["tick"].at \in {"stored", "refused", "asked", "over"}
          /\ loop'["tick"].at \in {"stored", "refused"} => loop'["tick"].call \in Calls
      BY <1>1, <1>2, <1>4, <3>1, ProcessEffect
    <3>3. /\ \A c, d \in loop'["tick"].todo : c[1] = d[1]
          /\ \A c \in Calls : deadlines'[c] >= deadlines[c]
          /\ loop'["tick"].at = "stored" => deadlines'[loop'["tick"].call] > 0
      BY <1>1, <1>2, <1>4, <3>1, ProcessCovers
    <3>4. RowsShut
      BY <3>2 DEF RowsShut
    <3> QED
      BY <1>2, <1>3, <3>1, <3>2, <3>3, <3>4, LinkedMove
  <2>3. CASE active /\ ~(hil = NoHil /\ \E c \in Calls : row[c] = "registered")
    <3>1. RowsShut
      BY <1>21, <2>3 DEF Begin, CheckRows, Ingest, RowsShut
    <3>2. /\ UNCHANGED <<round, active, loop, deadlines>> /\ fiber' \in {"none", "model"}
          /\ deferred' => fiber' # "none"
      BY <1>21, <2>3 DEF Begin, CheckRows, EndTick
    <3> QED
      BY <1>1, <1>2, <1>3, <2>0, <3>1, <3>2, LinkedMove DEF Linked, Timed
  <2> QED
    BY <2>1, <2>2, <2>3
<1>22. ASSUME Recovered
       PROVE  Linked' /\ Timed'
  <2>1. RowsShut
    BY <1>22 DEF Recovered, CheckRows, Ingest, RowsShut
  <2>2. /\ UNCHANGED <<round, active, deadlines>> /\ loop' = [loop EXCEPT !["tick"] = Idle]
        /\ fiber = "recover" /\ fiber' \in {"none", "model"}
        /\ deferred' => fiber' # "none"
    BY <1>22 DEF Recovered, CheckRows, EndTick, Linked
  <2>3. /\ loop'["tick"] = Idle /\ Idle.at = "idle" /\ Idle.todo = {}
        /\ \A m \in Loops \ {"tick"} : loop'[m] = loop[m]
    BY <1>1, <1>2, <2>2 DEF Idle
  <2> QED
    BY <1>1, <1>2, <1>3, <2>1, <2>2, <2>3, LinkedMove DEF Linked
<1>23. ASSUME ModelCallsTools
       PROVE  Linked' /\ Timed'
  <2>1. /\ fiber' = "answered" /\ round' = round + 1 /\ fiber = "model" /\ fiber # "none"
        /\ row' = [c \in Calls |-> IF c[1] = round + 1 THEN "registered" ELSE row[c]]
        /\ UNCHANGED <<active, deadlines, deferred, loop>>
    BY <1>23 DEF ModelCallsTools
  <2>2. \A c \in Calls : row[c] \in {"none", "ingested"}
    BY <2>1 DEF Inv, NothingOpen
  <2>3. loop["tick"].at = "idle"
    BY <2>1 DEF Linked
  <2>4. Timed'
    BY <2>1, <2>2 DEF Timed
  <2>5. \A c \in Calls : c[1] \in Nat /\ (IsOpen(row'[c]) => c[1] = round')
    BY <2>1, <2>2, CallsArePairs DEF IsOpen
  <2>6. \A c \in Calls : c[1] = round' => row'[c] # "ingested"
    BY <2>1
  <2> QED
    BY <1>1, <2>1, <2>3, <2>4, <2>5, <2>6 DEF Linked
<1>24. ASSUME ModelFinishes
       PROVE  Linked' /\ Timed'
  BY <1>24 DEF ModelFinishes, Linked, Timed
<1>25. ASSUME TickStops
       PROVE  Linked' /\ Timed'
  BY <1>25 DEF TickStops, EndTick, Linked, Timed
<1>26. ASSUME ProcessAnswer
       PROVE  Linked' /\ Timed'
  <2>1. /\ Process("tick", row, hil, Registered(row)) /\ fiber = "answered" /\ fiber' = "dispatch"
        /\ UNCHANGED <<round, active, deferred>>
    BY <1>26 DEF ProcessAnswer
  <2>2. /\ deadlines' \in [Calls -> Nat]
        /\ \A d \in Calls : row'[d] = row[d] \/ (IsOpen(row[d]) /\ row'[d] = "done")
        /\ \A m \in Loops \ {"tick"} : loop'[m] = loop[m]
        /\ loop'["tick"].at \in {"stored", "refused", "asked", "over"}
        /\ loop'["tick"].at \in {"stored", "refused"} => loop'["tick"].call \in Calls
    BY <1>1, <1>2, <1>4, <2>1, ProcessEffect
  <2>3. /\ \A c, d \in loop'["tick"].todo : c[1] = d[1]
        /\ \A c \in Calls : deadlines'[c] >= deadlines[c]
        /\ loop'["tick"].at = "stored" => deadlines'[loop'["tick"].call] > 0
    BY <1>1, <1>2, <1>4, <2>1, ProcessCovers
  <2>4. RowsShut /\ \A c \in Calls : row'[c] = "ingested" => row[c] = "ingested"
    BY <2>2 DEF RowsShut
  <2> QED
    BY <1>2, <1>3, <2>1, <2>2, <2>3, <2>4, LinkedMove
<1>27. ASSUME Dispatched
       PROVE  Linked' /\ Timed'
  <2>1. RowsShut
    BY <1>27 DEF Dispatched, RowsShut
  <2>2. /\ UNCHANGED <<round, active, deadlines>> /\ loop' = [loop EXCEPT !["tick"] = Idle]
        /\ fiber' \in {"none", "failed"} /\ (deferred' => fiber' # "none")
    BY <1>27 DEF Dispatched, EndTick
  <2>3. /\ loop'["tick"] = Idle /\ Idle.at = "idle" /\ Idle.todo = {}
        /\ \A m \in Loops \ {"tick"} : loop'[m] = loop[m]
    BY <1>1, <1>2, <2>2 DEF Idle
  <2> QED
    BY <1>1, <1>2, <1>3, <2>1, <2>2, <2>3, LinkedMove DEF Linked
\* A loop that was not idle, or a handler's, moves.
<1>7. ASSUME NEW l \in Loops, loop[l].at # "idle" \/ l \in Handlers, loop'[l].at # "idle",
             UNCHANGED <<round, active, fiber, deferred>>,
             \A c \in Calls : row'[c] = row[c] \/ row'[c] = "done",
             \A m \in Loops \ {l} : loop'[m] = loop[m],
             \A c, d \in loop'[l].todo : c[1] = d[1],
             deadlines' \in [Calls -> Nat], \A c \in Calls : deadlines'[c] >= deadlines[c],
             loop'[l].at = "stored" => loop'[l].call \in Calls /\ deadlines'[loop'[l].call] > 0
      PROVE  Linked' /\ Timed'
  <2>1. RowsShut /\ \A c \in Calls : row'[c] = "ingested" => row[c] = "ingested"
    BY <1>7 DEF RowsShut
  <2>2. fiber' \in {"recover", "dispatch"} <=> loop'["tick"].at # "idle"
    BY <1>2, <1>7 DEF Linked
  <2> QED
    BY <1>3, <1>7, <2>1, <2>2, LinkedMove DEF Linked
<1>8. ASSUME NEW l \in Loops, loop[l].at # "idle", UNCHANGED <<round, active, fiber, deferred>>,
             NEW rows \in [Calls -> RowStates],
             \A c \in Calls : rows[c] = row[c] \/ rows[c] = "done",
             \/ Continue(l, rows)
             \/ row' = rows /\ Place(l, "over", NoCall, {}, TRUE) /\ UNCHANGED deadlines
      PROVE  Linked' /\ Timed'
  <2>1. CASE Continue(l, rows)
    <3>1. \A c \in Calls : rows[c] = "registered" => row[c] = "registered"
      BY <1>8
    <3>2. /\ \A c, d \in loop'[l].todo : c[1] = d[1]
          /\ \A c \in Calls : deadlines'[c] >= deadlines[c]
          /\ loop'[l].at = "stored" => deadlines'[loop'[l].call] > 0
      BY <2>1, <3>1, ContinueCovers
    <3>3. PICK todo \in SUBSET Calls : Process(l, rows, hil, todo)
      BY <1>1, <2>1 DEF Continue, Registered, Places
    <3>4. /\ deadlines' \in [Calls -> Nat]
          /\ \A d \in Calls : row'[d] = rows[d] \/ row'[d] = "done"
          /\ \A m \in Loops \ {l} : loop'[m] = loop[m]
          /\ loop'[l].at \in {"stored", "refused", "asked", "over"}
          /\ loop'[l].at \in {"stored", "refused"} => loop'[l].call \in Calls
      BY <1>1, <3>3, ProcessEffect
    <3>5. \A c \in Calls : row'[c] = row[c] \/ row'[c] = "done"
      BY <1>8, <3>4
    <3> QED
      BY <1>7, <1>8, <3>2, <3>4, <3>5
  <2>2. CASE row' = rows /\ Place(l, "over", NoCall, {}, TRUE) /\ UNCHANGED deadlines
    <3>1. loop'[l].at = "over" /\ loop'[l].todo = {} /\ \A m \in Loops \ {l} : loop'[m] = loop[m]
      BY <1>1, <2>2 DEF Place
    <3> QED
      BY <1>1, <1>7, <1>8, <2>2, <3>1
  <2> QED
    BY <1>8, <2>1, <2>2
<1>28. ASSUME NEW l \in Loops, LoopRefused(l)
       PROVE  Linked' /\ Timed'
  <2> DEFINE rows == Closed(row, loop[l].call)
  <2>1. /\ loop[l].at # "idle" /\ UNCHANGED <<round, active, fiber, deferred>>
        /\ \/ Continue(l, rows)
           \/ row' = rows /\ Place(l, "over", NoCall, {}, TRUE) /\ UNCHANGED deadlines
    BY <1>28 DEF LoopRefused
  <2>2. rows \in [Calls -> RowStates] /\ \A c \in Calls : rows[c] = row[c] \/ rows[c] = "done"
    BY <1>5
  <2> HIDE DEF rows
  <2> QED
    BY <1>8, <2>1, <2>2
<1>29. ASSUME NEW l \in Loops, LoopClaims(l)
       PROVE  Linked' /\ Timed'
  <2> DEFINE c == loop[l].call
  <2>1. CASE active /\ row[c] = "registered"
    <3>1. /\ loop[l].at = "stored" /\ loop' = [loop EXCEPT ![l].at = "started"]
          /\ row' = [row EXCEPT ![c] = "pending"]
          /\ UNCHANGED <<round, active, fiber, deferred, deadlines>>
      BY <1>29, <2>1 DEF LoopClaims
    <3>2. /\ loop'[l].at = "started" /\ loop'[l].todo = loop[l].todo
          /\ \A m \in Loops \ {l} : loop'[m] = loop[m]
      BY <1>1, <3>1
    <3>3. /\ row'[c] = "pending" /\ \A d \in Calls \ {c} : row'[d] = row[d]
          /\ c \in Calls /\ deadlines[c] > 0
      BY <1>1, <1>3, <3>1 DEF Timed
    <3> HIDE DEF c
    <3>4. Timed'
      BY <3>1, <3>2, <3>3 DEF Timed
    <3>5. \A d \in Calls : IsOpen(row'[d]) => d[1] = round'
      BY <2>1, <3>1, <3>3 DEF Linked, IsOpen
    <3>6. fiber' \in {"recover", "dispatch"} <=> loop'["tick"].at # "idle"
      BY <1>2, <3>1, <3>2 DEF Linked
    <3>7. \A m \in Loops : \A d, e \in loop'[m].todo : d[1] = e[1]
      BY <3>2 DEF Linked
    <3>8. active' /\ fiber' \in {"answered", "dispatch"} =>
            \A d \in Calls : d[1] = round' => row'[d] # "ingested"
      BY <3>1, <3>3 DEF Linked
    <3> QED
      BY <3>1, <3>4, <3>5, <3>6, <3>7, <3>8 DEF Linked
  <2>2. CASE ~(active /\ row[c] = "registered")
    <3>1. /\ loop[l].at # "idle" /\ UNCHANGED <<round, active, fiber, deferred>>
          /\ \/ Continue(l, row)
             \/ row' = row /\ Place(l, "over", NoCall, {}, TRUE) /\ UNCHANGED deadlines
      BY <1>29, <2>2 DEF LoopClaims
    <3> QED
      BY <1>1, <1>8, <3>1
  <2> QED
    BY <2>1, <2>2
<1>30. ASSUME NEW l \in Loops, LoopLaunches(l)
       PROVE  Linked' /\ Timed'
  <2>1. /\ loop[l].at # "idle" /\ UNCHANGED <<round, active, fiber, deferred>>
        /\ \/ Continue(l, row)
           \/ row' = row /\ Place(l, "over", NoCall, {}, TRUE) /\ UNCHANGED deadlines
    BY <1>30 DEF LoopLaunches
  <2> QED
    BY <1>1, <1>8, <2>1
<1>31. ASSUME NEW h \in Handlers, HandlerEnds(h)
       PROVE  Linked' /\ Timed'
  <2>1. /\ UNCHANGED <<round, active, fiber, deferred, row, deadlines>>
        /\ loop' = [loop EXCEPT ![h] = Idle] /\ h \in Loops /\ h # "tick"
    BY <1>2, <1>31 DEF HandlerEnds, Loops
  <2>2. /\ loop'[h] = Idle /\ Idle.at = "idle" /\ Idle.todo = {}
        /\ \A m \in Loops \ {h} : loop'[m] = loop[m]
    BY <1>1, <2>1 DEF Idle
  <2>3. RowsShut
    BY <2>1 DEF RowsShut
  <2> QED
    BY <1>1, <1>2, <1>3, <2>1, <2>2, <2>3, LinkedMove DEF Linked
<1>32. ASSUME NEW c \in Calls, Responds(c) \/ Routes(c) \/ ResultFrame(c) \/ CodeStep(c)
       PROVE  Linked' /\ Timed'
  BY <1>6, <1>32 DEF Responds, Routes, ResultFrame, CodeStep, CodeAsks, ApprovalTimesOut,
     CodeExecutes, CodeEnds
<1>33. ASSUME NEW c \in Calls, Deadline(c)
       PROVE  Linked' /\ Timed'
  <2> DEFINE stored == {l \in Loops : loop[l].at = "stored" /\ loop[l].call = c}
  <2>1. /\ deadlines[c] > Cardinality(stored) /\ deadlines' = [deadlines EXCEPT ![c] = @ - 1]
        /\ UNCHANGED <<round, active, fiber, deferred, loop>>
        /\ row' = row \/ row' = Closed(row, c)
        /\ active /\ row[c] = "pending" => row' = Closed(row, c)
    BY <1>33 DEF Deadline
  <2>2. \A d \in Calls \ {c} : deadlines'[d] = deadlines[d]
    BY <1>1, <2>1
  <2>3. active => row'[c] # "pending"
    <3>1. CASE row[c] = "pending"
      BY <1>1, <2>1, <3>1 DEF Closed, IsOpen
    <3>2. CASE row[c] # "pending"
      BY <1>5, <2>1, <3>2
    <3> QED
      BY <3>1, <3>2
  <2>4. stored # {} => deadlines'[c] > 0
    <3>1. IsFiniteSet(stored)
      <4>1. IsFiniteSet({"tick"})
        BY FS_Singleton
      <4>2. IsFiniteSet(Loops)
        BY <4>1, ToolBounds, FS_Union DEF Loops
      <4> QED
        BY <4>2, FS_Subset
    <3>2. stored # {} => Cardinality(stored) # 0
      BY <3>1, FS_EmptySet
    <3>3. Cardinality(stored) \in Nat
      BY <3>1, FS_CardinalityType
    <3> HIDE DEF stored
    <3> QED
      BY <1>1, <2>1, <3>2, <3>3
  <2>5. Timed'
    <3>1. active' => \A d \in Calls : row'[d] = "pending" => deadlines'[d] > 0
      BY <1>5, <2>1, <2>2, <2>3 DEF Timed
    <3>2. ASSUME NEW l \in Loops, loop'[l].at = "stored"
          PROVE  deadlines'[loop'[l].call] > 0
      <4>1. loop[l].at = "stored" /\ loop'[l].call = loop[l].call
        BY <2>1, <3>2
      <4>2. CASE loop[l].call = c
        BY <2>4, <4>1, <4>2
      <4>3. CASE loop[l].call # c
        BY <1>3, <2>2, <4>1, <4>3 DEF Timed
      <4> QED
        BY <4>2, <4>3
    <3> QED
      BY <3>1, <3>2 DEF Timed
  <2>6. Linked'
    <3>1. \A d \in Calls : row'[d] = row[d] \/ row'[d] = "done"
      BY <1>5, <2>1
    <3> QED
      BY <2>1, <3>1 DEF Linked, IsOpen
  <2> QED
    BY <2>5, <2>6
<1>34. ASSUME NEW approve \in BOOLEAN, HilCodeMode(approve)
       PROVE  Linked' /\ Timed'
  BY <1>6, <1>34 DEF HilCodeMode
<1>35. ASSUME HilStale
       PROVE  Linked' /\ Timed'
  BY <1>6, <1>35 DEF HilStale
<1>36. ASSUME NEW h \in Handlers, HilApproves(h)
       PROVE  Linked' /\ Timed'
  <2>1. /\ h \in Loops /\ hil.call \in Calls /\ AskDeadline(h, hil.call, {}, FALSE)
        /\ UNCHANGED <<round, active, fiber, deferred, row>>
    BY <1>1, <1>36 DEF HilApproves, Hils, Loops
  <2>2. /\ deadlines' \in [Calls -> Nat]
        /\ \A m \in Loops \ {h} : loop'[m] = loop[m]
        /\ loop'[h].at \in {"stored", "refused"} /\ loop'[h].call = hil.call
    BY <2>1, AskEffect
  <2>3. /\ loop'[h].todo = {}
        /\ \/ loop'[h].at = "stored" /\ deadlines' = [deadlines EXCEPT ![hil.call] = @ + 1]
           \/ loop'[h].at = "refused" /\ UNCHANGED deadlines
    BY <1>1, <2>1 DEF AskDeadline, Place
  <2>4. /\ \A c \in Calls : deadlines'[c] >= deadlines[c]
        /\ loop'[h].at = "stored" => deadlines'[loop'[h].call] > 0
    BY <1>1, <2>1, <2>2, <2>3
  <2> QED
    BY <1>7, <2>1, <2>2, <2>3, <2>4
<1>37. ASSUME NEW h \in Handlers, HilDenies(h)
       PROVE  Linked' /\ Timed'
  <2> DEFINE rows == Closed(row, hil.call)
  <2>1. /\ Process(h, rows, NoHil, Registered(rows)) /\ h \in Loops
        /\ UNCHANGED <<round, active, fiber, deferred>>
    BY <1>37 DEF HilDenies, Loops
  <2>2. /\ rows \in [Calls -> RowStates] /\ Registered(rows) \in SUBSET Calls
        /\ \A d \in Calls : rows[d] = row[d] \/ rows[d] = "done"
    BY <1>5 DEF Registered
  <2> HIDE DEF rows
  <2>3. \A c, d \in Registered(rows) : c[1] = d[1]
    BY <2>2 DEF Registered, Linked, IsOpen
  <2>4. /\ deadlines' \in [Calls -> Nat]
        /\ \A d \in Calls : row'[d] = rows[d] \/ row'[d] = "done"
        /\ \A m \in Loops \ {h} : loop'[m] = loop[m]
        /\ loop'[h].at \in {"stored", "refused", "asked", "over"}
        /\ loop'[h].at \in {"stored", "refused"} => loop'[h].call \in Calls
    BY <1>1, <2>1, <2>2, ProcessEffect
  <2>5. /\ \A c, d \in loop'[h].todo : c[1] = d[1]
        /\ \A c \in Calls : deadlines'[c] >= deadlines[c]
        /\ loop'[h].at = "stored" => deadlines'[loop'[h].call] > 0
    BY <1>1, <2>1, <2>2, <2>3, ProcessCovers
  <2>6. \A c \in Calls : row'[c] = row[c] \/ row'[c] = "done"
    BY <2>2, <2>4
  <2> QED
    BY <1>7, <2>1, <2>4, <2>5, <2>6
<1>38. ASSUME Stop
       PROVE  Linked' /\ Timed'
  <2>1. RowsShut /\ ~active' /\ UNCHANGED <<round, deadlines, fiber, deferred, loop>>
    BY <1>38 DEF Stop, Ingest, RowsShut
  <2> QED
    BY <1>1, <1>2, <1>3, <2>1, LinkedMove DEF Linked, Timed
<1>39. ASSUME Restart
       PROVE  Linked' /\ Timed'
  <2>1. /\ UNCHANGED <<round, row, deadlines, active>> /\ fiber' = "none" /\ ~deferred'
        /\ \A l \in Loops : loop'[l] = Idle
    BY <1>39 DEF Restart
  <2>2. RowsShut /\ Idle.at = "idle" /\ Idle.todo = {}
    BY <2>1 DEF RowsShut, Idle
  <2> QED
    BY <1>1, <1>2, <1>3, <2>1, <2>2, LinkedMove DEF Linked
<1>40. CASE UNCHANGED vars
  BY <1>6, <1>40 DEF vars
<1>41. ASSUME TickFails
       PROVE  Linked' /\ Timed'
  <2>1. /\ UNCHANGED <<round, active, deadlines, row>> /\ loop' = [loop EXCEPT !["tick"] = Idle]
        /\ fiber' = "failed"
    BY <1>41 DEF TickFails
  <2>2. /\ loop'["tick"] = Idle /\ Idle.at = "idle" /\ Idle.todo = {}
        /\ \A m \in Loops \ {"tick"} : loop'[m] = loop[m]
    BY <1>1, <1>2, <2>1 DEF Idle
  <2>3. RowsShut
    BY <2>1 DEF RowsShut
  <2> QED
    BY <1>1, <1>2, <1>3, <2>1, <2>2, <2>3, LinkedMove DEF Linked
<1>42. ASSUME TickErrorEnds
       PROVE  Linked' /\ Timed'
  <2>1. /\ UNCHANGED <<round, deadlines, row, loop>> /\ (active' => active)
        /\ fiber = "failed" /\ fiber' = "none" /\ ~deferred'
    BY <1>42 DEF TickErrorEnds, FinishError, EndTick
  <2>2. RowsShut
    BY <2>1 DEF RowsShut
  <2> QED
    BY <1>1, <1>2, <1>3, <2>1, <2>2, LinkedMove DEF Linked, Timed
<1>43. ASSUME ScheduleErrorEnds
       PROVE  Linked' /\ Timed'
  BY <1>6, <1>43 DEF ScheduleErrorEnds, FinishError
<1> QED
  BY <1>20, <1>21, <1>22, <1>23, <1>24, <1>25, <1>26, <1>27, <1>28, <1>29, <1>30, <1>31,
     <1>32, <1>33, <1>34, <1>35, <1>36, <1>37, <1>38, <1>39, <1>40, <1>41, <1>42, <1>43
  DEF Next, Returns, TickStep, LoopStep, UserDecides

\* A step that moves one loop at most, and hands its calls on.
LEMMA CoveredMove ==
  ASSUME Covered, NEW l \in Loops, \A m \in Loops \ {l} : loop'[m] = loop[m],
         \A c \in Calls : row'[c] = "registered" => row[c] = "registered",
         \A c \in Calls : row'[c] = "registered" /\ Covers(l, c) => Plain' \/ Covers(l, c)',
         \/ /\ fiber = "answered" => fiber' = "answered"
            /\ Plain => Plain'
            /\ Recovering => Recovering'
            /\ Interrupted => Interrupted' \/ Recovering'
         \/ \A c \in Calls : row'[c] = "registered" => Plain' \/ Covers(l, c)'
  PROVE  Covered'
<1> SUFFICES ASSUME NEW c \in Calls, row'[c] = "registered"
             PROVE  \/ fiber' = "answered" \/ Plain' \/ Recovering' \/ Interrupted'
                    \/ \E m \in Loops : Covers(m, c)'
  BY DEF Covered
<1>1. fiber = "answered" \/ Plain \/ Recovering \/ Interrupted \/ \E m \in Loops : Covers(m, c)
  BY DEF Covered
<1>2. \A m \in Loops \ {l} : Covers(m, c) => Covers(m, c)'
  BY DEF Covers
<1> QED
  BY <1>1, <1>2

\* An interrupted CodeMode call waits for its user, who lets the run go on.
LEMMA InterruptedStep ==
  TypeOK /\ Linked /\ ~Orphaned' /\ ~lost' /\ active' /\ ~Ending /\ Interrupted /\ [Next]_vars
  => Interrupted' \/ Recovering'
<1> SUFFICES ASSUME TypeOK, Linked, ~Orphaned', ~lost', active', ~Ending, Interrupted,
                    [Next]_vars
             PROVE  Interrupted' \/ Recovering'
  OBVIOUS
<1>1. /\ fiber \in {"none", "begin"} /\ hil # NoHil /\ hil.nested /\ row[hil.call] = "pending"
      /\ hil.call \in Calls
      /\ \A l \in Loops : loop[l].at = "idle"
      /\ \A c \in Calls : work[c] \notin {"code", "asking"}
  BY DEF Interrupted, TypeOK
<1>2. ASSUME fiber' \in {"none", "begin"}, hil' = hil,
             \A l \in Loops : loop'[l].at = "idle",
             \A c \in Calls : work'[c] \notin {"code", "asking"}
      PROVE  Interrupted'
  BY <1>1, <1>2 DEF Interrupted, Orphaned, Outdated
<1>3. ASSUME UNCHANGED <<fiber, hil, loop>>, NEW c,
             \/ work' = work
             \/ \E s \in {"over", "routed", "settled"} : work' = [work EXCEPT ![c] = s]
      PROVE  Interrupted'
  <2>1. \A d \in Calls : work'[d] \notin {"code", "asking"}
    BY <1>1, <1>3 DEF TypeOK
  <2> QED
    BY <1>1, <1>2, <1>3, <2>1
<1> USE DEF durable, volatile, history, ends
<1>10. ASSUME TickFires \/ Begin
       PROVE  Interrupted'
  <2>1. fiber' \in {"none", "begin"} /\ UNCHANGED <<hil, loop, work>>
    <3>1. CASE TickFires
      BY <1>1, <3>1 DEF TickFires
    <3>2. CASE Begin
      BY <1>1, <3>2 DEF Begin, CheckRows, EndTick, IsOpen
    <3> QED
      BY <1>10, <3>1, <3>2
  <2> QED
    BY <1>1, <1>2, <2>1
<1>11. Returns \/ ModelCallsTools \/ ModelFinishes \/ TickStops \/ ProcessAnswer \/ Stop
       \/ TickFails \/ TickErrorEnds \/ ScheduleErrorEnds \/ (\E l \in Loops : LoopStep(l)) => FALSE
  BY <1>1 DEF Returns, Recovered, Dispatched, HandlerEnds, ModelCallsTools, ModelFinishes,
     TickStops, ProcessAnswer, Stop, LoopStep, LoopRefused, LoopClaims, LoopLaunches, Loops,
     TickFails, TickErrorEnds, ScheduleErrorEnds, Ending
<1>12. ASSUME NEW c \in Calls, Responds(c) \/ Routes(c) \/ ResultFrame(c) \/ Deadline(c)
       PROVE  Interrupted'
  BY <1>3, <1>12 DEF Responds, Routes, ResultFrame, Deadline
<1>13. ASSUME NEW c \in Calls, CodeStep(c)
       PROVE  Interrupted'
  <2>1. CodeExecutes(c) \/ CodeEnds(c)
    BY <1>1, <1>13 DEF CodeStep, CodeAsks, ApprovalTimesOut
  <2> QED
    BY <1>3, <2>1 DEF CodeExecutes, CodeEnds
<1>14. ASSUME UserDecides
       PROVE  Recovering'
  <2>1. HilStale
    BY <1>1, <1>14 DEF UserDecides, HilCodeMode, HilApproves, HilDenies
  <2>2. due' /\ hil' = NoHil /\ UNCHANGED <<fiber, loop, work>>
    BY <1>1, <2>1 DEF HilStale, Decided, Orphaned
  <2> QED
    BY <1>1, <2>2 DEF Recovering
<1>15. ASSUME Restart
       PROVE  Interrupted'
  <2>1. /\ fiber' = "none" /\ hil' = hil /\ \A l \in Loops : loop'[l].at = "idle"
        /\ \A c \in Calls : work'[c] \notin {"code", "asking"}
    BY <1>15 DEF Restart, Idle
  <2> QED
    BY <1>2, <2>1
<1>16. CASE UNCHANGED vars
  BY <1>3, <1>16 DEF vars
<1> QED
  BY <1>10, <1>11, <1>12, <1>13, <1>14, <1>15, <1>16 DEF Next, TickStep

\* A catch ends the run, unless a restart comes before it.
LEMMA EndingLasts == active /\ active' /\ Ending /\ [Next]_vars => Ending' \/ Restart
<1> SUFFICES ASSUME active, active', [Next]_vars, ~Restart
             PROVE  (failing => failing') /\ (fiber = "failed" => fiber' = "failed")
  BY DEF Ending
<1> USE DEF durable, volatile, history
<1>1. Returns => (failing => failing') /\ (fiber = "failed" => fiber' = "failed")
  <2>1. Recovered => (failing => failing') /\ fiber # "failed"
    BY DEF Recovered, CheckRows, EndTick
  <2>2. Dispatched => (failing => failing') /\ fiber # "failed"
    BY DEF Dispatched, EndTick
  <2>3. ASSUME NEW h \in Handlers, HandlerEnds(h)
        PROVE  (failing => failing') /\ fiber' = fiber
    BY <2>3 DEF HandlerEnds, Resume
  <2> QED
    BY <2>1, <2>2, <2>3 DEF Returns
<1>2. TickFires \/ TickFails => (failing => failing') /\ (fiber = "failed" => fiber' = "failed")
  BY DEF TickFires, TickFails
<1>3. TickStep => (failing => failing') /\ fiber # "failed"
  BY DEF TickStep, Begin, ModelCallsTools, ModelFinishes, TickStops, ProcessAnswer,
     TickErrorEnds, FinishError, CheckRows, EndTick
<1>4. ~ScheduleErrorEnds
  BY DEF ScheduleErrorEnds, FinishError
<1>5. ASSUME NEW l \in Loops, LoopStep(l)
      PROVE  (failing => failing') /\ fiber' = fiber
  BY <1>5 DEF LoopStep, LoopRefused, LoopClaims, LoopLaunches, Resume
<1>6. ASSUME NEW c \in Calls, Responds(c) \/ Routes(c) \/ ResultFrame(c) \/ Deadline(c)
      PROVE  (failing => failing') /\ fiber' = fiber
  BY <1>6 DEF Responds, Routes, ResultFrame, Deadline, Resume
<1>7. ASSUME NEW c \in Calls, CodeStep(c)
      PROVE  (failing => failing') /\ fiber' = fiber
  BY <1>7 DEF CodeStep, CodeAsks, ApprovalTimesOut, CodeExecutes, CodeEnds, Resume
<1>8. UserDecides => UNCHANGED <<failing, fiber>>
  <2>1. HilStale => UNCHANGED <<failing, fiber>>
    BY DEF HilStale
  <2>2. ASSUME NEW approve \in BOOLEAN, HilCodeMode(approve)
        PROVE  UNCHANGED <<failing, fiber>>
    BY <2>2 DEF HilCodeMode
  <2>3. ASSUME NEW h \in Handlers, HilApproves(h) \/ HilDenies(h)
        PROVE  UNCHANGED <<failing, fiber>>
    BY <2>3 DEF HilApproves, HilDenies
  <2> QED
    BY <2>1, <2>2, <2>3 DEF UserDecides
<1>9. Stop \/ UNCHANGED vars => (failing => failing') /\ fiber' = fiber
  BY DEF Stop, vars
<1> QED
  BY <1>1, <1>2, <1>3, <1>4, <1>5, <1>6, <1>7, <1>8, <1>9 DEF Next

\* After a restart the user is asked, or a tick comes.
LEMMA RestartRecovers ==
  TypeOK /\ ~Orphaned' /\ ~lost' /\ active' /\ Restart
  => Awaited' /\ Covered' /\ (NothingIsOpen' => Resumable')
<1> SUFFICES ASSUME TypeOK, ~Orphaned', ~lost', active', Restart
             PROVE  Awaited' /\ Covered' /\ (NothingIsOpen' => Resumable')
  OBVIOUS
<1>1. /\ fiber' = "none" /\ hil' = hil /\ row' = row /\ (hil = NoHil => due')
      /\ \A l \in Loops : loop'[l].at = "idle"
      /\ \A c \in Calls : work'[c] \notin {"code", "asking"}
  BY DEF Restart, Idle
<1>2. CASE hil = NoHil
  BY <1>1, <1>2 DEF Awaited, Covered, Recovering, Resumable
<1>3. CASE hil # NoHil
  <2>1. hil.call \in Calls
    BY <1>3 DEF TypeOK
  <2>2. CASE hil.nested
    <3>1. Interrupted'
      BY <1>1, <1>3, <2>1, <2>2 DEF Interrupted, Orphaned, Outdated
    <3>2. row'[hil.call] = "pending"
      BY <1>1, <3>1 DEF Interrupted
    <3> QED
      BY <2>1, <3>1, <3>2 DEF Awaited, Covered, NothingIsOpen, IsOpen
  <2>3. CASE ~hil.nested
    <3>1. Plain' /\ row'[hil.call] = "registered"
      BY <1>1, <1>3, <2>3 DEF Plain, Orphaned, Outdated
    <3> QED
      BY <1>1, <2>1, <2>3, <3>1 DEF Awaited, Covered, NothingIsOpen, IsOpen
  <2> QED
    BY <2>2, <2>3
<1> QED
  BY <1>2, <1>3

\* A CodeMode request loses its execution only to a restart.
LEMMA AwaitedStep ==
  TypeOK /\ Inv /\ Linked /\ ~Orphaned' /\ ~lost' /\ active' /\ ~Ending /\ ~Ending'
  /\ Awaited /\ [Next]_vars => Awaited'
<1> SUFFICES ASSUME TypeOK, Inv, Linked, ~Orphaned', ~lost', active', ~Ending, ~Ending',
                    Awaited, [Next]_vars,
                    hil' # NoHil, hil'.nested, work'[hil'.call] # "asking"
             PROVE  Interrupted'
  BY DEF Awaited
<1>1. /\ row \in [Calls -> RowStates] /\ hil \in Hils /\ NoHil \in Hils
      /\ loop \in [Loops -> Places]
  BY DEF TypeOK, RowStates, Hils, Places
<1>2. ASSUME hil' = hil, work'[hil.call] = "asking" <=> work[hil.call] = "asking"
      PROVE  Interrupted'
  BY <1>2, InterruptedStep DEF Awaited, Recovering
<1>3. ~Plain'
  BY DEF Plain
\* A loop that goes on leaves the request, or makes one that is no CodeMode's.
<1>4. ASSUME NEW l \in Loops, NEW rows \in [Calls -> RowStates], NEW h \in Hils,
             \A c \in Calls : rows[c] = row[c] \/ rows[c] = "done",
             Process(l, rows, h, Registered(rows))
      PROVE  hil' = h
  <2>1. Registered(rows) \in SUBSET Calls /\ \A c, d \in Registered(rows) : c[1] = d[1]
    BY <1>4 DEF Registered, Linked, IsOpen
  <2> QED
    BY <1>3, <1>4, <2>1, ProcessCovers
<1>5. ASSUME NEW l \in Loops, NEW rows \in [Calls -> RowStates],
             \A c \in Calls : rows[c] = row[c] \/ rows[c] = "done", Continue(l, rows)
      PROVE  hil' = hil
  <2>1. \A c \in Calls : rows[c] = "registered" => row[c] = "registered"
    BY <1>5
  <2> QED
    BY <1>3, <1>5, <2>1, ContinueCovers
<1>6. /\ "tick" \in Loops
      /\ \A c : /\ Closed(row, c) \in [Calls -> RowStates]
                /\ \A d \in Calls : Closed(row, c)[d] = row[d] \/ Closed(row, c)[d] = "done"
  BY <1>1, RowsClose DEF Loops
<1> USE DEF durable, volatile, history, ends
<1>10. ASSUME TickFires \/ Returns \/ ModelCallsTools \/ TickStops
       PROVE  Interrupted'
  BY <1>2, <1>10 DEF TickFires, Returns, Recovered, Dispatched, HandlerEnds, ModelCallsTools,
     TickStops
<1>11. ASSUME Begin \/ ProcessAnswer
       PROVE  Interrupted'
  <2>1. work' = work /\ (hil' = hil \/ Process("tick", row, hil, Registered(row)))
    BY <1>11 DEF Begin, ProcessAnswer
  <2> QED
    BY <1>1, <1>2, <1>4, <1>6, <2>1
<1>12. ModelFinishes \/ Stop => FALSE
  BY DEF ModelFinishes, Stop
<1>13. ASSUME NEW l \in Loops, LoopRefused(l)
       PROVE  Interrupted'
  <2>1. work' = work /\ (hil' = hil \/ Continue(l, Closed(row, loop[l].call)))
    BY <1>13 DEF LoopRefused
  <2> QED
    BY <1>2, <1>5, <1>6, <2>1
<1>14. ASSUME NEW l \in Loops, LoopClaims(l)
       PROVE  Interrupted'
  <2>1. work' = work /\ (hil' = hil \/ Continue(l, row))
    BY <1>14 DEF LoopClaims
  <2> QED
    BY <1>1, <1>2, <1>5, <2>1
<1>15. ASSUME NEW l \in Loops, LoopLaunches(l)
       PROVE  Interrupted'
  <2> DEFINE c == loop[l].call
  <2>1. c \in Calls /\ work[c] = "none"
    BY <1>15 DEF LoopLaunches, Inv, Claims, ClaimOf
  <2>2. /\ hil' = hil \/ Continue(l, row)
        /\ work' = work \/ \E s \in {"code", "sent"} : work' = [work EXCEPT ![c] = s]
    BY <1>15 DEF LoopLaunches
  <2> HIDE DEF c
  <2>3. \A d \in Calls : work'[d] = "asking" <=> work[d] = "asking"
    BY <2>1, <2>2 DEF TypeOK
  <2>4. hil' = hil
    BY <1>1, <1>5, <2>2
  <2>5. hil.call \in Calls
    BY <1>1, <2>4 DEF Hils
  <2> QED
    BY <1>2, <2>3, <2>4, <2>5
<1>16. ASSUME NEW c \in Calls, Responds(c) \/ Routes(c) \/ ResultFrame(c) \/ Deadline(c)
       PROVE  Interrupted'
  <2>1. hil' = hil
    BY <1>16 DEF Responds, Routes, ResultFrame, Deadline
  <2>2. hil.call \in Calls
    BY <1>1, <2>1 DEF Hils
  <2> QED
    BY <1>2, <1>16, <2>1, <2>2 DEF Responds, Routes, ResultFrame, Deadline, TypeOK
<1>17. ASSUME NEW c \in Calls, CodeAsks(c) \/ ApprovalTimesOut(c)
       PROVE  Interrupted'
  <2>1. CASE CodeAsks(c)
    <3>1. work'[c] = "asking" /\ hil'.call = c
      BY <2>1 DEF CodeAsks, TypeOK
    <3> QED
      BY <3>1
  <2>2. CASE ApprovalTimesOut(c)
    <3>1. hil' = hil /\ hil # [call |-> c, nested |-> TRUE]
      BY <2>2 DEF ApprovalTimesOut
    <3>2. hil.call \in Calls \ {c}
      BY <1>1, <3>1 DEF Hils
    <3> QED
      BY <1>2, <2>2, <3>1, <3>2 DEF ApprovalTimesOut, TypeOK
  <2> QED
    BY <1>17, <2>1, <2>2
<1>18. ASSUME NEW c \in Calls, CodeExecutes(c) \/ CodeEnds(c)
       PROVE  Interrupted'
  <2>1. hil' = hil /\ \E s \in {"over", "settled"} : work' = [work EXCEPT ![c] = s]
    BY <1>18 DEF CodeExecutes, CodeEnds
  <2>2. hil.call \in Calls
    BY <1>1, <2>1 DEF Hils
  <2>3. hil.call # c \/ work[c] # "asking"
    <3> SUFFICES ASSUME hil.call = c, work[c] = "asking"
                 PROVE  FALSE
      OBVIOUS
    <3>1. row' = Closed(row, c)
      BY <1>18 DEF CodeExecutes, CodeEnds
    <3>2. row'[c] # "pending"
      BY <1>1, <3>1 DEF Closed, IsOpen
    <3> QED
      BY <2>1, <3>2 DEF Orphaned, Outdated
  <2> QED
    BY <1>2, <2>1, <2>2, <2>3 DEF TypeOK
<1>19. (\E approve \in BOOLEAN : HilCodeMode(approve)) \/ HilStale => FALSE
  BY DEF HilCodeMode, HilStale, Decided
<1>20. (\E h \in Handlers : HilApproves(h)) => FALSE
  BY DEF HilApproves
<1>21. ASSUME NEW h \in Handlers, HilDenies(h)
       PROVE  FALSE
  <2>1. h \in Loops /\ Process(h, Closed(row, hil.call), NoHil, Registered(Closed(row, hil.call)))
    BY <1>21 DEF HilDenies, Loops
  <2> QED
    BY <1>1, <1>4, <1>6, <2>1
<1>22. ASSUME Restart
       PROVE  Interrupted'
  BY <1>22, RestartRecovers DEF Awaited
<1>23. CASE UNCHANGED vars
  BY <1>2, <1>23 DEF vars
<1>24. TickFails \/ TickErrorEnds \/ ScheduleErrorEnds => FALSE
  BY DEF TickFails, TickErrorEnds, ScheduleErrorEnds, Ending
<1> QED
  BY <1>10, <1>11, <1>12, <1>13, <1>14, <1>15, <1>16, <1>17, <1>18, <1>19, <1>20, <1>21,
     <1>22, <1>23, <1>24 DEF Next, TickStep, LoopStep, CodeStep, UserDecides

\* Every step leaves each registered call with somebody who will come to it.
LEMMA CoveredStep ==
  TypeOK /\ Inv /\ Linked /\ ~Orphaned /\ ~Orphaned' /\ ~Displaced /\ ~lost' /\ Awaited
  /\ Covered /\ active /\ active' /\ ~Ending /\ ~Ending' /\ [Next]_vars => Covered'
<1> SUFFICES ASSUME TypeOK, Inv, Linked, ~Orphaned, ~Orphaned', ~Displaced, ~lost', Awaited,
                    Covered, active, active', ~Ending, ~Ending', [Next]_vars
             PROVE  Covered'
  OBVIOUS
<1>1. /\ row \in [Calls -> RowStates] /\ hil \in Hils /\ NoHil \in Hils
      /\ loop \in [Loops -> Places]
  BY DEF TypeOK, RowStates, Hils, Places
<1>2. "tick" \in Loops /\ "tick" \notin Handlers
  BY ToolBounds DEF Loops
<1>3. Registered(row) \in SUBSET Calls /\ \A c, d \in Registered(row) : c[1] = d[1]
  BY DEF Registered, Linked, IsOpen
<1>4. \A c : /\ Closed(row, c) \in [Calls -> RowStates]
             /\ \A d \in Calls : Closed(row, c)[d] = row[d] \/ Closed(row, c)[d] = "done"
  BY <1>1, RowsClose
<1>9. Interrupted => Interrupted' \/ Recovering'
  BY InterruptedStep
<1>5. ASSUME UNCHANGED <<loop, fiber>>, row' = row \/ \E c : row' = Closed(row, c),
             Plain => Plain', Recovering => Recovering'
      PROVE  Covered'
  <2>1. \A c \in Calls : row'[c] = "registered" => row[c] = "registered"
    BY <1>4, <1>5
  <2>2. \A c \in Calls : Covers("tick", c) => Covers("tick", c)'
    BY <1>5 DEF Covers
  <2> QED
    BY <1>2, <1>5, <2>1, <2>2, <1>9, CoveredMove
<1>6. ASSUME NEW l \in Loops, loop[l].at # "idle", NEW rows \in [Calls -> RowStates],
             \A c \in Calls : rows[c] = row[c] \/ rows[c] = "done",
             rows[loop[l].call] # "registered", fiber' = fiber, Continue(l, rows)
      PROVE  Covered'
  <2>1. \A c \in Calls : rows[c] = "registered" => row[c] = "registered"
    BY <1>6
  <2>2. /\ IF loop'[l].at = "asked" THEN Plain' ELSE hil' = hil
        /\ \A c \in Calls : row'[c] = "registered" /\ Covers(l, c) => Plain' \/ Covers(l, c)'
    BY <1>6, <2>1, ContinueCovers
  <2>3. PICK todo \in SUBSET Calls : Process(l, rows, hil, todo)
    BY <1>1, <1>6 DEF Continue, Registered, Places
  <2>4. /\ \A d \in Calls : row'[d] = rows[d] \/ row'[d] = "done"
        /\ \A m \in Loops \ {l} : loop'[m] = loop[m]
    BY <1>1, <1>6, <2>3, ProcessEffect
  <2>5. ~Recovering /\ (Plain => Plain')
    BY <1>6, <2>2 DEF Recovering, Plain
  <2>6. \A c \in Calls : row'[c] = "registered" => row[c] = "registered"
    BY <2>1, <2>4
  <2> QED
    BY <1>6, <2>2, <2>4, <2>5, <2>6, <1>9, CoveredMove
\* A loop takes all registered calls.
<1>7. ASSUME NEW l \in Loops, NEW rows \in [Calls -> RowStates], NEW h \in Hils,
             \A c \in Calls : rows[c] = row[c] \/ rows[c] = "done",
             loop[l].at = "idle", Process(l, rows, h, Registered(rows))
      PROVE  Covered'
  <2>1. Registered(rows) \in SUBSET Calls /\ \A c, d \in Registered(rows) : c[1] = d[1]
    BY <1>7 DEF Registered, Linked, IsOpen
  <2>2. /\ \A d \in Calls : row'[d] = rows[d] \/ row'[d] = "done"
        /\ \A m \in Loops \ {l} : loop'[m] = loop[m]
    BY <1>7, <2>1, ProcessEffect
  <2>3. \A c \in Registered(rows) : row'[c] = "registered" => Plain' \/ Covers(l, c)'
    BY <1>7, <2>1, ProcessCovers
  <2>4. \A c \in Calls : row'[c] = "registered" => c \in Registered(rows) /\ row[c] = "registered"
    BY <1>7, <2>2 DEF Registered
  <2> QED
    BY <2>2, <2>3, <2>4, <1>9, CoveredMove
\* A loop that has returned covers nothing.
<1>8. ASSUME NEW l \in Loops, loop[l].at \in {"over", "asked"}, loop' = [loop EXCEPT ![l] = Idle],
             \A c \in Calls : row'[c] = "registered" => row[c] = "registered",
             hil' = hil, fiber = "answered" => fiber' = "answered"
      PROVE  Covered'
  <2>1. /\ \A m \in Loops \ {l} : loop'[m] = loop[m]
        /\ \A c \in Calls : ~Covers(l, c)
    BY <1>8 DEF Covers
  <2>2. ~Recovering /\ (Plain => Plain')
    BY <1>8 DEF Recovering, Plain
  <2> QED
    BY <1>8, <2>1, <2>2, <1>9, CoveredMove
<1> USE DEF durable, volatile, history, ends
<1>20. ASSUME TickFires
       PROVE  Covered'
  <2>1. /\ UNCHANGED <<loop, row, hil, work>>
        /\ fiber' = IF fiber = "none" THEN "begin" ELSE fiber
    BY <1>20 DEF TickFires
  <2>2. Recovering => Recovering'
    BY <2>1 DEF Recovering
  <2>3. \A c \in Calls : Covers("tick", c) => Covers("tick", c)'
    BY <2>1 DEF Covers
  <2> QED
    BY <1>2, <2>1, <2>2, <2>3, <1>9, CoveredMove DEF Plain
<1>21. ASSUME Begin
       PROVE  Covered'
  <2>1. fiber = "begin" /\ loop["tick"].at = "idle"
    BY <1>21 DEF Begin, Linked
  <2>2. CASE hil = NoHil /\ \E c \in Calls : row[c] = "registered"
    BY <1>1, <1>2, <1>7, <1>21, <2>1, <2>2 DEF Begin
  <2>3. CASE ~(hil = NoHil /\ \E c \in Calls : row[c] = "registered")
    <3>1. /\ UNCHANGED <<hil, loop>>
          /\ \A c \in Calls : row'[c] = "registered" => row[c] = "registered"
      BY <1>21, <2>3 DEF Begin, CheckRows, EndTick, Ingest
    <3>2. CASE hil = NoHil
      BY <2>3, <3>1, <3>2 DEF Covered
    <3>3. CASE hil # NoHil
      <4>1. ~Recovering /\ (Plain => Plain')
        BY <3>1, <3>3 DEF Recovering, Plain
      <4>2. \A c \in Calls : Covers("tick", c) => Covers("tick", c)'
        BY <3>1 DEF Covers
      <4> QED
        BY <1>2, <2>1, <3>1, <4>1, <4>2, <1>9, CoveredMove
    <3> QED
      BY <3>2, <3>3
  <2> QED
    BY <2>2, <2>3
<1>22. ASSUME Recovered
       PROVE  Covered'
  <2>1. \A c \in Calls : row'[c] = "registered" => row[c] = "registered"
    BY <1>22 DEF Recovered, CheckRows, Ingest
  <2> QED
    BY <1>2, <1>8, <1>22, <2>1 DEF Recovered
<1>23. ASSUME ModelCallsTools
       PROVE  Covered'
  BY <1>23 DEF ModelCallsTools, Covered
<1>24. ASSUME ModelFinishes \/ TickStops \/ Stop
       PROVE  Covered'
  BY <1>24 DEF ModelFinishes, TickStops, Stop
<1>25. ASSUME ProcessAnswer
       PROVE  Covered'
  <2>1. loop["tick"].at = "idle" /\ Process("tick", row, hil, Registered(row))
    BY <1>25 DEF ProcessAnswer, Linked
  <2> QED
    BY <1>1, <1>2, <1>7, <2>1
<1>26. ASSUME Dispatched
       PROVE  Covered'
  BY <1>2, <1>8, <1>26 DEF Dispatched
<1>27. ASSUME NEW h \in Handlers, HandlerEnds(h)
       PROVE  Covered'
  BY <1>8, <1>27 DEF HandlerEnds, Loops
<1>28. ASSUME NEW l \in Loops, LoopRefused(l)
       PROVE  Covered'
  <2> DEFINE rows == Closed(row, loop[l].call)
  <2>1. loop[l].at = "refused" /\ Continue(l, rows) /\ fiber' = fiber
    BY <1>28 DEF LoopRefused
  <2>2. loop[l].call \in Calls
    BY <2>1 DEF Inv, Claims, ClaimOf
  <2>3. rows[loop[l].call] # "registered"
    BY <1>1, <2>2 DEF Closed, IsOpen
  <2> HIDE DEF rows
  <2>4. rows \in [Calls -> RowStates] /\ \A c \in Calls : rows[c] = row[c] \/ rows[c] = "done"
    BY <1>4 DEF rows
  <2> QED
    BY <1>6, <2>1, <2>3, <2>4
<1>29. ASSUME NEW l \in Loops, LoopClaims(l)
       PROVE  Covered'
  <2> DEFINE c == loop[l].call
  <2>1. CASE row[c] = "registered"
    <3>1. /\ loop[l].at = "stored" /\ loop' = [loop EXCEPT ![l].at = "started"]
          /\ row' = [row EXCEPT ![c] = "pending"] /\ UNCHANGED <<hil, fiber>>
      BY <1>29, <2>1 DEF LoopClaims
    <3>2. /\ loop'[l] = [loop[l] EXCEPT !.at = "started"]
          /\ \A m \in Loops \ {l} : loop'[m] = loop[m]
      BY <1>1, <3>1
    <3>3. loop[l] \in Places
      BY <1>1
    <3>4. /\ loop'[l].at = "started" /\ loop'[l].todo = loop[l].todo
          /\ loop'[l].call = loop[l].call /\ loop'[l].snap = loop[l].snap
      BY <3>2, <3>3 DEF Places
    <3>5. \A d \in Calls : Covers(l, d) => Covers(l, d)'
      BY <3>4 DEF Covers
    <3>6. \A d \in Calls : row'[d] = "registered" => row[d] = "registered"
      BY <1>1, <3>1
    <3>7. ~Recovering /\ (Plain => Plain')
      BY <3>1 DEF Recovering, Plain
    <3> QED
      BY <3>1, <3>2, <3>5, <3>6, <3>7, <1>9, CoveredMove
  <2>2. CASE row[c] # "registered"
    BY <1>1, <1>6, <1>29, <2>2 DEF LoopClaims
  <2> QED
    BY <2>1, <2>2
<1>30. ASSUME NEW l \in Loops, LoopLaunches(l)
       PROVE  Covered'
  <2>1. loop[l].at = "started" /\ Continue(l, row) /\ fiber' = fiber
    BY <1>30 DEF LoopLaunches
  <2>2. row[loop[l].call] # "registered"
    BY <2>1 DEF Inv, Claims, ClaimOf
  <2> QED
    BY <1>1, <1>6, <2>1, <2>2
<1>31. ASSUME NEW c \in Calls, Responds(c) \/ Routes(c) \/ ResultFrame(c) \/ Deadline(c)
       PROVE  Covered'
  <2>1. /\ UNCHANGED <<loop, fiber, hil>>
        /\ row' = row \/ row' = Closed(row, c)
        /\ due => due'
        /\ work' = work \/ work' = [work EXCEPT ![c] = "over"]
                        \/ work' = [work EXCEPT ![c] = "routed"]
    BY <1>31 DEF Responds, Routes, ResultFrame, Deadline, Resume
  <2>2. \A d \in Calls : work'[d] \in {"code", "asking"} => work[d] \in {"code", "asking"}
    BY <2>1 DEF TypeOK
  <2>3. (Plain => Plain') /\ (Recovering => Recovering')
    BY <2>1, <2>2 DEF Plain, Recovering
  <2> QED
    BY <1>5, <2>1, <2>3
<1>32. ASSUME NEW c \in Calls, CodeAsks(c)
       PROVE  Covered'
  <2>1. /\ UNCHANGED <<loop, fiber, row>> /\ work[c] = "code"
        /\ hil' = [call |-> c, nested |-> TRUE]
    BY <1>32 DEF CodeAsks
  <2>2. ~Plain /\ ~Recovering
    BY <1>32, <2>1 DEF Plain, Recovering, Displaced, Awaited, Interrupted, CodeAsks
  <2> QED
    BY <1>5, <2>1, <2>2
<1>33. ASSUME NEW c \in Calls, ApprovalTimesOut(c)
       PROVE  Covered'
  <2>1. /\ UNCHANGED <<loop, fiber, row>> /\ work[c] = "asking"
        /\ hil' = IF hil = [call |-> c, nested |-> TRUE] THEN NoHil ELSE hil
    BY <1>33 DEF ApprovalTimesOut
  <2>2. ~Recovering /\ (Plain => Plain')
    BY <2>1 DEF Plain, Recovering
  <2> QED
    BY <1>5, <2>1, <2>2
<1>34. ASSUME NEW c \in Calls, CodeExecutes(c) \/ CodeEnds(c)
       PROVE  Covered'
  <2>1. /\ UNCHANGED <<loop, fiber, hil>>
        /\ row' = row \/ row' = Closed(row, c)
        /\ due => due'
        /\ work' = [work EXCEPT ![c] = "over"] \/ work' = [work EXCEPT ![c] = "settled"]
    <3>1. CASE CodeExecutes(c)
      BY <3>1 DEF CodeExecutes
    <3>2. CASE CodeEnds(c)
      <4>1. Resume(row', hil) => (due => due')
        BY DEF Resume
      <4> QED
        BY <3>2, <4>1 DEF CodeEnds
    <3> QED
      BY <1>34, <3>1, <3>2
  <2>2. \A d \in Calls : work'[d] \in {"code", "asking"} => work[d] \in {"code", "asking"}
    BY <2>1 DEF TypeOK
  <2>3. (Plain => Plain') /\ (Recovering => Recovering')
    BY <2>1, <2>2 DEF Plain, Recovering
  <2> QED
    BY <1>5, <2>1, <2>3
<1>35. ASSUME NEW approve \in BOOLEAN, HilCodeMode(approve)
       PROVE  Covered'
  <2>1. /\ UNCHANGED <<loop, fiber>>
        /\ row' = row \/ row' = Closed(row, hil.call)
        /\ ~Plain /\ ~Recovering
    BY <1>35 DEF HilCodeMode, Plain, Recovering
  <2> QED
    BY <1>5, <2>1
<1>36. ASSUME HilStale
       PROVE  Covered'
  <2>1. /\ hil # NoHil /\ hil.nested /\ UNCHANGED <<loop, fiber>>
        /\ row' = row \/ row' = Closed(row, hil.call)
    BY <1>36 DEF HilStale, Orphaned, Outdated
  <2>2. ~Plain /\ ~Recovering
    BY <2>1 DEF Plain, Recovering
  <2> QED
    BY <1>5, <2>1, <2>2
<1>37. ASSUME NEW h \in Handlers, HilApproves(h)
       PROVE  Covered'
  <2>1. /\ h \in Loops /\ hil.call \in Calls /\ AskDeadline(h, hil.call, {}, FALSE)
        /\ loop[h] = Idle /\ UNCHANGED <<fiber, row>>
    BY <1>1, <1>37 DEF HilApproves, Hils, Loops
  <2>2. /\ \A m \in Loops \ {h} : loop'[m] = loop[m]
        /\ loop'[h].at \in {"stored", "refused"}
    BY <2>1, AskEffect
  <2>3. ~loop'[h].snap
    BY <1>1, <2>1 DEF AskDeadline, Place
  <2>4. \A c \in Calls : Covers(h, c)'
    BY <2>2, <2>3 DEF Covers
  <2> QED
    BY <2>1, <2>2, <2>4, <1>9, CoveredMove
<1>38. ASSUME NEW h \in Handlers, HilDenies(h)
       PROVE  Covered'
  <2> DEFINE rows == Closed(row, hil.call)
  <2>1. /\ Process(h, rows, NoHil, Registered(rows)) /\ h \in Loops
        /\ loop[h].at = "idle"
    BY <1>38 DEF HilDenies, Loops, Idle
  <2>2. rows \in [Calls -> RowStates] /\ \A d \in Calls : rows[d] = row[d] \/ rows[d] = "done"
    BY <1>4
  <2> HIDE DEF rows
  <2> QED
    BY <1>1, <1>7, <2>1, <2>2
<1>39. ASSUME Restart
       PROVE  Covered'
  BY <1>39, RestartRecovers
<1>40. CASE UNCHANGED vars
  <2>1. (Plain => Plain') /\ (Recovering => Recovering')
    BY <1>40 DEF vars, Plain, Recovering
  <2> QED
    BY <1>5, <1>40, <2>1 DEF vars
<1>41. TickFails \/ TickErrorEnds \/ ScheduleErrorEnds => FALSE
  BY DEF TickFails, TickErrorEnds, ScheduleErrorEnds, Ending
<1> QED
  BY <1>20, <1>21, <1>22, <1>23, <1>24, <1>25, <1>26, <1>27, <1>28, <1>29, <1>30, <1>31,
     <1>32, <1>33, <1>34, <1>35, <1>36, <1>37, <1>38, <1>39, <1>40, <1>41
  DEF Next, Returns, TickStep, LoopStep, CodeStep, UserDecides

\* Whoever closes the last row, or looks away from the rows, leaves the run to
\* somebody else.
LEMMA ResumableStep ==
  /\ TypeOK /\ Inv /\ Linked /\ ~Orphaned /\ ~Orphaned' /\ ~lost' /\ active /\ active'
  /\ ~Ending /\ ~Ending'
  /\ NothingIsOpen => Resumable
  /\ [Next]_vars
  => (NothingIsOpen' => Resumable')
<1> SUFFICES ASSUME TypeOK, Inv, Linked, ~Orphaned, ~Orphaned', ~lost', active, active',
                    ~Ending, ~Ending', NothingIsOpen => Resumable, [Next]_vars,
                    NothingIsOpen', ~Resumable'
             PROVE  FALSE
  OBVIOUS
<1>1. /\ row \in [Calls -> RowStates] /\ hil \in Hils /\ NoHil \in Hils
      /\ loop \in [Loops -> Places]
  BY DEF TypeOK, RowStates, Hils, Places
<1>2. "tick" \in Loops /\ "tick" \notin Handlers
  BY ToolBounds DEF Loops
<1>3. hil' = NoHil
  <2>1. hil' \in Hils
    <3>1. TypeOK'
      BY TypesStep
    <3> QED
      BY <3>1 DEF TypeOK, Hils
  <2> SUFFICES ASSUME hil' # NoHil
               PROVE  FALSE
    OBVIOUS
  <2>2. hil'.call \in Calls
    BY <2>1 DEF Hils
  <2>3. CASE hil'.nested
    BY <2>2, <2>3 DEF Orphaned, Outdated, Resumable, Running, NothingIsOpen, IsOpen
  <2>4. CASE ~hil'.nested
    BY <2>2, <2>4 DEF Orphaned, Outdated, NothingIsOpen, IsOpen
  <2> QED
    BY <2>3, <2>4
<1>4. /\ ~due' /\ ~deferred' /\ fiber' \notin {"begin", "recover", "model", "answered"}
      /\ ~(fiber' = "dispatch" /\ loop'["tick"].at # "asked")
      /\ \A h \in Handlers : loop'[h].at \in {"idle", "asked"}
      /\ \A c \in Calls : work'[c] \notin {"code", "asking", "granted", "settled"}
  BY DEF Resumable, Running
<1>5. ASSUME row' = row
      PROVE  Resumable
  BY <1>5 DEF NothingIsOpen
<1>6. ASSUME NEW h, h = NoHil, Resume(row', h)
      PROVE  FALSE
  BY <1>4, <1>6 DEF Resume, NothingIsOpen, Ending
<1>7. ~Plain'
  BY <1>3 DEF Plain
\* A loop that goes on does not ask: the request it makes is for an open row.
<1>8. ASSUME NEW l \in Loops, NEW rows \in [Calls -> RowStates], NEW h \in Hils,
             NEW todo \in SUBSET Calls, \A c, d \in todo : c[1] = d[1],
             Process(l, rows, h, todo)
      PROVE  loop'[l].at \notin {"idle", "asked"}
  <2>1. loop'[l].at # "asked"
    BY <1>7, <1>8, ProcessCovers
  <2>2. loop'[l].at \in {"stored", "refused", "asked", "over"}
    BY <1>8, ProcessEffect
  <2> QED
    BY <2>1, <2>2
<1>9. ASSUME NEW l \in Loops, loop[l].at # "idle", NEW rows \in [Calls -> RowStates],
             \A c \in Calls : rows[c] = row[c] \/ rows[c] = "done",
             Continue(l, rows), fiber' = fiber
      PROVE  FALSE
  <2> DEFINE todo == IF loop[l].snap THEN loop[l].todo ELSE Registered(rows)
  <2>1. todo \in SUBSET Calls /\ \A c, d \in todo : c[1] = d[1]
    <3>1. loop[l].todo \in SUBSET Calls /\ \A c, d \in loop[l].todo : c[1] = d[1]
      BY <1>1 DEF Linked, Places
    <3>2. Registered(rows) \in SUBSET Calls /\ \A c, d \in Registered(rows) : c[1] = d[1]
      BY <1>9 DEF Linked, Registered, IsOpen
    <3> QED
      BY <3>1, <3>2
  <2>2. Process(l, rows, hil, todo)
    BY <1>9 DEF Continue
  <2> HIDE DEF todo
  <2>3. loop'[l].at \notin {"idle", "asked"}
    BY <1>1, <1>8, <1>9, <2>1, <2>2
  <2>4. l = "tick"
    BY <1>4, <2>3 DEF Loops
  <2> QED
    BY <1>4, <1>9, <2>3, <2>4 DEF Linked
<1> USE DEF durable, volatile, history, ends
<1>20. ASSUME TickFires
       PROVE  FALSE
  BY <1>4, <1>20 DEF TickFires
<1>21. ASSUME Begin
       PROVE  FALSE
  <2>1. row' = row => \A c \in Calls : ~IsOpen(row[c])
    BY DEF NothingIsOpen
  <2> QED
    BY <1>4, <1>21, <2>1 DEF Begin, CheckRows, EndTick
<1>22. ASSUME Recovered
       PROVE  FALSE
  <2>1. row' = row => \A c \in Calls : ~IsOpen(row[c])
    BY DEF NothingIsOpen
  <2> QED
    BY <1>4, <1>22, <2>1 DEF Recovered, CheckRows
<1>23. ASSUME ModelCallsTools \/ ModelFinishes \/ TickStops \/ Stop
       PROVE  FALSE
  BY <1>4, <1>23 DEF ModelCallsTools, ModelFinishes, TickStops, Stop
<1>24. ASSUME ProcessAnswer
       PROVE  FALSE
  <2>1. Process("tick", row, hil, Registered(row)) /\ fiber' = "dispatch"
    BY <1>24 DEF ProcessAnswer
  <2>2. Registered(row) \in SUBSET Calls /\ \A c, d \in Registered(row) : c[1] = d[1]
    BY DEF Registered, Linked, IsOpen
  <2>3. loop'["tick"].at \notin {"idle", "asked"}
    BY <1>1, <1>2, <1>8, <2>1, <2>2
  <2> QED
    BY <1>4, <2>1, <2>3
<1>25. ASSUME Dispatched
       PROVE  FALSE
  <2>1. /\ fiber = "dispatch" /\ row' = row /\ loop' = [loop EXCEPT !["tick"] = Idle]
        /\ due' = (\/ due
                   \/ /\ active /\ loop["tick"].at = "over"
                      /\ \E c \in Calls : row[c] = "done"
                      /\ \A c \in Calls : ~IsOpen(row[c])
                   \/ deferred /\ active)
        /\ work' = work
    BY <1>25 DEF Dispatched, EndTick, Ending
  <2>2. loop["tick"].at # "asked"
    <3>1. \A h \in Handlers : loop'[h] = loop[h]
      BY <1>1, <1>2, <2>1 DEF Loops
    <3> SUFFICES ASSUME loop["tick"].at = "asked"
                 PROVE  FALSE
      OBVIOUS
    <3> QED
      BY <1>4, <1>5, <2>1, <3>1 DEF Resumable, Running
  <2>3. loop["tick"].at = "over"
    BY <1>25, <2>2 DEF Dispatched
  <2>4. \A c \in Calls : ~IsOpen(row[c])
    BY <2>1 DEF NothingIsOpen
  <2>5. \E c \in Calls : row[c] = "done"
    <3>1. round \in 1 .. Len(Batches)
      BY <2>1, ToolBounds DEF TypeOK, Linked
    <3>2. Batches[round] # << >> /\ Len(Batches[round]) \in Nat
      BY <3>1, ToolBounds
    <3>3. Len(Batches[round]) > 0
      BY <3>1, <3>2, ToolBounds
    <3>4. <<round, 1>> \in Calls
      BY <3>1, <3>2, <3>3 DEF Calls, Rounds
    <3> DEFINE c == <<round, 1>>
    <3>5. c \in Calls /\ c[1] = round
      BY <3>4
    <3> HIDE DEF c
    <3>6. row[c] # "none"
      BY <3>1, <3>5 DEF Inv, RowsFollow
    <3>7. row[c] # "ingested"
      BY <2>1, <3>5 DEF Linked
    <3>8. row[c] = "done"
      BY <1>1, <2>4, <3>5, <3>6, <3>7 DEF RowStates, IsOpen
    <3> QED
      BY <3>5, <3>8
  <2> QED
    BY <1>4, <2>1, <2>3, <2>4, <2>5
<1>26. ASSUME NEW h \in Handlers, HandlerEnds(h)
       PROVE  FALSE
  <2>1. /\ row' = row /\ hil' = hil /\ loop' = [loop EXCEPT ![h] = Idle]
        /\ UNCHANGED <<fiber, deferred, work>> /\ h \in Loops /\ h # "tick"
    BY <1>2, <1>26 DEF HandlerEnds, Loops
  <2>2. CASE loop[h].at = "over"
    BY <1>3, <1>6, <1>26, <2>1, <2>2 DEF HandlerEnds
  <2>3. CASE loop[h].at # "over"
    <3>1. loop[h].at = "asked" /\ due' = due
      BY <1>26, <2>3 DEF HandlerEnds
    <3>2. \A m \in Loops \ {h} : loop'[m] = loop[m]
      BY <1>1, <2>1
    <3>3. \A k \in Handlers : loop[k].at \in {"idle", "asked"}
      BY <1>4, <3>1, <3>2 DEF Loops
    <3> QED
      BY <1>2, <1>4, <1>5, <2>1, <3>1, <3>2, <3>3 DEF Resumable, Running
  <2> QED
    BY <2>2, <2>3
<1>28. ASSUME NEW l \in Loops, LoopRefused(l)
       PROVE  FALSE
  <2> DEFINE rows == Closed(row, loop[l].call)
  <2>1. loop[l].at # "idle" /\ Continue(l, rows) /\ fiber' = fiber
    BY <1>28 DEF LoopRefused
  <2>2. rows \in [Calls -> RowStates] /\ \A c \in Calls : rows[c] = row[c] \/ rows[c] = "done"
    BY <1>1, RowsClose
  <2> HIDE DEF rows
  <2> QED
    BY <1>9, <2>1, <2>2
<1>29. ASSUME NEW l \in Loops, LoopClaims(l)
       PROVE  FALSE
  <2> DEFINE c == loop[l].call
  <2>1. CASE row[c] = "registered"
    <3>1. row' = [row EXCEPT ![c] = "pending"] /\ c \in Calls
      BY <1>29, <2>1 DEF LoopClaims, Inv, Claims, ClaimOf
    <3> QED
      BY <1>1, <3>1 DEF NothingIsOpen, IsOpen
  <2>2. CASE row[c] # "registered"
    BY <1>1, <1>9, <1>29, <2>2 DEF LoopClaims
  <2> QED
    BY <2>1, <2>2
<1>30. ASSUME NEW l \in Loops, LoopLaunches(l)
       PROVE  FALSE
  <2>1. loop[l].at # "idle" /\ Continue(l, row) /\ fiber' = fiber
    BY <1>30 DEF LoopLaunches
  <2> QED
    BY <1>1, <1>9, <2>1
<1>31. ASSUME NEW c \in Calls, Responds(c) \/ CodeEnds(c)
       PROVE  FALSE
  BY <1>3, <1>6, <1>31 DEF Responds, CodeEnds
<1>32. ASSUME NEW c \in Calls, Routes(c)
       PROVE  FALSE
  BY <1>3, <1>6, <1>32 DEF Routes
\* Steps that leave the rows and who will look at them.
<1>10. ASSUME row' = row, UNCHANGED <<fiber, deferred, loop>>, due => due',
              \A c \in Calls : Running(c) => Running(c)'
       PROVE  FALSE
  BY <1>4, <1>5, <1>10 DEF Resumable, Running
<1>33. ASSUME NEW c \in Calls, ResultFrame(c)
       PROVE  FALSE
  <2>1. CASE IsOpen(row[c])
    BY <1>3, <1>6, <1>33, <2>1 DEF ResultFrame
  <2>2. CASE ~IsOpen(row[c])
    <3>1. row' = row
      BY <1>1, <1>33, <2>2 DEF ResultFrame, Closed
    <3>2. \A d \in Calls : Running(d) => Running(d)'
      BY <1>33 DEF ResultFrame, Running, TypeOK
    <3> QED
      BY <1>10, <1>33, <2>2, <3>1, <3>2 DEF ResultFrame
  <2> QED
    BY <2>1, <2>2
<1>34. ASSUME NEW c \in Calls, Deadline(c)
       PROVE  FALSE
  <2>1. CASE row[c] = "pending"
    BY <1>3, <1>6, <1>34, <2>1 DEF Deadline
  <2>2. CASE row[c] = "registered"
    BY <1>4, <1>34, <2>2 DEF Deadline
  <2>3. CASE row[c] \notin {"pending", "registered"}
    BY <1>10, <1>34, <2>3 DEF Deadline, Running
  <2> QED
    BY <2>1, <2>2, <2>3
<1>35. ASSUME NEW c \in Calls, CodeAsks(c) \/ ApprovalTimesOut(c) \/ CodeExecutes(c)
       PROVE  FALSE
  <2>1. work'[c] \in {"asking", "settled"}
    BY <1>35 DEF CodeAsks, ApprovalTimesOut, CodeExecutes, TypeOK
  <2> QED
    BY <1>4, <2>1
<1>36. ASSUME NEW approve \in BOOLEAN, HilCodeMode(approve)
       PROVE  FALSE
  <2>1. hil.call \in Calls
    BY <1>1, <1>36 DEF HilCodeMode, Hils
  <2>2. work'[hil.call] \in {"granted", "settled"}
    BY <1>36, <2>1 DEF HilCodeMode, TypeOK
  <2> QED
    BY <1>4, <2>1, <2>2
<1>37. ASSUME HilStale
       PROVE  FALSE
  BY <1>4, <1>37 DEF HilStale
<1>38. ASSUME NEW h \in Handlers, HilApproves(h)
       PROVE  FALSE
  <2>1. h \in Loops /\ hil.call \in Calls /\ AskDeadline(h, hil.call, {}, FALSE)
    BY <1>1, <1>38 DEF HilApproves, Hils, Loops
  <2>2. loop'[h].at \in {"stored", "refused"}
    BY <2>1, AskEffect
  <2> QED
    BY <1>4, <2>2
<1>39. ASSUME NEW h \in Handlers, HilDenies(h)
       PROVE  FALSE
  <2> DEFINE rows == Closed(row, hil.call)
  <2>1. Process(h, rows, NoHil, Registered(rows)) /\ h \in Loops
    BY <1>39 DEF HilDenies, Loops
  <2>2. rows \in [Calls -> RowStates] /\ \A d \in Calls : rows[d] = row[d] \/ rows[d] = "done"
    BY <1>1, RowsClose
  <2> HIDE DEF rows
  <2>3. Registered(rows) \in SUBSET Calls /\ \A c, d \in Registered(rows) : c[1] = d[1]
    BY <2>2 DEF Registered, Linked, IsOpen
  <2>4. loop'[h].at \notin {"idle", "asked"}
    BY <1>1, <1>8, <2>1, <2>2, <2>3
  <2> QED
    BY <1>4, <2>4
<1>40. ASSUME Restart
       PROVE  FALSE
  BY <1>40, RestartRecovers
<1>41. CASE UNCHANGED vars
  BY <1>10, <1>41 DEF vars, Running
<1>42. TickFails \/ TickErrorEnds \/ ScheduleErrorEnds => FALSE
  BY DEF TickFails, TickErrorEnds, ScheduleErrorEnds, Ending
<1> QED
  BY <1>20, <1>21, <1>22, <1>23, <1>24, <1>25, <1>26, <1>28, <1>29, <1>30, <1>31, <1>32,
     <1>33, <1>34, <1>35, <1>36, <1>37, <1>38, <1>39, <1>40, <1>41, <1>42
  DEF Next, Returns, TickStep, LoopStep, CodeStep, UserDecides

LEMMA LinkedHolds == Spec => [](TypeOK /\ Inv /\ Linked /\ Timed)
<1>1. Init => TypeOK /\ Inv /\ Linked /\ Timed
  BY TypesInit, InvInit, LinkedInit
<1>2. (TypeOK /\ Inv /\ Linked /\ Timed) /\ [Next]_vars => (TypeOK /\ Inv /\ Linked /\ Timed)'
  BY TypesStep, InvStep, LinkedStep
<1> QED
  BY <1>1, <1>2, PTL DEF Spec

\* A dispatched call of an active run has a deadline, so has one that a loop is
\* about to dispatch: whatever the Kernel does, the row will be closed.
THEOREM DispatchedAreTimed == Spec => []Timed
<1> QED
  BY LinkedHolds, PTL

\* As long as no request outlives its call, no CodeMode request replaces another
\* and no tick is refused where nothing catches that, an active run always has a
\* next event: a tick, a loop, code of its own, a deadline, the user's answer, or
\* the catch that will end it.
THEOREM NeverStranded ==
  Spec /\ []~Orphaned /\ []~lost /\ [][~Displaced]_vars => []~Stranded
<1>1. Init => Pursued
  <2> SUFFICES ASSUME Init
               PROVE  Pursued
    OBVIOUS
  <2> QED
    BY DEF Init, Pursued, Awaited, Covered, Resumable
<1>2. /\ TypeOK /\ Inv /\ Linked /\ Timed /\ ~Orphaned /\ ~Orphaned' /\ ~lost'
      /\ [~Displaced]_vars
      /\ Pursued /\ [Next]_vars
      => Pursued'
  <2> SUFFICES ASSUME TypeOK, Inv, Linked, ~Orphaned, ~Orphaned', ~lost', [~Displaced]_vars,
                      Pursued, [Next]_vars
               PROVE  Pursued'
    OBVIOUS
  <2>1. ~Displaced
    <3>1. UNCHANGED vars => hil' = hil
      BY DEF vars, durable
    <3> QED
      BY <3>1 DEF Displaced
  <2>2. active' => active
    <3> USE DEF durable
    <3>1. Returns => UNCHANGED active
      BY DEF Returns, Recovered, Dispatched, HandlerEnds
    <3>2. TickFires => UNCHANGED active
      BY DEF TickFires
    <3>3. TickStep => (active' => active)
      BY DEF TickStep, Begin, ModelCallsTools, ModelFinishes, TickStops, ProcessAnswer,
         TickErrorEnds, FinishError
    <3>4. ASSUME NEW l \in Loops, LoopStep(l)
          PROVE  UNCHANGED active
      BY <3>4 DEF LoopStep, LoopRefused, LoopClaims, LoopLaunches
    <3>5. ASSUME NEW c \in Calls
          PROVE  /\ Responds(c) \/ Routes(c) \/ ResultFrame(c) => UNCHANGED active
                 /\ Deadline(c) \/ CodeStep(c) => UNCHANGED active
      BY DEF Responds, Routes, ResultFrame, Deadline, CodeStep, CodeAsks, ApprovalTimesOut,
         CodeExecutes, CodeEnds
    <3>6. UserDecides => UNCHANGED active
      BY DEF UserDecides, HilStale, HilCodeMode, HilApproves, HilDenies
    <3>7. Stop \/ Restart \/ TickFails \/ ScheduleErrorEnds \/ UNCHANGED vars => (active' => active)
      BY DEF Stop, Restart, TickFails, ScheduleErrorEnds, FinishError, vars
    <3> QED
      BY <3>1, <3>2, <3>3, <3>4, <3>5, <3>6, <3>7 DEF Next
  <2> QED
    BY <2>1, <2>2, EndingLasts, AwaitedStep, CoveredStep, ResumableStep, RestartRecovers
    DEF Pursued
<1>3. TypeOK /\ Inv /\ Linked /\ Timed /\ Pursued => ~Stranded
  <2> SUFFICES ASSUME TypeOK, Linked, Timed, Pursued, Stranded
               PROVE  FALSE
    OBVIOUS
  <2>1. \A l \in Loops : loop[l].at \in {"idle", "asked"}
    BY DEF Stranded, Linked, Loops
  <2>2. NothingIsOpen
    <3> SUFFICES ASSUME NEW c \in Calls, IsOpen(row[c])
                 PROVE  FALSE
      BY DEF NothingIsOpen
    <3>1. deadlines[c] = 0 /\ row[c] = "registered"
      BY DEF Stranded, Timed, IsOpen
    <3> QED
      BY <2>1, <3>1 DEF Pursued, Covered, Stranded, Ending, Plain, Recovering, Interrupted, Covers
  <2> QED
    BY <2>2 DEF Pursued, Stranded, Ending, Resumable, Linked
<1> QED
  BY <1>1, <1>2, <1>3, LinkedHolds, PTL DEF Spec

=============================================================================

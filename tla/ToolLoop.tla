------------------------------ MODULE ToolLoop ------------------------------
(***************************************************************************)
(* The tool calls of one run: the rows of pending_tool_calls from their    *)
(* registration to their ingestion, the ticks that work on them, the one   *)
(* row of pending_hil, the dispatches, their deadlines, and the CodeMode   *)
(* executions that ask for approvals of their own.                         *)
(*                                                                         *)
(* processToolCalls is a loop over a snapshot of the rows with awaits      *)
(* inside; the tick and every proc.hil handler may each be in one. An      *)
(* action is the code between two awaits of a loop, a tick or a dispatch.  *)
(* The host may refuse any schedule row: what the code then does, ends the *)
(* run (tick.error, schedule.error) or leaves it without a tick (lost).    *)
(***************************************************************************)
EXTENDS Naturals, Sequences, FiniteSets

CONSTANTS Batches,    \* the calls of each answer: sequences of kinds
          Handlers,   \* proc.hil requests that can be in progress together
          MaxCrashes, \* bound on the restarts of the object
          MaxRefusals \* bound on dispatch deadlines the scheduler refuses

\* Policy and nature of a call: "auto", "deny" and "ask" as the approval policy
\* has it; "code" is an auto CodeMode call; "codeask" asks inside its code.
Kinds == {"auto", "deny", "ask", "code", "codeask"}

ASSUME ToolBounds ==
  /\ Batches \in Seq(Seq(Kinds) \ {<< >>})   \* an answer without calls ends the run
  /\ IsFiniteSet(Handlers) /\ "tick" \notin Handlers
  /\ MaxCrashes \in Nat /\ MaxRefusals \in Nat

Rounds == 1 .. Len(Batches)
Calls == UNION {{<<b, i>> : i \in 1 .. Len(Batches[b])} : b \in Rounds}
Kind(c) == Batches[c[1]][c[2]]
Loops == Handlers \cup {"tick"}

NoCall == <<0, 0>>
NoHil == [call |-> NoCall, nested |-> FALSE]

VARIABLES
  \* Durable.
  active,    \* the run is the current one
  round,     \* answers with tool calls so far
  row,       \* "none", "registered", "pending", "done", "ingested"
  hil,       \* the pending_hil row: a call, or the inner request of one
  due,       \* a schedule row for tick
  deadlines, \* how many schedule rows for onToolDispatchTimeout each call has
  \* In memory.
  fiber,     \* runTick: "none", "begin", "recover", "model", "answered", "dispatch";
             \* "failed" is its catch, on its way to finishRun
  deferred,  \* deferredTickRunIds has the run
  loop,      \* each processToolCalls: where it is, at which call, the calls left,
             \* and whether it has taken its snapshot of them
  work,      \* the execution of each call: "none", "sent", "routed", "over"; of
             \* CodeMode, "code", "asking", "granted", "settled" (the inner request)
  failing,   \* the catch of a refused tick is on its way to finishRun
  \* Bounds and history.
  crashes, refusals,
  executed,  \* how often the call, or its inner request, went to the Kernel
  approved,  \* requests the user approved
  results,   \* toolResult messages of each call
  errored,   \* the run was ended by tick.error or schedule.error
  lost       \* the last tick asked for was refused, and nothing caught that

durable == <<active, round, row, hil, due, deadlines>>
volatile == <<fiber, deferred, loop, work, failing>>
ends == <<errored, lost>>
history == <<crashes, refusals, executed, approved, results, ends>>
vars == <<durable, volatile, history>>

-----------------------------------------------------------------------------
IsOpen(s) == s \in {"registered", "pending"}

\* store.resolve and store.fail: only an open row takes a result.
Closed(rows, c) == [rows EXCEPT ![c] = IF IsOpen(@) THEN "done" ELSE @]

\* resumeResolvedToolRun, with the rows and the pending_hil it finds: the tick is
\* stored, or it is refused and the run will end.
Resume(rows, h) ==
  LET resolved == active /\ h = NoHil /\ \A c \in Calls : ~IsOpen(rows[c]) IN
    \/ due' = (due \/ resolved) /\ UNCHANGED failing
    \/ resolved /\ failing' = TRUE /\ UNCHANGED due

\* finishRun of an error: nothing is ingested.
FinishError ==
  IF active THEN active' = FALSE /\ hil' = NoHil /\ errored' = TRUE
            ELSE UNCHANGED <<active, hil, errored>>

\* Mutant of Ingest: the rows stay after their results were appended.
IngestAndKeep ==
  /\ UNCHANGED row
  /\ results' = [c \in Calls |-> IF row[c] \in {"none", "ingested"}
                                   THEN results[c] ELSE results[c] + 1]

\* Every row of the run becomes a toolResult message and is deleted.
Ingest ==
  /\ row' = [c \in Calls |-> IF row[c] = "none" THEN "none" ELSE "ingested"]
  /\ results' = [c \in Calls |-> IF row[c] \in {"none", "ingested"}
                                   THEN results[c] ELSE results[c] + 1]

\* The calls with a registered row. They are calls of one answer, and a loop
\* takes them in the order of the answer.
Registered(rows) == {c \in Calls : rows[c] = "registered"}

Idle == [at |-> "idle", call |-> NoCall, todo |-> {}, snap |-> TRUE]

Place(l, at, c, todo, snap) ==
  loop' = [loop EXCEPT ![l] = [at |-> at, call |-> c, todo |-> todo, snap |-> snap]]

\* beginToolDispatch up to its await: the scheduler stores the deadline of the
\* call, or refuses it.
AskDeadline(l, c, todo, snap) ==
  \/ /\ deadlines' = [deadlines EXCEPT ![c] = @ + 1]
     /\ Place(l, "stored", c, todo, snap)
     /\ UNCHANGED refusals
  \/ /\ refusals < MaxRefusals /\ refusals' = refusals + 1
     /\ Place(l, "refused", c, todo, snap)
     /\ UNCHANGED deadlines

\* store.fail for the denied calls.
Failed(rows, D) == [c \in Calls |-> IF c \in D /\ IsOpen(rows[c]) THEN "done" ELSE rows[c]]

\* processToolCalls with `todo` left to do, up to its next await: denied calls
\* fail, then one call asks or is dispatched, or nothing is left.
Process(l, rows, h, todo) ==
  \/ /\ \A c \in todo : Kind(c) = "deny"
     /\ row' = Failed(rows, todo)
     /\ Place(l, "over", NoCall, {}, TRUE)
     /\ hil' = h
     /\ UNCHANGED <<deadlines, refusals>>
  \/ \E c \in todo :
       LET before == {d \in todo : d[2] < c[2]} IN
       /\ Kind(c) # "deny" /\ \A d \in before : Kind(d) = "deny"
       /\ row' = Failed(rows, before)
       /\ \/ /\ Kind(c) = "ask"
             /\ Place(l, "asked", NoCall, {}, TRUE)
             /\ hil' = [call |-> c, nested |-> FALSE]
             /\ UNCHANGED <<deadlines, refusals>>
          \/ /\ Kind(c) # "ask"
             /\ hil' = h
             /\ AskDeadline(l, c, {d \in todo : d[2] > c[2]}, TRUE)

\* The loop goes on after a call. A proc.hil handler has had only the
\* approved call so far: it takes a snapshot of the others now.
Continue(l, rows) ==
  Process(l, rows, hil, IF loop[l].snap THEN loop[l].todo ELSE Registered(rows))

\* Another event may come: a loop that has returned hands over to its caller first.
Turn == \A l \in Loops : loop[l].at # "over"

\* Nobody waits for the pending request any more: its call is not registered,
\* or no CodeMode execution has asked for it.
Outdated ==
  hil # NoHil /\ IF hil.nested THEN work[hil.call] # "asking" ELSE row[hil.call] # "registered"

\* ... and its answer will not even fail the CodeMode call that was interrupted.
Orphaned == Outdated /\ ~(hil.nested /\ row[hil.call] = "pending")

Init ==
  /\ active = TRUE /\ round = 0
  /\ row = [c \in Calls |-> "none"] /\ hil = NoHil
  /\ due = TRUE /\ deadlines = [c \in Calls |-> 0]
  /\ fiber = "none" /\ deferred = FALSE
  /\ loop = [l \in Loops |-> Idle] /\ work = [c \in Calls |-> "none"]
  /\ failing = FALSE /\ errored = FALSE /\ lost = FALSE
  /\ crashes = 0 /\ refusals = 0
  /\ executed = [c \in Calls |-> 0] /\ approved = {}
  /\ results = [c \in Calls |-> 0]

-----------------------------------------------------------------------------
(* The tick. A row of an older tickGeneration does nothing; one of the      *)
(* current generation exists whenever `due`.                                *)

TickFires ==
  /\ Turn
  /\ due /\ due' = FALSE
  /\ fiber' = IF active /\ fiber = "none" THEN "begin" ELSE fiber
  /\ deferred' = (deferred \/ (active /\ fiber # "none"))
  /\ lost' = FALSE
  /\ UNCHANGED <<active, round, row, hil, deadlines, loop, work, failing,
                 crashes, refusals, executed, approved, results, errored>>

\* The `finally` of tick schedules a deferred one, or is refused it.
EndTick(scheduled) ==
  /\ fiber' = "none"
  /\ deferred' = FALSE
  /\ \/ due' = (due \/ scheduled \/ (deferred /\ active)) /\ UNCHANGED failing
     \/ /\ deferred /\ active /\ failing' = TRUE
        /\ due' = (due \/ scheduled)

\* With all calls answered the results are ingested and the model is next.
CheckRows ==
  IF \E c \in Calls : IsOpen(row[c])
    THEN EndTick(FALSE) /\ UNCHANGED <<row, results>>
    ELSE /\ Ingest
         /\ fiber' = "model"
         /\ UNCHANGED <<due, deferred, failing>>

\* runTick begins: registered calls that no approval holds back are processed.
Begin ==
  /\ Turn
  /\ fiber = "begin"
  /\ IF ~active
       THEN EndTick(FALSE) /\ UNCHANGED <<row, hil, loop, deadlines, refusals, results>>
     ELSE IF hil = NoHil /\ \E c \in Calls : row[c] = "registered"
       THEN /\ fiber' = "recover"
            /\ Process("tick", row, hil, Registered(row))
            /\ UNCHANGED <<results, due, deferred, failing>>
       ELSE CheckRows /\ UNCHANGED <<hil, loop, deadlines, refusals>>
  /\ UNCHANGED <<active, round, work, crashes, executed, approved, ends>>

\* ... and when their processing returns, the rows are read again.
Recovered ==
  /\ fiber = "recover" /\ loop["tick"].at \in {"over", "asked"}
  /\ loop' = [loop EXCEPT !["tick"] = Idle]
  /\ IF active THEN CheckRows ELSE EndTick(FALSE) /\ UNCHANGED <<row, results>>
  /\ UNCHANGED <<active, round, hil, deadlines, work,
                 crashes, refusals, executed, approved, ends>>

\* The model answers with the next batch of calls, which are registered.
ModelCallsTools ==
  /\ Turn
  /\ fiber = "model" /\ active /\ round < Len(Batches)
  /\ fiber' = "answered"
  /\ round' = round + 1
  /\ row' = [c \in Calls |-> IF c[1] = round + 1 THEN "registered" ELSE row[c]]
  /\ UNCHANGED <<active, hil, due, deadlines, deferred, loop, work, failing, history>>

\* The model answers without calls, or fails: finishRun.
ModelFinishes ==
  /\ Turn
  /\ fiber = "model" /\ active
  /\ active' = FALSE /\ hil' = NoHil
  /\ fiber' = "none" /\ deferred' = FALSE
  /\ UNCHANGED <<round, row, due, deadlines, loop, work, failing, history>>

\* The run was stopped while the tick waited.
TickStops ==
  /\ Turn
  /\ fiber \in {"model", "answered"} /\ ~active
  /\ EndTick(FALSE)
  /\ UNCHANGED <<active, round, row, hil, deadlines, loop, work, history>>

\* The context of the answered turn is measured; the calls are processed.
ProcessAnswer ==
  /\ Turn
  /\ fiber = "answered" /\ active
  /\ fiber' = "dispatch"
  /\ Process("tick", row, hil, Registered(row))
  /\ UNCHANGED <<active, round, due, deferred, work, failing,
                 crashes, executed, approved, results, ends>>

\* processToolCalls returned to the tick that made the calls.
Dispatched ==
  /\ fiber = "dispatch" /\ loop["tick"].at \in {"over", "asked"}
  /\ loop' = [loop EXCEPT !["tick"] = Idle]
  /\ LET resolved == /\ active /\ loop["tick"].at = "over"
                     /\ \E c \in Calls : row[c] = "done"
                     /\ \A c \in Calls : ~IsOpen(row[c]) IN
       \/ EndTick(resolved)
       \/ resolved /\ fiber' = "failed" /\ UNCHANGED <<due, deferred, failing>>
  /\ UNCHANGED <<active, round, row, hil, deadlines, work, history>>

\* runTick throws: where the answered turn is measured, or where the signal of a
\* new approval request is sent.
TickFails ==
  /\ active
  /\ fiber = "answered" \/ (fiber \in {"recover", "dispatch"} /\ loop["tick"].at = "asked")
  /\ fiber' = "failed"
  /\ loop' = [loop EXCEPT !["tick"] = Idle]
  /\ UNCHANGED <<durable, deferred, work, failing, history>>

\* The catch of the tick ends the run, if it is still the current one.
TickErrorEnds ==
  /\ Turn
  /\ fiber = "failed"
  /\ FinishError
  /\ IF active
       THEN fiber' = "none" /\ deferred' = FALSE /\ UNCHANGED <<due, failing>>
       ELSE EndTick(FALSE)
  /\ UNCHANGED <<round, row, deadlines, loop, work,
                 crashes, refusals, executed, approved, results, lost>>

\* So does the catch of a refused tick.
ScheduleErrorEnds ==
  /\ Turn
  /\ failing /\ failing' = FALSE
  /\ FinishError
  /\ UNCHANGED <<round, row, due, deadlines, fiber, deferred, loop, work,
                 crashes, refusals, executed, approved, results, lost>>

-----------------------------------------------------------------------------
(* processToolCalls. *)

\* The await of a refused deadline: the call fails, the loop goes on.
LoopRefused(l) ==
  /\ loop[l].at = "refused"
  /\ LET rows == Closed(row, loop[l].call) IN
       IF active THEN Continue(l, rows)
       ELSE /\ row' = rows
            /\ Place(l, "over", NoCall, {}, TRUE)
            /\ UNCHANGED <<hil, deadlines, refusals>>
  /\ UNCHANGED <<active, round, due, fiber, deferred, work, failing,
                 crashes, executed, approved, results, ends>>

\* Mutant of LoopClaims: a row that another loop dispatched is claimed again.
LoopClaimsPending(l) ==
  /\ loop[l].at = "stored"
  /\ LET c == loop[l].call IN
       \/ /\ ~active
          /\ Place(l, "over", NoCall, {}, TRUE)
          /\ UNCHANGED <<row, hil, deadlines, refusals>>
       \/ /\ active /\ IsOpen(row[c])
          /\ row' = [row EXCEPT ![c] = "pending"]
          /\ loop' = [loop EXCEPT ![l].at = "started"]
          /\ UNCHANGED <<hil, deadlines, refusals>>
       \/ /\ active /\ ~IsOpen(row[c])
          /\ Continue(l, row)
  /\ UNCHANGED <<active, round, due, fiber, deferred, work, failing,
                 crashes, executed, approved, results, ends>>

\* The await of a stored deadline: the row is claimed (markDispatched) and
\* proc.run.tool.started sent, unless another loop had claimed it.
LoopClaims(l) ==
  /\ loop[l].at = "stored"
  /\ LET c == loop[l].call IN
       \/ /\ ~active
          /\ Place(l, "over", NoCall, {}, TRUE)
          /\ UNCHANGED <<row, hil, deadlines, refusals>>
       \/ /\ active /\ row[c] = "registered"
          /\ row' = [row EXCEPT ![c] = "pending"]
          /\ loop' = [loop EXCEPT ![l].at = "started"]
          /\ UNCHANGED <<hil, deadlines, refusals>>
       \/ /\ active /\ row[c] # "registered"
          /\ Continue(l, row)
  /\ UNCHANGED <<active, round, due, fiber, deferred, work, failing,
                 crashes, executed, approved, results, ends>>

\* launchToolDispatch up to its await: a plain call is sent to the Kernel, the
\* code of a CodeMode call starts; then the loop goes on.
LoopLaunches(l) ==
  /\ Turn
  /\ loop[l].at = "started"
  /\ LET c == loop[l].call IN
       IF ~active
         THEN /\ Place(l, "over", NoCall, {}, TRUE)
              /\ UNCHANGED <<row, hil, deadlines, refusals, work, executed, due, failing>>
         ELSE /\ Continue(l, row)
              /\ \/ /\ ~IsOpen(row[c])
                    /\ Resume(row, hil)
                    /\ UNCHANGED <<work, executed>>
                 \/ /\ IsOpen(row[c]) /\ Kind(c) \in {"code", "codeask"}
                    /\ work' = [work EXCEPT ![c] = "code"]
                    /\ UNCHANGED <<executed, due, failing>>
                 \/ /\ IsOpen(row[c]) /\ Kind(c) \in {"auto", "ask"}
                    /\ work' = [work EXCEPT ![c] = "sent"]
                    /\ executed' = [executed EXCEPT ![c] = @ + 1]
                    /\ UNCHANGED <<due, failing>>
  /\ UNCHANGED <<active, round, fiber, deferred, crashes, approved, results, ends>>

\* The processToolCalls of a proc.hil handler returned.
HandlerEnds(h) ==
  /\ loop[h].at \in {"over", "asked"}
  /\ loop' = [loop EXCEPT ![h] = Idle]
  /\ IF loop[h].at = "over" THEN Resume(row, hil) ELSE UNCHANGED <<due, failing>>
  /\ UNCHANGED <<active, round, row, hil, deadlines, fiber, deferred, work, history>>

-----------------------------------------------------------------------------
(* Dispatched calls. *)

\* The Kernel answers the request itself (dispatchSyscall), which ends the
\* dispatch and tries to resume the run whatever became of the row.
Responds(c) ==
  /\ Turn
  /\ work[c] = "sent"
  /\ work' = [work EXCEPT ![c] = "over"]
  /\ row' = Closed(row, c)
  /\ Resume(row', hil)
  /\ UNCHANGED <<active, round, hil, deadlines, fiber, deferred, loop, history>>

\* Or it routes the request, and the result comes as a frame of its own...
Routes(c) ==
  /\ Turn
  /\ work[c] = "sent"
  /\ work' = [work EXCEPT ![c] = "routed"]
  /\ Resume(row, hil)
  /\ UNCHANGED <<active, round, row, hil, deadlines, fiber, deferred, loop, history>>

\* ... to handleRes, which knows only open rows.
ResultFrame(c) ==
  /\ Turn
  /\ work[c] = "routed"
  /\ work' = [work EXCEPT ![c] = "over"]
  /\ row' = Closed(row, c)
  /\ IF IsOpen(row[c]) THEN Resume(row', hil) ELSE UNCHANGED <<due, failing>>
  /\ UNCHANGED <<active, round, hil, deadlines, fiber, deferred, loop, history>>

\* Mutant of Deadline: a dispatched call without an answer is left open.
DeadlineOfRegistered(c) ==
  /\ Turn
  /\ deadlines[c] > Cardinality({l \in Loops : loop[l].at = "stored" /\ loop[l].call = c})
  /\ deadlines' = [deadlines EXCEPT ![c] = @ - 1]
  /\ due' = (due \/ (active /\ row[c] = "registered"))
  /\ UNCHANGED <<active, round, row, hil, volatile, history>>

\* onToolDispatchTimeout, TOOL_DISPATCH_TIMEOUT_MS (ten minutes) after its row
\* was stored: not while the await that stored it is still pending. Refused the
\* tick of a registered row it throws, and the host runs its row again.
Deadline(c) ==
  /\ Turn
  /\ deadlines[c] > Cardinality({l \in Loops : loop[l].at = "stored" /\ loop[l].call = c})
  /\ deadlines' = [deadlines EXCEPT ![c] = @ - 1]
  /\ CASE active /\ row[c] = "pending" -> row' = Closed(row, c) /\ Resume(row', hil)
       [] active /\ row[c] = "registered" -> due' = TRUE /\ UNCHANGED <<row, failing>>
       [] OTHER -> UNCHANGED <<row, due, failing>>
  /\ UNCHANGED <<active, round, hil, fiber, deferred, loop, work, history>>

\* The code makes a call that needs approval: waitForCodeModeApproval takes
\* the pending_hil row, whatever it held.
CodeAsks(c) ==
  /\ Turn
  /\ work[c] = "code" /\ Kind(c) = "codeask" /\ active
  /\ work' = [work EXCEPT ![c] = "asking"]
  /\ hil' = [call |-> c, nested |-> TRUE]
  /\ UNCHANGED <<active, round, row, due, deadlines, fiber, deferred, loop, failing, history>>

\* Its wait ends after CODE_MODE_APPROVAL_TIMEOUT_MS.
ApprovalTimesOut(c) ==
  /\ Turn
  /\ work[c] = "asking"
  /\ work' = [work EXCEPT ![c] = "settled"]
  /\ hil' = IF hil = [call |-> c, nested |-> TRUE] THEN NoHil ELSE hil
  /\ UNCHANGED <<active, round, row, due, deadlines, fiber, deferred, loop, failing, history>>

\* The approved inner request is sent to the Kernel.
CodeExecutes(c) ==
  /\ Turn
  /\ work[c] = "granted" /\ active
  /\ work' = [work EXCEPT ![c] = "settled"]
  /\ executed' = [executed EXCEPT ![c] = @ + 1]
  /\ UNCHANGED <<durable, fiber, deferred, loop, failing,
                 crashes, refusals, approved, results, ends>>

\* The code returns or throws: the outer call has its result. It throws while it
\* asks if the signal of its request fails, and leaves pending_hil as it is.
CodeEnds(c) ==
  /\ Turn
  /\ \/ work[c] = "code" /\ (Kind(c) = "code" \/ ~active)
     \/ work[c] \in {"asking", "settled"}
     \/ work[c] = "granted" /\ ~active
  /\ work' = [work EXCEPT ![c] = "over"]
  /\ row' = Closed(row, c)
  /\ Resume(row', hil)
  /\ UNCHANGED <<active, round, hil, deadlines, fiber, deferred, loop, history>>

-----------------------------------------------------------------------------
(* proc.hil for the request that is pending. *)

Decided(approve) ==
  /\ hil' = NoHil
  /\ approved' = IF approve THEN approved \cup {hil} ELSE approved

\* Mutant of HilCodeMode: the waiting code goes on whatever the user decided.
HilCodeModeAlways(approve) ==
  /\ Turn
  /\ hil # NoHil /\ hil.nested /\ work[hil.call] = "asking"
  /\ Decided(approve)
  /\ work' = [work EXCEPT ![hil.call] = "granted"]
  /\ UNCHANGED <<active, round, row, due, deadlines, fiber, deferred, loop, failing,
                 crashes, refusals, executed, results, ends>>

\* A CodeMode execution waits for it.
HilCodeMode(approve) ==
  /\ Turn
  /\ hil # NoHil /\ hil.nested /\ work[hil.call] = "asking"
  /\ Decided(approve)
  /\ row' = IF approve THEN row ELSE Closed(row, hil.call)
  /\ work' = [work EXCEPT ![hil.call] = IF approve THEN "granted" ELSE "settled"]
  /\ UNCHANGED <<active, round, due, deadlines, fiber, deferred, loop, failing,
                 crashes, refusals, executed, results, ends>>

\* It is outdated: an interrupted CodeMode call fails, and the run goes on, unless
\* its tick is refused, which the user is told; otherwise there is only an error.
HilStale ==
  /\ Turn
  /\ Outdated
  /\ Decided(FALSE)
  /\ IF Orphaned THEN UNCHANGED <<row, due, lost>>
                 ELSE /\ row' = Closed(row, hil.call)
                      /\ \/ due' = TRUE /\ UNCHANGED lost
                         \/ lost' = TRUE /\ UNCHANGED due
  /\ UNCHANGED <<active, round, deadlines, volatile,
                 crashes, refusals, executed, results, errored>>

\* The registered call it names is dispatched...
HilApproves(h) ==
  /\ Turn
  /\ hil # NoHil /\ ~hil.nested /\ row[hil.call] = "registered"
  /\ loop[h] = Idle
  /\ hil' = NoHil /\ approved' = approved \cup {hil}
  /\ AskDeadline(h, hil.call, {}, FALSE)
  /\ UNCHANGED <<active, round, row, due, fiber, deferred, work, failing,
                 crashes, executed, results, ends>>

\* ... or fails, and the others are processed.
HilDenies(h) ==
  /\ Turn
  /\ hil # NoHil /\ ~hil.nested /\ row[hil.call] = "registered"
  /\ loop[h] = Idle
  /\ LET rows == Closed(row, hil.call) IN Process(h, rows, NoHil, Registered(rows))
  /\ UNCHANGED <<active, round, due, fiber, deferred, work, failing,
                 crashes, executed, approved, results, ends>>

-----------------------------------------------------------------------------
\* proc.abort, a user message, proc.reset or proc.kill end the run: each of its
\* calls gets a result, its approvals are rejected.
Stop ==
  /\ Turn
  /\ active /\ active' = FALSE
  /\ Ingest
  /\ hil' = NoHil
  /\ work' = [c \in Calls |-> IF work[c] = "asking" THEN "settled" ELSE work[c]]
  /\ UNCHANGED <<round, due, deadlines, fiber, deferred, loop, failing,
                 crashes, refusals, executed, approved, ends>>

\* The object restarts: ticks, loops and executions are gone, requests the
\* Kernel has are not. A run that waits for no approval gets a tick, unless the
\* host refuses it, which the constructor does not catch.
Restart ==
  /\ crashes < MaxCrashes /\ crashes' = crashes + 1
  /\ fiber' = "none" /\ deferred' = FALSE /\ failing' = FALSE
  /\ loop' = [l \in Loops |-> Idle]
  /\ work' = [c \in Calls |-> IF work[c] \in {"sent", "routed"} THEN "routed" ELSE "none"]
  /\ \/ due' = (due \/ (active /\ hil = NoHil)) /\ UNCHANGED lost
     \/ active /\ hil = NoHil /\ lost' = TRUE /\ UNCHANGED due
  /\ UNCHANGED <<active, round, row, hil, deadlines,
                 refusals, executed, approved, results, errored>>

TickStep ==
  \/ Begin \/ ModelCallsTools \/ ModelFinishes \/ TickStops \/ ProcessAnswer
  \/ TickErrorEnds

LoopStep(l) == LoopRefused(l) \/ LoopClaims(l) \/ LoopLaunches(l)

CodeStep(c) == CodeAsks(c) \/ ApprovalTimesOut(c) \/ CodeExecutes(c) \/ CodeEnds(c)

UserDecides ==
  \/ HilStale
  \/ \E approve \in BOOLEAN : HilCodeMode(approve)
  \/ \E h \in Handlers : HilApproves(h) \/ HilDenies(h)

\* A processToolCalls returned to its caller.
Returns == Recovered \/ Dispatched \/ \E h \in Handlers : HandlerEnds(h)

Next ==
  \/ Returns
  \/ TickFires \/ TickStep \/ TickFails \/ ScheduleErrorEnds
  \/ \E l \in Loops : LoopStep(l)
  \/ \E c \in Calls : Responds(c) \/ Routes(c) \/ ResultFrame(c) \/ Deadline(c) \/ CodeStep(c)
  \/ UserDecides
  \/ Stop \/ Restart

Spec == Init /\ [][Next]_vars

\* Timers fire, ticks and loops go on, a catch reaches finishRun, the code of a
\* CodeMode call ends, and a user asked for an approval answers. The Kernel may
\* never answer.
Fairness ==
  /\ WF_vars(TickFires) /\ WF_vars(TickStep) /\ WF_vars(Returns) /\ WF_vars(UserDecides)
  /\ WF_vars(ScheduleErrorEnds)
  /\ \A l \in Loops : WF_vars(LoopStep(l))
  /\ \A c \in Calls : WF_vars(Deadline(c)) /\ WF_vars(CodeStep(c))

FairSpec == Spec /\ Fairness

-----------------------------------------------------------------------------
\* Every variable keeps its type; a decided request is the request of a call.
TypeOK ==
  /\ {active, due, deferred, failing, errored, lost} \subseteq BOOLEAN
  /\ round \in 0 .. Len(Batches)
  /\ row \in [Calls -> {"none", "registered", "pending", "done", "ingested"}]
  /\ hil \in {NoHil} \cup [call : Calls, nested : BOOLEAN]
  /\ deadlines \in [Calls -> Nat]
  /\ fiber \in {"none", "begin", "recover", "model", "answered", "dispatch", "failed"}
  /\ loop \in [Loops -> [at : {"idle", "stored", "refused", "started", "asked", "over"},
                         call : Calls \cup {NoCall}, todo : SUBSET Calls, snap : BOOLEAN]]
  /\ work \in [Calls -> {"none", "sent", "routed", "over",
                         "code", "asking", "granted", "settled"}]
  /\ crashes \in 0 .. MaxCrashes /\ refusals \in 0 .. MaxRefusals
  /\ executed \in [Calls -> Nat] /\ results \in [Calls -> Nat]
  /\ approved \subseteq [call : Calls, nested : BOOLEAN]

\* No call is executed twice: not by the tick and a proc.hil handler working on
\* the same snapshot, not after a restart, not after its deadline.
ExecutedOnce == \A c \in Calls : executed[c] <= 1

\* What the policy makes ask is executed only after the user approved that very
\* request, and what it denies never, whichever request took pending_hil since.
OnlyPermitted ==
  \A c \in Calls : executed[c] > 0 =>
    CASE Kind(c) = "deny"    -> FALSE
      [] Kind(c) = "ask"     -> [call |-> c, nested |-> FALSE] \in approved
      [] Kind(c) = "codeask" -> [call |-> c, nested |-> TRUE] \in approved
      [] OTHER               -> TRUE

\* Providers reject a history in which a tool call has no result, or two. When
\* the model is called, and when the run is over, each call has exactly one; a run
\* that tick.error or schedule.error ended may lack results for the calls of its
\* last answer, and of no other.
HistoryValid ==
  /\ fiber = "model" \/ (~active /\ ~errored) =>
       \A c \in Calls : results[c] = IF c[1] <= round THEN 1 ELSE 0
  /\ \A c \in Calls : IF c[1] = round THEN results[c] <= 1
                      ELSE results[c] = IF c[1] < round THEN 1 ELSE 0

\* The run ends, even if the Kernel answers nothing, or an approval request
\* outlives its call (proc.hil only clears that, and no tick follows), or the run
\* lost a tick that nobody asks for again before a restart.
RunEnds == <>(~active \/ Orphaned) \/ <>[]lost

=============================================================================

---------------------------- MODULE RunProtocol -----------------------------
(***************************************************************************)
(* What a process promises about its runs, with no locks, timers, media or *)
(* restarts: one run is active at a time, the backlog starts in order and  *)
(* only when nothing is active, a direct user message takes over at once,  *)
(* and a run leaves the active place only together with its one finish.    *)
(* RunLifecycle is the Process Durable Object's way of keeping it.         *)
(***************************************************************************)
EXTENDS Naturals, Sequences

CONSTANTS Runs, NoRun

VARIABLES active,   \* the run being worked on
          backlog,  \* admitted runs waiting their turn
          done      \* how many finishes were announced for each run

vars == <<active, backlog, done>>

-----------------------------------------------------------------------------
Init ==
  /\ active = NoRun
  /\ backlog = << >>
  /\ done = [r \in Runs |-> 0]

NextOf(b) == IF b = << >> THEN NoRun ELSE Head(b)

RestOf(b) == IF b = << >> THEN b ELSE Tail(b)

Announced(r) == done' = [done EXCEPT ![r] = @ + 1]

\* Work arrives at an idle process.
Start(r) ==
  /\ active = NoRun
  /\ active' = r
  /\ UNCHANGED <<backlog, done>>

\* Background work arrives at a busy one.
Queue(r) ==
  /\ active # NoRun
  /\ backlog' = Append(backlog, r)
  /\ UNCHANGED <<active, done>>

\* A direct user message takes the place of the active run.
Supersede(r) ==
  /\ active # NoRun
  /\ active' = r
  /\ Announced(active)
  /\ UNCHANGED backlog

\* The active run ends, by itself or aborted; `more` is the work it leaves.
Finish(more) ==
  /\ active # NoRun
  /\ Announced(active)
  /\ active' = NextOf(backlog \o more)
  /\ backlog' = RestOf(backlog \o more)

\* Reset or kill.
Wipe ==
  /\ active' = NoRun
  /\ backlog' = << >>
  /\ IF active = NoRun THEN UNCHANGED done ELSE Announced(active)

Next ==
  \/ \E r \in Runs : Start(r) \/ Queue(r) \/ Supersede(r)
  \/ \E r \in Runs : Finish(<<r>>)
  \/ Finish(<< >>)
  \/ Wipe

Spec == Init /\ [][Next]_vars

=============================================================================

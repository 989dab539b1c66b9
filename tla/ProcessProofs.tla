---------------------------- MODULE ProcessProofs ---------------------------
(***************************************************************************)
(* What a process guarantees about its runtime events and about the        *)
(* finishes of its runs, for every set of events and runs and every bound. *)
(*                                                                         *)
(* RuntimeEvents: a repeated delivery adds nothing (Tombstones,            *)
(* InOnePlace), no event of the history is missed (Accounting), and a wake *)
(* run has an event to show (Grounded, Warrant).                           *)
(*                                                                         *)
(* FinishOutbox: attempt counters never run ahead of the failed sends,     *)
(* however the deliveries overwrite each other's array (OutboxInv), a      *)
(* finish is not told twice without a failure (QuietRuns), a lone one is   *)
(* not forgotten (LoneFinishPursued), and of several one is forgotten only *)
(* by a write-back of an old array (EveryFinishPursued).                   *)
(***************************************************************************)
EXTENDS RuntimeEvents, FinishOutbox, FiniteSetTheorems, TLAPS

-----------------------------------------------------------------------------
(* Sequences that forget their oldest entries. *)

\* LastOf keeps the last entries in their order.
LEMMA LastOfFacts ==
  ASSUME NEW S, NEW s \in Seq(S), NEW n \in Nat
  PROVE  /\ LastOf(s, n) \in Seq(S)
         /\ Len(LastOf(s, n)) = IF Len(s) > n THEN n ELSE Len(s)
         /\ \A i \in 1 .. Len(LastOf(s, n)) :
              LastOf(s, n)[i] = s[i + (IF Len(s) > n THEN Len(s) - n ELSE 0)]
<1>1. CASE Len(s) > n
  BY <1>1 DEF LastOf
<1>2. CASE ~(Len(s) > n)
  BY <1>2 DEF LastOf
<1> QED
  BY <1>1, <1>2

\* An entry is remembered, among the last n.
LEMMA RememberFacts ==
  ASSUME NEW S, NEW s \in Seq(S), NEW x \in S, NEW n \in Nat \ {0}
  PROVE  /\ LastOf(Append(s, x), n) \in Seq(S)
         /\ Holds(LastOf(Append(s, x), n), x)
         /\ \A y : Holds(LastOf(Append(s, x), n), y) => y = x \/ Holds(s, y)
<1> DEFINE a == Append(s, x)
<1>1. a \in Seq(S) /\ Len(a) = Len(s) + 1 /\ a[Len(s) + 1] = x
      /\ \A i \in 1 .. Len(s) : a[i] = s[i]
  OBVIOUS
<1> HIDE DEF a
<1> DEFINE t == LastOf(a, n)
           k == IF Len(a) > n THEN Len(a) - n ELSE 0
<1>2. /\ t \in Seq(S) /\ Len(t) = IF Len(a) > n THEN n ELSE Len(a)
      /\ \A i \in 1 .. Len(t) : t[i] = a[i + k]
  BY <1>1, LastOfFacts
<1>3. Len(t) \in Nat /\ k \in Nat /\ Len(t) + k = Len(a) /\ Len(s) \in Nat /\ Len(t) > 0
  BY <1>1, <1>2
<1> HIDE DEF t, k
<1>4. t[Len(t)] = x
  BY <1>1, <1>2, <1>3
<1>5. \A i \in 1 .. Len(t) : t[i] = x \/ \E j \in 1 .. Len(s) : s[j] = t[i]
  <2> SUFFICES ASSUME NEW i \in 1 .. Len(t)
               PROVE  t[i] = x \/ \E j \in 1 .. Len(s) : s[j] = t[i]
    OBVIOUS
  <2>1. i + k \in 1 .. Len(a) /\ t[i] = a[i + k]
    BY <1>2, <1>3
  <2>2. CASE i + k = Len(s) + 1
    BY <1>1, <2>1, <2>2
  <2>3. CASE i + k # Len(s) + 1
    <3>1. i + k \in 1 .. Len(s)
      BY <1>1, <1>3, <2>1, <2>3
    <3> QED
      BY <1>1, <2>1, <3>1
  <2> QED
    BY <2>2, <2>3
<1>6. Holds(t, x)
  BY <1>3, <1>4 DEF Holds
<1>7. \A y : Holds(t, y) => y = x \/ Holds(s, y)
  BY <1>5 DEF Holds
<1> QED
  BY <1>2, <1>6, <1>7 DEF t, a

-----------------------------------------------------------------------------
(* Types. *)

\* What an append assigns.
LEMMA AppendsTypes ==
  ASSUME TypeOK, NEW es \in SUBSET Events, Appends(es)
  PROVE  log' \subseteq Events /\ appended' \in [Events -> Nat]
BY DEF Appends, TypeOK

\* What the start of a run assigns.
LEMMA ActivateTypes ==
  ASSUME TypeOK, NEW r \in Runs \cup {NoRun}, Activate(r)
  PROVE  /\ run' \in Runs \cup {NoRun} /\ recorded' \subseteq Stable
         /\ pending' \in Nat /\ stale' \in Nat /\ count' \in Nat /\ rounds' \in Nat
         /\ configured' \in BOOLEAN /\ fellBack' \in BOOLEAN
         /\ context' \subseteq Events /\ stage' = "none"
BY DEF Activate, TypeOK

\* What the end of a run assigns.
LEMMA EndRunTypes ==
  ASSUME TypeOK, NEW q \in Seq(Runs), NEW how \in {"ok", "error", "aborted"}, EndRun(q, how)
  PROVE  /\ run' \in Runs \cup {NoRun} /\ recorded' \subseteq Stable
         /\ pending' \in Nat /\ stale' \in Nat /\ count' \in Nat /\ rounds' \in Nat
         /\ configured' \in BOOLEAN /\ fellBack' \in BOOLEAN
         /\ context' \subseteq Events /\ stage' = "none"
         /\ queue' \in Seq(Runs) /\ ended' = how
         /\ log' \subseteq Events /\ appended' \in [Events -> Nat]
<1>1. CASE q = << >>
  <2>1. Activate(NoRun) /\ queue' = q /\ Appends({}) /\ ended' = how
    BY <1>1 DEF EndRun
  <2> QED
    BY <2>1, AppendsTypes, ActivateTypes
<1>2. CASE q # << >>
  <2>1. Head(q) \in Runs /\ Tail(q) \in Seq(Runs)
    BY <1>2
  <2>2. {Head(q)} \cap Replies \subseteq Events
    BY DEF Events
  <2>3. Activate(Head(q)) /\ queue' = Tail(q) /\ Appends({Head(q)} \cap Replies) /\ ended' = how
    BY <1>2 DEF EndRun
  <2> QED
    BY <2>1, <2>2, <2>3, AppendsTypes, ActivateTypes
<1> QED
  BY <1>1, <1>2

\* What remembering an abort assigns.
LEMMA FenceTypes ==
  ASSUME TypeOK, NEW r \in Runs \cup {NoRun}, Fence(r)
  PROVE  fenced' \in Seq(Runs)
<1>1. CASE r = NoRun \/ Holds(fenced, r)
  BY <1>1 DEF Fence, TypeOK
<1>2. CASE ~(r = NoRun \/ Holds(fenced, r))
  BY <1>2, RememberFacts, EventBounds DEF Fence, TypeOK
<1> QED
  BY <1>1, <1>2

\* Counting an event.
LEMMA CountTypes ==
  ASSUME TypeOK, NEW e \in Events, Count(e)
  PROVE  /\ pending' \in Nat /\ log' \subseteq Events /\ appended' \in [Events -> Nat]
         /\ UNCHANGED <<run, configured, queue, recorded, fiber>>
<1>1. Appends({e}) /\ {e} \subseteq Events
  BY DEF Count
<1>2. log' \subseteq Events /\ appended' \in [Events -> Nat]
  BY <1>1, AppendsTypes
<1> QED
  BY <1>2 DEF Count, TypeOK

\* What is taken off a count leaves a count.
LEMMA LessType ==
  ASSUME NEW n \in Nat, NEW m \in Nat
  PROVE  Less(n, m) \in Nat /\ (Less(n, m) > 0 => n > m) /\ (n >= m => n = Less(n, m) + m)
BY DEF Less

\* Every step keeps the types.
LEMMA TypesStep == TypeOK /\ [Next]_vars => TypeOK'
<1> SUFFICES ASSUME TypeOK, [Next]_vars PROVE TypeOK'
  OBVIOUS
<1> USE EventBounds
<1>1. ASSUME NEW u \in UserRuns, UserSend(u) PROVE TypeOK'
  <2>1. u \in Runs
    BY DEF Runs, Stable
  <2>2. Activate(u) /\ Fence(run)
    BY <1>1 DEF UserSend
  <2>3. run \in Runs \cup {NoRun}
    BY DEF TypeOK
  <2>4. fenced' \in Seq(Runs)
    BY <2>2, <2>3, FenceTypes
  <2> QED
    BY <1>1, <2>1, <2>2, <2>4, ActivateTypes DEF UserSend, history, TypeOK
<1>2. ASSUME NEW e \in Signals, Signal(e) PROVE TypeOK'
  <2>1. e \in Events /\ {e} \subseteq Events
    BY DEF Events
  <2>2. CASE run # NoRun
    <3>1. Count(e)
      BY <1>2, <2>2 DEF Signal
    <3> QED
      BY <1>2, <2>1, <3>1, CountTypes DEF Signal, fences, fiber, TypeOK
  <2>3. CASE run = NoRun
    <3>1. PICK w \in Fresh : Activate(w)
      BY <1>2, <2>3 DEF Signal
    <3>2. w \in Runs
      BY DEF Fresh, Runs
    <3> QED
      BY <1>2, <2>1, <2>3, <3>1, <3>2, ActivateTypes, AppendsTypes DEF Signal, fences, TypeOK
  <2> QED
    BY <2>2, <2>3
<1>3. ASSUME NEW e \in Occurrences \cup Replies, Occurrence(e) PROVE TypeOK'
  <2>1. e \in Events /\ {e} \subseteq Events /\ e \in Runs
    BY DEF Events, Runs, Stable
  <2>2. CASE run # NoRun /\ e \in Replies
    <3>1. queue' = Append(queue, e)
      BY <1>3, <2>2 DEF Occurrence
    <3>2. queue' \in Seq(Runs)
      BY <2>1, <3>1 DEF TypeOK
    <3> QED
      BY <1>3, <2>2, <3>2 DEF Occurrence, fences, fiber, TypeOK
  <2>3. CASE run # NoRun /\ e \notin Replies
    <3>1. Count(e)
      BY <1>3, <2>3 DEF Occurrence
    <3> QED
      BY <1>3, <2>1, <3>1, CountTypes DEF Occurrence, fences, fiber, TypeOK
  <2>4. CASE run = NoRun
    BY <1>3, <2>1, <2>4, ActivateTypes, AppendsTypes DEF Occurrence, fences, TypeOK
  <2> QED
    BY <2>2, <2>3, <2>4
<1>4. ASSUME NEW c \in Calls, Delegate(c) PROVE TypeOK'
  BY <1>4 DEF Delegate, process, fiber, history, TypeOK
<1>5. ASSUME NEW c \in Calls, CallEnds(c) PROVE TypeOK'
  BY <1>5 DEF CallEnds, process, fiber, history, TypeOK
<1>6. ASSUME NEW c \in Calls, IpcReply(c) PROVE TypeOK'
  <2>1. c \in Events /\ {c} \subseteq Events
    BY DEF Events
  <2>2. handled' \in Seq(Calls)
    BY <1>6, RememberFacts DEF IpcReply, TypeOK
  <2>3. CASE run = NoRun
    <3>1. PICK w \in Fresh : Activate(w)
      BY <1>6, <2>3 DEF IpcReply
    <3>2. w \in Runs
      BY DEF Fresh, Runs
    <3> QED
      BY <1>6, <2>1, <2>2, <2>3, <3>1, <3>2, ActivateTypes, AppendsTypes DEF IpcReply, TypeOK
  <2>4. CASE run # NoRun /\ source[c] # run
    <3>1. PICK w \in Fresh : queue' = Append(queue, w)
      BY <1>6, <2>4 DEF IpcReply
    <3>2. queue' \in Seq(Runs)
      BY <3>1 DEF Fresh, Runs, TypeOK
    <3> QED
      BY <1>6, <2>1, <2>2, <2>4, <3>2, AppendsTypes DEF IpcReply, fiber, TypeOK
  <2>5. CASE run # NoRun /\ source[c] = run
    <3>1. Count(c)
      BY <1>6, <2>5 DEF IpcReply
    <3> QED
      BY <1>6, <2>1, <2>2, <3>1, CountTypes DEF IpcReply, fiber, TypeOK
  <2> QED
    BY <2>3, <2>4, <2>5
<1>7. CASE Begin
  BY <1>7 DEF Begin, Moves, process, fences, history, TypeOK
<1>8. CASE ReadHistory
  BY <1>8 DEF ReadHistory, Moves, process, fences, history, TypeOK
<1>9. CASE Generate
  <2>1. pending' \in Nat
    BY <1>9, LessType DEF Generate, TypeOK
  <2> QED
    BY <1>9, <2>1 DEF Generate, Moves, fences, history, TypeOK
<1>10. CASE Fallback
  BY <1>10 DEF Fallback, Moves, fences, history, TypeOK
<1>11. CASE Measured
  <2>1. pending' \in Nat
    BY <1>11, LessType DEF Measured, TypeOK
  <2> QED
    BY <1>11, <2>1 DEF Measured, Moves, fences, TypeOK
<1>12. CASE Fail
  BY <1>12 DEF Fail, Moves, process, fences, history, TypeOK
<1>13. CASE FinishRun
  <2> DEFINE how == IF stage = "finish" THEN "ok" ELSE "error"
  <2>1. PICK q \in Seq(Runs) : EndRun(q, how)
    <3>1. CASE pending > 0 /\ queue = << >>
      <4>1. PICK w \in Fresh : EndRun(<<w>>, how)
        BY <1>13, <3>1 DEF FinishRun
      <4>2. <<w>> \in Seq(Runs)
        BY DEF Fresh, Runs
      <4> QED
        BY <4>1, <4>2
    <3>2. CASE ~(pending > 0 /\ queue = << >>)
      <4>1. EndRun(queue, how)
        BY <1>13, <3>2 DEF FinishRun
      <4> QED
        BY <4>1 DEF TypeOK
    <3> QED
      BY <3>1, <3>2
  <2> QED
    BY <1>13, <2>1, EndRunTypes DEF FinishRun, fences, TypeOK
<1>14. ASSUME NEW b \in BOOLEAN, LoadConfig(b) PROVE TypeOK'
  BY <1>14 DEF LoadConfig, Moves, fences, history, TypeOK
<1>15. ASSUME NEW b \in BOOLEAN, Answer(b) PROVE TypeOK'
  BY <1>15 DEF Answer, Moves, process, fences, TypeOK
<1>16. CASE Abort
  <2>1. queue \in Seq(Runs) /\ EndRun(queue, "aborted") /\ Fence(run) /\ run \in Runs \cup {NoRun}
    BY <1>16 DEF Abort, TypeOK
  <2>2. fenced' \in Seq(Runs)
    BY <2>1, FenceTypes
  <2> QED
    BY <1>16, <2>1, <2>2, EndRunTypes DEF Abort, TypeOK
<1>17. CASE Reset
  <2>1. Fence(run) /\ run \in Runs \cup {NoRun}
    BY <1>17 DEF Reset, TypeOK
  <2>2. fenced' \in Seq(Runs)
    BY <2>1, FenceTypes
  <2>3. call' \in [Calls -> {"new", "open", "ended", "old"}]
    BY <1>17 DEF Reset, TypeOK
  <2>4. /\ run' = NoRun /\ pending' = 0 /\ configured' = FALSE /\ queue' = << >>
        /\ log' = {} /\ recorded' = {} /\ stage' = "none" /\ stale' = 0 /\ count' = 0
        /\ context' = {} /\ fellBack' = FALSE /\ rounds' = 0 /\ ended' = "aborted"
        /\ resets' = resets + 1 /\ UNCHANGED <<handled, source, appended, read, swallowed>>
    BY <1>17 DEF Reset
  <2>5. queue' \in Seq(Runs)
    BY <2>4
  <2>6. /\ handled' \in Seq(Calls) /\ source' \in [Calls -> Runs \cup {NoRun}]
        /\ appended' \in [Events -> Nat] /\ read' \subseteq Events /\ swallowed' \subseteq Events
        /\ resets' \in Nat
    BY <2>4 DEF TypeOK
  <2> QED
    BY <2>2, <2>3, <2>4, <2>5, <2>6 DEF TypeOK
<1>18. CASE Restart
  BY <1>18 DEF Restart, process, fences, history, TypeOK
<1>19. CASE UNCHANGED vars
  BY <1>19 DEF vars, process, fences, fiber, history, TypeOK
<1> QED
  BY <1>1, <1>2, <1>3, <1>4, <1>5, <1>6, <1>7, <1>8, <1>9, <1>10, <1>11, <1>12, <1>13,
     <1>14, <1>15, <1>16, <1>17, <1>18, <1>19 DEF Next

\* The run record, the queue, the tombstones and the copies runTick keeps have
\* their types for ever.
THEOREM EventTypes == Spec => []TypeOK
<1>1. Init => TypeOK
  <2> SUFFICES ASSUME Init PROVE TypeOK
    OBVIOUS
  <2>1. /\ call \in [Calls -> {"new", "open", "ended", "old"}]
        /\ source \in [Calls -> Runs \cup {NoRun}] /\ appended \in [Events -> Nat]
    BY DEF Init
  <2>2. queue \in Seq(Runs) /\ handled \in Seq(Calls) /\ fenced \in Seq(Runs)
    BY DEF Init
  <2> QED
    BY <2>1, <2>2 DEF Init, TypeOK
<1> QED
  BY <1>1, TypesStep, PTL DEF Spec

-----------------------------------------------------------------------------
(* Wake runs. *)

\* What was read, or is in a context, was appended; what a process at rest has
\* left is nothing.
Grounded ==
  /\ \A e \in log \cup context \cup read : appended[e] > 0
  /\ run = NoRun => stage = "none" /\ queue = << >>

\* An event that came again, which no answering generation need have missed.
CameAgain == \E e \in Occurrences \cup Calls : appended[e] > 1

\* The count, and the copy of it that runTick holds and may write back, are
\* backed by an event that no generation has read; once the context is built, what
\* exceeds the count taken with it by one that is in neither.
Backed ==
  /\ pending > 0 => ~(log \subseteq read)
  /\ stage \in {"config", "build", "hydrate", "generate"} /\ stale > 0 => ~(log \subseteq read)
  /\ stage \in {"hydrate", "closing", "calling"} /\ pending > count
       => ~(log \subseteq context \cup read)
  /\ stage = "generate" /\ pending > 0 => ~(log \subseteq context \cup read)

Warrant == CameAgain \/ Backed

\* A run that begins, or the process at rest, has counted nothing.
LEMMA ActivateResets ==
  ASSUME NEW r, Activate(r)
  PROVE  /\ run' = r /\ stage' = "none" /\ pending' = 0 /\ stale' = 0 /\ count' = 0
         /\ context' = {} /\ Backed'
BY DEF Activate, Backed

\* The end of a run leaves the process at rest with an empty queue, or a run that
\* has just begun.
LEMMA EndRunResets ==
  ASSUME TypeOK, NEW q \in Seq(Runs), NEW how, EndRun(q, how)
  PROVE  /\ stage' = "none" /\ context' = {} /\ Backed' /\ ended' = how
         /\ run' = (IF q = << >> THEN NoRun ELSE Head(q))
         /\ queue' = (IF q = << >> THEN << >> ELSE Tail(q))
         /\ run' = NoRun => q = << >>
         /\ \E es \in SUBSET Replies : Appends(es)
<1>1. CASE q = << >>
  <2>1. Activate(NoRun) /\ queue' = q /\ Appends({}) /\ ended' = how
    BY <1>1 DEF EndRun
  <2> QED
    BY <1>1, <2>1, ActivateResets
<1>2. CASE q # << >>
  <2>1. Head(q) \in Runs /\ Head(q) # NoRun
    BY <1>2, EventBounds
  <2>2. {Head(q)} \cap Replies \in SUBSET Replies
    OBVIOUS
  <2>3. Activate(Head(q)) /\ queue' = Tail(q) /\ Appends({Head(q)} \cap Replies) /\ ended' = how
    BY <1>2 DEF EndRun
  <2> QED
    BY <1>2, <2>1, <2>2, <2>3, ActivateResets
<1> QED
  BY <1>1, <1>2

\* Appends forget nothing.
LEMMA AppendsMore ==
  ASSUME TypeOK, NEW es \in SUBSET Events, Appends(es)
  PROVE  /\ log' = log \cup es
         /\ \A e \in Events : /\ appended[e] \in Nat /\ appended'[e] >= appended[e]
                              /\ appended'[e] = IF e \in es THEN appended[e] + 1 ELSE appended[e]
         /\ CameAgain => CameAgain'
<1>1. \A e \in Events : /\ appended[e] \in Nat /\ appended'[e] >= appended[e]
                        /\ appended'[e] = IF e \in es THEN appended[e] + 1 ELSE appended[e]
  BY DEF Appends, TypeOK
<1>2. CameAgain => CameAgain'
  <2> SUFFICES ASSUME NEW e \in Occurrences \cup Calls, appended[e] > 1
               PROVE  CameAgain'
    BY DEF CameAgain
  <2>1. e \in Events
    BY DEF Events
  <2>2. appended'[e] > 1
    BY <1>1, <2>1
  <2> QED
    BY <2>2 DEF CameAgain
<1> QED
  BY <1>1, <1>2 DEF Appends

\* What a step appends keeps every event of the history appended.
LEMMA AppendsGround ==
  ASSUME TypeOK, Grounded, NEW es \in SUBSET Events, Appends(es),
         context' \subseteq context, read' = read
  PROVE  \A e \in (log \cup context \cup read)' : appended'[e] > 0
<1>1. log' \cup context' \cup read' \subseteq Events
  BY AppendsTypes DEF TypeOK
<1> SUFFICES ASSUME NEW e \in log' \cup context' \cup read' PROVE appended'[e] > 0
  OBVIOUS
<1>2. e \in es \/ appended[e] > 0
  BY AppendsMore DEF Grounded
<1> QED
  BY <1>1, <1>2, AppendsMore

\* A counted event is one that nothing has read, or it came again.
LEMMA CountBacks ==
  ASSUME TypeOK, Grounded, Warrant, NEW e \in Events, Count(e), read' = read,
         appended[e] = 0 \/ e \in Occurrences \cup Calls
  PROVE  Warrant'
<1> USE DEF Warrant
<1>1. Appends({e}) /\ {e} \in SUBSET Events
  BY DEF Count
<1>2. CASE CameAgain
  BY <1>1, <1>2, AppendsMore
<1>3. CASE appended[e] > 0
  <2>1. e \in Occurrences \cup Calls /\ appended'[e] = appended[e] + 1 /\ appended[e] \in Nat
    BY <1>1, <1>3, AppendsMore
  <2> QED
    BY <1>3, <2>1 DEF CameAgain
<1>4. CASE appended[e] = 0
  <2>1. e \notin context \cup read /\ e \in log'
    BY <1>1, <1>4, AppendsMore DEF Grounded
  <2>2. UNCHANGED <<stage, stale, count, context>>
    BY DEF Count, fiber
  <2> QED
    BY <2>1, <2>2 DEF Backed
<1> QED
  BY <1>1, <1>2, <1>3, <1>4, AppendsMore

\* Every step keeps the count backed.
LEMMA WarrantStep == TypeOK /\ Grounded /\ Warrant /\ [Next]_vars => Grounded' /\ Warrant'
<1> SUFFICES ASSUME TypeOK, Grounded, Warrant, [Next]_vars PROVE Grounded' /\ Warrant'
  OBVIOUS
<1> USE EventBounds
<1>1. ASSUME NEW u \in UserRuns, UserSend(u) PROVE Grounded' /\ Warrant'
  <2>1. Activate(u) /\ u # NoRun
    BY <1>1 DEF UserSend, Runs, Stable
  <2> QED
    BY <1>1, <2>1, ActivateResets DEF UserSend, history, Grounded, Warrant
<1>2. ASSUME NEW e \in Signals, Signal(e) PROVE Grounded' /\ Warrant'
  <2>1. e \in Events /\ {e} \in SUBSET Events
    BY DEF Events
  <2>2. CASE run # NoRun
    <3>1. Count(e) /\ appended[e] = 0 /\ read' = read
      BY <1>2, <2>2 DEF Signal
    <3> QED
      BY <2>1, <2>2, <3>1, CountBacks, AppendsGround DEF Count, fiber, Grounded
  <2>3. CASE run = NoRun
    <3>1. PICK w \in Fresh : Activate(w)
      BY <1>2, <2>3 DEF Signal
    <3>2. w # NoRun /\ Appends({e}) /\ read' = read
      BY <1>2, <2>3 DEF Signal, Fresh, Runs
    <3> QED
      BY <2>1, <3>1, <3>2, ActivateResets, AppendsGround DEF Grounded, Warrant
  <2> QED
    BY <2>2, <2>3
<1>3. ASSUME NEW e \in Occurrences \cup Replies, Occurrence(e) PROVE Grounded' /\ Warrant'
  <2>1. e \in Events /\ {e} \in SUBSET Events /\ e # NoRun
    BY DEF Events, Runs, Stable
  <2>2. CASE run # NoRun /\ e \in Replies
    BY <1>3, <2>2 DEF Occurrence, fiber, Grounded, Warrant, CameAgain, Backed
  <2>3. CASE run # NoRun /\ e \notin Replies
    <3>1. Count(e) /\ read' = read
      BY <1>3, <2>3 DEF Occurrence
    <3> QED
      BY <2>1, <2>3, <3>1, CountBacks, AppendsGround DEF Count, fiber, Grounded
  <2>4. CASE run = NoRun
    <3>1. Activate(e) /\ Appends({e}) /\ read' = read
      BY <1>3, <2>4 DEF Occurrence
    <3> QED
      BY <2>1, <3>1, ActivateResets, AppendsGround DEF Grounded, Warrant
  <2> QED
    BY <2>2, <2>3, <2>4
<1>4. ASSUME NEW c \in Calls, Delegate(c) \/ CallEnds(c) PROVE Grounded' /\ Warrant'
  BY <1>4 DEF Delegate, CallEnds, process, fiber, history, Grounded, Warrant, CameAgain, Backed
<1>5. ASSUME NEW c \in Calls, IpcReply(c) PROVE Grounded' /\ Warrant'
  <2>1. c \in Events /\ {c} \in SUBSET Events /\ read' = read
    BY <1>5 DEF Events, IpcReply
  <2>2. CASE run = NoRun
    <3>1. PICK w \in Fresh : Activate(w)
      BY <1>5, <2>2 DEF IpcReply
    <3>2. w # NoRun /\ Appends({c})
      BY <1>5, <2>2 DEF IpcReply, Fresh, Runs
    <3> QED
      BY <2>1, <3>1, <3>2, ActivateResets, AppendsGround DEF Grounded, Warrant
  <2>3. CASE run # NoRun /\ source[c] # run
    <3>1. Appends({c}) /\ UNCHANGED <<run, pending, fiber>>
      BY <1>5, <2>3 DEF IpcReply
    <3>2. log \subseteq log' /\ (CameAgain => CameAgain')
      BY <2>1, <3>1, AppendsMore
    <3> QED
      BY <2>1, <2>3, <3>1, <3>2, AppendsGround DEF fiber, Grounded, Warrant, Backed
  <2>4. CASE run # NoRun /\ source[c] = run
    <3>1. Count(c)
      BY <1>5, <2>4 DEF IpcReply
    <3> QED
      BY <2>1, <2>4, <3>1, CountBacks, AppendsGround DEF Count, fiber, Grounded
  <2> QED
    BY <2>2, <2>3, <2>4
<1>6. CASE Begin
  BY <1>6 DEF Begin, Moves, process, history, Grounded, Warrant, CameAgain, Backed
<1>7. CASE ReadHistory
  <2>1. Grounded'
    BY <1>7 DEF ReadHistory, Moves, process, history, Grounded
  <2> QED
    BY <1>7, <2>1 DEF TypeOK, ReadHistory, Moves, process, history, Warrant, CameAgain, Backed
<1>8. CASE Generate
  <2>1. Grounded'
    BY <1>8 DEF Generate, Moves, history, Grounded
  <2>2. pending' > 0 => pending > count
    BY <1>8, LessType DEF Generate, TypeOK
  <2> QED
    BY <1>8, <2>1, <2>2 DEF TypeOK, Generate, Moves, history, Warrant, CameAgain, Backed
<1>9. CASE Fallback
  BY <1>9 DEF Fallback, Moves, history, Grounded, Warrant, CameAgain, Backed
<1>10. CASE Measured
  <2>1. Grounded'
    BY <1>10 DEF Measured, Moves, Grounded
  <2>2. pending' > 0 => pending > count
    BY <1>10, LessType DEF Measured, TypeOK
  <2> QED
    BY <1>10, <2>1, <2>2 DEF TypeOK, Measured, Moves, Warrant, CameAgain, Backed
<1>11. CASE Fail
  BY <1>11 DEF Fail, Moves, process, history, Grounded, Warrant, CameAgain, Backed
<1>12. CASE FinishRun \/ Abort
  <2>1. PICK q \in Seq(Runs), how \in {"ok", "error", "aborted"} : EndRun(q, how)
    <3>1. CASE FinishRun /\ pending > 0 /\ queue = << >>
      <4>1. PICK w \in Fresh, how \in {"ok", "error"} : EndRun(<<w>>, how)
        BY <3>1 DEF FinishRun
      <4>2. <<w>> \in Seq(Runs)
        BY DEF Fresh, Runs
      <4> QED
        BY <4>1, <4>2
    <3>2. CASE FinishRun /\ ~(pending > 0 /\ queue = << >>)
      BY <3>2 DEF FinishRun, TypeOK
    <3>3. CASE Abort
      BY <3>3 DEF Abort, TypeOK
    <3> QED
      BY <1>12, <3>1, <3>2, <3>3
  <2>2. PICK es \in SUBSET Replies : Appends(es)
    BY <2>1, EndRunResets
  <2>3. es \in SUBSET Events /\ read' = read
    BY <1>12 DEF Events, FinishRun, Abort
  <2> QED
    BY <2>1, <2>2, <2>3, EndRunResets, AppendsGround DEF Grounded, Warrant
<1>13. ASSUME NEW b \in BOOLEAN, LoadConfig(b) PROVE Grounded' /\ Warrant'
  BY <1>13 DEF LoadConfig, Moves, history, Grounded, Warrant, CameAgain, Backed
<1>14. ASSUME NEW b \in BOOLEAN, Answer(b) PROVE Grounded' /\ Warrant'
  <2>1. Grounded'
    BY <1>14 DEF Answer, Moves, process, Grounded
  <2> QED
    BY <1>14, <2>1 DEF TypeOK, Answer, Moves, process, Warrant, CameAgain, Backed
<1>15. CASE Reset
  BY <1>15 DEF Reset, Grounded, Warrant, Backed
<1>16. CASE Restart
  BY <1>16 DEF Restart, process, history, Grounded, Warrant, CameAgain, Backed
<1>17. CASE UNCHANGED vars
  BY <1>17 DEF vars, process, fiber, history, Grounded, Warrant, CameAgain, Backed
<1> QED
  BY <1>1, <1>2, <1>3, <1>4, <1>5, <1>6, <1>7, <1>8, <1>9, <1>10, <1>11, <1>12, <1>13,
     <1>14, <1>15, <1>16, <1>17 DEF Next

\* Both hold for ever.
LEMMA WarrantHolds == Spec => [](TypeOK /\ Grounded /\ Warrant)
<1>1. Init => Grounded /\ Warrant
  BY DEF Init, Grounded, Warrant, Backed
<1> QED
  BY <1>1, EventTypes, WarrantStep, PTL DEF Spec

\* A wake run is queued by finishRun only for an event that no answering
\* generation read, whatever copies of the count runTick wrote back, or when
\* something came again.
THEOREM WakesWarranted == Spec => WakesAreWarranted
<1> DEFINE Wakes == (stage \in {"finish", "failing"} /\ queue = << >> /\ run' \in WakeRuns \ {run})
                      => ~(log \subseteq read) \/ \E e \in Occurrences \cup Calls : appended[e] > 1
<1>1. ASSUME TypeOK, Grounded, Warrant, [Next]_vars PROVE [Wakes]_vars
  <2> SUFFICES ASSUME stage \in {"finish", "failing"}, queue = << >>,
                      run' \in WakeRuns \ {run}, Next
               PROVE  ~(log \subseteq read) \/ CameAgain
    BY <1>1 DEF CameAgain
  <2>1. run # NoRun /\ run' # NoRun /\ run' # run
    BY <1>1, EventBounds DEF Grounded, Runs
  <2>2. CASE \E u \in UserRuns : UserSend(u)
    BY <2>1, <2>2, EventBounds DEF UserSend, Activate, Stable
  <2>3. CASE \/ \E e \in Signals : Signal(e)
             \/ \E e \in Occurrences \cup Replies : Occurrence(e)
             \/ \E c \in Calls : Delegate(c) \/ CallEnds(c) \/ IpcReply(c)
    BY <2>1, <2>3 DEF Signal, Occurrence, Delegate, CallEnds, IpcReply, Count, process
  <2>4. CASE \/ Begin \/ ReadHistory \/ Generate \/ Fallback \/ Measured \/ Fail \/ Restart
             \/ \E b \in BOOLEAN : LoadConfig(b) \/ Answer(b)
    BY <2>1, <2>4 DEF Begin, ReadHistory, Generate, Fallback, Measured, Fail, Restart,
                      LoadConfig, Answer, process
  <2>5. CASE FinishRun
    <3>1. CASE pending > 0
      BY <1>1, <3>1 DEF Warrant, Backed
    <3>2. CASE ~(pending > 0)
      BY <2>1, <2>5, <3>2 DEF FinishRun, EndRun, Activate
    <3> QED
      BY <3>1, <3>2
  <2>6. CASE Abort \/ Reset
    BY <2>1, <2>6 DEF Abort, Reset, EndRun, Activate
  <2> QED
    BY <2>2, <2>3, <2>4, <2>5, <2>6 DEF Next
<1> QED
  BY <1>1, WarrantHolds, PTL DEF Spec, WakesAreWarranted

-----------------------------------------------------------------------------
(* Accounts. *)

\* While a run that answered measures its context, and when it is about to finish,
\* an event that is still unread is counted, or a wake run is queued for it.
Accounting ==
  /\ EventsAccounted
  /\ stage = "closing"
       => count <= pending /\ (log \subseteq context \/ pending > count \/ queue # << >>)
  /\ stage = "finish" => log \subseteq read \cup swallowed \/ pending > 0 \/ queue # << >>

\* An event for a busy process leaves it busy, and is counted or queued behind it.
LEMMA ArrivalAccounts ==
  ASSUME TypeOK, Accounting, run' = run, run # NoRun, UNCHANGED <<fiber, read, swallowed>>,
         \/ pending' = pending + 1 /\ queue' = queue
         \/ pending' = pending /\ queue' # << >>
  PROVE  Accounting'
BY DEF TypeOK, fiber, Accounting, EventsAccounted

\* A run that has just begun has everything before it.
LEMMA StartAccounts ==
  ASSUME run' # NoRun \/ ended' # "ok", stage' = "none"
  PROVE  Accounting'
BY DEF Accounting, EventsAccounted

\* Every step keeps the accounts.
LEMMA AccountingStep == TypeOK /\ Grounded /\ Accounting /\ [Next]_vars => Accounting'
<1> SUFFICES ASSUME TypeOK, Grounded, Accounting, [Next]_vars PROVE Accounting'
  OBVIOUS
<1> USE EventBounds
<1>1. ASSUME NEW u \in UserRuns, UserSend(u) PROVE Accounting'
  BY <1>1, ActivateResets, StartAccounts DEF UserSend, Runs, Stable
<1>2. ASSUME NEW e \in Signals, Signal(e) PROVE Accounting'
  <2>1. CASE run # NoRun
    BY <1>2, <2>1, ArrivalAccounts DEF Signal, Count
  <2>2. CASE run = NoRun
    <3>1. PICK w \in Fresh : Activate(w)
      BY <1>2, <2>2 DEF Signal
    <3> QED
      BY <3>1, ActivateResets, StartAccounts DEF Fresh, Runs
  <2> QED
    BY <2>1, <2>2
<1>3. ASSUME NEW e \in Occurrences \cup Replies, Occurrence(e) PROVE Accounting'
  <2>1. CASE run # NoRun /\ e \in Replies
    <3>1. queue' = Append(queue, e)
      BY <1>3, <2>1 DEF Occurrence
    <3>2. queue' # << >>
      BY <3>1 DEF TypeOK
    <3> QED
      BY <1>3, <2>1, <3>2, ArrivalAccounts DEF Occurrence
  <2>2. CASE run # NoRun /\ e \notin Replies
    BY <1>3, <2>2, ArrivalAccounts DEF Occurrence, Count
  <2>3. CASE run = NoRun
    BY <1>3, <2>3, ActivateResets, StartAccounts DEF Occurrence, Runs, Stable
  <2> QED
    BY <2>1, <2>2, <2>3
<1>4. ASSUME NEW c \in Calls, Delegate(c) \/ CallEnds(c) PROVE Accounting'
  BY <1>4 DEF Delegate, CallEnds, process, fiber, history, Accounting, EventsAccounted
<1>5. ASSUME NEW c \in Calls, IpcReply(c) PROVE Accounting'
  <2>1. CASE run = NoRun
    <3>1. PICK w \in Fresh : Activate(w)
      BY <1>5, <2>1 DEF IpcReply
    <3> QED
      BY <3>1, ActivateResets, StartAccounts DEF Fresh, Runs
  <2>2. CASE run # NoRun /\ source[c] # run
    <3>1. PICK w \in Fresh : queue' = Append(queue, w)
      BY <1>5, <2>2 DEF IpcReply
    <3>2. queue' # << >>
      BY <3>1 DEF TypeOK
    <3> QED
      BY <1>5, <2>2, <3>2, ArrivalAccounts DEF IpcReply
  <2>3. CASE run # NoRun /\ source[c] = run
    BY <1>5, <2>3, ArrivalAccounts DEF IpcReply, Count
  <2> QED
    BY <2>1, <2>2, <2>3
<1>6. CASE Begin \/ ReadHistory \/ Fail
  BY <1>6 DEF Begin, ReadHistory, Fail, Moves, process, history, Accounting, EventsAccounted
<1>7. CASE Generate \/ Fallback
  BY <1>7 DEF Generate, Fallback, Moves, history, Accounting, EventsAccounted
<1>8. CASE Measured
  <2>1. stage = "closing" => (pending > count => pending' > 0)
    BY <1>8 DEF Measured, Less, TypeOK
  <2>2. swallowed' = swallowed \cup (context \ read) /\ UNCHANGED <<run, queue, log, read, ended>>
    BY <1>8 DEF Measured
  <2> QED
    BY <1>8, <2>1, <2>2 DEF Measured, Moves, Accounting, EventsAccounted
<1>9. CASE FinishRun
  <2> DEFINE how == IF stage = "finish" THEN "ok" ELSE "error"
  <2>1. CASE pending > 0 /\ queue = << >>
    <3>1. PICK w \in Fresh : EndRun(<<w>>, how)
      BY <1>9, <2>1 DEF FinishRun
    <3>2. <<w>> \in Seq(Runs)
      BY DEF Fresh, Runs
    <3> QED
      BY <3>1, <3>2, EndRunResets, StartAccounts
  <2>2. CASE queue # << >>
    <3>1. EndRun(queue, how) /\ queue \in Seq(Runs)
      BY <1>9, <2>2 DEF FinishRun, TypeOK
    <3> QED
      BY <2>2, <3>1, EndRunResets, StartAccounts
  <2>3. CASE ~(pending > 0) /\ queue = << >>
    <3>1. EndRun(<< >>, how) /\ stage \in {"finish", "failing"} /\ UNCHANGED <<read, swallowed>>
      BY <1>9, <2>3 DEF FinishRun
    <3>2. stage' = "none" /\ ended' = how /\ log' = log
      BY <3>1 DEF EndRun, Activate, Appends
    <3> QED
      BY <2>3, <3>1, <3>2 DEF Accounting, EventsAccounted
  <2> QED
    BY <2>1, <2>2, <2>3
<1>10. ASSUME NEW b \in BOOLEAN, LoadConfig(b) PROVE Accounting'
  BY <1>10 DEF LoadConfig, Moves, history, Accounting, EventsAccounted
<1>11. ASSUME NEW b \in BOOLEAN, Answer(b) PROVE Accounting'
  BY <1>11 DEF Answer, Moves, process, Accounting, EventsAccounted, TypeOK
<1>12. CASE Abort
  BY <1>12, EndRunResets, StartAccounts DEF Abort, TypeOK
<1>13. CASE Reset
  BY <1>13, StartAccounts DEF Reset
<1>14. CASE Restart
  BY <1>14 DEF Restart, process, history, Accounting, EventsAccounted
<1>15. CASE UNCHANGED vars
  BY <1>15 DEF vars, process, fiber, history, Accounting, EventsAccounted
<1> QED
  BY <1>1, <1>2, <1>3, <1>4, <1>5, <1>6, <1>7, <1>8, <1>9, <1>10, <1>11, <1>12, <1>13,
     <1>14, <1>15 DEF Next

\* When a process falls idle after a completed run, no event in its history was
\* missed: an answering generation had it, or the second context of its run did.
THEOREM NoEventMissed == Spec => []EventsAccounted
<1>1. Init => Accounting
  BY DEF Init, Accounting, EventsAccounted
<1>2. Accounting => EventsAccounted
  BY DEF Accounting
<1> QED
  BY <1>1, <1>2, WarrantHolds, AccountingStep, PTL DEF Spec

\* Work never waits in the queue of a process at rest: whatever ends a run claims
\* the next one in the same transition.
THEOREM QueueIsServed == Spec => [](run = NoRun => queue = << >>)
<1>1. Grounded => (run = NoRun => queue = << >>)
  BY DEF Grounded
<1> QED
  BY <1>1, WarrantHolds, PTL

-----------------------------------------------------------------------------
(* Repeats. *)

\* The tombstones are of different calls, each answered; once they are as many as
\* are kept, a call without one may be answered again, and more were answered.
Tombstones ==
  /\ Len(handled) <= TombstoneLimit
  /\ \A i, j \in 1 .. Len(handled) : handled[i] = handled[j] => i = j
  /\ \A i \in 1 .. Len(handled) : handled[i] \in Answered
  /\ \A c \in Answered : Holds(handled, c) \/ Len(handled) = TombstoneLimit
  /\ IsFiniteSet(Answered)
  /\ \A c \in Calls : appended[c] > 1 => Cardinality(Answered) > TombstoneLimit

\* No other step answers a call.
LEMMA OnlyRepliesAnswer ==
  ASSUME TypeOK, [Next]_vars, \A c \in Calls : ~IpcReply(c)
  PROVE  handled' = handled /\ \A c \in Calls : appended'[c] = appended[c]
<1>1. ASSUME NEW es \in SUBSET (Signals \cup Occurrences \cup Replies), Appends(es)
      PROVE  \A c \in Calls : appended'[c] = appended[c]
  <2>1. es \in SUBSET Events /\ \A c \in Calls : c \in Events /\ c \notin es
    BY KindsDiffer DEF Events
  <2> QED
    BY <1>1, <2>1, AppendsMore
<1>2. ASSUME NEW q \in Seq(Runs), NEW how, EndRun(q, how)
      PROVE  \A c \in Calls : appended'[c] = appended[c]
  BY <1>1, <1>2, EndRunResets
<1>3. ASSUME NEW e \in Signals, Signal(e)
      PROVE  handled' = handled /\ \A c \in Calls : appended'[c] = appended[c]
  BY <1>1, <1>3 DEF Signal, Count, fences
<1>4. ASSUME NEW e \in Occurrences \cup Replies, Occurrence(e)
      PROVE  handled' = handled /\ \A c \in Calls : appended'[c] = appended[c]
  BY <1>1, <1>4 DEF Occurrence, Count, fences
<1>5. ASSUME FinishRun
      PROVE  handled' = handled /\ \A c \in Calls : appended'[c] = appended[c]
  <2>1. \A w \in Fresh : <<w>> \in Seq(Runs)
    BY DEF Fresh, Runs
  <2> QED
    BY <1>2, <1>5, <2>1 DEF FinishRun, fences, TypeOK
<1>6. ASSUME Abort
      PROVE  handled' = handled /\ \A c \in Calls : appended'[c] = appended[c]
  BY <1>2, <1>6 DEF Abort, TypeOK
<1>7. CASE UNCHANGED vars
  BY <1>7 DEF vars, fences, history
<1>8. CASE Next
  BY <1>3, <1>4, <1>5, <1>6, <1>8
     DEF Next, UserSend, Delegate, CallEnds, Begin, ReadHistory, Generate, Fallback, Measured,
         Fail, LoadConfig, Answer, Reset, Restart, fences, history
<1> QED
  BY <1>7, <1>8

\* The answer of a call that has no tombstone, though it was answered: as many
\* others as are kept have one.
LEMMA ForgottenCall ==
  ASSUME TypeOK, Tombstones, NEW c \in Answered, ~Holds(handled, c)
  PROVE  Cardinality(Answered) > TombstoneLimit
<1> DEFINE others == Answered \ {c}
           places == 1 .. TombstoneLimit
<1>1. Len(handled) = TombstoneLimit
  BY DEF Tombstones
<1>2. IsFiniteSet(others) /\ Cardinality(others) = Cardinality(Answered) - 1
      /\ Cardinality(Answered) \in Nat /\ Cardinality(others) \in Nat
  BY FS_RemoveElement, FS_CardinalityType DEF Tombstones
<1>3. IsFiniteSet(places) /\ Cardinality(places) = TombstoneLimit /\ TombstoneLimit \in Nat
  <2>1. TombstoneLimit \in Nat \ {0} /\ TombstoneLimit \in Int
    BY EventBounds
  <2> QED
    BY <2>1, FS_Interval
<1>4. handled \in [places -> others]
  BY <1>1 DEF TypeOK, Tombstones, Holds
<1>5. \A i, j \in places : handled[i] = handled[j] => i = j
  BY <1>1 DEF Tombstones
<1> HIDE DEF others, places
<1>6. ~(Cardinality(others) < Cardinality(places))
  <2> SUFFICES ASSUME Cardinality(others) < Cardinality(places) PROVE FALSE
    OBVIOUS
  <2>1. \E i, j \in places : i # j /\ handled[i] = handled[j]
    BY <1>2, <1>3, <1>4, FS_PigeonHole
  <2> QED
    BY <1>5, <2>1
<1> QED
  BY <1>2, <1>3, <1>6

\* The tombstones after an answer.
LEMMA NewTombstone ==
  ASSUME TypeOK, Tombstones, NEW c \in Calls, ~Holds(handled, c), NEW S,
         S = Answered \cup {c}, handled' = LastOf(Append(handled, c), TombstoneLimit)
  PROVE  /\ Len(handled') <= TombstoneLimit
         /\ \A i, j \in 1 .. Len(handled') : handled'[i] = handled'[j] => i = j
         /\ \A i \in 1 .. Len(handled') : handled'[i] \in S
         /\ \A d \in S : Holds(handled', d) \/ Len(handled') = TombstoneLimit
<1> DEFINE a == Append(handled, c)
           k == IF Len(a) > TombstoneLimit THEN Len(a) - TombstoneLimit ELSE 0
<1>1. a \in Seq(Calls) /\ Len(a) = Len(handled) + 1 /\ a[Len(a)] = c
      /\ \A i \in 1 .. Len(handled) : a[i] = handled[i]
  BY DEF TypeOK
<1> HIDE DEF a
<1>2. Len(handled') = (IF Len(a) > TombstoneLimit THEN TombstoneLimit ELSE Len(a))
      /\ \A i \in 1 .. Len(handled') : handled'[i] = a[i + k]
  <2>1. TombstoneLimit \in Nat /\ handled' = LastOf(a, TombstoneLimit)
    BY EventBounds DEF a
  <2>2. /\ Len(LastOf(a, TombstoneLimit))
             = (IF Len(a) > TombstoneLimit THEN TombstoneLimit ELSE Len(a))
        /\ \A i \in 1 .. Len(LastOf(a, TombstoneLimit)) :
             LastOf(a, TombstoneLimit)[i]
               = a[i + (IF Len(a) > TombstoneLimit THEN Len(a) - TombstoneLimit ELSE 0)]
    BY <1>1, <2>1, LastOfFacts
  <2> QED
    BY <2>1, <2>2
<1>3. Len(handled) \in Nat /\ Len(a) \in Nat /\ k \in Nat /\ Len(handled') \in Nat
      /\ Len(handled') + k = Len(a) /\ Len(handled') <= TombstoneLimit
  BY <1>1, <1>2, EventBounds DEF TypeOK
<1>4. \A i, j \in 1 .. Len(a) : a[i] = a[j] => i = j
  BY <1>1, <1>3 DEF Tombstones, Holds
<1>5. \A i \in 1 .. Len(a) : a[i] \in S
  BY <1>1, <1>3 DEF Tombstones
<1>6. Len(handled') = TombstoneLimit \/ handled' = a
  <2>1. CASE Len(a) > TombstoneLimit
    BY <1>2, <2>1
  <2>2. CASE ~(Len(a) > TombstoneLimit)
    BY <2>2 DEF LastOf, a
  <2> QED
    BY <2>1, <2>2
<1> HIDE DEF k
<1>7. \A i, j \in 1 .. Len(handled') : handled'[i] = handled'[j] => i = j
  <2> SUFFICES ASSUME NEW i \in 1 .. Len(handled'), NEW j \in 1 .. Len(handled'),
                      handled'[i] = handled'[j]
               PROVE  i = j
    OBVIOUS
  <2>1. i + k \in 1 .. Len(a) /\ j + k \in 1 .. Len(a)
    BY <1>3
  <2>3. a[i + k] = a[j + k]
    BY <1>2
  <2>2. i + k = j + k
    BY <1>4, <2>1, <2>3
  <2> QED
    BY <1>3, <2>2
<1>8. \A i \in 1 .. Len(handled') : handled'[i] \in S
  BY <1>2, <1>3, <1>5
<1>9. \A d \in S : Holds(handled', d) \/ Len(handled') = TombstoneLimit
  <2> SUFFICES ASSUME NEW d \in S, handled' = a, Len(handled') # TombstoneLimit
               PROVE  Holds(a, d)
    BY <1>6
  <2>1. Len(handled) # TombstoneLimit
    BY <1>1, <1>3
  <2>2. d = c \/ Holds(handled, d)
    BY <2>1 DEF Tombstones
  <2> QED
    BY <1>1, <1>3, <2>2 DEF Holds
<1> QED
  BY <1>3, <1>7, <1>8, <1>9

\* Every step keeps the tombstones.
LEMMA TombstoneStep == TypeOK /\ Tombstones /\ [Next]_vars => Tombstones'
<1> SUFFICES ASSUME TypeOK, Tombstones, [Next]_vars PROVE Tombstones'
  OBVIOUS
<1>1. ASSUME NEW c \in Calls, IpcReply(c) PROVE Tombstones'
  <2>1. ~Holds(handled, c) /\ handled' = LastOf(Append(handled, c), TombstoneLimit)
    BY <1>1 DEF IpcReply
  <2>2. Appends({c}) /\ {c} \in SUBSET Events
    BY <1>1 DEF IpcReply, Count, Events
  <2>3. \A d \in Calls : /\ appended[d] \in Nat
                         /\ appended'[d] = IF d = c THEN appended[d] + 1 ELSE appended[d]
    BY <2>2, AppendsMore DEF Events
  <2>4. Answered' = Answered \cup {c}
    BY <2>3 DEF Answered
  <2>5. IsFiniteSet(Answered') /\ Cardinality(Answered') >= Cardinality(Answered)
        /\ Cardinality(Answered) \in Nat /\ Cardinality(Answered') \in Nat
    <3>1. IsFiniteSet(Answered) /\ Cardinality(Answered) \in Nat
      BY FS_CardinalityType DEF Tombstones
    <3>2. IsFiniteSet(Answered \cup {c})
          /\ Cardinality(Answered \cup {c})
               = IF c \in Answered THEN Cardinality(Answered) ELSE Cardinality(Answered) + 1
      BY <3>1, FS_AddElement
    <3> QED
      BY <2>4, <3>1, <3>2
  <2>6. appended'[c] > 1 => Cardinality(Answered) > TombstoneLimit
    BY <2>1, <2>3, ForgottenCall DEF Answered
  <2>7. \A d \in Calls : appended'[d] > 1 => Cardinality(Answered') > TombstoneLimit
    BY <2>3, <2>5, <2>6, EventBounds DEF Tombstones
  <2> QED
    BY <2>1, <2>4, <2>5, <2>7, NewTombstone DEF Tombstones
<1>2. CASE \A c \in Calls : ~IpcReply(c)
  <2>1. handled' = handled /\ \A c \in Calls : appended'[c] = appended[c]
    BY <1>2, OnlyRepliesAnswer
  <2>2. Answered' = Answered
    BY <2>1 DEF Answered
  <2> QED
    BY <2>1, <2>2 DEF Tombstones
<1> QED
  BY <1>1, <1>2

\* A reply occurrence is in one place: it was appended once for each time it was
\* forgotten and came again, and may still be queued or known by its run.
InOnePlace ==
  /\ run \in Stable => run \in recorded
  /\ \A e \in Replies :
       /\ appended[e] + (IF Queued(e) THEN 1 ELSE 0) <= resets + (IF Located(e) THEN 1 ELSE 0)
       /\ \A i, j \in 1 .. Len(queue) : queue[i] = e /\ queue[j] = e => i = j

\* A step that leaves the queue and the appends of replies alone, and forgets no run.
LEMMA StaysInPlace ==
  ASSUME TypeOK, InOnePlace, UNCHANGED <<queue, resets>>,
         \A e \in Replies : appended'[e] = appended[e],
         recorded \subseteq recorded', run' \in Stable => run' \in recorded'
  PROVE  InOnePlace'
<1>1. \A e \in Replies : Located(e) => Located(e)'
  <2> SUFFICES ASSUME NEW e \in Replies, Located(e) PROVE Located(e)'
    OBVIOUS
  <2>1. run = e => e \in recorded
    BY DEF InOnePlace, Stable
  <2> QED
    BY <2>1 DEF Located, Queued, Holds
<1>2. resets \in Nat /\ \A e \in Replies : appended[e] \in Nat
  BY DEF TypeOK, Events
<1>3. \A e \in Replies : Queued(e)' <=> Queued(e)
  BY DEF Queued, Holds
<1> QED
  BY <1>1, <1>2, <1>3 DEF InOnePlace

\* A run that is claimed from the queue is appended, if it is a reply, and recorded.
LEMMA ClaimInPlace ==
  ASSUME TypeOK, InOnePlace, NEW how, EndRun(queue, how), resets' = resets
  PROVE  InOnePlace'
<1> USE EventBounds
<1>1. CASE queue = << >>
  <2>1. /\ run' = NoRun /\ queue' = queue /\ recorded \subseteq recorded'
        /\ \A e \in Replies : appended'[e] = appended[e]
    BY <1>1 DEF EndRun, Activate, Appends, Events, TypeOK
  <2> QED
    BY <2>1, StaysInPlace DEF Runs
<1>2. CASE queue # << >>
  <2> DEFINE h == Head(queue)
  <2>1. /\ run' = h /\ queue' = Tail(queue) /\ h \in Runs
        /\ recorded' = recorded \cup ({h} \cap Stable)
        /\ Appends({h} \cap Replies)
    BY <1>2 DEF EndRun, Activate, TypeOK
  <2>2. {h} \cap Replies \in SUBSET Events
    BY DEF Events
  <2>3. \A e \in Replies : /\ appended[e] \in Nat
                           /\ appended'[e] = IF e = h THEN appended[e] + 1 ELSE appended[e]
    BY <2>1, <2>2, AppendsMore DEF Events
  <2>4. /\ queue \in Seq(Runs) /\ Len(queue) \in Nat /\ Len(queue) > 0 /\ h = queue[1]
        /\ Len(queue') = Len(queue) - 1
        /\ \A i \in 1 .. Len(queue') : queue'[i] = queue[i + 1]
    BY <1>2, <2>1 DEF TypeOK
  <2> HIDE DEF h
  <2>5. ASSUME NEW e \in Replies
        PROVE  /\ appended'[e] + (IF Queued(e)' THEN 1 ELSE 0)
                    <= resets + (IF Located(e)' THEN 1 ELSE 0)
               /\ \A i, j \in 1 .. Len(queue') : queue'[i] = e /\ queue'[j] = e => i = j
    <3>1. \A i, j \in 1 .. Len(queue) : queue[i] = e /\ queue[j] = e => i = j
      BY DEF InOnePlace
    <3>2. \A i, j \in 1 .. Len(queue') : queue'[i] = e /\ queue'[j] = e => i = j
      <4> SUFFICES ASSUME NEW i \in 1 .. Len(queue'), NEW j \in 1 .. Len(queue'),
                          queue'[i] = e, queue'[j] = e
                   PROVE  i = j
        OBVIOUS
      <4>1. i + 1 \in 1 .. Len(queue) /\ j + 1 \in 1 .. Len(queue)
            /\ queue[i + 1] = e /\ queue[j + 1] = e
        BY <2>4
      <4>2. i + 1 = j + 1
        BY <3>1, <4>1
      <4> QED
        BY <4>2
    <3>3. Queued(e)' <=> Queued(e) /\ h # e
      <4>1. ASSUME NEW i \in 1 .. Len(queue'), queue'[i] = e PROVE Queued(e) /\ h # e
        <5>1. i + 1 \in 1 .. Len(queue) /\ 1 \in 1 .. Len(queue) /\ queue[i + 1] = e /\ i + 1 # 1
          BY <2>4, <4>1
        <5> QED
          BY <2>4, <3>1, <5>1 DEF Queued, Holds
      <4>2. ASSUME NEW i \in 1 .. Len(queue), queue[i] = e, h # e PROVE Queued(e)'
        <5>1. i - 1 \in 1 .. Len(queue') /\ i = (i - 1) + 1
          BY <2>4, <4>2
        <5>2. queue'[i - 1] = e
          BY <2>4, <4>2, <5>1
        <5> QED
          BY <5>1, <5>2 DEF Queued, Holds
      <4> QED
        BY <4>1, <4>2 DEF Queued, Holds
    <3>4. h = e => Queued(e) /\ Located(e)'
      <4>1. 1 \in 1 .. Len(queue)
        BY <2>4
      <4>2. h = e => Queued(e)
        BY <2>4, <4>1 DEF Queued, Holds
      <4>3. h = e => Located(e)'
        BY <2>1 DEF Located
      <4> QED
        BY <4>2, <4>3
    <3>5. Located(e) => Located(e)'
      <4>1. run = e => e \in recorded
        BY DEF InOnePlace, Stable
      <4> QED
        BY <2>1, <3>3, <3>4, <4>1 DEF Located
    <3>6. appended[e] + (IF Queued(e) THEN 1 ELSE 0) <= resets + (IF Located(e) THEN 1 ELSE 0)
      BY DEF InOnePlace
    <3>7. resets \in Nat /\ appended[e] \in Nat
          /\ appended'[e] = IF e = h THEN appended[e] + 1 ELSE appended[e]
      BY <2>3 DEF TypeOK
    <3> QED
      BY <3>2, <3>3, <3>4, <3>5, <3>6, <3>7
  <2>6. run' \in Stable => run' \in recorded'
    BY <2>1
  <2> QED
    BY <2>5, <2>6 DEF InOnePlace
<1> QED
  BY <1>1, <1>2

\* Behind the active run, an id nobody refers to, or a reply that is nowhere.
LEMMA QueueInPlace ==
  ASSUME TypeOK, InOnePlace, NEW x \in Runs, queue' = Append(queue, x),
         UNCHANGED <<run, recorded, resets>>, \A e \in Replies : appended'[e] = appended[e],
         x \in Replies => ~Located(x)
  PROVE  InOnePlace'
<1>1. /\ queue \in Seq(Runs) /\ Len(queue) \in Nat
      /\ Len(queue') = Len(queue) + 1 /\ queue'[Len(queue')] = x
      /\ \A i \in 1 .. Len(queue) : queue'[i] = queue[i]
  BY DEF TypeOK
<1>2. ASSUME NEW e \in Replies
      PROVE  /\ appended'[e] + (IF Queued(e)' THEN 1 ELSE 0)
                  <= resets + (IF Located(e)' THEN 1 ELSE 0)
             /\ \A i, j \in 1 .. Len(queue') : queue'[i] = e /\ queue'[j] = e => i = j
  <2>1. Queued(e)' <=> Queued(e) \/ x = e
    BY <1>1 DEF Queued, Holds
  <2>2. Located(e)' <=> Located(e) \/ x = e
    BY <2>1 DEF Located
  <2>3. resets \in Nat /\ appended[e] \in Nat /\ appended'[e] = appended[e]
    BY DEF TypeOK, Events
  <2>4. x = e => ~Queued(e) /\ ~Located(e)
    BY DEF Located
  <2>5. \A i, j \in 1 .. Len(queue') : queue'[i] = e /\ queue'[j] = e => i = j
    BY <1>1, <2>4 DEF InOnePlace, Queued, Holds
  <2> QED
    BY <2>1, <2>2, <2>3, <2>4, <2>5 DEF InOnePlace
<1> QED
  BY <1>2 DEF InOnePlace

\* A run that begins at once records itself.
LEMMA StartInPlace ==
  ASSUME TypeOK, InOnePlace, NEW r, Activate(r), UNCHANGED <<queue, resets>>,
         \A e \in Replies : appended'[e] = appended[e]
  PROVE  InOnePlace'
BY StaysInPlace DEF Activate

\* Every step keeps the replies in one place.
LEMMA InOnePlaceStep == TypeOK /\ Grounded /\ InOnePlace /\ [Next]_vars => InOnePlace'
<1> SUFFICES ASSUME TypeOK, Grounded, InOnePlace, [Next]_vars PROVE InOnePlace'
  OBVIOUS
<1> USE EventBounds
<1>0. ASSUME NEW es \in SUBSET (Signals \cup Occurrences \cup Calls), Appends(es)
      PROVE  \A e \in Replies : appended'[e] = appended[e]
  <2>1. es \in SUBSET Events /\ \A e \in Replies : e \in Events /\ e \notin es
    BY KindsDiffer DEF Events
  <2> QED
    BY <1>0, <2>1, AppendsMore
<1>1. ASSUME NEW u \in UserRuns, UserSend(u) PROVE InOnePlace'
  BY <1>1, StartInPlace DEF UserSend, history
<1>2. ASSUME NEW e \in Signals, Signal(e) PROVE InOnePlace'
  <2>1. Appends({e}) /\ UNCHANGED <<queue, resets>>
    BY <1>2 DEF Signal, Count
  <2>2. \A x \in Replies : appended'[x] = appended[x]
    BY <1>0, <2>1
  <2>3. CASE run # NoRun
    BY <1>2, <2>1, <2>2, <2>3, StaysInPlace DEF Signal, Count, InOnePlace
  <2>4. CASE run = NoRun
    BY <1>2, <2>1, <2>2, <2>4, StartInPlace DEF Signal
  <2> QED
    BY <2>3, <2>4
<1>3. ASSUME NEW e \in Occurrences \cup Replies, Occurrence(e) PROVE InOnePlace'
  <2>1. ~Located(e) /\ resets' = resets /\ e \in Runs /\ e \in Stable
    BY <1>3 DEF Occurrence, Runs, Stable
  <2>2. CASE run # NoRun /\ e \in Replies
    BY <1>3, <2>1, <2>2, QueueInPlace DEF Occurrence
  <2>3. CASE run # NoRun /\ e \notin Replies
    <3>1. Appends({e}) /\ e \in Occurrences
      BY <1>3, <2>3 DEF Occurrence, Count
    <3>2. \A x \in Replies : appended'[x] = appended[x]
      BY <1>0, <3>1
    <3> QED
      BY <1>3, <2>1, <2>3, <3>2, StaysInPlace DEF Occurrence, Count, InOnePlace
  <2>4. CASE run = NoRun
    <3>1. /\ Activate(e) /\ Appends({e}) /\ queue' = queue /\ e \in Events
          /\ {e} \in SUBSET Events
      BY <1>3, <2>4 DEF Occurrence, Events
    <3>2. \A x \in Replies : /\ x \in Events /\ appended[x] \in Nat
                             /\ appended'[x] = IF x = e THEN appended[x] + 1 ELSE appended[x]
      BY <3>1, AppendsMore DEF Events
    <3>3. run' = e /\ recorded' = recorded \cup {e}
      BY <2>1, <3>1 DEF Activate
    <3>4. \A x \in Replies : (Queued(x)' <=> Queued(x)) /\ (Located(x)' <=> Located(x) \/ x = e)
      BY <2>4, <3>1, <3>3 DEF Queued, Holds, Located, Runs, Stable
    <3>5. resets \in Nat /\ ~Queued(e)
      BY <2>1 DEF TypeOK, Located
    <3>6. \A x \in Replies :
            appended'[x] + (IF Queued(x)' THEN 1 ELSE 0) <= resets + (IF Located(x)' THEN 1 ELSE 0)
      <4> SUFFICES ASSUME NEW x \in Replies
                   PROVE  appended'[x] + (IF Queued(x)' THEN 1 ELSE 0)
                            <= resets + (IF Located(x)' THEN 1 ELSE 0)
        OBVIOUS
      <4>1. appended[x] + (IF Queued(x) THEN 1 ELSE 0) <= resets + (IF Located(x) THEN 1 ELSE 0)
        BY DEF InOnePlace
      <4> QED
        BY <2>1, <3>2, <3>4, <3>5, <4>1
    <3> QED
      BY <2>1, <3>1, <3>3, <3>6 DEF InOnePlace
  <2> QED
    BY <2>2, <2>3, <2>4
<1>4. ASSUME NEW c \in Calls, Delegate(c) \/ CallEnds(c) PROVE InOnePlace'
  BY <1>4, StaysInPlace DEF Delegate, CallEnds, process, history, InOnePlace
<1>5. ASSUME NEW c \in Calls, IpcReply(c) PROVE InOnePlace'
  <2>1. Appends({c}) /\ resets' = resets
    BY <1>5 DEF IpcReply, Count
  <2>2. \A x \in Replies : appended'[x] = appended[x]
    BY <1>0, <2>1
  <2>3. CASE run = NoRun
    BY <1>5, <2>1, <2>2, <2>3, StartInPlace DEF IpcReply
  <2>4. CASE run # NoRun /\ source[c] # run
    <3>1. PICK w \in Fresh : queue' = Append(queue, w)
      BY <1>5, <2>4 DEF IpcReply
    <3>2. w \in Runs /\ w \notin Replies
      BY DEF Fresh, Runs, Stable
    <3> QED
      BY <1>5, <2>1, <2>2, <2>4, <3>1, <3>2, QueueInPlace DEF IpcReply
  <2>5. CASE run # NoRun /\ source[c] = run
    BY <1>5, <2>1, <2>2, <2>5, StaysInPlace DEF IpcReply, Count, InOnePlace
  <2> QED
    BY <2>3, <2>4, <2>5
<1>6. CASE \/ Begin \/ ReadHistory \/ Generate \/ Fallback \/ Measured \/ Fail \/ Restart
           \/ \E b \in BOOLEAN : LoadConfig(b) \/ Answer(b)
  <2>1. UNCHANGED <<run, queue, recorded, resets, appended>>
    BY <1>6 DEF Begin, ReadHistory, Generate, Fallback, Measured, Fail, Restart,
                LoadConfig, Answer, process, history
  <2> QED
    BY <2>1, StaysInPlace DEF InOnePlace
<1>7. CASE FinishRun
  <2>1. resets' = resets
    BY <1>7 DEF FinishRun
  <2>2. CASE pending > 0 /\ queue = << >>
    <3>0. PICK w \in Fresh : \E how : EndRun(<<w>>, how)
      BY <1>7, <2>2 DEF FinishRun
    <3>1. PICK how : EndRun(<<w>>, how)
      BY <3>0
    <3>2. w \notin Replies /\ w \in WakeRuns
      BY DEF Fresh, Stable
    <3>3. Head(<<w>>) = w /\ Tail(<<w>>) = << >> /\ <<w>> # << >>
      OBVIOUS
    <3>4. Activate(w) /\ queue' = << >> /\ Appends({w} \cap Replies)
      BY <3>1, <3>3 DEF EndRun
    <3>5. {w} \cap Replies \in SUBSET (Signals \cup Occurrences \cup Calls)
      BY <3>2
    <3> QED
      BY <1>0, <2>1, <2>2, <3>4, <3>5, StartInPlace
  <2>3. CASE ~(pending > 0 /\ queue = << >>)
    BY <1>7, <2>1, <2>3, ClaimInPlace DEF FinishRun
  <2> QED
    BY <2>2, <2>3
<1>8. CASE Abort
  BY <1>8, ClaimInPlace DEF Abort
<1>9. CASE Reset
  <2>1. /\ run' = NoRun /\ queue' = << >> /\ resets' = resets + 1 /\ appended' = appended
        /\ resets \in Nat /\ \A e \in Replies : appended[e] \in Nat
    BY <1>9 DEF Reset, TypeOK, Events
  <2>2. \A e \in Replies : ~Queued(e)'
    BY <2>1 DEF Queued, Holds
  <2>3. \A e \in Replies : appended[e] <= resets + 1
    <3> SUFFICES ASSUME NEW e \in Replies PROVE appended[e] <= resets + 1
      OBVIOUS
    <3>1. appended[e] + (IF Queued(e) THEN 1 ELSE 0) <= resets + (IF Located(e) THEN 1 ELSE 0)
      BY DEF InOnePlace
    <3> QED
      BY <2>1, <3>1
  <2>4. \A e \in Replies :
          appended'[e] + (IF Queued(e)' THEN 1 ELSE 0) <= resets' + (IF Located(e)' THEN 1 ELSE 0)
    BY <2>1, <2>2, <2>3
  <2>5. run' \notin Stable
    BY <2>1 DEF Runs
  <2> QED
    BY <2>1, <2>4, <2>5 DEF InOnePlace
<1>10. CASE UNCHANGED vars
  BY <1>10, StaysInPlace DEF vars, process, history, InOnePlace
<1> QED
  BY <1>1, <1>2, <1>3, <1>4, <1>5, <1>6, <1>7, <1>8, <1>9, <1>10 DEF Next

\* A delegated task whose terminal event the Kernel repeats puts one message into
\* the history, until its tombstone has made room for others; a repeated reply
\* occurrence stays one run, until a reset deletes what it would be known by (or
\* compaction, which is not modelled).
THEOREM RepeatsAddNothingHolds == Spec => []RepeatsAddNothing
<1>1. Init => Tombstones /\ InOnePlace
  <2> SUFFICES ASSUME Init PROVE Tombstones /\ InOnePlace
    OBVIOUS
  <2>1. \A e \in Events : appended[e] = 0
    BY DEF Init
  <2>2. Answered = {} /\ IsFiniteSet(Answered)
    BY <2>1, FS_EmptySet DEF Answered, Events
  <2>3. queue = << >> /\ handled = << >> /\ run = NoRun /\ resets = 0 /\ recorded = {}
    BY DEF Init
  <2>4. Tombstones
    BY <2>1, <2>2, <2>3, EventBounds DEF Tombstones, Events
  <2>5. \A e \in Replies : appended[e] = 0 /\ ~Queued(e)
    BY <2>1, <2>3 DEF Events, Queued, Holds
  <2>6. run \notin Stable
    BY <2>3, EventBounds DEF Runs
  <2> QED
    BY <2>3, <2>4, <2>5, <2>6 DEF InOnePlace
<1>2. TypeOK /\ Tombstones /\ InOnePlace => RepeatsAddNothing
  <2> SUFFICES ASSUME TypeOK, Tombstones, InOnePlace, NEW e \in Replies
               PROVE  appended[e] + (IF Queued(e) THEN 1 ELSE 0) <= 1 + resets
    BY DEF Tombstones, InOnePlace, RepeatsAddNothing
  <2>1. appended[e] + (IF Queued(e) THEN 1 ELSE 0) <= resets + (IF Located(e) THEN 1 ELSE 0)
    BY DEF InOnePlace
  <2>2. appended[e] \in Nat /\ resets \in Nat
    BY DEF TypeOK, Events
  <2> QED
    BY <2>1, <2>2
<1> QED
  BY <1>1, <1>2, WarrantHolds, TombstoneStep, InOnePlaceStep, PTL DEF Spec

-----------------------------------------------------------------------------
(* The finishes of the runs: FinishOutbox. *)

\* The delivery that the host's alarm runs is the only one, and has its row.
RowHeld ==
  \A c \in calls : c.via = "timer" =>
    /\ timers[c.run] > 0
    /\ \A d \in calls : d.via = "timer" => d = c

\* The inductive invariant: types, honest counters in every copy of the array,
\* a delivery's own entry in the copy it read (without which the counter it
\* compares with MaxAttempts would be nobody's), and the row that is running.
OutboxInv ==
  OutboxTypeOK /\ AttemptsHonest /\ CallsCarryTheirRun /\ NoteIsEarned /\ RowHeld

-----------------------------------------------------------------------------
\* The array filtered, or pushed to, is again an array of attempt counters.
LEMMA ArrayTypes ==
  ASSUME NEW box \in Box, NEW r \in Finishes
  PROVE  /\ Without(box, r) \in Box
         /\ Pushed(box, r) \in Box
         /\ Pending(Pushed(box, r), r)
  <1>1. PICK S \in SUBSET Finishes : box \in [S -> 0 .. MaxAttempts - 1]
    BY DEF Box
  <1>2. Without(box, r) \in [S \ {r} -> 0 .. MaxAttempts - 1]
    BY <1>1 DEF Without
  <1>3. Pushed(box, r) \in [S \cup {r} -> 0 .. MaxAttempts - 1]
    BY <1>1, MaxAttemptsAssumption DEF Pushed
  <1>4. S \ {r} \in SUBSET Finishes /\ S \cup {r} \in SUBSET Finishes
    BY <1>1
  <1>5. Without(box, r) \in Box /\ Pushed(box, r) \in Box
    BY <1>2, <1>3, <1>4 DEF Box
  <1> QED
    BY <1>5 DEF Pushed, Pending

\* A retry that is not the last keeps the counters below MaxAttempts.
LEMMA RetriedTypes ==
  ASSUME NEW box \in Box, NEW r \in DOMAIN box, box[r] + 1 < MaxAttempts
  PROVE  Retried(box, r) \in Box
  <1>1. PICK S \in SUBSET Finishes : box \in [S -> 0 .. MaxAttempts - 1]
    BY DEF Box
  <1>2. Retried(box, r) \in [S -> 0 .. MaxAttempts - 1]
    BY <1>1, MaxAttemptsAssumption DEF Retried
  <1> QED
    BY <1>1, <1>2 DEF Box

\* Domain and range of an array.
LEMMA BoxDomain ==
  ASSUME NEW box \in Box
  PROVE  /\ DOMAIN box \subseteq Finishes
         /\ \A r \in DOMAIN box : box[r] \in 0 .. MaxAttempts - 1
  BY DEF Box

\* Saturating counters stay within their top, and never fall.
LEMMA SaturatedRange ==
  ASSUME NEW top \in Nat, NEW n \in 0 .. top
  PROVE  Saturated(n, top) \in 0 .. top /\ Saturated(n, top) >= n
  BY DEF Saturated

-----------------------------------------------------------------------------
\* An absent array satisfies the invariant.
LEMMA OutboxInvInit == OutboxInit => OutboxInv
  <1> SUFFICES ASSUME OutboxInit PROVE OutboxInv
    OBVIOUS
  <1>1. outbox \in Box
    <2>1. outbox \in [{} -> 0 .. MaxAttempts - 1]
      BY DEF OutboxInit
    <2> QED
      BY <2>1 DEF Box
  <1>2. OutboxTypeOK
    BY <1>1, MaxAttemptsAssumption, MaxCrashesAssumption DEF OutboxInit, OutboxTypeOK
  <1>3. AttemptsHonest /\ CallsCarryTheirRun /\ NoteIsEarned /\ RowHeld
    BY DEF OutboxInit, AttemptsHonest, CallsCarryTheirRun, NoteIsEarned, RowHeld
  <1> QED
    BY <1>2, <1>3 DEF OutboxInv

\* The end of a delivery deletes the row that ran it and no other.
LEMMA RowsAfterFacts ==
  ASSUME OutboxInv, NEW c \in calls
  PROVE  /\ RowsAfter(c) \in [Finishes -> Nat]
         /\ \A r \in Finishes :
              RowsAfter(c)[r] = IF c.via = "timer" /\ r = c.run THEN timers[r] - 1 ELSE timers[r]
         /\ \A d \in calls \ {c} : d.via = "timer" => RowsAfter(c)[d.run] = timers[d.run]
  <1>1. timers \in [Finishes -> Nat] /\ \A d \in calls : d.run \in Finishes
    BY DEF OutboxInv, OutboxTypeOK, Call
  <1>2. c.via = "timer" => timers[c.run] > 0 /\ \A d \in calls : d.via = "timer" => d = c
    BY DEF OutboxInv, RowHeld
  <1> QED
    BY <1>1, <1>2 DEF RowsAfter

\* A failed send leaves every counter honest: failures[c.run] has just grown.
LEMMA SendFailsKeepsHonest ==
  ASSUME OutboxInv, NEW c \in calls, SendFailsBase(c)
  PROVE  /\ failures' \in [Finishes -> 0 .. MaxAttempts]
         /\ \A r \in Finishes : failures'[r] >= failures[r]
         /\ failures'[c.run] = Saturated(failures[c.run], MaxAttempts)
         /\ c \in Call
  <1>1. c \in Call /\ c.run \in Finishes
    BY DEF OutboxInv, OutboxTypeOK, Call
  <1>2. failures \in [Finishes -> 0 .. MaxAttempts] /\ MaxAttempts \in Nat
    BY MaxAttemptsAssumption DEF OutboxInv, OutboxTypeOK
  <1>3. Saturated(failures[c.run], MaxAttempts) \in 0 .. MaxAttempts
        /\ Saturated(failures[c.run], MaxAttempts) >= failures[c.run]
    BY <1>1, <1>2, SaturatedRange
  <1>4. failures' = [failures EXCEPT ![c.run] = Saturated(@, MaxAttempts)]
    BY DEF SendFailsBase
  <1> QED
    BY <1>1, <1>2, <1>3, <1>4 DEF SendFailsBase

\* Every emit, send outcome, timer and restart keeps the invariant.
LEMMA OutboxInvStep == OutboxInv /\ [OutboxNext]_outboxVars => OutboxInv'
  <1> SUFFICES ASSUME OutboxInv, [OutboxNext]_outboxVars PROVE OutboxInv'
    OBVIOUS
  <1> USE MaxAttemptsAssumption, MaxCrashesAssumption
  <1>0. /\ outbox \in Box
        /\ DOMAIN outbox \subseteq Finishes
        /\ failures \in [Finishes -> 0 .. MaxAttempts]
        /\ \A c \in calls : /\ c \in Call /\ c.run \in Finishes /\ c.snap \in Box
                             /\ c.run \in DOMAIN c.snap
                             /\ DOMAIN c.snap \subseteq Finishes
    <2>1. \A c \in calls : c \in Call /\ c.run \in Finishes /\ c.snap \in Box
      BY DEF OutboxInv, OutboxTypeOK, Call
    <2> QED
      BY <2>1, BoxDomain DEF OutboxInv, OutboxTypeOK, CallsCarryTheirRun, Pending
  <1>1. ASSUME NEW r \in Finishes, EmitRunFinished(r) PROVE OutboxInv'
    <2> DEFINE new == DeliveryCall(Pushed(outbox, r), r, "emit")
    <2>1. Pushed(outbox, r) \in Box /\ Pending(Pushed(outbox, r), r)
      BY <1>0, ArrayTypes
    <2>2. new \in Call
      BY <2>1 DEF DeliveryCall, Call, Via
    <2>3. OutboxTypeOK'
      BY <1>1, <2>1, <2>2 DEF EmitRunFinished, OutboxInv, OutboxTypeOK
    <2>4. \A x \in DOMAIN Pushed(outbox, r) : Pushed(outbox, r)[x] <= failures[x]
      BY <1>0 DEF Pushed, OutboxInv, AttemptsHonest
    <2>5. AttemptsHonest'
      BY <1>1, <2>4 DEF EmitRunFinished, OutboxInv, AttemptsHonest, DeliveryCall
    <2>6. CallsCarryTheirRun'
      BY <1>1, <2>1 DEF EmitRunFinished, OutboxInv, CallsCarryTheirRun, DeliveryCall
    <2>7. NoteIsEarned'
      BY <1>1 DEF EmitRunFinished, OutboxInv, NoteIsEarned
    <2>8. RowHeld'
      BY <1>1 DEF EmitRunFinished, OutboxInv, RowHeld, DeliveryCall
    <2> QED
      BY <2>3, <2>5, <2>6, <2>7, <2>8 DEF OutboxInv
  <1>2. ASSUME NEW r \in Finishes, RetryTimer(r) PROVE OutboxInv'
    <2> DEFINE new == DeliveryCall(outbox, r, "timer")
    <2>1. new \in Call
      BY <1>0 DEF DeliveryCall, Call, Via
    <2>2. timers' \in [Finishes -> Nat]
      BY <1>2 DEF RetryTimer, OutboxInv, OutboxTypeOK
    <2>3. OutboxTypeOK'
      BY <1>2, <2>1, <2>2 DEF RetryTimer, OutboxInv, OutboxTypeOK
    <2>4. AttemptsHonest'
      BY <1>2 DEF RetryTimer, OutboxInv, AttemptsHonest, DeliveryCall
    <2>5. CallsCarryTheirRun'
      BY <1>2 DEF RetryTimer, OutboxInv, CallsCarryTheirRun, DeliveryCall
    <2>6. NoteIsEarned'
      BY <1>2 DEF RetryTimer, OutboxInv, NoteIsEarned
    <2>7. RowHeld'
      <3>1. \A c \in calls : c.via # "timer"
        BY <1>2 DEF RetryTimer, AlarmBusy
      <3>2. timers' = timers \/ calls' = calls
        BY <1>2 DEF RetryTimer
      <3>3. timers[r] > 0 /\ calls' \subseteq calls \cup {new} /\ new.run = r
        BY <1>2 DEF RetryTimer, DeliveryCall
      <3> HIDE DEF new
      <3> QED
        BY <3>1, <3>2, <3>3 DEF RowHeld
    <2> QED
      BY <2>3, <2>4, <2>5, <2>6, <2>7 DEF OutboxInv
  <1>3. ASSUME NEW c \in calls, KernelReceives(c) PROVE OutboxInv'
    <2>1. [c EXCEPT !.at = "got"] \in Call
      BY <1>0 DEF Call
    <2>2. received' \in [Finishes -> 0 .. 2]
      BY <1>0, <1>3 DEF KernelReceives, OutboxInv, OutboxTypeOK, Saturated
    <2>3. OutboxTypeOK'
      BY <1>3, <2>1, <2>2 DEF KernelReceives, OutboxInv, OutboxTypeOK
    <2>4. /\ [c EXCEPT !.at = "got"].snap = c.snap /\ [c EXCEPT !.at = "got"].run = c.run
          /\ [c EXCEPT !.at = "got"].via = c.via
      BY <1>0 DEF Call
    <2>5. AttemptsHonest'
      BY <1>3, <2>4 DEF KernelReceives, OutboxInv, AttemptsHonest
    <2>6. CallsCarryTheirRun'
      BY <1>3, <2>4 DEF KernelReceives, OutboxInv, CallsCarryTheirRun
    <2>7. NoteIsEarned'
      BY <1>3 DEF KernelReceives, OutboxInv, NoteIsEarned
    <2>8. RowHeld'
      BY <1>3, <2>4 DEF KernelReceives, OutboxInv, RowHeld
    <2> QED
      BY <2>3, <2>5, <2>6, <2>7, <2>8 DEF OutboxInv
  <1>4. ASSUME NEW c \in calls, SendReturns(c) PROVE OutboxInv'
    <2>1. Without(outbox, c.run) \in Box
      BY <1>0, ArrayTypes
    <2>2. OutboxTypeOK'
      BY <1>4, <2>1, RowsAfterFacts DEF SendReturns, OutboxInv, OutboxTypeOK
    <2>3. AttemptsHonest'
      BY <1>4 DEF SendReturns, OutboxInv, AttemptsHonest, Without
    <2>4. CallsCarryTheirRun'
      BY <1>4 DEF SendReturns, OutboxInv, CallsCarryTheirRun
    <2>5. NoteIsEarned'
      BY <1>4 DEF SendReturns, OutboxInv, NoteIsEarned
    <2>6. RowHeld'
      BY <1>4, RowsAfterFacts DEF SendReturns, OutboxInv, RowHeld
    <2> QED
      BY <2>2, <2>3, <2>4, <2>5, <2>6 DEF OutboxInv
  <1>5. ASSUME NEW c \in calls, GiveUp(c) PROVE OutboxInv'
    <2>1. SendFailsBase(c)
      BY <1>5 DEF GiveUp
    <2>2. Without(outbox, c.run) \in Box
      BY <1>0, ArrayTypes
    <2>3. /\ failures' \in [Finishes -> 0 .. MaxAttempts]
          /\ \A r \in Finishes : failures'[r] >= failures[r]
          /\ failures'[c.run] = Saturated(failures[c.run], MaxAttempts)
          /\ calls' = calls \ {c}
      BY <1>5, <2>1, SendFailsKeepsHonest DEF GiveUp
    <2>4. OutboxTypeOK'
      BY <1>0, <1>5, <2>2, <2>3, RowsAfterFacts
         DEF GiveUp, SendFailsBase, OutboxInv, OutboxTypeOK
    <2>5. AttemptsHonest'
      <3>1. \A r \in DOMAIN outbox' : outbox'[r] <= failures[r]
        BY <1>5 DEF GiveUp, Without, OutboxInv, AttemptsHonest
      <3>2. \A r \in DOMAIN outbox' : outbox'[r] \in Nat /\ r \in Finishes
        BY <1>0, <1>5, BoxDomain DEF GiveUp, Without
      <3>3. \A k \in calls : \A r \in DOMAIN k.snap :
              k.snap[r] \in Nat /\ k.snap[r] <= failures[r]
        BY <1>0, BoxDomain DEF OutboxInv, AttemptsHonest
      <3> QED
        BY <1>0, <2>3, <3>1, <3>2, <3>3 DEF AttemptsHonest
    <2>6. CallsCarryTheirRun'
      BY <2>3 DEF OutboxInv, CallsCarryTheirRun
    <2>7. failures'[c.run] = MaxAttempts
      <3>1. c.snap[c.run] <= failures[c.run] /\ c.snap[c.run] \in Nat
        BY <1>0, BoxDomain DEF OutboxInv, AttemptsHonest
      <3>2. c.snap[c.run] + 1 >= MaxAttempts
        BY <1>5 DEF GiveUp, LastAttempt
      <3>3. failures[c.run] \in 0 .. MaxAttempts
        BY <1>0
      <3> QED
        BY <2>3, <3>1, <3>2, <3>3 DEF Saturated
    <2>8. \A r \in Finishes : failures[r] = MaxAttempts => failures'[r] = MaxAttempts
      BY <1>0, <2>3
    <2>9. NoteIsEarned'
      BY <1>0, <1>5, <2>7, <2>8 DEF GiveUp, OutboxInv, OutboxTypeOK, NoteIsEarned
    <2>10. RowHeld'
      BY <1>5, <2>3, RowsAfterFacts DEF GiveUp, OutboxInv, RowHeld
    <2> QED
      BY <2>4, <2>5, <2>6, <2>9, <2>10 DEF OutboxInv
  <1>6. ASSUME NEW c \in calls, CountFailure(c) PROVE OutboxInv'
    <2> DEFINE d == [c EXCEPT !.snap = Retried(@, c.run), !.at = "counted"]
    <2>1. SendFailsBase(c)
      BY <1>6 DEF CountFailure
    <2>2. /\ failures' \in [Finishes -> 0 .. MaxAttempts]
          /\ \A r \in Finishes : failures'[r] >= failures[r]
          /\ failures'[c.run] = Saturated(failures[c.run], MaxAttempts)
      BY <2>1, SendFailsKeepsHonest
    <2>3. c.snap[c.run] \in Nat /\ c.snap[c.run] + 1 < MaxAttempts
      BY <1>0, <1>6, BoxDomain DEF CountFailure, LastAttempt
    <2>4. Retried(c.snap, c.run) \in Box
      BY <1>0, <2>3, RetriedTypes
    <2>5. /\ d \in Call /\ d.run = c.run /\ d.via = c.via /\ d.snap = Retried(c.snap, c.run)
          /\ calls' = (calls \ {c}) \cup {d} /\ outbox' = Retried(c.snap, c.run)
      BY <1>0, <1>6, <2>4 DEF CountFailure, Call
    <2> HIDE DEF d
    <2>6. OutboxTypeOK'
      BY <1>6, <2>1, <2>2, <2>4, <2>5 DEF CountFailure, SendFailsBase, OutboxInv, OutboxTypeOK
    <2>7. \A k \in calls : \A r \in DOMAIN k.snap :
            r \in Finishes /\ k.snap[r] \in Nat /\ k.snap[r] <= failures[r]
      BY <1>0, BoxDomain DEF OutboxInv, AttemptsHonest
    <2>8. \A r \in DOMAIN outbox' : outbox'[r] <= failures'[r]
      <3>1. DOMAIN outbox' = DOMAIN c.snap
        BY <2>5 DEF Retried
      <3>2. \A r \in DOMAIN c.snap \ {c.run} : outbox'[r] = c.snap[r]
        BY <2>5 DEF Retried
      <3>3. outbox'[c.run] = c.snap[c.run] + 1
        BY <1>0, <2>5 DEF Retried
      <3>4. failures'[c.run] >= c.snap[c.run] + 1
        BY <1>0, <2>2, <2>3, <2>7 DEF Saturated
      <3> QED
        BY <1>0, <2>2, <2>7, <3>1, <3>2, <3>3, <3>4
    <2>9. AttemptsHonest'
      <3>1. \A k \in calls : \A r \in DOMAIN k.snap : k.snap[r] <= failures'[r]
        BY <1>0, <2>2, <2>7
      <3>2. \A r \in DOMAIN d.snap : d.snap[r] <= failures'[r]
        BY <2>5, <2>8
      <3> QED
        BY <2>5, <2>8, <3>1, <3>2 DEF AttemptsHonest
    <2>10. CallsCarryTheirRun'
      BY <1>0, <2>5 DEF OutboxInv, CallsCarryTheirRun, Pending, Retried
    <2>11. \A r \in Finishes : failures[r] = MaxAttempts => failures'[r] = MaxAttempts
      BY <1>0, <2>2
    <2>12. NoteIsEarned'
      BY <1>6, <2>11 DEF CountFailure, OutboxInv, OutboxTypeOK, NoteIsEarned
    <2>13. RowHeld'
      BY <1>6, <2>5 DEF CountFailure, OutboxInv, RowHeld
    <2> QED
      BY <2>6, <2>9, <2>10, <2>12, <2>13 DEF OutboxInv
  <1>9. ASSUME NEW c \in calls, RetryStored(c) \/ RetryRefused(c) PROVE OutboxInv'
    <2>1. /\ calls' = calls \ {c} /\ outbox' = outbox /\ emitted' = emitted
          /\ received' = received /\ noted' = noted /\ failures' = failures
          /\ crashes' = crashes /\ stranded' \subseteq stranded \cup {c.run}
      BY <1>9 DEF RetryStored, RetryRefused
    <2>2. \/ timers' = timers
          \/ timers' = RowsAfter(c)
          \/ timers' = [RowsAfter(c) EXCEPT ![c.run] = @ + 1]
      BY <1>9 DEF RetryStored, RetryRefused
    <2>3. /\ timers' \in [Finishes -> Nat]
          /\ \A d \in calls \ {c} : d.via = "timer" => timers'[d.run] >= timers[d.run]
      <3>1. timers \in [Finishes -> Nat]
        BY DEF OutboxInv, OutboxTypeOK
      <3>2. CASE timers' = timers
        BY <1>0, <3>1, <3>2
      <3>3. CASE timers' = RowsAfter(c)
        BY <1>0, <3>1, <3>3, RowsAfterFacts
      <3>4. CASE timers' = [RowsAfter(c) EXCEPT ![c.run] = @ + 1]
        BY <1>0, <3>1, <3>4, RowsAfterFacts
      <3> QED
        BY <2>2, <3>2, <3>3, <3>4
    <2>4. OutboxTypeOK'
      BY <1>0, <2>1, <2>3 DEF OutboxInv, OutboxTypeOK
    <2>5. AttemptsHonest' /\ CallsCarryTheirRun' /\ NoteIsEarned'
      BY <2>1 DEF OutboxInv, AttemptsHonest, CallsCarryTheirRun, NoteIsEarned
    <2>6. timers \in [Finishes -> Nat]
      BY DEF OutboxInv, OutboxTypeOK
    <2>7. RowHeld'
      BY <1>0, <2>1, <2>3, <2>6 DEF OutboxInv, RowHeld
    <2> QED
      BY <2>4, <2>5, <2>7 DEF OutboxInv
  <1>7. CASE Redeliver
    <2>1. \A r \in DOMAIN outbox : DeliveryCall(outbox, r, "boot") \in Call
      BY <1>0 DEF DeliveryCall, Call, Via
    <2>2. OutboxTypeOK'
      BY <1>7, <2>1 DEF Redeliver, OutboxInv, OutboxTypeOK
    <2>3. AttemptsHonest'
      BY <1>7 DEF Redeliver, OutboxInv, AttemptsHonest, DeliveryCall
    <2>4. CallsCarryTheirRun'
      BY <1>7 DEF Redeliver, CallsCarryTheirRun, DeliveryCall, Pending
    <2>5. NoteIsEarned'
      BY <1>7 DEF Redeliver, OutboxInv, NoteIsEarned
    <2>6. RowHeld'
      BY <1>7 DEF Redeliver, RowHeld, DeliveryCall
    <2> QED
      BY <2>2, <2>3, <2>4, <2>5, <2>6 DEF OutboxInv
  <1>8. CASE UNCHANGED outboxVars
    BY <1>8 DEF outboxVars, OutboxInv, OutboxTypeOK, AttemptsHonest, CallsCarryTheirRun,
                NoteIsEarned, RowHeld
  <1> QED
    BY <1>1, <1>2, <1>3, <1>4, <1>5, <1>6, <1>7, <1>8, <1>9 DEF OutboxNext

\* The invariant holds for ever.
LEMMA OutboxInvHolds == OutboxSpec => []OutboxInv
  BY OutboxInvInit, OutboxInvStep, PTL DEF OutboxSpec

-----------------------------------------------------------------------------
\* The stored array, every copy of it and every counter keep their types.
THEOREM OutboxTypes == OutboxSpec => []OutboxTypeOK
  BY OutboxInvHolds, PTL DEF OutboxInv

\* onRunFinishDelivery's counters never exceed the sends that really failed,
\* in the stored array and in every copy that may still be written back.
THEOREM CountersAreHonest == OutboxSpec => []AttemptsHonest
  BY OutboxInvHolds, PTL DEF OutboxInv

\* The give-up note of onRunFinishDelivery is written only after MaxAttempts
\* failed sends of that very run.
THEOREM NotesAreEarned == OutboxSpec => []NoteIsEarned
  BY OutboxInvHolds, PTL DEF OutboxInv

-----------------------------------------------------------------------------
\* A run whose sends never failed, in an object that never restarted: its one
\* delivery is the one its emit started, nothing is scheduled for it, and the
\* Kernel has its finish exactly when that send was handled.
Quiet(r) == failures[r] = 0 /\ crashes = 0

QuietRuns ==
  \A r \in Finishes : Quiet(r) =>
    /\ timers[r] = 0
    /\ received[r] < 2
    /\ r \notin emitted => received[r] = 0
    /\ \A c \in calls : c.run = r =>
         /\ r \in emitted /\ c.at # "counted"
         /\ c.at = "got" <=> received[r] = 1
         /\ \A d \in calls : d.run = r => d = c

\* Every step keeps what is known of runs without failures.
LEMMA QuietRunsStep == OutboxInv /\ QuietRuns /\ [OutboxNext]_outboxVars => QuietRuns'
  <1> SUFFICES ASSUME OutboxInv, QuietRuns, [OutboxNext]_outboxVars PROVE QuietRuns'
    OBVIOUS
  <1> USE MaxAttemptsAssumption, MaxCrashesAssumption
  <1>0. /\ failures \in [Finishes -> 0 .. MaxAttempts]
        /\ received \in [Finishes -> 0 .. 2]
        /\ timers \in [Finishes -> Nat]
        /\ crashes \in Nat
        /\ \A c \in calls : c \in Call /\ c.run \in Finishes
    BY DEF OutboxInv, OutboxTypeOK, Call
  <1>1. ASSUME NEW r \in Finishes, EmitRunFinished(r) PROVE QuietRuns'
    <2>1. DeliveryCall(Pushed(outbox, r), r, "emit").run = r
          /\ DeliveryCall(Pushed(outbox, r), r, "emit").at = "out"
      BY DEF DeliveryCall
    <2> QED
      BY <1>0, <1>1, <2>1 DEF EmitRunFinished, QuietRuns, Quiet
  <1>2. ASSUME NEW r \in Finishes, RetryTimer(r) PROVE QuietRuns'
    <2>1. DeliveryCall(outbox, r, "timer").run = r
      BY DEF DeliveryCall
    <2>2. ~Quiet(r)
      BY <1>0, <1>2 DEF RetryTimer, QuietRuns
    <2> QED
      BY <1>0, <1>2, <2>1, <2>2 DEF RetryTimer, QuietRuns, Quiet
  <1>3. ASSUME NEW c \in calls, KernelReceives(c) PROVE QuietRuns'
    <2> DEFINE d == [c EXCEPT !.at = "got"]
    <2>1. d.run = c.run /\ d.at = "got"
      BY <1>0 DEF Call
    <2>2. calls' = (calls \ {c}) \cup {d}
      BY <1>3 DEF KernelReceives
    <2> HIDE DEF d
    <2>3. ASSUME Quiet(c.run)
          PROVE  received[c.run] = 0 /\ received'[c.run] = 1 /\ c.run \in emitted
      <3>1. c.at = "out" /\ c.run \in Finishes /\ received[c.run] \in 0 .. 2
        BY <1>0, <1>3 DEF KernelReceives
      <3>2. received[c.run] < 2 /\ (c.at = "got" <=> received[c.run] = 1) /\ c.run \in emitted
        BY <2>3, <3>1 DEF QuietRuns
      <3>3. received[c.run] = 0
        BY <3>1, <3>2
      <3> QED
        BY <1>0, <1>3, <3>1, <3>2, <3>3 DEF KernelReceives, Saturated
    <2>4. \A x \in Finishes \ {c.run} : received'[x] = received[x]
      BY <1>0, <1>3 DEF KernelReceives
    <2>5. /\ timers' = timers /\ emitted' = emitted
          /\ failures' = failures /\ crashes' = crashes
      BY <1>3 DEF KernelReceives
    <2> SUFFICES ASSUME NEW r \in Finishes, Quiet(r)
                 PROVE  /\ timers[r] = 0
                        /\ received'[r] < 2
                        /\ r \notin emitted => received'[r] = 0
                        /\ \A k \in calls' : k.run = r =>
                             /\ r \in emitted /\ k.at # "counted"
                             /\ k.at = "got" <=> received'[r] = 1
                             /\ \A j \in calls' : j.run = r => j = k
      BY <2>5 DEF QuietRuns, Quiet
    <2>6. CASE r = c.run
      <3>1. timers[r] = 0 /\ received'[r] = 1 /\ r \in emitted
        BY <2>3, <2>6 DEF QuietRuns
      <3>2. \A k \in calls : k.run = r => k = c
        BY <2>6 DEF QuietRuns
      <3>3. \A k \in calls' : k.run = r => k = d
        BY <2>2, <3>2
      <3> QED
        BY <2>1, <3>1, <3>3
    <2>7. CASE r # c.run
      <3>1. \A k \in calls' : k.run = r => k \in calls
        BY <2>1, <2>2, <2>7
      <3> QED
        BY <2>4, <2>7, <3>1 DEF QuietRuns
    <2> QED
      BY <2>6, <2>7
  <1>4. ASSUME NEW c \in calls, SendReturns(c) PROVE QuietRuns'
    <2>1. \A r \in Finishes : timers'[r] <= timers[r]
      BY <1>0, <1>4, RowsAfterFacts DEF SendReturns
    <2>2. timers' \in [Finishes -> Nat]
      BY <1>4, RowsAfterFacts DEF SendReturns
    <2> QED
      BY <1>0, <1>4, <2>1, <2>2 DEF SendReturns, QuietRuns, Quiet
  <1>5. ASSUME NEW c \in calls, GiveUp(c) \/ CountFailure(c) PROVE QuietRuns'
    <2> DEFINE d == [c EXCEPT !.snap = Retried(@, c.run), !.at = "counted"]
    <2>1. SendFailsBase(c)
      BY <1>5 DEF GiveUp, CountFailure
    <2>2. ~Quiet(c.run)'
      BY <1>0, <2>1 DEF SendFailsBase, Quiet, Saturated
    <2>3. \A x \in Finishes \ {c.run} : failures'[x] = failures[x] /\ timers'[x] = timers[x]
      BY <1>0, <1>5, <2>1, RowsAfterFacts DEF SendFailsBase, GiveUp, CountFailure
    <2>4. d.run = c.run
      BY <1>0 DEF Call
    <2>5. \A k \in calls' : k \in calls \/ k.run = c.run
      BY <1>5, <2>4 DEF GiveUp, CountFailure
    <2> HIDE DEF d
    <2> QED
      BY <1>0, <2>1, <2>2, <2>3, <2>5 DEF SendFailsBase, QuietRuns, Quiet
  <1>8. ASSUME NEW c \in calls, RetryStored(c) \/ RetryRefused(c) PROVE QuietRuns'
    <2>1. ~Quiet(c.run)
      BY <1>0, <1>8 DEF RetryStored, RetryRefused, QuietRuns
    <2>2. \A x \in Finishes \ {c.run} : timers'[x] = timers[x]
      BY <1>0, <1>8, RowsAfterFacts DEF RetryStored, RetryRefused
    <2>3. /\ calls' = calls \ {c} /\ failures' = failures /\ crashes' = crashes
          /\ received' = received /\ emitted' = emitted
      BY <1>8 DEF RetryStored, RetryRefused
    <2> QED
      BY <1>0, <2>1, <2>2, <2>3 DEF QuietRuns, Quiet
  <1>6. CASE Redeliver
    BY <1>0, <1>6 DEF Redeliver, QuietRuns, Quiet
  <1>7. CASE UNCHANGED outboxVars
    BY <1>7 DEF outboxVars, QuietRuns, Quiet
  <1> QED
    BY <1>1, <1>2, <1>3, <1>4, <1>5, <1>6, <1>7, <1>8 DEF OutboxNext

\* Without a restart and without a failed send of its own, a run's finish is
\* signalled to the Kernel at most once, whatever the deliveries of the other
\* runs write back into the array they share.
THEOREM NoSpontaneousDuplicate == OutboxSpec => []OnceWhenQuiet
  <1>1. OutboxInit => QuietRuns
    BY DEF OutboxInit, QuietRuns, Quiet
  <1>2. QuietRuns /\ OutboxTypeOK => OnceWhenQuiet
    BY MaxAttemptsAssumption, MaxCrashesAssumption
       DEF QuietRuns, Quiet, OutboxTypeOK, OnceWhenQuiet
  <1>3. QuietRuns /\ OutboxInv => OnceWhenQuiet
    BY <1>2 DEF OutboxInv
  <1> QED
    BY <1>1, <1>3, QuietRunsStep, OutboxInvHolds, PTL DEF OutboxSpec

-----------------------------------------------------------------------------
\* A delivery or a retry row of the finish exists, or the host refused it its row
\* after the last restart.
TakenUp(r) == timers[r] > 0 \/ r \in stranded \/ \E c \in calls : c.run = r

\* While only one finish was emitted and neither the Kernel has it nor a note
\* gives it up, it is in the array and taken up.
LoneFinishPursued ==
  \A r \in Finishes : emitted = {r} /\ ~Settled(r) => Pending(outbox, r) /\ TakenUp(r)

\* Deliveries are of emitted finishes, and a send that was handled was received.
Attributed ==
  \A c \in calls : c.run \in emitted /\ (c.at = "got" => received[c.run] > 0)

\* The array holds emitted finishes, and so does every copy of it.
OnlyEmitted ==
  /\ DOMAIN outbox \subseteq emitted
  /\ \A c \in calls : DOMAIN c.snap \subseteq emitted

\* Every step keeps the origin of deliveries and entries.
LEMMA AttributedStep ==
  ASSUME OutboxInv, Attributed, OnlyEmitted, [OutboxNext]_outboxVars
  PROVE  Attributed' /\ OnlyEmitted'
<1> USE DEF Attributed, OnlyEmitted
<1>0. /\ received \in [Finishes -> 0 .. 2]
      /\ \A c \in calls : c \in Call /\ c.run \in Finishes
  BY DEF OutboxInv, OutboxTypeOK, Call
<1>1. ASSUME NEW r \in Finishes, EmitRunFinished(r) PROVE Attributed' /\ OnlyEmitted'
  <2> DEFINE new == DeliveryCall(Pushed(outbox, r), r, "emit")
  <2>1. new.run = r /\ new.at = "out" /\ new.snap = Pushed(outbox, r)
    BY DEF DeliveryCall
  <2>2. DOMAIN Pushed(outbox, r) = DOMAIN outbox \cup {r}
    BY DEF Pushed
  <2>3. /\ emitted' = emitted \cup {r} /\ outbox' = Pushed(outbox, r)
        /\ calls' = calls \cup {new} /\ received' = received
    BY <1>1 DEF EmitRunFinished
  <2> QED
    BY <2>1, <2>2, <2>3
<1>2. ASSUME NEW r \in Finishes, RetryTimer(r) PROVE Attributed' /\ OnlyEmitted'
  <2> DEFINE new == DeliveryCall(outbox, r, "timer")
  <2>1. new.run = r /\ new.at = "out" /\ new.snap = outbox
    BY DEF DeliveryCall
  <2>2. \A c \in calls' : c \in calls \/ (c = new /\ r \in DOMAIN outbox)
    BY <1>2 DEF RetryTimer, Pending
  <2>3. emitted' = emitted /\ outbox' = outbox /\ received' = received
    BY <1>2 DEF RetryTimer
  <2> QED
    BY <2>1, <2>2, <2>3
<1>3. ASSUME NEW c \in calls, KernelReceives(c) PROVE Attributed' /\ OnlyEmitted'
  <2> DEFINE d == [c EXCEPT !.at = "got"]
  <2>1. d.run = c.run /\ d.snap = c.snap
    BY <1>0 DEF Call
  <2>2. \A k \in calls' : k \in calls \/ k = d
    BY <1>3 DEF KernelReceives
  <2>3. /\ received'[c.run] > 0
        /\ \A r \in Finishes : received[r] > 0 => received'[r] > 0
    BY <1>0, <1>3 DEF KernelReceives, Saturated
  <2>4. emitted' = emitted /\ outbox' = outbox
    BY <1>3 DEF KernelReceives
  <2> QED
    BY <1>0, <2>1, <2>2, <2>3, <2>4
<1>4. ASSUME NEW c \in calls,
             SendReturns(c) \/ GiveUp(c) \/ RetryStored(c) \/ RetryRefused(c)
      PROVE  Attributed' /\ OnlyEmitted'
  <2>1. calls' = calls \ {c} /\ emitted' = emitted /\ received' = received
    BY <1>4 DEF SendReturns, GiveUp, RetryStored, RetryRefused, SendFailsBase
  <2>2. DOMAIN outbox' \subseteq DOMAIN outbox
    BY <1>4 DEF SendReturns, GiveUp, RetryStored, RetryRefused, Without
  <2> QED
    BY <2>1, <2>2
<1>7. ASSUME NEW c \in calls, CountFailure(c) PROVE Attributed' /\ OnlyEmitted'
  <2> DEFINE d == [c EXCEPT !.snap = Retried(@, c.run), !.at = "counted"]
  <2>1. d.run = c.run /\ d.snap = Retried(c.snap, c.run) /\ d.at = "counted"
    BY <1>0 DEF Call
  <2>2. /\ calls' = (calls \ {c}) \cup {d} /\ emitted' = emitted /\ received' = received
        /\ outbox' = Retried(c.snap, c.run)
    BY <1>7 DEF CountFailure, SendFailsBase
  <2>3. DOMAIN Retried(c.snap, c.run) = DOMAIN c.snap
    BY DEF Retried
  <2> HIDE DEF d
  <2> QED
    BY <2>1, <2>2, <2>3
<1>5. CASE Redeliver
  <2>1. \A k \in calls' : \E r \in DOMAIN outbox : k = DeliveryCall(outbox, r, "boot")
    BY <1>5 DEF Redeliver
  <2>2. \A k \in calls' : k.run \in DOMAIN outbox /\ k.at = "out" /\ k.snap = outbox
    BY <2>1 DEF DeliveryCall
  <2>3. emitted' = emitted /\ outbox' = outbox /\ received' = received
    BY <1>5 DEF Redeliver
  <2> QED
    BY <2>2, <2>3
<1>6. CASE UNCHANGED outboxVars
  BY <1>6 DEF outboxVars
<1> QED
  BY <1>1, <1>2, <1>3, <1>4, <1>5, <1>6, <1>7 DEF OutboxNext

\* However its request for a row ends, a finish is still taken up.
LEMMA RetryTakesUp ==
  ASSUME OutboxInv, NEW c \in calls, RetryStored(c) \/ RetryRefused(c)
  PROVE  TakenUp(c.run)'
<1>0. timers \in [Finishes -> Nat] /\ c.run \in Finishes
  BY DEF OutboxInv, OutboxTypeOK, Call
<1>1. CASE RetryStored(c)
  <2>1. timers'[c.run] = RowsAfter(c)[c.run] + 1 /\ RowsAfter(c)[c.run] \in Nat
    BY <1>0, <1>1, RowsAfterFacts DEF RetryStored
  <2> QED
    BY <2>1 DEF TakenUp
<1>2. CASE RetryRefused(c)
  <2>1. c.via = "timer" => timers[c.run] > 0
    BY DEF OutboxInv, RowHeld
  <2> QED
    BY <1>2, <2>1 DEF RetryRefused, TakenUp
<1> QED
  BY <1>1, <1>2

\* No step leaves a lone finish without its entry or without a next attempt.
LEMMA LonePursuedStep ==
  ASSUME OutboxInv, Attributed, OnlyEmitted, LoneFinishPursued, [OutboxNext]_outboxVars
  PROVE  LoneFinishPursued'
<1> SUFFICES ASSUME NEW r \in Finishes, emitted' = {r}, ~Settled(r)'
             PROVE  Pending(outbox', r) /\ TakenUp(r)'
  BY DEF LoneFinishPursued
<1>0. /\ timers \in [Finishes -> Nat] /\ received \in [Finishes -> 0 .. 2]
      /\ \A c \in calls : c \in Call /\ c.run \in Finishes /\ c.run \in DOMAIN c.snap
  BY DEF OutboxInv, OutboxTypeOK, Call, CallsCarryTheirRun, Pending
<1>1. ASSUME NEW x \in Finishes, EmitRunFinished(x)
      PROVE  Pending(outbox', r) /\ TakenUp(r)'
  <2>1. x = r /\ outbox' = Pushed(outbox, r)
        /\ DeliveryCall(Pushed(outbox, r), r, "emit") \in calls'
    BY <1>1 DEF EmitRunFinished
  <2> QED
    BY <2>1 DEF DeliveryCall, Pushed, Pending, TakenUp
<1>2. ASSUME emitted' = emitted, received' = received, noted' = noted
      PROVE  Pending(outbox, r) /\ TakenUp(r)
  BY <1>2 DEF LoneFinishPursued, Settled
<1>3. ASSUME NEW x \in Finishes, RetryTimer(x)
      PROVE  Pending(outbox', r) /\ TakenUp(r)'
  <2>1. /\ outbox' = outbox /\ Pending(outbox, r) /\ calls \subseteq calls'
        /\ stranded' = stranded /\ TakenUp(r)
    BY <1>2, <1>3 DEF RetryTimer
  <2>2. timers'[r] = timers[r]
    BY <1>0, <1>3, <2>1 DEF RetryTimer
  <2> QED
    BY <2>1, <2>2 DEF TakenUp
<1>4. ASSUME NEW c \in calls, KernelReceives(c) PROVE FALSE
  <2>1. c.run = r /\ received'[r] = Saturated(received[r], 2)
    BY <1>0, <1>4 DEF KernelReceives, Attributed
  <2> QED
    BY <1>0, <2>1 DEF Settled, Saturated
<1>5. ASSUME NEW c \in calls, SendReturns(c) PROVE FALSE
  <2>1. c.run = r /\ received'[r] > 0
    BY <1>5 DEF SendReturns, Attributed
  <2> QED
    BY <2>1 DEF Settled
<1>6. ASSUME NEW c \in calls, GiveUp(c) PROVE FALSE
  <2>1. c.run = r /\ r \in noted'
    BY <1>6 DEF GiveUp, SendFailsBase, Attributed
  <2> QED
    BY <2>1 DEF Settled
<1>7. ASSUME NEW c \in calls, CountFailure(c)
      PROVE  Pending(outbox', r) /\ TakenUp(r)'
  <2> DEFINE d == [c EXCEPT !.snap = Retried(@, c.run), !.at = "counted"]
  <2>1. c.run = r /\ outbox' = Retried(c.snap, r) /\ d \in calls'
    BY <1>0, <1>7 DEF CountFailure, SendFailsBase, Attributed
  <2>2. r \in DOMAIN c.snap /\ d.run = r
    BY <1>0, <2>1 DEF Call
  <2> HIDE DEF d
  <2> QED
    BY <2>1, <2>2 DEF Retried, Pending, TakenUp
<1>8. CASE Redeliver
  <2>1. Pending(outbox, r) /\ outbox' = outbox
    BY <1>2, <1>8 DEF Redeliver
  <2>2. DeliveryCall(outbox, r, "boot") \in calls'
    BY <1>8, <2>1 DEF Redeliver, Pending
  <2> QED
    BY <2>1, <2>2 DEF DeliveryCall, TakenUp
<1>9. CASE UNCHANGED outboxVars
  BY <1>2, <1>9 DEF outboxVars, TakenUp
<1>10. ASSUME NEW c \in calls, RetryStored(c) \/ RetryRefused(c)
       PROVE  Pending(outbox', r) /\ TakenUp(r)'
  <2>1. c.run = r /\ outbox' = outbox /\ Pending(outbox, r)
    BY <1>2, <1>10 DEF RetryStored, RetryRefused, Attributed
  <2>2. TakenUp(r)'
    BY <1>10, <2>1, RetryTakesUp
  <2> QED
    BY <2>1, <2>2
<1> QED
  BY <1>1, <1>3, <1>4, <1>5, <1>6, <1>7, <1>8, <1>9, <1>10 DEF OutboxNext

\* The safety half of LoneFinishSettles: until the Kernel has a lone finish or a
\* note gives it up, onRunFinishDelivery never leaves it without its entry in the
\* array and a delivery or retry that is still to come, whichever sends fail and
\* whenever the object restarts; a refused retry row leaves it its entry, which
\* the next restart delivers.
THEOREM LoneFinishPursuedHolds == OutboxSpec => []LoneFinishPursued
<1>1. OutboxInit => Attributed /\ OnlyEmitted /\ LoneFinishPursued
  BY DEF OutboxInit, Attributed, OnlyEmitted, LoneFinishPursued
<1> QED
  BY <1>1, OutboxInvHolds, AttributedStep, LonePursuedStep, PTL DEF OutboxSpec

\* Every finish the Kernel does not have and no note gives up is in the array and
\* taken up.
Pursued(r) == Settled(r) \/ (Pending(outbox, r) /\ TakenUp(r))

EveryFinishPursued == \A r \in emitted : Pursued(r)

\* A failed send writes back an array read before another, unsettled finish was pushed.
LosesEntry ==
  \E c \in calls : CountFailure(c) /\ \E r \in DOMAIN outbox \ DOMAIN c.snap : ~Settled(r)

\* A settled finish stays settled.
LEMMA SettledStays ==
  ASSUME OutboxInv, [OutboxNext]_outboxVars, NEW r \in Finishes, Settled(r)
  PROVE  Settled(r)'
<1>0. /\ received \in [Finishes -> 0 .. 2]
      /\ \A c \in calls : c.run \in Finishes
  BY DEF OutboxInv, OutboxTypeOK, Call
<1>1. CASE noted \subseteq noted' /\ received' = received
  BY <1>1 DEF Settled
<1>2. ASSUME NEW c \in calls, KernelReceives(c) PROVE Settled(r)'
  <2>1. noted' = noted /\ received' = [received EXCEPT ![c.run] = Saturated(@, 2)]
    BY <1>2 DEF KernelReceives
  <2>2. received[r] > 0 => received'[r] > 0
    BY <1>0, <2>1 DEF Saturated
  <2> QED
    BY <2>1, <2>2 DEF Settled
<1>3. CASE \E x \in Finishes : EmitRunFinished(x) \/ RetryTimer(x)
  BY <1>1, <1>3 DEF EmitRunFinished, RetryTimer
<1>4. CASE \E c \in calls : SendReturns(c) \/ GiveUp(c) \/ CountFailure(c)
                              \/ RetryStored(c) \/ RetryRefused(c)
  BY <1>1, <1>4 DEF SendReturns, GiveUp, CountFailure, RetryStored, RetryRefused, SendFailsBase
<1>5. CASE Redeliver \/ UNCHANGED outboxVars
  BY <1>1, <1>5 DEF Redeliver, outboxVars
<1> QED
  BY <1>2, <1>3, <1>4, <1>5 DEF OutboxNext

\* Only a stale write-back that loses an entry leaves a finish without its pursuit.
LEMMA EveryPursuedStep ==
  ASSUME OutboxInv, Attributed, OnlyEmitted, EveryFinishPursued,
         [OutboxNext]_outboxVars, ~LosesEntry
  PROVE  EveryFinishPursued'
<1> SUFFICES ASSUME NEW r \in emitted', ~Settled(r)'
             PROVE  Pursued(r)'
  BY DEF EveryFinishPursued, Pursued
<1>0. /\ timers \in [Finishes -> Nat] /\ received \in [Finishes -> 0 .. 2]
      /\ emitted \subseteq Finishes
      /\ \A c \in calls : c \in Call /\ c.run \in Finishes /\ c.run \in DOMAIN c.snap
  BY DEF OutboxInv, OutboxTypeOK, Call, CallsCarryTheirRun, Pending
<1>1. ASSUME r \in emitted
      PROVE  /\ ~Settled(r)
             /\ r \in DOMAIN outbox
             /\ TakenUp(r)
  BY <1>0, <1>1, SettledStays DEF EveryFinishPursued, Pursued, Pending
<1>2. ASSUME r \in DOMAIN outbox', TakenUp(r)'
      PROVE  Pursued(r)'
  BY <1>2 DEF Pursued, Pending
<1>3. ASSUME NEW x \in Finishes, EmitRunFinished(x) PROVE Pursued(r)'
  <2> DEFINE new == DeliveryCall(Pushed(outbox, x), x, "emit")
  <2>1. /\ emitted' = emitted \cup {x} /\ outbox' = Pushed(outbox, x)
        /\ calls' = calls \cup {new} /\ timers' = timers /\ stranded' = stranded
    BY <1>3 DEF EmitRunFinished
  <2>2. DOMAIN outbox' = DOMAIN outbox \cup {x} /\ new.run = x
    BY <2>1 DEF Pushed, DeliveryCall
  <2> HIDE DEF new
  <2>3. TakenUp(r)'
    BY <1>1, <2>1, <2>2 DEF TakenUp
  <2> QED
    BY <1>1, <1>2, <2>1, <2>2, <2>3
<1>4. ASSUME NEW x \in Finishes, RetryTimer(x) PROVE Pursued(r)'
  <2>1. /\ emitted' = emitted /\ outbox' = outbox /\ calls \subseteq calls'
        /\ stranded' = stranded
    BY <1>4 DEF RetryTimer
  <2>2. timers'[r] = timers[r]
    BY <1>0, <1>1, <1>4, <2>1 DEF RetryTimer, Pending
  <2>3. TakenUp(r)'
    BY <1>1, <2>1, <2>2 DEF TakenUp
  <2> QED
    BY <1>1, <1>2, <2>1, <2>3
<1>5. ASSUME NEW c \in calls, KernelReceives(c) PROVE Pursued(r)'
  <2> DEFINE d == [c EXCEPT !.at = "got"]
  <2>1. /\ emitted' = emitted /\ outbox' = outbox /\ timers' = timers
        /\ stranded' = stranded /\ calls' = (calls \ {c}) \cup {d}
    BY <1>5 DEF KernelReceives
  <2>2. d.run = c.run
    BY <1>0 DEF Call
  <2>3. (\E k \in calls : k.run = r) => \E k \in calls' : k.run = r
    BY <2>1, <2>2
  <2>4. TakenUp(r)'
    BY <1>1, <2>1, <2>3 DEF TakenUp
  <2> QED
    BY <1>1, <1>2, <2>1, <2>4
<1>6. ASSUME NEW c \in calls, SendReturns(c) \/ GiveUp(c)
      PROVE  Pursued(r)'
  <2>1. /\ emitted' = emitted /\ outbox' = Without(outbox, c.run)
        /\ stranded' = stranded /\ timers' = RowsAfter(c) /\ calls' = calls \ {c}
    BY <1>6 DEF SendReturns, GiveUp, SendFailsBase
  <2>2. Settled(c.run)'
    BY <1>6 DEF SendReturns, GiveUp, SendFailsBase, Attributed, Settled
  <2>3. c.run # r
    BY <2>2
  <2>4. r \in DOMAIN outbox'
    BY <1>1, <2>1, <2>3 DEF Without
  <2>5. timers'[r] = timers[r]
    BY <1>0, <2>1, <2>3, RowsAfterFacts
  <2>6. TakenUp(r)'
    BY <1>1, <2>1, <2>3, <2>5 DEF TakenUp
  <2> QED
    BY <1>2, <2>4, <2>6
<1>7. ASSUME NEW c \in calls, CountFailure(c)
      PROVE  Pursued(r)'
  <2> DEFINE d == [c EXCEPT !.snap = Retried(@, c.run), !.at = "counted"]
  <2>1. /\ emitted' = emitted /\ outbox' = Retried(c.snap, c.run) /\ timers' = timers
        /\ stranded' = stranded /\ calls' = (calls \ {c}) \cup {d}
    BY <1>7 DEF CountFailure, SendFailsBase
  <2>2. r \in DOMAIN c.snap
    BY <1>1, <1>7, <2>1 DEF LosesEntry
  <2>3. r \in DOMAIN outbox'
    BY <2>1, <2>2 DEF Retried
  <2>4. d.run = c.run
    BY <1>0 DEF Call
  <2>5. (\E k \in calls : k.run = r) => \E k \in calls' : k.run = r
    BY <2>1, <2>4
  <2>6. TakenUp(r)'
    BY <1>1, <2>1, <2>5 DEF TakenUp
  <2> QED
    BY <1>2, <2>3, <2>6
<1>8. CASE Redeliver
  <2>1. r \in DOMAIN outbox /\ outbox' = outbox
    BY <1>1, <1>8 DEF Redeliver
  <2>2. DeliveryCall(outbox, r, "boot") \in calls'
    BY <1>8, <2>1 DEF Redeliver
  <2> QED
    BY <1>2, <2>1, <2>2 DEF DeliveryCall, TakenUp
<1>9. CASE UNCHANGED outboxVars
  BY <1>1, <1>2, <1>9 DEF outboxVars, TakenUp
<1>10. ASSUME NEW c \in calls, RetryStored(c) \/ RetryRefused(c)
       PROVE  Pursued(r)'
  <2>1. /\ emitted' = emitted /\ outbox' = outbox /\ calls' = calls \ {c}
        /\ stranded \subseteq stranded'
    BY <1>10 DEF RetryStored, RetryRefused
  <2>2. CASE c.run = r
    BY <1>1, <1>2, <1>10, <2>1, <2>2, RetryTakesUp
  <2>3. CASE c.run # r
    <3>1. timers'[r] = timers[r]
      BY <1>0, <1>10, <2>3, RowsAfterFacts DEF RetryStored, RetryRefused
    <3>2. TakenUp(r)'
      BY <1>1, <2>1, <2>3, <3>1 DEF TakenUp
    <3> QED
      BY <1>1, <1>2, <2>1, <3>2
  <2> QED
    BY <2>2, <2>3
<1> QED
  BY <1>3, <1>4, <1>5, <1>6, <1>7, <1>8, <1>9, <1>10 DEF OutboxNext

\* However many finishes, failed sends, refused rows, restarts and overlapping
\* deliveries: the write-back of an array that is older than another finish is the
\* one way in which onRunFinishDelivery loses an entry. Without it every finish
\* keeps its entry until it is settled, with a delivery or retry that is still to
\* come, or, once it was refused a retry row, until a restart delivers it.
THEOREM OnlyStaleWritesLose ==
  OutboxSpec /\ [][~LosesEntry]_outboxVars => []EveryFinishPursued
<1>1. OutboxInit => Attributed /\ OnlyEmitted /\ EveryFinishPursued
  BY DEF OutboxInit, Attributed, OnlyEmitted, EveryFinishPursued
<1>2. ASSUME OutboxInv, Attributed, OnlyEmitted, EveryFinishPursued,
             [OutboxNext]_outboxVars, [~LosesEntry]_outboxVars
      PROVE  EveryFinishPursued'
  <2>1. CASE ~LosesEntry
    BY <1>2, <2>1, EveryPursuedStep
  <2>2. CASE UNCHANGED outboxVars
    BY <1>2, <2>2 DEF outboxVars, EveryFinishPursued, Pursued, Settled, TakenUp
  <2> QED
    BY <1>2, <2>1, <2>2
<1>3. OutboxInv /\ Attributed /\ OnlyEmitted /\ EveryFinishPursued
        /\ [OutboxNext]_outboxVars /\ [~LosesEntry]_outboxVars => EveryFinishPursued'
  BY <1>2
<1>4. OutboxInv /\ Attributed /\ OnlyEmitted /\ [OutboxNext]_outboxVars
        => Attributed' /\ OnlyEmitted'
  BY AttributedStep
<1> QED
  BY <1>1, <1>3, <1>4, OutboxInvHolds, PTL DEF OutboxSpec

\* No run ends while the finish of another is being delivered.
EmitsAlone == \A r \in Finishes : EmitRunFinished(r) => calls = {}

\* Every copy of the array that may be written back holds what is not settled.
CopiesComplete == \A c \in calls : \A r \in emitted : Settled(r) \/ r \in DOMAIN c.snap

\* So no write-back is stale if runs end only between deliveries.
LEMMA CopiesStep ==
  ASSUME OutboxInv, EveryFinishPursued, CopiesComplete, [OutboxNext]_outboxVars, EmitsAlone
  PROVE  CopiesComplete'
<1> SUFFICES ASSUME NEW k \in calls', NEW r \in emitted', ~Settled(r)'
             PROVE  r \in DOMAIN k.snap
  BY DEF CopiesComplete
<1>0. /\ emitted \subseteq Finishes
      /\ \A c \in calls : c \in Call
  BY DEF OutboxInv, OutboxTypeOK
<1>1. r \in emitted => r \in DOMAIN outbox /\ \A c \in calls : r \in DOMAIN c.snap
  BY <1>0, SettledStays DEF EveryFinishPursued, Pursued, Pending, CopiesComplete
<1>2. ASSUME NEW x \in Finishes, EmitRunFinished(x) PROVE r \in DOMAIN k.snap
  <2>1. /\ emitted' = emitted \cup {x}
        /\ calls' = calls \cup {DeliveryCall(Pushed(outbox, x), x, "emit")}
        /\ calls = {}
    BY <1>2 DEF EmitRunFinished, EmitsAlone
  <2>2. k.snap = Pushed(outbox, x)
    BY <2>1 DEF DeliveryCall
  <2> QED
    BY <1>1, <2>1, <2>2 DEF Pushed
<1>3. ASSUME NEW x \in Finishes, RetryTimer(x) PROVE r \in DOMAIN k.snap
  <2>1. emitted' = emitted /\ (k \in calls \/ k = DeliveryCall(outbox, x, "timer"))
    BY <1>3 DEF RetryTimer
  <2> QED
    BY <1>1, <2>1 DEF DeliveryCall
<1>4. ASSUME NEW c \in calls, KernelReceives(c) PROVE r \in DOMAIN k.snap
  <2>1. emitted' = emitted /\ (k \in calls \/ k = [c EXCEPT !.at = "got"])
    BY <1>4 DEF KernelReceives
  <2>2. [c EXCEPT !.at = "got"].snap = c.snap
    BY <1>0 DEF Call
  <2> QED
    BY <1>1, <2>1, <2>2
<1>5. ASSUME NEW c \in calls,
             SendReturns(c) \/ GiveUp(c) \/ RetryStored(c) \/ RetryRefused(c)
      PROVE  r \in DOMAIN k.snap
  BY <1>1, <1>5 DEF SendReturns, GiveUp, RetryStored, RetryRefused, SendFailsBase
<1>8. ASSUME NEW c \in calls, CountFailure(c) PROVE r \in DOMAIN k.snap
  <2> DEFINE d == [c EXCEPT !.snap = Retried(@, c.run), !.at = "counted"]
  <2>1. emitted' = emitted /\ (k \in calls \/ k = d)
    BY <1>8 DEF CountFailure, SendFailsBase
  <2>2. d.snap = Retried(c.snap, c.run) /\ DOMAIN Retried(c.snap, c.run) = DOMAIN c.snap
    BY <1>0 DEF Call, Retried
  <2> HIDE DEF d
  <2> QED
    BY <1>1, <2>1, <2>2
<1>6. CASE Redeliver
  <2>1. emitted' = emitted /\ k.snap = outbox
    BY <1>6 DEF Redeliver, DeliveryCall
  <2> QED
    BY <1>1, <2>1
<1>7. CASE UNCHANGED outboxVars
  BY <1>1, <1>7 DEF outboxVars
<1> QED
  BY <1>2, <1>3, <1>4, <1>5, <1>6, <1>7, <1>8 DEF OutboxNext

\* If no run ends while another's finish is being delivered, no finish is ever
\* forgotten: failed sends, a retry alarm that runs into a delivery of the same
\* run, and restarts that deliver the whole array at once are all harmless, and a
\* refused retry row only makes its finish wait for the next restart.
THEOREM OverlapAloneLoses ==
  OutboxSpec /\ [][EmitsAlone]_outboxVars => []EveryFinishPursued
<1>1. OutboxInit => Attributed /\ OnlyEmitted /\ EveryFinishPursued /\ CopiesComplete
  BY DEF OutboxInit, Attributed, OnlyEmitted, EveryFinishPursued, CopiesComplete
<1>2. ASSUME OutboxInv, Attributed, OnlyEmitted, EveryFinishPursued, CopiesComplete,
             [OutboxNext]_outboxVars, [EmitsAlone]_outboxVars
      PROVE  EveryFinishPursued' /\ CopiesComplete'
  <2>1. CASE UNCHANGED outboxVars
    BY <1>2, <2>1 DEF outboxVars, EveryFinishPursued, Pursued, Settled, TakenUp,
                          CopiesComplete
  <2>2. CASE EmitsAlone
    <3>1. DOMAIN outbox \subseteq emitted
      BY <1>2 DEF OnlyEmitted
    <3>2. ~LosesEntry
      BY <1>2, <3>1 DEF LosesEntry, CopiesComplete
    <3> QED
      BY <1>2, <2>2, <3>2, EveryPursuedStep, CopiesStep
  <2> QED
    BY <1>2, <2>1, <2>2
<1>3. OutboxInv /\ Attributed /\ OnlyEmitted /\ EveryFinishPursued /\ CopiesComplete
        /\ [OutboxNext]_outboxVars /\ [EmitsAlone]_outboxVars
        => EveryFinishPursued' /\ CopiesComplete'
  BY <1>2
<1>4. OutboxInv /\ Attributed /\ OnlyEmitted /\ [OutboxNext]_outboxVars
        => Attributed' /\ OnlyEmitted'
  BY AttributedStep
<1> QED
  BY <1>1, <1>3, <1>4, OutboxInvHolds, PTL DEF OutboxSpec

=============================================================================

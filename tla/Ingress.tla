------------------------------- MODULE Ingress -------------------------------
(***************************************************************************)
(* One message from a provider: the adapter's inbound ledger, the Kernel's *)
(* ingress receipt and its owners, the admission of the run by the process, *)
(* the run's reply route, and the way of the run's answer back to the      *)
(* adapter with its retries and its failure notice.                        *)
(*                                                                         *)
(* External: the provider (it may deliver the message again), the process  *)
(* (it admits a run id once and repeats the finish of a run until the      *)
(* Kernel acknowledges it: RunLifecycle, FinishOutbox), the adapter's      *)
(* sends (DeliveryLedger makes them idempotent by delivery id) and the     *)
(* host's alarm, which repeats a row whose callback threw or was cut off.  *)
(* The message opens or joins a run, decides the approval that the process *)
(* asks for, or is answered at once. A replay asks again whose message it  *)
(* is: the link of its sender to a user may have changed. Resets of the    *)
(* process are left out.                                                   *)
(***************************************************************************)
EXTENDS Naturals, FiniteSets

CONSTANTS MaxOffers,   \* bound on deliveries of the message by the provider
          MaxRounds,   \* MAX_RESPONSE_DELIVERY_ATTEMPTS, 10 in the code
          MaxAttempts, \* MAX_ADAPTER_SIGNAL_DELIVERY_ATTEMPTS, 10 in the code
          MaxTroubles, \* bound on failed calls, restarts, expired leases and changed
                       \* links together
          MaxClears    \* bound on resets of the adapter's ledger

ASSUME IngressAssumption ==
  /\ MaxOffers \in Nat /\ MaxRounds \in Nat \ {0} /\ MaxAttempts \in Nat \ {0}
  /\ MaxTroubles \in Nat /\ MaxClears \in Nat

VARIABLES
  \* The adapter: its record (durable) and its attempt (in memory).
  inbox,      \* "none", "provider", "responses"
  rounds,     \* rounds of responses started
  attempt,    \* "idle", "asking" the Kernel, "sending" the responses
  waits,      \* claim token of the request it waits for, or 0
  stale,      \* the attempt began before the last clear()
  clearing,   \* clear() has fenced the attempts and not deleted yet
  \* The Kernel: the receipt (durable but for `held`) and the requests under way.
  receipt,    \* "none", "claimed", "completed"
  result,     \* result_json, "none" for NULL
  progress,   \* kind of progress_json: "none" (NULL), "process_delivery", "hil_decision"
  owner,      \* claim_token
  held,       \* the owner is active and its lease has not expired
  requests,   \* adapter.inbound past its claim: a set of records
  moved,      \* the sender is no longer linked to the user of the last first attempt
  disowned,   \* history: the receipt was completed by a replay because of that
  \* The Kernel: reply route, retry rows, notice row (durable) and their callbacks.
  route,
  signal,     \* attemptAdapterSignalDelivery for the process: in progress
  rows,       \* onAdapterSignalDelivery rows, by attempt
  rowAt,      \* the attempt whose row is in progress, or 0
  notice, noticeAt,
  \* The process (external).
  asked,      \* its pending approval: 0 none, 1 the one the message names, 2 a newer one
  applied,    \* number of decisions of this message it applied
  run,        \* "none", "admitted", "finished", "refused"
  runs,       \* ids of the runs it admitted for this message
  finish,     \* its finish signal: "none", "unsent", "acknowledged"
  \* History and bounds.
  given,      \* terminal results the adapter was given
  replied, answered, noticed,
  dropped,    \* a replay deleted the route of a run that was not answered yet
  cleared, issued, offers, troubles

adapter == <<inbox, rounds, attempt, waits, stale, clearing>>
receipts == <<receipt, result, progress, owner, held, requests, moved, disowned>>
answers == <<signal, rows, rowAt, notice, noticeAt>>
process == <<asked, applied, run, runs, finish>>
history == <<given, replied, answered, noticed, dropped, cleared, issued, offers>>
vars == <<adapter, receipts, route, answers, process, history, troubles>>

-----------------------------------------------------------------------------
Immediate == {"reply"}

Results == {"run", "queued", "refused"} \cup Immediate

Trouble ==
  /\ troubles < MaxTroubles
  /\ troubles' = troubles + 1

Init ==
  /\ inbox = "none" /\ rounds = 0 /\ attempt = "idle" /\ waits = 0
  /\ stale = FALSE /\ clearing = FALSE
  /\ receipt = "none" /\ result = "none" /\ progress = "none" /\ owner = 0 /\ held = FALSE
  /\ requests = {} /\ moved = FALSE /\ disowned = FALSE
  /\ route = FALSE /\ signal = FALSE /\ rows = {} /\ rowAt = 0
  /\ notice = FALSE /\ noticeAt = FALSE
  /\ asked \in {0, 1} /\ applied = 0
  /\ run = "none" /\ runs = {} /\ finish = "none"
  /\ given = {} /\ replied = FALSE /\ answered = FALSE /\ noticed = FALSE
  /\ dropped = FALSE /\ cleared = FALSE /\ issued = 0 /\ offers = 0 /\ troubles = 0

-----------------------------------------------------------------------------
(* The adapter's inbound ledger. *)

\* enqueueAndArm: a record that is there already is kept.
Offer ==
  /\ offers < MaxOffers
  /\ offers' = offers + 1
  /\ inbox' = IF inbox = "none" THEN "provider" ELSE inbox
  /\ UNCHANGED <<rounds, attempt, waits, stale, clearing, receipts, route, answers, process,
                 given, replied, answered, noticed, dropped, cleared, issued, troubles>>

\* deliverResponses counts the round before it sends.
SendResponses(n) ==
  /\ inbox' = "responses" /\ rounds' = n /\ attempt' = "sending"

\* The attempt ends and leaves the record `left`.
AttemptEnds(left) ==
  /\ inbox' = left /\ attempt' = "idle"
  /\ UNCHANGED rounds

\* Mutant of Terminal: a receipt in progress ends the hand-over.
BusyIsTerminal(answer) == answer # "error"

\* isTerminalAdapterInboundResult
Terminal(answer) == answer \in Results

\* attempt() after deliver() with the Kernel's answer: a result, "busy" for a
\* receipt in progress, "error" for a call that threw. An attempt that began
\* before a clear() deletes its record, whatever it is by now.
Resolved(answer) ==
  /\ waits' = 0
  /\ given' = given \cup ({answer} \cap Results)
  /\ IF stale THEN AttemptEnds("none")
     ELSE IF answer \in Immediate THEN SendResponses(1)
     ELSE IF Terminal(answer) THEN AttemptEnds("none")
     ELSE AttemptEnds(inbox)
  /\ stale' = (stale /\ attempt' # "idle")

\* The request r of the Kernel ends with this answer, which the adapter gets if
\* it still waits.
Replies(r, answer) ==
  /\ requests' = requests \ {r}
  /\ IF waits = r.token
       THEN Resolved(answer)
       ELSE UNCHANGED <<inbox, rounds, attempt, waits, stale, given>>

\* deliverResponses returned from its sends. An exhausted record is deleted.
ResponsesSent(ok) ==
  /\ attempt = "sending"
  /\ replied' = (replied \/ ok)
  /\ AttemptEnds(IF stale \/ ok \/ rounds >= MaxRounds THEN "none" ELSE "responses")
  /\ stale' = FALSE
  /\ UNCHANGED <<waits, clearing, receipts, route, answers, process, given, answered,
                 noticed, dropped, cleared, issued, offers, troubles>>

\* The alarm attempts a record whose responses were not accepted.
RetryResponses ==
  /\ attempt = "idle" /\ inbox = "responses"
  /\ IF rounds >= MaxRounds THEN AttemptEnds("none") ELSE SendResponses(rounds + 1)
  /\ UNCHANGED <<waits, stale, clearing, receipts, route, answers, process, history, troubles>>

\* clear() fences the attempts in progress and then deletes the records.
ClearBegin ==
  /\ ~clearing /\ ~cleared /\ MaxClears > 0
  /\ clearing' = TRUE /\ cleared' = TRUE
  /\ stale' = (attempt # "idle")
  /\ UNCHANGED <<inbox, rounds, attempt, waits, receipts, route, answers, process, given,
                 replied, answered, noticed, dropped, issued, offers, troubles>>

ClearEnd ==
  /\ clearing
  /\ clearing' = FALSE
  /\ inbox' = "none"
  /\ UNCHANGED <<rounds, attempt, waits, stale, receipts, route, answers, process, history,
                 troubles>>

-----------------------------------------------------------------------------
(* The Kernel's receipt. *)

\* stableOpaqueId("adapter-run", [receiptId]), kept in the checkpoint
RunId(r) == 1

\* Mutant of Owned: neither the state nor the claim token is compared.
AnyoneOwns(r) == TRUE

\* prepare, checkpoint and complete are fenced by state and claim token.
Owned(r) == receipt = "claimed" /\ owner = r.token

\* Mutant of Request: a replay does not know that it is one.
FirstAttempt(token, refused) ==
  [token |-> token, kind |-> progress, replay |-> FALSE, answer |-> "none",
   at |-> IF progress = "none" THEN "resolving" ELSE IF refused THEN "disowned" ELSE "sent"]

\* A request that has claimed the receipt. It goes on from the checkpoint, if it is
\* not refused that.
Request(token, refused) ==
  [token |-> token, kind |-> progress, replay |-> progress # "none", answer |-> "none",
   at |-> IF progress = "none" THEN "resolving" ELSE IF refused THEN "disowned" ELSE "sent"]

\* Whether a replay is refused: a delivery for anybody but the user it was
\* checkpointed for, a decision if the sender is nobody's or its user is gone.
Refusals ==
  IF progress = "none" \/ ~moved THEN {FALSE}
  ELSE IF progress = "process_delivery" THEN {TRUE} ELSE BOOLEAN

\* The alarm's attempt calls the Kernel, which claims the receipt: it answers
\* with the result it has, or that another owner is active, or goes on, from the
\* checkpoint if there is one (the route is set before the process is called). A
\* first attempt takes the user it finds.
Ask ==
  /\ attempt = "idle" /\ inbox = "provider"
  /\ IF receipt = "completed"
       THEN /\ Resolved(result)
            /\ UNCHANGED <<receipts, route, issued>>
     ELSE IF held
       THEN /\ Resolved("busy")
            /\ UNCHANGED <<receipts, route, issued>>
     ELSE /\ issued' = issued + 1 /\ owner' = issued + 1 /\ waits' = issued + 1
          /\ receipt' = "claimed" /\ held' = TRUE /\ attempt' = "asking"
          /\ moved' = (moved /\ progress # "none")
          /\ \E refused \in Refusals :
               /\ requests' = requests \cup {Request(issued + 1, refused)}
               /\ route' = (route \/ (progress = "process_delivery" /\ ~refused))
          /\ UNCHANGED <<inbox, rounds, stale, given, result, progress, disowned>>
  /\ UNCHANGED <<clearing, answers, process, replied, answered, noticed, dropped, cleared,
                 offers, troubles>>

\* prepare and complete, which run without an await between them. A request that
\* lost its claim throws: abandon changes nothing and the adapter gets an error.
Settle(r, answer) ==
  IF Owned(r)
    THEN /\ receipt' = "completed" /\ result' = answer /\ held' = FALSE
         /\ Replies(r, answer)
         /\ UNCHANGED <<progress, owner>>
    ELSE /\ Replies(r, "error")
         /\ UNCHANGED <<receipt, result, progress, owner, held>>

\* What a message that goes no further is answered: a reply, or that it is refused
\* or dropped, which the adapter takes alike.
AtOnce == Immediate \cup {"refused"}

\* resolveClaimedAdapterInbound answers a first attempt at once: with a challenge, a
\* command's reply or a reminder, or since it is not meant for a user there is.
AnsweredAtOnce(r) ==
  /\ r.at = "resolving"
  /\ \E answer \in AtOnce : Settle(r, answer)
  /\ UNCHANGED <<moved, disowned, clearing, route, answers, process, replied, answered,
                 noticed, dropped, cleared, issued, offers, troubles>>

\* The same for a replay, before it looks at the checkpoint: whatever the earlier
\* attempt has done, the verdict is a challenge, a refusal or a drop.
Disowns(r) ==
  /\ r.at = "disowned"
  /\ \E answer \in AtOnce : Settle(r, answer)
  /\ disowned' = (disowned \/ Owned(r))
  /\ UNCHANGED <<moved, clearing, route, answers, process, replied, answered, noticed, dropped,
                 cleared, issued, offers, troubles>>

\* The sender is unlinked or linked to another user, or that is undone.
LinkMoves ==
  /\ receipt = "claimed"
  /\ Trouble
  /\ moved' = ~moved
  /\ UNCHANGED <<adapter, receipt, result, progress, owner, held, requests, disowned, route,
                 answers, process, history>>

\* getPendingHil: the message decides the pending approval, or is conversation,
\* also when the process answers with an error.
LooksUp(r) ==
  /\ r.at = "resolving"
  /\ \E kind \in {"process_delivery"} \cup {k \in {"hil_decision"} : asked = 1} :
       requests' = (requests \ {r}) \cup {[r EXCEPT !.at = "ready", !.kind = kind]}
  /\ UNCHANGED <<adapter, receipt, result, progress, owner, held, moved, disowned, route,
                 answers, process, history, troubles>>

\* Mutant of Saved: a decision is sent without a checkpoint.
DecisionNotSaved(kind) == IF kind = "hil_decision" THEN progress ELSE kind

\* progress_json after checkpoint().
Saved(kind) == kind

\* The checkpoint before the process is called, for a run once its media are
\* stored and with its route. The checkpoint of a request that lost its claim throws.
Checkpoint(r) ==
  /\ r.at = "ready"
  /\ IF Owned(r)
       THEN /\ progress' = Saved(r.kind)
            /\ route' = (route \/ r.kind = "process_delivery")
            /\ requests' = (requests \ {r}) \cup {[r EXCEPT !.at = "sent"]}
            /\ UNCHANGED <<inbox, rounds, attempt, waits, stale, given>>
       ELSE /\ Replies(r, "error")
            /\ UNCHANGED <<progress, route>>
  /\ UNCHANGED <<clearing, receipt, result, owner, held, moved, disowned, answers, process,
                 replied, answered, noticed, dropped, cleared, issued, offers, troubles>>

\* The process gets proc.adapter.deliver: existingRunAdmission answers for a run it
\* has, otherwise it admits the run, at once or queued, or refuses it, always for
\* what will not change (the process is gone, its media are missing).
ProcessAdmits(r, answer) ==
  /\ r.at = "sent" /\ r.kind = "process_delivery"
  /\ \/ /\ RunId(r) \in runs
        /\ answer \in (IF run = "finished" THEN {"recorded"} ELSE {"run", "queued"})
        /\ UNCHANGED process
     \/ /\ RunId(r) \notin runs /\ run # "refused"
        /\ answer \in {"run", "queued"}
        /\ runs' = runs \cup {RunId(r)} /\ run' = "admitted"
        /\ UNCHANGED finish
     \/ /\ runs = {} /\ answer = "refused"
        /\ run' = "refused"
        /\ UNCHANGED <<runs, finish>>
  /\ requests' = (requests \ {r}) \cup {[r EXCEPT !.at = "back", !.answer = answer]}
  /\ UNCHANGED <<adapter, receipt, result, progress, owner, held, moved, disowned, route,
                 answers, asked, applied, history, troubles>>

\* The process gets proc.hil and applies the decision to the request it names.
\* Otherwise it declines: deliverAdapterHilDecision passes that on, or, for a replay,
\* takes the earlier attempt to have applied it and acknowledges or reminds.
ProcessDecides(r) ==
  /\ r.at = "sent" /\ r.kind = "hil_decision"
  /\ IF asked = 1
       THEN /\ applied' = applied + 1
            /\ asked' \in {0, 2}
       ELSE UNCHANGED <<asked, applied>>
  /\ requests' = (requests \ {r}) \cup
       {[r EXCEPT !.at = "back",
                  !.answer = IF asked = 1 \/ r.replay THEN "reply" ELSE "refused"]}
  /\ UNCHANGED <<adapter, receipt, result, progress, owner, held, moved, disowned, route,
                 answers, run, runs, finish, history, troubles>>

\* The approval is decided by somebody else.
OtherDecides ==
  /\ asked = 1
  /\ asked' \in {0, 2}
  /\ UNCHANGED <<adapter, receipts, route, answers, applied, run, runs, finish, history,
                 troubles>>

\* Back from the process. A refused or recorded run has its route deleted. The
\* result says nothing of a replay.
Delivered(r) ==
  /\ r.at = "back"
  /\ route' = (route /\ (r.kind = "process_delivery" => r.answer \in {"run", "queued"}))
  /\ dropped' = (dropped \/ (route /\ r.answer = "recorded" /\ ~answered))
  /\ Settle(r, IF r.answer = "recorded" THEN "run" ELSE r.answer)
  /\ UNCHANGED <<moved, disowned, clearing, answers, process, replied, answered, noticed,
                 cleared, issued, offers, troubles>>

\* Mutant of Abandoned: a request that throws stays the active owner.
KeepsTheClaim(r) == held

\* abandon() makes the receipt of its own claim reclaimable.
Abandoned(r) == held /\ ~Owned(r)

\* A step of the request throws, whatever the process did: abandon gives up the
\* claim, the checkpoint stays.
RequestFails(r) ==
  /\ Trouble
  /\ held' = Abandoned(r)
  /\ Replies(r, "error")
  /\ UNCHANGED <<clearing, receipt, result, progress, owner, moved, disowned, route, answers,
                 process, replied, answered, noticed, dropped, cleared, issued, offers>>

\* The owner is still at work after CLAIM_LEASE_MS.
LeaseExpires ==
  /\ held
  /\ Trouble
  /\ held' = FALSE
  /\ UNCHANGED <<adapter, receipt, result, progress, owner, requests, moved, disowned, route,
                 answers, process, history>>

-----------------------------------------------------------------------------
(* The answer of the run. *)

RunFinishes ==
  /\ run = "admitted"
  /\ run' = "finished" /\ finish' = "unsent"
  /\ UNCHANGED <<adapter, receipts, route, answers, asked, applied, runs, history, troubles>>

\* The process signals the finish. Without a route it is only broadcast.
FinishArrives ==
  /\ finish = "unsent" /\ ~signal
  /\ signal' = route
  /\ finish' = IF route THEN finish ELSE "acknowledged"
  /\ UNCHANGED <<adapter, receipts, route, rows, rowAt, notice, noticeAt, asked, applied, run,
                 runs, history, troubles>>

\* The host's alarm runs one callback at a time.
AlarmFree == rowAt = 0 /\ ~noticeAt

\* Mutant of Settles: an answer that failed for good deletes the route at once.
NeverNotified(outcome) == outcome # "retryable"

\* What deletes the reply route: an answer the adapter has accepted.
Settles(outcome) == outcome = "delivered"

\* attemptAdapterSignalDelivery queues another attempt.
Retries(n, outcome) == outcome = "retryable" /\ n < MaxAttempts

\* attemptAdapterSignalDelivery after the send, for attempt n, next to the `others`
\* of the retry rows.
Attempted(n, outcome, others) ==
  /\ answered' = (answered \/ outcome = "delivered")
  /\ route' = (route /\ ~Settles(outcome))
  /\ rows' = IF Retries(n, outcome) THEN others \cup {n + 1} ELSE others
  /\ notice' = (notice \/ ~(Settles(outcome) \/ Retries(n, outcome)))

Outcomes == {"delivered", "retryable", "permanent"}

\* The delivery that the process waits for; it has its acknowledgement.
SignalReturns(outcome) ==
  /\ signal
  /\ signal' = FALSE /\ finish' = "acknowledged"
  /\ Attempted(1, outcome, rows)
  /\ UNCHANGED <<adapter, receipts, rowAt, noticeAt, asked, applied, run, runs, given, replied,
                 noticed, dropped, cleared, issued, offers, troubles>>

\* The row of a retry or a notice is refused, or the signal is cut off after its
\* send: the process will signal again.
SignalFails ==
  /\ signal
  /\ Trouble
  /\ signal' = FALSE
  /\ answered' \in {answered, TRUE}
  /\ UNCHANGED <<adapter, receipts, route, rows, rowAt, notice, noticeAt, process, given,
                 replied, noticed, dropped, cleared, issued, offers>>

\* onAdapterSignalDelivery: nothing to do without a route.
RowFires(n) ==
  /\ AlarmFree /\ n \in rows
  /\ rowAt' = IF route THEN n ELSE 0
  /\ rows' = IF route THEN rows ELSE rows \ {n}
  /\ UNCHANGED <<adapter, receipts, route, signal, notice, noticeAt, process, history, troubles>>

RowReturns(outcome) ==
  /\ rowAt # 0
  /\ rowAt' = 0
  /\ Attempted(rowAt, outcome, rows \ {rowAt})
  /\ UNCHANGED <<adapter, receipts, signal, noticeAt, process, given, replied, noticed, dropped,
                 cleared, issued, offers, troubles>>

\* The callback throws: the host repeats its row.
RowFails ==
  /\ rowAt # 0
  /\ Trouble
  /\ rowAt' = 0
  /\ answered' \in {answered, TRUE}
  /\ UNCHANGED <<adapter, receipts, route, signal, rows, notice, noticeAt, process, given,
                 replied, noticed, dropped, cleared, issued, offers>>

\* onProcessDeliveryNotice.
NoticeFires ==
  /\ AlarmFree /\ notice
  /\ noticeAt' = route /\ notice' = route
  /\ UNCHANGED <<adapter, receipts, route, signal, rows, rowAt, process, history, troubles>>

NoticeReturns ==
  /\ noticeAt
  /\ noticeAt' = FALSE /\ notice' = FALSE /\ noticed' = TRUE /\ route' = FALSE
  /\ UNCHANGED <<adapter, receipts, signal, rows, rowAt, process, given, replied, answered,
                 dropped, cleared, issued, offers, troubles>>

NoticeFails ==
  /\ noticeAt
  /\ Trouble
  /\ noticeAt' = FALSE
  /\ noticed' \in {noticed, TRUE}
  /\ UNCHANGED <<adapter, receipts, route, signal, rows, rowAt, notice, process, given, replied,
                 answered, dropped, cleared, issued, offers>>

-----------------------------------------------------------------------------
\* The Kernel stops and is constructed again: no claim is active, and whoever
\* called it gets an error.
KernelRestarts ==
  /\ Trouble
  /\ requests' = {} /\ held' = FALSE
  /\ signal' = FALSE /\ rowAt' = 0 /\ noticeAt' = FALSE
  /\ IF waits # 0 THEN Resolved("error")
                  ELSE UNCHANGED <<inbox, rounds, attempt, waits, stale, given>>
  /\ UNCHANGED <<clearing, receipt, result, progress, owner, moved, disowned, route, rows,
                 notice, process, replied, answered, noticed, dropped, cleared, issued, offers>>

\* The adapter stops: its attempt is gone, the Kernel's request goes on.
AdapterRestarts ==
  /\ Trouble
  /\ attempt' = "idle" /\ waits' = 0 /\ stale' = FALSE /\ clearing' = FALSE
  /\ UNCHANGED <<inbox, rounds, receipts, route, answers, process, history>>

Next ==
  \/ Offer \/ Ask \/ RetryResponses \/ ClearBegin \/ ClearEnd
  \/ \E ok \in BOOLEAN : ResponsesSent(ok)
  \/ \E r \in requests :
       \/ AnsweredAtOnce(r) \/ LooksUp(r) \/ Checkpoint(r) \/ ProcessDecides(r)
       \/ Delivered(r) \/ RequestFails(r) \/ Disowns(r)
       \/ \E answer \in {"run", "queued", "recorded", "refused"} : ProcessAdmits(r, answer)
  \/ LeaseExpires \/ LinkMoves \/ OtherDecides \/ RunFinishes \/ FinishArrives
  \/ \E outcome \in Outcomes : SignalReturns(outcome) \/ RowReturns(outcome)
  \/ \E n \in rows : RowFires(n)
  \/ SignalFails \/ RowFails \/ NoticeFires \/ NoticeReturns \/ NoticeFails
  \/ KernelRestarts \/ AdapterRestarts

Spec == Init /\ [][Next]_vars

\* Both alarms run their rows, every call returns, and the process repeats its
\* signal until it is acknowledged.
Fairness ==
  /\ WF_vars(Ask) /\ WF_vars(RetryResponses) /\ WF_vars(\E ok \in BOOLEAN : ResponsesSent(ok))
  /\ WF_vars(\E r \in requests :
               \/ AnsweredAtOnce(r) \/ LooksUp(r) \/ Checkpoint(r) \/ ProcessDecides(r)
               \/ Delivered(r) \/ Disowns(r)
               \/ \E answer \in {"run", "queued", "recorded", "refused"} : ProcessAdmits(r, answer))
  /\ WF_vars(FinishArrives)
  /\ WF_vars(\E outcome \in Outcomes : SignalReturns(outcome))
  /\ WF_vars((\E outcome \in Outcomes : RowReturns(outcome)) \/ NoticeReturns
               \/ NoticeFires \/ \E n \in rows : RowFires(n))

FairSpec == Spec /\ Fairness

-----------------------------------------------------------------------------
Requests ==
  [token : Nat \ {0}, replay : BOOLEAN, kind : {"none", "process_delivery", "hil_decision"},
   answer : {"none", "run", "queued", "recorded", "refused", "reply"},
   at : {"resolving", "disowned", "ready", "sent", "back"}]

AdapterOK ==
  /\ inbox \in {"none", "provider", "responses"} /\ rounds \in 0 .. MaxRounds
  /\ attempt \in {"idle", "asking", "sending"} /\ waits \in Nat
  /\ stale \in BOOLEAN /\ clearing \in BOOLEAN

ReceiptsOK ==
  /\ receipt \in {"none", "claimed", "completed"} /\ result \in Results \cup {"none"}
  /\ progress \in {"none", "process_delivery", "hil_decision"}
  /\ owner \in Nat /\ held \in BOOLEAN /\ requests \subseteq Requests
  /\ moved \in BOOLEAN /\ disowned \in BOOLEAN

AnswersOK ==
  /\ route \in BOOLEAN /\ signal \in BOOLEAN /\ rows \subseteq 2 .. MaxAttempts
  /\ rowAt \in rows \cup {0} /\ notice \in BOOLEAN /\ noticeAt \in BOOLEAN

ProcessOK ==
  /\ asked \in 0 .. 2 /\ applied \in Nat
  /\ run \in {"none", "admitted", "finished", "refused"} /\ runs \subseteq Nat
  /\ finish \in {"none", "unsent", "acknowledged"}

HistoryOK ==
  /\ given \subseteq Results /\ replied \in BOOLEAN /\ answered \in BOOLEAN
  /\ noticed \in BOOLEAN /\ dropped \in BOOLEAN /\ cleared \in BOOLEAN
  /\ issued \in Nat /\ offers \in 0 .. MaxOffers /\ troubles \in 0 .. MaxTroubles

TypeOK == AdapterOK /\ ReceiptsOK /\ AnswersOK /\ ProcessOK /\ HistoryOK

\* However often the message is offered, claimed, replayed and sent, and whoever's
\* lease expires, it has one effect: it makes one run or decides one approval. It
\* does not become conversation when it is replayed after its approval is gone.
OneEffect == applied + Cardinality(runs) <= 1

\* The adapter is never given two different results for the message.
OneResult == Cardinality(given) <= 1

\* The adapter deletes its record only when the Kernel has settled the message
\* for good and nobody works on it, or because its ledger was cleared.
HandedOver ==
  offers > 0 /\ inbox = "none" /\ ~cleared => receipt = "completed"

\* Once the process's finish is acknowledged, its answer has reached the
\* adapter, or a durable row will send it or say that it failed, unless
\* a replay of the message has deleted the route.
AnswerKept ==
  finish = "acknowledged" =>
    answered \/ noticed \/ dropped \/ rows # {} \/ notice

\* The message is settled: nothing holds it at the adapter for ever.
MessageSettles == inbox # "none" ~> inbox = "none"

\* A finished run is answered, or the process is told that it could not be.
AnswerArrives == finish = "unsent" ~> answered \/ noticed \/ dropped

\* What the Kernel promises about the message, whatever the receipts, claims,
\* leases, replays and restarts do: see MessageProtocol.
Promised ==
  INSTANCE MessageProtocol WITH
    effect <- IF runs # {} THEN "run" ELSE IF applied > 0 THEN "decision" ELSE "none",
    verdict <- IF receipt = "completed" THEN result ELSE "none"

\* One effect, and one verdict that is true and comes last, unless a replay found
\* that the sender's link had changed: a message has no other outcome, whichever of
\* its requests gets where.
HandledOnce == Promised!Spec

=============================================================================

---------------------------- MODULE IngressProofs ----------------------------
(***************************************************************************)
(* Proofs about Ingress, for every bound: one message makes one run and    *)
(* has one result, a decision never turns into conversation, the adapter   *)
(* gives up its record only to a settled receipt, an acknowledged finish   *)
(* is answered, pursued or reported, results say what really happened, and *)
(* with that Ingress implements MessageProtocol.                           *)
(*                                                                         *)
(* The invariant IInv rests on what a claim token fences. Served: whoever  *)
(* waits for the Kernel is waited on by a request. Planned: what is        *)
(* sent to the process is what the one checkpoint says. Settled: results   *)
(* are given only by a completed receipt, which never changes. Routed: the *)
(* route stays until the answer is delivered, reported or lost to a replay.*)
(* Honest adds what a request brings back from the process, and what a     *)
(* completed receipt says of it.                                           *)
(***************************************************************************)
EXTENDS Ingress, FiniteSetTheorems, TLAPS

\* Every request has a token of its own, and an answer when it is back from the process.
Tokens ==
  /\ \A r, q \in requests : r.token = q.token => r = q
  /\ \A r \in requests : r.token <= issued /\ (r.at = "back" => r.answer # "none")
  /\ owner <= issued
  /\ waits # 0 => attempt = "asking"

\* The checkpoint is made once, by the owner, before anything is sent.
Planned ==
  /\ \A r \in requests :
       /\ r.at \in {"resolving", "ready"} /\ r.token = owner => progress = "none"
       /\ r.at \in {"sent", "back"} => progress = r.kind
       /\ r.at # "resolving" => r.kind # "none"
  /\ runs # {} => progress = "process_delivery"
  /\ applied > 0 => progress = "hil_decision" /\ asked # 1
  /\ applied <= 1
  /\ runs \subseteq {1}

\* Whatever the adapter was given is the result of the completed receipt, and it
\* drops or answers the message only then.
Settled ==
  /\ given # {} => receipt = "completed" /\ given \subseteq {result}
  /\ receipt = "completed" => result \in Results
  /\ attempt = "sending" \/ inbox = "responses" => receipt = "completed"
  /\ stale \/ clearing => cleared

\* Where the run stands, and why its route may be gone.
Routed ==
  /\ \A r \in requests : r.kind = "process_delivery" =>
       /\ r.at = "sent" /\ run = "none" => route
       /\ r.at = "back" /\ r.answer = "recorded" => run = "finished"
       /\ r.at = "back" /\ r.answer = "refused" => run = "refused"
       /\ r.at = "back" => r.answer \in {"run", "queued", "recorded", "refused"}
  /\ run \in {"none", "refused"} <=> runs = {}
  /\ run = "finished" <=> finish # "none"
  /\ signal => finish = "unsent"
  /\ rows # {} \/ notice \/ noticeAt => finish # "none"
  /\ run = "admitted" => route
  /\ finish # "none" /\ ~route => answered \/ noticed \/ dropped

\* Who waits for the Kernel has a request at work, and so has a claim that turns other
\* deliveries away: a receipt is never claimed by nobody.
Served ==
  /\ attempt = "asking" => \E r \in requests : r.token = waits
  /\ held => receipt = "claimed" /\ \E r \in requests : r.token = owner

IInv == TypeOK /\ Tokens /\ Served /\ Planned /\ Settled /\ Routed /\ HandedOver /\ AnswerKept

-----------------------------------------------------------------------------
\* What the adapter does with an answer keeps its types.
LEMMA ResolvedTyped ==
  ASSUME AdapterOK, given \subseteq Results, NEW answer, Resolved(answer), UNCHANGED clearing
  PROVE  AdapterOK' /\ given' \subseteq Results
<1> USE IngressAssumption DEF AdapterOK, Resolved, AttemptEnds, SendResponses
<1>1. given' \subseteq Results
  OBVIOUS
<1>2. stale' \in BOOLEAN /\ clearing' \in BOOLEAN /\ waits' \in Nat
  OBVIOUS
<1>3. /\ inbox' \in {"none", "provider", "responses"} /\ rounds' \in 0 .. MaxRounds
      /\ attempt' \in {"idle", "asking", "sending"}
  <2>1. CASE stale
    BY <2>1
  <2>2. CASE ~stale /\ answer \in Immediate
    BY <2>2
  <2>3. CASE ~stale /\ answer \notin Immediate
    BY <2>3
  <2> QED
    BY <2>1, <2>2, <2>3
<1> QED
  BY <1>1, <1>2, <1>3

LEMMA RepliesTyped ==
  ASSUME AdapterOK, given \subseteq Results, NEW r, NEW answer, Replies(r, answer),
         UNCHANGED clearing
  PROVE  AdapterOK' /\ given' \subseteq Results
<1>1. CASE waits = r.token
  BY <1>1, ResolvedTyped DEF Replies
<1>2. CASE waits # r.token
  BY <1>2 DEF Replies, AdapterOK
<1> QED
  BY <1>1, <1>2

LEMMA TroubleTyped ==
  ASSUME troubles \in 0 .. MaxTroubles, Trouble
  PROVE  troubles' \in 0 .. MaxTroubles
BY IngressAssumption DEF Trouble

\* complete() keeps the types of the receipt.
LEMMA SettleTyped ==
  ASSUME ReceiptsOK, NEW r, NEW answer \in Results \cup {"none"}, Settle(r, answer),
         UNCHANGED moved, disowned' \in BOOLEAN
  PROVE  ReceiptsOK'
<1>1. /\ requests' = requests \ {r} /\ UNCHANGED <<progress, owner>>
      /\ \/ receipt' = "completed" /\ result' = answer /\ held' = FALSE
         \/ UNCHANGED <<receipt, result, held>>
  BY Zenon DEF Settle, Replies
<1> QED
  BY <1>1 DEF ReceiptsOK

\* Every step keeps the types.
LEMMA TypeOKKept ==
  ASSUME TypeOK, [Next]_vars
  PROVE  TypeOK'
<1> USE IngressAssumption DEF TypeOK,
  AdapterOK, ReceiptsOK, AnswersOK, ProcessOK, HistoryOK, Requests, Results, Immediate
<1>1. ASSUME Offer
      PROVE  TypeOK'
  BY <1>1 DEF Offer, adapter, receipts, answers, process, history
<1>2. ASSUME Ask
      PROVE  TypeOK'
  <2>1. AdapterOK'
    <3>1. CASE receipt = "completed" \/ held
      <4>1. \E answer : Resolved(answer) /\ UNCHANGED clearing
        BY <1>2, <3>1 DEF Ask
      <4> HIDE DEF AdapterOK
      <4> QED
        BY <4>1, ResolvedTyped
    <3>2. CASE ~(receipt = "completed" \/ held)
      BY <1>2, <3>2 DEF Ask
    <3> QED
      BY <3>1, <3>2
  <2>2. ReceiptsOK'
    <3>1. CASE receipt = "completed" \/ held
      BY <1>2, <3>1 DEF Ask, receipts
    <3>2. CASE ~(receipt = "completed" \/ held)
      <4>1. \A refused : Request(issued + 1, refused) \in Requests
        BY DEF Request
      <4>2. \E refused : requests' = requests \cup {Request(issued + 1, refused)}
        BY <1>2, <3>2 DEF Ask
      <4>3. requests' \subseteq Requests
        <5> HIDE DEF Requests
        <5> QED
          BY <4>1, <4>2
      <4>4. /\ receipt' = "claimed" /\ owner' = issued + 1 /\ held' = TRUE
            /\ moved' \in BOOLEAN /\ UNCHANGED <<result, progress, disowned>>
        BY <1>2, <3>2 DEF Ask
      <4> QED
        BY <4>3, <4>4
    <3> QED
      BY <3>1, <3>2
  <2>3. AnswersOK'
    BY <1>2 DEF Ask, Request, Resolved, Terminal, AttemptEnds, SendResponses, Immediate,
      adapter, receipts, answers, process, history
  <2>4. ProcessOK'
    BY <1>2 DEF Ask, Request, Resolved, Terminal, AttemptEnds, SendResponses, Immediate,
      adapter, receipts, answers, process, history
  <2>5. HistoryOK'
    <3>1. CASE receipt = "completed" \/ held
      <4>1. \E answer : Resolved(answer) /\ UNCHANGED clearing
        BY <1>2, <3>1 DEF Ask
      <4>2. given' \subseteq Results
        BY <4>1, ResolvedTyped
      <4>3. UNCHANGED <<issued, replied, answered, noticed, dropped, cleared, offers, troubles>>
        BY <1>2, <3>1 DEF Ask
      <4> QED
        BY <4>2, <4>3
    <3>2. CASE ~(receipt = "completed" \/ held)
      <4>1. /\ issued' = issued + 1
            /\ UNCHANGED <<given, replied, answered, noticed, dropped, cleared, offers,
              troubles>>
        BY <1>2, <3>2 DEF Ask
      <4> QED
        BY <4>1
    <3> QED
      BY <3>1, <3>2
  <2> HIDE DEF AdapterOK, ReceiptsOK, AnswersOK, ProcessOK, HistoryOK
  <2> QED
    BY <2>1, <2>2, <2>3, <2>4, <2>5
<1>3. ASSUME RetryResponses
      PROVE  TypeOK'
  BY <1>3 DEF RetryResponses, AttemptEnds, SendResponses, adapter, receipts, answers, process,
    history
<1>4. ASSUME ClearBegin
      PROVE  TypeOK'
  BY <1>4 DEF ClearBegin, adapter, receipts, answers, process, history
<1>5. ASSUME ClearEnd
      PROVE  TypeOK'
  <2>1. AdapterOK'
    BY <1>5 DEF ClearEnd, adapter, receipts, answers, process, history
  <2>2. ReceiptsOK'
    BY <1>5 DEF ClearEnd, adapter, receipts, answers, process, history
  <2>3. AnswersOK'
    BY <1>5 DEF ClearEnd, adapter, receipts, answers, process, history
  <2>4. ProcessOK'
    BY <1>5 DEF ClearEnd, adapter, receipts, answers, process, history
  <2>5. HistoryOK'
    BY <1>5 DEF ClearEnd, adapter, receipts, answers, process, history
  <2> HIDE DEF AdapterOK, ReceiptsOK, AnswersOK, ProcessOK, HistoryOK
  <2> QED
    BY <2>1, <2>2, <2>3, <2>4, <2>5
<1>6. ASSUME NEW ok \in BOOLEAN, ResponsesSent(ok)
      PROVE  TypeOK'
  <2>1. AdapterOK'
    BY <1>6 DEF ResponsesSent, AttemptEnds, adapter, receipts, answers, process, history
  <2>2. ReceiptsOK'
    BY <1>6 DEF ResponsesSent, AttemptEnds, adapter, receipts, answers, process, history
  <2>3. AnswersOK'
    BY <1>6 DEF ResponsesSent, AttemptEnds, adapter, receipts, answers, process, history
  <2>4. ProcessOK'
    BY <1>6 DEF ResponsesSent, AttemptEnds, adapter, receipts, answers, process, history
  <2>5. HistoryOK'
    BY <1>6 DEF ResponsesSent, AttemptEnds, adapter, receipts, answers, process, history
  <2> HIDE DEF AdapterOK, ReceiptsOK, AnswersOK, ProcessOK, HistoryOK
  <2> QED
    BY <2>1, <2>2, <2>3, <2>4, <2>5
<1>7. ASSUME NEW r \in requests, AnsweredAtOnce(r)
      PROVE  TypeOK'
  <2>1. AdapterOK'
    <3>1. \E answer : Replies(r, answer) /\ UNCHANGED clearing
      BY <1>7 DEF AnsweredAtOnce, Settle
    <3> HIDE DEF AdapterOK
    <3> QED
      BY <3>1, RepliesTyped
  <2>2. ReceiptsOK'
    <3>1. PICK answer \in AtOnce : Settle(r, answer)
      BY <1>7 DEF AnsweredAtOnce
    <3>2. answer \in Results
      BY DEF AtOnce
    <3>3. UNCHANGED moved /\ disowned' \in BOOLEAN
      BY <1>7 DEF AnsweredAtOnce
    <3> HIDE DEF ReceiptsOK, Results
    <3> QED
      BY <3>1, <3>2, <3>3, SettleTyped
  <2>3. AnswersOK'
    BY <1>7 DEF AnsweredAtOnce, Settle, Owned, Replies, Resolved, Terminal, AttemptEnds,
      SendResponses, AtOnce, Immediate, adapter, receipts, answers, process, history
  <2>4. ProcessOK'
    BY <1>7 DEF AnsweredAtOnce, Settle, Owned, Replies, Resolved, Terminal, AttemptEnds,
      SendResponses, AtOnce, Immediate, adapter, receipts, answers, process, history
  <2>5. HistoryOK'
    BY <1>7 DEF AnsweredAtOnce, Settle, Owned, Replies, Resolved, Terminal, AttemptEnds,
      SendResponses, AtOnce, Immediate, adapter, receipts, answers, process, history
  <2> HIDE DEF AdapterOK, ReceiptsOK, AnswersOK, ProcessOK, HistoryOK
  <2> QED
    BY <2>1, <2>2, <2>3, <2>4, <2>5
<1>8. ASSUME NEW r \in requests, LooksUp(r)
      PROVE  TypeOK'
  <2>1. AdapterOK'
    BY <1>8 DEF LooksUp, adapter, receipts, answers, process, history
  <2>2. ReceiptsOK'
    <3>1. PICK kind \in {"process_delivery", "hil_decision"} :
            requests' = (requests \ {r}) \cup {[r EXCEPT !.at = "ready", !.kind = kind]}
      <4> HIDE DEF TypeOK, AdapterOK, ReceiptsOK, AnswersOK, ProcessOK, HistoryOK, Requests,
        Results, Immediate
      <4> QED
        BY <1>8 DEF LooksUp
    <3>2. [r EXCEPT !.at = "ready", !.kind = kind] \in Requests
      <4>1. r \in Requests
        OBVIOUS
      <4> HIDE DEF TypeOK, AdapterOK, ReceiptsOK, AnswersOK, ProcessOK, HistoryOK, Results,
        Immediate
      <4> QED
        BY <4>1
    <3>3. UNCHANGED <<receipt, result, progress, owner, held, moved, disowned>>
      BY <1>8 DEF LooksUp
    <3> HIDE DEF Requests
    <3> QED
      BY <3>1, <3>2, <3>3
  <2>3. AnswersOK'
    BY <1>8 DEF LooksUp, adapter, receipts, answers, process, history
  <2>4. ProcessOK'
    BY <1>8 DEF LooksUp, adapter, receipts, answers, process, history
  <2>5. HistoryOK'
    BY <1>8 DEF LooksUp, adapter, receipts, answers, process, history
  <2> HIDE DEF AdapterOK, ReceiptsOK, AnswersOK, ProcessOK, HistoryOK
  <2> QED
    BY <2>1, <2>2, <2>3, <2>4, <2>5
<1>9. ASSUME NEW r \in requests, Checkpoint(r)
      PROVE  TypeOK'
  <2>1. AdapterOK'
    <3>1. CASE Owned(r)
      BY <1>9, <3>1 DEF Checkpoint
    <3>2. CASE ~Owned(r)
      <4> HIDE DEF AdapterOK
      <4> QED
        BY <1>9, <3>2, RepliesTyped DEF Checkpoint
    <3> QED
      BY <3>1, <3>2
  <2>2. ReceiptsOK'
    BY <1>9 DEF Checkpoint, Saved, Owned, Replies, Resolved, Terminal, AttemptEnds,
      SendResponses, Immediate, adapter, receipts, answers, process, history
  <2>3. AnswersOK'
    BY <1>9 DEF Checkpoint, Saved, Owned, Replies, Resolved, Terminal, AttemptEnds,
      SendResponses, Immediate, adapter, receipts, answers, process, history
  <2>4. ProcessOK'
    BY <1>9 DEF Checkpoint, Saved, Owned, Replies, Resolved, Terminal, AttemptEnds,
      SendResponses, Immediate, adapter, receipts, answers, process, history
  <2>5. HistoryOK'
    BY <1>9 DEF Checkpoint, Saved, Owned, Replies, Resolved, Terminal, AttemptEnds,
      SendResponses, Immediate, adapter, receipts, answers, process, history
  <2> HIDE DEF AdapterOK, ReceiptsOK, AnswersOK, ProcessOK, HistoryOK
  <2> QED
    BY <2>1, <2>2, <2>3, <2>4, <2>5
<1>10. ASSUME NEW r \in requests, ProcessDecides(r)
      PROVE  TypeOK'
  <2>1. AdapterOK'
    BY <1>10 DEF ProcessDecides, adapter, receipts, answers, process, history
  <2>2. ReceiptsOK'
    <3> DEFINE said == IF asked = 1 \/ r.replay THEN "reply" ELSE "refused"
               new == [r EXCEPT !.at = "back", !.answer = said]
    <3>1. new \in Requests
      OBVIOUS
    <3>2. /\ requests' = (requests \ {r}) \cup {new}
          /\ UNCHANGED <<receipt, result, progress, owner, held, moved, disowned>>
      BY <1>10 DEF ProcessDecides
    <3> HIDE DEF new, Requests
    <3> QED
      BY <3>1, <3>2
  <2>3. AnswersOK'
    BY <1>10 DEF ProcessDecides, adapter, receipts, answers, process, history
  <2>4. ProcessOK'
    BY <1>10 DEF ProcessDecides, adapter, receipts, answers, process, history
  <2>5. HistoryOK'
    BY <1>10 DEF ProcessDecides, adapter, receipts, answers, process, history
  <2> HIDE DEF AdapterOK, ReceiptsOK, AnswersOK, ProcessOK, HistoryOK
  <2> QED
    BY <2>1, <2>2, <2>3, <2>4, <2>5
<1>11. ASSUME NEW r \in requests, Delivered(r)
      PROVE  TypeOK'
  <2>1. AdapterOK'
    <3>1. \E answer : Replies(r, answer) /\ UNCHANGED clearing
      BY <1>11 DEF Delivered, Settle
    <3> HIDE DEF AdapterOK
    <3> QED
      BY <3>1, RepliesTyped
  <2>2. ReceiptsOK'
    <3> DEFINE answer == IF r.answer = "recorded" THEN "run" ELSE r.answer
    <3>1. answer \in Results \cup {"none"}
      OBVIOUS
    <3>2. Settle(r, answer) /\ UNCHANGED <<moved, disowned>>
      BY <1>11 DEF Delivered
    <3>3. disowned' \in BOOLEAN
      BY <3>2
    <3> HIDE DEF ReceiptsOK, Results, answer
    <3> QED
      BY <3>1, <3>2, <3>3, SettleTyped
  <2>3. AnswersOK'
    BY <1>11 DEF Delivered, Settle, Owned, Replies, Resolved, Terminal, AttemptEnds,
      SendResponses, Immediate, adapter, receipts, answers, process, history
  <2>4. ProcessOK'
    BY <1>11 DEF Delivered, Settle, Owned, Replies, Resolved, Terminal, AttemptEnds,
      SendResponses, Immediate, adapter, receipts, answers, process, history
  <2>5. HistoryOK'
    BY <1>11 DEF Delivered, Settle, Owned, Replies, Resolved, Terminal, AttemptEnds,
      SendResponses, Immediate, adapter, receipts, answers, process, history
  <2> HIDE DEF AdapterOK, ReceiptsOK, AnswersOK, ProcessOK, HistoryOK
  <2> QED
    BY <2>1, <2>2, <2>3, <2>4, <2>5
<1>12. ASSUME NEW r \in requests, RequestFails(r)
      PROVE  TypeOK'
  <2>1. AdapterOK'
    <3>1. \E answer : Replies(r, answer) /\ UNCHANGED clearing
      BY <1>12 DEF RequestFails
    <3> HIDE DEF AdapterOK
    <3> QED
      BY <3>1, RepliesTyped
  <2>2. ReceiptsOK'
    BY <1>12 DEF RequestFails, Abandoned, Owned, Trouble, Replies, Resolved, Terminal,
      AttemptEnds, SendResponses, Immediate, adapter, receipts, answers, process, history
  <2>3. AnswersOK'
    BY <1>12 DEF RequestFails, Abandoned, Owned, Trouble, Replies, Resolved, Terminal,
      AttemptEnds, SendResponses, Immediate, adapter, receipts, answers, process, history
  <2>4. ProcessOK'
    BY <1>12 DEF RequestFails, Abandoned, Owned, Trouble, Replies, Resolved, Terminal,
      AttemptEnds, SendResponses, Immediate, adapter, receipts, answers, process, history
  <2>5. HistoryOK'
    <3>1. given' \subseteq Results
      BY <1>12, RepliesTyped DEF RequestFails
    <3>2. troubles' \in 0 .. MaxTroubles
      BY <1>12, TroubleTyped DEF RequestFails
    <3> QED
      BY <1>12, <3>1, <3>2 DEF RequestFails, history
  <2> HIDE DEF AdapterOK, ReceiptsOK, AnswersOK, ProcessOK, HistoryOK
  <2> QED
    BY <2>1, <2>2, <2>3, <2>4, <2>5
<1>13. ASSUME NEW r \in requests, NEW answer \in {"run", "queued", "recorded", "refused"},
               ProcessAdmits(r, answer)
      PROVE  TypeOK'
  <2>1. AdapterOK'
    BY <1>13 DEF ProcessAdmits, RunId, adapter, receipts, answers, process, history
  <2>2. ReceiptsOK'
    <3> DEFINE new == [r EXCEPT !.at = "back", !.answer = answer]
    <3>1. new \in Requests
      OBVIOUS
    <3>2. /\ requests' = (requests \ {r}) \cup {new}
          /\ UNCHANGED <<receipt, result, progress, owner, held, moved, disowned>>
      BY <1>13 DEF ProcessAdmits
    <3> HIDE DEF new, Requests
    <3> QED
      BY <3>1, <3>2
  <2>3. AnswersOK'
    BY <1>13 DEF ProcessAdmits, RunId, adapter, receipts, answers, process, history
  <2>4. ProcessOK'
    BY <1>13 DEF ProcessAdmits, RunId, adapter, receipts, answers, process, history
  <2>5. HistoryOK'
    BY <1>13 DEF ProcessAdmits, RunId, adapter, receipts, answers, process, history
  <2> HIDE DEF AdapterOK, ReceiptsOK, AnswersOK, ProcessOK, HistoryOK
  <2> QED
    BY <2>1, <2>2, <2>3, <2>4, <2>5
<1>14. ASSUME LeaseExpires
      PROVE  TypeOK'
  <2>1. AdapterOK'
    BY <1>14 DEF LeaseExpires, Trouble, adapter, receipts, answers, process, history
  <2>2. ReceiptsOK'
    BY <1>14 DEF LeaseExpires, Trouble, adapter, receipts, answers, process, history
  <2>3. AnswersOK'
    BY <1>14 DEF LeaseExpires, Trouble, adapter, receipts, answers, process, history
  <2>4. ProcessOK'
    BY <1>14 DEF LeaseExpires, Trouble, adapter, receipts, answers, process, history
  <2>5. HistoryOK'
    BY <1>14 DEF LeaseExpires, Trouble, adapter, receipts, answers, process, history
  <2> HIDE DEF AdapterOK, ReceiptsOK, AnswersOK, ProcessOK, HistoryOK
  <2> QED
    BY <2>1, <2>2, <2>3, <2>4, <2>5
<1>15. ASSUME OtherDecides
      PROVE  TypeOK'
  BY <1>15 DEF OtherDecides, adapter, receipts, answers, process, history
<1>16. ASSUME RunFinishes
      PROVE  TypeOK'
  BY <1>16 DEF RunFinishes, adapter, receipts, answers, process, history
<1>17. ASSUME FinishArrives
      PROVE  TypeOK'
  BY <1>17 DEF FinishArrives, adapter, receipts, answers, process, history
<1>18. ASSUME NEW outcome \in Outcomes, SignalReturns(outcome)
      PROVE  TypeOK'
  <2>1. AdapterOK'
    BY <1>18 DEF SignalReturns, Attempted, Settles, Retries, Outcomes, adapter, receipts,
      answers, process, history
  <2>2. ReceiptsOK'
    BY <1>18 DEF SignalReturns, Attempted, Settles, Retries, Outcomes, adapter, receipts,
      answers, process, history
  <2>3. AnswersOK'
    <3>1. rows' \subseteq 2 .. MaxAttempts
      BY <1>18 DEF SignalReturns, Attempted, Retries
    <3>2. rows \subseteq rows' /\ rowAt' = rowAt
      BY <1>18 DEF SignalReturns, Attempted
    <3>3. route' \in BOOLEAN /\ notice' \in BOOLEAN
      BY <1>18 DEF SignalReturns, Attempted
    <3> QED
      BY <1>18, <3>1, <3>2, <3>3 DEF SignalReturns
  <2>4. ProcessOK'
    BY <1>18 DEF SignalReturns, Attempted, Settles, Retries, Outcomes, adapter, receipts,
      answers, process, history
  <2>5. HistoryOK'
    BY <1>18 DEF SignalReturns, Attempted, Settles, Retries, Outcomes, adapter, receipts,
      answers, process, history
  <2> HIDE DEF AdapterOK, ReceiptsOK, AnswersOK, ProcessOK, HistoryOK
  <2> QED
    BY <2>1, <2>2, <2>3, <2>4, <2>5
<1>19. ASSUME NEW outcome \in Outcomes, RowReturns(outcome)
      PROVE  TypeOK'
  BY <1>19 DEF RowReturns, Attempted, Settles, Retries, Outcomes, adapter, receipts, answers,
    process, history
<1>20. ASSUME NEW n \in rows, RowFires(n)
      PROVE  TypeOK'
  BY <1>20 DEF RowFires, AlarmFree, adapter, receipts, answers, process, history
<1>21. ASSUME SignalFails
      PROVE  TypeOK'
  <2>1. AdapterOK'
    BY <1>21 DEF SignalFails, Trouble, adapter, receipts, answers, process, history
  <2>2. ReceiptsOK'
    BY <1>21 DEF SignalFails, Trouble, adapter, receipts, answers, process, history
  <2>3. AnswersOK'
    BY <1>21 DEF SignalFails, Trouble, adapter, receipts, answers, process, history
  <2>4. ProcessOK'
    BY <1>21 DEF SignalFails, Trouble, adapter, receipts, answers, process, history
  <2>5. HistoryOK'
    <3>1. troubles' \in 0 .. MaxTroubles
      BY <1>21, TroubleTyped DEF SignalFails
    <3>2. answered' \in BOOLEAN
      BY <1>21 DEF SignalFails
    <3> QED
      BY <1>21, <3>1, <3>2 DEF SignalFails, history
  <2> HIDE DEF AdapterOK, ReceiptsOK, AnswersOK, ProcessOK, HistoryOK
  <2> QED
    BY <2>1, <2>2, <2>3, <2>4, <2>5
<1>22. ASSUME RowFails
      PROVE  TypeOK'
  <2>1. AdapterOK'
    BY <1>22 DEF RowFails, Trouble, adapter, receipts, answers, process, history
  <2>2. ReceiptsOK'
    BY <1>22 DEF RowFails, Trouble, adapter, receipts, answers, process, history
  <2>3. AnswersOK'
    BY <1>22 DEF RowFails, Trouble, adapter, receipts, answers, process, history
  <2>4. ProcessOK'
    BY <1>22 DEF RowFails, Trouble, adapter, receipts, answers, process, history
  <2>5. HistoryOK'
    <3>1. troubles' \in 0 .. MaxTroubles
      BY <1>22, TroubleTyped DEF RowFails
    <3>2. answered' \in BOOLEAN
      BY <1>22 DEF RowFails
    <3> QED
      BY <1>22, <3>1, <3>2 DEF RowFails, history
  <2> HIDE DEF AdapterOK, ReceiptsOK, AnswersOK, ProcessOK, HistoryOK
  <2> QED
    BY <2>1, <2>2, <2>3, <2>4, <2>5
<1>23. ASSUME NoticeFires
      PROVE  TypeOK'
  BY <1>23 DEF NoticeFires, AlarmFree, adapter, receipts, answers, process, history
<1>24. ASSUME NoticeReturns
      PROVE  TypeOK'
  <2>1. AdapterOK'
    BY <1>24 DEF NoticeReturns, adapter, receipts, answers, process, history
  <2>2. ReceiptsOK'
    BY <1>24 DEF NoticeReturns, adapter, receipts, answers, process, history
  <2>3. AnswersOK'
    BY <1>24 DEF NoticeReturns, adapter, receipts, answers, process, history
  <2>4. ProcessOK'
    BY <1>24 DEF NoticeReturns, adapter, receipts, answers, process, history
  <2>5. HistoryOK'
    BY <1>24 DEF NoticeReturns, adapter, receipts, answers, process, history
  <2> HIDE DEF AdapterOK, ReceiptsOK, AnswersOK, ProcessOK, HistoryOK
  <2> QED
    BY <2>1, <2>2, <2>3, <2>4, <2>5
<1>25. ASSUME NoticeFails
      PROVE  TypeOK'
  <2>1. AdapterOK'
    BY <1>25 DEF NoticeFails, Trouble, adapter, receipts, answers, process, history
  <2>2. ReceiptsOK'
    BY <1>25 DEF NoticeFails, Trouble, adapter, receipts, answers, process, history
  <2>3. AnswersOK'
    BY <1>25 DEF NoticeFails, Trouble, adapter, receipts, answers, process, history
  <2>4. ProcessOK'
    BY <1>25 DEF NoticeFails, Trouble, adapter, receipts, answers, process, history
  <2>5. HistoryOK'
    <3>1. troubles' \in 0 .. MaxTroubles
      BY <1>25, TroubleTyped DEF NoticeFails
    <3>2. noticed' \in BOOLEAN
      BY <1>25 DEF NoticeFails
    <3> QED
      BY <1>25, <3>1, <3>2 DEF NoticeFails, history
  <2> HIDE DEF AdapterOK, ReceiptsOK, AnswersOK, ProcessOK, HistoryOK
  <2> QED
    BY <2>1, <2>2, <2>3, <2>4, <2>5
<1>26. ASSUME KernelRestarts
      PROVE  TypeOK'
  <2>1. AdapterOK'
    <3>1. CASE waits # 0
      <4> HIDE DEF AdapterOK
      <4> QED
        BY <1>26, <3>1, ResolvedTyped DEF KernelRestarts
    <3>2. CASE waits = 0
      BY <1>26, <3>2 DEF KernelRestarts
    <3> QED
      BY <3>1, <3>2
  <2>2. ReceiptsOK'
    BY <1>26 DEF KernelRestarts, Trouble, Resolved, Terminal, AttemptEnds, SendResponses,
      Immediate, adapter, receipts, answers, process, history
  <2>3. AnswersOK'
    BY <1>26 DEF KernelRestarts, Trouble, Resolved, Terminal, AttemptEnds, SendResponses,
      Immediate, adapter, receipts, answers, process, history
  <2>4. ProcessOK'
    BY <1>26 DEF KernelRestarts, Trouble, Resolved, Terminal, AttemptEnds, SendResponses,
      Immediate, adapter, receipts, answers, process, history
  <2>5. HistoryOK'
    <3>1. given' \subseteq Results
      BY <1>26, ResolvedTyped DEF KernelRestarts
    <3>2. troubles' \in 0 .. MaxTroubles
      BY <1>26, TroubleTyped DEF KernelRestarts
    <3> QED
      BY <1>26, <3>1, <3>2 DEF KernelRestarts, history
  <2> HIDE DEF AdapterOK, ReceiptsOK, AnswersOK, ProcessOK, HistoryOK
  <2> QED
    BY <2>1, <2>2, <2>3, <2>4, <2>5
<1>27. ASSUME AdapterRestarts
      PROVE  TypeOK'
  <2>1. AdapterOK'
    BY <1>27 DEF AdapterRestarts, Trouble, adapter, receipts, answers, process, history
  <2>2. ReceiptsOK'
    BY <1>27 DEF AdapterRestarts, Trouble, adapter, receipts, answers, process, history
  <2>3. AnswersOK'
    BY <1>27 DEF AdapterRestarts, Trouble, adapter, receipts, answers, process, history
  <2>4. ProcessOK'
    BY <1>27 DEF AdapterRestarts, Trouble, adapter, receipts, answers, process, history
  <2>5. HistoryOK'
    BY <1>27 DEF AdapterRestarts, Trouble, adapter, receipts, answers, process, history
  <2> HIDE DEF AdapterOK, ReceiptsOK, AnswersOK, ProcessOK, HistoryOK
  <2> QED
    BY <2>1, <2>2, <2>3, <2>4, <2>5
<1>28. ASSUME NEW r \in requests, Disowns(r)
      PROVE  TypeOK'
  <2>1. AdapterOK'
    <3>1. \E answer : Replies(r, answer) /\ UNCHANGED clearing
      BY <1>28 DEF Disowns, Settle
    <3> HIDE DEF AdapterOK
    <3> QED
      BY <3>1, RepliesTyped
  <2>2. ReceiptsOK'
    <3>1. PICK answer \in AtOnce : Settle(r, answer)
      BY <1>28 DEF Disowns
    <3>2. answer \in Results
      BY DEF AtOnce
    <3>3. UNCHANGED moved /\ disowned' \in BOOLEAN
      BY <1>28 DEF Disowns
    <3> HIDE DEF ReceiptsOK, Results
    <3> QED
      BY <3>1, <3>2, <3>3, SettleTyped
  <2>3. AnswersOK'
    BY <1>28 DEF Disowns, answers
  <2>4. ProcessOK'
    BY <1>28 DEF Disowns, process
  <2>5. HistoryOK'
    <3>1. given' \subseteq Results
      <4>1. \E answer : Replies(r, answer) /\ UNCHANGED clearing
        BY <1>28 DEF Disowns, Settle
      <4> HIDE DEF AdapterOK, Results
      <4> QED
        BY <4>1, RepliesTyped
    <3> QED
      BY <1>28, <3>1 DEF Disowns
  <2> HIDE DEF AdapterOK, ReceiptsOK, AnswersOK, ProcessOK, HistoryOK
  <2> QED
    BY <2>1, <2>2, <2>3, <2>4, <2>5
<1>29. ASSUME LinkMoves
      PROVE  TypeOK'
  <2>1. troubles' \in 0 .. MaxTroubles
    BY <1>29, TroubleTyped DEF LinkMoves
  <2> QED
    BY <1>29, <2>1 DEF LinkMoves, adapter, answers, process, history
<1>30. ASSUME UNCHANGED vars
      PROVE  TypeOK'
  BY <1>30 DEF vars, adapter, receipts, answers, process, history
<1> HIDE DEF TypeOK, AdapterOK, ReceiptsOK, AnswersOK, ProcessOK, HistoryOK, Requests, Results,
  Immediate
<1> QED
  BY <1>1, <1>2, <1>3, <1>4, <1>5, <1>6, <1>7, <1>8, <1>9, <1>10, <1>11, <1>12, <1>13, <1>14,
    <1>15, <1>16, <1>17, <1>18, <1>19, <1>20, <1>21, <1>22, <1>23, <1>24, <1>25, <1>26, <1>27,
    <1>28, <1>29, <1>30 DEF Next

\* A claim takes a token that nothing else has.
LEMMA TokensKept ==
  ASSUME TypeOK, Tokens, [Next]_vars
  PROVE  Tokens'
<1> USE DEF TypeOK, Tokens,
  AdapterOK, ReceiptsOK, AnswersOK, ProcessOK, HistoryOK, Requests, Results, Immediate
<1>1. ASSUME Offer
      PROVE  Tokens'
  BY <1>1 DEF Offer, adapter, receipts, answers, process, history
<1>2. ASSUME Ask
      PROVE  Tokens'
  <2>1. CASE receipt = "completed" \/ held
    BY <1>2, <2>1 DEF Ask, Resolved, AttemptEnds, SendResponses, Terminal, receipts
  <2>2. CASE ~(receipt = "completed" \/ held)
    <3>0. PICK refused : requests' = requests \cup {Request(issued + 1, refused)}
      BY <1>2, <2>2 DEF Ask
    <3> DEFINE new == Request(issued + 1, refused)
    <3>1. /\ requests' = requests \cup {new} /\ new.at \in {"resolving", "disowned", "sent"}
          /\ new.token = issued + 1
      BY <3>0 DEF Request
    <3>2. issued' = issued + 1 /\ owner' = issued + 1 /\ attempt' = "asking"
      BY <1>2, <2>2 DEF Ask
    <3> HIDE DEF new
    <3> QED
      BY <3>1, <3>2
  <2> QED
    BY <2>1, <2>2
<1>3. ASSUME RetryResponses
      PROVE  Tokens'
  BY <1>3 DEF RetryResponses, AttemptEnds, SendResponses, adapter, receipts, answers, process,
    history
<1>4. ASSUME ClearBegin
      PROVE  Tokens'
  BY <1>4 DEF ClearBegin, adapter, receipts, answers, process, history
<1>5. ASSUME ClearEnd
      PROVE  Tokens'
  BY <1>5 DEF ClearEnd, adapter, receipts, answers, process, history
<1>6. ASSUME NEW ok \in BOOLEAN, ResponsesSent(ok)
      PROVE  Tokens'
  BY <1>6 DEF ResponsesSent, AttemptEnds, adapter, receipts, answers, process, history
<1>7. ASSUME NEW r \in requests, AnsweredAtOnce(r)
      PROVE  Tokens'
  BY <1>7 DEF AnsweredAtOnce, Settle, Owned, Replies, Resolved, Terminal, AttemptEnds,
    SendResponses, AtOnce, Immediate, adapter, receipts, answers, process, history
<1>8. ASSUME NEW r \in requests, LooksUp(r)
      PROVE  Tokens'
  <2>1. PICK kind \in {"process_delivery"} \cup {k \in {"hil_decision"} : asked = 1} :
          requests' = (requests \ {r}) \cup {[r EXCEPT !.at = "ready", !.kind = kind]}
    <3> HIDE DEF TypeOK, Tokens, AdapterOK, ReceiptsOK, AnswersOK, ProcessOK, HistoryOK, Requests,
      Results, Immediate
    <3> QED
      BY <1>8, Zenon DEF LooksUp
  <2> DEFINE new == [r EXCEPT !.at = "ready", !.kind = kind]
  <2>2. /\ requests' = (requests \ {r}) \cup {new}
        /\ new.token = r.token /\ new.at = "ready" /\ new.kind = kind /\ new.answer = r.answer
    BY <2>1
  <2>3. UNCHANGED <<issued, owner, waits, attempt>>
    BY <1>8 DEF LooksUp, adapter, receipts, answers, process, history
  <2> HIDE DEF new
  <2> QED
    BY <1>8, <2>1, <2>2, <2>3 DEF LooksUp, adapter, receipts, answers, process, history
<1>9. ASSUME NEW r \in requests, Checkpoint(r)
      PROVE  Tokens'
  <2> DEFINE new == [r EXCEPT !.at = "sent"]
  <2>1. CASE Owned(r)
    <3>1. /\ requests' = (requests \ {r}) \cup {new}
          /\ new.token = r.token /\ new.at = "sent" /\ new.kind = r.kind
      BY <1>9, <2>1 DEF Checkpoint
    <3>2. /\ progress' = r.kind /\ owner = r.token /\ r.at = "ready"
          /\ route' = (route \/ r.kind = "process_delivery")
          /\ UNCHANGED <<owner, issued, waits, attempt, answered, noticed, dropped>>
          /\ UNCHANGED <<signal, rows, rowAt, notice, noticeAt, asked, applied, run, runs,
            finish>>
      BY <1>9, <2>1 DEF Checkpoint, Saved, Owned, answers, process
    <3> HIDE DEF new
    <3> QED
      BY <2>1, <3>1, <3>2
  <2>2. CASE ~Owned(r)
    BY <1>9, <2>2 DEF Checkpoint, Saved, Owned, Replies, Resolved, Terminal, AttemptEnds,
      SendResponses, Immediate, adapter, receipts, answers, process, history
  <2> QED
    BY <2>1, <2>2
<1>10. ASSUME NEW r \in requests, ProcessDecides(r)
      PROVE  Tokens'
  <2> DEFINE new == [r EXCEPT !.at = "back", !.answer = IF asked = 1 \/ r.replay THEN "reply"
    ELSE "refused"]
  <2>1. /\ requests' = (requests \ {r}) \cup {new}
        /\ new.token = r.token /\ new.at = "back" /\ new.kind = r.kind /\ new.answer = (IF asked
          = 1 \/ r.replay THEN "reply" ELSE "refused")
    BY <1>10 DEF ProcessDecides, adapter, receipts, answers, process, history
  <2>2. UNCHANGED <<issued, owner, waits, attempt>>
    BY <1>10 DEF ProcessDecides, adapter, receipts, answers, process, history
  <2> HIDE DEF new
  <2> QED
    BY <1>10, <2>1, <2>2 DEF ProcessDecides, adapter, receipts, answers, process, history
<1>11. ASSUME NEW r \in requests, Delivered(r)
      PROVE  Tokens'
  BY <1>11 DEF Delivered, Settle, Owned, Replies, Resolved, Terminal, AttemptEnds,
    SendResponses, Immediate, adapter, receipts, answers, process, history
<1>12. ASSUME NEW r \in requests, RequestFails(r)
      PROVE  Tokens'
  BY <1>12 DEF RequestFails, Abandoned, Owned, Trouble, Replies, Resolved, Terminal,
    AttemptEnds, SendResponses, Immediate, adapter, receipts, answers, process, history
<1>13. ASSUME NEW r \in requests, NEW answer \in {"run", "queued", "recorded", "refused"},
               ProcessAdmits(r, answer)
      PROVE  Tokens'
  <2> DEFINE new == [r EXCEPT !.at = "back", !.answer = answer]
  <2>1. /\ requests' = (requests \ {r}) \cup {new}
        /\ new.token = r.token /\ new.at = "back" /\ new.kind = r.kind /\ new.answer = answer
    BY <1>13 DEF ProcessAdmits, RunId, adapter, receipts, answers, process, history
  <2>2. UNCHANGED <<issued, owner, waits, attempt>>
    BY <1>13 DEF ProcessAdmits, RunId, adapter, receipts, answers, process, history
  <2> HIDE DEF new
  <2> QED
    BY <1>13, <2>1, <2>2 DEF ProcessAdmits, RunId, adapter, receipts, answers, process, history
<1>14. ASSUME LeaseExpires
      PROVE  Tokens'
  BY <1>14 DEF LeaseExpires, Trouble, adapter, receipts, answers, process, history
<1>15. ASSUME OtherDecides
      PROVE  Tokens'
  BY <1>15 DEF OtherDecides, adapter, receipts, answers, process, history
<1>16. ASSUME RunFinishes
      PROVE  Tokens'
  BY <1>16 DEF RunFinishes, adapter, receipts, answers, process, history
<1>17. ASSUME FinishArrives
      PROVE  Tokens'
  BY <1>17 DEF FinishArrives, adapter, receipts, answers, process, history
<1>18. ASSUME NEW outcome \in Outcomes, SignalReturns(outcome)
      PROVE  Tokens'
  BY <1>18 DEF SignalReturns, Attempted, Settles, Retries, Outcomes, adapter, receipts, answers,
    process, history
<1>19. ASSUME NEW outcome \in Outcomes, RowReturns(outcome)
      PROVE  Tokens'
  BY <1>19 DEF RowReturns, Attempted, Settles, Retries, Outcomes, adapter, receipts, answers,
    process, history
<1>20. ASSUME NEW n \in rows, RowFires(n)
      PROVE  Tokens'
  BY <1>20 DEF RowFires, AlarmFree, adapter, receipts, answers, process, history
<1>21. ASSUME SignalFails
      PROVE  Tokens'
  BY <1>21 DEF SignalFails, Trouble, adapter, receipts, answers, process, history
<1>22. ASSUME RowFails
      PROVE  Tokens'
  BY <1>22 DEF RowFails, Trouble, adapter, receipts, answers, process, history
<1>23. ASSUME NoticeFires
      PROVE  Tokens'
  BY <1>23 DEF NoticeFires, AlarmFree, adapter, receipts, answers, process, history
<1>24. ASSUME NoticeReturns
      PROVE  Tokens'
  BY <1>24 DEF NoticeReturns, adapter, receipts, answers, process, history
<1>25. ASSUME NoticeFails
      PROVE  Tokens'
  BY <1>25 DEF NoticeFails, Trouble, adapter, receipts, answers, process, history
<1>26. ASSUME KernelRestarts
      PROVE  Tokens'
  BY <1>26 DEF KernelRestarts, Trouble, Resolved, Terminal, AttemptEnds, SendResponses,
    Immediate, adapter, receipts, answers, process, history
<1>27. ASSUME AdapterRestarts
      PROVE  Tokens'
  BY <1>27 DEF AdapterRestarts, Trouble, adapter, receipts, answers, process, history
<1>28. ASSUME NEW r \in requests, Disowns(r)
      PROVE  Tokens'
  BY <1>28 DEF Disowns, Settle, Owned, Replies, Resolved, Terminal, AttemptEnds,
    SendResponses, AtOnce, Immediate, adapter, receipts, answers, process, history
<1>29. ASSUME LinkMoves
      PROVE  Tokens'
  BY <1>29 DEF LinkMoves, Trouble, adapter, receipts, answers, process, history
<1>30. ASSUME UNCHANGED vars
      PROVE  Tokens'
  BY <1>30 DEF vars, adapter, receipts, answers, process, history
<1> QED
  BY <1>1, <1>2, <1>3, <1>4, <1>5, <1>6, <1>7, <1>8, <1>9, <1>10, <1>11, <1>12, <1>13, <1>14,
    <1>15, <1>16, <1>17, <1>18, <1>19, <1>20, <1>21, <1>22, <1>23, <1>24, <1>25, <1>26, <1>27,
    <1>28, <1>29, <1>30 DEF Next

\* Only the owner makes the checkpoint, and only once.
LEMMA PlannedKept ==
  ASSUME TypeOK, Tokens, Planned, [Next]_vars
  PROVE  Planned'
<1> USE DEF TypeOK, Tokens, Planned,
  AdapterOK, ReceiptsOK, AnswersOK, ProcessOK, HistoryOK, Requests, Results, Immediate
<1>1. ASSUME Offer
      PROVE  Planned'
  BY <1>1 DEF Offer, adapter, receipts, answers, process, history
<1>2. ASSUME Ask
      PROVE  Planned'
  BY <1>2 DEF Ask, Request, Resolved, Terminal, AttemptEnds, SendResponses, Immediate, adapter,
    receipts, answers, process, history
<1>3. ASSUME RetryResponses
      PROVE  Planned'
  BY <1>3 DEF RetryResponses, AttemptEnds, SendResponses, adapter, receipts, answers, process,
    history
<1>4. ASSUME ClearBegin
      PROVE  Planned'
  BY <1>4 DEF ClearBegin, adapter, receipts, answers, process, history
<1>5. ASSUME ClearEnd
      PROVE  Planned'
  BY <1>5 DEF ClearEnd, adapter, receipts, answers, process, history
<1>6. ASSUME NEW ok \in BOOLEAN, ResponsesSent(ok)
      PROVE  Planned'
  BY <1>6 DEF ResponsesSent, AttemptEnds, adapter, receipts, answers, process, history
<1>7. ASSUME NEW r \in requests, AnsweredAtOnce(r)
      PROVE  Planned'
  BY <1>7 DEF AnsweredAtOnce, Settle, Owned, Replies, Resolved, Terminal, AttemptEnds,
    SendResponses, AtOnce, Immediate, adapter, receipts, answers, process, history
<1>8. ASSUME NEW r \in requests, LooksUp(r)
      PROVE  Planned'
  BY <1>8 DEF LooksUp, adapter, receipts, answers, process, history
<1>9. ASSUME NEW r \in requests, Checkpoint(r)
      PROVE  Planned'
  <2> DEFINE new == [r EXCEPT !.at = "sent"]
  <2>1. CASE Owned(r)
    <3>1. /\ requests' = (requests \ {r}) \cup {new}
          /\ new.token = r.token /\ new.at = "sent" /\ new.kind = r.kind
      BY <1>9, <2>1 DEF Checkpoint
    <3>2. /\ progress' = r.kind /\ owner = r.token /\ r.at = "ready"
          /\ route' = (route \/ r.kind = "process_delivery")
          /\ UNCHANGED <<owner, issued, waits, attempt, answered, noticed, dropped>>
          /\ UNCHANGED <<signal, rows, rowAt, notice, noticeAt, asked, applied, run, runs,
            finish>>
      BY <1>9, <2>1 DEF Checkpoint, Saved, Owned, answers, process
    <3> HIDE DEF new
    <3> QED
      BY <2>1, <3>1, <3>2
  <2>2. CASE ~Owned(r)
    BY <1>9, <2>2 DEF Checkpoint, Saved, Owned, Replies, Resolved, Terminal, AttemptEnds,
      SendResponses, Immediate, adapter, receipts, answers, process, history
  <2> QED
    BY <2>1, <2>2
<1>10. ASSUME NEW r \in requests, ProcessDecides(r)
      PROVE  Planned'
  <2> DEFINE new == [r EXCEPT !.at = "back", !.answer = IF asked = 1 \/ r.replay THEN "reply"
    ELSE "refused"]
  <2>1. /\ requests' = (requests \ {r}) \cup {new}
        /\ new.token = r.token /\ new.at = "back" /\ new.kind = r.kind
    BY <1>10 DEF ProcessDecides
  <2>2. /\ r.at = "sent" /\ r.kind = "hil_decision"
        /\ UNCHANGED <<progress, owner, runs>>
    BY <1>10 DEF ProcessDecides
  <2>3. \/ asked = 1 /\ applied' = applied + 1 /\ asked' \in {0, 2}
        \/ UNCHANGED <<asked, applied>>
    BY <1>10 DEF ProcessDecides
  <2> HIDE DEF new
  <2>4. applied' <= 1 /\ (applied' > 0 => asked' # 1)
    BY <2>3
  <2>5. progress = "hil_decision" /\ runs = {}
    BY <2>2
  <2> QED
    BY <2>1, <2>2, <2>4, <2>5
<1>11. ASSUME NEW r \in requests, Delivered(r)
      PROVE  Planned'
  BY <1>11 DEF Delivered, Settle, Owned, Replies, Resolved, Terminal, AttemptEnds,
    SendResponses, Immediate, adapter, receipts, answers, process, history
<1>12. ASSUME NEW r \in requests, RequestFails(r)
      PROVE  Planned'
  BY <1>12 DEF RequestFails, Abandoned, Owned, Trouble, Replies, Resolved, Terminal,
    AttemptEnds, SendResponses, Immediate, adapter, receipts, answers, process, history
<1>13. ASSUME NEW r \in requests, NEW answer \in {"run", "queued", "recorded", "refused"},
               ProcessAdmits(r, answer)
      PROVE  Planned'
  BY <1>13 DEF ProcessAdmits, RunId, adapter, receipts, answers, process, history
<1>14. ASSUME LeaseExpires
      PROVE  Planned'
  BY <1>14 DEF LeaseExpires, Trouble, adapter, receipts, answers, process, history
<1>15. ASSUME OtherDecides
      PROVE  Planned'
  BY <1>15 DEF OtherDecides, adapter, receipts, answers, process, history
<1>16. ASSUME RunFinishes
      PROVE  Planned'
  BY <1>16 DEF RunFinishes, adapter, receipts, answers, process, history
<1>17. ASSUME FinishArrives
      PROVE  Planned'
  BY <1>17 DEF FinishArrives, adapter, receipts, answers, process, history
<1>18. ASSUME NEW outcome \in Outcomes, SignalReturns(outcome)
      PROVE  Planned'
  BY <1>18 DEF SignalReturns, Attempted, Settles, Retries, Outcomes, adapter, receipts, answers,
    process, history
<1>19. ASSUME NEW outcome \in Outcomes, RowReturns(outcome)
      PROVE  Planned'
  BY <1>19 DEF RowReturns, Attempted, Settles, Retries, Outcomes, adapter, receipts, answers,
    process, history
<1>20. ASSUME NEW n \in rows, RowFires(n)
      PROVE  Planned'
  BY <1>20 DEF RowFires, AlarmFree, adapter, receipts, answers, process, history
<1>21. ASSUME SignalFails
      PROVE  Planned'
  BY <1>21 DEF SignalFails, Trouble, adapter, receipts, answers, process, history
<1>22. ASSUME RowFails
      PROVE  Planned'
  BY <1>22 DEF RowFails, Trouble, adapter, receipts, answers, process, history
<1>23. ASSUME NoticeFires
      PROVE  Planned'
  BY <1>23 DEF NoticeFires, AlarmFree, adapter, receipts, answers, process, history
<1>24. ASSUME NoticeReturns
      PROVE  Planned'
  BY <1>24 DEF NoticeReturns, adapter, receipts, answers, process, history
<1>25. ASSUME NoticeFails
      PROVE  Planned'
  BY <1>25 DEF NoticeFails, Trouble, adapter, receipts, answers, process, history
<1>26. ASSUME KernelRestarts
      PROVE  Planned'
  BY <1>26 DEF KernelRestarts, Trouble, Resolved, Terminal, AttemptEnds, SendResponses,
    Immediate, adapter, receipts, answers, process, history
<1>27. ASSUME AdapterRestarts
      PROVE  Planned'
  BY <1>27 DEF AdapterRestarts, Trouble, adapter, receipts, answers, process, history
<1>28. ASSUME NEW r \in requests, Disowns(r)
      PROVE  Planned'
  BY <1>28 DEF Disowns, Settle, Owned, Replies, Resolved, Terminal, AttemptEnds,
    SendResponses, AtOnce, Immediate, adapter, receipts, answers, process, history
<1>29. ASSUME LinkMoves
      PROVE  Planned'
  BY <1>29 DEF LinkMoves, Trouble, adapter, receipts, answers, process, history
<1>30. ASSUME UNCHANGED vars
      PROVE  Planned'
  BY <1>30 DEF vars, adapter, receipts, answers, process, history
<1> QED
  BY <1>1, <1>2, <1>3, <1>4, <1>5, <1>6, <1>7, <1>8, <1>9, <1>10, <1>11, <1>12, <1>13, <1>14,
    <1>15, <1>16, <1>17, <1>18, <1>19, <1>20, <1>21, <1>22, <1>23, <1>24, <1>25, <1>26, <1>27,
    <1>28, <1>29, <1>30 DEF Next

\* An answer at once is given with the receipt that holds it.
LEMMA OnceSettles ==
  ASSUME TypeOK, Settled, NEW r \in requests, NEW answer \in AtOnce, Settle(r, answer),
         UNCHANGED <<clearing, cleared>>
  PROVE  Settled'
<1> USE DEF TypeOK, Settled, AdapterOK, ReceiptsOK, HistoryOK, Requests, Results, Immediate
<1>1. CASE Owned(r)
  BY <1>1 DEF Settle, Owned, Replies, Resolved, Terminal, AttemptEnds, SendResponses, AtOnce
<1>2. CASE ~Owned(r)
  <2>1. /\ UNCHANGED <<receipt, result>>
        /\ IF waits = r.token THEN Resolved("error")
           ELSE UNCHANGED <<inbox, attempt, stale, given>>
    BY <1>2, Zenon DEF Settle, Replies
  <2>2. CASE waits = r.token
    <3>1. /\ given' = given /\ stale' \in {stale, FALSE}
          /\ inbox' \in {"none", inbox} /\ attempt' = "idle"
      BY <2>1, <2>2 DEF Resolved, Terminal, AttemptEnds
    <3>2. given' # {} => receipt' = "completed" /\ given' \subseteq {result'}
      BY <2>1, <3>1
    <3>3. receipt' = "completed" => result' \in Results
      BY <2>1
    <3>4. attempt' = "sending" \/ inbox' = "responses" => receipt' = "completed"
      BY <2>1, <3>1
    <3>5. stale' \/ clearing' => cleared'
      BY <3>1
    <3> HIDE DEF TypeOK, Results
    <3> QED
      BY <3>2, <3>3, <3>4, <3>5
  <2>3. CASE waits # r.token
    BY <2>1, <2>3
  <2> QED
    BY <2>2, <2>3
<1> QED
  BY <1>1, <1>2

\* Only a completed receipt gives a result.
LEMMA SettledKept ==
  ASSUME TypeOK, Tokens, Settled, [Next]_vars
  PROVE  Settled'
<1> USE DEF TypeOK, Tokens, Settled,
  AdapterOK, ReceiptsOK, AnswersOK, ProcessOK, HistoryOK, Requests, Results, Immediate
<1>1. ASSUME Offer
      PROVE  Settled'
  BY <1>1 DEF Offer, adapter, receipts, answers, process, history
<1>2. ASSUME Ask
      PROVE  Settled'
  BY <1>2 DEF Ask, Request, Resolved, Terminal, AttemptEnds, SendResponses, Immediate, adapter,
    receipts, answers, process, history
<1>3. ASSUME RetryResponses
      PROVE  Settled'
  BY <1>3 DEF RetryResponses, AttemptEnds, SendResponses, adapter, receipts, answers, process,
    history
<1>4. ASSUME ClearBegin
      PROVE  Settled'
  BY <1>4 DEF ClearBegin, adapter, receipts, answers, process, history
<1>5. ASSUME ClearEnd
      PROVE  Settled'
  BY <1>5 DEF ClearEnd, adapter, receipts, answers, process, history
<1>6. ASSUME NEW ok \in BOOLEAN, ResponsesSent(ok)
      PROVE  Settled'
  BY <1>6 DEF ResponsesSent, AttemptEnds, adapter, receipts, answers, process, history
<1>7. ASSUME NEW r \in requests, AnsweredAtOnce(r)
      PROVE  Settled'
  <2>1. \E answer \in AtOnce : Settle(r, answer)
    BY <1>7 DEF AnsweredAtOnce
  <2>2. UNCHANGED <<clearing, cleared>>
    BY <1>7 DEF AnsweredAtOnce
  <2> HIDE DEF TypeOK, Settled, Results
  <2> QED
    BY <2>1, <2>2, OnceSettles
<1>8. ASSUME NEW r \in requests, LooksUp(r)
      PROVE  Settled'
  BY <1>8 DEF LooksUp, adapter, receipts, answers, process, history
<1>9. ASSUME NEW r \in requests, Checkpoint(r)
      PROVE  Settled'
  BY <1>9 DEF Checkpoint, Saved, Owned, Replies, Resolved, Terminal, AttemptEnds,
    SendResponses, Immediate, adapter, receipts, answers, process, history
<1>10. ASSUME NEW r \in requests, ProcessDecides(r)
      PROVE  Settled'
  BY <1>10 DEF ProcessDecides, adapter, receipts, answers, process, history
<1>11. ASSUME NEW r \in requests, Delivered(r)
      PROVE  Settled'
  <2>1. CASE Owned(r)
    BY <1>11, <2>1 DEF Delivered, Settle, Owned, Replies, Resolved, Terminal, AttemptEnds,
      SendResponses, Immediate, adapter, receipts, answers, process, history
  <2>2. CASE ~(Owned(r))
    BY <1>11, <2>2 DEF Delivered, Settle, Owned, Replies, Resolved, Terminal, AttemptEnds,
      SendResponses, Immediate, adapter, receipts, answers, process, history
  <2> QED
    BY <2>1, <2>2
<1>12. ASSUME NEW r \in requests, RequestFails(r)
      PROVE  Settled'
  BY <1>12 DEF RequestFails, Abandoned, Owned, Trouble, Replies, Resolved, Terminal,
    AttemptEnds, SendResponses, Immediate, adapter, receipts, answers, process, history
<1>13. ASSUME NEW r \in requests, NEW answer \in {"run", "queued", "recorded", "refused"},
               ProcessAdmits(r, answer)
      PROVE  Settled'
  BY <1>13 DEF ProcessAdmits, RunId, adapter, receipts, answers, process, history
<1>14. ASSUME LeaseExpires
      PROVE  Settled'
  BY <1>14 DEF LeaseExpires, Trouble, adapter, receipts, answers, process, history
<1>15. ASSUME OtherDecides
      PROVE  Settled'
  BY <1>15 DEF OtherDecides, adapter, receipts, answers, process, history
<1>16. ASSUME RunFinishes
      PROVE  Settled'
  BY <1>16 DEF RunFinishes, adapter, receipts, answers, process, history
<1>17. ASSUME FinishArrives
      PROVE  Settled'
  BY <1>17 DEF FinishArrives, adapter, receipts, answers, process, history
<1>18. ASSUME NEW outcome \in Outcomes, SignalReturns(outcome)
      PROVE  Settled'
  BY <1>18 DEF SignalReturns, Attempted, Settles, Retries, Outcomes, adapter, receipts, answers,
    process, history
<1>19. ASSUME NEW outcome \in Outcomes, RowReturns(outcome)
      PROVE  Settled'
  BY <1>19 DEF RowReturns, Attempted, Settles, Retries, Outcomes, adapter, receipts, answers,
    process, history
<1>20. ASSUME NEW n \in rows, RowFires(n)
      PROVE  Settled'
  BY <1>20 DEF RowFires, AlarmFree, adapter, receipts, answers, process, history
<1>21. ASSUME SignalFails
      PROVE  Settled'
  BY <1>21 DEF SignalFails, Trouble, adapter, receipts, answers, process, history
<1>22. ASSUME RowFails
      PROVE  Settled'
  BY <1>22 DEF RowFails, Trouble, adapter, receipts, answers, process, history
<1>23. ASSUME NoticeFires
      PROVE  Settled'
  BY <1>23 DEF NoticeFires, AlarmFree, adapter, receipts, answers, process, history
<1>24. ASSUME NoticeReturns
      PROVE  Settled'
  BY <1>24 DEF NoticeReturns, adapter, receipts, answers, process, history
<1>25. ASSUME NoticeFails
      PROVE  Settled'
  BY <1>25 DEF NoticeFails, Trouble, adapter, receipts, answers, process, history
<1>26. ASSUME KernelRestarts
      PROVE  Settled'
  BY <1>26 DEF KernelRestarts, Trouble, Resolved, Terminal, AttemptEnds, SendResponses,
    Immediate, adapter, receipts, answers, process, history
<1>27. ASSUME AdapterRestarts
      PROVE  Settled'
  BY <1>27 DEF AdapterRestarts, Trouble, adapter, receipts, answers, process, history
<1>28. ASSUME NEW r \in requests, Disowns(r)
      PROVE  Settled'
  <2>1. \E answer \in AtOnce : Settle(r, answer)
    BY <1>28 DEF Disowns
  <2>2. UNCHANGED <<clearing, cleared>>
    BY <1>28 DEF Disowns
  <2> HIDE DEF TypeOK, Settled, Results
  <2> QED
    BY <2>1, <2>2, OnceSettles
<1>29. ASSUME LinkMoves
      PROVE  Settled'
  BY <1>29 DEF LinkMoves, Trouble, adapter, receipts, answers, process, history
<1>30. ASSUME UNCHANGED vars
      PROVE  Settled'
  BY <1>30 DEF vars, adapter, receipts, answers, process, history
<1> QED
  BY <1>1, <1>2, <1>3, <1>4, <1>5, <1>6, <1>7, <1>8, <1>9, <1>10, <1>11, <1>12, <1>13, <1>14,
    <1>15, <1>16, <1>17, <1>18, <1>19, <1>20, <1>21, <1>22, <1>23, <1>24, <1>25, <1>26, <1>27,
    <1>28, <1>29, <1>30 DEF Next

\* The route outlives the run until its answer is settled.
LEMMA RoutedKept ==
  ASSUME TypeOK, Planned, Routed, [Next]_vars
  PROVE  Routed'
<1> USE DEF TypeOK, Planned, Routed,
  AdapterOK, ReceiptsOK, AnswersOK, ProcessOK, HistoryOK, Requests, Results, Immediate
<1>1. ASSUME Offer
      PROVE  Routed'
  BY <1>1 DEF Offer, adapter, receipts, answers, process, history
<1>2. ASSUME Ask
      PROVE  Routed'
  <2>1. CASE receipt = "completed" \/ held
    BY <1>2, <2>1 DEF Ask, Resolved, receipts, answers, process, history
  <2>2. CASE ~(receipt = "completed" \/ held)
    <3>0. PICK refused \in Refusals :
            /\ requests' = requests \cup {Request(issued + 1, refused)}
            /\ route' = (route \/ (progress = "process_delivery" /\ ~refused))
      BY <1>2, <2>2 DEF Ask
    <3> DEFINE new == Request(issued + 1, refused)
    <3>1. /\ requests' = requests \cup {new} /\ new.at \in {"resolving", "disowned", "sent"}
          /\ new.kind = progress /\ (new.at = "resolving" => new.kind = "none")
          /\ new.at = "sent" => ~refused
      BY <3>0 DEF Request
    <3>2. route' = (route \/ (progress = "process_delivery" /\ ~refused))
      BY <3>0
    <3> HIDE DEF new
    <3> QED
      BY <1>2, <2>2, <3>1, <3>2 DEF Ask, answers, process
  <2> QED
    BY <2>1, <2>2
<1>3. ASSUME RetryResponses
      PROVE  Routed'
  BY <1>3 DEF RetryResponses, AttemptEnds, SendResponses, adapter, receipts, answers, process,
    history
<1>4. ASSUME ClearBegin
      PROVE  Routed'
  BY <1>4 DEF ClearBegin, adapter, receipts, answers, process, history
<1>5. ASSUME ClearEnd
      PROVE  Routed'
  BY <1>5 DEF ClearEnd, adapter, receipts, answers, process, history
<1>6. ASSUME NEW ok \in BOOLEAN, ResponsesSent(ok)
      PROVE  Routed'
  BY <1>6 DEF ResponsesSent, AttemptEnds, adapter, receipts, answers, process, history
<1>7. ASSUME NEW r \in requests, AnsweredAtOnce(r)
      PROVE  Routed'
  BY <1>7 DEF AnsweredAtOnce, Settle, Owned, Replies, Resolved, Terminal, AttemptEnds,
    SendResponses, AtOnce, Immediate, adapter, receipts, answers, process, history
<1>8. ASSUME NEW r \in requests, LooksUp(r)
      PROVE  Routed'
  BY <1>8 DEF LooksUp, adapter, receipts, answers, process, history
<1>9. ASSUME NEW r \in requests, Checkpoint(r)
      PROVE  Routed'
  <2> DEFINE new == [r EXCEPT !.at = "sent"]
  <2>1. CASE Owned(r)
    <3>1. /\ requests' = (requests \ {r}) \cup {new}
          /\ new.token = r.token /\ new.at = "sent" /\ new.kind = r.kind
      BY <1>9, <2>1 DEF Checkpoint
    <3>2. /\ progress' = r.kind /\ owner = r.token /\ r.at = "ready"
          /\ route' = (route \/ r.kind = "process_delivery")
          /\ UNCHANGED <<owner, issued, waits, attempt, answered, noticed, dropped>>
          /\ UNCHANGED <<signal, rows, rowAt, notice, noticeAt, asked, applied, run, runs,
            finish>>
      BY <1>9, <2>1 DEF Checkpoint, Saved, Owned, answers, process
    <3> HIDE DEF new
    <3> QED
      BY <2>1, <3>1, <3>2
  <2>2. CASE ~Owned(r)
    BY <1>9, <2>2 DEF Checkpoint, Saved, Owned, Replies, Resolved, Terminal, AttemptEnds,
      SendResponses, Immediate, adapter, receipts, answers, process, history
  <2> QED
    BY <2>1, <2>2
<1>10. ASSUME NEW r \in requests, ProcessDecides(r)
      PROVE  Routed'
  BY <1>10 DEF ProcessDecides, adapter, receipts, answers, process, history
<1>11. ASSUME NEW r \in requests, Delivered(r)
      PROVE  Routed'
  BY <1>11 DEF Delivered, Settle, Owned, Replies, Resolved, Terminal, AttemptEnds,
    SendResponses, Immediate, adapter, receipts, answers, process, history
<1>12. ASSUME NEW r \in requests, RequestFails(r)
      PROVE  Routed'
  BY <1>12 DEF RequestFails, Abandoned, Owned, Trouble, Replies, Resolved, Terminal,
    AttemptEnds, SendResponses, Immediate, adapter, receipts, answers, process, history
<1>13. ASSUME NEW r \in requests, NEW answer \in {"run", "queued", "recorded", "refused"},
               ProcessAdmits(r, answer)
      PROVE  Routed'
  <2> DEFINE new == [r EXCEPT !.at = "back", !.answer = answer]
  <2>1. /\ requests' = (requests \ {r}) \cup {new}
        /\ new.at = "back" /\ new.kind = "process_delivery" /\ new.answer = answer
        /\ r \in Requests
    BY <1>13 DEF ProcessAdmits
  <2>2. UNCHANGED <<route, signal, rows, rowAt, notice, noticeAt, answered, noticed, dropped>>
    BY <1>13 DEF ProcessAdmits, answers, history
  <2> HIDE DEF new
  <2>3. CASE /\ 1 \in runs /\ UNCHANGED process
             /\ answer \in (IF run = "finished" THEN {"recorded"} ELSE {"run", "queued"})
    BY <2>1, <2>2, <2>3 DEF process
  <2>4. CASE /\ 1 \notin runs /\ run # "refused" /\ answer \in {"run", "queued"}
             /\ runs' = runs \cup {1} /\ run' = "admitted" /\ UNCHANGED finish
    <3>1. runs = {} /\ run = "none" /\ finish = "none"
      BY <2>4
    <3>2. r.at = "sent" /\ r.kind = "process_delivery" /\ route
      BY <1>13, <3>1 DEF ProcessAdmits
    <3> QED
      BY <2>1, <2>2, <2>4, <3>1, <3>2
  <2>5. CASE /\ runs = {} /\ answer = "refused" /\ run' = "refused"
             /\ UNCHANGED <<runs, finish>>
    BY <2>1, <2>2, <2>5
  <2> QED
    BY <1>13, <2>3, <2>4, <2>5 DEF ProcessAdmits, RunId
<1>14. ASSUME LeaseExpires
      PROVE  Routed'
  BY <1>14 DEF LeaseExpires, Trouble, adapter, receipts, answers, process, history
<1>15. ASSUME OtherDecides
      PROVE  Routed'
  BY <1>15 DEF OtherDecides, adapter, receipts, answers, process, history
<1>16. ASSUME RunFinishes
      PROVE  Routed'
  BY <1>16 DEF RunFinishes, adapter, receipts, answers, process, history
<1>17. ASSUME FinishArrives
      PROVE  Routed'
  BY <1>17 DEF FinishArrives, adapter, receipts, answers, process, history
<1>18. ASSUME NEW outcome \in Outcomes, SignalReturns(outcome)
      PROVE  Routed'
  BY <1>18 DEF SignalReturns, Attempted, Settles, Retries, Outcomes, adapter, receipts, answers,
    process, history
<1>19. ASSUME NEW outcome \in Outcomes, RowReturns(outcome)
      PROVE  Routed'
  BY <1>19 DEF RowReturns, Attempted, Settles, Retries, Outcomes, adapter, receipts, answers,
    process, history
<1>20. ASSUME NEW n \in rows, RowFires(n)
      PROVE  Routed'
  BY <1>20 DEF RowFires, AlarmFree, adapter, receipts, answers, process, history
<1>21. ASSUME SignalFails
      PROVE  Routed'
  <2>1. CASE answered' = answered
    BY <1>21, <2>1 DEF SignalFails, Trouble, adapter, receipts, answers, process, history
  <2>2. CASE answered' = TRUE
    BY <1>21, <2>2 DEF SignalFails, Trouble, adapter, receipts, answers, process, history
  <2> QED
    BY <1>21, <2>1, <2>2 DEF SignalFails
<1>22. ASSUME RowFails
      PROVE  Routed'
  <2>1. CASE answered' = answered
    BY <1>22, <2>1 DEF RowFails, Trouble, adapter, receipts, answers, process, history
  <2>2. CASE answered' = TRUE
    BY <1>22, <2>2 DEF RowFails, Trouble, adapter, receipts, answers, process, history
  <2> QED
    BY <1>22, <2>1, <2>2 DEF RowFails
<1>23. ASSUME NoticeFires
      PROVE  Routed'
  BY <1>23 DEF NoticeFires, AlarmFree, adapter, receipts, answers, process, history
<1>24. ASSUME NoticeReturns
      PROVE  Routed'
  BY <1>24 DEF NoticeReturns, adapter, receipts, answers, process, history
<1>25. ASSUME NoticeFails
      PROVE  Routed'
  <2>1. CASE noticed' = noticed
    BY <1>25, <2>1 DEF NoticeFails, Trouble, adapter, receipts, answers, process, history
  <2>2. CASE noticed' = TRUE
    BY <1>25, <2>2 DEF NoticeFails, Trouble, adapter, receipts, answers, process, history
  <2> QED
    BY <1>25, <2>1, <2>2 DEF NoticeFails
<1>26. ASSUME KernelRestarts
      PROVE  Routed'
  BY <1>26 DEF KernelRestarts, Trouble, Resolved, Terminal, AttemptEnds, SendResponses,
    Immediate, adapter, receipts, answers, process, history
<1>27. ASSUME AdapterRestarts
      PROVE  Routed'
  BY <1>27 DEF AdapterRestarts, Trouble, adapter, receipts, answers, process, history
<1>28. ASSUME NEW r \in requests, Disowns(r)
      PROVE  Routed'
  BY <1>28 DEF Disowns, Settle, Owned, Replies, Resolved, Terminal, AttemptEnds,
    SendResponses, AtOnce, Immediate, adapter, receipts, answers, process, history
<1>29. ASSUME LinkMoves
      PROVE  Routed'
  BY <1>29 DEF LinkMoves, Trouble, adapter, receipts, answers, process, history
<1>30. ASSUME UNCHANGED vars
      PROVE  Routed'
  BY <1>30 DEF vars, adapter, receipts, answers, process, history
<1> QED
  BY <1>1, <1>2, <1>3, <1>4, <1>5, <1>6, <1>7, <1>8, <1>9, <1>10, <1>11, <1>12, <1>13, <1>14,
    <1>15, <1>16, <1>17, <1>18, <1>19, <1>20, <1>21, <1>22, <1>23, <1>24, <1>25, <1>26, <1>27,
    <1>28, <1>29, <1>30 DEF Next

\* The record goes when the receipt is completed.
LEMMA HandedOverKept ==
  ASSUME TypeOK, Settled, HandedOver, [Next]_vars
  PROVE  HandedOver'
<1> USE DEF TypeOK, Settled, HandedOver,
  AdapterOK, ReceiptsOK, AnswersOK, ProcessOK, HistoryOK, Requests, Results, Immediate
<1>1. ASSUME Offer
      PROVE  HandedOver'
  BY <1>1 DEF Offer, adapter, receipts, answers, process, history
<1>2. ASSUME Ask
      PROVE  HandedOver'
  BY <1>2 DEF Ask, Request, Resolved, Terminal, AttemptEnds, SendResponses, Immediate, adapter,
    receipts, answers, process, history
<1>3. ASSUME RetryResponses
      PROVE  HandedOver'
  BY <1>3 DEF RetryResponses, AttemptEnds, SendResponses, adapter, receipts, answers, process,
    history
<1>4. ASSUME ClearBegin
      PROVE  HandedOver'
  BY <1>4 DEF ClearBegin, adapter, receipts, answers, process, history
<1>5. ASSUME ClearEnd
      PROVE  HandedOver'
  BY <1>5 DEF ClearEnd, adapter, receipts, answers, process, history
<1>6. ASSUME NEW ok \in BOOLEAN, ResponsesSent(ok)
      PROVE  HandedOver'
  BY <1>6 DEF ResponsesSent, AttemptEnds, adapter, receipts, answers, process, history
<1>7. ASSUME NEW r \in requests, AnsweredAtOnce(r)
      PROVE  HandedOver'
  BY <1>7 DEF AnsweredAtOnce, Settle, Owned, Replies, Resolved, Terminal, AttemptEnds,
    SendResponses, AtOnce, Immediate, adapter, receipts, answers, process, history
<1>8. ASSUME NEW r \in requests, LooksUp(r)
      PROVE  HandedOver'
  BY <1>8 DEF LooksUp, adapter, receipts, answers, process, history
<1>9. ASSUME NEW r \in requests, Checkpoint(r)
      PROVE  HandedOver'
  BY <1>9 DEF Checkpoint, Saved, Owned, Replies, Resolved, Terminal, AttemptEnds,
    SendResponses, Immediate, adapter, receipts, answers, process, history
<1>10. ASSUME NEW r \in requests, ProcessDecides(r)
      PROVE  HandedOver'
  BY <1>10 DEF ProcessDecides, adapter, receipts, answers, process, history
<1>11. ASSUME NEW r \in requests, Delivered(r)
      PROVE  HandedOver'
  BY <1>11 DEF Delivered, Settle, Owned, Replies, Resolved, Terminal, AttemptEnds,
    SendResponses, Immediate, adapter, receipts, answers, process, history
<1>12. ASSUME NEW r \in requests, RequestFails(r)
      PROVE  HandedOver'
  BY <1>12 DEF RequestFails, Abandoned, Owned, Trouble, Replies, Resolved, Terminal,
    AttemptEnds, SendResponses, Immediate, adapter, receipts, answers, process, history
<1>13. ASSUME NEW r \in requests, NEW answer \in {"run", "queued", "recorded", "refused"},
               ProcessAdmits(r, answer)
      PROVE  HandedOver'
  BY <1>13 DEF ProcessAdmits, RunId, adapter, receipts, answers, process, history
<1>14. ASSUME LeaseExpires
      PROVE  HandedOver'
  BY <1>14 DEF LeaseExpires, Trouble, adapter, receipts, answers, process, history
<1>15. ASSUME OtherDecides
      PROVE  HandedOver'
  BY <1>15 DEF OtherDecides, adapter, receipts, answers, process, history
<1>16. ASSUME RunFinishes
      PROVE  HandedOver'
  BY <1>16 DEF RunFinishes, adapter, receipts, answers, process, history
<1>17. ASSUME FinishArrives
      PROVE  HandedOver'
  BY <1>17 DEF FinishArrives, adapter, receipts, answers, process, history
<1>18. ASSUME NEW outcome \in Outcomes, SignalReturns(outcome)
      PROVE  HandedOver'
  BY <1>18 DEF SignalReturns, Attempted, Settles, Retries, Outcomes, adapter, receipts, answers,
    process, history
<1>19. ASSUME NEW outcome \in Outcomes, RowReturns(outcome)
      PROVE  HandedOver'
  BY <1>19 DEF RowReturns, Attempted, Settles, Retries, Outcomes, adapter, receipts, answers,
    process, history
<1>20. ASSUME NEW n \in rows, RowFires(n)
      PROVE  HandedOver'
  BY <1>20 DEF RowFires, AlarmFree, adapter, receipts, answers, process, history
<1>21. ASSUME SignalFails
      PROVE  HandedOver'
  BY <1>21 DEF SignalFails, Trouble, adapter, receipts, answers, process, history
<1>22. ASSUME RowFails
      PROVE  HandedOver'
  BY <1>22 DEF RowFails, Trouble, adapter, receipts, answers, process, history
<1>23. ASSUME NoticeFires
      PROVE  HandedOver'
  BY <1>23 DEF NoticeFires, AlarmFree, adapter, receipts, answers, process, history
<1>24. ASSUME NoticeReturns
      PROVE  HandedOver'
  BY <1>24 DEF NoticeReturns, adapter, receipts, answers, process, history
<1>25. ASSUME NoticeFails
      PROVE  HandedOver'
  BY <1>25 DEF NoticeFails, Trouble, adapter, receipts, answers, process, history
<1>26. ASSUME KernelRestarts
      PROVE  HandedOver'
  BY <1>26 DEF KernelRestarts, Trouble, Resolved, Terminal, AttemptEnds, SendResponses,
    Immediate, adapter, receipts, answers, process, history
<1>27. ASSUME AdapterRestarts
      PROVE  HandedOver'
  BY <1>27 DEF AdapterRestarts, Trouble, adapter, receipts, answers, process, history
<1>28. ASSUME NEW r \in requests, Disowns(r)
      PROVE  HandedOver'
  BY <1>28 DEF Disowns, Settle, Owned, Replies, Resolved, Terminal, AttemptEnds,
    SendResponses, AtOnce, Immediate, adapter, receipts, answers, process, history
<1>29. ASSUME LinkMoves
      PROVE  HandedOver'
  BY <1>29 DEF LinkMoves, Trouble, adapter, receipts, answers, process, history
<1>30. ASSUME UNCHANGED vars
      PROVE  HandedOver'
  BY <1>30 DEF vars, adapter, receipts, answers, process, history
<1> QED
  BY <1>1, <1>2, <1>3, <1>4, <1>5, <1>6, <1>7, <1>8, <1>9, <1>10, <1>11, <1>12, <1>13, <1>14,
    <1>15, <1>16, <1>17, <1>18, <1>19, <1>20, <1>21, <1>22, <1>23, <1>24, <1>25, <1>26, <1>27,
    <1>28, <1>29, <1>30 DEF Next

\* Whatever acknowledges the finish leaves the answer pursued.
LEMMA AnswerKeptKept ==
  ASSUME TypeOK, Planned, Routed, AnswerKept, [Next]_vars
  PROVE  AnswerKept'
<1> USE DEF TypeOK, Planned, Routed, AnswerKept,
  AdapterOK, ReceiptsOK, AnswersOK, ProcessOK, HistoryOK, Requests, Results, Immediate
<1>1. ASSUME Offer
      PROVE  AnswerKept'
  BY <1>1 DEF Offer, adapter, receipts, answers, process, history
<1>2. ASSUME Ask
      PROVE  AnswerKept'
  BY <1>2 DEF Ask, Request, Resolved, Terminal, AttemptEnds, SendResponses, Immediate, adapter,
    receipts, answers, process, history
<1>3. ASSUME RetryResponses
      PROVE  AnswerKept'
  BY <1>3 DEF RetryResponses, AttemptEnds, SendResponses, adapter, receipts, answers, process,
    history
<1>4. ASSUME ClearBegin
      PROVE  AnswerKept'
  BY <1>4 DEF ClearBegin, adapter, receipts, answers, process, history
<1>5. ASSUME ClearEnd
      PROVE  AnswerKept'
  BY <1>5 DEF ClearEnd, adapter, receipts, answers, process, history
<1>6. ASSUME NEW ok \in BOOLEAN, ResponsesSent(ok)
      PROVE  AnswerKept'
  BY <1>6 DEF ResponsesSent, AttemptEnds, adapter, receipts, answers, process, history
<1>7. ASSUME NEW r \in requests, AnsweredAtOnce(r)
      PROVE  AnswerKept'
  BY <1>7 DEF AnsweredAtOnce, Settle, Owned, Replies, Resolved, Terminal, AttemptEnds,
    SendResponses, AtOnce, Immediate, adapter, receipts, answers, process, history
<1>8. ASSUME NEW r \in requests, LooksUp(r)
      PROVE  AnswerKept'
  BY <1>8 DEF LooksUp, adapter, receipts, answers, process, history
<1>9. ASSUME NEW r \in requests, Checkpoint(r)
      PROVE  AnswerKept'
  BY <1>9 DEF Checkpoint, Saved, Owned, Replies, Resolved, Terminal, AttemptEnds,
    SendResponses, Immediate, adapter, receipts, answers, process, history
<1>10. ASSUME NEW r \in requests, ProcessDecides(r)
      PROVE  AnswerKept'
  BY <1>10 DEF ProcessDecides, adapter, receipts, answers, process, history
<1>11. ASSUME NEW r \in requests, Delivered(r)
      PROVE  AnswerKept'
  BY <1>11 DEF Delivered, Settle, Owned, Replies, Resolved, Terminal, AttemptEnds,
    SendResponses, Immediate, adapter, receipts, answers, process, history
<1>12. ASSUME NEW r \in requests, RequestFails(r)
      PROVE  AnswerKept'
  BY <1>12 DEF RequestFails, Abandoned, Owned, Trouble, Replies, Resolved, Terminal,
    AttemptEnds, SendResponses, Immediate, adapter, receipts, answers, process, history
<1>13. ASSUME NEW r \in requests, NEW answer \in {"run", "queued", "recorded", "refused"},
               ProcessAdmits(r, answer)
      PROVE  AnswerKept'
  BY <1>13 DEF ProcessAdmits, RunId, adapter, receipts, answers, process, history
<1>14. ASSUME LeaseExpires
      PROVE  AnswerKept'
  BY <1>14 DEF LeaseExpires, Trouble, adapter, receipts, answers, process, history
<1>15. ASSUME OtherDecides
      PROVE  AnswerKept'
  BY <1>15 DEF OtherDecides, adapter, receipts, answers, process, history
<1>16. ASSUME RunFinishes
      PROVE  AnswerKept'
  BY <1>16 DEF RunFinishes, adapter, receipts, answers, process, history
<1>17. ASSUME FinishArrives
      PROVE  AnswerKept'
  BY <1>17 DEF FinishArrives, adapter, receipts, answers, process, history
<1>18. ASSUME NEW outcome \in Outcomes, SignalReturns(outcome)
      PROVE  AnswerKept'
  BY <1>18 DEF SignalReturns, Attempted, Settles, Retries, Outcomes, adapter, receipts, answers,
    process, history
<1>19. ASSUME NEW outcome \in Outcomes, RowReturns(outcome)
      PROVE  AnswerKept'
  BY <1>19 DEF RowReturns, Attempted, Settles, Retries, Outcomes, adapter, receipts, answers,
    process, history
<1>20. ASSUME NEW n \in rows, RowFires(n)
      PROVE  AnswerKept'
  BY <1>20 DEF RowFires, AlarmFree, adapter, receipts, answers, process, history
<1>21. ASSUME SignalFails
      PROVE  AnswerKept'
  BY <1>21 DEF SignalFails, Trouble, adapter, receipts, answers, process, history
<1>22. ASSUME RowFails
      PROVE  AnswerKept'
  BY <1>22 DEF RowFails, Trouble, adapter, receipts, answers, process, history
<1>23. ASSUME NoticeFires
      PROVE  AnswerKept'
  BY <1>23 DEF NoticeFires, AlarmFree, adapter, receipts, answers, process, history
<1>24. ASSUME NoticeReturns
      PROVE  AnswerKept'
  BY <1>24 DEF NoticeReturns, adapter, receipts, answers, process, history
<1>25. ASSUME NoticeFails
      PROVE  AnswerKept'
  <2>1. CASE noticed' = noticed
    BY <1>25, <2>1 DEF NoticeFails, Trouble, adapter, receipts, answers, process, history
  <2>2. CASE noticed' = TRUE
    BY <1>25, <2>2 DEF NoticeFails, Trouble, adapter, receipts, answers, process, history
  <2> QED
    BY <1>25, <2>1, <2>2 DEF NoticeFails
<1>26. ASSUME KernelRestarts
      PROVE  AnswerKept'
  BY <1>26 DEF KernelRestarts, Trouble, Resolved, Terminal, AttemptEnds, SendResponses,
    Immediate, adapter, receipts, answers, process, history
<1>27. ASSUME AdapterRestarts
      PROVE  AnswerKept'
  BY <1>27 DEF AdapterRestarts, Trouble, adapter, receipts, answers, process, history
<1>28. ASSUME NEW r \in requests, Disowns(r)
      PROVE  AnswerKept'
  BY <1>28 DEF Disowns, Settle, Owned, Replies, Resolved, Terminal, AttemptEnds,
    SendResponses, AtOnce, Immediate, adapter, receipts, answers, process, history
<1>29. ASSUME LinkMoves
      PROVE  AnswerKept'
  BY <1>29 DEF LinkMoves, Trouble, adapter, receipts, answers, process, history
<1>30. ASSUME UNCHANGED vars
      PROVE  AnswerKept'
  BY <1>30 DEF vars, adapter, receipts, answers, process, history
<1> QED
  BY <1>1, <1>2, <1>3, <1>4, <1>5, <1>6, <1>7, <1>8, <1>9, <1>10, <1>11, <1>12, <1>13, <1>14,
    <1>15, <1>16, <1>17, <1>18, <1>19, <1>20, <1>21, <1>22, <1>23, <1>24, <1>25, <1>26, <1>27,
    <1>28, <1>29, <1>30 DEF Next

\* A request ends only with its answer, and with its claim.
LEMMA ServedKept ==
  ASSUME TypeOK, Tokens, Served, [Next]_vars
  PROVE  Served'
<1> USE DEF TypeOK, Tokens, Served,
  AdapterOK, ReceiptsOK, AnswersOK, ProcessOK, HistoryOK, Requests, Results, Immediate
<1>1. ASSUME Offer
      PROVE  Served'
  BY <1>1 DEF Offer, adapter, receipts, answers, process, history
<1>2. ASSUME Ask
      PROVE  Served'
  <2>1. CASE receipt = "completed" \/ held
    BY <1>2, <2>1 DEF Ask, Resolved, AttemptEnds, SendResponses, Terminal, receipts
  <2>2. CASE ~(receipt = "completed" \/ held)
    <3>0. PICK refused : requests' = requests \cup {Request(issued + 1, refused)}
      BY <1>2, <2>2 DEF Ask
    <3> DEFINE new == Request(issued + 1, refused)
    <3>1. /\ requests' = requests \cup {new} /\ new.at \in {"resolving", "disowned", "sent"}
          /\ new.token = issued + 1
      BY <3>0 DEF Request
    <3>2. owner' = issued + 1 /\ waits' = issued + 1 /\ receipt' = "claimed"
      BY <1>2, <2>2 DEF Ask
    <3> HIDE DEF new
    <3> QED
      BY <3>1, <3>2
  <2> QED
    BY <2>1, <2>2
<1>3. ASSUME RetryResponses
      PROVE  Served'
  BY <1>3 DEF RetryResponses, AttemptEnds, SendResponses, adapter, receipts, answers, process,
    history
<1>4. ASSUME ClearBegin
      PROVE  Served'
  BY <1>4 DEF ClearBegin, adapter, receipts, answers, process, history
<1>5. ASSUME ClearEnd
      PROVE  Served'
  BY <1>5 DEF ClearEnd, adapter, receipts, answers, process, history
<1>6. ASSUME NEW ok \in BOOLEAN, ResponsesSent(ok)
      PROVE  Served'
  BY <1>6 DEF ResponsesSent, AttemptEnds, adapter, receipts, answers, process, history
<1>7. ASSUME NEW r \in requests, AnsweredAtOnce(r)
      PROVE  Served'
  BY <1>7 DEF AnsweredAtOnce, Settle, Owned, Replies, Resolved, Terminal, AttemptEnds,
    SendResponses, AtOnce, Immediate, adapter, receipts, answers, process, history
<1>8. ASSUME NEW r \in requests, LooksUp(r)
      PROVE  Served'
  <2>1. PICK kind \in {"process_delivery"} \cup {k \in {"hil_decision"} : asked = 1} :
          requests' = (requests \ {r}) \cup {[r EXCEPT !.at = "ready", !.kind = kind]}
    <3> HIDE DEF TypeOK, Tokens, Served, AdapterOK, ReceiptsOK, AnswersOK, ProcessOK, HistoryOK,
          Requests, Results, Immediate
    <3> QED
      BY <1>8, Zenon DEF LooksUp
  <2> DEFINE new == [r EXCEPT !.at = "ready", !.kind = kind]
  <2>2. /\ requests' = (requests \ {r}) \cup {new}
        /\ new.token = r.token /\ new.at = "ready" /\ new.kind = kind /\ new.answer = r.answer
    BY <2>1
  <2>3. UNCHANGED <<receipt, owner, held, waits, attempt>>
    BY <1>8 DEF LooksUp, adapter, receipts, answers, process, history
  <2> HIDE DEF new
  <2> QED
    BY <1>8, <2>1, <2>2, <2>3 DEF LooksUp, adapter, receipts, answers, process, history
<1>9. ASSUME NEW r \in requests, Checkpoint(r)
      PROVE  Served'
  <2> DEFINE new == [r EXCEPT !.at = "sent"]
  <2>1. CASE Owned(r)
    <3>1. /\ requests' = (requests \ {r}) \cup {new}
          /\ new.token = r.token /\ new.at = "sent" /\ new.kind = r.kind
      BY <1>9, <2>1 DEF Checkpoint
    <3>2. UNCHANGED <<receipt, owner, held, waits, attempt>>
      BY <1>9, <2>1 DEF Checkpoint
    <3> HIDE DEF new
    <3> QED
      BY <2>1, <3>1, <3>2
  <2>2. CASE ~Owned(r)
    BY <1>9, <2>2 DEF Checkpoint, Saved, Owned, Replies, Resolved, Terminal, AttemptEnds,
      SendResponses, Immediate, adapter, receipts, answers, process, history
  <2> QED
    BY <2>1, <2>2
<1>10. ASSUME NEW r \in requests, ProcessDecides(r)
      PROVE  Served'
  <2> DEFINE new == [r EXCEPT !.at = "back", !.answer = IF asked = 1 \/ r.replay THEN "reply"
    ELSE "refused"]
  <2>1. /\ requests' = (requests \ {r}) \cup {new}
        /\ new.token = r.token /\ new.at = "back" /\ new.kind = r.kind /\ new.answer = (IF asked
          = 1 \/ r.replay THEN "reply" ELSE "refused")
    BY <1>10 DEF ProcessDecides, adapter, receipts, answers, process, history
  <2>2. UNCHANGED <<receipt, owner, held, waits, attempt>>
    BY <1>10 DEF ProcessDecides, adapter, receipts, answers, process, history
  <2> HIDE DEF new
  <2> QED
    BY <1>10, <2>1, <2>2 DEF ProcessDecides, adapter, receipts, answers, process, history
<1>11. ASSUME NEW r \in requests, Delivered(r)
      PROVE  Served'
  BY <1>11 DEF Delivered, Settle, Owned, Replies, Resolved, Terminal, AttemptEnds,
    SendResponses, Immediate, adapter, receipts, answers, process, history
<1>12. ASSUME NEW r \in requests, RequestFails(r)
      PROVE  Served'
  BY <1>12 DEF RequestFails, Abandoned, Owned, Trouble, Replies, Resolved, Terminal,
    AttemptEnds, SendResponses, Immediate, adapter, receipts, answers, process, history
<1>13. ASSUME NEW r \in requests, NEW answer \in {"run", "queued", "recorded", "refused"},
               ProcessAdmits(r, answer)
      PROVE  Served'
  <2> DEFINE new == [r EXCEPT !.at = "back", !.answer = answer]
  <2>1. /\ requests' = (requests \ {r}) \cup {new}
        /\ new.token = r.token /\ new.at = "back" /\ new.kind = r.kind /\ new.answer = answer
    BY <1>13 DEF ProcessAdmits, RunId, adapter, receipts, answers, process, history
  <2>2. UNCHANGED <<receipt, owner, held, waits, attempt>>
    BY <1>13 DEF ProcessAdmits, RunId, adapter, receipts, answers, process, history
  <2> HIDE DEF new
  <2> QED
    BY <1>13, <2>1, <2>2 DEF ProcessAdmits, RunId, adapter, receipts, answers, process, history
<1>14. ASSUME LeaseExpires
      PROVE  Served'
  BY <1>14 DEF LeaseExpires, Trouble, adapter, receipts, answers, process, history
<1>15. ASSUME OtherDecides
      PROVE  Served'
  BY <1>15 DEF OtherDecides, adapter, receipts, answers, process, history
<1>16. ASSUME RunFinishes
      PROVE  Served'
  BY <1>16 DEF RunFinishes, adapter, receipts, answers, process, history
<1>17. ASSUME FinishArrives
      PROVE  Served'
  BY <1>17 DEF FinishArrives, adapter, receipts, answers, process, history
<1>18. ASSUME NEW outcome \in Outcomes, SignalReturns(outcome)
      PROVE  Served'
  BY <1>18 DEF SignalReturns, Attempted, Settles, Retries, Outcomes, adapter, receipts, answers,
    process, history
<1>19. ASSUME NEW outcome \in Outcomes, RowReturns(outcome)
      PROVE  Served'
  BY <1>19 DEF RowReturns, Attempted, Settles, Retries, Outcomes, adapter, receipts, answers,
    process, history
<1>20. ASSUME NEW n \in rows, RowFires(n)
      PROVE  Served'
  BY <1>20 DEF RowFires, AlarmFree, adapter, receipts, answers, process, history
<1>21. ASSUME SignalFails
      PROVE  Served'
  BY <1>21 DEF SignalFails, Trouble, adapter, receipts, answers, process, history
<1>22. ASSUME RowFails
      PROVE  Served'
  BY <1>22 DEF RowFails, Trouble, adapter, receipts, answers, process, history
<1>23. ASSUME NoticeFires
      PROVE  Served'
  BY <1>23 DEF NoticeFires, AlarmFree, adapter, receipts, answers, process, history
<1>24. ASSUME NoticeReturns
      PROVE  Served'
  BY <1>24 DEF NoticeReturns, adapter, receipts, answers, process, history
<1>25. ASSUME NoticeFails
      PROVE  Served'
  BY <1>25 DEF NoticeFails, Trouble, adapter, receipts, answers, process, history
<1>26. ASSUME KernelRestarts
      PROVE  Served'
  BY <1>26 DEF KernelRestarts, Trouble, Resolved, Terminal, AttemptEnds, SendResponses,
    Immediate, adapter, receipts, answers, process, history
<1>27. ASSUME AdapterRestarts
      PROVE  Served'
  BY <1>27 DEF AdapterRestarts, Trouble, adapter, receipts, answers, process, history
<1>28. ASSUME NEW r \in requests, Disowns(r)
      PROVE  Served'
  BY <1>28 DEF Disowns, Settle, Owned, Replies, Resolved, Terminal, AttemptEnds,
    SendResponses, AtOnce, Immediate, adapter, receipts, answers, process, history
<1>29. ASSUME LinkMoves
      PROVE  Served'
  BY <1>29 DEF LinkMoves, Trouble, adapter, receipts, answers, process, history
<1>30. ASSUME UNCHANGED vars
      PROVE  Served'
  BY <1>30 DEF vars, adapter, receipts, answers, process, history
<1> QED
  BY <1>1, <1>2, <1>3, <1>4, <1>5, <1>6, <1>7, <1>8, <1>9, <1>10, <1>11, <1>12, <1>13, <1>14,
    <1>15, <1>16, <1>17, <1>18, <1>19, <1>20, <1>21, <1>22, <1>23, <1>24, <1>25, <1>26, <1>27,
    <1>28, <1>29, <1>30 DEF Next

-----------------------------------------------------------------------------
LEMMA IInvInit == Init => IInv
<1> SUFFICES ASSUME Init PROVE IInv
  OBVIOUS
<1> USE DEF Init
<1>0. 0 \in 0 .. MaxRounds /\ 0 \in 0 .. MaxOffers /\ 0 \in 0 .. MaxTroubles
  <2> HIDE DEF Init
  <2> QED
    BY IngressAssumption
<1>1. AdapterOK
  BY <1>0 DEF AdapterOK
<1>2. HistoryOK
  BY <1>0 DEF HistoryOK
<1>3. ReceiptsOK
  BY DEF ReceiptsOK
<1>4. AnswersOK
  BY DEF AnswersOK
<1>5. ProcessOK
  BY DEF ProcessOK
<1>6. Tokens /\ Served
  BY DEF Tokens, Served
<1>7. Planned
  BY DEF Planned
<1>8. Settled /\ Routed /\ HandedOver /\ AnswerKept
  BY DEF Settled, Routed, HandedOver, AnswerKept
<1> HIDE DEF Init
<1> QED
  BY <1>1, <1>2, <1>3, <1>4, <1>5, <1>6, <1>7, <1>8 DEF IInv, TypeOK

LEMMA IInvNext == IInv /\ [Next]_vars => IInv'
  BY TypeOKKept, TokensKept, ServedKept, PlannedKept, SettledKept, RoutedKept, HandedOverKept,
    AnswerKeptKept DEF IInv

LEMMA IInvAlways == Spec => []IInv
<1>1. Init => IInv
  BY IInvInit
<1>2. IInv /\ [Next]_vars => IInv'
  BY IInvNext
<1> QED
  BY <1>1, <1>2, PTL DEF Spec

\* Every variable of the message's way keeps its type.
THEOREM TypesHold == Spec => []TypeOK
<1>1. IInv => TypeOK
  BY DEF IInv
<1> QED
  BY <1>1, IInvAlways, PTL

\* A set that holds at most one value has at most one element.
LEMMA AtMostOne ==
  ASSUME NEW S, NEW v, S \subseteq {v}
  PROVE  Cardinality(S) \in 0 .. 1
<1>1. Cardinality({}) = 0 /\ Cardinality({v}) = 1
  BY FS_EmptySet, FS_Singleton
<1>2. S = {} \/ S = {v}
  OBVIOUS
<1> QED
  BY <1>1, <1>2

\* The checkpoint is made once, before the process is called, and keeps whether the
\* message is a decision or conversation, and its run id: however often it is claimed
\* again and sent, it decides one approval or makes one run.
THEOREM OneEffectHolds == Spec => []OneEffect
<1>1. IInv => OneEffect
  <2> SUFFICES ASSUME IInv PROVE applied + Cardinality(runs) <= 1
    BY DEF OneEffect
  <2>1. applied \in 0 .. 1 /\ (applied > 0 => runs = {})
    BY DEF IInv, Planned, TypeOK, ProcessOK
  <2>2. CASE applied = 0
    <3>1. Cardinality(runs) \in 0 .. 1
      BY AtMostOne DEF IInv, Planned
    <3> QED
      BY <2>2, <3>1
  <2>3. CASE applied > 0
    BY <2>1, <2>3, FS_EmptySet
  <2> QED
    BY <2>1, <2>2, <2>3
<1> QED
  BY <1>1, IInvAlways, PTL

\* A claim ends with the request that holds it, by complete(), abandon(), its lease or
\* a restart, and the adapter's call with the answer of its request: no receipt turns
\* the message away as "in progress" while nobody works on it, and no attempt waits for
\* a request that is gone. With the alarm this is what lets the message settle.
THEOREM ClaimsAreServed == Spec => []Served
<1>1. IInv => Served
  BY DEF IInv
<1> QED
  BY <1>1, IInvAlways, PTL

\* prepare and complete are fenced by state and claim token: a request that lost its
\* claim gives no result, and a completed receipt gives the one it has.
THEOREM OneResultHolds == Spec => []OneResult
<1>1. IInv => OneResult
  <2> SUFFICES ASSUME IInv PROVE Cardinality(given) <= 1
    BY DEF OneResult
  <2>1. given \subseteq {result}
    BY DEF IInv, Settled
  <2> QED
    BY <2>1, AtMostOne
<1> QED
  BY <1>1, IInvAlways, PTL

\* The adapter deletes its record on a terminal result only, and the Kernel gives
\* one only from a completed receipt.
THEOREM HandedOverHolds == Spec => []HandedOver
<1>1. IInv => HandedOver
  BY DEF IInv
<1> QED
  BY <1>1, IInvAlways, PTL

\* attemptAdapterSignalDelivery, its retries and the notice leave no acknowledged
\* finish without its answer or something that pursues it.
THEOREM AnswerKeptHolds == Spec => []AnswerKept
<1>1. IInv => AnswerKept
  BY DEF IInv
<1> QED
  BY <1>1, IInvAlways, PTL

-----------------------------------------------------------------------------
(* The result says what happened. *)

\* What a request brings back from the process is so.
Backed ==
  \A r \in requests : r.at = "back" =>
    /\ r.kind = "process_delivery" /\ r.answer # "refused" => runs # {}
    /\ r.kind = "hil_decision" =>
         asked # 1 /\ r.answer \in (IF r.replay THEN {"reply"} ELSE {"reply", "refused"})

\* The owner of a receipt without a checkpoint is the only request that ever gets to
\* the process: when that declines its decision, nobody else has applied it.
Firsthand ==
  \A r \in requests : r.token = owner /\ ~r.replay =>
    /\ \A q \in requests : q.at \in {"sent", "back"} => q = r
    /\ r.at = "sent" \/ (r.at = "back" /\ r.answer = "refused") => applied = 0

\* What a completed receipt says, by its checkpoint, if no replay was refused that.
Told ==
  /\ disowned => receipt = "completed"
  /\ receipt = "completed" /\ ~disowned =>
    \/ progress = "none" /\ result \in AtOnce
    \/ progress = "process_delivery" /\ result \in {"run", "queued"} /\ runs # {}
    \/ progress = "process_delivery" /\ result = "refused" /\ run = "refused"
    \/ progress = "hil_decision" /\ asked # 1 /\ result = "reply"
    \/ progress = "hil_decision" /\ asked # 1 /\ result = "refused" /\ applied = 0

Honest == Backed /\ Firsthand /\ Told

\* Steps at which no request is claimed, sent or answered.
LEMMA HonestStays ==
  ASSUME Planned, Honest, requests' \subseteq requests,
         UNCHANGED <<receipt, result, progress, owner, disowned, applied, runs>>,
         asked' = asked \/ asked' # 1,
         run = "refused" => run' = "refused"
  PROVE  Honest'
<1>1. Backed'
  BY DEF Honest, Backed
<1>2. Firsthand'
  BY DEF Honest, Firsthand
<1>3. Told'
  BY DEF Honest, Told
<1> QED
  BY <1>1, <1>2, <1>3 DEF Honest

\* Every step keeps it.
LEMMA HonestKept ==
  ASSUME TypeOK, Tokens, Planned, Routed, Honest, [Next]_vars
  PROVE  Honest'
<1>0. /\ owner \in Nat /\ issued \in Nat /\ owner <= issued
      /\ requests \subseteq Requests
      /\ \A r \in requests : r.token \in Nat /\ r.token <= issued
      /\ applied \in Nat
  BY DEF TypeOK, ReceiptsOK, ProcessOK, HistoryOK, Tokens, Requests
<1>1. ASSUME Ask
      PROVE  Honest'
  <2>1. CASE receipt = "completed" \/ held
    BY <1>1, <2>1, HonestStays DEF Ask, receipts, process
  <2>2. CASE ~(receipt = "completed" \/ held)
    <3>0. PICK refused : requests' = requests \cup {Request(issued + 1, refused)}
      BY <1>1, <2>2 DEF Ask
    <3> DEFINE new == Request(issued + 1, refused)
    <3>1. /\ requests' = requests \cup {new} /\ owner' = issued + 1 /\ receipt' = "claimed"
          /\ UNCHANGED <<progress, disowned, asked, applied, run, runs>>
      BY <1>1, <2>2, <3>0 DEF Ask, process
    <3>2. /\ new.token = issued + 1 /\ new.replay = (progress # "none")
          /\ new.at \in {"resolving", "disowned", "sent"} /\ (new.at = "sent" => new.replay)
      BY DEF Request
    <3> HIDE DEF new
    <3>3. \A r \in requests : r.token # owner'
      BY <1>0, <3>1
    <3>4. ~new.replay => \A q \in requests : q.at \notin {"sent", "back"}
      BY <3>2 DEF Planned
    <3>5. Backed'
      BY <3>1, <3>2 DEF Honest, Backed
    <3>6. Firsthand'
      BY <3>1, <3>2, <3>3, <3>4 DEF Firsthand
    <3>7. Told'
      BY <2>2, <3>1 DEF Honest, Told
    <3> QED
      BY <3>5, <3>6, <3>7 DEF Honest
  <2> QED
    BY <2>1, <2>2
<1>2. ASSUME NEW r \in requests, AnsweredAtOnce(r)
      PROVE  Honest'
  <2>1. CASE Owned(r)
    <3>1. /\ requests' = requests \ {r} /\ result' \in AtOnce /\ progress = "none"
          /\ receipt' = "completed"
          /\ UNCHANGED <<progress, owner, disowned, asked, applied, run, runs>>
      BY <1>2, <2>1 DEF AnsweredAtOnce, Settle, Replies, Owned, Planned, process
    <3>2. Backed'
      BY <3>1 DEF Honest, Backed
    <3>3. Firsthand'
      BY <3>1 DEF Honest, Firsthand
    <3>4. Told'
      BY <3>1 DEF Told
    <3> QED
      BY <3>2, <3>3, <3>4 DEF Honest
  <2>2. CASE ~Owned(r)
    BY <1>2, <2>2, HonestStays DEF AnsweredAtOnce, Settle, Replies, process
  <2> QED
    BY <2>1, <2>2
<1>3. ASSUME NEW r \in requests, LooksUp(r)
      PROVE  Honest'
  <2>1. PICK kind \in {"process_delivery"} \cup {k \in {"hil_decision"} : asked = 1} :
          requests' = (requests \ {r}) \cup {[r EXCEPT !.at = "ready", !.kind = kind]}
    BY <1>3, Zenon DEF LooksUp
  <2> DEFINE new == [r EXCEPT !.at = "ready", !.kind = kind]
  <2>2. new.at = "ready" /\ new.token = r.token /\ new.replay = r.replay
    BY <1>0 DEF Requests
  <2>3. /\ requests' = (requests \ {r}) \cup {new} /\ r.at = "resolving"
        /\ UNCHANGED <<receipt, result, progress, owner, disowned, asked, applied, run, runs>>
    BY <1>3, <2>1 DEF LooksUp, process
  <2> HIDE DEF new
  <2>4. Backed'
    BY <2>2, <2>3 DEF Honest, Backed
  <2>5. Firsthand'
    BY <2>2, <2>3 DEF Honest, Firsthand
  <2>6. Told'
    BY <2>3 DEF Honest, Told
  <2> QED
    BY <2>4, <2>5, <2>6 DEF Honest
<1>4. ASSUME NEW r \in requests, Checkpoint(r)
      PROVE  Honest'
  <2>1. CASE Owned(r)
    <3> DEFINE new == [r EXCEPT !.at = "sent"]
    <3>1. new.at = "sent" /\ new.token = r.token /\ new.replay = r.replay
      BY <1>0 DEF Requests
    <3>2. /\ requests' = (requests \ {r}) \cup {new}
          /\ r.at = "ready" /\ r.token = owner /\ receipt = "claimed"
          /\ UNCHANGED <<receipt, owner, disowned, asked, applied, run, runs>>
      BY <1>4, <2>1 DEF Checkpoint, Owned, process
    <3> HIDE DEF new
    <3>3. progress = "none" /\ applied = 0
      BY <1>0, <3>2 DEF Planned
    <3>4. \A q \in requests : q.at \notin {"sent", "back"}
      BY <3>3 DEF Planned
    <3>5. \A q \in requests : q # r => q.token # owner
      BY <3>2 DEF Tokens
    <3>6. Backed'
      BY <3>1, <3>2 DEF Honest, Backed
    <3>7. Firsthand'
      BY <3>1, <3>2, <3>3, <3>4, <3>5 DEF Firsthand
    <3>8. Told'
      BY <3>2 DEF Honest, Told
    <3> QED
      BY <3>6, <3>7, <3>8 DEF Honest
  <2>2. CASE ~Owned(r)
    BY <1>4, <2>2, HonestStays DEF Checkpoint, Replies, process
  <2> QED
    BY <2>1, <2>2
<1>5. ASSUME NEW r \in requests, NEW answer \in {"run", "queued", "recorded", "refused"},
             ProcessAdmits(r, answer)
      PROVE  Honest'
  <2> DEFINE new == [r EXCEPT !.at = "back", !.answer = answer]
  <2>1. /\ new.at = "back" /\ new.token = r.token /\ new.replay = r.replay
        /\ new.kind = r.kind /\ new.answer = answer
    BY <1>0 DEF Requests
  <2>2. /\ requests' = (requests \ {r}) \cup {new}
        /\ r.at = "sent" /\ r.kind = "process_delivery"
        /\ UNCHANGED <<receipt, result, progress, owner, disowned, asked, applied>>
    BY <1>5 DEF ProcessAdmits
  <2>3. /\ runs \subseteq runs' /\ (answer # "refused" => runs' # {})
        /\ run = "refused" => run' = "refused"
    BY <1>5 DEF ProcessAdmits, process
  <2> HIDE DEF new
  <2>4. progress = "process_delivery" /\ applied = 0
    BY <1>0, <2>2 DEF Planned
  <2>5. Backed'
    BY <2>1, <2>2, <2>3 DEF Honest, Backed
  <2>6. Firsthand'
    BY <2>1, <2>2, <2>4 DEF Honest, Firsthand
  <2>7. Told'
    BY <2>2, <2>3 DEF Honest, Told
  <2> QED
    BY <2>5, <2>6, <2>7 DEF Honest
<1>6. ASSUME NEW r \in requests, ProcessDecides(r)
      PROVE  Honest'
  <2> DEFINE said == IF asked = 1 \/ r.replay THEN "reply" ELSE "refused"
             new == [r EXCEPT !.at = "back", !.answer = said]
  <2>1. /\ new.at = "back" /\ new.token = r.token /\ new.replay = r.replay
        /\ new.kind = r.kind /\ new.answer = said
    BY <1>0 DEF Requests
  <2>2. /\ requests' = (requests \ {r}) \cup {new}
        /\ r.at = "sent" /\ r.kind = "hil_decision"
        /\ UNCHANGED <<receipt, result, progress, owner, disowned, run, runs>>
    BY <1>6 DEF ProcessDecides
  <2>3. \/ asked = 1 /\ asked' # 1 /\ said = "reply"
        \/ asked # 1 /\ UNCHANGED <<asked, applied>>
    BY <1>6 DEF ProcessDecides
  <2>4. said \in (IF r.replay THEN {"reply"} ELSE {"reply", "refused"})
    OBVIOUS
  <2> HIDE DEF new, said
  <2>5. progress = "hil_decision"
    BY <2>2 DEF Planned
  <2>6. Backed'
    BY <2>1, <2>2, <2>3, <2>4 DEF Honest, Backed
  <2>7. Firsthand'
    BY <2>1, <2>2, <2>3 DEF Honest, Firsthand
  <2>8. Told'
    BY <2>2, <2>3, <2>5 DEF Honest, Told
  <2> QED
    BY <2>6, <2>7, <2>8 DEF Honest
<1>7. ASSUME NEW r \in requests, Delivered(r)
      PROVE  Honest'
  <2>1. CASE Owned(r)
    <3>1. /\ requests' = requests \ {r} /\ r.at = "back" /\ r.token = owner
          /\ result' = (IF r.answer = "recorded" THEN "run" ELSE r.answer)
          /\ receipt' = "completed"
          /\ UNCHANGED <<progress, owner, disowned, asked, applied, run, runs>>
      BY <1>7, <2>1 DEF Delivered, Settle, Replies, Owned, process
    <3>2. progress = r.kind /\ r.kind \in {"process_delivery", "hil_decision"}
      BY <1>0, <3>1 DEF Planned, Requests
    <3>3. ASSUME r.kind = "process_delivery"
          PROVE  Told'
      <4>1. /\ r.answer \in {"run", "queued", "recorded", "refused"}
            /\ r.answer = "refused" => run = "refused"
            /\ r.answer # "refused" => runs # {}
        BY <3>1, <3>3 DEF Routed, Honest, Backed
      <4> QED
        BY <3>1, <3>2, <3>3, <4>1 DEF Told
    <3>4. ASSUME r.kind = "hil_decision"
          PROVE  Told'
      <4>1. asked # 1 /\ r.answer \in (IF r.replay THEN {"reply"} ELSE {"reply", "refused"})
        BY <3>1, <3>4 DEF Honest, Backed
      <4>2. r.answer = "refused" => applied = 0
        BY <3>1, <4>1 DEF Honest, Firsthand
      <4> QED
        BY <3>1, <3>2, <3>4, <4>1, <4>2 DEF Told
    <3>5. Told'
      BY <3>2, <3>3, <3>4
    <3>6. Backed'
      BY <3>1 DEF Honest, Backed
    <3>7. Firsthand'
      BY <3>1 DEF Honest, Firsthand
    <3> QED
      BY <3>5, <3>6, <3>7 DEF Honest
  <2>2. CASE ~Owned(r)
    BY <1>7, <2>2, HonestStays DEF Delivered, Settle, Replies, process
  <2> QED
    BY <2>1, <2>2
<1>8. CASE \/ Offer \/ RetryResponses \/ ClearBegin \/ ClearEnd
           \/ \E ok \in BOOLEAN : ResponsesSent(ok)
  BY <1>8, HonestStays DEF Offer, RetryResponses, ClearBegin, ClearEnd, ResponsesSent,
    receipts, process
<1>9. CASE \/ \E r \in requests : RequestFails(r)
           \/ LeaseExpires \/ OtherDecides \/ KernelRestarts \/ AdapterRestarts
  BY <1>9, HonestStays DEF RequestFails, Replies, LeaseExpires, OtherDecides, KernelRestarts,
    AdapterRestarts, receipts, process
<1>10. CASE \/ RunFinishes \/ FinishArrives
            \/ \E outcome \in Outcomes : SignalReturns(outcome) \/ RowReturns(outcome)
            \/ \E n \in rows : RowFires(n)
  BY <1>10, HonestStays DEF RunFinishes, FinishArrives, SignalReturns, RowReturns, RowFires,
    receipts, process
<1>11. CASE SignalFails \/ RowFails \/ NoticeFires \/ NoticeReturns \/ NoticeFails
  BY <1>11, HonestStays DEF SignalFails, RowFails, NoticeFires, NoticeReturns, NoticeFails,
    receipts, process
<1>12. ASSUME NEW r \in requests, Disowns(r)
       PROVE  Honest'
  <2>1. CASE Owned(r)
    <3>1. /\ requests' = requests \ {r} /\ receipt' = "completed" /\ disowned'
          /\ UNCHANGED <<progress, owner, asked, applied, run, runs>>
      BY <1>12, <2>1 DEF Disowns, Settle, Replies, process
    <3>2. Backed'
      BY <3>1 DEF Honest, Backed
    <3>3. Firsthand'
      BY <3>1 DEF Honest, Firsthand
    <3>4. Told'
      BY <3>1 DEF Told
    <3> QED
      BY <3>2, <3>3, <3>4 DEF Honest
  <2>2. CASE ~Owned(r)
    <3>1. disowned' = disowned
      BY <1>12, <2>2 DEF Disowns, TypeOK, ReceiptsOK
    <3> QED
      BY <1>12, <2>2, <3>1, HonestStays DEF Disowns, Settle, Replies, process
  <2> QED
    BY <2>1, <2>2
<1>13. CASE LinkMoves
  BY <1>13, HonestStays DEF LinkMoves, process
<1>14. CASE UNCHANGED vars
  BY <1>14, HonestStays DEF vars, receipts, process
<1> QED
  BY <1>1, <1>2, <1>3, <1>4, <1>5, <1>6, <1>7, <1>8, <1>9, <1>10, <1>11, <1>12, <1>13,
    <1>14 DEF Next

\* What the Kernel tells the adapter of a message once its receipt is completed: that
\* it went to a run exactly if the process admitted one, and that it was refused only
\* if nothing came of it. A replay that finds the sender's link changed tells it that,
\* without looking at what an earlier attempt has done.
ResultIsTrue ==
  receipt = "completed" /\ ~disowned =>
    /\ runs # {} <=> result \in {"run", "queued"}
    /\ applied > 0 => result = "reply"

\* It follows from what the checkpoint says.
LEMMA HonestIsTrue ==
  ASSUME IInv, Honest
  PROVE  ResultIsTrue
<1> SUFFICES ASSUME receipt = "completed", ~disowned
             PROVE  /\ runs # {} <=> result \in {"run", "queued"}
                    /\ applied > 0 => result = "reply"
  BY DEF ResultIsTrue
<1>1. /\ runs # {} => progress = "process_delivery"
      /\ applied > 0 => progress = "hil_decision"
      /\ run = "refused" => runs = {}
      /\ applied \in Nat
  BY DEF IInv, Planned, Routed, TypeOK, ProcessOK
<1> QED
  BY <1>1 DEF Honest, Told, AtOnce, Immediate

\* All of it holds throughout.
LEMMA HonestAlways == Spec => [](IInv /\ Honest /\ ResultIsTrue)
<1>1. Init => Honest
  BY DEF Init, Honest, Backed, Firsthand, Told
<1>2. IInv /\ Honest /\ [Next]_vars => Honest'
  BY HonestKept DEF IInv
<1>3. IInv /\ Honest => ResultIsTrue
  BY HonestIsTrue
<1> QED
  BY <1>1, <1>2, <1>3, IInvAlways, PTL DEF Spec

\* complete() stores what really became of the message, whichever request
\* of how many leases, replays and restarts completes the receipt, and no request
\* that is still under way can make it untrue afterwards. The exception is a receipt
\* completed by a replay that found the sender unlinked or another user's.
THEOREM ResultsAreTrue == Spec => []ResultIsTrue
  BY HonestAlways, PTL

-----------------------------------------------------------------------------
(* Ingress implements MessageProtocol. *)

\* A step has an effect, and says nothing, or says something, and has none.
Acts ==
  /\ UNCHANGED <<receipt, result, disowned>>
  /\ runs \subseteq runs' /\ applied \in 0 .. applied'
  /\ applied' # applied => asked = 1 /\ progress = "hil_decision"

Tells ==
  /\ UNCHANGED <<runs, applied>>
  /\ receipt = "completed" => UNCHANGED <<receipt, result>>
  /\ \/ UNCHANGED disowned
     \/ disowned' /\ receipt # "completed" /\ receipt' = "completed" /\ result' \in AtOnce

LEMMA ActsOrTells ==
  ASSUME TypeOK, Planned, [Next]_vars
  PROVE  Acts \/ Tells
<1>0. applied \in Nat /\ receipt \in {"none", "claimed", "completed"}
  BY DEF TypeOK, ReceiptsOK, ProcessOK
<1>1. ASSUME NEW r \in requests, NEW answer \in {"run", "queued", "recorded", "refused"},
             ProcessAdmits(r, answer)
      PROVE  Acts
  BY <1>0, <1>1 DEF ProcessAdmits, process, Acts
<1>2. ASSUME NEW r \in requests, ProcessDecides(r)
      PROVE  Acts
  <2>1. progress = "hil_decision" /\ UNCHANGED <<receipt, result, disowned, runs>>
    BY <1>2 DEF ProcessDecides, Planned
  <2>2. (asked = 1 /\ applied' = applied + 1) \/ applied' = applied
    BY <1>2 DEF ProcessDecides
  <2> QED
    BY <1>0, <2>1, <2>2 DEF Acts
<1>3. ASSUME NEW r \in requests, AnsweredAtOnce(r) \/ Delivered(r)
      PROVE  Tells
  <2>1. /\ UNCHANGED <<disowned, runs, applied>>
        /\ \E answer : Settle(r, answer)
    BY <1>3 DEF AnsweredAtOnce, Delivered, process
  <2>2. Owned(r) \/ UNCHANGED <<receipt, result>>
    BY <2>1 DEF Settle
  <2> QED
    BY <2>1, <2>2 DEF Owned, Tells
<1>4. CASE Ask
  BY <1>4 DEF Ask, receipts, process, Tells
<1>5. ASSUME NEW r \in requests, LooksUp(r) \/ Checkpoint(r) \/ RequestFails(r)
      PROVE  Tells
  <2>1. CASE LooksUp(r)
    BY <2>1 DEF LooksUp, process, Tells
  <2>2. CASE Checkpoint(r)
    BY <2>2 DEF Checkpoint, process, Tells
  <2>3. CASE RequestFails(r)
    BY <2>3 DEF RequestFails, process, Tells
  <2> QED
    BY <1>5, <2>1, <2>2, <2>3
<1>6. CASE \/ Offer \/ RetryResponses \/ ClearBegin \/ ClearEnd
           \/ \E ok \in BOOLEAN : ResponsesSent(ok)
  BY <1>6 DEF Offer, RetryResponses, ClearBegin, ClearEnd, ResponsesSent, receipts, process,
    Tells
<1>7. CASE LeaseExpires \/ OtherDecides \/ KernelRestarts \/ AdapterRestarts
  BY <1>7 DEF LeaseExpires, OtherDecides, KernelRestarts, AdapterRestarts, receipts, process,
    Tells
<1>8. CASE \/ RunFinishes \/ FinishArrives
           \/ \E outcome \in Outcomes : SignalReturns(outcome) \/ RowReturns(outcome)
           \/ \E n \in rows : RowFires(n)
  BY <1>8 DEF RunFinishes, FinishArrives, SignalReturns, RowReturns, RowFires, receipts,
    process, Tells
<1>9. CASE SignalFails \/ RowFails \/ NoticeFires \/ NoticeReturns \/ NoticeFails
  BY <1>9 DEF SignalFails, RowFails, NoticeFires, NoticeReturns, NoticeFails, receipts,
    process, Tells
<1>10. ASSUME NEW r \in requests, Disowns(r)
       PROVE  Tells
  <2>1. UNCHANGED <<runs, applied>> /\ disowned' = (disowned \/ Owned(r))
    BY <1>10 DEF Disowns, process
  <2>2. PICK answer \in AtOnce : Settle(r, answer)
    BY <1>10 DEF Disowns
  <2>3. CASE Owned(r)
    <3>1. receipt = "claimed" /\ receipt' = "completed" /\ result' = answer /\ disowned'
      BY <2>1, <2>2, <2>3 DEF Settle, Owned
    <3> QED
      BY <2>1, <3>1 DEF Tells
  <2>4. CASE ~Owned(r)
    <3>1. UNCHANGED <<receipt, result, disowned>>
      BY <2>1, <2>2, <2>4 DEF Settle, TypeOK, ReceiptsOK
    <3> QED
      BY <2>1, <3>1 DEF Tells
  <2> QED
    BY <2>3, <2>4
<1>11. CASE LinkMoves
  BY <1>11 DEF LinkMoves, process, Tells
<1>12. CASE UNCHANGED vars
  BY <1>12 DEF vars, receipts, process, Tells
<1> QED
  BY <1>1, <1>2, <1>3, <1>4, <1>5, <1>6, <1>7, <1>8, <1>9, <1>10, <1>11, <1>12 DEF Next

\* However a message is offered, claimed, replayed, refused or cut off: it has one
\* effect, one verdict that says so, and nothing comes of it after the verdict, unless
\* the verdict is that of a replay that found the sender's link changed.
THEOREM HandledOnceHolds == Spec => HandledOnce
<1> DEFINE effect == IF runs # {} THEN "run" ELSE IF applied > 0 THEN "decision" ELSE "none"
           verdict == IF receipt = "completed" THEN result ELSE "none"
<1>1. Init => Promised!Init
  BY DEF Init, Promised!Init
<1>2. ASSUME IInv, Honest, ResultIsTrue, [Next]_vars, IInv', ResultIsTrue'
      PROVE  [Promised!Next]_(Promised!vars)
  <2>0. /\ applied \in Nat /\ applied' \in Nat
        /\ runs # {} => applied = 0
        /\ runs' # {} => applied' = 0
    BY <1>2 DEF IInv, TypeOK, ProcessOK, Planned
  <2>1. Acts \/ Tells
    BY <1>2, ActsOrTells DEF IInv
  <2>2. CASE Acts /\ effect' = effect
    BY <2>2 DEF Acts, Promised!vars
  <2>3. CASE Acts /\ effect' # effect
    <3>1. effect = "none" /\ effect' \in {"run", "decision"}
      BY <2>0, <2>3 DEF Acts
    <3>2. receipt # "completed" \/ disowned
      <4> SUFFICES ASSUME receipt = "completed", ~disowned PROVE FALSE
        OBVIOUS
      <4>1. (runs # {} <=> runs' # {}) /\ (applied' # applied => asked = 1)
        BY <1>2, <2>3 DEF Acts, ResultIsTrue
      <4>2. applied' # applied /\ progress = "hil_decision"
        BY <2>3, <4>1 DEF Acts
      <4> QED
        BY <1>2, <4>1, <4>2 DEF Honest, Told
    <3>3. (verdict = "none" \/ disowned) /\ verdict' = verdict /\ disowned' = disowned
      BY <2>3, <3>2 DEF Acts
    <3>4. Promised!Act(effect')
      BY <3>1, <3>3 DEF Promised!Act
    <3> QED
      BY <3>1, <3>4 DEF Promised!Next
  <2>4. CASE Tells /\ verdict' = verdict
    <3>1. disowned' = disowned
      BY <2>4 DEF Tells, AtOnce, Immediate
    <3> QED
      BY <2>4, <3>1 DEF Tells, Promised!vars
  <2>5. CASE Tells /\ verdict' # verdict
    <3>1. receipt # "completed" /\ receipt' = "completed" /\ effect' = effect
      BY <2>5 DEF Tells
    <3>2. result' \in {"run", "queued", "reply", "refused"}
      BY <1>2, <3>1 DEF IInv, Settled, Results, Immediate
    <3>3. ~disowned
      BY <1>2, <3>1 DEF Honest, Told
    <3>4. CASE disowned'
      <4>1. result' \in {"reply", "refused"}
        <5>1. result' \in AtOnce
          BY <2>5, <3>3, <3>4, Zenon DEF Tells
        <5> QED
          BY <5>1 DEF AtOnce, Immediate
      <4>2. Promised!Disown(result')
        BY <1>2, <3>1, <3>4 DEF Promised!Disown, IInv, TypeOK, ReceiptsOK
      <4> QED
        BY <4>1, <4>2 DEF Promised!Next
    <3>5. CASE ~disowned'
      <4>1. result' \in Promised!Truth(effect)
        BY <1>2, <2>0, <2>5, <3>1, <3>2, <3>5 DEF Tells, ResultIsTrue, Promised!Truth
      <4>2. disowned' = disowned
        BY <1>2, <3>3, <3>5 DEF IInv, TypeOK, ReceiptsOK
      <4>3. Promised!Answer(result')
        BY <3>1, <4>1, <4>2 DEF Promised!Answer
      <4> QED
        BY <3>2, <4>3 DEF Promised!Next
    <3> QED
      BY <3>4, <3>5
  <2> QED
    BY <2>1, <2>2, <2>3, <2>4, <2>5
<1>3. /\ IInv /\ Honest /\ ResultIsTrue /\ [Next]_vars
      /\ (IInv /\ ResultIsTrue)'
      => [Promised!Next]_(Promised!vars)
  BY <1>2
<1> QED
  BY <1>1, <1>3, HonestAlways, PTL DEF Spec, HandledOnce, Promised!Spec

=============================================================================

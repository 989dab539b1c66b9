------------------------ MODULE DeliveryLedgerProofs ------------------------
(***************************************************************************)
(* Proofs about DeliveryLedger: at-most-once delivery, the truth of the    *)
(* recorded outcomes and the permanence of live records, for every set of  *)
(* ids and sends, and every limit, retention and pruning interval.         *)
(*                                                                         *)
(* The inductive invariant says who may still change what: a record whose  *)
(* generation a send belongs to is that send's attempt, a generation has   *)
(* at most one send, and a generation within its retention has its record. *)
(***************************************************************************)
EXTENDS DeliveryLedger, FiniteSetTheorems, TLAPS

Busy(s) == send[s].at # "idle"

\* Attempt ids in use have been handed out, so a new one is new.
Fresh ==
  /\ \A s \in Sends : Busy(s) => send[s].attempt <= attempts
  /\ \A i \in stored : ledger[i].attempt <= attempts

\* A record that names a send's attempt is of the same generation.
Fence ==
  \A s \in Sends : Busy(s) /\ send[s].id \in stored
                     /\ ledger[send[s].id].attempt = send[s].attempt
    => ledger[send[s].id].createdAt = send[s].createdAt

\* The record of a send's generation is the send's own attempt.
Owner ==
  \A s \in Sends : Busy(s) /\ send[s].id \in stored
                     /\ ledger[send[s].id].createdAt = send[s].createdAt
    => /\ ledger[send[s].id].state = "attempting"
       /\ ledger[send[s].id].attempt = send[s].attempt

\* No two sends are of one generation.
Alone ==
  \A s, t \in Sends : Busy(s) /\ Busy(t) /\ s # t =>
    ~(send[s].id = send[t].id /\ send[s].createdAt = send[t].createdAt)

\* What is still within its retention is in the ledger.
Remembered ==
  /\ \A s \in Sends : Busy(s) /\ send[s].createdAt + Retention > now =>
       send[s].id \in stored /\ ledger[send[s].id].createdAt = send[s].createdAt
  /\ \A i \in Ids, c \in Time : accepted[<<i, c>>] > 0 /\ c + Retention > now =>
       i \in stored /\ ledger[i].createdAt = c

\* What a send knows of the provider.
Knows ==
  \A s \in Sends :
    /\ send[s].at \in {"sending", "lost", "retryable", "failed"} =>
         accepted[Generation(s)] = doubts[Generation(s)]
    /\ send[s].at = "sent" => accepted[Generation(s)] >= 1

\* A doubt is about a message that was taken, and of an adapter that has them.
Doubted ==
  \A g \in Ids \X Time : doubts[g] <= accepted[g] /\ (~ReleasesDoubts => doubts[g] = 0)

IInv == /\ TypeOK /\ Fresh /\ Fence /\ Owner /\ Alone /\ Remembered /\ Knows /\ Doubted
        /\ AtMostOnce /\ OutcomesAreTrue

-----------------------------------------------------------------------------
(* What a claim keeps. *)

\* What pruning and the expiry of the claimed record keep: nothing new, and
\* nothing live is lost.
LEMMA KeptFacts ==
  ASSUME NEW id \in Ids
  PROVE  /\ Kept(id) \subseteq stored
         /\ \A i \in stored : Live(i) => i \in Kept(id)
         /\ id \in Kept(id) => Live(id)
BY DEF Kept, Live

\* A send that is busy has all its fields.
LEMMA BusyFields ==
  ASSUME TypeOK, NEW s \in Sends, Busy(s)
  PROVE  /\ send[s] \in Sending
         /\ send[s].at \in Stages \ {"idle"} /\ send[s].id \in Ids
         /\ send[s].attempt \in Nat /\ send[s].createdAt \in Time
         /\ Generation(s) \in Ids \X Time
BY DEF TypeOK, Busy, Sending, Idle, Generation, Time

\* An empty ledger satisfies the invariant.
LEMMA InitIInv == Init => IInv
<1> SUFFICES ASSUME Init PROVE IInv
  OBVIOUS
<1>1. TypeOK
  BY LedgerBounds DEF Init, TypeOK, Time, Idle, Sending
<1>2. \A s \in Sends : ~Busy(s)
  BY DEF Init, Busy, Idle
<1>3. Fresh /\ Fence /\ Owner /\ Alone /\ Remembered
  BY <1>2 DEF Init, Fresh, Fence, Owner, Alone, Remembered
<1>4. Knows /\ Doubted /\ AtMostOnce /\ OutcomesAreTrue
  BY DEF Init, Knows, Doubted, AtMostOnce, OutcomesAreTrue, Idle
<1>5. QED
  BY <1>1, <1>3, <1>4 DEF IInv

-----------------------------------------------------------------------------
(* Type correctness, action by action. *)

\* The metadata a claim writes is well-formed.
LEMMA CountedType ==
  ASSUME TypeOK, NEW id \in Ids
  PROVE  Counted(id) \in [valid : BOOLEAN, count : Nat, nextPruneAt : Nat]
<1>1. IsFiniteSet(Kept(id))
  <2>1. Kept(id) \subseteq Ids
    BY KeptFacts DEF TypeOK
  <2>2. QED
    BY <2>1, LedgerBounds, FS_Subset
<1>2. Cardinality(Kept(id)) \in Nat
  BY <1>1, FS_CardinalityType
<1>3. QED
  BY <1>2, LedgerBounds DEF Counted, TypeOK, Time

\* Each ledger transaction, provider answer and restart keeps the types.
LEMMA TypeStep == TypeOK /\ [Next]_vars => TypeOK'
<1> SUFFICES ASSUME TypeOK, [Next]_vars PROVE TypeOK'
  OBVIOUS
<1> USE LedgerBounds
<1>1. CASE Tick
  BY <1>1 DEF Tick, TypeOK, Time
<1>2. CASE Restart
  <2>1. ASSUME NEW s \in Sends, send[s].at \in {"sending", "lost"}
        PROVE  [send[s] EXCEPT !.at = "lost"] \in Sending
    BY <2>1 DEF TypeOK, Sending, Stages, Idle
  <2>2. send' \in [Sends -> Sending \cup {Idle}]
    BY <1>2, <2>1 DEF Restart
  <2>3. QED
    BY <1>2, <2>2 DEF Restart, TypeOK
<1>3. ASSUME NEW id \in Ids, NEW request \in Requests, ClaimRefused(id, request)
      PROVE  TypeOK'
  <2>1. stored' \subseteq Ids
    BY <1>3, KeptFacts DEF ClaimRefused, TypeOK
  <2>2. ledger' \in [stored' -> Record]
    BY <1>3, KeptFacts DEF ClaimRefused, TypeOK
  <2>3. meta' \in [valid : BOOLEAN, count : Nat, nextPruneAt : Nat]
    BY <1>3, CountedType DEF ClaimRefused
  <2>4. QED
    BY <1>3, <2>1, <2>2, <2>3 DEF ClaimRefused, TypeOK
<1>4. ASSUME NEW id \in Ids, NEW request \in Requests, NEW s \in Sends,
             ClaimRetries(s, id, request)
      PROVE  TypeOK'
  <2>1. stored' \subseteq Ids /\ id \in stored'
    BY <1>4, KeptFacts DEF ClaimRetries, TypeOK, Live
  <2>2. /\ ledger[id] \in Record
        /\ [ledger[id] EXCEPT !.state = "attempting", !.attempt = attempts + 1] \in Record
    <3>1. ledger[id] \in Record /\ attempts + 1 \in Nat
      BY <1>4 DEF ClaimRetries, TypeOK, Live
    <3>2. QED
      BY <3>1 DEF Record, States
  <2>3. ledger' \in [stored' -> Record]
    BY <1>4, <2>1, <2>2, KeptFacts DEF ClaimRetries, Put, TypeOK
  <2>4. meta' \in [valid : BOOLEAN, count : Nat, nextPruneAt : Nat]
    BY <1>4, CountedType DEF ClaimRetries
  <2>5. /\ attempts' \in 0 .. MaxAttempts
        /\ send' \in [Sends -> Sending \cup {Idle}]
    BY <1>4, <2>2 DEF ClaimRetries, Begins, TypeOK, Sending, Stages, Record
  <2>6. QED
    BY <1>4, <2>1, <2>3, <2>4, <2>5 DEF ClaimRetries, TypeOK
<1>5. ASSUME NEW id \in Ids, NEW request \in Requests, NEW s \in Sends,
             ClaimCreates(s, id, request)
      PROVE  TypeOK'
  <2>1. stored' \subseteq Ids /\ stored' = Kept(id) \cup {id}
    BY <1>5, KeptFacts DEF ClaimCreates, TypeOK
  <2>2. [state |-> "attempting", request |-> request, attempt |-> attempts + 1,
         createdAt |-> now] \in Record
    BY DEF TypeOK, Record, States
  <2>3. ledger' \in [stored' -> Record]
    BY <1>5, <2>1, <2>2, KeptFacts DEF ClaimCreates, Put, TypeOK
  <2>4. meta' \in [valid : BOOLEAN, count : Nat, nextPruneAt : Nat]
    BY <1>5, CountedType DEF ClaimCreates
  <2>5. /\ attempts' \in 0 .. MaxAttempts
        /\ send' \in [Sends -> Sending \cup {Idle}]
    BY <1>5 DEF ClaimCreates, Begins, TypeOK, Sending, Stages
  <2>6. QED
    BY <1>5, <2>1, <2>3, <2>4, <2>5 DEF ClaimCreates, TypeOK
<1>6. ASSUME NEW s \in Sends,
             ProviderTakes(s) \/ ProviderRecognises(s) \/ ProviderRefuses(s) \/ LateMessage(s)
      PROVE  TypeOK'
  <2>1. Busy(s)
    BY <1>6 DEF ProviderTakes, ProviderRecognises, ProviderRefuses, LateMessage, Busy
  <2>2. send' \in [Sends -> Sending \cup {Idle}]
    BY <1>6, <2>1, BusyFields
       DEF ProviderTakes, ProviderRecognises, ProviderRefuses, LateMessage, TypeOK, Sending, Stages
  <2>3. accepted' \in [Ids \X Time -> Nat] /\ doubts' \in [Ids \X Time -> Nat]
    BY <1>6, <2>1, BusyFields DEF ProviderTakes, ProviderRecognises, ProviderRefuses, LateMessage,
                                  TypeOK
  <2>4. QED
    BY <1>6, <2>2, <2>3 DEF ProviderTakes, ProviderRecognises, ProviderRefuses, LateMessage, TypeOK
<1>7. ASSUME NEW s \in Sends, RecordOutcome(s) \/ OutcomeIsLost(s)
      PROVE  TypeOK'
  <2>1. Busy(s)
    BY <1>7 DEF RecordOutcome, OutcomeIsLost, Busy
  <2>2. send' \in [Sends -> Sending \cup {Idle}]
    BY <1>7 DEF RecordOutcome, OutcomeIsLost, TypeOK
  <2>3. ledger' \in [stored -> Record]
    <3>1. CASE ledger' = ledger
      BY <3>1 DEF TypeOK
    <3>2. CASE ledger' # ledger
      <4>1. /\ RecordOutcome(s) /\ send[s].id \in stored
            /\ send[s].at \in {"sent", "ambiguous", "failed", "retryable"}
            /\ ledger' = [ledger EXCEPT ![send[s].id].state = send[s].at]
        BY <1>7, <3>2 DEF RecordOutcome, OutcomeIsLost, IsMatchingAttempt
      <4>2. ledger[send[s].id] \in Record
        BY <4>1 DEF TypeOK
      <4>3. [ledger[send[s].id] EXCEPT !.state = send[s].at] \in Record
        BY <4>1, <4>2 DEF Record, States
      <4>4. QED
        BY <4>1, <4>3 DEF TypeOK
    <3>3. QED
      BY <3>1, <3>2
  <2>4. QED
    BY <1>7, <2>2, <2>3 DEF RecordOutcome, OutcomeIsLost, TypeOK
<1>8. CASE UNCHANGED vars
  BY <1>8 DEF vars, TypeOK
<1>9. QED
  BY <1>1, <1>2, <1>3, <1>4, <1>5, <1>6, <1>7, <1>8 DEF Next

\* Every variable keeps to its type.
THEOREM TypeCorrect == Spec => []TypeOK
<1>1. Init => TypeOK
  BY InitIInv DEF IInv
<1>2. QED
  BY <1>1, TypeStep, PTL DEF Spec

-----------------------------------------------------------------------------
(* The invariant, one lemma per group of actions. *)

\* The generations of two sends differ when the sends do.
LEMMA DistinctGenerations ==
  ASSUME TypeOK, Alone, NEW s \in Sends, NEW t \in Sends, Busy(s), Busy(t), s # t
  PROVE  Generation(s) # Generation(t)
BY DEF Alone, Generation

\* Time only makes records expire.
LEMMA TickKeeps ==
  ASSUME IInv, Tick, TypeOK' PROVE IInv'
<1>1. \A c \in Time : c + Retention > now' => c + Retention > now
  BY LedgerBounds DEF IInv, TypeOK, Tick, Time
<1>2. (\A s \in Sends : Busy(s) => send[s].createdAt \in Time)
  BY BusyFields DEF IInv
<1>3. Fresh' /\ Fence' /\ Owner' /\ Alone' /\ Knows' /\ Doubted' /\ AtMostOnce' /\ OutcomesAreTrue'
  BY DEF IInv, Tick, Fresh, Fence, Owner, Alone, Knows, Doubted, AtMostOnce, OutcomesAreTrue, Busy,
         Generation
<1>4. Remembered'
  BY <1>1, <1>2 DEF IInv, Tick, Remembered, Busy
<1>5. QED
  BY <1>3, <1>4 DEF IInv

\* A restart frees sends; those the provider still has stay their attempt's.
LEMMA RestartKeeps ==
  ASSUME IInv, Restart, TypeOK' PROVE IInv'
<1>1. ASSUME NEW s \in Sends, Busy(s)'
      PROVE  /\ Busy(s) /\ send[s].at \in {"sending", "lost"} /\ send'[s].at = "lost"
             /\ send'[s].id = send[s].id /\ send'[s].attempt = send[s].attempt
             /\ send'[s].createdAt = send[s].createdAt
  <2>1. send[s].at \in {"sending", "lost"}
    BY <1>1 DEF Restart, Busy, Idle
  <2>2. send[s] \in Sending
    BY <2>1, BusyFields DEF IInv, Busy
  <2>3. QED
    BY <2>1, <2>2 DEF Restart, Busy, Sending
<1>2. Fresh' /\ Fence' /\ Owner' /\ Alone'
  BY <1>1 DEF IInv, Restart, Fresh, Fence, Owner, Alone
<1>3. Remembered'
  BY <1>1 DEF IInv, Restart, Remembered
<1>4. Knows'
  <2>1. ASSUME NEW s \in Sends, send'[s].at # "idle"
        PROVE  /\ accepted[Generation(s)] = doubts[Generation(s)]
               /\ Generation(s)' = Generation(s) /\ send'[s].at = "lost"
    BY <2>1, <1>1 DEF IInv, Knows, Busy, Generation
  <2>2. QED
    BY <2>1 DEF Knows, Restart
<1>5. Doubted' /\ AtMostOnce' /\ OutcomesAreTrue'
  BY DEF IInv, Restart, Doubted, AtMostOnce, OutcomesAreTrue
<1>6. QED
  BY <1>2, <1>3, <1>4, <1>5 DEF IInv

\* A refused claim changes nothing but drops records past their retention.
LEMMA RefusalKeeps ==
  ASSUME IInv, NEW id \in Ids, NEW request \in Requests, ClaimRefused(id, request), TypeOK'
  PROVE  IInv'
<1>1. /\ stored' \subseteq stored
      /\ \A i \in stored' : ledger'[i] = ledger[i]
      /\ \A i \in stored : Live(i) => i \in stored'
  BY KeptFacts DEF ClaimRefused
<1>2. UNCHANGED <<now, send, attempts, accepted, doubts>>
  BY DEF ClaimRefused
<1>3. Fresh' /\ Fence' /\ Owner' /\ Alone' /\ Knows' /\ Doubted' /\ AtMostOnce' /\ OutcomesAreTrue'
  BY <1>1, <1>2 DEF IInv, Fresh, Fence, Owner, Alone, Knows, Doubted, AtMostOnce, OutcomesAreTrue,
                    Busy, Generation
<1>4. Remembered'
  BY <1>1, <1>2 DEF IInv, Remembered, Busy, Live
<1>5. QED
  BY <1>3, <1>4 DEF IInv

\* A claim that is granted: `born` is the generation, which has no other send
\* and was accepted in doubt at most, and the ledger gets the record of the new attempt.
LEMMA GrantKeeps ==
  ASSUME IInv, TypeOK', NEW id \in Ids, NEW s \in Sends, NEW born \in Time,
         ~Busy(s), now' = now, accepted' = accepted, doubts' = doubts,
         Begins(s, id, born),
         stored' = Kept(id) \cup {id},
         \A i \in Kept(id) : i # id => ledger'[i] = ledger[i],
         /\ ledger'[id].state = "attempting" /\ ledger'[id].attempt = attempts + 1
         /\ ledger'[id].createdAt = born,
         accepted[<<id, born>>] = doubts[<<id, born>>],
         \A t \in Sends : Busy(t) => ~(send[t].id = id /\ send[t].createdAt = born),
         Live(id) => born = ledger[id].createdAt
  PROVE  IInv'
<1>1. /\ Busy(s)' /\ send'[s].at = "sending" /\ send'[s].id = id
      /\ send'[s].attempt = attempts + 1 /\ send'[s].createdAt = born
      /\ \A t \in Sends : t # s => send'[t] = send[t]
  BY DEF Begins, Busy, IInv, TypeOK
<1>2. attempts' = attempts + 1 /\ attempts \in Nat
  BY LedgerBounds DEF Begins, IInv, TypeOK
<1>3. \A t \in Sends : Busy(t) => send[t].attempt \in Nat /\ send[t].attempt <= attempts
  BY BusyFields DEF IInv, Fresh
<1>4. \A i \in stored : ledger[i].attempt \in Nat /\ ledger[i].attempt <= attempts
  BY DEF IInv, Fresh, TypeOK, Record
<1>5. Kept(id) \subseteq stored /\ \A i \in stored : Live(i) => i \in Kept(id)
  BY KeptFacts
<1>6. Fresh'
  BY <1>1, <1>2, <1>3, <1>4, <1>5 DEF Fresh, Busy
<1>7. Fence'
  <2> SUFFICES ASSUME NEW t \in Sends, Busy(t)', send'[t].id \in stored',
                      ledger'[send'[t].id].attempt = send'[t].attempt
               PROVE  ledger'[send'[t].id].createdAt = send'[t].createdAt
    BY DEF Fence
  <2>1. CASE t = s
    BY <2>1, <1>1
  <2>2. CASE t # s /\ send[t].id = id
    BY <2>2, <1>1, <1>2, <1>3 DEF Busy
  <2>3. CASE t # s /\ send[t].id # id
    BY <2>3, <1>1, <1>5 DEF IInv, Fence, Busy
  <2>4. QED
    BY <2>1, <2>2, <2>3
<1>8. Owner'
  <2> SUFFICES ASSUME NEW t \in Sends, Busy(t)', send'[t].id \in stored',
                      ledger'[send'[t].id].createdAt = send'[t].createdAt
               PROVE  /\ ledger'[send'[t].id].state = "attempting"
                      /\ ledger'[send'[t].id].attempt = send'[t].attempt
    BY DEF Owner
  <2>1. CASE t = s
    BY <2>1, <1>1
  <2>2. CASE t # s
    <3>1. Busy(t) /\ send'[t] = send[t] /\ send[t].id # id
      BY <2>2, <1>1 DEF Busy
    <3>2. QED
      BY <3>1, <1>5 DEF IInv, Owner
  <2>3. QED
    BY <2>1, <2>2
<1>9. Alone'
  BY <1>1 DEF IInv, Alone, Busy
<1>10. Remembered'
  <2>1. ASSUME NEW t \in Sends, Busy(t)', send'[t].createdAt + Retention > now
        PROVE  send'[t].id \in stored' /\ ledger'[send'[t].id].createdAt = send'[t].createdAt
    <3>1. CASE t = s
      BY <2>1, <3>1, <1>1
    <3>2. CASE t # s
      <4>1. Busy(t) /\ send'[t] = send[t]
        BY <2>1, <3>2, <1>1 DEF Busy
      <4>2. send[t].id \in stored /\ ledger[send[t].id].createdAt = send[t].createdAt
              /\ Live(send[t].id)
        BY <4>1, <2>1 DEF IInv, Remembered, Live
      <4>3. send[t].id # id
        BY <4>1, <4>2
      <4>4. QED
        BY <4>1, <4>2, <4>3, <1>5
    <3>3. QED
      BY <3>1, <3>2
  <2>2. ASSUME NEW i \in Ids, NEW c \in Time, accepted[<<i, c>>] > 0, c + Retention > now
        PROVE  i \in stored' /\ ledger'[i].createdAt = c
    <3>1. i \in stored /\ ledger[i].createdAt = c /\ Live(i)
      BY <2>2 DEF IInv, Remembered, Live
    <3>2. QED
      BY <3>1, <1>5
  <2>3. QED
    BY <2>1, <2>2 DEF Remembered
<1>11. Knows'
  BY <1>1 DEF IInv, Knows, Generation
<1>12. Doubted' /\ AtMostOnce' /\ OutcomesAreTrue'
  BY <1>5 DEF IInv, Doubted, AtMostOnce, OutcomesAreTrue
<1>13. QED
  BY <1>6, <1>7, <1>8, <1>9, <1>10, <1>11, <1>12 DEF IInv

\* A retried claim is a grant: nobody else holds the released delivery.
LEMMA RetryKeeps ==
  ASSUME IInv, NEW id \in Ids, NEW request \in Requests, NEW s \in Sends,
         ClaimRetries(s, id, request), TypeOK'
  PROVE  IInv'
<1> DEFINE born == ledger[id].createdAt
<1>1. /\ id \in stored /\ Live(id) /\ ledger[id] \in Record /\ born \in Time
      /\ ledger[id].state = "retryable" /\ id \in Kept(id)
  BY KeptFacts DEF ClaimRetries, Live, IInv, TypeOK, Record
<1>2. accepted[<<id, born>>] = doubts[<<id, born>>]
  BY <1>1 DEF IInv, OutcomesAreTrue
<1>3. \A t \in Sends : Busy(t) => ~(send[t].id = id /\ send[t].createdAt = born)
  BY <1>1 DEF IInv, Owner
<1>4. /\ ledger'[id].state = "attempting" /\ ledger'[id].attempt = attempts + 1
      /\ ledger'[id].createdAt = born
  BY <1>1 DEF ClaimRetries, Put, Record
<1>5. \A i \in Kept(id) : i # id => ledger'[i] = ledger[i]
  BY DEF ClaimRetries, Put
<1>6. /\ ~Busy(s) /\ UNCHANGED <<now, accepted, doubts>> /\ Begins(s, id, born)
      /\ stored' = Kept(id) \cup {id}
  BY <1>1 DEF ClaimRetries, Busy, Idle
<1>7. QED
  BY <1>1, <1>2, <1>3, <1>4, <1>5, <1>6, GrantKeeps

\* A created claim is a grant: no send of the expired record has its createdAt.
LEMMA CreationKeeps ==
  ASSUME IInv, NEW id \in Ids, NEW request \in Requests, NEW s \in Sends,
         ClaimCreates(s, id, request), TypeOK'
  PROVE  IInv'
<1>1. now \in Time /\ now + Retention > now /\ ~Live(id)
  BY LedgerBounds DEF IInv, TypeOK, Time, ClaimCreates
<1>2. \A t \in Sends : Busy(t) => ~(send[t].id = id /\ send[t].createdAt = now)
  BY <1>1 DEF IInv, Remembered, Live
<1>3. accepted[<<id, now>>] = doubts[<<id, now>>]
  <2>1. accepted[<<id, now>>] \in Nat /\ ~(accepted[<<id, now>>] > 0)
    BY <1>1 DEF IInv, TypeOK, Remembered, Live
  <2>2. doubts[<<id, now>>] \in Nat /\ doubts[<<id, now>>] <= accepted[<<id, now>>]
    BY <1>1 DEF IInv, TypeOK, Doubted
  <2>3. QED
    BY <2>1, <2>2
<1>4. /\ ledger'[id].state = "attempting" /\ ledger'[id].attempt = attempts + 1
      /\ ledger'[id].createdAt = now
  BY DEF ClaimCreates, Put
<1>5. \A i \in Kept(id) : i # id => ledger'[i] = ledger[i]
  BY DEF ClaimCreates, Put
<1>6. /\ ~Busy(s) /\ UNCHANGED <<now, accepted, doubts>> /\ Begins(s, id, now)
      /\ stored' = Kept(id) \cup {id}
  BY DEF ClaimCreates, Busy, Idle
<1>7. QED
  BY <1>1, <1>2, <1>3, <1>4, <1>5, <1>6, GrantKeeps

\* The provider takes or refuses the message of an open send, or the message of
\* a lost one arrives.
LEMMA ProviderKeeps ==
  ASSUME IInv, NEW s \in Sends, TypeOK',
         ProviderTakes(s) \/ ProviderRecognises(s) \/ ProviderRefuses(s) \/ LateMessage(s)
  PROVE  IInv'
<1>1. /\ Busy(s) /\ Generation(s) \in Ids \X Time
      /\ accepted[Generation(s)] = doubts[Generation(s)]
  BY BusyFields DEF ProviderTakes, ProviderRecognises, ProviderRefuses, LateMessage, Busy, IInv,
                    Knows
<1>2. /\ \A t \in Sends : t # s => send'[t] = send[t]
      /\ Busy(s)' => /\ send'[s].id = send[s].id /\ send'[s].attempt = send[s].attempt
                     /\ send'[s].createdAt = send[s].createdAt
      /\ send'[s].at \in {"idle", "sent", "ambiguous", "retryable", "failed"}
  BY <1>1, BusyFields DEF ProviderTakes, ProviderRecognises, ProviderRefuses, LateMessage, Busy,
                          Idle, IInv, TypeOK, Sending
<1>3. /\ \A g \in Ids \X Time : g # Generation(s) =>
           accepted'[g] = accepted[g] /\ doubts'[g] = doubts[g]
      /\ doubts'[Generation(s)] <= accepted'[Generation(s)]
      /\ accepted'[Generation(s)] <= 1 + doubts'[Generation(s)]
      /\ ~ReleasesDoubts => doubts'[Generation(s)] = doubts[Generation(s)]
      /\ send'[s].at = "sent" => accepted'[Generation(s)] >= 1
      /\ send'[s].at \in {"retryable", "failed"} =>
           accepted'[Generation(s)] = doubts'[Generation(s)]
  <2>1. accepted \in [Ids \X Time -> Nat] /\ doubts \in [Ids \X Time -> Nat]
    BY DEF IInv, TypeOK
  <2>2. send[s] \in Sending /\ send \in [Sends -> Sending \cup {Idle}]
    BY <1>1, BusyFields DEF IInv, TypeOK
  <2>3. CASE ProviderTakes(s)
    <3>1. accepted'[Generation(s)] = doubts[Generation(s)] + 1
      BY <1>1, <2>1, <2>3 DEF ProviderTakes
    <3>2. CASE UNCHANGED doubts
      <4>1. send'[s].at \in {"sent", "ambiguous"}
        BY <2>1, <2>2, <2>3, <3>2, <1>1 DEF ProviderTakes, Sending
      <4> QED
        BY <1>1, <2>1, <2>3, <3>1, <3>2, <4>1 DEF ProviderTakes
    <3>3. CASE ~UNCHANGED doubts
      <4>1. ReleasesDoubts /\ send'[s].at = "retryable"
        BY <2>2, <2>3, <3>3 DEF ProviderTakes, Sending
      <4>2. doubts' = [doubts EXCEPT ![Generation(s)] = @ + 1]
        BY <2>3, <3>3 DEF ProviderTakes
      <4> QED
        BY <1>1, <2>1, <2>3, <3>1, <4>1, <4>2 DEF ProviderTakes
    <3> QED
      BY <3>2, <3>3
  <2>4. CASE ProviderRecognises(s)
    <3>1. /\ send'[s].at \in {"sent", "ambiguous"} /\ UNCHANGED <<accepted, doubts>>
          /\ accepted[Generation(s)] > 0
      BY <2>2, <2>4 DEF ProviderRecognises, Sending
    <3> QED
      BY <1>1, <2>1, <3>1
  <2>5. CASE ProviderRefuses(s)
    BY <1>1, <2>1, <2>2, <2>5 DEF ProviderRefuses, Sending
  <2>6. CASE LateMessage(s)
    BY <1>1, <2>1, <2>2, <2>6 DEF LateMessage, Idle
  <2> QED
    BY <2>3, <2>4, <2>5, <2>6
<1>4. UNCHANGED <<now, stored, ledger, attempts>>
  BY DEF ProviderTakes, ProviderRecognises, ProviderRefuses, LateMessage
<1>5. \A t \in Sends : Busy(t)' => Busy(t) /\ send'[t].id = send[t].id
         /\ send'[t].attempt = send[t].attempt /\ send'[t].createdAt = send[t].createdAt
  BY <1>1, <1>2 DEF Busy
<1>6. Fresh' /\ Fence' /\ Owner' /\ Alone'
  BY <1>4, <1>5 DEF IInv, Fresh, Fence, Owner, Alone
<1>7. Remembered'
  <2>1. ASSUME NEW i \in Ids, NEW c \in Time, accepted'[<<i, c>>] > 0, c + Retention > now
        PROVE  i \in stored /\ ledger[i].createdAt = c
    <3>1. CASE <<i, c>> = Generation(s)
      BY <2>1, <3>1, <1>1 DEF IInv, Remembered, Generation
    <3>2. CASE <<i, c>> # Generation(s)
      BY <2>1, <3>2, <1>3 DEF IInv, Remembered
    <3>3. QED
      BY <3>1, <3>2
  <2>2. QED
    BY <2>1, <1>4, <1>5 DEF IInv, Remembered
<1>8. Knows'
  <2> SUFFICES ASSUME NEW t \in Sends
               PROVE  /\ send'[t].at \in {"sending", "lost", "retryable", "failed"} =>
                           accepted'[Generation(t)'] = doubts'[Generation(t)']
                      /\ send'[t].at = "sent" => accepted'[Generation(t)'] >= 1
    BY DEF Knows
  <2>1. CASE t = s
    BY <2>1, <1>2, <1>3, <1>5 DEF Generation, Busy
  <2>2. CASE t # s /\ Busy(t)
    <3>1. Generation(t)' = Generation(t) /\ send'[t] = send[t]
      BY <2>2, <1>2 DEF Generation
    <3>2. Generation(t) \in Ids \X Time /\ Generation(t) # Generation(s)
      BY <2>2, <1>1, BusyFields, DistinctGenerations DEF IInv
    <3>3. QED
      BY <3>1, <3>2, <1>3 DEF IInv, Knows
  <2>3. CASE t # s /\ ~Busy(t)
    BY <2>3, <1>2 DEF Busy
  <2>4. QED
    BY <2>1, <2>2, <2>3
<1>9. AtMostOnce' /\ Doubted'
  BY <1>1, <1>3 DEF IInv, AtMostOnce, Doubted
<1>10. OutcomesAreTrue'
  <2>1. ASSUME NEW i \in stored, ledger[i].state \in {"sent", "retryable", "failed"}
        PROVE  <<i, ledger[i].createdAt>> # Generation(s)
                 /\ <<i, ledger[i].createdAt>> \in Ids \X Time
    BY <2>1, <1>1 DEF IInv, Owner, Generation, TypeOK, Record
  <2>2. QED
    BY <2>1, <1>3, <1>4 DEF IInv, OutcomesAreTrue
<1>11. QED
  BY <1>6, <1>7, <1>8, <1>9, <1>10 DEF IInv

\* The send ends, and its outcome replaces its own attempt or nothing.
LEMMA OutcomeKeeps ==
  ASSUME IInv, NEW s \in Sends, TypeOK', RecordOutcome(s) \/ OutcomeIsLost(s)
  PROVE  IInv'
<1>1. /\ Busy(s) /\ send[s].id \in Ids
      /\ send[s].at \in {"sent", "ambiguous", "failed", "retryable"}
  BY BusyFields DEF RecordOutcome, OutcomeIsLost, Busy, IInv
<1>2. /\ ~Busy(s)' /\ \A t \in Sends : t # s => send'[t] = send[t]
      /\ UNCHANGED <<now, stored, attempts, accepted, doubts>>
  BY DEF RecordOutcome, OutcomeIsLost, Busy, Idle, IInv, TypeOK
<1>3. \A t \in Sends : Busy(t)' => t # s /\ Busy(t) /\ send'[t] = send[t]
  BY <1>2 DEF Busy
<1>4. ASSUME NEW i \in stored
      PROVE  /\ ledger'[i].createdAt = ledger[i].createdAt
             /\ ledger'[i].attempt = ledger[i].attempt
             /\ ledger'[i].state # ledger[i].state =>
                  /\ i = send[s].id /\ ledger[i].createdAt = send[s].createdAt
                  /\ ledger'[i].state = send[s].at
  BY <1>1 DEF RecordOutcome, OutcomeIsLost, IsMatchingAttempt, IInv, Fence, TypeOK, Record
<1>5. Fresh' /\ Fence' /\ Alone' /\ Remembered'
  BY <1>2, <1>3, <1>4 DEF IInv, Fresh, Fence, Alone, Remembered
<1>6. Owner'
  BY <1>1, <1>2, <1>3, <1>4 DEF IInv, Owner, Alone
<1>7. Knows'
  BY <1>2, <1>3 DEF IInv, Knows, Busy, Generation
<1>8. Doubted' /\ AtMostOnce' /\ OutcomesAreTrue'
  <2>1. ASSUME NEW i \in stored, ledger'[i].state # ledger[i].state
        PROVE  /\ ledger'[i].state = "sent" => accepted[<<i, ledger[i].createdAt>>] >= 1
               /\ ledger'[i].state \in {"retryable", "failed"} =>
                    accepted[<<i, ledger[i].createdAt>>] = doubts[<<i, ledger[i].createdAt>>]
    BY <2>1, <1>4 DEF IInv, Knows, Generation
  <2>2. QED
    BY <2>1, <1>2, <1>4 DEF IInv, Doubted, AtMostOnce, OutcomesAreTrue
<1>9. QED
  BY <1>5, <1>6, <1>7, <1>8 DEF IInv

\* Every step keeps the invariant.
LEMMA StepKeeps == IInv /\ [Next]_vars => IInv'
<1> SUFFICES ASSUME IInv, [Next]_vars PROVE IInv'
  OBVIOUS
<1>1. TypeOK'
  BY TypeStep DEF IInv
<1>2. CASE UNCHANGED vars
  BY <1>2 DEF vars, IInv, TypeOK, Fresh, Fence, Owner, Alone, Remembered, Knows, Doubted,
              AtMostOnce, OutcomesAreTrue, Busy, Generation
<1>3. QED
  BY <1>1, <1>2, TickKeeps, RestartKeeps, RefusalKeeps, RetryKeeps, CreationKeeps,
     ProviderKeeps, OutcomeKeeps DEF Next

\* The invariant holds for ever.
LEMMA Invariance == Spec => []IInv
BY InitIInv, StepKeeps, PTL DEF Spec

\* The provider takes each remembered delivery at most once: exactly so when its
\* answers leave nothing open, otherwise once more for each that did.
THEOREM DeliveredAtMostOnce ==
  Spec => [](AtMostOnce /\ (~ReleasesDoubts => \A g \in Ids \X Time : accepted[g] <= 1))
<1>1. IInv => AtMostOnce /\ (~ReleasesDoubts => \A g \in Ids \X Time : accepted[g] <= 1)
  <2> SUFFICES ASSUME IInv, NEW g \in Ids \X Time
               PROVE  /\ accepted[g] <= 1 + doubts[g]
                      /\ ~ReleasesDoubts => accepted[g] <= 1
    BY DEF AtMostOnce
  <2> QED
    BY DEF IInv, TypeOK, AtMostOnce, Doubted
<1>2. QED
  BY <1>1, Invariance, PTL

\* What a repeated send is told of an earlier one is true, as far as the answers of
\* the provider tell.
THEOREM RecordsAreTrue == Spec => []OutcomesAreTrue
<1>1. IInv => OutcomesAreTrue
  BY DEF IInv
<1>2. QED
  BY <1>1, Invariance, PTL

-----------------------------------------------------------------------------
(* The count, and the permanence of live records. *)

\* After a claim has pruned, its count is that of the records it keeps.
LEMMA CountedFacts ==
  ASSUME TypeOK, CountIsExact, NEW id \in Ids
  PROVE  /\ Counted(id).valid /\ Counted(id).count = Cardinality(Kept(id))
         /\ IsFiniteSet(Kept(id)) /\ Cardinality(Kept(id)) \in Nat
         /\ Cardinality(Kept(id)) <= MaxRecords
<1>1. IsFiniteSet(stored) /\ Kept(id) \subseteq stored
  BY LedgerBounds, FS_Subset, KeptFacts DEF TypeOK
<1>2. /\ IsFiniteSet(Kept(id)) /\ Cardinality(Kept(id)) <= Cardinality(stored)
      /\ Cardinality(Kept(id)) \in Nat /\ Cardinality(stored) \in Nat
  BY <1>1, FS_Subset, FS_CardinalityType
<1>3. CASE PruneDue
  BY <1>2, <1>3, LedgerBounds DEF Counted, CountIsExact
<1>4. CASE ~PruneDue /\ id \in stored /\ ~Live(id)
  <2>1. Kept(id) = stored \ {id}
    BY <1>4 DEF Kept
  <2>2. Cardinality(Kept(id)) = Cardinality(stored) - 1
    BY <1>1, <1>4, <2>1, FS_RemoveElement
  <2>3. meta.valid /\ meta.count = Cardinality(stored) /\ meta.count > 0
    BY <1>2, <1>4, <2>2 DEF PruneDue, CountIsExact
  <2>4. Counted(id) = [meta EXCEPT !.count = meta.count - 1]
    BY <1>4, <2>3 DEF Counted
  <2>5. Counted(id).valid /\ Counted(id).count = meta.count - 1
    BY <2>3, <2>4 DEF TypeOK
  <2>6. QED
    BY <1>2, <2>2, <2>3, <2>5, LedgerBounds DEF CountIsExact
<1>5. CASE ~PruneDue /\ (id \in stored => Live(id))
  <2>1. Kept(id) = stored
    BY <1>5 DEF Kept
  <2>2. Counted(id) = [meta EXCEPT !.count = meta.count]
    BY <1>5 DEF Counted
  <2>3. Counted(id).valid /\ Counted(id).count = meta.count
    BY <1>5, <2>2 DEF TypeOK, PruneDue
  <2>4. QED
    BY <1>2, <1>5, <2>1, <2>3 DEF CountIsExact, PruneDue
<1>6. QED
  BY <1>3, <1>4, <1>5

\* Every step keeps the count exact.
LEMMA CountStep == TypeOK /\ CountIsExact /\ [Next]_vars => CountIsExact'
<1> SUFFICES ASSUME TypeOK, CountIsExact, [Next]_vars PROVE CountIsExact'
  OBVIOUS
<1>1. ASSUME NEW id \in Ids, NEW request \in Requests, ClaimRefused(id, request)
      PROVE  CountIsExact'
  BY <1>1, CountedFacts DEF ClaimRefused, CountIsExact
<1>2. ASSUME NEW id \in Ids, NEW request \in Requests, NEW s \in Sends,
             ClaimRetries(s, id, request)
      PROVE  CountIsExact'
  BY <1>2, CountedFacts DEF ClaimRetries, CountIsExact
<1>3. ASSUME NEW id \in Ids, NEW request \in Requests, NEW s \in Sends,
             ClaimCreates(s, id, request)
      PROVE  CountIsExact'
  <2>1. id \notin Kept(id) /\ Cardinality(Kept(id)) < MaxRecords
    BY <1>3, KeptFacts, CountedFacts DEF ClaimCreates
  <2>2. Cardinality(stored') = Cardinality(Kept(id)) + 1
    BY <1>3, <2>1, CountedFacts, FS_AddElement DEF ClaimCreates
  <2>3. meta'.valid /\ meta'.count = Cardinality(Kept(id)) + 1
    BY <1>3, CountedFacts, CountedType DEF ClaimCreates
  <2>4. QED
    BY <2>1, <2>2, <2>3, CountedFacts, LedgerBounds DEF CountIsExact
<1>4. CASE \/ Tick \/ Restart \/ UNCHANGED vars
           \/ \E s \in Sends : \/ ProviderTakes(s) \/ ProviderRecognises(s)
                               \/ ProviderRefuses(s) \/ LateMessage(s)
                               \/ RecordOutcome(s) \/ OutcomeIsLost(s)
  BY <1>4 DEF Tick, Restart, vars, ProviderTakes, ProviderRecognises, ProviderRefuses,
              LateMessage, RecordOutcome, OutcomeIsLost, CountIsExact
<1>5. QED
  BY <1>1, <1>2, <1>3, <1>4 DEF Next

\* The maintained count is exact and within the limit.
THEOREM CountsExactly == Spec => []CountIsExact
<1>1. Init => TypeOK /\ CountIsExact
  BY InitIInv, FS_EmptySet, LedgerBounds DEF Init, IInv, CountIsExact
<1>2. QED
  BY <1>1, TypeStep, CountStep, PTL DEF Spec

\* A live record stays, with its request and its age.
THEOREM RemembersWhatLives == Spec => NeverForgotten
<1> DEFINE Permanent == \A i \in stored : Live(i) =>
       i \in stored' /\ ledger'[i].request = ledger[i].request
                     /\ ledger'[i].createdAt = ledger[i].createdAt
<1>1. TypeOK /\ [Next]_vars => [Permanent]_vars
  <2> SUFFICES ASSUME TypeOK, Next, NEW i \in stored, Live(i)
               PROVE  i \in stored' /\ ledger'[i].request = ledger[i].request
                                    /\ ledger'[i].createdAt = ledger[i].createdAt
    OBVIOUS
  <2>1. ASSUME NEW id \in Ids, NEW request \in Requests, ClaimRefused(id, request)
        PROVE  i \in stored' /\ ledger'[i] = ledger[i]
    BY <2>1, KeptFacts DEF ClaimRefused
  <2>2. ASSUME NEW id \in Ids, NEW request \in Requests, NEW s \in Sends,
               ClaimRetries(s, id, request) \/ ClaimCreates(s, id, request)
        PROVE  i \in stored' /\ ledger'[i].request = ledger[i].request
                             /\ ledger'[i].createdAt = ledger[i].createdAt
    <3>1. i \in Kept(id) /\ i \in stored' /\ ledger[i] \in Record
      BY <2>2, KeptFacts DEF ClaimRetries, ClaimCreates, TypeOK
    <3>2. CASE i # id
      BY <2>2, <3>1, <3>2 DEF ClaimRetries, ClaimCreates, Put
    <3>3. CASE i = id
      <4>1. ClaimRetries(s, id, request)
        BY <2>2, <3>3 DEF ClaimCreates
      <4>2. ledger'[id] = [ledger[id] EXCEPT !.state = "attempting", !.attempt = attempts + 1]
        BY <4>1 DEF ClaimRetries, Put
      <4>3. QED
        BY <3>1, <3>3, <4>2 DEF Record
    <3>4. QED
      BY <3>2, <3>3
  <2>3. ASSUME NEW s \in Sends, RecordOutcome(s)
        PROVE  i \in stored' /\ ledger'[i].request = ledger[i].request
                             /\ ledger'[i].createdAt = ledger[i].createdAt
    BY <2>3 DEF RecordOutcome, IsMatchingAttempt, TypeOK, Record
  <2>4. CASE \/ Tick \/ Restart
             \/ \E s \in Sends : \/ ProviderTakes(s) \/ ProviderRecognises(s)
                                 \/ ProviderRefuses(s) \/ LateMessage(s)
                                 \/ OutcomeIsLost(s)
    BY <2>4 DEF Tick, Restart, ProviderTakes, ProviderRecognises, ProviderRefuses, LateMessage,
                OutcomeIsLost
  <2>5. QED
    BY <2>1, <2>2, <2>3, <2>4 DEF Next
<1>2. QED
  BY <1>1, TypeCorrect, PTL DEF Spec, NeverForgotten
=============================================================================

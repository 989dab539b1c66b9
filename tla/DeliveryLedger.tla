--------------------------- MODULE DeliveryLedger ---------------------------
(***************************************************************************)
(* The account-local ledger of outbound deliveries of a messaging adapter  *)
(* (adapters/shared/src/delivery-ledger.ts) and the sends that use it      *)
(* (telegram-account.ts, whatsapp-account.ts, discord-delivery.ts).        *)
(*                                                                         *)
(* A send claims its delivery id, talks to the provider and records the    *)
(* outcome; the Gateway repeats sends, sends overlap, the adapter restarts *)
(* between any two steps, and records expire. A ledger transaction is one  *)
(* action: claim, and each of the functions that replace an attempt.       *)
(***************************************************************************)
EXTENDS Naturals, FiniteSets

CONSTANTS Ids,         \* delivery ids
          Requests,    \* fingerprints of destination and content
          Sends,       \* sends that can be in progress together
          MaxRecords, Retention, PruneInterval,
          ReleasesDoubts, \* the adapter releases a delivery on answers that leave open
                          \* whether the provider took it: Discord's on 408 and 5xx,
                          \* Telegram's and WhatsApp's call these ambiguous
          MaxTime,     \* bound on the clock
          MaxAttempts  \* bound on the attempt ids handed out

ASSUME LedgerBounds ==
  /\ IsFiniteSet(Ids)
  /\ MaxRecords \in Nat \ {0} /\ Retention \in Nat \ {0} /\ PruneInterval \in Nat \ {0}
  /\ ReleasesDoubts \in BOOLEAN
  /\ MaxTime \in Nat /\ MaxAttempts \in Nat

VARIABLES
  now,       \* Date.now()
  stored,    \* ids with a record in storage
  ledger,    \* the record of each stored id
  meta,      \* the META_KEY value; "valid" says whether there is one
  send,      \* each send: where it is, its id, its attempt and the record's createdAt
  attempts,  \* attempt ids handed out so far
  accepted,  \* <<id, createdAt>> -> how often the provider took the message,
  doubts     \* ... and how often it then answered with a code that releases it

vars == <<now, stored, ledger, meta, send, attempts, accepted, doubts>>

Time == 0 .. MaxTime
States == {"attempting", "retryable", "sent", "ambiguous", "failed"}
Record == [state : States, request : Requests, attempt : Nat, createdAt : Time]

\* A send is in the provider's hands, has learnt an outcome, or was cut off by
\* a restart while the provider still had its message.
Stages == {"idle", "sending", "lost", "sent", "ambiguous", "failed", "retryable"}

Idle == [at |-> "idle"]
Sending == [at : Stages \ {"idle"}, id : Ids, attempt : Nat, createdAt : Time]

Live(i) == i \in stored /\ ledger[i].createdAt + Retention > now

Init ==
  /\ now = 0
  /\ stored = {} /\ ledger = [i \in {} |-> {}]
  /\ meta = [valid |-> FALSE, count |-> 0, nextPruneAt |-> 0]
  /\ send = [s \in Sends |-> Idle]
  /\ attempts = 0
  /\ accepted = [g \in Ids \X Time |-> 0] /\ doubts = [g \in Ids \X Time |-> 0]

Tick ==
  /\ now < MaxTime /\ now' = now + 1
  /\ UNCHANGED <<stored, ledger, meta, send, attempts, accepted, doubts>>

-----------------------------------------------------------------------------
(* claim. *)

\* A claim prunes and counts anew when it is time, or when the ledger is full.
PruneDue == ~meta.valid \/ meta.nextPruneAt <= now \/ meta.count >= MaxRecords

\* Mutant of Kept: pruning takes the records that are about to expire too.
KeptTooFew(id) == IF PruneDue THEN {i \in stored : ledger[i].createdAt + Retention > now + 1}
                  ELSE {i \in stored : i = id => Live(i)}

\* The ids it keeps: pruning drops every expired record, otherwise only that
\* of the claimed id is looked at.
Kept(id) == IF PruneDue THEN {i \in stored : Live(i)}
            ELSE {i \in stored : i = id => Live(i)}

\* Mutant of Counted: the expiry of the claimed record is not counted.
CountedUnexpired(id) ==
  IF PruneDue
    THEN [valid |-> TRUE, count |-> Cardinality(Kept(id)), nextPruneAt |-> now + PruneInterval]
    ELSE meta

\* The count and the next pruning, before a record is added.
Counted(id) ==
  IF PruneDue
    THEN [valid |-> TRUE, count |-> Cardinality(Kept(id)), nextPruneAt |-> now + PruneInterval]
    ELSE [meta EXCEPT !.count = IF id \in stored /\ ~Live(id) /\ @ > 0 THEN @ - 1 ELSE @]

\* The ledger after a claim: the kept records, and `rec` for the claimed id.
Put(ids, id, rec) == [i \in ids \cup {id} |-> IF i = id THEN rec ELSE ledger[i]]

\* The attempt that a claim gives its caller.
Begins(s, id, createdAt) ==
  /\ attempts < MaxAttempts /\ attempts' = attempts + 1
  /\ send' = [send EXCEPT ![s] =
       [at |-> "sending", id |-> id, attempt |-> attempts + 1, createdAt |-> createdAt]]

\* A live record in any state but "retryable", or of another request, or a full
\* ledger: the caller gets an answer and does not send.
ClaimRefused(id, request) ==
  /\ IF Live(id) THEN ledger[id].request # request \/ ledger[id].state # "retryable"
     ELSE Counted(id).count >= MaxRecords
  /\ stored' = Kept(id)
  /\ ledger' = [i \in Kept(id) |-> ledger[i]]
  /\ meta' = Counted(id)
  /\ UNCHANGED <<now, send, attempts, accepted, doubts>>

\* Mutant of ClaimRetries: an attempt that nobody reported on is made again.
ClaimRetriesAttempting(s, id, request) ==
  /\ send[s] = Idle
  /\ Live(id) /\ ledger[id].request = request
  /\ ledger[id].state \in {"retryable", "attempting"}
  /\ Begins(s, id, ledger[id].createdAt)
  /\ stored' = Kept(id)
  /\ ledger' = Put(Kept(id), id,
       [ledger[id] EXCEPT !.state = "attempting", !.attempt = attempts + 1])
  /\ meta' = Counted(id)
  /\ UNCHANGED <<now, accepted, doubts>>

\* A released delivery is attempted again, its record keeping its age.
ClaimRetries(s, id, request) ==
  /\ send[s] = Idle
  /\ Live(id) /\ ledger[id].request = request /\ ledger[id].state = "retryable"
  /\ Begins(s, id, ledger[id].createdAt)
  /\ stored' = Kept(id)
  /\ ledger' = Put(Kept(id), id,
       [ledger[id] EXCEPT !.state = "attempting", !.attempt = attempts + 1])
  /\ meta' = Counted(id)
  /\ UNCHANGED <<now, accepted, doubts>>

\* A delivery without a live record gets one.
ClaimCreates(s, id, request) ==
  /\ send[s] = Idle
  /\ ~Live(id) /\ Counted(id).count < MaxRecords
  /\ Begins(s, id, now)
  /\ stored' = Kept(id) \cup {id}
  /\ ledger' = Put(Kept(id), id, [state |-> "attempting", request |-> request,
                                  attempt |-> attempts + 1, createdAt |-> now])
  /\ meta' = [Counted(id) EXCEPT !.count = @ + 1]
  /\ UNCHANGED <<now, accepted, doubts>>

-----------------------------------------------------------------------------
(* The provider, which is external, and what the send makes of its answer. *)

Generation(s) == <<send[s].id, send[s].createdAt>>

\* It takes the message: the send learns so ("sent"), only that something went
\* wrong afterwards ("ambiguous"), or is answered with a code to try again.
ProviderTakes(s) ==
  /\ send[s].at = "sending"
  /\ accepted' = [accepted EXCEPT ![Generation(s)] = @ + 1]
  /\ \/ /\ \E outcome \in {"sent", "ambiguous"} : send' = [send EXCEPT ![s].at = outcome]
        /\ UNCHANGED doubts
     \/ /\ ReleasesDoubts
        /\ send' = [send EXCEPT ![s].at = "retryable"]
        /\ doubts' = [doubts EXCEPT ![Generation(s)] = @ + 1]
  /\ UNCHANGED <<now, stored, ledger, meta, attempts>>

\* It has the message already and knows it by the nonce of the delivery, which
\* it remembers for a while: the first copy is what the send is told of.
ProviderRecognises(s) ==
  /\ send[s].at = "sending" /\ accepted[Generation(s)] > 0
  /\ \E outcome \in {"sent", "ambiguous"} : send' = [send EXCEPT ![s].at = outcome]
  /\ UNCHANGED <<now, stored, ledger, meta, attempts, accepted, doubts>>

\* It does not: a definite rejection is "retryable" or "failed", a transport
\* failure is "ambiguous".
ProviderRefuses(s) ==
  /\ send[s].at = "sending"
  /\ \E outcome \in {"retryable", "failed", "ambiguous"} :
       send' = [send EXCEPT ![s].at = outcome]
  /\ UNCHANGED <<now, stored, ledger, meta, attempts, accepted, doubts>>

\* The message of a send that the restart cut off still arrives, or does not.
LateMessage(s) ==
  /\ send[s].at = "lost"
  /\ send' = [send EXCEPT ![s] = Idle]
  /\ \/ accepted' = [accepted EXCEPT ![Generation(s)] = @ + 1]
     \/ UNCHANGED accepted
  /\ UNCHANGED <<now, stored, ledger, meta, attempts, doubts>>

-----------------------------------------------------------------------------
(* succeed, failAmbiguous, failPermanent and releaseRetryable. *)

\* Mutant of IsMatchingAttempt: any attempt may report.
IsAttempting(s) == send[s].id \in stored /\ ledger[send[s].id].state = "attempting"

\* Only the attempt that the record names may replace it.
IsMatchingAttempt(s) ==
  /\ send[s].id \in stored
  /\ ledger[send[s].id].state = "attempting"
  /\ ledger[send[s].id].attempt = send[s].attempt

RecordOutcome(s) ==
  /\ send[s].at \in {"sent", "ambiguous", "failed", "retryable"}
  /\ ledger' = IF IsMatchingAttempt(s)
                 THEN [ledger EXCEPT ![send[s].id].state = send[s].at]
                 ELSE ledger
  /\ send' = [send EXCEPT ![s] = Idle]
  /\ UNCHANGED <<now, stored, meta, attempts, accepted, doubts>>

\* The transaction throws: the caller says so and the record stays as it is.
OutcomeIsLost(s) ==
  /\ send[s].at \in {"sent", "ambiguous", "failed", "retryable"}
  /\ send' = [send EXCEPT ![s] = Idle]
  /\ UNCHANGED <<now, stored, ledger, meta, attempts, accepted, doubts>>

\* The adapter restarts: a send ends where it is.
Restart ==
  /\ send' = [s \in Sends |-> IF send[s].at \in {"sending", "lost"}
                                THEN [send[s] EXCEPT !.at = "lost"] ELSE Idle]
  /\ UNCHANGED <<now, stored, ledger, meta, attempts, accepted, doubts>>

Next ==
  \/ Tick \/ Restart
  \/ \E id \in Ids, request \in Requests :
       \/ ClaimRefused(id, request)
       \/ \E s \in Sends : ClaimRetries(s, id, request) \/ ClaimCreates(s, id, request)
  \/ \E s \in Sends :
       \/ ProviderTakes(s) \/ ProviderRecognises(s) \/ ProviderRefuses(s) \/ LateMessage(s)
       \/ RecordOutcome(s) \/ OutcomeIsLost(s)

Spec == Init /\ [][Next]_vars

-----------------------------------------------------------------------------
\* Every variable keeps its type; only stored ids have a record.
TypeOK ==
  /\ now \in Time
  /\ stored \subseteq Ids
  /\ ledger \in [stored -> Record]
  /\ meta \in [valid : BOOLEAN, count : Nat, nextPruneAt : Nat]
  /\ send \in [Sends -> Sending \cup {Idle}]
  /\ attempts \in 0 .. MaxAttempts
  /\ accepted \in [Ids \X Time -> Nat] /\ doubts \in [Ids \X Time -> Nat]

\* At-most-once delivery: for as long as a delivery is remembered, repeated and
\* overlapping sends, restarts and lost outcomes put its message into the
\* provider's hands at most once, and once more for every answer that the
\* provider gave after taking it and the adapter takes for a reason to try again.
AtMostOnce == \A g \in Ids \X Time : accepted[g] <= 1 + doubts[g]

\* What a repeated send is told is true: a recorded success was accepted, and a
\* delivery that may be retried or has failed for good was not, except by the
\* attempts whose answers left that open. It takes the fence of attempt ids for
\* a late outcome of an earlier attempt.
OutcomesAreTrue ==
  \A i \in stored :
    LET g == <<i, ledger[i].createdAt>> IN
    /\ ledger[i].state = "sent" => accepted[g] >= 1
    /\ ledger[i].state \in {"retryable", "failed"} => accepted[g] = doubts[g]

\* The maintained count is the number of records, through pruning, expiry of a
\* single record and new ones, and it never passes the limit.
CountIsExact ==
  /\ meta.valid => meta.count = Cardinality(stored)
  /\ ~meta.valid => stored = {}
  /\ Cardinality(stored) <= MaxRecords

\* A record only disappears when its retention is over, and what it is bound to
\* never changes: neither a full ledger nor a retry lets a remembered delivery
\* be forgotten or replaced by another request.
NeverForgotten ==
  [][\A i \in stored : Live(i) =>
       i \in stored' /\ ledger'[i].request = ledger[i].request
                     /\ ledger'[i].createdAt = ledger[i].createdAt]_vars

=============================================================================

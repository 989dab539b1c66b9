-------------------------- MODULE MessageProtocol ---------------------------
(***************************************************************************)
(* What the Kernel promises about one message of a provider, with no       *)
(* receipts, claims, leases, replays or restarts: it has at most one       *)
(* effect, the provider's adapter gets one verdict, nothing comes of the   *)
(* message after its verdict, and the verdict says what came of it. Only   *)
(* if the sender is found to be linked to somebody else, or nobody, when   *)
(* the message is taken up again, it is told the sender whatever comes of  *)
(* the message. Ingress is the adapter's, the Kernel's and the process's   *)
(* way of keeping it.                                                      *)
(***************************************************************************)

VARIABLES effect,   \* what came of the message: "none", "run" or "decision"
          verdict,  \* what is said of it, once and for all, or "none"
          disowned  \* the verdict was given for the sake of the sender's link

vars == <<effect, verdict, disowned>>

-----------------------------------------------------------------------------
Init == effect = "none" /\ verdict = "none" /\ disowned = FALSE

\* It becomes a run of the process, or decides the approval the process asks for.
Act(e) ==
  /\ effect = "none" /\ (verdict = "none" \/ disowned)
  /\ effect' = e
  /\ UNCHANGED <<verdict, disowned>>

\* The verdicts that are true after an effect. A reminder, or the answer to a
\* decision that somebody else has made, is a reply without an effect.
Truth(e) ==
  CASE e = "run" -> {"run", "queued"}
    [] e = "decision" -> {"reply"}
    [] e = "none" -> {"reply", "refused"}

Answer(v) ==
  /\ verdict = "none"
  /\ v \in Truth(effect)
  /\ verdict' = v
  /\ UNCHANGED <<effect, disowned>>

\* The sender is challenged or refused.
Disown(v) ==
  /\ verdict = "none"
  /\ verdict' = v /\ disowned' = TRUE
  /\ UNCHANGED effect

Next ==
  \/ \E e \in {"run", "decision"} : Act(e)
  \/ \E v \in {"run", "queued", "reply", "refused"} : Answer(v)
  \/ \E v \in {"reply", "refused"} : Disown(v)

Spec == Init /\ [][Next]_vars

=============================================================================

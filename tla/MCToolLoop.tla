----------------------------- MODULE MCToolLoop -----------------------------
(* Batches of calls for TLC. *)
EXTENDS ToolLoop

\* One answer mixes the policies, the next runs CodeMode that asks.
Mixed == << <<"auto", "ask">>, <<"codeask", "deny">> >>
\* One answer mixes the policies the other way round, the next runs CodeMode that
\* asks while no other request can be pending.
Approvals == << <<"ask", "auto", "deny">>, <<"codeask">> >>
=============================================================================

--------------------------- MODULE MCAuditPipeline ---------------------------
(* AuditPipeline on small instances: one cfg per question. *)
EXTENDS AuditPipeline
CONSTANTS h1, h2

TwoHandlers == {h1, h2}
=============================================================================

----------------------------- MODULE AuditLedger -----------------------------
(***************************************************************************)
(* What the audit sink (audit/log.go, audit/writer.go) promises for each   *)
(* event handed to Emit: it is queued, dropped at once, or refused because *)
(* the sink is closed; a queued event ends as a row or as a log line, and  *)
(* is lost only when the process is about to stop.  No fate is ever taken  *)
(* back, and every queued event reaches one.                               *)
(***************************************************************************)
CONSTANT Event

VARIABLES fate,   \* [Event -> Fate]
          open    \* FALSE from Log.Complete on

vars == <<fate, open>>

Fate == {"none", "queued", "dropped", "late", "stored", "logged", "lost"}

Init == /\ fate = [e \in Event |-> "none"]
        /\ open = TRUE

Set(S, f) == fate' = [e \in Event |-> IF e \in S THEN f ELSE fate[e]]

Queue(e)  == fate[e] = "none" /\ open /\ Set({e}, "queued")
Drop(e)   == fate[e] = "none" /\ open /\ Set({e}, "dropped")
Refuse(e) == fate[e] = "none" /\ ~open /\ Set({e}, "late")

\* A batch of queued events ends together.
Settle(S) == /\ \A e \in S : fate[e] = "queued"
             /\ \/ Set(S, "stored")
                \/ Set(S, "logged")
                \/ ~open /\ Set(S, "lost")

Close == open /\ open' = FALSE /\ UNCHANGED fate

SettleOf(e) == (\E S \in SUBSET Event : e \in S /\ Settle(S)) /\ UNCHANGED open

Next == \/ \E e \in Event : (Queue(e) \/ Drop(e) \/ Refuse(e)) /\ UNCHANGED open
        \/ \E e \in Event : SettleOf(e)
        \/ Close

\* The writer never leaves a queued event for good.
Spec == Init /\ [][Next]_vars /\ \A e \in Event : WF_vars(SettleOf(e))
=============================================================================

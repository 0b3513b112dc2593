---------------------------- MODULE AuditPipeline ----------------------------
(***************************************************************************)
(* The audit sink and the life of the process around it: request handlers  *)
(* that emit events (audit/log.go), the bounded channel, the one writer    *)
(* goroutine that batches, retries and drains (audit/writer.go), and the   *)
(* shutdown that closes the channel and cancels the writer's context       *)
(* (cmd/vault/main.go).                                                    *)
(*                                                                         *)
(* An event is its handler and its number among that handler's events.  A  *)
(* batch is inserted whole or not at all: Postgres.InsertAuditBatch sends  *)
(* it as one implicit transaction.                                         *)
(***************************************************************************)
EXTENDS Naturals, Sequences, FiniteSets

CONSTANTS Handler,    \* requests the server takes before it is told to stop
          Emits,      \* bound: events one handler emits at most
          Capacity,   \* of the channel (AuditChannelCap)
          BatchSize,  \* AuditBatchSize
          MaxAttempts, \* persist's maxAttempts, 4 in the code
          MaxFaults   \* bound: failed statements and expired drains, in total

ASSUME CapacityAssumption == Capacity \in Nat \ {0}
ASSUME BatchSizeAssumption == BatchSize \in Nat \ {0}
ASSUME AttemptsAssumption == MaxAttempts \in Nat \ {0}
ASSUME BoundsAreNat == Emits \in Nat /\ MaxFaults \in Nat

VARIABLES main,      \* how far run() has got: "serving" .. "exited"
          sent,      \* [Handler -> events emitted so far]
          ch,        \* Log.ch
          dropped,   \* events counted in Log.dropped
          late,      \* events sent on the closed channel, their panic recovered
          wpc,       \* the writer's next step
          batch,     \* its batch
          attempt,   \* persist: 1 .. maxAttempts, 0 outside
          wctx,      \* persist: "run" for the workers' context, "drain" for the fresh one
          timedOut,  \* the fresh context's five seconds are over
          stored,    \* vault.audit_log in the order of insertion
          logged,    \* events written to the log as AUDIT(unpersisted)
          doubt,     \* events of a batch that was committed and whose answer was lost
          faults     \* faults so far

sinkVars == <<ch, dropped, late>>
persistVars == <<batch, attempt, wctx>>
dbVars == <<stored, logged, doubt>>
vars == <<main, sent, sinkVars, wpc, persistVars, timedOut, dbVars, faults>>

Event == Handler \X (1 .. Emits)
Elems(s) == {s[i] : i \in DOMAIN s}

TypeOK == /\ main \in {"serving", "stopping", "completed", "cancelled", "exited"}
          /\ sent \in [Handler -> 0 .. Emits]
          /\ ch \in Seq(Event) /\ batch \in Seq(Event) /\ stored \in Seq(Event)
          /\ dropped \subseteq Event /\ late \subseteq Event
          /\ logged \subseteq Event /\ doubt \subseteq Event
          /\ wpc \in {"select", "drain", "call", "inflight", "backoff", "done"}
          /\ attempt \in 0 .. MaxAttempts
          /\ wctx \in {"run", "drain"}
          /\ timedOut \in BOOLEAN
          /\ faults \in 0 .. MaxFaults

Init == /\ main = "serving"
        /\ sent = [h \in Handler |-> 0]
        /\ ch = <<>> /\ dropped = {} /\ late = {}
        /\ wpc = "select" /\ batch = <<>> /\ attempt = 0 /\ wctx = "run"
        /\ timedOut = FALSE
        /\ stored = <<>> /\ logged = {} /\ doubt = {}
        /\ faults = 0

closed == main \notin {"serving", "stopping"}
cancelled == main \in {"cancelled", "exited"}

Fault == faults < MaxFaults /\ faults' = faults + 1

-----------------------------------------------------------------------------
\* Handlers.

\* A send never blocks: it is buffered, counted as dropped, or panics and recovers.
Enqueue(e) == \/ /\ ~closed /\ Len(ch) < Capacity
                 /\ ch' = Append(ch, e)
                 /\ UNCHANGED <<dropped, late>>
              \/ /\ ~closed /\ Len(ch) >= Capacity
                 /\ dropped' = dropped \cup {e}
                 /\ UNCHANGED <<ch, late>>
              \/ /\ closed
                 /\ late' = late \cup {e}
                 /\ UNCHANGED <<ch, dropped>>

\* A handler runs on after Shutdown has timed out, until the process exits.
Emit(h) == /\ main # "exited"
           /\ sent[h] < Emits
           /\ sent' = [sent EXCEPT ![h] = @ + 1]
           /\ Enqueue(<<h, sent[h] + 1>>)
           /\ UNCHANGED <<main, wpc, persistVars, timedOut, dbVars, faults>>

-----------------------------------------------------------------------------
\* persist.

CtxDone == IF wctx = "run" THEN cancelled ELSE timedOut

\* Mutant: the batch is not emptied after it was persisted.
ReturnKeepingBatch == /\ attempt' = 0
                      /\ wpc' = IF wctx = "run" THEN "select" ELSE "done"
                      /\ UNCHANGED <<batch, wctx>>

\* flush returns: the batch is emptied, and after the final flush so does Run.
PersistReturns == /\ batch' = <<>>
                  /\ attempt' = 0
                  /\ wpc' = IF wctx = "run" THEN "select" ELSE "done"
                  /\ UNCHANGED wctx

\* flush on a context: nothing to do for an empty batch.
Flush(b, ctx) == /\ batch' = b
                 /\ wctx' = ctx
                 /\ IF b = <<>>
                      THEN /\ wpc' = (IF ctx = "run" THEN "select" ELSE "done")
                           /\ UNCHANGED attempt
                      ELSE wpc' = "call" /\ attempt' = 1

\* The statement goes out, unless its context is already done.
Call == /\ wpc = "call"
        /\ ~CtxDone
        /\ wpc' = "inflight"
        /\ UNCHANGED <<main, sent, sinkVars, persistVars, timedOut, dbVars, faults>>

InsertDone == /\ wpc = "inflight"
              /\ stored' = stored \o batch
              /\ PersistReturns
              /\ UNCHANGED <<main, sent, sinkVars, timedOut, logged, doubt, faults>>

\* Mutant: one attempt too many.
AfterErrorOnceMore == IF attempt <= MaxAttempts /\ ~CtxDone
                        THEN wpc' = "backoff" /\ UNCHANGED <<persistVars, logged>>
                        ELSE logged' = logged \cup Elems(batch) /\ PersistReturns

\* Mutant: the last resort is missing.
AfterErrorSilent == /\ IF attempt < MaxAttempts /\ ~CtxDone
                         THEN wpc' = "backoff" /\ UNCHANGED persistVars
                         ELSE PersistReturns
                    /\ UNCHANGED logged

\* Back off while there are attempts left and the context lives, else the last
\* resort: the batch goes to the log.
AfterError == IF attempt < MaxAttempts /\ ~CtxDone
                THEN wpc' = "backoff" /\ UNCHANGED <<persistVars, logged>>
                ELSE logged' = logged \cup Elems(batch) /\ PersistReturns

\* An error: before the statement is sent, or in flight, with the batch rolled back
\* or committed.
InsertFails ==
    /\ \/ wpc = "call" /\ CtxDone /\ UNCHANGED <<stored, doubt, faults>>
       \/ /\ wpc = "inflight"
          /\ (CtxDone /\ UNCHANGED faults) \/ Fault
          /\ \/ UNCHANGED <<stored, doubt>>
             \/ stored' = stored \o batch /\ doubt' = doubt \cup Elems(batch)
    /\ AfterError
    /\ UNCHANGED <<main, sent, sinkVars, timedOut>>

Retry == /\ wpc = "backoff"
         /\ attempt' = attempt + 1
         /\ wpc' = "call"
         /\ UNCHANGED <<main, sent, sinkVars, batch, wctx, timedOut, dbVars, faults>>

\* The context ends during the delay: persist returns, and the batch is gone.
GiveUp == /\ wpc = "backoff"
          /\ CtxDone
          /\ PersistReturns
          /\ UNCHANGED <<main, sent, sinkVars, timedOut, dbVars, faults>>

\* Five seconds hold every delay of persist: the fresh context ends only on a slow
\* statement.
DrainTimesOut == /\ wctx = "drain"
                 /\ wpc \in {"call", "inflight", "backoff"}
                 /\ ~timedOut
                 /\ timedOut' = TRUE
                 /\ Fault
                 /\ UNCHANGED <<main, sent, sinkVars, wpc, persistVars, dbVars>>

-----------------------------------------------------------------------------
\* Run: a select among the channel, the ticker and the workers' context, each
\* chosen at random when several are ready.

\* Mutant: a batch is flushed once it is longer than BatchSize.
ReceiveOneMore ==
    /\ wpc = "select" /\ ch # <<>>
    /\ ch' = Tail(ch)
    /\ LET b == Append(batch, Head(ch)) IN
         IF Len(b) > BatchSize THEN Flush(b, "run")
         ELSE batch' = b /\ UNCHANGED <<wpc, attempt, wctx>>
    /\ UNCHANGED <<main, sent, dropped, late, timedOut, dbVars, faults>>

Receive ==
    /\ wpc = "select" /\ ch # <<>>
    /\ ch' = Tail(ch)
    /\ LET b == Append(batch, Head(ch)) IN
         IF Len(b) >= BatchSize THEN Flush(b, "run")
         ELSE batch' = b /\ UNCHANGED <<wpc, attempt, wctx>>
    /\ UNCHANGED <<main, sent, dropped, late, timedOut, dbVars, faults>>

Tick == /\ wpc = "select" /\ batch # <<>>
        /\ Flush(batch, "run")
        /\ UNCHANGED <<main, sent, sinkVars, timedOut, dbVars, faults>>

SeeCancel == /\ wpc = "select" /\ cancelled
             /\ wpc' = "drain"
             /\ UNCHANGED <<main, sent, sinkVars, persistVars, timedOut, dbVars, faults>>

\* Mutant: drained events are put before the batch they come after.
DrainReversed == /\ wpc = "drain" /\ ch # <<>>
                 /\ ch' = Tail(ch)
                 /\ batch' = <<Head(ch)>> \o batch
                 /\ UNCHANGED <<main, sent, dropped, late, wpc, attempt, wctx, timedOut, dbVars, faults>>

\* Whatever is still buffered joins the batch, beyond BatchSize if need be.
Drain == /\ wpc = "drain" /\ ch # <<>>
         /\ ch' = Tail(ch)
         /\ batch' = Append(batch, Head(ch))
         /\ UNCHANGED <<main, sent, dropped, late, wpc, attempt, wctx, timedOut, dbVars, faults>>

\* Mutant: a break that leaves the select and not the loop: a closed channel is
\* selected for ever.
DrainedBreaks == /\ wpc = "drain" \/ (wpc = "select" /\ closed)
                 /\ ch = <<>>
                 /\ IF batch = <<>> THEN wpc' = "select" /\ UNCHANGED persistVars
                                    ELSE Flush(batch, "drain")
                 /\ UNCHANGED <<main, sent, sinkVars, timedOut, dbVars, faults>>

\* drainFlush and return, on a closed and empty channel seen by either select.
Drained == /\ wpc = "drain" \/ (wpc = "select" /\ closed)
           /\ ch = <<>>
           /\ Flush(batch, "drain")
           /\ UNCHANGED <<main, sent, sinkVars, timedOut, dbVars, faults>>

Writer == \/ Receive \/ Tick \/ SeeCancel \/ Drain \/ Drained
          \/ Call \/ InsertDone \/ InsertFails \/ Retry \/ GiveUp \/ DrainTimesOut

-----------------------------------------------------------------------------
\* run().

MainGoto(from, to) ==
    /\ main = from /\ main' = to
    /\ UNCHANGED <<sent, sinkVars, wpc, persistVars, timedOut, dbVars, faults>>

\* A signal, or the listener fails.
Stop == MainGoto("serving", "stopping")

\* httpSrv.Shutdown returns, when no handler runs or after its 15 seconds, and the
\* channel is closed; handlers that still run go on.
CompleteLog == MainGoto("stopping", "completed")

CancelWorkers == MainGoto("completed", "cancelled")

\* wg.Wait: the sweeper returns on the cancelled context as well.
Exit == wpc = "done" /\ MainGoto("cancelled", "exited")

Shutdown == CompleteLog \/ CancelWorkers \/ Exit

Next == \/ \E h \in Handler : Emit(h)
        \/ Writer \/ Stop \/ Shutdown

\* The writer's statements return, its delays end and its ticker fires; run() goes
\* on once it is told to stop.  Nothing is assumed of handlers.
Spec == Init /\ [][Next]_vars /\ WF_vars(Writer) /\ WF_vars(Shutdown)

-----------------------------------------------------------------------------
Emitted(e) == sent[e[1]] >= e[2]

\* Where an event is.  A row counts as stored even while the writer does not know.
Fate(e) == IF e \in Elems(stored) THEN "stored"
           ELSE CASE e \in logged -> "logged"
                  [] e \in dropped -> "dropped"
                  [] e \in late -> "late"
                  [] e \in Elems(ch) \cup Elems(batch) -> "queued"
                  [] OTHER -> IF Emitted(e) THEN "lost" ELSE "none"

L == INSTANCE AuditLedger WITH fate <- [e \in Event |-> Fate(e)], open <- ~closed

\* The pipeline keeps the ledger's promise: no event changes fate once it has one, a
\* queued one ends as a row or a log line unless the process is stopping, and all of
\* them end (log.go:17-19, writer.go:18-20).
Ledger == L!Spec

Rows(e) == Cardinality({i \in DOMAIN stored : stored[i] = e})

\* An event has two rows, or a row and a log line, only if the answer to a committed
\* batch was lost (writer.go:106-136: the retry cannot tell).
StoredOnce == \A e \in Event : Rows(e) + (IF e \in logged THEN 1 ELSE 0) > 1 => e \in doubt

\* The rows of one request are inserted in the order it emitted them, through every
\* batch, retry and drain, but for batches inserted twice.
InOrder == \A i, j \in DOMAIN stored :
             /\ i < j /\ stored[i][1] = stored[j][1] /\ stored[i][2] > stored[j][2]
             => {stored[i], stored[j]} \subseteq doubt

\* However long the database is down, the memory held is bounded: a full batch and a
\* full channel, and at the end one batch that takes in the channel.
BacklogBounded == /\ Len(ch) <= Capacity
                  /\ Len(batch) <= IF cancelled THEN BatchSize + Capacity - 1 ELSE BatchSize

\* The process stops when told to, whatever the database and the handlers do.
ShutdownEnds == main = "stopping" ~> main = "exited"

-----------------------------------------------------------------------------
\* "emit the already-redacted events to the log so the trail is not silently lost"
\* (writer.go:124).
NothingSilentlyLost == \A e \in Event : Fate(e) # "lost"

\* "a shutdown that has already cancelled the run context can still flush buffered
\* events rather than dropping them" (writer.go:58-59): if no statement ever fails,
\* no queued event ends in the log.
HealthyFlush == faults = 0 => logged = {}
=============================================================================

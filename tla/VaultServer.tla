------------------------------ MODULE VaultServer ------------------------------
(***************************************************************************)
(* The server: replicas that start, serve requests, limit them, sweep the  *)
(* audit trail and are killed, over one database.  A load says how the     *)
(* system is found, which requests come and what may go wrong, so that     *)
(* each is explored to the end without multiplying the others.             *)
(***************************************************************************)
EXTENDS Requests

CONSTANT Loads   \* [name -> load]

\* A load: the replicas that are up at first, the configurations of all, the ones replicas
\* may be launched with, the migrations of the database, its rows, what each goroutine may
\* be asked and at which replica, and the bounds of everything that is counted.
ASSUME LoadsAreStates ==
    \A n \in DOMAIN Loads : LET l == Loads[n] IN
      /\ l.up \subseteq Replica /\ l.conf \in [Replica -> Config] /\ l.launch \subseteq Config
      /\ l.recorded \subseteq Version /\ (l.up # {} => l.recorded = Version)
      /\ \A v \in l.recorded, w \in Version : w <= v => w \in l.recorded
      /\ \A p \in l.up : Sound(l.conf[p])
      /\ TablesOK(l.rows, l.keys, Cardinality(l.rows \cup l.keys)) /\ IsFiniteSet(l.rows \cup l.keys)
      /\ l.trail \subseteq EntryRow
      /\ DOMAIN l.asks \subseteq Req /\ \A r \in DOMAIN l.asks : l.asks[r] \subseteq Replica \X Ask
      /\ DOMAIN l.budget \subseteq Trouble /\ \A k \in DOMAIN l.budget : l.budget[k] \in Nat
      /\ \A e, f \in l.trail : e.id = f.id => e = f
      /\ "entry" \in DOMAIN l.budget => /\ 1 .. l.budget["entry"] \subseteq EntryId
                                        /\ \A e \in l.trail : e.id \notin 1 .. l.budget["entry"]

VARIABLE load

vars == <<load, rateVars, bootVars, sweepVars, reqVars>>

TypeOK == RateTypeOK /\ BootTypeOK /\ SweepTypeOK /\ RequestTypeOK

Init ==
    /\ load \in DOMAIN Loads
    /\ LET l == Loads[load]
       IN  /\ boot = [p \in Replica |-> IF p \in l.up THEN "up" ELSE "down"]
           /\ conf = l.conf
           /\ at = [p \in Replica |-> 0]
           /\ locker = NoOne
           /\ schema = (l.recorded # {}) /\ recorded = l.recorded
           /\ applied = [v \in Version |-> IF v \in l.recorded THEN 1 ELSE 0]
           /\ pending = [p \in Replica |-> {}] /\ noted = [p \in Replica |-> {}]
           /\ verifier = [p \in Replica |-> IF p \in l.up /\ l.conf[p].auth THEN "ready" ELSE "none"]
           /\ idp = TRUE
           /\ budget = [k \in Trouble |-> IF k \in DOMAIN l.budget THEN l.budget[k] ELSE 0]
           /\ clock = 0
           /\ windows = [p \in Replica |-> IF p \in l.up THEN EmptyMap ELSE NoMap]
           /\ from = [r \in Req |-> NoAddr] /\ seen = [r \in Req |-> 0]
           /\ today = RetentionDays /\ trail = l.trail /\ sweeper = [p \in Replica |-> Off]
           /\ RequestInit(l.rows, l.keys)

Starts(p) ==
    /\ \/ Proceed(p) /\ UNCHANGED rateVars
       \/ NewServer(p) /\ IF boot'[p] = "up" THEN NewLimiter(p) ELSE UNCHANGED rateVars
    /\ UNCHANGED <<load, sweepVars, reqVars>>

Retries(p) == RetryVerifier(p) /\ UNCHANGED <<load, rateVars, sweepVars, reqVars>>

Surroundings ==
    /\ \/ \E p \in Replica : \/ \E c \in Loads[load].launch : Launch(p, c)
                             \/ StatementFails(p)
                             \/ CommitUnanswered(p)
       \/ IdpFails \/ IdpReturns
    /\ UNCHANGED <<load, rateVars, sweepVars, reqVars>>

Killed(p) == /\ Crash(p) /\ LoseLimiter(p) /\ CutOff(p)
             /\ sweeper' = [sweeper EXCEPT ![p] = Off]
             /\ UNCHANGED <<load, today, trail, tables, history>>

Time == \/ Tick /\ Spend("tick") /\ UNCHANGED <<load, bootState, sweepVars, reqVars>>
        \/ NextDay /\ UNCHANGED <<load, bootState, rateVars, reqVars>>

Sweeping(p) == SweepProceeds(p) /\ UNCHANGED <<load, bootState, rateVars, reqVars>>
Settles(p) == StartSweeping(p) /\ UNCHANGED <<load, bootState, rateVars, reqVars>>

Trailing == /\ \/ \E u \in User, ago \in {0, 1} : NewEntry(u, today - ago)
               \/ \E p \in Replica : SweepFails(p)
            /\ UNCHANGED <<load, bootState, rateVars, reqVars>>

Comes(r) == /\ r \in DOMAIN Loads[load].asks
            /\ \E pq \in Loads[load].asks[r] : Arrive(r, pq[1], pq[2])
            /\ UNCHANGED <<load, bootVars, sweepVars>>

Serves(r) == /\ \/ Limits(r) /\ UNCHANGED budget
                \/ (Authenticate(r) \/ Handle(r)) /\ UNCHANGED rateVars
             /\ UNCHANGED <<load, bootState, sweepVars>>

Next == \/ \E p \in Replica : Starts(p) \/ Retries(p) \/ Killed(p) \/ Sweeping(p) \/ Settles(p)
        \/ Surroundings \/ Time \/ Trailing
        \/ \E r \in Req : Comes(r) \/ Serves(r)

\* The goroutines of a process run on; nothing obliges a client to come, a statement to fail
\* or the identity provider to return.
Fairness == \A p \in Replica : /\ WF_vars(Starts(p)) /\ WF_vars(Retries(p))
                               /\ WF_vars(Settles(p)) /\ WF_vars(Sweeping(p))

Spec == Init /\ [][Next]_vars /\ Fairness
=============================================================================

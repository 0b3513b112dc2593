---------------------------- MODULE StartupProofs ----------------------------
(***************************************************************************)
(* What holds of the server for any number of replicas, migrations,        *)
(* requests and failures: the migrations take effect once and in order,    *)
(* and no sweep deletes an entry within the retention.                     *)
(***************************************************************************)
EXTENDS VaultServer, TLAPS

Steps == {"down", "load", "connect", "acquire", "kek", "server", "up"} \cup Migrating

BootTypes ==
    /\ boot \in [Replica -> Steps] /\ conf \in [Replica -> Config] /\ at \in [Replica -> Nat]
    /\ locker \in Replica \cup {NoOne}
    /\ recorded \subseteq Version /\ applied \in [Version -> Nat]
    /\ pending \in [Replica -> SUBSET Version] /\ noted \in [Replica -> SUBSET Version]

InTx == {"begin", "apply", "record", "commit"}
Locked == {"ensure", "check", "unlock"} \cup InTx

\* Whoever reads or writes schema_migrations holds the advisory lock.
LockHeld == \A p \in Replica : boot[p] \in Locked => locker = p

\* What an open transaction has done, and no transaction is left open.
Transaction ==
    \A p \in Replica :
      /\ pending[p] = IF boot[p] \in {"record", "commit"} THEN {at[p]} ELSE {}
      /\ noted[p] = IF boot[p] = "commit" THEN {at[p]} ELSE {}

\* Everything below the version in hand is recorded; the version is not, once it was looked
\* for; and nothing is missing at the end.
InOrder ==
    \A p \in Replica :
      /\ boot[p] \in {"check"} \cup InTx =>
           /\ at[p] \in Version
           /\ \A w \in Version : w < at[p] => w \in recorded
      /\ boot[p] \in InTx => at[p] \notin recorded
      /\ boot[p] = "unlock" => recorded = Version

BootInv == load \in DOMAIN Loads /\ BootTypes /\ LockHeld /\ Transaction /\ InOrder /\ MigratedOnce

boots == <<load, boot, conf, at, locker, recorded, applied, pending, noted>>

LEMMA BootInitInv == Init => BootInv
<1> SUFFICES ASSUME Init PROVE BootInv
  OBVIOUS
<1> DEFINE l == Loads[load]
<1>1. /\ load \in DOMAIN Loads
      /\ boot = [p \in Replica |-> IF p \in l.up THEN "up" ELSE "down"]
      /\ conf = l.conf /\ at = [p \in Replica |-> 0] /\ locker = NoOne
      /\ recorded = l.recorded
      /\ applied = [v \in Version |-> IF v \in l.recorded THEN 1 ELSE 0]
      /\ pending = [p \in Replica |-> {}] /\ noted = [p \in Replica |-> {}]
  BY DEF Init
<1>2. /\ l.up \subseteq Replica /\ l.conf \in [Replica -> Config]
      /\ l.recorded \subseteq Version /\ (l.up # {} => l.recorded = Version)
      /\ \A v \in l.recorded, w \in Version : w <= v => w \in l.recorded
  BY <1>1, LoadsAreStates
<1> HIDE DEF l
<1>3. BootTypes
  BY <1>1, <1>2 DEF BootTypes, Steps
<1>4. LockHeld /\ Transaction /\ InOrder
  BY <1>1 DEF LockHeld, Transaction, InOrder, Locked, InTx
<1>5. MigratedOnce
  BY <1>1, <1>2 DEF MigratedOnce
<1> QED BY <1>1, <1>3, <1>4, <1>5 DEF BootInv

LEMMA BootUnchanged == BootInv /\ UNCHANGED boots => BootInv'
  BY DEF BootInv, boots, BootTypes, LockHeld, Transaction, InOrder, MigratedOnce

\* run() before Migrate and behind it: nothing is locked or open, and only a replica that
\* has migrated or need not goes past it.
LEMMA OutsideInv ==
    ASSUME BootInv, NEW p \in Replica, load' = load,
           (\E c \in Config : Launch(p, c)) \/ Load(p) \/ NewPostgres(p) \/ AcquireConn(p)
             \/ NewKekProvider(p) \/ NewServer(p)
    PROVE  BootInv'
<1> USE DEF BootInv, BootTypes, InTx, Locked, Launch, Load, NewPostgres, AcquireConn,
            NewKekProvider, NewServer, Go, dbSchema, txVars
<1>1. BootTypes'
  BY DEF Steps, Migrating
<1>2. LockHeld'
  BY DEF LockHeld
<1>3. Transaction'
  BY DEF Transaction
<1>4. InOrder'
  BY DEF InOrder
<1>5. MigratedOnce'
  BY DEF MigratedOnce
<1> QED BY <1>1, <1>2, <1>3, <1>4, <1>5

\* A failed statement, the deferred unlock and a crash leave neither lock nor transaction.
LEMMA EndsInv ==
    ASSUME BootInv, NEW p \in Replica, load' = load,
           StatementFails(p) \/ Unlock(p) \/ Crash(p)
    PROVE  BootInv'
<1> USE DEF BootInv, BootTypes, InTx, Locked, StatementFails, Fail, Unlock, Crash,
            Go, dbSchema, txVars
<1>1. BootTypes'
  BY DEF Steps, Migrating
<1>2. LockHeld'
  BY DEF LockHeld
<1>3. Transaction'
  BY DEF Transaction
<1>4. InOrder'
  BY DEF InOrder
<1>5. MigratedOnce'
  BY DEF MigratedOnce, InOrder
<1> QED BY <1>1, <1>2, <1>3, <1>4, <1>5

\* The lock is free when it is taken, so that nobody is between lock and unlock.
LEMMA LockInv ==
    ASSUME BootInv, NEW p \in Replica, load' = load,
           TakeLock(p) \/ EnsureTable(p)
    PROVE  BootInv'
<1> USE DEF BootInv, BootTypes, InTx, Locked, TakeLock, EnsureTable, Go, dbSchema, txVars
<1>0. /\ Version = {} \/ 1 \in Version
      /\ \A w \in Version : ~(w < 1)
  BY MigrationsAreCounted DEF Version
<1>1. BootTypes'
  BY DEF Steps, Migrating
<1>2. LockHeld'
  BY NoOneIsNobody DEF LockHeld
<1>3. Transaction'
  BY DEF Transaction
<1>4. InOrder'
  BY <1>0 DEF InOrder, LockHeld
<1>5. MigratedOnce'
  BY DEF MigratedOnce
<1> QED BY <1>1, <1>2, <1>3, <1>4, <1>5

\* Who holds the lock finds the version recorded, and goes on to the next, or not.
LEMMA CheckInv ==
    ASSUME BootInv, NEW p \in Replica, load' = load,
           Check(p) \/ BeginTx(p)
    PROVE  BootInv'
<1> USE DEF BootInv, BootTypes, InTx, Locked, Check, BeginTx, NextVersion, Go, dbSchema, txVars
<1>0. /\ at[p] \in Version /\ at[p] \in Nat /\ at[p] + 1 \in Nat
      /\ \A w \in Version : w < at[p] + 1 => w < at[p] \/ w = at[p]
      /\ at[p] + 1 \notin Version => \A w \in Version : w <= at[p]
      /\ \A w \in Version : w <= at[p] => w < at[p] \/ w = at[p]
  BY MigrationsAreCounted DEF InOrder, Version, Check, BeginTx
<1>1. BootTypes'
  BY <1>0 DEF Steps, Migrating
<1>2. LockHeld'
  BY DEF LockHeld
<1>3. Transaction'
  BY DEF Transaction
<1>4. InOrder'
  <2>1. \A q \in Replica \ {p} : boot'[q] \notin Locked
    BY DEF LockHeld, InOrder
  <2>2. /\ boot'[p] \in {"check"} \cup InTx =>
             at'[p] \in Version /\ \A w \in Version : w < at'[p] => w \in recorded'
        /\ boot'[p] \in InTx => at'[p] \notin recorded'
        /\ boot'[p] = "unlock" => recorded' = Version
    <3>1. locker = p /\ \A w \in Version : w < at[p] => w \in recorded
      BY DEF InOrder, LockHeld, Check, BeginTx
    <3>2. CASE BeginTx(p)
      BY <3>1, <3>2, <1>0 DEF InOrder
    <3>3. CASE Check(p) /\ at[p] \notin recorded
      BY <3>1, <3>3, <1>0
    <3>4. CASE Check(p) /\ at[p] \in recorded /\ at[p] + 1 \in Version
      BY <3>1, <3>4, <1>0
    <3>5. CASE Check(p) /\ at[p] \in recorded /\ at[p] + 1 \notin Version
      <4>1. \A w \in Version : w \in recorded
        BY <3>1, <3>5, <1>0
      <4>2. boot'[p] = "unlock" /\ recorded' = recorded
        BY <3>5, <1>0
      <4> QED BY <4>1, <4>2
    <3> QED BY <3>2, <3>3, <3>4, <3>5
  <2> QED BY <2>1, <2>2 DEF InOrder
<1>5. MigratedOnce'
  BY DEF MigratedOnce
<1> QED BY <1>1, <1>2, <1>3, <1>4, <1>5

\* Within the transaction nothing shows; its record finds no other.
LEMMA TransactionInv ==
    ASSUME BootInv, NEW p \in Replica, load' = load,
           ApplyBody(p) \/ Record(p)
    PROVE  BootInv'
<1> USE DEF BootInv, BootTypes, InTx, Locked, ApplyBody, Record, Go, dbSchema, txVars
<1>0. at[p] \in Version
  BY DEF InOrder, ApplyBody, Record
<1>1. BootTypes'
  BY <1>0 DEF Steps, Migrating
<1>2. LockHeld'
  BY DEF LockHeld
<1>3. Transaction'
  BY <1>0 DEF Transaction, InOrder
<1>4. InOrder'
  BY <1>0 DEF InOrder, LockHeld
<1>5. MigratedOnce'
  BY DEF MigratedOnce
<1> QED BY <1>1, <1>2, <1>3, <1>4, <1>5

\* The commit makes body and record visible at once, by the only one who holds the lock.
LEMMA CommitInv ==
    ASSUME BootInv, NEW p \in Replica, load' = load,
           Commit(p) \/ CommitUnanswered(p)
    PROVE  BootInv'
<1> USE DEF BootInv, BootTypes, InTx, Locked, Commit, CommitUnanswered, NextVersion,
            Go, dbSchema, txVars
<1>0. /\ at[p] \in Version /\ at[p] \in Nat /\ at[p] + 1 \in Nat
      /\ \A w \in Version : w < at[p] + 1 => w < at[p] \/ w = at[p]
      /\ at[p] + 1 \notin Version => \A w \in Version : w <= at[p]
      /\ \A w \in Version : w <= at[p] => w < at[p] \/ w = at[p]
  BY MigrationsAreCounted DEF InOrder, Version, Commit, CommitUnanswered
<1>01. /\ noted[p] = {at[p]} /\ pending[p] = {at[p]} /\ locker = p
       /\ at[p] \notin recorded /\ (\A w \in Version : w < at[p] => w \in recorded)
  BY DEF InOrder, Transaction, LockHeld, Commit, CommitUnanswered
<1>02. applied' \in [Version -> Nat] /\ \A v \in Version : applied'[v] = IF v \in recorded' THEN 1 ELSE 0
  BY <1>01 DEF MigratedOnce
<1>1. BootTypes'
  BY <1>0, <1>01, <1>02 DEF Steps, Migrating
<1>2. LockHeld'
  BY DEF LockHeld
<1>3. Transaction'
  BY DEF Transaction
<1>4. InOrder'
  <2>1. \A q \in Replica \ {p} : boot'[q] \notin Locked
    BY DEF LockHeld, InOrder
  <2>2. /\ boot'[p] \in {"check"} \cup InTx =>
             at'[p] \in Version /\ \A w \in Version : w < at'[p] => w \in recorded'
        /\ boot'[p] \in InTx => at'[p] \notin recorded'
        /\ boot'[p] = "unlock" => recorded' = Version
    <3>1. recorded' = recorded \cup {at[p]}
      BY <1>01
    <3>2. CASE CommitUnanswered(p)
      BY <3>2
    <3>3. CASE Commit(p) /\ at[p] + 1 \in Version
      BY <3>1, <3>3, <1>0, <1>01
    <3>4. CASE Commit(p) /\ at[p] + 1 \notin Version
      BY <3>1, <3>4, <1>0, <1>01
    <3> QED BY <3>2, <3>3, <3>4
  <2> QED BY <2>1, <2>2 DEF InOrder
<1>5. MigratedOnce'
  BY <1>0, <1>01, <1>02 DEF MigratedOnce
<1> QED BY <1>1, <1>2, <1>3, <1>4, <1>5

-----------------------------------------------------------------------------
\* Sweeps, requests and the time leave the start of a replica alone.
LEMMA ApartFromBoot ==
    ASSUME BootInv, UNCHANGED <<load, bootState>>
    PROVE  BootInv'
  BY BootUnchanged DEF bootState, dbSchema, txVars, boots

LEMMA BootStep == BootInv /\ [Next]_vars => BootInv'
<1> SUFFICES ASSUME BootInv, [Next]_vars PROVE BootInv'
  OBVIOUS
<1>1. ASSUME NEW p \in Replica, Starts(p) PROVE BootInv'
  BY <1>1, OutsideInv, EndsInv, LockInv, CheckInv, TransactionInv, CommitInv DEF Starts, Proceed
<1>2. ASSUME NEW p \in Replica, Retries(p) PROVE BootInv'
  BY <1>2, BootUnchanged DEF Retries, RetryVerifier, dbSchema, txVars, boots
<1>3. ASSUME NEW p \in Replica, Killed(p) PROVE BootInv'
  BY <1>3, EndsInv DEF Killed
<1>4. ASSUME NEW p \in Replica, Sweeping(p) \/ Settles(p) PROVE BootInv'
  BY <1>4, ApartFromBoot DEF Sweeping, Settles
<1>5. CASE Surroundings
  <2>1. ASSUME NEW p \in Replica, NEW c \in Loads[load].launch, Launch(p, c), load' = load
        PROVE  BootInv'
    <3>1. c \in Config
      BY <2>1, LoadsAreStates DEF BootInv
    <3> QED BY <2>1, <3>1, OutsideInv
  <2>2. ASSUME NEW p \in Replica, StatementFails(p) \/ CommitUnanswered(p), load' = load
        PROVE  BootInv'
    BY <2>2, EndsInv, CommitInv
  <2>3. ASSUME IdpFails \/ IdpReturns, load' = load PROVE BootInv'
    BY <2>3, BootUnchanged DEF IdpFails, IdpReturns, dbSchema, txVars, boots
  <2> QED BY <1>5, <2>1, <2>2, <2>3 DEF Surroundings
<1>6. CASE Time \/ Trailing
  BY <1>6, ApartFromBoot DEF Time, Trailing
<1>7. ASSUME NEW r \in Req, Comes(r) \/ Serves(r) PROVE BootInv'
  BY <1>7, ApartFromBoot DEF Comes, Serves, bootVars
<1>8. CASE UNCHANGED vars
  BY <1>8, ApartFromBoot DEF vars, bootVars
<1> QED BY <1>1, <1>2, <1>3, <1>4, <1>5, <1>6, <1>7, <1>8 DEF Next

-----------------------------------------------------------------------------
\* Migrate (migrate.go:28-94) of however many replicas, whatever fails, commits without an
\* answer or is killed: every body takes effect once, together with its record and in order,
\* and nothing is served on a schema that lacks one.
THEOREM MigrationsTakeEffectOnce == Spec => []MigratedOnce
<1>1. BootInv => MigratedOnce
  BY DEF BootInv
<1> QED BY <1>1, BootInitInv, BootStep, PTL DEF Spec
-----------------------------------------------------------------------------
(* The sweeps of however many replicas, of any length and beside any number of writers. *)

\* Ids below the bound are yet to be given out.
FreshIds(ids) == ids \cap (1 .. budget["entry"]) = {}

\* A sweep runs on a cutoff that only gets older, and its batch is of entries before it.
SweepsOld ==
    \A p \in Replica :
      LET s == sweeper[p]
      IN  /\ s.step \in {"select", "delete"} => s.cutoff \in Int /\ s.cutoff <= today - RetentionDays
          /\ s.step = "delete" => /\ FreshIds(s.picked)
                                  /\ \A e \in trail : e.id \in s.picked => e.day < s.cutoff

SweepInv ==
    /\ load \in DOMAIN Loads
    /\ today \in Nat
    /\ budget \in [Trouble -> Nat]
    /\ \A e \in trail : e.day \in Nat
    /\ \A e, f \in trail : e.id = f.id => e = f
    /\ FreshIds(Ids(trail))
    /\ DOMAIN sweeper = Replica
    /\ \A p \in Replica : DOMAIN sweeper[p] = {"step", "cutoff", "picked"}
    /\ SweepsOld

LEMMA SweepInitInv == Init => SweepInv
<1> SUFFICES ASSUME Init PROVE SweepInv
  OBVIOUS
<1>1. /\ load \in DOMAIN Loads /\ today = RetentionDays
      /\ trail = Loads[load].trail /\ sweeper = [p \in Replica |-> Off]
      /\ budget = [k \in Trouble |-> IF k \in DOMAIN Loads[load].budget
                                       THEN Loads[load].budget[k] ELSE 0]
  BY DEF Init
<1>2. /\ trail \subseteq EntryRow
      /\ budget \in [Trouble -> Nat]
      /\ \A e \in trail : e.id \notin 1 .. budget["entry"]
      /\ \A e, f \in trail : e.id = f.id => e = f
  <2> DEFINE l == Loads[load]
  <2>1. /\ l.trail \subseteq EntryRow
        /\ \A k \in DOMAIN l.budget : l.budget[k] \in Nat
        /\ \A e, f \in l.trail : e.id = f.id => e = f
        /\ "entry" \in DOMAIN l.budget => \A e \in l.trail : e.id \notin 1 .. l.budget["entry"]
    BY <1>1, LoadsAreStates
  <2> QED BY <1>1, <2>1 DEF Trouble
<1>3. FreshIds(Ids(trail))
  BY <1>2 DEF FreshIds, Ids
<1>4. SweepsOld
  BY <1>1 DEF SweepsOld, Off
<1>5. \A p \in Replica : DOMAIN sweeper[p] = {"step", "cutoff", "picked"}
  BY <1>1 DEF Off
<1> QED BY <1>1, <1>2, <1>3, <1>4, <1>5, RetentionAssumption DEF SweepInv, EntryRow

\* What is spent on anything gives out no id twice.
LEMMA BudgetShrinks ==
    ASSUME SweepInv, UNCHANGED budget \/ \E what \in Trouble : Spend(what)
    PROVE  /\ budget' \in [Trouble -> Nat]
           /\ (1 .. budget'["entry"]) \subseteq (1 .. budget["entry"])
  BY DEF SweepInv, Spend, Trouble

\* Steps that are not about the trail.
LEMMA ApartFromTrail ==
    ASSUME SweepInv, UNCHANGED <<load, today, trail, sweeper>>,
           UNCHANGED budget \/ \E what \in Trouble : Spend(what)
    PROVE  SweepInv' /\ KeepsYoungEntries
  BY BudgetShrinks DEF SweepInv, SweepsOld, FreshIds, KeepsYoungEntries

LEMMA NextDayStep ==
    ASSUME SweepInv, NextDay, load' = load
    PROVE  SweepInv' /\ KeepsYoungEntries
<1> USE DEF NextDay
<1>1. /\ budget' \in [Trouble -> Nat]
      /\ (1 .. budget'["entry"]) \subseteq (1 .. budget["entry"])
  BY BudgetShrinks DEF Trouble
<1>2. SweepsOld'
  BY <1>1, RetentionAssumption DEF SweepInv, SweepsOld, FreshIds
<1> QED BY <1>1, <1>2 DEF SweepInv, FreshIds, KeepsYoungEntries

\* An entry is written under an id that no batch in hand holds.
LEMMA NewEntryStep ==
    ASSUME SweepInv, NEW u \in User, NEW d \in Int, NewEntry(u, d), load' = load
    PROVE  SweepInv' /\ KeepsYoungEntries
<1> DEFINE n == budget["entry"]
<1>1. /\ n \in Nat \ {0} /\ d \in Nat
      /\ budget' = [budget EXCEPT !["entry"] = n - 1] /\ budget' \in [Trouble -> Nat]
      /\ trail' = trail \cup {[id |-> n, user |-> u, day |-> d]}
      /\ UNCHANGED <<today, sweeper>>
  BY DEF NewEntry, Spend, SweepInv, Trouble
<1>2. budget'["entry"] = n - 1 /\ n \in 1 .. n /\ n \notin 1 .. (n - 1) /\ (1 .. (n - 1)) \subseteq (1 .. n)
  BY <1>1 DEF SweepInv, Trouble
<1> HIDE DEF n
<1>3. FreshIds(Ids(trail))'
  BY <1>1, <1>2 DEF SweepInv, FreshIds, Ids, n
<1>4. SweepsOld'
  BY <1>1, <1>2 DEF SweepInv, SweepsOld, FreshIds, n
<1>5. (\A e, f \in trail : e.id = f.id => e = f)'
  BY <1>1, <1>2 DEF SweepInv, FreshIds, Ids, n
<1> QED BY <1>1, <1>3, <1>4, <1>5 DEF SweepInv, KeepsYoungEntries

\* A replica changes its own sweep, and may delete its batch.
LEMMA SweeperStep ==
    ASSUME SweepInv, NEW p \in Replica, UNCHANGED <<load, today>>,
           UNCHANGED budget \/ \E what \in Trouble : Spend(what),
           \/ StartSweeping(p) \/ BeginSweep(p) \/ Select(p) \/ Delete(p) \/ SweepFails(p)
           \/ sweeper' = [sweeper EXCEPT ![p] = Off] /\ trail' = trail
    PROVE  SweepInv' /\ KeepsYoungEntries
<1> USE DEF Sweeps
<1>1. /\ budget' \in [Trouble -> Nat]
      /\ (1 .. budget'["entry"]) \subseteq (1 .. budget["entry"])
  BY BudgetShrinks
<1>2. CASE StartSweeping(p) \/ SweepFails(p) \/ (sweeper' = [sweeper EXCEPT ![p] = Off] /\ trail' = trail)
  BY <1>1, <1>2 DEF StartSweeping, SweepFails, Off, SweepInv, SweepsOld, FreshIds, KeepsYoungEntries
<1>3. CASE BeginSweep(p)
  BY <1>1, <1>3, RetentionAssumption DEF BeginSweep, SweepInv, SweepsOld, FreshIds, KeepsYoungEntries
<1>4. CASE Select(p)
  <2>1. PICK rows_ \in SUBSET Old(sweeper[p].cutoff) :
          /\ sweeper' = [sweeper EXCEPT ![p] = [sweeper[p] EXCEPT !.step = "delete", !.picked = Ids(rows_)]]
          /\ trail' = trail
    BY <1>4 DEF Select
  <2>2. FreshIds(Ids(rows_)) /\ \A e \in rows_ : e \in trail /\ e.day < sweeper[p].cutoff
    BY <2>1 DEF SweepInv, FreshIds, Ids, Old
  <2>3. \A e \in trail : e.id \in Ids(rows_) => e.day < sweeper[p].cutoff
    <3> SUFFICES ASSUME NEW e \in trail, e.id \in Ids(rows_) PROVE e.day < sweeper[p].cutoff
      OBVIOUS
    <3>1. PICK f \in rows_ : f.id = e.id
      BY DEF Ids
    <3> QED BY <3>1, <2>2 DEF SweepInv
  <2>4. SweepsOld'
    <3>1. /\ sweeper'[p].step = "delete" /\ sweeper'[p].picked = Ids(rows_)
          /\ sweeper'[p].cutoff = sweeper[p].cutoff
          /\ \A o \in Replica \ {p} : sweeper'[o] = sweeper[o]
      BY <2>1 DEF SweepInv
    <3>2. sweeper[p].step = "select" /\ trail' = trail /\ FreshIds(Ids(rows_))'
      BY <1>1, <1>4, <2>2 DEF Select, FreshIds
    <3>3. \A o \in Replica \ {p} : FreshIds(sweeper[o].picked) => FreshIds(sweeper[o].picked)'
      BY <1>1, <3>1 DEF FreshIds
    <3> QED BY <2>3, <3>1, <3>2, <3>3 DEF SweepInv, SweepsOld
  <2> QED BY <1>1, <1>4, <2>1, <2>4 DEF SweepInv, FreshIds, KeepsYoungEntries
<1>5. CASE Delete(p)
  <2>1. /\ trail' = {e \in trail : e.id \notin sweeper[p].picked}
        /\ sweeper[p].step = "delete"
    BY <1>5 DEF Delete
  <2> DEFINE s == sweeper'[p]
  <2>2. /\ sweeper' = [sweeper EXCEPT ![p] = s]
        /\ DOMAIN s = {"step", "cutoff", "picked"}
        /\ s.step = "select" => s.cutoff = sweeper[p].cutoff
        /\ s.step # "delete"
    <3> DEFINE next(b) == IF b THEN [Off EXCEPT !.step = "idle"]
                               ELSE [sweeper[p] EXCEPT !.step = "select", !.picked = {}]
               short == Cardinality({e \in trail : e.id \in sweeper[p].picked}) < Batch
    <3>1. sweeper' = [sweeper EXCEPT ![p] = next(short)]
      BY <1>5 DEF Delete
    <3>2. sweeper'[p] = next(short) /\ sweeper' = [sweeper EXCEPT ![p] = sweeper'[p]]
      BY <3>1 DEF SweepInv
    <3> HIDE DEF short
    <3> QED BY <3>2 DEF Off, SweepInv
  <2> HIDE DEF s
  <2>3. SweepsOld'
    BY <1>1, <2>1, <2>2 DEF SweepInv, SweepsOld, FreshIds
  <2>4. FreshIds(Ids(trail))'
    BY <1>1, <2>1 DEF SweepInv, FreshIds, Ids
  <2>5. KeepsYoungEntries
    <3> SUFFICES ASSUME NEW e \in trail \ trail' PROVE today - e.day > RetentionDays
      BY DEF KeepsYoungEntries
    <3>1. e.day < sweeper[p].cutoff /\ sweeper[p].cutoff \in Int /\ sweeper[p].cutoff <= today - RetentionDays
      BY <2>1 DEF SweepInv, SweepsOld
    <3> QED BY <3>1, RetentionAssumption DEF SweepInv
  <2> QED BY <1>1, <2>1, <2>2, <2>3, <2>4, <2>5 DEF SweepInv
<1> QED BY <1>2, <1>3, <1>4, <1>5

-----------------------------------------------------------------------------
LEMMA SweepStep == SweepInv /\ [Next]_vars => SweepInv' /\ [KeepsYoungEntries]_sweepVars
<1> SUFFICES ASSUME SweepInv, [Next]_vars PROVE SweepInv' /\ KeepsYoungEntries
  OBVIOUS
<1>1. ASSUME NEW p \in Replica, Starts(p) PROVE SweepInv' /\ KeepsYoungEntries
  BY <1>1, ApartFromTrail
     DEF Starts, Proceed, NewServer, Load, NewPostgres, AcquireConn, TakeLock, EnsureTable, Check,
         BeginTx, ApplyBody, Record, Commit, Unlock, NewKekProvider, sweepVars, Trouble
<1>2. ASSUME NEW p \in Replica, Retries(p) PROVE SweepInv' /\ KeepsYoungEntries
  BY <1>2, ApartFromTrail DEF Retries, RetryVerifier, sweepVars
<1>3. ASSUME NEW p \in Replica, Killed(p) PROVE SweepInv' /\ KeepsYoungEntries
  BY <1>3, SweeperStep DEF Killed, Crash, tables, Trouble
<1>4. ASSUME NEW p \in Replica, Sweeping(p) \/ Settles(p) PROVE SweepInv' /\ KeepsYoungEntries
  BY <1>4, SweeperStep
     DEF Sweeping, Settles, SweepProceeds, StartSweeping, BeginSweep, Select, Delete, Trouble
<1>5. CASE Surroundings
  BY <1>5, ApartFromTrail
     DEF Surroundings, Launch, StatementFails, Fail, CommitUnanswered, IdpFails, IdpReturns,
         sweepVars, Trouble
<1>6. CASE Time
  BY <1>6, ApartFromTrail, NextDayStep DEF Time, sweepVars, Trouble
<1>7. CASE Trailing
  <2>1. ASSUME NEW u \in User, NEW ago \in {0, 1}, NewEntry(u, today - ago), load' = load
        PROVE  SweepInv' /\ KeepsYoungEntries
    <3>1. today - ago \in Int
      BY DEF SweepInv
    <3> QED BY <2>1, <3>1, NewEntryStep
  <2>2. ASSUME NEW p \in Replica, SweepFails(p), load' = load PROVE SweepInv' /\ KeepsYoungEntries
    BY <2>2, SweeperStep DEF SweepFails, Trouble
  <2> QED BY <1>7, <2>1, <2>2 DEF Trailing
<1>8. ASSUME NEW r \in Req, Comes(r) PROVE SweepInv' /\ KeepsYoungEntries
  BY <1>8, ApartFromTrail DEF Comes, sweepVars, bootVars
<1>9. ASSUME NEW r \in Req, Serves(r) PROVE SweepInv' /\ KeepsYoungEntries
  BY <1>9, ApartFromTrail
     DEF Serves, Authenticate, AuthenticateKey, AuthenticateToken, NoCredential, Handle, Malformed,
         QueryFails, Me, Reveal, Touch, ReadForSave, InsertRow, UpdateRow, Remove, List, ShapeOnly,
         NewKey, SetKeyEnabled, RemoveKey, ListKeys, CountTrail, PageTrail, sweepVars, Trouble
<1>10. CASE UNCHANGED vars
  BY <1>10, ApartFromTrail DEF vars, sweepVars, bootVars
<1> QED BY <1>1, <1>2, <1>3, <1>4, <1>5, <1>6, <1>7, <1>8, <1>9, <1>10 DEF Next

\* Retention.sweepOnce (retention.go:76-95) on however many replicas, cut short by a crash or a
\* failed statement, over days that pass meanwhile and beside writers whose entries are a day
\* late: no step deletes an entry that is within the retention.
THEOREM NoYoungEntryIsSwept == Spec => YoungEntriesStay
  BY SweepInitInv, SweepStep, PTL DEF Spec, YoungEntriesStay

-----------------------------------------------------------------------------
(* Types of what starts and of what sweeps. *)

\* Beside what BootInv says of a replica: it serves only with an active key that it has.
StartInv ==
    /\ schema \in BOOLEAN /\ verifier \in [Replica -> {"none", "retrying", "ready"}] /\ idp \in BOOLEAN
    /\ \A p \in Replica : boot[p] \in {"server", "up"} => conf[p].active \in conf[p].keks

LEMMA StartInitInv == Init => StartInv
<1> SUFFICES ASSUME Init PROVE StartInv
  OBVIOUS
<1> DEFINE l == Loads[load]
<1>1. /\ boot = [p \in Replica |-> IF p \in l.up THEN "up" ELSE "down"]
      /\ conf = l.conf /\ schema = (l.recorded # {}) /\ idp = TRUE
      /\ verifier = [p \in Replica |-> IF p \in l.up /\ l.conf[p].auth THEN "ready" ELSE "none"]
  BY DEF Init
<1>2. \A p \in l.up : Sound(l.conf[p])
  BY LoadsAreStates DEF Init
<1>3. verifier \in [Replica -> {"none", "retrying", "ready"}]
  BY <1>1
<1>4. \A p \in Replica : boot[p] \in {"server", "up"} => conf[p].active \in conf[p].keks
  BY <1>1, <1>2 DEF Sound
<1>5. schema \in BOOLEAN /\ idp \in BOOLEAN
  BY <1>1
<1> QED BY <1>3, <1>4, <1>5 DEF StartInv

LEMMA SameStart ==
    ASSUME StartInv, UNCHANGED <<boot, conf, schema, verifier, idp>> PROVE StartInv'
  BY DEF StartInv

\* The last steps of run() look at the keys; a launch takes another configuration, but only
\* for a replica that is down.
LEMMA StartsTyped ==
    ASSUME BootInv, StartInv, NEW p \in Replica,
           \/ Proceed(p) \/ NewServer(p) \/ RetryVerifier(p) \/ StatementFails(p)
           \/ CommitUnanswered(p) \/ Crash(p) \/ (\E c \in Config : Launch(p, c))
    PROVE  StartInv'
<1> USE DEF StartInv, BootInv, BootTypes, Go, dbSchema, txVars
<1>1. CASE NewKekProvider(p)
  BY <1>1 DEF NewKekProvider
<1>2. CASE NewServer(p)
  <2>1. verifier' \in [Replica -> {"none", "retrying", "ready"}]
    <3>1. CASE ~conf[p].auth \/ ~conf[p].https
      BY <1>2, <3>1 DEF NewServer
    <3>2. CASE conf[p].auth /\ conf[p].https /\ idp
      BY <1>2, <3>2 DEF NewServer
    <3>3. CASE conf[p].auth /\ conf[p].https /\ ~idp
      BY <1>2, <3>3 DEF NewServer
    <3> QED BY <3>1, <3>2, <3>3
  <2>2. \A q \in Replica : boot'[q] \in {"server", "up"} => conf'[q].active \in conf'[q].keks
    BY <1>2 DEF NewServer
  <2> QED BY <1>2, <2>1, <2>2 DEF NewServer
<1>3. CASE RetryVerifier(p) \/ Crash(p) \/ (\E c \in Config : Launch(p, c))
  BY <1>3 DEF RetryVerifier, Crash, Launch
<1>4. CASE StatementFails(p) \/ CommitUnanswered(p)
  BY <1>4 DEF StatementFails, Fail, CommitUnanswered
<1>5. CASE Load(p) \/ NewPostgres(p)
  BY <1>5 DEF Load, NewPostgres
<1>7. CASE AcquireConn(p) \/ TakeLock(p) \/ EnsureTable(p)
  BY <1>7 DEF AcquireConn, TakeLock, EnsureTable
<1>6. CASE Check(p) \/ BeginTx(p) \/ ApplyBody(p) \/ Record(p) \/ Commit(p) \/ Unlock(p)
  BY <1>6 DEF Check, BeginTx, ApplyBody, Record, Commit, Unlock, NextVersion
<1> QED BY <1>1, <1>2, <1>3, <1>4, <1>5, <1>6, <1>7 DEF Proceed

LEMMA StartStep == BootInv /\ StartInv /\ [Next]_vars => StartInv'
<1> SUFFICES ASSUME BootInv, StartInv, [Next]_vars PROVE StartInv'
  OBVIOUS
<1>1. ASSUME NEW p \in Replica, Starts(p) \/ Retries(p) \/ Killed(p) PROVE StartInv'
  BY <1>1, StartsTyped DEF Starts, Retries, Killed
<1>2. CASE Surroundings
  <2>1. ASSUME NEW p \in Replica, NEW c \in Loads[load].launch, Launch(p, c) PROVE StartInv'
    <3>1. c \in Config
      BY <2>1, LoadsAreStates DEF BootInv
    <3> QED BY <2>1, <3>1, StartsTyped
  <2>2. ASSUME NEW p \in Replica, StatementFails(p) \/ CommitUnanswered(p) PROVE StartInv'
    BY <2>2, StartsTyped
  <2>3. ASSUME IdpFails \/ IdpReturns PROVE StartInv'
    BY <2>3 DEF IdpFails, IdpReturns, StartInv, dbSchema
  <2> QED BY <1>2, <2>1, <2>2, <2>3 DEF Surroundings
<1>3. CASE UNCHANGED bootState
  BY <1>3, SameStart DEF bootState, dbSchema
<1>4. ASSUME NEW p \in Replica, Sweeping(p) \/ Settles(p) PROVE UNCHANGED bootState
  BY <1>4 DEF Sweeping, Settles
<1>5. ASSUME Time \/ Trailing \/ UNCHANGED vars PROVE UNCHANGED bootState
  BY <1>5 DEF Time, Trailing, vars, bootVars
<1>6. ASSUME NEW r \in Req, Comes(r) \/ Serves(r) PROVE UNCHANGED bootState
  BY <1>6 DEF Comes, Serves, bootVars
<1> QED BY <1>1, <1>2, <1>3, <1>4, <1>5, <1>6 DEF Next

\* The entries that will be written have ids, and only a replica that is up sweeps.
SweepTypes == SweepTypeOK /\ 1 .. budget["entry"] \subseteq EntryId

LEMMA SweepTypesInit == Init => SweepTypes
<1> SUFFICES ASSUME Init PROVE SweepTypes
  OBVIOUS
<1> DEFINE l == Loads[load]
<1>1. /\ today = RetentionDays /\ trail = l.trail /\ sweeper = [p \in Replica |-> Off]
      /\ budget = [k \in Trouble |-> IF k \in DOMAIN l.budget THEN l.budget[k] ELSE 0]
  BY DEF Init
<1>2. /\ l.trail \subseteq EntryRow
      /\ "entry" \in DOMAIN l.budget => 1 .. l.budget["entry"] \subseteq EntryId
  BY LoadsAreStates DEF Init
<1> HIDE DEF l
<1>3. SweepTypeOK
  BY <1>1, <1>2, RetentionAssumption DEF SweepTypeOK, Off
<1>4. 1 .. budget["entry"] \subseteq EntryId
  BY <1>1, <1>2 DEF Trouble
<1> QED BY <1>3, <1>4 DEF SweepTypes

\* A step that changes no sweep, and stops no replica.
LEMMA SweepsGoOn ==
    ASSUME SweepInv, SweepTypes, UNCHANGED <<today, trail, sweeper>>,
           \A p \in Replica : boot[p] = "up" => boot'[p] = "up",
           UNCHANGED budget \/ \E what \in Trouble : Spend(what)
    PROVE  SweepTypes'
  BY BudgetShrinks DEF SweepTypes, SweepTypeOK

\* What one sweeper does.
LEMMA SweeperTyped ==
    ASSUME SweepInv, SweepTypes, NEW p \in Replica, today' = today, boot' = boot,
           StartSweeping(p) \/ BeginSweep(p) \/ Select(p) \/ Delete(p) \/ SweepFails(p)
    PROVE  SweepTypes'
<1>1. /\ budget' \in [Trouble -> Nat]
      /\ (1 .. budget'["entry"]) \subseteq (1 .. budget["entry"])
  BY BudgetShrinks DEF StartSweeping, BeginSweep, Select, Delete, SweepFails, Trouble
<1>2. trail' \subseteq trail
  BY DEF StartSweeping, BeginSweep, Select, Delete, SweepFails
<1>3. /\ sweeper' = [sweeper EXCEPT ![p] = sweeper'[p]]
      /\ sweeper'[p].step \in {"off", "idle", "select", "delete"}
      /\ sweeper'[p].cutoff \in Int /\ sweeper'[p].picked \subseteq EntryId
      /\ boot[p] = "up"
  <2>0. DOMAIN sweeper = Replica
    BY DEF SweepInv
  <2> USE <2>0 DEF Sweeps
  <2>1. CASE StartSweeping(p)
    BY <2>1 DEF StartSweeping, Off
  <2>2. CASE SweepFails(p)
    BY <2>2 DEF SweepFails, Off, SweepTypes, SweepTypeOK
  <2>3. CASE BeginSweep(p)
    <3>1. today - RetentionDays \in Int
      BY RetentionAssumption DEF SweepInv
    <3> QED BY <2>3, <3>1 DEF BeginSweep, SweepTypes, SweepTypeOK
  <2>4. CASE Select(p)
    <3>1. PICK rows_ \in SUBSET Old(sweeper[p].cutoff) :
            sweeper' = [sweeper EXCEPT ![p] = [sweeper[p] EXCEPT !.step = "delete", !.picked = Ids(rows_)]]
      BY <2>4 DEF Select
    <3>2. Ids(rows_) \subseteq EntryId
      BY DEF Ids, Old, SweepTypes, SweepTypeOK, EntryRow
    <3>3. DOMAIN sweeper[p] = {"step", "cutoff", "picked"} /\ boot[p] = "up" /\ sweeper[p].cutoff \in Int
      BY <2>4 DEF Select, SweepInv, SweepTypes, SweepTypeOK
    <3> DEFINE s == [sweeper[p] EXCEPT !.step = "delete", !.picked = Ids(rows_)]
    <3>4. s.step = "delete" /\ s.cutoff = sweeper[p].cutoff /\ s.picked = Ids(rows_)
      BY <3>3
    <3> QED BY <3>1, <3>2, <3>3, <3>4
  <2>5. CASE Delete(p)
    <3>1. sweeper' = [sweeper EXCEPT ![p] = [Off EXCEPT !.step = "idle"]]
          \/ sweeper' = [sweeper EXCEPT ![p] = [sweeper[p] EXCEPT !.step = "select", !.picked = {}]]
      BY <2>5 DEF Delete
    <3>2. DOMAIN sweeper[p] = {"step", "cutoff", "picked"} /\ boot[p] = "up" /\ sweeper[p].cutoff \in Int
      BY <2>5 DEF Delete, SweepInv, SweepTypes, SweepTypeOK
    <3>3. CASE sweeper' = [sweeper EXCEPT ![p] = [Off EXCEPT !.step = "idle"]]
      BY <3>2, <3>3 DEF Off
    <3>4. CASE sweeper' = [sweeper EXCEPT ![p] = [sweeper[p] EXCEPT !.step = "select", !.picked = {}]]
      <4> DEFINE s == [sweeper[p] EXCEPT !.step = "select", !.picked = {}]
      <4>1. s.step = "select" /\ s.cutoff = sweeper[p].cutoff /\ s.picked = {}
        BY <3>2
      <4>2. sweeper'[p] = s /\ sweeper' = [sweeper EXCEPT ![p] = sweeper'[p]]
        BY <3>4
      <4> HIDE DEF s
      <4> QED BY <3>2, <4>1, <4>2
    <3> QED BY <3>1, <3>3, <3>4
  <2> QED BY <2>1, <2>2, <2>3, <2>4, <2>5
<1>4. DOMAIN sweeper = Replica
  BY DEF SweepInv
<1> QED BY <1>1, <1>2, <1>3, <1>4 DEF SweepTypes, SweepTypeOK

\* A replica that is killed stops sweeping.
LEMMA KilledSweeps ==
    ASSUME SweepInv, SweepTypes, BootInv, NEW p \in Replica, Killed(p) PROVE SweepTypes'
<1>1. /\ budget' \in [Trouble -> Nat]
      /\ (1 .. budget'["entry"]) \subseteq (1 .. budget["entry"])
  BY BudgetShrinks DEF Killed, Crash, Trouble
<1>2. /\ UNCHANGED <<today, trail>> /\ boot' = [boot EXCEPT ![p] = "down"]
      /\ sweeper' = [sweeper EXCEPT ![p] = Off]
  BY DEF Killed, Crash, Go
<1> QED BY <1>1, <1>2 DEF SweepTypes, SweepTypeOK, SweepInv, BootInv, BootTypes, Off

\* Days pass, entries are written.
LEMMA TrailTyped ==
    ASSUME SweepInv, SweepTypes, boot' = boot,
           NextDay \/ \E u \in User, d \in Int : NewEntry(u, d)
    PROVE  SweepTypes'
<1>1. /\ budget' \in [Trouble -> Nat]
      /\ (1 .. budget'["entry"]) \subseteq (1 .. budget["entry"])
  BY BudgetShrinks DEF NextDay, NewEntry, Trouble
<1>2. CASE NextDay
  BY <1>1, <1>2 DEF NextDay, SweepTypes, SweepTypeOK, SweepInv
<1>3. ASSUME NEW u \in User, NEW d \in Int, NewEntry(u, d) PROVE SweepTypes'
  <2>1. budget["entry"] \in EntryId
    <3>1. budget["entry"] \in Nat /\ budget["entry"] > 0
      BY <1>3 DEF NewEntry, Spend, SweepInv, Trouble
    <3> QED BY <3>1 DEF SweepTypes
  <2>2. trail' \subseteq EntryRow
    BY <1>3, <2>1 DEF NewEntry, SweepTypes, SweepTypeOK, EntryRow
  <2> QED BY <1>1, <1>3, <2>2 DEF NewEntry, SweepTypes, SweepTypeOK
<1> QED BY <1>2, <1>3

LEMMA SweepTypesStep == BootInv /\ SweepInv /\ SweepTypes /\ [Next]_vars => SweepTypes'
<1> SUFFICES ASSUME BootInv, SweepInv, SweepTypes, [Next]_vars PROVE SweepTypes'
  OBVIOUS
<1> USE DEF BootInv, BootTypes, Go
<1>1. ASSUME NEW p \in Replica, Starts(p) PROVE SweepTypes'
  BY <1>1, SweepsGoOn
     DEF Starts, Proceed, NewServer, Load, NewPostgres, AcquireConn, TakeLock, EnsureTable, Check,
         BeginTx, ApplyBody, Record, Commit, Unlock, NewKekProvider, NextVersion, sweepVars, Trouble
<1>2. ASSUME NEW p \in Replica, Retries(p) PROVE SweepTypes'
  BY <1>2, SweepsGoOn DEF Retries, RetryVerifier, sweepVars
<1>3. ASSUME NEW p \in Replica, Killed(p) PROVE SweepTypes'
  BY <1>3, KilledSweeps
<1>4. ASSUME NEW p \in Replica, Sweeping(p) \/ Settles(p) PROVE SweepTypes'
  BY <1>4, SweeperTyped
     DEF Sweeping, Settles, SweepProceeds, StartSweeping, BeginSweep, Select, Delete, bootState
<1>5. CASE Surroundings
  BY <1>5, SweepsGoOn
     DEF Surroundings, Launch, StatementFails, Fail, CommitUnanswered, IdpFails, IdpReturns,
         sweepVars, Trouble
<1>6. CASE Time
  BY <1>6, SweepsGoOn, TrailTyped DEF Time, sweepVars, bootState, Trouble
<1>7. CASE Trailing
  <2>1. ASSUME NEW u \in User, NEW ago \in {0, 1}, NewEntry(u, today - ago), boot' = boot
        PROVE  SweepTypes'
    <3>1. today - ago \in Int
      BY DEF SweepInv
    <3> QED BY <2>1, <3>1, TrailTyped
  <2>2. ASSUME NEW p \in Replica, SweepFails(p), boot' = boot PROVE SweepTypes'
    BY <2>2, SweeperTyped DEF SweepFails
  <2> QED BY <1>7, <2>1, <2>2 DEF Trailing, bootState
<1>8. ASSUME NEW r \in Req, Comes(r) PROVE SweepTypes'
  BY <1>8, SweepsGoOn DEF Comes, sweepVars, bootVars, bootState
<1>9. ASSUME NEW r \in Req, Serves(r) PROVE SweepTypes'
  BY <1>9, SweepsGoOn
     DEF Serves, Authenticate, AuthenticateKey, AuthenticateToken, NoCredential, Handle, Malformed,
         QueryFails, Me, Reveal, Touch, ReadForSave, InsertRow, UpdateRow, Remove, List, ShapeOnly,
         NewKey, SetKeyEnabled, RemoveKey, ListKeys, CountTrail, PageTrail, sweepVars, bootState, Trouble
<1>10. CASE UNCHANGED vars
  BY <1>10, SweepsGoOn DEF vars, sweepVars, bootVars, bootState
<1> QED BY <1>1, <1>2, <1>3, <1>4, <1>5, <1>6, <1>7, <1>8, <1>9, <1>10 DEF Next

=============================================================================

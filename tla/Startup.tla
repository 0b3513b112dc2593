-------------------------------- MODULE Startup --------------------------------
(***************************************************************************)
(* How a server process comes up: run() of cmd/vault/main.go, the          *)
(* configuration it loads, the migrations it applies under a database      *)
(* lock, the key-encryption keys, and the OIDC verifier that a goroutine   *)
(* keeps looking for when the identity provider is away.  Replicas start   *)
(* side by side, statements fail, processes crash and are started again.   *)
(***************************************************************************)
EXTENDS RateLimiter, Sequences

CONSTANTS Kek,        \* ids of key-encryption keys
          NoKek,      \* an unset VAULT_CRYPTO_ACTIVE_KEK_ID
          Migrations, \* how many migrations are embedded
          NoOne,      \* nobody holds the advisory lock
          PoolSize    \* connections of a replica's pool

\* The lock connection is held while the statements take others from the pool.
ASSUME PoolIsEnough == PoolSize \in Nat /\ PoolSize >= 2
ASSUME MigrationsAreCounted == Migrations \in Nat
ASSUME NoOneIsNobody == NoOne \notin Replica

Version == 1 .. Migrations   \* in lexical order

VARIABLES boot,      \* [Replica -> how far run() has got]
          conf,      \* [Replica -> its Config]
          at,        \* [Replica -> the version Migrate works on]
          locker,    \* the session that holds pg_advisory_lock
          schema,    \* vault.schema_migrations exists
          recorded,  \* its rows
          applied,   \* [Version -> how often its body has been committed]
          pending,   \* [Replica -> versions its open transaction has run the body of]
          noted,     \* [Replica -> versions its open transaction has recorded]
          verifier,  \* [Replica -> "none", "retrying" or "ready"]
          idp,       \* the identity provider answers
          budget     \* bounds: what may still go wrong, and how often

dbSchema == <<schema, recorded, applied>>
txVars == <<pending, noted>>
bootState == <<boot, conf, at, locker, dbSchema, txVars, verifier, idp>>
bootVars == <<bootState, budget>>

\* What run() looks at; https: the authorities are https, or need not be.
Config == [dsn : BOOLEAN, migrate : BOOLEAN, active : Kek \cup {NoKek}, keks : SUBSET Kek,
           auth : BOOLEAN, https : BOOLEAN]

Migrating == {"lock", "ensure", "check", "begin", "apply", "record", "commit", "unlock", "giveUp"}

Trouble == {"launch", "crash", "fault", "outage", "settle", "tick", "day", "entry"}

BootTypeOK ==
    /\ boot \in [Replica -> {"down", "load", "connect", "acquire", "kek", "server", "up"} \cup Migrating]
    /\ conf \in [Replica -> Config]
    /\ at \in [Replica -> Nat]
    /\ locker \in Replica \cup {NoOne}
    /\ schema \in BOOLEAN /\ recorded \subseteq Version /\ applied \in [Version -> Nat]
    /\ pending \in [Replica -> SUBSET Version] /\ noted \in [Replica -> SUBSET Version]
    /\ verifier \in [Replica -> {"none", "retrying", "ready"}]
    /\ idp \in BOOLEAN
    /\ budget \in [Trouble -> Nat]

Spend(what) == budget[what] > 0 /\ budget' = [budget EXCEPT ![what] = @ - 1]

Go(p, pc) == boot' = [boot EXCEPT ![p] = pc]

\* The connections a replica holds between its statements: one for the lock, one for
\* an open transaction.
Held(p) == CASE boot[p] \in {"apply", "record", "commit"} -> 2
             [] boot[p] \in Migrating -> 1
             [] OTHER -> 0

FreeConnection(p) == Held(p) < PoolSize

\* A statement of Migrate that fails ends it; the transaction is rolled back.
Fail(p) == /\ Spend("fault")
           /\ Go(p, "giveUp")
           /\ pending' = [pending EXCEPT ![p] = {}]
           /\ noted' = [noted EXCEPT ![p] = {}]
           /\ UNCHANGED <<conf, at, locker, dbSchema, verifier, idp>>

-----------------------------------------------------------------------------
Launch(p, c) ==
    /\ boot[p] = "down" /\ Spend("launch")
    /\ conf' = [conf EXCEPT ![p] = c]
    /\ Go(p, "load")
    /\ UNCHANGED <<at, locker, dbSchema, txVars, verifier, idp>>

Load(p) ==
    /\ boot[p] = "load"
    /\ Go(p, IF conf[p].dsn /\ conf[p].active # NoKek /\ conf[p].keks # {}
               THEN "connect" ELSE "down")
    /\ UNCHANGED <<conf, at, locker, dbSchema, txVars, verifier, idp, budget>>

\* NewPostgres verifies connectivity; a database that does not answer ends the process.
NewPostgres(p) ==
    /\ boot[p] = "connect"
    /\ \/ Go(p, IF conf[p].migrate THEN "acquire" ELSE "kek") /\ UNCHANGED budget
       \/ Go(p, "down") /\ Spend("fault")
    /\ UNCHANGED <<conf, at, locker, dbSchema, txVars, verifier, idp>>

AcquireConn(p) ==
    /\ boot[p] = "acquire" /\ FreeConnection(p)
    /\ Go(p, "lock")
    /\ UNCHANGED <<conf, at, locker, dbSchema, txVars, verifier, idp, budget>>

\* pg_advisory_lock waits for the session that has it.
TakeLock(p) ==
    /\ boot[p] = "lock" /\ locker = NoOne
    /\ Go(p, "ensure")
    /\ locker' = p
    /\ UNCHANGED <<conf, at, dbSchema, txVars, verifier, idp, budget>>

EnsureTable(p) ==
    /\ boot[p] = "ensure" /\ FreeConnection(p)
    /\ schema' = TRUE
    /\ at' = [at EXCEPT ![p] = 1]
    /\ Go(p, IF Version = {} THEN "unlock" ELSE "check")
    /\ UNCHANGED <<conf, locker, recorded, applied, txVars, verifier, idp, budget>>

\* On to the next version, or to the deferred unlock behind the last one.
NextVersion(p) == /\ at' = [at EXCEPT ![p] = @ + 1]
                  /\ Go(p, IF at[p] + 1 \in Version THEN "check" ELSE "unlock")

Check(p) ==
    /\ boot[p] = "check" /\ FreeConnection(p)
    /\ \/ at[p] \in recorded /\ NextVersion(p)
       \/ at[p] \notin recorded /\ Go(p, "begin") /\ UNCHANGED at
    /\ UNCHANGED <<conf, locker, dbSchema, txVars, verifier, idp, budget>>

BeginTx(p) ==
    /\ boot[p] = "begin" /\ FreeConnection(p)
    /\ Go(p, "apply")
    /\ UNCHANGED <<conf, at, locker, dbSchema, txVars, verifier, idp, budget>>

\* Mutant: the body runs on the pool, outside the transaction.
ApplyAtOnce(p) ==
    /\ boot[p] = "apply"
    /\ applied' = [applied EXCEPT ![at[p]] = @ + 1]
    /\ Go(p, "record")
    /\ UNCHANGED <<conf, at, locker, schema, recorded, txVars, verifier, idp, budget>>

ApplyBody(p) ==
    /\ boot[p] = "apply"
    /\ pending' = [pending EXCEPT ![p] = @ \cup {at[p]}]
    /\ Go(p, "record")
    /\ UNCHANGED <<conf, at, locker, dbSchema, noted, verifier, idp, budget>>

\* The primary key: an insert waits for another transaction's row, and fails on a
\* committed one.
Record(p) ==
    /\ boot[p] = "record"
    /\ \A o \in Replica \ {p} : at[p] \notin noted[o]
    /\ IF at[p] \in recorded
         THEN /\ Go(p, "giveUp")
              /\ pending' = [pending EXCEPT ![p] = {}]
              /\ UNCHANGED noted
         ELSE /\ Go(p, "commit")
              /\ noted' = [noted EXCEPT ![p] = @ \cup {at[p]}]
              /\ UNCHANGED pending
    /\ UNCHANGED <<conf, at, locker, dbSchema, verifier, idp, budget>>

Commit(p) ==
    /\ boot[p] = "commit"
    /\ recorded' = recorded \cup noted[p]
    /\ applied' = [v \in Version |-> IF v \in pending[p] THEN applied[v] + 1 ELSE applied[v]]
    /\ pending' = [pending EXCEPT ![p] = {}]
    /\ noted' = [noted EXCEPT ![p] = {}]
    /\ NextVersion(p)
    /\ UNCHANGED <<conf, locker, schema, verifier, idp, budget>>

\* An error of Commit leaves open whether it was carried out.
CommitUnanswered(p) ==
    /\ boot[p] = "commit" /\ Spend("fault")
    /\ recorded' = recorded \cup noted[p]
    /\ applied' = [v \in Version |-> IF v \in pending[p] THEN applied[v] + 1 ELSE applied[v]]
    /\ pending' = [pending EXCEPT ![p] = {}]
    /\ noted' = [noted EXCEPT ![p] = {}]
    /\ Go(p, "giveUp")
    /\ UNCHANGED <<conf, at, locker, schema, verifier, idp>>

StatementFails(p) ==
    /\ boot[p] \in {"acquire", "lock", "ensure", "check", "begin", "apply", "record", "commit"}
    /\ Fail(p)

\* Mutant: the connection goes back to the pool with the lock.
KeepLock(p) ==
    /\ boot[p] \in {"unlock", "giveUp"}
    /\ locker' = IF locker = p /\ boot[p] = "giveUp" THEN NoOne ELSE locker
    /\ Go(p, IF boot[p] = "unlock" THEN "kek" ELSE "down")
    /\ UNCHANGED <<conf, at, dbSchema, txVars, verifier, idp, budget>>

\* The deferred calls: the lock goes whether Migrate succeeded or not; the error ends
\* the process.
Unlock(p) ==
    /\ boot[p] \in {"unlock", "giveUp"}
    /\ locker' = IF locker = p THEN NoOne ELSE locker
    /\ Go(p, IF boot[p] = "unlock" THEN "kek" ELSE "down")
    /\ UNCHANGED <<conf, at, dbSchema, txVars, verifier, idp, budget>>

NewKekProvider(p) ==
    /\ boot[p] = "kek"
    /\ Go(p, IF conf[p].active \in conf[p].keks THEN "server" ELSE "down")
    /\ UNCHANGED <<conf, at, locker, dbSchema, txVars, verifier, idp, budget>>

\* NewServer: an authority without https is refused; one that does not answer is not
\* fatal, a goroutine goes on asking.
NewServer(p) ==
    /\ boot[p] = "server"
    /\ Go(p, IF conf[p].auth /\ ~conf[p].https THEN "down" ELSE "up")
    /\ verifier' = [verifier EXCEPT ![p] = CASE ~conf[p].auth \/ ~conf[p].https -> "none"
                                             [] idp -> "ready"
                                             [] OTHER -> "retrying"]
    /\ UNCHANGED <<conf, at, locker, dbSchema, txVars, idp, budget>>

\* Mutant: the goroutine gives up at its first failure.
RetryOnce(p) ==
    /\ verifier[p] = "retrying"
    /\ verifier' = [verifier EXCEPT ![p] = IF idp THEN "ready" ELSE "none"]
    /\ UNCHANGED <<boot, conf, at, locker, dbSchema, txVars, idp, budget>>

\* One round of the goroutine: a failure only makes it wait longer.
RetryVerifier(p) ==
    /\ verifier[p] = "retrying" /\ idp
    /\ verifier' = [verifier EXCEPT ![p] = "ready"]
    /\ UNCHANGED <<boot, conf, at, locker, dbSchema, txVars, idp, budget>>

\* A process is killed: its sessions end, the lock and the open transaction with them.
Crash(p) ==
    /\ boot[p] # "down" /\ Spend("crash")
    /\ Go(p, "down")
    /\ locker' = IF locker = p THEN NoOne ELSE locker
    /\ pending' = [pending EXCEPT ![p] = {}]
    /\ noted' = [noted EXCEPT ![p] = {}]
    /\ verifier' = [verifier EXCEPT ![p] = "none"]
    /\ UNCHANGED <<conf, at, dbSchema, idp>>

IdpFails == /\ idp /\ Spend("outage") /\ idp' = FALSE
            /\ UNCHANGED <<boot, conf, at, locker, dbSchema, txVars, verifier>>

IdpReturns == /\ ~idp /\ idp' = TRUE
              /\ UNCHANGED <<boot, conf, at, locker, dbSchema, txVars, verifier, budget>>

\* The steps of run() that go on by themselves.
Proceed(p) == \/ Load(p) \/ NewPostgres(p) \/ AcquireConn(p) \/ TakeLock(p) \/ EnsureTable(p)
              \/ Check(p) \/ BeginTx(p) \/ ApplyBody(p) \/ Record(p) \/ Commit(p) \/ Unlock(p)
              \/ NewKekProvider(p)

-----------------------------------------------------------------------------
\* Every migration has taken effect exactly when it is recorded, once, and in order,
\* whatever crashes between the body and the record of it and however many replicas
\* start; a replica that migrates serves on the full schema (migrate.go:25-27).
MigratedOnce ==
    /\ \A v \in Version : applied[v] = IF v \in recorded THEN 1 ELSE 0
    /\ \A v \in recorded, w \in Version : w <= v => w \in recorded
    /\ \A p \in Replica : boot[p] \in {"kek", "server", "up"} /\ conf[p].migrate => recorded = Version

\* A configuration that run() has no objection to.
Sound(c) == /\ c.dsn /\ c.active \in c.keks /\ (c.auth => c.https)

\* Once nothing goes wrong any more, a replica that has started comes up: it is not
\* kept waiting by a lock nobody will free, and not turned down for what another one
\* has applied meanwhile: "the loser waits, then sees the versions as applied"
\* (migrate.go:27).
ReplicasStart ==
    \A p \in Replica :
      boot[p] = "connect" /\ Sound(conf[p]) /\ budget["fault"] = 0 /\ budget["crash"] = 0
        ~> boot[p] = "up"

\* A replica that came up without the identity provider gets its verifier once the
\* provider stays reachable: it "keeps retrying discovery in the background; JWT
\* requests get 503 until it succeeds" (server.go:90-93).
VerifierAppears ==
    <>[]idp => \A p \in Replica : boot[p] = "up" /\ conf[p].auth ~> boot[p] = "down" \/ verifier[p] = "ready"
=============================================================================

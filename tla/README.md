# DonkeyWork Vault in TLA+

Models, model-checking runs and proofs for the DonkeyWork Vault repository: a Go server that stores
API keys and OAuth tokens encrypted in Postgres and hands them out, and `dwvault`, its command-line
client.  Paths are relative to the repository root; line numbers are those of the commit modelled.

## 1. The system

### Parts, state and operations

| Part | Source | State it keeps | Operations | What makes it correct |
|---|---|---|---|---|
| Per-row refresh lock | `src/server/internal/service/keyedmutex.go` | map from key to a counted mutex, guarded by `k.mu` | `lock`, the unlock it returns | one holder per key, no entry for an idle key, nobody waits for ever |
| OAuth token service | `service/oauthtoken.go` | rows of `vault.oauth_tokens` | `GetAccessToken` with `refresh`, `List`, `Delete` | one refresh per row at a time, no rotated-away refresh token is stored, removed rows stay removed |
| OAuth flow service | `service/oauthflow.go` | `vault.oauth_states`, `oauth_tokens` | `Begin`, `Complete` | a state row is used once and in time, one row per account, a connection belongs to a provider that exists |
| Provider manifests | `internal/manifests` | `vault.provider_manifests`, embedded templates | `UpsertOAuth`, `Delete` (cascade), discovery | one row per slug with a stable id, nothing left behind by a deletion |
| OAuth app configs | `service/oauthconfig.go` | `vault.oauth_provider_configs` | `Upsert`, `Delete` | an edit with a blank secret keeps the stored one |
| API keys | `service/apikey.go` | `vault.api_keys` | `Upsert`, `Get`, `Delete` | the same; a use is recorded |
| Access keys | `service/accesskey.go` | `vault.access_keys` | `Create`, `SetEnabled`, `Delete`, `Authenticate` | a disabled or expired key authenticates nobody |
| Authentication, scopes | `internal/httpapi/middleware.go`, `internal/auth` | the OIDC verifier, built late | authenticate, scope gate | no request passes with fewer scopes than its route asks for |
| Audit sink and writer | `internal/audit/log.go`, `writer.go` | a bounded channel, one batch, a counter | `Emit`, `Run`, `persist`, `Complete` | an event ends in the table, in the log or in the counter; order is kept; memory is bounded |
| Process lifecycle | `cmd/vault/main.go` | contexts, the server, a wait group | start, serve, shut down | it stops when told to, after its background work |
| Audit retention | `internal/audit/retention.go` | nothing of its own | sweep | only rows older than the cutoff go |
| Rate limiter | `internal/httpapi/limits.go` | fixed windows per address | allow, sweep | at most the limit per window, a bounded map |
| Envelope encryption | `internal/crypto` | key-encryption keys by id | encrypt, decrypt | what an old key encrypted is still read after a rotation |
| Migrations | `internal/db/migrate.go` | the schema table, an advisory lock | migrate | replicas that start together apply each file once |
| Postgres store | `internal/store/postgres.go` | all tables | one statement per method; one transaction for the cascade | what the services assume of it |
| CLI credential store | `src/cli/internal/credstore` | keyring and a file | get, set, delete | one host's credential is not lost to another's write |
| CLI requests | `src/cli/client.go`, `auth.go` | the stored credential | login, refresh on expiry, logout | a refreshed token is not overwritten by an older one |
| CLI self-update | `src/cli/internal/selfupdate` | the cached check, the binary | check, replace | the binary is whole at every moment |
| Portal, generated client, skill, telemetry | `src/portal`, `src/cli/internal/vaultapi`, ... | none the server depends on | | |

### How they interact

An HTTP handler runs in a goroutine of its own and calls one service; a service calls the store
(one SQL statement per call), the OAuth provider (HTTP) and `audit.Emit` (a non-blocking channel
send).  No service holds a transaction across two store calls, so any two handlers interleave at
every statement.  The only lock in the services is the per-row refresh lock, and it exists per
process.  One goroutine, the audit writer, empties the channel; it is started and stopped by `run`
in `cmd/vault/main.go` with a context of its own, so that it outlives the HTTP server.

### What is hard in it

* read-modify-write across statements: refresh against refresh, refresh against reconnection,
  either against a removal (`oauthtoken.go:153-243`, `oauthflow.go:279-297`);
* an external party with state of its own: a provider that rotates refresh tokens has already
  done so when the answer or the `UPDATE` is lost;
* a lock table that must forget idle keys while goroutines wait on them;
* a bounded queue, batches, retries and two contexts in the order of a shutdown;
* requests that hold a copy of what they read while others write it: an edit that leaves the secret
  blank, a key that is disabled while its request is in flight (`service/apikey.go`, `middleware.go`);
* several processes over one database: migrations under an advisory lock, retention sweeps that
  overlap, a rolling change of the active key-encryption key;
* several invocations of `dwvault` over one keyring, one file and one binary, without a lock.

`PROJECT.json` lists each hazard at its line, with the properties that cover it or why none does.

## 2. Modules

```
KeyLock  <---refines---  KeyedMutex  <--- KeyedMutexProofs
   ^                         ^------- MCKeyedMutex
   | instance
OAuthTokens  <--- OAuthTokensProofs
   ^------- MCOAuthTokens
OAuthFlow <--- MCOAuthFlow
   ^------- OAuthFlowProofs
AuditLedger <--refines-- AuditPipeline <--- MCAuditPipeline
                              ^------- AuditPipelineProofs

RateLimiter <- Startup <- Retention <- Requests <- VaultServer <- MCVaultServer
                                                     ^---- StartupProofs
StartupProofs <- RequestsProofs <- CredentialsProofs

CredStore <- Sessions <- SelfUpdate <- DwVault <- MCDwVault
                                          ^---- DwVaultProofs
```

An arrow `A <- B` says that B extends A.  The server's and the client's modules are stacks: a module
has the state and the operations of one component, leaves to the module above what it does not
touch, and the top one composes them into `Next`.

**KeyLock** is what the lock promises: a caller asks for a key, is granted it while nobody holds
it, and gives it back.  **KeyedMutex** is `keyedmutex.go` statement by statement: `guard` is `k.mu`,
`locks` the map, `refs`/`owner` the fields of a `refCountedMutex`, and `pc`, `key`, `mine` a
goroutine's position, argument and local variable.  A new object is any one that neither the map
nor a local variable reaches.  `KL` maps a caller to wanting its key from the call until the
per-key mutex is released, and to holding it where `lock` has returned.

**OAuthTokens** is one user's accounts at one provider.

| In the module | In the code |
|---|---|
| `provider`, `config` | whether the manifest and the app config row exist |
| `rows`, `created` | `oauth_tokens`; a row id grows with `created_at`, so "newest" is the largest id |
| `live` | at the provider: the one generation of each grant's refresh token it accepts, 0 for none |
| `GetAccessToken` .. `Store` | `oauthtoken.go:88-243`, one step per statement or call |
| `Locks` | `refreshLocks`, an instance of KeyLock: what KeyedMutex is shown to implement |
| `Exchange`, `FindExisting`, `StoreGrant` | `completeCore` from the manifest lookup on, and `storeToken` |
| `DeleteToken`, `DeleteConfig`, `DeleteProvider` | the removals, each one statement or one transaction |
| `Expire` | time: a token comes within the refresh window |

Tokens are names: an access token with its scopes is the callback that got them, a refresh token is
that callback and a generation.  The provider of the model accepts the newest generation only and may
or may not rotate at each refresh, which covers providers that rotate and those that do not; it is an
assumption about code that is not here, taken from the comment at `oauthtoken.go:157-160`.  A fault
is a statement that errors, a provider that is not reached, or an answer that is lost after the
provider has acted; they differ in the model because they differ in what is left behind.

**OAuthFlow** is one user's provider under one slug: what exists of it, and the consents that connect it.

| In the module | In the code |
|---|---|
| `provider`, `minted` | the slug's row of `provider_manifests`, named by its provider id; ids given out so far |
| `config`, `token` | the ids with a row in `oauth_provider_configs` and `oauth_tokens` (one account) |
| `state`, `posts` | a consent's row in `oauth_states`, with its ten minutes; how often its code was sent |
| `BeginResolve` .. `BeginInsert` | `Begin` |
| `ReadState` .. `StoreToken` | `completeCore` and `storeToken`; a delivery is one request to the callback |
| `EditResolve` .. `StoreConfig` | `OAuthConfigService.Upsert` |
| `ReadManifest`, `SaveManifest` | `UpsertOAuth` |
| `CascadeSelect` .. `Rollback` | `DeleteManifestCascade`, statement by statement; `doomed` holds the rows it has deleted and not committed, which others cannot write until it ends |

Any statement or call may fail (`Fail`, `Rollback`).  OAuthTokens has the content of the token rows, which
OAuthFlow leaves out; OAuthFlow has providers that come back and the statements of the deletion, which
OAuthTokens takes as one step.  The two are not composed into one model: what they share is whether the
row of an account exists.

**AuditPipeline** has the handlers' `Emit`, the channel, the writer's `select` (its three cases are
three actions, so that Go's random choice is TLC's), `persist` with its attempts and delays, the
drain on the fresh context, and the four steps of the shutdown in the order of `main.go:163-173`.
A batch is inserted whole or not at all, because `InsertAuditBatch` sends it in one implicit
transaction; an insert can also commit and have its answer lost.  **AuditLedger** is what that
amounts to for one event: `none`, then `queued`, `dropped` or `late`, and from `queued` to `stored`,
`logged` or (only once the sink is closed) `lost`, never back, and never queued for good.

### The server

**RateLimiter** (`httpapi/limits.go`): each replica's map of fixed windows.  `ReadClock` is the call
of `allow` up to the mutex and `Hit` the rest of it, so a request may act on an older time than one
that came to the mutex before it.  It has a specification of its own (`RateSpec`) beside its use in
the server.

**Startup** (`cmd/vault/main.go`, `config`, `db/migrate.go`, `crypto/localkek.go`,
`httpapi/server.go`): `boot` is how far `run()` has got, `locker` the session that holds
`pg_advisory_lock`, `pending` and `noted` an open transaction, `recorded` and `applied` the rows of
the migrations and what their bodies have done.  `Load` .. `NewServer` are the steps of `run()`;
`StatementFails`, `CommitUnanswered` and `Crash` are what may go wrong between them; `RetryVerifier`
is the goroutine that looks for the identity provider.

**Retention** (`audit/retention.go`, `DeleteAuditOlderThan`): `sweeper` is a replica's position in
`Run`, its cutoff and the ids its subselect has picked.  The subselect and the `DELETE` are two
steps, between which another replica's sweep may take the same rows.  `NewEntry` is a writer.

**Requests** (`httpapi`, `service/apikey.go`, `accesskey.go`, `oauthconfig.go`, `audit/query.go`,
`forwardedip.go`):

| In the module | In the code |
|---|---|
| `Ask` | a request: credential, addresses, and the fields its handler looks at |
| `req[r]` | the handler's goroutine: its step, its copy of a row, and in the end the status, the secret and the events |
| `rows`, `keys`, `issued` | `api_keys` and `oauth_provider_configs`; `access_keys`; ids given out |
| `Arrive`, `Limits` | the client's address, the limiter |
| `AuthenticateKey`, `AuthenticateToken`, `NoCredential`, `Admit` | `authenticate` and `scopeGate` |
| `Reveal`, `Touch` | `APIKeyService.Get` and the update of `last_used_at` behind it |
| `ReadForSave`, `InsertRow`, `UpdateRow` | `Create` and `Upsert`: the read, and the write with the copy |
| `Remove`, `List`, `ShapeOnly`, `NewKey` .. `ListKeys`, `CountTrail`, `PageTrail` | the other handlers, each statement a step |

A secret is named by the request that supplied it, and an envelope by the key-encryption key that
seals it.  `sinceRows` and `sinceKeys` are history: the versions a request could have met since it
came.

**VaultServer** composes them over one database, with processes that are killed (`Killed`: the
session's lock and transaction, the limiter's map, the sweep and the requests in flight go
together).  A *load* says how the system is found, which requests may come and what may go wrong.
One run explores nine loads, each a small instance for one concern: the same `Next` throughout, with
the bounds where that concern needs them.

### The client

**CredStore** (`internal/credstore`): `keyring`, `file` and the invocations that read, cut, write or
replace them; each call of the keyring and each read, write or rename of the file is a step.
`openers` are the invocations that have the present file open, so that a file which was replaced
meanwhile takes no further text; `intact` is what the last write meant to leave in the file, which is
there or is being written.  **Sessions** (`auth.go`, `client.go`, `internal/oauthdevice`) has
login, logout, status, and calls with the refresh before them; `issuer`, `live` and `rotated` are
the identity provider.  **SelfUpdate** (`update.go`, `internal/selfupdate`, `skill.go`) has the
passive check, the download, its verification and the replacement of the binary.  **DwVault**
composes three invocations, killed at any step, in ten loads.

## 3. Runs

| Run | Instance | Shows |
|---|---|---|
| `keyed_mutex` | 3 callers, 2 keys, 3 objects | mutual exclusion per key, the map holds exactly the keys in use, refinement of KeyLock with liveness |
| `tokens_steady` | 2 requests, 2 callbacks, 1 account, 1 row, 2 rotations, 1 fault, config removal | refreshes of one row are serial; what is sent is what is stored; the stored refresh token is live; no rotation is reverted, whatever fails; every request returns |
| `tokens_churn` | 2 requests, 2 callbacks, 2 accounts, 2 rows, token and provider removal | one row per account, removed rows stay removed |
| `oauth_flow` | 1 consent delivered twice, 1 config editor, 2 savers, 1 remover, 2 provider ids | a code is sent once; a provider keeps its id through racing edits and starts clean when it is added again; a deletion is all or nothing; every callback that began ends |
| `audit_pipeline` | 2 handlers of 2 events, channel 2, batch 2, 2 attempts, 2 faults | no duplicate row but for a lost answer, order, bounded memory, refinement of AuditLedger with liveness, the process stops |
| `vault_server` | 2 replicas, 4 requests, 2 users, 2 key-encryption keys, 2 migrations, 9 loads | see below |
| `dwvault` | 3 invocations, 2 hosts, 3 releases, 10 loads | see below |
| `tokens_relocked` | as churn, 1 account, token removal | **violated**: two requests refresh one row |
| `tokens_reconnected` | 1 account, no removal, consents that may bring no refresh token | **violated**: a refresh token that was rotated away is stored |
| `oauth_orphans` | as `oauth_flow` | **violated**: a row of a provider that was deleted |
| `audit_silent_loss` | channel 1, 1 fault | **violated**: an event ends nowhere |
| `audit_healthy_flush` | channel 1, no fault | **violated**: an event goes to the log on a healthy database |

What `vault_server` shows: migrations take effect once and in order, whoever starts, fails or is
killed (`MigratedOnce`), and replicas come up (`ReplicasStart`) and get their verifier
(`VerifierAppears`); no running window is forgotten (`RunningWindowKept`); nobody is served whose
credential has not entitled them since the request came (`AuthorizedOnly`); the audit trail says
what happened (`SecretsAreAudited`); a reveal or a blank edit never goes back behind what was stored
when the request came (`NoStaleSecret`); a 500 has a failed statement, a name that was taken or a
missing key-encryption key behind it (`ServerErrorsAreExplained`); rows change at the hands of their
owner and deleted ones stay deleted (`OnlyOwnRows`); the sweeps delete old entries and no young ones
(`OldEntriesGo`, `YoungEntriesStay`).

`NoStaleSecret` says what the code does and not more: an edit with a blank secret writes back the
ciphertext it read (`apikey.go:69`), so it undoes an edit with a new secret that it overlaps, and
the property allows exactly that.

What `dwvault` shows: a command finds what was stored for its host, or what is being stored
(`ReadsWhatWasStored`); a refresh token is refused only because another invocation has it replaced
at the same time (`RefusedOnlyByARace`); the binary is whole and no update lowers its version
(`NoDowngrade`); a device login ends (`DeviceLoginsEnd`).  Three of them have exceptions, which are
what the code leaves open:

* `ReadsWhatWasStored` exempts hosts in `spoiled`: a write or a logout that the keyring refuses
  while it holds an older credential (`credstore.go:126`, `:159`); a stale copy in a file that cannot
  be read (`:128`); entries that another invocation's read-change-replace of the file undoes
  (`:206`); a deletion written into a file that has been replaced (`:253`).
* `RefusedOnlyByARace` blames an invocation that had not stored the answer when this one began to
  read; any invocation, where the credential was read from a host in `spoiled`.  It counts one that was
  killed between the provider's answer and the store among the racing ones, and it assumes of the
  provider, which is not here, that it always replaces refresh tokens and revokes the old one at
  once, or never does.
* `NoDowngrade` exempts forced updates, and updates beside each other: each compares with the
  version it was started as.

### Bounds

* Three goroutines on two keys: two contend for a key while a third creates or drops an entry; three
  objects are as many as can be reachable at once.
* Two requests and two callbacks are the parties of every race in the token code.  `MaxRow` counts
  rows ever inserted: one for a life without removals, two for a removal followed by a reconnection.
  `MaxRotation = 2` lets a grant be rotated once, which is enough for a loser with the old token.
* `tokens_steady` excludes removals of rows and consents without refresh token, since there its two
  first properties are false; the two violated runs are exactly those two instances.  `tokens_churn`
  has them all and checks what holds in spite of them, without faults (a fault there only ends a
  request early).
* In `oauth_flow` two deliveries race for one state row; two savers are needed for an edit to meet a
  provider that another has added again; `MaxProvider = 2` is one deletion and one return.  The initial
  states have the provider, its config and a token of an earlier consent, or not.
* Two handlers of two events fill a channel of two and leave events behind; batches of two are seen
  full, half full and, in the drain, over full.  `MaxAttempts` is 4 in the code and 2 here: with two
  faults a batch is retried and stored, retried and given up, or cut off by the shutdown between the
  attempts; further attempts repeat the same choice.

* `vault_server`: the loads are `boot` and `upgrade` (two replicas that start, with failures, lost
  answers of a commit, a crash, a provider that is away; configurations `run()` refuses), `gate`
  (every kind of caller), `flood` (four hits of two addresses, one behind a proxy, across the end of
  a window), `keys`, `edits` and `rotation` (requests that overlap on the same rows; replicas with
  different keys), `retained` and `trail` (two sweeps beside a writer while days pass; the trail is
  read).  `budget` bounds launches, crashes, faults, outages, ticks, days and entries, one to three
  of each: every property is about the effect of one such event on what runs beside it.  `Limit = 1`
  makes the second hit of a window the refused one; in the loads that are about overlapping
  requests, each request comes from an address of its own.  `SweepAbove = 1` and `Batch = 2` stand
  for the code's 10,000 windows and its batch size, small enough to be reached.
* `PoolSize = 2` is the least a replica can migrate with, one connection for the lock and one for
  the statements (`migrate.go:29-77`).  With one, a replica waits for itself for ever: `PoolIsEnough` is
  an assumption on the deployment, and pgx's default of at least four meets it.
* `dwvault`: two invocations are the parties of each race over the file, the third reads beside
  them.  Two hosts share the file, so that a write for one can undo the other's.  Device codes live
  15 s, three turns of 5 s.  The three releases are a newer one, a fix of the old line published
  after it, and one that does not match its checksum.  The load `copies` has an expired session
  in both stores, of which a keyring that comes back shows the other one.  The client's types are
  part of what is proved (`ClientTypes`) and not a property of the run.

### Fairness

* `KeyedMutex`: strong fairness of each caller's statements.  Only the two `Lock()` calls can block,
  and `sync.Mutex` hands over to a waiter starved for a millisecond.  That a holder releases is
  justified by its only caller, which unlocks in a `defer` around work bounded by the HTTP client's
  30 s timeout (`cmd/vault/main.go:99`).
* `OAuthTokens`: strong fairness of each request in service, for the same lock; statements return
  and calls time out.  Nothing is assumed of callbacks, removals, time or new requests.
* `OAuthFlow`: strong fairness of each callback that has begun, because a statement that waits for
  a row is queued by Postgres and served when the deleting transaction ends, even if another
  deletion follows; weak fairness of the deletion once begun, whose deferred `Rollback` ends the
  transaction on every path.  Nothing is assumed of consents, edits or time.
* `AuditPipeline`: weak fairness of the writer and of the shutdown once a signal has come.  Nothing
  is assumed of handlers or signals.  Deadlock is not checked there: an exited process stops.

* `VaultServer`: weak fairness of each process's own goroutines: its start, its search for the
  identity provider, and its sweeps.  The database answers, `pg_advisory_lock` is handed on when its
  session ends, and nothing is assumed of clients, faults or the identity provider
  (`VerifierAppears` has its return as a premise).  Deadlock is not checked: when the budgets are
  spent, nothing has to happen.
* `DwVault`: weak fairness of each invocation that has begun, since each of its calls has a timeout;
  none of users and identity providers.  Deadlock is not checked: commands end.

## 4. What the violated runs say

1. **A lock on a row that is gone** (`tokens_relocked`).  `refresh` locks the id it read first, then
   reads again by account and refreshes whatever row it finds.  If the account was disconnected and
   connected again during the wait, it works on the new row under the old row's lock, beside a
   request that holds the new one: the race of `oauthtoken.go:48`.
2. **A reconnection outside the lock** (`tokens_reconnected`).  `storeToken` writes the whole row back.
   When the exchange returned no refresh token it keeps the one it read; a refresh in between has
   rotated it, and the stored one is dead.
3. **A batch that ends nowhere** (`audit_silent_loss`).  A shutdown during the delay between two
   attempts makes `persist` return before its last resort, and `flush` empties the batch.
4. **A flush on a cancelled context** (`audit_healthy_flush`).  After `cancelWorkers` the `select` may
   still choose the ticker or an event; that batch is flushed on the cancelled context, fails at once
   and goes to the log, though the drain was meant to persist it.

5. **A row left by a deletion** (`oauth_orphans`).  A callback or a config edit that resolved the
   provider before its deletion inserts its row after the `DELETE`s; no foreign key refuses it.
   `docs/oauth-providers.md:118` says that the deletion removes the configs and tokens.  A provider
   added again has a new id and does not find the row (`StartsClean`), so it stays unseen.

All five need a narrow window and lose at most one connection or one batch.  The repository's tests
never call a service from two goroutines.  They cancel the writer with a flush interval of an hour, so
that the ticker is not ready, and `TestWriterCancelDuringRetryBackoff` (`coverage_more_test.go:201`)
asserts that `Run` returns, not where its events went.

## 5. Proofs

TLAPS checks these for all values of the constants, that is for any number of callers, rows,
requests, replicas, invocations and hosts, under the named assumptions of the modules.  Most of those
only say that the marks (`NoOne`, `NoWindow`, `MarksAreNew`, ...) are not values and that bounds are
numbers.  Four say more: `PoolIsEnough`; `ActorsAreDistinct` (OAuthFlow); `ReleasesAreReleases`; and
`LoadsAreStates` of the server and of the client, that a load starts in a state the system can be in.
For the server: migrations recorded in order and all of them where a replica is up, a replica that is
up has a configuration `run()` accepts, tables that satisfy their unique indexes, entries with ids of
their own.  For the client: where keyring and file both have a host they agree, and one OAuth login
has been made, so that its refresh token is found at one host only.  TLC evaluates all of them on
the instances of the runs.  Four theorems about OAuthTokens have hypotheses beside these, named below.

**KeyedMutexProofs**: `TypeCorrect`, `Exclusion`, `NoIdleEntry`, `Refinement`.  Mutual exclusion is
not inductive: it holds because all users of a key share one object and the object's owner is the
holder, and that depends on the count.  `IInv` adds to the types: a caller between `k.mu.Lock` and
`k.mu.Unlock` is the guard's owner; the entry of a user's key is the object in its hand; two keys
never share an object; a holder owns its object; the count is the number of users; an entry without
users is one being created or dropped; and `drop` is only reached when nobody uses the key.
`Refinement` proves the initial states and every step against KeyLock; its liveness stays with TLC.

**OAuthTokensProofs**: `TypeCorrect`, `UniqueRows`, `NoResurrection`, `SerialRefresh`,
`RereadSeesTheRow`, `NoRotationReverts`, `StoredIsAccepted`.  Every step's
effect on the table is first reduced to one of three (keep the shape, insert a row for an account
that has none, remove rows); `UniqueRows` and `NoResurrection` follow from `TableInv`, which adds
that ids not yet given out have no row.  `SerialRefresh` assumes `NoRowRemoved`, the condition
`tokens_relocked` shows to be needed, and uses `SerialInv`: the lock excludes, a request past its
lookup has in hand the row that is still in the table for its account, and from the re-read on it
holds the lock of that very id.  `RereadSeesTheRow`, under the same condition, adds to it that the
copy in hand after the re-read is the row (`Current`): the row changes only at the hands of the
holder of its lock and of callbacks, and a callback makes it fresh or puts another grant there.

`NoRotationReverts` and `StoredIsAccepted` assume besides that every consent brings a refresh token
(`EveryConsentRefreshes`).  `tokens_reconnected` shows that the second needs it, and the pair of
conditions is what `tokens_steady` runs under.  `RotationInv` follows a grant over all the places
where a row can be: the table, a request's copy and a callback's (`Places`).  All places of a grant
bear one row id (`OneHome`), no place has a generation that the provider has not issued (`Issued`),
and what a request is about to store is the newest (`Rotated`); with the lock on that id, nobody else
can have stored a newer one in between.  `LiveInv` adds that a stored token is in force unless the
request that rotated it is at its store.

**OAuthFlowProofs**: `TypeCorrect`, `CodeOnce`, `StableIds`, `CleanStart`, `WholeDeletion`.
`FlowInv` adds to the types: at which steps each kind of actor can be (`Places`); that no table has
a row of a provider that has not been minted (`NothingAhead`), from which a provider that comes back
starts clean; and `ClaimedOnce`, which makes `CodeSentOnce` inductive: a consent's row is inserted
once, a callback that has claimed it is alone with it, and the code has not been sent while that
callback is on its way to the exchange.  Each action is shown to keep `FlowInv` and the three action
properties together.

**AuditPipelineProofs**: `TypeCorrect`, `Bounded`, `RowsInOrder`, `RowsOnce`, `StepsOfLedger`.
None of the four invariants is inductive.  `PipeInv` adds: what the writer has in hand at each step
and on which context (`Holding`); the room a batch has left there, which in the drain is what the
channel can still bring (`Room`); that no event is anywhere before it is emitted (`Past`); and that
the places stand in line (`InLine`): table and log before batch before channel, each in the order of
emission, unless the answer of the batch in hand was lost, and then all of that batch is in the
table.  The steps are first reduced to what they do to the data: an event joins the channel, moves to
the batch, a batch settles, nothing moves.  `StepsOfLedger` takes from `InLine` that the events of a
batch share their fate; the liveness of `Ledger` stays with TLC.

**StartupProofs**: `MigrationsTakeEffectOnce`, `NoYoungEntryIsSwept`.  `BootInv`: the lock is held
from its taking to the unlock, so that at most one replica is in between (`LockHeld`); an open
transaction has the body and the record of the version it is at (`Transaction`); the versions before
that one are recorded (`InOrder`).  `SweepInv`: a cutoff is never ahead of today's, ids are unique
and never used again, and the rows that a sweep has picked, if they are still there, are before its
cutoff.  The last needs the ids: between subselect and `DELETE` other sweeps and writers change the
table.

**RequestsProofs**: `RateTypes`, `WindowsKept`, of the limiter alone, `ServerKeepsWindows`,
`OnlyTheEntitledPass`.  `Timely` is the strengthening for the first three: what a request has read is
not ahead of the clock, and no window starts after it, so a request with an old time can only take a
window for running longer than it does.  `ServerKeepsWindows` says it of the whole server, where
processes make their maps and take them along.  For the last, `GateInv`: a request behind the gate
was entitled at a moment it has witnessed, and its replica keeps the configuration it serves with.
It takes from the proofs of Startup what can happen to a replica that is up.

**CredentialsProofs**: `OwnersOnly`, `TheTrailTells`, `ServerTypes`, `NothingStale`,
`EveryErrorHasAReason`.  For the first two, `CredInv`: a handler's copy is a row of its caller, it has
told the audit sink nothing about its outcome before it is answered, and no row's secret is the mark
of an answer without one (`NoSecretIsNew`).  For the others, `StoreInv`: the tables satisfy their
unique indexes (`TablesOK`), the rows a request has witnessed include those that are there now, and
the copy in a handler's hand is one of them, under the name it asked for (`CopyInv`).  An edit that
keeps the secret then keeps one that was there since it came, and a 500 without a failed statement is
a decryption of a witnessed row or an insert that met a name.  `ServerTypes` puts together the types
of all five components; it takes from `BootInv` that a replica only serves with a configuration it has
checked.

**DwVaultProofs**: `FindsWhatWasStored`, `RefusalsAreRaces`, `UpdatesGoForward`.  The client has some
thirty actions, and the proofs first reduce them to nine events (`NextIs`): an invocation rests,
carries a credential on, misses the keyring, finds a credential, gets one from the provider, has its
first effect, finishes its write, breaks off, or nothing of this moves.  What a read-change-replace of the
file takes away from others is in `Finishes`.

* `RefusalsAreRaces` rests on `RaceInv`.  `TokenInv`: a refresh token belongs to one host, and one
  that has just been granted is nowhere else.  `FreshInv`: where the stores are not in `spoiled`, no
  token in them was replaced by an invocation that is done, and an invocation at the provider has a
  token that none it knows to be done had replaced.  The hard step is the end of a write, which may
  declare that two stores agree again (`alone` in `Done`): `Undisturbed` says that then no other
  write can have been done in between.
* `FindsWhatWasStored` rests on `RaceInv` and `ReadsInv`: each credential in a store is settled or
  being written (`SlotsTold`); what a writer has in hand bears its name and no store has that name
  before its first effect (`Signed`, `NotYet`); a write leaves nothing older behind
  (`NothingOlder`); stores are empty only after a removal or during one (`Lasting`, `Persists`);
  and a reader between its two reads keeps what it may still find (`ReadersSee`, `QuietReaders`).
* `UpdatesGoForward` rests on `UpdateInv`: a download was compared with the version the invocation
  began with, and what is put in place was listed and whole.

The first attempt at `RefusalsAreRaces` did not go through, because the property was stated wrongly: it
asked whether a host is in `spoiled` when the provider refuses, and not when the credential was read.
An invocation may read the stale one of two copies, a new login makes the stores agree, and only then
is the stale token refused; the load `copies` has this run.  The exception is now taken at the read
(`known` in `Answered`), and a write makes two stores agree only if no other overlapped it (`alone`).

Only model-checked: liveness, all of it (`RequestsFinish`, `CallbacksFinish`, `ShutdownEnds`,
`ReplicasStart`, `VerifierAppears`, `OldEntriesGo`, `DeviceLoginsEnd`, and the liveness of
`OneLockPerKey` and `Ledger`), since the prover has no rules for fairness and ENABLED.  Every safety
property of a passing run is proved, but four of them under the conditions named above
(`OneRefreshPerRow`, `RefreshesWhatIsStored`, `RotationNeverReverts`, `StoredRefreshIsLive`), which
are those of the run that checks them, `tokens_steady`.

## 6. What is abstracted or left out

* Ciphers, JSON, URLs and the wording of errors and events.  `Emit`'s events in the token and flow
  services change nothing these services read; AuditPipeline takes them from there.  In Requests
  they are part of the answer, because a property is about them; that model has which events there
  are, AuditPipeline what becomes of them.
* Crashes are actions in VaultServer and DwVault.  In OAuthTokens, OAuthFlow and AuditPipeline a
  crash is a request that stops after any of its steps, which the safety properties already allow:
  what the server keeps in memory (the lock table, queued audit events) is gone with the process.
* Several server processes are modelled where they share the database (VaultServer).  The refresh
  lock is per process; two replicas would race as without it, and nothing in the repository promises
  otherwise.
* `last_used_at` of keys and credentials: written best-effort and shown, never decided upon.
* `httpSrv.Shutdown` may return at any time (its 15 s may pass), and handlers that outlive it are in
  the model; connections accepted after it are not.  An error of closing the batch result after the
  commit is ignored.

Not modelled:

* **In-memory store** (`store/memstore`): the double of the Postgres store in the tests; no binary
  uses it.
* **Generated API client**: one function per route that encodes a request and decodes the answer.
* **Portal**: a user interface over the same HTTP API; the server depends on none of its state.
* **Telemetry, outbound HTTP** (`httpx/safedial.go`): exporters, and a check of an address before
  each connection; neither keeps state.
* Parts of modelled components that are functions of their input: redaction of audit details, the
  forms of settings, flags and output, the fallback to the portal's files.

## 7. Plan

What is left, in order:

1. A type invariant for DwVault over all its variables, checked and proved like the server's;
   `ClientTypes` and `UpdateInv` have the parts the proofs need.
2. The steps of the two violated token runs as theorems: which removals and reconnections exactly break
   `OneRefreshPerRow` and `StoredRefreshIsLive`, with the weaker properties that hold in spite of them.
3. KeyLock under OAuthTokens: that OAuthTokens with KeyedMutex in the place of KeyLock still
   implements it, by the refinement that is proved.
4. Operators, checked against reference definitions over bounded inputs: scope filtering of a
   consent, the account lookup with its fallback to "default" (`oauthflow.go:307`), redaction.

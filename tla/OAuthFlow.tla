------------------------------ MODULE OAuthFlow ------------------------------
(***************************************************************************)
(* How an account gets connected: a user's provider under one slug         *)
(* (manifests/resolver.go), its app config (service/oauthconfig.go), the   *)
(* consents begun with it and the callbacks that complete them             *)
(* (service/oauthflow.go), and the removals of each.                       *)
(*                                                                         *)
(* Every goroutine is one actor, and a step is one SQL statement or one    *)
(* call to the provider.  The row of a provider is named by the provider   *)
(* id minted when it was inserted; each provider has one account here, for *)
(* rows of different accounts do not meet.  Edits change what is in a row  *)
(* and not whether it is there, and only the latter is modelled.           *)
(***************************************************************************)
EXTENDS Naturals

CONSTANTS Flow,        \* calls of Begin, each with its state row
          Delivery,    \* callback requests, each one call of Complete
          Editor,      \* goroutines that save app configs
          Saver,       \* goroutines that save the provider
          Remover,     \* the goroutine that deletes the provider
          MaxProvider  \* bound: providers ever inserted

ASSUME MaxProviderIsPositive == MaxProvider \in Nat \ {0}
ASSUME ActorsAreDistinct ==
    /\ Flow \cap (Delivery \cup Editor \cup Saver) = {}
    /\ Delivery \cap (Editor \cup Saver) = {}
    /\ Editor \cap Saver = {}
    /\ Remover \notin Flow \cup Delivery \cup Editor \cup Saver

VARIABLES provider,   \* the id of the slug's manifest row, 0 = no row
          minted,     \* manifest rows inserted so far
          config,     \* oauth_provider_configs: the ids that have one
          token,      \* oauth_tokens: the ids that have one
          state,      \* oauth_states: [Flow -> "none", "open", "expired" or "gone"]
          posts,      \* at the provider: [Flow -> times its code was presented]
          pc,         \* every actor's next step
          pid,        \* every actor's copy of the provider id
          seen,       \* whether an actor found the row it is about to write
          flow,       \* the flow a callback is for
          doomed      \* rows deleted by a transaction that has not committed: <<table, id>>

tables == <<provider, minted, config, token, state>>
locals == <<pid, seen, flow>>
vars == <<tables, posts, pc, locals, doomed>>

ProviderId == 1 .. MaxProvider
Actor == Flow \cup Delivery \cup Editor \cup Saver \cup {Remover}
OneShot == Flow \cup Delivery

TypeOK == /\ provider \in 0 .. MaxProvider /\ minted \in 0 .. MaxProvider
          /\ config \subseteq ProviderId /\ token \subseteq ProviderId
          /\ state \in [Flow -> {"none", "open", "expired", "gone"}]
          /\ posts \in [Flow -> Nat]
          /\ pc \in [Actor -> {"idle", "config", "insert", "claim", "resolve", "exchange",
                               "find", "write", "configs", "tokens", "commit", "done"}]
          /\ pid \in [Actor -> 0 .. MaxProvider]
          /\ seen \in [Actor -> BOOLEAN]
          /\ flow \in [Delivery -> Flow]
          /\ doomed \subseteq {"config", "token"} \X ProviderId
          /\ \A a \in Actor : pid[a] <= minted
          /\ \A a \in Actor \ Saver :
               pc[a] \in {"config", "exchange", "find", "write", "commit"} => pid[a] # 0

\* The provider may be there already, with or without its config and an earlier token.
Init == /\ provider \in {0, 1} /\ minted = provider
        /\ config \in SUBSET (1 .. minted) /\ token \in SUBSET (1 .. minted)
        /\ state = [f \in Flow |-> "none"]
        /\ posts = [f \in Flow |-> 0]
        /\ pc = [a \in Actor |-> "idle"]
        /\ pid = [a \in Actor |-> 0]
        /\ seen = [a \in Actor |-> FALSE]
        /\ flow \in [Delivery -> Flow]
        /\ doomed = {}

Goto(a, from, to) == pc[a] = from /\ pc' = [pc EXCEPT ![a] = to]

\* A return, which ends the local variables.  Consents and callbacks are served once,
\* the other actors again.
Return(a) == /\ pc' = [pc EXCEPT ![a] = IF a \in OneShot THEN "done" ELSE "idle"]
             /\ pid' = [pid EXCEPT ![a] = 0]
             /\ seen' = [seen EXCEPT ![a] = FALSE]
             /\ UNCHANGED flow

\* Any statement or call may fail, and every caller returns the error.
Fail(a) == /\ pc[a] \notin {"idle", "done"}
           /\ Return(a)
           /\ UNCHANGED <<tables, posts>>

\* GetManifestByKey, for one that needs the provider and returns without it.
Resolve(a, from, to) ==
    /\ pc[a] = from
    /\ \/ /\ provider # 0
          /\ Goto(a, from, to)
          /\ pid' = [pid EXCEPT ![a] = provider]
          /\ UNCHANGED <<seen, flow>>
       \/ provider = 0 /\ Return(a)
    /\ UNCHANGED <<tables, posts, doomed>>

\* GetOAuthConfigByProvider, the same.
NeedConfig(a, from, to) ==
    /\ pc[a] = from
    /\ \/ pid[a] \in config /\ Goto(a, from, to) /\ UNCHANGED locals
       \/ pid[a] \notin config /\ Return(a)
    /\ UNCHANGED <<tables, posts, doomed>>

\* An UPDATE or an INSERT waits for a row of its key whose deletion is not committed;
\* the INSERT then fails on the unique index if there is such a row.
Locked(table, p) == <<table, p>> \in doomed

-----------------------------------------------------------------------------
\* Begin.

BeginResolve(f) == Resolve(f, "idle", "config")
BeginConfig(f)  == NeedConfig(f, "config", "insert")
BeginInsert(f)  == /\ pc[f] = "insert"
                   /\ Return(f)
                   /\ state' = [state EXCEPT ![f] = "open"]
                   /\ UNCHANGED <<provider, minted, config, token, posts, doomed>>

\* Ten minutes pass.  The row stays until someone claims it.
Expire(f) == /\ state[f] = "open"
             /\ state' = [state EXCEPT ![f] = "expired"]
             /\ UNCHANGED <<provider, minted, config, token, posts, pc, locals, doomed>>

-----------------------------------------------------------------------------
\* Complete.

ReadState(d) ==
    /\ \/ state[flow[d]] = "open" /\ Goto(d, "idle", "claim")
       \/ state[flow[d]] # "open" /\ Goto(d, "idle", "done")
    /\ UNCHANGED <<tables, posts, locals, doomed>>

\* Mutant: the number of rows the DELETE removed is not looked at.
ClaimUnchecked(d) ==
    /\ Goto(d, "claim", "resolve")
    /\ state' = [state EXCEPT ![flow[d]] = "gone"]
    /\ UNCHANGED <<provider, minted, config, token, posts, locals, doomed>>

\* DeleteOAuthState: whoever removes the row goes on, even if it has expired since.
Claim(d) ==
    /\ \/ state[flow[d]] # "gone" /\ Goto(d, "claim", "resolve")
       \/ state[flow[d]] = "gone" /\ Goto(d, "claim", "done")
    /\ state' = [state EXCEPT ![flow[d]] = "gone"]
    /\ UNCHANGED <<provider, minted, config, token, posts, locals, doomed>>

\* Mutant: the manifest is not looked at before its id is used.
ResolveUnchecked(d) == /\ Goto(d, "resolve", "config")
                       /\ pid' = [pid EXCEPT ![d] = provider]
                       /\ UNCHANGED <<tables, posts, seen, flow, doomed>>

ResolveAgain(d) == Resolve(d, "resolve", "config")
ReadConfig(d)   == NeedConfig(d, "config", "exchange")

\* The code goes to the provider; a refusal is a Fail after it.
Exchange(d) == /\ Goto(d, "exchange", "find")
               /\ posts' = [posts EXCEPT ![flow[d]] = @ + 1]
               /\ UNCHANGED <<tables, locals, doomed>>

FindToken(d) == /\ Goto(d, "find", "write")
                /\ seen' = [seen EXCEPT ![d] = pid[d] \in token]
                /\ UNCHANGED <<tables, posts, pid, flow, doomed>>

StoreToken(d) ==
    /\ pc[d] = "write"
    /\ ~Locked("token", pid[d])
    /\ Return(d)
    /\ token' = IF seen[d] THEN token ELSE token \cup {pid[d]}
    /\ UNCHANGED <<provider, minted, config, state, posts, doomed>>

-----------------------------------------------------------------------------
\* OAuthConfigService.Upsert, and the deletion of a config or a token by its id.

EditResolve(e) == Resolve(e, "idle", "find")

FindConfig(e) == /\ Goto(e, "find", "write")
                 /\ seen' = [seen EXCEPT ![e] = pid[e] \in config]
                 /\ UNCHANGED <<tables, posts, pid, flow, doomed>>

StoreConfig(e) ==
    /\ pc[e] = "write"
    /\ ~Locked("config", pid[e])
    /\ Return(e)
    /\ config' = IF seen[e] THEN config ELSE config \cup {pid[e]}
    /\ UNCHANGED <<provider, minted, token, state, posts, doomed>>

DeleteConfig(p) == /\ p \in config /\ ~Locked("config", p)
                   /\ config' = config \ {p}
                   /\ UNCHANGED <<provider, minted, token, state, posts, pc, locals, doomed>>

DeleteToken(p) == /\ p \in token /\ ~Locked("token", p)
                  /\ token' = token \ {p}
                  /\ UNCHANGED <<provider, minted, config, state, posts, pc, locals, doomed>>

-----------------------------------------------------------------------------
\* UpsertOAuth: the id of the row that was read, or a new one.

ReadManifest(s) == /\ Goto(s, "idle", "write")
                   /\ pid' = [pid EXCEPT ![s] = provider]
                   /\ UNCHANGED <<tables, posts, seen, flow, doomed>>

\* Mutant: the id is made from the slug.
InsertSlugManifest == IF provider = 0
                        THEN provider' = 1 /\ minted' = 1
                        ELSE UNCHANGED <<provider, minted>>

\* The unique index on (user_id, kind, key) rejects a second row.
InsertManifest == IF provider = 0
                    THEN /\ minted < MaxProvider
                         /\ minted' = minted + 1
                         /\ provider' = minted + 1
                    ELSE UNCHANGED <<provider, minted>>

\* Mutant: UPDATE ... WHERE user_id=$1 AND kind=$2 AND key=$3.
UpdateManifestByKey(p) == provider' = IF provider = 0 THEN 0 ELSE p

\* UPDATE ... WHERE user_id=$1 AND id=$2: a row that is gone stays gone, also when
\* the slug has another row by then.
UpdateManifest(p) == provider' = IF provider = p THEN p ELSE provider

SaveManifest(s) ==
    /\ pc[s] = "write"
    /\ Return(s)
    /\ \/ pid[s] = 0 /\ InsertManifest
       \/ pid[s] # 0 /\ UpdateManifest(pid[s]) /\ UNCHANGED minted
    /\ UNCHANGED <<config, token, state, posts, doomed>>

-----------------------------------------------------------------------------
\* DeleteManifestCascade: one transaction at READ COMMITTED, in which each DELETE
\* sees the rows committed when it starts.

CascadeSelect ==
    /\ provider # 0
    /\ Goto(Remover, "idle", "configs")
    /\ pid' = [pid EXCEPT ![Remover] = provider]
    /\ UNCHANGED <<tables, posts, seen, flow, doomed>>

CascadeConfigs ==
    /\ Goto(Remover, "configs", "tokens")
    /\ doomed' = doomed \cup {<<"config", p>> : p \in config \cap {pid[Remover]}}
    /\ UNCHANGED <<tables, posts, locals>>

\* Mutant: the statement runs on the pool and not in the transaction.
CascadeTokensAtOnce ==
    /\ Goto(Remover, "tokens", "commit")
    /\ token' = token \ {pid[Remover]}
    /\ UNCHANGED <<provider, minted, config, state, posts, locals, doomed>>

CascadeTokens ==
    /\ Goto(Remover, "tokens", "commit")
    /\ doomed' = doomed \cup {<<"token", p>> : p \in token \cap {pid[Remover]}}
    /\ UNCHANGED <<tables, posts, locals>>

\* The DELETE of the manifest row, and COMMIT.
CascadeCommit ==
    /\ pc[Remover] = "commit"
    /\ Return(Remover)
    /\ provider' = 0
    /\ config' = {p \in config : ~Locked("config", p)}
    /\ token' = {p \in token : ~Locked("token", p)}
    /\ doomed' = {}
    /\ UNCHANGED <<minted, state, posts>>

\* Mutant: no deferred rollback.
LeaveOpen == Fail(Remover) /\ UNCHANGED doomed

\* A statement fails, and the deferred Rollback gives the rows back.
Rollback == Fail(Remover) /\ doomed' = {}

-----------------------------------------------------------------------------
Begin(f)    == BeginResolve(f) \/ BeginConfig(f) \/ BeginInsert(f)
Complete(d) == \/ ReadState(d) \/ Claim(d) \/ ResolveAgain(d) \/ ReadConfig(d)
               \/ Exchange(d) \/ FindToken(d) \/ StoreToken(d)
Edit(e)     == EditResolve(e) \/ FindConfig(e) \/ StoreConfig(e)
Save(s)     == ReadManifest(s) \/ SaveManifest(s)
Cascade     == \/ CascadeConfigs \/ CascadeTokens \/ CascadeCommit \/ Rollback

Next == \/ \E f \in Flow : Begin(f) \/ Expire(f)
        \/ \E d \in Delivery : Complete(d)
        \/ \E e \in Editor : Edit(e)
        \/ \E s \in Saver : Save(s)
        \/ \E a \in Actor \ {Remover} : Fail(a) /\ UNCHANGED doomed
        \/ \E p \in ProviderId : DeleteConfig(p) \/ DeleteToken(p)
        \/ CascadeSelect \/ Cascade

\* A callback that has begun runs on: a statement that waits for a row's lock is in a
\* queue, and gets it when the transaction ends, one way or the other.
Fairness == /\ \A d \in Delivery : SF_vars(pc[d] # "idle" /\ Complete(d))
            /\ WF_vars(Cascade)

Spec == Init /\ [][Next]_vars /\ Fairness

-----------------------------------------------------------------------------
\* A code is presented at the token endpoint once, however often its callback is
\* delivered: "exactly one callback may consume a state row" (oauthflow.go:186).
CodeSentOnce == \A f \in Flow : posts[f] <= 1

KeepsProviderId == provider # 0 => provider' \in {0, provider}

\* A provider keeps its id for life, through edits that race with each other, with
\* its deletion and with its return under the same slug: "The row keeps its stable
\* provider id across edits" (resolver.go:76-77).
StableProviderId == [][KeepsProviderId]_vars

AddsClean ==
    provider = 0 /\ provider' # 0 =>
      /\ provider' \notin config \cup token
      /\ \A a \in Actor : pid[a] # provider'

\* A provider that is added again starts without config and token, even of callbacks
\* and edits that were in flight when the old one was deleted (resolver.go:89).
StartsClean == [][AddsClean]_vars

DeletesAsOne ==
    \A p \in ProviderId :
      /\ p \in token \ token' => DeleteToken(p) \/ provider' # p
      /\ p \in config \ config' => DeleteConfig(p) \/ provider' # p

\* A token or an app config goes by its own deletion or together with its provider:
\* a deletion that fails half way has removed nothing (postgres.go:448-480).
DeletionIsAtomic == [][DeletesAsOne]_vars

\* A callback is not kept waiting by the rows a deletion holds (postgres.go:449-480).
CallbacksFinish == \A d \in Delivery : pc[d] # "idle" ~> pc[d] = "done"

\* "Deleting a provider removes that provider definition and its related app configs
\* and connected tokens" (docs/oauth-providers.md:118).
NoOrphans == config \cup token \subseteq {provider}
=============================================================================

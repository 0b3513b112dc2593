----------------------------- MODULE OAuthTokens -----------------------------
(***************************************************************************)
(* One user's connected accounts at one OAuth provider: the rows of        *)
(* vault.oauth_tokens, the requests that read and refresh them             *)
(* (service/oauthtoken.go), the callbacks that connect and reconnect       *)
(* accounts (service/oauthflow.go, from the claim of the state row on) and *)
(* the removals that race with both.                                       *)
(*                                                                         *)
(* A request is a goroutine; a step is one SQL statement, one call to the  *)
(* provider or one wait for the per-row lock, with the code around it that *)
(* touches no shared state.  Row ids grow with created_at.  An access      *)
(* token and its scopes are named by the callback (grant) they come from,  *)
(* a refresh token by its grant and its generation: a provider that        *)
(* rotates accepts the newest generation of a grant only.                  *)
(***************************************************************************)
EXTENDS Naturals

CONSTANTS Req,          \* goroutines that serve GetAccessToken
          Callback,     \* completed consents, each one call of Complete
          Account,      \* external accounts of the user
          AnyAccount,   \* a request that names no account
          NoRow,        \* no row
          NoRefresh,    \* no refresh token (an empty cipher)
          MaxRow,       \* bound: rows ever inserted
          MaxRotation,  \* bound: generations of one grant's refresh token
          MaxFaults,    \* bound: failed statements and lost calls, in total
          GivesRefresh, \* whether a code exchange may return a refresh token, or not
          GivesExpiry,  \* the lifetimes the provider may return
          Removals      \* which removals the user may ask for

ASSUME BoundsAreNat == MaxRow \in Nat /\ MaxRotation \in Nat /\ MaxFaults \in Nat
ASSUME ChoicesAreKnown == /\ GivesRefresh \subseteq BOOLEAN
                          /\ GivesExpiry \subseteq {"fresh", "due", "never"}
                          /\ Removals \subseteq {"token", "config", "provider"}

VARIABLES provider,   \* whether the provider's manifest row exists
          config,     \* whether its app config row exists
          rows,       \* oauth_tokens: [RowId -> Row or NoRow]
          created,    \* number of rows inserted so far
          live,       \* at the provider: the generation it accepts of each grant, 0 = none
          faults,     \* faults so far
          pc, acct,   \* a request: its next step, the account it asked for
          tok,        \* a request: its copy of a row, [id, row]
          reply,      \* a request: what the provider answered
          wants, holds,             \* the per-row locks (KeyLock)
          cpc, cacct, cnew, ctok    \* a callback: next step, account, grant, copy

lockVars == <<wants, holds>>
reqVars  == <<pc, acct, tok, reply>>
cbVars   == <<cpc, cacct, cnew, ctok>>
vars == <<provider, config, rows, created, live, faults, lockVars, reqVars, cbVars>>

RowId == 1 .. MaxRow
RefreshToken == [grant : Callback, gen : Nat]
Expiry == {"fresh", "due", "never"}  \* beyond the refresh window, within it, no expires_at
Row == [acct : Account, grant : Callback, refresh : RefreshToken \cup {NoRefresh},
        exp : Expiry]
Copy == [id : RowId, row : Row]
NoCopy == [id |-> 0]
Reply == [refresh : RefreshToken \cup {NoRefresh}, exp : Expiry]

\* An empty account in a lookup means any (postgres.go:369-382); no row has one, for an
\* account is what the provider names it or "default" (oauthflow.go:300-344).
ASSUME NullsAreNew == /\ AnyAccount \notin Account /\ NoRow \notin Row
                      /\ NoRefresh \notin RefreshToken \cup Reply

\* refreshLocks: one lock per token id, as KeyedMutex implements it.
Locks == INSTANCE KeyLock WITH Caller <- Req, Key <- RowId, NoKey <- 0

TypeOK == /\ provider \in BOOLEAN /\ config \in BOOLEAN
          /\ rows \in [RowId -> Row \cup {NoRow}]
          /\ created \in 0 .. MaxRow
          /\ live \in [Callback -> Nat]
          /\ faults \in Nat
          /\ pc \in [Req -> {"idle", "resolve", "find", "provider", "lock",
                             "reread", "post", "store"}]
          /\ acct \in [Req -> Account \cup {AnyAccount}]
          /\ tok \in [Req -> Copy \cup {NoCopy}]
          /\ reply \in [Req -> Reply \cup {NoRefresh}]
          /\ \A r \in Req : /\ pc[r] \notin {"idle", "resolve", "find"} => tok[r] # NoCopy
                            /\ pc[r] = "store" => reply[r] # NoRefresh
          /\ wants \in [Req -> RowId \cup {0}] /\ holds \in [Req -> RowId \cup {0}]
          /\ cpc \in [Callback -> {"exchange", "find", "write", "done"}]
          /\ cacct \in [Callback -> Account \cup {AnyAccount}]
          /\ cnew \in [Callback -> Reply \cup {NoRefresh}]
          /\ ctok \in [Callback -> Copy \cup {NoCopy}]
          /\ \A c \in Callback :
               cpc[c] \in {"find", "write"} => cacct[c] \in Account /\ cnew[c] \in Reply

Init == /\ provider = TRUE /\ config = TRUE
        /\ rows = [i \in RowId |-> NoRow]
        /\ created = 0
        /\ live = [c \in Callback |-> 0]
        /\ faults = 0
        /\ pc = [r \in Req |-> "idle"]
        /\ acct = [r \in Req |-> AnyAccount]
        /\ tok = [r \in Req |-> NoCopy]
        /\ reply = [r \in Req |-> NoRefresh]
        /\ Locks!Init
        /\ cpc = [c \in Callback |-> "exchange"]
        /\ cacct = [c \in Callback |-> AnyAccount]
        /\ cnew = [c \in Callback |-> NoRefresh]
        /\ ctok = [c \in Callback |-> NoCopy]

-----------------------------------------------------------------------------
\* The statements of store/postgres.go these services use.

Matches(i, a) == rows[i] # NoRow /\ (a = AnyAccount \/ rows[i].acct = a)

\* FindOAuthToken returns the newest matching row.
Found(i, a) == Matches(i, a) /\ \A j \in RowId : j > i => ~Matches(j, a)
NoneFound(a) == \A i \in RowId : ~Matches(i, a)

\* Mutant: an upsert, which writes the row whether or not it is still there.
UpsertToken(i, row) == rows' = [rows EXCEPT ![i] = row]

\* UPDATE ... WHERE id=$1: a row that is gone stays gone, and that is no error.
\* user, provider and account are not among the columns it sets.
UpdateToken(i, row) ==
    rows' = IF rows[i] = NoRow THEN rows ELSE [rows EXCEPT ![i] = [row EXCEPT !.acct = rows[i].acct]]

\* Mutant: no unique index on (user_id, provider_id, account).
InsertAnyToken(row) == /\ created < MaxRow
                       /\ created' = created + 1
                       /\ rows' = [rows EXCEPT ![created + 1] = row]

\* INSERT: the unique index on (user_id, provider_id, account) rejects a second row.
InsertToken(row) == IF NoneFound(row.acct)
                      THEN /\ created < MaxRow
                           /\ created' = created + 1
                           /\ rows' = [rows EXCEPT ![created + 1] = row]
                      ELSE UNCHANGED <<created, rows>>

Fault == faults < MaxFaults /\ faults' = faults + 1

-----------------------------------------------------------------------------
\* GetAccessToken and refresh.

Goto(r, from, to) == pc[r] = from /\ pc' = [pc EXCEPT ![r] = to]

\* A return: the deferred unlock runs and the locals are gone.
Return(r) == /\ pc' = [pc EXCEPT ![r] = "idle"]
             /\ acct' = [acct EXCEPT ![r] = AnyAccount]
             /\ tok' = [tok EXCEPT ![r] = NoCopy]
             /\ reply' = [reply EXCEPT ![r] = NoRefresh]
             /\ IF holds[r] = 0 THEN UNCHANGED lockVars ELSE Locks!Free(r)

GetAccessToken(r, a) ==
    /\ Goto(r, "idle", "resolve")
    /\ acct' = [acct EXCEPT ![r] = a]
    /\ UNCHANGED <<provider, config, rows, created, live, faults, tok, reply, lockVars, cbVars>>

ResolveProvider(r) ==
    /\ pc[r] = "resolve"
    /\ \/ /\ provider
          /\ Goto(r, "resolve", "find")
          /\ UNCHANGED <<faults, acct, tok, reply, lockVars>>
       \/ ~provider /\ Return(r) /\ UNCHANGED faults
       \/ Fault /\ Return(r)
    /\ UNCHANGED <<provider, config, rows, created, live, cbVars>>

\* Mutant: the row is used without the check that one was found.
FindUnchecked(r) ==
    /\ Goto(r, "find", "provider")
    /\ \/ \E i \in RowId : /\ Found(i, acct[r])
                           /\ tok' = [tok EXCEPT ![r] = [id |-> i, row |-> rows[i]]]
       \/ NoneFound(acct[r]) /\ UNCHANGED tok
    /\ UNCHANGED <<provider, config, rows, created, live, faults, acct, reply, lockVars, cbVars>>

\* A token outside the refresh window is returned as it is stored.
FindToken(r) ==
    /\ pc[r] = "find"
    /\ \/ \E i \in RowId :
            /\ Found(i, acct[r])
            /\ rows[i].exp = "due"
            /\ tok' = [tok EXCEPT ![r] = [id |-> i, row |-> rows[i]]]
            /\ Goto(r, "find", "provider")
            /\ UNCHANGED <<faults, acct, reply, lockVars>>
       \/ /\ \A i \in RowId : Found(i, acct[r]) => rows[i].exp # "due"
          /\ Return(r)
          /\ UNCHANGED faults
       \/ Fault /\ Return(r)
    /\ UNCHANGED <<provider, config, rows, created, live, cbVars>>

\* GetOAuth and GetOAuthConfigByProvider: without a manifest, a config or a refresh
\* token the stored token is returned as it is.  Neither row comes back once gone,
\* so both reads succeed exactly if both rows are there at the second.
ReadProvider(r) ==
    /\ pc[r] = "provider"
    /\ \/ /\ provider /\ config /\ tok[r].row.refresh # NoRefresh
          /\ Goto(r, "provider", "lock")
          /\ Locks!Ask(r, tok[r].id)
          /\ UNCHANGED <<faults, acct, tok, reply>>
       \/ /\ ~(provider /\ config /\ tok[r].row.refresh # NoRefresh)
          /\ Return(r)
          /\ UNCHANGED faults
       \/ Fault /\ Return(r)
    /\ UNCHANGED <<provider, config, rows, created, live, cbVars>>

\* Mutant: refresh does not wait for the lock of the row.
SkipRowLock(r) ==
    /\ Goto(r, "lock", "reread")
    /\ holds' = [holds EXCEPT ![r] = wants[r]]
    /\ UNCHANGED <<provider, config, rows, created, live, faults, acct, tok, reply, wants, cbVars>>

LockRow(r) ==
    /\ Goto(r, "lock", "reread")
    /\ Locks!Grant(r)
    /\ UNCHANGED <<provider, config, rows, created, live, faults, acct, tok, reply, cbVars>>

\* Mutant: the row is not read again once the lock is held.
KeepStaleCopy(r) ==
    /\ Goto(r, "reread", "post")
    /\ UNCHANGED <<provider, config, rows, created, live, faults, acct, tok, reply, lockVars, cbVars>>

\* Under the lock: a row that is fresh by now is returned, any other row found
\* replaces the copy (whatever its id), and no row or an error keeps it.
Reread(r) ==
    /\ pc[r] = "reread"
    /\ \/ \E i \in RowId :
            /\ Found(i, tok[r].row.acct)
            /\ rows[i].exp # "fresh"
            /\ tok' = [tok EXCEPT ![r] = [id |-> i, row |-> rows[i]]]
            /\ Goto(r, "reread", "post")
            /\ UNCHANGED <<faults, acct, reply, lockVars>>
       \/ /\ \E i \in RowId : Found(i, tok[r].row.acct) /\ rows[i].exp = "fresh"
          /\ Return(r)
          /\ UNCHANGED faults
       \/ /\ (NoneFound(tok[r].row.acct) /\ UNCHANGED faults) \/ Fault
          /\ Goto(r, "reread", "post")
          /\ UNCHANGED <<acct, tok, reply, lockVars>>
    /\ UNCHANGED <<provider, config, rows, created, live, cbVars>>

\* The provider accepts the newest generation of a grant, and may answer with the
\* next one, which from then on is the only one it accepts.
Accepts(t) == t # NoRefresh /\ live[t.grant] = t.gen

Rotates(t, new) == \/ new = NoRefresh /\ UNCHANGED live
                   \/ /\ t.gen < MaxRotation
                      /\ new = [t EXCEPT !.gen = @ + 1]
                      /\ live' = [live EXCEPT ![t.grant] = new.gen]

\* The POST of the refresh token.  A copy without refresh token does not decrypt
\* and is an error before the call; a refusal or an unusable answer is one after it.
Post(r) ==
    LET t == tok[r].row.refresh IN
    /\ pc[r] = "post"
    /\ \/ /\ Accepts(t)                               \* answered
          /\ \E e \in GivesExpiry, new \in {NoRefresh, [grant |-> t.grant, gen |-> t.gen + 1]} :
               /\ Rotates(t, new)
               /\ reply' = [reply EXCEPT ![r] = [refresh |-> new, exp |-> e]]
          /\ Goto(r, "post", "store")
          /\ UNCHANGED <<faults, acct, tok, lockVars>>
       \/ /\ Accepts(t) /\ Fault                      \* accepted, and the answer lost
          /\ \E new \in {NoRefresh, [grant |-> t.grant, gen |-> t.gen + 1]} : Rotates(t, new)
          /\ Return(r)
       \/ Fault /\ Return(r) /\ UNCHANGED live        \* not reached
       \/ ~Accepts(t) /\ Return(r) /\ UNCHANGED <<faults, live>>
    /\ UNCHANGED <<provider, config, rows, created, cbVars>>

Refreshed(copy, answer) ==
    [copy.row EXCEPT !.refresh = IF answer.refresh = NoRefresh THEN @ ELSE answer.refresh,
                     !.exp = answer.exp]

\* Mutant: the refresh token of the answer is not stored.
StoreAccessOnly(r) ==
    /\ pc[r] = "store"
    /\ UpdateToken(tok[r].id, [tok[r].row EXCEPT !.exp = reply[r].exp])
    /\ Return(r)
    /\ UNCHANGED <<provider, config, created, live, faults, cbVars>>

\* Mutant: an early return on a failed UPDATE that leaves the row locked.
StoreKeepsLock(r) ==
    /\ pc[r] = "store"
    /\ \/ UpdateToken(tok[r].id, Refreshed(tok[r], reply[r])) /\ Return(r) /\ UNCHANGED faults
       \/ /\ Fault
          /\ Goto(r, "store", "idle")
          /\ UNCHANGED <<rows, acct, tok, reply, lockVars>>
    /\ UNCHANGED <<provider, config, created, live, cbVars>>

Store(r) ==
    /\ pc[r] = "store"
    /\ \/ UpdateToken(tok[r].id, Refreshed(tok[r], reply[r])) /\ UNCHANGED faults
       \/ Fault /\ UNCHANGED rows
    /\ Return(r)
    /\ UNCHANGED <<provider, config, created, live, cbVars>>

-----------------------------------------------------------------------------
\* completeCore, once the state row is claimed, and storeToken.

CGoto(c, from, to) == cpc[c] = from /\ cpc' = [cpc EXCEPT ![c] = to]

\* The code exchange, which needs manifest and config, and the lookup of the
\* account.  Every failure on the way ends the callback.
Exchange(c) ==
    /\ \/ /\ provider /\ config
          /\ CGoto(c, "exchange", "find")
          /\ \E a \in Account, g \in GivesRefresh, e \in GivesExpiry :
               /\ live' = [live EXCEPT ![c] = IF g THEN 1 ELSE 0]
               /\ cacct' = [cacct EXCEPT ![c] = a]
               /\ cnew' = [cnew EXCEPT ![c] =
                    [refresh |-> IF g THEN [grant |-> c, gen |-> 1] ELSE NoRefresh, exp |-> e]]
       \/ CGoto(c, "exchange", "done") /\ UNCHANGED <<live, cacct, cnew>>
    /\ UNCHANGED <<provider, config, rows, created, faults, reqVars, lockVars, ctok>>

FindExisting(c) ==
    /\ \/ /\ CGoto(c, "find", "write")
          /\ \/ \E i \in RowId : /\ Found(i, cacct[c])
                                 /\ ctok' = [ctok EXCEPT ![c] = [id |-> i, row |-> rows[i]]]
             \/ NoneFound(cacct[c]) /\ UNCHANGED ctok
          /\ UNCHANGED faults
       \/ CGoto(c, "find", "done") /\ Fault /\ UNCHANGED ctok
    /\ UNCHANGED <<provider, config, rows, created, live, reqVars, lockVars, cacct, cnew>>

Connected(c) == [acct |-> cacct[c], grant |-> c, refresh |-> cnew[c].refresh, exp |-> cnew[c].exp]

\* A reconnection without refresh token keeps the one of the copy.
Reconnected(c) ==
    [Connected(c) EXCEPT !.refresh = IF @ = NoRefresh THEN ctok[c].row.refresh ELSE @]

StoreGrant(c) ==
    /\ CGoto(c, "write", "done")
    /\ \/ ctok[c] = NoCopy /\ InsertToken(Connected(c)) /\ UNCHANGED faults
       \/ ctok[c] # NoCopy /\ UpdateToken(ctok[c].id, Reconnected(c)) /\ UNCHANGED <<created, faults>>
       \/ Fault /\ UNCHANGED <<rows, created>>
    /\ UNCHANGED <<provider, config, live, reqVars, lockVars, cacct, cnew, ctok>>

-----------------------------------------------------------------------------
\* Removals, each one statement or one transaction, and the passing of time.

DeleteToken(i) ==
    /\ "token" \in Removals
    /\ rows[i] # NoRow
    /\ rows' = [rows EXCEPT ![i] = NoRow]
    /\ UNCHANGED <<provider, config, created, live, faults, reqVars, lockVars, cbVars>>

DeleteConfig ==
    /\ "config" \in Removals
    /\ config
    /\ config' = FALSE
    /\ UNCHANGED <<provider, rows, created, live, faults, reqVars, lockVars, cbVars>>

DeleteProvider ==
    /\ "provider" \in Removals
    /\ provider
    /\ provider' = FALSE /\ config' = FALSE
    /\ rows' = [i \in RowId |-> NoRow]
    /\ UNCHANGED <<created, live, faults, reqVars, lockVars, cbVars>>

Expire(i) ==
    /\ rows[i] # NoRow
    /\ rows[i].exp = "fresh"
    /\ rows' = [rows EXCEPT ![i].exp = "due"]
    /\ UNCHANGED <<provider, config, created, live, faults, reqVars, lockVars, cbVars>>

Refresh(r) == LockRow(r) \/ Reread(r) \/ Post(r) \/ Store(r)
Serve(r) == ResolveProvider(r) \/ FindToken(r) \/ ReadProvider(r) \/ Refresh(r)
Complete(c) == Exchange(c) \/ FindExisting(c) \/ StoreGrant(c)

Next == \/ \E r \in Req, a \in Account \cup {AnyAccount} : GetAccessToken(r, a)
        \/ \E r \in Req : Serve(r)
        \/ \E c \in Callback : Complete(c)
        \/ \E i \in RowId : DeleteToken(i) \/ Expire(i)
        \/ DeleteConfig \/ DeleteProvider

\* A handler runs on: its statements return and the provider answers or times out
\* (main.go:99).  The one wait is for the row's mutex, which a starved waiter is
\* handed (see KeyedMutex).  No one has to call, to consent or to remove anything.
Fairness == \A r \in Req : SF_vars(Serve(r))

Spec == Init /\ [][Next]_vars /\ Fairness

-----------------------------------------------------------------------------
\* Requests that have read the row under its lock and not yet returned.
Refreshing(r) == pc[r] \in {"post", "store"}

\* Two requests never refresh one row at the same time: "serialises refreshes per
\* token id (avoids rotating-token clobber)" (oauthtoken.go:48).
OneRefreshPerRow ==
    \A r, s \in Req : Refreshing(r) /\ Refreshing(s) /\ r # s => tok[r].id # tok[s].id

\* What a request is about to send is what is stored at that moment, and not yet
\* refreshed: "re-read the row -- a sibling may have already refreshed it"
\* (oauthtoken.go:159-160).  A failed re-read falls back to the older copy, and a
\* callback may put another grant in the row.
RefreshesWhatIsStored ==
    faults = 0 => \A r \in Req : pc[r] = "post" =>
      \/ rows[tok[r].id] = tok[r].row /\ tok[r].row.exp # "fresh"
      \/ rows[tok[r].id].grant # tok[r].row.grant

\* A stored refresh token is one the provider still accepts, but for the moment
\* between the provider's rotation and the UPDATE, and unless a call or a statement
\* failed.  Persisting a dead one disconnects the account for good
\* (oauthtoken.go:158-159).
StoredRefreshIsLive ==
    faults = 0 => \A i \in RowId :
      \/ rows[i] = NoRow
      \/ rows[i].refresh = NoRefresh
      \/ Accepts(rows[i].refresh)
      \/ \E r \in Req : pc[r] = "store" /\ tok[r].id = i

\* Whatever fails, no row goes back to an older generation of the same grant: the
\* loser of a race must not write the refresh token it read (oauthtoken.go:158-159).
RotationNeverReverts ==
    [][\A i \in RowId :
         /\ rows[i] # NoRow /\ rows'[i] # NoRow
         /\ rows[i].refresh # NoRefresh /\ rows'[i].refresh # NoRefresh
         /\ rows[i].refresh.grant = rows'[i].refresh.grant
         => rows'[i].refresh.gen >= rows[i].refresh.gen]_vars

\* A removed row does not come back: an UPDATE by a refresh or a callback that read
\* the row before its removal writes nothing (postgres.go:332-338, 385-388).
RemovedStaysRemoved ==
    [][\A i \in RowId : i <= created /\ rows[i] = NoRow => rows'[i] = NoRow]_vars

\* Two callbacks for one account that both found no row do not both insert one
\* (oauthflow.go:279-289).
OneRowPerAccount ==
    \A i, j \in RowId : rows[i] # NoRow /\ rows[j] # NoRow /\ rows[i].acct = rows[j].acct => i = j

\* Every request returns, whoever holds its row's lock and whatever fails.
RequestsFinish == \A r \in Req : pc[r] # "idle" ~> pc[r] = "idle"
=============================================================================

------------------------------- MODULE Sessions -------------------------------
(***************************************************************************)
(* The commands of dwvault that need or change a login: login by pasted    *)
(* key or by device authorization, status, logout, and the commands that   *)
(* call the vault, with the refresh of an OAuth credential that expires    *)
(* soon (cli/auth.go, client.go, main.go, internal/oauthdevice).           *)
(***************************************************************************)
EXTENDS CredStore

CONSTANT ExpiresIn   \* seconds a device code lives

VARIABLES issuer,    \* what the identity provider does: it replaces refresh tokens, says how
                     \* long access tokens live, and asks for an interval between polls
          hosts,     \* hosts.json: [Host -> where the credential is, or NoEntry]
          issued,    \* number of token answers so far; an answer's tokens bear its number
          live,      \* refresh tokens the identity provider accepts
          aged,      \* access tokens up to this number have expired or will within a minute
          rotated    \* [refresh token -> invocation that had it replaced] (history)

idpVars == <<issuer, issued, live, rotated>>
sessionVars == <<credVars, hosts, idpVars, aged>>

Calls == {"use", "create", "delete"}   \* list, get, header, shape, oauth and keys are "use"
Issuer == [rotates : BOOLEAN, lifetime : BOOLEAN, interval : Nat]
Ask == [cmd : Calls \cup {"login", "status", "logout"}, host : Host, env : BOOLEAN,
        force : BOOLEAN, mode : {"oauth", "api_key", "both", "none"}, usable : BOOLEAN]

-----------------------------------------------------------------------------
(* The beginning of a command *)

\* VAULT_API_KEY comes first and is never stored; a command whose arguments are unusable
\* ends before it looks for a credential.
FirstStep(q) == IF ~q.usable THEN "failed"
                ELSE IF q.cmd = "logout" THEN "unset"
                ELSE IF q.env THEN "call"
                ELSE IF q.cmd = "login" THEN "config" ELSE "keyring"

\* config.Load, before all of a login and after the deletion of a logout.
LoadConfig(p) ==
    /\ At(p, "config")
    /\ Change(p, [cfg |-> hosts, step |-> IF proc[p].ask.cmd = "logout" THEN "hosts"
                                    ELSE IF proc[p].ask.force THEN "mode" ELSE "keyring"])
    /\ UNCHANGED <<stores, available, history, budget, hosts, idpVars, aged>>

ExpiresSoon(expires) == expires = 0 \/ expires <= aged

\* requestAuth, and the switches of login and status on what was resolved.
Found(p) ==
    /\ At(p, "found")
    /\ LET c == proc[p].cred IN
       CASE proc[p].ask.cmd = "login" -> Ends(p, "failed")
         [] proc[p].ask.cmd # "login" /\ c.type = "api_key" -> Go(p, "call")
         [] proc[p].ask.cmd # "login" /\ c.type = "oauth" ->
              IF c.access # 0 /\ ~ExpiresSoon(c.expires) THEN Go(p, "call")
              ELSE IF c.refresh = 0 THEN Ends(p, "failed") ELSE Go(p, "refresh")
    /\ UNCHANGED <<stores, available, history, budget, hosts, idpVars, aged>>

Absent(p) == /\ At(p, "absent")
             /\ IF proc[p].ask.cmd = "login" THEN Go(p, "mode") ELSE Ends(p, "failed")
             /\ UNCHANGED <<stores, available, history, budget, hosts, idpVars, aged>>

-----------------------------------------------------------------------------
(* The identity provider, and the refresh of a credential *)

\* A refresh token is revoked when it is replaced.
Grant(p, old) ==
    LET n == issued + 1 IN
      /\ issued' = n /\ UNCHANGED issuer
      /\ IF old = 0 \/ issuer.rotates
           THEN /\ live' = (live \ {old}) \cup {n}
                /\ rotated' = IF old = 0 THEN rotated ELSE With(rotated, [r \in {old} |-> p])
           ELSE UNCHANGED <<live, rotated>>

TokenResponse(old) ==
    LET n == issued + 1
    IN  [access |-> n, refresh |-> IF old = 0 \/ issuer.rotates THEN n ELSE 0,
         expires |-> IF issuer.lifetime THEN n ELSE 0]

\* Mutant: a replaced refresh token is not taken over.
KeepRefreshToken(c, tok, p) ==
    [c EXCEPT !.by = p, !.access = tok.access,
              !.expires = IF tok.expires # 0 THEN tok.expires ELSE @]

\* updateOAuthCredential keeps what the answer leaves out.
UpdateCredential(c, tok, p) ==
    [c EXCEPT !.by = p, !.access = tok.access,
              !.refresh = IF tok.refresh # 0 THEN tok.refresh ELSE @,
              !.expires = IF tok.expires # 0 THEN tok.expires ELSE @]

RefreshGranted(p) ==
    /\ At(p, "refresh") /\ proc[p].cred.refresh \in live
    /\ Grant(p, proc[p].cred.refresh)
    /\ Change(p, [step |-> "set",
                  cred |-> UpdateCredential(proc[p].cred, TokenResponse(proc[p].cred.refresh), p)])
    /\ UNCHANGED <<stores, available, history, budget, hosts, aged>>

RefreshRefused(p) ==
    /\ At(p, "refresh") /\ proc[p].cred.refresh \notin live
    /\ Ends(p, "failed")
    /\ UNCHANGED <<stores, available, history, budget, hosts, idpVars, aged>>

\* Discovery, the token endpoint or the vault cannot be reached or answers something else.
\* A refresh whose answer is lost has been granted.
RemoteFails(p) ==
    /\ proc[p].step \in {"refresh", "mode", "poll token"} /\ Spend("fault")
    /\ Ends(p, "failed")
    /\ \/ UNCHANGED idpVars
       \/ At(p, "refresh") /\ proc[p].cred.refresh \in live /\ Grant(p, proc[p].cred.refresh)
    /\ UNCHANGED <<stores, available, history, hosts, aged>>

-----------------------------------------------------------------------------
(* Login *)

\* The choice of a mode; FetchConfig, Discover and Start of a device login.
ChooseMode(p) ==
    /\ At(p, "mode")
    /\ CASE proc[p].ask.mode = "oauth" ->
              Change(p, [step |-> "poll", left |-> ExpiresIn,
                         interval |-> IF issuer.interval <= 0 THEN 5 ELSE issuer.interval])
         [] proc[p].ask.mode = "api_key" -> Go(p, "prompt")
         [] OTHER -> Ends(p, "failed")
    /\ UNCHANGED <<stores, available, history, budget, hosts, idpVars, aged>>

\* The user pastes a key that the vault accepts, or none or another one.
PasteKey(p) ==
    /\ At(p, "prompt")
    /\ \/ Change(p, [step |-> "set", cred |-> [by |-> p, type |-> "api_key",
                                               access |-> 0, refresh |-> 0, expires |-> 0]])
       \/ Ends(p, "failed")
    /\ UNCHANGED <<stores, available, history, budget, hosts, idpVars, aged>>

\* Mutant: the deadline is taken afresh at every turn of the loop.
WaitAfresh(p) == ExpiresIn

Wait(p) == proc[p].left - proc[p].interval

\* A turn of Poll sleeps first, so that a code is never presented after its deadline.
Sleep(p) ==
    /\ At(p, "poll")
    /\ IF proc[p].interval > proc[p].left THEN Ends(p, "failed")
       ELSE Change(p, [step |-> "poll token", left |-> Wait(p)])
    /\ UNCHANGED <<stores, available, history, budget, hosts, idpVars, aged>>

NewCredential(p) == [by |-> p, type |-> "oauth", access |-> 0, refresh |-> 0, expires |-> 0]

\* authorization_pending and slow_down go round; every other error ends the login.
PollToken(p) ==
    /\ At(p, "poll token")
    /\ \/ /\ Grant(p, 0)
          /\ Change(p, [step |-> "set", left |-> 0, interval |-> 0,
                        cred |-> UpdateCredential(NewCredential(p), TokenResponse(0), p)])
       \/ /\ \/ Go(p, "poll")
             \/ Change(p, [step |-> "poll", interval |-> proc[p].interval + 5])
             \/ Ends(p, "failed")
          /\ UNCHANGED idpVars
    /\ UNCHANGED <<stores, available, history, budget, hosts, aged>>

\* config.Save writes the whole file from the copy that was loaded.
SaveHosts(p) ==
    /\ At(p, "hosts")
    /\ hosts' = [proc[p].cfg EXCEPT ![H(p)] = proc[p].kept]
    /\ Ends(p, "ok")
    /\ UNCHANGED <<stores, available, history, budget, idpVars, aged>>

\* Every other command makes one call of the vault with what it resolved, and ends.
CallVault(p) ==
    /\ At(p, "call") /\ proc[p].ask.cmd # "delete"
    /\ Ends(p, "ok") \/ Ends(p, "failed")
    /\ UNCHANGED <<stores, available, history, budget, hosts, idpVars, aged>>

\* A deletion by name lists the credentials first, and then calls with the id.
DeleteByName(p) ==
    /\ \/ At(p, "call") /\ proc[p].ask.cmd = "delete" /\ (Go(p, "call by id") \/ Ends(p, "failed"))
       \/ At(p, "call by id") /\ (Ends(p, "ok") \/ Ends(p, "failed"))
    /\ UNCHANGED <<stores, available, history, budget, hosts, idpVars, aged>>

\* Time passes until every access token issued so far has expired.
TokensAge == /\ aged < issued /\ Spend("age") /\ aged' = issued
             /\ UNCHANGED <<proc, stores, available, history, hosts, idpVars>>

Session(p) == \/ (Resolves(p) \/ Stores(p)) /\ UNCHANGED <<hosts, idpVars, aged>>
              \/ LoadConfig(p) \/ Found(p) \/ Absent(p) \/ RefreshGranted(p) \/ RefreshRefused(p)
              \/ ChooseMode(p) \/ Sleep(p) \/ PollToken(p) \/ SaveHosts(p) \/ CallVault(p) \/ DeleteByName(p)

-----------------------------------------------------------------------------
\* The identity provider refuses a refresh token only because of another invocation that
\* had it replaced and had not stored the answer when this one began to read, or never did:
\* one after the other, invocations go on with one login for ever, whether the provider
\* replaces the refresh token or leaves it out (client.go:100-107).  Of the hosts whose stores
\* disagree, see ReadsWhatWasStored, this says only that the token was replaced.
RefusedOnlyByARace ==
    [][\A p \in Proc :
         At(p, "refresh") /\ RefreshRefused(p) =>
           LET r == proc[p].cred.refresh
           IN  r \in DOMAIN rotated /\ rotated[r] \notin proc[p].known]_sessionVars

Polls(p) == At(p, "poll") \/ At(p, "poll token")

\* A device login ends: with the user's answer, or at the deadline of the code however
\* often the provider says that it is pending or asks to slow down (oauthdevice.go:117-151).
DeviceLoginsEnd == \A p \in Proc : Polls(p) ~> ~Polls(p)
=============================================================================

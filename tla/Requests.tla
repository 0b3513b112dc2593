------------------------------- MODULE Requests -------------------------------
(***************************************************************************)
(* The requests of the REST API: the address they are limited by, access   *)
(* keys and bearer tokens, scopes, and the handlers of stored credentials, *)
(* access keys, app configs and the audit trail with their services and    *)
(* statements.  A handler holds copies of what it read while other         *)
(* requests write.  A secret is named by the request that supplied it.     *)
(***************************************************************************)
EXTENDS Retention, TLC

CONSTANTS Name,         \* names of credentials, access keys and providers
          NoName,       \* a blank name
          Initial,      \* the secret of a row that was there at the start
          NoRow,        \* no row was found
          NoSecret,     \* an answer without secret
          Trusted       \* addresses of trusted proxies

ASSUME NoSecretIsNew == NoSecret \notin Req \cup {Initial}

VARIABLES req,       \* [Req -> step, request, caller, copy and answer]
          rows,      \* vault.api_keys and vault.oauth_provider_configs
          keys,      \* vault.access_keys
          issued,    \* ids given out so far
          sinceRows, \* [Req -> versions of rows since its arrival] (history)
          sinceKeys  \* [Req -> versions of keys since its arrival] (history)

tables == <<rows, keys, issued>>
history == <<sinceRows, sinceKeys>>
reqVars == <<req, tables, history>>

Scope == {"read", "readwrite", "audit"}
Kind == {"http_basic", "header_api_key", "opaque"}
Op == {"config", "me", "reveal", "save", "list", "shape", "remove",
       "newKey", "setKey", "removeKey", "listKeys", "audit"}
Table == {"api_keys", "configs"}

\* What a client sends: a credential, and the fields of the request.
Credential == [type : {"none"}] \cup [type : {"key"}, key : Nat]
              \cup [type : {"token"}, user : User, client : {"web", "cli", "other"},
                    valid : BOOLEAN, sub : BOOLEAN]

Ask == [op : Op, by : Credential, peer : Addr, hops : Seq(Addr \cup {NoAddr}), table : Table,
        name : Name \cup {NoName}, id : Nat, malformed : BOOLEAN, secret : BOOLEAN, kind : Kind,
        login : {"none", "given", "colon"}, header : BOOLEAN, known : BOOLEAN,
        scopes : SUBSET (Scope \cup {"blank", "unknown"}), enabled : BOOLEAN]

Secret == Req \cup {Initial}
Shape == [kind : Kind, login : {"none", "given"}, header : {"", "Authorization", "given"}, prefix : BOOLEAN]

\* A stored credential; the secret and the client id of an app config may be sealed
\* with different keys.
Row == [table : {"api_keys"}, id : Nat, user : User, name : Name, secret : Secret, kek : Kek, shape : Shape]
       \cup [table : {"configs"}, id : Nat, user : User, name : Name, secret : Secret, kek : Kek, idKek : Kek]

Key == [id : Nat, user : User, name : Name, scopes : SUBSET Scope, enabled : BOOLEAN]

Event == {"AuthSucceeded", "AuthFailed", "TokenAccessed", "TokenNotFound", "CredentialCreated",
          "AuditAccessed"}

\* Only http_basic and header_api_key carry a header, and only the second a prefix.
ShapeOK(s) == /\ s.kind = "http_basic" => s.header # "" /\ ~s.prefix
              /\ s.kind = "opaque" => s.header = "" /\ ~s.prefix

\* What the tables hold: their primary keys and unique indexes, and ids that were given out.
TablesOK(theRows, theKeys, given) ==
    /\ theRows \subseteq Row /\ theKeys \subseteq Key
    /\ \A x \in theRows : x.table = "api_keys" => ShapeOK(x.shape)
    /\ \A x, y \in theRows : x.id = y.id \/ <<x.table, x.user, x.name>> = <<y.table, y.user, y.name>> => x = y
    /\ \A x, y \in theKeys : x.id = y.id \/ <<x.user, x.name>> = <<y.user, y.name>> => x = y
    /\ \A x \in theRows \cup theKeys : x.id <= given

RequestTypeOK ==
    /\ \A r \in Req :
         /\ req[r].pc \in {"new", "limit", "auth", "serve", "touch", "write", "page", "done"}
         /\ req[r].who \in User \cup {NoOne}
         /\ req[r].copy \in rows \cup sinceRows[r] \cup {NoRow}
         /\ req[r].got \in Secret \cup {NoSecret}
         /\ req[r].events \subseteq Event
         /\ req[r].pc \notin {"new", "done"} => boot[req[r].at] = "up"
    /\ TablesOK(rows, keys, issued)

Idle == [pc |-> "new", at |-> NoOne, ask |-> NoRow, who |-> NoOne, copy |-> NoRow,
         status |-> 0, got |-> NoSecret, events |-> {}]

RequestInit(theRows, theKeys) ==
    /\ req = [r \in Req |-> Idle]
    /\ rows = theRows /\ keys = theKeys
    /\ issued = Cardinality(theRows \cup theKeys)
    /\ sinceRows = [r \in Req |-> {}] /\ sinceKeys = [r \in Req |-> {}]

InFlight(r) == req[r].pc \notin {"new", "done"}

\* Requests in flight witness the versions a write leaves behind.
Witness == /\ sinceRows' = [r \in Req |-> IF InFlight(r) THEN sinceRows[r] \cup rows' ELSE {}]
           /\ sinceKeys' = [r \in Req |-> IF InFlight(r) THEN sinceKeys[r] \cup keys' ELSE {}]

\* A record with the fields of another in place of its own.
With(old, change) == [f \in DOMAIN old \cup DOMAIN change |->
                        IF f \in DOMAIN change THEN change[f] ELSE old[f]]

Step(r, change) == req' = [req EXCEPT ![r] = With(@, change)]

\* writeJSON, writeError and the codes of writeServiceError.
Answer(r, code, secret, events) ==
    Step(r, [pc |-> "done", status |-> code, got |-> secret, copy |-> NoRow,
             events |-> req[r].events \cup events])
Refuse(r, code, events) == Answer(r, code, NoSecret, events)

Ours(r) == conf[req[r].at]
A(r) == req[r].ask

-----------------------------------------------------------------------------
(* Arrival: the client's address, the limiter, the credential, the scope. *)

\* If a trusted proxy sent it, the first usable hop, or X-Real-IP behind them; or the peer.
ClientAddress(q, a) ==
    IF q.peer \in Trusted /\ \E i \in DOMAIN q.hops : q.hops[i] # NoAddr
      THEN \E i \in DOMAIN q.hops : q.hops[i] = a /\ \A j \in 1 .. i - 1 : q.hops[j] = NoAddr
      ELSE a = q.peer

Arrive(r, p, q) ==
    /\ boot[p] = "up" /\ req[r].pc = "new"
    /\ \E a \in Addr : ClientAddress(q, a) /\ ReadClock(r, p, a)
    /\ Step(r, [pc |-> "limit", at |-> p, ask |-> q])
    /\ sinceRows' = [sinceRows EXCEPT ![r] = rows]
    /\ sinceKeys' = [sinceKeys EXCEPT ![r] = keys]
    /\ UNCHANGED tables

\* limits; /api/config is anonymous.
Limits(r) ==
    /\ req[r].pc = "limit" /\ Hit(r)
    /\ CASE ~Within(r) -> Refuse(r, 429, {})
         [] Within(r) /\ A(r).op = "config" -> Refuse(r, 200, {})
         [] OTHER -> Step(r, [pc |-> "auth"])
    /\ UNCHANGED <<tables, history>>

Writes == {"save", "remove", "newKey", "setKey", "removeKey"}
Required(op) == CASE op = "audit" -> "audit" [] op \in Writes -> "readwrite" [] OTHER -> "read"

\* readwrite implies read; audit stands alone.
HasScope(granted, required) ==
    required \in granted \/ (required = "read" /\ "readwrite" \in granted)

\* authenticate's end and scopeGate: the caller is known from here on.
Admit(r, user, granted, events) ==
    IF HasScope(granted, Required(A(r).op))
      THEN Step(r, [pc |-> "serve", who |-> user, events |-> events])
      ELSE Refuse(r, 403, events \cup {"AuthFailed"})

\* Mutant: Authenticate forgets to look at enabled.
AnyKey(r) == {k \in keys : k.id = A(r).by.key}

UsableKey(r) == {k \in keys : k.id = A(r).by.key /\ k.enabled}

\* An access key is looked up by its hash before the caller is known; an error counts
\* as an unknown key.  The touch behind it is best-effort.
AuthenticateKey(r) ==
    /\ req[r].pc = "auth" /\ A(r).by.type = "key"
    /\ \/ /\ UNCHANGED budget
          /\ \/ \E k \in UsableKey(r) : Admit(r, k.user, k.scopes, {"AuthSucceeded"})
             \/ UsableKey(r) = {} /\ Refuse(r, 401, {"AuthFailed"})
       \/ Spend("fault") /\ Refuse(r, 401, {"AuthFailed"})
    /\ UNCHANGED <<tables, history>>

\* The portal's tokens carry everything, the CLI's no audit, other clients' nothing.
VaultScopesFor(client) == CASE client = "web" -> Scope
                            [] client = "cli" -> Scope \ {"audit"}
                            [] OTHER -> {}

AuthenticateToken(r) ==
    /\ req[r].pc = "auth" /\ A(r).by.type = "token" /\ Ours(r).auth
    /\ LET t == A(r).by
       IN  CASE verifier[req[r].at] # "ready" -> Refuse(r, 503, {})
             [] verifier[req[r].at] = "ready" /\ ~t.valid -> Refuse(r, 401, {"AuthFailed"})
             [] verifier[req[r].at] = "ready" /\ t.valid /\ ~t.sub -> Refuse(r, 401, {})
             [] OTHER -> Admit(r, t.user, VaultScopesFor(t.client), {})
    /\ UNCHANGED <<budget, tables, history>>

NoCredential(r) ==
    /\ req[r].pc = "auth"
    /\ A(r).by.type = "none" \/ (A(r).by.type = "token" /\ ~Ours(r).auth)
    /\ Refuse(r, 401, {"AuthFailed"})
    /\ UNCHANGED <<budget, tables, history>>

-----------------------------------------------------------------------------
(* The handlers behind the gate. *)

Serving(r, op) == req[r].pc = "serve" /\ A(r).op = op /\ ~A(r).malformed

\* A body that is not JSON, an id that is no UUID, a time that is no RFC3339.
Malformed(r) ==
    /\ req[r].pc = "serve" /\ A(r).malformed
    /\ A(r).op \in Writes \cup {"audit"}
    /\ Refuse(r, 400, {})
    /\ UNCHANGED <<budget, tables, history>>

\* A statement that fails; a read or a touch has changed nothing.
QueryFails(r) ==
    /\ req[r].pc \in {"serve", "touch", "write", "page"} /\ A(r).op # "me" /\ ~A(r).malformed
    /\ Spend("fault") /\ Refuse(r, 500, {})
    /\ UNCHANGED <<tables, history>>

Find(t, u, n) == {x \in rows : x.table = t /\ x.user = u /\ x.name = n}

Own(t, u) == {x \in rows : x.table = t /\ x.user = u}

Me(r) == Serving(r, "me") /\ Refuse(r, 200, {}) /\ UNCHANGED <<budget, tables, history>>

\* Mutant: what was sealed with another key than the active one is not opened.
OpensActive(p, kek) == kek = conf[p].active

\* The envelope names the key its data key is wrapped with.
Opens(p, kek) == kek \in conf[p].keks

Reveal(r) ==
    /\ Serving(r, "reveal")
    /\ \/ /\ Find("api_keys", req[r].who, A(r).name) = {}
          /\ Refuse(r, 404, {"TokenNotFound"})
       \/ \E x \in Find("api_keys", req[r].who, A(r).name) :
            IF Opens(req[r].at, x.kek) THEN Step(r, [pc |-> "touch", copy |-> x])
                                       ELSE Refuse(r, 500, {})
    /\ UNCHANGED <<budget, tables, history>>

\* Mutant: the event is emitted before the touch that can still fail.
TouchAfterEvent(r) ==
    /\ req[r].pc = "touch"
    /\ \/ Answer(r, 200, req[r].copy.secret, {"TokenAccessed"}) /\ UNCHANGED budget
       \/ Spend("fault") /\ Refuse(r, 500, {"TokenAccessed"})
    /\ UNCHANGED <<tables, history>>

\* A reveal is recorded when nothing can keep its secret back any more.
Touch(r) == /\ req[r].pc = "touch"
            /\ Answer(r, 200, req[r].copy.secret, {"TokenAccessed"})
            /\ UNCHANGED <<budget, tables, history>>

\* Validation before the first statement; no provider is known by a blank name.
Acceptable(q) == q.name # NoName /\ IF q.table = "configs" THEN q.known ELSE q.login # "colon"

\* Create and Upsert read the row of that name, and go on with the copy.
ReadForSave(r) ==
    /\ Serving(r, "save")
    /\ LET found == Find(A(r).table, req[r].who, A(r).name)
       IN  \/ ~Acceptable(A(r)) /\ Refuse(r, 400, {})
           \/ Acceptable(A(r)) /\ found = {} /\ ~A(r).secret /\ Refuse(r, 400, {})
           \/ Acceptable(A(r)) /\ found = {} /\ A(r).secret /\ Step(r, [pc |-> "write"])
           \/ Acceptable(A(r)) /\ \E x \in found : Step(r, [pc |-> "write", copy |-> x])
    /\ UNCHANGED <<budget, tables, history>>

\* Mutant: an edit leaves the header of the former kind.
ShapeKeepingHeader(q) ==
    [kind |-> q.kind, login |-> q.login, prefix |-> FALSE, header |-> IF q.header THEN "given" ELSE ""]

\* What the kind makes of header and prefix.
ShapeOf(q) ==
    [kind |-> q.kind,
     login |-> q.login,
     header |-> CASE q.kind = "http_basic" -> IF q.header THEN "given" ELSE "Authorization"
                  [] q.kind = "header_api_key" -> IF q.header THEN "given" ELSE ""
                  [] OTHER -> "",
     prefix |-> q.kind = "header_api_key" /\ q.header]

\* What a save writes beside the secret.
Fields(r) == IF A(r).table = "api_keys" THEN [shape |-> ShapeOf(A(r))] ELSE [idKek |-> Ours(r).active]

\* Encrypt seals with the active key.
Sealed(r) == [secret |-> r, kek |-> Ours(r).active]

\* Mutant: a blank secret is written like any other.
EditedBlank(r) == With(With(req[r].copy, Sealed(r)), Fields(r))

\* The edited copy: a blank secret leaves the one that was read.
Edited(r) == With(IF A(r).secret THEN With(req[r].copy, Sealed(r)) ELSE req[r].copy, Fields(r))

NewRow(r) ==
    With(With([table |-> A(r).table, id |-> issued + 1, user |-> req[r].who, name |-> A(r).name],
              Sealed(r)), Fields(r))

\* The INSERT: another row of that name has come in between, or not.
InsertRow(r) ==
    /\ req[r].pc = "write" /\ req[r].copy = NoRow
    /\ IF Find(A(r).table, req[r].who, A(r).name) # {}
         THEN Refuse(r, 500, {}) /\ UNCHANGED tables
         ELSE /\ rows' = rows \cup {NewRow(r)} /\ issued' = issued + 1 /\ UNCHANGED keys
              /\ Refuse(r, 200, {"CredentialCreated"})
    /\ UNCHANGED budget /\ Witness

\* Mutant: the UPDATE inserts a row that has gone.
UpsertRow(r) == /\ req[r].pc = "write" /\ req[r].copy # NoRow
                /\ rows' = {x \in rows : x.id # req[r].copy.id} \cup {Edited(r)}
                /\ Refuse(r, 200, {})
                /\ UNCHANGED <<budget, keys, issued>> /\ Witness

\* The UPDATE by id: a row that has gone meanwhile is not missed.
UpdateRow(r) ==
    /\ req[r].pc = "write" /\ req[r].copy # NoRow
    /\ rows' = {IF x.id = req[r].copy.id /\ x.user = req[r].who THEN Edited(r) ELSE x : x \in rows}
    /\ Refuse(r, 200, {})
    /\ UNCHANGED <<budget, keys, issued>> /\ Witness

Remove(r) ==
    /\ Serving(r, "remove")
    /\ rows' = rows \ {x \in Own(A(r).table, req[r].who) : x.id = A(r).id}
    /\ Refuse(r, IF rows' # rows THEN 204 ELSE 404, {})
    /\ UNCHANGED <<budget, keys, issued>> /\ Witness

\* The list of app configs opens every client id to mask it; API keys are not opened.
List(r) ==
    /\ Serving(r, "list")
    /\ Refuse(r, IF \A x \in Own("configs", req[r].who) :
                      A(r).table = "configs" => Opens(req[r].at, x.idKek) THEN 200 ELSE 500, {})
    /\ UNCHANGED <<budget, tables, history>>

ShapeOnly(r) ==
    /\ Serving(r, "shape")
    /\ Refuse(r, IF Find("api_keys", req[r].who, A(r).name) # {} THEN 200 ELSE 404, {})
    /\ UNCHANGED <<budget, tables, history>>

-----------------------------------------------------------------------------
(* Access keys and the audit trail. *)

NormalizeScopes(s) == s \ {"blank"}

\* Create mints a key; its name is unique among the caller's.
NewKey(r) ==
    /\ Serving(r, "newKey")
    /\ LET scopes == NormalizeScopes(A(r).scopes)
           taken  == \E k \in keys : k.user = req[r].who /\ k.name = A(r).name
           valid  == A(r).name # NoName /\ scopes # {} /\ scopes \subseteq Scope
       IN  \/ ~valid /\ Refuse(r, 400, {}) /\ UNCHANGED tables
           \/ valid /\ taken /\ Refuse(r, 500, {}) /\ UNCHANGED tables
           \/ /\ valid /\ ~taken
              /\ keys' = keys \cup {[id |-> issued + 1, user |-> req[r].who, name |-> A(r).name,
                                     scopes |-> scopes, enabled |-> TRUE]}
              /\ issued' = issued + 1
              /\ Answer(r, 200, r, {"CredentialCreated"})
              /\ UNCHANGED rows
    /\ UNCHANGED budget /\ Witness

OwnKey(r) == {k \in keys : k.user = req[r].who /\ k.id = A(r).id}

SetKeyEnabled(r) ==
    /\ Serving(r, "setKey")
    /\ keys' = (keys \ OwnKey(r)) \cup {[k EXCEPT !.enabled = A(r).enabled] : k \in OwnKey(r)}
    /\ Refuse(r, IF OwnKey(r) # {} THEN 200 ELSE 404, {})
    /\ UNCHANGED <<budget, rows, issued>> /\ Witness

RemoveKey(r) ==
    /\ Serving(r, "removeKey")
    /\ keys' = keys \ OwnKey(r)
    /\ Refuse(r, IF OwnKey(r) # {} THEN 204 ELSE 404, {})
    /\ UNCHANGED <<budget, rows, issued>> /\ Witness

ListKeys(r) == Serving(r, "listKeys") /\ Refuse(r, 200, {}) /\ UNCHANGED <<budget, tables, history>>

\* The query counts first and reads the page with a second statement; only then is the
\* access to the trail recorded.
CountTrail(r) == /\ Serving(r, "audit")
                 /\ Step(r, [pc |-> "page"])
                 /\ UNCHANGED <<budget, tables, history>>

PageTrail(r) == /\ req[r].pc = "page"
                /\ Refuse(r, 200, {"AuditAccessed"})
                /\ UNCHANGED <<budget, tables, history>>

\* A killed process leaves its requests without an answer.
CutOff(p) == req' = [r \in Req |-> IF InFlight(r) /\ req[r].at = p
                                     THEN [req[r] EXCEPT !.pc = "done", !.copy = NoRow]
                                     ELSE req[r]]

Authenticate(r) == AuthenticateKey(r) \/ AuthenticateToken(r) \/ NoCredential(r)

Handle(r) == \/ Malformed(r) \/ QueryFails(r) \/ Me(r) \/ Reveal(r) \/ Touch(r)
             \/ ReadForSave(r) \/ InsertRow(r) \/ UpdateRow(r) \/ Remove(r) \/ List(r) \/ ShapeOnly(r)
             \/ NewKey(r) \/ SetKeyEnabled(r) \/ RemoveKey(r) \/ ListKeys(r)
             \/ CountTrail(r) \/ PageTrail(r)

-----------------------------------------------------------------------------
Ends(r) == InFlight(r) /\ req'[r].pc = "done"

\* What a request's credential entitled it to at some moment since its arrival.
Entitled(r, who) ==
    LET by == A(r).by
    IN  CASE by.type = "key" -> \E k \in sinceKeys[r] : /\ k.id = by.key /\ k.enabled /\ k.user = who
                                                        /\ HasScope(k.scopes, Required(A(r).op))
          [] by.type = "token" -> /\ Ours(r).auth /\ by.valid /\ by.sub /\ by.user = who
                                  /\ HasScope(VaultScopesFor(by.client), Required(A(r).op))
          [] OTHER -> FALSE

PassesOnlyEntitled ==
    \A r \in Req :
      Ends(r) /\ A(r).op # "config" /\ req'[r].status \in {200, 204, 400, 404, 500}
        => Entitled(r, req'[r].who)

\* Nobody gets past the gate with a key that was disabled or deleted before the request
\* came in, or one whose scopes do not include what the route asks: a key that is
\* switched off meanwhile serves the request in flight and no later one
\* (middleware.go:51-63, scopeGate).
AuthorizedOnly == [][PassesOnlyEntitled]_reqVars

TrailTells ==
    \A r \in Req : Ends(r) =>
      LET done == req'[r]
      IN  /\ "TokenAccessed" \in done.events <=> A(r).op = "reveal" /\ done.got # NoSecret
          /\ "TokenNotFound" \in done.events <=> A(r).op = "reveal" /\ done.status = 404
          /\ "CredentialCreated" \in done.events <=> issued' # issued
          /\ "AuditAccessed" \in done.events <=> A(r).op = "audit" /\ done.status = 200
          /\ done.status = 403 => "AuthFailed" \in done.events

\* The trail says what happened: a secret leaves with its event and an event without its
\* secret is not written, a creation is recorded when it took place and refused callers
\* are (apikey.go:175-198, middleware.go:45-46).
SecretsAreAudited == [][TrailTells]_reqVars

\* The secret that leaves, and the one a blank edit keeps, was stored since the request came.
Fresh(r, secret) ==
    /\ A(r).op = "reveal" /\ secret # NoSecret =>
         \E x \in sinceRows[r] : /\ <<x.table, x.user, x.name>> = <<"api_keys", req[r].who, A(r).name>>
                                 /\ x.secret = secret
    /\ \A y \in rows' \ rows : A(r).op = "save" /\ req[r].copy # NoRow /\ ~A(r).secret =>
         \E x \in sinceRows[r] : x.id = y.id /\ <<x.secret, x.kek>> = <<y.secret, y.kek>>

RevealsAndKeepsFresh == \A r \in Req : Ends(r) => Fresh(r, req'[r].got)

\* A reveal never answers with a secret that was replaced before it was asked for, and an
\* edit that leaves the secret blank keeps one that was stored since it came in: it may
\* undo an edit it overlaps, never an older one (apikey.go:69-70, oauthconfig.go:108-116).
NoStaleSecret == [][RevealsAndKeepsFresh]_reqVars

Conflict(r) == \/ A(r).op = "save" /\ Find(A(r).table, req[r].who, A(r).name) # {} /\ req[r].copy = NoRow
               \/ A(r).op = "newKey" /\ \E k \in keys : k.user = req[r].who /\ k.name = A(r).name

Explained(r) ==
    \/ budget' # budget
    \/ Conflict(r)
    \/ \E x \in sinceRows[r] :
         x.user = req[r].who /\ {x.kek, IF x.table = "configs" THEN x.idKek ELSE x.kek} \ Ours(r).keks # {}

ExplainsErrors == \A r \in Req : Ends(r) /\ req'[r].status = 500 => Explained(r)

\* An internal error has a reason: a statement that failed, a name that was taken
\* meanwhile, or a row sealed with a key this replica does not have.  A replica that
\* keeps the previous keys reads everything they sealed: "Keep all previous KEKs
\* configured so existing rows can still be decrypted" (docs/self-hosting.md:178).
ServerErrorsAreExplained == [][ExplainsErrors]_reqVars

ChangesOwnRows ==
    /\ \A x \in (rows \ rows') \cup (rows' \ rows) \cup (keys \ keys') \cup (keys' \ keys) :
         \E r \in Req : Ends(r) /\ req[r].who = x.user /\ A(r).op \in Writes
    /\ \A x \in rows' \cup keys' : x.id > issued \/ x.id \in {y.id : y \in rows \cup keys}

\* A row changes at the hands of a request of its owner that may write, and one that has
\* been deleted does not come back with an edit that had read it before
\* (postgres.go:160-163, WHERE user_id=$1 AND id=$2).
OnlyOwnRows == [][ChangesOwnRows]_reqVars
=============================================================================
